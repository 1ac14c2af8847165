--------------------------- MODULE RuntimeOptions ---------------------------
(***************************************************************************)
(* The transfer options of a request (runtime_options_with_memory of       *)
(* request.rs), the window they give an archive (adaptive_source_window_   *)
(* bytes of s3.rs) and the permits a number of bytes costs in the          *)
(* invocation-global budget (s3/archive/budget.rs).  Pure functions: bytes *)
(* and the code's own constants are scaled down by the instances.          *)
(***************************************************************************)
EXTENDS Integers

CONSTANTS
  Absent,             \* an option that the request leaves out
  MaxInteger,         \* MAX_SAFE_INTEGER
  MaxWord,            \* u64::MAX, and usize::MAX of the provider: no product is larger
  MiB,
  PermitUnit,         \* SOURCE_BUDGET_PERMIT_UNIT_BYTES
  MinBlock,           \* MIN_SOURCE_BLOCK_BYTES
  DefaultBlock,       \* DEFAULT_SOURCE_BLOCK_BYTES
  DefaultGap,         \* DEFAULT_SOURCE_BLOCK_MERGE_GAP_BYTES
  DefaultConcurrency, \* DEFAULT_TRANSFER_MAX_CONCURRENCY
  MaxConcurrency,     \* MAX_PARALLEL_TRANSFERS
  MemoryStep,         \* ADAPTIVE_SOURCE_GET_MEMORY_STEP_MB
  MaxAdaptiveGets,    \* ADAPTIVE_SOURCE_MAX_GET_CONCURRENCY
  MaxGets,            \* MAX_SOURCE_GET_CONCURRENCY
  BaseOverhead,       \* ADAPTIVE_CACHE_BASE_OVERHEAD
  WorkerOverhead,     \* ADAPTIVE_CACHE_WORKER_OVERHEAD
  FileOverhead,       \* ADAPTIVE_CACHE_FILE_OVERHEAD
  LargeThreshold,     \* ADAPTIVE_CACHE_LARGE_THRESHOLD
  LargeSlack,         \* ADAPTIVE_CACHE_LARGE_RSS_SLACK
  MaxWindow,          \* ADAPTIVE_CACHE_MAX_WINDOW_BYTES
  MaxPutAttempts,     \* MAX_PUT_OBJECT_ATTEMPTS
  MaxRetryDelay       \* MAX_RETRY_DELAY_MS

\* Half a MiB is a whole number of permits, 512 KiB of 4 KiB each, and is less than
\* what every window leaves free, 64 MiB.
ASSUME RuntimeAssumption ==
  /\ Absent \notin Nat
  /\ {MaxInteger, MaxWord, MinBlock, DefaultBlock, DefaultGap, DefaultConcurrency, MaxConcurrency,
      BaseOverhead, WorkerOverhead, FileOverhead, LargeThreshold, LargeSlack, MaxWindow,
      MaxPutAttempts, MaxRetryDelay} \subseteq Nat
  /\ {MiB, PermitUnit, MemoryStep, MaxAdaptiveGets, MaxGets, MinBlock} \subseteq Nat \ {0}
  /\ MaxAdaptiveGets <= MaxGets
  /\ MiB % (2 * PermitUnit) = 0
  /\ MiB <= 2 * BaseOverhead

-----------------------------------------------------------------------------
Lesser(a, b) == IF a <= b THEN a ELSE b
Greater(a, b) == IF a <= b THEN b ELSE a
Less(a, b) == Greater(a - b, 0)                 \* saturating_sub

Given(option, default) == IF option = Absent THEN default ELSE option

AdaptiveGets(memory) == Greater(1, Lesser(MaxAdaptiveGets, memory \div MemoryStep))

MemoryCap(raw) == (raw.memory * MiB) \div 2

Runtime(raw) ==
  [budget      |-> IF raw.budget = Absent THEN MemoryCap(raw) ELSE raw.budget * MiB,
   block       |-> Given(raw.block, DefaultBlock),
   gap         |-> Given(raw.gap, DefaultGap),
   gets        |-> Given(raw.gets, AdaptiveGets(raw.memory)),
   window      |-> raw.window,
   concurrency |-> Given(raw.concurrency, DefaultConcurrency)]

\* The retry options, the assumptions of RetryCoordinator on its delays.
RetryAccepted(retry) ==
  /\ retry.attempts \in 1 .. MaxPutAttempts
  /\ {retry.base, retry.cap, retry.slowBase, retry.slowCap} \subseteq 0 .. MaxRetryDelay
  /\ retry.base <= retry.cap /\ retry.slowBase <= retry.slowCap

\* What the request must satisfy to be accepted.
Accepted(raw) ==
  LET r == Runtime(raw) IN
  /\ raw.memory \in 1 .. MaxInteger /\ raw.memory * MiB <= MaxWord
  /\ raw.budget # Absent => raw.budget \in 1 .. MaxInteger /\ raw.budget * MiB <= MaxWord
  /\ r.budget <= MemoryCap(raw)
  /\ r.concurrency \in 1 .. MaxConcurrency
  /\ r.block \in MinBlock .. MaxInteger /\ r.block <= r.budget
  /\ r.gap \in 0 .. MaxInteger
  /\ r.gets \in 1 .. MaxGets
  /\ r.block * r.gets <= MaxWord /\ r.block * r.gets <= r.budget
  /\ r.window # Absent =>
       r.window \in 1 .. MaxInteger /\ r.block <= r.window /\ r.window <= r.budget
  /\ RetryAccepted(raw.retry)

-----------------------------------------------------------------------------
(* The window of an archive *)

Reserved(r, files) ==
  BaseOverhead + Greater(r.concurrency, 1) * WorkerOverhead + files * FileOverhead
    + Greater(r.gets, 1) * r.block

Capacity(r, len, files) ==
  LET room == Lesser(Less(Greater(r.budget \div MiB, 1) * MiB, Reserved(r, files)), len) IN
  Lesser(IF room > LargeThreshold THEN Less(room, LargeSlack) ELSE room, MaxWindow)

\* minimum_feed_capacity: blocks for every GET, or the whole archive.
Feed(r, len) == Lesser(Greater(r.block, 1) * Greater(r.gets, 1), Greater(len, 1))

WindowOf(r, len, files) ==
  IF r.window # Absent THEN r.window ELSE Greater(Capacity(r, len, files), Feed(r, len))

\* window_bytes of a store: at least one block.
StoreWindow(r, len, files) == Greater(WindowOf(r, len, files), Greater(r.block, 1))

-----------------------------------------------------------------------------
(* The budget, in permits *)

UnitOf(limit) == Lesser(PermitUnit, limit)
PermitTotal(limit) == limit \div UnitOf(limit)

\* permit_count: at least one byte, no more than the budget, rounded up.
Chargeable(limit, bytes) == 0 < bytes /\ bytes <= limit
PermitCount(limit, bytes) == (bytes + UnitOf(limit) - 1) \div UnitOf(limit)

=============================================================================
