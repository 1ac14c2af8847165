-------------------------- MODULE SourceBlockStore --------------------------
(***************************************************************************)
(* The shared source-block cache of the extracting transfer                *)
(* (s3/archive/block_store.rs) together with the invocation-global byte    *)
(* budget it draws on (s3/archive/budget.rs), the entry readers that       *)
(* consume its blocks (s3/archive/entry.rs) and the part of the transfer   *)
(* loop that starts, retries and ends those readers                        *)
(* (s3/transfer/upload.rs).                                                *)
(*                                                                         *)
(* One archive.  Its planned spans are coalesced into blocks; each planned *)
(* entry starts with one claim on every block of its span.  A scheduler    *)
(* task prefetches blocks in index order inside a local window; a reader   *)
(* that meets an absent block fetches it on demand.  A block stays         *)
(* resident, holding global permits, until its last claim is released.  A  *)
(* retried upload body adds claims again and may borrow beyond the window. *)
(*                                                                         *)
(* Every step below is one critical section of the store's mutex, or one   *)
(* await that completes.  Notify is enabled while the mutex is held, so    *)
(* a waiter is exactly a process whose `at` is "Notify" or "Capacity", and *)
(* notify_waiters moves every such process on.                             *)
(*                                                                         *)
(* Abstractions: a block is its byte range and one permit stands for one   *)
(* byte (the 4 KiB rounding is not modelled here); the local header lies   *)
(* in the first block of the span, as the planner guarantees.              *)
(*                                                                         *)
(* The operators named ...Slip are not part of the model: each is the      *)
(* definition that follows it with one plausible mistake, kept to show     *)
(* which property notices it.                                              *)
(***************************************************************************)
EXTENDS Naturals, FiniteSets, Sequences

CONSTANTS
  NumBlocks,      \* number of planned source blocks
  BlockStart,     \* [Block -> Nat]: first byte of each block
  BlockEnd,       \* [Block -> Nat]: one past the last byte of each block
  NumEntries,     \* number of planned ZIP entries, in admission order
  FirstBlock,     \* [Entry -> Block]: first block of the entry's span
  LastBlock,      \* [Entry -> Block]: last block of the entry's span
  WindowBytes,    \* local prefetch window
  BudgetBytes,    \* invocation-global budget
  GetConcurrency, \* source GET concurrency
  MaxInFlight,    \* transfer concurrency
  MaxAttempts     \* [Entry -> Nat]: bound on the body attempts of each entry

Block   == 1 .. NumBlocks
Entry   == 1 .. NumEntries

(***************************************************************************)
(* What planning and request validation guarantee: blocks are non-empty,   *)
(* disjoint and no larger than the budget; the window is at least a block  *)
(* (SourceBlockStore::new raises it) and at most the budget.  Entries are  *)
(* in offset order.  plan_source_blocks coalesces spans only up to the     *)
(* size of a block and tiles only a span larger than that, so two entries  *)
(* share a block only when neither has another (module BlockPlan).         *)
(***************************************************************************)
ASSUME SizesAssumption ==
  /\ NumBlocks \in Nat \ {0} /\ NumEntries \in Nat
  /\ WindowBytes \in Nat /\ BudgetBytes \in Nat
  /\ GetConcurrency \in Nat \ {0}
  /\ MaxInFlight \in Nat \ {0}

ASSUME BlocksAssumption ==
  /\ BlockStart \in [Block -> Nat]
  /\ BlockEnd \in [Block -> Nat]
  /\ \A b \in Block : BlockStart[b] < BlockEnd[b]
  /\ \A b, c \in Block : b < c => BlockEnd[b] <= BlockStart[c]
  /\ \A b \in Block : BlockEnd[b] - BlockStart[b] <= BudgetBytes

ASSUME EntriesAssumption ==
  /\ FirstBlock \in [Entry -> Block]
  /\ LastBlock \in [Entry -> Block]
  /\ \A e \in Entry : FirstBlock[e] <= LastBlock[e]
  /\ \A e, f \in Entry : e < f =>
       \/ LastBlock[e] < FirstBlock[f]
       \/ FirstBlock[e] = LastBlock[f]
  /\ MaxAttempts \in [Entry -> Nat \ {0}]

Len1(b)  == BlockEnd[b] - BlockStart[b]
Bytes(b) == BlockStart[b] .. BlockEnd[b] - 1
Content(S) == UNION {Bytes(b) : b \in S}
Weight(S) == Cardinality(Content(S))

Span(e) == FirstBlock[e] .. LastBlock[e]

\* A reader is one attempt to stream an entry; the prefetching scheduler
\* task shares the readers' reservation code.
Reader    == UNION {{e} \X (1 .. MaxAttempts[e]) : e \in Entry}
Scheduler == <<0, 0>>
Proc      == Reader \cup {Scheduler}

VARIABLES
  remaining,      \* [Block -> Nat]     SourceBlockSlot.remaining_claims
  live,           \* [Block -> Nat]     SourceBlockSlot.live_claims
  replayPriority, \* [Block -> BOOLEAN] SourceBlockSlot.replay_priority
  permit,         \* [Block -> BOOLEAN] SourceBlockSlot.budget_permit is Some
  status,         \* [Block -> Status]  SourceBlockSlot.status
  restore,        \* [Block -> BOOLEAN] SourceFetchReservation.restore_replay_priority
  committed,      \* SourceBlockState.window_committed_bytes
  resident,       \* SourceBlockState.resident_bytes
  failure,        \* SourceBlockState.failure is Some
  available,      \* free permits of the SourceByteBudget semaphore
  queue,          \* the semaphore's FIFO of waiting reservations
  at,             \* [Proc -> place in the reservation and fetch code]
  pos,            \* [Proc -> block being read, reserved or released]
  phase,          \* [Reader -> life of the attempt]
  outcome,        \* [Reader -> how the attempt ended]
  nextIndex,      \* next block run_scheduler looks at
  prefetch,       \* [Block -> state of run_scheduler's own fetch future]
  task,           \* [Entry -> state of the transfer task]
  attempt,        \* [Entry -> readers started]
  retained        \* [Entry -> claims wait for a reader to take them up]

slotVars   == <<remaining, live, replayPriority, permit, status, restore>>
sumVars    == <<committed, resident, failure>>
budgetVars == <<available, queue>>
readerVars == <<pos, phase, outcome>>
schedVars  == <<nextIndex, prefetch>>
taskVars   == <<task, attempt, retained>>
vars == <<slotVars, sumVars, budgetVars, at, readerVars, schedVars, taskVars>>

Status  == {"Pending", "Reserving", "Fetching", "Ready", "Released", "Failed"}
Place   == {"None", "Check", "Notify", "Reserve", "Capacity", "Permit",
            "Fetch", "Get", "Have",                  \* readers
            "Next", "Poll", "Stopped"}               \* the scheduler
Phase   == {"Idle", "Opening", "Reading", "DroppingClaim", "DroppingReader",
            "Closed"}
Outcome == {"None", "Ok", "Err", "Aborted"}
\* "Between": admitted, with no body being streamed at the moment.
TaskState == {"Waiting", "Between", "Running", "Done", "Failed"}

TypeOK ==
  /\ remaining \in [Block -> Nat]
  /\ live \in [Block -> Nat]
  /\ replayPriority \in [Block -> BOOLEAN]
  /\ permit \in [Block -> BOOLEAN]
  /\ status \in [Block -> Status]
  /\ restore \in [Block -> BOOLEAN]
  /\ committed \in Nat /\ resident \in Nat /\ failure \in BOOLEAN
  /\ available \in Nat /\ queue \in Seq(Proc)
  /\ at \in [Proc -> Place]
  /\ pos \in [Proc -> Block]
  /\ phase \in [Reader -> Phase]
  /\ outcome \in [Reader -> Outcome]
  /\ nextIndex \in 1 .. NumBlocks + 1
  /\ prefetch \in [Block -> {"None", "Pushed", "Getting"}]
  /\ task \in [Entry -> TaskState]
  /\ attempt \in [Entry -> Nat] /\ \A e \in Entry : attempt[e] <= MaxAttempts[e]
  /\ retained \in [Entry -> BOOLEAN]

-----------------------------------------------------------------------------
(* Arithmetic and notification helpers *)

\* u64::saturating_sub
SaturatingSub(a, b) == IF b <= a THEN a - b ELSE 0

\* notify_one instead of notify_waiters.
WokenSlip(signals) ==
  LET asleep(place, signal) == {p \in Proc : at[p] = place /\ signal \in signals}
      first(S, p) == p \in S /\ p = CHOOSE q \in S : TRUE
  IN  [p \in Proc |->
         IF first(asleep("Notify", "notify"), p) THEN "Check"
         ELSE IF first(asleep("Capacity", "capacity"), p) THEN "Reserve"
         ELSE at[p]]

\* Every process moved on by notify.notify_waiters() and/or
\* capacity_notify.notify_waiters().
Woken(signals) ==
  [p \in Proc |->
     IF at[p] = "Notify" /\ "notify" \in signals THEN "Check"
     ELSE IF at[p] = "Capacity" /\ "capacity" \in signals THEN "Reserve"
     ELSE at[p]]

\* A waiter leaves the semaphore's queue (it is in it once at most).
Leave(q, p) ==
  IF \E i \in DOMAIN q : q[i] = p
  THEN LET i == CHOOSE i \in DOMAIN q : q[i] = p
       IN  SubSeq(q, 1, i - 1) \o SubSeq(q, i + 1, Len(q))
  ELSE q

\* Where a process resumes when reserve_fetch returns None.
Resume(p) == IF p = Scheduler THEN "Next" ELSE "Check"

\* source.get_range calls in flight; fetch_semaphore admits GetConcurrency.
ActiveGets == Cardinality({r \in Reader : at[r] = "Get"})
              + Cardinality({b \in Block : prefetch[b] = "Getting"})

\* The claim stays armed after activate().
DropPhaseSlip(r) == "DroppingClaim"

\* A reader's error path: the attempt's claim or its live reader is dropped.
DropPhase(r) == IF phase[r] = "Opening" THEN "DroppingClaim"
                ELSE "DroppingReader"

\* An Err return to process p: a reader starts dropping what it holds, the
\* scheduler task ends and its FuturesUnordered is dropped (every slot has
\* failed already, so rollback_fetch finds nothing to undo).
ReturnErr(p, woken) ==
  IF p = Scheduler
  THEN /\ at' = [woken EXCEPT ![p] = "Stopped"]
       /\ prefetch' = [b \in Block |-> "None"]
       /\ UNCHANGED <<phase, outcome>>
  ELSE /\ at' = [woken EXCEPT ![p] = "None"]
       /\ phase' = [phase EXCEPT ![p] = DropPhase(p)]
       /\ outcome' = [outcome EXCEPT ![p] = "Err"]
       /\ UNCHANGED prefetch


(***************************************************************************)
(* SourceBlockStore::new and initial_claim_counts: one claim per planned   *)
(* entry on every block of its span, nothing fetched, nobody admitted.     *)
(***************************************************************************)
Init ==
  /\ remaining = [b \in Block |-> Cardinality({e \in Entry : b \in Span(e)})]
  /\ live = [b \in Block |-> 0]
  /\ replayPriority = [b \in Block |-> FALSE]
  /\ permit = [b \in Block |-> FALSE]
  /\ status = [b \in Block |-> "Pending"]
  /\ restore = [b \in Block |-> FALSE]
  /\ committed = 0 /\ resident = 0 /\ failure = FALSE
  /\ available = BudgetBytes /\ queue = <<>>
  /\ at = [p \in Proc |-> "None"]
  /\ pos = [p \in Proc |-> 1]
  /\ phase = [r \in Reader |-> "Idle"]
  /\ outcome = [r \in Reader |-> "None"]
  /\ nextIndex = 1
  /\ prefetch = [b \in Block |-> "None"]
  /\ task = [e \in Entry |-> "Waiting"]
  /\ attempt = [e \in Entry |-> 0]
  /\ retained = [e \in Entry |-> TRUE]

-----------------------------------------------------------------------------
(* reserve_fetch *)

Mode(p) == IF p = Scheduler THEN "Prefetch" ELSE "Demand"

\* The window stretches to a block larger than itself.
FitsWindow(b) ==
  committed + Len1(b) <= (IF WindowBytes >= Len1(b) THEN WindowBytes ELSE Len1(b))

\* No borrowing beyond the window.
MayCommitSlip(p, b) == FitsWindow(b)

\* A replayed block may go beyond the local window, everything else may not.
MayCommit(p, b) ==
  \/ Mode(p) = "Demand" /\ replayPriority[b]
  \/ FitsWindow(b)

\* A slot whose reservation is still waiting for permits counts as free.
ReservableSlip(b) == remaining[b] > 0 /\ status[b] \in {"Pending", "Reserving"}

\* Somebody still needs the block and nobody is fetching it.
Reservable(b) == remaining[b] > 0 /\ status[b] = "Pending"

ReserveFailed(p) ==
  /\ at[p] = "Reserve" /\ failure
  /\ ReturnErr(p, at)
  /\ UNCHANGED <<slotVars, sumVars, budgetVars, pos, nextIndex, taskVars>>

\* Nothing to fetch any more, or somebody else is fetching it: Ok(None).
ReserveNone(p) ==
  /\ at[p] = "Reserve" /\ ~failure /\ ~Reservable(pos[p])
  /\ at' = [at EXCEPT ![p] = Resume(p)]
  /\ UNCHANGED <<slotVars, sumVars, budgetVars, readerVars, schedVars, taskVars>>

ReserveCommit(p) ==
  LET b == pos[p] IN
  /\ at[p] = "Reserve" /\ ~failure /\ Reservable(b) /\ MayCommit(p, b)
  /\ committed' = committed + Len1(b)
  /\ restore' = [restore EXCEPT ![b] = replayPriority[b]]
  /\ replayPriority' = [replayPriority EXCEPT ![b] = FALSE]
  /\ status' = [status EXCEPT ![b] = "Reserving"]
  /\ queue' = Append(queue, p)
  /\ at' = [at EXCEPT ![p] = "Permit"]
  /\ UNCHANGED <<remaining, live, permit, resident, failure, available,
                 readerVars, schedVars, taskVars>>

\* The window is full: sleep on capacity_notify, enabled under the lock.
ReserveWait(p) ==
  /\ at[p] = "Reserve" /\ ~failure
  /\ Reservable(pos[p]) /\ ~MayCommit(p, pos[p])
  /\ at' = [at EXCEPT ![p] = "Capacity"]
  /\ UNCHANGED <<slotVars, sumVars, budgetVars, readerVars, schedVars, taskVars>>

\* The fair semaphore serves the head of the queue once its whole request is
\* free; the reservation then re-checks the slot under the lock.
PermitReady(p) ==
  /\ at[p] = "Permit"
  /\ queue # <<>> /\ Head(queue) = p
  /\ Len1(pos[p]) <= available
  /\ queue' = Tail(queue)

PermitTaken(p) ==
  LET b == pos[p] IN
  /\ PermitReady(p) /\ ~failure
  /\ remaining[b] > 0 /\ status[b] = "Reserving"
  /\ available' = available - Len1(b)
  /\ resident' = resident + Len1(b)
  /\ permit' = [permit EXCEPT ![b] = TRUE]
  /\ status' = [status EXCEPT ![b] = "Fetching"]
  /\ IF p = Scheduler
     THEN /\ at' = [Woken({"notify"}) EXCEPT ![p] = "Next"]
          /\ prefetch' = [prefetch EXCEPT ![b] = "Pushed"]
     ELSE /\ at' = [Woken({"notify"}) EXCEPT ![p] = "Fetch"]
          /\ UNCHANGED prefetch
  /\ UNCHANGED <<remaining, live, replayPriority, restore, committed, failure,
                 readerVars, nextIndex, taskVars>>

\* Every claim went away while the reservation waited for permits.
PermitUnneeded(p) ==
  LET b == pos[p] IN
  /\ PermitReady(p) /\ ~failure
  /\ remaining[b] = 0 \/ status[b] # "Reserving"
  /\ IF status[b] = "Reserving"
     THEN /\ committed' = SaturatingSub(committed, Len1(b))
          /\ status' = [status EXCEPT ![b] = "Released"]
     ELSE UNCHANGED <<committed, status>>
  /\ restore' = [restore EXCEPT ![b] = FALSE]
  /\ at' = [Woken({"capacity"}) EXCEPT ![p] = Resume(p)]
  /\ UNCHANGED <<remaining, live, replayPriority, permit, resident,
                 failure, available, readerVars, schedVars, taskVars>>

\* cancel() wakes the permit wait; a permit won in the same instant is
\* dropped again, so either way nothing is held and the slot has failed.
PermitCancelled(p) ==
  /\ at[p] = "Permit" /\ failure
  /\ queue' = Leave(queue, p)
  /\ ReturnErr(p, Woken({"notify", "capacity"}))
  /\ restore' = [restore EXCEPT ![pos[p]] = FALSE]
  /\ UNCHANGED <<remaining, live, replayPriority, permit, status, sumVars,
                 available, pos, nextIndex, taskVars>>

-----------------------------------------------------------------------------
(* The fetch of a reserved block, rollback_fetch and finish_fetch *)

\* finish_fetch(index, block, result), called by the future at process p
\* which moves on to `to`; the reservation is disarmed.
FinishFetch(b, ok, p, to) ==
  /\ restore' = [restore EXCEPT ![b] = FALSE]
  /\ IF failure \/ status[b] # "Fetching"
     THEN /\ at' = [at EXCEPT ![p] = to]
          /\ UNCHANGED <<permit, status, committed, resident, available>>
     ELSE IF ok /\ (remaining[b] > 0 \/ live[b] > 0)
     THEN /\ status' = [status EXCEPT ![b] = "Ready"]
          /\ at' = [Woken({"notify"}) EXCEPT ![p] = to]
          /\ UNCHANGED <<permit, committed, resident, available>>
     ELSE /\ status' = [status EXCEPT ![b] = IF ok THEN "Released" ELSE "Failed"]
          /\ permit' = [permit EXCEPT ![b] = FALSE]
          /\ available' = available + Len1(b)
          /\ resident' = SaturatingSub(resident, Len1(b))
          /\ committed' = SaturatingSub(committed, Len1(b))
          /\ at' = [Woken({"notify", "capacity"}) EXCEPT ![p] = to]

\* budget_permit.take() forgotten when the GET of b is given up.
RollbackFetchSlip(b, p, to, q) ==
  /\ queue' = q
  /\ restore' = [restore EXCEPT ![b] = FALSE]
  /\ UNCHANGED <<permit, available>>
  /\ IF status[b] \in {"Reserving", "Fetching"}
     THEN /\ committed' = SaturatingSub(committed, Len1(b))
          /\ resident' = SaturatingSub(resident, IF status[b] = "Fetching" THEN Len1(b) ELSE 0)
          /\ replayPriority' = [replayPriority EXCEPT ![b] = @ \/ restore[b]]
          /\ status' = [status EXCEPT ![b] = "Pending"]
          /\ at' = [Woken({"notify", "capacity"}) EXCEPT ![p] = to]
     ELSE /\ at' = [at EXCEPT ![p] = to]
          /\ UNCHANGED <<replayPriority, status, committed, resident>>

\* Drop of an armed SourceFetchReservation on b, whose process p continues
\* at `to`; q is the semaphore queue once p's wait has been dropped too.
RollbackFetch(b, p, to, q) ==
  /\ queue' = q
  /\ restore' = [restore EXCEPT ![b] = FALSE]
  /\ IF status[b] \in {"Reserving", "Fetching"}
     THEN /\ committed' = SaturatingSub(committed, Len1(b))
          /\ IF status[b] = "Fetching"
             THEN /\ resident' = SaturatingSub(resident, Len1(b))
                  /\ permit' = [permit EXCEPT ![b] = FALSE]
                  /\ available' = available + Len1(b)
             ELSE UNCHANGED <<resident, permit, available>>
          /\ replayPriority' = [replayPriority EXCEPT ![b] = @ \/ restore[b]]
          /\ status' = [status EXCEPT ![b] = "Pending"]
          /\ at' = [Woken({"notify", "capacity"}) EXCEPT ![p] = to]
     ELSE /\ at' = [at EXCEPT ![p] = to]
          /\ UNCHANGED <<replayPriority, permit, status, committed, resident,
                         available>>

\* A reader's demand fetch gets a fetch_semaphore permit and sends the GET.
DemandGet(r) ==
  /\ at[r] = "Fetch" /\ ~failure
  /\ ActiveGets < GetConcurrency
  /\ at' = [at EXCEPT ![r] = "Get"]
  /\ UNCHANGED <<slotVars, sumVars, budgetVars, readerVars, schedVars, taskVars>>

\* The GET of a demand fetch ends, or the closed semaphore fails it at once.
DemandDone(r, ok) ==
  /\ at[r] = "Get" \/ (at[r] = "Fetch" /\ failure)
  /\ FinishFetch(pos[r], ok, r, "Check")
  /\ UNCHANGED <<remaining, live, replayPriority, failure, queue,
                 readerVars, schedVars, taskVars>>

-----------------------------------------------------------------------------
(* slice_from and EntryDataReader *)

Active(r) == phase[r] \in {"Opening", "Reading"}

SliceReady(r) ==
  /\ at[r] = "Check" /\ ~failure
  /\ status[pos[r]] = "Ready"
  /\ at' = [at EXCEPT ![r] = "Have"]
  /\ UNCHANGED <<slotVars, sumVars, budgetVars, readerVars, schedVars, taskVars>>

SliceWait(r) ==
  /\ at[r] = "Check" /\ ~failure
  /\ status[pos[r]] \in {"Fetching", "Reserving"}
  /\ at' = [at EXCEPT ![r] = "Notify"]
  /\ UNCHANGED <<slotVars, sumVars, budgetVars, readerVars, schedVars, taskVars>>

SliceDemand(r) ==
  /\ at[r] = "Check" /\ ~failure
  /\ status[pos[r]] = "Pending" /\ remaining[pos[r]] > 0
  /\ at' = [at EXCEPT ![r] = "Reserve"]
  /\ UNCHANGED <<slotVars, sumVars, budgetVars, readerVars, schedVars, taskVars>>

SliceError(r) ==
  /\ at[r] = "Check"
  /\ \/ failure
     \/ status[pos[r]] \in {"Failed", "Released"}
     \/ status[pos[r]] = "Pending" /\ remaining[pos[r]] = 0
  /\ ReturnErr(r, at)
  /\ UNCHANGED <<slotVars, sumVars, budgetVars, pos, nextIndex, taskVars>>

\* open_entry_data_reader_with_claim has copied the local header and
\* activates its claim; the data reader starts again at the first block.
ActivateReader(r) ==
  LET span == Span(r[1]) IN
  /\ at[r] = "Have" /\ phase[r] = "Opening" /\ ~failure
  /\ \A b \in span : remaining[b] > 0 /\ status[b] # "Released"
  /\ live' = [b \in Block |-> IF b \in span THEN live[b] + 1 ELSE live[b]]
  /\ phase' = [phase EXCEPT ![r] = "Reading"]
  /\ at' = [at EXCEPT ![r] = "Check"]
  /\ UNCHANGED <<remaining, replayPriority, permit, status, restore, sumVars,
                 budgetVars, pos, outcome, schedVars, taskVars>>

ActivateError(r) ==
  /\ at[r] = "Have" /\ phase[r] = "Opening"
  /\ \/ failure
     \/ \E b \in Span(r[1]) : remaining[b] = 0 \/ status[b] = "Released"
  /\ ReturnErr(r, at)
  /\ UNCHANGED <<slotVars, sumVars, budgetVars, pos, nextIndex, taskVars>>

\* budget_permit.take() forgotten.
ReleaseReadySlip(S) ==
  /\ status' = [b \in Block |-> IF b \in S THEN "Released" ELSE status[b]]
  /\ resident' = SaturatingSub(resident, Weight(S))
  /\ committed' = SaturatingSub(committed, Weight(S))
  /\ UNCHANGED <<permit, available>>

\* The last claim on the ready blocks S is gone: give their memory back.
ReleaseReady(S) ==
  /\ permit' = [b \in Block |-> permit[b] /\ b \notin S]
  /\ available' = available + Weight({b \in S : permit[b]})
  /\ status' = [b \in Block |-> IF b \in S THEN "Released" ELSE status[b]]
  /\ resident' = SaturatingSub(resident, Weight(S))
  /\ committed' = SaturatingSub(committed, Weight(S))

\* Claims that no live reader holds yet do not count.
LastClaimSlip(b, left) == live[b] = 1

\* A reader's release leaves no claim of any kind on the block.
LastClaim(b, left) == live[b] = 1 /\ left = 0

\* release_block_reader(b), called by reader r which continues at `to`.
ReleaseBlockReader(b, r, to) ==
  IF live[b] = 0
  THEN /\ at' = [at EXCEPT ![r] = to]
       /\ UNCHANGED <<remaining, live, replayPriority, permit, status,
                      committed, resident, available>>
  ELSE LET left == SaturatingSub(remaining[b], 1) IN
       /\ live' = [live EXCEPT ![b] = @ - 1]
       /\ remaining' = [remaining EXCEPT ![b] = left]
       /\ replayPriority' =
            [replayPriority EXCEPT ![b] =
               @ \/ (left = 0 /\ status[b] \in {"Pending", "Reserving", "Fetching"})]
       /\ IF LastClaim(b, left) /\ status[b] = "Ready"
          THEN /\ ReleaseReady({b})
               /\ at' = [Woken({"capacity"}) EXCEPT ![r] = to]
          ELSE /\ at' = [at EXCEPT ![r] = to]
               /\ UNCHANGED <<permit, status, committed, resident, available>>

\* The reader has passed the end of its block and releases it, whether it
\* read the bytes (at = "Have") or is being dropped.
NextBlockOr(r, last, more) ==
  IF pos[r] = LastBlock[r[1]]
  THEN /\ phase' = [phase EXCEPT ![r] = "Closed"]
       /\ outcome' = [outcome EXCEPT ![r] = last]
       /\ UNCHANGED pos
  ELSE /\ pos' = [pos EXCEPT ![r] = @ + 1]
       /\ phase' = [phase EXCEPT ![r] = more]
       /\ UNCHANGED outcome

ConsumeBlock(r) ==
  /\ at[r] = "Have" /\ phase[r] = "Reading"
  /\ ReleaseBlockReader(pos[r], r,
                        IF pos[r] = LastBlock[r[1]] THEN "None" ELSE "Check")
  /\ NextBlockOr(r, "Ok", "Reading")
  /\ UNCHANGED <<restore, failure, queue, schedVars, taskVars>>

\* EntryDataReader::drop releases the blocks it has not passed, in order.
DropReaderBlock(r) ==
  /\ phase[r] = "DroppingReader"
  /\ ReleaseBlockReader(pos[r], r, "None")
  /\ NextBlockOr(r, outcome[r], "DroppingReader")
  /\ UNCHANGED <<restore, failure, queue, schedVars, taskVars>>

\* Drop of an EntryAttemptClaim that was never activated:
\* release_entry_attempt gives back one claim on every block of the span.
DropClaim(r) ==
  LET span  == Span(r[1])
      ended == {b \in span : remaining[b] = 1 /\ live[b] = 0}
      freed == {b \in ended : status[b] = "Ready"}
      lost  == {b \in ended : status[b] \in {"Pending", "Reserving", "Fetching"}}
  IN
  /\ phase[r] = "DroppingClaim"
  /\ remaining' = [b \in Block |-> IF b \in span
                                   THEN SaturatingSub(remaining[b], 1)
                                   ELSE remaining[b]]
  /\ replayPriority' = [b \in Block |-> replayPriority[b] \/ b \in lost]
  /\ ReleaseReady(freed)
  /\ at' = IF freed = {} THEN at ELSE Woken({"capacity"})
  /\ phase' = [phase EXCEPT ![r] = "Closed"]
  /\ pos' = [pos EXCEPT ![r] = LastBlock[r[1]]]    \* closed: read no more
  /\ UNCHANGED <<live, restore, failure, queue, outcome, schedVars, taskVars>>

-----------------------------------------------------------------------------
(* The transfer loop: admission, PUT attempts, replay, failure *)

Current(e) == <<e, attempt[e]>>

\* TransferScheduler::spawn admits entries in order; the first one starts the
\* prefetching scheduler of the archive.
SpawnTask(e) ==
  /\ task[e] = "Waiting" /\ ~failure
  /\ \A f \in Entry : f < e => task[f] # "Waiting"
  /\ \A f \in Entry : task[f] # "Failed"
  /\ e > 1 => at[Scheduler] # "None"
  /\ Cardinality({f \in Entry : task[f] \in {"Running", "Between"}}) < MaxInFlight
  /\ task' = [task EXCEPT ![e] = "Between"]
  /\ UNCHANGED <<slotVars, sumVars, budgetVars, at, readerVars, schedVars,
                 attempt, retained>>

\* add_replay_claims
AddReplayClaims(e) ==
  IF failure
  THEN UNCHANGED <<remaining, replayPriority, status>>
  ELSE /\ remaining' = [b \in Block |-> IF b \in Span(e) THEN remaining[b] + 1
                                        ELSE remaining[b]]
       /\ replayPriority' = [b \in Block |-> replayPriority[b] \/ b \in Span(e)]
       /\ status' = [b \in Block |->
                       IF b \in Span(e) /\ status[b] \in {"Released", "Failed"}
                       THEN "Pending" ELSE status[b]]

\* The comparison pass starts, or a PUT body is polled for the first time: a
\* new reader takes up the retained claims; the body of a further PUT attempt
\* adds claims first.  The aborted producer of the old body may still run.
StartBody(e) ==
  LET r == <<e, attempt[e] + 1>> IN
  /\ task[e] = "Between" /\ attempt[e] < MaxAttempts[e]
  /\ task' = [task EXCEPT ![e] = "Running"]
  /\ attempt' = [attempt EXCEPT ![e] = @ + 1]
  /\ retained' = [retained EXCEPT ![e] = FALSE]
  /\ phase' = [phase EXCEPT ![r] = "Opening"]
  /\ pos' = [pos EXCEPT ![r] = FirstBlock[e]]
  /\ IF retained[e]
     THEN /\ at' = [at EXCEPT ![r] = "Check"]
          /\ UNCHANGED <<remaining, replayPriority, status>>
     ELSE /\ at' = [Woken(IF failure THEN {} ELSE {"notify"}) EXCEPT ![r] = "Check"]
          /\ AddReplayClaims(e)
  /\ UNCHANGED <<live, permit, restore, sumVars, budgetVars, outcome, schedVars>>

\* The comparison pass has read the entry and found it different: its blocks
\* are retained for the PUT body.
RetainForReplay(e) ==
  /\ task[e] = "Running" /\ attempt[e] = 1 /\ outcome[Current(e)] = "Ok"
  /\ attempt[e] < MaxAttempts[e]
  /\ task' = [task EXCEPT ![e] = "Between"]
  /\ retained' = [retained EXCEPT ![e] = TRUE]
  /\ AddReplayClaims(e)
  /\ at' = Woken(IF failure THEN {} ELSE {"notify"})
  /\ UNCHANGED <<live, permit, restore, sumVars, budgetVars, readerVars,
                 schedVars, attempt>>

\* The PUT attempt is over and its body is dropped: because the request failed
\* while streaming, because the whole body was read but the response is an
\* error, or because the body itself failed.
AttemptFails(e) ==
  /\ task[e] = "Running"
  /\ task' = [task EXCEPT ![e] = "Between"]
  /\ UNCHANGED <<slotVars, sumVars, budgetVars, at, readerVars, schedVars,
                 attempt, retained>>

BodyFailed(e) == task[e] = "Running" /\ outcome[Current(e)] = "Err"

TaskSucceeds(e) ==
  /\ task[e] = "Running" /\ outcome[Current(e)] = "Ok"
  /\ task' = [task EXCEPT ![e] = "Done"]
  /\ UNCHANGED <<slotVars, sumVars, budgetVars, at, readerVars, schedVars,
                 attempt, retained>>

\* A failure that is not retried, the work deadline, or abort_all after the
\* failure of another task.
TaskFails(e) ==
  /\ task[e] \in {"Running", "Between"}
  /\ task' = [task EXCEPT ![e] = "Failed"]
  /\ UNCHANGED <<slotVars, sumVars, budgetVars, at, readerVars, schedVars,
                 attempt, retained>>

\* The producer task of a dropped body is aborted at an await: its pending
\* reservation is rolled back before its claims are released.
Orphaned(r) == Active(r) /\ (task[r[1]] # "Running" \/ attempt[r[1]] # r[2])

AbortReader(r) ==
  /\ Orphaned(r)
  /\ phase' = [phase EXCEPT ![r] = DropPhase(r)]
  /\ outcome' = [outcome EXCEPT ![r] = "Aborted"]
  /\ IF at[r] \in {"Permit", "Fetch", "Get"}
     THEN RollbackFetch(pos[r], r, "None", Leave(queue, r))
     ELSE /\ at' = [at EXCEPT ![r] = "None"]
          /\ UNCHANGED <<replayPriority, permit, status, restore, committed,
                         resident, budgetVars>>
  /\ UNCHANGED <<remaining, live, failure, pos, schedVars, taskVars>>

\* SourceBlockStore::cancel, once the failed transfer's tasks are drained.
Cancel ==
  /\ ~failure
  /\ \E e \in Entry : task[e] = "Failed"
  /\ \A e \in Entry : task[e] \notin {"Running", "Between"}
  /\ failure' = TRUE
  /\ committed' = 0 /\ resident' = 0
  /\ permit' = [b \in Block |-> FALSE]
  /\ available' = available + Weight({b \in Block : permit[b]})
  /\ status' = [b \in Block |-> IF status[b] = "Released" THEN "Released"
                                ELSE "Failed"]
  /\ at' = Woken({"notify", "capacity"})
  /\ UNCHANGED <<remaining, live, replayPriority, restore, queue, readerVars,
                 schedVars, taskVars>>

-----------------------------------------------------------------------------
(* run_scheduler.  Its fetch futures make progress only while it awaits     *)
(* tasks.next(), never while it awaits a reservation.                       *)

StartScheduler ==
  /\ at[Scheduler] = "None"
  /\ \E e \in Entry : task[e] # "Waiting"
  /\ at' = [at EXCEPT ![Scheduler] = "Next"]
  /\ UNCHANGED <<slotVars, sumVars, budgetVars, readerVars, schedVars, taskVars>>

MorePrefetch ==
  /\ Cardinality({b \in Block : prefetch[b] # "None"}) < GetConcurrency
  /\ nextIndex <= NumBlocks

PrefetchNext ==
  /\ at[Scheduler] = "Next" /\ MorePrefetch
  /\ pos' = [pos EXCEPT ![Scheduler] = nextIndex]
  /\ nextIndex' = nextIndex + 1
  /\ at' = [at EXCEPT ![Scheduler] = "Reserve"]
  /\ UNCHANGED <<slotVars, sumVars, budgetVars, phase, outcome, prefetch, taskVars>>

PrefetchAwait ==
  /\ at[Scheduler] = "Next" /\ ~MorePrefetch
  /\ at' = [at EXCEPT ![Scheduler] =
              IF \E b \in Block : prefetch[b] # "None" THEN "Poll" ELSE "Stopped"]
  /\ UNCHANGED <<slotVars, sumVars, budgetVars, readerVars, schedVars, taskVars>>

PrefetchGet(b) ==
  /\ at[Scheduler] = "Poll" /\ prefetch[b] = "Pushed" /\ ~failure
  /\ ActiveGets < GetConcurrency
  /\ prefetch' = [prefetch EXCEPT ![b] = "Getting"]
  /\ UNCHANGED <<slotVars, sumVars, budgetVars, at, readerVars, nextIndex, taskVars>>

PrefetchDone(b, ok) ==
  /\ at[Scheduler] = "Poll"
  /\ prefetch[b] = "Getting" \/ (prefetch[b] = "Pushed" /\ failure)
  /\ FinishFetch(b, ok, Scheduler, "Next")
  /\ prefetch' = [prefetch EXCEPT ![b] = "None"]
  /\ UNCHANGED <<remaining, live, replayPriority, failure, queue,
                 readerVars, nextIndex, taskVars>>

\* abort_and_drain_body_tasks after the transfer loop has returned.
TransferOver ==
  failure \/ \A e \in Entry : task[e] = "Done"

AbortScheduler ==
  /\ TransferOver
  /\ at[Scheduler] \notin {"None", "Stopped"}
  /\ IF at[Scheduler] = "Permit"
     THEN RollbackFetch(pos[Scheduler], Scheduler, "Stopped", Leave(queue, Scheduler))
     ELSE /\ at' = [at EXCEPT ![Scheduler] = "Stopped"]
          /\ UNCHANGED <<replayPriority, permit, status, restore, committed,
                         resident, budgetVars>>
  /\ UNCHANGED <<remaining, live, failure, readerVars, schedVars, taskVars>>

\* The FuturesUnordered of the aborted scheduler is dropped.
DropPrefetch(b) ==
  /\ at[Scheduler] = "Stopped" /\ prefetch[b] # "None"
  /\ RollbackFetch(b, Scheduler, "Stopped", queue)
  /\ prefetch' = [prefetch EXCEPT ![b] = "None"]
  /\ UNCHANGED <<remaining, live, failure, readerVars, nextIndex, taskVars>>

-----------------------------------------------------------------------------
Reserve(p) ==
  \/ ReserveFailed(p) \/ ReserveNone(p) \/ ReserveCommit(p) \/ ReserveWait(p)
  \/ PermitTaken(p) \/ PermitUnneeded(p) \/ PermitCancelled(p)

ReaderStep(r) ==
  \/ SliceReady(r) \/ SliceWait(r) \/ SliceDemand(r) \/ SliceError(r)
  \/ ActivateReader(r) \/ ActivateError(r)
  \/ ConsumeBlock(r) \/ DropReaderBlock(r) \/ DropClaim(r)

TaskStep(e) ==
  \/ SpawnTask(e) \/ StartBody(e) \/ RetainForReplay(e) \/ AttemptFails(e)
  \/ TaskSucceeds(e) \/ TaskFails(e)

SchedulerStep == StartScheduler \/ PrefetchNext \/ PrefetchAwait \/ AbortScheduler

\* Everything is over: no task, reader or scheduler has a step left.
Finished ==
  /\ \A e \in Entry : task[e] \in {"Done", "Failed", "Waiting"}
  /\ TransferOver
  /\ \A r \in Reader : phase[r] \in {"Idle", "Closed"}
  /\ at[Scheduler] \in {"None", "Stopped"}
  /\ \A b \in Block : prefetch[b] = "None"

Terminated == Finished /\ UNCHANGED vars

Next ==
  \/ \E p \in Proc : Reserve(p)
  \/ \E r \in Reader : ReaderStep(r) \/ AbortReader(r) \/ DemandGet(r)
  \/ \E r \in Reader, ok \in BOOLEAN : DemandDone(r, ok)
  \/ \E e \in Entry : TaskStep(e)
  \/ SchedulerStep
  \/ \E b \in Block : PrefetchGet(b) \/ DropPrefetch(b)
  \/ \E b \in Block, ok \in BOOLEAN : PrefetchDone(b, ok)
  \/ Cancel
  \/ Terminated

Spec == Init /\ [][Next]_vars

-----------------------------------------------------------------------------
(* Safety *)

\* The blocks whose bytes count against the local window, and those that are
\* resident under global permits.
Committed == {b \in Block : status[b] \in {"Reserving", "Fetching", "Ready"}}
Resident  == {b \in Block : status[b] \in {"Fetching", "Ready"}}
Held      == {b \in Block : permit[b]}

\* The window and memory totals, which the code only ever adjusts by
\* saturating differences at a dozen places (commit, permit, finish, rollback,
\* two release paths, cancel), always agree with the slots: no permit is
\* leaked or returned twice, whatever the order of completions, aborts and
\* cancellation.
MemoryAccounting ==
  /\ Held = Resident
  /\ available + Weight(Held) = BudgetBytes
  /\ committed = Weight(Committed)
  /\ resident = Weight(Resident)

HoldsClaim(r, b) ==
  /\ b \in Span(r[1])
  /\ \/ phase[r] \in {"Opening", "DroppingClaim"}
     \/ phase[r] \in {"Reading", "DroppingReader"} /\ pos[r] <= b

HoldsLive(r, b) ==
  b \in Span(r[1]) /\ phase[r] \in {"Reading", "DroppingReader"} /\ pos[r] <= b

\* remaining_claims counts exactly the attempts that still need the block and
\* the entries whose claims wait for a reader; live_claims the admitted readers.
\* With a retry's claims added while the aborted producer of the previous body
\* still holds its own, an attempt could otherwise release another's claim.
\* And a block is released only when nobody has a claim on it: slice_from never
\* answers "released before all claimed bytes were consumed" and activate_reader
\* never "already released before the reader was admitted".
ClaimAccounting ==
  ~failure =>
    \A b \in Block :
      /\ remaining[b] = Cardinality({r \in Reader : HoldsClaim(r, b)})
                        + Cardinality({e \in Entry : retained[e] /\ b \in Span(e)})
      /\ live[b] = Cardinality({r \in Reader : HoldsLive(r, b)})
      /\ status[b] = "Released" => remaining[b] = 0

\* The bytes a reader copies from stay resident under a permit from the lock
\* that handed them out until the reader itself passes the block.
SliceBacked ==
  ~failure => \A r \in Reader :
    at[r] = "Have" => status[pos[r]] = "Ready" /\ permit[pos[r]]

\* The store is a pool of blocks: whatever is fetched, shared, retried, aborted or
\* cancelled, a block gets memory only while it is claimed and the budget has room,
\* keeps it, once it has arrived, exactly until its last claim is released, and never
\* loses it under a reader that copies from it.
Pool == INSTANCE BlockPool WITH
          Size <- Weight, Budget <- BudgetBytes,
          claims <- remaining, held <- Held, ready <- {b \in Block : status[b] = "Ready"},
          reading <- {x \in Reader \X Block : at[x[1]] = "Have" /\ pos[x[1]] = x[2]},
          cancelled <- failure
PoolKept == Pool!Spec

\* The fetches that own a Reserving or Fetching slot.
Reservations(b) == {p \in Proc : at[p] = "Permit" /\ pos[p] = b}
Fetchers(b) ==
  {r \in Reader : at[r] \in {"Fetch", "Get"} /\ pos[r] = b}
  \cup {p \in {Scheduler} : prefetch[b] # "None"}

\* A block is reserved and fetched by one future at a time, and a slot is left
\* in Reserving or Fetching only while such a future exists to finish it or
\* roll it back: waiters on notify always have somebody to wait for.
OneFetcher ==
  ~failure => \A b \in Block :
    /\ Cardinality(Reservations(b)) = (IF status[b] = "Reserving" THEN 1 ELSE 0)
    /\ Cardinality(Fetchers(b)) = (IF status[b] = "Fetching" THEN 1 ELSE 0)

\* A reader asleep on notify is waiting for a slot that is still being reserved
\* or fetched: no completion, rollback or cancellation goes by without waking
\* it.  A process asleep on capacity_notify sleeps because the window really is
\* full: every release of window bytes woke it.
NoLostWakeup ==
  /\ \A r \in Reader :
       at[r] = "Notify" => ~failure /\ status[pos[r]] \in {"Reserving", "Fetching"}
  /\ \A p \in Proc :
       at[p] = "Capacity" => ~failure /\ ~FitsWindow(pos[p])

\* When the transfer is over, every permit is back in the invocation-global
\* budget, so the next archive starts with all of it.
BudgetReturned == Finished => available = BudgetBytes /\ queue = <<>>

-----------------------------------------------------------------------------
(* Liveness *)

\* What the runtime and the services guarantee: tasks that can run do run,
\* a GET and a PUT end, an aborted producer is dropped, and the semaphores
\* serve their waiters in turn.  No request has to fail.
Fairness ==
  /\ \A p \in Proc : WF_vars(Reserve(p))
  /\ \A r \in Reader :
       /\ WF_vars(ReaderStep(r))
       /\ WF_vars(AbortReader(r))
       /\ SF_vars(DemandGet(r))
       /\ WF_vars(\E ok \in BOOLEAN : DemandDone(r, ok))
  /\ \A e \in Entry :
       /\ WF_vars(SpawnTask(e))
       /\ WF_vars(TaskSucceeds(e))
       /\ WF_vars(BodyFailed(e) /\ AttemptFails(e))
       /\ WF_vars(StartBody(e))
       /\ WF_vars((\E f \in Entry : task[f] = "Failed") /\ TaskFails(e))
       /\ WF_vars(attempt[e] = MaxAttempts[e] /\ task[e] = "Between" /\ TaskFails(e))
  /\ WF_vars(SchedulerStep)
  /\ \A b \in Block :
       /\ SF_vars(PrefetchGet(b))
       /\ WF_vars(DropPrefetch(b))
       /\ WF_vars(\E ok \in BOOLEAN : PrefetchDone(b, ok))
  /\ WF_vars(Cancel)

FairSpec == Spec /\ Fairness

\* Every reader that is admitted gets its blocks, or an error, and closes: no
\* reader waits for ever on a block, on the window or on the budget.
ReadersEnd == \A r \in Reader : phase[r] = "Opening" ~> phase[r] = "Closed"

=============================================================================
