# A TLA+ model of shin-bucket-deployment

This directory holds TLA+ modules for the Rust provider of
`shin-bucket-deployment`, the TLC configurations that check them on small
instances, and TLAPS proofs of the facts that matter for every instance.  Paths
below are relative to the repository.

## The system

The repository is a CDK construct (`src/*.ts`) that deploys assets into an S3
bucket through a custom resource, and the Lambda provider behind that resource
(`rust/src`).  One CloudFormation event is one invocation of the provider:

1. `main.rs`, `deadline.rs` derive the callback, drain, task-drain and work
   deadlines from the remaining invocation time.
2. `cloudformation.rs` decodes the request, sends exactly one response through
   `cloudformation/callback.rs`, and between the two runs the deployment.
3. `s3/planner.rs` opens the source archives (`s3/archive/directory.rs`),
   builds the manifest and lists the destination (`s3/destination.rs`).
4. `s3/transfer/upload.rs` and `copy.rs` write the objects, through
   `TransferScheduler`, the shared `RetryCoordinator` and, for extracted
   archives, the `SourceBlockStore`.
5. stale objects and the previous destination are deleted
   (`s3/destination.rs`, guarded by `namespace.rs`, `lifecycle.rs`), and
   `cloudfront.rs` invalidates what changed.

| component | state | operations | what is hard |
| --- | --- | --- | --- |
| Source block store (`s3/archive/block_store.rs`, `budget.rs`) | slot per block: claims, live claims, replay priority, permit, status; window and resident totals; failure; budget semaphore; three `Notify`s | `run_scheduler`, `reserve_fetch`, `finish_fetch`, `rollback_fetch`, `slice_from`, `activate_reader`, `release_*`, `add_replay_claims`, `cancel`, `abort_and_drain_body_tasks` | many tasks, lost wake-ups, aborts at any await, permits leaked or returned twice, starvation |
| Entry readers and body producers (`s3/archive/entry.rs`, `replace.rs`) | claim or live reader, position, pipe of the replacement, body channel, validation error, digest, attempt state and snapshot | open, activate, read, replace, validate, send, poll, release, drop | the aborted producer overlaps the retry's producer; the client stops polling at the declared length; two bounded buffers in a row |
| Transfer scheduler (`s3/transfer/scheduler.rs`) | JoinSet, `in_flight`, admission gate, drain budget | `spawn`, `finish`, `abort_and_drain` | a task fails between the check and the spawn; deadlines race completions |
| Destination writes (`s3/transfer/upload.rs`, `copy.rs`) | attempt counter, body hash | PUT/COPY with a precondition, HEAD reconciliation | lost and delayed responses, concurrent writers |
| Retry coordinator (`s3/retry.rs`) | shared throttle cooldown | wait for cooldown, wait for retry | extension while others sleep, deadline |
| Destination listing and cleanup (`s3/destination.rs`) | candidate buffers, pages, pending keys | list, collect, re-list, delete chunks | overflow, partial failures, lost responses, concurrent writers |
| Namespaces and lifecycle (`namespace.rs`, `lifecycle.rs`) | none (pure), owner tags | overlap, competing owners, previous cleanup plan | segment boundaries, time of check to time of use |
| CloudFormation handler and callback (`cloudformation.rs`, `cloudformation/callback.rs`) | progress of one request, statistics | preflight, deploy, cleanup, invalidate, respond | crash and re-invocation, duplicate callbacks, deadlines |
| Planner and archives (`s3/planner.rs`, `s3.rs`, `s3/archive/directory.rs`, `range_reader.rs`, `request.rs`) | pinned ETag, loaded ranges, directory, permits held, manifest | HEAD, ranged GETs with retries, scan, parse, authenticate, filter, insert, make stores | sources overwritten meanwhile, chunk borders, sums that overflow, permits that planning itself holds |
| Diagnostics | counters | none that a decision reads | – |
| CDK construct (`src/*.ts`) | none at run time | synthesis and validation | – |

The code's own correctness conditions: memory never exceeds the
invocation-global budget; a block is never freed under a reader; a transfer
that reports success has written everything; nothing is deleted or overwritten
that the deployment does not own; a request gets one truthful answer before
the invocation ends; and all of it comes to an end.

## Modules

| module | models | abstraction |
| --- | --- | --- |
| `SourceBlockStore` | the block store, the global budget, the claims of entry readers, and the part of the upload loop that starts, retries and ends bodies | a block is a byte range, one permit is one byte, one archive |
| `BlockPool` | a pool of claimed blocks within a budget | the abstract specification of `SourceBlockStore` |
| `MCSourceBlockStore` | instances of it for TLC | – |
| `SourceBlockStoreProofs` | types, totals, claims, owners, wake-ups, queue: inductive invariants and theorems; the refinement | – |
| `TransferScheduler` | admission, joining, abort and draining of the transfer tasks | a task is its outcome |
| `TransferSchedulerProofs` | inductive invariant and theorems | – |
| `RuntimeOptions` | transfer options, adaptive windows, permits | pure functions, constants scaled down by the instances |
| `ZipDirectory` | end records, ZIP64, entries and catalogs of an archive | pure functions; an archive is its offsets, sizes, names and digests |
| `BlockPlan` | `plan_source_blocks` and the claims per block | pure functions |
| `DeployPlan` | from the decoded request to the manifest, the blocks and the window of every archive | extends the three above; a GET moves a range as a whole |
| `MCDeployPlan` | families of requests for TLC | – |
| `DeployPlanProofs` | end records, pins, permits, catalogs, the manifest, the block stores: inductive invariants and theorems | – |
| `MarkerReplacement` | the streaming replacement of `replace.rs` | pure functions on sequences of any set of symbols (`Symbol`) |
| `EntryBody` | one entry's comparison pass, PUT attempts, bodies and producers | extends `MarkerReplacement`; a digest is the content, CRC32 one bit |
| `MCEntryBody` | entries for TLC | – |
| `EntryBodyProofs` | replacement by chunks, types, content, claims, snapshots: inductive invariants and theorems | – |
| `RetryCoordinator` | the waits of several writers on the shared coordinator | milliseconds, delays of `Width` bits |
| `ThrottleGate` | what the shared cooldown promises | the abstract specification of `RetryCoordinator` |
| `RetryCoordinatorProofs` | inductive invariant, theorems, the refinement | – |
| `DestinationWrite` | one PUT or COPY of one object, with retries and reconciliation | an object is its ETag and its copy identity |
| `ConditionalWrite` | a compare-and-swap and one report | the abstract specification of `DestinationWrite` |
| `DestinationWriteProofs` | inductive invariant, theorems, the refinement | – |
| `Namespace` | `namespace.rs` and the plans of `lifecycle.rs` | a namespace is a sequence of segments |
| `DestinationLifecycleProofs` | theorems about `Namespace` and `DestinationLifecycle` | – |
| `DestinationLifecycle` | several resources and their requests: listing, transfer, guard, deletion | keys are sequences of segments, an object is there or not |
| `MCDestinationLifecycle` | instances of it for TLC | – |
| `ProviderRequest` | one CloudFormation event: invocations, stages, deadlines, invalidations, callback | the deployment and a cleanup are one phase each |
| `ProviderRequestProofs` | inductive invariant and theorems | – |

`DeployPlan` establishes what `SourceBlockStore` assumes of its blocks, window
and budget (`StoreContract`).  `EntryBody` is the body that a reader of
`SourceBlockStore` feeds and `DestinationWrite` sends; `RetryCoordinator` is
what `DestinationWrite` and `DeleteObjects` wait on between attempts.
`Namespace` is the part of `DestinationLifecycle` that has no state.
`DestinationWrite` is one of the tasks that `TransferScheduler` schedules and
`SourceBlockStore` streams to; the transfer of `DestinationLifecycle` is all of
them; and the whole of `DestinationLifecycle`'s provider is the phases `Deploy`
and `Sweep` of `ProviderRequest`.  The modules meet through what each assumes of
the next, named in their headers, not through a common state: together they
would be far beyond TLC.

### SourceBlockStore and BlockPool

Each action is one critical section of the store's mutex or one await that
completes.  `at[p]` is the await a process stands at: a reader (an attempt to
stream an entry) or the prefetching scheduler task, which share `reserve_fetch`.
`Notify.enabled()` is called under the mutex in the code, so a waiter is a
process whose `at` is `"Notify"` or `"Capacity"`, and `notify_waiters` is
`Woken`.  The budget is a fair semaphore: `queue` and `available`.

The two halves of `run_scheduler` are kept apart on purpose.  Its fetch futures
live in a `FuturesUnordered` and only move while the task awaits `tasks.next()`
(`at = "Poll"`): `PrefetchGet` and `PrefetchDone` are guarded by that, as the
code is.  A reader's own fetch moves by itself.

A transfer task goes `Waiting → Between → Running → Done/Failed`.  `Between`
means admitted with no body being streamed.  `StartBody` takes up the claims the
entry holds from planning (or from `retain_zip_entry_for_replay`, action
`RetainForReplay`), or adds replay claims for a further attempt.  Dropping a
body aborts its producer; the producer is an orphan until `AbortReader` and the
drop actions have run, and overlaps the next attempt's reader meanwhile.

A failed fetch is final for its slot (`Failed`) until replay claims reopen it.
The transfer may fail at any time (`TaskFails`), which also stands for the work
deadline.

The byte layout comes from planning.  `EntriesAssumption` states what
`plan_source_blocks` guarantees: only a span longer than a block is tiled into
several, and such a span shares no block with another entry.

`BlockPool` is the store without its window, semaphore, futures and
notifications: claims on blocks, the blocks in memory, those that have arrived,
and who copies from which.  A block gets memory only for a claim and within the
budget, arrives or is given up, and an arrived block leaves with its last claim,
neither earlier nor later, and not under a reader; cancelling gives everything
back.  The refinement maps `permit` to `held`, `status = "Ready"` to `ready` and
`at = "Have"` to `reading`.

### TransferScheduler

One control flow (`pc`) and the tasks.  A task's failure closes the gate in one
step and becomes joinable in a later one, as in the spawned wrapper.  `Return`
drops the scheduler: its JoinSet aborts what is left.  The caller may return by
`?` between two spawns (`CallerFails`); nothing drains the tasks on that path,
so `DrainedOnReturn` is stated for the other verdicts.

### RuntimeOptions, ZipDirectory, BlockPlan and DeployPlan

`pc` is where `plan_deployment` stands: decoding and its checks, then for each
source its HEAD, the scan for the end record, the locator, the ZIP64 record, the
permit for the directory, the parser, the catalog and its permits, the entries;
then the preflight, and one store per archive.  `pin` is the object version a
source's HEAD has seen, `current` the one its key holds now: `Overwrite` puts
the next one there at any time, and `Serves` is `If-Match`.  `loaded` maps the
start of every chunk or block read to the version it came from, and what is read
from it is read from that version, so that a GET without its precondition shows
in `PlanDescribesPin`.  `GetRange`, `RetryGet` and `GetFails` are the attempts
of one ranged GET.

`charged` are the permits planning holds: those of the directory, of the catalog,
and of the block of the catalog that is being read or has not been given up yet.
A catalog is read without a scheduler: `start_scheduler` is called for the stores
of a transfer (`upload.rs:334`), never for the store that `load_authenticated_catalog`
makes, whose one reader asks for a block (`ReserveBlock`) when it comes to it, and
drops its view and gives up the block behind it before that (`release_finished_blocks`
precedes `poll_fetch` in `entry.rs:672-676`).  So at most one block is charged, the
GETs of `sourceGetConcurrency` notwithstanding, and `Asking` lets a GET begin only
with the permits of its block in hand.  `PlanningNeverWaits` says that what is held
never stands in the way of what planning asks for next, for the directory and for
every block of the catalog, although every amount is rounded up by itself and room
is checked for one block, once.  `RuntimeOptions` has two limits of numbers:
`MaxInteger`, the largest that JavaScript represents and a request may contain, and
`MaxWord`, where the products and sums of 64 bits overflow.  A request that fails to be planned has a `why`;
`StoreContract` includes that no store is refused after the preflight.
The operators of `BlockPlan` follow the passes of `plan_source_blocks`: clamp,
drop empty spans, sort, coalesce, tile, test; its contract is restated on bytes.
`InOrder` says what a sort gives and not how (the place of a member is the number
of those that precede it), and the loops are recursive functions on positions
(`Coalesced`, `Blocks`), so that both can be reasoned about.  `Readable` is, in
terms of the blocks of one archive, what `BlocksAssumption` and
`EntriesAssumption` say of the constants of `SourceBlockStore`.

### MarkerReplacement and EntryBody

`Emitted` and `Carry` are the two results of `emit_stable` on one chunk, and
`Replaced` the replacement of a whole content, the reference: `ProvenBody` and
`EtagIsBody` say that the streamed output equals it however `Replace` cuts the
input.  `prod[k]` is the producer of the k-th body and its pieces (pipe, frame,
held frame), `chan[k]` the bounded channel, `body[k]` the `ReceiverBody`;
bodies are numbered by their first poll, as `body_attempts` does.  A body that
is never polled has no producer.  `RequestErr` may come at any time, also before
the body has been read, and the client may still poll the body until it drops
it.  `mark` and `snap` are the attempt state that the failure record reads; they
are reset by the next attempt while producers of earlier ones still write.

`AbortBodies` is `abort_and_drain_body_tasks` after the entry is over: it stops
the producers of bodies that a client still holds.

`Handshake` marks the point of `send_zip_entry_chunks_inner` that the comment
there is about: the reader is dropped before the final frame is sent.

### RetryCoordinator and ThrottleGate

A writer is at its cooldown check, asleep, rechecking, on the wire, or over.
`Check` reads `throttle_until` under the lock and sleeps to it; a sleeper that
wakes checks again, because another writer may have extended it meanwhile
(`AfterCool`).  `Retry` computes the capped delay at the width of the integers
(`Backoff` saturates), with full jitter any delay up to the cap, and sleeps only
if it would wake before the deadline (`Fits`).  `ThrottleGate` knows a clock, the
instant at which the gate opens and who is through; the mapping takes the
writers on the wire for those, and an unset cooldown for 0.

### DestinationWrite and ConditionalWrite

`pc` is the await at which the task stands; a request is served by S3, refused,
failed, or lost and perhaps applied later (`late`), after the task is over too.
`object` is what the key holds, `listed` and `usable` what the plan knows of it,
`held` whether the key has held the intended content since the listing,
`writes` and `restored` how often the guarded write took effect and how often
the listed content came back by another writer.  `AppliedOnce` relates the last
two: the precondition makes a retried PUT harmless.  `HeadMatches` is
`destination_matches_copy_identity` for copies and the comparison of hashes in
`reconcile_conditional_put` for uploads.

`ConditionalWrite` is the task without its requests: a compare-and-swap of the
object against what the listing saw, and one report.  The mapping takes the
object's ETag, `held`, `writes > 0` and the verdict for its variables.  A request
that S3 applies, by whatever attempt, in time, unanswered or after the task has
ended, must be the swap; a success may be reported only of content that has been
there, and a skip only of an object the task never writes.

### Namespace and DestinationLifecycle

`present` is the content of the buckets, `tag` the ownership tags, `known` what
CloudFormation believes, and `job[o]` the request of resource `o` with the
position of its listing and deletion.  `ListDestination`, `Transfer`,
`TransfersEnd`, `ReadTags`, `GuardDelete` follow `deploy` and
`process_request_inner`; `FetchPage`, `TurnPage`, `TakeChunk`, `DeleteObjects`,
`ScanEnds` and `NextLeg` follow the two deletion paths, where the next page is
listed while the keys of the page before it are being deleted.  `kept[o]` is
what `o` has deployed and nobody may remove, the ghost state of `KeptContent`.
`Untag` takes away the tag of a construct that is replaced, or of a resource that
has been deleted: the end of a Delete (`Respond`) leaves the tag, since the bucket
is updated, or kept, by another operation.  The attempt to prove
`CleanupComplete` showed that this matters: had the response taken the tag away
while another resource's cleanup ran, a cleanup that had been refused for that tag
would look as if it had missed keys.

Assumed of the surroundings: a resource has one request at a time and is tagged
before it; tags do not change while a cleanup they guard runs
(`docs/architecture.md:411`, "Treat ownership-tag changes and destructive
cleanup as mutually exclusive operations"), but may change between the listing
and the guard; buckets exist; a `DeleteObjects` request takes effect before it
ends.

### ProviderRequest

`run.stage` is where `process_request_inner`, `invalidate_distributions` or the
callback stands; `time` counts the deadlines that have passed, and a function
with little time left starts with some of them passed.  `Awaits` says which
stages make a call: the others are over before a deadline can end them, because
`timeout_at` polls the work first.  `deployed` and `left` are the content of S3
as far as it matters here, and survive an invocation; so do `created`, the
caller references CloudFront knows, `complete`, those of their invalidations that
have completed, and `edge`, the changes that a distribution may not have noticed.
An invalidation under a known reference is none.  `Gone` are the distributions that
no longer exist: CloudFront says so when an invalidation is created for them, which
the code passes over for a previous distribution and at a Delete, and fails for at a
deployment.  `SuccessIsTrue` is what success promises (`WorkIsDone`): a valid
request, every place it had to sweep swept (`left`), and unless it is a Delete the
content deployed and the namespaces it replaces covered by an invalidation that
exists, or has completed when the request waits; whichever invocation of the event
did it.  And the invocation that reports success has made, or awaited, all the
invalidations that its own changes call for (`Invalidations`); that those can fall
short of what an invocation before it has deleted is the finding `edge_fresh`.
`Die` may follow every step; `Invoke` is Lambda's next attempt with the same
event, which `docs/architecture.md:387` names.  `answer` is the first one
received: an answer may be received although the provider sees an error.

## Runs

| run | question | bounds |
| --- | --- | --- |
| `shared_and_tiled` | is every permit, byte, claim and wake-up of the store accounted for, and is it a pool of claimed blocks, whatever is retried, aborted, failed or cancelled? | 3 one-byte blocks, two entries that share the first, one in the other two tried twice, window 1, budget 2, 2 GETs, 2 in flight |
| `replay` | does a replay always get its block, and the transfer end, when the budget has room beyond the window? | 2 blocks, window 1, budget 2, 1 GET |
| `prefetch_stall` | a stall, see Findings | one entry in 3 blocks, 2 GETs, window 2, budget 3 |
| `transfer_scheduler` | safety and termination of the task set | 4 objects, 2 in flight, both deadlines |
| `destination_write` | is it one conditional write with one true report, applied once, and over? | 3 contents, 3 attempts, 2 foreign writes |
| `retry` | does the coordinator implement the gate, and let nobody sleep past the deadline or give up early? | 2 writers, 5 attempts, 3-bit delays, deadline 5, clock to 6 |
| `entry_body` | is a body that looks whole to S3 proven, are claims given back, do producers end? | 21 entries of up to 4 symbols, outputs of up to 11, frames of 2, channel of 1, 2 attempts |
| `planning` | is the plan true of the pinned archives, complete, and within what the store assumes? | about 14,000 requests in 8 families; 2 sources, 2 versions of each, 2 GET attempts, 2 faults |
| `empty_body` | a leak, see Findings | empty files, with a catalog and without |
| `two_owners` | is no deployed object lost, every authorized cleanup complete, and every step one towards the end of its request? | 2 resources, 3 nested namespaces and one beside them, 4 keys, 3 requests, pages of 2, 1 retained key, 2 attempts |
| `provider_request` | is the answer true, the deployed content fresh, and the event over? | 3 distributions of which one no longer exists, 2 invocations, 2 callbacks |
| `edge_fresh` | a disagreement with the documentation, see Findings | as `provider_request` |

Two or three blocks are enough for the block store: its code treats blocks
independently except for the window, the budget and the prefetch order, and a
window of one block against two makes all three contend.  Two entries in one
block give every order of their claims; two attempts of one entry give the
overlap of an aborted producer and its replacement, and a third attempt would
repeat it.  Four objects with two in flight let completions queue while the
control flow is at each of its joining loops.

Frames of two symbols and entries of up to four give a body of no frame, one
partial, one full and several; the markers of `MCEntryBody` are one that is a
prefix of a longer one, one whose replacement contains a marker, and one whose
replacement of eleven symbols fills a channel of one frame, the frames on their
way and a pipe of two.  Two attempts, for the entries where bodies of different
attempts can overlap, are enough: a body only meets the one before it in
`mark`, `snap` and `etag`, and a third would find them as the second does.
Five attempts at three bits take the backoff past its saturation.  The families of
`planning` each vary what one part of the planning looks at (the position of end
records against chunk borders, the layout of entries against blocks and gaps,
names and limits, catalogs against memory, options) and keep the rest at one
value: the parts only meet in the variables, not in the data.

The type invariants are not among the runs' properties where a theorem
(`TypeCorrect`) has them for all values: `SourceBlockStore`,
`EntryBody`, `TransferScheduler`, `DestinationWrite`, `RetryCoordinator`,
`DestinationLifecycle` (`LifecycleTypes`), `ProviderRequest`.

In `two_owners` a request of one resource overlaps one of the other, with a
request left to come after either; more requests repeat these.  `wiki/` beside
`site/` has a resource move between places that do not overlap.  One retained key
makes two stale keys overflow, pages of two make the marker, a stale key and a
kept key fall on different pages.  In `provider_request` one invocation dies and
another completes; the proofs cover any number.

Deadlock checking is on in every run.  `Terminated` is the only stuttering step
and is enabled when nothing is left to do.

### Fairness

`FairSpec` of the block store: weak fairness of every step a runnable tokio task
takes, of the end of each GET, PUT and aborted producer; strong fairness of
getting a place in the `fetch_semaphore`, which is FIFO.  No request is assumed
to fail, and the work deadline, which would end any stall by failing the
deployment, is deliberately not assumed: a stall until the deadline is the
failure the liveness properties are about.

`FairSpec` of the scheduler assumes that the control flow moves, that deadlines
pass, and that a task past its last await completes; tasks need not end.

`RetryCoordinator` assumes that time passes, that a sleeper that may wake does,
and that every request is answered, in any way.  `EntryBody` assumes only
`Progress`: as long as some producer or body can take a step, one of them does;
sources need not fail, requests need not end, and no producer's turn is assumed
to come before another's.

`DestinationWrite` assumes that the task moves, and that S3's answer, a failed
connection or the abort at the work deadline ends each request.
`DestinationLifecycle` needs no fairness: `RequestAdvances` says that every step
of a request lowers a measure (`Distance`: legs of the cleanup, pages still to
list, keys still to delete, attempts), whatever others put into the bucket.
`ProviderRequest` assumes that Lambda starts an invocation it owes, that time
passes, and that one of the provider's steps happens when one can; a phase need
not end by itself before its deadline.  `Tick` waits for a due drain timer
before it passes the callback deadline, 45 seconds later (`CALLBACK_RESERVE`).

## Findings

`prefetch_stall`: `docs/architecture.md:261` says of the blocks of a transfer that
the store is to "prefetch them with bounded source GET concurrency, and release
blocks after all active readers consume their claims", and `:101` that the window
"preserves enough blocks to use the configured source GET concurrency".  With two
GETs, a window of two blocks and an entry in three, `run_scheduler` polls the
fetches of the first two until one is done.  If the second block arrives first,
the loop then awaits the reservation of the third (`block_store.rs:251-263`), and
while it does nobody polls the fetch of the first, which lies in its
`FuturesUnordered`.  The reader waits for that block, and the room for the third
comes when the reader has passed the first two: the transfer stands still until the
work deadline.

It takes a response that arrives out of order, a window as large as the blocks of
the concurrent GETs, and nobody who needs the second block alone.  Under an explicit
`sourceWindowBytes` below that, which `docs/architecture.md:42` allows ("at least one
block"), the reservation is awaited before the first fetch has been polled at all,
and no reordering is needed.  And a replay cannot borrow beyond a window that is as
large as the budget, which the same line allows.  The run `replay` is the
complement: with one GET at a time and room beyond the window every reader ends,
whatever is retried.  The catalog is not exposed to this: it is read without a
scheduler (`PlanningNeverWaits`).

`empty_body` is about empty files.  A body takes up the claims that planning
gave its entry at its first poll (`entry.rs:1236`).  For an entry that is
declared empty the body's size hint is 0, and a fixed-length HTTP client, which
has nothing to send for it, never polls it: the PUT succeeds, and the claims,
which cover at least the entry's local header, wait until the store goes,
although "release blocks after all active readers consume their claims"
(`docs/architecture.md:261`) promises the block back.  Where blocks of the
window hold an empty file each, the window does not move on.  `Taken` has this
of the client, which is external to the repository; that it may stop at the
declared length is what the comment at `entry.rs:1012` says of it.
`ClaimsReleased`, which is checked, is the complement: every other uploaded or
skipped entry gives its claims back.

`edge_fresh` is about a retried event: `docs/architecture.md:245`
says "Invalidate after S3 mutation, skip retained/no-op Deletes".  An invocation
that deletes objects and dies before it creates the invalidation leaves an empty
namespace; the retry counts no deleted objects (`cloudformation.rs:614`, `:659`),
takes its cleanup for a no-op, and reports success.  What was deleted may still
be served.  `DeployedEdgeFresh`, which is checked and proved, is the complement:
what the deployment itself replaced is always invalidated.

## Proofs

TLAPS proves, for all values of the constants that satisfy the named
assumptions:

- `SourceBlockStoreProofs`, of the totals: `TypeCorrect`, `MemoryIsAccounted`, `BudgetBound`.
  `MemoryAccounting` is not inductive alone.  A reader's release must find its
  position inside its span, and the totals only follow from the slots if the
  weights of disjoint blocks add up.  `IInv` therefore joins `TypeOK`,
  `ReaderPlaced` (an active reader stands inside its span) and
  `MemoryAccounting`; the lemmas on `Weight` say that the bytes of a set of
  blocks are the sum over the set, `AddHeld`, `AddCommitted`, `DropTotals` turn
  that into the three ways a step changes the totals, and there is one lemma per
  action.
- `SourceBlockStoreProofs`, of the claims: `ClaimsAreCounted`, `SlicesAreBacked`,
  `FetchesAreOwned`, `NoWakeupIsLost`, `BudgetIsReturned`, which state
  `ClaimAccounting`, `SliceBacked`, `OneFetcher`, `NoLostWakeup` and
  `BudgetReturned` for every archive, window, budget and retry bound.  `StepKinds`
  sorts the actions into those that move claims, those that only move a task and
  the quiet rest, and each theorem is an invariant kept by the three kinds, on
  top of `IInv`:
  - `LifeInv` (readers of an entry start one after the other at its first block,
    and a running task has had its retained claims taken up) lets the counts be
    followed reader by reader: `OneMoves` and `CountPass` change the set of
    claimants by one member, `SaturatingSub` never saturates, and the release of
    the last claim is the only way to `Released`;
  - `ReadyNeeded` (a ready block has a claim) and `HaveReady`: only the reader
    with the only claim takes a ready block away (`ReadyLost`), and it has moved on;
  - `Owners`: reserving and fetching slots correspond one to one to the processes
    that wait for permits or a GET; every step is a move of one owner
    (`OwnersMove`), the same for readers and the scheduler;
  - `NoLostWakeup` follows step by step from what each notification covers
    (`Tells`, `TellingStep`) and from `Owners`;
  - `Queued` (the semaphore's queue holds exactly the waiting reservations, each
    once) and `Cancelled` (after `cancel()` no slot moves) end with an empty
    queue and nothing resident.
- `SourceBlockStoreProofs`, the refinement: `ImplementsPool`, `Spec => PoolKept`, from
  the invariant of all of the above (`EndInv`) and one lemma per step of `BlockPool`.
  That a fetch fits the budget comes from the totals; that an end of a fetch is an
  arrival only for a claimed block from `UsedIsNeeded`; that a release takes away
  exactly the blocks whose last claim it was from `ReadyNeeded` and the claim counts
  of the next state, and that nobody copies from them from `HaveReady`.
  `SlicesAreBacked` is a theorem only: `PoolKept` takes its place in the run.
- `EntryBodyProofs`, of the replacement: `ChunkReplaced` and `LastChunk`, that the
  streamed replacement does not depend on where chunks are cut.  `ReplacedFrom` and
  `EmittedFrom` are recursive functions on positions; that both choose the same
  pattern at the same place, and so agree from each position up to the stable
  end, is proved by the least position where they would not (`LeastNumber`, the
  well-foundedness of the numbers in its set form, `WFMin`).
- `EntryBodyProofs`, of the bodies: type correctness, `BodiesAreProven`,
  `RecordedDigestIsOfTheBody`, `AlarmsAreTrue`, `NoClaimIsForgotten`,
  `EndReleasesClaims`, `ValidationErrorsEnd` and `SnapshotsAreCurrent`, which state
  `ProvenBody`, `EtagIsBody`, `NoFalseAlarm`, `ClaimsReleased`,
  `HandshakeReleases`, `InvalidEnds` and `SnapshotIsCurrent` for every set of
  entries, every table of replacements, every frame, channel and spool size:
  - `SafeInv` is about one producer at a time: what it has output, with the
    replacement of what it carries and has not read, is the content
    (`ProducerOK`, by `ChunkReplaced`); it gives its claims up only after all its
    output; a recorded digest is that of the content, and an alarm has its cause;
  - `BodyInv` ties a body to its producer: what the client has, what the channel
    holds and what the producer has yet to send are the content without gap or
    repetition (`FlowOf`); a frame is marked last only with a validated entry
    (`ItemSound`), so a body that is whole is proven (`ResultOK`); a failed
    validation is told or shows in a short body (`AlarmOK`);
  - `SnapOK`: the snapshot of the request's body gives what it has given, and the
    body gives nothing after it, whatever producers of earlier attempts do;
  - `TakenEmpty`: planned claims outlive an upload only of an empty entry, the
    exception that `ClaimsReleased` makes and Findings explain.
- `TransferSchedulerProofs`: type correctness, `OkIsComplete`,
  `FailureSurfaces`, `ConcurrencyBounded`, `NothingLeftBehind`,
  `FailureStopsAdmission`.  The invariant adds that a failed task has closed the
  gate, that joined failures abort, and that `in_flight` is the number of
  unjoined tasks.
- `DestinationWriteProofs`: type correctness, `SuccessHolds`, `GuardedOnce`, and
  `ImplementsConditionalWrite`: `Spec => WriteKept`, the refinement of
  `ConditionalWrite`.  Besides the invariant it needs `Untouched`: before its first
  request, and when it has skipped the object, nothing of the task is on its way.
  `AppliedOnce` needs the balance `Paid`: every guarded write uses up one
  appearance of the listed content, which only a foreign write restores.
- `RetryCoordinatorProofs`: type correctness, `WakesInTimeHolds`,
  `ExpiresForCauseHolds`, and `ImplementsGate`: `Spec => GateKept`, the
  refinement of `ThrottleGate`, one step lemma per action.  The only fact about
  numbers taken over from TLC is `PowerAssumption`, that powers of two are
  positive, which the provers have no rule for.
- `DestinationLifecycleProofs`, of `Namespace`: `NoCompetitorNoLoss` (what the guard lets a cleanup delete
  is never in another owner's tagged namespace, for namespaces of any depth) and
  `OneChildOnly`, from lemmas on prefixes of sequences.
- `DestinationLifecycleProofs`, of the lifecycle: type correctness and
  `KeptContentHolds`, for any
  resources, places and limits of listings and deletions.  `KeptContent` speaks
  of what has been deployed, and a cleanup removes keys it chose long before;
  `IInv` therefore adds, of every cleanup, that all keys it may still delete are
  `Deletable` (`DoomedDeletable`: not just written, in a namespace of its own,
  under no other tag), of everybody, that what is protected for `o` is under
  `o`'s tag or out of the others' reach (`KeptPlaced`) and is in the bucket with
  what the transfers have written so far (`HeldPresent`), and, of the request
  under way, what its stages claim (`Local`).  `DoomedNotHeld` puts the first two
  together; that a chosen key is `Deletable` is `TagProtects`, the form
  `NoCompetitorNoLoss` takes for the keys of a bucket.  No finiteness of the set
  of resources is needed; keys and places are sequences, and the keys are listed
  in an order.
- `DestinationLifecycleProofs`, of the cleanups:
  - `PreviousIsRetained`.  `IInv` says of doomed keys that they may be deleted, not
    by which right.  `OnlyStale` adds it for an update that must not clean up its
    previous namespace: all its doomed keys are stale keys of the new one, from
    the remembered candidates and from the second listing alike, and
    `StaleSpares`, with `OneChildOnly`, says that these are not in a child.
  - `CleanupIsComplete`.  What a cleanup has reached is spread over five places, so
    `CleanInv` follows every key that is to be deleted (`ToClean`) and is present:
    it is pending, in the rest of the page, in the page fetched ahead, in a leg to
    come, or behind the cursor of a listing with another page (`InHand`).  That
    a page is an initial segment of the listing (`PageIsFirst`) makes the cursor
    cover what was fetched; that a transfer writes under its own tag, where no
    doomed key is, and that tags stay as they are (`CleanupUndisturbed`) keeps
    others from putting a key back where the cleanup has passed; with nothing in
    hand at the end, nothing is left.
  - `RequestsAdvance`.  Per action, one component of `Distance` falls and those before
    it stay (`Advances`); a page, a batch and a chunk are never empty while there
    is something to take (`PageTakesOne`), a subset of finitely many keys counts
    less (`FewerKeys`), and the attempt is within its bound
    (`AllAttemptsBounded`).  So `RequestAdvances` holds for every number of keys,
    and with it the termination of a request whose steps happen.
- `DeployPlanProofs`: `EndIsFound`, `OneObjectIsPlanned`, `WholeCatalogIsTrusted`,
  `LastSourceIsPlanned`, `NobodyIsWaitedFor` and `StoresKeepContract`, which state
  `EndRecordFound`, `PlanDescribesPin`, `TrustIsWhole`, `LastSourceWins`,
  `PlanningNeverWaits` and `StoreContract`, and `WindowsAreWithin`, its part
  `WindowsFit`, for any requests, lengths, options and sizes of chunks and permits.  `Steps`
  sorts the actions into refusals, which forget what was read, steps that read
  on, and the few that move to another source or stage.  `PlanInv` has these parts:
  - `Position` and `Pins`: where the planning stands, that one object of each
    source is pinned while it stands there, and that every chunk read is of
    that object, because a GET is answered from it or not at all;
  - `ScanInv`: all bound end records lie below the end of the scan, or at most at
    the one that was found.  A round looks at every position of its chunk, also
    where a signature there crosses the border (`CandidatesAre`), which by the
    lemmas on aligned chunks (`ChunkStart`, `ChunkOf`) leaves no position between
    two rounds, and is of a chunk that has been read (`RoundOfScan`);
  - `DirectoryInv`, `CatalogInv`: the entries and the catalog in use are those of
    the pinned archive, and have passed their checks;
  - `ChargeInv`: what is charged, and that a catalog is read with room for one of
    its blocks next to the permits of the directory and of the catalog
    (`BlockRoom`), which a block takes from the one before it
    (`ReserveBlockKeepsCharge`).  That the amounts asked for are free needs the
    budget to be a whole number of permits (`BudgetIsWhole`), that rounding up
    keeps the order of amounts (`RoundedUp`, `PermitsOf`), and that no block of the
    catalog is longer than what room was left for (`CatalogTiles`, `BlockFits`);
  - `Collected`: each planned key is from the last of the sources planned so far
    that offers it, which `LastSourceWins` says only of the end; `Described`:
    `PlanDescribesPin` and `TrustIsWhole` with the fact that the sources of what is
    planned are pinned.  That a comparison of numbers and one inclusion make two
    sets equal, and lists without repetition as long as each other, is
    `CatalogIsWhole`, by `CountedOnce` and `FS_Subset`.

  `StoresInv` adds for `WindowsAreWithin` that the manifest is finite; `WindowFits` is
  the arithmetic.  It needs that the overhead reserved in every window is at least
  half a MiB (it is 64): the code takes a budget for a whole number of MiB and at
  least one, so that of a budget of half a MiB it would otherwise give more than
  there is.
- `DeployPlanProofs`, of the blocks: `StoresKeepContract`, in three stages.
  - `SpansInv`, of the planning: the entries that lie in the manifest for one archive
    do not overlap and are not empty (`Lies`, `Beside`).  The span of an entry ends
    where the next header or the directory begins, so that this is what
    `UniqueOffsets`, the refusal of a shared header, is for; and a key that a
    later source replaces takes nothing away from it.
  - Lemmas on the operators of `BlockPlan`, for any input whose plans are apart and
    in order (`Sound`), without states: what `InOrder` gives is such an order
    and a bijection; the spans are the plans, clamped; a coalesced span is one
    that fits a block, or one plan by itself, and only the latter is cut into
    several blocks.  `Laying` carries this along the loop: what is laid so far
    is a chain of blocks that each belong to one coalesced span.  From the chain
    follow `Tight`, `Covered` (the two partition points count the blocks that end
    before a plan begins and those that start before it ends), `SharedIsWhole` and
    `Readable`.
  - `ContractInv`, of the stores: each was made from a sound input (`Made`), and
    what is made later leaves it alone.  So no store is refused (`why # "Blocks"`),
    and the catalog, whose blocks the planning takes from the span directly, gets
    the blocks that the general layout would give (`CatalogIsCutUp`).

  With it the contract between the planning and the block store is proved on both
  sides: what `SourceBlockStoreProofs` assumes of blocks and entries holds of every
  store that `DeployPlan` makes.
- `ProviderRequestProofs`: type correctness, `SuccessHolds`,
  `DeployedEdgeHolds`, for any distributions, invocations and callbacks.  The
  invariant says what is done at each stage (`WorkKnown`), that a caller
  reference of this event stands for an invalidation made after the last write
  (`Covered`), what a stage has invalidated (`PreviousClean`, `CurrentClean`),
  and that an invocation under way has an attempt left (`AttemptsLeft`).
  `SuccessHolds` rests on `SInv` beside it: when the invalidations begin, nothing is
  left that a sweep had to clear (`SweptKnown`, with `RequestKnown`, which of them a
  type of request has); behind the creation of an invalidation CloudFront knows it
  (`CreatedKnown`); and success is a verdict of the end only (`VerdictKnown`).  What
  has been done stays done, also in the next invocation (`Grown`, `DoneStays`).
  `NextStage`, `FailsStep` and `QuietStep` reduce every action to what its next
  stage claims.

Assumptions are the named ones of each module (`BlocksAssumption`,
`EntriesAssumption`, `ContentAssumption`, `LimitsAssumption` and so on): ranges
of the limits, and for the block store the contract `BlockPlan` checks.
`RequestsAssumption` of `DeployPlan` says what the types of the decoded requests
and of the fields of archives are: numbers are unsigned, a comment's length fits
its field, and the objects that a source's key holds one after another have
that key.  It says nothing about how the parts of an archive fit together.

`InFlightExact`, `SliceBacked`, the `SuccessIsTrue` of `DestinationWrite`, the type
invariants and
`BudgetBound` are proved and not among the runs' properties; `PoolKept` and
`WriteKept` stand in the runs for the second and the third.

Every safety and action property of a passing run is stated by a theorem.  Only
model-checked are the liveness properties (`ReadersEnd`, `TransferReturns`,
`TaskEnds`, `WritersEnd`, `ProducersEnd`, `EventEnds`), which are out of the prover's
reach; `RequestAdvances`, an action property, is proved and is what the
termination of a request rests on.  That the operators of `RuntimeOptions` and
`ZipDirectory` do what the code does is checked by the families of `planning`
and by reading.  No proof is an induction over data with an operator as its
parameter, which the provers cannot instantiate: facts about the recursive
functions (the replacement by chunks, the listing order of keys, the loop that
lays blocks) are proved by the least position at which they would fail.

## Not modelled

- The stores of several archives on one budget at a time, and the panic path of
  the scheduler task.  `Semaphore::MAX_PERMITS` and the `u32` cap of a permit
  count, which no budget a Lambda function can have reaches.
- Local headers that straddle blocks.
- The last block of a reader is released with the read that reaches its end;
  the code may defer it to the drop at end of file.
- The drain deadline of orphaned body producers.
- Inflating, and the coalescing of small writes of the replacement.  The number
  of GETs the external ZIP parser makes of a directory: it is read in chunks.
- Byte layouts: of end records, central directory entries, local headers and the
  JSON of catalogs; their fields are modelled, their positions inside a record
  are not.
- That a request under way ends is assumed by `WritersEnd`; the run
  `destination_write` shows it with the deadline.
- A `DeleteObjects` request that takes effect after it was given up, and a
  bucket that disappears under a cleanup.
- A change of owner tags while a cleanup runs, which the documentation excludes.
- The next event of the same resource while requests of a given-up invocation
  are in flight, and two invocations of one event at a time.
- A distribution that no longer exists, which counts as invalidated for a delete
  and for a previous distribution.
- A callback target that is rejected: nothing can be answered then.
- The decoding of strings, metadata and paths, content types and diagnostics:
  stateless or read by no decision; and the CDK construct, which runs at
  synthesis time.

## Plan

The modules were written in the order of importance: block store and scheduler,
then writes, cleanup and the request around them, then retries, bodies and
planning.  What is left:

1. An abstract specification of a request ("one truthful answer") that
   `ProviderRequest` implements by a refinement mapping.
2. `DestinationLifecycle` with late deletions, and a record of earlier requests
   for children retained over several updates.
3. Two archives on one budget: the store of the next archive starts while the
   bodies of the one before it end.
4. Composition: an instance of `SourceBlockStore` inside `DeployPlan`, its constants the
   blocks of a store, so that the assumptions proved here are discharged by name.
