# Models and proofs of the kxinspect mock backend

TLA+ modules, TLC configurations and TLAPS proofs about the backend in `src/app`: a
FastAPI process that keeps charges, tasks and notifications in one JSON file, lets a
student accept, contest or pay charges under deadlines and idempotency keys, and tells
connected clients of every change over server-sent events.

All paths below are relative to the repository; `store.py` is `src/app/db/store.py`,
`charge_service.py` is `src/app/services/charge_service.py`, and so on.

## 1. The system

### Components

| component | state | operations | what makes it correct |
|---|---|---|---|
| charge lifecycle (`domain/charge_state.py`, `domain/deadline.py`) | none; a charge's row | transition, inclusive expiry | a row tells one of nine legal stories; the deadline decides |
| store (`db/store.py`, `db/models.py`) | snapshot in memory, `state.json`, store lock | open, commit, append events, reset | memory, file, ring and ledger of one revision belong together |
| charge service (`services/charge_service.py`) | none of its own | accept, contest, pay, create task, mark read, raise, resolve, reconcile, reads | a request takes effect once; refused ones leave only reconciliation |
| idempotency (`core/idempotency.py`, `endpoints/commands.py`) | ledger inside the snapshot | scope, digest, replay | retries are answered, never repeated |
| event broker and stream (`services/event_bus.py`, `endpoints/events.py`) | registry of subscribers, bounded queues | register, publish, close, stream, resume | a client misses no event without being told to resync |
| operation barrier and demo reset (`store.py`, `services/demo_reset.py`, `main.py`) | lease counter, flag, waiters | shared, exclusive | a reset meets no request in progress; nobody waits for ever |
| contest intake (`main.py`, `commands.py`, `attachment_service.py`) | counters of one request | count, parse, split, stage, refuse | limits hold at every byte; refusals have a cause |
| contest attachments (`services/attachment_service.py`, `commands.py`, `store.py`) | `staging/`, `uploads/` | stage, finalise, roll back, discard, sweep, download | files and references agree at every instant |
| deadline scheduler (`main.py`, `core/clock.py`) | at most one sleeping task | arm, wake | an elapsed charge is decided without a request |
| chaos controls (`core/chaos.py`, `endpoints/dev.py`) | one configuration | configure, apply | as many faults as were asked for |
| runtime directory (`store.py`, `scripts/reset_runtime.py`) | `runtime.lock`, marker, `state.json`, `uploads/` | acquire, open, upgrade, refuse, close, remove | one process owns the directory; no death leaves it unusable |
| cost breakdown, byte ranges (`domain/cost_breakdown.py`, `endpoints/attachments.py`) | none | arithmetic | parts add up; a range is what was asked for |
| grapheme clusters (`core/graphemes.py`) | two values of a loop | scan | clusters begin where UAX #29 begins them, within a scope |
| envelope, schemas, configuration, canonical JSON, namespaces, fixture export | none | validation, formatting | left out: stateless |

### How they interact

One process, one asyncio event loop. A request takes a shared lease of the barrier in the
middleware, reads or commits through the service, and releases the lease. A commit takes
the store lock, copies the snapshot, lets the mutator work on the copy, writes the copy to
`state.json` and hands the new events to the broker, all before it releases the lock.
Nothing suspends the event loop while the store lock is held: deep copy, mutator, file
write and `put_nowait` are synchronous, and the broker lock is never contended, because
its holders do not suspend either. So a critical section is atomic towards other
coroutines and can be cut short only by the death of the process. `/events`
takes its shared lease only while it registers a subscriber, under the store lock, and then runs
without one for as long as its client.
The scheduler's wake-up commits like a request but holds no lease.

### What is hard

* A command, a read and the scheduler race for an elapsed deadline; a refused command
  still commits the reconciliation that preceded it.
* `os.replace` may have happened although the commit reports failure (the fsync of the
  directory comes after it): memory then lags behind the file until the next commit
  overwrites it or a restart adopts it.
* Clients retry after lost answers, with old versions, epochs and keys.
* A ledger body is the same Python object as the charge row, until JSON separates them.
* A queue fills up in the middle of a commit's events; a client resumes while commits go on;
  a reset waits for its lease while clients reconnect.
* Files are moved one at a time before the write, and removed again when it fails; a reset
  deletes them one at a time before it writes.
* Metadata of a contest comes as a field or as a file part, which the parser counts and decodes
  in different ways.
* Requests and resets wait on one condition variable; a request's lease ends before the body
  of its download does; a delayed request writes back a configuration it read before the delay.
* The reset script unlinks the lock file that guards the directory, and processes die between
  any two file operations.

`PROJECT.json` lists each of these at its line with the properties that cover it.

## 2. Modules

| module | models | abstract specification it implements |
|---|---|---|
| `ChargeLifecycle` | transition table, provenance, expiry, the row | |
| `EventRing` | event ids, ring, eviction, `replayable_events` | |
| `ChargeStore` | `JsonStore` and every operation of `ChargeService` | `ChargePromise` (one charge) |
| `ChargePromise` | what the contract promises about one charge | |
| `EventStream` | broker, `/events`, `/sync-snapshot`, reset, clients | `EventFeed` (one client) |
| `EventFeed` | what the contract promises a client of the stream | |
| `Attachments` | contest files and the state that references them | |
| `DeadlineScheduler` | arming and wake-ups | |
| `OperationBarrier` | the condition variable behind the leases | |
| `RequestPath` | chaos, lease, reset and download around every handler | `OperationBarrier` (`BarrierSpec`) |
| `RuntimeDirectory` | lock, `open()`, serving, the reset script | |
| `CostBreakdown`, `ByteRanges` | integer arithmetic | |
| `ContestUpload` | limits and refusals of a contest's multipart body | |
| `Graphemes` | `grapheme_clusters` | |
| `ChargeStoreProofs`, `LedgerProofs`, `AttachmentProofs`, `BarrierProofs`, `RuntimeProofs`, `StreamProofs`, `SchedulerProofs`, `InputProofs` | theorems and proofs | |
| `MCChargeStore`, `MCAttachments`, `MCDeadlineScheduler`, `MCRuntimeDirectory`, `MCInput` | instances for TLC | |

`ChargeStore` extends `ChargeLifecycle` and `EventRing`; `EventStream` extends `EventRing`;
`DeadlineScheduler` extends `ChargeLifecycle`; `RequestPath` extends `OperationBarrier` and acts
on its variables; `RuntimeDirectory` extends `CostBreakdown`; `MCInput` runs `ContestUpload`
and `Graphemes` side by side. The system models share no variables:
what each needs of the others it has as an abstraction of its own (`EventStream`'s `Commit`
is any mutation, `Attachments`' `OtherCommit` too).

### ChargeStore

`mem` is `JsonStore._snapshot`, `disk` is `state.json`; both are records with the fields of
`StoreSnapshot`. A charge is its position in the list. One action is one critical section:
an operator `...Outcome` computes what the mutator returns (working copy, draft events,
whether to persist), and `Commit` does with it what `JsonStore.commit` does. A write has
three outcomes: done (`CommitDone`), failed before `os.replace` (`CommitFailed`), and failed
in the directory fsync after it (`CommitUnsynced`). `Restart` is the death of the process
at any moment together with the next `open()`. A death between write and answer is a
`CommitUnsynced` followed by `Restart`.

A ledger record says with `shared` that its body *is* the current row; `Encoded` is what
`json.dumps` makes of a snapshot, where the sharing ends. `effects`, `acked` and
`lastPublished` are auxiliary: committed requests, those whose 2xx answer went out, and the
newest id given to the broker. `effects` lies inside the snapshot so that it survives or is
lost with what it describes.

Left out: descriptive fields, `updatedAt`, bookings other than their existence, the text
of errors, notification ids (a notification is its position), input validation, and what
`RuntimeDirectory` has of `open()`. The wall clock is assumed not to go back. Retries need
no state of their own: any request may be sent at any time, any number of times.

### EventStream

Of a snapshot it keeps epoch, revision and ring; `log` (auxiliary) is every event of the
epoch, `told` (auxiliary) every event a client knows of. A subscriber's `queue` is the
bounded `asyncio.Queue`, `wire` the frames sent and not yet read, at most `WireCapacity`
before the sender waits. `Connect`, `Send`, `StreamEnds` and `Drop` are stretches of the
endpoint; a broken connection and its `unregister` are one action. Requests in progress are
a counter of leases; a reset closes the streams and then either gets the lease at once or
waits (`ResetAtOnce`, or `ResetWaits` and `ResetGranted`). `Receive` is the client, external
code that behaves as section 10 of `docs/contract-v1.md` demands. A cursor that cannot be
parsed is not distinguished from one that is stale.

### Attachments

Here the unit is one file-system operation, because the process may die between any two.
Other requests interleave only while parts are staged (`Free`). `blame` is auxiliary: it
records the faults that may have set files and state apart - a move that failed after
another succeeded (`strays`), a contest's write that failed after the replace
(`unsynced contest`), a reset not carried to its end (`interrupted reset`). A new opaque id
(a UUID) is one not in use. Seed media never change and are left out; so are size caps,
media sniffing (`ContestUpload`) and downloads (`RequestPath`).

### DeadlineScheduler

One behaviour is one process from its start, with any state file. A wake-up reconciles
(`Wake`) and re-arms (`Arm`); between the two clock readings time may pass (`Tick`) but no
request is served. A sleep is measured by the event loop's clock and may end before the
wall clock reaches the deadline. `dropped` is auxiliary: a wake-up's commit failed, or a
deadline fell between its two readings. Cancelling the task at shutdown ends a behaviour.

### OperationBarrier and RequestPath

`shared` and `exclusive` are `_shared` and `_exclusive`; `place` says where in `shared()` or
`exclusive()` a task is: `parked` in `wait()`, `woken` by `notify_all` but not yet run again,
or `inside`. The lock of the `asyncio.Condition` is held only between two suspension points,
so each such stretch is one action. `RequestPath` adds what surrounds a handler: `Arrive` is
`chaos.apply` up to its sleep, `DelayEnds` the rest of it, `Pass` the middleware, `Finish` and
`EndLease` the end of the `async with`. A reset takes no shared lease (`_SELF_MANAGED_PATHS`)
and asks for the exclusive one itself. A full download returns from its handler before
anything is sent: Starlette's `FileResponse` (external) reads the size, sends the head, which
ends the lease (`call_next` returns), and then opens the file; lease and body are therefore two
sequences that interleave. `asked`, `injected` and `overlap` are auxiliary and count faults.

### RuntimeDirectory

One action is one file operation of a backend or of the script that empties the directory, and
any process may die between two (`Dies`, which is also how a backend shuts down). `lockFile` is
the inode the name `runtime.lock` stands for; a process locks the inode it has open, which need
not be that one any more. `state.json` may also be `Unusable`: unreadable, or of another schema,
contract or seed version. Of `assert_safe` only the marker is modelled; the rest looks at the path
alone.

A serving backend writes in steps as well. `working` is the snapshot of a commit under way:
`StartsWriting` writes the temporary file, `ReplaceFile` is the `os.replace`, `Commits` the
directory fsync together with the swap of the snapshot in memory; `WriteFails` and `SyncFails`
are the failures before and after the replacement. A contest moves its files one by one
(`MoveFile`, `MoveFails`) before it writes, and rolls back the same way (`RollBack`); `POST /reset`
deletes one by one (`DeleteUpload`) before it writes. Nothing else of that backend runs meanwhile,
since none of these steps suspends the event loop; what other requests do while parts are
still staged is in `Attachments`.

Two variables are auxiliary. `orphaned`: the script has unlinked the lock file under a process
that had it open. `blame` holds the faults after which memory, state and uploads may differ, until
they are repaired: an `unsynced write` (the file is ahead of memory until the next complete
write), an `unsynced contest` (the same, and the files it names were rolled back), an
`unfinished reset` (files deleted, the state that names them not replaced), and `strays` (files a
failed move left behind). `Init` allows an unfinished reset of an earlier process.

### ContestUpload

One request, in chunks: `MaxBodySizeMiddleware` counts the body (`seen`), the parser takes or
refuses the form, `_split_contest_parts` and `validate_contest_reason` look at its parts, and
`AttachmentStager.stage` counts each file (`size`) and all of them (`total`) before it writes
(`disk`). What is sent is chosen at the beginning; the client may go away while the body is
read. A name or a media type is a flaw a file has or has not. Metadata is a field of the form or, as
the repository's own tests send it (`test_commands.py:41`), a file part: then it is one of the
`others`, which count against the parser's `max_files` but not against `MAX_ATTACHMENTS`, and it may
be bytes that are not UTF-8 (`MetadataUndecodable`). Missing `Idempotency-Key`s are
refused before any of this and left out.

A body that exceeds its limit without saying so in `Content-Length` does reach the parser, which
is told that the client has gone: the answer is 400 `request.malformed`, although section 11
of the contract calls it 413 `attachment.total_too_large`. And one attachment more than the limit
beside metadata in a file part is refused by the parser, as `request.malformed`, before the route
could call it `attachment.too_many`; `test_commands.py:289-300` allows either. `RefusedForCause`
allows both in both cases. It also lets undecodable metadata be answered `server.internal`, which
is the code's fault (section 5).

### Graphemes, CostBreakdown, ByteRanges

`Graphemes` is the loop of `grapheme_clusters`, one character a step. A character is the class
the rules see in it, and the classes overlap as the code's ranges do: 0x203C-0x3299 and
0x1F000-0x1FAFF take in the emoji (`pict`) and, beside them, the regional indicators, the skin tones
and other marks (`modifier`), the Hangul tone marks, the word joiner, and everything else that
lies there, kana for instance (`symbol`).

`RuleBreaks` is the reference: UAX #29 by its own classes, where only `pict` is a pictograph and a
tone mark is a mark, looking back over the whole text. Of the code's definitions it uses `Control`
alone. The two differ, so the property that holds has a scope, `Joining`: a zero-width joiner
either follows an emoji and its marks and is not followed by a regional indicator or a symbol, or
follows plain text, that is, nothing or a character outside the code's pictographic ranges, with
marks and joiners after it.
Out of that scope are flags, marks or symbols before a joiner, and joiners repeated after an
emoji. Which code point is in which class is otherwise taken to be as in the standard, and the
classes the code does not have (ZWNJ and tags as marks, extended jamo, the conjuncts of GB9c) are
not modelled.

`CostBreakdown` and `ByteRanges` are single expressions over integers, with the reference beside
them (`AddsUp`, `Wanted`).

## 3. Runs

| run | module, cfg | checks | result |
|---|---|---|---|
| `store` | `MCChargeStore`, `MCChargeStore.cfg` | nine invariants, `PublishedIdsAscend`, `RefinesPromise` | hold, 95 k states |
| `stream` | `EventStream`, `EventStream.cfg` | `StreamIsTheLog`, `RefinesFeed`, `EventuallyCaughtUp` | hold, 580 k states |
| `attachments` | `MCAttachments`, `MCAttachments.cfg` | `StateIsLoadable`, `UploadsMatchState`, `PartsAreStaged` | hold, 38 k states |
| `scheduler` | `MCDeadlineScheduler`, `DeadlineScheduler.cfg` | `SleeperForgetsNobody` | holds, 690 states |
| `requests` | `RequestPath`, `RequestPath.cfg` | five invariants of barrier, files and faults, `UsesBarrier`, `RequestsAreServed`, `EveryoneIsServed` | hold, 272 k states |
| `runtime` | `MCRuntimeDirectory`, `MCRuntimeDirectory.cfg` | `OneOwner`, `ServesTheDirectory`, `ReferencesResolve`, `BreakdownsAddUp`, `RefusedStateIsPreserved` | hold, 1.25 M states |
| `input` | `MCInput`, `MCInput.cfg` | `StagingIsBounded`, `AcceptedIsSound`, `RefusedForCause`, `BreaksByTheRules` | hold, 452 k states |
| `replay_exact`, `records_live` | `MCChargeStore` | two claims of the contract about the ledger | violated |
| `reset_closes` | `EventStream`, `ResetClosesStreams.cfg` | "a reset closes live streams" | violated |
| `half_mutation` | `MCAttachments`, `NoHalfMutation.cfg` | "no code path persists half of a mutation" | violated |
| `scheduler_quiet` | `MCDeadlineScheduler`, `SchedulerReconciles.cfg` | deadlines are reconciled by the server's own scheduler | violated |

### What the passing runs show

`store`: every row tells a legal story (`RowsWellFormed`) and a student never beats an
elapsed deadline (`DeadlineDecides`); a request takes effect once (`AtMostOnce`), is not lost
once acknowledged (`AckedSurvives`), and shows in the rows exactly if it was committed
(`EffectsMatchRows`); a key's record is its last commit, with a row the charge has had since
(`LedgerHoldsCommittedRows`); the retained events name each version of a charge without a gap
(`FeedTracksRows`); no published id is ahead of the file (`CursorNeverAhead`) and ids ascend
(`PublishedIdsAscend`). All of it in memory and in the file, under failing and half-failing
writes, restarts and a reset.

Seen one charge at a time, `ChargeStore` implements `ChargePromise` under the mapping
`epoch <- mem.epoch`, `row <- RowOf(c)` (`RefinesPromise`).

`stream`: what a client has been told, what is on the wire and what is queued is the epoch's
log (`StreamIsTheLog`); seen by one client the stream implements `EventFeed`, with
`log <- mem.log` and `heard <-` the part of `told` that belongs to the current epoch; and no
overflow loses an event for good (`EventuallyCaughtUp`). One client is enough, since the
broker treats each subscriber alone.

`attachments`: the state file names only existing files whenever the process may die, except
after the two faults named by `blame`; between requests `uploads/` is exactly what the state
references; staged parts stay until they are moved.

`scheduler`: reconciliation's `now >= deadline` and re-arming's `deadline > now` leave no gap,
so as long as one task sleeps every outstanding charge is decided, also one raised since with
an earlier deadline (late, then, but not never).

`requests`: a reset that has its lease is alone (`ResetIsAlone`); counter and flag are those
inside (`LeasesAreCounted`); nobody waits for a notification that has been (`NoLostWakeup`); the
middleware uses the barrier as it is meant to be used (`UsesBarrier`, the barrier's own
specification as a property). A file looked up under a lease stays while the lease lasts
(`LeasedFilesStay`), and that is all: a body opened after the lease may be cut short by a reset.
Faults injected and left are those asked for (`FaultsAreExact`), unless a delayed request
overwrites a newer configuration. Requests are served whatever the load once no resets come
(`RequestsAreServed`), and resets too once requests cease (`EveryoneIsServed`): under a steady
load a reset may wait for ever, and nothing in the code prevents that.

`runtime`: one process owns the directory (`OneOwner`), as long as the script has not unlinked the
lock file under a process that had it open (`orphaned`) - a window the code leaves. Between its
requests a backend's memory is what the file holds and the uploads are what that references
(`ServesTheDirectory`): failed writes, contests rolled back and other processes do not set
them apart, and only an unsynced write, strays and an unfinished reset do. Deaths and failures
between any two file operations never leave references that lead nowhere
(`ReferencesResolve`), except two: a reset over HTTP that is cut short before it has replaced the
state, and a contest rolled back after its write had replaced it. An upgrade never leaves a
charge the response schema would refuse (`BreakdownsAddUp`), and state that a backend refuses
stays as it is, uploads included (`RefusedStateIsPreserved`) - but for one case the property names:
state refused for a reference that leads nowhere may have had its rows upgraded before.

`input`: the staging directory never outgrows the limit (`StagingIsBounded`), what is accepted
gave no cause for refusal (`AcceptedIsSound`), and only what did is refused, with the exception
above (`RefusedForCause`); within their scope, clusters begin where the rules say
(`BreaksByTheRules`). TLC also evaluates the statements of `RangesAreExact` and `DefaultAddsUp` on
small numbers, as assumptions.

### Bounds

The bounds are constants, and guards compare against them where a counter would grow.

* `store`: two keys (one reused for two resources, or one request under two keys), one task,
  one seeded and one raised charge, versions to 3, four revisions, two epochs, three instants
  with the deadline at the last one, a ring of three. Four revisions let a charge be
  reconciled, paid, and two other commits surround them; a batch has up to three events, so the
  ring overflows within and across commits.
* `stream`: one client, a ring of two, a queue and wire of one, batches of up to two, revisions
  to 4, two epochs. Every overflow position occurs: before, within and after a batch, in
  queue and ring.
* `attachments`: two requests, two charges, two parts each, four ids.
* `scheduler`: two charges, deadlines 2, 3 and 5, five instants.
* `requests`: three tasks (one inside, one woken, one that comes in between), one file, `failNext`
  at most one. Tasks are used again for later requests, so their number bounds only how many
  are in progress at once.
* `runtime`: two backends, one script, two inodes (a lock file that is unlinked and the one that is
  created after it; whatever a third would allow, `orphaned` excuses), one charge, in the seed
  and removed or raised at two amounts of which one is the seed's and the other rounds, two ids
  (one that is referenced and one that is being moved).
* `input`: limits of a body of 5 chunks, 2 files, 2 chunks a file, 3 in all; up to four files of
  up to three chunks, sound or flawed, with up to two other file parts, reasons on both sides of
  both limits; texts of four
  characters, enough for a pictograph, a mark, a joiner and a pictograph, and for two flags.

`CHECK_DEADLOCK FALSE` is set because runs stop at their bounds, and because a process that
refuses its state (`StartRefused`) does stop. Symmetry is used over keys (`store`) and over
requests, charges and ids (`attachments`), and over processes, inodes and ids (`runtime`), in runs
without liveness properties.

### Fairness

`EventStream!FairSpec`: the stream loop is a task whose wait is bounded by the heartbeat, so
`Send` and `StreamEnds` are weakly fair; a client reads its socket, reconnects when its stream
ended and takes a snapshot when told to (`Receive`, `Connect`, `SyncRequired`). Commits,
resets and faults are not required to happen; that faults cease is the hypothesis of
`EventuallyCaughtUp`.

`DeadlineScheduler!FairSpec`: time goes on, a sleep ends once its instant has come, the event
loop finishes a wake-up. No request is required.

`RequestPath!FairSpec`: each request's coroutine goes on when it can (`WF` of `Proceed(t)`): the
event loop runs what is ready, injected delays end, handlers return. Requests need not arrive,
and no order among woken tasks is assumed.

## 4. Proofs

### ChargeStoreProofs

`TypeCorrect`, `StoriesAreLegal` and `DeadlineAlwaysDecides` prove the run's `TypeOK`,
`RowsWellFormed` and `DeadlineDecides` for all keys, tasks, seeds and bounds. Assumptions:
`SeedAssumption` (the seed's rows are well formed and lie in time, as `export_fixtures.py`
demands of them) and `BoundAssumption` (bounds are naturals, the ring holds an event).

`TypeOK` is not inductive: `ResponseBody` of a shared record reads the charge list at the
record's resource, so `GoodState` adds to it that a shared body belongs to a row of the
list. `LegalState` then adds that the rows of `mem` and `disk` are good (well formed and in
time). Each operation's outcome is shown good (`GoodOutcome`), and one lemma about `Commit`
carries that through the three outcomes of a write. `PositionsEnumerable`, that a set of list
positions can be listed in ascending order (so that `InListOrder` denotes something), is
proved by a least counterexample.

### LedgerProofs

The rest of the `store` run, for every seed and bound, from the same two assumptions, on top of
`LegalState`:

* `EffectsHappenOnce`, `RowsShowEffects` (`AtMostOnce`, `EffectsMatchRows`): every effect is
  `Accounted` for, that is, its task is there or its charge has a later version than the one the
  request named. A command that is accepted names the present version, so no effect can be like
  it; that is the whole reason why the same request under another key is refused.
* `AcknowledgedSurvives` (`AckedSurvives`) needs `Durable`: what is in memory, not only what was
  acknowledged, is in the file as long as the epochs agree, for a replay is answered from memory.
* `CursorStaysBehind`, `IdsAscend` (`CursorNeverAhead`, `PublishedIdsAscend`): a cursor is an id
  of its snapshot's epoch and of a revision it has reached (`SoundFeed`), and the epochs of what
  was published, of memory, of the file and of the last reset are in this order
  (`EpochsOrdered`): only the file can be of an epoch the process has not seen.
* `RecordsAreBacked` (`LedgerHoldsCommittedRows`): a row that changes changes its version
  (`MovesOn`), so a body may fall behind its row but not disagree with it; revisions number the
  effects, so the newest of a key is the one its record holds.
* `FeedFollowsRows` (`FeedTracksRows`): the retained events name a `Window` of the versions of
  each charge up to the present one, and a `Chain` of all of them as long as nothing was evicted;
  `Tracked` also says that no retained id is a baseline's, so that an eviction shows in
  `evictedThrough`. Every outcome `Announces` what it changes: its drafts are the chain from the
  version in memory to the one in the working copy, which for reconciliation rests on its
  drafts being listed in list order. Appending a chain extends a window (`WindowGrows`), and
  dropping the oldest events leaves one (`WindowShrinks`).
* `PromiseIsKept` (`RefinesPromise`): `ChargeStore` implements `ChargePromise` for each charge.
  The invariant `Linked` says what a restart may show: the file is the served state, one commit
  ahead of it, or the seed of a reset that was not confirmed. `Reaches` is one step of the promise
  between two rows; it stays true as time passes (`ReachesLater`), which is why a commit made
  before a death may become visible after it.

### AttachmentProofs

`TypeCorrect`, `StateAlwaysLoadable`, `UploadsAlwaysMatch` and `PartsAlwaysStaged` prove the
four invariants of the `attachments` run, for any number of concurrent contests, ids and
parts, from `AttachmentAssumption` (the limit is a positive natural). The inductive invariant
`Inv` adds what they rest on:

* `StretchesAreExclusive`: a request that finalises or rolls back is alone, and a dead process
  keeps nothing in memory;
* `MovedFilesAreOwn`: what a request has moved is in `uploads/`, in no committed snapshot, and
  in the file only after a half-failed write. This is what makes a rollback harmless;
* `MemoryIsLoadable`, `UploadsAccountedFor` (every file is referenced or just moved),
  `StagingMatchesParts`.

One lemma per action shows that it keeps `Inv`. TLC has checked `Inv` on the instance of
`attachments`.

### BarrierProofs

`KeepsToBarrier` shows step by step that `RequestPath` implements `BarrierSpec`, for any number
of tasks; `ResetAlwaysAlone`, `LeasesAlwaysCounted` and `NoWakeupIsLost` are invariants of
`BarrierSpec` and carry over. The counting argument is about cardinalities: one lemma each for
who enters and who leaves. `LeasedFilesAlwaysStay` needs that a request which has looked up a
file is inside in shared mode, so that no reset is; `FaultsAlwaysExact` and `TypeCorrect` rest on
`config`, and every configuration read and not overtaken, being the one that counts.
Assumptions: `TasksFinite`, `BoundAssumption`.

### RuntimeProofs

`LockInv` says that the owner of the directory holds the lock of the inode it has open
(`OwnersHoldLocks`), and that, unless `orphaned`, all that are open are the one that
`runtime.lock` names (`OneLockFile`); `OneOwner` follows. `DirectoryInv` adds, per place of a
process, how memory, working copy, file and uploads are related and which faults excuse that
(`StateAgrees`, `UploadsAgree`): while a write is under way every upload is named by memory or
by the working copy, so that a rollback takes nothing that memory names; these relations survive
the steps of the others because there is one owner. `Resolves` is `ReferencesResolve` itself.
`RowsInv` says at which places rows add up. `AlwaysOneOwner`, `DirectoryStaysWhole`,
`ServesWhatItHolds`, `EveryChargeAddsUp`, `RefusalPreserves` and `RuntimeTypes` follow, for any
number of processes, charges and amounts, from `RuntimeAssumption` (kinds of values are
distinct, amounts are naturals, the seed's breakdowns add up). What is excused is part of the
statements: `orphaned` and, by name, the faults in `blame`. `DefaultAddsUp`: the default
breakdown of every amount has no negative part and adds up; the rounding part is what needs
the argument.

### StreamProofs

For any clients, queue and ring capacities and bounds, from `StreamAssumption`, the three
safety properties of the `stream` run: `StreamTyped` (`TypeOK`), `StreamsCarryTheLog`
(`StreamIsTheLog`) and `StreamIsAFeed` (`RefinesFeed`). The inductive invariant is `StreamInv`:

* `RingEndsLog`: the ring is the end of the log, and both of its cursors are positions in the log;
  with the ids ascending (`LogAscends`), the events behind a servable cursor are then exactly the
  rest of the log (`ReplayIsTheRest`). This is why a replay has neither gap nor repetition.
* `DiskIsAhead`: the file has the events of memory and perhaps those of one commit more, or is the
  seed of a later epoch. Without it a restart could take back what clients have heard.
* `NothingAhead`: no event told, on a wire or in a queue is of an epoch still to come, so an
  epoch begins with an empty stream whatever is still in flight.
* `CursorIsPlace`: who holds a cursor of the present epoch has heard the log up to it. It
  connects what a client says when it reconnects with what it was told before.
* `Streams`, the property itself.

Each action of the store is shown to let the log go on or to turn the epoch
(`LogGoesOn`, `EpochTurns`), and each action of a client to keep the others as they are. For
the refinement every step is then a step of `EventFeed` or leaves its variables alone
(`FeedMoves`). The lemmas on selections from a sequence (`WithinConcat`, `WithinAll`,
`WithinNone`) rest on the existence of the recursive function in `Within`, which is proved by
a least counterexample.

### SchedulerProofs

`SchedulerTyped` proves `TypeOK` of the `scheduler` run: the timer is the deadline of some charge
or unset, for which the minimum of a set of naturals is shown to exist. `WakeUpSkipsNobody` is
a property of its steps: a wake-up that no fault cuts short re-arms for the nearest deadline of
all that are outstanding, and stops only when there is none. `RearmsAhead`, that nothing which is
outstanding has elapsed between the two halves of a wake-up, makes the invariant inductive; it
is where `now >= deadline` of the reconciliation meets `deadline > now` of the arming.
Assumption: `DeadlineAssumption`.

### InputProofs

* `LimitsHold` (`StagingIsBounded`): whatever the limits, `disk = total + size` while files are
  staged, so the directory never holds more than the limit and nothing afterwards.
* `AcceptanceIsEarned`, `RefusalIsEarned` (`AcceptedIsSound`, `RefusedForCause`): the invariant
  `PassedSoFar` says what a request at each place has passed: its header before its body, the
  body and the number of files before the parts, the metadata and the reason before anything is
  staged, and each file before the next. `total` is the sum of the files staged, and no sum of the
  first files exceeds the sum of all, so the total limit refuses nothing the body limit or the sum
  of all files does not deserve. The sum is a recursive function; its existence, and that it
  grows, are proved by least counterexamples.
* `ClustersFollowTheRules` (`BreaksByTheRules`): for texts of any length that are `Joining`, against
  the standard's classes. After an emoji with its marks, and a joiner behind them, `pending` is
  set (`EmojiInv`); after plain text with marks and joiners it is not (`PlainInv`); so at every
  joiner in scope `pending` says what looking back would (`JoinsTheRightOnes`). `run` has the parity
  of the regional indicators at the end of the text (`RunInv`).
* `RangesAreExact`: for every size and header, the bytes sent are those asked for, and 416 answers
  exactly the headers that ask for none.

### Only model-checked

What remains with TLC is what the prover cannot do: the liveness properties, which need fairness
and `ENABLED`. Every invariant and every action property of the passing runs, and the three
refinements, are proved.

The installed provers cannot instantiate the library's induction theorems, whose parameter is an
operator. Where induction over positions is needed it is stated with a set in the place of the
predicate (`UpTo`), and proved by `WFMin`: a set of naturals has a least element.

## 5. Where documents and code differ

* **Replay is not exact** (`replay_exact`). Contract section 7: a replay "returns that exact
  committed response". The ledger body is the live row (`charge_service.py:424`), so paying an
  accepted charge changes what the accept's key replays, until a restart freezes it.
* **Records do not live until a reset** (`records_live`). The ledger is keyed by the bare key
  while lookups compare the scope, so the same key on another resource erases the first record.
* **A stream may survive a reset** (`reset_closes`): streams are closed before the exclusive
  lease is asked for; a client that connects while the reset waits stays registered, and the
  first event of the new epoch gives it a cursor that will be served, so it is never made to
  resync.
* **Half a contest may be persisted** (`half_mutation`): after a failed directory fsync the files
  are rolled back although `state.json` already names them; a process started from that file
  refuses it. The next successful commit would repair the file.
* **The scheduler may fall silent** (`scheduler_quiet`): nothing is scheduled when no deadline is
  ahead, and requests never re-arm, so overdue charges may wait for a request.

Four more, without a run of their own:

* Task creation, notification reads and the operator's routes commit without reconciling elapsed
  deadlines first, which section 5 of the contract promises of every mutation (in `ChargeStore` the
  outcomes that do name `ReconcileDeadlines`).
* An undeclared oversize body is answered as malformed (see `ContestUpload`).
* `commands.py:206` decodes metadata that came as a file part before the `try` of lines 209-212, which
  expects a `UnicodeDecodeError`: bytes that are not UTF-8 are answered 500 `server.internal`, where
  400 `request.malformed` is meant. It is the exception in `RefusedForCause`.
* The ranges of `_is_extended_pictographic` (`graphemes.py:62`) take in regional indicators, kana,
  arrows and marks, which GB11 does not join: an emoji, a joiner and a regional indicator are one
  cluster for the server and two for the standard. It is why `BreaksByTheRules` has its scope.

## 6. Not modelled, and why

* Field rules of JSON bodies, the developer token, headers of downloads: checks on one request
  with no state.
* What the reads project from the snapshot, `/hub` and its summaries: functions of one snapshot.
* Request parsing, schemas, error texts, canonical JSON, namespaces, fixture export:
  stateless functions over text.
* Loss of data the kernel had not written when power failed: a write that returned is kept.

## 7. Plan

Done: the modules of section 2 and the proofs of section 4. What is left are the safe halves of the
liveness properties, which need no fairness: that a client which has not caught up always has
something on its wire, in its queue or in a replay to come, that a sleeping scheduler's timer is
never beyond the next deadline it has seen, and that a request which waits is waited for by
nobody it waits for.
