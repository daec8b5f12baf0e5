# A model of Abhed's sandbox control plane and record

Abhed runs agents and commands in sandboxes. Its control plane keeps one object
per sandbox in a store, lets clients change it through a REST API, and has a
reconciler bring the instances in the drivers in line with the objects. The
server gives each agent session a sandbox of its own, some of them from a warm
pool. What a session does is recorded in a chained file, which a shipper sends
to the organisation's server. Those are the parts of the program where
independent actors race for shared state, where servers, drivers and disks fail
between two steps, and where unit tests reach the fewest of the interleavings.
This project models them in TLA+, checks the models with TLC on small instances
and proves safety properties with TLAPS.

## Inventory

| Part | State it keeps | Operations | What is hard about it |
|---|---|---|---|
| Lifecycle (`controlplane/state.go`, `restart.go`) | state and generation of a sandbox | `Transition`, `Restore`, `RestartDue` | which moves exist at all |
| Store (`store.go`, `memory.go`, `etag.go`) | objects and their versions; idempotency records | `Mutate`, `Create`, `Update`, `Delete`, `Claim`, `Renew`, `Complete`, `Release` | lost updates, If-Match, bounded retries |
| Idempotent requests (`idempotency.go`) | a claim with a lease per key | `Do`, `renew` | a retry racing the first request; renewals that fail; a server that dies |
| Service verbs (`service.go`, `verbs.go`) | `graces`, `inflight`, `again` | `Create`, `Start`, `Stop`, `Delete`, `Update`, `Exec`, `Snapshot`, `Restore` | state read before and used after the record, the guard and the driver |
| Dispatch of passes (`reconcile.go`, first half) | the kick queue, slots, marks | `Kick`, `Run`, `all`, `dispatch`, `done`, `forget`, `Reconcile`, `holdPass`, `unhold` | lost wake-ups, marks left behind, shutdown |
| Passes (`reconcile.go`, second half) | conditions, restart counts | `reconcile`, `settle`, `observe`, `watch`, `restart`, `remove` | a pass's outcome written to an object that moved on |
| Process driver (`driver/process`, `driver/snapshot`) | instances, running commands, snapshots | `Create`, `Start`, `Stop`, `Delete`, `Status`, `Exec`, `Snapshot`, `Restore` | draining commands, restoring, what is lost in a restart |
| Waiting callers (`sessions.go`) | | `await`, `WaitReady`, `StopNow`, `DeleteNow` | passes made outside `Run` |
| Warm pool (`sessions.go`) | members, by label | `fill`, `Run`, `Claim`, `Drain` | several processes fill and claim from one pool; a member listed as free is claimed meanwhile |
| Session sandboxes (`internal/sessionsandbox`, `server`) | which sandboxes this process bound, a lock per session | `Bind`, `wake`, `SessionDeleted`, `Sweep`, `Close` | two requests of one session; a sweep that races sessions being started; a bind that fails half way |
| Container, microVM and plugin drivers | containers, machines, processes | as the process driver | survival of instances over a server restart |
| API and streams (`server`) | output buffers | exec streams, resume | slow readers, cut connections |
| Local record (`store/local`) | per session a chained file, a head and a lock; an index | `take`, `load`, `Append`, `sync`, `Release`, `Prune`, `DeleteSession`, `Verify` | a crash, a failed call or a loss of power between write, sync and head; a prune beside a writer |
| Shipping (`recordship`) | a cursor per session, events | `Pass`, `ship`, `send`, `from`, `report` | lost answers, a server at another place, sessions pruned before they were sent |
| Agent, tools, policy, egress, accounts, console, monitoring | | | mostly data, parsing and I/O |

How they interact: a verb reads the object, is recorded and admitted, and changes
the object through `Mutate`; then it kicks the reconciler. The reconciler's loop
gives each kicked or listed sandbox a goroutine, at most one per sandbox and
eight at once. A pass reads the object, calls the driver for what the state asks
for, and writes the outcome only if state and generation are still what it read.
`Restore` takes the sandbox's in-flight mark itself to keep passes off while the
workspace is replaced. Callers that wait (`await`) make passes themselves.
Requests carrying an `Idempotency-Key` go through `Do` around all of this.

The server binds a sandbox to each session: the one the session's label names,
else a Ready member of the warm pool, which every process on the store keeps
filled, else a new one. After a restart it sweeps the sandboxes of sessions the
session store no longer has, and as it stops it gives the ones it bound their
retention. Sessions append events to the local record under a lock per session;
the shipper reads the files behind the writers and keeps a cursor per session.

The properties that make the parts correct:

* lifecycle: the table is the whole lifecycle; deletion is final;
* store: no lost update, a write with If-Match lands on that version;
* idempotency: one run at a time, one effect, faithful replays;
* dispatch: one pass per sandbox, bounded passes, no lost wake-up, an orderly end;
* verbs and passes: a sandbox at rest has nothing running, a removed one has no
  instance, a restore is alone with the workspace, incarnations do not overlap,
  everything due is eventually done;
* warm pool: a member goes to one session, a claimed one is nobody else's to
  delete, the pool is bounded;
* session sandboxes: one per session, and none deleted under a live session;
* record: an honest record always verifies, what was synced stays, what was
  pruned is not written again by who can read the index, and what was deleted is
  off the disk;
* shipping: everything that may reaches the server, what was pruned unsent is
  told as long as the log of events keeps it, and "diverged" is only said of a
  record that did change.

`PROJECT.json` lists every component, including those left out and why, and
every hazard at the line where it bites.

## Modules

| Module | Models | Extends / instantiates |
|---|---|---|
| `Lifecycle` | states, moves, restart policy | |
| `Idempotency` | `Do`, `renew`, the claim records | |
| `AtomicUpdate` | abstract: a change made in one step | |
| `Mutate` | `Mutate`, `Memory.Update`, `Memory.Delete` | `INSTANCE AtomicUpdate` |
| `Dispatcher` | `Run`, `dispatch`, kicks, marks, slots, holds | |
| `ControlPlane` | verbs, passes and the process driver, one sandbox | `Lifecycle` |
| `WarmPool` | `Pool`: `fill`, `Run`, `Claim`, `claim`, `Drain`, several processes | |
| `SessionSandboxes` | `sessionsandbox.Manager` and the four requests that use it | `Lifecycle` |
| `Record` | one session of the local record | |
| `Shipping` | `recordship.Shipper` and the server it ships to | |
| `IdempotencyProofs`, `MutateProofs`, `DispatcherProofs`, `ControlPlaneProofs`, `WarmPoolProofs`, `SessionSandboxesProofs`, `RecordProofs`, `ShippingProofs` | the theorems | their module and `TLAPS` |
| `MCIdempotency`, `MCMutate`, `MCDispatcher`, `MCControlPlane`, `MCWarmPool`, `MCSessionSandboxes`, `MCRecord`, `MCShipping` | the instances TLC checks | their module |

The modules compose by what they show for each other. `ControlPlane` takes a
`Mutate` as one step: `Mutate` shows that the loop implements `AtomicUpdate`, a
change made in one step, or none. `ControlPlane` lets a pass begin whenever no
pass and no hold is in flight: `Dispatcher` shows that at most one of them is,
and that a change is followed by a pass. `SessionSandboxes` takes a claim of a
pool member as one step: `WarmPool` shows that a member a claim holds is its own
and is spared by every fill and drain. `WarmPool` and `SessionSandboxes` take
from `ControlPlane` only how a pass may move a sandbox's state. `Shipping` takes
from `Record` that lines are appended, and disappear only by a prune or with
the power.

Operators whose comment begins with "Mutant" are not part of a specification.
Each stands next to the definition it is a wrong version of (a dropped guard, a
missing reset, an off by one), and is there to show that a property notices it.

### Lifecycle

`transitions`, `CanTransition`, `CanRestore`, `Transition` and `RestartDue` are
the functions of the same name. "Gone" is not a state of the code: it stands for
an id the store no longer has. Backoff times are not modelled, only whether
`NextRestart` has passed.

### Idempotency

One scope and key; each request is a member of `Requests`, a retry another one.
`rec` is the stored `IdemRecord` with the token that claimed it. `Begin` is `Do`
up to the call of `fn`, with the claim and the start of the renewer; `Refuse`
the early returns for a live record; `FnActs` and `FnFails` the two ways `fn`
returns; `Complete` and `Release` what follows; `Renew` and `Late` a tick of the
renewer that succeeds and one that fails. `Sweep` is the sweep of expired
records by a claim of another key; `Crash` a server that dies.

Time is discrete. A store call that is due is made before the clock moves, or it
is late, which costs `RenewEvery`; `MaxMissed` bounds what a request loses so in
a row, and is as large as the lease in the run. `Lapsed(r)` says that `r`'s calls
were late for as long as its lease: the code picks `PendingLease/3` so that one
failed renewal is survived, and nothing in it survives more.

### Mutate and AtomicUpdate

Each writer is one call of `Mutate`: `Read` is `Get`, `CheckIfMatch` and `fn`;
`Update` and `Retry` are `Store.Update` succeeding and finding another version.
`Fn[w][v]` is what the writer's `fn` makes of a value, or `Refused`, so the
theorems hold for every such function. A remover is `Service.remove`: it reads,
calls the driver, and deletes at the version read. `OtherWrite` moves the
store's one version counter for other sandboxes. `AtomicUpdate` has one action
per outcome: the change is made to the value it is judged by, fails, or the
object is removed.

### Dispatcher

`kicks`, `inflight`, `again` and `slots` are the fields of `Service`; `gor[i]` is
where the goroutine `dispatch` started for sandbox `i` is; `loop` where `Run` is.
`callers` are goroutines serving requests: they change a sandbox and then kick
it, make a pass themselves, or hold passes off for a restore. `dirty` is the
sandboxes changed since a pass read them: what a lost wake-up would leave behind.
`unhold` clears the marks and kicks in two steps, as the code does, since `Kick`
is called after the unlock. A pass always reads its object: one whose
`Store.Get` fails ends unread, and its change waits for the next listing or kick.

### ControlPlane

`obj` is the stored object (state, generation, template, version, restarts,
conditions), `inst` the driver's instance, `hold` the in-flight mark and who has
it, `graces` the noted grace, `pass` the pass under way with the object it read,
and `cl[c]` where client `c`'s verb is. A verb is `Prepare` (read, If-Match,
state check), `Refused` (the record, a guard or an interceptor says no), and
`Commit` or `CommitFails` (the write under `Mutate`); `Stop` has one more step,
`NoteGrace`, since the grace is stored after the write. A restore is `HoldPass`,
`RestoreCommit`, `RestoreBegin`, and `RestoreEnd` or `RestoreFails` and
`Rollback`. A pass is `DispatchAll` or `DispatchKick`, `PassRead`, one of the
driver steps, and one of the writes. A driver's `Stop` is two steps, since
commands drain between them; new commands are refused from the first on.

`Fault` is any failure outside the program, of the kinds `Failing` lists: the
driver, the store (or the record, which is in it), or `spec` (no workspace or no
egress proxy). A tier that is weaker than required counts as one. `Crash` loses
everything the server holds in memory, the process driver's instances included.

Left out of `ControlPlane`: more than one replica, a driver that is not
registered, the audit record as such, tiers other than "meets" and "does not",
labels and settings, the contents of workspaces.

### WarmPool

`box` holds the sandboxes of the store that are or were members: a state, of
those the pool tells apart, and a label, the pool's or a claim's. `fill[p]` is
what `fill` or `Drain` of process `p` listed: the count and the members to
delete are fixed at the listing, and each `Delete` and `Create` is a step of its
own. `Delete` asks `may` again on the object, as `Mutate` does. A claim lists
the Ready members and tries them one after the other; one claim at a time in a
process. `Ends` is a stop or a crash at any point, `Restarts` a new process.
`Policy` is the template's restart policy; "never" is the default.

### SessionSandboxes

`call[c]` is a request: a session started (row first, then the sandbox), opened
as a workbench (sandbox first, then the row), resumed or deleted. Its `pc` is
where `Bind` is: `lock` and `find` (`BindFinds`), `wake`, the claim from the
pool, the create, the wait. `bound[p]` is `Manager.bound`. A process boots (its
pool fills), serves (`since` is taken and the sweep starts), drains, closes and
exits, or crashes at any point. The sweep lists, takes the next, asks the
session store and deletes in four steps. Sandboxes are numbered in the order
they are made, which stands for their creation times. The sweep's question is
modelled for a store that has rows for sessions and can be read. Left out are
the branch for a store without `GetSession`, which asks for events instead, and
that the local store's `GetSession` says "not found" of every session while its
index cannot be read.

### Record

`disk` is the session's file (whole lines, an unfinished tail, how many lines
are durable) and its head; `index` what the index says of the session; `held[p]`
the handle of process `p` with what it believes the chain to be. A hash is the
chain it is computed from. `take` is `take` and the decision of `load`;
`LoadRepairs`, `LoadHeads` and `LoadEnds` its writes. An append is `Writes` or
`WriteFails`, then `Syncs` and `MovesHead` at a boundary, then `Tracks`. A prune
or a delete locks, writes the tombstone and removes the files. Each write, sync,
rename and removal has a failing alternative, `Crash` ends a process with half a
line written, and `PowerLoss` keeps the durable lines and any prefix of the
others. A failed call that leaves everything as it was (a lock, an open, a read
of the file) is a `Crash`, or a step not taken.

The index is read through `index.get`, which answers "not found" when the index
cannot be read. `take` then does not see a tombstone, and takes a session that
is listed for a new one: it makes the file and a sentinel head where there are
none and lists the session again. The field `blind` follows such a process
through its load and its handle. The entry stays pruned, so what it writes to a
pruned session is never pruned again. `DeleteSession` answers without an error
when it reads the index so (`DeleteFindsNone`).

A prune removes the session's lock file while it holds its lock, so a process
may lock a new file before the prune has let go. The model lets go at the last
removal. Nothing is lost by that for a process that can read the index, as it
does so under the lock and finds the tombstone; that two blind processes could
hold a pruned session at once, one by each lock file, is not modelled.

### Shipping

`record` and `pruned` are the local record, `server` what the server holds,
`file` the shipper's state file. A pass takes the lock, reads the state, and
goes through the sessions: `ShipBegins` is `ship` up to its loop, with
`pending`, `ShipFails` a read of the index or the record that fails; `SendTaken`,
`SendConflicts`, `SendRefused` and `SendLost` are the answers of `send`;
`PassSaves` and `PassReports` end the pass. A line is a number and stands for
its hash. The server is not in the repository; it is modelled by the answers the
shipper handles: a batch is taken where it follows, and otherwise the server
names its place. It may come back with an older copy.

The events wait in a log in the state. `eventLocked` keeps the latest
`MaxEvents` (100 in the code) and drops the oldest, sent or not; `dropped`, a
history of the model's own, names the events that went unsent. A failing list of
sessions ends the pass before it did anything, as a `Crash` does, and a failing
read in `from` is a `SendLost`. Left out are the backlog and resumed events,
which take places in the log too, a state file that cannot be read (the pass
then goes on from the state in memory) and a change of URL.

## Runs

| Run | Instance | Shows |
|---|---|---|
| `idempotency` | 3 requests, 2 bodies, lease 3, renewal 1, outages as long as the lease | never two running, one effect per loss, faithful replays, fenced records, everyone answered |
| `mutate` | 4 writers (a patch, a condition, two verbs), 1 remover, 1 retry, 1 foreign write | the refinement (so of two racing verbs one wins), If-Match, retries end only in others' success |
| `dispatcher` | 2 sandboxes, 2 callers, 1 slot, queue of 1, 3 changes or restores | exclusion, no lost wake-up |
| `dispatcher_live` | the same with 1 caller and 2 changes or restores | every change is seen, `Run` returns |
| `control_plane` | 2 clients, 3 verbs, 1 failure, 1 crash, 1 restart | the safety properties below |
| `control_plane_live` | 1 client, 2 verbs of all kinds, instances that end by themselves, every failure, 1 crash | incarnations, progress |
| `warm_pool` | 2 processes, 2 claims, pool of 1, 3 sandboxes ever | claims are exclusive, claimed members are spared, the pool is bounded |
| `session_sandboxes` | 1 process booted twice, 2 requests at once, 3 in all, 2 sessions, 2 sandboxes ever, pool of 1 | one sandbox per session, none lost under a session |
| `record` | 2 processes, 3 lines, 3 faults, 2 ids per step | an honest record verifies, synced lines stay, a prune is final for who can read the index |
| `shipping` | 2 sessions, 3 lines, one withheld, batches of 1, a log of 1 event, 2 faults | all is shipped, gaps are told or pushed out of the log, an honest record is never called diverged |
| `erased`, `sweep` | the instances of `record` and `session_sandboxes` | see below |

The bounds are the smallest at which the cases meet. One slot and a queue of one
make waiting for a slot and a full queue ordinary. Two clients are enough for a
verb between any two steps of another verb and of a pass, and three verbs for
stop, start or restore, and delete of one sandbox; a third client adds no new
kind of write between two steps. One restart allowed and one failure reach the
schedule, the restart and the limit. A lease of three renewals is the code's own
ratio. The clock bound leaves room for a lease to lapse, a claim to complete and
its record to expire. In the warm pool two processes and three sandboxes let
both fills list an empty pool, one member be claimed, and the drain of one
process meet the claim of the other. Two boots are a restart, with its sweep,
of a server that left sandboxes behind; three requests let a session be started
or resumed while another request binds or deletes. Three lines and three faults
in the record are a first line whose head fails, a second behind it, and a
crash or a loss of power in the repair of what an earlier one left. Three lines
of two sessions with batches of one let a session need two batches, a line be
withheld behind another, and the server's place differ by one in each
direction; a log of one event is full with the first, so the next pushes it out,
told or not. The run `record` has a view that leaves out whether a delete has
answered, which no step reads and none of its properties but the type speaks of.
Clients, sandboxes, callers, processes and ids are symmetric where no
liveness is checked. Deadlock is not checked in any run: each model may come to
rest when its bounds are used up, and the liveness properties say what must not
be left undone.

### Properties

* `NeverTwoRunning`, `RunsAtMostOnce`, `ReplayIsFaithful`, `LiveRecordIsFenced`,
  `EveryRequestAnswered` (Idempotency).
* `MatchIsHonoured`, `LosesOnlyToWinners`, `ImplementsAtomicUpdate` (Mutate).
* `OnePassPerSandbox`, `NoLostWakeup`, `EveryChangeSeen`, `RunEnds`
  (Dispatcher). `NoOrphanMark` and `SlotBound` are proved, and not checked again
  by a run.
* `RestoreIsExclusive`: while a workspace is replaced no pass is under way, no
  instance or command runs, and the object is Starting or has been marked for
  deletion. `AtRestIsQuiet`: a Stopped, Completed or Error sandbox has nothing
  running, unless `spec` fails. `GoneIsGone`: a removed sandbox has no instance.
  `RestartBudget`. `LifecycleMoves`: every change of state is in the table, is
  the removal of a Deleting object, or a failed restore going back.
  `IncarnationsDoNotOverlap`. `Settles`: every sandbox that is to start, stop or
  be deleted does. `FailureIsRestarted` (ControlPlane).
* `HeldIsOwn`, `ClaimedIsSpared`, `PoolIsBounded` (WarmPool). The bound is
  `Size` per process: the comment of `Fill`, "it never holds more than Size",
  is true of one process. With a restart policy other than the default a member
  a fill failed to delete may come back on top, so the bound is claimed for
  "never".
* `OnePerKey`: one sandbox per session and process, however requests and
  crashes interleave. `BoundIsKept`: a sandbox bound for a session that has its
  row is not deleted before the process closes. `SweepSparesSessions`
  (SessionSandboxes).
* `HonestRecordVerifies`: without a loss of power, crashes and failed calls
  leave a record that loads and verifies. `SyncedIsKept`: with one, what was
  synced under a head is still there. `PrunedIsFinal`: once the tombstone is in
  the index no line is added and no head moved, except by a process that could
  not read the index when it took the session (Record).
* `DivergedIsTrue`, `AllIsShipped`. `GapIsTold`: a session pruned before all the
  shipper knew of was shipped is told as a gap, or its event was pushed out of the
  log unsent; failed passes, failed saves and crashes alone do not lose it
  (Shipping).

### Where the code and its documentation differ

Two runs check a sentence of the repository that the code does not keep; TLC's
trace for each is the shortest way to see it.

| Run | Sentence | What happens |
|---|---|---|
| `erased` | "what they said goes (the files and the blobs no other session names)" (`DeleteSession`) | the index cannot be read, which counts as a session that is not listed: the delete answers without an error and removes nothing (the shortest trace). Or the tombstone is written, and the call that wrote it or the removal of the file fails; the delete returns an error, but its retry finds the tombstone and answers without one, the lines still on disk |
| `sweep` | "only ones made before since and not bound here, so a session being started is never swept" (`Sweep`) | a pool member made before `since` is claimed for a workbench, which has no row yet and is not bound yet, and is deleted while it is being opened |

Smaller observations of this kind (the grace that is noted after the write, the
snapshot of a stopped sandbox that a start may overtake, the template the driver
does not take up, the snapshots a restart leaves behind, the head a load moves
over lines nobody synced) are noted with the hazards of `PROJECT.json`. One more
is behind the exception of `PrunedIsFinal`: "A file is made only for a new
session" (`take`) is not so of a pruned session while the index cannot be read.
Three
more are visible in Shipping: a session pruned in the middle of a pass is told as
diverged, a server that came back with an older copy is not sent the missing
lines until the session has more, and the state file is renamed into place
without a sync.

### Fairness

* Idempotency: a request that is sent is served, `fn` returns (its verbs carry
  timeouts), and the call after it returns. Nothing is assumed of the clock.
* Dispatcher: `Run` and the goroutines it starts are scheduled (weak fairness of
  their steps), passes and holds end (each driver call has a timeout), the ticker
  fires. Strong fairness is assumed in two places: `select` picks at random among
  ready cases, so an ended context is not passed over for ever, and a channel
  queues its senders, so a goroutine waiting for a slot gets one of those that
  keep coming free. Nothing is assumed of the kick queue.
* ControlPlane: the periodic sweep, the steps of a pass, a running command's end
  (it has a timeout and is ended by `stopRun`), a restore that holds passes off,
  and time. A verb that has not started a restore is under no obligation, and a
  kick may be lost.
* Shipping: `Run` makes a pass at least every poll and a pass waits for nobody
  (weak fairness of its steps). Lost answers, crashes and failed saves are
  bounded by `MaxFaults`, so the liveness properties say what holds once the
  server can be reached again.
* WarmPool, SessionSandboxes and Record have no liveness property and state no
  fairness.

## Proofs

All eight proof modules follow the same plan: an inductive invariant `IInv`, that
`Init` implies it and every action keeps it (one step per action), and theorems
that follow from it. The constants are arbitrary up to the named `ASSUME`s, which
TLC evaluates on the instances it runs.

* `IdempotencyProofs`: `TypeCorrect`, `NeverTwo` (`NeverTwoRunning`),
  `AtMostOnce` (`RunsAtMostOnce`), `ReplaysAreFaithful` (`ReplayIsFaithful`) and
  `RecordFenced` (`LiveRecordIsFenced`). The invariant says that an attended request
  (fn runs, or its result is on its way to the store) whose lease has not lapsed
  holds the record, and that the record expires no earlier than a lease after
  its last renewal: the next call's due time and the time already lost together
  stay below the expiry. So a live record exists as long as such a request is
  attended, and `Claim` fails. For `AtMostOnce` it also accounts for each run:
  a completed record, an attended effect, or a loss. Replays need an invariant
  about bodies instead (`ResponseIsKept`): a pending record is of its holder's
  body, a done one carries the response of a request of that body that ran, and
  an answer once given does not change. What is assumed is that the renewal
  period is shorter than the lease.
* `MutateProofs`: `TypeCorrect`, `MatchHonoured`, `LostToWinners`
  (`LosesOnlyToWinners`), and `Refinement`: `Spec`
  implies `AtomicUpdate`'s specification with the value read off the stored
  object and "ran out of retries" mapped to a failure. The invariant: a version
  names one value, so a write that finds the version it read applies `fn` to the
  value that is stored; and versions read are never ahead of the counter. For
  `LostToWinners`, `RaceOK` charges a writer's attempts to winners: the attempts
  behind it are no more than the writers that got through, and one fewer when
  the version it read has already moved.
* `DispatcherProofs`: `TypeCorrect`, `PassesExclude` (`OnePassPerSandbox` and
  `NoOrphanMark`), `SlotsBoundPasses`, `WakeupsKept`. The invariant: a sandbox is
  marked exactly when it has a goroutine, a caller's pass or a hold, and only one
  of them; the slot count is the number of goroutines past `GetSlot`; a dirty
  sandbox has a pass coming.
* `ControlPlaneProofs`: `TypeCorrect`, `RestoreExclusive`
  (`RestoreIsExclusive`), `RestQuiet` (`AtRestIsQuiet`), `GoneQuiet`
  (`GoneIsGone`), `BudgetKept` (`RestartBudget`), `Moves` (`LifecycleMoves`) and
  `NoOverlap` (`IncarnationsDoNotOverlap`), for any number of clients and any
  verbs, policy, faults and endings. None of them is inductive alone. The
  invariant says who holds `inflight[id]` (`HoldInv`, so a pass and a restore
  exclude each other); that a version read earlier and found again names the
  state it was read with, since every write counts it up (`PassInv`,
  `RestoreInv`: why `remove` may trust the version, and why a failed restore may
  put the object back); that clients only lower the restart count under a pass
  and never take the object to a state at rest under one that works on the
  instance; and that no instance runs where the object is at rest, where a
  restore has begun, or where a pass is about to write that it does not
  (`QuietInv`). All parts were model-checked on the two instances before they
  were proved.
* `WarmPoolProofs`: `TypeCorrect`, `ClaimsExclude` (`HeldIsOwn`),
  `ClaimsAreSpared` (`ClaimedIsSpared`) and `PoolBounded` (`PoolIsBounded`, whose
  condition is the restart policy "never"), for any number of processes, claims and
  sandboxes and any size and policy. A sandbox that is gone has lost its label,
  so `HeldIsOwn` needs that ids are not used twice: ids not yet given out are of
  no sandbox and held by no claim (`Numbers`). A claim and a delete then exclude
  each other because each asks the label again on the object it writes. The
  bound counts the live members together with the creates that fills under way
  may still make from their stale counts (`RoomOK`): each process has `Size`
  slots, those above its count are open, a listing opens only slots above the
  members it saw, and a create takes one.
* `SessionSandboxesProofs`: `TypeCorrect`, `KeysHaveOne` (`OnePerKey`) and
  `SweepsSpare` (`SweepSparesSessions`) for any number of processes, callers,
  sessions and sandboxes, and `BoundStays` (`BoundIsKept`) for one process on the
  store (`Alone`): of two, the other's shutdown, or the drop after its bind of a
  sandbox it made itself failed, may delete a sandbox the first has found and
  bound. The invariant: the key's lock has one holder in a process (`Locked`);
  the live sandboxes of a key and the processes about to give it one are together
  no more than the processes (`Counted`: a request that found none is counted
  before it creates); a session id is handed out once, so a sweep that found no
  row for it will not see one appear, a workbench's apart (`RequestsOK`,
  `LabelsUsed`, `SweepOK`); and for `BoundStays` that a sandbox a request made or
  claimed is bound by nobody before that request binds it (`FreshOK`).
* `RecordProofs`: `TypeCorrect`, `SyncedStays` (`SyncedIsKept`), `RecordVerifies`
  (`HonestRecordVerifies`) and `PruneIsLast` (`PrunedIsFinal`), for any processes,
  events and bounds. The invariant follows a process through its calls
  (`ProcOK`): it is away, or it has the lock and is loading, holding or pruning
(where the session is pruned, only blind processes load or hold it),
  and then its handle knows the chain of the file and the head on disk up to the
  one line it is writing; past a first line without a head it is poisoned. Of
  the disk it says that what is durable is a prefix of the file, that what was
  synced is a prefix of that and stays one when power is lost, and that there is
  at most one torn or unheaded line (`FileOK`, `DiskOK`); and while no power was
  lost and nothing pruned, that the lines chain, that head and index name lines
  of the file and that what a crash left of a line is repaired or accepted
  (`HonestOK`).
* `ShippingProofs`: `TypeCorrect` and `DivergenceIsReal` (`DivergedIsTrue`). As
  long as a session has lost no line, the server's copy, every cursor (in the
  checkpoint file and in a pass) and the lines a pass is about to send are
  prefixes or stretches of its record (`Honest`), so every comparison that could
  tell "diverged" comes out equal.

The newer proofs need the constant that stands for nobody to be none of the
processes, chains or handles (`FreeAssumption` of `Record` and `Shipping`), and
that `KindAt` is a sequence of kinds (`KindsAssumption`); `Shipping`'s needs a
finite number of sessions, so that a pass notes a finite number of gaps
(`LogAssumption`). All strengthenings were checked with TLC on the instances of
the runs, `Record`'s with two faults.

Every invariant and every action property of the passing runs is stated by a
theorem. Only model-checked: liveness (`EveryRequestAnswered`, `EveryChangeSeen`,
`RunEnds`, `Settles`, `FailureIsRestarted`, `AllIsShipped`, `GapIsTold`), which
is out of the prover's reach. `DeletedIsErased` and `StartingIsSpared` are false
of the code, as their runs show.

## Not modelled

The repository is large, and most of it is not control that a model checker
reaches. Left out, with the reason of each in `PROJECT.json`:

* parsing, matching and validation without state of their own (policy, egress
  rules, admission, settings, configuration, the monitor's rules and drift
  analysis, OCSF mapping);
* user interfaces and protocol translation (console, ACP, the SDK, HTTP
  handlers);
* what a database, a container engine or the kernel does (the Postgres and
  SQLite stores, sandbox backends, the container and microVM drivers);
* the agent loop, whose control is a language model's;
* ownership under high availability, which is an interface to a lease held
  outside the repository.

Of the modelled parts: the index's own chain, the witness, exports and blobs of
the record; the contents of workspaces and snapshots; the scopes an edition adds
to the pool's labels.

## Plan

Done: lifecycle, idempotency, `Mutate` and its abstract specification, dispatch,
verbs and passes with the process driver, the warm pool, session sandboxes, the
local record and its shipping; the proofs of their safety properties.

Left:

1. What the proofs showed to hold beyond the stated properties, worth stating on
   its own: which fault leaves which tail in the record (`FileOK`), and what two
   processes on one store still guarantee for a bound sandbox.
2. The container driver's life lock and what it finds after a restart.
3. Exec streams (`server/sandbox_streams.go`): buffered output, resume, slow
   readers.
4. Approvals (`server/approval_gate.go`) and the agent's background shells.
