------------------------------- MODULE Record -------------------------------
(***************************************************************************)
(* One session of the local record (store/local): a file of chained lines, *)
(* a head file that counts the lines a sync made durable, and the tenant's *)
(* index, which lists the session, its ends and its tombstone.  Processes  *)
(* take the session's lock, load and repair the file, append, sync, let go *)
(* and prune; each write, sync and rename is a step of its own, which may  *)
(* fail and which a crash or a loss of power may come before or after.     *)
(*                                                                         *)
(* A hash stands for what it is computed from: the hash of a line is the   *)
(* sequence of events of the chain up to it, and a head is that sequence   *)
(* too.  A process does one operation at a time, as it does under h.mu.    *)
(***************************************************************************)
EXTENDS Naturals, FiniteSets, SequencesExt

CONSTANTS
  Procs,      \* processes with the record open
  Ids,        \* ids of the events callers append
  KindAt,     \* KindAt[seq]: the kind of the event at a step
  Free,       \* nobody: no lock holder, and no head or handle
  MaxLines,   \* bound: lines of the file
  MaxFaults   \* bound: failed calls, crashes and losses of power

ASSUME BoundsAssumption == MaxLines \in Nat /\ MaxFaults \in Nat

VARIABLES
  disk,     \* the session's file and its head file
  index,    \* what the index says of the session
  lock,     \* who has the session's lock
  held,     \* Store.held: each process's handle on the session
  op,       \* what each process is doing
  kept,     \* what was last synced under a head
  deleted,  \* whether DeleteSession has answered without an error
  lost,     \* whether power was ever lost
  faults

vars == <<disk, index, lock, held, op, kept, deleted, lost, faults>>

Kinds == {"delta", "prompt", "end", "repaired"}
Events == {[seq |-> n, id |-> i, kind |-> KindAt[n]] : n \in DOMAIN KindAt, i \in Ids}

(* The system's own events carry an id of their own at a new seq.          *)
Repaired(n) == [seq |-> n, id |-> Free, kind |-> "repaired"]

(* What half a line, or a line glued onto half a line, reads as.           *)
NoEvent == [seq |-> 0, id |-> Free, kind |-> "delta"]
Torn == [ev |-> NoEvent, prev |-> <<>>]

(* What lines and heads hold: the repaired event a writer adds has a step  *)
(* past every one there is.                                                *)
AnyEvent ==
  Events \cup {NoEvent} \cup {Repaired(n) : n \in 1..(MaxLines + Cardinality(DOMAIN KindAt))}
Chains == Seq(AnyEvent)
Handles == [last : Chains, synced : Chains, poisoned : BOOLEAN, blind : BOOLEAN]

ASSUME KindsAssumption == KindAt \in Seq(Kinds)
ASSUME FreeAssumption == Free \notin Procs /\ Free \notin Chains /\ Free \notin Handles

NoFile == [here |-> FALSE, lines |-> <<>>, tail |-> <<>>, durable |-> 0]
Idle ==
  [pc |-> "idle", do |-> "none", ev |-> NoEvent, repaired |-> FALSE, err |-> FALSE, blind |-> FALSE]

Init ==
  /\ disk = [file |-> NoFile, head |-> Free]
  /\ index = [listed |-> FALSE, pruned |-> FALSE, ends |-> {}]
  /\ lock = Free
  /\ held = [p \in Procs |-> Free]
  /\ op = [p \in Procs |-> Idle]
  /\ kept = <<>> /\ deleted = FALSE /\ lost = FALSE /\ faults = 0

Works == UNCHANGED faults
Fault == faults < MaxFaults /\ faults' = faults + 1

(***************************************************************************)
(* Reading a file: verifyLines, checkHead and the repair load decides on.  *)
(***************************************************************************)

lines == disk.file.lines
tail == disk.file.tail
Chain(ls) == [i \in DOMAIN ls |-> ls[i].ev]
Seqs(chain) == {e.seq : e \in ToSet(chain)}

verifyLines(ls) ==
  /\ \A i \in DOMAIN ls : ls[i].ev.seq > 0 /\ ls[i].prev = SubSeq(Chain(ls), 1, i - 1)
  /\ Cardinality(Seqs(Chain(ls))) = Len(ls)

(* A head past the lines, naming another line, or still the sentinel with  *)
(* lines beyond the first, is damage; one behind is where a crash came.    *)
checkHead(ls) ==
  IF disk.head = Free THEN ls = <<>>
  ELSE /\ IsPrefix(disk.head, Chain(ls))
       /\ disk.head = <<>> => Len(ls) <= 1

completesChain ==
  tail # <<>> /\ tail[1].ev # NoEvent /\ tail[1].prev = Chain(lines)

repair ==
  CASE tail = <<>> -> "keep"
    [] tail # <<>> /\ completesChain -> "complete"
    [] OTHER -> IF disk.head # Free /\ Len(disk.head) > Len(lines) THEN "keep" ELSE "cut"

(* The lines as they stand once repaired.                                  *)
mended == IF completesChain THEN lines \o tail ELSE lines

Loads ==
  /\ verifyLines(mended) /\ checkHead(mended)
  /\ tail = <<>> \/ repair # "keep"

(* Verify reads the lines as they are: an unfinished last one the head     *)
(* does not count is noted, and the index's ends name lines it holds.      *)
Verify ==
  /\ verifyLines(lines) /\ checkHead(lines)
  /\ \A e \in index.ends : IsPrefix(e, Chain(lines))

(***************************************************************************)
(* take and load.                                                          *)
(***************************************************************************)

(* Mutant of LetGo: what was asked for is left behind.                     *)
LetGoKeepsAsk(p) ==
  /\ lock' = Free
  /\ op' = [op EXCEPT ![p].pc = "idle"]

(* The lock is let go and the operation ends.                              *)
LetGo(p) ==
  /\ lock' = Free
  /\ op' = [op EXCEPT ![p] = Idle]

(* With the lock free and the index asked: a new session is new, a listed  *)
(* one has its file, and the file verifies.  One not found gets its file   *)
(* made, though it is refused then; any other refusal writes nothing.      *)
Takes(p, do, ev, found) ==
  /\ op[p].pc = "idle" /\ held[p] = Free /\ lock = Free
  /\ do = "create" => ~found /\ ~disk.file.here
  /\ found => disk.file.here
  /\ disk' = [disk EXCEPT !.file.here = TRUE]
  /\ IF Loads
       THEN /\ lock' = p
            /\ op' = [op EXCEPT ![p] = [Idle EXCEPT !.pc = "repair", !.do = do, !.ev = ev,
                         !.repaired = repair # "keep", !.blind = index.listed /\ ~found]]
       ELSE ~disk.file.here /\ UNCHANGED <<lock, op>>
  /\ UNCHANGED <<index, held, kept, deleted, lost>>

(* Mutant of take: the index is not asked for a tombstone.                 *)
takePruned(p, do, ev) ==
  \/ Works /\ Takes(p, do, ev, index.listed)
  \/ Fault /\ index.listed /\ Takes(p, do, ev, FALSE)

(* A pruned session is refused.  But index.get takes an index that cannot  *)
(* be read as one that does not list the session: the process is blind to  *)
(* the tombstone, and loads a session that it takes for a new one.         *)
take(p, do, ev) ==
  \/ Works /\ ~index.pruned /\ Takes(p, do, ev, index.listed)
  \/ Fault /\ index.listed /\ Takes(p, do, ev, FALSE)

(* A tail is completed or cut, and the file synced.                        *)
LoadRepairs(p) ==
  /\ op[p].pc = "repair"
  /\ LET file == disk.file
         done == [file EXCEPT !.lines = mended, !.tail = <<>>]
     IN \/ /\ Works
           /\ disk' = [disk EXCEPT !.file =
                IF op[p].repaired THEN [done EXCEPT !.durable = Len(mended)] ELSE file]
           /\ op' = [op EXCEPT ![p].pc = "head"]
           /\ UNCHANGED lock
        \/ /\ op[p].repaired /\ Fault
           /\ \E f \in {file, done} : disk' = [disk EXCEPT !.file = f]
           /\ LetGo(p)
  /\ UNCHANGED <<index, held, kept, deleted, lost>>

(* load's unlisted: the index does not list the session, or said nothing.  *)
unlisted(p) == ~index.listed \/ op[p].blind

(* A new record gets the sentinel, lines past the head move it forward.    *)
loadedHead(p) ==
  CASE disk.head = Free /\ lines = <<>> /\ unlisted(p) -> <<>>
    [] disk.head # Free /\ Len(lines) > Len(disk.head) -> Chain(lines)
    [] OTHER -> disk.head

LoadHeads(p) ==
  /\ op[p].pc = "head"
  /\ \/ /\ Works
        /\ disk' = [disk EXCEPT !.head = loadedHead(p)]
        /\ op' = [op EXCEPT ![p].pc = "list"]
        /\ UNCHANGED lock
     \/ /\ loadedHead(p) # disk.head /\ Fault
        /\ LetGo(p) /\ UNCHANGED disk
  /\ UNCHANGED <<index, held, kept, deleted, lost>>

(* index.append: it may fail before its line is written, or after.         *)
indexed(entry) == index' = entry /\ Works
indexFails(entry) == index' \in {index, entry} /\ Fault

(* A session not yet listed is listed; then this process holds it.  What   *)
(* was asked for goes on, a record.repaired event first.                   *)
LoadEnds(p) ==
  /\ op[p].pc = "list"
  /\ LET entry == [index EXCEPT !.listed = TRUE]
     IN \/ /\ indexed(entry)
           /\ held' = [held EXCEPT ![p] =
                [last |-> Chain(lines), synced |-> disk.head, poisoned |-> FALSE, blind |-> op[p].blind]]
           /\ op' = [op EXCEPT ![p] =
                IF op[p].repaired \/ op[p].do = "append" THEN [@ EXCEPT !.pc = "write"] ELSE Idle]
           /\ UNCHANGED lock
        \/ /\ unlisted(p) /\ indexFails(entry)
           /\ LetGo(p) /\ UNCHANGED held
  /\ UNCHANGED <<disk, kept, deleted, lost>>

(***************************************************************************)
(* appendHeld.                                                             *)
(***************************************************************************)

AppendBegins(p, ev) ==
  /\ op[p].pc = "idle" /\ held[p] # Free
  /\ op' = [op EXCEPT ![p] = [Idle EXCEPT !.pc = "write", !.do = "append", !.ev = ev]]
  /\ UNCHANGED <<disk, index, lock, held, kept, deleted, lost, faults>>

(* The event to write: systemEvent takes the seq after every one held.     *)
event(p) ==
  IF op[p].repaired THEN Repaired(1 + Max(Seqs(held[p].last) \cup {0})) ELSE op[p].ev

taken(p) == event(p).seq \in Seqs(held[p].last)

boundary(ev) == ev.kind # "delta"

(* A replay, a step taken by another event, or a poisoned session.         *)
AppendRefused(p) ==
  /\ op[p].pc = "write"
  /\ taken(p) \/ held[p].poisoned
  /\ op' = [op EXCEPT ![p] = Idle]
  /\ UNCHANGED <<disk, index, lock, held, kept, deleted, lost, faults>>

CanWrite(p) ==
  op[p].pc = "write" /\ ~taken(p) /\ ~held[p].poisoned /\ Len(lines) < MaxLines

sealed(p) == [ev |-> event(p), prev |-> held[p].last]

(* The file with the whole line appended; onto half a line it is glued.    *)
written(p) ==
  [disk.file EXCEPT !.lines = Append(@, IF tail = <<>> THEN sealed(p) ELSE Torn), !.tail = <<>>]

(* The line is written; the first one, and every boundary, is synced.      *)
Writes(p) ==
  /\ CanWrite(p)
  /\ disk' = [disk EXCEPT !.file = written(p)]
  /\ held' = [held EXCEPT ![p].last = Append(@, event(p))]
  /\ op' = [op EXCEPT ![p].pc =
       IF boundary(event(p)) \/ held[p].synced = <<>> THEN "sync" ELSE "track"]
  /\ UNCHANGED <<index, lock, kept, deleted, lost, faults>>

Parts(p) == {<<>>, <<Torn>>, <<sealed(p)>>}

(* A failed write is cut back, or the session takes no more.               *)
WriteFails(p) ==
  /\ CanWrite(p) /\ Fault
  /\ \/ UNCHANGED <<disk, held>>
     \/ /\ \E part \in Parts(p) : disk' = [disk EXCEPT !.file.tail = part]
        /\ held' = [held EXCEPT ![p].poisoned = TRUE]
  /\ op' = [op EXCEPT ![p] = Idle]
  /\ UNCHANGED <<index, lock, kept, deleted, lost>>

(* Mutant of poisons: a first head that failed is left for the next.       *)
poisonsNever(p) == FALSE

(* Without a first real head nothing more is appended.                     *)
poisons(p) == op[p].do \in {"append", "acquire"} /\ held[p].synced = <<>>

SyncFailed(p) ==
  /\ Fault
  /\ held' = [held EXCEPT ![p].poisoned = @ \/ poisons(p)]
  /\ op' = [op EXCEPT ![p].pc = "track", ![p].err = TRUE]

(* Mutant of Syncs: the head is moved without a sync of the file.          *)
SyncsNothing(p) ==
  /\ op[p].pc = "sync"
  /\ op' = [op EXCEPT ![p].pc = "seal"]
  /\ UNCHANGED <<disk, index, lock, held, kept, deleted, lost, faults>>

(* sync: the file is made durable ...                                      *)
Syncs(p) ==
  /\ op[p].pc = "sync"
  /\ \/ /\ Works
        /\ disk' = [disk EXCEPT !.file.durable = Len(lines)]
        /\ op' = [op EXCEPT ![p].pc = "seal"]
        /\ UNCHANGED held
     \/ SyncFailed(p) /\ UNCHANGED disk
  /\ UNCHANGED <<index, lock, kept, deleted, lost>>

(* ... and then the head is moved to it.                                   *)
MovesHead(p) ==
  /\ op[p].pc = "seal"
  /\ \/ /\ Works
        /\ disk' = [disk EXCEPT !.head = held[p].last]
        /\ held' = [held EXCEPT ![p].synced = held[p].last]
        /\ kept' = held[p].last
        /\ op' = [op EXCEPT ![p].pc = "track"]
     \/ SyncFailed(p) /\ UNCHANGED <<disk, kept>>
  /\ UNCHANGED <<index, lock, deleted, lost>>

(* What follows an append, a sync, or the sync of a close.                 *)
after(p) ==
  CASE op[p].do \in {"release", "delete"} -> [op[p] EXCEPT !.pc = "unlock"]
    [] op[p].repaired /\ op[p].do = "append" /\ ~op[p].err -> [op[p] EXCEPT !.pc = "write", !.repaired = FALSE]
    [] OTHER -> Idle

(* track: the end of a run is indexed with the head as it then is, synced  *)
(* or not; whether that failed nobody asks.                                *)
Tracks(p) ==
  /\ op[p].pc = "track"
  /\ LET ends == op[p].do = "append" /\ ~op[p].repaired /\ op[p].ev.kind = "end"
         entry == [index EXCEPT !.ends = @ \cup {held[p].last}]
     IN \/ indexed(IF ends THEN entry ELSE index)
        \/ ends /\ indexFails(entry)
  /\ op' = [op EXCEPT ![p] = after(p)]
  /\ UNCHANGED <<disk, lock, held, kept, deleted, lost>>

(***************************************************************************)
(* Sync, Release, Prune and DeleteSession.                                 *)
(***************************************************************************)

(* Sync and Verify sync a held session, Release and DeleteSession close    *)
(* it; a session already synced has nothing to do first.  DeleteSession    *)
(* closes none that the index lists as pruned.                             *)
CloseBegins(p, do) ==
  /\ op[p].pc = "idle" /\ held[p] # Free
  /\ LET clean == held[p].synced = held[p].last
         next == [Idle EXCEPT !.do = do, !.pc = IF clean THEN "unlock" ELSE "sync"]
     IN /\ do = "sync" => ~clean
        /\ do = "delete" => ~index.pruned
        /\ op' = [op EXCEPT ![p] = next]
  /\ UNCHANGED <<disk, index, lock, held, kept, deleted, lost, faults>>

(* close unlocks whether or not the sync failed; a delete gives up then.   *)
Unlocks(p) ==
  /\ op[p].pc = "unlock"
  /\ held' = [held EXCEPT ![p] = Free]
  /\ lock' = Free
  /\ op' = [op EXCEPT ![p] =
       IF op[p].do = "delete" /\ ~op[p].err THEN [Idle EXCEPT !.pc = "prune", !.do = "delete"] ELSE Idle]
  /\ UNCHANGED <<disk, index, kept, deleted, lost, faults>>

(* A session the index lists as pruned is taken as gone, and so is one of  *)
(* which an index that cannot be read says nothing: DeleteSession answers  *)
(* without an error.  Of one never listed there is nothing.                *)
DeleteFindsNone(p) ==
  /\ op[p].pc \in {"idle", "prune"}
  /\ (Works /\ index.pruned) \/ (Fault /\ index.listed)
  /\ deleted' = TRUE
  /\ op' = [op EXCEPT ![p] = Idle]
  /\ UNCHANGED <<disk, index, lock, held, kept, lost>>

(* Prune takes the lock alone; a session open anywhere is refused.         *)
PruneLocks(p, do) ==
  /\ op[p].pc = (IF op[p].do = "delete" THEN "prune" ELSE "idle") /\ held[p] = Free
  /\ op[p].do = "delete" => do = "delete"
  /\ index.listed /\ ~index.pruned
  /\ IF lock = Free
       THEN lock' = p /\ op' = [op EXCEPT ![p] = [Idle EXCEPT !.pc = "tomb", !.do = do]]
       ELSE op[p].do = "delete" /\ op' = [op EXCEPT ![p] = Idle] /\ UNCHANGED lock
  /\ UNCHANGED <<disk, index, held, kept, deleted, lost, faults>>

(* The tombstone goes into the index first ...                             *)
WritesTombstone(p) ==
  /\ op[p].pc = "tomb"
  /\ LET entry == [index EXCEPT !.pruned = TRUE]
     IN \/ /\ indexed(entry)
           /\ op' = [op EXCEPT ![p].pc = "remove"]
           /\ UNCHANGED lock
        \/ indexFails(entry) /\ LetGo(p)
  /\ UNCHANGED <<disk, held, kept, deleted, lost>>

(* ... then the session's file, its head and its lock file go, one by one. *)
(* Whoever locks a new lock file while this prune has the old one finds    *)
(* the tombstone in the index, and files that are only removed: letting go *)
(* at the last removal stands for both locks.                              *)
Removes(p) ==
  /\ op[p].pc = "remove"
  /\ \/ /\ Works
        /\ disk' = [file |-> NoFile, head |-> Free]
        /\ deleted' = (deleted \/ op[p].do = "delete")
     \/ /\ Fault
        /\ disk' \in {disk, [disk EXCEPT !.file = NoFile], [file |-> NoFile, head |-> Free]}
        /\ UNCHANGED deleted
  /\ LetGo(p)
  /\ UNCHANGED <<index, held, kept, lost>>

(***************************************************************************)
(* A process dies: its lock goes, what it wrote stays, and a line being    *)
(* written may be there in part.  With the power goes what was not synced. *)
(***************************************************************************)

Crash(p) ==
  /\ op[p].pc # "idle" \/ held[p] # Free
  /\ Fault
  /\ IF CanWrite(p)
       THEN \E part \in Parts(p) : disk' = [disk EXCEPT !.file.tail = part]
       ELSE UNCHANGED disk
  /\ held' = [held EXCEPT ![p] = Free]
  /\ op' = [op EXCEPT ![p] = Idle]
  /\ lock' = IF lock = p THEN Free ELSE lock
  /\ UNCHANGED <<index, kept, deleted, lost>>

(* The synced lines and any of the others survive, the next perhaps torn.  *)
PowerLoss ==
  /\ Fault
  /\ \E n \in disk.file.durable..Len(lines) :
     \E t \in {<<>>} \cup (IF n < Len(lines) \/ tail # <<>> THEN {<<Torn>>} ELSE {}) :
       disk' = [disk EXCEPT !.file = [@ EXCEPT !.lines = SubSeq(lines, 1, n), !.tail = t, !.durable = n]]
  /\ held' = [p \in Procs |-> Free]
  /\ op' = [p \in Procs |-> Idle]
  /\ lock' = Free /\ lost' = TRUE
  /\ UNCHANGED <<index, kept, deleted>>

Step(p) ==
  \/ \E do \in {"create", "acquire"} : take(p, do, NoEvent)
  \/ \E ev \in Events : take(p, "append", ev) \/ AppendBegins(p, ev)
  \/ LoadRepairs(p) \/ LoadHeads(p) \/ LoadEnds(p)
  \/ AppendRefused(p) \/ Writes(p) \/ WriteFails(p)
  \/ Syncs(p) \/ MovesHead(p) \/ Tracks(p)
  \/ \E do \in {"sync", "release", "delete"} : CloseBegins(p, do)
  \/ Unlocks(p) \/ DeleteFindsNone(p)
  \/ \E do \in {"prune", "delete"} : PruneLocks(p, do)
  \/ WritesTombstone(p) \/ Removes(p)
  \/ Crash(p)

Next == PowerLoss \/ \E p \in Procs : Step(p)

Spec == Init /\ [][Next]_vars

(***************************************************************************)
(* Properties.                                                             *)
(***************************************************************************)

(* Every variable has its type.                                            *)
TypeOK ==
  /\ disk.file.here \in BOOLEAN
  /\ Len(tail) <= 1 /\ disk.file.durable \in 0..Len(lines)
  /\ Chain(lines) \in Chains /\ disk.head \in Chains \cup {Free}
  /\ index.listed \in BOOLEAN /\ index.pruned \in BOOLEAN /\ index.ends \subseteq Chains
  /\ lock \in Procs \cup {Free}
  /\ \A p \in Procs : held[p] # Free =>
       /\ held[p].last \in Chains /\ held[p].synced \in Chains
       /\ held[p].poisoned \in BOOLEAN /\ held[p].blind \in BOOLEAN
  /\ \A p \in Procs : op[p].pc = "idle" => op[p] = Idle
  /\ kept \in Chains /\ {deleted, lost} \subseteq BOOLEAN /\ faults \in 0..MaxFaults

(* Processes that crash and calls that fail, wherever they come, leave a   *)
(* record that its next writer loads and Verify accepts: chained, each     *)
(* step once, its head and the index's heads naming lines it holds, and    *)
(* never two lines behind the sentinel head (appendHeld, load, checkHead). *)
HonestRecordVerifies ==
  ~lost /\ ~index.pruned => Loads /\ Verify

(* What was once synced with its head moved to it is never lost, changed   *)
(* or moved, by a loss of power or by the repair of what one left, until   *)
(* the session is pruned ("loses at most the events since the last one").  *)
SyncedIsKept == ~index.pruned => IsPrefix(kept, Chain(lines))

(* A process whose read of the index failed as it took the session.        *)
Blind(p) == op[p].blind \/ (held[p] # Free /\ held[p].blind)

(* Once the tombstone is in the index no process that could read it adds   *)
(* to the record: the lock a prune holds, and the look at the index under  *)
(* it, see to that.  One that could not makes the record anew.             *)
PrunedIsFinal ==
  [][index.pruned /\ (\A p \in Procs : ~Blind(p)) =>
       Len(lines') <= Len(lines) /\ disk'.head \in {disk.head, Free}]_vars

(* "what they said goes": once DeleteSession has answered without an       *)
(* error, and no removal is under way, the session's lines are off disk.   *)
DeletedIsErased ==
  deleted /\ (\A p \in Procs : op[p].pc # "remove") => lines = <<>> /\ tail = <<>>
=============================================================================
