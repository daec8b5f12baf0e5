------------------------------ MODULE Shipping ------------------------------
(***************************************************************************)
(* The shipper of the local record (recordship): passes, one process at a  *)
(* time, send each session's lines past a cursor to the org server, which  *)
(* is not part of the repository and takes a batch only where it follows   *)
(* what it holds, or answers with the place it holds (Ack).                *)
(*                                                                         *)
(* A line is a number no other line has, and stands for its hash too;      *)
(* 0 is Genesis.  A file's size is its number of lines.  The state keeps a *)
(* log of the latest events, sent or not.  Kept out are the backlog and    *)
(* resumed events, which only report, and refusals of the sign-in or of a  *)
(* batch's form, which end a pass as a lost answer does.                   *)
(***************************************************************************)
EXTENDS Naturals, FiniteSets, SequencesExt

CONSTANTS
  Procs,      \* processes that ship the record
  Sessions,
  Free,       \* nobody ships
  Withheld,   \* lines the redactor would change, or over MaxLineBytes
  BatchLines, \* MaxBatchLines
  MaxEvents,  \* events the state's log keeps, 100
  MaxMoves,   \* moves of the server's place a pass follows in a session
  MaxLines,   \* bound: lines ever written
  MaxFaults   \* bound: lost answers, crashes, failed saves, losses of lines

ASSUME BatchAssumption == BatchLines \in Nat \ {0} /\ MaxMoves \in Nat
ASSUME LogAssumption == MaxEvents \in Nat \ {0} /\ IsFiniteSet(Sessions)
ASSUME BoundsAssumption == MaxLines \in Nat /\ MaxFaults \in Nat
ASSUME FreeAssumption == Free \notin Procs

VARIABLES
  record,  \* the local record: each session's lines
  pruned,  \* the sessions pruned from it
  cut,     \* the sessions that lost lines with the power
  made,    \* lines ever written
  server,  \* the lines the server holds
  older,   \* the sessions it came back with an older copy of
  told,    \* the events it was given
  file,    \* the shipper's state file
  lock,    \* who has the state's lock
  pass,    \* each process's pass
  faults

vars == <<record, pruned, cut, made, server, older, told, file, lock, pass, faults>>

NoCursor == [known |-> FALSE, lines |-> 0, hash |-> 0, size |-> 0, blocked |-> FALSE]
NoState == [sessions |-> [s \in Sessions |-> NoCursor], events |-> <<>>, dropped |-> {}]
Resting == [pc |-> "rest", st |-> NoState, todo |-> {}, gone |-> {}, err |-> FALSE,
            s |-> Free, c |-> NoCursor, lines |-> <<>>, moves |-> 0]

Init ==
  /\ record = [s \in Sessions |-> <<>>] /\ pruned = {} /\ cut = {} /\ made = 0
  /\ server = [s \in Sessions |-> <<>>] /\ older = {} /\ told = {}
  /\ file = NoState /\ lock = Free
  /\ pass = [p \in Procs |-> Resting]
  /\ faults = 0

Works == UNCHANGED faults
Fault == faults < MaxFaults /\ faults' = faults + 1

(* The line at place n of a chain, Genesis before the first.               *)
At(lines, n) == IF n = 0 THEN 0 ELSE lines[n]
Holds(lines, n, hash) == n <= Len(lines) /\ At(lines, n) = hash
From(lines, n) == SubSeq(lines, n + 1, Len(lines))
Event(kind, s) == [kind |-> kind, session |-> s]

(***************************************************************************)
(* The log of events: the latest MaxEvents, each marked once it was sent.  *)
(* dropped names the events that later ones pushed out before they were.   *)
(***************************************************************************)

Noted(st) == {st.events[i].event : i \in DOMAIN st.events}
unsent(st) == {st.events[i].event : i \in {j \in DOMAIN st.events : ~st.events[j].sent}}
marked(st) == [st EXCEPT !.events = [i \in DOMAIN @ |-> [@[i] EXCEPT !.sent = TRUE]]]

(* The log and the new events, which are not sent yet.                     *)
Extended(st, events) ==
  st.events \o [i \in DOMAIN events |-> [event |-> events[i], sent |-> FALSE]]

(* How many at its start are more than it keeps.                           *)
Excess(log) == IF Len(log) > MaxEvents THEN Len(log) - MaxEvents ELSE 0

eventLocked(st, events) ==
  LET log == Extended(st, events)
      out == Excess(log)
  IN [st EXCEPT !.events = From(log, out),
                !.dropped = @ \cup {log[i].event : i \in {j \in 1..out : ~log[j].sent}}]

(***************************************************************************)
(* The record the shipper reads, and the server (external).                *)
(***************************************************************************)

Written(s) ==
  /\ s \notin pruned /\ made < MaxLines
  /\ made' = made + 1
  /\ record' = [record EXCEPT ![s] = Append(@, made + 1)]
  /\ UNCHANGED <<pruned, cut, server, older, told, file, lock, pass, faults>>

Prune(s) ==
  /\ s \notin pruned
  /\ pruned' = pruned \cup {s}
  /\ record' = [record EXCEPT ![s] = <<>>]
  /\ UNCHANGED <<cut, made, server, older, told, file, lock, pass, faults>>

(* The power goes, and with it the unsynced end of a session's file.       *)
LosesPower(s) ==
  /\ record[s] # <<>> /\ Fault
  /\ \E n \in 0..(Len(record[s]) - 1) :
       record' = [record EXCEPT ![s] = SubSeq(@, 1, n)]
  /\ cut' = cut \cup {s}
  /\ lock' = Free /\ pass' = [p \in Procs |-> Resting]
  /\ UNCHANGED <<pruned, made, server, older, told, file>>

(* The server comes back with an older copy of a session.                  *)
ServerRestored(s) ==
  /\ server[s] # <<>> /\ Fault
  /\ server' = [server EXCEPT ![s] = Front(@)]
  /\ older' = older \cup {s}
  /\ UNCHANGED <<record, pruned, cut, made, told, file, lock, pass>>

(***************************************************************************)
(* Pass.                                                                   *)
(***************************************************************************)

(* The lock is taken and the cursors are read again; a process that finds  *)
(* it taken does nothing (ErrBusy).                                        *)
PassBegins(p) ==
  /\ pass[p].pc = "rest" /\ lock = Free
  /\ lock' = p
  /\ pass' = [pass EXCEPT ![p] = [Resting EXCEPT !.pc = "next", !.st = file,
                !.todo = Sessions \ pruned, !.gone = pruned]]
  /\ UNCHANGED <<record, pruned, cut, made, server, older, told, file, faults>>

(* After each session the file's size is kept, whether or not it shipped.  *)
Sized(c, s) ==
  IF Len(record[s]) > c.size THEN [c EXCEPT !.known = TRUE, !.size = Len(record[s])] ELSE c

(* The pass goes on to the next session, with c kept as session s's cursor.*)
Continue(p, s, c, err, events) ==
  LET noted == [eventLocked(pass[p].st, events) EXCEPT !.sessions[s] = Sized(c, s)]
  IN pass' = [pass EXCEPT ![p] = [Resting EXCEPT !.pc = "next", !.st = noted,
                !.todo = pass[p].todo \ {s}, !.gone = pass[p].gone, !.err = err]]

Blocked(c) == [c EXCEPT !.known = TRUE, !.blocked = TRUE]

(* pending: the lines after the cursor, or that the record no longer holds *)
(* the line the cursor names (a file of the same size is not looked into). *)
ShipBegins(p, s) ==
  /\ pass[p].pc = "next" /\ s \in pass[p].todo
  /\ LET c == pass[p].st.sessions[s]
         size == Len(record[s])
     IN IF pass[p].err \/ c.blocked \/ size = 0 \/ (size = c.lines /\ Holds(record[s], c.lines, c.hash))
          THEN Continue(p, s, c, pass[p].err, <<>>)
        ELSE IF Holds(record[s], c.lines, c.hash)
          THEN pass' = [pass EXCEPT ![p] = [pass[p] EXCEPT !.pc = "send", !.s = s,
                          !.c = [c EXCEPT !.known = TRUE, !.size = size],
                          !.lines = From(record[s], c.lines)]]
        ELSE \/ Continue(p, s, Blocked(c), FALSE, <<Event("diverged", s)>>)
             \/ size = c.lines /\ Continue(p, s, c, FALSE, <<>>)
  /\ UNCHANGED <<record, pruned, cut, made, server, older, told, file, lock, faults>>

(* A read fails: the index's, and the session is passed over, or that of   *)
(* its size or lines, and the rest of the pass sends nothing.              *)
ShipFails(p, s) ==
  /\ pass[p].pc = "next" /\ s \in pass[p].todo /\ Fault
  /\ LET c == pass[p].st.sessions[s]
     IN \/ pass' = [pass EXCEPT ![p].todo = @ \ {s}]
        \/ ~pass[p].err /\ ~c.blocked /\ Continue(p, s, c, TRUE, <<>>)
  /\ UNCHANGED <<record, pruned, cut, made, server, older, told, file, lock>>

(* The lines of the next batch: as many as fit, up to one not to be sent.  *)
Batch(lines) ==
  LET fits == {n \in 0..Len(lines) : n <= BatchLines /\ \A i \in 1..n : lines[i] \notin Withheld}
  IN SubSeq(lines, 1, Max(fits))

(* The first line left is not to be sent: it and what follows stay.        *)
ShipBlocks(p) ==
  /\ pass[p].pc = "send" /\ Batch(pass[p].lines) = <<>>
  /\ Continue(p, pass[p].s, Blocked(pass[p].c), FALSE, <<Event("blocked", pass[p].s)>>)
  /\ UNCHANGED <<record, pruned, cut, made, server, older, told, file, lock, faults>>

(* The server takes a batch that follows what it holds.                    *)
Follows(s, c) == Len(server[s]) = c.lines /\ At(server[s], c.lines) = c.hash

(* Mutant: the cursor keeps the hash of an earlier line.                   *)
SendTakenOldHash(p) ==
  LET s == pass[p].s
      c == pass[p].c
      batch == Batch(pass[p].lines)
      moved == [c EXCEPT !.lines = @ + Len(batch)]
      rest == From(pass[p].lines, Len(batch))
  IN /\ pass[p].pc = "send" /\ batch # <<>> /\ Follows(s, c)
     /\ server' = [server EXCEPT ![s] = @ \o batch]
     /\ IF rest = <<>> THEN Continue(p, s, moved, FALSE, <<>>)
        ELSE pass' = [pass EXCEPT ![p].c = moved, ![p].lines = rest, ![p].st.sessions[s] = moved]
     /\ UNCHANGED <<record, pruned, cut, made, older, told, file, lock, faults>>

(* send, answered 200: the cursor moves past the batch; more may follow.   *)
SendTaken(p) ==
  LET s == pass[p].s
      c == pass[p].c
      batch == Batch(pass[p].lines)
      moved == [c EXCEPT !.lines = @ + Len(batch), !.hash = Last(batch)]
      rest == From(pass[p].lines, Len(batch))
  IN /\ pass[p].pc = "send" /\ batch # <<>> /\ Follows(s, c)
     /\ server' = [server EXCEPT ![s] = @ \o batch]
     /\ IF rest = <<>> THEN Continue(p, s, moved, FALSE, <<>>)
        ELSE pass' = [pass EXCEPT ![p].c = moved, ![p].lines = rest, ![p].st.sessions[s] = moved]
     /\ UNCHANGED <<record, pruned, cut, made, older, told, file, lock, faults>>

(* Mutant: a server that holds another place has diverged.                 *)
SendConflictsBlocks(p) ==
  /\ pass[p].pc = "send" /\ Batch(pass[p].lines) # <<>> /\ ~Follows(pass[p].s, pass[p].c)
  /\ Continue(p, pass[p].s, Blocked(pass[p].c), FALSE, <<Event("diverged", pass[p].s)>>)
  /\ UNCHANGED <<record, pruned, cut, made, server, older, told, file, lock, faults>>

(* Mutant: the server's place is not followed; the pass has failed.        *)
SendConflictsFails(p) ==
  /\ pass[p].pc = "send" /\ Batch(pass[p].lines) # <<>> /\ ~Follows(pass[p].s, pass[p].c)
  /\ Continue(p, pass[p].s, pass[p].st.sessions[pass[p].s], TRUE, <<>>)
  /\ UNCHANGED <<record, pruned, cut, made, server, older, told, file, lock, faults>>

(* send, answered 409: from moves the cursor to the server's place, if the *)
(* record holds it; else the session has diverged.  The cursor is only     *)
(* kept once lines are taken, or none are left.                            *)
SendConflicts(p) ==
  LET s == pass[p].s
      c == pass[p].c
      n == Len(server[s])
      hash == At(server[s], n)
      moved == [c EXCEPT !.lines = n, !.hash = hash]
      rest == From(record[s], n)
  IN /\ pass[p].pc = "send" /\ Batch(pass[p].lines) # <<>> /\ ~Follows(s, c)
     /\ IF ~Holds(record[s], n, hash)
          THEN Continue(p, s, Blocked(c), FALSE, <<Event("diverged", s)>>)
        ELSE IF pass[p].moves = MaxMoves
          THEN Continue(p, s, pass[p].st.sessions[s], TRUE, <<>>)
        ELSE IF rest = <<>> THEN Continue(p, s, moved, FALSE, <<>>)
        ELSE pass' = [pass EXCEPT ![p].c = moved, ![p].lines = rest, ![p].moves = @ + 1]
     /\ UNCHANGED <<record, pruned, cut, made, server, older, told, file, lock, faults>>

(* send, answered 400 or 422: the server wants no more of the session.     *)
SendRefused(p) ==
  /\ pass[p].pc = "send" /\ Batch(pass[p].lines) # <<>> /\ Fault
  /\ Continue(p, pass[p].s, Blocked(pass[p].c), FALSE, <<Event("refused", pass[p].s)>>)
  /\ UNCHANGED <<record, pruned, cut, made, server, older, told, file, lock>>

(* The request or its answer is lost, the sign-in refused or the answer    *)
(* not the one expected: the rest of the pass sends nothing.               *)
SendLost(p) ==
  LET s == pass[p].s
      batch == Batch(pass[p].lines)
  IN /\ pass[p].pc = "send" /\ batch # <<>> /\ Fault
     /\ \/ UNCHANGED server
        \/ Follows(s, pass[p].c) /\ server' = [server EXCEPT ![s] = @ \o batch]
     /\ Continue(p, s, pass[p].st.sessions[s], TRUE, <<>>)
     /\ UNCHANGED <<record, pruned, cut, made, older, told, file, lock>>

(* The cursors of pruned sessions go, with a gap event for one that was    *)
(* not all shipped, in the order of a map, and the state is saved.         *)
Gap(c) == c.known /\ ~c.blocked /\ c.lines < c.size

PassSaves(p) ==
  /\ pass[p].pc = "next" /\ pass[p].todo = {}
  /\ LET st == pass[p].st
         gaps == {Event("gap", s) : s \in {g \in pass[p].gone : Gap(st.sessions[g])}}
     IN \E events \in SetToSeqs(gaps) :
          LET kept == [eventLocked(st, events) EXCEPT !.sessions =
                         [s \in Sessions |-> IF s \in pass[p].gone THEN NoCursor ELSE @[s]]]
          IN /\ \/ Works /\ file' = kept
                \/ Fault /\ UNCHANGED file
             /\ pass' = [pass EXCEPT ![p].st = kept, ![p].pc = "report"]
  /\ UNCHANGED <<record, pruned, cut, made, server, older, told, lock>>

(* Mutant: events are marked though the report failed.                     *)
PassReportsMarks(p) ==
  /\ pass[p].pc = "report"
  /\ LET st == pass[p].st
     IN IF pass[p].err \/ unsent(st) = {}
          THEN Works /\ UNCHANGED <<told, file>>
        ELSE \/ Works /\ told' = told \cup unsent(st) /\ file' = marked(st)
             \/ Fault /\ UNCHANGED told /\ file' = marked(st)
  /\ lock' = Free /\ pass' = [pass EXCEPT ![p] = Resting]
  /\ UNCHANGED <<record, pruned, cut, made, server, older>>

(* A pass that reached the server reports the events not yet sent; all are *)
(* then marked and the state saved again.                                  *)
PassReports(p) ==
  /\ pass[p].pc = "report"
  /\ LET st == pass[p].st
     IN IF pass[p].err \/ unsent(st) = {}
          THEN Works /\ UNCHANGED <<told, file>>
        ELSE \/ Works /\ told' = told \cup unsent(st) /\ file' = marked(st)
             \/ Fault /\ told' \in {told, told \cup unsent(st)} /\ UNCHANGED file
  /\ lock' = Free /\ pass' = [pass EXCEPT ![p] = Resting]
  /\ UNCHANGED <<record, pruned, cut, made, server, older>>

Crash(p) ==
  /\ pass[p].pc # "rest" /\ Fault
  /\ lock' = Free /\ pass' = [pass EXCEPT ![p] = Resting]
  /\ UNCHANGED <<record, pruned, cut, made, server, older, told, file>>

PassStep(p) ==
  \/ PassBegins(p)
  \/ \E s \in Sessions : ShipBegins(p, s)
  \/ ShipBlocks(p) \/ SendTaken(p) \/ SendConflicts(p)
  \/ PassSaves(p) \/ PassReports(p)

Next ==
  \/ \E s \in Sessions : Written(s) \/ Prune(s) \/ LosesPower(s) \/ ServerRestored(s)
  \/ \E p \in Procs : PassStep(p) \/ SendRefused(p) \/ SendLost(p) \/ Crash(p)
  \/ \E p \in Procs, s \in Sessions : ShipFails(p, s)

(* Run makes a pass at least every poll, and a pass waits for nobody.      *)
Fairness == WF_vars(\E p \in Procs : PassStep(p))

Spec == Init /\ [][Next]_vars
FairSpec == Spec /\ Fairness

(***************************************************************************)
(* Properties.                                                             *)
(***************************************************************************)

Cursors == [known : BOOLEAN, lines : 0..MaxLines, hash : 0..MaxLines, size : 0..MaxLines, blocked : BOOLEAN]
Events == [kind : {"diverged", "blocked", "refused", "gap"}, session : Sessions]
Logs == Seq([event : Events, sent : BOOLEAN])

(* Every variable has its type.                                            *)
TypeOK ==
  /\ \A s \in Sessions : {record[s], server[s]} \subseteq Seq(1..MaxLines)
  /\ pruned \cup cut \cup older \subseteq Sessions /\ made \in 0..MaxLines
  /\ told \subseteq Events
  /\ file.sessions \in [Sessions -> Cursors]
  /\ file.events \in Logs /\ Len(file.events) <= MaxEvents /\ file.dropped \subseteq Events
  /\ \A s \in Sessions : file.sessions[s].lines = 0 <=> file.sessions[s].hash = 0
  /\ lock \in Procs \cup {Free}
  /\ \A p \in Procs : pass[p].pc \in {"rest", "next", "send", "report"} /\ pass[p].c \in Cursors
  /\ \A p \in Procs : pass[p].pc # "rest" => lock = p
  /\ faults \in 0..MaxFaults

(* A session is stopped as diverged, for good, only if its record did lose *)
(* lines, with the power or to a prune: no lost answer, crash, stale       *)
(* cursor or older copy on the server makes an honest record look changed. *)
DivergedIsTrue ==
  \A s \in Sessions : Event("diverged", s) \in Noted(file) \cup told => s \in cut \cup pruned

(* "after a time offline it goes on from there": once faults and writes    *)
(* stop, every session that is not blocked is shipped to its end, whatever *)
(* answers were lost.  A server that came back with an older copy is asked *)
(* again only when there is more to send, so there the cursor counts.      *)
AllIsShipped ==
  <>[](\A s \in Sessions \ (pruned \cup cut) :
         \/ file.sessions[s].blocked
         \/ IF s \in older THEN file.sessions[s].lines = Len(record[s])
                           ELSE server[s] = record[s])

(* A session pruned with lines the shipper knew of and had not shipped is  *)
(* told to the server as a gap, though passes fail or die on the way, or   *)
(* its event was pushed out of the log, unsent, by MaxEvents later ones:   *)
(* its cursor is gone by then, and it is lost for no other reason.         *)
GapIsTold ==
  \A s \in Sessions :
    (s \in pruned /\ lock = Free /\ Gap(file.sessions[s]))
      ~> Event("gap", s) \in told \cup file.dropped
=============================================================================
