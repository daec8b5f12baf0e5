--------------------------- MODULE ShippingProofs ---------------------------
(***************************************************************************)
(* Proofs about the shipper: the types of its state, and that a session is *)
(* called diverged only if its record lost lines: until then what the      *)
(* server has, what the checkpoints say and what a pass read are prefixes  *)
(* of the record.                                                          *)
(***************************************************************************)
EXTENDS Shipping, FiniteSetTheorems, WellFoundedInduction, TLAPS

(***************************************************************************)
(* Facts about the sequences and sets the model is built from.             *)
(***************************************************************************)

LEMMA BoundedSetHasMax ==
  ASSUME NEW S, S \subseteq Nat, S # {}, NEW m \in Nat, \A x \in S : x <= m
  PROVE  Max(S) \in S
<1> DEFINE bounds == {n \in Nat : \A x \in S : x <= n}
<1>1. bounds \subseteq Nat /\ bounds # {}
  OBVIOUS
<1>2. PICK n \in bounds : \A k \in bounds : ~(<<k, n>> \in OpToRel(<, Nat))
  BY <1>1, NatLessThanWellFounded, WFMin
<1>3. \A k \in bounds : n <= k
  <2> SUFFICES ASSUME NEW k \in bounds, k < n PROVE FALSE
    BY <1>1
  <2>1. <<k, n>> \in OpToRel(<, Nat)
    BY <1>1 DEF OpToRel
  <2> QED
    BY <1>2, <2>1
<1>4. n \in S
  <2> SUFFICES ASSUME n \notin S PROVE FALSE
    OBVIOUS
  <2>1. \A x \in S : x < n
    BY <1>1
  <2>2. n - 1 \in bounds
    <3>1. PICK x \in S : x \in Nat /\ x < n
      BY <2>1
    <3>2. n - 1 \in Nat
      BY <3>1
    <3> QED
      BY <2>1, <3>2
  <2> QED
    BY <1>3, <2>2
<1> HIDE DEF bounds
<1>5. \E x \in S : \A y \in S : x >= y
  BY <1>4 DEF bounds
<1> QED
  BY <1>5 DEF Max

LEMMA Firsts ==
  ASSUME NEW T, NEW q \in Seq(T), NEW n \in 0..Len(q)
  PROVE  /\ SubSeq(q, 1, n) \in Seq(T)
         /\ Len(SubSeq(q, 1, n)) = n
         /\ \A i \in 1..n : SubSeq(q, 1, n)[i] = q[i]
OBVIOUS

LEMMA Rests ==
  ASSUME NEW T, NEW q \in Seq(T), NEW n \in 0..Len(q)
  PROVE  /\ From(q, n) \in Seq(T)
         /\ Len(From(q, n)) = Len(q) - n
         /\ \A i \in 1..(Len(q) - n) : From(q, n)[i] = q[n + i]
BY DEF From

LEMMA Joined ==
  ASSUME NEW T, NEW q \in Seq(T), NEW r \in Seq(T)
  PROVE  /\ q \o r \in Seq(T)
         /\ Len(q \o r) = Len(q) + Len(r)
         /\ \A i \in 1..Len(q) : (q \o r)[i] = q[i]
         /\ \A i \in 1..Len(r) : (q \o r)[Len(q) + i] = r[i]
OBVIOUS

LEMMA OneOfSeq ==
  ASSUME NEW T, NEW q \in Seq(T), NEW i \in 1..Len(q)
  PROVE  q[i] \in T
OBVIOUS

LEMMA LastIsOne ==
  ASSUME NEW T, NEW q \in Seq(T), Len(q) > 0
  PROVE  Last(q) \in T /\ Last(q) = q[Len(q)] /\ Len(q) \in 1..Len(q)
BY DEF Last

(* A batch is a first part of the lines to be sent.                        *)
LEMMA BatchIsFirsts ==
  ASSUME NEW T, NEW q \in Seq(T)
  PROVE  /\ Batch(q) \in Seq(T)
         /\ Len(Batch(q)) <= Len(q)
         /\ \A i \in 1..Len(Batch(q)) : Batch(q)[i] = q[i]
         /\ Batch(q) # <<>> => Len(Batch(q)) > 0
<1> DEFINE fits == {n \in 0..Len(q) : n <= BatchLines /\ \A i \in 1..n : q[i] \notin Withheld}
<1>1. fits \subseteq Nat /\ 0 \in fits /\ \A n \in fits : n <= Len(q)
  BY BatchAssumption
<1>2. Max(fits) \in fits
  <2> HIDE DEF fits
  <2>1. Len(q) \in Nat /\ fits # {}
    BY <1>1
  <2> QED
    BY <1>1, <2>1, BoundedSetHasMax
<1>3. Max(fits) \in 0..Len(q)
  BY <1>2
<1>4. Batch(q) = SubSeq(q, 1, Max(fits))
  BY DEF Batch
<1> HIDE DEF fits
<1> QED
  BY <1>3, <1>4, Firsts

(***************************************************************************)
(* The inductive invariant.  Types says all of the state, the passes' own  *)
(* records included; a pass's lines reach no further than those ever       *)
(* written.  Honest says of a session that lost no lines that every place  *)
(* the shipper or the server remembers is still one of its record.         *)
(***************************************************************************)

GoodCursors == {c \in Cursors : c.lines = 0 <=> c.hash = 0}
Entries == [event : Events, sent : BOOLEAN]
States == {st \in [sessions : [Sessions -> GoodCursors], events : Logs, dropped : SUBSET Events] :
             Len(st.events) <= MaxEvents}
Passes == [pc : {"rest", "next", "send", "report"}, st : States,
           todo : SUBSET Sessions, gone : SUBSET Sessions, err : BOOLEAN,
           s : Sessions \cup {Free}, c : GoodCursors, lines : Seq(1..MaxLines), moves : Nat]

PassOK(r) ==
  /\ r \in Passes
  /\ r.pc = "send" => r.s \in Sessions /\ r.c.lines + Len(r.lines) <= made

RecordOK ==
  /\ record \in [Sessions -> Seq(1..MaxLines)] /\ server \in [Sessions -> Seq(1..MaxLines)]
  /\ made \in 0..MaxLines
  /\ \A s \in Sessions : Len(record[s]) <= made
  /\ pruned \subseteq Sessions /\ cut \subseteq Sessions /\ older \subseteq Sessions

Types ==
  /\ RecordOK
  /\ told \subseteq Events /\ file \in States
  /\ lock \in Procs \cup {Free} /\ faults \in 0..MaxFaults
  /\ pass \in [Procs -> Passes]
  /\ \A p \in Procs : PassOK(pass[p]) /\ (pass[p].pc # "rest" => lock = p)

Named(c, s) == Holds(record[s], c.lines, c.hash)

StateHonest(st, s) == Named(st.sessions[s], s) /\ Event("diverged", s) \notin Noted(st)

Sending(r, s) ==
  /\ Named(r.c, s)
  /\ r.c.lines + Len(r.lines) <= Len(record[s])
  /\ \A i \in 1..Len(r.lines) : r.lines[i] = record[s][r.c.lines + i]

PassHonest(r, s) == StateHonest(r.st, s) /\ (r.pc = "send" /\ r.s = s => Sending(r, s))

ServerHonest(s) ==
  /\ Len(server[s]) <= Len(record[s])
  /\ \A i \in 1..Len(server[s]) : server[s][i] = record[s][i]

Honest(s) ==
  /\ ServerHonest(s)
  /\ StateHonest(file, s)
  /\ Event("diverged", s) \notin told
  /\ \A p \in Procs : PassHonest(pass[p], s)

Whole == Sessions \ (cut \cup pruned)

IInv == Types /\ \A s \in Whole : Honest(s)

LEMMA FaultCounts ==
  ASSUME IInv, Fault \/ faults' = faults
  PROVE  faults' \in 0..MaxFaults
<1>1. faults \in 0..MaxFaults
  BY DEF IInv, Types
<1> QED
  BY <1>1, BoundsAssumption DEF Fault

(***************************************************************************)
(* The log of events.                                                      *)
(***************************************************************************)

(* Its events are ones there were, and the new ones; no more are kept than *)
(* MaxEvents.                                                              *)
LEMMA LogKeeps ==
  ASSUME NEW st \in States, NEW events \in Seq(Events)
  PROVE  /\ eventLocked(st, events) \in States
         /\ eventLocked(st, events).sessions = st.sessions
         /\ Noted(eventLocked(st, events)) \subseteq Noted(st) \cup ToSet(events)
<1>1. st.events \in Seq(Entries) /\ st.dropped \subseteq Events
  BY DEF States, Logs, Entries
<1>2. PICK new : new = [i \in DOMAIN events |-> [event |-> events[i], sent |-> FALSE]]
  OBVIOUS
<1>3. new \in Seq(Entries) /\ Len(new) = Len(events) /\ \A i \in 1..Len(new) : new[i].event = events[i]
  <2>1. \A i \in 1..Len(events) : events[i] \in Events
    OBVIOUS
  <2>2. new \in [1..Len(events) -> Entries] /\ Len(events) \in Nat
    BY <1>2, <2>1 DEF Entries
  <2>3. new \in Seq(Entries) /\ Len(new) = Len(events)
    BY <2>2
  <2>4. \A i \in 1..Len(events) : new[i].event = events[i]
    BY <1>2
  <2> QED
    BY <2>3, <2>4
<1>4. PICK log : log = Extended(st, events)
  OBVIOUS
<1>5. /\ log \in Seq(Entries) /\ Len(log) = Len(st.events) + Len(new)
      /\ \A i \in 1..Len(st.events) : log[i] = st.events[i]
      /\ \A i \in 1..Len(new) : log[Len(st.events) + i] = new[i]
  BY <1>1, <1>2, <1>3, <1>4, Joined DEF Extended
<1>6. PICK out : out = Excess(log)
  OBVIOUS
<1>7. Len(log) \in Nat /\ out \in 0..Len(log) /\ Len(log) - out <= MaxEvents
  BY <1>5, <1>6, LogAssumption DEF Excess
<1>8. PICK kept : kept = From(log, out)
  OBVIOUS
<1>9. /\ kept \in Seq(Entries) /\ Len(kept) = Len(log) - out
      /\ \A i \in 1..(Len(log) - out) : kept[i] = log[out + i]
  BY <1>5, <1>7, <1>8, Rests
<1>10. PICK gone : gone = {log[i].event : i \in {j \in 1..out : ~log[j].sent}}
  OBVIOUS
<1>11. gone \subseteq Events
  <2>1. \A i \in 1..out : i \in 1..Len(log)
    BY <1>7
  <2>2. \A i \in 1..Len(log) : log[i] \in Entries
    BY <1>5
  <2>3. \A i \in 1..out : log[i].event \in Events
    BY <2>1, <2>2 DEF Entries
  <2> QED
    BY <1>10, <2>3
<1>12. PICK n : n = eventLocked(st, events)
  OBVIOUS
<1>13. n = [st EXCEPT !.events = kept, !.dropped = st.dropped \cup gone]
  BY <1>4, <1>6, <1>8, <1>10, <1>12 DEF eventLocked
<1>14. /\ n \in States /\ n.sessions = st.sessions /\ n.events = kept
  <2>1. kept \in Logs /\ Len(kept) <= MaxEvents
    BY <1>7, <1>9 DEF Logs, Entries
  <2>2. st.dropped \cup gone \subseteq Events
    BY <1>1, <1>11
  <2> QED
    BY <1>13, <2>1, <2>2 DEF States
<1>15. ASSUME NEW i \in DOMAIN kept PROVE kept[i].event \in Noted(st) \cup ToSet(events)
  <2>1. i \in 1..Len(kept) /\ i \in 1..(Len(log) - out)
    BY <1>9
  <2>2. PICK j \in 1..Len(log) : j = out + i
    BY <1>7, <2>1
  <2>3. kept[i] = log[j] /\ Len(st.events) \in Nat /\ Len(new) \in Nat
    BY <1>1, <1>3, <1>9, <2>1, <2>2
  <2>4. CASE j \in 1..Len(st.events)
    <3>1. j \in DOMAIN st.events /\ kept[i] = st.events[j]
      BY <1>1, <1>5, <2>3, <2>4
    <3> QED
      BY <3>1 DEF Noted
  <2>5. CASE j \notin 1..Len(st.events)
    <3>1. j - Len(st.events) \in 1..Len(new)
      BY <1>5, <2>2, <2>3, <2>5
    <3>2. PICK k \in 1..Len(new) : j = Len(st.events) + k
      BY <2>2, <2>3, <3>1
    <3>3. kept[i].event = events[k] /\ k \in DOMAIN events
      BY <1>3, <1>5, <2>3, <3>2
    <3> QED
      BY <3>3 DEF ToSet
  <2> QED
    BY <2>4, <2>5
<1>16. Noted(n) \subseteq Noted(st) \cup ToSet(events)
  BY <1>14, <1>15 DEF Noted
<1> QED
  BY <1>12, <1>14, <1>16

(* A log all of it sent has the events it had.                             *)
LEMMA MarkedKeeps ==
  ASSUME NEW st \in States
  PROVE  /\ marked(st) \in States /\ marked(st).sessions = st.sessions
         /\ Noted(marked(st)) = Noted(st) /\ unsent(st) \subseteq Noted(st) /\ Noted(st) \subseteq Events
<1>1. st.events \in Seq(Entries) /\ DOMAIN st.events = 1..Len(st.events) /\ Len(st.events) \in Nat
  BY DEF States, Logs, Entries
<1>2. \A i \in 1..Len(st.events) : st.events[i] \in Entries
  BY <1>1
<1>3. PICK log : log = [i \in DOMAIN st.events |-> [st.events[i] EXCEPT !.sent = TRUE]]
  OBVIOUS
<1>4. log \in [1..Len(st.events) -> Entries] /\ \A i \in 1..Len(st.events) : log[i].event = st.events[i].event
  BY <1>1, <1>2, <1>3 DEF Entries
<1>5. log \in Seq(Entries) /\ Len(log) = Len(st.events) /\ DOMAIN log = DOMAIN st.events
  BY <1>1, <1>4
<1>6. PICK n : n = marked(st)
  OBVIOUS
<1>7. n = [st EXCEPT !.events = log]
  BY <1>3, <1>6 DEF marked
<1>8. n \in States /\ n.sessions = st.sessions /\ n.events = log
  BY <1>5, <1>7 DEF States, Logs, Entries
<1>9. Noted(n) = Noted(st)
  BY <1>1, <1>4, <1>5, <1>8 DEF Noted
<1>10. Noted(st) \subseteq Events
  BY <1>1, <1>2 DEF Noted, Entries
<1>11. unsent(st) \subseteq Noted(st)
  BY DEF unsent, Noted
<1> QED
  BY <1>6, <1>8, <1>9, <1>10, <1>11

(* What a resting pass and the first state hold.                           *)
LEMMA RestingIsGood ==
  /\ NoCursor \in GoodCursors /\ NoState \in States /\ Resting \in Passes /\ PassOK(Resting)
  /\ \A s \in Sessions : record[s] \in Seq(1..MaxLines) =>
       StateHonest(NoState, s) /\ PassHonest(Resting, s)
<1>1. NoCursor \in GoodCursors
  BY BoundsAssumption DEF NoCursor, GoodCursors, Cursors
<1>2. NoState \in States
  <2>1. <<>> \in Logs /\ Len(<<>>) <= MaxEvents
    BY LogAssumption DEF Logs
  <2> QED
    BY <1>1, <2>1 DEF NoState, States
<1>3. Resting \in Passes /\ PassOK(Resting)
  BY <1>1, <1>2 DEF Resting, Passes, PassOK
<1>4. ASSUME NEW s \in Sessions, record[s] \in Seq(1..MaxLines)
      PROVE  StateHonest(NoState, s) /\ PassHonest(Resting, s)
  <2>1. StateHonest(NoState, s)
    BY <1>4 DEF StateHonest, NoState, Named, Holds, At, NoCursor, Noted
  <2> QED
    BY <2>1 DEF PassHonest, Resting
<1> QED
  BY <1>1, <1>2, <1>3, <1>4

LEMMA IInvInit == Init => IInv
<1> SUFFICES ASSUME Init PROVE IInv
  OBVIOUS
<1>1. RecordOK
  BY BoundsAssumption DEF Init, RecordOK
<1>2. Types
  <2>1. \A p \in Procs : pass[p] = Resting /\ pass[p].pc = "rest"
    BY DEF Init, Resting
  <2> QED
    BY <1>1, <2>1, RestingIsGood, BoundsAssumption DEF Init, Types
<1>3. ASSUME NEW s \in Whole PROVE Honest(s)
  BY <1>3, RestingIsGood DEF Init, Honest, Whole, ServerHonest
<1> QED
  BY <1>2, <1>3 DEF IInv

(* One process's pass changes, and with it what it may change: the record, *)
(* what it lost and the other passes stay.                                 *)
LEMMA PassMoves ==
  ASSUME IInv, NEW p \in Procs, NEW r, pass' = [pass EXCEPT ![p] = r],
         UNCHANGED <<record, pruned, cut, made, older>>,
         PassOK(r), r.pc # "rest" => lock' = p,
         lock \in {p, Free}, lock' \in Procs \cup {Free},
         server' \in [Sessions -> Seq(1..MaxLines)],
         file' \in States, told' \subseteq Events, faults' \in 0..MaxFaults,
         \A s \in Whole : /\ PassHonest(r, s) /\ ServerHonest(s)'
                          /\ StateHonest(file', s) /\ Event("diverged", s) \notin told'
  PROVE  IInv'
<1>1. RecordOK'
  BY DEF IInv, Types, RecordOK
<1>2. pass \in [Procs -> Passes] /\ r \in Passes
  BY DEF IInv, Types, PassOK
<1>3. pass'[p] = r /\ (\A q \in Procs \ {p} : pass'[q] = pass[q]) /\ pass' \in [Procs -> Passes]
  BY <1>2
<1>4. ASSUME NEW q \in Procs PROVE (PassOK(pass[q]) /\ (pass[q].pc # "rest" => lock = q))'
  <2>1. CASE q = p
    BY <1>3, <2>1 DEF PassOK
  <2>2. CASE q # p
    <3>1. pass[q].pc = "rest"
      BY <2>2, FreeAssumption DEF IInv, Types
    <3> QED
      BY <1>3, <2>2, <3>1 DEF IInv, Types, PassOK
  <2> QED
    BY <2>1, <2>2
<1>5. Types'
  BY <1>1, <1>3, <1>4 DEF Types
<1>6. Whole' = Whole
  BY DEF Whole
<1>7. ASSUME NEW s \in Whole PROVE Honest(s)'
  <2>1. ASSUME NEW q \in Procs PROVE PassHonest(pass'[q], s)
    BY <1>3 DEF IInv, Honest
  <2>2. \A q \in Procs : (PassHonest(pass[q], s))'
    BY <2>1 DEF PassHonest, StateHonest, Sending, Named
  <2>3. (StateHonest(file, s))'
    BY DEF StateHonest, Named
  <2> QED
    BY <2>2, <2>3 DEF Honest
<1> QED
  BY <1>5, <1>6, <1>7 DEF IInv

(* A pass goes on to the next session, the server's lines apart.           *)
LEMMA ContinueKeeps ==
  ASSUME IInv, NEW p \in Procs, NEW s \in Sessions, NEW c \in GoodCursors,
         NEW err \in BOOLEAN, NEW events \in Seq(Events),
         pass[p].pc # "rest", Continue(p, s, c, err, events),
         UNCHANGED <<record, pruned, cut, made, older, told, file, lock>>,
         server' \in [Sessions -> Seq(1..MaxLines)], faults' \in 0..MaxFaults,
         \A t \in Whole : ServerHonest(t)',
         \A e \in ToSet(events) : e.session = s,
         s \in Whole => Named(c, s) /\ Event("diverged", s) \notin ToSet(events)
  PROVE  IInv'
<1>0. Types /\ pass[p] \in Passes /\ lock = p /\ Resting \in Passes
  BY RestingIsGood DEF IInv, Types
<1>1. PICK size : size = Sized(c, s)
  OBVIOUS
<1>2. size \in GoodCursors /\ size.lines = c.lines /\ size.hash = c.hash
  <2>1. Len(record[s]) \in 0..MaxLines
    BY <1>0, BoundsAssumption DEF Types, RecordOK
  <2> QED
    BY <1>1, <2>1 DEF Sized, GoodCursors, Cursors
<1>a. PICK log : log = eventLocked(pass[p].st, events)
  OBVIOUS
<1>3. PICK noted : noted = [log EXCEPT !.sessions[s] = size]
  OBVIOUS
<1>4. pass[p].st \in States
  BY <1>0 DEF Passes
<1>b. /\ log \in States /\ log.sessions = pass[p].st.sessions
      /\ Noted(log) \subseteq Noted(pass[p].st) \cup ToSet(events)
  BY <1>4, <1>a, LogKeeps
<1>5. noted \in States /\ noted.events = log.events
  BY <1>2, <1>3, <1>b DEF States
<1>c. Noted(noted) \subseteq Noted(pass[p].st) \cup ToSet(events)
  BY <1>5, <1>b DEF Noted
<1>6. PICK r : r = [Resting EXCEPT !.pc = "next", !.st = noted, !.todo = pass[p].todo \ {s},
                                   !.gone = pass[p].gone, !.err = err]
  OBVIOUS
<1>7. r.pc = "next" /\ r.st = noted /\ r \in Passes
  BY <1>0, <1>5, <1>6 DEF Passes
<1>8. pass' = [pass EXCEPT ![p] = r]
  BY <1>1, <1>3, <1>6, <1>a DEF Continue
<1>9. PassOK(r)
  BY <1>7 DEF PassOK
<1>10. ASSUME NEW t \in Whole PROVE PassHonest(r, t)
  <2>1. StateHonest(pass[p].st, t) /\ t \in Sessions
    BY DEF IInv, Honest, PassHonest, Whole
  <2>2. CASE t = s
    <3>1. Named(size, s)
      BY <1>2, <1>10, <2>2 DEF Named
    <3>2. noted.sessions[s] = size
      BY <1>3, <1>b DEF States
    <3>3. Event("diverged", s) \notin Noted(noted)
      BY <1>c, <1>10, <2>1, <2>2 DEF StateHonest
    <3> QED
      BY <1>7, <2>2, <3>1, <3>2, <3>3 DEF PassHonest, StateHonest
  <2>3. CASE t # s
    <3>1. noted.sessions[t] = pass[p].st.sessions[t]
      BY <1>3, <1>b, <2>1, <2>3 DEF States
    <3>2. Event("diverged", t) \notin Noted(noted)
      <4>1. Event("diverged", t).session = t
        BY DEF Event
      <4> QED
        BY <1>c, <2>1, <2>3, <4>1 DEF StateHonest
    <3> QED
      BY <1>7, <2>1, <3>1, <3>2 DEF PassHonest, StateHonest
  <2> QED
    BY <2>2, <2>3
<1>11. \A t \in Whole : StateHonest(file', t) /\ Event("diverged", t) \notin told'
  BY DEF IInv, Honest
<1>12. file' \in States /\ told' \subseteq Events /\ lock' \in Procs \cup {Free} /\ lock' = p
  BY <1>0 DEF Types
<1> QED
  BY <1>0, <1>7, <1>8, <1>9, <1>10, <1>11, <1>12, PassMoves

(* The same where the server's lines stay as they are.                     *)
LEMMA ContinueAlone ==
  ASSUME IInv, NEW p \in Procs, NEW s \in Sessions, NEW c \in GoodCursors,
         NEW err \in BOOLEAN, NEW events \in Seq(Events),
         pass[p].pc # "rest", Continue(p, s, c, err, events),
         UNCHANGED <<record, pruned, cut, made, server, older, told, file, lock>>,
         faults' \in 0..MaxFaults,
         \A e \in ToSet(events) : e.session = s,
         s \in Whole => Named(c, s) /\ Event("diverged", s) \notin ToSet(events)
  PROVE  IInv'
<1>1. server' \in [Sessions -> Seq(1..MaxLines)]
  BY DEF IInv, Types, RecordOK
<1>2. \A t \in Whole : ServerHonest(t)'
  BY DEF IInv, Honest, ServerHonest
<1> QED
  BY <1>1, <1>2, ContinueKeeps

LEMMA OneEvent ==
  ASSUME NEW s \in Sessions, NEW k \in {"diverged", "blocked", "refused", "gap"}
  PROVE  /\ <<Event(k, s)>> \in Seq(Events)
         /\ \A e \in ToSet(<<Event(k, s)>>) : e.session = s
         /\ k # "diverged" => Event("diverged", s) \notin ToSet(<<Event(k, s)>>)
<1>1. Event(k, s) \in Events /\ Event(k, s).session = s /\ Event(k, s).kind = k
  BY DEF Event, Events
<1>2. PICK e \in Events : e = Event(k, s)
  BY <1>1
<1>3. <<e>> \in Seq(Events) /\ ToSet(<<e>>) = {e}
  BY DEF ToSet
<1>4. Event("diverged", s).kind = "diverged"
  BY DEF Event
<1> QED
  BY <1>1, <1>2, <1>3, <1>4

LEMMA NoEvents ==
  ASSUME NEW s
  PROVE  /\ <<>> \in Seq(Events) /\ \A e \in ToSet(<<>>) : e.session = s
         /\ Event("diverged", s) \notin ToSet(<<>>)
<1>1. ToSet(<<>>) = {}
  BY DEF ToSet
<1> QED
  BY <1>1

LEMMA BlockedIsGood ==
  ASSUME NEW c \in GoodCursors, NEW s \in Sessions
  PROVE  Blocked(c) \in GoodCursors /\ (Named(c, s) => Named(Blocked(c), s))
BY DEF Blocked, GoodCursors, Cursors, Named

LEMMA PassBeginsStep ==
  ASSUME IInv, NEW p \in Procs, PassBegins(p)
  PROVE  IInv'
<1>1. PICK r : r = [Resting EXCEPT !.pc = "next", !.st = file, !.todo = Sessions \ pruned, !.gone = pruned]
  OBVIOUS
<1>2. Types
  BY DEF IInv
<1>3. r.pc = "next" /\ r.st = file /\ r \in Passes
  BY <1>1, <1>2, RestingIsGood DEF Types, RecordOK, Passes
<1>4. PassOK(r)
  BY <1>3 DEF PassOK
<1>5. \A s \in Whole : /\ PassHonest(r, s) /\ ServerHonest(s)'
                       /\ StateHonest(file', s) /\ Event("diverged", s) \notin told'
  BY <1>3 DEF PassBegins, IInv, Honest, PassHonest, ServerHonest
<1>6. /\ pass' = [pass EXCEPT ![p] = r] /\ UNCHANGED <<record, pruned, cut, made, older>>
      /\ lock' = p /\ lock = Free /\ server' = server /\ file' = file /\ told' = told /\ faults' = faults
  BY <1>1 DEF PassBegins
<1>7. /\ server' \in [Sessions -> Seq(1..MaxLines)]
      /\ file' \in States /\ told' \subseteq Events /\ faults' \in 0..MaxFaults
  BY <1>2, <1>6 DEF Types, RecordOK
<1> QED
  BY <1>3, <1>4, <1>5, <1>6, <1>7, PassMoves

LEMMA ShipBeginsStep ==
  ASSUME IInv, NEW p \in Procs, NEW s \in Sessions, ShipBegins(p, s)
  PROVE  IInv'
<1>1. PICK c : c = pass[p].st.sessions[s]
  OBVIOUS
<1>2. PICK size : size = Len(record[s])
  OBVIOUS
<1>3. Types /\ pass[p] \in Passes /\ pass[p].pc = "next" /\ lock = p
  BY DEF IInv, Types, ShipBegins
<1>4. pass[p].st \in States /\ c \in GoodCursors /\ pass[p].err \in BOOLEAN
  BY <1>1, <1>3 DEF Passes, States
<1>5. /\ UNCHANGED <<record, pruned, cut, made, server, older, told, file, lock>> /\ faults' = faults
      /\ faults' \in 0..MaxFaults
  BY <1>3 DEF ShipBegins, Types
<1>6. s \in Whole => Named(c, s)
  BY <1>1 DEF IInv, Honest, PassHonest, StateHonest
<1>7. \/ Continue(p, s, c, pass[p].err, <<>>)
      \/ /\ Named(c, s)
         /\ pass' = [pass EXCEPT ![p] = [pass[p] EXCEPT !.pc = "send", !.s = s,
                       !.c = [c EXCEPT !.known = TRUE, !.size = size], !.lines = From(record[s], c.lines)]]
      \/ ~Named(c, s) /\ Continue(p, s, Blocked(c), FALSE, <<Event("diverged", s)>>)
      \/ Continue(p, s, c, FALSE, <<>>)
  BY <1>1, <1>2 DEF ShipBegins, Named
<1>8. CASE Continue(p, s, c, pass[p].err, <<>>) \/ Continue(p, s, c, FALSE, <<>>)
  <2>1. <<>> \in Seq(Events) /\ (\A e \in ToSet(<<>>) : e.session = s) /\ Event("diverged", s) \notin ToSet(<<>>)
    BY NoEvents
  <2>2. CASE Continue(p, s, c, pass[p].err, <<>>)
    BY <1>3, <1>4, <1>5, <1>6, <2>1, <2>2, ContinueAlone
  <2>3. CASE Continue(p, s, c, FALSE, <<>>)
    BY <1>3, <1>4, <1>5, <1>6, <2>1, <2>3, ContinueAlone
  <2> QED
    BY <1>8, <2>2, <2>3
<1>9. CASE ~Named(c, s) /\ Continue(p, s, Blocked(c), FALSE, <<Event("diverged", s)>>)
  <2>1. s \notin Whole
    BY <1>6, <1>9
  <2>2. Blocked(c) \in GoodCursors
    BY <1>4, BlockedIsGood
  <2>3. <<Event("diverged", s)>> \in Seq(Events) /\ \A e \in ToSet(<<Event("diverged", s)>>) : e.session = s
    BY OneEvent
  <2> QED
    BY <1>3, <1>5, <1>9, <2>1, <2>2, <2>3, ContinueAlone
<1>10. CASE /\ Named(c, s)
            /\ pass' = [pass EXCEPT ![p] = [pass[p] EXCEPT !.pc = "send", !.s = s,
                          !.c = [c EXCEPT !.known = TRUE, !.size = size], !.lines = From(record[s], c.lines)]]
  <2>1. PICK d : d = [c EXCEPT !.known = TRUE, !.size = size]
    OBVIOUS
  <2>2. PICK lines : lines = From(record[s], c.lines)
    OBVIOUS
  <2>3. record[s] \in Seq(1..MaxLines) /\ Len(record[s]) <= made /\ made \in 0..MaxLines
    BY <1>3 DEF Types, RecordOK
  <2>4. c.lines \in 0..Len(record[s]) /\ size \in 0..MaxLines
    BY <1>2, <1>4, <1>10, <2>3, BoundsAssumption DEF Named, Holds, GoodCursors, Cursors
  <2>5. /\ lines \in Seq(1..MaxLines) /\ Len(lines) = Len(record[s]) - c.lines
        /\ \A i \in 1..Len(lines) : lines[i] = record[s][c.lines + i]
    <3>1. /\ lines \in Seq(1..MaxLines) /\ Len(lines) = Len(record[s]) - c.lines
          /\ \A i \in 1..(Len(record[s]) - c.lines) : lines[i] = record[s][c.lines + i]
      BY <2>2, <2>3, <2>4, Rests
    <3> QED
      BY <3>1
  <2>6. d \in GoodCursors /\ d.lines = c.lines /\ d.hash = c.hash
    BY <1>4, <2>1, <2>4 DEF GoodCursors, Cursors
  <2>7. PICK r : r = [pass[p] EXCEPT !.pc = "send", !.s = s, !.c = d, !.lines = lines]
    OBVIOUS
  <2>8. r.pc = "send" /\ r.s = s /\ r.c = d /\ r.lines = lines /\ r.st = pass[p].st /\ r \in Passes
    BY <1>3, <2>5, <2>6, <2>7 DEF Passes
  <2>9. PassOK(r)
    BY <2>3, <2>4, <2>5, <2>6, <2>8 DEF PassOK
  <2>10. Sending(r, s)
    BY <1>10, <2>3, <2>4, <2>5, <2>6, <2>8 DEF Sending, Named
  <2>11. \A t \in Whole : /\ PassHonest(r, t) /\ ServerHonest(t)'
                          /\ StateHonest(file', t) /\ Event("diverged", t) \notin told'
    BY <1>5, <2>8, <2>10 DEF IInv, Honest, PassHonest, ServerHonest
  <2>12. pass' = [pass EXCEPT ![p] = r]
    BY <1>10, <2>1, <2>2, <2>7
  <2>13. /\ server' \in [Sessions -> Seq(1..MaxLines)]
         /\ file' \in States /\ told' \subseteq Events
    BY <1>3, <1>5 DEF Types, RecordOK
  <2> QED
    BY <1>3, <1>5, <2>8, <2>9, <2>11, <2>12, <2>13, PassMoves
<1> QED
  BY <1>7, <1>8, <1>9, <1>10

LEMMA ShipFailsStep ==
  ASSUME IInv, NEW p \in Procs, NEW s \in Sessions, ShipFails(p, s)
  PROVE  IInv'
<1>1. PICK c : c = pass[p].st.sessions[s]
  OBVIOUS
<1>2. Types /\ pass[p] \in Passes /\ pass[p].pc = "next" /\ lock = p
  BY DEF IInv, Types, ShipFails
<1>3. c \in GoodCursors
  BY <1>1, <1>2 DEF Passes, States
<1>4. /\ UNCHANGED <<record, pruned, cut, made, server, older, told, file, lock>>
      /\ faults' \in 0..MaxFaults
  BY FaultCounts DEF ShipFails
<1>5. CASE Continue(p, s, c, TRUE, <<>>)
  <2>1. s \in Whole => Named(c, s)
    BY <1>1 DEF IInv, Honest, PassHonest, StateHonest
  <2> QED
    BY <1>2, <1>3, <1>4, <1>5, <2>1, NoEvents, ContinueAlone
<1>6. CASE pass' = [pass EXCEPT ![p].todo = @ \ {s}]
  <2>1. PICK r : r = [pass[p] EXCEPT !.todo = pass[p].todo \ {s}]
    OBVIOUS
  <2>2. r \in Passes /\ r.pc = "next" /\ r.st = pass[p].st
    BY <1>2, <2>1 DEF Passes
  <2>3. pass' = [pass EXCEPT ![p] = r]
    BY <1>6, <2>1
  <2>4. PassOK(r)
    BY <2>2 DEF PassOK
  <2>5. \A t \in Whole : /\ PassHonest(r, t) /\ ServerHonest(t)'
                         /\ StateHonest(file', t) /\ Event("diverged", t) \notin told'
    BY <1>4, <2>2 DEF IInv, Honest, PassHonest, ServerHonest
  <2>6. /\ server' \in [Sessions -> Seq(1..MaxLines)]
        /\ file' \in States /\ told' \subseteq Events
    BY <1>2, <1>4 DEF Types, RecordOK
  <2> QED
    BY <1>2, <1>4, <2>2, <2>3, <2>4, <2>5, <2>6, PassMoves
<1> QED
  BY <1>1, <1>5, <1>6 DEF ShipFails

(* What is known of a pass that sends.                                     *)
LEMMA SendingFacts ==
  ASSUME IInv, NEW p \in Procs, pass[p].pc = "send"
  PROVE  /\ Types /\ pass[p] \in Passes /\ lock = p
         /\ pass[p].s \in Sessions /\ pass[p].c \in GoodCursors /\ pass[p].st \in States
         /\ pass[p].lines \in Seq(1..MaxLines)
         /\ pass[p].c.lines \in Nat /\ pass[p].c.lines + Len(pass[p].lines) <= MaxLines
         /\ pass[p].s \in Whole => Sending(pass[p], pass[p].s) /\ StateHonest(pass[p].st, pass[p].s)
<1>1. Types /\ pass[p] \in Passes /\ lock = p /\ PassOK(pass[p]) /\ made \in 0..MaxLines
  BY DEF IInv, Types, RecordOK
<1>2. pass[p].c \in GoodCursors /\ pass[p].st \in States /\ pass[p].lines \in Seq(1..MaxLines)
  BY <1>1 DEF Passes
<1>3. pass[p].s \in Sessions /\ pass[p].c.lines + Len(pass[p].lines) <= made
  BY <1>1 DEF PassOK
<1>4. pass[p].c.lines \in Nat
  BY <1>2, BoundsAssumption DEF GoodCursors, Cursors
<1>5. pass[p].s \in Whole => Sending(pass[p], pass[p].s) /\ StateHonest(pass[p].st, pass[p].s)
  BY <1>3 DEF IInv, Honest, PassHonest
<1>6. pass[p].c.lines + Len(pass[p].lines) <= MaxLines
  BY <1>1, <1>2, <1>3, <1>4, BoundsAssumption
<1> QED
  BY <1>1, <1>2, <1>3, <1>4, <1>5, <1>6

LEMMA ShipBlocksStep ==
  ASSUME IInv, NEW p \in Procs,
         \/ ShipBlocks(p)
         \/ SendRefused(p)
  PROVE  IInv'
<1>1. PICK s, c : s = pass[p].s /\ c = pass[p].c
  OBVIOUS
<1>2. pass[p].pc = "send"
  BY DEF ShipBlocks, SendRefused
<1>3. /\ Types /\ s \in Sessions /\ Blocked(c) \in GoodCursors
      /\ s \in Whole => Named(Blocked(c), s)
  BY <1>1, <1>2, SendingFacts, BlockedIsGood DEF Sending
<1>4. PICK k \in {"blocked", "refused"} : Continue(p, s, Blocked(c), FALSE, <<Event(k, s)>>)
  BY <1>1 DEF ShipBlocks, SendRefused
<1>5. /\ UNCHANGED <<record, pruned, cut, made, server, older, told, file, lock>>
      /\ faults' \in 0..MaxFaults
  BY FaultCounts DEF ShipBlocks, SendRefused
<1>6. /\ <<Event(k, s)>> \in Seq(Events)
      /\ \A e \in ToSet(<<Event(k, s)>>) : e.session = s
      /\ Event("diverged", s) \notin ToSet(<<Event(k, s)>>)
  BY <1>3, OneEvent
<1> QED
  BY <1>2, <1>3, <1>4, <1>5, <1>6, ContinueAlone

(* A batch the server takes where it follows is of the record too.         *)
LEMMA ServerTakes ==
  ASSUME IInv, NEW p \in Procs, pass[p].pc = "send", Follows(pass[p].s, pass[p].c),
         server' = [server EXCEPT ![pass[p].s] = @ \o Batch(pass[p].lines)], record' = record
  PROVE  server' \in [Sessions -> Seq(1..MaxLines)] /\ \A t \in Whole : ServerHonest(t)'
<1>1. PICK s, c, lines : s = pass[p].s /\ c = pass[p].c /\ lines = pass[p].lines
  OBVIOUS
<1>2. PICK batch : batch = Batch(lines)
  OBVIOUS
<1>3. s \in Sessions /\ lines \in Seq(1..MaxLines) /\ c.lines \in Nat /\ Types
  BY <1>1, SendingFacts
<1>4. /\ batch \in Seq(1..MaxLines) /\ Len(batch) <= Len(lines)
      /\ \A i \in 1..Len(batch) : batch[i] = lines[i]
  BY <1>2, <1>3, BatchIsFirsts
<1>5. server \in [Sessions -> Seq(1..MaxLines)] /\ server[s] \in Seq(1..MaxLines)
  BY <1>3 DEF Types, RecordOK
<1>6. PICK new : new = server[s] \o batch
  OBVIOUS
<1>7. /\ new \in Seq(1..MaxLines) /\ Len(new) = Len(server[s]) + Len(batch)
      /\ \A i \in 1..Len(server[s]) : new[i] = server[s][i]
      /\ \A i \in 1..Len(batch) : new[Len(server[s]) + i] = batch[i]
  BY <1>4, <1>5, <1>6, Joined
<1>8. server' = [server EXCEPT ![s] = new]
  BY <1>1, <1>2, <1>6
<1>9. ASSUME NEW t \in Whole PROVE ServerHonest(t)'
  <2>0. ServerHonest(t) /\ t \in Sessions
    BY DEF IInv, Honest, Whole
  <2>1. CASE t # s
    BY <1>5, <1>8, <2>0, <2>1 DEF ServerHonest
  <2>2. CASE t = s
    <3>1. Sending(pass[p], s)
      BY <1>1, <2>2, SendingFacts
    <3>2. Len(server[s]) = c.lines /\ record[s] \in Seq(1..MaxLines)
      BY <1>1, <1>3 DEF Follows, Types, RecordOK
    <3>3. /\ c.lines + Len(lines) <= Len(record[s])
          /\ \A i \in 1..Len(lines) : lines[i] = record[s][c.lines + i]
      BY <1>1, <3>1 DEF Sending
    <3>4. Len(new) <= Len(record[s])
      BY <1>3, <1>4, <1>7, <3>2, <3>3
    <3>5. ASSUME NEW i \in 1..Len(new) PROVE new[i] = record[s][i]
      <4>1. CASE i <= Len(server[s])
        BY <1>7, <2>0, <2>2, <4>1, <3>2, <1>3 DEF ServerHonest
      <4>2. CASE i > Len(server[s])
        <5>1. PICK j \in 1..Len(batch) : i = Len(server[s]) + j
          <6>1. i - Len(server[s]) \in 1..Len(batch)
            BY <1>3, <1>4, <1>7, <3>2, <4>2
          <6> QED
            BY <1>3, <3>2, <6>1
        <5>2. j \in 1..Len(lines)
          BY <1>3, <1>4, <5>1
        <5> QED
          BY <1>4, <1>7, <3>2, <3>3, <5>1, <5>2
      <4> QED
        BY <4>1, <4>2, <3>2, <1>3
    <3>6. server'[s] = new
      BY <1>3, <1>5, <1>8
    <3> QED
      BY <2>2, <3>4, <3>5, <3>6 DEF ServerHonest
  <2> QED
    BY <2>1, <2>2
<1> QED
  BY <1>5, <1>7, <1>8, <1>9

LEMMA SendLostStep ==
  ASSUME IInv, NEW p \in Procs, SendLost(p)
  PROVE  IInv'
<1>1. PICK s, c : s = pass[p].s /\ c = pass[p].st.sessions[s]
  OBVIOUS
<1>2. pass[p].pc = "send"
  BY DEF SendLost
<1>3. Types /\ s \in Sessions /\ c \in GoodCursors /\ (s \in Whole => Named(c, s))
  BY <1>1, <1>2, SendingFacts DEF States, StateHonest
<1>4. /\ UNCHANGED <<record, pruned, cut, made, older, told, file, lock>>
      /\ faults' \in 0..MaxFaults /\ Continue(p, s, c, TRUE, <<>>)
  BY <1>1, FaultCounts DEF SendLost
<1>5. server' \in [Sessions -> Seq(1..MaxLines)] /\ \A t \in Whole : ServerHonest(t)'
  <2>1. CASE server' = server
    BY <1>3, <1>4, <2>1 DEF IInv, Types, RecordOK, Honest, ServerHonest
  <2>2. CASE /\ Follows(pass[p].s, pass[p].c)
             /\ server' = [server EXCEPT ![pass[p].s] = @ \o Batch(pass[p].lines)]
    BY <1>2, <1>4, <2>2, ServerTakes
  <2> QED
    BY <2>1, <2>2 DEF SendLost
<1>6. <<>> \in Seq(Events) /\ (\A e \in ToSet(<<>>) : e.session = s) /\ Event("diverged", s) \notin ToSet(<<>>)
  BY NoEvents
<1> QED
  BY <1>2, <1>3, <1>4, <1>5, <1>6, ContinueKeeps

LEMMA SendTakenStep ==
  ASSUME IInv, NEW p \in Procs, SendTaken(p)
  PROVE  IInv'
<1>1. PICK s, c, lines, batch :
        s = pass[p].s /\ c = pass[p].c /\ lines = pass[p].lines /\ batch = Batch(pass[p].lines)
  OBVIOUS
<1>2. PICK moved, rest : /\ moved = [c EXCEPT !.lines = c.lines + Len(batch), !.hash = Last(batch)]
                         /\ rest = From(lines, Len(batch))
  OBVIOUS
<1>3. /\ pass[p].pc = "send" /\ batch # <<>> /\ Follows(s, c)
      /\ server' = [server EXCEPT ![s] = @ \o batch]
      /\ UNCHANGED <<record, pruned, cut, made, older, told, file, lock, faults>>
  BY <1>1 DEF SendTaken
<1>4. \/ Continue(p, s, moved, FALSE, <<>>)
      \/ pass' = [pass EXCEPT ![p] = [pass[p] EXCEPT !.c = moved, !.lines = rest, !.st.sessions[s] = moved]]
  BY <1>1, <1>2 DEF SendTaken
<1>5. /\ Types /\ pass[p] \in Passes /\ lock = p /\ s \in Sessions /\ c \in GoodCursors
      /\ pass[p].st \in States /\ lines \in Seq(1..MaxLines)
      /\ c.lines \in Nat /\ c.lines + Len(lines) <= MaxLines
      /\ s \in Whole => Sending(pass[p], s) /\ StateHonest(pass[p].st, s)
  BY <1>1, <1>3, SendingFacts
<1>6. /\ batch \in Seq(1..MaxLines) /\ Len(batch) <= Len(lines) /\ Len(batch) > 0
      /\ \A i \in 1..Len(batch) : batch[i] = lines[i]
  BY <1>1, <1>3, <1>5, BatchIsFirsts
<1>7. /\ rest \in Seq(1..MaxLines) /\ Len(rest) = Len(lines) - Len(batch)
      /\ \A i \in 1..(Len(lines) - Len(batch)) : rest[i] = lines[Len(batch) + i]
  <2>1. Len(batch) \in 0..Len(lines)
    BY <1>5, <1>6
  <2> QED
    BY <1>2, <1>5, <2>1, Rests
<1>8. Last(batch) \in 1..MaxLines /\ Last(batch) = lines[Len(batch)]
  <2>1. Last(batch) \in 1..MaxLines /\ Last(batch) = batch[Len(batch)] /\ Len(batch) \in 1..Len(batch)
    BY <1>6, LastIsOne
  <2> QED
    BY <1>6, <2>1
<1>9. moved \in GoodCursors /\ moved.lines = c.lines + Len(batch) /\ moved.hash = lines[Len(batch)]
  <2>1. c.lines + Len(batch) \in 1..MaxLines
    BY <1>5, <1>6, BoundsAssumption
  <2>2. c \in Cursors
    BY <1>5 DEF GoodCursors
  <2>3. moved \in Cursors /\ moved.lines = c.lines + Len(batch) /\ moved.hash = Last(batch)
    <3>1. c.lines + Len(batch) \in 0..MaxLines /\ Last(batch) \in 0..MaxLines
      BY <1>8, <2>1, BoundsAssumption
    <3> QED
      BY <1>2, <2>2, <3>1 DEF Cursors
  <2> QED
    BY <1>8, <2>1, <2>3, BoundsAssumption DEF GoodCursors
<1>10. ASSUME s \in Whole
       PROVE  /\ Named(moved, s)
              /\ moved.lines + Len(rest) <= Len(record[s])
              /\ \A i \in 1..Len(rest) : rest[i] = record[s][moved.lines + i]
  <2>1. /\ c.lines + Len(lines) <= Len(record[s])
        /\ \A i \in 1..Len(lines) : lines[i] = record[s][c.lines + i]
    BY <1>1, <1>5, <1>10 DEF Sending
  <2>2. record[s] \in Seq(1..MaxLines)
    BY <1>5 DEF Types, RecordOK
  <2>3. lines[Len(batch)] = record[s][c.lines + Len(batch)]
    BY <1>5, <1>6, <2>1
  <2>4. Named(moved, s)
    BY <1>5, <1>6, <1>9, <2>1, <2>2, <2>3 DEF Named, Holds, At
  <2>5. moved.lines + Len(rest) <= Len(record[s])
    BY <1>5, <1>6, <1>7, <1>9, <2>1, <2>2
  <2>6. ASSUME NEW i \in 1..Len(rest) PROVE rest[i] = record[s][moved.lines + i]
    <3>1. i \in 1..(Len(lines) - Len(batch)) /\ Len(batch) + i \in 1..Len(lines)
      BY <1>5, <1>6, <1>7
    <3>2. rest[i] = record[s][c.lines + (Len(batch) + i)]
      BY <1>7, <2>1, <3>1
    <3>3. c.lines + (Len(batch) + i) = moved.lines + i
      BY <1>5, <1>6, <1>9
    <3> QED
      BY <3>2, <3>3
  <2> QED
    BY <2>4, <2>5, <2>6
<1>11. server' \in [Sessions -> Seq(1..MaxLines)] /\ \A t \in Whole : ServerHonest(t)'
  BY <1>1, <1>3, ServerTakes
<1>12. faults' \in 0..MaxFaults
  BY <1>3, FaultCounts
<1>13. CASE Continue(p, s, moved, FALSE, <<>>)
  <2>1. <<>> \in Seq(Events) /\ (\A e \in ToSet(<<>>) : e.session = s) /\ Event("diverged", s) \notin ToSet(<<>>)
    BY NoEvents
  <2>2. s \in Whole => Named(moved, s) /\ Event("diverged", s) \notin ToSet(<<>>)
    BY <1>10, <2>1
  <2>3. /\ pass[p].pc # "rest" /\ moved \in GoodCursors /\ s \in Sessions /\ FALSE \in BOOLEAN
        /\ UNCHANGED <<record, pruned, cut, made, older, told, file, lock>>
    BY <1>3, <1>5, <1>9
  <2> QED
    BY <1>11, <1>12, <1>13, <2>1, <2>2, <2>3, ContinueKeeps
<1>14. CASE pass' = [pass EXCEPT ![p] = [pass[p] EXCEPT !.c = moved, !.lines = rest, !.st.sessions[s] = moved]]
  <2>1. PICK st : st = [pass[p].st EXCEPT !.sessions[s] = moved]
    OBVIOUS
  <2>2. /\ st \in States /\ st.events = pass[p].st.events /\ st.sessions[s] = moved
        /\ \A t \in Sessions \ {s} : st.sessions[t] = pass[p].st.sessions[t]
    BY <1>5, <1>9, <2>1 DEF States
  <2>3. PICK r : r = [pass[p] EXCEPT !.c = moved, !.lines = rest, !.st = st]
    OBVIOUS
  <2>4. /\ r \in Passes /\ r.pc = "send" /\ r.s = s /\ r.c = moved /\ r.lines = rest /\ r.st = st
    BY <1>1, <1>3, <1>5, <1>7, <1>9, <2>2, <2>3 DEF Passes
  <2>5. pass' = [pass EXCEPT ![p] = r]
    BY <1>5, <1>14, <2>1, <2>3 DEF Passes
  <2>6. PassOK(r)
    <3>1. c.lines + Len(lines) <= made
      BY <1>1, <1>3 DEF IInv, Types, PassOK
    <3>2. moved.lines + Len(rest) = c.lines + Len(lines)
      BY <1>5, <1>6, <1>7, <1>9
    <3> QED
      BY <1>5, <2>4, <3>1, <3>2 DEF PassOK
  <2>7. ASSUME NEW t \in Whole PROVE PassHonest(r, t)
    <3>0. StateHonest(pass[p].st, t) /\ t \in Sessions
      BY DEF IInv, Honest, PassHonest, Whole
    <3>1. CASE t = s
      BY <1>10, <2>2, <2>4, <3>0, <3>1 DEF PassHonest, StateHonest, Sending, Noted
    <3>2. CASE t # s
      BY <2>2, <2>4, <3>0, <3>2 DEF PassHonest, StateHonest, Noted
    <3> QED
      BY <3>1, <3>2
  <2>8. /\ \A t \in Whole : StateHonest(file', t) /\ Event("diverged", t) \notin told'
        /\ file' \in States /\ told' \subseteq Events
    BY <1>3, <1>5 DEF IInv, Types, Honest
  <2> QED
    BY <1>3, <1>5, <1>11, <1>12, <2>4, <2>5, <2>6, <2>7, <2>8, PassMoves
<1> QED
  BY <1>4, <1>13, <1>14

LEMMA SendConflictsStep ==
  ASSUME IInv, NEW p \in Procs, SendConflicts(p)
  PROVE  IInv'
<1>1. PICK s, c, n, hash :
        s = pass[p].s /\ c = pass[p].c /\ n = Len(server[s]) /\ hash = At(server[s], n)
  OBVIOUS
<1>2. PICK moved, rest : moved = [c EXCEPT !.lines = n, !.hash = hash] /\ rest = From(record[s], n)
  OBVIOUS
<1>3. /\ pass[p].pc = "send"
      /\ UNCHANGED <<record, pruned, cut, made, server, older, told, file, lock, faults>>
  BY DEF SendConflicts
<1>4. \/ ~Holds(record[s], n, hash) /\ Continue(p, s, Blocked(c), FALSE, <<Event("diverged", s)>>)
      \/ Continue(p, s, pass[p].st.sessions[s], TRUE, <<>>)
      \/ Holds(record[s], n, hash) /\ Continue(p, s, moved, FALSE, <<>>)
      \/ /\ Holds(record[s], n, hash)
         /\ pass' = [pass EXCEPT ![p] = [pass[p] EXCEPT !.c = moved, !.lines = rest, !.moves = pass[p].moves + 1]]
  BY <1>1, <1>2 DEF SendConflicts
<1>5. /\ Types /\ pass[p] \in Passes /\ lock = p /\ s \in Sessions /\ c \in GoodCursors
      /\ pass[p].st \in States
      /\ s \in Whole => StateHonest(pass[p].st, s)
  BY <1>1, <1>3, SendingFacts
<1>6. /\ record[s] \in Seq(1..MaxLines) /\ server[s] \in Seq(1..MaxLines) /\ Len(record[s]) <= made
      /\ made \in 0..MaxLines /\ n \in Nat
  BY <1>1, <1>5 DEF Types, RecordOK
<1>7. s \in Whole => Holds(record[s], n, hash)
  <2> SUFFICES ASSUME s \in Whole PROVE Holds(record[s], n, hash)
    OBVIOUS
  <2>1. ServerHonest(s)
    BY DEF IInv, Honest
  <2> QED
    BY <1>1, <1>6, <2>1 DEF ServerHonest, Holds, At
<1>8. ASSUME Holds(record[s], n, hash)
      PROVE  moved \in GoodCursors /\ moved.lines = n /\ moved.hash = hash /\ Named(moved, s)
  <2>1. n \in 0..MaxLines
    BY <1>6, <1>8, BoundsAssumption DEF Holds
  <2>2. hash \in 0..MaxLines /\ (n = 0 <=> hash = 0)
    <3>1. CASE n = 0
      BY <1>1, <2>1, <3>1, BoundsAssumption DEF At
    <3>2. CASE n # 0
      <4>1. n \in 1..Len(server[s])
        BY <1>1, <1>6, <3>2
      <4>2. hash \in 1..MaxLines
        BY <1>1, <1>6, <3>2, <4>1, OneOfSeq DEF At
      <4> QED
        BY <3>2, <4>2, BoundsAssumption
    <3> QED
      BY <3>1, <3>2
  <2>3. c \in Cursors
    BY <1>5 DEF GoodCursors
  <2>4. moved \in Cursors /\ moved.lines = n /\ moved.hash = hash
    BY <1>2, <2>1, <2>2, <2>3 DEF Cursors
  <2>5. moved \in GoodCursors
    BY <2>2, <2>4 DEF GoodCursors
  <2> QED
    BY <1>8, <2>4, <2>5 DEF Named
<1>9. faults' \in 0..MaxFaults
  BY <1>3, FaultCounts
<1>10. <<>> \in Seq(Events) /\ (\A e \in ToSet(<<>>) : e.session = s) /\ Event("diverged", s) \notin ToSet(<<>>)
  BY NoEvents
<1>11. /\ pass[p].pc # "rest" /\ s \in Sessions
       /\ UNCHANGED <<record, pruned, cut, made, server, older, told, file, lock>>
  BY <1>3, <1>5
<1>12. CASE ~Holds(record[s], n, hash) /\ Continue(p, s, Blocked(c), FALSE, <<Event("diverged", s)>>)
  <2>1. s \notin Whole
    BY <1>7, <1>12
  <2>2. Blocked(c) \in GoodCursors
    BY <1>5, BlockedIsGood
  <2>3. <<Event("diverged", s)>> \in Seq(Events) /\ \A e \in ToSet(<<Event("diverged", s)>>) : e.session = s
    BY <1>5, OneEvent
  <2> QED
    BY <1>9, <1>11, <1>12, <2>1, <2>2, <2>3, ContinueAlone
<1>13. CASE Continue(p, s, pass[p].st.sessions[s], TRUE, <<>>)
  <2>1. pass[p].st.sessions[s] \in GoodCursors /\ (s \in Whole => Named(pass[p].st.sessions[s], s))
    BY <1>5 DEF States, StateHonest
  <2> QED
    BY <1>9, <1>10, <1>11, <1>13, <2>1, ContinueAlone
<1>14. CASE Holds(record[s], n, hash) /\ Continue(p, s, moved, FALSE, <<>>)
  <2>1. moved \in GoodCursors /\ Named(moved, s)
    BY <1>8, <1>14
  <2> QED
    BY <1>9, <1>10, <1>11, <1>14, <2>1, ContinueAlone
<1>15. CASE /\ Holds(record[s], n, hash)
            /\ pass' = [pass EXCEPT ![p] = [pass[p] EXCEPT !.c = moved, !.lines = rest, !.moves = pass[p].moves + 1]]
  <2>1. PICK r : r = [pass[p] EXCEPT !.c = moved, !.lines = rest, !.moves = pass[p].moves + 1]
    OBVIOUS
  <2>2. n \in 0..Len(record[s])
    BY <1>6, <1>15 DEF Holds
  <2>3. /\ rest \in Seq(1..MaxLines) /\ Len(rest) = Len(record[s]) - n
        /\ \A i \in 1..(Len(record[s]) - n) : rest[i] = record[s][n + i]
    BY <1>2, <1>6, <2>2, Rests
  <2>4. moved \in GoodCursors /\ moved.lines = n /\ Named(moved, s)
    BY <1>8, <1>15
  <2>5. /\ r \in Passes /\ r.pc = "send" /\ r.s = s /\ r.c = moved /\ r.lines = rest
        /\ r.st = pass[p].st
    <3>1. pass[p].moves + 1 \in Nat
      BY <1>5 DEF Passes
    <3> QED
      BY <1>1, <1>3, <1>5, <2>1, <2>3, <2>4, <3>1 DEF Passes
  <2>6. PassOK(r)
    BY <1>5, <1>6, <2>3, <2>4, <2>5 DEF PassOK
  <2>7. Sending(r, s)
    <3>1. \A i \in 1..Len(rest) : rest[i] = record[s][n + i]
      BY <2>3
    <3>2. n + Len(rest) <= Len(record[s])
      BY <1>6, <2>3
    <3> QED
      BY <2>4, <2>5, <3>1, <3>2 DEF Sending
  <2>8. ASSUME NEW t \in Whole
        PROVE  /\ PassHonest(r, t) /\ ServerHonest(t)'
               /\ StateHonest(file', t) /\ Event("diverged", t) \notin told'
    BY <1>3, <2>5, <2>7 DEF IInv, Honest, PassHonest, ServerHonest
  <2>9. /\ server' \in [Sessions -> Seq(1..MaxLines)]
        /\ file' \in States /\ told' \subseteq Events
    BY <1>3, <1>5 DEF Types, RecordOK
  <2>10. pass' = [pass EXCEPT ![p] = r]
    BY <1>15, <2>1
  <2> QED
    BY <1>3, <1>5, <1>9, <2>5, <2>6, <2>8, <2>9, <2>10, PassMoves
<1> QED
  BY <1>4, <1>12, <1>13, <1>14, <1>15

LEMMA PassSavesStep ==
  ASSUME IInv, NEW p \in Procs, PassSaves(p)
  PROVE  IInv'
<1> DEFINE closed(events) == [eventLocked(pass[p].st, events) EXCEPT !.sessions =
             [s \in Sessions |-> IF s \in pass[p].gone THEN NoCursor
                                 ELSE eventLocked(pass[p].st, events).sessions[s]]]
<1>a. PICK events \in SetToSeqs({Event("gap", s) : s \in {g \in pass[p].gone : Gap(pass[p].st.sessions[g])}}) :
        /\ file' = closed(events) \/ file' = file
        /\ pass' = [pass EXCEPT ![p].st = closed(events), ![p].pc = "report"]
  BY DEF PassSaves
<1>1. PICK st, gaps : /\ st = pass[p].st
                      /\ gaps = {Event("gap", s) : s \in {g \in pass[p].gone : Gap(st.sessions[g])}}
  OBVIOUS
<1>2. PICK sessions : sessions = [s \in Sessions |-> IF s \in pass[p].gone THEN NoCursor ELSE st.sessions[s]]
  OBVIOUS
<1>b. PICK log : log = eventLocked(st, events)
  OBVIOUS
<1>3. PICK kept : kept = [log EXCEPT !.sessions = sessions]
  OBVIOUS
<1>4. Types /\ pass[p] \in Passes /\ lock = p /\ pass[p].pc = "next"
  BY DEF IInv, Types, PassSaves
<1>5. st \in States /\ pass[p].gone \subseteq Sessions
  BY <1>1, <1>4 DEF Passes
<1>6. gaps \subseteq Events /\ \A s \in Sessions : Event("diverged", s) \notin gaps
  <2>1. \A e \in gaps : \E s \in Sessions : e = Event("gap", s)
    BY <1>1, <1>5
  <2>2. \A s \in Sessions : Event("gap", s) \in Events /\ Event("gap", s).kind = "gap"
    BY DEF Event, Events
  <2>3. \A s : Event("diverged", s).kind = "diverged"
    BY DEF Event
  <2> QED
    BY <2>1, <2>2, <2>3
<1>7. NoCursor \in GoodCursors
  BY RestingIsGood
<1>c. events \in Seq(Events) /\ ToSet(events) \subseteq gaps
  <2>1. IsFiniteSet(gaps)
    <3>1. PICK S : S = {g \in pass[p].gone : Gap(st.sessions[g])}
      OBVIOUS
    <3>2. IsFiniteSet(S)
      BY <1>5, <3>1, LogAssumption, FS_Subset
    <3>a. PICK f : f = [s \in S |-> Event("gap", s)]
      OBVIOUS
    <3>b. f \in Surjection(S, {Event("gap", s) : s \in S})
      BY <3>a DEF Surjection
    <3>3. IsFiniteSet({Event("gap", s) : s \in S})
      BY <3>2, <3>b, FS_Surjection
    <3> QED
      BY <1>1, <3>1, <3>3
  <2>2. Cardinality(gaps) \in Nat
    BY <2>1, FS_CardinalityType
  <2>3. events \in [1..Cardinality(gaps) -> gaps]
    BY <1>1, <1>a DEF SetToSeqs
  <2>4. events \in [1..Cardinality(gaps) -> Events] /\ DOMAIN events = 1..Cardinality(gaps)
    BY <1>6, <2>3
  <2>5. events \in Seq(Events)
    BY <2>2, <2>4
  <2>6. ToSet(events) \subseteq gaps
    BY <2>3, <2>4 DEF ToSet
  <2> QED
    BY <2>5, <2>6
<1>d. /\ log \in States /\ log.sessions = st.sessions
      /\ Noted(log) \subseteq Noted(st) \cup ToSet(events)
  BY <1>5, <1>b, <1>c, LogKeeps
<1>8. /\ kept \in States /\ kept.events = log.events
      /\ \A s \in Sessions : kept.sessions[s] \in {NoCursor, st.sessions[s]}
  BY <1>2, <1>3, <1>5, <1>7, <1>d DEF States
<1>e. Noted(kept) \subseteq Noted(st) \cup gaps
  BY <1>8, <1>c, <1>d DEF Noted
<1>9. PICK r : r = [pass[p] EXCEPT !.st = kept, !.pc = "report"]
  OBVIOUS
<1>10. r \in Passes /\ r.pc = "report" /\ r.st = kept
  BY <1>4, <1>8, <1>9 DEF Passes
<1>11. PassOK(r)
  BY <1>10 DEF PassOK
<1>12. pass' = [pass EXCEPT ![p] = r] /\ (file' = kept \/ file' = file)
  <2>1. kept = closed(events)
    BY <1>1, <1>2, <1>3, <1>b, <1>d
  <2> QED
    BY <1>9, <1>a, <2>1
<1>13. ASSUME NEW s \in Whole PROVE StateHonest(kept, s)
  <2>1. StateHonest(st, s) /\ s \in Sessions
    BY <1>1 DEF IInv, Honest, PassHonest, Whole
  <2>2. Named(NoCursor, s)
    BY <1>4, <2>1, RestingIsGood DEF Types, RecordOK, StateHonest, NoState
  <2> QED
    BY <1>6, <1>8, <1>e, <2>1, <2>2 DEF StateHonest
<1>14. /\ UNCHANGED <<record, pruned, cut, made, server, older, told, lock>>
       /\ faults' \in 0..MaxFaults
  BY FaultCounts DEF PassSaves, Works
<1>15. \A s \in Whole : /\ PassHonest(r, s) /\ ServerHonest(s)'
                        /\ StateHonest(file', s) /\ Event("diverged", s) \notin told'
  BY <1>10, <1>12, <1>13, <1>14 DEF IInv, Honest, PassHonest, ServerHonest
<1>16. /\ server' \in [Sessions -> Seq(1..MaxLines)]
       /\ file' \in States /\ told' \subseteq Events
  BY <1>4, <1>8, <1>12, <1>14 DEF Types, RecordOK
<1> QED
  BY <1>4, <1>10, <1>11, <1>12, <1>14, <1>15, <1>16, PassMoves

(* A pass that ends, whatever was told and saved of its events.            *)
LEMMA PassEnds ==
  ASSUME IInv, NEW p \in Procs, pass[p].pc # "rest", pass' = [pass EXCEPT ![p] = Resting], lock' = Free,
         UNCHANGED <<record, pruned, cut, made, server, older>>, faults' \in 0..MaxFaults,
         file' = file \/ file' = marked(pass[p].st),
         told' \subseteq told \cup unsent(pass[p].st)
  PROVE  IInv'
<1>1. Types /\ pass[p] \in Passes /\ lock = p
  BY DEF IInv, Types
<1>2. PICK st, sent : st = pass[p].st /\ sent = marked(st)
  OBVIOUS
<1>3. /\ st \in States /\ sent \in States /\ sent.sessions = st.sessions
      /\ Noted(sent) = Noted(st) /\ unsent(st) \subseteq Noted(st) /\ Noted(st) \subseteq Events
  <2>1. st \in States
    BY <1>1, <1>2 DEF Passes
  <2> QED
    BY <1>2, <2>1, MarkedKeeps
<1>4. ASSUME NEW s \in Whole
      PROVE  /\ PassHonest(Resting, s) /\ ServerHonest(s)'
             /\ StateHonest(file', s) /\ Event("diverged", s) \notin told'
  <2>1. Honest(s) /\ StateHonest(st, s) /\ s \in Sessions
    BY <1>2 DEF IInv, Honest, PassHonest, Whole
  <2>2. StateHonest(sent, s)
    BY <1>3, <2>1 DEF StateHonest
  <2>3. StateHonest(file', s)
    BY <1>2, <2>1, <2>2 DEF Honest
  <2>4. PassHonest(Resting, s)
    BY <1>1, <2>1, RestingIsGood DEF Types, RecordOK
  <2> QED
    BY <1>2, <1>3, <2>1, <2>3, <2>4 DEF Honest, StateHonest, ServerHonest
<1>5. /\ server' \in [Sessions -> Seq(1..MaxLines)]
      /\ file' \in States /\ told' \subseteq Events
  BY <1>1, <1>2, <1>3 DEF Types, RecordOK
<1>6. PassOK(Resting) /\ Resting.pc = "rest"
  BY RestingIsGood DEF Resting
<1> QED
  BY <1>1, <1>4, <1>5, <1>6, PassMoves

LEMMA PassReportsStep ==
  ASSUME IInv, NEW p \in Procs, PassReports(p) \/ Crash(p)
  PROVE  IInv'
<1>1. CASE PassReports(p)
  <2>1. /\ file' = file \/ file' = marked(pass[p].st)
        /\ told' \subseteq told \cup unsent(pass[p].st)
    BY <1>1 DEF PassReports
  <2>2. /\ pass[p].pc # "rest" /\ pass' = [pass EXCEPT ![p] = Resting] /\ lock' = Free
        /\ UNCHANGED <<record, pruned, cut, made, server, older>> /\ faults' \in 0..MaxFaults
    BY <1>1, FaultCounts DEF PassReports, Works
  <2> QED
    BY <2>1, <2>2, PassEnds
<1>2. CASE Crash(p)
  BY <1>2, PassEnds, FaultCounts DEF Crash
<1> QED
  BY <1>1, <1>2

(* A record that only grew still holds every place it held.                *)
LEMMA GrownHolds ==
  ASSUME NEW s \in Sessions, Honest(s), Types,
         record'[s] \in Seq(1..MaxLines), Len(record[s]) <= Len(record'[s]),
         \A i \in 1..Len(record[s]) : record'[s][i] = record[s][i],
         UNCHANGED <<server, told, file, pass>>
  PROVE  Honest(s)'
<1>0. /\ record[s] \in Seq(1..MaxLines) /\ server[s] \in Seq(1..MaxLines)
      /\ Len(record[s]) \in Nat /\ Len(record'[s]) \in Nat
  BY DEF Types, RecordOK
<1>1. ASSUME NEW c \in GoodCursors, Named(c, s) PROVE Named(c, s)'
  <2>1. c.lines \in Nat
    BY BoundsAssumption DEF GoodCursors, Cursors
  <2> QED
    BY <1>0, <1>1, <2>1 DEF Named, Holds, At
<1>2. ASSUME NEW st \in States, StateHonest(st, s) PROVE StateHonest(st, s)'
  <2>1. st.sessions[s] \in GoodCursors
    BY DEF States
  <2> QED
    BY <1>1, <1>2, <2>1 DEF StateHonest
<1>3. ASSUME NEW p \in Procs PROVE PassHonest(pass[p], s)'
  <2>1. PassHonest(pass[p], s) /\ PassOK(pass[p]) /\ pass[p] \in Passes /\ pass' = pass
    BY DEF Honest, Types
  <2>2. PICK r : r = pass[p]
    OBVIOUS
  <2>3. PassHonest(r, s) /\ r.st \in States /\ r.c \in GoodCursors /\ r.lines \in Seq(1..MaxLines)
    BY <2>1, <2>2 DEF Passes
  <2>4. StateHonest(r.st, s)'
    BY <1>2, <2>3 DEF PassHonest
  <2>5. ASSUME Sending(r, s) PROVE Sending(r, s)'
    <3>1. Named(r.c, s)'
      BY <1>1, <2>3, <2>5 DEF Sending
    <3>2. r.c.lines \in Nat /\ Len(r.lines) \in Nat
      BY <2>3, BoundsAssumption DEF GoodCursors, Cursors
    <3>3. r.c.lines + Len(r.lines) <= Len(record'[s])
      BY <1>0, <2>5, <3>2 DEF Sending
    <3>4. ASSUME NEW i \in 1..Len(r.lines) PROVE r.lines[i] = record'[s][r.c.lines + i]
      <4>1. r.c.lines + i \in 1..Len(record[s])
        BY <1>0, <2>5, <3>2 DEF Sending
      <4> QED
        BY <2>5, <4>1 DEF Sending
    <3> QED
      BY <3>1, <3>3, <3>4 DEF Sending
  <2>6. PassHonest(r, s)'
    BY <2>3, <2>4, <2>5 DEF PassHonest
  <2> QED
    BY <2>1, <2>2, <2>6
<1>4. ServerHonest(s)'
  <2>1. Len(server[s]) <= Len(record'[s])
    BY <1>0 DEF Honest, ServerHonest
  <2>2. \A i \in 1..Len(server[s]) : server[s][i] = record'[s][i]
    BY <1>0 DEF Honest, ServerHonest
  <2> QED
    BY <2>1, <2>2 DEF ServerHonest
<1>5. StateHonest(file, s)'
  <2>1. file \in States /\ StateHonest(file, s) /\ file' = file
    BY DEF Types, Honest
  <2>2. PICK st \in States : st = file
    BY <2>1
  <2>3. StateHonest(st, s)'
    BY <1>2, <2>1, <2>2
  <2> QED
    BY <2>1, <2>2, <2>3
<1> QED
  BY <1>3, <1>4, <1>5 DEF Honest

LEMMA WrittenStep ==
  ASSUME IInv, NEW s \in Sessions, Written(s)
  PROVE  IInv'
<1>1. Types /\ RecordOK
  BY DEF IInv, Types
<1>2. PICK new : new = Append(record[s], made + 1)
  OBVIOUS
<1>3. made + 1 \in 1..MaxLines /\ record[s] \in Seq(1..MaxLines)
  BY <1>1, BoundsAssumption DEF Written, RecordOK
<1>4. /\ new \in Seq(1..MaxLines) /\ Len(new) = Len(record[s]) + 1
      /\ \A i \in 1..Len(record[s]) : new[i] = record[s][i]
  BY <1>2, <1>3
<1>5. record' = [record EXCEPT ![s] = new] /\ record \in [Sessions -> Seq(1..MaxLines)]
  BY <1>1, <1>2 DEF Written, RecordOK
<1>6. record'[s] = new /\ \A t \in Sessions \ {s} : record'[t] = record[t]
  BY <1>5
<1>7. /\ made' = made + 1 /\ made \in 0..MaxLines /\ made' \in 0..MaxLines
      /\ UNCHANGED <<pruned, cut, server, older, told, file, lock, pass, faults>>
  BY <1>1, <1>3, BoundsAssumption DEF Written, RecordOK
<1>8. \A t \in Sessions : Len(record'[t]) <= made'
  BY <1>1, <1>3, <1>4, <1>6, <1>7 DEF RecordOK
<1>9. RecordOK'
  BY <1>1, <1>4, <1>5, <1>7, <1>8 DEF RecordOK
<1>10. ASSUME NEW p \in Procs PROVE PassOK(pass[p])'
  <2>1. PassOK(pass[p]) /\ pass[p] \in Passes
    BY <1>1 DEF Types
  <2>2. pass[p].c.lines \in Nat /\ Len(pass[p].lines) \in Nat
    <3>1. pass[p].c \in Cursors /\ pass[p].lines \in Seq(1..MaxLines)
      BY <2>1 DEF Passes, GoodCursors
    <3> QED
      BY <3>1, BoundsAssumption DEF Cursors
  <2> QED
    BY <1>7, <2>1, <2>2 DEF PassOK
<1>11. Types'
  BY <1>1, <1>7, <1>9, <1>10 DEF Types
<1>12. ASSUME NEW t \in Whole' PROVE Honest(t)'
  <2>1. t \in Whole /\ t \in Sessions /\ Honest(t)
    BY <1>7 DEF Whole, IInv
  <2>2. /\ record'[t] \in Seq(1..MaxLines) /\ Len(record[t]) <= Len(record'[t])
        /\ \A i \in 1..Len(record[t]) : record'[t][i] = record[t][i]
    <3>1. CASE t = s
      BY <1>3, <1>4, <1>6, <3>1
    <3>2. CASE t # s
      BY <1>5, <1>6, <2>1, <3>2
    <3> QED
      BY <3>1, <3>2
  <2> QED
    BY <1>1, <1>7, <2>1, <2>2, GrownHolds
<1> QED
  BY <1>11, <1>12 DEF IInv

LEMMA PruneStep ==
  ASSUME IInv, NEW s \in Sessions, Prune(s)
  PROVE  IInv'
<1>1. Types /\ RecordOK
  BY DEF IInv, Types
<1>2. /\ pruned' = pruned \cup {s} /\ record' = [record EXCEPT ![s] = <<>>]
      /\ UNCHANGED <<cut, made, server, older, told, file, lock, pass, faults>>
  BY DEF Prune
<1>3. RecordOK'
  BY <1>1, <1>2, BoundsAssumption DEF RecordOK
<1>4. Types'
  BY <1>1, <1>2, <1>3 DEF Types, PassOK
<1>5. ASSUME NEW t \in Whole' PROVE Honest(t)'
  <2>1. t \in Whole /\ t \in Sessions /\ t # s /\ Honest(t)
    BY <1>2 DEF Whole, IInv
  <2>2. record'[t] = record[t] /\ record[t] \in Seq(1..MaxLines)
    BY <1>1, <1>2, <2>1 DEF RecordOK
  <2> QED
    BY <1>1, <1>2, <2>1, <2>2, GrownHolds
<1> QED
  BY <1>4, <1>5 DEF IInv

LEMMA LosesPowerStep ==
  ASSUME IInv, NEW s \in Sessions, LosesPower(s)
  PROVE  IInv'
<1>1. Types /\ RecordOK
  BY DEF IInv, Types
<1>2. /\ cut' = cut \cup {s} /\ lock' = Free /\ pass' = [p \in Procs |-> Resting]
      /\ UNCHANGED <<pruned, made, server, older, told, file>> /\ faults' \in 0..MaxFaults
  BY FaultCounts DEF LosesPower
<1>3. record[s] \in Seq(1..MaxLines) /\ Len(record[s]) <= made /\ made \in Nat
  BY <1>1, BoundsAssumption DEF RecordOK
<1>4. PICK n \in 0..(Len(record[s]) - 1) : record' = [record EXCEPT ![s] = SubSeq(record[s], 1, n)]
  BY DEF LosesPower
<1>5. PICK new : new = SubSeq(record[s], 1, n)
  OBVIOUS
<1>6. n \in 0..Len(record[s])
  BY <1>3, <1>4
<1>7. new \in Seq(1..MaxLines) /\ Len(new) <= made
  <2>1. new \in Seq(1..MaxLines) /\ Len(new) = n
    BY <1>3, <1>5, <1>6, Firsts
  <2> QED
    BY <1>3, <1>6, <2>1
<1>8. record' = [record EXCEPT ![s] = new]
  BY <1>4, <1>5
<1>9. RecordOK'
  BY <1>1, <1>2, <1>7, <1>8 DEF RecordOK
<1>10. \A p \in Procs : pass'[p] = Resting /\ pass'[p].pc = "rest"
  BY <1>2 DEF Resting
<1>11. Types'
  <2>1. pass' \in [Procs -> Passes]
    BY <1>2, RestingIsGood
  <2>2. \A p \in Procs : PassOK(pass[p])'
    BY <1>10, RestingIsGood DEF PassOK
  <2> QED
    BY <1>1, <1>2, <1>9, <1>10, <2>1, <2>2 DEF Types
<1>12. ASSUME NEW t \in Whole' PROVE Honest(t)'
  <2>1. t \in Whole /\ t \in Sessions /\ t # s /\ Honest(t)
    BY <1>2 DEF Whole, IInv
  <2>2. record'[t] = record[t] /\ record[t] \in Seq(1..MaxLines)
    BY <1>1, <1>8, <2>1 DEF RecordOK
  <2>3. StateHonest(file, t)' /\ ServerHonest(t)' /\ Event("diverged", t) \notin told'
    BY <1>2, <2>1, <2>2 DEF Honest, StateHonest, ServerHonest, Named
  <2>4. PassHonest(Resting, t)
    BY <2>1, <2>2, RestingIsGood
  <2>5. \A p \in Procs : PassHonest(pass[p], t)'
    BY <1>10, <2>2, <2>4 DEF PassHonest, StateHonest, Named, Resting
  <2> QED
    BY <2>3, <2>5 DEF Honest
<1> QED
  BY <1>11, <1>12 DEF IInv

LEMMA ServerRestoredStep ==
  ASSUME IInv, NEW s \in Sessions, ServerRestored(s)
  PROVE  IInv'
<1>1. Types /\ RecordOK
  BY DEF IInv, Types
<1>2. /\ server' = [server EXCEPT ![s] = Front(server[s])] /\ older' = older \cup {s}
      /\ UNCHANGED <<record, pruned, cut, made, told, file, lock, pass>>
      /\ faults' \in 0..MaxFaults /\ server[s] # <<>>
  BY FaultCounts DEF ServerRestored
<1>3. server[s] \in Seq(1..MaxLines) /\ server \in [Sessions -> Seq(1..MaxLines)]
  BY <1>1 DEF RecordOK
<1>4. PICK n \in 0..Len(server[s]) : Front(server[s]) = SubSeq(server[s], 1, n)
  <2>1. Len(server[s]) - 1 \in 0..Len(server[s])
    BY <1>2, <1>3
  <2> QED
    BY <2>1 DEF Front
<1>5. PICK new : new = Front(server[s])
  OBVIOUS
<1>6. new \in Seq(1..MaxLines) /\ Len(new) <= Len(server[s]) /\ \A i \in 1..Len(new) : new[i] = server[s][i]
  <2>1. new \in Seq(1..MaxLines) /\ Len(new) = n /\ \A i \in 1..n : new[i] = server[s][i]
    <3>1. PICK q \in Seq(1..MaxLines) : q = server[s]
      BY <1>3
    <3>2. /\ SubSeq(q, 1, n) \in Seq(1..MaxLines) /\ Len(SubSeq(q, 1, n)) = n
          /\ \A i \in 1..n : SubSeq(q, 1, n)[i] = q[i]
      BY <1>4, <3>1, Firsts
    <3>3. new = SubSeq(q, 1, n)
      BY <1>4, <1>5, <3>1
    <3> QED
      BY <3>1, <3>2, <3>3
  <2> QED
    BY <1>3, <1>4, <2>1
<1>7. server' = [server EXCEPT ![s] = new]
  BY <1>2, <1>5
<1>8. RecordOK'
  BY <1>1, <1>2, <1>6, <1>7 DEF RecordOK
<1>9. Types'
  BY <1>1, <1>2, <1>8 DEF Types, PassOK
<1>10. ASSUME NEW t \in Whole' PROVE Honest(t)'
  <2>1. t \in Whole /\ t \in Sessions /\ Honest(t) /\ record[t] \in Seq(1..MaxLines)
    BY <1>1, <1>2 DEF Whole, IInv, RecordOK
  <2>2. ServerHonest(t)'
    <3>1. CASE t = s
      <4>1. server'[t] = new
        BY <1>3, <1>7, <3>1
      <4>2. Len(new) <= Len(record[t])
        BY <1>3, <1>6, <2>1, <3>1 DEF Honest, ServerHonest
      <4>3. \A i \in 1..Len(new) : new[i] = record[t][i]
        BY <1>3, <1>6, <2>1, <3>1 DEF Honest, ServerHonest
      <4> QED
        BY <1>2, <4>1, <4>2, <4>3 DEF ServerHonest
    <3>2. CASE t # s
      BY <1>2, <1>3, <1>7, <2>1, <3>2 DEF Honest, ServerHonest
    <3> QED
      BY <3>1, <3>2
  <2> QED
    BY <1>2, <2>1, <2>2 DEF Honest, StateHonest, PassHonest, Sending, Named
<1> QED
  BY <1>9, <1>10 DEF IInv

LEMMA IInvStutters ==
  ASSUME IInv, UNCHANGED vars
  PROVE  IInv'
<1>1. Types'
  BY DEF vars, IInv, Types, RecordOK, PassOK
<1>2. \A s \in Whole' : Honest(s)'
  BY DEF vars, IInv, Whole, Honest, StateHonest, PassHonest, Sending, Named, ServerHonest
<1> QED
  BY <1>1, <1>2 DEF IInv

LEMMA IInvStep == IInv /\ [Next]_vars => IInv'
<1> SUFFICES ASSUME IInv, [Next]_vars PROVE IInv'
  OBVIOUS
<1>1. ASSUME NEW s \in Sessions, Written(s) \/ Prune(s) \/ LosesPower(s) \/ ServerRestored(s) PROVE IInv'
  BY <1>1, WrittenStep, PruneStep, LosesPowerStep, ServerRestoredStep
<1>2. ASSUME NEW p \in Procs, PassStep(p) PROVE IInv'
  BY <1>2, PassBeginsStep, ShipBeginsStep, ShipBlocksStep, SendTakenStep, SendConflictsStep,
     PassSavesStep, PassReportsStep DEF PassStep
<1>3. ASSUME NEW p \in Procs, SendRefused(p) \/ SendLost(p) \/ Crash(p) PROVE IInv'
  BY <1>3, ShipBlocksStep, SendLostStep, PassReportsStep
<1>4. ASSUME NEW p \in Procs, NEW s \in Sessions, ShipFails(p, s) PROVE IInv'
  BY <1>4, ShipFailsStep
<1> QED
  BY <1>1, <1>2, <1>3, <1>4, IInvStutters DEF Next

THEOREM IInvHolds == Spec => []IInv
BY IInvInit, IInvStep, PTL DEF Spec

(* The types of the shipper's state, that a cursor at no line has no hash  *)
(* and that only the pass under way has the state's lock hold throughout,  *)
(* for any number of processes and sessions.                               *)
THEOREM TypeCorrect == Spec => []TypeOK
<1>1. IInv => TypeOK
  <2> SUFFICES ASSUME IInv PROVE TypeOK
    OBVIOUS
  <2>1. Types /\ RecordOK
    BY DEF IInv, Types
  <2>2. \A p \in Procs : pass[p].pc \in {"rest", "next", "send", "report"} /\ pass[p].c \in Cursors
    BY <2>1 DEF Types, Passes, GoodCursors
  <2>3. /\ file.sessions \in [Sessions -> Cursors]
        /\ file.events \in Logs /\ Len(file.events) <= MaxEvents /\ file.dropped \subseteq Events
        /\ \A s \in Sessions : file.sessions[s].lines = 0 <=> file.sessions[s].hash = 0
    BY <2>1 DEF Types, States, GoodCursors
  <2>4. \A s \in Sessions : {record[s], server[s]} \subseteq Seq(1..MaxLines)
    BY <2>1 DEF RecordOK
  <2> QED
    BY <2>1, <2>2, <2>3, <2>4 DEF TypeOK, Types, RecordOK
<1> QED
  BY <1>1, IInvHolds, PTL

(* However passes fail, die or race with a server that comes back older,   *)
(* a session is called diverged only once its record did lose lines.       *)
THEOREM DivergenceIsReal == Spec => []DivergedIsTrue
<1>1. IInv => DivergedIsTrue
  BY DEF IInv, Honest, StateHonest, Whole, DivergedIsTrue
<1> QED
  BY <1>1, IInvHolds, PTL
=============================================================================
