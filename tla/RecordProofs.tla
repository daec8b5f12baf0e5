---------------------------- MODULE RecordProofs ----------------------------
(***************************************************************************)
(* Proofs about the local record: the types of its state, that what was    *)
(* synced is kept, that a pruned session takes no more lines, and that no  *)
(* crash and no failed call leaves a record that does not verify.          *)
(***************************************************************************)
EXTENDS Record, FiniteSetTheorems, WellFoundedInduction, TLAPS

(***************************************************************************)
(* The inductive invariant.  Every part of it takes the state it speaks of *)
(* as arguments.  A process is away (it has no handle, and at most a prune *)
(* to try), or it has the lock and is loading, holding or pruning.         *)
(***************************************************************************)

Lines == [ev : AnyEvent, prev : Chains]
Files == [here : BOOLEAN, lines : Seq(Lines), tail : Seq(Lines), durable : Nat]
Disks == [file : Files, head : Chains \cup {Free}]
Indexes == [listed : BOOLEAN, pruned : BOOLEAN, ends : SUBSET Chains]
Ops == [pc : {"idle", "repair", "head", "list", "write", "sync", "seal", "track",
              "unlock", "prune", "tomb", "remove"},
        do : {"none", "create", "acquire", "append", "sync", "release", "delete", "prune"},
        ev : Events \cup {NoEvent}, repaired : BOOLEAN, err : BOOLEAN, blind : BOOLEAN]

Typed ==
  /\ disk \in Disks /\ index \in Indexes
  /\ lock \in Procs \cup {Free}
  /\ held \in [Procs -> Handles \cup {Free}] /\ op \in [Procs -> Ops]
  /\ kept \in Chains /\ deleted \in BOOLEAN /\ lost \in BOOLEAN /\ faults \in 0..MaxFaults

(* The steps of a file's lines are at most the callers', and one more for  *)
(* each line; its tail is one line that there is room for.                 *)
Bounded(ls) == \A i \in 1..Len(ls) : ls[i].ev.seq <= Len(KindAt) + i

FileOK(f) ==
  /\ f.durable <= Len(f.lines) /\ Len(f.lines) <= MaxLines /\ Bounded(f.lines)
  /\ f.tail # <<>> =>
       /\ Len(f.tail) = 1 /\ Len(f.lines) < MaxLines
       /\ f.tail[1].ev.seq <= Len(KindAt) + Len(f.lines) + 1
  /\ ~f.here => f.lines = <<>> /\ f.tail = <<>>

(* What was synced is within what is durable.                              *)
KeptOK(f, k) == Len(k) <= f.durable /\ IsPrefix(k, Chain(f.lines))

DiskOK(d, ix, k) ==
  /\ FileOK(d.file)
  /\ ~ix.pruned => KeptOK(d.file, k) /\ (ix.listed => d.head # Free)

(* A line that may follow the ones of a file.                              *)
Follows(l, ls) == l.ev.seq > 0 /\ l.prev = Chain(ls) /\ l.ev.seq \notin Seqs(Chain(ls))

HeadOK(d) ==
  IF d.head = Free THEN d.file.lines = <<>> /\ d.file.tail = <<>>
  ELSE /\ IsPrefix(d.head, Chain(d.file.lines))
       /\ d.head = <<>> =>
            Len(d.file.lines) <= 1 /\ (d.file.tail # <<>> => d.file.lines = <<>>)

HonestOK(d, ix) ==
  /\ verifyLines(d.file.lines) /\ HeadOK(d)
  /\ d.file.tail # <<>> => d.file.tail[1] = Torn \/ Follows(d.file.tail[1], d.file.lines)
  /\ \A e \in ix.ends : IsPrefix(e, Chain(d.file.lines))

Mended(f) ==
  IF f.tail # <<>> /\ f.tail[1].ev # NoEvent /\ f.tail[1].prev = Chain(f.lines)
    THEN f.lines \o f.tail ELSE f.lines

Away(h, o) == h = Free /\ o.pc \in {"idle", "prune"} /\ (o.pc = "idle" => o = Idle)

Asked(o) == o.do = "append" => o.ev \in Events

Loading(d, ix, h, o) ==
  /\ h = Free /\ (~o.blind => ~ix.pruned) /\ d.file.here
  /\ o.do \in {"create", "acquire", "append"} /\ Asked(o)
  /\ o.do = "create" => ~o.repaired
  /\ \/ /\ o.pc = "repair"
        /\ d.file.tail # <<>> => o.repaired
        /\ d.head = Free => Mended(d.file) = <<>>
     \/ /\ o.pc = "head" /\ d.file.tail = <<>>
        /\ d.head = Free => d.file.lines = <<>>
     \/ /\ o.pc = "list" /\ d.file.tail = <<>> /\ d.head # Free
        /\ d.head = <<>> => d.file.lines = <<>>

(* The handle knows the file's lines and head; past a first line that got  *)
(* no head it takes no more.                                               *)
HandleOK(d, h, o) ==
  /\ h.last = Chain(d.file.lines) /\ h.synced = d.head
  /\ ~h.poisoned => d.file.tail = <<>>
  /\ h.synced = <<>> /\ d.file.lines # <<>> =>
       h.poisoned \/ (o.pc \in {"sync", "seal"} /\ o.do \in {"append", "acquire"})

Holding(d, ix, h, o) ==
  /\ h \in Handles /\ (~h.blind => ~ix.pruned) /\ d.file.here
  /\ HandleOK(d, h, o) /\ Asked(o)
  /\ o.pc \in {"idle", "write", "sync", "seal", "track", "unlock"}
  /\ o.pc = "idle" => o = Idle
  /\ o.pc = "write" => o.do \in {"append", "acquire"} /\ (o.repaired \/ o.do = "append")
  /\ o.pc = "seal" => d.file.durable = Len(d.file.lines)

Pruning(ix, h, o) ==
  /\ h = Free
  /\ \/ o.pc = "tomb" /\ ~ix.pruned
     \/ o.pc = "remove" /\ ix.pruned

Busy(d, ix, h, o) == Loading(d, ix, h, o) \/ Holding(d, ix, h, o) \/ Pruning(ix, h, o)

ProcOK(p) == Away(held[p], op[p]) \/ (lock = p /\ Busy(disk, index, held[p], op[p]))

IInv ==
  /\ Typed
  /\ DiskOK(disk, index, kept)
  /\ ~lost /\ ~index.pruned => HonestOK(disk, index)
  /\ \A p \in Procs : ProcOK(p)

(***************************************************************************)
(* Facts about the sequences and sets the model is built from.             *)
(***************************************************************************)

LEMMA BoundedSetHasMax ==
  ASSUME NEW S, S \subseteq Nat, S # {}, NEW m \in Nat, \A x \in S : x <= m
  PROVE  Max(S) \in S /\ \A x \in S : x <= Max(S)
<1> DEFINE bounds == {n \in Nat : \A x \in S : x <= n}
<1>1. bounds \subseteq Nat /\ bounds # {}
  OBVIOUS
<1>2. PICK n \in bounds : \A k \in bounds : ~(<<k, n>> \in OpToRel(<, Nat))
  BY <1>1, NatLessThanWellFounded, WFMin
<1>3. \A k \in bounds : n <= k
  <2> SUFFICES ASSUME NEW k \in bounds, k < n PROVE FALSE
    BY <1>1
  <2>1. <<k, n>> \in OpToRel(<, Nat)
    BY <1>1 DEF OpToRel
  <2> QED
    BY <1>2, <2>1
<1>4. n \in S
  <2> SUFFICES ASSUME n \notin S PROVE FALSE
    OBVIOUS
  <2>1. \A x \in S : x < n
    BY <1>1
  <2>2. n - 1 \in bounds
    <3>1. PICK x \in S : x \in Nat /\ x < n
      BY <2>1
    <3>2. n - 1 \in Nat
      BY <3>1
    <3> QED
      BY <2>1, <3>2
  <2> QED
    BY <1>3, <2>2
<1> HIDE DEF bounds
<1>5. \E x \in S : \A y \in S : x >= y
  BY <1>4 DEF bounds
<1>6. Max(S) \in S /\ \A y \in S : Max(S) >= y
  BY <1>5 DEF Max
<1> QED
  BY <1>6

LEMMA Firsts ==
  ASSUME NEW T, NEW q \in Seq(T), NEW n \in 0..Len(q)
  PROVE  /\ SubSeq(q, 1, n) \in Seq(T)
         /\ Len(SubSeq(q, 1, n)) = n
         /\ \A i \in 1..n : SubSeq(q, 1, n)[i] = q[i]
OBVIOUS

LEMMA SameSeq ==
  ASSUME NEW T, NEW q \in Seq(T), NEW r \in Seq(T), Len(q) = Len(r), \A i \in 1..Len(q) : q[i] = r[i]
  PROVE  q = r
OBVIOUS

LEMMA Appended ==
  ASSUME NEW T, NEW q \in Seq(T), NEW x \in T
  PROVE  /\ Append(q, x) \in Seq(T)
         /\ Len(Append(q, x)) = Len(q) + 1
         /\ \A i \in 1..Len(q) : Append(q, x)[i] = q[i]
         /\ Append(q, x)[Len(q) + 1] = x
OBVIOUS

LEMMA Joined ==
  ASSUME NEW T, NEW q \in Seq(T), NEW r \in Seq(T)
  PROVE  /\ q \o r \in Seq(T)
         /\ Len(q \o r) = Len(q) + Len(r)
         /\ \A i \in 1..Len(q) : (q \o r)[i] = q[i]
         /\ Len(r) = 1 => (q \o r)[Len(q) + 1] = r[1]
OBVIOUS

LEMMA JoinsOne ==
  ASSUME NEW T, NEW q \in Seq(T), NEW r \in Seq(T), Len(r) = 1
  PROVE  q \o r = Append(q, r[1]) /\ r[1] \in T
<1>1. r[1] \in T /\ Len(q) \in Nat /\ 1 \in 1..Len(r)
  OBVIOUS
<1>2. PICK a : a = q \o r
  OBVIOUS
<1>3. PICK b : b = Append(q, r[1])
  OBVIOUS
<1>4. a \in Seq(T) /\ Len(a) = Len(q) + 1
  <2>1. q \o r \in Seq(T) /\ Len(q \o r) = Len(q) + Len(r)
    BY Joined
  <2> QED
    BY <1>2, <2>1
<1>5. (\A i \in 1..Len(q) : a[i] = q[i]) /\ a[Len(q) + 1] = r[1]
  <2>1. \A i \in 1..Len(q) : (q \o r)[i] = q[i]
    BY Joined
  <2>2. (q \o r)[Len(q) + 1] = r[1]
    BY Joined, Zenon
  <2> QED
    BY <1>2, <2>1, <2>2
<1>6. /\ b \in Seq(T) /\ Len(b) = Len(q) + 1 /\ b[Len(q) + 1] = r[1]
      /\ \A i \in 1..Len(q) : b[i] = q[i]
  BY <1>1, <1>3, Appended
<1>7. \A i \in 1..Len(a) : a[i] = b[i]
  <2>1. \A i \in 1..(Len(q) + 1) : i \in 1..Len(q) \/ i = Len(q) + 1
    BY <1>1
  <2> QED
    BY <1>4, <1>5, <1>6, <2>1
<1>8. a = b
  BY <1>4, <1>6, <1>7, SameSeq
<1> QED
  BY <1>1, <1>2, <1>3, <1>8

LEMMA PrefixIs ==
  ASSUME NEW T, NEW q \in Seq(T), NEW r \in Seq(T)
  PROVE  IsPrefix(q, r) <=> Len(q) <= Len(r) /\ \A i \in 1..Len(q) : q[i] = r[i]
<1>1. SUFFICES ASSUME Len(q) <= Len(r)
               PROVE  SubSeq(q, 1, Len(q)) = SubSeq(r, 1, Len(q)) <=> \A i \in 1..Len(q) : q[i] = r[i]
  BY DEF IsPrefix
<1>2. Len(q) \in 0..Len(q) /\ Len(q) \in 0..Len(r)
  BY <1>1
<1>3. /\ SubSeq(q, 1, Len(q)) \in Seq(T) /\ Len(SubSeq(q, 1, Len(q))) = Len(q)
      /\ \A i \in 1..Len(q) : SubSeq(q, 1, Len(q))[i] = q[i]
  BY <1>2, Firsts
<1>4. /\ SubSeq(r, 1, Len(q)) \in Seq(T) /\ Len(SubSeq(r, 1, Len(q))) = Len(q)
      /\ \A i \in 1..Len(q) : SubSeq(r, 1, Len(q))[i] = r[i]
  BY <1>2, Firsts
<1> DEFINE a == SubSeq(q, 1, Len(q))
           b == SubSeq(r, 1, Len(q))
<1>5. a = b => \A i \in 1..Len(q) : q[i] = r[i]
  BY <1>3, <1>4
<1>6. (\A i \in 1..Len(q) : q[i] = r[i]) => a = b
  <2> HIDE DEF a, b
  <2> SUFFICES ASSUME \A i \in 1..Len(q) : q[i] = r[i] PROVE a = b
    OBVIOUS
  <2>1. a \in Seq(T) /\ b \in Seq(T) /\ Len(a) = Len(b) /\ \A i \in 1..Len(a) : a[i] = b[i]
    BY <1>3, <1>4 DEF a, b
  <2> QED
    BY <2>1, SameSeq
<1> QED
  BY <1>5, <1>6

(* The events of a file's lines.                                           *)
LEMMA ChainIs ==
  ASSUME NEW ls \in Seq(Lines)
  PROVE  /\ Chain(ls) \in Chains /\ Len(Chain(ls)) = Len(ls)
         /\ DOMAIN Chain(ls) = 1..Len(ls)
         /\ \A i \in 1..Len(ls) : Chain(ls)[i] = ls[i].ev /\ ls[i] \in Lines
<1>1. \A i \in 1..Len(ls) : ls[i] \in Lines /\ ls[i].ev \in AnyEvent
  <2>1. \A i \in 1..Len(ls) : ls[i] \in Lines
    OBVIOUS
  <2> QED
    BY <2>1 DEF Lines
<1>2. Chain(ls) = [i \in 1..Len(ls) |-> ls[i].ev]
  BY DEF Chain
<1>3. Chain(ls) \in [1..Len(ls) -> AnyEvent] /\ Len(ls) \in Nat
  BY <1>1, <1>2
<1>4. Chain(ls) \in Seq(AnyEvent) /\ Len(Chain(ls)) = Len(ls)
  BY <1>3
<1> QED
  BY <1>1, <1>2, <1>4 DEF Chains

LEMMA ChainGrows ==
  ASSUME NEW ls \in Seq(Lines), NEW l \in Lines
  PROVE  Chain(Append(ls, l)) = Append(Chain(ls), l.ev)
<1>1. Append(ls, l) \in Seq(Lines) /\ l.ev \in AnyEvent
  <2>1. l.ev \in AnyEvent
    BY DEF Lines
  <2> QED
    BY <2>1
<1> DEFINE q == Chain(Append(ls, l))
           r == Append(Chain(ls), l.ev)
<1>2. /\ Len(Append(ls, l)) = Len(ls) + 1 /\ Append(ls, l)[Len(ls) + 1] = l
      /\ \A i \in 1..Len(ls) : Append(ls, l)[i] = ls[i]
  OBVIOUS
<1>3. /\ q \in Seq(AnyEvent) /\ Len(q) = Len(ls) + 1
      /\ \A i \in 1..(Len(ls) + 1) : q[i] = Append(ls, l)[i].ev
  BY <1>1, <1>2, ChainIs DEF Chains
<1>4. Chain(ls) \in Seq(AnyEvent) /\ Len(Chain(ls)) = Len(ls) /\ \A i \in 1..Len(ls) : Chain(ls)[i] = ls[i].ev
  BY ChainIs DEF Chains
<1>5. /\ r \in Seq(AnyEvent) /\ Len(r) = Len(ls) + 1 /\ r[Len(ls) + 1] = l.ev
      /\ \A i \in 1..Len(ls) : r[i] = Chain(ls)[i]
  BY <1>1, <1>4, Appended
<1>6. ASSUME NEW i \in 1..Len(q) PROVE q[i] = r[i]
  <2>1. i \in 1..Len(ls) \/ i = Len(ls) + 1
    BY <1>3
  <2> QED
    BY <2>1, <1>2, <1>3, <1>4, <1>5
<1> HIDE DEF q, r
<1>7. q = r
  BY <1>3, <1>5, <1>6, SameSeq
<1> QED
  BY <1>7 DEF q, r

(* A prefix of the chain is one of the chain with a line more.             *)
LEMMA PrefixGrows ==
  ASSUME NEW c \in Chains, NEW ls \in Seq(Lines), NEW l \in Lines, IsPrefix(c, Chain(ls))
  PROVE  IsPrefix(c, Chain(Append(ls, l)))
<1>1. Chain(ls) \in Seq(AnyEvent) /\ c \in Seq(AnyEvent) /\ l.ev \in AnyEvent
  BY ChainIs DEF Chains, Lines
<1>2. /\ Append(Chain(ls), l.ev) \in Seq(AnyEvent) /\ Len(Append(Chain(ls), l.ev)) = Len(Chain(ls)) + 1
      /\ \A i \in 1..Len(Chain(ls)) : Append(Chain(ls), l.ev)[i] = Chain(ls)[i]
  BY <1>1, Appended
<1>3. Len(c) <= Len(Chain(ls)) /\ \A i \in 1..Len(c) : c[i] = Chain(ls)[i]
  BY <1>1, PrefixIs
<1>4. /\ Len(c) <= Len(Append(Chain(ls), l.ev))
      /\ \A i \in 1..Len(c) : c[i] = Append(Chain(ls), l.ev)[i]
  BY <1>1, <1>2, <1>3
<1> QED
  BY <1>1, <1>2, <1>4, PrefixIs, ChainGrows

LEMMA PrefixOfSelf ==
  ASSUME NEW ls \in Seq(Lines)
  PROVE  IsPrefix(Chain(ls), Chain(ls)) /\ IsPrefix(<<>>, Chain(ls))
<1>1. Chain(ls) \in Seq(AnyEvent) /\ <<>> \in Seq(AnyEvent)
  BY ChainIs DEF Chains
<1>2. IsPrefix(Chain(ls), Chain(ls))
  BY <1>1, PrefixIs
<1>3. Len(<<>>) <= Len(Chain(ls)) /\ \A i \in 1..Len(<<>>) : <<>>[i] = Chain(ls)[i]
  BY <1>1
<1> QED
  BY <1>1, <1>2, <1>3, PrefixIs

(* Cut no shorter than it, the lines still have the prefix.                *)
LEMMA PrefixSurvives ==
  ASSUME NEW c \in Chains, NEW ls \in Seq(Lines), NEW n \in 0..Len(ls), Len(c) <= n, IsPrefix(c, Chain(ls))
  PROVE  SubSeq(ls, 1, n) \in Seq(Lines) /\ IsPrefix(c, Chain(SubSeq(ls, 1, n)))
<1>1. PICK cut : cut = SubSeq(ls, 1, n)
  OBVIOUS
<1>2. cut \in Seq(Lines) /\ Len(cut) = n /\ \A i \in 1..n : cut[i] = ls[i]
  BY <1>1, Firsts
<1>3. Chain(cut) \in Seq(AnyEvent) /\ Len(Chain(cut)) = n /\ \A i \in 1..n : Chain(cut)[i] = ls[i].ev
  BY <1>2, ChainIs DEF Chains
<1>4. /\ Chain(ls) \in Seq(AnyEvent) /\ c \in Seq(AnyEvent) /\ Len(Chain(ls)) = Len(ls)
      /\ \A i \in 1..Len(ls) : Chain(ls)[i] = ls[i].ev
  BY ChainIs DEF Chains
<1>5. Len(c) <= Len(Chain(ls)) /\ \A i \in 1..Len(c) : c[i] = Chain(ls)[i]
  BY <1>4, PrefixIs
<1>6. Len(c) \in Nat /\ Len(ls) \in Nat /\ n \in Nat /\ n <= Len(ls)
  BY <1>4
<1>7. \A i \in 1..Len(c) : i \in 1..n /\ i \in 1..Len(ls)
  BY <1>6
<1>8. Len(c) <= Len(Chain(cut)) /\ \A i \in 1..Len(c) : c[i] = Chain(cut)[i]
  BY <1>3, <1>4, <1>5, <1>7
<1> QED
  BY <1>1, <1>2, <1>3, <1>4, <1>8, PrefixIs

(* An event's step is a number, the callers' at most the number of kinds.  *)
LEMMA StepsAreNumbers ==
  /\ Len(KindAt) \in Nat /\ Cardinality(DOMAIN KindAt) = Len(KindAt)
  /\ \A e \in AnyEvent : e.seq \in Nat
  /\ \A e \in Events : e.seq \in 1..Len(KindAt)
  /\ \A n \in 1..(MaxLines + Len(KindAt)) : Repaired(n) \in AnyEvent
  /\ Events \subseteq AnyEvent /\ NoEvent \in AnyEvent /\ Torn \in Lines
<1>1. Len(KindAt) \in Nat /\ DOMAIN KindAt = 1..Len(KindAt)
  BY KindsAssumption
<1>2. Cardinality(DOMAIN KindAt) = Len(KindAt)
  <2>1. Cardinality(1..Len(KindAt)) = IF 1 > Len(KindAt) THEN 0 ELSE Len(KindAt) - 1 + 1
    BY <1>1, FS_Interval
  <2> QED
    BY <1>1, <2>1
<1>3. \A e \in Events : e.seq \in 1..Len(KindAt)
  BY <1>1 DEF Events
<1>4. \A e \in AnyEvent : e.seq \in Nat
  BY <1>1, <1>2, <1>3, BoundsAssumption DEF AnyEvent, NoEvent, Repaired
<1>5. \A n \in 1..(MaxLines + Len(KindAt)) : Repaired(n) \in AnyEvent
  BY <1>2 DEF AnyEvent
<1>6. Events \subseteq AnyEvent /\ NoEvent \in AnyEvent
  BY DEF AnyEvent
<1>7. Torn \in Lines
  BY <1>6 DEF Torn, Lines, Chains
<1> QED
  BY <1>1, <1>2, <1>3, <1>4, <1>5, <1>6, <1>7

LEMMA SeqsOf ==
  ASSUME NEW ls \in Seq(Lines)
  PROVE  /\ Seqs(Chain(ls)) = {ls[i].ev.seq : i \in 1..Len(ls)}
         /\ Seqs(Chain(ls)) \subseteq Nat
<1>1. DOMAIN Chain(ls) = 1..Len(ls) /\ \A i \in 1..Len(ls) : Chain(ls)[i] = ls[i].ev /\ ls[i] \in Lines
  BY ChainIs
<1>2. \A i \in 1..Len(ls) : ls[i].ev.seq \in Nat
  BY <1>1, StepsAreNumbers DEF Lines
<1>3. ToSet(Chain(ls)) = {ls[i].ev : i \in 1..Len(ls)}
  BY <1>1 DEF ToSet
<1>4. Seqs(Chain(ls)) = {ls[i].ev.seq : i \in 1..Len(ls)}
  BY <1>3 DEF Seqs
<1> QED
  BY <1>2, <1>4

(* A step past every one of a bounded file is bounded too.                 *)
LEMMA NextStep ==
  ASSUME NEW ls \in Seq(Lines), Bounded(ls)
  PROVE  /\ 1 + Max(Seqs(Chain(ls)) \cup {0}) \in 1..(Len(KindAt) + Len(ls) + 1)
         /\ 1 + Max(Seqs(Chain(ls)) \cup {0}) \notin Seqs(Chain(ls))
<1>1. PICK S : S = Seqs(Chain(ls)) \cup {0}
  OBVIOUS
<1>2. PICK m : m = Len(KindAt) + Len(ls)
  OBVIOUS
<1>3. m \in Nat /\ Len(ls) \in Nat /\ Len(KindAt) \in Nat
  BY <1>2, StepsAreNumbers
<1>4. S \subseteq Nat /\ S # {}
  BY <1>1, SeqsOf
<1>5. ASSUME NEW x \in S PROVE x <= m
  <2>1. CASE x = 0
    BY <2>1, <1>3
  <2>2. CASE x # 0
    <3>1. PICK i \in 1..Len(ls) : x = ls[i].ev.seq
      BY <1>1, <1>5, <2>2, SeqsOf
    <3>2. x <= Len(KindAt) + i /\ i <= Len(ls) /\ i \in Nat /\ x \in Nat
      BY <1>3, <1>4, <3>1 DEF Bounded
    <3> QED
      BY <1>2, <1>3, <3>2
  <2> QED
    BY <2>1, <2>2
<1>6. PICK x : x = Max(S)
  OBVIOUS
<1>7. x \in S /\ \A y \in S : y <= x
  BY <1>3, <1>4, <1>5, <1>6, BoundedSetHasMax
<1>8. x \in Nat /\ x <= m
  BY <1>4, <1>5, <1>7
<1>9. 1 + x \in 1..(m + 1) /\ 1 + x \notin S
  BY <1>3, <1>7, <1>8
<1> QED
  BY <1>1, <1>2, <1>3, <1>6, <1>9

(* A line that follows the ones of a chained file leaves it chained.       *)
LEMMA VerifyGrows ==
  ASSUME NEW ls \in Seq(Lines), NEW l \in Lines, verifyLines(ls), Follows(l, ls)
  PROVE  verifyLines(Append(ls, l))
<1>1. PICK more : more = Append(ls, l)
  OBVIOUS
<1>2. /\ more \in Seq(Lines) /\ Len(more) = Len(ls) + 1 /\ more[Len(ls) + 1] = l
      /\ \A i \in 1..Len(ls) : more[i] = ls[i]
  BY <1>1, Appended
<1>3. Len(ls) \in Nat /\ Chain(ls) \in Seq(AnyEvent) /\ Len(Chain(ls)) = Len(ls)
  BY ChainIs DEF Chains
<1>4. Chain(more) = Append(Chain(ls), l.ev) /\ l.ev \in AnyEvent
  BY <1>1, ChainGrows DEF Lines
<1>5. ASSUME NEW i \in 1..(Len(ls) + 1) PROVE SubSeq(Chain(more), 1, i - 1) = SubSeq(Chain(ls), 1, i - 1)
  <2>1. PICK n : n = i - 1
    OBVIOUS
  <2>2. n \in 0..Len(ls) /\ n \in 0..(Len(ls) + 1)
    BY <1>3, <2>1
  <2>3. Chain(more) \in Seq(AnyEvent) /\ Len(Chain(more)) = Len(ls) + 1
    BY <1>2, ChainIs DEF Chains
  <2>4. \A j \in 1..Len(ls) : Chain(more)[j] = Chain(ls)[j]
    BY <1>3, <1>4, Appended
  <2> DEFINE a == SubSeq(Chain(more), 1, n)
             b == SubSeq(Chain(ls), 1, n)
  <2>5. a \in Seq(AnyEvent) /\ Len(a) = n /\ \A j \in 1..n : a[j] = Chain(more)[j]
    BY <2>2, <2>3, Firsts
  <2>6. b \in Seq(AnyEvent) /\ Len(b) = n /\ \A j \in 1..n : b[j] = Chain(ls)[j]
    BY <1>3, <2>2, Firsts
  <2> HIDE DEF a, b
  <2>7. \A j \in 1..n : j \in 1..Len(ls)
    BY <1>3, <2>2
  <2>8. Len(a) = Len(b) /\ \A j \in 1..Len(a) : a[j] = b[j]
    BY <2>4, <2>5, <2>6, <2>7
  <2>9. a = b
    BY <2>5, <2>6, <2>8, SameSeq
  <2> QED
    BY <2>1, <2>9 DEF a, b
<1>6. SubSeq(Chain(ls), 1, Len(ls)) = Chain(ls)
  <2>1. PICK b : b = SubSeq(Chain(ls), 1, Len(ls))
    OBVIOUS
  <2>2. Len(ls) \in 0..Len(Chain(ls))
    BY <1>3
  <2>3. b \in Seq(AnyEvent) /\ Len(b) = Len(ls) /\ \A j \in 1..Len(ls) : b[j] = Chain(ls)[j]
    BY <1>3, <2>1, <2>2, Firsts
  <2>4. b = Chain(ls)
    BY <1>3, <2>3, SameSeq
  <2> QED
    BY <2>1, <2>4
<1>7. ASSUME NEW i \in DOMAIN more
      PROVE  more[i].ev.seq > 0 /\ more[i].prev = SubSeq(Chain(more), 1, i - 1)
  <2>1. i \in 1..(Len(ls) + 1) /\ (i \in 1..Len(ls) \/ i = Len(ls) + 1)
    BY <1>2, <1>3
  <2>2. CASE i \in 1..Len(ls)
    <3>1. i \in DOMAIN ls /\ more[i] = ls[i]
      BY <1>2, <2>2
    <3>2. ls[i].ev.seq > 0 /\ ls[i].prev = SubSeq(Chain(ls), 1, i - 1)
      BY <3>1 DEF verifyLines
    <3> QED
      BY <1>5, <2>1, <3>1, <3>2
  <2>3. CASE i = Len(ls) + 1
    <3>1. i - 1 = Len(ls) /\ more[i] = l
      BY <1>2, <1>3, <2>3
    <3> QED
      BY <1>5, <1>6, <2>1, <3>1 DEF Follows
  <2> QED
    BY <2>1, <2>2, <2>3
<1>8. Cardinality(Seqs(Chain(more))) = Len(more)
  <2>1. PICK S : S = Seqs(Chain(ls))
    OBVIOUS
  <2>2. S = {ls[i].ev.seq : i \in 1..Len(ls)}
    BY <2>1, SeqsOf
  <2>3. IsFiniteSet(S)
    <3> DEFINE steps == [i \in 1..Len(ls) |-> ls[i].ev.seq]
    <3>1. IsFiniteSet(1..Len(ls))
      BY <1>3, FS_Interval
    <3>2. steps \in Surjection(1..Len(ls), S)
      BY <2>2 DEF Surjection
    <3> QED
      BY <3>1, <3>2, FS_Surjection
  <2>4. Seqs(Chain(more)) = S \cup {l.ev.seq}
    <3>1. Seqs(Chain(more)) = {more[i].ev.seq : i \in 1..(Len(ls) + 1)}
      BY <1>2, SeqsOf
    <3>2. \A i \in 1..Len(ls) : i \in 1..(Len(ls) + 1)
      BY <1>3
    <3>3. Len(ls) + 1 \in 1..(Len(ls) + 1)
      BY <1>3
    <3>4. \A i \in 1..(Len(ls) + 1) : i \in 1..Len(ls) \/ i = Len(ls) + 1
      BY <1>3
    <3> HIDE DEF Seqs
    <3>5. Seqs(Chain(more)) \subseteq S \cup {l.ev.seq}
      BY <1>2, <2>2, <3>1, <3>4
    <3>6. S \subseteq Seqs(Chain(more))
      BY <1>2, <2>2, <3>1, <3>2
    <3>7. l.ev.seq \in Seqs(Chain(more))
      BY <1>2, <3>1, <3>3
    <3> QED
      BY <3>5, <3>6, <3>7
  <2>5. Cardinality(S) = Len(ls)
    BY <2>1 DEF verifyLines
  <2>6. l.ev.seq \notin S
    BY <2>1 DEF Follows
  <2>7. Cardinality(S \cup {l.ev.seq}) = Cardinality(S) + 1
    BY <2>3, <2>6, FS_AddElement
  <2> QED
    BY <1>2, <2>4, <2>5, <2>7
<1> QED
  BY <1>1, <1>7, <1>8 DEF verifyLines

(***************************************************************************)
(* What a step of one process leaves.                                      *)
(***************************************************************************)

LEMMA IdleIsOp ==
  /\ Idle \in Ops /\ Idle.pc = "idle" /\ Idle.do = "none" /\ ~Idle.repaired /\ ~Idle.err /\ ~Idle.blind
  /\ Away(Free, Idle)
BY DEF Idle, Ops, Away

LEMMA IInvInit == Init => IInv
<1> SUFFICES ASSUME Init PROVE IInv
  OBVIOUS
<1>1. /\ disk.file.here = FALSE /\ disk.file.lines = <<>> /\ disk.file.tail = <<>>
      /\ disk.file.durable = 0 /\ disk.head = Free
      /\ index.ends = {} /\ ~index.listed /\ ~index.pruned /\ kept = <<>>
  BY DEF Init, NoFile
<1>2. Typed
  <2>1. NoFile \in Files
    BY DEF NoFile, Files
  <2>2. disk \in Disks /\ index \in Indexes
    BY <2>1 DEF Init, Disks, Indexes
  <2>3. kept \in Chains
    BY DEF Init, Chains
  <2>4. held \in [Procs -> Handles \cup {Free}] /\ op \in [Procs -> Ops]
    BY IdleIsOp DEF Init
  <2>5. lock \in Procs \cup {Free} /\ deleted \in BOOLEAN /\ lost \in BOOLEAN
    BY DEF Init
  <2>6. faults \in 0..MaxFaults
    BY BoundsAssumption DEF Init
  <2> QED
    BY <2>2, <2>3, <2>4, <2>5, <2>6 DEF Typed
<1>3. \A p \in Procs : ProcOK(p)
  BY IdleIsOp DEF Init, ProcOK
<1>4. Chain(<<>>) = <<>> /\ IsPrefix(<<>>, Chain(<<>>))
  <2>1. <<>> \in Seq(Lines)
    OBVIOUS
  <2>2. Chain(<<>>) \in Seq(AnyEvent) /\ Len(Chain(<<>>)) = 0
    BY <2>1, ChainIs DEF Chains
  <2>3. Chain(<<>>) = <<>>
    BY <2>2
  <2> QED
    BY <2>1, <2>3, PrefixOfSelf
<1>5. DiskOK(disk, index, kept)
  BY <1>1, <1>4, BoundsAssumption DEF DiskOK, FileOK, Bounded, KeptOK
<1>6. HonestOK(disk, index)
  <2>1. Seqs(<<>>) = {}
    BY DEF Seqs, ToSet
  <2>2. verifyLines(<<>>)
    BY <1>4, <2>1, FS_EmptySet DEF verifyLines
  <2> QED
    BY <1>1, <2>2 DEF HonestOK, HeadOK
<1> QED
  BY <1>2, <1>3, <1>5, <1>6 DEF IInv

LEMMA FaultCounts ==
  ASSUME IInv, Fault \/ Works \/ faults' = faults
  PROVE  faults' \in 0..MaxFaults
<1>1. faults \in 0..MaxFaults
  BY DEF IInv, Typed
<1> QED
  BY <1>1, BoundsAssumption DEF Fault, Works

(* The process that has the lock, or takes it, moves: the others are away. *)
LEMMA Acts ==
  ASSUME IInv, NEW p \in Procs, NEW h \in Handles \cup {Free}, NEW o \in Ops,
         held' = [held EXCEPT ![p] = h], op' = [op EXCEPT ![p] = o],
         lock \in {p, Free}, lock' \in {p, Free},
         Away(h, o) \/ (lock' = p /\ Busy(disk', index', h, o)),
         disk' \in Disks, index' \in Indexes, kept' \in Chains,
         deleted' \in BOOLEAN, lost' = lost, faults' \in 0..MaxFaults,
         DiskOK(disk', index', kept'),
         ~lost /\ ~index'.pruned => HonestOK(disk', index')
  PROVE  IInv'
<1>1. Typed
  BY DEF IInv
<1>2. /\ held' \in [Procs -> Handles \cup {Free}] /\ op' \in [Procs -> Ops]
      /\ held'[p] = h /\ op'[p] = o
      /\ \A q \in Procs \ {p} : held'[q] = held[q] /\ op'[q] = op[q]
  BY <1>1 DEF Typed
<1>3. Typed'
  BY <1>1, <1>2 DEF Typed
<1>4. ASSUME NEW q \in Procs PROVE Away(held'[q], op'[q]) \/ (lock' = q /\ Busy(disk', index', held'[q], op'[q]))
  <2>1. CASE q = p
    BY <1>2, <2>1
  <2>2. CASE q # p
    <3>1. Away(held[q], op[q])
      BY <2>2, FreeAssumption DEF IInv, ProcOK
    <3> QED
      BY <1>2, <2>2, <3>1
  <2> QED
    BY <2>1, <2>2
<1>5. (\A q \in Procs : ProcOK(q))'
  BY <1>4 DEF ProcOK, Away, Busy, Loading, Holding, Pruning, HandleOK
<1>6. DiskOK(disk, index, kept)'
  BY DEF DiskOK, FileOK, KeptOK
<1>7. (~lost /\ ~index.pruned => HonestOK(disk, index))'
  BY DEF HonestOK, HeadOK
<1> QED
  BY <1>3, <1>5, <1>6, <1>7 DEF IInv

(* The same where the disk and the index stay as they are.                 *)
LEMMA ActsAlone ==
  ASSUME IInv, NEW p \in Procs, NEW h \in Handles \cup {Free}, NEW o \in Ops,
         held' = [held EXCEPT ![p] = h], op' = [op EXCEPT ![p] = o],
         lock \in {p, Free}, lock' \in {p, Free},
         Away(h, o) \/ (lock' = p /\ Busy(disk, index, h, o)),
         UNCHANGED <<disk, index, kept, lost>>,
         deleted' \in BOOLEAN, faults' \in 0..MaxFaults
  PROVE  IInv'
<1>1. /\ disk' = disk /\ index' = index /\ kept' = kept /\ lost' = lost
      /\ disk \in Disks /\ index \in Indexes /\ kept \in Chains
      /\ DiskOK(disk, index, kept) /\ (~lost /\ ~index.pruned => HonestOK(disk, index))
  BY DEF IInv, Typed
<1>2. /\ disk' \in Disks /\ index' \in Indexes /\ kept' \in Chains
      /\ DiskOK(disk', index', kept') /\ (~lost /\ ~index'.pruned => HonestOK(disk', index'))
      /\ Away(h, o) \/ (lock' = p /\ Busy(disk', index', h, o))
  BY <1>1
<1> QED
  BY <1>1, <1>2, Acts

(* One that is away, and stays away, leaves another its lock.              *)
LEMMA StaysAway ==
  ASSUME IInv, NEW p \in Procs, Away(held[p], op[p]), NEW o \in Ops, Away(Free, o),
         op' = [op EXCEPT ![p] = o],
         UNCHANGED <<disk, index, lock, held, kept, lost>>,
         deleted' \in BOOLEAN, faults' \in 0..MaxFaults
  PROVE  IInv'
<1>1. Typed
  BY DEF IInv
<1>2. /\ op' \in [Procs -> Ops] /\ op'[p] = o
      /\ \A q \in Procs \ {p} : op'[q] = op[q]
  BY <1>1 DEF Typed
<1>3. Typed'
  BY <1>1, <1>2 DEF Typed
<1>4. ASSUME NEW q \in Procs PROVE Away(held[q], op'[q]) \/ (lock = q /\ Busy(disk, index, held[q], op'[q]))
  <2>1. CASE q = p
    BY <1>2, <2>1 DEF Away
  <2>2. CASE q # p
    BY <1>2, <2>2 DEF IInv, ProcOK
  <2> QED
    BY <2>1, <2>2
<1>5. (\A q \in Procs : ProcOK(q))'
  BY <1>4 DEF ProcOK, Away, Busy, Loading, Holding, Pruning, HandleOK
<1>6. DiskOK(disk, index, kept)'
  BY DEF IInv, DiskOK, FileOK, KeptOK
<1>7. (~lost /\ ~index.pruned => HonestOK(disk, index))'
  BY DEF IInv, HonestOK, HeadOK
<1> QED
  BY <1>3, <1>5, <1>6, <1>7 DEF IInv

(* Where a process stands tells what it has.                               *)
LEMMA Where ==
  ASSUME IInv, NEW p \in Procs
  PROVE  /\ op[p] \in Ops /\ held[p] \in Handles \cup {Free}
         /\ op[p].pc \in {"repair", "head", "list"} => lock = p /\ Loading(disk, index, held[p], op[p])
         /\ op[p].pc \in {"write", "sync", "seal", "track", "unlock"} \/ held[p] # Free
              => lock = p /\ Holding(disk, index, held[p], op[p]) /\ held[p] # Free
         /\ op[p].pc \in {"tomb", "remove"} => lock = p /\ Pruning(index, held[p], op[p]) /\ held[p] = Free
         /\ op[p].pc = "prune" => Away(held[p], op[p])
         /\ held[p] = Free /\ op[p].pc = "idle" => Away(held[p], op[p])
         /\ index.pruned /\ ~Blind(p) => held[p] = Free /\ op[p].pc \in {"idle", "prune", "remove"}
<1>1. op[p] \in Ops /\ held[p] \in Handles \cup {Free} /\ ProcOK(p)
  BY DEF IInv, Typed
<1>2. CASE Away(held[p], op[p])
  BY <1>1, <1>2 DEF Away
<1>3. CASE lock = p /\ Loading(disk, index, held[p], op[p])
  BY <1>1, <1>3 DEF Loading, Blind
<1>4. CASE lock = p /\ Holding(disk, index, held[p], op[p])
  BY <1>1, <1>4, FreeAssumption DEF Holding, Blind
<1>5. CASE lock = p /\ Pruning(index, held[p], op[p])
  BY <1>1, <1>5 DEF Pruning
<1> QED
  BY <1>1, <1>2, <1>3, <1>4, <1>5 DEF ProcOK, Busy

(***************************************************************************)
(* What becomes of a file, its head and what was kept of it.               *)
(***************************************************************************)

LEMMA FileGrows ==
  ASSUME NEW f \in Files, NEW g \in Files, NEW l \in Lines, FileOK(f),
         g.here, g.lines = Append(f.lines, l), g.tail = <<>>,
         g.durable \in {f.durable, Len(g.lines)},
         Len(f.lines) < MaxLines, l.ev.seq <= Len(KindAt) + Len(f.lines) + 1
  PROVE  FileOK(g) /\ \A k \in Chains : KeptOK(f, k) => KeptOK(g, k)
<1>1. f.lines \in Seq(Lines) /\ f.durable \in Nat /\ Len(f.lines) \in Nat
  BY DEF Files
<1>2. /\ Len(g.lines) = Len(f.lines) + 1 /\ g.lines[Len(f.lines) + 1] = l
      /\ \A i \in 1..Len(f.lines) : g.lines[i] = f.lines[i]
  BY <1>1, Appended
<1>3. f.durable <= g.durable /\ g.durable <= Len(g.lines) /\ g.durable \in Nat
  BY <1>1, <1>2 DEF FileOK
<1>4. ASSUME NEW i \in 1..Len(g.lines) PROVE g.lines[i].ev.seq <= Len(KindAt) + i
  <2>1. i \in 1..Len(f.lines) \/ i = Len(f.lines) + 1
    BY <1>1, <1>2
  <2>2. CASE i \in 1..Len(f.lines)
    BY <1>2, <2>2 DEF FileOK, Bounded
  <2>3. CASE i = Len(f.lines) + 1
    <3>1. Len(KindAt) + i = Len(KindAt) + Len(f.lines) + 1
      BY <1>1, <2>3, StepsAreNumbers
    <3> QED
      BY <1>2, <2>3, <3>1
  <2> QED
    BY <2>1, <2>2, <2>3
<1>5. FileOK(g)
  <2>1. Len(g.lines) <= MaxLines
    BY <1>1, <1>2, BoundsAssumption
  <2> QED
    BY <1>3, <1>4, <2>1 DEF FileOK, Bounded
<1>6. ASSUME NEW k \in Chains, KeptOK(f, k) PROVE KeptOK(g, k)
  <2>1. Len(k) \in Nat
    BY DEF Chains
  <2>2. Len(k) <= g.durable
    BY <1>1, <1>3, <1>6, <2>1 DEF KeptOK
  <2>3. IsPrefix(k, Chain(g.lines))
    BY <1>1, <1>6, PrefixGrows DEF KeptOK
  <2> QED
    BY <2>2, <2>3 DEF KeptOK
<1> QED
  BY <1>5, <1>6

(* The tail is cut, the file made, or it is synced.                        *)
LEMMA FileSame ==
  ASSUME NEW f \in Files, NEW g \in Files, FileOK(f), g.here,
         g.lines = f.lines, g.tail \in {<<>>, f.tail}, g.durable \in {f.durable, Len(f.lines)}
  PROVE  FileOK(g) /\ \A k \in Chains : KeptOK(f, k) => KeptOK(g, k)
<1>1. f.durable <= g.durable /\ g.durable <= Len(g.lines) /\ {f.durable, g.durable} \subseteq Nat
  BY DEF FileOK, Files
<1>2. FileOK(g)
  BY <1>1 DEF FileOK
<1>3. ASSUME NEW k \in Chains, KeptOK(f, k) PROVE KeptOK(g, k)
  <2>1. Len(k) \in Nat
    BY DEF Chains
  <2> QED
    BY <1>1, <1>3, <2>1 DEF KeptOK
<1> QED
  BY <1>2, <1>3

(* A line is written in part.                                              *)
LEMMA FileTorn ==
  ASSUME NEW f \in Files, NEW g \in Files, NEW l \in Lines, FileOK(f), f.here,
         g = [f EXCEPT !.tail = <<l>>], Len(f.lines) < MaxLines,
         l.ev.seq <= Len(KindAt) + Len(f.lines) + 1
  PROVE  FileOK(g) /\ \A k \in Chains : KeptOK(f, k) => KeptOK(g, k)
<1>1. g.lines = f.lines /\ g.tail = <<l>> /\ g.durable = f.durable /\ g.here
  BY DEF Files
<1>2. FileOK(g)
  BY <1>1 DEF FileOK
<1> QED
  BY <1>1, <1>2 DEF KeptOK

LEMMA HonestSame ==
  ASSUME NEW d \in Disks, NEW e \in Disks, NEW ix, HonestOK(d, ix),
         e.head = d.head, e.file.lines = d.file.lines, e.file.tail \in {<<>>, d.file.tail}
  PROVE  HonestOK(e, ix)
<1>1. HeadOK(e)
  BY DEF HonestOK, HeadOK
<1> QED
  BY <1>1 DEF HonestOK

LEMMA HonestGrows ==
  ASSUME NEW d \in Disks, NEW e \in Disks, NEW ix \in Indexes, NEW l \in Lines, HonestOK(d, ix),
         Follows(l, d.file.lines), e.head = d.head, d.head # Free, d.head = <<>> => d.file.lines = <<>>,
         e.file.lines = Append(d.file.lines, l), e.file.tail = <<>>
  PROVE  HonestOK(e, ix)
<1>1. d.file.lines \in Seq(Lines) /\ d.head \in Chains /\ ix.ends \subseteq Chains
  BY DEF Disks, Files, Indexes
<1>2. verifyLines(e.file.lines)
  BY <1>1, VerifyGrows DEF HonestOK
<1>3. \A c \in Chains : IsPrefix(c, Chain(d.file.lines)) => IsPrefix(c, Chain(e.file.lines))
  BY <1>1, PrefixGrows
<1>4. IsPrefix(e.head, Chain(e.file.lines)) /\ \A c \in ix.ends : IsPrefix(c, Chain(e.file.lines))
  BY <1>1, <1>3 DEF HonestOK, HeadOK
<1>5. e.head = <<>> => Len(e.file.lines) <= 1
  <2>1. ASSUME d.file.lines = <<>> PROVE Len(e.file.lines) = 1
    BY <1>1, <2>1, Appended
  <2> QED
    BY <2>1
<1> QED
  BY <1>2, <1>4, <1>5 DEF HonestOK, HeadOK

LEMMA HonestTorn ==
  ASSUME NEW d \in Disks, NEW e \in Disks, NEW ix, NEW l, HonestOK(d, ix),
         l = Torn \/ Follows(l, d.file.lines),
         e.head = d.head, d.head # Free, d.head = <<>> => d.file.lines = <<>>,
         e.file.lines = d.file.lines, e.file.tail = <<l>>
  PROVE  HonestOK(e, ix)
<1>1. e.file.tail # <<>> /\ e.file.tail[1] = l
  OBVIOUS
<1>2. HeadOK(e)
  BY DEF HonestOK, HeadOK
<1> QED
  BY <1>1, <1>2 DEF HonestOK

(* A head moved to all the lines there are.                                *)
LEMMA HonestHeads ==
  ASSUME NEW d \in Disks, NEW e \in Disks, NEW ix, HonestOK(d, ix),
         e.file = d.file, e.head = Chain(d.file.lines)
  PROVE  HonestOK(e, ix) /\ e.head # Free
<1>1. /\ d.file.lines \in Seq(Lines) /\ Chain(d.file.lines) \in Chains
      /\ Len(Chain(d.file.lines)) = Len(d.file.lines)
  BY ChainIs DEF Disks, Files
<1>2. e.head # Free
  BY <1>1, FreeAssumption
<1>3. e.head = <<>> => d.file.lines = <<>>
  BY <1>1
<1>4. HeadOK(e)
  BY <1>1, <1>2, <1>3, PrefixOfSelf DEF HeadOK
<1> QED
  BY <1>2, <1>4 DEF HonestOK

(* Chain of no lines, and lines of no chain.                               *)
LEMMA EmptyChain ==
  ASSUME NEW ls \in Seq(Lines)
  PROVE  Chain(ls) = <<>> <=> ls = <<>>
<1>1. Chain(ls) \in Seq(AnyEvent) /\ Len(Chain(ls)) = Len(ls)
  BY ChainIs DEF Chains
<1> QED
  BY <1>1

(* The file mended.                                                        *)
LEMMA MendedIs ==
  ASSUME NEW f \in Files, FileOK(f)
  PROVE  \/ Mended(f) = f.lines /\ (f.tail = <<>> \/ f.tail[1].ev = NoEvent \/ f.tail[1].prev # Chain(f.lines))
         \/ /\ Mended(f) = Append(f.lines, f.tail[1]) /\ f.tail[1] \in Lines /\ f.tail # <<>>
            /\ f.tail[1].ev # NoEvent /\ f.tail[1].prev = Chain(f.lines)
            /\ f.tail[1].ev.seq <= Len(KindAt) + Len(f.lines) + 1 /\ Len(f.lines) < MaxLines
<1>1. f.lines \in Seq(Lines) /\ f.tail \in Seq(Lines)
  BY DEF Files
<1>2. CASE f.tail # <<>> /\ f.tail[1].ev # NoEvent /\ f.tail[1].prev = Chain(f.lines)
  <2>1. Len(f.tail) = 1 /\ f.tail[1].ev.seq <= Len(KindAt) + Len(f.lines) + 1 /\ Len(f.lines) < MaxLines
    BY <1>2 DEF FileOK
  <2>2. f.lines \o f.tail = Append(f.lines, f.tail[1]) /\ f.tail[1] \in Lines
    BY <1>1, <2>1, JoinsOne
  <2> QED
    BY <1>2, <2>1, <2>2 DEF Mended
<1>3. CASE ~(f.tail # <<>> /\ f.tail[1].ev # NoEvent /\ f.tail[1].prev = Chain(f.lines))
  BY <1>3 DEF Mended
<1> QED
  BY <1>2, <1>3

LEMMA mendedIs == mended = Mended(disk.file)
BY DEF mended, completesChain, Mended, lines, tail

(***************************************************************************)
(* Loading.                                                                *)
(***************************************************************************)

LEMMA TakesStep ==
  ASSUME IInv, NEW p \in Procs, NEW do \in {"create", "acquire", "append"}, NEW ev \in Events \cup {NoEvent},
         NEW found \in BOOLEAN, do = "append" => ev \in Events, Takes(p, do, ev, found),
         index.pruned => index.listed /\ ~found, faults' \in 0..MaxFaults
  PROVE  IInv'
<1>1. PICK o : o = [Idle EXCEPT !.pc = "repair", !.do = do, !.ev = ev, !.repaired = (repair # "keep"),
                                !.blind = (index.listed /\ ~found)]
  OBVIOUS
<1>2. /\ disk \in Disks /\ disk.file \in Files /\ index \in Indexes /\ kept \in Chains
      /\ deleted \in BOOLEAN /\ DiskOK(disk, index, kept)
      /\ held \in [Procs -> Handles \cup {Free}] /\ op \in [Procs -> Ops]
  BY DEF IInv, Typed, Disks
<1>3. /\ held[p] = Free /\ lock = Free /\ op[p].pc = "idle"
      /\ do = "create" => ~disk.file.here
      /\ disk' = [disk EXCEPT !.file.here = TRUE]
      /\ index' = index /\ held' = held /\ kept' = kept /\ deleted' = deleted /\ lost' = lost
  BY DEF Takes
<1>4. /\ o \in Ops /\ o.pc = "repair" /\ o.do = do /\ o.ev = ev /\ o.repaired = (repair # "keep")
      /\ index.pruned => o.blind
  BY <1>1, <1>2 DEF Idle, Ops, Indexes
<1>5. /\ disk' \in Disks /\ disk'.file \in Files /\ disk'.head = disk.head /\ disk'.file.here
      /\ disk'.file.lines = disk.file.lines /\ disk'.file.tail = disk.file.tail
      /\ disk'.file.durable = disk.file.durable
  BY <1>2, <1>3 DEF Disks, Files
<1>6. DiskOK(disk', index', kept')
  BY <1>2, <1>3, <1>5, FileSame DEF DiskOK
<1>7. ~lost /\ ~index'.pruned => HonestOK(disk', index')
  BY <1>2, <1>3, <1>5, HonestSame DEF IInv
<1>9. held' = [held EXCEPT ![p] = Free]
  BY <1>2, <1>3
<1>10. CASE Loads
  <2>1. lock' = p /\ op' = [op EXCEPT ![p] = o]
    BY <1>1, <1>10 DEF Takes
  <2>2. Loading(disk', index', Free, o)
    <3>1. disk.file.tail # <<>> => repair # "keep"
      BY <1>10 DEF Loads, tail
    <3>2. disk.head = Free => Mended(disk.file) = <<>>
      BY <1>10, mendedIs DEF Loads, checkHead
    <3>3. Mended(disk'.file) = Mended(disk.file)
      BY <1>5 DEF Mended
    <3>4. disk.file.tail = <<>> => repair = "keep"
      BY DEF repair, tail
    <3>5. do = "create" => ~o.repaired
      BY <1>2, <1>3, <1>4, <3>4 DEF DiskOK, FileOK
    <3> QED
      BY <1>3, <1>4, <1>5, <3>1, <3>2, <3>3, <3>5 DEF Loading, Asked
  <2>3. Busy(disk', index', Free, o)
    BY <2>2 DEF Busy
  <2> QED
    BY <1>2, <1>3, <1>4, <1>5, <1>6, <1>7, <1>9, <2>1, <2>3, Acts
<1>11. CASE ~Loads
  <2>1. lock' = lock /\ op' = op
    BY <1>11 DEF Takes
  <2>2. Away(Free, op[p]) /\ op[p] \in Ops
    BY <1>3, Where
  <2>3. op' = [op EXCEPT ![p] = op[p]]
    BY <1>2, <2>1
  <2>4. lock \in {p, Free} /\ lock' \in {p, Free} /\ lost' = lost
    BY <1>3, <2>1
  <2>5. index' \in Indexes /\ kept' \in Chains /\ deleted' \in BOOLEAN
    BY <1>2, <1>3
  <2> QED
    BY <1>5, <1>6, <1>7, <1>9, <2>2, <2>3, <2>4, <2>5, Acts
<1> QED
  BY <1>10, <1>11

LEMMA takeStep ==
  ASSUME IInv, NEW p \in Procs, NEW do \in {"create", "acquire", "append"}, NEW ev \in Events \cup {NoEvent},
         do = "append" => ev \in Events, take(p, do, ev)
  PROVE  IInv'
<1>1. faults' \in 0..MaxFaults
  BY FaultCounts DEF take
<1>2. index.listed \in BOOLEAN
  BY DEF IInv, Typed, Indexes
<1>3. CASE ~index.pruned /\ Takes(p, do, ev, index.listed)
  BY <1>1, <1>2, <1>3, TakesStep
<1>4. CASE index.listed /\ Takes(p, do, ev, FALSE)
  BY <1>1, <1>4, TakesStep
<1> QED
  BY <1>3, <1>4 DEF take

(* The repair leaves the file mended, and as honest as it was.             *)
LEMMA RepairKeeps ==
  ASSUME IInv, NEW f \in Files, disk.file.here,
         f = [disk.file EXCEPT !.lines = mended, !.tail = <<>>]
             \/ f = [disk.file EXCEPT !.lines = mended, !.tail = <<>>, !.durable = Len(mended)],
         disk' = [disk EXCEPT !.file = f], UNCHANGED <<index, kept>>
  PROVE  /\ disk' \in Disks /\ DiskOK(disk', index', kept')
         /\ ~lost /\ ~index'.pruned => HonestOK(disk', index')
<1>1. /\ disk \in Disks /\ disk.file \in Files /\ index \in Indexes /\ kept \in Chains
      /\ DiskOK(disk, index, kept) /\ FileOK(disk.file) /\ (~lost /\ ~index.pruned => HonestOK(disk, index))
  BY DEF IInv, Typed, Disks, DiskOK
<1>2. /\ disk' \in Disks /\ disk'.file = f /\ disk'.head = disk.head
      /\ index' = index /\ kept' = kept
  BY <1>1 DEF Disks
<1>3. f.lines = Mended(disk.file) /\ f.tail = <<>> /\ f.here /\ f.durable \in {disk.file.durable, Len(f.lines)}
  BY <1>1, mendedIs DEF Files
<1>4. FileOK(f) /\ \A k \in Chains : KeptOK(disk.file, k) => KeptOK(f, k)
  <2>1. CASE Mended(disk.file) = disk.file.lines
    BY <1>1, <1>3, <2>1, FileSame
  <2>2. CASE Mended(disk.file) # disk.file.lines
    <3>1. /\ Mended(disk.file) = Append(disk.file.lines, disk.file.tail[1]) /\ disk.file.tail[1] \in Lines
          /\ disk.file.tail[1].ev.seq <= Len(KindAt) + Len(disk.file.lines) + 1
          /\ Len(disk.file.lines) < MaxLines
      BY <1>1, <2>2, MendedIs
    <3> QED
      BY <1>1, <1>3, <3>1, FileGrows
  <2> QED
    BY <2>1, <2>2
<1>5. DiskOK(disk', index', kept')
  BY <1>1, <1>2, <1>4 DEF DiskOK
<1>6. ASSUME ~lost, ~index.pruned PROVE HonestOK(disk', index')
  <2>1. CASE Mended(disk.file) = disk.file.lines
    BY <1>1, <1>2, <1>3, <1>6, <2>1, HonestSame
  <2>2. CASE Mended(disk.file) # disk.file.lines
    <3>1. /\ Mended(disk.file) = Append(disk.file.lines, disk.file.tail[1]) /\ disk.file.tail[1] \in Lines
          /\ disk.file.tail # <<>> /\ disk.file.tail[1].ev # NoEvent
      BY <1>1, <2>2, MendedIs
    <3>2. Follows(disk.file.tail[1], disk.file.lines)
      BY <1>1, <1>6, <3>1 DEF HonestOK, Torn
    <3>3. disk.head # Free /\ (disk.head = <<>> => disk.file.lines = <<>>)
      BY <1>1, <1>6, <3>1 DEF HonestOK, HeadOK
    <3> QED
      BY <1>1, <1>2, <1>3, <1>6, <3>1, <3>2, <3>3, HonestGrows
  <2> QED
    BY <2>1, <2>2
<1> QED
  BY <1>2, <1>5, <1>6

LEMMA LoadRepairsStep ==
  ASSUME IInv, NEW p \in Procs, LoadRepairs(p)
  PROVE  IInv'
<1>1. op[p].pc = "repair" /\ lock = p /\ Loading(disk, index, held[p], op[p]) /\ op[p] \in Ops /\ held[p] = Free
  BY Where DEF LoadRepairs, Loading
<1>2. /\ disk \in Disks /\ disk.file \in Files /\ index \in Indexes /\ kept \in Chains
      /\ deleted \in BOOLEAN /\ DiskOK(disk, index, kept) /\ FileOK(disk.file)
      /\ held \in [Procs -> Handles \cup {Free}] /\ (~lost /\ ~index.pruned => HonestOK(disk, index))
      /\ op \in [Procs -> Ops]
  BY DEF IInv, Typed, Disks, DiskOK
<1>3. /\ index' = index /\ held' = held /\ kept' = kept /\ deleted' = deleted /\ lost' = lost
      /\ disk.file.here /\ (~op[p].blind => ~index.pruned)
  BY <1>1 DEF LoadRepairs, Loading
<1>4. held' = [held EXCEPT ![p] = Free]
  BY <1>1, <1>2, <1>3
<1>5. mended \in Seq(Lines)
  <2>1. disk.file.lines \in Seq(Lines)
    BY <1>2 DEF Files
  <2>2. CASE mended = disk.file.lines
    BY <2>1, <2>2
  <2>3. CASE mended # disk.file.lines
    <3>1. mended = Append(disk.file.lines, disk.file.tail[1]) /\ disk.file.tail[1] \in Lines
      BY <1>2, <2>3, MendedIs, mendedIs
    <3> QED
      BY <2>1, <3>1, Appended
  <2> QED
    BY <2>2, <2>3
<1>6. PICK done : done = [disk.file EXCEPT !.lines = mended, !.tail = <<>>]
  OBVIOUS
<1>7. PICK synced : synced = [disk.file EXCEPT !.lines = mended, !.tail = <<>>, !.durable = Len(mended)]
  OBVIOUS
<1>8. /\ done \in Files /\ synced \in Files /\ synced.lines = mended /\ synced.tail = <<>> /\ synced.here
      /\ synced = [done EXCEPT !.durable = Len(mended)]
  <2>1. Len(mended) \in Nat /\ <<>> \in Seq(Lines)
    BY <1>5
  <2> QED
    BY <1>2, <1>3, <1>5, <1>6, <1>7, <2>1 DEF Files
<1>9. \/ /\ Works /\ disk' = [disk EXCEPT !.file = IF op[p].repaired THEN synced ELSE disk.file]
         /\ op' = [op EXCEPT ![p].pc = "head"] /\ lock' = lock
      \/ /\ Fault /\ disk' \in {[disk EXCEPT !.file = disk.file], [disk EXCEPT !.file = done]} /\ LetGo(p)
  BY <1>6, <1>8 DEF LoadRepairs
<1>10. faults' \in 0..MaxFaults
  BY <1>9, FaultCounts
<1>11. /\ disk' \in Disks /\ DiskOK(disk', index', kept') /\ (~lost /\ ~index'.pruned => HonestOK(disk', index'))
  <2>1. CASE disk' = [disk EXCEPT !.file = disk.file]
    <3>1. disk' = disk
      BY <1>2, <2>1 DEF Disks
    <3> QED
      BY <1>2, <1>3, <3>1
  <2>2. CASE disk' = [disk EXCEPT !.file = done]
    BY <1>3, <1>6, <1>8, <2>2, RepairKeeps
  <2>3. CASE disk' = [disk EXCEPT !.file = synced]
    BY <1>3, <1>7, <1>8, <2>3, RepairKeeps
  <2> QED
    BY <1>9, <2>1, <2>2, <2>3
<1>12. CASE Fault /\ LetGo(p)
  BY <1>1, <1>2, <1>3, <1>4, <1>10, <1>11, <1>12, IdleIsOp, Acts DEF LetGo
<1>13. CASE /\ Works /\ disk' = [disk EXCEPT !.file = IF op[p].repaired THEN synced ELSE disk.file]
            /\ op' = [op EXCEPT ![p].pc = "head"] /\ lock' = lock
  <2>1. PICK o : o = [op[p] EXCEPT !.pc = "head"]
    OBVIOUS
  <2>2. op' = [op EXCEPT ![p] = o] /\ o \in Ops /\ o.pc = "head" /\ o.do = op[p].do
        /\ o.ev = op[p].ev /\ o.repaired = op[p].repaired /\ o.blind = op[p].blind
    BY <1>1, <1>2, <1>13, <2>1 DEF Ops
  <2>3. disk'.head = disk.head /\ disk'.file = IF op[p].repaired THEN synced ELSE disk.file
    BY <1>2, <1>13 DEF Disks
  <2>4. disk'.file.tail = <<>> /\ (disk'.head = Free => disk'.file.lines = <<>>) /\ disk'.file.here
    <3>1. disk.head = Free => mended = <<>>
      BY <1>1, mendedIs DEF Loading
    <3>2. CASE op[p].repaired
      BY <1>8, <2>3, <3>1, <3>2
    <3>3. CASE ~op[p].repaired
      <4>1. disk.file.tail = <<>>
        BY <1>1, <3>3 DEF Loading
      <4>2. mended = disk.file.lines
        BY <4>1, mendedIs DEF Mended
      <4> QED
        BY <1>3, <2>3, <3>1, <3>3, <4>1, <4>2
    <3> QED
      BY <3>2, <3>3
  <2>5. Loading(disk', index', Free, o)
    BY <1>1, <1>3, <2>2, <2>4 DEF Loading, Asked
  <2>6. Busy(disk', index', Free, o) /\ lock \in {p, Free} /\ lock' = p
    BY <1>1, <1>13, <2>5 DEF Busy
  <2>7. index' \in Indexes /\ kept' \in Chains /\ deleted' \in BOOLEAN /\ lost' = lost
    BY <1>2, <1>3
  <2> QED
    BY <1>4, <1>10, <1>11, <2>2, <2>6, <2>7, Acts
<1> QED
  BY <1>9, <1>12, <1>13

LEMMA LoadHeadsStep ==
  ASSUME IInv, NEW p \in Procs, LoadHeads(p)
  PROVE  IInv'
<1>1. op[p].pc = "head" /\ lock = p /\ Loading(disk, index, held[p], op[p]) /\ op[p] \in Ops /\ held[p] = Free
  BY Where DEF LoadHeads, Loading
<1>2. /\ disk \in Disks /\ disk.file \in Files /\ index \in Indexes /\ kept \in Chains
      /\ deleted \in BOOLEAN /\ DiskOK(disk, index, kept) /\ FileOK(disk.file)
      /\ held \in [Procs -> Handles \cup {Free}] /\ (~lost /\ ~index.pruned => HonestOK(disk, index))
      /\ op \in [Procs -> Ops] /\ disk.head \in Chains \cup {Free} /\ disk.file.lines \in Seq(Lines)
  BY DEF IInv, Typed, Disks, DiskOK, Files
<1>3. /\ index' = index /\ held' = held /\ kept' = kept /\ deleted' = deleted /\ lost' = lost
      /\ disk.file.here /\ (~op[p].blind => ~index.pruned) /\ disk.file.tail = <<>>
      /\ disk.head = Free => disk.file.lines = <<>>
  BY <1>1 DEF LoadHeads, Loading
<1>4. held' = [held EXCEPT ![p] = Free]
  BY <1>1, <1>2, <1>3
<1>5. faults' \in 0..MaxFaults
  BY FaultCounts DEF LoadHeads
<1>6. CASE Fault /\ LetGo(p) /\ disk' = disk
  BY <1>1, <1>2, <1>3, <1>4, <1>5, <1>6, IdleIsOp, ActsAlone DEF LetGo
<1>7. CASE disk' = [disk EXCEPT !.head = loadedHead(p)] /\ op' = [op EXCEPT ![p].pc = "list"] /\ lock' = lock
  <2>1. PICK o : o = [op[p] EXCEPT !.pc = "list"]
    OBVIOUS
  <2>2. op' = [op EXCEPT ![p] = o] /\ o \in Ops /\ o.pc = "list" /\ o.do = op[p].do
        /\ o.ev = op[p].ev /\ o.repaired = op[p].repaired /\ o.blind = op[p].blind
    BY <1>1, <1>2, <1>7, <2>1 DEF Ops
  <2>3. Chain(disk.file.lines) \in Chains /\ Len(Chain(disk.file.lines)) = Len(disk.file.lines)
    BY <1>2, ChainIs
  <2>4. /\ loadedHead(p) \in Chains /\ loadedHead(p) # Free
        /\ \/ loadedHead(p) = disk.head /\ (disk.head = <<>> => disk.file.lines = <<>>)
           \/ loadedHead(p) = Chain(disk.file.lines)
    <3>1. CASE disk.head = Free
      <4>1. disk.file.lines = <<>> /\ unlisted(p)
        BY <1>2, <1>3, <3>1 DEF DiskOK, unlisted
      <4>2. loadedHead(p) = <<>>
        BY <3>1, <4>1 DEF loadedHead, lines
      <4>3. Chain(disk.file.lines) = <<>>
        BY <1>2, <4>1, EmptyChain
      <4> QED
        BY <2>3, <4>2, <4>3, FreeAssumption
    <3>2. CASE disk.head # Free /\ Len(disk.file.lines) > Len(disk.head)
      <4>1. loadedHead(p) = Chain(disk.file.lines)
        BY <3>2 DEF loadedHead, lines
      <4> QED
        BY <2>3, <4>1, FreeAssumption
    <3>3. CASE disk.head # Free /\ ~(Len(disk.file.lines) > Len(disk.head))
      <4>1. loadedHead(p) = disk.head
        BY <3>3 DEF loadedHead, lines
      <4>2. disk.head = <<>> => disk.file.lines = <<>>
        BY <1>2, <3>3
      <4> QED
        BY <1>2, <3>3, <4>1, <4>2
    <3> QED
      BY <3>1, <3>2, <3>3
  <2>5. disk' \in Disks /\ disk'.file = disk.file /\ disk'.head = loadedHead(p)
    BY <1>2, <1>7, <2>4 DEF Disks
  <2>6. DiskOK(disk', index', kept')
    BY <1>2, <1>3, <2>4, <2>5 DEF DiskOK
  <2>7. ASSUME ~lost, ~index.pruned PROVE HonestOK(disk', index')
    <3>1. HonestOK(disk, index)
      BY <1>2, <1>3, <2>7
    <3>2. CASE disk'.head = disk.head
      BY <1>2, <1>3, <2>5, <3>1, <3>2, HonestSame
    <3>3. CASE disk'.head = Chain(disk.file.lines)
      BY <1>2, <1>3, <2>5, <3>1, <3>3, HonestHeads
    <3> QED
      BY <2>4, <2>5, <3>2, <3>3
  <2>8. disk'.head = <<>> => disk'.file.lines = <<>>
    BY <1>2, <2>4, <2>5, EmptyChain
  <2>9. Loading(disk', index', Free, o)
    BY <1>1, <1>3, <2>2, <2>4, <2>5, <2>8 DEF Loading, Asked
  <2>10. ~lost /\ ~index'.pruned => HonestOK(disk', index')
    BY <1>3, <2>7
  <2>11. lock' = p /\ Busy(disk', index', Free, o) /\ lock \in {p, Free} /\ lock' \in {p, Free}
    BY <1>1, <1>7, <2>9 DEF Busy
  <2>12. /\ index' \in Indexes /\ kept' \in Chains /\ deleted' \in BOOLEAN /\ lost' = lost
         /\ o \in Ops /\ op' = [op EXCEPT ![p] = o] /\ disk' \in Disks
    BY <1>2, <1>3, <2>2, <2>5
  <2> QED
    BY <1>4, <1>5, <2>6, <2>10, <2>11, <2>12, Acts
<1> QED
  BY <1>6, <1>7 DEF LoadHeads

LEMMA LoadEndsStep ==
  ASSUME IInv, NEW p \in Procs, LoadEnds(p)
  PROVE  IInv'
<1>1. op[p].pc = "list" /\ lock = p /\ Loading(disk, index, held[p], op[p]) /\ op[p] \in Ops /\ held[p] = Free
  BY Where DEF LoadEnds, Loading
<1>2. /\ disk \in Disks /\ disk.file \in Files /\ index \in Indexes /\ kept \in Chains
      /\ deleted \in BOOLEAN /\ DiskOK(disk, index, kept) /\ FileOK(disk.file)
      /\ held \in [Procs -> Handles \cup {Free}] /\ (~lost /\ ~index.pruned => HonestOK(disk, index))
      /\ op \in [Procs -> Ops] /\ disk.head \in Chains \cup {Free} /\ disk.file.lines \in Seq(Lines)
  BY DEF IInv, Typed, Disks, DiskOK, Files
<1>3. /\ disk' = disk /\ kept' = kept /\ deleted' = deleted /\ lost' = lost
      /\ disk.file.here /\ (~op[p].blind => ~index.pruned) /\ disk.file.tail = <<>> /\ disk.head # Free
      /\ disk.head = <<>> => disk.file.lines = <<>>
  BY <1>1 DEF LoadEnds, Loading
<1>4. faults' \in 0..MaxFaults
  BY FaultCounts DEF LoadEnds, indexed, indexFails
<1>5. PICK entry : entry = [index EXCEPT !.listed = TRUE]
  OBVIOUS
<1>6. index' \in {index, entry}
  BY <1>5 DEF LoadEnds, indexed, indexFails
<1>7. index' \in Indexes /\ index'.pruned = index.pruned /\ index'.ends = index.ends
  BY <1>2, <1>3, <1>5, <1>6 DEF Indexes
<1>8. DiskOK(disk', index', kept')
  BY <1>2, <1>3, <1>7 DEF DiskOK
<1>9. ~lost /\ ~index'.pruned => HonestOK(disk', index')
  BY <1>2, <1>3, <1>7 DEF HonestOK
<1>10. CASE LetGo(p) /\ held' = held
  <2>1. held' = [held EXCEPT ![p] = Free]
    BY <1>1, <1>2, <1>10
  <2> QED
    BY <1>1, <1>2, <1>3, <1>4, <1>7, <1>8, <1>9, <1>10, <2>1, IdleIsOp, Acts DEF LetGo
<1>11. CASE /\ held' = [held EXCEPT ![p] =
                 [last |-> Chain(disk.file.lines), synced |-> disk.head, poisoned |-> FALSE, blind |-> op[p].blind]]
            /\ op' = [op EXCEPT ![p] =
                 IF op[p].repaired \/ op[p].do = "append" THEN [op[p] EXCEPT !.pc = "write"] ELSE Idle]
            /\ lock' = lock
  <2>1. PICK h : h = [last |-> Chain(disk.file.lines), synced |-> disk.head, poisoned |-> FALSE, blind |-> op[p].blind]
    OBVIOUS
  <2>2. PICK o : o = IF op[p].repaired \/ op[p].do = "append" THEN [op[p] EXCEPT !.pc = "write"] ELSE Idle
    OBVIOUS
  <2>3. h \in Handles /\ h.last = Chain(disk.file.lines) /\ h.synced = disk.head /\ ~h.poisoned
        /\ h.blind = op[p].blind
    BY <1>1, <1>2, <1>3, <2>1, ChainIs DEF Handles, Ops
  <2>4. HandleOK(disk, h, o)
    BY <1>3, <2>3 DEF HandleOK
  <2>5. o \in Ops /\ Asked(o) /\ o.pc \in {"idle", "write"} /\ (o.pc = "idle" => o = Idle)
        /\ (o.pc = "write" => o.do \in {"append", "acquire"} /\ (o.repaired \/ o.do = "append"))
    <3>1. CASE op[p].repaired \/ op[p].do = "append"
      <4>1. o = [op[p] EXCEPT !.pc = "write"]
        BY <2>2, <3>1
      <4>2. /\ o \in Ops /\ o.pc = "write" /\ o.do = op[p].do /\ o.ev = op[p].ev
            /\ o.repaired = op[p].repaired
        BY <1>1, <4>1 DEF Ops
      <4> QED
        BY <1>1, <3>1, <4>2 DEF Loading, Asked
    <3>2. CASE ~(op[p].repaired \/ op[p].do = "append")
      BY <2>2, <3>2, IdleIsOp DEF Asked
    <3> QED
      BY <3>1, <3>2
  <2>6. Holding(disk', index', h, o)
    BY <1>3, <1>7, <2>3, <2>4, <2>5 DEF Holding
  <2> QED
    BY <1>1, <1>2, <1>3, <1>4, <1>7, <1>8, <1>9, <1>11, <2>1, <2>2, <2>3, <2>5, <2>6, Acts DEF Busy
<1> QED
  BY <1>10, <1>11 DEF LoadEnds, lines

(***************************************************************************)
(* Appending.                                                              *)
(***************************************************************************)

(* The handle stays as it is, and so does the disk.                        *)
LEMMA HolderMoves ==
  ASSUME IInv, NEW p \in Procs, held[p] # Free, NEW o \in Ops, op' = [op EXCEPT ![p] = o],
         UNCHANGED <<disk, index, lock, held, kept, lost>>,
         deleted' \in BOOLEAN, faults' \in 0..MaxFaults,
         o.pc \in {"idle", "write", "sync", "unlock"}, Asked(o), o.pc = "idle" => o = Idle,
         o.pc = "write" => o.do \in {"append", "acquire"} /\ (o.repaired \/ o.do = "append"),
         ~(op[p].pc \in {"sync", "seal"})
  PROVE  IInv'
<1>1. lock = p /\ Holding(disk, index, held[p], op[p]) /\ held[p] \in Handles \cup {Free}
  BY Where
<1>2. held' = [held EXCEPT ![p] = held[p]]
  BY DEF IInv, Typed
<1>3. HandleOK(disk, held[p], o)
  BY <1>1 DEF Holding, HandleOK
<1>4. Busy(disk, index, held[p], o)
  BY <1>1, <1>3 DEF Busy, Holding
<1> QED
  BY <1>1, <1>2, <1>4, ActsAlone

LEMMA AppendBeginsStep ==
  ASSUME IInv, NEW p \in Procs, NEW ev \in Events, AppendBegins(p, ev)
  PROVE  IInv'
<1>1. PICK o : o = [Idle EXCEPT !.pc = "write", !.do = "append", !.ev = ev]
  OBVIOUS
<1>2. o \in Ops /\ o.pc = "write" /\ o.do = "append" /\ o.ev = ev
  BY <1>1 DEF Idle, Ops
<1> QED
  BY <1>1, <1>2, HolderMoves DEF AppendBegins, Asked, IInv, Typed

LEMMA AppendRefusedStep ==
  ASSUME IInv, NEW p \in Procs, AppendRefused(p)
  PROVE  IInv'
<1>1. held[p] # Free
  BY Where DEF AppendRefused
<1> QED
  BY <1>1, IdleIsOp, HolderMoves DEF AppendRefused, Asked, IInv, Typed

LEMMA CloseBeginsStep ==
  ASSUME IInv, NEW p \in Procs, NEW do \in {"sync", "release", "delete"}, CloseBegins(p, do)
  PROVE  IInv'
<1>1. PICK o : o = [Idle EXCEPT !.do = do, !.pc = IF held[p].synced = held[p].last THEN "unlock" ELSE "sync"]
  OBVIOUS
<1>2. o \in Ops /\ o.pc \in {"sync", "unlock"} /\ o.do = do
  BY <1>1 DEF Idle, Ops
<1> QED
  BY <1>1, <1>2, HolderMoves DEF CloseBegins, Asked, IInv, Typed

(* The line an append writes follows the ones there are.                   *)
LEMMA SealedFollows ==
  ASSUME IInv, NEW p \in Procs, CanWrite(p)
  PROVE  /\ lock = p /\ Holding(disk, index, held[p], op[p]) /\ held[p] \in Handles /\ op[p] \in Ops
         /\ sealed(p) \in Lines /\ Follows(sealed(p), disk.file.lines)
         /\ sealed(p).ev = event(p) /\ event(p) \in AnyEvent
         /\ sealed(p).ev.seq <= Len(KindAt) + Len(disk.file.lines) + 1
         /\ disk.file.tail = <<>> /\ disk.head # Free /\ (disk.head = <<>> => disk.file.lines = <<>>)
         /\ Len(disk.file.lines) < MaxLines
<1>1. /\ op[p].pc = "write" /\ ~taken(p) /\ ~held[p].poisoned /\ Len(disk.file.lines) < MaxLines
  BY DEF CanWrite, lines
<1>2. lock = p /\ Holding(disk, index, held[p], op[p]) /\ op[p] \in Ops /\ held[p] \in Handles
  BY <1>1, Where DEF Holding
<1>3. /\ held[p].last = Chain(disk.file.lines) /\ held[p].synced = disk.head /\ disk.file.tail = <<>>
      /\ disk.head = <<>> => disk.file.lines = <<>>
  BY <1>1, <1>2 DEF Holding, HandleOK
<1>4. disk.head # Free
  <2>1. held[p].synced \in Chains
    BY <1>2 DEF Handles
  <2> QED
    BY <1>3, <2>1, FreeAssumption
<1>5. disk.file.lines \in Seq(Lines) /\ Bounded(disk.file.lines)
  BY DEF IInv, Typed, Disks, Files, DiskOK, FileOK
<1>6. PICK n : n = Len(disk.file.lines)
  OBVIOUS
<1>7. n \in Nat /\ n < MaxLines /\ Len(KindAt) \in Nat
  BY <1>1, <1>5, <1>6, StepsAreNumbers
<1>8. event(p) \in AnyEvent /\ event(p).seq > 0 /\ event(p).seq <= Len(KindAt) + n + 1
  <2>1. CASE op[p].repaired
    <3>1. PICK m : m = 1 + Max(Seqs(Chain(disk.file.lines)) \cup {0})
      OBVIOUS
    <3>2. m \in 1..(Len(KindAt) + n + 1)
      BY <1>5, <1>6, <3>1, NextStep
    <3>3. event(p) = Repaired(m)
      BY <1>3, <2>1, <3>1 DEF event
    <3>4. m \in 1..(MaxLines + Len(KindAt))
      BY <1>7, <3>2, BoundsAssumption
    <3>5. Repaired(m) \in AnyEvent
      BY <3>4, StepsAreNumbers
    <3>6. event(p).seq = m
      BY <3>3 DEF Repaired
    <3> QED
      BY <1>7, <3>2, <3>3, <3>5, <3>6
  <2>2. CASE ~op[p].repaired
    <3>1. event(p) \in Events
      BY <1>1, <1>2, <2>2 DEF event, Holding, Asked
    <3>2. event(p) \in AnyEvent /\ event(p).seq \in 1..Len(KindAt)
      BY <3>1, StepsAreNumbers
    <3> QED
      BY <1>7, <3>2
  <2> QED
    BY <2>1, <2>2
<1>9. sealed(p) \in Lines /\ sealed(p).ev = event(p) /\ sealed(p).prev = Chain(disk.file.lines)
  <2>1. Chain(disk.file.lines) \in Chains
    BY <1>5, ChainIs
  <2> QED
    BY <1>3, <1>8, <2>1 DEF sealed, Lines
<1>10. event(p).seq \notin Seqs(Chain(disk.file.lines))
  BY <1>1, <1>3 DEF taken
<1>11. Follows(sealed(p), disk.file.lines)
  BY <1>8, <1>9, <1>10 DEF Follows
<1> QED
  BY <1>1, <1>2, <1>3, <1>4, <1>6, <1>8, <1>9, <1>11

LEMMA WritesStep ==
  ASSUME IInv, NEW p \in Procs, Writes(p)
  PROVE  IInv'
<1>1. PICK l : l = sealed(p)
  OBVIOUS
<1>2. PICK e : e = event(p)
  OBVIOUS
<1>3. /\ lock = p /\ Holding(disk, index, held[p], op[p]) /\ held[p] \in Handles /\ op[p] \in Ops
      /\ l \in Lines /\ Follows(l, disk.file.lines) /\ l.ev = e /\ e \in AnyEvent
      /\ l.ev.seq <= Len(KindAt) + Len(disk.file.lines) + 1
      /\ disk.file.tail = <<>> /\ disk.head # Free /\ (disk.head = <<>> => disk.file.lines = <<>>)
      /\ op[p].pc = "write" /\ Len(disk.file.lines) < MaxLines
  BY <1>1, <1>2, SealedFollows DEF Writes, CanWrite
<1>4. /\ disk \in Disks /\ disk.file \in Files /\ index \in Indexes /\ kept \in Chains
      /\ deleted \in BOOLEAN /\ DiskOK(disk, index, kept) /\ FileOK(disk.file)
      /\ held \in [Procs -> Handles \cup {Free}] /\ (~lost /\ ~index.pruned => HonestOK(disk, index))
      /\ op \in [Procs -> Ops] /\ disk.file.lines \in Seq(Lines) /\ faults \in 0..MaxFaults
  BY DEF IInv, Typed, Disks, DiskOK, Files
<1>5. PICK f : f = [disk.file EXCEPT !.lines = Append(disk.file.lines, l), !.tail = <<>>]
  OBVIOUS
<1>6. PICK h : h = [held[p] EXCEPT !.last = Append(held[p].last, e)]
  OBVIOUS
<1>7. PICK pc : pc = IF boundary(e) \/ held[p].synced = <<>> THEN "sync" ELSE "track"
  OBVIOUS
<1>8. PICK o : o = [op[p] EXCEPT !.pc = pc]
  OBVIOUS
<1>9. /\ disk' = [disk EXCEPT !.file = f] /\ index' = index /\ lock' = lock /\ kept' = kept
      /\ deleted' = deleted /\ lost' = lost /\ faults' = faults
  BY <1>1, <1>3, <1>5 DEF Writes, written, tail
<1>10. held' = [held EXCEPT ![p] = h]
  BY <1>2, <1>4, <1>6 DEF Writes
<1>11. op' = [op EXCEPT ![p] = o]
  BY <1>2, <1>4, <1>7, <1>8 DEF Writes
<1>12. f \in Files /\ f.lines = Append(disk.file.lines, l) /\ f.tail = <<>>
       /\ f.durable = disk.file.durable /\ f.here
  <2>1. Append(disk.file.lines, l) \in Seq(Lines) /\ <<>> \in Seq(Lines)
    BY <1>3, <1>4, Appended
  <2> QED
    BY <1>3, <1>4, <1>5, <2>1 DEF Files, Holding
<1>13. disk' \in Disks /\ disk'.file = f /\ disk'.head = disk.head
  BY <1>4, <1>9, <1>12 DEF Disks
<1>14. FileOK(f) /\ \A k \in Chains : KeptOK(disk.file, k) => KeptOK(f, k)
  BY <1>3, <1>4, <1>12, FileGrows
<1>15. DiskOK(disk', index', kept')
  BY <1>4, <1>9, <1>13, <1>14 DEF DiskOK
<1>16. ~lost /\ ~index'.pruned => HonestOK(disk', index')
  BY <1>3, <1>4, <1>9, <1>12, <1>13, HonestGrows
<1>17. /\ h \in Handles /\ h.last = Chain(f.lines) /\ h.synced = held[p].synced /\ h.poisoned = held[p].poisoned
       /\ h.blind = held[p].blind
  <2>1. held[p].last = Chain(disk.file.lines)
    BY <1>3 DEF Holding, HandleOK
  <2>2. Chain(f.lines) = Append(Chain(disk.file.lines), e)
    BY <1>3, <1>4, <1>12, ChainGrows
  <2>3. Chain(f.lines) \in Chains
    BY <1>12, ChainIs DEF Files
  <2> QED
    BY <1>3, <1>6, <2>1, <2>2, <2>3 DEF Handles
<1>18. o \in Ops /\ o.pc = pc /\ o.do = op[p].do /\ o.ev = op[p].ev /\ pc \in {"sync", "track"}
  BY <1>3, <1>7, <1>8 DEF Ops
<1>19. Holding(disk', index', h, o)
  <2>1. held[p].synced = disk.head /\ held[p].synced = <<>> => pc = "sync"
    BY <1>7
  <2>2. HandleOK(disk', h, o)
    BY <1>3, <1>7, <1>12, <1>13, <1>17, <1>18 DEF Holding, HandleOK
  <2> QED
    BY <1>3, <1>9, <1>12, <1>13, <1>17, <1>18, <2>2 DEF Holding, Asked
<1>20. Busy(disk', index', h, o) /\ lock' = p
  BY <1>3, <1>9, <1>19 DEF Busy
<1>21. index' \in Indexes /\ kept' \in Chains /\ deleted' \in BOOLEAN /\ lost' = lost /\ faults' \in 0..MaxFaults
  BY <1>4, <1>9
<1> QED
  BY <1>3, <1>10, <1>11, <1>13, <1>15, <1>16, <1>17, <1>18, <1>20, <1>21, Acts

(* A line left in part, by a failed write or by a crash.                   *)
LEMMA PartKeeps ==
  ASSUME IInv, NEW p \in Procs, CanWrite(p), NEW part \in Parts(p),
         disk' = [disk EXCEPT !.file.tail = part], UNCHANGED <<index, kept>>
  PROVE  /\ disk' \in Disks /\ disk'.head = disk.head /\ disk'.file.lines = disk.file.lines
         /\ disk'.file.here
         /\ DiskOK(disk', index', kept')
         /\ ~lost /\ ~index'.pruned => HonestOK(disk', index')
<1>1. PICK l : l = sealed(p)
  OBVIOUS
<1>2. /\ l \in Lines /\ Follows(l, disk.file.lines) /\ Holding(disk, index, held[p], op[p])
      /\ l.ev.seq <= Len(KindAt) + Len(disk.file.lines) + 1
      /\ disk.file.tail = <<>> /\ disk.head # Free /\ (disk.head = <<>> => disk.file.lines = <<>>)
      /\ Len(disk.file.lines) < MaxLines
  BY <1>1, SealedFollows
<1>3. /\ disk \in Disks /\ disk.file \in Files /\ index \in Indexes /\ kept \in Chains
      /\ DiskOK(disk, index, kept) /\ FileOK(disk.file)
      /\ (~lost /\ ~index.pruned => HonestOK(disk, index)) /\ disk.file.lines \in Seq(Lines)
      /\ disk.file.here
  BY <1>2 DEF IInv, Typed, Disks, DiskOK, Files, Holding
<1>4. part = <<>> \/ part = <<Torn>> \/ part = <<l>>
  BY <1>1 DEF Parts
<1>5. PICK f : f = [disk.file EXCEPT !.tail = part]
  OBVIOUS
<1>6. part \in Seq(Lines)
  <2>1. \A x \in Lines : <<x>> \in Seq(Lines)
    OBVIOUS
  <2>2. <<>> \in Seq(Lines) /\ Torn \in Lines
    BY StepsAreNumbers
  <2> QED
    BY <1>2, <1>4, <2>1, <2>2
<1>7. f \in Files /\ f.lines = disk.file.lines /\ f.tail = part /\ f.durable = disk.file.durable /\ f.here
  BY <1>3, <1>5, <1>6 DEF Files
<1>8. disk' \in Disks /\ disk'.file = f /\ disk'.head = disk.head
  BY <1>3, <1>5, <1>7 DEF Disks
<1>9. index' = index /\ kept' = kept
  OBVIOUS
<1>10. CASE part = <<>>
  <2>1. FileOK(f) /\ \A k \in Chains : KeptOK(disk.file, k) => KeptOK(f, k)
    BY <1>3, <1>7, <1>10, FileSame
  <2>2. DiskOK(disk', index', kept')
    BY <1>3, <1>8, <1>9, <2>1 DEF DiskOK
  <2>3. ~lost /\ ~index'.pruned => HonestOK(disk', index')
    BY <1>3, <1>7, <1>8, <1>9, <1>10, HonestSame
  <2> QED
    BY <1>3, <1>7, <1>8, <2>2, <2>3
<1>11. ASSUME NEW t \in {Torn, l}, part = <<t>>
       PROVE  DiskOK(disk', index', kept') /\ (~lost /\ ~index'.pruned => HonestOK(disk', index'))
  <2>1. t \in Lines /\ t.ev.seq <= Len(KindAt) + Len(disk.file.lines) + 1
    <3>1. Torn \in Lines /\ Torn.ev.seq = 0 /\ Len(KindAt) \in Nat /\ Len(disk.file.lines) \in Nat
      BY <1>3, StepsAreNumbers DEF Torn, NoEvent
    <3> QED
      BY <1>2, <1>11, <3>1
  <2>2. FileOK(f) /\ \A k \in Chains : KeptOK(disk.file, k) => KeptOK(f, k)
    BY <1>2, <1>3, <1>5, <1>7, <1>11, <2>1, FileTorn
  <2>3. DiskOK(disk', index', kept')
    BY <1>3, <1>8, <1>9, <2>2 DEF DiskOK
  <2>4. t = Torn \/ Follows(t, disk.file.lines)
    BY <1>2
  <2>5. ~lost /\ ~index'.pruned => HonestOK(disk', index')
    BY <1>2, <1>3, <1>7, <1>8, <1>9, <1>11, <2>4, HonestTorn
  <2> QED
    BY <2>3, <2>5
<1> QED
  BY <1>3, <1>4, <1>7, <1>8, <1>10, <1>11

LEMMA WriteFailsStep ==
  ASSUME IInv, NEW p \in Procs, WriteFails(p)
  PROVE  IInv'
<1>1. /\ lock = p /\ Holding(disk, index, held[p], op[p]) /\ held[p] \in Handles
      /\ disk.head = <<>> => disk.file.lines = <<>>
  BY SealedFollows DEF WriteFails
<1>2. /\ index \in Indexes /\ kept \in Chains /\ deleted \in BOOLEAN
      /\ held \in [Procs -> Handles \cup {Free}]
  BY DEF IInv, Typed
<1>3. /\ op' = [op EXCEPT ![p] = Idle] /\ index' = index /\ lock' = lock /\ kept' = kept
      /\ deleted' = deleted /\ lost' = lost /\ CanWrite(p)
  BY DEF WriteFails
<1>4. faults' \in 0..MaxFaults
  BY FaultCounts DEF WriteFails
<1>5. CASE disk' = disk /\ held' = held
  <2>1. held' = [held EXCEPT ![p] = held[p]]
    BY <1>2, <1>5
  <2>2. HandleOK(disk, held[p], Idle)
    BY <1>1 DEF Holding, HandleOK
  <2>3. Busy(disk, index, held[p], Idle)
    BY <1>1, <2>2, IdleIsOp DEF Busy, Holding, Asked
  <2> QED
    BY <1>1, <1>2, <1>3, <1>4, <1>5, <2>1, <2>3, IdleIsOp, ActsAlone
<1>6. ASSUME NEW part \in Parts(p), disk' = [disk EXCEPT !.file.tail = part],
             held' = [held EXCEPT ![p].poisoned = TRUE]
      PROVE  IInv'
  <2>1. PICK h : h = [held[p] EXCEPT !.poisoned = TRUE]
    OBVIOUS
  <2>2. held' = [held EXCEPT ![p] = h]
    BY <1>2, <1>6, <2>1
  <2>3. h \in Handles /\ h.last = held[p].last /\ h.synced = held[p].synced /\ h.poisoned
        /\ h.blind = held[p].blind
    BY <1>1, <2>1 DEF Handles
  <2>4. /\ disk' \in Disks /\ disk'.head = disk.head /\ disk'.file.lines = disk.file.lines
        /\ disk'.file.here /\ DiskOK(disk', index', kept')
        /\ ~lost /\ ~index'.pruned => HonestOK(disk', index')
    BY <1>3, <1>6, PartKeeps
  <2>5. HandleOK(disk', h, Idle)
    BY <1>1, <2>3, <2>4 DEF Holding, HandleOK
  <2>6. Busy(disk', index', h, Idle)
    BY <1>1, <1>3, <2>3, <2>4, <2>5, IdleIsOp DEF Busy, Holding, Asked
  <2> QED
    BY <1>1, <1>2, <1>3, <1>4, <2>2, <2>3, <2>4, <2>6, IdleIsOp, Acts
<1> QED
  BY <1>5, <1>6 DEF WriteFails

(* A sync that failed: the handle is poisoned if it has no head yet.       *)
LEMMA SyncFailedStep ==
  ASSUME IInv, NEW p \in Procs, op[p].pc \in {"sync", "seal"}, SyncFailed(p),
         UNCHANGED <<disk, index, lock, kept, deleted, lost>>
  PROVE  IInv'
<1>1. lock = p /\ Holding(disk, index, held[p], op[p]) /\ held[p] \in Handles /\ op[p] \in Ops
  BY Where DEF Holding
<1>2. deleted \in BOOLEAN /\ held \in [Procs -> Handles \cup {Free}] /\ op \in [Procs -> Ops]
  BY DEF IInv, Typed
<1>3. faults' \in 0..MaxFaults
  BY FaultCounts DEF SyncFailed
<1>4. PICK bad : bad = (held[p].poisoned \/ poisons(p))
  OBVIOUS
<1>5. bad \in BOOLEAN
  BY <1>4
<1>6. PICK h : h = [held[p] EXCEPT !.poisoned = bad]
  OBVIOUS
<1>7. PICK o : o = [op[p] EXCEPT !.pc = "track", !.err = TRUE]
  OBVIOUS
<1>8. held' = [held EXCEPT ![p] = h]
  BY <1>2, <1>4, <1>6 DEF SyncFailed
<1>9. op' = [op EXCEPT ![p] = o]
  BY <1>2, <1>7 DEF SyncFailed
<1>10. h \in Handles /\ h.last = held[p].last /\ h.synced = held[p].synced /\ h.poisoned = bad
       /\ h.blind = held[p].blind
  BY <1>1, <1>5, <1>6 DEF Handles
<1>11. o \in Ops /\ o.pc = "track" /\ o.do = op[p].do /\ o.ev = op[p].ev
  BY <1>1, <1>7 DEF Ops
<1>12. ~h.poisoned => ~held[p].poisoned
  BY <1>4, <1>10
<1>13. held[p].synced = <<>> /\ disk.file.lines # <<>> => h.poisoned
  BY <1>1, <1>4, <1>10 DEF Holding, HandleOK, poisons
<1>14. HandleOK(disk, h, o)
  BY <1>1, <1>10, <1>12, <1>13 DEF Holding, HandleOK
<1>15. Busy(disk, index, h, o)
  BY <1>1, <1>10, <1>11, <1>14 DEF Busy, Holding, Asked
<1> QED
  BY <1>1, <1>2, <1>3, <1>8, <1>9, <1>10, <1>11, <1>15, ActsAlone

LEMMA SyncsStep ==
  ASSUME IInv, NEW p \in Procs, Syncs(p)
  PROVE  IInv'
<1>1. /\ lock = p /\ Holding(disk, index, held[p], op[p]) /\ held[p] \in Handles /\ op[p] \in Ops
      /\ op[p].pc = "sync"
  BY Where DEF Syncs, Holding
<1>2. /\ disk \in Disks /\ disk.file \in Files /\ index \in Indexes /\ kept \in Chains
      /\ deleted \in BOOLEAN /\ DiskOK(disk, index, kept) /\ FileOK(disk.file)
      /\ held \in [Procs -> Handles \cup {Free}] /\ (~lost /\ ~index.pruned => HonestOK(disk, index))
      /\ op \in [Procs -> Ops] /\ disk.file.lines \in Seq(Lines)
  BY DEF IInv, Typed, Disks, DiskOK, Files
<1>3. index' = index /\ lock' = lock /\ kept' = kept /\ deleted' = deleted /\ lost' = lost
  BY DEF Syncs
<1>4. CASE SyncFailed(p) /\ disk' = disk
  BY <1>1, <1>3, <1>4, SyncFailedStep
<1>5. CASE /\ Works /\ disk' = [disk EXCEPT !.file.durable = Len(disk.file.lines)]
           /\ op' = [op EXCEPT ![p].pc = "seal"] /\ held' = held
  <2>1. faults' \in 0..MaxFaults
    BY <1>5, FaultCounts
  <2>2. PICK n : n = Len(disk.file.lines)
    OBVIOUS
  <2>3. n \in Nat
    BY <1>2, <2>2
  <2>4. PICK f : f = [disk.file EXCEPT !.durable = n]
    OBVIOUS
  <2>5. f \in Files /\ f.lines = disk.file.lines /\ f.tail = disk.file.tail /\ f.durable = n /\ f.here
    BY <1>1, <1>2, <2>3, <2>4 DEF Files, Holding
  <2>6. disk' \in Disks /\ disk'.file = f /\ disk'.head = disk.head
    BY <1>2, <1>5, <2>2, <2>4, <2>5 DEF Disks
  <2>7. FileOK(f) /\ \A k \in Chains : KeptOK(disk.file, k) => KeptOK(f, k)
    BY <1>2, <2>2, <2>5, FileSame
  <2>8. DiskOK(disk', index', kept')
    BY <1>2, <1>3, <2>6, <2>7 DEF DiskOK
  <2>9. ~lost /\ ~index'.pruned => HonestOK(disk', index')
    BY <1>2, <1>3, <2>5, <2>6, HonestSame
  <2>10. PICK o : o = [op[p] EXCEPT !.pc = "seal"]
    OBVIOUS
  <2>11. op' = [op EXCEPT ![p] = o] /\ o \in Ops /\ o.pc = "seal" /\ o.do = op[p].do /\ o.ev = op[p].ev
    BY <1>1, <1>2, <1>5, <2>10 DEF Ops
  <2>12. HandleOK(disk', held[p], o)
    BY <1>1, <2>5, <2>6, <2>11 DEF Holding, HandleOK
  <2>13. Busy(disk', index', held[p], o)
    BY <1>1, <1>3, <2>2, <2>5, <2>6, <2>11, <2>12 DEF Busy, Holding, Asked
  <2>14. held' = [held EXCEPT ![p] = held[p]]
    BY <1>2, <1>5
  <2> QED
    BY <1>1, <1>2, <1>3, <2>1, <2>6, <2>8, <2>9, <2>11, <2>13, <2>14, Acts
<1> QED
  BY <1>4, <1>5 DEF Syncs, lines

LEMMA MovesHeadStep ==
  ASSUME IInv, NEW p \in Procs, MovesHead(p)
  PROVE  IInv'
<1>1. /\ lock = p /\ Holding(disk, index, held[p], op[p]) /\ held[p] \in Handles /\ op[p] \in Ops
      /\ op[p].pc = "seal"
  BY Where DEF MovesHead, Holding
<1>2. /\ disk \in Disks /\ disk.file \in Files /\ index \in Indexes /\ kept \in Chains
      /\ deleted \in BOOLEAN /\ DiskOK(disk, index, kept) /\ FileOK(disk.file)
      /\ held \in [Procs -> Handles \cup {Free}] /\ (~lost /\ ~index.pruned => HonestOK(disk, index))
      /\ op \in [Procs -> Ops] /\ disk.file.lines \in Seq(Lines)
  BY DEF IInv, Typed, Disks, DiskOK, Files
<1>3. index' = index /\ lock' = lock /\ deleted' = deleted /\ lost' = lost
  BY DEF MovesHead
<1>4. CASE SyncFailed(p) /\ disk' = disk /\ kept' = kept
  BY <1>1, <1>3, <1>4, SyncFailedStep
<1>5. CASE /\ Works /\ disk' = [disk EXCEPT !.head = held[p].last]
           /\ held' = [held EXCEPT ![p].synced = held[p].last] /\ kept' = held[p].last
           /\ op' = [op EXCEPT ![p].pc = "track"]
  <2>1. faults' \in 0..MaxFaults
    BY <1>5, FaultCounts
  <2>2. PICK c : c = Chain(disk.file.lines)
    OBVIOUS
  <2>3. c \in Chains /\ Len(c) = Len(disk.file.lines) /\ c # Free /\ IsPrefix(c, c)
        /\ (c = <<>> <=> disk.file.lines = <<>>)
    BY <1>2, <2>2, ChainIs, EmptyChain, PrefixOfSelf, FreeAssumption
  <2>4. held[p].last = c /\ disk.file.durable = Len(disk.file.lines)
    BY <1>1, <2>2 DEF Holding, HandleOK
  <2>5. disk' \in Disks /\ disk'.file = disk.file /\ disk'.head = c
    BY <1>2, <1>5, <2>3, <2>4 DEF Disks
  <2>6. KeptOK(disk'.file, kept')
    <3>1. Len(c) <= disk.file.durable
      BY <1>2, <2>3, <2>4
    <3> QED
      BY <1>5, <2>2, <2>3, <2>4, <2>5, <3>1 DEF KeptOK
  <2>7. DiskOK(disk', index', kept')
    BY <1>2, <2>3, <2>5, <2>6 DEF DiskOK
  <2>8. ~lost /\ ~index'.pruned => HonestOK(disk', index')
    BY <1>2, <1>3, <2>2, <2>5, HonestHeads
  <2>9. PICK h : h = [held[p] EXCEPT !.synced = held[p].last]
    OBVIOUS
  <2>10. PICK o : o = [op[p] EXCEPT !.pc = "track"]
    OBVIOUS
  <2>11. held' = [held EXCEPT ![p] = h] /\ op' = [op EXCEPT ![p] = o]
    BY <1>2, <1>5, <2>9, <2>10
  <2>12. h \in Handles /\ h.last = c /\ h.synced = c /\ h.poisoned = held[p].poisoned /\ h.blind = held[p].blind
    BY <1>1, <2>3, <2>4, <2>9 DEF Handles
  <2>13. o \in Ops /\ o.pc = "track" /\ o.do = op[p].do /\ o.ev = op[p].ev
    BY <1>1, <2>10 DEF Ops
  <2>14. HandleOK(disk', h, o)
    BY <1>1, <2>2, <2>3, <2>5, <2>12 DEF Holding, HandleOK
  <2>15. Busy(disk', index', h, o)
    BY <1>1, <1>3, <2>5, <2>12, <2>13, <2>14 DEF Busy, Holding, Asked
  <2>16. kept' \in Chains
    BY <1>5, <2>3, <2>4
  <2> QED
    BY <1>1, <1>2, <1>3, <2>1, <2>5, <2>7, <2>8, <2>11, <2>12, <2>13, <2>15, <2>16, Acts
<1> QED
  BY <1>4, <1>5 DEF MovesHead

LEMMA TracksStep ==
  ASSUME IInv, NEW p \in Procs, Tracks(p)
  PROVE  IInv'
<1>1. /\ lock = p /\ Holding(disk, index, held[p], op[p]) /\ held[p] \in Handles /\ op[p] \in Ops
      /\ op[p].pc = "track"
  BY Where DEF Tracks, Holding
<1>2. /\ disk \in Disks /\ disk.file \in Files /\ index \in Indexes /\ kept \in Chains
      /\ deleted \in BOOLEAN /\ DiskOK(disk, index, kept)
      /\ held \in [Procs -> Handles \cup {Free}] /\ (~lost /\ ~index.pruned => HonestOK(disk, index))
      /\ op \in [Procs -> Ops] /\ disk.file.lines \in Seq(Lines)
  BY DEF IInv, Typed, Disks, Files
<1>3. /\ disk' = disk /\ lock' = lock /\ held' = held /\ kept' = kept /\ deleted' = deleted /\ lost' = lost
      /\ op' = [op EXCEPT ![p] = after(p)]
  BY DEF Tracks
<1>4. faults' \in 0..MaxFaults
  BY FaultCounts DEF Tracks, indexed, indexFails
<1>5. PICK entry : entry = [index EXCEPT !.ends = index.ends \cup {held[p].last}]
  OBVIOUS
<1>6. index' \in {index, entry}
  BY <1>5 DEF Tracks, indexed, indexFails
<1>7. held[p].last = Chain(disk.file.lines) /\ held[p].last \in Chains
  BY <1>1 DEF Holding, HandleOK, Handles
<1>8. /\ index' \in Indexes /\ index'.pruned = index.pruned /\ index'.listed = index.listed
      /\ index'.ends \subseteq index.ends \cup {held[p].last}
  BY <1>2, <1>5, <1>6, <1>7 DEF Indexes
<1>9. DiskOK(disk', index', kept')
  BY <1>2, <1>3, <1>8 DEF DiskOK
<1>10. ASSUME ~lost /\ ~index'.pruned PROVE HonestOK(disk', index')
  <2>1. HonestOK(disk, index) /\ IsPrefix(held[p].last, Chain(disk.file.lines))
    BY <1>2, <1>7, <1>8, <1>10, PrefixOfSelf
  <2> QED
    BY <1>3, <1>8, <2>1 DEF HonestOK
<1>11. PICK o : o = after(p)
  OBVIOUS
<1>12. o \in Ops /\ Asked(o) /\ o.pc \in {"idle", "write", "unlock"} /\ (o.pc = "idle" => o = Idle)
       /\ (o.pc = "write" => o.do = "append")
  <2>1. Asked(op[p])
    BY <1>1 DEF Holding
  <2>2. CASE op[p].do \in {"release", "delete"}
    <3>1. o = [op[p] EXCEPT !.pc = "unlock"]
      BY <1>11, <2>2 DEF after
    <3> QED
      BY <1>1, <2>1, <3>1 DEF Ops, Asked
  <2>3. CASE op[p].repaired /\ op[p].do = "append" /\ ~op[p].err
    <3>1. o = [op[p] EXCEPT !.pc = "write", !.repaired = FALSE]
      BY <1>11, <2>3 DEF after
    <3> QED
      BY <1>1, <2>1, <2>3, <3>1 DEF Ops, Asked
  <2>4. CASE ~(op[p].do \in {"release", "delete"}) /\ ~(op[p].repaired /\ op[p].do = "append" /\ ~op[p].err)
    <3>1. o = Idle
      BY <1>11, <2>4 DEF after
    <3> QED
      BY <3>1, IdleIsOp DEF Asked
  <2> QED
    BY <2>2, <2>3, <2>4
<1>13. HandleOK(disk', held[p], o)
  BY <1>1, <1>3 DEF Holding, HandleOK
<1>14. Busy(disk', index', held[p], o)
  BY <1>1, <1>3, <1>8, <1>12, <1>13 DEF Busy, Holding
<1>15. held' = [held EXCEPT ![p] = held[p]]
  BY <1>2, <1>3
<1> QED
  BY <1>1, <1>2, <1>3, <1>4, <1>8, <1>9, <1>10, <1>11, <1>12, <1>14, <1>15, Acts

(***************************************************************************)
(* Letting go, pruning and dying.                                          *)
(***************************************************************************)

LEMMA UnlocksStep ==
  ASSUME IInv, NEW p \in Procs, Unlocks(p)
  PROVE  IInv'
<1>1. lock = p
  BY Where DEF Unlocks
<1>2. PICK o : o = IF op[p].do = "delete" /\ ~op[p].err THEN [Idle EXCEPT !.pc = "prune", !.do = "delete"] ELSE Idle
  OBVIOUS
<1>3. o \in Ops /\ Away(Free, o)
  BY <1>2, IdleIsOp DEF Idle, Ops, Away
<1>4. deleted' \in BOOLEAN /\ faults' \in 0..MaxFaults
  BY DEF Unlocks, IInv, Typed
<1> QED
  BY <1>1, <1>2, <1>3, <1>4, ActsAlone DEF Unlocks

LEMMA DeleteFindsNoneStep ==
  ASSUME IInv, NEW p \in Procs, DeleteFindsNone(p)
  PROVE  IInv'
<1>1. /\ op[p].pc \in {"idle", "prune"} /\ op' = [op EXCEPT ![p] = Idle] /\ deleted' \in BOOLEAN
      /\ UNCHANGED <<disk, index, lock, held, kept, lost>>
  BY DEF DeleteFindsNone
<1>2. faults' \in 0..MaxFaults
  BY FaultCounts DEF DeleteFindsNone
<1>3. CASE held[p] = Free
  <2>1. Away(held[p], op[p])
    BY <1>1, <1>3, Where
  <2> QED
    BY <1>1, <1>2, <2>1, IdleIsOp, StaysAway
<1>4. CASE held[p] # Free
  BY <1>1, <1>2, <1>4, IdleIsOp, HolderMoves DEF Asked
<1> QED
  BY <1>3, <1>4

LEMMA PruneLocksStep ==
  ASSUME IInv, NEW p \in Procs, NEW do \in {"prune", "delete"}, PruneLocks(p, do)
  PROVE  IInv'
<1>1. Away(held[p], op[p]) /\ held[p] = Free /\ ~index.pruned
  BY Where DEF PruneLocks
<1>2. deleted' \in BOOLEAN /\ faults' \in 0..MaxFaults
  BY DEF PruneLocks, IInv, Typed
<1>3. CASE lock = Free
  <2>1. PICK o : o = [Idle EXCEPT !.pc = "tomb", !.do = do]
    OBVIOUS
  <2>2. o \in Ops /\ o.pc = "tomb"
    BY <2>1 DEF Idle, Ops
  <2>3. held' = [held EXCEPT ![p] = Free]
    BY <1>1 DEF PruneLocks, IInv, Typed
  <2>4. Busy(disk, index, Free, o)
    BY <1>1, <2>2 DEF Busy, Pruning
  <2> QED
    BY <1>2, <1>3, <2>1, <2>2, <2>3, <2>4, ActsAlone DEF PruneLocks
<1>4. CASE lock # Free
  BY <1>1, <1>2, <1>4, IdleIsOp, StaysAway DEF PruneLocks
<1> QED
  BY <1>3, <1>4

LEMMA WritesTombstoneStep ==
  ASSUME IInv, NEW p \in Procs, WritesTombstone(p)
  PROVE  IInv'
<1>1. lock = p /\ Pruning(index, held[p], op[p]) /\ held[p] = Free /\ op[p] \in Ops /\ op[p].pc = "tomb"
  BY Where DEF WritesTombstone
<1>2. /\ disk \in Disks /\ index \in Indexes /\ kept \in Chains
      /\ deleted \in BOOLEAN /\ DiskOK(disk, index, kept)
      /\ held \in [Procs -> Handles \cup {Free}] /\ (~lost /\ ~index.pruned => HonestOK(disk, index))
      /\ op \in [Procs -> Ops]
  BY DEF IInv, Typed
<1>3. /\ disk' = disk /\ held' = held /\ kept' = kept /\ deleted' = deleted /\ lost' = lost
  BY DEF WritesTombstone
<1>4. faults' \in 0..MaxFaults
  BY FaultCounts DEF WritesTombstone, indexed, indexFails
<1>5. PICK entry : entry = [index EXCEPT !.pruned = TRUE]
  OBVIOUS
<1>6. entry \in Indexes /\ entry.pruned
  BY <1>2, <1>5 DEF Indexes
<1>7. index' \in {index, entry}
  BY <1>5 DEF WritesTombstone, indexed, indexFails
<1>8. index' \in Indexes /\ DiskOK(disk', index', kept')
  BY <1>2, <1>3, <1>6, <1>7 DEF DiskOK
<1>9. ~lost /\ ~index'.pruned => HonestOK(disk', index')
  BY <1>2, <1>3, <1>6, <1>7
<1>10. held' = [held EXCEPT ![p] = Free]
  BY <1>1, <1>2, <1>3
<1>11. CASE LetGo(p)
  BY <1>1, <1>2, <1>3, <1>4, <1>8, <1>9, <1>10, <1>11, IdleIsOp, Acts DEF LetGo
<1>12. CASE index' = entry /\ op' = [op EXCEPT ![p].pc = "remove"] /\ lock' = lock
  <2>1. PICK o : o = [op[p] EXCEPT !.pc = "remove"]
    OBVIOUS
  <2>2. op' = [op EXCEPT ![p] = o] /\ o \in Ops /\ o.pc = "remove"
    BY <1>1, <1>2, <1>12, <2>1 DEF Ops
  <2>3. Busy(disk', index', Free, o)
    BY <1>6, <1>12, <2>2 DEF Busy, Pruning
  <2> QED
    BY <1>1, <1>2, <1>3, <1>4, <1>8, <1>9, <1>10, <1>12, <2>2, <2>3, Acts
<1> QED
  BY <1>5, <1>11, <1>12 DEF WritesTombstone, indexed

LEMMA NoFileIsOK == NoFile \in Files /\ FileOK(NoFile)
BY BoundsAssumption DEF NoFile, Files, FileOK, Bounded

LEMMA RemovesStep ==
  ASSUME IInv, NEW p \in Procs, Removes(p)
  PROVE  IInv'
<1>1. lock = p /\ Pruning(index, held[p], op[p]) /\ held[p] = Free /\ op[p] \in Ops /\ op[p].pc = "remove"
  BY Where DEF Removes
<1>2. index.pruned
  BY <1>1 DEF Pruning
<1>3. /\ disk \in Disks /\ index \in Indexes /\ kept \in Chains /\ FileOK(disk.file)
      /\ deleted \in BOOLEAN /\ held \in [Procs -> Handles \cup {Free}]
  BY DEF IInv, Typed, DiskOK
<1>4. index' = index /\ held' = held /\ kept' = kept /\ lost' = lost /\ LetGo(p)
  BY DEF Removes
<1>5. faults' \in 0..MaxFaults
  BY FaultCounts DEF Removes
<1>6. deleted' \in BOOLEAN
  BY <1>3 DEF Removes
<1>7. disk' \in Disks /\ FileOK(disk'.file)
  BY <1>3, NoFileIsOK DEF Removes, Disks
<1>8. DiskOK(disk', index', kept')
  BY <1>2, <1>4, <1>7 DEF DiskOK
<1>9. held' = [held EXCEPT ![p] = Free]
  BY <1>1, <1>3, <1>4
<1> QED
  BY <1>1, <1>2, <1>3, <1>4, <1>5, <1>6, <1>7, <1>8, <1>9, IdleIsOp, Acts DEF LetGo

LEMMA CrashStep ==
  ASSUME IInv, NEW p \in Procs, Crash(p)
  PROVE  IInv'
<1>1. /\ index \in Indexes /\ kept \in Chains /\ disk \in Disks
      /\ deleted \in BOOLEAN /\ held \in [Procs -> Handles \cup {Free}]
  BY DEF IInv, Typed
<1>2. /\ index' = index /\ kept' = kept /\ deleted' = deleted /\ lost' = lost
      /\ held' = [held EXCEPT ![p] = Free] /\ op' = [op EXCEPT ![p] = Idle]
  BY DEF Crash
<1>3. faults' \in 0..MaxFaults
  BY FaultCounts DEF Crash
<1>4. CASE lock # p
  <2>1. Away(held[p], op[p]) /\ held[p] = Free /\ op[p].pc \notin {"write"} /\ lock' = lock
    BY <1>4 DEF IInv, ProcOK, Away, Crash
  <2>2. disk' = disk
    BY <2>1 DEF Crash, CanWrite
  <2>3. held' = held
    BY <1>1, <1>2, <2>1
  <2> QED
    BY <1>1, <1>2, <1>3, <2>1, <2>2, <2>3, IdleIsOp, StaysAway
<1>5. CASE lock = p /\ ~CanWrite(p)
  <2>1. disk' = disk /\ lock' = Free
    BY <1>5 DEF Crash
  <2> QED
    BY <1>1, <1>2, <1>3, <1>5, <2>1, IdleIsOp, ActsAlone
<1>6. CASE lock = p /\ CanWrite(p)
  <2>1. PICK part \in Parts(p) : disk' = [disk EXCEPT !.file.tail = part]
    BY <1>6 DEF Crash
  <2>2. /\ disk' \in Disks /\ DiskOK(disk', index', kept')
        /\ ~lost /\ ~index'.pruned => HonestOK(disk', index')
    BY <1>2, <1>6, <2>1, PartKeeps
  <2>3. lock' = Free
    BY <1>6 DEF Crash
  <2> QED
    BY <1>1, <1>2, <1>3, <1>6, <2>2, <2>3, IdleIsOp, Acts
<1> QED
  BY <1>4, <1>5, <1>6

LEMMA PowerLossStep ==
  ASSUME IInv, PowerLoss
  PROVE  IInv'
<1>1. /\ disk \in Disks /\ disk.file \in Files /\ index \in Indexes /\ kept \in Chains /\ deleted \in BOOLEAN
      /\ DiskOK(disk, index, kept) /\ FileOK(disk.file)
      /\ disk.file.lines \in Seq(Lines) /\ disk.file.durable \in Nat /\ Len(disk.file.lines) \in Nat
  BY DEF IInv, Typed, DiskOK, Disks, Files
<1>2. /\ index' = index /\ kept' = kept /\ deleted' = deleted /\ lost' = TRUE /\ lock' = Free
      /\ held' = [p \in Procs |-> Free] /\ op' = [p \in Procs |-> Idle]
  BY DEF PowerLoss
<1>3. faults' \in 0..MaxFaults
  BY FaultCounts DEF PowerLoss
<1>4. PICK n \in disk.file.durable..Len(disk.file.lines) :
      \E t \in {<<>>} \cup (IF n < Len(disk.file.lines) \/ disk.file.tail # <<>> THEN {<<Torn>>} ELSE {}) :
        disk' = [disk EXCEPT !.file =
          [disk.file EXCEPT !.lines = SubSeq(disk.file.lines, 1, n), !.tail = t, !.durable = n]]
  BY <1>1 DEF PowerLoss, lines, tail, Disks
<1>5. PICK t \in {<<>>} \cup (IF n < Len(disk.file.lines) \/ disk.file.tail # <<>> THEN {<<Torn>>} ELSE {}) :
        disk' = [disk EXCEPT !.file =
          [disk.file EXCEPT !.lines = SubSeq(disk.file.lines, 1, n), !.tail = t, !.durable = n]]
  BY <1>4
<1>6. PICK ls : ls = SubSeq(disk.file.lines, 1, n)
  OBVIOUS
<1>7. n \in 0..Len(disk.file.lines) /\ n \in Nat /\ disk.file.durable <= n
  BY <1>1, <1>4
<1>8. ls \in Seq(Lines) /\ Len(ls) = n /\ \A i \in 1..n : ls[i] = disk.file.lines[i]
  BY <1>1, <1>6, <1>7, Firsts
<1>9. PICK f : f = [disk.file EXCEPT !.lines = ls, !.tail = t, !.durable = n]
  OBVIOUS
<1>10. t \in Seq(Lines) /\ (t # <<>> => t = <<Torn>> /\ (n < Len(disk.file.lines) \/ disk.file.tail # <<>>))
  <2>1. <<Torn>> \in Seq(Lines) /\ <<>> \in Seq(Lines)
    <3>1. \A x \in Lines : <<x>> \in Seq(Lines)
      OBVIOUS
    <3> QED
      BY <3>1, StepsAreNumbers
  <2> QED
    BY <1>5, <2>1
<1>11. /\ f \in Files /\ f.lines = ls /\ f.tail = t /\ f.durable = n
       /\ f.here <=> disk.file.here
  BY <1>1, <1>7, <1>8, <1>9, <1>10 DEF Files
<1>12. disk' \in Disks /\ disk'.file = f /\ disk'.head = disk.head
  BY <1>1, <1>5, <1>6, <1>9, <1>11 DEF Disks
<1>13. FileOK(f)
  <2>1. f.durable <= Len(f.lines)
    BY <1>7, <1>8, <1>11
  <2>2. Bounded(f.lines)
    <3>1. \A i \in 1..n : i \in 1..Len(disk.file.lines)
      BY <1>1, <1>7
    <3> QED
      BY <1>1, <1>8, <1>11, <3>1 DEF FileOK, Bounded
  <2>3. ASSUME t # <<>> PROVE n < MaxLines
    <3>1. CASE disk.file.tail # <<>>
      BY <1>1, <1>7, <3>1, BoundsAssumption DEF FileOK
    <3>2. CASE n < Len(disk.file.lines)
      BY <1>1, <1>7, <3>2, BoundsAssumption DEF FileOK
    <3> QED
      BY <1>10, <2>3, <3>1, <3>2
  <2>4. ASSUME t # <<>> PROVE Len(f.tail) = 1 /\ f.tail[1].ev.seq <= Len(KindAt) + Len(f.lines) + 1
    <3>1. f.tail = <<Torn>> /\ f.tail[1] = Torn
      BY <1>10, <1>11, <2>4
    <3>2. Torn.ev.seq = 0 /\ Len(KindAt) \in Nat
      BY StepsAreNumbers DEF Torn, NoEvent
    <3> QED
      BY <1>7, <1>8, <1>11, <3>1, <3>2
  <2>5. Len(f.lines) <= MaxLines
    BY <1>1, <1>7, <1>8, <1>11, BoundsAssumption DEF FileOK
  <2>6. ~f.here => f.lines = <<>> /\ f.tail = <<>>
    <3> SUFFICES ASSUME ~f.here PROVE f.lines = <<>> /\ f.tail = <<>>
      OBVIOUS
    <3>1. disk.file.lines = <<>> /\ disk.file.tail = <<>>
      BY <1>1, <1>11 DEF FileOK
    <3>2. n = 0
      BY <1>7, <3>1
    <3> QED
      BY <1>8, <1>10, <1>11, <3>1, <3>2
  <2> QED
    BY <1>8, <1>11, <2>1, <2>2, <2>3, <2>4, <2>5, <2>6 DEF FileOK
<1>14. ASSUME ~index.pruned PROVE KeptOK(f, kept)
  <2>1. Len(kept) <= disk.file.durable /\ IsPrefix(kept, Chain(disk.file.lines)) /\ Len(kept) \in Nat
    BY <1>1, <1>14 DEF DiskOK, KeptOK, Chains
  <2>2. Len(kept) <= n
    BY <1>1, <1>7, <2>1
  <2>3. IsPrefix(kept, Chain(ls))
    BY <1>1, <1>6, <1>7, <2>1, <2>2, PrefixSurvives
  <2> QED
    BY <1>11, <2>2, <2>3 DEF KeptOK
<1>15. DiskOK(disk', index', kept')
  BY <1>1, <1>2, <1>12, <1>13, <1>14 DEF DiskOK
<1>16. Typed'
  <2>1. held' \in [Procs -> Handles \cup {Free}] /\ op' \in [Procs -> Ops]
    BY <1>2, IdleIsOp
  <2> QED
    BY <1>1, <1>2, <1>3, <1>12, <2>1 DEF Typed
<1>17. \A p \in Procs : Away(held'[p], op'[p])
  BY <1>2, IdleIsOp
<1>18. (\A p \in Procs : ProcOK(p))'
  BY <1>17 DEF ProcOK, Away
<1>19. DiskOK(disk, index, kept)'
  BY <1>15 DEF DiskOK, FileOK, KeptOK
<1> QED
  BY <1>2, <1>16, <1>18, <1>19 DEF IInv

LEMMA IInvStep == IInv /\ [Next]_vars => IInv'
<1> SUFFICES ASSUME IInv, [Next]_vars PROVE IInv'
  OBVIOUS
<1>1. ASSUME UNCHANGED vars PROVE IInv'
  BY <1>1 DEF vars, IInv, Typed, DiskOK, FileOK, KeptOK, HonestOK, HeadOK,
     ProcOK, Away, Busy, Loading, Holding, Pruning, HandleOK
<1>2. ASSUME NEW p \in Procs, NEW do \in {"create", "acquire"}, take(p, do, NoEvent) PROVE IInv'
  BY <1>2, takeStep
<1>3. ASSUME NEW p \in Procs, NEW ev \in Events, take(p, "append", ev) PROVE IInv'
  BY <1>3, takeStep
<1>4. ASSUME NEW p \in Procs, Step(p) PROVE IInv'
  BY <1>2, <1>3, <1>4, AppendBeginsStep, LoadRepairsStep, LoadHeadsStep, LoadEndsStep,
     AppendRefusedStep, WritesStep, WriteFailsStep, SyncsStep, MovesHeadStep, TracksStep,
     CloseBeginsStep, UnlocksStep, DeleteFindsNoneStep, PruneLocksStep,
     WritesTombstoneStep, RemovesStep, CrashStep DEF Step
<1> QED
  BY <1>1, <1>4, PowerLossStep DEF Next

THEOREM IInvHolds == Spec => []IInv
BY IInvInit, IInvStep, PTL DEF Spec

(* The types of the record's state hold throughout, for any number of      *)
(* processes, events and lines: a file's tail is one line at most, what is *)
(* durable of it is no more than there is, and its events are the callers' *)
(* or repairs, whose steps stay within their bound.                        *)
THEOREM TypeCorrect == Spec => []TypeOK
<1>1. IInv => TypeOK
  <2> SUFFICES ASSUME IInv PROVE TypeOK
    OBVIOUS
  <2>1. Typed /\ FileOK(disk.file)
    BY DEF IInv, DiskOK
  <2>2. /\ disk \in Disks /\ disk.file \in Files /\ disk.file.lines \in Seq(Lines)
        /\ disk.file.durable \in Nat /\ disk.head \in Chains \cup {Free} /\ disk.file.here \in BOOLEAN
    BY <2>1 DEF Typed, Disks, Files
  <2>3. Len(disk.file.tail) <= 1
    <3>1. disk.file.tail = <<>> \/ Len(disk.file.tail) = 1
      BY <2>1 DEF FileOK
    <3>2. Len(<<>>) = 0
      OBVIOUS
    <3>3. CASE disk.file.tail = <<>>
      BY <3>2, <3>3
    <3>4. CASE Len(disk.file.tail) = 1
      BY <3>4
    <3> QED
      BY <3>1, <3>3, <3>4
  <2>4. disk.file.durable \in 0..Len(disk.file.lines)
    BY <2>1, <2>2 DEF FileOK
  <2>5. Chain(disk.file.lines) \in Chains
    BY <2>2, ChainIs
  <2>6. index.listed \in BOOLEAN /\ index.pruned \in BOOLEAN /\ index.ends \subseteq Chains
    BY <2>1 DEF Typed, Indexes
  <2>7. \A p \in Procs : held[p] # Free =>
          held[p].last \in Chains /\ held[p].synced \in Chains /\ {held[p].poisoned, held[p].blind} \subseteq BOOLEAN
    BY <2>1 DEF Typed, Handles
  <2>8. ASSUME NEW p \in Procs, op[p].pc = "idle" PROVE op[p] = Idle
    BY <2>8 DEF IInv, ProcOK, Away, Busy, Loading, Holding, Pruning
  <2>9. {deleted, lost} \subseteq BOOLEAN
    BY <2>1 DEF Typed
  <2> QED
    BY <2>1, <2>2, <2>3, <2>4, <2>5, <2>6, <2>7, <2>8, <2>9 DEF TypeOK, Typed, lines, tail
<1> QED
  BY <1>1, IInvHolds, PTL

(* What was synced under a head stays, whatever fails, dies or loses power *)
(* and whoever repairs it, until the session is pruned: it is within what  *)
(* is durable, and only lines past it are ever cut.                        *)
THEOREM SyncedStays == Spec => []SyncedIsKept
<1>1. IInv => SyncedIsKept
  BY DEF IInv, DiskOK, KeptOK, SyncedIsKept, lines
<1> QED
  BY <1>1, IInvHolds, PTL

(* Without a loss of power every crash and every failed call leaves a      *)
(* record that loads and verifies.                                         *)
THEOREM RecordVerifies == Spec => []HonestRecordVerifies
<1>1. IInv => HonestRecordVerifies
  <2> SUFFICES ASSUME IInv, ~lost, ~index.pruned PROVE Loads /\ Verify
    BY DEF HonestRecordVerifies
  <2>1. /\ disk \in Disks /\ disk.file \in Files /\ FileOK(disk.file) /\ HonestOK(disk, index)
        /\ disk.file.lines \in Seq(Lines) /\ index \in Indexes /\ disk.head \in Chains \cup {Free}
    BY DEF IInv, Typed, DiskOK, Disks, Files
  <2>2. checkHead(disk.file.lines)
    BY <2>1 DEF HonestOK, HeadOK, checkHead
  <2>3. Verify
    BY <2>1, <2>2 DEF Verify, HonestOK, lines
  <2>4. verifyLines(mended) /\ checkHead(mended)
    <3>1. CASE mended = disk.file.lines
      BY <2>1, <2>2, <3>1 DEF HonestOK
    <3>2. CASE mended # disk.file.lines
      <4>1. PICK l : l = disk.file.tail[1]
        OBVIOUS
      <4>2. /\ mended = Append(disk.file.lines, l) /\ l \in Lines
            /\ disk.file.tail # <<>> /\ l.ev # NoEvent
        BY <2>1, <3>2, <4>1, MendedIs, mendedIs
      <4>3. Follows(l, disk.file.lines)
        BY <2>1, <4>1, <4>2 DEF HonestOK, Torn
      <4>4. /\ disk.head # Free /\ (disk.head = <<>> => disk.file.lines = <<>>)
            /\ IsPrefix(disk.head, Chain(disk.file.lines))
        BY <2>1, <4>2 DEF HonestOK, HeadOK
      <4>5. verifyLines(mended)
        BY <2>1, <4>2, <4>3, VerifyGrows DEF HonestOK
      <4>6. IsPrefix(disk.head, Chain(mended))
        BY <2>1, <4>2, <4>4, PrefixGrows
      <4>7. disk.head = <<>> => Len(mended) <= 1
        BY <2>1, <4>2, <4>4, Appended
      <4> QED
        BY <4>4, <4>5, <4>6, <4>7 DEF checkHead
    <3> QED
      BY <3>1, <3>2
  <2>5. disk.file.tail = <<>> \/ repair # "keep"
    <3> SUFFICES ASSUME disk.file.tail # <<>> PROVE repair # "keep"
      OBVIOUS
    <3>1. disk.head # Free => Len(disk.head) <= Len(disk.file.lines)
      <4>1. Len(Chain(disk.file.lines)) = Len(disk.file.lines)
        BY <2>1, ChainIs
      <4> QED
        BY <2>1, <4>1 DEF HonestOK, HeadOK, IsPrefix
    <3>2. ~(disk.head # Free /\ Len(disk.head) > Len(disk.file.lines))
      <4>1. disk.head # Free => Len(disk.head) \in Nat
        BY <2>1 DEF Chains
      <4> QED
        BY <2>1, <3>1, <4>1
    <3> QED
      BY <3>2 DEF repair, tail, lines
  <2> QED
    BY <2>3, <2>4, <2>5 DEF Loads, tail
<1> QED
  BY <1>1, IInvHolds, PTL

(* What PrunedIsFinal says of a step.                                      *)
Final ==
  index.pruned /\ (\A p \in Procs : ~Blind(p)) =>
    Len(lines') <= Len(lines) /\ disk'.head \in {disk.head, Free}

(* Once pruned, a session gets no line and no head from a process that     *)
(* could read the index: none such has a handle on it or is loading it,    *)
(* and one that takes the lock later sees the tombstone.                   *)
THEOREM PruneIsLast == Spec => PrunedIsFinal
<1>1. IInv /\ [Next]_vars => [Final]_vars
  <2> SUFFICES ASSUME IInv, Next, index.pruned, \A p \in Procs : ~Blind(p)
               PROVE  Len(disk'.file.lines) <= Len(disk.file.lines) /\ disk'.head \in {disk.head, Free}
    BY DEF Final, lines
  <2>1. /\ disk \in Disks /\ disk.file \in Files /\ disk.file.lines \in Seq(Lines)
        /\ disk.file.durable \in Nat /\ Len(disk.file.lines) \in Nat
    BY DEF IInv, Typed, Disks, Files
  <2>2. CASE disk' = disk
    BY <2>1, <2>2
  <2>3. CASE PowerLoss
    <3>1. PICK n \in disk.file.durable..Len(disk.file.lines) :
            disk'.head = disk.head /\ disk'.file.lines = SubSeq(disk.file.lines, 1, n)
      <4>1. PICK n \in disk.file.durable..Len(disk.file.lines) : \E t :
              disk' = [disk EXCEPT !.file =
                [disk.file EXCEPT !.lines = SubSeq(disk.file.lines, 1, n), !.tail = t, !.durable = n]]
        BY <2>1, <2>3 DEF PowerLoss, lines, tail, Disks
      <4> QED
        BY <2>1, <4>1 DEF Disks, Files
    <3>2. n \in 0..Len(disk.file.lines) /\ n <= Len(disk.file.lines)
      BY <2>1, <3>1
    <3>3. Len(SubSeq(disk.file.lines, 1, n)) = n
      BY <2>1, <3>2, Firsts
    <3> QED
      BY <3>1, <3>2, <3>3
  <2>4. ASSUME NEW p \in Procs, Step(p), disk' # disk
        PROVE  disk'.file.lines \in {<<>>, disk.file.lines} /\ disk'.head \in {disk.head, Free}
    <3>1. held[p] = Free /\ op[p].pc \in {"idle", "prune", "remove"}
      BY Where
    <3>2. CASE disk' = [disk EXCEPT !.file.here = TRUE]
      BY <2>1, <3>2 DEF Disks, Files
    <3>3. CASE Removes(p)
      BY <2>1, <2>4, <3>3 DEF Removes, NoFile, Disks
    <3>4. disk' = [disk EXCEPT !.file.here = TRUE] \/ Removes(p)
      BY <2>4, <3>1 DEF Step, take, Takes, AppendBegins, LoadRepairs, LoadHeads, LoadEnds, AppendRefused,
         Writes, WriteFails, CanWrite, Syncs, MovesHead, Tracks, CloseBegins, Unlocks,
         DeleteFindsNone, PruneLocks, WritesTombstone, Crash
    <3> QED
      BY <3>2, <3>3, <3>4
  <2>5. Len(<<>>) <= Len(disk.file.lines)
    BY <2>1
  <2> QED
    BY <2>1, <2>2, <2>3, <2>4, <2>5 DEF Next
<1>2. Spec => [][Final]_vars
  BY <1>1, IInvHolds, PTL DEF Spec
<1> QED
  BY <1>2 DEF PrunedIsFinal, Final
=============================================================================
