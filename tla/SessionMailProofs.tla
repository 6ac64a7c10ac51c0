-------------------------- MODULE SessionMailProofs --------------------------
(***************************************************************************)
(* Proofs about SessionGate: its mailboxes, tasks and permits, for any     *)
(* messages, conversations and bounds.                                     *)
(*                                                                         *)
(* The inductive invariant GateInv says for each conversation what its     *)
(* task, mailbox, batch and turn have to do with each other, and once for  *)
(* the gate what the arrival order and the permits are.  It is proved in   *)
(* three parts: what each operator makes of an entry (the ...Is lemmas);   *)
(* that each action keeps the invariant of its own conversation and        *)
(* touches no other (the ...Keeps lemmas); and that this is enough for     *)
(* the whole gate (GateStep).                                              *)
(***************************************************************************)
EXTENDS SessionGateProofs, FiniteSetTheorems, WellFoundedInduction

Upto(S, i) == {j \in S : j <= i}

\* The places of a finite set of naturals, in their order.
LEMMA CountsOf ==
  ASSUME NEW S, S \subseteq Nat, IsFiniteSet(S)
  PROVE  /\ Cardinality(S) \in Nat
         /\ \A i \in S : Cardinality(Upto(S, i)) \in 1..Cardinality(S)
         /\ \A i, j \in S : i < j => Cardinality(Upto(S, i)) < Cardinality(Upto(S, j))
<1>1. \A i \in S : /\ IsFiniteSet(Upto(S, i)) /\ Cardinality(Upto(S, i)) \in Nat
                   /\ Cardinality(Upto(S, i)) <= Cardinality(S)
                   /\ Upto(S, i) # {}
  <2> TAKE i \in S
  <2>1. Upto(S, i) \in SUBSET S /\ i \in Upto(S, i)
    BY DEF Upto
  <2>2. /\ IsFiniteSet(Upto(S, i)) /\ Cardinality(Upto(S, i)) <= Cardinality(S)
    BY <2>1, FS_Subset
  <2> QED BY <2>1, <2>2, FS_CardinalityType
<1>2. Cardinality(S) \in Nat
  BY FS_CardinalityType
<1>3. \A i \in S : Cardinality(Upto(S, i)) # 0
  BY <1>1, FS_EmptySet
<1>4. ASSUME NEW i \in S, NEW j \in S, i < j
      PROVE  Cardinality(Upto(S, i)) < Cardinality(Upto(S, j))
  <2>0. i \in Nat /\ j \in Nat /\ \A n \in S : n \in Nat
    OBVIOUS
  <2>3. (\A n \in S : n <= i => n <= j) /\ j <= j /\ ~(j <= i)
    BY <1>4, <2>0
  <2>1. Upto(S, i) \in SUBSET Upto(S, j) /\ j \in Upto(S, j) /\ j \notin Upto(S, i)
    BY <2>3 DEF Upto
  <2>2. /\ Cardinality(Upto(S, i)) <= Cardinality(Upto(S, j))
        /\ Cardinality(Upto(S, j)) = Cardinality(Upto(S, i)) => Upto(S, j) = Upto(S, i)
    BY <2>1, <1>1, FS_Subset
  <2> QED BY <1>1, <2>1, <2>2
<1> QED BY <1>1, <1>2, <1>3, <1>4

LEMMA PlacesOf ==
  ASSUME NEW S, S \subseteq Nat, IsFiniteSet(S)
  PROVE  /\ Cardinality(S) \in Nat
         /\ \A n \in 1..Cardinality(S) :
              Place(S, n) \in S /\ Cardinality(Upto(S, Place(S, n))) = n
         /\ \A i \in S : \E n \in 1..Cardinality(S) : Place(S, n) = i
         /\ \A m, n \in 1..Cardinality(S) : m < n => Place(S, m) < Place(S, n)
<1> DEFINE N == 1..Cardinality(S)
           f == [i \in S |-> Cardinality(Upto(S, i))]
<1>1. Cardinality(S) \in Nat
  BY CountsOf
<1>2. \A i \in S : Cardinality(Upto(S, i)) \in N
  BY CountsOf
<1>3. \A i, j \in S : i < j => Cardinality(Upto(S, i)) < Cardinality(Upto(S, j))
  BY CountsOf
<1>4. \A i, j \in S : Cardinality(Upto(S, i)) = Cardinality(Upto(S, j)) => i = j
  <2> TAKE i, j \in S
  <2>1. i < j \/ j < i \/ i = j
    OBVIOUS
  <2> QED BY <2>1, <1>1, <1>2, <1>3
<1>5. IsFiniteSet(N) /\ Cardinality(N) = Cardinality(S)
  BY <1>1, FS_Interval
<1>6. f \in Injection(S, N)
  BY <1>2, <1>4 DEF Injection, IsInjective
<1>7. f \in Surjection(S, N)
  BY <1>5, <1>6, FS_Injection
<1>8. \A n \in N : \E i \in S : Cardinality(Upto(S, i)) = n
  BY <1>7 DEF Surjection
<1>9. \A n \in N : Place(S, n) \in S /\ Cardinality(Upto(S, Place(S, n))) = n
  BY <1>8 DEF Place, Upto
<1>10. \A i \in S : Place(S, Cardinality(Upto(S, i))) = i
  BY <1>2, <1>4, <1>9
<1>11. ASSUME NEW m \in N, NEW n \in N, m < n
       PROVE  Place(S, m) < Place(S, n)
  <2>1. Place(S, m) \in S /\ Place(S, n) \in S
    BY <1>9
  <2>2. \A i, j \in S : i < j \/ j < i \/ i = j
    <3> TAKE i, j \in S
    <3>1. i \in Nat /\ j \in Nat
      OBVIOUS
    <3> QED BY <3>1
  <2>3. /\ Cardinality(Upto(S, Place(S, m))) = m /\ Cardinality(Upto(S, Place(S, n))) = n
        /\ m \in Nat /\ n \in Nat
    BY <1>9
  <2>4. Place(S, n) < Place(S, m) => n < m
    BY <1>3, <2>1, <2>3, Zenon
  <2>5. ~(n < m) /\ m # n
    BY <1>11, <2>3
  <2> QED BY <2>1, <2>2, <2>3, <2>4, <2>5, Zenon
<1> QED BY <1>1, <1>2, <1>9, <1>10, <1>11

LEMMA UptoCard ==
  ASSUME NEW n \in Nat
  PROVE  IsFiniteSet(1..n) /\ Cardinality(1..n) = n
BY FS_Interval

LEMMA FunctionIsSeq ==
  ASSUME NEW X, NEW n \in Nat, NEW f \in [1..n -> X]
  PROVE  f \in Seq(X) /\ Len(f) = n /\ DOMAIN f = 1..n
OBVIOUS

\* Two sequences, one after the other.
LEMMA JoinSet ==
  ASSUME NEW X, NEW s \in Seq(X), NEW u \in Seq(X)
  PROVE  /\ s \o u \in Seq(X) /\ Len(s \o u) = Len(s) + Len(u)
         /\ DOMAIN (s \o u) = 1..(Len(s) + Len(u))
         /\ \A i \in DOMAIN s : i \in DOMAIN (s \o u) /\ (s \o u)[i] = s[i]
         /\ \A i \in DOMAIN u : Len(s) + i \in DOMAIN (s \o u) /\ (s \o u)[Len(s) + i] = u[i]
         /\ \A i \in DOMAIN (s \o u) : i \in DOMAIN s \/ \E j \in DOMAIN u : i = Len(s) + j
<1>1. /\ Len(s) \in Nat /\ Len(u) \in Nat /\ DOMAIN s = 1..Len(s) /\ DOMAIN u = 1..Len(u)
      /\ s \o u \in Seq(X) /\ Len(s \o u) = Len(s) + Len(u)
      /\ DOMAIN (s \o u) = 1..(Len(s) + Len(u))
      /\ \A i \in 1..(Len(s) + Len(u)) :
           (s \o u)[i] = IF i <= Len(s) THEN s[i] ELSE u[i - Len(s)]
  OBVIOUS
<1> DEFINE a == Len(s)
           b == Len(u)
<1>2. a \in Nat /\ b \in Nat
  BY <1>1
<1> HIDE DEF a, b
<1>3. /\ \A i \in 1..a : i \in 1..(a + b) /\ i <= a
      /\ \A i \in 1..b : a + i \in 1..(a + b) /\ ~(a + i <= a) /\ (a + i) - a = i
      /\ \A i \in 1..(a + b) : i \in 1..a \/ (i - a \in 1..b /\ i = a + (i - a))
  BY <1>2
<1> QED BY <1>1, <1>3 DEF a, b

\* What Pick keeps of a sequence.
LEMMA PickSeq ==
  ASSUME NEW X, NEW s \in Seq(X), NEW S, S \subseteq DOMAIN s
  PROVE  /\ Pick(s, S) \in Seq(X) /\ Len(Pick(s, S)) = Cardinality(S)
         /\ IsFiniteSet(S) /\ Cardinality(S) \in Nat /\ Cardinality(S) <= Len(s)
         /\ \A n \in DOMAIN Pick(s, S) : /\ Place(S, n) \in S
                                         /\ Pick(s, S)[n] = s[Place(S, n)]
         /\ \A i \in S : \E n \in DOMAIN Pick(s, S) : Place(S, n) = i
         /\ \A m, n \in DOMAIN Pick(s, S) : m < n => Place(S, m) < Place(S, n)
<1>1. /\ Len(s) \in Nat /\ DOMAIN s = 1..Len(s) /\ IsFiniteSet(DOMAIN s)
      /\ Cardinality(DOMAIN s) = Len(s)
  <2>1. Len(s) \in Nat /\ DOMAIN s = 1..Len(s)
    OBVIOUS
  <2>2. IsFiniteSet(1..Len(s)) /\ Cardinality(1..Len(s)) = IF 1 > Len(s) THEN 0 ELSE Len(s)-1+1
    BY <2>1, FS_Interval
  <2> QED BY <2>1, <2>2
<1>2. S \subseteq Nat /\ IsFiniteSet(S) /\ Cardinality(S) <= Len(s)
  BY <1>1, FS_Subset
<1>3. /\ Cardinality(S) \in Nat
      /\ \A n \in 1..Cardinality(S) : Place(S, n) \in S
      /\ \A i \in S : \E n \in 1..Cardinality(S) : Place(S, n) = i
      /\ \A m, n \in 1..Cardinality(S) : m < n => Place(S, m) < Place(S, n)
  BY <1>2, PlacesOf
<1>4. \A n \in 1..Cardinality(S) : s[Place(S, n)] \in X
  BY <1>1, <1>3
<1>5. Pick(s, S) \in Seq(X) /\ DOMAIN Pick(s, S) = 1..Cardinality(S)
      /\ Len(Pick(s, S)) = Cardinality(S)
  BY <1>3, <1>4 DEF Pick
<1>6. \A n \in 1..Cardinality(S) : Pick(s, S)[n] = s[Place(S, n)]
  BY DEF Pick
<1> QED BY <1>2, <1>3, <1>5, <1>6

------------------------------------------------------------------------------
(* Sequences without repetition, and the sets they hold. *)

Inj(s) == \A i, j \in DOMAIN s : s[i] = s[j] => i = j

\* No message is in two items of a queue.
Apart(q) == \A i, j \in DOMAIN q : \A m : m \in Content(q[i]) /\ m \in Content(q[j]) => i = j

LEMMA SetOf == \A s, m : m \in ToSet(s) <=> \E i \in DOMAIN s : s[i] = m
BY DEF ToSet

LEMMA AppendSet ==
  ASSUME NEW X, NEW s \in Seq(X), NEW m \in X
  PROVE  /\ Append(s, m) \in Seq(X) /\ Len(Append(s, m)) = Len(s) + 1
         /\ DOMAIN Append(s, m) = 1..(Len(s) + 1)
         /\ \A i \in 1..Len(s) : Append(s, m)[i] = s[i]
         /\ Append(s, m)[Len(s) + 1] = m
         /\ \A x : x \in ToSet(Append(s, m)) <=> x \in ToSet(s) \/ x = m
         /\ Inj(s) /\ m \notin ToSet(s) => Inj(Append(s, m))
<1>1. /\ Append(s, m) \in Seq(X) /\ Len(Append(s, m)) = Len(s) + 1
      /\ DOMAIN Append(s, m) = 1..(Len(s) + 1)
      /\ \A i \in 1..Len(s) : Append(s, m)[i] = s[i]
      /\ Append(s, m)[Len(s) + 1] = m
      /\ Len(s) \in Nat /\ DOMAIN s = 1..Len(s)
  OBVIOUS
<1>2. ASSUME NEW x
      PROVE  x \in ToSet(Append(s, m)) <=> x \in ToSet(s) \/ x = m
  <2>1. /\ \A i \in 1..(Len(s) + 1) : i \in 1..Len(s) \/ i = Len(s) + 1
        /\ \A i \in 1..Len(s) : i \in 1..(Len(s) + 1)
        /\ Len(s) + 1 \in 1..(Len(s) + 1)
    BY <1>1
  <2>2. x \in ToSet(Append(s, m)) <=> \E i \in 1..(Len(s) + 1) : Append(s, m)[i] = x
    <3>1. DOMAIN Append(s, m) = 1..(Len(s) + 1)
      BY <1>1
    <3>2. x \in ToSet(Append(s, m)) <=> \E i \in DOMAIN Append(s, m) : Append(s, m)[i] = x
      BY SetOf, Zenon
    <3> QED BY <3>1, <3>2, Zenon
  <2>3. x \in ToSet(s) <=> \E i \in 1..Len(s) : s[i] = x
    BY <1>1, SetOf
  <2> QED BY <1>1, <2>1, <2>2, <2>3, Zenon
<1>3. ASSUME Inj(s), m \notin ToSet(s)
      PROVE  Inj(Append(s, m))
  BY <1>1, <1>3, SetOf DEF Inj
<1> QED BY <1>1, <1>2, <1>3

LEMMA PickSet ==
  ASSUME NEW X, NEW s \in Seq(X), NEW S, S \subseteq DOMAIN s
  PROVE  /\ \A x : x \in ToSet(Pick(s, S)) <=> \E i \in S : s[i] = x
         /\ Inj(s) => Inj(Pick(s, S))
<1>1. /\ Pick(s, S) \in Seq(X)
      /\ \A n \in DOMAIN Pick(s, S) : Place(S, n) \in S /\ Pick(s, S)[n] = s[Place(S, n)]
      /\ \A i \in S : \E n \in DOMAIN Pick(s, S) : Place(S, n) = i
      /\ \A m, n \in DOMAIN Pick(s, S) : m < n => Place(S, m) < Place(S, n)
  BY PickSeq
<1>2. ASSUME NEW x
      PROVE  x \in ToSet(Pick(s, S)) <=> \E i \in S : s[i] = x
  BY <1>1, SetOf
<1>3. ASSUME NEW m \in DOMAIN Pick(s, S), NEW n \in DOMAIN Pick(s, S), Place(S, m) = Place(S, n)
      PROVE  m = n
  <2>1. m \in Nat /\ n \in Nat
    BY <1>1
  <2>2. Place(S, m) \in Nat /\ Place(S, n) \in Nat
    BY <1>1
  <2>3. (m < n => Place(S, m) < Place(S, n)) /\ (n < m => Place(S, n) < Place(S, m))
    BY <1>1
  <2> QED BY <1>3, <2>1, <2>2, <2>3
<1>4. ASSUME Inj(s)
      PROVE  Inj(Pick(s, S))
  BY <1>1, <1>3, <1>4 DEF Inj
<1> QED BY <1>2, <1>4

Items == [lead: Msgs, rest: SUBSET Msgs, pending: BOOLEAN]

LEMMA FollowUpIs ==
  \A l, r, b :
    /\ FollowUp(l, r, b).lead = l /\ FollowUp(l, r, b).rest = r /\ FollowUp(l, r, b).pending = b
    /\ Content(FollowUp(l, r, b)) = {l} \union r
BY DEF FollowUp, Content

LEMMA PickApart ==
  ASSUME NEW q \in Seq(Items), NEW S, S \subseteq DOMAIN q, Apart(q)
  PROVE  Apart(Pick(q, S))
<1>1. /\ Pick(q, S) \in Seq(Items)
      /\ \A n \in DOMAIN Pick(q, S) : Place(S, n) \in S /\ Pick(q, S)[n] = q[Place(S, n)]
      /\ \A m, n \in DOMAIN Pick(q, S) : m < n => Place(S, m) < Place(S, n)
  BY PickSeq
<1>2. ASSUME NEW m \in DOMAIN Pick(q, S), NEW n \in DOMAIN Pick(q, S), Place(S, m) = Place(S, n)
      PROVE  m = n
  <2>1. m \in Nat /\ n \in Nat
    BY <1>1
  <2>2. Place(S, m) \in Nat /\ Place(S, n) \in Nat
    BY <1>1
  <2>3. (m < n => Place(S, m) < Place(S, n)) /\ (n < m => Place(S, n) < Place(S, m))
    BY <1>1
  <2> QED BY <1>2, <2>1, <2>2, <2>3
<1> QED BY <1>1, <1>2 DEF Apart

\* A sequence without repetition is as long as its set is large.
LEMMA InjCard ==
  ASSUME NEW X, NEW s \in Seq(X), Inj(s)
  PROVE  IsFiniteSet(ToSet(s)) /\ Cardinality(ToSet(s)) = Len(s)
<1>1. /\ Len(s) \in Nat /\ DOMAIN s = 1..Len(s)
  OBVIOUS
<1>2. IsFiniteSet(1..Len(s)) /\ Cardinality(1..Len(s)) = Len(s)
  BY <1>1, FS_Interval
<1>3. s \in Bijection(1..Len(s), ToSet(s))
  <2>1. s = [i \in 1..Len(s) |-> s[i]] /\ \A i \in 1..Len(s) : s[i] \in ToSet(s)
    BY <1>1, SetOf
  <2>2. s \in [1..Len(s) -> ToSet(s)]
    BY <2>1
  <2>3. \A x \in ToSet(s) : \E i \in 1..Len(s) : s[i] = x
    BY <1>1, SetOf
  <2> QED BY <1>1, <2>2, <2>3 DEF Bijection, Injection, Surjection, IsInjective, Inj
<1> QED BY <1>2, <1>3, FS_Bijection DEF ExistsBijection

------------------------------------------------------------------------------
(* What the operations make of a conversation's entry. *)

Mappings == {"pending", "mapped", "unmapped"}
Sessions == [kind: {"session"}, run: Msgs, mapping: Mappings, aborts: Nat, authorizing: Int,
             steers: Seq(Msgs), follow_ups: Seq(Items), turn: Seq(Msgs)]

LEMMA NewestSeq ==
  ASSUME NEW s \in Seq(Msgs)
  PROVE  Newest(s) \in Seq(Msgs) /\ ToSet(Newest(s)) \subseteq ToSet(s)
<1> DEFINE d == IF Len(s) > Capacity THEN Len(s) - Capacity ELSE 0
<1>1. Capacity \in Nat /\ Len(s) \in Nat /\ DOMAIN s = 1..Len(s)
  BY BoundsAssumption
<1>2. d \in Nat /\ d <= Len(s)
  BY <1>1
<1> HIDE DEF d
<1>3. Newest(s) = SubSeq(s, 1 + d, Len(s))
  BY DEF Newest, d
<1>4. /\ Newest(s) \in Seq(Msgs) /\ DOMAIN Newest(s) = 1..(Len(s) - d)
      /\ \A i \in 1..(Len(s) - d) : Newest(s)[i] = s[d + i]
  BY <1>1, <1>2, <1>3
<1>5. \A i \in 1..(Len(s) - d) : d + i \in 1..Len(s)
  BY <1>1, <1>2
<1>6. ASSUME NEW x \in ToSet(Newest(s))
      PROVE  x \in ToSet(s)
  <2>1. PICK i \in 1..(Len(s) - d) : Newest(s)[i] = x
    BY <1>4, SetOf
  <2>2. d + i \in DOMAIN s /\ s[d + i] = x
    BY <1>1, <1>4, <1>5, <2>1
  <2> QED BY <2>2, SetOf
<1> QED BY <1>4, <1>6

LEMMA TurnIdsSeq ==
  ASSUME NEW S \in SUBSET Msgs, IsFiniteSet(S), NEW turn, turn \in TurnIds(S)
  PROVE  turn \in Seq(Msgs) /\ \A m \in ToSet(turn) : m \in S /\ Native(m)
<1> DEFINE N == {m \in S : Native(m)}
<1> HIDE DEF N
<1>1. PICK ids \in SetToSeqs(N) : turn = Newest(ids)
  BY DEF TurnIds, N
<1>2. ids \in [1..Cardinality(N) -> N]
  BY DEF SetToSeqs
<1>3. ids \in Seq(Msgs) /\ ToSet(ids) \subseteq N
  <2>0. \A m \in N : m \in Msgs
    BY DEF N
  <2>1. Cardinality(N) \in Nat
    <3>1. N \in SUBSET S
      BY DEF N
    <3> QED BY <3>1, FS_Subset, FS_CardinalityType
  <2>2. ids \in [1..Cardinality(N) -> Msgs]
    BY <1>2, <2>0
  <2>3. ids \in Seq(Msgs) /\ DOMAIN ids = 1..Cardinality(N)
    BY <2>1, <2>2, FunctionIsSeq
  <2>4. ASSUME NEW x, x \in ToSet(ids)
        PROVE  x \in N
    <3>1. PICK i \in 1..Cardinality(N) : ids[i] = x
      BY <2>3, <2>4, SetOf
    <3> QED BY <1>2, <3>1
  <2> QED BY <2>3, <2>4
<1>4. turn \in Seq(Msgs) /\ ToSet(turn) \subseteq ToSet(ids)
  BY <1>1, <1>3, NewestSeq
<1> QED BY <1>3, <1>4 DEF N

LEMMA RunningIs ==
  ASSUME NEW lead \in Msgs, NEW turn \in Seq(Msgs)
  PROVE  LET f == Running(lead, turn) IN
         /\ f \in Sessions /\ f.kind = "session" /\ f.run = lead
         /\ f.mapping \in {"pending", "unmapped"} /\ f.aborts = 0 /\ f.authorizing = 0
         /\ f.steers = <<>> /\ f.follow_ups = <<>> /\ f.turn = turn
<1>1. ForTurn(lead) \in {"pending", "unmapped"}
  BY DEF ForTurn
<1>2. <<>> \in Seq(Msgs) /\ <<>> \in Seq(Items)
  OBVIOUS
<1> QED BY <1>1, <1>2 DEF Running, Sessions, Mappings

\* Everything but the mailbox is as it was.
Alike(f, e) == /\ f \in Sessions /\ f.kind = "session" /\ f.run = e.run /\ f.mapping = e.mapping

LEMMA SessionFields ==
  ASSUME NEW e \in Sessions
  PROVE  /\ e.kind = "session" /\ e.run \in Msgs /\ e.mapping \in Mappings /\ e.aborts \in Nat
         /\ e.authorizing \in Int /\ e.steers \in Seq(Msgs) /\ e.follow_ups \in Seq(Items)
         /\ e.turn \in Seq(Msgs)
BY DEF Sessions

LEMMA QueueRequestIs ==
  ASSUME NEW e \in Sessions, NEW m \in Msgs
  PROVE  LET f == QueueRequest(e, m) IN
         /\ Alike(f, e) /\ f.aborts = e.aborts /\ f.authorizing = e.authorizing
         /\ f.steers = Append(e.steers, m) /\ f.follow_ups = e.follow_ups
         /\ \A x \in ToSet(f.turn) : x \in ToSet(e.turn) \/ (x = m /\ Native(m))
<1> DEFINE u == Newest(Append(e.turn, m))
           v == IF Native(m) THEN u ELSE e.turn
<1>1. /\ e.steers \in Seq(Msgs) /\ e.turn \in Seq(Msgs)
      /\ Append(e.steers, m) \in Seq(Msgs) /\ Append(e.turn, m) \in Seq(Msgs)
      /\ \A x : x \in ToSet(Append(e.turn, m)) <=> x \in ToSet(e.turn) \/ x = m
  BY SessionFields, AppendSet
<1>2. u \in Seq(Msgs) /\ ToSet(u) \subseteq ToSet(Append(e.turn, m))
  BY <1>1, NewestSeq
<1> HIDE DEF u
<1>3. v \in Seq(Msgs) /\ \A x \in ToSet(v) : x \in ToSet(e.turn) \/ (x = m /\ Native(m))
  BY <1>1, <1>2
<1> HIDE DEF v
<1>4. QueueRequest(e, m) = [e EXCEPT !.steers = Append(e.steers, m), !.turn = v]
  BY DEF QueueRequest, v, u
<1> QED BY <1>1, <1>3, <1>4 DEF Sessions, Alike

LEMMA QueuedIs ==
  ASSUME NEW e \in Sessions, NEW item \in Items
  PROVE  LET f == Queued(e, item) IN
         /\ Alike(f, e) /\ f.aborts = e.aborts /\ f.authorizing = e.authorizing
         /\ f.steers = e.steers /\ f.follow_ups = Append(e.follow_ups, item) /\ f.turn = e.turn
<1> DEFINE v == Append(e.follow_ups, item)
<1>1. v \in Seq(Items)
  BY SessionFields, AppendSet
<1> HIDE DEF v
<1>2. Queued(e, item) = [e EXCEPT !.follow_ups = v]
  BY DEF Queued, v
<1>3. LET f == Queued(e, item) IN
      /\ Alike(f, e) /\ f.aborts = e.aborts /\ f.authorizing = e.authorizing
      /\ f.steers = e.steers /\ f.follow_ups = v /\ f.turn = e.turn
  BY <1>1, <1>2 DEF Sessions, Alike
<1> QED BY <1>3 DEF v

LEMMA BatchedIs ==
  ASSUME NEW e \in Sessions, NEW m \in Msgs, e.follow_ups # <<>>
  PROVE  LET f == Batched(e, m)  q == e.follow_ups  n == Len(e.follow_ups) IN
         /\ Alike(f, e) /\ f.aborts = e.aborts /\ f.authorizing = e.authorizing
         /\ f.steers = e.steers /\ f.turn = e.turn
         /\ n \in DOMAIN q /\ Len(f.follow_ups) = n /\ DOMAIN f.follow_ups = DOMAIN q
         /\ Last(q) = q[n]
         /\ \A i \in DOMAIN q : i # n => f.follow_ups[i] = q[i]
         /\ f.follow_ups[n] = FollowUp(q[n].lead, q[n].rest \union {m}, q[n].pending)
<1> DEFINE q == e.follow_ups
           n == Len(e.follow_ups)
           item == FollowUp(q[n].lead, q[n].rest \union {m}, q[n].pending)
           p == [q EXCEPT ![n] = item]
<1>1. q \in Seq(Items) /\ n \in DOMAIN q /\ DOMAIN q = 1..n /\ n \in Nat
  BY DEF Sessions
<1>2. q[n] \in Items
  BY <1>1
<1>3. item \in Items
  BY <1>2 DEF Items, FollowUp
<1>4. Last(q) = q[n]
  BY DEF Last
<1>5. Batched(e, m) = [e EXCEPT !.follow_ups = p]
  BY <1>4 DEF Batched
<1> HIDE DEF item
<1>6. /\ p \in Seq(Items) /\ Len(p) = n /\ DOMAIN p = 1..n /\ p[n] = item
      /\ \A i \in 1..n : i # n => p[i] = q[i]
  BY <1>1, <1>3
<1> HIDE DEF p, q, n
<1>7. /\ Alike(Batched(e, m), e) /\ Batched(e, m).aborts = e.aborts
      /\ Batched(e, m).authorizing = e.authorizing
      /\ Batched(e, m).steers = e.steers /\ Batched(e, m).turn = e.turn
      /\ Batched(e, m).follow_ups = p
  BY <1>5, <1>6 DEF Sessions, Alike
<1> QED BY <1>1, <1>4, <1>6, <1>7 DEF item, q, n

LEMMA EnrichedIs ==
  ASSUME NEW e \in Sessions, NEW l \in Msgs
  PROVE  LET f == Enriched(e, l) IN
         /\ Alike(f, e) /\ f.aborts = e.aborts /\ f.authorizing = e.authorizing
         /\ f.steers = Append(e.steers, l) /\ f.follow_ups = e.follow_ups /\ f.turn = e.turn
<1> DEFINE v == Append(e.steers, l)
<1>1. v \in Seq(Msgs)
  BY SessionFields, AppendSet
<1> HIDE DEF v
<1>2. Enriched(e, l) = [e EXCEPT !.steers = v]
  BY DEF Enriched, v
<1>3. LET f == Enriched(e, l) IN
      /\ Alike(f, e) /\ f.aborts = e.aborts /\ f.authorizing = e.authorizing
      /\ f.steers = v /\ f.follow_ups = e.follow_ups /\ f.turn = e.turn
  BY <1>1, <1>2 DEF Sessions, Alike
<1> QED BY <1>3 DEF v

LEMMA InterruptedIs ==
  ASSUME NEW e \in Sessions
  PROVE  LET f == Interrupted(e) IN
         /\ Alike(f, e) /\ f.authorizing = e.authorizing
         /\ f.aborts = IF MayInterrupt(e) THEN e.aborts + 1 ELSE e.aborts
         /\ f.steers = e.steers /\ f.follow_ups = e.follow_ups /\ f.turn = e.turn
<1> DEFINE v == IF MayInterrupt(e) THEN e.aborts + 1 ELSE e.aborts
<1>1. v \in Nat /\ e.aborts \in Nat
  BY SessionFields
<1>2. CASE MayInterrupt(e)
  <2>1. v = e.aborts + 1
    BY <1>2
  <2> HIDE DEF v
  <2>2. Interrupted(e) = [e EXCEPT !.aborts = v]
    BY <1>2, <2>1 DEF Interrupted
  <2>3. LET f == Interrupted(e) IN
      /\ Alike(f, e) /\ f.aborts = v /\ f.authorizing = e.authorizing
      /\ f.steers = e.steers /\ f.follow_ups = e.follow_ups /\ f.turn = e.turn
    BY <1>1, <2>2 DEF Sessions, Alike
  <2> QED BY <2>3, <2>1, <1>2
<1>3. CASE ~MayInterrupt(e)
  BY <1>3, SessionFields DEF Interrupted, Alike
<1> QED BY <1>2, <1>3

LEMMA DrainedOfIs ==
  ASSUME NEW e \in Sessions, NEW n \in Nat
  PROVE  LET f == DrainedOf(e, n) IN
         /\ Alike(f, e) /\ f.aborts = e.aborts /\ f.authorizing = e.authorizing + n
         /\ f.steers = <<>> /\ f.follow_ups = e.follow_ups /\ f.turn = e.turn
<1> DEFINE v == e.authorizing + n
           w == <<>>
<1>1. v \in Int /\ w \in Seq(Msgs)
  BY SessionFields
<1> HIDE DEF v, w
<1>2. DrainedOf(e, n) = [e EXCEPT !.steers = w, !.authorizing = v]
  BY DEF DrainedOf, v, w
<1>3. LET f == DrainedOf(e, n) IN
      /\ Alike(f, e) /\ f.aborts = e.aborts /\ f.authorizing = v
      /\ f.steers = w /\ f.follow_ups = e.follow_ups /\ f.turn = e.turn
  BY <1>1, <1>2 DEF Sessions, Alike
<1> QED BY <1>3 DEF v, w

LEMMA AuthorizedIs ==
  ASSUME NEW e \in Sessions, NEW n \in Nat
  PROVE  LET f == Authorized(e, n) IN
         /\ Alike(f, e) /\ f.aborts = e.aborts /\ f.authorizing = e.authorizing - n
         /\ f.steers = e.steers /\ f.follow_ups = e.follow_ups /\ f.turn = e.turn
<1> DEFINE v == e.authorizing - n
<1>1. v \in Int
  BY SessionFields
<1> HIDE DEF v
<1>2. Authorized(e, n) = [e EXCEPT !.authorizing = v]
  BY DEF Authorized, v
<1>3. LET f == Authorized(e, n) IN
      /\ Alike(f, e) /\ f.aborts = e.aborts /\ f.authorizing = v
      /\ f.steers = e.steers /\ f.follow_ups = e.follow_ups /\ f.turn = e.turn
  BY <1>1, <1>2 DEF Sessions, Alike
<1> QED BY <1>3 DEF v

\* No element of s stands ahead of one both received and admitted before it.
Sorted(s) ==
  \A i, j \in DOMAIN s : \A a, b \in DOMAIN arrived :
    i < j /\ arrived[a] = s[i] /\ arrived[b] = s[j] =>
      a < b \/ ReceivedAt[s[i]] <= ReceivedAt[s[j]]

LEMMA SortedPick ==
  ASSUME NEW s \in Seq(Msgs), NEW S, S \subseteq DOMAIN s, Sorted(s)
  PROVE  Sorted(Pick(s, S))
<1>1. /\ \A n \in DOMAIN Pick(s, S) : Place(S, n) \in S /\ Pick(s, S)[n] = s[Place(S, n)]
      /\ \A m, n \in DOMAIN Pick(s, S) : m < n => Place(S, m) < Place(S, n)
  BY PickSeq
<1>2. ASSUME NEW i \in DOMAIN Pick(s, S), NEW j \in DOMAIN Pick(s, S),
             NEW a \in DOMAIN arrived, NEW b \in DOMAIN arrived,
             i < j, arrived[a] = Pick(s, S)[i], arrived[b] = Pick(s, S)[j]
      PROVE  a < b \/ ReceivedAt[Pick(s, S)[i]] <= ReceivedAt[Pick(s, S)[j]]
  <2>1. /\ Place(S, i) \in DOMAIN s /\ Place(S, j) \in DOMAIN s /\ Place(S, i) < Place(S, j)
        /\ arrived[a] = s[Place(S, i)] /\ arrived[b] = s[Place(S, j)]
    BY <1>1, <1>2
  <2>2. a < b \/ ReceivedAt[s[Place(S, i)]] <= ReceivedAt[s[Place(S, j)]]
    BY <2>1 DEF Sorted
  <2> QED BY <1>1, <2>2
<1> QED BY <1>2 DEF Sorted

\* The sort by received_at loses and doubles nothing, and sorts.
LEMMA ReceiptIs ==
  ASSUME NEW s \in Seq(Msgs)
  PROVE  LET p == ByReceipt(s) IN
         /\ p \in Seq(Msgs) /\ Len(p) = Len(s)
         /\ \A x : x \in ToSet(p) <=> x \in ToSet(s)
         /\ Inj(s) => Inj(p)
         /\ \A i, j \in DOMAIN p : i < j => ReceivedAt[p[i]] <= ReceivedAt[p[j]]
<1> DEFINE D == 1..Len(s)
           at == [i \in D |-> ReceivedAt[s[i]]]
           Ahead(i) == {j \in D : at[j] < at[i] \/ (at[j] = at[i] /\ j <= i)}
           rank == [i \in D |-> Cardinality(Ahead(i))]
           g == [n \in D |-> CHOOSE i \in D : Rank(s, i) = n]
<1>1. Len(s) \in Nat /\ DOMAIN s = D /\ (\A i \in D : s[i] \in Msgs /\ i \in Nat)
  OBVIOUS
<1>2. IsFiniteSet(D) /\ Cardinality(D) = Len(s)
  BY <1>1, UptoCard
<1>3. \A i \in D : at[i] \in Nat
  BY <1>1, MessagesAssumption
<1>4. \A i \in D : Rank(s, i) = Cardinality(Ahead(i))
  BY <1>1 DEF Rank
<1> HIDE DEF at
<1>5. ASSUME NEW i \in D
      PROVE  /\ IsFiniteSet(Ahead(i)) /\ Cardinality(Ahead(i)) \in Nat
             /\ Cardinality(Ahead(i)) <= Len(s) /\ Cardinality(Ahead(i)) # 0
  <2>1. Ahead(i) \in SUBSET D /\ i \in Ahead(i)
    BY <1>1, <1>3
  <2> HIDE DEF Ahead, D
  <2>2. IsFiniteSet(Ahead(i)) /\ Cardinality(Ahead(i)) <= Cardinality(D)
    BY <1>2, <2>1, FS_Subset
  <2>3. Cardinality(Ahead(i)) # 0
    BY <2>1, <2>2, FS_EmptySet
  <2> QED BY <1>2, <2>2, <2>3, FS_CardinalityType
<1>6. ASSUME NEW i \in D, NEW j \in D, at[i] < at[j] \/ (at[i] = at[j] /\ i < j)
      PROVE  Cardinality(Ahead(i)) < Cardinality(Ahead(j))
  <2>1. at[i] \in Nat /\ at[j] \in Nat /\ i \in Nat /\ j \in Nat
    BY <1>1, <1>3
  <2>2. ASSUME NEW n \in Ahead(i)
        PROVE  n \in Ahead(j)
    <3>1. n \in D /\ n \in Nat /\ at[n] \in Nat /\ (at[n] < at[i] \/ (at[n] = at[i] /\ n <= i))
      BY <1>1, <1>3
    <3> QED BY <1>6, <2>1, <3>1
  <2>3. j \in Ahead(j) /\ j \notin Ahead(i)
    BY <1>6, <2>1
  <2>4. /\ IsFiniteSet(Ahead(j)) /\ Cardinality(Ahead(j)) \in Nat /\ Cardinality(Ahead(i)) \in Nat
    BY <1>5
  <2> HIDE DEF Ahead, D
  <2>5. Ahead(i) \in SUBSET Ahead(j)
    BY <2>2
  <2>6. /\ Cardinality(Ahead(i)) <= Cardinality(Ahead(j))
        /\ Cardinality(Ahead(j)) = Cardinality(Ahead(i)) => Ahead(j) = Ahead(i)
    BY <2>4, <2>5, FS_Subset
  <2> QED BY <2>3, <2>4, <2>6
<1> HIDE DEF Ahead
<1>7. \A i \in D : rank[i] \in D /\ rank[i] = Rank(s, i)
  BY <1>1, <1>4, <1>5
<1>8. \A i, j \in D : at[i] < at[j] \/ (at[i] = at[j] /\ i < j) => rank[i] < rank[j]
  BY <1>6
<1>9. rank \in [D -> D]
  BY <1>7
<1> HIDE DEF rank, D
<1>10. \A i, j \in D : rank[i] = rank[j] => i = j
  <2> TAKE i, j \in D
  <2>1. at[i] \in Nat /\ at[j] \in Nat /\ i \in Nat /\ j \in Nat
    BY <1>1, <1>3
  <2>2. \/ at[i] < at[j] \/ (at[i] = at[j] /\ i < j)
        \/ at[j] < at[i] \/ (at[j] = at[i] /\ j < i)
        \/ i = j
    BY <2>1
  <2>3. rank[i] \in Nat /\ rank[j] \in Nat
    BY <1>1, <1>7
  <2>4. rank[i] < rank[j] \/ rank[j] < rank[i] \/ i = j
    BY <1>8, <2>2
  <2> QED BY <2>3, <2>4
<1>11. rank \in Injection(D, D)
  BY <1>9, <1>10 DEF Injection, IsInjective
<1>12. rank \in Surjection(D, D)
  BY <1>2, <1>11, FS_Injection
<1>13. \A n \in D : \E i \in D : rank[i] = n
  BY <1>12 DEF Surjection
<1>14. \A n \in D : g[n] \in D /\ rank[g[n]] = n
  <2> TAKE n \in D
  <2>1. PICK i \in D : Rank(s, i) = n
    BY <1>7, <1>13
  <2>2. g[n] \in D /\ Rank(s, g[n]) = n
    BY <2>1
  <2> QED BY <1>7, <2>2
<1>15. ByReceipt(s) = [n \in D |-> s[g[n]]]
  BY <1>1 DEF ByReceipt
<1> HIDE DEF g
<1>16. PICK p : p = ByReceipt(s)
  OBVIOUS
<1>17. /\ p \in Seq(Msgs) /\ Len(p) = Len(s) /\ DOMAIN p = D
       /\ \A n \in D : p[n] = s[g[n]]
  BY <1>1, <1>14, <1>15, <1>16 DEF D
<1>18. \A x : x \in ToSet(p) <=> x \in ToSet(s)
  <2>1. \A i \in D : g[rank[i]] = i /\ rank[i] \in D
    BY <1>7, <1>10, <1>14
  <2>2. ASSUME NEW x, x \in ToSet(p)
        PROVE  x \in ToSet(s)
    <3>1. PICK n \in D : p[n] = x
      BY <1>17, <2>2, SetOf
    <3> QED BY <1>1, <1>14, <1>17, <3>1, SetOf
  <2>3. ASSUME NEW x, x \in ToSet(s)
        PROVE  x \in ToSet(p)
    <3>1. PICK i \in D : s[i] = x
      BY <1>1, <2>3, SetOf
    <3>2. rank[i] \in D /\ p[rank[i]] = x
      BY <1>17, <2>1, <3>1
    <3> QED BY <1>17, <3>2, SetOf
  <2> QED BY <2>2, <2>3
<1>19. Inj(s) => Inj(p)
  <2>1. \A m, n \in D : g[m] = g[n] => m = n
    BY <1>14
  <2> QED BY <1>1, <1>14, <1>17, <2>1 DEF Inj
<1>20. ASSUME NEW i \in D, NEW j \in D, i < j
       PROVE  ReceivedAt[p[i]] <= ReceivedAt[p[j]]
  <2>1. g[i] \in D /\ g[j] \in D /\ rank[g[i]] = i /\ rank[g[j]] = j /\ i \in Nat /\ j \in Nat
    BY <1>1, <1>14
  <2>2. at[g[i]] \in Nat /\ at[g[j]] \in Nat
    BY <1>3, <2>1
  <2>3. ~(j < i)
    BY <1>20, <2>1
  <2>4. ~(at[g[j]] < at[g[i]])
    BY <1>8, <2>1, <2>3, Zenon
  <2>5. ReceivedAt[p[i]] = at[g[i]] /\ ReceivedAt[p[j]] = at[g[j]]
    BY <1>17, <2>1 DEF at
  <2> QED BY <2>2, <2>4, <2>5
<1> QED BY <1>16, <1>17, <1>18, <1>19, <1>20

\* f is e without what the sender s has in it.
Survives(f, e, s) ==
  /\ Alike(f, e) /\ f.aborts = e.aborts /\ f.authorizing = e.authorizing
  /\ \A m : m \in ToSet(f.steers) <=> m \in ToSet(e.steers) /\ Sender[m] # s
  /\ \A m : m \in ToSet(f.turn) <=> m \in ToSet(e.turn) /\ Sender[m] # s
  /\ \A n \in DOMAIN f.follow_ups : \E i \in DOMAIN e.follow_ups :
       Sender[e.follow_ups[i].lead] # s /\ f.follow_ups[n] = e.follow_ups[i]
  /\ \A i \in DOMAIN e.follow_ups : Sender[e.follow_ups[i].lead] # s =>
       \E n \in DOMAIN f.follow_ups : f.follow_ups[n] = e.follow_ups[i]
  /\ Len(f.steers) <= Len(e.steers) /\ Len(f.follow_ups) <= Len(e.follow_ups)
  /\ Inj(e.steers) => Inj(f.steers)
  /\ Apart(e.follow_ups) => Apart(f.follow_ups)
  /\ Sorted(e.steers) => Sorted(f.steers)

LEMMA WithoutIs ==
  ASSUME NEW e \in Sessions, NEW s
  PROVE  Survives(Without(e, s), e, s)
<1> DEFINE S == {i \in DOMAIN e.steers : Sender[e.steers[i]] # s}
           F == {i \in DOMAIN e.follow_ups : Sender[e.follow_ups[i].lead] # s}
           T == {i \in DOMAIN e.turn : Sender[e.turn[i]] # s}
           x == Pick(e.steers, S)
           y == Pick(e.follow_ups, F)
           z == Pick(e.turn, T)
<1>1. e.steers \in Seq(Msgs) /\ e.follow_ups \in Seq(Items) /\ e.turn \in Seq(Msgs)
  BY SessionFields
<1>2. /\ x \in Seq(Msgs) /\ Len(x) <= Len(e.steers)
      /\ \A m : m \in ToSet(x) <=> \E i \in S : e.steers[i] = m
      /\ Inj(e.steers) => Inj(x)
  <2>1. S \subseteq DOMAIN e.steers
    OBVIOUS
  <2> HIDE DEF S
  <2> QED BY <1>1, <2>1, PickSeq, PickSet
<1>3. /\ y \in Seq(Items) /\ Len(y) <= Len(e.follow_ups)
      /\ \A n \in DOMAIN y : Place(F, n) \in F /\ y[n] = e.follow_ups[Place(F, n)]
      /\ \A i \in F : \E n \in DOMAIN y : Place(F, n) = i
      /\ Apart(e.follow_ups) => Apart(y)
  <2>1. F \subseteq DOMAIN e.follow_ups
    OBVIOUS
  <2> HIDE DEF F
  <2> QED BY <1>1, <2>1, PickSeq, PickApart
<1>4. /\ z \in Seq(Msgs)
      /\ \A m : m \in ToSet(z) <=> \E i \in T : e.turn[i] = m
  <2>1. T \subseteq DOMAIN e.turn
    OBVIOUS
  <2> HIDE DEF T
  <2>2. z \in Seq(Msgs)
    BY <1>1, <2>1, PickSeq
  <2>3. \A m : m \in ToSet(z) <=> \E i \in T : e.turn[i] = m
    BY <1>1, <2>1, PickSet
  <2> QED BY <2>2, <2>3
<1>5. \A m : m \in ToSet(x) <=> m \in ToSet(e.steers) /\ Sender[m] # s
  <2> HIDE DEF x
  <2> QED BY <1>2, SetOf
<1>6. \A m : m \in ToSet(z) <=> m \in ToSet(e.turn) /\ Sender[m] # s
  <2> HIDE DEF z
  <2> QED BY <1>4, SetOf
<1>7. /\ \A n \in DOMAIN y : \E i \in DOMAIN e.follow_ups :
           Sender[e.follow_ups[i].lead] # s /\ y[n] = e.follow_ups[i]
      /\ \A i \in DOMAIN e.follow_ups : Sender[e.follow_ups[i].lead] # s =>
           \E n \in DOMAIN y : y[n] = e.follow_ups[i]
  <2> HIDE DEF y
  <2> QED BY <1>3
<1>8. Without(e, s) = [e EXCEPT !.steers = x, !.follow_ups = y, !.turn = z]
  BY DEF Without
<1> HIDE DEF x, y, z
<1>9. LET f == Without(e, s) IN
      /\ Alike(f, e) /\ f.aborts = e.aborts /\ f.authorizing = e.authorizing
      /\ f.steers = x /\ f.follow_ups = y /\ f.turn = z
  BY <1>2, <1>3, <1>4, <1>8 DEF Sessions, Alike
<1>10. Sorted(e.steers) => Sorted(x)
  BY <1>1, SortedPick DEF x
<1>11. PICK f : f = Without(e, s)
  OBVIOUS
<1> QED BY <1>2, <1>3, <1>5, <1>6, <1>7, <1>9, <1>10, <1>11 DEF Survives

LEMMA PartsOf ==
  ASSUME NEW q \in Seq(Items), NEW S, S \subseteq DOMAIN q
  PROVE  /\ IsFiniteSet(S) /\ IsFiniteSet(DOMAIN q \ S)
         /\ Cardinality(S) \in Nat /\ Cardinality(DOMAIN q \ S) \in Nat
         /\ Cardinality(S) + Cardinality(DOMAIN q \ S) = Len(q)
<1>1. Len(q) \in Nat /\ DOMAIN q = 1..Len(q)
  OBVIOUS
<1>2. IsFiniteSet(1..Len(q)) /\ Cardinality(1..Len(q)) = Len(q)
  BY <1>1, UptoCard
<1>3. IsFiniteSet(DOMAIN q) /\ Cardinality(DOMAIN q) = Len(q)
  BY <1>1, <1>2
<1>4. IsFiniteSet(S) /\ IsFiniteSet(DOMAIN q \ S)
  BY <1>3, FS_Subset
<1>5. Cardinality(DOMAIN q \ S) = Cardinality(DOMAIN q) - Cardinality((DOMAIN q) \cap S)
  BY <1>3, FS_Difference
<1>6. (DOMAIN q) \cap S = S
  OBVIOUS
<1>7. Cardinality(S) \in Nat /\ Cardinality(DOMAIN q \ S) \in Nat
  BY <1>4, FS_CardinalityType
<1>8. Cardinality(S) + Cardinality(DOMAIN q \ S) = Len(q)
  <2>1. Cardinality(DOMAIN q \ S) = Len(q) - Cardinality(S)
    BY <1>3, <1>5, <1>6
  <2> QED BY <1>1, <1>7, <2>1
<1> QED BY <1>4, <1>7, <1>8

\* The steers and the promoted messages, sorted.
LEMMA MergedIs ==
  ASSUME NEW s \in Seq(Msgs), Inj(s), NEW u \in Seq(Msgs), Inj(u),
         \A x : x \in ToSet(s) => x \notin ToSet(u)
  PROVE  LET p == ByReceipt(s \o u)
         IN  /\ p \in Seq(Msgs) /\ Inj(p) /\ Sorted(p)
             /\ \A x : x \in ToSet(p) <=> x \in ToSet(s) \/ x \in ToSet(u)
             /\ Len(p) \in Nat /\ Len(p) = Len(s) + Len(u)
<1>1. /\ s \o u \in Seq(Msgs) /\ Len(s \o u) = Len(s) + Len(u)
      /\ \A i \in DOMAIN s : i \in DOMAIN (s \o u) /\ (s \o u)[i] = s[i]
      /\ \A i \in DOMAIN u : Len(s) + i \in DOMAIN (s \o u) /\ (s \o u)[Len(s) + i] = u[i]
      /\ \A i \in DOMAIN (s \o u) : i \in DOMAIN s \/ \E j \in DOMAIN u : i = Len(s) + j
  BY JoinSet
<1>2. PICK w : w = s \o u
  OBVIOUS
<1>3. /\ w \in Seq(Msgs) /\ Len(w) = Len(s) + Len(u)
      /\ \A i \in DOMAIN s : i \in DOMAIN w /\ w[i] = s[i]
      /\ \A i \in DOMAIN u : Len(s) + i \in DOMAIN w /\ w[Len(s) + i] = u[i]
      /\ \A i \in DOMAIN w : i \in DOMAIN s \/ \E j \in DOMAIN u : i = Len(s) + j
  BY <1>1, <1>2
<1>4. \A x : x \in ToSet(w) <=> x \in ToSet(s) \/ x \in ToSet(u)
  <2>1. ASSUME NEW x, x \in ToSet(w)
        PROVE  x \in ToSet(s) \/ x \in ToSet(u)
    <3>1. PICK i \in DOMAIN w : w[i] = x
      BY <2>1, SetOf
    <3>2. CASE i \in DOMAIN s
      BY <1>3, <3>1, <3>2, SetOf
    <3>3. ASSUME NEW j \in DOMAIN u, i = Len(s) + j
          PROVE  x \in ToSet(u)
      BY <1>3, <3>1, <3>3, SetOf
    <3> QED BY <1>3, <3>2, <3>3
  <2>2. ASSUME NEW x, x \in ToSet(s)
        PROVE  x \in ToSet(w)
    <3>1. PICK i \in DOMAIN s : s[i] = x
      BY <2>2, SetOf
    <3>2. i \in DOMAIN w /\ w[i] = x
      BY <1>3, <3>1
    <3> QED BY <3>2, SetOf
  <2>3. ASSUME NEW x, x \in ToSet(u)
        PROVE  x \in ToSet(w)
    <3>1. PICK i \in DOMAIN u : u[i] = x
      BY <2>3, SetOf
    <3>2. Len(s) + i \in DOMAIN w /\ w[Len(s) + i] = x
      BY <1>3, <3>1
    <3> QED BY <3>2, SetOf
  <2> QED BY <2>1, <2>2, <2>3
<1>5. Inj(w)
  <2>1. \A i \in DOMAIN s : s[i] \in ToSet(s)
    BY SetOf
  <2>2. \A i \in DOMAIN u : u[i] \in ToSet(u)
    BY SetOf
  <2>3. ASSUME NEW i \in DOMAIN w, NEW j \in DOMAIN w, w[i] = w[j]
        PROVE  i = j
    <3>1. CASE i \in DOMAIN s /\ j \in DOMAIN s
      BY <1>3, <2>3, <3>1 DEF Inj
    <3>2. ASSUME NEW x \in DOMAIN u, NEW y \in DOMAIN u, i = Len(s) + x, j = Len(s) + y
          PROVE  i = j
      <4>1. w[i] = u[x] /\ w[j] = u[y]
        BY <1>3, <3>2
      <4> QED BY <2>3, <3>2, <4>1 DEF Inj
    <3>3. ASSUME i \in DOMAIN s, NEW y \in DOMAIN u, j = Len(s) + y
          PROVE  FALSE
      <4>1. w[i] = s[i] /\ w[j] = u[y]
        BY <1>3, <3>3
      <4> QED BY <2>1, <2>2, <2>3, <3>3, <4>1
    <3>4. ASSUME j \in DOMAIN s, NEW y \in DOMAIN u, i = Len(s) + y
          PROVE  FALSE
      <4>1. w[j] = s[j] /\ w[i] = u[y]
        BY <1>3, <3>4
      <4> QED BY <2>1, <2>2, <2>3, <3>4, <4>1
    <3> QED BY <1>3, <3>1, <3>2, <3>3, <3>4
  <2> QED BY <2>3 DEF Inj
<1>6. PICK p : p = ByReceipt(w)
  OBVIOUS
<1>7. /\ p \in Seq(Msgs) /\ Len(p) = Len(w) /\ Inj(p)
      /\ \A x : x \in ToSet(p) <=> x \in ToSet(w)
      /\ \A i, j \in DOMAIN p : i < j => ReceivedAt[p[i]] <= ReceivedAt[p[j]]
  BY <1>3, <1>5, <1>6, ReceiptIs
<1>8. Sorted(p)
  BY <1>7 DEF Sorted
<1>9. Len(p) \in Nat
  BY <1>7
<1> QED BY <1>2, <1>3, <1>4, <1>6, <1>7, <1>8, <1>9

\* The leads of some of the items of a queue.
LEMMA LeadsIs ==
  ASSUME NEW q \in Seq(Items), Apart(q), NEW S, S \subseteq DOMAIN q
  PROVE  LET u == Leads(Pick(q, S)) IN
         /\ u \in Seq(Msgs) /\ Inj(u) /\ Len(u) = Cardinality(S)
         /\ \A m : m \in ToSet(u) <=> \E i \in S : q[i].lead = m
<1> DEFINE p == Pick(q, S)
           u == Leads(p)
<1>1. /\ p \in Seq(Items) /\ Len(p) = Cardinality(S) /\ Cardinality(S) \in Nat
      /\ \A n \in DOMAIN p : Place(S, n) \in S /\ p[n] = q[Place(S, n)]
      /\ \A i \in S : \E n \in DOMAIN p : Place(S, n) = i
  BY PickSeq
<1>2. Apart(p)
  BY PickApart
<1> HIDE DEF p
<1>3. DOMAIN p = 1..Len(p) /\ Len(p) \in Nat /\ \A n \in 1..Len(p) : p[n] \in Items
  BY <1>1
<1>4. \A n \in 1..Len(p) : p[n].lead \in Msgs /\ p[n].lead \in Content(p[n])
  BY <1>3 DEF Items, Content
<1>5. u = [n \in 1..Len(p) |-> p[n].lead]
  BY <1>3 DEF Leads
<1>6. u \in Seq(Msgs) /\ DOMAIN u = 1..Len(p) /\ Len(u) = Len(p)
  BY <1>3, <1>4, <1>5
<1>7. \A n \in 1..Len(p) : u[n] = p[n].lead
  BY <1>5
<1> HIDE DEF u
<1>8. Inj(u)
  BY <1>2, <1>3, <1>4, <1>6, <1>7 DEF Inj, Apart
<1>9. ASSUME NEW m
      PROVE  m \in ToSet(u) <=> \E i \in S : q[i].lead = m
  <2>1. m \in ToSet(u) <=> \E n \in DOMAIN u : u[n] = m
    BY SetOf
  <2>2. ASSUME NEW n \in DOMAIN u, u[n] = m
        PROVE  \E i \in S : q[i].lead = m
    BY <1>1, <1>3, <1>6, <1>7, <2>2
  <2>3. ASSUME NEW i \in S, q[i].lead = m
        PROVE  \E n \in DOMAIN u : u[n] = m
    BY <1>1, <1>3, <1>6, <1>7, <2>3
  <2> QED BY <2>1, <2>2, <2>3
<1> QED BY <1>1, <1>6, <1>8, <1>9 DEF u, p

\* The items that stay, none of which awaits the mapping any more.
LEMMA ResolvedIs ==
  ASSUME NEW q \in Seq(Items), Apart(q), NEW S, S \subseteq DOMAIN q
  PROVE  LET p == Resolved(Pick(q, S)) IN
         /\ p \in Seq(Items) /\ Len(p) = Cardinality(S) /\ Apart(p)
         /\ \A n \in DOMAIN p : \E i \in S : p[n] = FollowUp(q[i].lead, q[i].rest, FALSE)
         /\ \A i \in S : \E n \in DOMAIN p : p[n] = FollowUp(q[i].lead, q[i].rest, FALSE)
<1> DEFINE r == Pick(q, S)
           p == Resolved(r)
<1>1. /\ r \in Seq(Items) /\ Len(r) = Cardinality(S) /\ Cardinality(S) \in Nat
      /\ \A n \in DOMAIN r : Place(S, n) \in S /\ r[n] = q[Place(S, n)]
      /\ \A i \in S : \E n \in DOMAIN r : Place(S, n) = i
  BY PickSeq
<1>2. Apart(r)
  BY PickApart
<1> HIDE DEF r
<1>3. DOMAIN r = 1..Len(r) /\ Len(r) \in Nat /\ \A n \in 1..Len(r) : r[n] \in Items
  BY <1>1
<1>4. \A n \in 1..Len(r) : FollowUp(r[n].lead, r[n].rest, FALSE) \in Items
  BY <1>3 DEF Items, FollowUp
<1>5. p = [n \in 1..Len(r) |-> FollowUp(r[n].lead, r[n].rest, FALSE)]
  BY <1>3 DEF Resolved
<1>6. p \in Seq(Items) /\ DOMAIN p = 1..Len(r) /\ Len(p) = Len(r)
  <2>1. p \in [1..Len(r) -> Items]
    BY <1>4, <1>5
  <2> HIDE DEF p
  <2> QED BY <1>3, <2>1, FunctionIsSeq
<1>7. \A n \in 1..Len(r) : p[n] = FollowUp(r[n].lead, r[n].rest, FALSE)
  BY <1>5
<1> HIDE DEF p
<1>8. \A n \in 1..Len(r) : Content(p[n]) = Content(r[n])
  <2> TAKE n \in 1..Len(r)
  <2>0. p[n] = FollowUp(r[n].lead, r[n].rest, FALSE)
    BY <1>7
  <2>1. Content(p[n]) = {r[n].lead} \union r[n].rest
    BY <2>0 DEF FollowUp, Content
  <2> QED BY <2>1 DEF Content
<1>9. Apart(p)
  BY <1>2, <1>3, <1>6, <1>8 DEF Apart
<1>10. \A n \in DOMAIN p : \E i \in S : p[n] = FollowUp(q[i].lead, q[i].rest, FALSE)
  BY <1>1, <1>3, <1>6, <1>7
<1>11. ASSUME NEW i \in S
       PROVE  \E n \in DOMAIN p : p[n] = FollowUp(q[i].lead, q[i].rest, FALSE)
  <2>1. PICK n \in DOMAIN r : Place(S, n) = i
    BY <1>1
  <2>2. r[n] = q[i] /\ n \in 1..Len(r) /\ n \in DOMAIN p
    BY <1>1, <1>3, <1>6, <2>1
  <2>3. p[n] = FollowUp(q[i].lead, q[i].rest, FALSE)
    BY <1>7, <2>2
  <2> QED BY <2>2, <2>3
<1> QED BY <1>1, <1>6, <1>9, <1>10, <1>11 DEF p, r

\* f is e once its mapping is known and the follow-ups `up` are promoted.
Resolves(f, e, mapped, up) ==
  /\ f \in Sessions /\ f.run = e.run /\ f.mapping = IF mapped THEN "mapped" ELSE "unmapped"
  /\ f.aborts = e.aborts /\ f.authorizing = e.authorizing
  /\ \A m : m \in ToSet(f.steers) <=>
       m \in ToSet(e.steers) \/ \E i \in up : e.follow_ups[i].lead = m
  /\ Inj(f.steers) /\ Apart(f.follow_ups) /\ Sorted(f.steers)
  /\ \A n \in DOMAIN f.follow_ups : \E i \in DOMAIN e.follow_ups \ up :
       f.follow_ups[n] = FollowUp(e.follow_ups[i].lead, e.follow_ups[i].rest, FALSE)
  /\ \A i \in DOMAIN e.follow_ups \ up : \E n \in DOMAIN f.follow_ups :
       f.follow_ups[n] = FollowUp(e.follow_ups[i].lead, e.follow_ups[i].rest, FALSE)
  /\ Len(f.steers) + Len(f.follow_ups) <= Len(e.steers) + Len(e.follow_ups)
  /\ \A m \in ToSet(f.turn) :
       m \in ToSet(e.turn) \/ \E i \in up : e.follow_ups[i].lead = m

LeadsApart(e) == \A i \in DOMAIN e.follow_ups : e.follow_ups[i].lead \notin ToSet(e.steers)

LEMMA ResolveIs ==
  ASSUME NEW e \in Sessions, NEW mapped \in BOOLEAN,
         Inj(e.steers), Apart(e.follow_ups), LeadsApart(e)
  PROVE  Resolves(Resolve(e, mapped), e, mapped, Promoted(e, mapped))
<1> DEFINE q == e.follow_ups
           up == Promoted(e, mapped)
           u == Leads(Pick(q, up))
           x == ByReceipt(e.steers \o u)
           p == Resolved(Pick(q, DOMAIN q \ up))
           z == Newest(e.turn \o u)
           w == IF mapped THEN "mapped" ELSE "unmapped"
<1>1. e.steers \in Seq(Msgs) /\ q \in Seq(Items) /\ e.turn \in Seq(Msgs)
  BY SessionFields
<1>2. up \subseteq DOMAIN q
  BY DEF Promoted
<1> HIDE DEF up
<1>3. /\ u \in Seq(Msgs) /\ Inj(u) /\ Len(u) = Cardinality(up)
      /\ \A m : m \in ToSet(u) <=> \E i \in up : q[i].lead = m
  <2> HIDE DEF q
  <2>1. Apart(q)
    BY DEF q
  <2> QED BY <1>1, <1>2, <2>1, LeadsIs
<1>4. /\ p \in Seq(Items) /\ Len(p) = Cardinality(DOMAIN q \ up) /\ Apart(p)
      /\ \A n \in DOMAIN p : \E i \in DOMAIN q \ up : p[n] = FollowUp(q[i].lead, q[i].rest, FALSE)
      /\ \A i \in DOMAIN q \ up : \E n \in DOMAIN p : p[n] = FollowUp(q[i].lead, q[i].rest, FALSE)
  <2> DEFINE S == DOMAIN q \ up
  <2>1. Apart(q) /\ S \subseteq DOMAIN q
    OBVIOUS
  <2> HIDE DEF q, S
  <2>2. LET r == Resolved(Pick(q, S)) IN
        /\ r \in Seq(Items) /\ Len(r) = Cardinality(S) /\ Apart(r)
        /\ \A n \in DOMAIN r : \E i \in S : r[n] = FollowUp(q[i].lead, q[i].rest, FALSE)
        /\ \A i \in S : \E n \in DOMAIN r : r[n] = FollowUp(q[i].lead, q[i].rest, FALSE)
    BY <1>1, <2>1, ResolvedIs, Zenon
  <2> QED BY <2>2 DEF S
<1>5. /\ Cardinality(up) \in Nat /\ Cardinality(DOMAIN q \ up) \in Nat
      /\ Cardinality(up) + Cardinality(DOMAIN q \ up) = Len(q)
  <2> HIDE DEF q
  <2> QED BY <1>1, <1>2, PartsOf
<1>6. \A m : m \in ToSet(e.steers) => m \notin ToSet(u)
  BY <1>2, <1>3, Zenon DEF LeadsApart
<1> HIDE DEF u, p
<1>7. /\ x \in Seq(Msgs) /\ Inj(x) /\ Sorted(x)
      /\ \A m : m \in ToSet(x) <=> m \in ToSet(e.steers) \/ m \in ToSet(u)
      /\ Len(x) \in Nat /\ Len(x) = Len(e.steers) + Len(u)
  BY <1>1, <1>3, <1>6, MergedIs
<1>8. z \in Seq(Msgs) /\ \A m \in ToSet(z) : m \in ToSet(e.turn) \/ \E i \in up : q[i].lead = m
  <2>1. e.turn \o u \in Seq(Msgs)
    BY <1>1, <1>3
  <2>2. z \in Seq(Msgs) /\ ToSet(z) \subseteq ToSet(e.turn \o u)
    BY <2>1, NewestSeq
  <2>3. ASSUME NEW m \in ToSet(e.turn \o u)
        PROVE  m \in ToSet(e.turn) \/ m \in ToSet(u)
    <3> DEFINE c == e.turn
    <3>0. c \in Seq(Msgs)
      BY <1>1
    <3> HIDE DEF c
    <3>1. PICK i \in DOMAIN (c \o u) : (c \o u)[i] = m
      BY SetOf DEF c
    <3>2. i \in DOMAIN c \/ \E j \in DOMAIN u : i = Len(c) + j
      BY <1>3, <3>0, JoinSet
    <3>3. ASSUME i \in DOMAIN c
          PROVE  m \in ToSet(c)
      BY <1>3, <3>0, <3>1, <3>3, JoinSet, SetOf
    <3>4. ASSUME NEW j \in DOMAIN u, i = Len(c) + j
          PROVE  m \in ToSet(u)
      BY <1>3, <3>0, <3>1, <3>4, JoinSet, SetOf
    <3> QED BY <3>2, <3>3, <3>4 DEF c
  <2> HIDE DEF z
  <2> QED BY <1>3, <2>2, <2>3
<1>9. Resolve(e, mapped) = [e EXCEPT !.mapping = w, !.follow_ups = p, !.steers = x, !.turn = z]
  BY DEF Resolve, up, u, p
<1>10. w \in Mappings
  BY DEF Mappings
<1> HIDE DEF x, z, w
<1>11. LET f == Resolve(e, mapped) IN
      /\ f \in Sessions /\ f.kind = "session" /\ f.run = e.run /\ f.mapping = w
      /\ f.aborts = e.aborts /\ f.authorizing = e.authorizing
      /\ f.steers = x /\ f.follow_ups = p /\ f.turn = z
  BY <1>4, <1>7, <1>8, <1>9, <1>10 DEF Sessions
<1>12. Len(x) + Len(p) <= Len(e.steers) + Len(q)
  <2>1. Len(e.steers) \in Nat /\ Len(q) \in Nat
    BY <1>1
  <2> HIDE DEF q
  <2> QED BY <1>3, <1>4, <1>5, <1>7, <2>1
<1>13. \A m : m \in ToSet(x) <=> m \in ToSet(e.steers) \/ \E i \in up : q[i].lead = m
  BY <1>3, <1>7
<1>15. PICK f : f = Resolve(e, mapped)
  OBVIOUS
<1> HIDE DEF q
<1>16. /\ f \in Sessions /\ f.run = e.run /\ f.mapping = w
       /\ f.aborts = e.aborts /\ f.authorizing = e.authorizing
       /\ f.steers = x /\ f.follow_ups = p /\ f.turn = z
  BY <1>11, <1>15
<1>17. Resolves(f, e, mapped, up)
  BY <1>4, <1>7, <1>8, <1>12, <1>13, <1>16 DEF Resolves, w, q
<1> QED BY <1>15, <1>17 DEF up

------------------------------------------------------------------------------
(* The next turn: what is left of the steers, folded, and the follow-ups. *)

LEMMA LeastIn ==
  ASSUME NEW S \in SUBSET Nat, S # {}
  PROVE  \E n \in S : \A m \in S : n <= m
<1> DEFINE Less == OpToRel(<, Nat)
<1>1. PICK n \in S : \A m \in S : ~(<<m, n>> \in Less)
  <2>1. IsWellFoundedOn(Less, Nat)
    BY NatLessThanWellFounded
  <2> HIDE DEF Less
  <2> QED BY <2>1, WFMin
<1>2. \A m, k \in Nat : m < k => <<m, k>> \in Less
  <2>1. ASSUME NEW m \in Nat, NEW k \in Nat, m < k
        PROVE  <<m, k>> \in {ss \in Nat \X Nat : ss[1] < ss[2]}
    BY <2>1
  <2> QED BY <2>1 DEF OpToRel
<1> HIDE DEF Less
<1>3. \A m \in S : n <= m
  <2>1. ASSUME NEW m \in S, m < n
        PROVE  FALSE
    <3>1. <<m, n>> \in Less
      BY <1>2, <2>1
    <3> QED BY <1>1, <3>1
  <2> QED BY <2>1
<1> QED BY <1>3

LEMMA GreatestIn ==
  ASSUME NEW N \in Nat, NEW S \in SUBSET (0 .. N), S # {}
  PROVE  \E n \in S : \A m \in S : m <= n
<1> DEFINE T == {N - m : m \in S}
<1>1. T \in SUBSET Nat /\ T # {}
  <2>1. \A m \in S : N - m \in Nat
    OBVIOUS
  <2> QED BY <2>1, Zenon
<1>2. PICK t \in T : \A k \in T : t <= k
  <2> HIDE DEF T
  <2> QED BY <1>1, LeastIn
<1>3. PICK n \in S : t = N - n
  BY <1>2
<1>4. \A m \in S : m <= n
  <2> TAKE m \in S
  <2>1. N - m \in T
    OBVIOUS
  <2>2. N - n <= N - m
    BY <1>2, <1>3, <2>1
  <2> QED BY <2>2
<1> QED BY <1>4

Requests(s) == Pick(s, {i \in DOMAIN s : Kind[s[i]] # "late"})
Starts(l) == {i \in DOMAIN l : i = 1 \/ ~FoldsInto(l[i - 1], l[i])}
Folded(l, i) == {j \in (i + 1)..Len(l) : (i + 1)..j \intersect Starts(l) = {}}
Group(l, i) == {i} \union Folded(l, i)

LEMMA GroupCovers ==
  ASSUME NEW l \in Seq(Msgs), NEW j \in DOMAIN l
  PROVE  \E i \in Starts(l) : j \in Group(l, i)
<1>1. Len(l) \in Nat /\ DOMAIN l = 1..Len(l) /\ j \in Nat /\ 1 \in DOMAIN l
  OBVIOUS
<1> DEFINE S == {i \in Starts(l) : i <= j}
<1>2. S \in SUBSET (0 .. j)
  BY <1>1 DEF Starts
<1>3. 1 \in S
  BY <1>1 DEF Starts
<1>4. PICK i \in S : \A m \in S : m <= i
  <2> HIDE DEF S
  <2> QED BY <1>1, <1>2, <1>3, GreatestIn
<1>5. i \in Nat /\ i <= j /\ i \in Starts(l)
  BY <1>1, <1>2, <1>4
<1>6. ASSUME i # j
      PROVE  j \in Folded(l, i)
  <2>1. j \in (i + 1)..Len(l)
    BY <1>1, <1>5, <1>6
  <2>2. ASSUME NEW m \in (i + 1)..j, m \in Starts(l)
        PROVE  FALSE
    <3>1. m \in Nat /\ m <= j /\ i < m
      BY <1>1, <1>5, <2>2
    <3>2. m \in S
      BY <2>2, <3>1
    <3>3. m <= i
      BY <1>4, <3>2
    <3> QED BY <1>5, <3>1, <3>3
  <2> QED BY <2>1, <2>2 DEF Folded
<1> QED BY <1>5, <1>6 DEF Group

LEMMA GroupsApart ==
  ASSUME NEW l \in Seq(Msgs), NEW i \in Starts(l), NEW k \in Starts(l),
         NEW j, j \in Group(l, i), j \in Group(l, k)
  PROVE  i = k
<1>1. Len(l) \in Nat /\ DOMAIN l = 1..Len(l) /\ i \in 1..Len(l) /\ k \in 1..Len(l)
  BY DEF Starts
<1>2. ASSUME NEW a \in Starts(l), NEW b \in Starts(l), j \in Group(l, a), j \in Group(l, b),
             a \in Nat, b \in Nat, a < b
      PROVE  FALSE
  <2>1. j \in Int /\ b <= j
    BY <1>2, <1>1 DEF Group, Folded
  <2>2. j \in Folded(l, a)
    BY <1>2, <2>1 DEF Group
  <2>3. b \in (a + 1)..j
    BY <1>2, <2>1
  <2> QED BY <2>2, <2>3 DEF Folded
<1>3. i < k \/ k < i \/ i = k
  BY <1>1
<1>4. i \in Nat /\ k \in Nat
  BY <1>1
<1> QED BY <1>2, <1>3, <1>4

LEMMA GroupFolds ==
  ASSUME NEW l \in Seq(Msgs), NEW i \in Starts(l), NEW j \in Folded(l, i)
  PROVE  j \in DOMAIN l /\ Sender[l[j]] = Sender[l[i]]
<1>1. Len(l) \in Nat /\ DOMAIN l = 1..Len(l) /\ i \in 1..Len(l)
  BY DEF Starts
<1>2. \A m \in Folded(l, i) : m \in Nat /\ m \in DOMAIN l /\ i < m
  BY <1>1 DEF Folded
<1> DEFINE T == {m \in Folded(l, i) : Sender[l[m]] # Sender[l[i]]}
<1>3. CASE T # {}
  <2>1. T \in SUBSET Nat
    BY <1>2
  <2>2. PICK m \in T : \A k \in T : m <= k
    <3> HIDE DEF T
    <3> QED BY <1>3, <2>1, LeastIn
  <2>3. m \in Nat /\ i < m /\ m \in DOMAIN l /\ m \in (i + 1)..m
    BY <1>1, <1>2, <2>2
  <2>4. m \notin Starts(l)
    BY <2>2, <2>3 DEF Folded
  <2>5. Sender[l[m - 1]] = Sender[l[m]]
    BY <2>3, <2>4 DEF Starts, FoldsInto
  <2>6. m - 1 # i
    BY <2>2, <2>5
  <2>7. m - 1 \in Folded(l, i)
    <3>1. m - 1 \in (i + 1)..Len(l)
      BY <1>1, <2>3, <2>6
    <3>2. \A k \in (i + 1)..(m - 1) : k \in (i + 1)..m
      BY <1>1, <2>3
    <3>3. (i + 1)..m \intersect Starts(l) = {}
      BY <2>2 DEF Folded
    <3> QED BY <3>1, <3>2, <3>3 DEF Folded
  <2>8. m - 1 \in T
    BY <2>2, <2>5, <2>7
  <2>9. m <= m - 1
    BY <2>2, <2>8
  <2> QED BY <2>3, <2>9
<1> QED BY <1>2, <1>3

LEMMA RequestsIs ==
  ASSUME NEW s \in Seq(Msgs), Inj(s)
  PROVE  LET l == Requests(s) IN
         /\ l \in Seq(Msgs) /\ Inj(l) /\ Len(l) \in Nat /\ Len(l) <= Len(s)
         /\ \A m : m \in ToSet(l) <=> m \in ToSet(s) /\ Kind[m] # "late"
<1> DEFINE S == {i \in DOMAIN s : Kind[s[i]] # "late"}
<1>1. S \subseteq DOMAIN s
  OBVIOUS
<1>2. \A m : (\E i \in S : s[i] = m) <=> m \in ToSet(s) /\ Kind[m] # "late"
  BY SetOf
<1>3. Requests(s) = Pick(s, S)
  BY DEF Requests
<1> HIDE DEF S
<1>4. /\ Pick(s, S) \in Seq(Msgs) /\ Len(Pick(s, S)) \in Nat /\ Len(Pick(s, S)) <= Len(s)
  BY <1>1, PickSeq
<1>5. /\ \A m : m \in ToSet(Pick(s, S)) <=> \E i \in S : s[i] = m
      /\ Inj(Pick(s, S))
  BY <1>1, PickSet
<1> QED BY <1>2, <1>3, <1>4, <1>5

\* The item that request i of l leads, with those folded into it.
ItemAt(l, i) == FollowUp(l[i], {l[j] : j \in Folded(l, i)}, FALSE)

LEMMA ItemAtIs ==
  ASSUME NEW l \in Seq(Msgs), NEW i \in Starts(l)
  PROVE  LET item == ItemAt(l, i) IN
         /\ item \in Items /\ item.lead = l[i] /\ item.pending = FALSE
         /\ \A m \in item.rest : Sender[m] = Sender[item.lead]
         /\ \A m : m \in Content(item) <=> \E j \in Group(l, i) : l[j] = m
<1>1. i \in DOMAIN l /\ l[i] \in Msgs
  BY DEF Starts
<1>2. \A j \in Folded(l, i) : j \in DOMAIN l /\ l[j] \in Msgs /\ Sender[l[j]] = Sender[l[i]]
  BY GroupFolds
<1> DEFINE R == {l[j] : j \in Folded(l, i)}
<1>3. R \in SUBSET Msgs /\ \A m \in R : Sender[m] = Sender[l[i]]
  BY <1>2
<1>4. \A m : m \in {l[i]} \union R <=> \E j \in Group(l, i) : l[j] = m
  BY DEF Group
<1>5. ItemAt(l, i) = [lead |-> l[i], rest |-> R, pending |-> FALSE]
  BY DEF ItemAt, FollowUp
<1> HIDE DEF R
<1>6. /\ ItemAt(l, i) \in Items /\ ItemAt(l, i).lead = l[i] /\ ItemAt(l, i).pending = FALSE
      /\ ItemAt(l, i).rest = R
  BY <1>1, <1>3, <1>5 DEF Items
<1>7. Content(ItemAt(l, i)) = {l[i]} \union R
  BY <1>6 DEF Content
<1> QED BY <1>3, <1>4, <1>6, <1>7

\* L is what is left of the steers s, folded.
LeftOver(L, s) ==
  /\ L \in Seq(Items) /\ Len(L) \in Nat /\ Len(L) <= Len(s) /\ Apart(L)
  /\ \A n \in DOMAIN L : /\ L[n].pending = FALSE
                         /\ \A m \in L[n].rest : Sender[m] = Sender[L[n].lead]
  /\ \A m : (\E n \in DOMAIN L : m \in Content(L[n])) <=> m \in ToSet(s) /\ Kind[m] # "late"

LEMMA LeftoversIs ==
  ASSUME NEW s \in Seq(Msgs), Inj(s)
  PROVE  LeftOver(Leftovers(s), s)
<1> DEFINE l == Requests(s)
           S == Starts(l)
           N == Cardinality(S)
           L == Leftovers(s)
<1>1. /\ l \in Seq(Msgs) /\ Inj(l) /\ Len(l) \in Nat /\ Len(l) <= Len(s)
      /\ \A m : m \in ToSet(l) <=> m \in ToSet(s) /\ Kind[m] # "late"
  BY RequestsIs
<1>2. L = [n \in 1..N |-> ItemAt(l, Place(S, n))]
  BY DEF Leftovers, Requests, Starts, Folded, ItemAt
<1> HIDE DEF l, L
<1>3. S \subseteq DOMAIN l
  BY DEF Starts
<1>4. IsFiniteSet(S) /\ N <= Len(l) /\ S \subseteq Nat
  <2>1. DOMAIN l = 1..Len(l)
    BY <1>1
  <2>2. IsFiniteSet(DOMAIN l) /\ Cardinality(DOMAIN l) = Len(l)
    BY <1>1, <2>1, UptoCard
  <2> HIDE DEF S
  <2> QED BY <1>3, <2>1, <2>2, FS_Subset
<1>5. /\ N \in Nat
      /\ \A n \in 1..N : Place(S, n) \in S
      /\ \A i \in S : \E n \in 1..N : Place(S, n) = i
      /\ \A m, n \in 1..N : m < n => Place(S, m) < Place(S, n)
  <2> HIDE DEF S
  <2> QED BY <1>4, PlacesOf
<1>6. \A n \in 1..N : ItemAt(l, Place(S, n)) \in Items
  <2> TAKE n \in 1..N
  <2>1. Place(S, n) \in Starts(l)
    BY <1>5
  <2> QED BY <1>1, <2>1, ItemAtIs
<1> HIDE DEF N
<1>7. L \in Seq(Items) /\ Len(L) = N /\ DOMAIN L = 1..N
  <2>1. L \in [1..N -> Items]
    BY <1>2, <1>6
  <2> QED BY <1>5, <2>1, FunctionIsSeq
<1>8. \A n \in DOMAIN L : L[n] = ItemAt(l, Place(S, n)) /\ Place(S, n) \in Starts(l)
  BY <1>2, <1>5, <1>7
<1>9. ASSUME NEW n \in DOMAIN L
      PROVE  /\ L[n].pending = FALSE
             /\ \A m \in L[n].rest : Sender[m] = Sender[L[n].lead]
             /\ \A m : m \in Content(L[n]) <=> \E j \in Group(l, Place(S, n)) : l[j] = m
  <2>1. L[n] = ItemAt(l, Place(S, n)) /\ Place(S, n) \in Starts(l)
    BY <1>8
  <2> DEFINE i == Place(S, n)
  <2> HIDE DEF i
  <2>2. LET item == ItemAt(l, i) IN
         /\ item \in Items /\ item.lead = l[i] /\ item.pending = FALSE
         /\ \A m \in item.rest : Sender[m] = Sender[item.lead]
         /\ \A m : m \in Content(item) <=> \E j \in Group(l, i) : l[j] = m
    <3>1. i \in Starts(l)
      BY <2>1 DEF i
    <3> QED BY <1>1, <3>1, ItemAtIs, Zenon
  <2>3. L[n] = ItemAt(l, i)
    BY <2>1 DEF i
  <2>4. /\ L[n].pending = FALSE
        /\ \A m \in L[n].rest : Sender[m] = Sender[L[n].lead]
        /\ \A m : m \in Content(L[n]) <=> \E j \in Group(l, i) : l[j] = m
    BY <2>2, <2>3, Zenon
  <2> QED BY <2>4 DEF i
<1>10. \A i \in Starts(l) : Group(l, i) \subseteq DOMAIN l
  <2> TAKE i \in Starts(l)
  <2>1. \A j \in Folded(l, i) : j \in DOMAIN l
    BY <1>1, GroupFolds
  <2> QED BY <2>1, <1>3 DEF Group
<1>11. Apart(L)
  <2>1. ASSUME NEW a \in DOMAIN L, NEW b \in DOMAIN L, NEW m,
               m \in Content(L[a]), m \in Content(L[b])
        PROVE  a = b
    <3>1. PICK j \in Group(l, Place(S, a)) : l[j] = m
      BY <1>9, <2>1
    <3>2. PICK k \in Group(l, Place(S, b)) : l[k] = m
      BY <1>9, <2>1
    <3>3. j = k
      BY <1>1, <1>8, <1>10, <3>1, <3>2 DEF Inj
    <3>4. Place(S, a) = Place(S, b)
      BY <1>1, <1>8, <3>1, <3>2, <3>3, GroupsApart
    <3>5. a \in Nat /\ b \in Nat /\ Place(S, a) \in Nat
      BY <1>4, <1>5, <1>7
    <3>6. (a < b => Place(S, a) < Place(S, b)) /\ (b < a => Place(S, b) < Place(S, a))
      BY <1>5, <1>7
    <3> QED BY <3>4, <3>5, <3>6
  <2> QED BY <2>1 DEF Apart
<1>12. ASSUME NEW m
       PROVE  (\E n \in DOMAIN L : m \in Content(L[n])) <=> m \in ToSet(l)
  <2>1. ASSUME NEW n \in DOMAIN L, m \in Content(L[n])
        PROVE  m \in ToSet(l)
    <3>1. PICK j \in Group(l, Place(S, n)) : l[j] = m
      BY <1>9, <2>1
    <3> QED BY <1>8, <1>10, <3>1, SetOf
  <2>2. ASSUME m \in ToSet(l)
        PROVE  \E n \in DOMAIN L : m \in Content(L[n])
    <3>1. PICK j \in DOMAIN l : l[j] = m
      BY <2>2, SetOf
    <3>2. PICK i \in Starts(l) : j \in Group(l, i)
      BY <1>1, GroupCovers
    <3>3. PICK n \in 1..N : Place(S, n) = i
      BY <1>5, <3>2
    <3>4. n \in DOMAIN L
      BY <1>7
    <3> QED BY <1>9, <3>1, <3>2, <3>3, <3>4
  <2> QED BY <2>1, <2>2
<1>13. Len(L) \in Nat /\ Len(L) <= Len(s)
  <2>1. Len(s) \in Nat
    OBVIOUS
  <2> QED BY <1>1, <1>4, <1>5, <1>7, <2>1 DEF N
<1>14. \A m : (\E n \in DOMAIN L : m \in Content(L[n])) <=> m \in ToSet(s) /\ Kind[m] # "late"
  BY <1>1, <1>12
<1>15. LeftOver(L, s)
  BY <1>7, <1>9, <1>11, <1>13, <1>14 DEF LeftOver
<1> QED BY <1>15 DEF L

LEMMA FoldEndIs ==
  ASSUME NEW q \in Seq(Items), NEW n \in 1..Len(q)
  PROVE  /\ FoldEnd(q, n) \in (n + 1)..(Len(q) + 1)
         /\ \A j \in (n + 1)..(FoldEnd(q, n) - 1) : Sender[q[j].lead] = Sender[q[n].lead]
<1> DEFINE S == {j \in (n + 1)..(Len(q) + 1) : j > Len(q) \/ ~FoldsInto(q[n].lead, q[j].lead)}
<1>1. Len(q) \in Nat /\ n \in Nat /\ n <= Len(q)
  OBVIOUS
<1>2. S \in SUBSET Nat /\ Len(q) + 1 \in S
  BY <1>1
<1>3. FoldEnd(q, n) \in S /\ \A m \in S : FoldEnd(q, n) <= m
  <2>1. \E m \in S : \A k \in S : m <= k
    <3> HIDE DEF S
    <3> QED BY <1>2, LeastIn
  <2> QED BY <2>1 DEF FoldEnd, Min
<1>4. ASSUME NEW j \in (n + 1)..(FoldEnd(q, n) - 1)
      PROVE  Sender[q[j].lead] = Sender[q[n].lead]
  <2>1. FoldEnd(q, n) \in Nat /\ FoldEnd(q, n) <= Len(q) + 1
    BY <1>1, <1>3
  <2>2. j \in (n + 1)..(Len(q) + 1) /\ ~(FoldEnd(q, n) <= j) /\ ~(j > Len(q))
    BY <1>1, <2>1, <1>4
  <2>3. j \notin S
    BY <1>3, <2>2
  <2>4. FoldsInto(q[n].lead, q[j].lead)
    BY <2>2, <2>3
  <2> QED BY <2>4 DEF FoldsInto
<1> QED BY <1>3, <1>4

\* f runs the items n to d of the queue q and keeps those after them.
Opens(f, q, n, d) ==
  /\ f \in Sessions /\ f.run = q[n].lead
  /\ f.mapping \in {"pending", "unmapped"} /\ f.aborts = 0 /\ f.authorizing = 0 /\ f.steers = <<>>
  /\ d \in n..Len(q) /\ f.follow_ups \in Seq(Items) /\ Len(f.follow_ups) = Len(q) - d
  /\ \A i \in 1..(Len(q) - d) : f.follow_ups[i] = q[d + i]
  /\ \A m \in ToSet(f.turn) : m \in ContentOf(q, n..d) /\ Native(m)

LEMMA NextTurnIs ==
  ASSUME NEW q \in Seq(Items), NEW n \in 1..Len(q),
         NEW C, C = ContentOf(q, n..(FoldEnd(q, n) - 1)), IsFiniteSet(C),
         NEW turn, turn \in TurnIds(C)
  PROVE  Opens(NextTurn(q, n, turn), q, n, FoldEnd(q, n) - 1)
<1> DEFINE d == FoldEnd(q, n) - 1
           p == SubSeq(q, d + 1, Len(q))
           r == Running(q[n].lead, turn)
<1>1. Len(q) \in Nat /\ n \in Nat /\ d \in n..Len(q) /\ FoldEnd(q, n) = d + 1
  <2>1. FoldEnd(q, n) \in (n + 1)..(Len(q) + 1)
    BY FoldEndIs
  <2>2. Len(q) \in Nat /\ n \in Nat
    OBVIOUS
  <2> QED BY <2>1, <2>2
<1>2. q[n] \in Items /\ q[n].lead \in Msgs
  <2>1. q[n] \in Items
    OBVIOUS
  <2> QED BY <2>1 DEF Items
<1>3. NextTurn(q, n, turn) = [r EXCEPT !.follow_ups = p]
  BY <1>1 DEF NextTurn
<1> HIDE DEF d
<1>4. turn \in Seq(Msgs) /\ \A m \in ToSet(turn) : m \in ContentOf(q, n..d) /\ Native(m)
  <2>1. \A j \in n..d : j \in DOMAIN q
    BY <1>1
  <2>2. \A j \in n..d : Content(q[j]) \subseteq Msgs
    <3>1. \A j \in DOMAIN q : q[j] \in Items
      OBVIOUS
    <3> QED BY <2>1, <3>1 DEF Items, Content
  <2>3. C \in SUBSET Msgs /\ C = ContentOf(q, n..d)
    BY <2>2 DEF ContentOf, d
  <2> QED BY <2>3, TurnIdsSeq
<1>5. /\ p \in Seq(Items) /\ Len(p) = Len(q) - d
      /\ \A i \in 1..(Len(q) - d) : p[i] = q[d + i]
  BY <1>1
<1> HIDE DEF p
<1>6. /\ r \in Sessions /\ r.kind = "session" /\ r.run = q[n].lead
      /\ r.mapping \in {"pending", "unmapped"} /\ r.aborts = 0 /\ r.authorizing = 0
      /\ r.steers = <<>> /\ r.turn = turn
  BY <1>2, <1>4, RunningIs
<1> HIDE DEF r
<1>7. LET f == NextTurn(q, n, turn) IN
      /\ f \in Sessions /\ f.kind = r.kind /\ f.run = r.run /\ f.mapping = r.mapping
      /\ f.aborts = r.aborts /\ f.authorizing = r.authorizing
      /\ f.steers = r.steers /\ f.turn = r.turn /\ f.follow_ups = p
  BY <1>3, <1>5, <1>6 DEF Sessions
<1>8. PICK f : f = NextTurn(q, n, turn)
  OBVIOUS
<1>9. Opens(f, q, n, d)
  BY <1>1, <1>4, <1>5, <1>6, <1>7, <1>8 DEF Opens
<1> QED BY <1>8, <1>9 DEF d

------------------------------------------------------------------------------
(* The inductive invariant, conversation by conversation. *)

Phases == {"none", "dropping", "done"} \union Turns
TaskRecords == [phase: Phases, run: Msgs \union {None}, mode: {"none", "take", "seal"},
                batch: Seq(Msgs)]

Types ==
  /\ entries \in [Keys -> {NoHolder, Probe} \union Sessions]
  /\ permits \in Int
  /\ task \in [Msgs -> TaskRecords]
  /\ cancellation \in [Msgs -> Cancellations]
  /\ fate \in [Msgs -> Fates]
  /\ ran \in [Msgs -> Msgs \union {None}]
  /\ arrived \in Seq(Msgs)
  /\ vouched \in SUBSET Msgs

Of(k) == {m \in Msgs : KeyOf[m] = k}
InSteers(k, m) == Held(k) /\ m \in ToSet(entries[k].steers)
InFollow(k, m) ==
  Held(k) /\ \E i \in DOMAIN entries[k].follow_ups : m \in Content(entries[k].follow_ups[i])
InBatch(k, m) == \E t \in Of(k) : m \in ToSet(task[t].batch)

\* The arrival order names each message that was sent once.
ArriveInv == Inj(arrived) /\ \A m \in Msgs : m \in ToSet(arrived) <=> fate[m] # "unsent"

\* One live task holds the conversation and runs the turn it names; a task
\* that released it has run turns whose leads are taken for good.
LifeOK(k) ==
  /\ \A t \in Of(k) :
       /\ fate[t] = "unsent" => task[t].phase = "none"
       /\ task[t].phase # "none" => task[t].run \in Of(k) /\ fate[task[t].run] = "taken"
       /\ Live(t) => Held(k) /\ entries[k].run = task[t].run
       /\ task[t].phase = "dropping" /\ Held(k) => entries[k].run # task[t].run
       /\ task[t].phase \in Turns \ {"opening"} => entries[k].mapping # "pending"
       /\ task[t].batch # <<>> =>
            task[t].phase = "prompting" /\ entries[k].mapping = "mapped" /\ entries[k].run \notin PosterOnly
  /\ \A t, u \in Of(k) : Live(t) /\ Live(u) => t = u
  /\ Held(k) => \E t \in Of(k) : Live(t)

\* A message is open exactly while it is in a mailbox or being authorized, and
\* it is in one place.
MailOK(k) ==
  /\ \A m \in Of(k) : Open(m) <=> InSteers(k, m) \/ InFollow(k, m) \/ InBatch(k, m)
  /\ \A m : /\ InSteers(k, m) => m \in Of(k) /\ ~InFollow(k, m) /\ ~InBatch(k, m)
            /\ InFollow(k, m) => m \in Of(k) /\ ~InBatch(k, m)
            /\ InBatch(k, m) => m \in Of(k)
  /\ Held(k) => Inj(entries[k].steers) /\ Apart(entries[k].follow_ups)
  /\ \A t \in Of(k) : Inj(task[t].batch)

\* The mailbox is within its bound, and `authorizing` counts the batch.
BoundOK(k) ==
  Held(k) =>
    /\ Depth(entries[k]) <= Capacity /\ entries[k].aborts <= MaxInterrupts
    /\ \A t \in Of(k) : Live(t) => entries[k].authorizing = Len(task[t].batch)

\* Whom a turn may hear.
Hears(e, m) == Sender[m] = Sender[e.run] \/ (e.mapping = "mapped" /\ e.run \notin PosterOnly)

ItemOK(e, item) ==
  /\ \A m \in item.rest : Sender[m] = Sender[item.lead]
  /\ \A m \in Content(item) : Kind[m] # "late"
  /\ item.pending => /\ Native(item.lead) /\ item.rest = {} /\ Sender[item.lead] # Sender[e.run]
                     /\ e.mapping = "pending"

SendOK(k) ==
  /\ Held(k) =>
       /\ \A i \in DOMAIN entries[k].follow_ups : ItemOK(entries[k], entries[k].follow_ups[i])
       /\ \A m : m \in ToSet(entries[k].steers) \/ m \in ToSet(entries[k].turn)
                   => Hears(entries[k], m)
  /\ \A t \in Of(k) : \A m \in ToSet(task[t].batch) :
       Sender[m] = Sender[task[t].run] \/ task[t].run \notin PosterOnly
  /\ \A m \in Of(k) : fate[m] = "taken" /\ Sender[m] # Sender[ran[m]] =>
       m \in vouched /\ ran[m] \notin PosterOnly

InterruptOK(k) ==
  Held(k) /\ k \in AbortSteering /\ entries[k].aborts < MaxInterrupts
    /\ State(entries[k]) = "running"
    /\ (\E m \in ToSet(entries[k].steers) : Native(m) /\ Sender[m] = Sender[entries[k].run])
  => cancellation[entries[k].run].model

\* A message whose fate in the turn led by r is decided.
Through(m, r) == (fate[m] = "taken" /\ ran[m] = r) \/ fate[m] = "unauthorized"

LateOK(k) ==
  /\ Held(k) /\ State(entries[k]) = "running" =>
       \A m \in ToSet(entries[k].turn) :
         m \in Of(k) /\ (InSteers(k, m) \/ InBatch(k, m) \/ Through(m, entries[k].run))
  /\ \A t \in Of(k) : Live(t) /\ task[t].phase # "ended" =>
       \A l \in ToSet(entries[k].steers) : Kind[l] = "late" =>
         InBatch(k, Base[l]) \/ Through(Base[l], entries[k].run)
  /\ \A t \in Of(k) : \A l \in ToSet(task[t].batch) : Kind[l] = "late" =>
       Through(Base[l], task[t].run)
  /\ \A l \in Of(k) : Kind[l] = "late" /\ fate[l] = "taken" => Through(Base[l], ran[l])

OrderOK(k) == Held(k) => Sorted(entries[k].steers)

Holders == {t \in Msgs : HasPermit(t)}
Probes == {k \in Keys : entries[k] = Probe}

\* Every permit is free, with a task or with a probe.
PermitInv ==
  /\ IsFiniteSet(Holders) /\ IsFiniteSet(Probes)
  /\ permits \in Nat /\ permits + Cardinality(Holders) + Cardinality(Probes) = Permits

GateInv ==
  /\ Types /\ ArriveInv /\ PermitInv
  /\ \A k \in Keys : LifeOK(k) /\ MailOK(k) /\ BoundOK(k) /\ SendOK(k)
  /\ \A k \in Keys : InterruptOK(k) /\ LateOK(k) /\ OrderOK(k)

------------------------------------------------------------------------------
(* What the steps have in common. *)

LEMMA HeldIs ==
  ASSUME Types, NEW k \in Keys
  PROVE  /\ Held(k) <=> entries[k] \in Sessions
         /\ ~Held(k) => entries[k] \in {NoHolder, Probe}
         /\ Held(k) => entries[k] # NoHolder /\ entries[k] # Probe
<1>1. entries[k] \in {NoHolder, Probe} \union Sessions
  BY DEF Types
<1>2. \A e \in Sessions : e.kind = "session"
  BY SessionFields
<1>3. NoHolder.kind = "none" /\ Probe.kind = "probe"
  BY DEF NoHolder, Probe
<1> QED BY <1>1, <1>2, <1>3 DEF Held

LEMMA TaskFields ==
  ASSUME Types, NEW t \in Msgs
  PROVE  /\ task[t] \in TaskRecords /\ task[t].phase \in Phases /\ task[t].run \in Msgs \union {None}
         /\ task[t].mode \in {"none", "take", "seal"} /\ task[t].batch \in Seq(Msgs)
<1>1. task[t] \in TaskRecords
  BY DEF Types
<1> QED BY <1>1 DEF TaskRecords

LEMMA OfKey ==
  /\ \A m : m \in Of(KeyOf[m]) <=> m \in Msgs
  /\ \A k, m : m \in Of(k) <=> m \in Msgs /\ KeyOf[m] = k
  /\ \A m \in Msgs : KeyOf[m] \in Keys
BY MessagesAssumption DEF Of

\* The task that holds a conversation, and no other, may be authorizing.
LEMMA HolderIs ==
  ASSUME Types, NEW k \in Keys, LifeOK(k), NEW t \in Of(k), Live(t)
  PROVE  /\ Held(k) /\ entries[k] \in Sessions /\ entries[k].run = task[t].run
         /\ entries[k].run \in Of(k) /\ fate[entries[k].run] = "taken"
         /\ \A u \in Of(k) : u # t => ~Live(u) /\ task[u].batch = <<>>
         /\ \A m : InBatch(k, m) <=> m \in ToSet(task[t].batch)
<1>1. Held(k) /\ entries[k].run = task[t].run /\ task[t].phase # "none"
  BY DEF LifeOK, Live, Turns
<1>2. entries[k] \in Sessions
  BY <1>1, HeldIs
<1>3. entries[k].run \in Of(k) /\ fate[entries[k].run] = "taken"
  BY <1>1 DEF LifeOK
<1>4. ASSUME NEW u \in Of(k), u # t
      PROVE  ~Live(u) /\ task[u].batch = <<>>
  <2>1. ~Live(u)
    BY <1>4 DEF LifeOK
  <2>2. task[u].phase # "prompting"
    BY <2>1 DEF Live, Turns
  <2> QED BY <2>1, <2>2 DEF LifeOK
<1>5. \A m : m \notin ToSet(<<>>)
  BY SetOf
<1>6. \A m : InBatch(k, m) <=> m \in ToSet(task[t].batch)
  BY <1>4, <1>5 DEF InBatch
<1> QED BY <1>1, <1>2, <1>3, <1>4, <1>6

\* A step of a conversation's task t, which becomes r and leaves the entry f.
Moved(k, t, r, f) ==
  /\ t \in Of(k) /\ Live(t) /\ r \in TaskRecords /\ r.phase \in Turns /\ r.run = task[t].run
  /\ f \in Sessions /\ f.run = entries[k].run
  /\ entries' = [entries EXCEPT ![k] = f] /\ task' = [task EXCEPT ![t] = r]

LEMMA MovedFrame ==
  ASSUME Types, NEW k \in Keys, LifeOK(k), NEW t, NEW r, NEW f, Moved(k, t, r, f)
  PROVE  /\ entries'[k] = f /\ task'[t] = r /\ Held(k)' /\ Live(t)'
         /\ \A u \in Of(k) : u # t => task'[u] = task[u] /\ ~Live(u)' /\ task'[u].batch = <<>>
         /\ \A m : InBatch(k, m)' <=> m \in ToSet(r.batch)
         /\ \A m : InSteers(k, m)' <=> m \in ToSet(f.steers)
         /\ \A m : InFollow(k, m)' <=> \E i \in DOMAIN f.follow_ups : m \in Content(f.follow_ups[i])
<1>1. t \in Msgs /\ \A u \in Of(k) : u \in Msgs
  BY OfKey DEF Moved
<1>2. entries'[k] = f /\ task'[t] = r /\ \A u \in Of(k) : u # t => task'[u] = task[u]
  BY <1>1 DEF Moved, Types
<1>3. Held(k)' /\ Live(t)'
  BY <1>2, SessionFields DEF Moved, Held, Live
<1>4. ASSUME NEW u \in Of(k), u # t
      PROVE  ~Live(u)' /\ task'[u].batch = <<>>
  <2>1. ~Live(u) /\ task[u].batch = <<>>
    BY <1>4, HolderIs DEF Moved
  <2> QED BY <2>1, <1>2, <1>4 DEF Live
<1>5. \A m : m \notin ToSet(<<>>)
  BY SetOf
<1>6. \A m : InBatch(k, m)' <=> m \in ToSet(r.batch)
  BY <1>2, <1>4, <1>5 DEF InBatch, Moved
<1> QED BY <1>2, <1>3, <1>4, <1>6 DEF InSteers, InFollow

\* No message is unsent again, and none that a turn took is given back.
FatesGrow(k) ==
  \A m \in Of(k) : /\ fate[m] = "taken" => fate'[m] = "taken"
                   /\ fate'[m] = "unsent" => fate[m] = "unsent"

LEMMA MovedLife ==
  ASSUME Types, NEW k \in Keys, LifeOK(k), NEW t, NEW r, NEW f, Moved(k, t, r, f), FatesGrow(k),
         r.phase # "opening" => f.mapping # "pending",
         r.batch # <<>> => r.phase = "prompting" /\ f.mapping = "mapped" /\ f.run \notin PosterOnly
  PROVE  LifeOK(k)'
<1>1. /\ entries'[k] = f /\ task'[t] = r /\ Held(k)' /\ Live(t)'
      /\ \A u \in Of(k) : u # t => task'[u] = task[u] /\ ~Live(u)' /\ task'[u].batch = <<>>
  BY MovedFrame
<1>2. /\ entries[k].run = task[t].run /\ entries[k].run \in Of(k) /\ Held(k)
      /\ fate[entries[k].run] = "taken" /\ f.run = entries[k].run /\ r.run = entries[k].run
      /\ r.phase \in Turns /\ t \in Of(k) /\ task[t].phase # "none"
  BY HolderIs DEF Moved, Live, Turns
<1>3. ASSUME NEW u \in Of(k)
      PROVE  /\ fate'[u] = "unsent" => task'[u].phase = "none"
             /\ task'[u].phase # "none" => task'[u].run \in Of(k) /\ fate'[task'[u].run] = "taken"
             /\ Live(u)' => Held(k)' /\ entries'[k].run = task'[u].run
             /\ task'[u].phase = "dropping" /\ Held(k)' => entries'[k].run # task'[u].run
             /\ task'[u].phase \in Turns \ {"opening"} => entries'[k].mapping # "pending"
             /\ task'[u].batch # <<>> => /\ task'[u].phase = "prompting" /\ entries'[k].mapping = "mapped"
                                          /\ entries'[k].run \notin PosterOnly
  <2>1. CASE u = t
    <3>1. task'[u].phase # "none" /\ task'[u].phase # "dropping" /\ task'[u] = r
      BY <1>1, <1>2, <2>1 DEF Turns
    <3>2. fate[u] # "unsent"
      BY <1>2, <2>1 DEF LifeOK
    <3> QED BY <1>1, <1>2, <2>1, <3>1, <3>2 DEF FatesGrow
  <2>2. CASE u # t
    <3>1. task'[u] = task[u] /\ ~Live(u)' /\ task'[u].batch = <<>>
      BY <1>1, <2>2
    <3>2. task'[u].phase \notin Turns
      BY <3>1 DEF Live
    <3> QED BY <1>1, <1>2, <2>2, <3>1, <3>2 DEF LifeOK, FatesGrow
  <2> QED BY <2>1, <2>2
<1>4. \A u, v \in Of(k) : Live(u)' /\ Live(v)' => u = v
  BY <1>1
<1> QED BY <1>1, <1>2, <1>3, <1>4 DEF LifeOK

\* A step of the gateway that leaves the tasks alone and the entry f.
Kept(k, f) ==
  /\ Held(k) /\ f \in Sessions /\ f.run = entries[k].run /\ f.mapping = entries[k].mapping
  /\ entries' = [entries EXCEPT ![k] = f] /\ task' = task

LEMMA KeptFrame ==
  ASSUME Types, NEW k \in Keys, NEW f, Kept(k, f)
  PROVE  /\ entries'[k] = f /\ Held(k)' /\ entries[k] \in Sessions
         /\ \A u : Live(u)' <=> Live(u)
         /\ \A m : InBatch(k, m)' <=> InBatch(k, m)
         /\ \A m : InSteers(k, m)' <=> m \in ToSet(f.steers)
         /\ \A m : InFollow(k, m)' <=> \E i \in DOMAIN f.follow_ups : m \in Content(f.follow_ups[i])
<1>1. entries'[k] = f /\ entries[k] \in Sessions
  BY HeldIs DEF Types, Kept
<1>2. Held(k)'
  BY <1>1, SessionFields DEF Kept, Held
<1> QED BY <1>1, <1>2 DEF Kept, Live, InBatch, InSteers, InFollow

LEMMA KeptLife ==
  ASSUME Types, NEW k \in Keys, LifeOK(k), NEW f, Kept(k, f), FatesGrow(k)
  PROVE  LifeOK(k)'
<1>1. entries'[k] = f /\ Held(k)' /\ \A u : Live(u)' <=> Live(u)
  BY KeptFrame
<1>2. task' = task /\ f.run = entries[k].run /\ f.mapping = entries[k].mapping /\ Held(k)
  BY DEF Kept
<1> QED BY <1>1, <1>2 DEF LifeOK, FatesGrow

------------------------------------------------------------------------------
(* What a step in one conversation leaves to the others. *)

Parts(k) == LifeOK(k) /\ MailOK(k) /\ BoundOK(k) /\ SendOK(k)
Later(k) == InterruptOK(k) /\ LateOK(k) /\ OrderOK(k)

Local(k) ==
  /\ \A j \in Keys : j # k => entries'[j] = entries[j]
  /\ \A m \in Msgs : m \notin Of(k) =>
       task'[m] = task[m] /\ fate'[m] = fate[m] /\ ran'[m] = ran[m] /\ cancellation'[m] = cancellation[m]
  /\ vouched \subseteq vouched'

LEMMA LocalFrame ==
  ASSUME NEW k \in Keys, Local(k), NEW j \in Keys, j # k
  PROVE  /\ entries'[j] = entries[j] /\ (Held(j)' <=> Held(j))
         /\ \A m \in Of(j) : /\ task'[m] = task[m] /\ fate'[m] = fate[m] /\ ran'[m] = ran[m]
                             /\ cancellation'[m] = cancellation[m]
                             /\ (Live(m)' <=> Live(m)) /\ (Open(m)' <=> Open(m))
         /\ \A m : /\ InSteers(j, m)' <=> InSteers(j, m)
                   /\ InFollow(j, m)' <=> InFollow(j, m)
                   /\ InBatch(j, m)' <=> InBatch(j, m)
<1>1. entries'[j] = entries[j]
  BY DEF Local
<1>2. Held(j)' <=> Held(j)
  BY <1>1 DEF Held
<1>3. ASSUME NEW m \in Of(j)
      PROVE  /\ task'[m] = task[m] /\ fate'[m] = fate[m] /\ ran'[m] = ran[m]
             /\ cancellation'[m] = cancellation[m]
  <2>1. m \in Msgs /\ m \notin Of(k)
    BY OfKey
  <2> QED BY <2>1 DEF Local
<1>4. \A m \in Of(j) : (Live(m)' <=> Live(m)) /\ (Open(m)' <=> Open(m))
  BY <1>3 DEF Live, Open
<1>5. \A m : InSteers(j, m)' <=> InSteers(j, m)
  BY <1>1, <1>2 DEF InSteers
<1>6. \A m : InFollow(j, m)' <=> InFollow(j, m)
  BY <1>1, <1>2 DEF InFollow
<1>7. \A m : InBatch(j, m)' <=> InBatch(j, m)
  BY <1>3 DEF InBatch
<1> QED BY <1>1, <1>2, <1>3, <1>4, <1>5, <1>6, <1>7

LEMMA LocalParts ==
  ASSUME NEW k \in Keys, Local(k), NEW j \in Keys, j # k, Parts(j)
  PROVE  Parts(j)'
<1>1. /\ entries'[j] = entries[j] /\ (Held(j)' <=> Held(j))
      /\ \A m \in Of(j) : /\ task'[m] = task[m] /\ fate'[m] = fate[m] /\ ran'[m] = ran[m]
                          /\ (Live(m)' <=> Live(m)) /\ (Open(m)' <=> Open(m))
      /\ \A m : /\ InSteers(j, m)' <=> InSteers(j, m)
                /\ InFollow(j, m)' <=> InFollow(j, m)
                /\ InBatch(j, m)' <=> InBatch(j, m)
  BY LocalFrame
<1>2. LifeOK(j)'
  BY <1>1 DEF LifeOK, Parts
<1>3. MailOK(j)'
  BY <1>1 DEF MailOK, Parts
<1>4. BoundOK(j)'
  BY <1>1 DEF BoundOK, Parts, Depth
<1>5. vouched \subseteq vouched'
  BY DEF Local
<1>6. SendOK(j)'
  BY <1>1, <1>5 DEF SendOK, Parts, ItemOK, Hears
<1> QED BY <1>2, <1>3, <1>4, <1>6 DEF Parts

\* A late forward is in the conversation of its message.
LEMMA BaseOf ==
  ASSUME NEW k, NEW l \in Of(k), Kind[l] = "late"
  PROVE  Base[l] \in Of(k) /\ Native(Base[l]) /\ Sender[l] = Sender[Base[l]]
BY MessagesAssumption, OfKey DEF Native

\* A turn that holds a conversation is led by one of its messages.
LEMMA RunOf ==
  ASSUME NEW k, LifeOK(k), Held(k)
  PROVE  /\ entries[k].run \in Of(k) /\ fate[entries[k].run] = "taken"
         /\ \E t \in Of(k) : Live(t) /\ task[t].run = entries[k].run
<1>1. PICK t \in Of(k) : Live(t)
  BY DEF LifeOK
<1>2. task[t].phase # "none"
  BY <1>1 DEF Live, Turns
<1> QED BY <1>1, <1>2 DEF LifeOK

LEMMA LocalLater ==
  ASSUME NEW k \in Keys, Local(k), NEW j \in Keys, j # k, Parts(j), InterruptOK(j), LateOK(j)
  PROVE  InterruptOK(j)' /\ LateOK(j)'
<1>1. /\ entries'[j] = entries[j] /\ (Held(j)' <=> Held(j))
      /\ \A m \in Of(j) : /\ task'[m] = task[m] /\ fate'[m] = fate[m] /\ ran'[m] = ran[m]
                          /\ cancellation'[m] = cancellation[m] /\ (Live(m)' <=> Live(m))
      /\ \A m : /\ InSteers(j, m)' <=> InSteers(j, m)
                /\ InBatch(j, m)' <=> InBatch(j, m)
  BY LocalFrame
<1>2. Held(j) => entries[j].run \in Of(j)
  BY RunOf DEF Parts
<1>3. InterruptOK(j)'
  BY <1>1, <1>2 DEF InterruptOK, State
<1>4. \A m \in Of(j) : \A r : Through(m, r)' <=> Through(m, r)
  BY <1>1 DEF Through
<1>5. ASSUME Held(j)', State(entries[j])' = "running", NEW m \in ToSet(entries'[j].turn)
      PROVE  m \in Of(j) /\ (InSteers(j, m)' \/ InBatch(j, m)' \/ Through(m, entries[j].run)')
  <2>1. Held(j) /\ State(entries[j]) = "running" /\ m \in ToSet(entries[j].turn)
    BY <1>1, <1>2, <1>5 DEF State
  <2>2. m \in Of(j) /\ (InSteers(j, m) \/ InBatch(j, m) \/ Through(m, entries[j].run))
    BY <2>1 DEF LateOK
  <2> QED BY <2>2, <1>1, <1>4 DEF Through
<1>6. ASSUME NEW t \in Of(j), Live(t)', task'[t].phase # "ended", NEW l \in ToSet(entries'[j].steers),
             Kind[l] = "late"
      PROVE  InBatch(j, Base[l])' \/ Through(Base[l], entries[j].run)'
  <2>1. Live(t) /\ task[t].phase # "ended" /\ l \in ToSet(entries[j].steers)
    BY <1>1, <1>6
  <2>2. InBatch(j, Base[l]) \/ Through(Base[l], entries[j].run)
    BY <2>1, <1>6 DEF LateOK
  <2>3. Held(j)
    BY <2>1 DEF Parts, LifeOK
  <2>4. l \in Of(j)
    BY <2>1, <2>3 DEF Parts, MailOK, InSteers
  <2>5. Base[l] \in Of(j)
    BY <2>4, <1>6, BaseOf
  <2> QED BY <2>2, <2>5, <1>1, <1>4 DEF Through
<1>7. ASSUME NEW t \in Of(j), NEW l \in ToSet(task'[t].batch), Kind[l] = "late"
      PROVE  Through(Base[l], task[t].run)'
  <2>1. l \in ToSet(task[t].batch)
    BY <1>1, <1>7
  <2>2. Through(Base[l], task[t].run)
    BY <2>1, <1>7 DEF LateOK
  <2>3. l \in Of(j)
    BY <2>1 DEF Parts, MailOK, InBatch
  <2>4. Base[l] \in Of(j)
    BY <2>3, <1>7, BaseOf
  <2> QED BY <2>2, <2>4, <1>1, <1>4 DEF Through
<1>8. ASSUME NEW l \in Of(j), Kind[l] = "late", fate'[l] = "taken"
      PROVE  Through(Base[l], ran[l])'
  <2>1. Base[l] \in Of(j)
    BY <1>8, BaseOf
  <2>2. Through(Base[l], ran[l])
    BY <1>1, <1>8 DEF LateOK
  <2> QED BY <2>1, <2>2, <1>1, <1>4 DEF Through
<1>9. LateOK(j)'
  BY <1>5, <1>6, <1>7, <1>8 DEF LateOK
<1> QED BY <1>3, <1>9

------------------------------------------------------------------------------
(* The arrival order, the permits. *)

ArrivesNow(m) == fate[m] = "unsent" /\ arrived' = Append(arrived, m)

LEMMA ArriveOne ==
  ASSUME Types, ArriveInv, NEW m \in Msgs, ArrivesNow(m), fate'[m] # "unsent",
         \A x \in Msgs : x # m => (fate'[x] = "unsent" <=> fate[x] = "unsent")
  PROVE  ArriveInv' /\ arrived' \in Seq(Msgs) /\ m \notin ToSet(arrived)
<1>1. arrived \in Seq(Msgs) /\ m \notin ToSet(arrived) /\ Inj(arrived) /\ arrived' = Append(arrived, m)
  BY DEF Types, ArriveInv, ArrivesNow
<1>2. /\ arrived' \in Seq(Msgs) /\ Inj(arrived')
      /\ \A x : x \in ToSet(arrived') <=> x \in ToSet(arrived) \/ x = m
  BY <1>1, AppendSet
<1>3. Inj(arrived)'
  BY <1>2 DEF Inj
<1>4. \A x : x \in ToSet(arrived)' <=> x \in ToSet(arrived')
  BY DEF ToSet
<1>5. \A x \in Msgs : x \in ToSet(arrived)' <=> fate'[x] # "unsent"
  BY <1>2, <1>4 DEF ArriveInv
<1> QED BY <1>1, <1>2, <1>3, <1>5 DEF ArriveInv

LEMMA ArriveSame ==
  ASSUME ArriveInv, arrived' = arrived, \A x \in Msgs : fate'[x] = "unsent" <=> fate[x] = "unsent"
  PROVE  ArriveInv'
BY DEF ArriveInv, Inj, ToSet

\* What is in a mailbox has arrived.
LEMMA MailArrived ==
  ASSUME ArriveInv, NEW k \in Keys, MailOK(k), NEW m, InSteers(k, m) \/ InFollow(k, m) \/ InBatch(k, m)
  PROVE  m \in Of(k) /\ Open(m) /\ fate[m] # "unsent" /\ m \in ToSet(arrived)
<1>1. m \in Of(k) /\ Open(m)
  BY DEF MailOK
<1>2. fate[m] # "unsent"
  BY <1>1 DEF Open
<1> QED BY <1>1, <1>2, OfKey DEF ArriveInv

LEMMA SortedSame ==
  ASSUME arrived' = arrived, NEW s
  PROVE  Sorted(s)' <=> Sorted(s)
BY DEF Sorted

LEMMA SortedOne ==
  ASSUME arrived \in Seq(Msgs), NEW m \in Msgs, m \notin ToSet(arrived), arrived' = Append(arrived, m),
         NEW s \in Seq(Msgs), ToSet(s) \subseteq ToSet(arrived), Sorted(s)
  PROVE  Sorted(s)' /\ Sorted(Append(s, m))'
<1>1. /\ DOMAIN arrived' = 1..(Len(arrived) + 1) /\ DOMAIN arrived = 1..Len(arrived)
      /\ \A i \in 1..Len(arrived) : arrived'[i] = arrived[i]
      /\ arrived'[Len(arrived) + 1] = m /\ Len(arrived) \in Nat
  BY AppendSet
<1>2. \A i \in DOMAIN s : s[i] # m
  BY SetOf
<1>3. \A a \in DOMAIN arrived : arrived[a] # m
  BY SetOf
<1>4. ASSUME NEW a \in DOMAIN arrived', arrived'[a] # m
      PROVE  a \in DOMAIN arrived /\ arrived'[a] = arrived[a] /\ a < Len(arrived) + 1
  BY <1>1, <1>4
<1>5. ASSUME NEW a \in DOMAIN arrived', arrived'[a] = m
      PROVE  a = Len(arrived) + 1
  BY <1>1, <1>3, <1>5
<1>6. ASSUME NEW i \in DOMAIN s, NEW j \in DOMAIN s, NEW a \in DOMAIN arrived', NEW b \in DOMAIN arrived',
             i < j, arrived'[a] = s[i], arrived'[b] = s[j]
      PROVE  a < b \/ ReceivedAt[s[i]] <= ReceivedAt[s[j]]
  <2>1. a \in DOMAIN arrived /\ b \in DOMAIN arrived /\ arrived[a] = s[i] /\ arrived[b] = s[j]
    BY <1>2, <1>4, <1>6
  <2> QED BY <2>1, <1>6 DEF Sorted
<1>7. /\ DOMAIN Append(s, m) = 1..(Len(s) + 1) /\ DOMAIN s = 1..Len(s) /\ Len(s) \in Nat
      /\ \A i \in 1..Len(s) : Append(s, m)[i] = s[i]
      /\ Append(s, m)[Len(s) + 1] = m
  BY AppendSet
<1>8. ASSUME NEW i \in DOMAIN Append(s, m), NEW j \in DOMAIN Append(s, m),
             NEW a \in DOMAIN arrived', NEW b \in DOMAIN arrived',
             i < j, arrived'[a] = Append(s, m)[i], arrived'[b] = Append(s, m)[j]
      PROVE  a < b \/ ReceivedAt[Append(s, m)[i]] <= ReceivedAt[Append(s, m)[j]]
  <2>1. i \in DOMAIN s
    BY <1>7, <1>8
  <2>2. Append(s, m)[i] = s[i]
    BY <2>1, <1>7
  <2>3. CASE j \in DOMAIN s
    <3>1. Append(s, m)[j] = s[j]
      BY <2>3, <1>7
    <3> QED BY <1>6, <1>8, <2>1, <2>2, <2>3, <3>1
  <2>4. CASE j \notin DOMAIN s
    <3>1. Append(s, m)[j] = m
      BY <2>4, <1>7
    <3>2. b = Len(arrived) + 1
      BY <3>1, <1>5, <1>8
    <3>3. a < Len(arrived) + 1
      BY <2>1, <2>2, <1>2, <1>4, <1>8
    <3> QED BY <3>2, <3>3
  <2> QED BY <2>3, <2>4
<1> QED BY <1>6, <1>8 DEF Sorted

LEMMA PermitSame ==
  ASSUME PermitInv, permits' = permits, \A t \in Msgs : HasPermit(t)' <=> HasPermit(t),
         \A k \in Keys : entries'[k] = Probe <=> entries[k] = Probe
  PROVE  PermitInv'
<1>1. Holders' = Holders
  BY DEF Holders
<1>2. Probes' = Probes
  BY DEF Probes
<1> QED BY <1>1, <1>2 DEF PermitInv

LEMMA PermitTaken ==
  ASSUME PermitInv, permits > 0, permits' = permits - 1, NEW m \in Msgs, ~HasPermit(m), HasPermit(m)',
         \A t \in Msgs : t # m => (HasPermit(t)' <=> HasPermit(t)),
         \A k \in Keys : entries'[k] = Probe <=> entries[k] = Probe
  PROVE  PermitInv'
<1>1. Holders' = Holders \union {m} /\ m \notin Holders
  BY DEF Holders
<1>2. Probes' = Probes
  BY DEF Probes
<1>3. IsFiniteSet(Holders') /\ Cardinality(Holders') = Cardinality(Holders) + 1
  BY <1>1, FS_AddElement DEF PermitInv
<1>4. Cardinality(Holders) \in Nat /\ Cardinality(Probes) \in Nat
  BY FS_CardinalityType DEF PermitInv
<1>5. permits' \in Nat /\ permits' + Cardinality(Holders') + Cardinality(Probes') = Permits
  BY <1>2, <1>3, <1>4 DEF PermitInv
<1> QED BY <1>2, <1>3, <1>5 DEF PermitInv

LEMMA PermitBack ==
  ASSUME PermitInv, permits' = permits + 1, NEW m \in Msgs, HasPermit(m), ~HasPermit(m)',
         \A t \in Msgs : t # m => (HasPermit(t)' <=> HasPermit(t)),
         \A k \in Keys : entries'[k] = Probe <=> entries[k] = Probe
  PROVE  PermitInv'
<1>1. Holders' = Holders \ {m} /\ m \in Holders
  BY DEF Holders
<1>2. Probes' = Probes
  BY DEF Probes
<1>3. IsFiniteSet(Holders') /\ Cardinality(Holders') = Cardinality(Holders) - 1
  BY <1>1, FS_RemoveElement DEF PermitInv
<1>4. Cardinality(Holders) \in Nat /\ Cardinality(Probes) \in Nat
  BY FS_CardinalityType DEF PermitInv
<1>5. permits' \in Nat /\ permits' + Cardinality(Holders') + Cardinality(Probes') = Permits
  BY <1>2, <1>3, <1>4 DEF PermitInv
<1> QED BY <1>2, <1>3, <1>5 DEF PermitInv

LEMMA ProbeTaken ==
  ASSUME Types, PermitInv, NEW k \in Keys, ProbeAdmit(k)
  PROVE  PermitInv'
<1>1. \A j \in Keys : j # k => entries'[j] = entries[j]
  BY DEF ProbeAdmit, Types
<1>2. entries'[k] = Probe /\ entries[k] # Probe
  BY DEF ProbeAdmit, Types, NoHolder, Probe
<1>3. Probes' = Probes \union {k} /\ k \notin Probes
  BY <1>1, <1>2 DEF Probes
<1>4. Holders' = Holders
  BY DEF Holders, HasPermit, Live, ProbeAdmit
<1>5. IsFiniteSet(Probes') /\ Cardinality(Probes') = Cardinality(Probes) + 1
  BY <1>3, FS_AddElement DEF PermitInv
<1>6. Cardinality(Holders) \in Nat /\ Cardinality(Probes) \in Nat
  BY FS_CardinalityType DEF PermitInv
<1>7. permits' = permits - 1 /\ permits > 0
  BY DEF ProbeAdmit
<1>8. permits' \in Nat /\ permits' + Cardinality(Holders') + Cardinality(Probes') = Permits
  BY <1>4, <1>5, <1>6, <1>7 DEF PermitInv
<1> QED BY <1>4, <1>5, <1>8 DEF PermitInv

LEMMA ProbeBack ==
  ASSUME Types, PermitInv, NEW k \in Keys, ProbeDrop(k)
  PROVE  PermitInv'
<1>1. \A j \in Keys : j # k => entries'[j] = entries[j]
  BY DEF ProbeDrop, Types
<1>2. entries'[k] # Probe /\ entries[k] = Probe
  BY DEF ProbeDrop, Types, NoHolder, Probe
<1>3. Probes' = Probes \ {k} /\ k \in Probes
  BY <1>1, <1>2 DEF Probes
<1>4. Holders' = Holders
  BY DEF Holders, HasPermit, Live, ProbeDrop
<1>5. IsFiniteSet(Probes') /\ Cardinality(Probes') = Cardinality(Probes) - 1
  BY <1>3, FS_RemoveElement DEF PermitInv
<1>6. Cardinality(Holders) \in Nat /\ Cardinality(Probes) \in Nat
  BY FS_CardinalityType DEF PermitInv
<1>7. permits' = permits + 1
  BY DEF ProbeDrop
<1>8. permits' \in Nat /\ permits' + Cardinality(Holders') + Cardinality(Probes') = Permits
  BY <1>4, <1>5, <1>6, <1>7 DEF PermitInv
<1> QED BY <1>4, <1>5, <1>8 DEF PermitInv

------------------------------------------------------------------------------
(* The steps of the gateway loop. *)

Good(k) == Types /\ ArriveInv /\ PermitInv /\ Parts(k) /\ Later(k)
Typed == cancellation \in [Msgs -> Cancellations]

\* What is to be shown of a step in the conversation k.
Keeps(k) ==
  Good(k)' /\ Local(k) /\ (arrived' = arrived \/ \E m \in Msgs : ArrivesNow(m))

\* Only the turn that holds the conversation is cancelled or re-armed.
OwnCancellation(k) == \A m \in Msgs : m \notin Of(k) => cancellation'[m] = cancellation[m]

LEMMA KeptStep ==
  ASSUME NEW k \in Keys, Good(k), Typed', NEW f, Kept(k, f), FatesGrow(k), OwnCancellation(k),
         permits' = permits, ran' = ran, vouched' = vouched,
         fate' \in [Msgs -> Fates], arrived' \in Seq(Msgs),
         \A m \in Msgs : m \notin Of(k) => fate'[m] = fate[m]
  PROVE  Types' /\ PermitInv' /\ Local(k) /\ LifeOK(k)'
<1>1. Types /\ LifeOK(k) /\ PermitInv
  BY DEF Good, Parts
<1>2. /\ entries' = [entries EXCEPT ![k] = f] /\ task' = task /\ f \in Sessions
      /\ entries \in [Keys -> {NoHolder, Probe} \union Sessions]
  BY <1>1 DEF Kept, Types
<1>3. entries' \in [Keys -> {NoHolder, Probe} \union Sessions]
  BY <1>2
<1>4. Types'
  BY <1>1, <1>2, <1>3 DEF Types, Typed
<1>5. \A j \in Keys : j # k => entries'[j] = entries[j]
  BY <1>2
<1>6. Local(k)
  BY <1>2, <1>5 DEF Local, OwnCancellation
<1>7. entries'[k] # Probe /\ entries[k] # Probe
  <2>1. entries'[k] = f /\ entries[k] \in Sessions
    BY <1>1, KeptFrame
  <2>2. Probe \notin Sessions
    BY SessionFields DEF Probe
  <2> QED BY <1>2, <2>1, <2>2
<1>8. \A t : HasPermit(t)' <=> HasPermit(t)
  BY <1>2 DEF HasPermit, Live
<1>9. PermitInv'
  BY <1>1, <1>5, <1>7, <1>8, PermitSame
<1>10. LifeOK(k)'
  BY <1>1, KeptLife
<1> QED BY <1>4, <1>6, <1>9, <1>10

\* A message that arrives is in no mailbox yet.
LEMMA Arrival ==
  ASSUME NEW k \in Keys, Good(k), NEW m \in Of(k), ArrivesNow(m),
         NEW what \in Fates \ {"unsent", "taken"}, fate' = Settle({m}, what)
  PROVE  /\ \A x \in Msgs : x # m => fate'[x] = fate[x]
         /\ fate'[m] = what /\ fate[m] = "unsent" /\ m \in Msgs
         /\ fate' \in [Msgs -> Fates] /\ arrived' \in Seq(Msgs)
         /\ \A x \in Msgs : x \notin Of(k) => fate'[x] = fate[x]
         /\ FatesGrow(k) /\ ArriveInv' /\ m \notin ToSet(arrived)
         /\ ~InSteers(k, m) /\ ~InFollow(k, m) /\ ~InBatch(k, m)
         /\ \A x, r : Through(x, r) /\ x \in Msgs => x # m
<1>1. Types /\ ArriveInv /\ MailOK(k) /\ m \in Msgs /\ fate[m] = "unsent"
  BY OfKey DEF Good, Parts, ArrivesNow
<1>2. fate' \in [Msgs -> Fates]
  BY <1>1 DEF Settle, Types
<1>3. fate'[m] = what /\ \A x \in Msgs : x # m => fate'[x] = fate[x]
  BY <1>1 DEF Settle
<1>4. FatesGrow(k)
  BY <1>1, <1>3, OfKey DEF FatesGrow
<1>5. ArriveInv' /\ arrived' \in Seq(Msgs) /\ m \notin ToSet(arrived)
  BY <1>1, <1>3, ArriveOne
<1>6. ~Open(m)
  BY <1>1 DEF Open
<1>7. ~InSteers(k, m) /\ ~InFollow(k, m) /\ ~InBatch(k, m)
  BY <1>1, <1>6 DEF MailOK
<1>8. \A x, r : Through(x, r) => x # m
  BY <1>1 DEF Through
<1> QED BY <1>1, <1>2, <1>3, <1>4, <1>5, <1>7, <1>8

\* What a step has to show of the conversation it leaves f in.
LEMMA SendStep ==
  ASSUME NEW k, NEW f, entries'[k] = f,
         \A i \in DOMAIN f.follow_ups : ItemOK(f, f.follow_ups[i]),
         \A x : x \in ToSet(f.steers) \/ x \in ToSet(f.turn) => Hears(f, x),
         \A t \in Of(k) : \A x \in ToSet(task'[t].batch) :
           Sender[x] = Sender[task'[t].run] \/ task'[t].run \notin PosterOnly,
         \A x \in Of(k) : fate'[x] = "taken" /\ Sender[x] # Sender[ran'[x]] =>
           x \in vouched' /\ ran'[x] \notin PosterOnly
  PROVE  SendOK(k)'
<1>1. \A i \in DOMAIN entries'[k].follow_ups : ItemOK(entries[k], entries[k].follow_ups[i])'
  BY DEF ItemOK
<1>2. \A x : x \in ToSet(entries'[k].steers) \/ x \in ToSet(entries'[k].turn) => Hears(entries[k], x)'
  BY DEF Hears
<1> QED BY <1>1, <1>2 DEF SendOK

\* A message or a late forward that steers the turn.
LEMMA ArriveSteer ==
  ASSUME NEW k \in Keys, Good(k), Typed', NEW m \in Of(k), ArrivesNow(m),
         fate' = Settle({m}, "steered"), permits' = permits, ran' = ran, vouched' = vouched,
         NEW f, Kept(k, f), OwnCancellation(k), f.aborts <= MaxInterrupts,
         f.steers = Append(entries[k].steers, m), f.follow_ups = entries[k].follow_ups,
         f.authorizing = entries[k].authorizing, Depth(entries[k]) # Capacity,
         \A x \in ToSet(f.turn) : x \in ToSet(entries[k].turn) \/ x = m,
         Hears(entries[k], m)
  PROVE  /\ Types' /\ ArriveInv' /\ PermitInv' /\ Local(k) /\ Parts(k)' /\ OrderOK(k)'
         /\ \A x : InSteers(k, x)' <=> InSteers(k, x) \/ x = m
         /\ \A x : InBatch(k, x)' <=> InBatch(k, x)
         /\ \A x \in Msgs : x # m => fate'[x] = fate[x]
         /\ \A x, r : Through(x, r) /\ x \in Msgs => x # m
<1> DEFINE e == entries[k]
<1>1. /\ Types /\ ArriveInv /\ LifeOK(k) /\ MailOK(k) /\ BoundOK(k) /\ SendOK(k) /\ OrderOK(k)
      /\ Held(k) /\ f \in Sessions /\ f.run = e.run /\ f.mapping = e.mapping /\ task' = task
  BY DEF Good, Parts, Later, Kept
<1>2. "steered" \in Fates \ {"unsent", "taken"}
  BY DEF Fates
<1>3. /\ \A x \in Msgs : x # m => fate'[x] = fate[x]
      /\ fate'[m] = "steered" /\ m \in Msgs /\ fate' \in [Msgs -> Fates] /\ arrived' \in Seq(Msgs)
      /\ \A x \in Msgs : x \notin Of(k) => fate'[x] = fate[x]
      /\ FatesGrow(k) /\ ArriveInv' /\ m \notin ToSet(arrived) /\ fate[m] = "unsent"
      /\ ~InSteers(k, m) /\ ~InFollow(k, m) /\ ~InBatch(k, m)
      /\ \A x, r : Through(x, r) /\ x \in Msgs => x # m
  BY <1>2, Arrival
<1>4. Types' /\ PermitInv' /\ Local(k) /\ LifeOK(k)'
  BY <1>3, KeptStep
<1>5. e \in Sessions /\ e.steers \in Seq(Msgs) /\ e.follow_ups \in Seq(Items) /\ e.authorizing \in Int
  BY <1>1, HeldIs, SessionFields
<1>6. /\ entries'[k] = f /\ Held(k)'
      /\ \A x : InBatch(k, x)' <=> InBatch(k, x)
      /\ \A x : InSteers(k, x)' <=> x \in ToSet(f.steers)
      /\ \A x : InFollow(k, x)' <=> \E i \in DOMAIN f.follow_ups : x \in Content(f.follow_ups[i])
      /\ \A u : Live(u)' <=> Live(u)
  BY <1>1, KeptFrame
<1>7. /\ \A x : x \in ToSet(f.steers) <=> x \in ToSet(e.steers) \/ x = m
      /\ Inj(e.steers) /\ m \notin ToSet(e.steers) => Inj(f.steers)
      /\ Len(f.steers) = Len(e.steers) + 1
  BY <1>3, <1>5, AppendSet
<1>8. \A x : InSteers(k, x)' <=> InSteers(k, x) \/ x = m
  BY <1>1, <1>6, <1>7 DEF InSteers
<1>9. \A x : InFollow(k, x)' <=> InFollow(k, x)
  BY <1>1, <1>6 DEF InFollow
<1>10. \A x \in Of(k) : Open(x)' <=> Open(x) \/ x = m
  BY <1>3, OfKey DEF Open
<1>11. Inj(f.steers) /\ Apart(f.follow_ups)
  BY <1>1, <1>3, <1>7 DEF MailOK, InSteers
<1>12. MailOK(k)'
  BY <1>1, <1>3, <1>6, <1>8, <1>9, <1>10, <1>11 DEF MailOK
<1>13. BoundOK(k)'
  <2>1. Depth(e) <= Capacity
    BY <1>1 DEF BoundOK
  <2> DEFINE a == Len(e.steers)
             b == Len(e.follow_ups)
             c == e.authorizing
  <2>5. a \in Nat /\ b \in Nat /\ c \in Int
    BY <1>5
  <2>6. Depth(e) = a + b + c /\ Depth(f) = (a + 1) + b + c
    BY <1>7 DEF Depth
  <2> HIDE DEF a, b, c
  <2>2. Depth(f) = Depth(e) + 1 /\ Depth(e) \in Int
    BY <2>5, <2>6
  <2>3. Depth(f) <= Capacity
    BY <2>1, <2>2, BoundsAssumption
  <2>4. \A t \in Of(k) : Live(t) => e.authorizing = Len(task[t].batch)
    BY <1>1 DEF BoundOK
  <2> QED BY <1>1, <1>6, <2>3, <2>4 DEF BoundOK, Depth
<1>14. SendOK(k)'
  <2>1. \A x : x \in ToSet(f.steers) \/ x \in ToSet(f.turn) => Hears(e, x)
    BY <1>1, <1>7 DEF SendOK
  <2>2. \A x : Hears(f, x) <=> Hears(e, x)
    BY <1>1 DEF Hears
  <2>3. \A i \in DOMAIN f.follow_ups : ItemOK(f, f.follow_ups[i])
    BY <1>1 DEF SendOK, ItemOK
  <2>4. \A x \in Of(k) : fate'[x] = "taken" => fate[x] = "taken"
    BY <1>3, OfKey
  <2>5. \A t \in Of(k) : \A x \in ToSet(task'[t].batch) :
          Sender[x] = Sender[task'[t].run] \/ task'[t].run \notin PosterOnly
    BY <1>1 DEF SendOK
  <2>6. \A x \in Of(k) : fate'[x] = "taken" /\ Sender[x] # Sender[ran'[x]] =>
          x \in vouched' /\ ran'[x] \notin PosterOnly
    BY <1>1, <2>4 DEF SendOK
  <2> QED BY <1>6, <2>1, <2>2, <2>3, <2>5, <2>6, SendStep
<1>15. OrderOK(k)'
  <2>1. ToSet(e.steers) \subseteq ToSet(arrived)
    BY <1>1, MailArrived DEF InSteers
  <2>2. arrived \in Seq(Msgs) /\ arrived' = Append(arrived, m)
    BY <1>1 DEF Types, ArrivesNow
  <2>3. Sorted(e.steers)
    BY <1>1 DEF OrderOK
  <2>4. Sorted(f.steers)'
    <3>1. PICK u \in Seq(Msgs) : u = e.steers
      BY <1>5
    <3>2. Sorted(Append(u, m))'
      BY <1>3, <2>1, <2>2, <2>3, <3>1, SortedOne
    <3>3. f.steers = Append(u, m)
      BY <3>1
    <3> QED BY <3>2, <3>3
  <2> QED BY <2>4, <1>6 DEF OrderOK, Sorted
<1> QED BY <1>3, <1>4, <1>6, <1>8, <1>12, <1>13, <1>14, <1>15 DEF Parts

LEMMA LateStep ==
  ASSUME NEW k, NEW f, entries'[k] = f, Held(k)',
         cancellation'[f.run].state = "running" =>
           \A m \in ToSet(f.turn) :
             m \in Of(k) /\ (m \in ToSet(f.steers) \/ InBatch(k, m)' \/ Through(m, f.run)'),
         \A t \in Of(k) : Live(t)' /\ task'[t].phase # "ended" =>
           \A l \in ToSet(f.steers) : Kind[l] = "late" =>
             InBatch(k, Base[l])' \/ Through(Base[l], f.run)',
         \A t \in Of(k) : \A l \in ToSet(task'[t].batch) : Kind[l] = "late" =>
           Through(Base[l], task[t].run)',
         \A l \in Of(k) : Kind[l] = "late" /\ fate'[l] = "taken" => Through(Base[l], ran[l])'
  PROVE  LateOK(k)'
<1>1. \A m : Through(m, entries[k].run)' <=> Through(m, f.run)'
  BY DEF Through
<1>2. \A m : InSteers(k, m)' <=> m \in ToSet(f.steers)
  BY DEF InSteers
<1>3. Held(k)' /\ State(entries[k])' = "running" =>
        \A m \in ToSet(entries'[k].turn) :
          m \in Of(k) /\ (InSteers(k, m)' \/ InBatch(k, m)' \/ Through(m, entries[k].run)')
  BY <1>1, <1>2 DEF State
<1>4. \A t \in Of(k) : Live(t)' /\ task'[t].phase # "ended" =>
        \A l \in ToSet(entries'[k].steers) : Kind[l] = "late" =>
          InBatch(k, Base[l])' \/ Through(Base[l], entries[k].run)'
  BY <1>1
<1> QED BY <1>3, <1>4 DEF LateOK

LEMMA InterruptStep ==
  ASSUME NEW k, NEW f, entries'[k] = f,
         k \in AbortSteering /\ f.aborts < MaxInterrupts /\ cancellation'[f.run].state = "running"
           /\ (\E m \in ToSet(f.steers) : Native(m) /\ Sender[m] = Sender[f.run])
         => cancellation'[f.run].model
  PROVE  InterruptOK(k)'
BY DEF InterruptOK, State

\* The mailbox of a turn stays as good while one message more steers it.
LEMMA SteerLater ==
  ASSUME NEW k \in Keys, Good(k), NEW m \in Of(k), ArrivesNow(m),
         fate' = Settle({m}, "steered"), ran' = ran, NEW f, Kept(k, f),
         f.steers = Append(entries[k].steers, m),
         \A x : InSteers(k, x)' <=> InSteers(k, x) \/ x = m,
         \A x : InBatch(k, x)' <=> InBatch(k, x),
         \A x \in Msgs : x # m => fate'[x] = fate[x],
         \A x, r : Through(x, r) /\ x \in Msgs => x # m,
         \A x \in ToSet(f.turn) : x \in ToSet(entries[k].turn) \/ x = m,
         cancellation'[f.run].state = cancellation[f.run].state,
         Kind[m] = "late" => InBatch(k, Base[m]) \/ Through(Base[m], entries[k].run)
  PROVE  LateOK(k)'
<1> DEFINE e == entries[k]
<1>1. /\ Types /\ LifeOK(k) /\ MailOK(k) /\ LateOK(k) /\ Held(k) /\ f.run = e.run /\ task' = task
      /\ m \in Msgs
  BY OfKey DEF Good, Parts, Later, Kept
<1>2. entries'[k] = f /\ Held(k)' /\ \A u : Live(u)' <=> Live(u)
  BY <1>1, KeptFrame
<1>3. \A x \in Of(k) : \A r : Through(x, r) => Through(x, r)'
  <2> SUFFICES ASSUME NEW x \in Of(k), NEW r, Through(x, r) PROVE Through(x, r)'
    OBVIOUS
  <2>1. x \in Msgs /\ x # m
    BY OfKey
  <2> QED BY <2>1 DEF Through
<1>4. ASSUME cancellation'[f.run].state = "running", NEW x \in ToSet(f.turn)
      PROVE  x \in Of(k) /\ (x \in ToSet(f.steers) \/ InBatch(k, x)' \/ Through(x, f.run)')
  <2>1. \A y : InSteers(k, y)' <=> y \in ToSet(f.steers)
    BY <1>2 DEF InSteers
  <2>2. CASE x = m
    BY <2>1, <2>2
  <2>3. CASE x # m
    <3>1. x \in ToSet(e.turn) /\ State(e) = "running"
      BY <1>1, <1>4, <2>3 DEF State
    <3>2. x \in Of(k) /\ (InSteers(k, x) \/ InBatch(k, x) \/ Through(x, e.run))
      BY <1>1, <3>1 DEF LateOK
    <3> QED BY <1>1, <1>3, <2>1, <3>2
  <2> QED BY <2>2, <2>3
<1>5. ASSUME NEW t \in Of(k), Live(t)', task'[t].phase # "ended", NEW l \in ToSet(f.steers),
             Kind[l] = "late"
      PROVE  InBatch(k, Base[l])' \/ Through(Base[l], f.run)'
  <2>1. InSteers(k, l) \/ l = m
    BY <1>2, <1>5 DEF InSteers
  <2>2. InBatch(k, Base[l]) \/ Through(Base[l], e.run)
    BY <1>1, <1>2, <1>5, <2>1 DEF LateOK, InSteers
  <2>3. l \in Of(k)
    BY <2>1, <1>1 DEF MailOK
  <2>4. Base[l] \in Of(k)
    BY <2>3, <1>5, BaseOf
  <2> QED BY <1>1, <1>3, <2>2, <2>4
<1>6. ASSUME NEW t \in Of(k), NEW l \in ToSet(task'[t].batch), Kind[l] = "late"
      PROVE  Through(Base[l], task[t].run)'
  <2>1. l \in ToSet(task[t].batch) /\ Through(Base[l], task[t].run)
    BY <1>1, <1>6 DEF LateOK
  <2>2. l \in Of(k)
    BY <1>1, <2>1 DEF MailOK, InBatch
  <2>3. Base[l] \in Of(k)
    BY <2>2, <1>6, BaseOf
  <2> QED BY <1>1, <1>3, <2>1, <2>3 DEF Through
<1>7. ASSUME NEW l \in Of(k), Kind[l] = "late", fate'[l] = "taken"
      PROVE  Through(Base[l], ran[l])'
  <2>1. l # m /\ l \in Msgs
    BY <1>1, <1>7, OfKey DEF Settle
  <2>2. Through(Base[l], ran[l])
    BY <1>1, <1>7, <2>1 DEF LateOK
  <2>3. Base[l] \in Of(k)
    BY <1>7, BaseOf
  <2> QED BY <1>3, <2>2, <2>3 DEF Through
<1> QED BY <1>2, <1>4, <1>5, <1>6, <1>7, LateStep

\* The interrupt of a message changes only its turn's model watch.
LEMMA InterruptModelIs ==
  ASSUME Typed, NEW e, e.run \in Msgs, cancellation' = InterruptModel(e)
  PROVE  /\ \A x \in Msgs : x # e.run => cancellation'[x] = cancellation[x]
         /\ cancellation'[e.run].state = cancellation[e.run].state
         /\ cancellation'[e.run].model = (cancellation[e.run].model \/ MayInterrupt(e))
<1>1. CASE MayInterrupt(e)
  <2>1. cancellation' = [cancellation EXCEPT ![e.run].model = TRUE]
    BY <1>1 DEF InterruptModel
  <2>2. cancellation'[e.run] = [cancellation[e.run] EXCEPT !.model = TRUE]
    BY <2>1 DEF Typed
  <2>3. cancellation[e.run] \in Cancellations
    BY DEF Typed
  <2>4. cancellation'[e.run].state = cancellation[e.run].state /\ cancellation'[e.run].model = TRUE
    BY <2>2, <2>3 DEF Cancellations
  <2> QED BY <1>1, <2>1, <2>4 DEF Typed
<1>2. CASE ~MayInterrupt(e)
  <2>1. cancellation' = cancellation
    BY <1>2 DEF InterruptModel
  <2>2. cancellation[e.run].model \in BOOLEAN
    BY DEF Typed, Cancellations
  <2> QED BY <1>2, <2>1, <2>2
<1> QED BY <1>1, <1>2

LEMMA SteerStep ==
  ASSUME NEW k \in Keys, Good(k), Typed', NEW m \in Of(k), ArrivesNow(m),
         fate' = Settle({m}, "steered"), permits' = permits, ran' = ran, vouched' = vouched,
         NEW f, Kept(k, f), f.aborts <= MaxInterrupts,
         f.steers = Append(entries[k].steers, m), f.follow_ups = entries[k].follow_ups,
         f.authorizing = entries[k].authorizing, Depth(entries[k]) # Capacity,
         \A x \in ToSet(f.turn) : x \in ToSet(entries[k].turn) \/ x = m,
         Hears(entries[k], m),
         Kind[m] = "late" => InBatch(k, Base[m]) \/ Through(Base[m], entries[k].run),
         \/ /\ cancellation' = cancellation /\ f.aborts = entries[k].aborts
            /\ ~Native(m) \/ Sender[m] # Sender[f.run]
         \/ /\ cancellation' = InterruptModel(entries[k])
            /\ f.aborts = IF MayInterrupt(entries[k]) THEN entries[k].aborts + 1 ELSE entries[k].aborts
  PROVE  Keeps(k)
<1> DEFINE e == entries[k]
<1>1. /\ Types /\ LifeOK(k) /\ MailOK(k) /\ InterruptOK(k) /\ Held(k) /\ f.run = e.run /\ task' = task
      /\ m \in Msgs /\ f \in Sessions
  BY OfKey DEF Good, Parts, Later, Kept
<1>2. e.run \in Of(k) /\ e.run \in Msgs /\ KeyOf[e.run] = k
  BY <1>1, RunOf, OfKey
<1>3. Typed
  BY <1>1 DEF Types, Typed
<1>4. /\ \A x \in Msgs : x # e.run => cancellation'[x] = cancellation[x]
      /\ cancellation'[e.run].state = cancellation[e.run].state
      /\ cancellation[e.run].model => cancellation'[e.run].model
  BY <1>2, <1>3, InterruptModelIs
<1>5. OwnCancellation(k)
  BY <1>2, <1>4 DEF OwnCancellation
<1>6. /\ Types' /\ ArriveInv' /\ PermitInv' /\ Local(k) /\ Parts(k)' /\ OrderOK(k)'
      /\ \A x : InSteers(k, x)' <=> InSteers(k, x) \/ x = m
      /\ \A x : InBatch(k, x)' <=> InBatch(k, x)
      /\ \A x \in Msgs : x # m => fate'[x] = fate[x]
      /\ \A x, r : Through(x, r) /\ x \in Msgs => x # m
  BY <1>5, ArriveSteer
<1>7. LateOK(k)'
  BY <1>1, <1>4, <1>6, SteerLater
<1>8. entries'[k] = f /\ Held(k)'
  BY <1>1, KeptFrame
<1>9. ASSUME k \in AbortSteering, f.aborts < MaxInterrupts, cancellation'[f.run].state = "running",
             NEW x \in ToSet(f.steers), Native(x), Sender[x] = Sender[f.run]
      PROVE  cancellation'[f.run].model
  <2>1. CASE f.aborts = e.aborts /\ InSteers(k, x)
    <3>1. cancellation[e.run].model
      BY <1>1, <1>4, <1>9, <2>1 DEF InterruptOK, InSteers, State
    <3> QED BY <3>1, <1>1, <1>4
  <2>2. CASE ~InSteers(k, x)
    <3>1. x = m
      BY <1>6, <1>8, <1>9, <2>2 DEF InSteers
    <3>2. cancellation' = InterruptModel(e)
      BY <3>1, <1>9
    <3>3. CASE MayInterrupt(e)
      BY <1>1, <1>2, <1>3, <3>2, <3>3, InterruptModelIs
    <3>4. CASE ~MayInterrupt(e)
      <4>1. f.aborts = e.aborts
        BY <3>4
      <4> QED BY <3>4, <4>1, <1>2, <1>9 DEF MayInterrupt
    <3> QED BY <3>3, <3>4
  <2>3. CASE f.aborts # e.aborts
    <3>1. MayInterrupt(e) /\ cancellation' = InterruptModel(e)
      BY <2>3
    <3> QED BY <1>1, <1>2, <1>3, <3>1, InterruptModelIs
  <2> QED BY <2>1, <2>2, <2>3
<1>10. InterruptOK(k)'
  BY <1>8, <1>9, InterruptStep
<1> QED BY <1>1, <1>6, <1>7, <1>10 DEF Keeps, Good, Later

LEMMA InterruptBound ==
  ASSUME NEW e \in Sessions, e.aborts <= MaxInterrupts
  PROVE  (IF MayInterrupt(e) THEN e.aborts + 1 ELSE e.aborts) <= MaxInterrupts
<1>1. e.aborts \in Nat
  BY SessionFields
<1> QED BY <1>1, BoundsAssumption DEF MayInterrupt

LEMMA AdmitSteerKeeps ==
  ASSUME NEW m \in Msgs, NEW k \in Keys, k = KeyOf[m], Good(k), Typed', AdmitSteer(m)
  PROVE  Keeps(k)
<1> DEFINE e == entries[k]
           g == QueueRequest(e, m)
<1>1. m \in Of(k) /\ ArrivesNow(m) /\ Held(k) /\ Types /\ BoundOK(k)
  BY OfKey DEF AdmitSteer, Arrives, ArrivesNow, Good, Parts
<1>2. e \in Sessions /\ e.aborts <= MaxInterrupts
  BY <1>1, HeldIs DEF BoundOK
<1>3. /\ fate' = Settle({m}, "steered") /\ permits' = permits /\ ran' = ran /\ vouched' = vouched
      /\ task' = task /\ Depth(e) # Capacity
  BY DEF AdmitSteer
<1>4. /\ Alike(g, e) /\ g.aborts = e.aborts /\ g.authorizing = e.authorizing
      /\ g.steers = Append(e.steers, m) /\ g.follow_ups = e.follow_ups
      /\ \A x \in ToSet(g.turn) : x \in ToSet(e.turn) \/ (x = m /\ Native(m))
  BY <1>2, QueueRequestIs
<1>5. Kind[m] # "late"
  BY DEF AdmitSteer, Arrives
<1>6. CASE /\ entries' = [entries EXCEPT ![k] = g] /\ UNCHANGED cancellation
           /\ Participates(e, m) \/ (SteersOwn(e, m) /\ ~Native(m))
  <2>1. Hears(e, m)
    BY <1>6 DEF Participates, SteersOwn, Hears
  <2>2. Kept(k, g)
    BY <1>1, <1>3, <1>4, <1>6 DEF Kept, Alike
  <2>3. ~Native(m) \/ Sender[m] # Sender[g.run]
    BY <1>4, <1>6 DEF Participates, Alike
  <2> HIDE DEF g
  <2> QED BY <1>1, <1>2, <1>3, <1>4, <1>5, <1>6, <2>1, <2>2, <2>3, SteerStep
<1>7. CASE /\ SteersOwn(e, m) /\ Native(m)
           /\ entries' = [entries EXCEPT ![k] = Interrupted(g)]
           /\ cancellation' = InterruptModel(e)
  <2> DEFINE f == Interrupted(g)
  <2>1. Hears(e, m)
    BY <1>7 DEF SteersOwn, Hears
  <2>2. g \in Sessions /\ g.run = e.run /\ g.mapping = e.mapping
    BY <1>4 DEF Alike
  <2> HIDE DEF g
  <2>3. /\ Alike(f, g) /\ f.authorizing = g.authorizing
        /\ f.aborts = IF MayInterrupt(g) THEN g.aborts + 1 ELSE g.aborts
        /\ f.steers = g.steers /\ f.follow_ups = g.follow_ups /\ f.turn = g.turn
    BY <2>2, InterruptedIs
  <2> HIDE DEF f
  <2>4. MayInterrupt(g) <=> MayInterrupt(e)
    BY <2>2, <1>4 DEF MayInterrupt
  <2>5. f.aborts = IF MayInterrupt(e) THEN e.aborts + 1 ELSE e.aborts
    BY <1>4, <2>3, <2>4
  <2>6. f.aborts <= MaxInterrupts
    BY <1>2, <2>5, InterruptBound
  <2>7. Kept(k, f)
    BY <1>1, <1>3, <2>2, <2>3, <1>7 DEF Kept, Alike, f
  <2>8. f.steers = Append(e.steers, m) /\ f.follow_ups = e.follow_ups /\ f.authorizing = e.authorizing
    BY <1>4, <2>3
  <2>9. \A x \in ToSet(f.turn) : x \in ToSet(e.turn) \/ x = m
    BY <1>4, <2>3
  <2> QED BY <1>1, <1>3, <1>5, <1>7, <2>1, <2>5, <2>6, <2>7, <2>8, <2>9, SteerStep
<1> QED BY <1>6, <1>7 DEF AdmitSteer

\* A late forward that is taken entered the turn of its message.
LEMMA ThroughKept ==
  ASSUME NEW k, NEW m, ran' = ran, \A x, r : Through(x, r) /\ x \in Msgs => x # m,
         \A x \in Msgs : x # m => fate'[x] = fate[x]
  PROVE  \A x \in Of(k) : \A r : Through(x, r) => Through(x, r)'
<1> SUFFICES ASSUME NEW x \in Of(k), NEW r, Through(x, r) PROVE Through(x, r)'
  OBVIOUS
<1>1. x \in Msgs /\ x # m
  BY OfKey
<1> QED BY <1>1 DEF Through

\* A late forward keeps its place by its message while the mailbox f has the
\* steers, the turn and the tasks it had.
LEMMA LateSame ==
  ASSUME NEW k, Parts(k), LateOK(k), NEW f, entries'[k] = f, Held(k), Held(k)', task' = task, ran' = ran,
         ToSet(f.steers) \subseteq ToSet(entries[k].steers), ToSet(f.turn) \subseteq ToSet(entries[k].turn),
         f.run = entries[k].run, \A x : InBatch(k, x)' <=> InBatch(k, x),
         cancellation'[f.run].state = "running" =>
           /\ cancellation[f.run].state = "running"
           /\ \A x \in ToSet(f.turn) : x \in ToSet(entries[k].steers) => x \in ToSet(f.steers),
         \A x \in Of(k) : \A r : Through(x, r) => Through(x, r)',
         \A x \in Of(k) : fate'[x] = "taken" => fate[x] = "taken"
  PROVE  LateOK(k)'
<1> DEFINE e == entries[k]
<1>1. LifeOK(k) /\ MailOK(k)
  BY DEF Parts
<1>2. \A u : Live(u)' <=> Live(u)
  BY DEF Live
<1>3. ASSUME cancellation'[f.run].state = "running", NEW x \in ToSet(f.turn)
      PROVE  x \in Of(k) /\ (x \in ToSet(f.steers) \/ InBatch(k, x)' \/ Through(x, f.run)')
  <2>1. x \in ToSet(e.turn) /\ State(e) = "running"
    BY <1>3 DEF State
  <2>2. x \in Of(k) /\ (InSteers(k, x) \/ InBatch(k, x) \/ Through(x, e.run))
    BY <2>1 DEF LateOK
  <2> QED BY <1>3, <2>2 DEF InSteers
<1>4. ASSUME NEW t \in Of(k), Live(t)', task'[t].phase # "ended", NEW l \in ToSet(f.steers),
             Kind[l] = "late"
      PROVE  InBatch(k, Base[l])' \/ Through(Base[l], f.run)'
  <2>1. InBatch(k, Base[l]) \/ Through(Base[l], e.run)
    BY <1>2, <1>4 DEF LateOK
  <2>2. l \in Of(k)
    BY <1>1, <1>4 DEF MailOK, InSteers
  <2>3. Base[l] \in Of(k)
    BY <2>2, <1>4, BaseOf
  <2> QED BY <2>1, <2>3
<1>5. ASSUME NEW t \in Of(k), NEW l \in ToSet(task'[t].batch), Kind[l] = "late"
      PROVE  Through(Base[l], task[t].run)'
  <2>1. l \in ToSet(task[t].batch) /\ Through(Base[l], task[t].run)
    BY <1>5 DEF LateOK
  <2>2. l \in Of(k)
    BY <1>1, <2>1 DEF MailOK, InBatch
  <2>3. Base[l] \in Of(k)
    BY <2>2, <1>5, BaseOf
  <2> QED BY <2>1, <2>3 DEF Through
<1>6. ASSUME NEW l \in Of(k), Kind[l] = "late", fate'[l] = "taken"
      PROVE  Through(Base[l], ran[l])'
  <2>1. Through(Base[l], ran[l])
    BY <1>6 DEF LateOK
  <2>2. Base[l] \in Of(k)
    BY <1>6, BaseOf
  <2> QED BY <2>1, <2>2 DEF Through
<1> QED BY <1>3, <1>4, <1>5, <1>6, LateStep

\* An interrupt held stays held while no steer is added.
LEMMA InterruptSame ==
  ASSUME NEW k, InterruptOK(k), NEW f, entries'[k] = f, Held(k), f.run = entries[k].run,
         f.aborts = entries[k].aborts, ToSet(f.steers) \subseteq ToSet(entries[k].steers),
         cancellation'[f.run].state = "running" => cancellation'[f.run] = cancellation[f.run]
  PROVE  InterruptOK(k)'
<1>1. ASSUME k \in AbortSteering, f.aborts < MaxInterrupts, cancellation'[f.run].state = "running",
             NEW m \in ToSet(f.steers), Native(m), Sender[m] = Sender[f.run]
      PROVE  cancellation'[f.run].model
  BY <1>1 DEF InterruptOK, State
<1> QED BY <1>1, InterruptStep

LEMMA ArriveAside ==
  ASSUME NEW k \in Keys, Good(k), NEW m \in Of(k), ArrivesNow(m),
         NEW what \in {"busy", "absorbed", "unheld"}, fate' = Settle({m}, what),
         UNCHANGED <<entries, permits, task, cancellation, ran, vouched>>
  PROVE  Keeps(k)
<1> DEFINE e == entries[k]
<1>1. /\ Types /\ ArriveInv /\ LifeOK(k) /\ MailOK(k) /\ BoundOK(k) /\ SendOK(k) /\ OrderOK(k)
      /\ PermitInv /\ LateOK(k) /\ InterruptOK(k)
  BY DEF Good, Parts, Later
<1>2. what \in Fates \ {"unsent", "taken"}
  BY DEF Fates
<1>3. /\ \A x \in Msgs : x # m => fate'[x] = fate[x]
      /\ fate'[m] = what /\ m \in Msgs /\ fate' \in [Msgs -> Fates] /\ arrived' \in Seq(Msgs)
      /\ \A x \in Msgs : x \notin Of(k) => fate'[x] = fate[x]
      /\ FatesGrow(k) /\ ArriveInv' /\ m \notin ToSet(arrived) /\ fate[m] = "unsent"
      /\ ~InSteers(k, m) /\ ~InFollow(k, m) /\ ~InBatch(k, m)
      /\ \A x, r : Through(x, r) /\ x \in Msgs => x # m
  BY <1>2, Arrival
<1>4. Types'
  BY <1>1, <1>3 DEF Types
<1>5. PermitInv'
  BY <1>1, PermitSame DEF HasPermit, Live
<1>6. Local(k)
  BY <1>3 DEF Local
<1>7. /\ Held(k)' <=> Held(k)
      /\ \A u : Live(u)' <=> Live(u)
      /\ \A x : /\ InSteers(k, x)' <=> InSteers(k, x)
                /\ InFollow(k, x)' <=> InFollow(k, x)
                /\ InBatch(k, x)' <=> InBatch(k, x)
  BY DEF Held, Live, InSteers, InFollow, InBatch
<1>8. LifeOK(k)'
  BY <1>1, <1>3, <1>7 DEF LifeOK, FatesGrow
<1>9. \A x \in Of(k) : Open(x)' <=> Open(x)
  BY <1>3, OfKey DEF Open
<1>10. MailOK(k)'
  BY <1>1, <1>7, <1>9 DEF MailOK
<1>11. BoundOK(k)'
  BY <1>1, <1>7 DEF BoundOK, Depth
<1>12. \A x \in Of(k) : fate'[x] = "taken" => fate[x] = "taken"
  BY <1>3, OfKey
<1>13. SendOK(k)'
  BY <1>1, <1>7, <1>12 DEF SendOK, ItemOK, Hears
<1>14. InterruptOK(k)'
  BY <1>1, <1>7 DEF InterruptOK, State
<1>15. \A x \in Of(k) : \A r : Through(x, r) => Through(x, r)'
  BY <1>3, ThroughKept
<1>16. LateOK(k)'
  <2>1. CASE Held(k)
    BY <1>1, <1>7, <1>8, <1>10, <1>11, <1>12, <1>13, <1>15, <2>1, LateSame DEF Parts
  <2>2. CASE ~Held(k)
    <3>1. \A t \in Of(k) : ~Live(t)
      BY <1>1, <2>2 DEF LifeOK
    <3>2. \A t \in Of(k) : task[t].batch = <<>>
      BY <3>1, <1>1 DEF LifeOK, Live, Turns
    <3>3. \A t \in Of(k) : \A l : l \notin ToSet(task'[t].batch)
      BY <3>2, SetOf
    <3>4. ASSUME NEW l \in Of(k), Kind[l] = "late", fate'[l] = "taken"
          PROVE  Through(Base[l], ran[l])'
      <4>1. Through(Base[l], ran[l])
        BY <1>1, <1>12, <3>4 DEF LateOK
      <4>2. Base[l] \in Of(k)
        BY <3>4, BaseOf
      <4> QED BY <4>1, <4>2, <1>15 DEF Through
    <3> QED BY <1>7, <2>2, <3>1, <3>3, <3>4 DEF LateOK
  <2> QED BY <2>1, <2>2
<1>17. OrderOK(k)'
  <2> SUFFICES ASSUME Held(k) PROVE Sorted(entries[k].steers)'
    BY <1>7 DEF OrderOK
  <2>1. PICK u \in Seq(Msgs) : u = e.steers
    BY <1>1, HeldIs, SessionFields
  <2>2. ToSet(u) \subseteq ToSet(arrived)
    BY <1>1, <2>1, MailArrived DEF InSteers
  <2>3. arrived \in Seq(Msgs) /\ arrived' = Append(arrived, m) /\ Sorted(u)
    BY <1>1, <2>1 DEF Types, ArrivesNow, OrderOK
  <2>4. Sorted(u)'
    BY <1>3, <2>2, <2>3, SortedOne
  <2> QED BY <2>1, <2>4 DEF Sorted
<1> QED BY <1>3, <1>4, <1>5, <1>6, <1>8, <1>10, <1>11, <1>13, <1>14, <1>16, <1>17
        DEF Keeps, Good, Parts, Later

LEMMA AdmitRefusedKeeps ==
  ASSUME NEW m \in Msgs, NEW k \in Keys, k = KeyOf[m], Good(k), AdmitRefused(m)
  PROVE  Keeps(k)
<1>1. m \in Of(k) /\ ArrivesNow(m)
  BY OfKey DEF AdmitRefused, Arrives, ArrivesNow
<1>2. fate' = Settle({m}, "busy") /\ UNCHANGED <<entries, permits, task, cancellation, ran, vouched>>
  BY DEF AdmitRefused
<1> QED BY <1>1, <1>2, ArriveAside

LEMMA EnrichKeeps ==
  ASSUME NEW m \in Msgs, NEW k \in Keys, k = KeyOf[m], Good(k), Typed', Enrich(m)
  PROVE  Keeps(k)
<1> DEFINE e == entries[k]
           b == Base[m]
           absorbed == Held(k) /\ ((\E i \in DOMAIN e.follow_ups : e.follow_ups[i].lead = b)
                                   \/ b \in ToSet(e.steers))
           follows == Held(k) /\ State(e) = "running" /\ Depth(e) < Capacity /\ b \in ToSet(e.turn)
<1>1. m \in Of(k) /\ ArrivesNow(m) /\ Kind[m] = "late"
  BY OfKey DEF Enrich, ArrivesNow
<1>2. permits' = permits /\ task' = task /\ ran' = ran /\ vouched' = vouched
  BY DEF Enrich
<1>3. \/ fate' = Settle({m}, "absorbed") /\ UNCHANGED <<entries, cancellation>>
      \/ fate' = Settle({m}, "unheld") /\ UNCHANGED <<entries, cancellation>>
      \/ /\ ~absorbed /\ follows
         /\ entries' = [entries EXCEPT ![k] = Interrupted(Enriched(e, m))]
         /\ cancellation' = InterruptModel(e)
         /\ fate' = Settle({m}, "steered")
  BY DEF Enrich
<1>4. CASE (fate' = Settle({m}, "absorbed") \/ fate' = Settle({m}, "unheld"))
           /\ UNCHANGED <<entries, cancellation>>
  BY <1>1, <1>2, <1>4, ArriveAside
<1>5. CASE /\ ~absorbed /\ follows
           /\ entries' = [entries EXCEPT ![k] = Interrupted(Enriched(e, m))]
           /\ cancellation' = InterruptModel(e)
           /\ fate' = Settle({m}, "steered")
  <2> DEFINE g == Enriched(e, m)
             f == Interrupted(g)
  <2>1. Held(k) /\ Types /\ BoundOK(k) /\ SendOK(k) /\ LateOK(k)
    BY <1>5 DEF Good, Parts, Later
  <2>2. e \in Sessions /\ e.aborts <= MaxInterrupts /\ Depth(e) # Capacity
    <3>1. e \in Sessions /\ e.aborts <= MaxInterrupts
      BY <2>1, HeldIs DEF BoundOK
    <3>2. Depth(e) < Capacity
      BY <1>5
    <3> QED BY <3>1, <3>2, BoundsAssumption
  <2>3. /\ Alike(g, e) /\ g.aborts = e.aborts /\ g.authorizing = e.authorizing
        /\ g.steers = Append(e.steers, m) /\ g.follow_ups = e.follow_ups /\ g.turn = e.turn
    BY <2>2, EnrichedIs
  <2>4. g \in Sessions /\ g.run = e.run /\ g.mapping = e.mapping
    BY <2>3 DEF Alike
  <2> HIDE DEF g
  <2>5. /\ Alike(f, g) /\ f.authorizing = g.authorizing
        /\ f.aborts = IF MayInterrupt(g) THEN g.aborts + 1 ELSE g.aborts
        /\ f.steers = g.steers /\ f.follow_ups = g.follow_ups /\ f.turn = g.turn
    BY <2>4, InterruptedIs
  <2>6. entries' = [entries EXCEPT ![k] = f]
    BY <1>5 DEF g
  <2> HIDE DEF f
  <2>7. MayInterrupt(g) <=> MayInterrupt(e)
    BY <2>4, <2>3 DEF MayInterrupt
  <2>8. f.aborts = IF MayInterrupt(e) THEN e.aborts + 1 ELSE e.aborts
    BY <2>3, <2>5, <2>7
  <2>9. f.aborts <= MaxInterrupts
    BY <2>2, <2>8, InterruptBound
  <2>10. Kept(k, f)
    BY <2>1, <1>2, <2>4, <2>5, <2>6 DEF Kept, Alike
  <2>11. /\ f.steers = Append(e.steers, m) /\ f.follow_ups = e.follow_ups
         /\ f.authorizing = e.authorizing /\ f.turn = e.turn
    BY <2>3, <2>5
  <2>12. b \in ToSet(e.turn) /\ State(e) = "running" /\ b \notin ToSet(e.steers)
    BY <1>5
  <2>13. Hears(e, m)
    <3>1. Hears(e, b)
      BY <2>1, <2>12 DEF SendOK
    <3>2. Sender[b] = Sender[m]
      BY <1>1, BaseOf
    <3> QED BY <3>1, <3>2 DEF Hears
  <2>14. InBatch(k, b) \/ Through(b, e.run)
    BY <2>1, <2>12 DEF LateOK, InSteers
  <2> QED BY <1>1, <1>2, <1>5, <2>2, <2>8, <2>9, <2>10, <2>11, <2>13, <2>14, SteerStep
<1> QED BY <1>2, <1>3, <1>4, <1>5

\* A message that waits behind the turn.
LEMMA ArriveFollow ==
  ASSUME NEW k \in Keys, Good(k), Typed', NEW m \in Of(k), ArrivesNow(m),
         fate' = Settle({m}, "queued"), UNCHANGED <<permits, cancellation, ran, vouched>>,
         NEW f, Kept(k, f), f.aborts = entries[k].aborts, f.authorizing = entries[k].authorizing,
         f.steers = entries[k].steers, f.turn = entries[k].turn, Depth(f) <= Capacity,
         Apart(f.follow_ups), \A i \in DOMAIN f.follow_ups : ItemOK(f, f.follow_ups[i]),
         \A x : (\E i \in DOMAIN f.follow_ups : x \in Content(f.follow_ups[i])) <=>
                  InFollow(k, x) \/ x = m
  PROVE  Keeps(k)
<1> DEFINE e == entries[k]
<1>1. /\ Types /\ ArriveInv /\ LifeOK(k) /\ MailOK(k) /\ BoundOK(k) /\ SendOK(k) /\ OrderOK(k)
      /\ LateOK(k) /\ InterruptOK(k)
      /\ Held(k) /\ f \in Sessions /\ f.run = e.run /\ f.mapping = e.mapping /\ task' = task
  BY DEF Good, Parts, Later, Kept
<1>2. "queued" \in Fates \ {"unsent", "taken"}
  BY DEF Fates
<1>3. /\ \A x \in Msgs : x # m => fate'[x] = fate[x]
      /\ fate'[m] = "queued" /\ m \in Msgs /\ fate' \in [Msgs -> Fates] /\ arrived' \in Seq(Msgs)
      /\ \A x \in Msgs : x \notin Of(k) => fate'[x] = fate[x]
      /\ FatesGrow(k) /\ ArriveInv' /\ m \notin ToSet(arrived) /\ fate[m] = "unsent"
      /\ ~InSteers(k, m) /\ ~InFollow(k, m) /\ ~InBatch(k, m)
      /\ \A x, r : Through(x, r) /\ x \in Msgs => x # m
  BY <1>2, Arrival
<1>4. OwnCancellation(k)
  BY DEF OwnCancellation
<1>5. Types' /\ PermitInv' /\ Local(k) /\ LifeOK(k)'
  BY <1>3, <1>4, KeptStep
<1>6. /\ entries'[k] = f /\ Held(k)'
      /\ \A x : InBatch(k, x)' <=> InBatch(k, x)
      /\ \A x : InSteers(k, x)' <=> x \in ToSet(f.steers)
      /\ \A x : InFollow(k, x)' <=> \E i \in DOMAIN f.follow_ups : x \in Content(f.follow_ups[i])
      /\ \A u : Live(u)' <=> Live(u)
  BY <1>1, KeptFrame
<1>7. \A x : InSteers(k, x)' <=> InSteers(k, x)
  BY <1>1, <1>6 DEF InSteers
<1>8. \A x : InFollow(k, x)' <=> InFollow(k, x) \/ x = m
  BY <1>6
<1>9. \A x \in Of(k) : Open(x)' <=> Open(x) \/ x = m
  BY <1>3, OfKey DEF Open
<1>10. Inj(f.steers) /\ Apart(f.follow_ups)
  BY <1>1 DEF MailOK
<1>11. MailOK(k)'
  BY <1>1, <1>3, <1>6, <1>7, <1>8, <1>9, <1>10 DEF MailOK
<1>12. BoundOK(k)'
  <2>1. \A t \in Of(k) : Live(t) => e.authorizing = Len(task[t].batch)
    BY <1>1 DEF BoundOK
  <2>2. e.aborts <= MaxInterrupts
    BY <1>1 DEF BoundOK
  <2> QED BY <1>1, <1>6, <2>1, <2>2 DEF BoundOK, Depth
<1>13. \A x \in Of(k) : fate'[x] = "taken" => fate[x] = "taken"
  BY <1>3, OfKey
<1>14. SendOK(k)'
  <2>1. \A x : x \in ToSet(f.steers) \/ x \in ToSet(f.turn) => Hears(f, x)
    BY <1>1 DEF SendOK, Hears
  <2>2. \A t \in Of(k) : \A x \in ToSet(task'[t].batch) :
          Sender[x] = Sender[task'[t].run] \/ task'[t].run \notin PosterOnly
    BY <1>1 DEF SendOK
  <2>3. \A x \in Of(k) : fate'[x] = "taken" /\ Sender[x] # Sender[ran'[x]] =>
          x \in vouched' /\ ran'[x] \notin PosterOnly
    BY <1>1, <1>13 DEF SendOK
  <2> QED BY <1>6, <2>1, <2>2, <2>3, SendStep
<1>15. InterruptOK(k)'
  BY <1>1, <1>6, InterruptSame
<1>16. \A x \in Of(k) : \A r : Through(x, r) => Through(x, r)'
  BY <1>3, ThroughKept
<1>17. LateOK(k)'
  BY <1>1, <1>6, <1>13, <1>16, LateSame DEF Parts
<1>18. OrderOK(k)'
  <2>1. f.steers \in Seq(Msgs)
    BY <1>1, SessionFields
  <2>2. ToSet(f.steers) \subseteq ToSet(arrived)
    BY <1>1, MailArrived DEF InSteers
  <2>3. arrived \in Seq(Msgs) /\ arrived' = Append(arrived, m) /\ Sorted(f.steers)
    BY <1>1 DEF Types, ArrivesNow, OrderOK
  <2>4. Sorted(f.steers)'
    BY <1>3, <2>1, <2>2, <2>3, SortedOne
  <2> QED BY <1>6, <2>4 DEF OrderOK, Sorted
<1> QED BY <1>3, <1>5, <1>11, <1>12, <1>14, <1>15, <1>17, <1>18 DEF Keeps, Good, Parts, Later

\* One item more than a queue that is apart.
LEMMA AppendApart ==
  ASSUME NEW q \in Seq(Items), Apart(q), NEW item \in Items,
         \A x \in Content(item), i \in DOMAIN q : x \notin Content(q[i])
  PROVE  /\ Apart(Append(q, item))
         /\ \A x : (\E i \in DOMAIN Append(q, item) : x \in Content(Append(q, item)[i]))
                     <=> (\E i \in DOMAIN q : x \in Content(q[i])) \/ x \in Content(item)
<1> DEFINE p == Append(q, item)
<1>1. /\ DOMAIN p = 1..(Len(q) + 1) /\ DOMAIN q = 1..Len(q) /\ Len(q) \in Nat
      /\ \A i \in 1..Len(q) : p[i] = q[i]
      /\ p[Len(q) + 1] = item
  BY AppendSet
<1> HIDE DEF p
<1>2. /\ \A i \in DOMAIN q : i \in DOMAIN p /\ p[i] = q[i]
      /\ Len(q) + 1 \in DOMAIN p
      /\ \A i \in DOMAIN p : i \in DOMAIN q \/ i = Len(q) + 1
  BY <1>1
<1>3. Apart(p)
  BY <1>1, <1>2 DEF Apart
<1>4. \A x : (\E i \in DOMAIN p : x \in Content(p[i]))
               <=> (\E i \in DOMAIN q : x \in Content(q[i])) \/ x \in Content(item)
  BY <1>1, <1>2
<1> QED BY <1>3, <1>4 DEF p

LEMMA AdmitFollowUpKeeps ==
  ASSUME NEW m \in Msgs, NEW k \in Keys, k = KeyOf[m], Good(k), Typed', AdmitFollowUp(m)
  PROVE  Keeps(k)
<1> DEFINE e == entries[k]
           item == FollowUp(m, {}, AwaitsMapping(e, m))
           f == Queued(e, item)
<1>1. /\ m \in Of(k) /\ ArrivesNow(m) /\ Held(k) /\ Types /\ BoundOK(k) /\ MailOK(k) /\ SendOK(k)
      /\ Kind[m] # "late" /\ fate[m] = "unsent"
  BY OfKey DEF AdmitFollowUp, Arrives, ArrivesNow, Good, Parts
<1>2. /\ e \in Sessions /\ e.follow_ups \in Seq(Items) /\ Len(e.follow_ups) \in Nat
      /\ Len(e.steers) \in Nat /\ e.authorizing \in Int
  BY <1>1, HeldIs, SessionFields
<1>3. item \in Items
  BY DEF FollowUp, Items, AwaitsMapping
<1>4. item.lead = m /\ item.rest = {} /\ Content(item) = {m}
  BY DEF FollowUp, Content
<1>5. item.pending => Native(m) /\ Sender[m] # Sender[e.run] /\ e.mapping = "pending"
  BY DEF FollowUp, AwaitsMapping
<1>6. entries' = [entries EXCEPT ![k] = f] /\ task' = task
  BY DEF AdmitFollowUp
<1> HIDE DEF item
<1>7. /\ Alike(f, e) /\ f.aborts = e.aborts /\ f.authorizing = e.authorizing
      /\ f.steers = e.steers /\ f.follow_ups = Append(e.follow_ups, item) /\ f.turn = e.turn
  BY <1>2, <1>3, QueuedIs
<1> HIDE DEF f
<1>8. Kept(k, f) /\ f.run = e.run /\ f.mapping = e.mapping
  BY <1>1, <1>6, <1>7 DEF Kept, Alike
<1>9. ~InFollow(k, m)
  BY <1>1 DEF MailOK, Open
<1>10. \A x \in Content(item), i \in DOMAIN e.follow_ups : x \notin Content(e.follow_ups[i])
  BY <1>1, <1>4, <1>9 DEF InFollow
<1>11. Apart(e.follow_ups)
  BY <1>1 DEF MailOK
<1>12. /\ Apart(f.follow_ups)
       /\ \A x : (\E i \in DOMAIN f.follow_ups : x \in Content(f.follow_ups[i]))
                   <=> (\E i \in DOMAIN e.follow_ups : x \in Content(e.follow_ups[i])) \/ x \in Content(item)
  BY <1>2, <1>3, <1>7, <1>10, <1>11, AppendApart
<1>13. \A x : (\E i \in DOMAIN f.follow_ups : x \in Content(f.follow_ups[i])) <=> InFollow(k, x) \/ x = m
  BY <1>1, <1>4, <1>12 DEF InFollow
<1>14. /\ DOMAIN f.follow_ups = 1..(Len(e.follow_ups) + 1)
       /\ \A i \in 1..Len(e.follow_ups) : f.follow_ups[i] = e.follow_ups[i]
       /\ f.follow_ups[Len(e.follow_ups) + 1] = item
       /\ Len(f.follow_ups) = Len(e.follow_ups) + 1
  BY <1>2, <1>3, <1>7, AppendSet
<1>15. ASSUME NEW i \in DOMAIN f.follow_ups
       PROVE  ItemOK(f, f.follow_ups[i])
  <2>1. CASE i \in 1..Len(e.follow_ups)
    <3>1. ItemOK(e, e.follow_ups[i])
      BY <1>1, <1>2, <2>1 DEF SendOK
    <3> QED BY <1>8, <1>14, <2>1, <3>1 DEF ItemOK
  <2>2. CASE i = Len(e.follow_ups) + 1
    <3>1. f.follow_ups[i] = item
      BY <1>14, <2>2
    <3> QED BY <3>1, <1>1, <1>4, <1>5, <1>8 DEF ItemOK
  <2> QED BY <1>2, <1>14, <2>1, <2>2
<1>16. Depth(f) <= Capacity
  <2>1. Depth(e) <= Capacity /\ Depth(e) # Capacity
    BY <1>1 DEF BoundOK, AdmitFollowUp
  <2> DEFINE a == Len(e.steers)
             b == Len(e.follow_ups)
             c == e.authorizing
  <2>3. a \in Nat /\ b \in Nat /\ c \in Int
    BY <1>2
  <2>4. Depth(e) = a + b + c /\ Depth(f) = a + (b + 1) + c
    BY <1>7, <1>14 DEF Depth
  <2> HIDE DEF a, b, c
  <2>2. Depth(f) = Depth(e) + 1 /\ Depth(e) \in Int
    BY <2>3, <2>4
  <2> QED BY <2>1, <2>2, BoundsAssumption
<1>17. fate' = Settle({m}, "queued") /\ UNCHANGED <<permits, cancellation, ran, vouched>>
  BY DEF AdmitFollowUp
<1> QED BY <1>1, <1>7, <1>8, <1>12, <1>13, <1>15, <1>16, <1>17, ArriveFollow

LEMMA AdmitBatchedKeeps ==
  ASSUME NEW m \in Msgs, NEW k \in Keys, k = KeyOf[m], Good(k), Typed', AdmitBatched(m)
  PROVE  Keeps(k)
<1> DEFINE e == entries[k]
           f == Batched(e, m)
           q == e.follow_ups
           n == Len(e.follow_ups)
<1>1. /\ m \in Of(k) /\ ArrivesNow(m) /\ Held(k) /\ Types /\ BoundOK(k) /\ MailOK(k) /\ SendOK(k)
      /\ Kind[m] = "github" /\ fate[m] = "unsent" /\ JoinsBatch(e, m) /\ q # <<>>
  BY OfKey DEF AdmitBatched, Arrives, ArrivesNow, Good, Parts, JoinsBatch
<1>2. e \in Sessions /\ q \in Seq(Items)
  BY <1>1, HeldIs, SessionFields
<1>3. /\ Alike(f, e) /\ f.aborts = e.aborts /\ f.authorizing = e.authorizing
      /\ f.steers = e.steers /\ f.turn = e.turn
      /\ n \in DOMAIN q /\ Len(f.follow_ups) = n /\ DOMAIN f.follow_ups = DOMAIN q
      /\ Last(q) = q[n]
      /\ \A i \in DOMAIN q : i # n => f.follow_ups[i] = q[i]
      /\ f.follow_ups[n] = FollowUp(q[n].lead, q[n].rest \union {m}, q[n].pending)
  BY <1>1, <1>2, BatchedIs
<1>4. Kind[q[n].lead] = "github" /\ Sender[q[n].lead] = Sender[m]
  BY <1>1, <1>3 DEF JoinsBatch
<1>5. entries' = [entries EXCEPT ![k] = f] /\ task' = task
  BY DEF AdmitBatched
<1> HIDE DEF f
<1>6. Kept(k, f) /\ f.run = e.run /\ f.mapping = e.mapping
  BY <1>1, <1>3, <1>5 DEF Kept, Alike
<1>7. /\ f.follow_ups[n].lead = q[n].lead /\ f.follow_ups[n].rest = q[n].rest \union {m}
      /\ f.follow_ups[n].pending = q[n].pending
      /\ Content(f.follow_ups[n]) = Content(q[n]) \union {m}
  BY <1>3 DEF FollowUp, Content
<1>8. ~InFollow(k, m)
  BY <1>1 DEF MailOK, Open
<1>9. \A i \in DOMAIN q : m \notin Content(q[i])
  BY <1>1, <1>8 DEF InFollow
<1>10. \A i \in DOMAIN q : \A x : x \in Content(f.follow_ups[i]) <=> x \in Content(q[i]) \/ (i = n /\ x = m)
  BY <1>3, <1>7
<1>11. Apart(f.follow_ups)
  <2>1. Apart(q)
    BY <1>1 DEF MailOK
  <2> HIDE DEF q, n
  <2>2. ASSUME NEW i \in DOMAIN q, NEW j \in DOMAIN q, NEW x,
               x \in Content(f.follow_ups[i]), x \in Content(f.follow_ups[j])
        PROVE  i = j
    <3>1. (x \in Content(q[i]) \/ (i = n /\ x = m)) /\ (x \in Content(q[j]) \/ (j = n /\ x = m))
      BY <1>10, <2>2
    <3> QED BY <1>9, <2>1, <3>1 DEF Apart
  <2> QED BY <1>3, <2>2 DEF Apart
<1>12. \A x : (\E i \in DOMAIN f.follow_ups : x \in Content(f.follow_ups[i])) <=> InFollow(k, x) \/ x = m
  BY <1>1, <1>3, <1>10 DEF InFollow
<1>13. ASSUME NEW i \in DOMAIN f.follow_ups
       PROVE  ItemOK(f, f.follow_ups[i])
  <2>1. ItemOK(e, q[i])
    BY <1>1, <1>3 DEF SendOK
  <2>2. CASE i # n
    BY <1>3, <1>6, <2>1, <2>2 DEF ItemOK
  <2>3. CASE i = n
    <3>1. ~q[n].pending
      BY <1>4, <2>1, <2>3 DEF ItemOK, Native
    <3>2. \A x \in f.follow_ups[n].rest : Sender[x] = Sender[f.follow_ups[n].lead]
      BY <1>4, <1>7, <2>1, <2>3 DEF ItemOK
    <3>3. \A x \in Content(f.follow_ups[n]) : Kind[x] # "late"
      BY <1>1, <1>7, <2>1, <2>3 DEF ItemOK
    <3> QED BY <1>7, <2>3, <3>1, <3>2, <3>3 DEF ItemOK
  <2> QED BY <2>2, <2>3
<1>14. Depth(f) <= Capacity
  BY <1>1, <1>3 DEF BoundOK, Depth
<1>15. fate' = Settle({m}, "queued") /\ UNCHANGED <<permits, cancellation, ran, vouched>>
  BY DEF AdmitBatched
<1> QED BY <1>1, <1>3, <1>6, <1>11, <1>12, <1>13, <1>14, <1>15, ArriveFollow

\* A fate settled for messages that were open.
LEMMA SettleOpen ==
  ASSUME NEW k \in Keys, Types, NEW S, \A x \in S : x \in Of(k) /\ Open(x),
         NEW what \in Fates \ {"unsent"}, fate' = Settle(S, what)
  PROVE  /\ \A x \in Msgs : fate'[x] = IF x \in S THEN what ELSE fate[x]
         /\ fate' \in [Msgs -> Fates]
         /\ \A x \in Msgs : x \notin Of(k) => fate'[x] = fate[x]
         /\ FatesGrow(k)
         /\ \A x \in Msgs : fate'[x] = "unsent" <=> fate[x] = "unsent"
<1>1. \A x \in Msgs : fate'[x] = IF x \in S THEN what ELSE fate[x]
  BY DEF Settle
<1>2. fate' \in [Msgs -> Fates]
  BY DEF Settle, Types
<1>3. \A x \in S : fate[x] # "taken" /\ fate[x] # "unsent"
  BY DEF Open
<1>4. FatesGrow(k)
  BY <1>1, <1>3, OfKey DEF FatesGrow
<1>5. \A x \in Msgs : fate'[x] = "unsent" <=> fate[x] = "unsent"
  BY <1>1, <1>3
<1> QED BY <1>1, <1>2, <1>4, <1>5

LEMMA QueuedByIs ==
  ASSUME NEW e \in Sessions, NEW s
  PROVE  \A x : x \in QueuedBy(e, s) <=>
           \/ x \in ToSet(e.steers) /\ Sender[x] = s
           \/ \E i \in DOMAIN e.follow_ups :
                Sender[e.follow_ups[i].lead] = s /\ x \in Content(e.follow_ups[i])
BY SetOf DEF QueuedBy

LEMMA StopKeeps ==
  ASSUME NEW k \in Keys, Good(k), Typed', NEW s, Stop(s, k)
  PROVE  Keeps(k)
<1> DEFINE e == entries[k]
           f == Without(e, s)
           q == e.follow_ups
           S == QueuedBy(e, s)
<1>1. /\ Types /\ ArriveInv /\ LifeOK(k) /\ MailOK(k) /\ BoundOK(k) /\ SendOK(k) /\ OrderOK(k)
      /\ LateOK(k) /\ InterruptOK(k) /\ Held(k)
  BY DEF Good, Parts, Later, Stop
<1>2. /\ e \in Sessions /\ q \in Seq(Items) /\ e.steers \in Seq(Msgs) /\ e.authorizing \in Int
  BY <1>1, HeldIs, SessionFields
<1>3. Survives(f, e, s)
  BY <1>2, WithoutIs
<1>4. /\ entries' = [entries EXCEPT ![k] = f] /\ task' = task /\ permits' = permits /\ ran' = ran
      /\ vouched' = vouched /\ arrived' = arrived /\ fate' = Settle(S, "stopped")
  BY DEF Stop
<1>5. \A x : x \in S <=> \/ x \in ToSet(e.steers) /\ Sender[x] = s
                         \/ \E i \in DOMAIN q : Sender[q[i].lead] = s /\ x \in Content(q[i])
  BY <1>2, QueuedByIs
<1>6. \A x \in S : x \in Of(k) /\ Open(x)
  <2>1. \A x \in S : InSteers(k, x) \/ InFollow(k, x)
    BY <1>1, <1>5 DEF InSteers, InFollow
  <2> QED BY <1>1, <2>1, MailArrived
<1> HIDE DEF f, S
<1>7. "stopped" \in Fates \ {"unsent"}
  BY DEF Fates
<1>8. /\ \A x \in Msgs : fate'[x] = IF x \in S THEN "stopped" ELSE fate[x]
      /\ fate' \in [Msgs -> Fates]
      /\ \A x \in Msgs : x \notin Of(k) => fate'[x] = fate[x]
      /\ FatesGrow(k)
      /\ \A x \in Msgs : fate'[x] = "unsent" <=> fate[x] = "unsent"
  BY <1>1, <1>4, <1>6, <1>7, SettleOpen
<1>9. Kept(k, f) /\ f.run = e.run /\ f.mapping = e.mapping /\ f \in Sessions
  BY <1>1, <1>3, <1>4 DEF Kept, Alike, Survives
<1>10. /\ \A x \in Msgs : x # e.run => cancellation'[x] = cancellation[x]
       /\ cancellation'[e.run].state = "running" => cancellation'[e.run] = cancellation[e.run]
  <2>1. CASE cancellation' = cancellation
    BY <2>1
  <2>2. CASE cancellation' = [cancellation EXCEPT ![e.run].state = "cancelled", ![e.run].model = TRUE]
    <3>1. e.run \in Msgs /\ cancellation \in [Msgs -> Cancellations]
      BY <1>1, <1>2, SessionFields DEF Types
    <3>2. cancellation'[e.run] = [cancellation[e.run] EXCEPT !.state = "cancelled", !.model = TRUE]
      BY <2>2, <3>1
    <3>3. cancellation'[e.run].state = "cancelled"
      BY <3>1, <3>2 DEF Cancellations
    <3> QED BY <2>2, <3>1, <3>3
  <2> QED BY <2>1, <2>2 DEF Stop
<1>11. OwnCancellation(k)
  <2>1. e.run \in Of(k)
    BY <1>1, RunOf
  <2> QED BY <1>10, <2>1 DEF OwnCancellation
<1>12. arrived' \in Seq(Msgs)
  BY <1>1, <1>4 DEF Types
<1>13. Types' /\ PermitInv' /\ Local(k) /\ LifeOK(k)'
  BY <1>4, <1>8, <1>9, <1>11, <1>12, KeptStep
<1>14. /\ entries'[k] = f /\ Held(k)'
       /\ \A x : InBatch(k, x)' <=> InBatch(k, x)
       /\ \A x : InSteers(k, x)' <=> x \in ToSet(f.steers)
       /\ \A x : InFollow(k, x)' <=> \E i \in DOMAIN f.follow_ups : x \in Content(f.follow_ups[i])
       /\ \A u : Live(u)' <=> Live(u)
  BY <1>1, <1>9, KeptFrame
<1>15. \A x : InSteers(k, x)' <=> InSteers(k, x) /\ Sender[x] # s
  BY <1>1, <1>3, <1>14 DEF InSteers, Survives
<1>16. \A x : InFollow(k, x)' <=> \E i \in DOMAIN q : Sender[q[i].lead] # s /\ x \in Content(q[i])
  BY <1>3, <1>14 DEF Survives
<1>17. \A x : InFollow(k, x)' => InFollow(k, x) /\ x \notin S
  <2> SUFFICES ASSUME NEW x, InFollow(k, x)' PROVE InFollow(k, x) /\ x \notin S
    OBVIOUS
  <2>1. PICK i \in DOMAIN q : Sender[q[i].lead] # s /\ x \in Content(q[i])
    BY <1>16
  <2>2. InFollow(k, x)
    BY <1>1, <2>1 DEF InFollow
  <2>3. x \notin ToSet(e.steers)
    BY <1>1, <2>2 DEF MailOK, InSteers
  <2>4. \A j \in DOMAIN q : x \in Content(q[j]) => j = i
    BY <1>1, <2>1 DEF MailOK, Apart
  <2> QED BY <1>5, <2>1, <2>2, <2>3, <2>4
<1>18. \A x : InSteers(k, x)' => x \notin S
  <2> SUFFICES ASSUME NEW x, InSteers(k, x)' PROVE x \notin S
    OBVIOUS
  <2>1. InSteers(k, x) /\ Sender[x] # s
    BY <1>15
  <2>2. ~InFollow(k, x)
    BY <1>1, <2>1 DEF MailOK
  <2> QED BY <1>1, <1>5, <2>1, <2>2 DEF InFollow
<1>19. \A x : InBatch(k, x) => x \notin S
  <2>1. \A x \in S : InSteers(k, x) \/ InFollow(k, x)
    BY <1>1, <1>5 DEF InSteers, InFollow
  <2> QED BY <1>1, <2>1 DEF MailOK
<1>20. \A x : (InSteers(k, x) \/ InFollow(k, x)) /\ x \notin S => InSteers(k, x)' \/ InFollow(k, x)'
  BY <1>1, <1>5, <1>15, <1>16 DEF InSteers, InFollow
<1>21. \A x \in Of(k) : Open(x)' <=> Open(x) /\ x \notin S
  BY <1>6, <1>8, OfKey DEF Open
<1>22. MailOK(k)'
  <2>1. \A x \in Of(k) : Open(x)' <=> InSteers(k, x)' \/ InFollow(k, x)' \/ InBatch(k, x)'
    BY <1>1, <1>14, <1>15, <1>17, <1>18, <1>19, <1>20, <1>21 DEF MailOK
  <2>2. \A x : /\ InSteers(k, x)' => x \in Of(k) /\ ~InFollow(k, x)' /\ ~InBatch(k, x)'
               /\ InFollow(k, x)' => x \in Of(k) /\ ~InBatch(k, x)'
               /\ InBatch(k, x)' => x \in Of(k)
    BY <1>1, <1>14, <1>15, <1>17 DEF MailOK
  <2>3. Inj(f.steers) /\ Apart(f.follow_ups)
    BY <1>1, <1>3 DEF MailOK, Survives
  <2>4. \A t \in Of(k) : Inj(task'[t].batch)
    BY <1>1, <1>4 DEF MailOK
  <2> QED BY <1>14, <2>1, <2>2, <2>3, <2>4 DEF MailOK, Inj, Apart
<1>23. BoundOK(k)'
  <2>1. \A t \in Of(k) : Live(t) => e.authorizing = Len(task[t].batch)
    BY <1>1 DEF BoundOK
  <2>2. e.aborts <= MaxInterrupts /\ Depth(e) <= Capacity
    BY <1>1 DEF BoundOK
  <2>3. /\ Len(e.steers) \in Nat /\ Len(q) \in Nat /\ Len(f.steers) \in Nat /\ Len(f.follow_ups) \in Nat
    BY <1>2, <1>9, SessionFields
  <2>4. Depth(f) <= Capacity
    <3> DEFINE a == Len(e.steers)
               b == Len(q)
               a2 == Len(f.steers)
               b2 == Len(f.follow_ups)
               c == e.authorizing
    <3>1. a \in Nat /\ b \in Nat /\ a2 \in Nat /\ b2 \in Nat /\ c \in Int /\ a2 <= a /\ b2 <= b
      BY <1>2, <1>3, <2>3 DEF Survives
    <3>2. Depth(e) = a + b + c /\ Depth(f) = a2 + b2 + c
      BY <1>3 DEF Depth, Survives
    <3> HIDE DEF a, b, a2, b2, c
    <3> QED BY <2>2, <3>1, <3>2, BoundsAssumption
  <2> QED BY <1>3, <1>4, <1>14, <2>1, <2>2, <2>4 DEF BoundOK, Depth, Survives
<1>24. \A x \in Of(k) : fate'[x] = "taken" => fate[x] = "taken"
  BY <1>8, OfKey
<1>25. SendOK(k)'
  <2>1. \A x : x \in ToSet(f.steers) \/ x \in ToSet(f.turn) => Hears(f, x)
    BY <1>1, <1>3, <1>9 DEF SendOK, Hears, Survives
  <2>2. \A t \in Of(k) : \A x \in ToSet(task'[t].batch) :
          Sender[x] = Sender[task'[t].run] \/ task'[t].run \notin PosterOnly
    BY <1>1, <1>4 DEF SendOK
  <2>3. \A x \in Of(k) : fate'[x] = "taken" /\ Sender[x] # Sender[ran'[x]] =>
          x \in vouched' /\ ran'[x] \notin PosterOnly
    BY <1>1, <1>4, <1>24 DEF SendOK
  <2>4. \A i \in DOMAIN f.follow_ups : ItemOK(f, f.follow_ups[i])
    <3> SUFFICES ASSUME NEW n \in DOMAIN f.follow_ups PROVE ItemOK(f, f.follow_ups[n])
      OBVIOUS
    <3>1. PICK i \in DOMAIN q : f.follow_ups[n] = q[i]
      BY <1>3 DEF Survives
    <3>2. ItemOK(e, q[i])
      BY <1>1 DEF SendOK
    <3> QED BY <1>9, <3>1, <3>2 DEF ItemOK
  <2> QED BY <1>14, <2>1, <2>2, <2>3, <2>4, SendStep
<1>26. InterruptOK(k)'
  BY <1>1, <1>3, <1>9, <1>10, <1>14, InterruptSame DEF Survives
<1>27. \A x \in Of(k) : \A r : Through(x, r) => Through(x, r)'
  <2> SUFFICES ASSUME NEW x \in Of(k), NEW r, Through(x, r) PROVE Through(x, r)'
    OBVIOUS
  <2>1. x \in Msgs /\ ~Open(x)
    BY OfKey DEF Through, Open
  <2>2. fate'[x] = fate[x]
    BY <1>6, <1>8, <2>1
  <2> QED BY <1>4, <2>2 DEF Through
<1>28. LateOK(k)'
  <2>1. cancellation'[f.run].state = "running" =>
           /\ cancellation[f.run].state = "running"
           /\ \A x \in ToSet(f.turn) : x \in ToSet(e.steers) => x \in ToSet(f.steers)
    BY <1>3, <1>9, <1>10 DEF Survives
  <2>2. ToSet(f.steers) \subseteq ToSet(e.steers) /\ ToSet(f.turn) \subseteq ToSet(e.turn)
    BY <1>3 DEF Survives
  <2> QED BY <1>1, <1>4, <1>9, <1>14, <1>24, <1>27, <2>1, <2>2, LateSame DEF Parts
<1>29. OrderOK(k)'
  <2>2. Sorted(f.steers)
    BY <1>1, <1>3 DEF OrderOK, Survives
  <2>3. PICK u : u = f.steers
    OBVIOUS
  <2>4. Sorted(u)'
    BY <1>4, <2>2, <2>3, SortedSame
  <2>5. entries'[k].steers = u
    BY <1>14, <2>3
  <2> QED BY <2>4, <2>5 DEF OrderOK, Sorted
<1>30. ArriveInv'
  BY <1>1, <1>4, <1>8, ArriveSame
<1> QED BY <1>4, <1>13, <1>22, <1>23, <1>25, <1>26, <1>28, <1>29, <1>30 DEF Keeps, Good, Parts, Later

------------------------------------------------------------------------------
(* The steps of a session task. *)

Follows(f, x) == \E i \in DOMAIN f.follow_ups : x \in Content(f.follow_ups[i])

LEMMA MovedStep ==
  ASSUME NEW k \in Keys, Good(k), Typed', NEW t, NEW r, NEW f, Moved(k, t, r, f),
         OwnCancellation(k), permits' = permits, arrived' = arrived,
         vouched \subseteq vouched', vouched' \subseteq Msgs,
         fate' \in [Msgs -> Fates], ran' \in [Msgs -> Msgs \union {None}],
         \A m \in Msgs : m \notin Of(k) => fate'[m] = fate[m] /\ ran'[m] = ran[m],
         \A m \in Msgs : fate'[m] = "unsent" <=> fate[m] = "unsent"
  PROVE  Types' /\ ArriveInv' /\ PermitInv' /\ Local(k)
<1>1. Types /\ LifeOK(k) /\ PermitInv /\ ArriveInv
  BY DEF Good, Parts
<1>2. /\ entries' = [entries EXCEPT ![k] = f] /\ task' = [task EXCEPT ![t] = r] /\ f \in Sessions
      /\ entries \in [Keys -> {NoHolder, Probe} \union Sessions]
      /\ task \in [Msgs -> TaskRecords] /\ r \in TaskRecords /\ t \in Of(k) /\ t \in Msgs
  BY <1>1, OfKey DEF Moved, Types
<1>3. entries' \in [Keys -> {NoHolder, Probe} \union Sessions] /\ task' \in [Msgs -> TaskRecords]
  BY <1>2
<1>4. Types'
  BY <1>1, <1>3 DEF Types, Typed
<1>5. /\ \A j \in Keys : j # k => entries'[j] = entries[j]
      /\ \A m \in Msgs : m # t => task'[m] = task[m]
      /\ entries'[k] = f /\ task'[t] = r
  BY <1>2
<1>6. Local(k)
  BY <1>2, <1>5 DEF Local, OwnCancellation
<1>7. entries'[k] # Probe /\ entries[k] # Probe
  <2>1. entries[k] \in Sessions
    BY <1>1, HolderIs DEF Moved
  <2>2. Probe \notin Sessions
    BY SessionFields DEF Probe
  <2> QED BY <1>2, <1>5, <2>1, <2>2
<1>8. \A m \in Msgs : HasPermit(m)' <=> HasPermit(m)
  BY <1>5 DEF HasPermit, Live, Moved
<1>9. PermitInv'
  BY <1>1, <1>5, <1>7, <1>8, PermitSame
<1>10. ArriveInv'
  BY <1>1, ArriveSame
<1> QED BY <1>4, <1>6, <1>9, <1>10

LEMMA MovedMail ==
  ASSUME Types, NEW k \in Keys, LifeOK(k), NEW t, NEW r, NEW f, Moved(k, t, r, f),
         Inj(f.steers), Apart(f.follow_ups), Inj(r.batch),
         \A x \in Of(k) : Open(x)' <=> x \in ToSet(f.steers) \/ Follows(f, x) \/ x \in ToSet(r.batch),
         \A x : /\ x \in ToSet(f.steers) => x \in Of(k) /\ ~Follows(f, x) /\ x \notin ToSet(r.batch)
                /\ Follows(f, x) => x \in Of(k) /\ x \notin ToSet(r.batch)
                /\ x \in ToSet(r.batch) => x \in Of(k)
  PROVE  MailOK(k)'
<1>1. /\ entries'[k] = f /\ task'[t] = r /\ Held(k)' /\ Live(t)'
      /\ \A u \in Of(k) : u # t => task'[u].batch = <<>>
      /\ \A m : InBatch(k, m)' <=> m \in ToSet(r.batch)
      /\ \A m : InSteers(k, m)' <=> m \in ToSet(f.steers)
      /\ \A m : InFollow(k, m)' <=> Follows(f, m)
  BY MovedFrame DEF Follows
<1>2. Inj(<<>>)
  BY DEF Inj
<1>3. \A u \in Of(k) : Inj(task'[u].batch)
  BY <1>1, <1>2
<1>4. Inj(entries'[k].steers) /\ Apart(entries'[k].follow_ups)
  BY <1>1
<1> QED BY <1>1, <1>3, <1>4 DEF MailOK, Inj, Apart

LEMMA MovedBound ==
  ASSUME Types, NEW k \in Keys, LifeOK(k), NEW t, NEW r, NEW f, Moved(k, t, r, f),
         Depth(f) <= Capacity, f.aborts <= MaxInterrupts, f.authorizing = Len(r.batch)
  PROVE  BoundOK(k)'
<1>1. /\ entries'[k] = f /\ task'[t] = r /\ \A u \in Of(k) : u # t => ~Live(u)'
  BY MovedFrame
<1> QED BY <1>1 DEF BoundOK, Depth

LEMMA MovedSend ==
  ASSUME Types, NEW k \in Keys, LifeOK(k), NEW t, NEW r, NEW f, Moved(k, t, r, f),
         \A i \in DOMAIN f.follow_ups : ItemOK(f, f.follow_ups[i]),
         \A x : x \in ToSet(f.steers) \/ x \in ToSet(f.turn) => Hears(f, x),
         \A x \in ToSet(r.batch) : Sender[x] = Sender[f.run] \/ f.run \notin PosterOnly,
         \A x \in Of(k) : fate'[x] = "taken" /\ Sender[x] # Sender[ran'[x]] =>
           x \in vouched' /\ ran'[x] \notin PosterOnly
  PROVE  SendOK(k)'
<1>1. /\ entries'[k] = f /\ task'[t] = r /\ \A u \in Of(k) : u # t => task'[u].batch = <<>>
  BY MovedFrame
<1>2. r.run = f.run
  BY HolderIs DEF Moved
<1>3. \A x : x \notin ToSet(<<>>)
  BY SetOf
<1>4. \A u \in Of(k) : \A x \in ToSet(task'[u].batch) :
        Sender[x] = Sender[task'[u].run] \/ task'[u].run \notin PosterOnly
  BY <1>1, <1>2, <1>3
<1> QED BY <1>1, <1>4, SendStep

LEMMA MovedLate ==
  ASSUME Types, NEW k \in Keys, LifeOK(k), NEW t, NEW r, NEW f, Moved(k, t, r, f),
         cancellation'[f.run].state = "running" =>
           \A x \in ToSet(f.turn) :
             x \in Of(k) /\ (x \in ToSet(f.steers) \/ x \in ToSet(r.batch) \/ Through(x, f.run)'),
         r.phase # "ended" =>
           \A l \in ToSet(f.steers) : Kind[l] = "late" =>
             Base[l] \in ToSet(r.batch) \/ Through(Base[l], f.run)',
         \A l \in ToSet(r.batch) : Kind[l] = "late" => Through(Base[l], f.run)',
         \A l \in Of(k) : Kind[l] = "late" /\ fate'[l] = "taken" => Through(Base[l], ran[l])'
  PROVE  LateOK(k)'
<1>1. /\ entries'[k] = f /\ task'[t] = r /\ Held(k)'
      /\ \A u \in Of(k) : u # t => task'[u].batch = <<>> /\ ~Live(u)'
      /\ \A m : InBatch(k, m)' <=> m \in ToSet(r.batch)
  BY MovedFrame
<1>2. r.run = f.run
  BY HolderIs DEF Moved
<1>3. \A x : x \notin ToSet(<<>>)
  BY SetOf
<1>4. ASSUME NEW u \in Of(k), NEW l \in ToSet(task'[u].batch), Kind[l] = "late"
      PROVE  Through(Base[l], task[u].run)'
  <2>1. u = t
    BY <1>1, <1>3, <1>4
  <2>2. task'[u].run = f.run /\ l \in ToSet(r.batch)
    BY <1>1, <1>2, <1>4, <2>1
  <2>3. Through(Base[l], f.run)'
    BY <1>4, <2>2
  <2> QED BY <2>2, <2>3 DEF Through
<1>5. cancellation'[f.run].state = "running" =>
        \A x \in ToSet(f.turn) :
          x \in Of(k) /\ (x \in ToSet(f.steers) \/ InBatch(k, x)' \/ Through(x, f.run)')
  BY <1>1
<1>6. \A u \in Of(k) : Live(u)' /\ task'[u].phase # "ended" =>
        \A l \in ToSet(f.steers) : Kind[l] = "late" =>
          InBatch(k, Base[l])' \/ Through(Base[l], f.run)'
  BY <1>1
<1> QED BY <1>1, <1>4, <1>5, <1>6, LateStep

\* The task of a conversation and what it holds.
At(k, t, e) ==
  /\ Types /\ ArriveInv /\ LifeOK(k) /\ MailOK(k) /\ BoundOK(k) /\ SendOK(k) /\ OrderOK(k)
  /\ LateOK(k) /\ InterruptOK(k) /\ Held(k) /\ entries[k] = e
  /\ e \in Sessions /\ e.run = task[t].run /\ e.run \in Of(k) /\ e.run \in Msgs /\ t \in Msgs
  /\ fate[e.run] = "taken"
  /\ \A m : InBatch(k, m) <=> m \in ToSet(task[t].batch)
  /\ \A m : InSteers(k, m) <=> m \in ToSet(e.steers)
  /\ \A m : InFollow(k, m) <=> Follows(e, m)
  /\ task[t] \in TaskRecords /\ task[t].phase \in Phases /\ task[t].batch \in Seq(Msgs)
  /\ e.authorizing = Len(task[t].batch)
  /\ Depth(e) <= Capacity /\ e.aborts <= MaxInterrupts

LEMMA TaskHolds ==
  ASSUME NEW k \in Keys, Good(k), NEW t \in Of(k), Live(t), NEW e, e = entries[k]
  PROVE  At(k, t, e)
<1>1. /\ Types /\ ArriveInv /\ LifeOK(k) /\ MailOK(k) /\ BoundOK(k) /\ SendOK(k) /\ OrderOK(k)
      /\ LateOK(k) /\ InterruptOK(k)
  BY DEF Good, Parts, Later
<1>2. /\ Held(k) /\ entries[k] \in Sessions /\ entries[k].run = task[t].run
      /\ entries[k].run \in Of(k) /\ fate[entries[k].run] = "taken"
      /\ \A m : InBatch(k, m) <=> m \in ToSet(task[t].batch)
  BY <1>1, HolderIs
<1>3. t \in Msgs /\ entries[k].run \in Msgs
  BY <1>2, OfKey
<1>4. task[t] \in TaskRecords /\ task[t].phase \in Phases /\ task[t].batch \in Seq(Msgs)
  BY <1>1, <1>3, TaskFields
<1>5. /\ entries[k].authorizing = Len(task[t].batch)
      /\ Depth(entries[k]) <= Capacity /\ entries[k].aborts <= MaxInterrupts
  BY <1>1, <1>2 DEF BoundOK
<1>6. /\ \A m : InSteers(k, m) <=> m \in ToSet(entries[k].steers)
      /\ \A m : InFollow(k, m) <=> Follows(entries[k], m)
  BY <1>2 DEF InSteers, InFollow, Follows
<1> QED BY <1>1, <1>2, <1>3, <1>4, <1>5, <1>6 DEF At

LEMMA TaskChanges ==
  ASSUME NEW r \in TaskRecords
  PROVE  /\ \A p \in Phases : LET s == [r EXCEPT !.phase = p] IN
              s \in TaskRecords /\ s.phase = p /\ s.run = r.run /\ s.batch = r.batch
         /\ LET s == Ends(r) IN
              s \in TaskRecords /\ s.phase = "ended" /\ s.run = r.run /\ s.batch = <<>>
<1>1. ASSUME NEW p \in Phases
      PROVE  LET s == [r EXCEPT !.phase = p] IN
              s \in TaskRecords /\ s.phase = p /\ s.run = r.run /\ s.batch = r.batch
  BY DEF TaskRecords
<1>2. LET s == Ends(r) IN
        s \in TaskRecords /\ s.phase = "ended" /\ s.run = r.run /\ s.batch = <<>>
  <2>1. "ended" \in Phases /\ <<>> \in Seq(Msgs)
    BY DEF Phases, Turns
  <2> QED BY <2>1 DEF TaskRecords, Ends
<1> QED BY <1>1, <1>2

LEMMA BatchIs ==
  ASSUME NEW r \in TaskRecords, NEW m \in {"none", "take", "seal"}, NEW b \in Seq(Msgs),
         NEW s, s = Batch(r, m, b)
  PROVE  s \in TaskRecords /\ s.phase = "prompting" /\ s.run = r.run /\ s.batch = b
<1>1. "prompting" \in Phases
  BY DEF Phases, Turns
<1> QED BY <1>1 DEF TaskRecords, Batch

\* Re-arming the model changes no turn's state and no other turn.
LEMMA RearmIs ==
  ASSUME Typed, NEW n \in Msgs, cancellation' = [cancellation EXCEPT ![n] = Rearm(@)]
  PROVE  /\ \A x \in Msgs : x # n => cancellation'[x] = cancellation[x]
         /\ cancellation'[n].state = cancellation[n].state
<1>1. cancellation'[n] = Rearm(cancellation[n]) /\ \A x \in Msgs : x # n => cancellation'[x] = cancellation[x]
  BY DEF Typed
<1>2. cancellation[n] \in Cancellations
  BY DEF Typed
<1>3. Rearm(cancellation[n]).state = cancellation[n].state
  BY <1>2 DEF Rearm, Cancellations
<1> QED BY <1>1, <1>3

LEMMA NoElements ==
  ASSUME NEW s, s = <<>>
  PROVE  (\A x : x \notin ToSet(s)) /\ Inj(s) /\ Len(s) = 0 /\ Sorted(s) /\ s \in Seq(Msgs)
<1>1. DOMAIN s = {} /\ Len(s) = 0 /\ s \in Seq(Msgs)
  OBVIOUS
<1>2. \A x : x \notin ToSet(s)
  BY <1>1, SetOf
<1>3. Inj(s)
  BY <1>1 DEF Inj
<1>4. Sorted(s)
  BY <1>1 DEF Sorted
<1> QED BY <1>1, <1>2, <1>3, <1>4

\* Where the open messages of a conversation are.
LEMMA MailOf ==
  ASSUME NEW k \in Keys, NEW t \in Of(k), NEW e, At(k, t, e)
  PROVE  /\ Inj(e.steers) /\ Apart(e.follow_ups) /\ Inj(task[t].batch)
         /\ \A x \in Of(k) : Open(x) <=> x \in ToSet(e.steers) \/ Follows(e, x) \/ x \in ToSet(task[t].batch)
         /\ \A x : /\ x \in ToSet(e.steers) => x \in Of(k) /\ ~Follows(e, x) /\ x \notin ToSet(task[t].batch)
                   /\ Follows(e, x) => x \in Of(k) /\ x \notin ToSet(task[t].batch)
                   /\ x \in ToSet(task[t].batch) => x \in Of(k)
<1>1. MailOK(k) /\ entries[k] = e /\ Held(k)
  BY DEF At
<1>2. /\ \A m : InBatch(k, m) <=> m \in ToSet(task[t].batch)
      /\ \A m : InSteers(k, m) <=> m \in ToSet(e.steers)
      /\ \A m : InFollow(k, m) <=> Follows(e, m)
  BY DEF At
<1> QED BY <1>1, <1>2 DEF MailOK

\* A message whose fate in a turn is decided is not open.
LEMMA ThroughClosed == \A x, r : Through(x, r) => ~Open(x)
BY DEF Through, Open

LEMMA PromptingIs ==
  ASSUME NEW t, Prompting(t)
  PROVE  Live(t)
BY DEF Prompting, Live, Turns

LEMMA EmptyOrder ==
  ASSUME NEW k, NEW f, entries'[k] = f, f.steers = <<>>
  PROVE  InterruptOK(k)' /\ OrderOK(k)'
<1>1. \A x : x \notin ToSet(f.steers)
  BY NoElements
<1>2. InterruptOK(k)'
  BY <1>1, InterruptStep
<1>3. OrderOK(k)'
  BY DEF OrderOK, Sorted
<1> QED BY <1>2, <1>3

LEMMA TakeSteersKeeps ==
  ASSUME NEW t \in Msgs, NEW k \in Keys, k = KeyOf[t], Good(k), Typed', TakeSteers(t)
  PROVE  Keeps(k)
<1>1. PICK e : e = entries[k]
  OBVIOUS
<1>2. t \in Of(k) /\ Live(t)
  BY OfKey, PromptingIs DEF TakeSteers
<1>3. At(k, t, e)
  BY <1>1, <1>2, TaskHolds
<1>4. /\ Types /\ LifeOK(k) /\ SendOK(k) /\ LateOK(k) /\ e \in Sessions /\ e.run \in Msgs /\ e.run \in Of(k)
      /\ task[t] \in TaskRecords /\ e.authorizing = Len(task[t].batch) /\ Typed /\ e.run = task[t].run
      /\ fate[e.run] = "taken" /\ Depth(e) <= Capacity /\ e.aborts <= MaxInterrupts
      /\ ~HasWorker(e) /\ Held(k)
  BY <1>1, <1>3 DEF At, Types, Typed, TakeSteers
<1>5. task[t].batch = <<>> /\ e.mapping # "pending"
  <2>1. task[t].phase \in Turns \ {"opening"}
    BY DEF TakeSteers, Prompting, Turns
  <2> QED BY <1>1, <1>2, <1>4, <2>1 DEF LifeOK, HasWorker
<1>6. PICK f : f = DrainedOf(e, 0)
  OBVIOUS
<1>7. /\ Alike(f, e) /\ f.aborts = e.aborts /\ f.authorizing = e.authorizing + 0
      /\ f.steers = <<>> /\ f.follow_ups = e.follow_ups /\ f.turn = e.turn
  BY <1>4, <1>6, DrainedOfIs
<1>8. f \in Sessions /\ f.run = e.run /\ f.mapping = e.mapping
  BY <1>7 DEF Alike
<1>9. PICK r : r = [task[t] EXCEPT !.phase = "prompting"]
  OBVIOUS
<1>10. r \in TaskRecords /\ r.phase = "prompting" /\ r.run = task[t].run /\ r.batch = <<>>
  <2>1. "prompting" \in Phases
    BY DEF Phases, Turns
  <2> QED BY <1>4, <1>5, <1>9, <2>1, TaskChanges
<1>11. Moved(k, t, r, f)
  <2>1. entries' = [entries EXCEPT ![k] = f]
    BY <1>1, <1>6 DEF TakeSteers
  <2>2. task' = [task EXCEPT ![t] = r]
    BY <1>9 DEF TakeSteers
  <2> QED BY <1>1, <1>2, <1>8, <1>10, <2>1, <2>2 DEF Moved, Turns
<1>12. /\ \A x \in Msgs : x # e.run => cancellation'[x] = cancellation[x]
       /\ cancellation'[e.run].state = cancellation[e.run].state
  <2>1. cancellation' = [cancellation EXCEPT ![e.run] = Rearm(@)]
    BY <1>1 DEF TakeSteers
  <2> QED BY <1>4, <2>1, RearmIs
<1>13. OwnCancellation(k)
  BY <1>4, <1>12 DEF OwnCancellation
<1>14. /\ Inj(e.steers) /\ Apart(e.follow_ups)
       /\ \A x \in Of(k) : Open(x) <=> x \in ToSet(e.steers) \/ Follows(e, x)
       /\ \A x : /\ x \in ToSet(e.steers) => x \in Of(k) /\ ~Follows(e, x)
                 /\ Follows(e, x) => x \in Of(k)
  BY <1>2, <1>3, <1>5, MailOf, NoElements
<1>15. /\ permits' = permits /\ arrived' = arrived /\ vouched' = vouched
       /\ fate' = Settle(ToSet(e.steers), "taken") /\ ran' = Enter(ToSet(e.steers), e.run)
  BY <1>1 DEF TakeSteers
<1>16. "taken" \in Fates \ {"unsent"}
  BY DEF Fates
<1>17. /\ \A x \in Msgs : fate'[x] = IF x \in ToSet(e.steers) THEN "taken" ELSE fate[x]
       /\ fate' \in [Msgs -> Fates]
       /\ \A x \in Msgs : x \notin Of(k) => fate'[x] = fate[x]
       /\ FatesGrow(k)
       /\ \A x \in Msgs : fate'[x] = "unsent" <=> fate[x] = "unsent"
  BY <1>4, <1>14, <1>15, <1>16, SettleOpen
<1>18. /\ \A x \in Msgs : ran'[x] = IF x \in ToSet(e.steers) THEN e.run ELSE ran[x]
       /\ ran' \in [Msgs -> Msgs \union {None}]
  BY <1>4, <1>15 DEF Enter, Types
<1>19. \A x \in Msgs : x \notin Of(k) => fate'[x] = fate[x] /\ ran'[x] = ran[x]
  BY <1>14, <1>17, <1>18
<1>20. vouched \subseteq vouched' /\ vouched' \subseteq Msgs
  BY <1>4, <1>15 DEF Types
<1>21. Types' /\ ArriveInv' /\ PermitInv' /\ Local(k)
  BY <1>11, <1>13, <1>15, <1>17, <1>18, <1>19, <1>20, MovedStep
<1>22. LifeOK(k)'
  BY <1>4, <1>5, <1>8, <1>10, <1>11, <1>17, MovedLife
<1>23. \A x : Follows(f, x) <=> Follows(e, x)
  BY <1>7 DEF Follows
<1>24. MailOK(k)'
  <2>1. \A x \in Of(k) : Open(x)' <=> Follows(e, x)
    BY <1>14, <1>17, OfKey DEF Open
  <2>2. \A x : x \notin ToSet(f.steers) /\ x \notin ToSet(r.batch)
    BY <1>7, <1>10, NoElements
  <2>3. Inj(f.steers) /\ Apart(f.follow_ups) /\ Inj(r.batch)
    BY <1>7, <1>10, <1>14, NoElements
  <2> QED BY <1>4, <1>11, <1>14, <1>23, <2>1, <2>2, <2>3, MovedMail
<1>25. BoundOK(k)'
  <2>1. f.authorizing = Len(r.batch) /\ e.authorizing = 0
    BY <1>4, <1>5, <1>7, <1>10, NoElements
  <2>2. Depth(f) <= Capacity
    <3> DEFINE a == Len(e.steers)
               b == Len(e.follow_ups)
    <3>1. a \in Nat /\ b \in Nat
      BY <1>4, SessionFields
    <3>2. Depth(e) = a + b + 0 /\ Depth(f) = 0 + b + 0
      BY <1>7, <1>10, <2>1, NoElements DEF Depth
    <3> HIDE DEF a, b
    <3> QED BY <1>4, <3>1, <3>2, BoundsAssumption
  <2> QED BY <1>4, <1>7, <1>11, <2>1, <2>2, MovedBound
<1>26. SendOK(k)'
  <2>1. \A i \in DOMAIN f.follow_ups : ItemOK(f, f.follow_ups[i])
    BY <1>1, <1>4, <1>7, <1>8 DEF SendOK, ItemOK
  <2>2. \A x : x \in ToSet(e.steers) \/ x \in ToSet(e.turn) => Hears(e, x)
    BY <1>1, <1>4 DEF SendOK
  <2>3. \A x : x \in ToSet(f.steers) \/ x \in ToSet(f.turn) => Hears(f, x)
    BY <1>7, <1>8, <2>2, NoElements DEF Hears
  <2>4. \A x \in ToSet(e.steers) : Sender[x] = Sender[e.run]
    BY <1>4, <2>2 DEF Hears, HasWorker
  <2>5. \A x \in ToSet(r.batch) : Sender[x] = Sender[f.run] \/ f.run \notin PosterOnly
    BY <1>10, NoElements
  <2>6. \A x \in Of(k) : fate'[x] = "taken" /\ Sender[x] # Sender[ran'[x]] =>
          x \in vouched' /\ ran'[x] \notin PosterOnly
    BY <1>4, <1>15, <1>17, <1>18, <2>4, OfKey DEF SendOK
  <2> QED BY <1>4, <1>11, <2>1, <2>3, <2>5, <2>6, MovedSend
<1>27. \A x \in Of(k) : \A n : Through(x, n) => Through(x, n)'
  <2> SUFFICES ASSUME NEW x \in Of(k), NEW n, Through(x, n) PROVE Through(x, n)'
    OBVIOUS
  <2>1. x \in Msgs /\ x \notin ToSet(e.steers)
    BY <1>14, ThroughClosed, OfKey
  <2> QED BY <1>17, <1>18, <2>1 DEF Through
<1>28. \A x \in ToSet(e.steers) : Through(x, e.run)'
  <2> SUFFICES ASSUME NEW x \in ToSet(e.steers) PROVE Through(x, e.run)'
    OBVIOUS
  <2>1. x \in Msgs
    BY <1>14, OfKey
  <2> QED BY <1>17, <1>18, <2>1 DEF Through
<1>29. LateOK(k)'
  <2>1. \A x : InSteers(k, x) <=> x \in ToSet(e.steers)
    BY <1>3 DEF At
  <2>2. \A x : ~InBatch(k, x)
    BY <1>3, <1>5, NoElements DEF At
  <2>3. ASSUME cancellation'[f.run].state = "running", NEW x \in ToSet(f.turn)
        PROVE  x \in Of(k) /\ Through(x, f.run)'
    <3>1. State(e) = "running" /\ x \in ToSet(e.turn)
      BY <1>7, <1>8, <1>12, <2>3 DEF State
    <3>2. x \in Of(k) /\ (x \in ToSet(e.steers) \/ Through(x, e.run))
      BY <1>1, <1>4, <2>1, <2>2, <3>1 DEF LateOK
    <3> QED BY <1>8, <1>27, <1>28, <3>2
  <2>4. ASSUME NEW l \in Of(k), Kind[l] = "late", fate'[l] = "taken"
        PROVE  Through(Base[l], ran[l])'
    <3>1. Base[l] \in Of(k) /\ l \in Msgs
      BY <2>4, BaseOf, OfKey
    <3>2. CASE l \in ToSet(e.steers)
      <4>1. Through(Base[l], e.run)
        <5>1. task[t].phase # "ended"
          BY DEF TakeSteers, Prompting
        <5> QED BY <1>1, <1>2, <1>4, <2>2, <2>4, <3>2, <5>1 DEF LateOK
      <4>2. Through(Base[l], e.run)' /\ ran'[l] = e.run
        BY <1>18, <1>27, <3>1, <3>2, <4>1
      <4> QED BY <4>2 DEF Through
    <3>3. CASE l \notin ToSet(e.steers)
      <4>1. Through(Base[l], ran[l]) /\ ran'[l] = ran[l]
        BY <1>4, <1>17, <1>18, <2>4, <3>1, <3>3 DEF LateOK
      <4>2. PICK n : n = ran[l]
        OBVIOUS
      <4>3. Through(Base[l], n)'
        BY <1>27, <3>1, <4>1, <4>2
      <4> QED BY <4>1, <4>2, <4>3 DEF Through
    <3> QED BY <3>2, <3>3
  <2>5. \A x : x \notin ToSet(f.steers) /\ x \notin ToSet(r.batch)
    BY <1>7, <1>10, NoElements
  <2> QED BY <1>4, <1>11, <2>3, <2>4, <2>5, MovedLate
<1>30. InterruptOK(k)' /\ OrderOK(k)'
  <2>1. entries'[k] = f
    BY <1>4, <1>11, MovedFrame
  <2> QED BY <1>7, <2>1, EmptyOrder
<1> QED BY <1>15, <1>21, <1>22, <1>24, <1>25, <1>26, <1>29, <1>30 DEF Keeps, Good, Parts, Later

LEMMA WorkerDrainKeeps ==
  ASSUME NEW t \in Msgs, NEW mode \in {"take", "seal"}, NEW k \in Keys, k = KeyOf[t], Good(k), Typed',
         WorkerDrain(t, mode)
  PROVE  Keeps(k)
<1>1. PICK e : e = entries[k]
  OBVIOUS
<1>2. t \in Of(k) /\ Live(t)
  BY OfKey, PromptingIs DEF WorkerDrain
<1>3. At(k, t, e)
  BY <1>1, <1>2, TaskHolds
<1>4. /\ Types /\ LifeOK(k) /\ SendOK(k) /\ LateOK(k) /\ e \in Sessions /\ e.run \in Msgs /\ e.run \in Of(k)
      /\ task[t] \in TaskRecords /\ e.authorizing = Len(task[t].batch) /\ Typed /\ e.run = task[t].run
      /\ fate[e.run] = "taken" /\ Depth(e) <= Capacity /\ e.aborts <= MaxInterrupts
      /\ e.mapping = "mapped" /\ e.run \notin PosterOnly /\ Held(k) /\ task[t].batch = <<>>
  BY <1>1, <1>3 DEF At, Types, Typed, WorkerDrain, HasWorker
<1>5. e.steers \in Seq(Msgs) /\ Len(e.steers) \in Nat /\ Len(e.follow_ups) \in Nat
  BY <1>4, SessionFields
<1>6. PICK f : f = DrainedOf(e, Len(e.steers))
  OBVIOUS
<1>7. /\ Alike(f, e) /\ f.aborts = e.aborts /\ f.authorizing = e.authorizing + Len(e.steers)
      /\ f.steers = <<>> /\ f.follow_ups = e.follow_ups /\ f.turn = e.turn
  BY <1>4, <1>5, <1>6, DrainedOfIs
<1>8. f \in Sessions /\ f.run = e.run /\ f.mapping = e.mapping
  BY <1>7 DEF Alike
<1>9. PICK md \in {"none", "take", "seal"} : md = IF e.steers = <<>> THEN "none" ELSE mode
  OBVIOUS
<1>10. PICK r : r = Batch(task[t], md, e.steers)
  OBVIOUS
<1>11. r \in TaskRecords /\ r.phase = "prompting" /\ r.run = task[t].run /\ r.batch = e.steers
  BY <1>4, <1>5, <1>10, BatchIs
<1>12. Moved(k, t, r, f)
  <2>1. entries' = [entries EXCEPT ![k] = f]
    BY <1>1, <1>6 DEF WorkerDrain
  <2>2. task' = [task EXCEPT ![t] = r]
    BY <1>1, <1>9, <1>10 DEF WorkerDrain
  <2> QED BY <1>1, <1>2, <1>8, <1>11, <2>1, <2>2 DEF Moved, Turns
<1>13. /\ \A x \in Msgs : x # e.run => cancellation'[x] = cancellation[x]
       /\ cancellation'[e.run].state = cancellation[e.run].state
  <2>1. cancellation' = [cancellation EXCEPT ![e.run] = Rearm(@)]
    BY <1>1 DEF WorkerDrain
  <2> QED BY <1>4, <2>1, RearmIs
<1>14. OwnCancellation(k)
  BY <1>4, <1>13 DEF OwnCancellation
<1>15. /\ Inj(e.steers) /\ Apart(e.follow_ups)
       /\ \A x \in Of(k) : Open(x) <=> x \in ToSet(e.steers) \/ Follows(e, x)
       /\ \A x : /\ x \in ToSet(e.steers) => x \in Of(k) /\ ~Follows(e, x)
                 /\ Follows(e, x) => x \in Of(k)
  BY <1>2, <1>3, <1>4, MailOf, NoElements
<1>16. UNCHANGED <<permits, fate, ran, arrived, vouched>>
  BY DEF WorkerDrain
<1>17. /\ fate' \in [Msgs -> Fates] /\ ran' \in [Msgs -> Msgs \union {None}]
       /\ vouched \subseteq vouched' /\ vouched' \subseteq Msgs
  BY <1>4, <1>16 DEF Types
<1>18. Types' /\ ArriveInv' /\ PermitInv' /\ Local(k)
  BY <1>12, <1>14, <1>16, <1>17, MovedStep
<1>19. LifeOK(k)'
  BY <1>4, <1>8, <1>11, <1>12, <1>16, MovedLife DEF FatesGrow
<1>20. \A x : Follows(f, x) <=> Follows(e, x)
  BY <1>7 DEF Follows
<1>21. \A x : x \notin ToSet(f.steers)
  BY <1>7, NoElements
<1>22. MailOK(k)'
  <2>1. \A x \in Of(k) : Open(x)' <=> Open(x)
    BY <1>16 DEF Open
  <2>2. Inj(f.steers) /\ Apart(f.follow_ups) /\ Inj(r.batch)
    BY <1>7, <1>11, <1>15, NoElements
  <2> QED BY <1>4, <1>11, <1>12, <1>15, <1>20, <1>21, <2>1, <2>2, MovedMail
<1>23. BoundOK(k)'
  <2>1. e.authorizing = 0
    BY <1>4, NoElements
  <2>2. f.authorizing = Len(r.batch)
    BY <1>5, <1>7, <1>11, <2>1
  <2>3. Depth(f) <= Capacity
    <3> DEFINE a == Len(e.steers)
               b == Len(e.follow_ups)
    <3>1. a \in Nat /\ b \in Nat
      BY <1>5
    <3>2. Depth(e) = a + b + 0 /\ Depth(f) = 0 + b + (0 + a)
      BY <1>7, <2>1, NoElements DEF Depth
    <3> HIDE DEF a, b
    <3> QED BY <1>4, <3>1, <3>2, BoundsAssumption
  <2> QED BY <1>4, <1>7, <1>12, <2>2, <2>3, MovedBound
<1>24. SendOK(k)'
  <2>1. \A i \in DOMAIN f.follow_ups : ItemOK(f, f.follow_ups[i])
    BY <1>1, <1>4, <1>7, <1>8 DEF SendOK, ItemOK
  <2>2. \A x : x \in ToSet(e.steers) \/ x \in ToSet(e.turn) => Hears(e, x)
    BY <1>1, <1>4 DEF SendOK
  <2>3. \A x : x \in ToSet(f.steers) \/ x \in ToSet(f.turn) => Hears(f, x)
    BY <1>7, <1>8, <1>21, <2>2 DEF Hears
  <2>4. \A x \in ToSet(r.batch) : Sender[x] = Sender[f.run] \/ f.run \notin PosterOnly
    BY <1>8, <1>11, <2>2 DEF Hears
  <2>5. \A x \in Of(k) : fate'[x] = "taken" /\ Sender[x] # Sender[ran'[x]] =>
          x \in vouched' /\ ran'[x] \notin PosterOnly
    BY <1>4, <1>16 DEF SendOK
  <2> QED BY <1>4, <1>12, <2>1, <2>3, <2>4, <2>5, MovedSend
<1>25. \A x, n : Through(x, n) => Through(x, n)'
  BY <1>16 DEF Through
<1>26. LateOK(k)'
  <2>1. \A x : InSteers(k, x) <=> x \in ToSet(e.steers)
    BY <1>3 DEF At
  <2>2. \A x : ~InBatch(k, x)
    BY <1>3, <1>4, NoElements DEF At
  <2>3. ASSUME cancellation'[f.run].state = "running", NEW x \in ToSet(f.turn)
        PROVE  x \in Of(k) /\ (x \in ToSet(r.batch) \/ Through(x, f.run)')
    <3>1. State(e) = "running" /\ x \in ToSet(e.turn)
      BY <1>7, <1>8, <1>13, <2>3 DEF State
    <3>2. x \in Of(k) /\ (x \in ToSet(e.steers) \/ Through(x, e.run))
      BY <1>1, <1>4, <2>1, <2>2, <3>1 DEF LateOK
    <3> QED BY <1>8, <1>11, <1>25, <3>2
  <2>4. ASSUME NEW l \in ToSet(r.batch), Kind[l] = "late"
        PROVE  Through(Base[l], f.run)'
    <3>1. task[t].phase # "ended"
      BY DEF WorkerDrain, Prompting
    <3>2. Through(Base[l], e.run)
      BY <1>1, <1>2, <1>4, <1>11, <2>2, <2>4, <3>1 DEF LateOK
    <3> QED BY <1>8, <1>25, <3>2
  <2>5. ASSUME NEW l \in Of(k), Kind[l] = "late", fate'[l] = "taken"
        PROVE  Through(Base[l], ran[l])'
    <3>1. Through(Base[l], ran[l])
      BY <1>4, <1>16, <2>5 DEF LateOK
    <3> QED BY <1>16, <3>1 DEF Through
  <2> QED BY <1>4, <1>12, <1>21, <2>3, <2>4, <2>5, MovedLate
<1>27. InterruptOK(k)' /\ OrderOK(k)'
  <2>1. entries'[k] = f
    BY <1>4, <1>12, MovedFrame
  <2> QED BY <1>7, <2>1, EmptyOrder
<1> QED BY <1>16, <1>18, <1>19, <1>22, <1>23, <1>24, <1>26, <1>27 DEF Keeps, Good, Parts, Later

LEMMA WorkerReplyKeeps ==
  ASSUME NEW t \in Msgs, NEW k \in Keys, k = KeyOf[t], Good(k), Typed',
         NEW granted, WorkerReply(t, granted)
  PROVE  Keeps(k)
<1>1. PICK e : e = entries[k]
  OBVIOUS
<1>2. PICK batch : batch = task[t].batch
  OBVIOUS
<1>3. t \in Of(k) /\ Live(t) /\ Types /\ LifeOK(k)
  <2>1. t \in Of(k) /\ Types /\ LifeOK(k)
    BY OfKey DEF Good, Parts
  <2>2. task[t].phase = "prompting"
    BY <2>1 DEF LifeOK, WorkerReply
  <2> QED BY <2>1, <2>2 DEF Live, Turns
<1>4. At(k, t, e)
  BY <1>1, <1>3, TaskHolds
<1>5. /\ SendOK(k) /\ LateOK(k) /\ InterruptOK(k) /\ e \in Sessions /\ e.run \in Msgs /\ e.run \in Of(k)
      /\ task[t] \in TaskRecords /\ e.authorizing = Len(batch) /\ Typed /\ e.run = task[t].run
      /\ Depth(e) <= Capacity /\ e.aborts <= MaxInterrupts /\ OrderOK(k)
      /\ Held(k) /\ batch \in Seq(Msgs) /\ batch # <<>> /\ granted \subseteq ToSet(batch)
  BY <1>1, <1>2, <1>4 DEF At, Types, Typed, WorkerReply
<1>6. task[t].phase = "prompting" /\ e.mapping = "mapped" /\ e.run \notin PosterOnly
  BY <1>1, <1>2, <1>3, <1>5 DEF LifeOK
<1>7. Len(batch) \in Nat /\ Len(e.steers) \in Nat /\ Len(e.follow_ups) \in Nat
  BY <1>5, SessionFields
<1>8. PICK f : f = Authorized(e, Len(batch))
  OBVIOUS
<1>9. /\ Alike(f, e) /\ f.aborts = e.aborts /\ f.authorizing = e.authorizing - Len(batch)
      /\ f.steers = e.steers /\ f.follow_ups = e.follow_ups /\ f.turn = e.turn
  BY <1>5, <1>7, <1>8, AuthorizedIs
<1>10. f \in Sessions /\ f.run = e.run /\ f.mapping = e.mapping
  BY <1>9 DEF Alike
<1>11. PICK md \in {"none", "take", "seal"} :
         md = IF task[t].mode = "seal" /\ granted = {} THEN "seal" ELSE "none"
  OBVIOUS
<1>12. PICK r : r = Batch(task[t], md, <<>>)
  OBVIOUS
<1>13. r \in TaskRecords /\ r.phase = "prompting" /\ r.run = task[t].run /\ r.batch = <<>>
  <2>1. PICK b : b = <<>>
    OBVIOUS
  <2>2. b \in Seq(Msgs)
    BY <2>1
  <2>3. PICK q : q = task[t]
    OBVIOUS
  <2>4. r = Batch(q, md, b) /\ q \in TaskRecords
    BY <1>5, <1>12, <2>1, <2>3
  <2>5. r \in TaskRecords /\ r.phase = "prompting" /\ r.run = q.run /\ r.batch = b
    BY <2>2, <2>4, BatchIs
  <2> QED BY <2>1, <2>3, <2>5
<1>14. Moved(k, t, r, f)
  <2>1. entries' = [entries EXCEPT ![k] = f]
    BY <1>1, <1>2, <1>8 DEF WorkerReply
  <2>2. task' = [task EXCEPT ![t] = r]
    BY <1>1, <1>2, <1>11, <1>12 DEF WorkerReply
  <2> QED BY <1>1, <1>3, <1>10, <1>13, <2>1, <2>2 DEF Moved, Turns
<1>15. OwnCancellation(k) /\ cancellation' = cancellation
  BY DEF OwnCancellation, WorkerReply
<1>16. /\ Inj(e.steers) /\ Apart(e.follow_ups)
       /\ \A x \in Of(k) : Open(x) <=> x \in ToSet(e.steers) \/ Follows(e, x) \/ x \in ToSet(batch)
       /\ \A x : /\ x \in ToSet(e.steers) => x \in Of(k) /\ ~Follows(e, x) /\ x \notin ToSet(batch)
                 /\ Follows(e, x) => x \in Of(k) /\ x \notin ToSet(batch)
                 /\ x \in ToSet(batch) => x \in Of(k)
  BY <1>2, <1>3, <1>4, MailOf
<1>17. /\ permits' = permits /\ arrived' = arrived /\ vouched' = vouched \union granted
       /\ fate' = [m \in Msgs |-> CASE m \in granted -> "taken"
                                    [] m \in ToSet(batch) \ granted -> "unauthorized"
                                    [] OTHER -> fate[m]]
       /\ ran' = Enter(granted, e.run)
  BY <1>1, <1>2 DEF WorkerReply
<1>18. \A x \in Msgs : fate'[x] = IF x \in granted THEN "taken"
                                  ELSE IF x \in ToSet(batch) THEN "unauthorized" ELSE fate[x]
  BY <1>17
<1>19. fate' \in [Msgs -> Fates]
  <2>1. "taken" \in Fates /\ "unauthorized" \in Fates /\ fate \in [Msgs -> Fates]
    BY <1>3 DEF Fates, Types
  <2>2. \A x \in Msgs : fate'[x] \in Fates
    BY <1>18, <2>1
  <2> QED BY <1>17, <2>2
<1>20. /\ \A x \in Msgs : ran'[x] = IF x \in granted THEN e.run ELSE ran[x]
       /\ ran' \in [Msgs -> Msgs \union {None}]
  BY <1>3, <1>5, <1>17 DEF Enter, Types
<1>21. \A x \in ToSet(batch) : x \in Of(k) /\ Open(x) /\ x \in Msgs
  BY <1>16, OfKey
<1>22. /\ \A x \in Msgs : x \notin Of(k) => fate'[x] = fate[x] /\ ran'[x] = ran[x]
       /\ \A x \in Msgs : fate'[x] = "unsent" <=> fate[x] = "unsent"
       /\ FatesGrow(k)
  <2>1. \A x \in ToSet(batch) : fate[x] # "unsent" /\ fate[x] # "taken"
    BY <1>21 DEF Open
  <2>2. \A x \in granted : x \in ToSet(batch)
    BY <1>5
  <2> QED BY <1>18, <1>20, <1>21, <2>1, <2>2, OfKey DEF FatesGrow
<1>23. vouched \subseteq vouched' /\ vouched' \subseteq Msgs
  BY <1>3, <1>5, <1>17, <1>21 DEF Types
<1>24. Types' /\ ArriveInv' /\ PermitInv' /\ Local(k)
  BY <1>14, <1>15, <1>17, <1>19, <1>20, <1>22, <1>23, MovedStep
<1>25. LifeOK(k)'
  BY <1>3, <1>6, <1>10, <1>13, <1>14, <1>22, MovedLife
<1>26. \A x : Follows(f, x) <=> Follows(e, x)
  BY <1>9 DEF Follows
<1>27. \A x : x \notin ToSet(r.batch)
  BY <1>13, NoElements
<1>28. MailOK(k)'
  <2>1. \A x \in Of(k) : Open(x)' <=> Open(x) /\ x \notin ToSet(batch)
    BY <1>5, <1>18, OfKey DEF Open
  <2>2. Inj(f.steers) /\ Apart(f.follow_ups) /\ Inj(r.batch)
    BY <1>9, <1>13, <1>16, NoElements
  <2> QED BY <1>3, <1>9, <1>14, <1>16, <1>26, <1>27, <2>1, <2>2, MovedMail
<1>29. BoundOK(k)'
  <2>1. f.authorizing = 0
    BY <1>5, <1>7, <1>9
  <2>2. f.authorizing = Len(r.batch)
    BY <1>13, <2>1, NoElements
  <2>3. Depth(f) <= Capacity
    <3> DEFINE a == Len(e.steers)
               b == Len(e.follow_ups)
               c == Len(batch)
    <3>1. a \in Nat /\ b \in Nat /\ c \in Nat
      BY <1>7
    <3>2. Depth(e) = a + b + c /\ Depth(f) = a + b + 0
      BY <1>5, <1>9, <2>1 DEF Depth
    <3> HIDE DEF a, b, c
    <3> QED BY <1>5, <3>1, <3>2, BoundsAssumption
  <2> QED BY <1>3, <1>5, <1>9, <1>14, <2>2, <2>3, MovedBound
<1>30. SendOK(k)'
  <2>1. \A i \in DOMAIN f.follow_ups : ItemOK(f, f.follow_ups[i])
    BY <1>1, <1>5, <1>9, <1>10 DEF SendOK, ItemOK
  <2>2. \A x : x \in ToSet(f.steers) \/ x \in ToSet(f.turn) => Hears(f, x)
    BY <1>1, <1>5, <1>9, <1>10 DEF SendOK, Hears
  <2>3. \A x \in granted : Sender[x] = Sender[e.run] \/ e.run \notin PosterOnly
    BY <1>2, <1>3, <1>5 DEF SendOK
  <2>4. \A x \in Of(k) : fate'[x] = "taken" /\ Sender[x] # Sender[ran'[x]] =>
          x \in vouched' /\ ran'[x] \notin PosterOnly
    <3> SUFFICES ASSUME NEW x \in Of(k), fate'[x] = "taken", Sender[x] # Sender[ran'[x]]
                 PROVE  x \in vouched' /\ ran'[x] \notin PosterOnly
      OBVIOUS
    <3>1. CASE x \in granted
      BY <1>17, <1>20, <2>3, <3>1, OfKey
    <3>2. CASE x \notin granted
      <4>1. fate[x] = "taken" /\ ran'[x] = ran[x]
        BY <1>18, <1>20, <3>2, OfKey
      <4> QED BY <1>5, <1>17, <4>1 DEF SendOK
    <3> QED BY <3>1, <3>2
  <2> QED BY <1>3, <1>14, <1>27, <2>1, <2>2, <2>4, MovedSend
<1>31. \A x \in Of(k) : \A n : Through(x, n) => Through(x, n)'
  <2> SUFFICES ASSUME NEW x \in Of(k), NEW n, Through(x, n) PROVE Through(x, n)'
    OBVIOUS
  <2>1. x \in Msgs /\ x \notin ToSet(batch) /\ x \notin granted
    BY <1>5, <1>21, ThroughClosed, OfKey
  <2> QED BY <1>18, <1>20, <2>1 DEF Through
<1>32. \A x \in ToSet(batch) : Through(x, e.run)'
  BY <1>18, <1>20, <1>21 DEF Through
<1>33. LateOK(k)'
  <2>1. /\ \A x : InSteers(k, x) <=> x \in ToSet(e.steers)
        /\ \A x : InBatch(k, x) <=> x \in ToSet(batch)
    BY <1>2, <1>4 DEF At
  <2>2. ASSUME cancellation'[f.run].state = "running", NEW x \in ToSet(f.turn)
        PROVE  x \in Of(k) /\ (x \in ToSet(f.steers) \/ Through(x, f.run)')
    <3>1. State(e) = "running" /\ x \in ToSet(e.turn)
      BY <1>9, <1>10, <1>15, <2>2 DEF State
    <3>2. x \in Of(k) /\ (x \in ToSet(e.steers) \/ x \in ToSet(batch) \/ Through(x, e.run))
      BY <1>1, <1>5, <2>1, <3>1 DEF LateOK
    <3> QED BY <1>9, <1>10, <1>31, <1>32, <3>2
  <2>3. ASSUME NEW l \in ToSet(f.steers), Kind[l] = "late"
        PROVE  Through(Base[l], f.run)'
    <3>1. task[t].phase # "ended"
      BY <1>6
    <3>2. Base[l] \in ToSet(batch) \/ Through(Base[l], e.run)
      BY <1>1, <1>3, <1>5, <1>9, <2>1, <2>3, <3>1 DEF LateOK
    <3>3. l \in Of(k)
      BY <1>9, <1>16, <2>3
    <3>4. Base[l] \in Of(k)
      BY <2>3, <3>3, BaseOf
    <3> QED BY <1>10, <1>31, <1>32, <3>2, <3>4
  <2>4. ASSUME NEW l \in Of(k), Kind[l] = "late", fate'[l] = "taken"
        PROVE  Through(Base[l], ran[l])'
    <3>1. Base[l] \in Of(k) /\ l \in Msgs
      BY <2>4, BaseOf, OfKey
    <3>2. CASE l \in granted
      <4>1. Through(Base[l], e.run)
        BY <1>2, <1>3, <1>5, <2>4, <3>2 DEF LateOK
      <4>2. Through(Base[l], e.run)' /\ ran'[l] = e.run
        BY <1>20, <1>31, <3>1, <3>2, <4>1
      <4> QED BY <4>2 DEF Through
    <3>3. CASE l \notin granted
      <4>1. Through(Base[l], ran[l]) /\ ran'[l] = ran[l]
        BY <1>5, <1>18, <1>20, <2>4, <3>1, <3>3 DEF LateOK
      <4>2. PICK n : n = ran[l]
        OBVIOUS
      <4>3. Through(Base[l], n)'
        BY <1>31, <3>1, <4>1, <4>2
      <4> QED BY <4>1, <4>2, <4>3 DEF Through
    <3> QED BY <3>2, <3>3
  <2> QED BY <1>3, <1>14, <1>27, <2>2, <2>3, <2>4, MovedLate
<1>34. entries'[k] = f
  BY <1>3, <1>14, MovedFrame
<1>35. InterruptOK(k)'
  BY <1>1, <1>5, <1>9, <1>10, <1>15, <1>34, InterruptSame
<1>36. OrderOK(k)'
  BY <1>1, <1>5, <1>9, <1>17, <1>34 DEF OrderOK, Sorted
<1> QED BY <1>17, <1>24, <1>25, <1>28, <1>29, <1>30, <1>33, <1>35, <1>36 DEF Keeps, Good, Parts, Later

\* A turn ends, sealed or stopped, and keeps its mailbox.
LEMMA EndKeeps ==
  ASSUME NEW t \in Msgs, NEW k \in Keys, t \in Of(k), Good(k), Typed', NEW e, At(k, t, e), Live(t),
         e.mapping # "pending", NEW f, Alike(f, e), f.aborts = e.aborts, f.authorizing = 0,
         f.steers = e.steers, f.follow_ups = e.follow_ups, f.turn = e.turn,
         entries' = [entries EXCEPT ![k] = f], task' = [task EXCEPT ![t] = Ends(@)],
         OwnCancellation(k), cancellation'[e.run].state # "running",
         UNCHANGED <<permits, ran, arrived, vouched>>, fate' \in [Msgs -> Fates],
         NEW w \in Fates \ {"unsent", "taken", "steered", "queued"},
         \A x \in Msgs : fate'[x] = IF x \in ToSet(task[t].batch) THEN w ELSE fate[x]
  PROVE  Keeps(k)
<1>1. PICK batch : batch = task[t].batch
  OBVIOUS
<1>2. /\ Types /\ LifeOK(k) /\ SendOK(k) /\ LateOK(k) /\ e \in Sessions /\ e.run \in Msgs /\ e.run \in Of(k)
      /\ task[t] \in TaskRecords /\ e.authorizing = Len(batch) /\ Typed /\ e.run = task[t].run
      /\ Depth(e) <= Capacity /\ e.aborts <= MaxInterrupts /\ OrderOK(k)
      /\ Held(k) /\ batch \in Seq(Msgs) /\ entries[k] = e
  BY <1>1 DEF At, Types, Typed
<1>3. f \in Sessions /\ f.run = e.run /\ f.mapping = e.mapping
  BY DEF Alike
<1>4. PICK r : r = Ends(task[t])
  OBVIOUS
<1>5. r \in TaskRecords /\ r.phase = "ended" /\ r.run = task[t].run /\ r.batch = <<>>
  BY <1>2, <1>4, TaskChanges
<1>6. Moved(k, t, r, f)
  BY <1>2, <1>3, <1>4, <1>5 DEF Moved, Turns
<1>7. /\ Inj(e.steers) /\ Apart(e.follow_ups)
      /\ \A x \in Of(k) : Open(x) <=> x \in ToSet(e.steers) \/ Follows(e, x) \/ x \in ToSet(batch)
      /\ \A x : /\ x \in ToSet(e.steers) => x \in Of(k) /\ ~Follows(e, x) /\ x \notin ToSet(batch)
                /\ Follows(e, x) => x \in Of(k) /\ x \notin ToSet(batch)
                /\ x \in ToSet(batch) => x \in Of(k)
  BY <1>1, MailOf
<1>8. \A x \in Msgs : fate'[x] = IF x \in ToSet(batch) THEN w ELSE fate[x]
  BY <1>1
<1>9. \A x \in ToSet(batch) : x \in Of(k) /\ Open(x) /\ x \in Msgs
  BY <1>7, OfKey
<1>10. /\ \A x \in Msgs : x \notin Of(k) => fate'[x] = fate[x] /\ ran'[x] = ran[x]
       /\ \A x \in Msgs : fate'[x] = "unsent" <=> fate[x] = "unsent"
       /\ FatesGrow(k)
  <2>1. \A x \in ToSet(batch) : fate[x] # "unsent" /\ fate[x] # "taken"
    BY <1>9 DEF Open
  <2> QED BY <1>8, <1>9, <2>1, OfKey DEF FatesGrow
<1>11. Types' /\ ArriveInv' /\ PermitInv' /\ Local(k)
  <2>1. ran' \in [Msgs -> Msgs \union {None}] /\ vouched \subseteq vouched' /\ vouched' \subseteq Msgs
    BY <1>2 DEF Types
  <2> QED BY <1>6, <1>10, <2>1, MovedStep
<1>12. LifeOK(k)'
  BY <1>2, <1>3, <1>5, <1>6, <1>10, MovedLife
<1>13. \A x : Follows(f, x) <=> Follows(e, x)
  BY DEF Follows
<1>14. \A x : x \notin ToSet(r.batch)
  BY <1>5, NoElements
<1>15. MailOK(k)'
  <2>1. \A x \in Of(k) : Open(x)' <=> Open(x) /\ x \notin ToSet(batch)
    BY <1>8, OfKey DEF Open
  <2>2. Inj(f.steers) /\ Apart(f.follow_ups) /\ Inj(r.batch)
    BY <1>5, <1>7, NoElements
  <2> QED BY <1>2, <1>6, <1>7, <1>13, <1>14, <2>1, <2>2, MovedMail
<1>16. BoundOK(k)'
  <2>1. f.authorizing = Len(r.batch)
    BY <1>5, NoElements
  <2>2. Depth(f) <= Capacity
    <3> DEFINE a == Len(e.steers)
               b == Len(e.follow_ups)
               c == Len(batch)
    <3>1. a \in Nat /\ b \in Nat /\ c \in Nat
      BY <1>2, SessionFields
    <3>2. Depth(e) = a + b + c /\ Depth(f) = a + b + 0
      BY <1>2 DEF Depth
    <3> HIDE DEF a, b, c
    <3> QED BY <1>2, <3>1, <3>2, BoundsAssumption
  <2> QED BY <1>2, <1>6, <2>1, <2>2, MovedBound
<1>17. SendOK(k)'
  <2>1. \A i \in DOMAIN f.follow_ups : ItemOK(f, f.follow_ups[i])
    BY <1>2, <1>3 DEF SendOK, ItemOK
  <2>2. \A x : x \in ToSet(f.steers) \/ x \in ToSet(f.turn) => Hears(f, x)
    BY <1>2, <1>3 DEF SendOK, Hears
  <2>3. \A x \in Of(k) : fate'[x] = "taken" /\ Sender[x] # Sender[ran'[x]] =>
          x \in vouched' /\ ran'[x] \notin PosterOnly
    BY <1>2, <1>8, OfKey DEF SendOK
  <2> QED BY <1>2, <1>6, <1>14, <2>1, <2>2, <2>3, MovedSend
<1>18. LateOK(k)'
  <2>1. ASSUME NEW l \in Of(k), Kind[l] = "late", fate'[l] = "taken"
        PROVE  Through(Base[l], ran[l])'
    <3>1. Base[l] \in Of(k) /\ l \in Msgs /\ Base[l] \in Msgs
      BY <2>1, BaseOf, OfKey
    <3>2. Through(Base[l], ran[l])
      BY <1>2, <1>8, <2>1, <3>1 DEF LateOK
    <3>3. fate'[Base[l]] = fate[Base[l]]
      BY <1>8, <1>9, <3>1, <3>2, ThroughClosed
    <3> QED BY <3>2, <3>3 DEF Through
  <2> QED BY <1>2, <1>3, <1>5, <1>6, <1>14, <2>1, MovedLate
<1>19. entries'[k] = f
  BY <1>2, <1>6, MovedFrame
<1>20. InterruptOK(k)'
  BY <1>3, <1>19 DEF InterruptOK, State
<1>21. OrderOK(k)'
  <2>1. PICK u : u = e.steers
    OBVIOUS
  <2>2. Sorted(u)
    BY <1>2, <2>1 DEF OrderOK
  <2>3. Sorted(u)'
    BY <2>2, SortedSame
  <2> QED BY <1>19, <2>1, <2>3 DEF OrderOK, Sorted
<1> QED BY <1>11, <1>12, <1>15, <1>16, <1>17, <1>18, <1>20, <1>21 DEF Keeps, Good, Parts, Later

LEMMA SealKeeps ==
  ASSUME NEW t \in Msgs, NEW k \in Keys, k = KeyOf[t], Good(k), Typed', Seal(t)
  PROVE  Keeps(k)
<1>1. PICK e : e = entries[k]
  OBVIOUS
<1>2. t \in Of(k) /\ Live(t)
  BY OfKey, PromptingIs DEF Seal
<1>3. At(k, t, e)
  BY <1>1, <1>2, TaskHolds
<1>4. /\ Types /\ LifeOK(k) /\ e \in Sessions /\ e.run \in Of(k) /\ e.run \in Msgs
      /\ e.authorizing = Len(task[t].batch) /\ Held(k) /\ Typed
  BY <1>3 DEF At, Types, Typed
<1>5. e.mapping # "pending" /\ task[t].batch = <<>>
  <2>1. task[t].phase \in Turns \ {"opening"} /\ task[t].batch = <<>>
    BY DEF Seal, Prompting, Turns
  <2> QED BY <1>1, <1>2, <1>4, <2>1 DEF LifeOK
<1>6. Alike(e, e) /\ e.authorizing = 0 /\ \A x : x \notin ToSet(task[t].batch)
  BY <1>4, <1>5, NoElements, SessionFields DEF Alike
<1>7. entries' = [entries EXCEPT ![k] = e] /\ task' = [task EXCEPT ![t] = Ends(@)]
  BY <1>1, <1>4 DEF Seal, Types
<1>8. /\ \A x \in Msgs : x # e.run => cancellation'[x] = cancellation[x]
      /\ cancellation'[e.run].state = "completing"
  <2>1. cancellation' = [cancellation EXCEPT ![e.run].state = "completing"]
    BY <1>1 DEF Seal, EntryOf
  <2> QED BY <1>4, <2>1 DEF Typed, Cancellations
<1>9. OwnCancellation(k) /\ cancellation'[e.run].state # "running"
  BY <1>4, <1>8 DEF OwnCancellation
<1>10. "busy" \in Fates \ {"unsent", "taken", "steered", "queued"} /\ fate' = fate /\ fate' \in [Msgs -> Fates]
  BY <1>4 DEF Fates, Seal, Types
<1>11. UNCHANGED <<permits, ran, arrived, vouched>>
  BY DEF Seal
<1> QED BY <1>2, <1>3, <1>5, <1>6, <1>7, <1>9, <1>10, <1>11, EndKeeps

LEMMA StoppedKeeps ==
  ASSUME NEW t \in Msgs, NEW k \in Keys, k = KeyOf[t], Good(k), Typed', Stopped(t)
  PROVE  Keeps(k)
<1>1. PICK e : e = entries[k]
  OBVIOUS
<1>2. t \in Of(k) /\ Live(t)
  BY OfKey, PromptingIs DEF Stopped
<1>3. At(k, t, e)
  BY <1>1, <1>2, TaskHolds
<1>4. /\ Types /\ LifeOK(k) /\ e \in Sessions /\ e.run \in Of(k) /\ e.run \in Msgs
      /\ e.authorizing = Len(task[t].batch) /\ Held(k) /\ task[t].batch \in Seq(Msgs)
  BY <1>3 DEF At
<1>5. e.mapping # "pending"
  <2>1. task[t].phase \in Turns \ {"opening"}
    BY DEF Stopped, Prompting, Turns
  <2> QED BY <1>1, <1>2, <1>4, <2>1 DEF LifeOK
<1>6. PICK f : f = Authorized(e, Len(task[t].batch))
  OBVIOUS
<1>7. Len(task[t].batch) \in Nat
  BY <1>4
<1>8. /\ Alike(f, e) /\ f.aborts = e.aborts /\ f.authorizing = e.authorizing - Len(task[t].batch)
      /\ f.steers = e.steers /\ f.follow_ups = e.follow_ups /\ f.turn = e.turn
  BY <1>4, <1>6, <1>7, AuthorizedIs
<1>9. f.authorizing = 0
  BY <1>4, <1>7, <1>8
<1>10. entries' = [entries EXCEPT ![k] = f] /\ task' = [task EXCEPT ![t] = Ends(@)]
  BY <1>1, <1>6 DEF Stopped
<1>11. OwnCancellation(k) /\ cancellation'[e.run].state # "running"
  BY <1>1 DEF OwnCancellation, Stopped, State
<1>12. PICK w : w = IF task[t].mode = "seal" THEN "stranded" ELSE "dropped"
  OBVIOUS
<1>13. w \in Fates \ {"unsent", "taken", "steered", "queued"}
  BY <1>12 DEF Fates
<1>14. fate' = Settle(ToSet(task[t].batch), w)
  BY <1>12 DEF Stopped
<1>15. /\ fate' \in [Msgs -> Fates]
       /\ \A x \in Msgs : fate'[x] = IF x \in ToSet(task[t].batch) THEN w ELSE fate[x]
  BY <1>4, <1>13, <1>14 DEF Settle, Types
<1>16. UNCHANGED <<permits, ran, arrived, vouched>>
  BY DEF Stopped
<1> QED BY <1>2, <1>3, <1>5, <1>8, <1>9, <1>10, <1>11, <1>13, <1>15, <1>16, EndKeeps

\* f is e once its mapping is no longer pending: what awaited the mapping
\* steers the turn or waits behind it.
Answers(f, e) ==
  /\ f \in Sessions /\ f.run = e.run /\ f.mapping # "pending"
  /\ f.aborts = e.aborts /\ f.authorizing = e.authorizing
  /\ Inj(f.steers) /\ Apart(f.follow_ups) /\ Sorted(f.steers)
  /\ \A x : x \in ToSet(e.steers) => x \in ToSet(f.steers)
  /\ \A x : x \in ToSet(f.steers) \/ Follows(f, x) <=> x \in ToSet(e.steers) \/ Follows(e, x)
  /\ \A x : x \in ToSet(f.steers) => ~Follows(f, x)
  /\ \A x : x \in ToSet(f.steers) => x \in ToSet(e.steers) \/ (Native(x) /\ Sender[x] # Sender[e.run])
  /\ \A x : x \in ToSet(f.turn) => x \in ToSet(e.turn) \/ x \in ToSet(f.steers)
  /\ \A x : x \in ToSet(f.steers) \/ x \in ToSet(f.turn) => Hears(f, x)
  /\ \A i \in DOMAIN f.follow_ups : ItemOK(f, f.follow_ups[i])
  /\ Len(f.steers) + Len(f.follow_ups) <= Len(e.steers) + Len(e.follow_ups)

LEMMA StandsArrived ==
  ASSUME NEW k \in Keys, NEW t \in Of(k), NEW e, At(k, t, e),
         NEW x, x \in ToSet(e.steers) \/ Follows(e, x)
  PROVE  x \in ToSet(arrived)
<1>1. ArriveInv
  BY DEF At
<1>2. x \in Of(k) /\ Open(x)
  BY MailOf
<1> QED BY <1>1, <1>2, OfKey DEF ArriveInv, Open

LEMMA SettledSame ==
  ASSUME NEW k \in Keys, NEW t \in Of(k), NEW e, At(k, t, e), e.mapping # "pending"
  PROVE  Answers(e, e)
<1>1. SendOK(k) /\ OrderOK(k) /\ e \in Sessions /\ Held(k) /\ entries[k] = e
  BY DEF At
<1>2. /\ Inj(e.steers) /\ Apart(e.follow_ups)
      /\ \A x : x \in ToSet(e.steers) => ~Follows(e, x)
  BY MailOf
<1>3. Sorted(e.steers)
  BY <1>1 DEF OrderOK
<1>4. /\ \A x : x \in ToSet(e.steers) \/ x \in ToSet(e.turn) => Hears(e, x)
      /\ \A i \in DOMAIN e.follow_ups : ItemOK(e, e.follow_ups[i])
  BY <1>1 DEF SendOK
<1>5. Len(e.steers) + Len(e.follow_ups) <= Len(e.steers) + Len(e.follow_ups)
  <2>1. Len(e.steers) \in Nat /\ Len(e.follow_ups) \in Nat
    BY <1>1, SessionFields
  <2> QED BY <2>1
<1> QED BY <1>1, <1>2, <1>3, <1>4, <1>5 DEF Answers

LEMMA ResolveAnswers ==
  ASSUME NEW k \in Keys, NEW t \in Of(k), NEW e, At(k, t, e), e.mapping = "pending",
         NEW mapped \in BOOLEAN, NEW f, f = Resolve(e, mapped)
  PROVE  Answers(f, e)
<1>1. /\ SendOK(k) /\ OrderOK(k) /\ e \in Sessions /\ Held(k) /\ entries[k] = e /\ ArriveInv
      /\ arrived \in Seq(Msgs)
  BY DEF At, Types
<1>2. /\ Inj(e.steers) /\ Apart(e.follow_ups)
      /\ \A x : /\ x \in ToSet(e.steers) => x \in Of(k) /\ ~Follows(e, x) /\ Open(x)
                /\ Follows(e, x) => x \in Of(k) /\ Open(x)
  BY MailOf
<1>4. LeadsApart(e)
  BY <1>2 DEF LeadsApart, Follows, Content
<1>5. PICK up : up = Promoted(e, mapped)
  OBVIOUS
<1>6. Resolves(f, e, mapped, up)
  BY <1>1, <1>2, <1>4, <1>5, ResolveIs
<1>7. /\ \A x : x \in ToSet(e.steers) \/ x \in ToSet(e.turn) => Hears(e, x)
      /\ \A i \in DOMAIN e.follow_ups : ItemOK(e, e.follow_ups[i])
  BY <1>1 DEF SendOK
<1>8. \A i \in up : /\ i \in DOMAIN e.follow_ups /\ e.follow_ups[i].pending
                    /\ mapped /\ e.run \notin PosterOnly
  BY <1>5 DEF Promoted, Promotes
<1>9. \A i \in up : LET item == e.follow_ups[i] IN
        Native(item.lead) /\ Content(item) = {item.lead} /\ Sender[item.lead] # Sender[e.run]
  BY <1>7, <1>8 DEF ItemOK, Content
<1>10. /\ f \in Sessions /\ f.run = e.run /\ f.mapping # "pending"
       /\ f.aborts = e.aborts /\ f.authorizing = e.authorizing
       /\ Inj(f.steers) /\ Apart(f.follow_ups) /\ Sorted(f.steers)
       /\ Len(f.steers) + Len(f.follow_ups) <= Len(e.steers) + Len(e.follow_ups)
       /\ mapped => f.mapping = "mapped"
  BY <1>6 DEF Resolves
<1>11. /\ \A m : m \in ToSet(f.steers) <=>
            m \in ToSet(e.steers) \/ \E i \in up : e.follow_ups[i].lead = m
       /\ \A m \in ToSet(f.turn) : m \in ToSet(e.turn) \/ \E i \in up : e.follow_ups[i].lead = m
  BY <1>6 DEF Resolves
<1>12. /\ \A n \in DOMAIN f.follow_ups : \E i \in DOMAIN e.follow_ups \ up :
            f.follow_ups[n] = FollowUp(e.follow_ups[i].lead, e.follow_ups[i].rest, FALSE)
       /\ \A i \in DOMAIN e.follow_ups \ up : \E n \in DOMAIN f.follow_ups :
            f.follow_ups[n] = FollowUp(e.follow_ups[i].lead, e.follow_ups[i].rest, FALSE)
  BY <1>6 DEF Resolves
<1>13. \A i : Content(FollowUp(e.follow_ups[i].lead, e.follow_ups[i].rest, FALSE)) = Content(e.follow_ups[i])
  BY FollowUpIs DEF Content
<1>14. \A x : Follows(f, x) <=> \E i \in DOMAIN e.follow_ups \ up : x \in Content(e.follow_ups[i])
  <2> TAKE x
  <2>1. ASSUME Follows(f, x)
        PROVE  \E i \in DOMAIN e.follow_ups \ up : x \in Content(e.follow_ups[i])
    <3>1. PICK n \in DOMAIN f.follow_ups : x \in Content(f.follow_ups[n])
      BY <2>1 DEF Follows
    <3> QED BY <1>12, <1>13, <3>1
  <2>2. ASSUME NEW i \in DOMAIN e.follow_ups \ up, x \in Content(e.follow_ups[i])
        PROVE  Follows(f, x)
    <3>1. PICK n \in DOMAIN f.follow_ups :
            f.follow_ups[n] = FollowUp(e.follow_ups[i].lead, e.follow_ups[i].rest, FALSE)
      BY <1>12
    <3>2. x \in Content(f.follow_ups[n])
      BY <1>13, <2>2, <3>1
    <3> QED BY <3>2 DEF Follows
  <2> QED BY <2>1, <2>2
<1>15. \A x : (\E i \in up : e.follow_ups[i].lead = x) <=> (\E i \in up : x \in Content(e.follow_ups[i]))
  BY <1>9
<1>16. \A x : x \in ToSet(f.steers) \/ Follows(f, x) <=> x \in ToSet(e.steers) \/ Follows(e, x)
  <2>1. \A x : Follows(e, x) <=> \/ \E i \in up : x \in Content(e.follow_ups[i])
                                 \/ \E i \in DOMAIN e.follow_ups \ up : x \in Content(e.follow_ups[i])
    BY <1>8 DEF Follows
  <2> QED BY <1>11, <1>14, <1>15, <2>1
<1>17. ASSUME NEW x \in ToSet(f.steers), Follows(f, x)
       PROVE  FALSE
  <2>1. PICK j \in DOMAIN e.follow_ups \ up : x \in Content(e.follow_ups[j])
    BY <1>14, <1>17
  <2>2. x \notin ToSet(e.steers)
    BY <1>2, <2>1 DEF Follows
  <2>3. PICK i \in up : x \in Content(e.follow_ups[i])
    BY <1>11, <1>15, <1>17, <2>2
  <2>4. i \in DOMAIN e.follow_ups
    BY <1>8
  <2>5. i = j
    BY <1>2, <2>1, <2>3, <2>4 DEF Apart
  <2> QED BY <2>1, <2>3, <2>5
<1>18. \A x : x \in ToSet(f.steers) => x \in ToSet(e.steers) \/ (Native(x) /\ Sender[x] # Sender[e.run])
  BY <1>9, <1>11
<1>19. \A x : x \in ToSet(f.turn) => x \in ToSet(e.turn) \/ x \in ToSet(f.steers)
  BY <1>11
<1>20. \A x : x \in ToSet(f.steers) \/ x \in ToSet(f.turn) => Hears(f, x)
  <2> TAKE x
  <2>1. CASE x \in ToSet(e.steers) \/ x \in ToSet(e.turn)
    BY <1>7, <1>10, <2>1 DEF Hears
  <2>2. CASE \E i \in up : e.follow_ups[i].lead = x
    BY <1>8, <1>10, <2>2 DEF Hears
  <2> QED BY <1>11, <2>1, <2>2
<1>21. ASSUME NEW n \in DOMAIN f.follow_ups
       PROVE  ItemOK(f, f.follow_ups[n])
  <2>1. PICK i \in DOMAIN e.follow_ups :
          f.follow_ups[n] = FollowUp(e.follow_ups[i].lead, e.follow_ups[i].rest, FALSE)
    BY <1>12
  <2>2. /\ f.follow_ups[n].lead = e.follow_ups[i].lead /\ f.follow_ups[n].rest = e.follow_ups[i].rest
        /\ f.follow_ups[n].pending = FALSE /\ Content(f.follow_ups[n]) = Content(e.follow_ups[i])
    BY <2>1 DEF FollowUp, Content
  <2> QED BY <1>7, <2>2 DEF ItemOK
<1>22. \A x : x \in ToSet(e.steers) => x \in ToSet(f.steers)
  BY <1>11
<1> QED BY <1>10, <1>16, <1>17, <1>18, <1>19, <1>20, <1>21, <1>22 DEF Answers

LEMMA SettledAnswers ==
  ASSUME NEW k \in Keys, NEW t \in Of(k), NEW e, At(k, t, e), NEW mapped \in BOOLEAN,
         NEW f, f = Settled(e, mapped)
  PROVE  Answers(f, e)
<1>1. CASE e.mapping = "pending"
  BY <1>1, ResolveAnswers DEF Settled
<1>2. CASE e.mapping # "pending"
  BY <1>2, SettledSame DEF Settled
<1> QED BY <1>1, <1>2

LEMMA AnswerKeeps ==
  ASSUME NEW t \in Msgs, NEW k \in Keys, t \in Of(k), Good(k), Typed', NEW e, At(k, t, e), Live(t),
         task[t].phase \in {"opening", "resolved"},
         NEW f, Answers(f, e), NEW p \in {"resolved", "ended"},
         entries' = [entries EXCEPT ![k] = f], task' = [task EXCEPT ![t].phase = p],
         UNCHANGED <<permits, cancellation, ran, arrived, vouched>>, fate' \in [Msgs -> Fates],
         \A x \in Msgs : fate'[x] = fate[x] \/ (x \in ToSet(f.steers) /\ fate'[x] = "steered")
  PROVE  Keeps(k)
<1>2. /\ Types /\ LifeOK(k) /\ SendOK(k) /\ LateOK(k) /\ e \in Sessions /\ e.run \in Msgs /\ e.run \in Of(k)
      /\ task[t] \in TaskRecords /\ e.authorizing = Len(task[t].batch) /\ e.run = task[t].run
      /\ Depth(e) <= Capacity /\ e.aborts <= MaxInterrupts /\ InterruptOK(k)
      /\ Held(k) /\ entries[k] = e
  BY DEF At
<1>3. /\ f \in Sessions /\ f.run = e.run /\ f.mapping # "pending"
      /\ f.aborts = e.aborts /\ f.authorizing = e.authorizing
      /\ Inj(f.steers) /\ Apart(f.follow_ups) /\ Sorted(f.steers)
      /\ Len(f.steers) + Len(f.follow_ups) <= Len(e.steers) + Len(e.follow_ups)
  BY DEF Answers
<1>4. task[t].batch = <<>>
  BY <1>2 DEF LifeOK
<1>5. PICK r : r = [task[t] EXCEPT !.phase = p]
  OBVIOUS
<1>6. r \in TaskRecords /\ r.phase = p /\ r.run = task[t].run /\ r.batch = <<>>
  <2>1. p \in Phases
    BY DEF Phases, Turns
  <2> QED BY <1>2, <1>4, <1>5, <2>1, TaskChanges
<1>7. Moved(k, t, r, f)
  BY <1>2, <1>3, <1>5, <1>6 DEF Moved, Turns
<1>8. /\ \A x \in Of(k) : Open(x) <=> x \in ToSet(e.steers) \/ Follows(e, x)
      /\ \A x : x \in ToSet(e.steers) \/ Follows(e, x) => x \in Of(k)
  BY <1>4, MailOf, NoElements
<1>9. /\ \A x \in Of(k) : Open(x) <=> x \in ToSet(f.steers) \/ Follows(f, x)
      /\ \A x : x \in ToSet(f.steers) \/ Follows(f, x) => x \in Of(k)
      /\ \A x : x \in ToSet(f.steers) => ~Follows(f, x)
  BY <1>8 DEF Answers
<1>10. \A x \in Msgs : x \notin ToSet(f.steers) => fate'[x] = fate[x]
  OBVIOUS
<1>11. \A x \in ToSet(f.steers) : x \in Of(k) /\ Open(x) /\ x \in Msgs
  BY <1>9, OfKey
<1>12. /\ \A x \in Msgs : x \notin Of(k) => fate'[x] = fate[x] /\ ran'[x] = ran[x]
       /\ \A x \in Msgs : fate'[x] = "unsent" <=> fate[x] = "unsent"
       /\ FatesGrow(k)
       /\ \A x \in Msgs : fate'[x] = "taken" <=> fate[x] = "taken"
  <2>1. \A x \in ToSet(f.steers) : fate[x] # "unsent" /\ fate[x] # "taken"
    BY <1>11 DEF Open
  <2> QED BY <1>10, <1>11, <2>1, OfKey DEF FatesGrow
<1>13. Types' /\ ArriveInv' /\ PermitInv' /\ Local(k)
  <2>1. /\ ran' \in [Msgs -> Msgs \union {None}] /\ vouched \subseteq vouched' /\ vouched' \subseteq Msgs
        /\ OwnCancellation(k)
    BY <1>2 DEF Types, OwnCancellation
  <2> QED BY <1>7, <1>12, <2>1, MovedStep
<1>14. LifeOK(k)'
  BY <1>2, <1>3, <1>6, <1>7, <1>12, MovedLife
<1>15. \A x : x \notin ToSet(r.batch)
  BY <1>6, NoElements
<1>16. MailOK(k)'
  <2>1. \A x \in Of(k) : Open(x)' <=> Open(x)
    BY <1>10, <1>11, OfKey DEF Open
  <2>2. Inj(r.batch)
    BY <1>6, NoElements
  <2> QED BY <1>2, <1>3, <1>7, <1>9, <1>15, <2>1, <2>2, MovedMail
<1>17. BoundOK(k)'
  <2>1. f.authorizing = Len(r.batch) /\ f.authorizing = 0
    BY <1>2, <1>3, <1>4, <1>6, NoElements
  <2>2. Depth(f) <= Capacity
    <3> DEFINE a == Len(e.steers)
               b == Len(e.follow_ups)
               c == Len(f.steers)
               d == Len(f.follow_ups)
    <3>1. a \in Nat /\ b \in Nat /\ c \in Nat /\ d \in Nat
      BY <1>2, <1>3, SessionFields
    <3>2. Depth(e) = a + b + 0 /\ Depth(f) = c + d + 0 /\ c + d <= a + b
      BY <1>3, <2>1 DEF Depth
    <3> HIDE DEF a, b, c, d
    <3> QED BY <1>2, <3>1, <3>2, BoundsAssumption
  <2> QED BY <1>2, <1>3, <1>7, <2>1, <2>2, MovedBound
<1>18. SendOK(k)'
  <2>1. /\ \A i \in DOMAIN f.follow_ups : ItemOK(f, f.follow_ups[i])
        /\ \A x : x \in ToSet(f.steers) \/ x \in ToSet(f.turn) => Hears(f, x)
    BY DEF Answers
  <2>2. \A x \in Of(k) : fate'[x] = "taken" /\ Sender[x] # Sender[ran'[x]] =>
          x \in vouched' /\ ran'[x] \notin PosterOnly
    BY <1>2, <1>12, OfKey DEF SendOK
  <2> QED BY <1>2, <1>7, <1>15, <2>1, <2>2, MovedSend
<1>19. \A x \in Of(k) : \A n : Through(x, n) => Through(x, n)'
  <2> SUFFICES ASSUME NEW x \in Of(k), NEW n, Through(x, n) PROVE Through(x, n)'
    OBVIOUS
  <2>1. x \in Msgs /\ x \notin ToSet(f.steers)
    BY <1>11, ThroughClosed, OfKey
  <2> QED BY <1>10, <2>1 DEF Through
<1>20. LateOK(k)'
  <2>1. /\ \A x : InSteers(k, x) <=> x \in ToSet(e.steers)
        /\ \A x : ~InBatch(k, x)
    BY <1>4, NoElements DEF At
  <2>2. ASSUME cancellation'[f.run].state = "running", NEW x \in ToSet(f.turn)
        PROVE  x \in Of(k) /\ (x \in ToSet(f.steers) \/ Through(x, f.run)')
    <3>1. CASE x \in ToSet(f.steers)
      BY <1>9, <3>1
    <3>2. CASE x \in ToSet(e.turn)
      <4>1. State(e) = "running"
        BY <1>3, <2>2 DEF State
      <4>2. x \in Of(k) /\ (x \in ToSet(e.steers) \/ Through(x, e.run))
        BY <1>2, <2>1, <3>2, <4>1 DEF LateOK
      <4> QED BY <1>3, <1>19, <4>2 DEF Answers
    <3> QED BY <3>1, <3>2 DEF Answers
  <2>3. ASSUME NEW l \in ToSet(f.steers), Kind[l] = "late"
        PROVE  Through(Base[l], f.run)'
    <3>1. l \in ToSet(e.steers)
      BY <2>3 DEF Answers, Native
    <3>2. Through(Base[l], e.run)
      BY <1>2, <2>1, <2>3, <3>1 DEF LateOK
    <3>3. Base[l] \in Of(k)
      BY <1>9, <2>3, BaseOf
    <3> QED BY <1>3, <1>19, <3>2, <3>3
  <2>4. ASSUME NEW l \in Of(k), Kind[l] = "late", fate'[l] = "taken"
        PROVE  Through(Base[l], ran[l])'
    <3>1. Base[l] \in Of(k) /\ l \in Msgs
      BY <2>4, BaseOf, OfKey
    <3>2. Through(Base[l], ran[l]) /\ ran'[l] = ran[l]
      BY <1>2, <1>12, <2>4, <3>1 DEF LateOK
    <3>3. PICK n : n = ran[l]
      OBVIOUS
    <3>4. Through(Base[l], n)'
      BY <1>19, <3>1, <3>2, <3>3
    <3> QED BY <3>2, <3>3, <3>4 DEF Through
  <2> QED BY <1>2, <1>7, <1>15, <2>2, <2>3, <2>4, MovedLate
<1>21. entries'[k] = f
  BY <1>2, <1>7, MovedFrame
<1>22. InterruptOK(k)'
  <2>1. ASSUME NEW x \in ToSet(f.steers), Sender[x] = Sender[f.run]
        PROVE  x \in ToSet(e.steers)
    BY <1>3, <2>1 DEF Answers
  <2> QED BY <1>2, <1>3, <1>21, <2>1, InterruptStep DEF InterruptOK, State
<1>23. OrderOK(k)'
  <2>1. PICK u : u = f.steers
    OBVIOUS
  <2>2. Sorted(u)
    BY <1>3, <2>1
  <2>3. Sorted(u)'
    BY <2>2, SortedSame
  <2> QED BY <1>21, <2>1, <2>3 DEF OrderOK, Sorted
<1> QED BY <1>13, <1>14, <1>16, <1>17, <1>18, <1>20, <1>22, <1>23 DEF Keeps, Good, Parts, Later

LEMMA ResolveMappingKeeps ==
  ASSUME NEW t \in Msgs, NEW mapped \in BOOLEAN, NEW k \in Keys, k = KeyOf[t], Good(k), Typed',
         ResolveMapping(t, mapped)
  PROVE  Keeps(k)
<1>1. PICK e : e = entries[k]
  OBVIOUS
<1>2. t \in Of(k) /\ Live(t) /\ task[t].phase = "opening"
  BY OfKey DEF ResolveMapping, Live, Turns
<1>3. At(k, t, e)
  BY <1>1, <1>2, TaskHolds
<1>4. PICK f : f = Settled(e, mapped)
  OBVIOUS
<1>5. Answers(f, e)
  BY <1>2, <1>3, <1>4, SettledAnswers
<1>6. /\ entries' = [entries EXCEPT ![k] = f] /\ task' = [task EXCEPT ![t].phase = "resolved"]
      /\ UNCHANGED <<permits, cancellation, ran, arrived, vouched>>
      /\ fate' = Settle(ToSet(f.steers), "steered")
  BY <1>1, <1>4 DEF ResolveMapping
<1>7. /\ fate' \in [Msgs -> Fates]
      /\ \A x \in Msgs : fate'[x] = fate[x] \/ (x \in ToSet(f.steers) /\ fate'[x] = "steered")
  <2>1. "steered" \in Fates /\ Types
    BY <1>3 DEF Fates, At
  <2> QED BY <1>6, <2>1 DEF Settle, Types
<1> QED BY <1>2, <1>3, <1>5, <1>6, <1>7, AnswerKeeps

LEMMA EarlyReturnKeeps ==
  ASSUME NEW t \in Msgs, NEW k \in Keys, k = KeyOf[t], Good(k), Typed', EarlyReturn(t)
  PROVE  Keeps(k)
<1>1. PICK e : e = entries[k]
  OBVIOUS
<1>2. t \in Of(k) /\ Live(t) /\ task[t].phase \in {"opening", "resolved"}
  BY OfKey DEF EarlyReturn, Live, Turns
<1>3. At(k, t, e)
  BY <1>1, <1>2, TaskHolds
<1>4. PICK f : f = Settled(e, FALSE)
  OBVIOUS
<1>5. Answers(f, e)
  BY <1>2, <1>3, <1>4, SettledAnswers
<1>6. /\ entries' = [entries EXCEPT ![k] = f] /\ task' = [task EXCEPT ![t].phase = "ended"]
      /\ UNCHANGED <<permits, cancellation, ran, arrived, vouched>> /\ fate' = fate
  BY <1>1, <1>4 DEF EarlyReturn
<1>7. fate' \in [Msgs -> Fates]
  BY <1>3, <1>6 DEF At, Types
<1> QED BY <1>2, <1>3, <1>5, <1>6, <1>7, AnswerKeeps

\* A step that touches neither the mailbox of a conversation, nor the turn it
\* runs, nor the fate of a message.
LEMMA QuietKeeps ==
  ASSUME NEW k \in Keys, Good(k), Types', PermitInv', Local(k),
         UNCHANGED <<fate, ran, arrived, vouched>>,
         Held(k)' <=> Held(k), Held(k) => entries'[k] = entries[k],
         \A u \in Msgs : /\ task'[u].run = task[u].run /\ task'[u].batch = task[u].batch
                         /\ task'[u].phase = task[u].phase
                              \/ (task[u].phase = "dropping" /\ task'[u].phase = "done"),
         \A x \in Msgs : /\ cancellation'[x].state = "running" => cancellation[x].state = "running"
                         /\ cancellation[x].model => cancellation'[x].model
  PROVE  Keeps(k)
<1>1. /\ Types /\ ArriveInv /\ LifeOK(k) /\ MailOK(k) /\ BoundOK(k) /\ SendOK(k) /\ OrderOK(k)
      /\ LateOK(k) /\ InterruptOK(k)
  BY DEF Good, Parts, Later
<1>2. \A u \in Of(k) : u \in Msgs
  BY OfKey
<1>3. \A u \in Of(k) : /\ Live(u)' <=> Live(u)
                       /\ Live(u) => task'[u].phase = task[u].phase
                       /\ task'[u].phase \in Turns => task'[u].phase = task[u].phase
                       /\ task'[u].phase = "none" <=> task[u].phase = "none"
                       /\ task'[u].phase = "dropping" => task[u].phase = "dropping"
                       /\ task[u].phase = "prompting" => task'[u].phase = "prompting"
  BY <1>2 DEF Live, Turns
<1>4. \A u \in Of(k) : task'[u].run = task[u].run /\ task'[u].batch = task[u].batch
  BY <1>2
<1>5. /\ \A m : InBatch(k, m)' <=> InBatch(k, m)
      /\ \A m : InSteers(k, m)' <=> InSteers(k, m)
      /\ \A m : InFollow(k, m)' <=> InFollow(k, m)
      /\ \A m : Open(m)' <=> Open(m)
      /\ \A m, n : Through(m, n)' <=> Through(m, n)
  BY <1>4 DEF InBatch, InSteers, InFollow, Open, Through
<1>6. LifeOK(k)'
  <2>1. ASSUME NEW u \in Of(k), task[u].batch # <<>>
        PROVE  Live(u) /\ Held(k)
    BY <1>1, <2>1 DEF LifeOK, Live, Turns
  <2>2. ASSUME NEW u \in Of(k)
        PROVE  /\ fate'[u] = "unsent" => task'[u].phase = "none"
               /\ task'[u].phase # "none" => task'[u].run \in Of(k) /\ fate'[task'[u].run] = "taken"
               /\ Live(u)' => Held(k)' /\ entries'[k].run = task'[u].run
               /\ task'[u].phase = "dropping" /\ Held(k)' => entries'[k].run # task'[u].run
    BY <1>1, <1>3, <1>4 DEF LifeOK
  <2>3. ASSUME NEW u \in Of(k)
        PROVE  /\ task'[u].phase \in Turns \ {"opening"} => entries'[k].mapping # "pending"
               /\ task'[u].batch # <<>> => /\ task'[u].phase = "prompting" /\ entries'[k].mapping = "mapped"
                                          /\ entries'[k].run \notin PosterOnly
    <3>1. CASE Live(u)
      BY <1>1, <1>3, <1>4, <3>1 DEF LifeOK
    <3>2. CASE ~Live(u)
      BY <1>3, <1>4, <2>1, <3>2 DEF Live
    <3> QED BY <3>1, <3>2
  <2>4. \A u, v \in Of(k) : Live(u)' /\ Live(v)' => u = v
    BY <1>1, <1>3 DEF LifeOK
  <2>5. Held(k)' => \E u \in Of(k) : Live(u)'
    BY <1>1, <1>3 DEF LifeOK
  <2> QED BY <2>2, <2>3, <2>4, <2>5 DEF LifeOK
<1>7. MailOK(k)'
  <2>1. \A m \in Of(k) : Open(m)' <=> InSteers(k, m)' \/ InFollow(k, m)' \/ InBatch(k, m)'
    BY <1>1, <1>5 DEF MailOK
  <2>2. \A m : /\ InSteers(k, m)' => m \in Of(k) /\ ~InFollow(k, m)' /\ ~InBatch(k, m)'
               /\ InFollow(k, m)' => m \in Of(k) /\ ~InBatch(k, m)'
               /\ InBatch(k, m)' => m \in Of(k)
    BY <1>1, <1>5 DEF MailOK
  <2>3. Held(k)' => Inj(entries'[k].steers) /\ Apart(entries'[k].follow_ups)
    BY <1>1 DEF MailOK
  <2>4. \A u \in Of(k) : Inj(task'[u].batch)
    BY <1>1, <1>4 DEF MailOK
  <2> QED BY <2>1, <2>2, <2>3, <2>4 DEF MailOK, Inj, Apart
<1>8. BoundOK(k)'
  <2>1. Held(k) => /\ Depth(entries[k]) <= Capacity /\ entries[k].aborts <= MaxInterrupts
                   /\ \A u \in Of(k) : Live(u) => entries[k].authorizing = Len(task[u].batch)
    BY <1>1 DEF BoundOK
  <2>2. Held(k) => Depth(entries[k])' = Depth(entries[k])
    BY DEF Depth
  <2>3. Held(k)' => /\ Depth(entries[k])' <= Capacity /\ entries'[k].aborts <= MaxInterrupts
                    /\ \A u \in Of(k) : Live(u)' => entries'[k].authorizing = Len(task'[u].batch)
    BY <1>3, <1>4, <2>1, <2>2
  <2> QED BY <2>3 DEF BoundOK
<1>9. SendOK(k)'
  <2>1. Held(k) =>
           /\ \A i \in DOMAIN entries[k].follow_ups : ItemOK(entries[k], entries[k].follow_ups[i])
           /\ \A m : m \in ToSet(entries[k].steers) \/ m \in ToSet(entries[k].turn) => Hears(entries[k], m)
    BY <1>1 DEF SendOK
  <2>2. \A u \in Of(k) : \A m \in ToSet(task'[u].batch) :
          Sender[m] = Sender[task'[u].run] \/ task'[u].run \notin PosterOnly
    BY <1>1, <1>4 DEF SendOK
  <2>3. \A m \in Of(k) : fate'[m] = "taken" /\ Sender[m] # Sender[ran'[m]] =>
          m \in vouched' /\ ran'[m] \notin PosterOnly
    BY <1>1 DEF SendOK
  <2> QED BY <2>1, <2>2, <2>3 DEF SendOK, ItemOK, Hears
<1>10. Held(k) => entries[k].run \in Msgs
  BY <1>1, HeldIs, SessionFields
<1>11. InterruptOK(k)'
  BY <1>1, <1>10 DEF InterruptOK, State
<1>12. LateOK(k)'
  <2>1. Held(k)' /\ State(entries[k])' = "running" =>
          \A m \in ToSet(entries'[k].turn) :
            m \in Of(k) /\ (InSteers(k, m)' \/ InBatch(k, m)' \/ Through(m, entries[k].run)')
    <3> SUFFICES ASSUME Held(k)', State(entries[k])' = "running", NEW m \in ToSet(entries'[k].turn)
                 PROVE  m \in Of(k) /\ (InSteers(k, m)' \/ InBatch(k, m)' \/ Through(m, entries[k].run)')
      OBVIOUS
    <3>1. State(entries[k]) = "running" /\ m \in ToSet(entries[k].turn)
      BY <1>10 DEF State
    <3>2. m \in Of(k) /\ (InSteers(k, m) \/ InBatch(k, m) \/ Through(m, entries[k].run))
      BY <1>1, <3>1 DEF LateOK
    <3> QED BY <1>5, <3>2 DEF Through
  <2>2. ASSUME NEW u \in Of(k), Live(u)', task'[u].phase # "ended",
               NEW l \in ToSet(entries'[k].steers), Kind[l] = "late"
        PROVE  InBatch(k, Base[l])' \/ Through(Base[l], entries[k].run)'
    <3>1. Held(k) /\ Live(u) /\ task[u].phase # "ended"
      BY <1>1, <1>3, <2>2 DEF LifeOK
    <3>2. InBatch(k, Base[l]) \/ Through(Base[l], entries[k].run)
      BY <1>1, <2>2, <3>1 DEF LateOK
    <3> QED BY <1>5, <3>1, <3>2 DEF Through
  <2>3. ASSUME NEW u \in Of(k), NEW l \in ToSet(task'[u].batch), Kind[l] = "late"
        PROVE  Through(Base[l], task[u].run)'
    <3>1. Through(Base[l], task[u].run)
      BY <1>1, <1>4, <2>3 DEF LateOK
    <3> QED BY <1>4, <3>1 DEF Through
  <2>4. ASSUME NEW l \in Of(k), Kind[l] = "late", fate'[l] = "taken"
        PROVE  Through(Base[l], ran[l])'
    BY <1>1, <2>4 DEF LateOK, Through
  <2> QED BY <2>1, <2>2, <2>3, <2>4 DEF LateOK
<1>13. OrderOK(k)'
  BY <1>1 DEF OrderOK, Sorted
<1>14. ArriveInv'
  BY <1>1, ArriveSame
<1> QED BY <1>6, <1>7, <1>8, <1>9, <1>11, <1>12, <1>13, <1>14 DEF Keeps, Good, Parts, Later

LEMMA ProbeKeeps ==
  ASSUME NEW k \in Keys, Good(k), ProbeAdmit(k) \/ ProbeDrop(k)
  PROVE  Keeps(k)
<1>1. Types /\ PermitInv
  BY DEF Good
<1>2. /\ UNCHANGED <<task, cancellation, fate, ran, arrived, vouched>>
      /\ entries' = [entries EXCEPT ![k] = Probe] \/ entries' = [entries EXCEPT ![k] = NoHolder]
      /\ entries[k] \in {NoHolder, Probe}
  BY DEF ProbeAdmit, ProbeDrop
<1>3. ~Held(k) /\ ~Held(k)' /\ \A j \in Keys : j # k => entries'[j] = entries[j]
  BY <1>1, <1>2 DEF Held, NoHolder, Probe, Types
<1>4. PermitInv'
  BY <1>1, ProbeTaken, ProbeBack
<1>5. Types'
  <2>1. entries' \in [Keys -> {NoHolder, Probe} \union Sessions]
    BY <1>1, <1>2 DEF Types
  <2>2. permits' \in Int
    BY <1>4 DEF PermitInv
  <2> QED BY <1>1, <1>2, <2>1, <2>2 DEF Types
<1>6. Local(k)
  BY <1>2, <1>3 DEF Local
<1> QED BY <1>2, <1>3, <1>4, <1>5, <1>6, QuietKeeps

LEMMA DropAdmissionKeeps ==
  ASSUME NEW t \in Msgs, NEW k \in Keys, k = KeyOf[t], Good(k), DropAdmission(t)
  PROVE  Keeps(k)
<1>1. Types /\ PermitInv /\ LifeOK(k) /\ t \in Of(k)
  BY OfKey DEF Good, Parts
<1>2. task[t].phase = "dropping" /\ ~Holds(t)
  BY <1>1 DEF LifeOK, DropAdmission, Holds, EntryOf
<1>3. /\ UNCHANGED <<entries, cancellation, fate, ran, arrived, vouched>> /\ permits' = permits + 1
      /\ task' = [task EXCEPT ![t].phase = "done"]
  BY <1>2 DEF DropAdmission
<1>4. task[t] \in TaskRecords /\ "done" \in Phases
  BY <1>1 DEF Types, Phases
<1>5. PICK r : r = [task[t] EXCEPT !.phase = "done"]
  OBVIOUS
<1>6. r \in TaskRecords /\ r.phase = "done" /\ r.run = task[t].run /\ r.batch = task[t].batch
  BY <1>4, <1>5, TaskChanges
<1>7. task'[t] = r /\ \A u \in Msgs : u # t => task'[u] = task[u]
  BY <1>1, <1>3, <1>5 DEF Types
<1>8. HasPermit(t) /\ ~HasPermit(t)' /\ \A u \in Msgs : u # t => (HasPermit(u)' <=> HasPermit(u))
  BY <1>2, <1>6, <1>7 DEF HasPermit, Live, Turns
<1>9. PermitInv'
  BY <1>1, <1>3, <1>8, PermitBack
<1>10. Types'
  <2>1. task' \in [Msgs -> TaskRecords]
    BY <1>1, <1>3, <1>5, <1>6 DEF Types
  <2>2. permits' \in Int
    BY <1>9 DEF PermitInv
  <2> QED BY <1>1, <1>3, <2>1, <2>2 DEF Types
<1>11. Local(k)
  BY <1>1, <1>3, <1>7 DEF Local
<1>12. Held(k)' <=> Held(k)
  BY <1>3 DEF Held
<1> QED BY <1>2, <1>3, <1>6, <1>7, <1>9, <1>10, <1>11, <1>12, QuietKeeps

\* A step of the deadline changes one cancellation only.
LEMMA CancelKeeps ==
  ASSUME NEW k \in Keys, Good(k), Typed', UNCHANGED <<entries, permits, task, fate, ran, arrived, vouched>>,
         NEW n \in Of(k), \A x \in Msgs : x # n => cancellation'[x] = cancellation[x],
         cancellation'[n].state = "running" => cancellation[n].state = "running",
         cancellation[n].model => cancellation'[n].model
  PROVE  Keeps(k)
<1>1. Types /\ PermitInv
  BY DEF Good
<1>2. Types'
  BY <1>1 DEF Types, Typed
<1>3. PermitInv'
  BY <1>1, PermitSame DEF HasPermit, Live
<1>4. Local(k)
  BY DEF Local
<1>5. Held(k)' <=> Held(k)
  BY DEF Held
<1> QED BY <1>2, <1>3, <1>4, <1>5, QuietKeeps

LEMMA ExpireKeeps ==
  ASSUME NEW t \in Msgs, NEW k \in Keys, k = KeyOf[t], Good(k), Typed', Expire(t)
  PROVE  Keeps(k)
<1>1. LifeOK(k) /\ t \in Of(k) /\ Typed
  BY OfKey DEF Good, Parts, Types, Typed
<1>2. PICK n : n = task[t].run
  OBVIOUS
<1>3. n \in Of(k) /\ n \in Msgs
  <2>1. task[t].phase # "none"
    BY DEF Expire, Prompting
  <2> QED BY <1>1, <1>2, <2>1, OfKey DEF LifeOK
<1>4. cancellation' = [cancellation EXCEPT ![n].state = "cancelled", ![n].signal = TRUE]
  BY <1>2 DEF Expire
<1>5. /\ \A x \in Msgs : x # n => cancellation'[x] = cancellation[x]
      /\ cancellation'[n].state = "cancelled" /\ cancellation'[n].model = cancellation[n].model
  BY <1>1, <1>3, <1>4 DEF Typed, Cancellations
<1>6. UNCHANGED <<entries, permits, task, fate, ran, arrived, vouched>>
  BY DEF Expire
<1> QED BY <1>3, <1>5, <1>6, CancelKeeps

LEMMA ExpireSignalKeeps ==
  ASSUME NEW n \in Msgs, NEW k \in Keys, k = KeyOf[n], Good(k), Typed', ExpireSignal(n)
  PROVE  Keeps(k)
<1>1. n \in Of(k) /\ Typed
  BY OfKey DEF Good, Types, Typed
<1>2. cancellation' = [cancellation EXCEPT ![n].model = TRUE, ![n].signal = FALSE]
  BY DEF ExpireSignal
<1>3. /\ \A x \in Msgs : x # n => cancellation'[x] = cancellation[x]
      /\ cancellation'[n].state = cancellation[n].state /\ cancellation'[n].model
  BY <1>1, <1>2 DEF Typed, Cancellations
<1>4. UNCHANGED <<entries, permits, task, fate, ran, arrived, vouched>>
  BY DEF ExpireSignal
<1> QED BY <1>1, <1>3, <1>4, CancelKeeps

------------------------------------------------------------------------------
(* Releasing a conversation, and opening a turn in it. *)

\* The step in which turn t frees the session of k and becomes r: whatever
\* waited has been given up.
Frees(k, t, r) ==
  /\ r \in TaskRecords /\ r.phase \in {"dropping", "done"} /\ r.run = task[t].run /\ r.batch = <<>>
  /\ entries' = [entries EXCEPT ![k] = NoHolder] /\ task' = [task EXCEPT ![t] = r]
  /\ OwnCancellation(k) /\ UNCHANGED <<ran, arrived, vouched>> /\ fate' \in [Msgs -> Fates]
  /\ \A x \in Msgs : IF x \in Of(k) /\ Open(x) THEN fate'[x] \in {"aborted", "routelost", "unheld"}
                                               ELSE fate'[x] = fate[x]
  /\ PermitInv'

LEMMA FreeKeeps ==
  ASSUME NEW t \in Msgs, NEW k \in Keys, t \in Of(k), Good(k), Typed', NEW e, At(k, t, e), Live(t),
         NEW r, Frees(k, t, r)
  PROVE  Keeps(k)
<1>0. /\ r \in TaskRecords /\ r.phase \in {"dropping", "done"} /\ r.run = task[t].run /\ r.batch = <<>>
      /\ entries' = [entries EXCEPT ![k] = NoHolder] /\ task' = [task EXCEPT ![t] = r]
      /\ OwnCancellation(k) /\ UNCHANGED <<ran, arrived, vouched>> /\ fate' \in [Msgs -> Fates]
      /\ \A x \in Msgs : IF x \in Of(k) /\ Open(x) THEN fate'[x] \in {"aborted", "routelost", "unheld"}
                                                   ELSE fate'[x] = fate[x]
      /\ PermitInv'
  BY DEF Frees
<1> USE <1>0
<1>1. /\ Types /\ ArriveInv /\ LifeOK(k) /\ SendOK(k) /\ LateOK(k) /\ e.run = task[t].run
      /\ fate[e.run] = "taken" /\ e.run \in Of(k) /\ e.run \in Msgs
  BY DEF At
<1>2. /\ entries'[k] = NoHolder /\ ~Held(k)' /\ \A j \in Keys : j # k => entries'[j] = entries[j]
      /\ entries' \in [Keys -> {NoHolder, Probe} \union Sessions]
  BY <1>1 DEF Types, Held, NoHolder
<1>3. /\ task'[t] = r /\ \A u \in Msgs : u # t => task'[u] = task[u]
      /\ task' \in [Msgs -> TaskRecords]
  BY <1>1 DEF Types
<1>4. \A u \in Of(k) : u # t => ~Live(u) /\ task[u].batch = <<>>
  BY <1>1, HolderIs
<1>5. \A u \in Of(k) : ~Live(u)' /\ task'[u].batch = <<>>
  BY <1>3, <1>4, OfKey DEF Live, Turns
<1>6. /\ \A x : ~InSteers(k, x)' /\ ~InFollow(k, x)'
      /\ \A u \in Of(k) : (\A x : x \notin ToSet(task'[u].batch)) /\ Inj(task'[u].batch)
  BY <1>2, <1>5, NoElements DEF InSteers, InFollow
<1>7. \A x : ~InBatch(k, x)'
  BY <1>6 DEF InBatch
<1>8. Types'
  <2>1. permits' \in Int
    BY DEF PermitInv
  <2> QED BY <1>1, <1>2, <1>3, <2>1 DEF Types, Typed
<1>9. \A x \in Msgs : /\ fate'[x] = "unsent" <=> fate[x] = "unsent"
                      /\ fate'[x] = "taken" <=> fate[x] = "taken"
                      /\ fate'[x] = "unauthorized" <=> fate[x] = "unauthorized"
                      /\ x \in Of(k) => ~Open(x)'
  BY DEF Open
<1>10. ArriveInv'
  BY <1>1, <1>9, ArriveSame
<1>11. Local(k)
  <2>1. \A x \in Msgs : x \notin Of(k) => x # t
    OBVIOUS
  <2> QED BY <1>2, <1>3, <2>1 DEF Local, OwnCancellation
<1>12. LifeOK(k)'
  <2>1. ASSUME NEW u \in Of(k)
        PROVE  /\ fate'[u] = "unsent" => task'[u].phase = "none"
               /\ task'[u].phase # "none" => task'[u].run \in Of(k) /\ fate'[task'[u].run] = "taken"
    <3>1. CASE u = t
      BY <1>1, <1>3, <1>9, <3>1 DEF LifeOK, Live, Turns
    <3>2. CASE u # t
      <4>1. u \in Msgs /\ task'[u] = task[u]
        BY <1>3, <3>2, OfKey
      <4>2. task[u].phase # "none" => task[u].run \in Of(k) /\ task[u].run \in Msgs /\ fate[task[u].run] = "taken"
        BY <1>1, OfKey DEF LifeOK
      <4> QED BY <1>1, <1>9, <4>1, <4>2 DEF LifeOK
    <3> QED BY <3>1, <3>2
  <2>2. \A u \in Of(k) : task'[u].phase \notin Turns
    BY <1>5 DEF Live
  <2> QED BY <1>2, <1>5, <2>1, <2>2 DEF LifeOK
<1>13. MailOK(k)'
  BY <1>2, <1>6, <1>7, <1>9, OfKey DEF MailOK, Inj
<1>14. BoundOK(k)' /\ InterruptOK(k)' /\ OrderOK(k)'
  BY <1>2 DEF BoundOK, InterruptOK, OrderOK
<1>15. SendOK(k)'
  <2>1. \A x \in Of(k) : fate'[x] = "taken" /\ Sender[x] # Sender[ran'[x]] =>
          x \in vouched' /\ ran'[x] \notin PosterOnly
    BY <1>1, <1>9, OfKey DEF SendOK
  <2> QED BY <1>2, <1>6, <2>1 DEF SendOK
<1>16. LateOK(k)'
  <2>1. ASSUME NEW l \in Of(k), Kind[l] = "late", fate'[l] = "taken"
        PROVE  Through(Base[l], ran[l])'
    <3>1. Base[l] \in Of(k) /\ l \in Msgs /\ Base[l] \in Msgs
      BY <2>1, BaseOf, OfKey
    <3>2. Through(Base[l], ran[l])
      BY <1>1, <1>9, <2>1, <3>1 DEF LateOK
    <3> QED BY <1>9, <3>1, <3>2 DEF Through
  <2> QED BY <1>2, <1>5, <1>6, <2>1 DEF LateOK
<1> QED BY <1>8, <1>10, <1>11, <1>12, <1>13, <1>14, <1>15, <1>16 DEF Keeps, Good, Parts, Later

LEMMA AbortKeeps ==
  ASSUME NEW t \in Msgs, NEW k \in Keys, k = KeyOf[t], Good(k), Typed', Abort(t)
  PROVE  Keeps(k)
<1>1. PICK e : e = entries[k]
  OBVIOUS
<1>2. t \in Of(k) /\ Live(t)
  BY OfKey DEF Abort, Live
<1>3. At(k, t, e)
  BY <1>1, <1>2, TaskHolds
<1>4. /\ Types /\ LifeOK(k) /\ e \in Sessions /\ e.run \in Of(k) /\ e.run \in Msgs /\ e.run = task[t].run
      /\ task[t] \in TaskRecords /\ Held(k) /\ Typed /\ PermitInv /\ entries[k] = e
  BY <1>3 DEF At, Types, Typed, Good
<1>5. PICK r : r = [Ends(task[t]) EXCEPT !.phase = "done"]
  OBVIOUS
<1>6. r \in TaskRecords /\ r.phase = "done" /\ r.run = task[t].run /\ r.batch = <<>>
  <2>1. PICK s : s = Ends(task[t])
    OBVIOUS
  <2>2. s \in TaskRecords /\ s.run = task[t].run /\ s.batch = <<>>
    BY <1>4, <2>1, TaskChanges
  <2>3. "done" \in Phases
    BY DEF Phases
  <2>4. r = [s EXCEPT !.phase = "done"]
    BY <1>5, <2>1
  <2>5. r \in TaskRecords /\ r.phase = "done" /\ r.run = s.run /\ r.batch = s.batch
    BY <2>2, <2>3, <2>4, TaskChanges
  <2> QED BY <2>2, <2>5
<1>7. /\ entries' = [entries EXCEPT ![k] = NoHolder] /\ task' = [task EXCEPT ![t] = r]
      /\ permits' = permits + 1 /\ UNCHANGED <<ran, arrived, vouched>>
      /\ fate' = Settle(Dropped(e) \union ToSet(task[t].batch), "aborted")
  BY <1>1, <1>5 DEF Abort
<1>8. OwnCancellation(k)
  <2>1. \A x \in Msgs : x # e.run => cancellation'[x] = cancellation[x]
    BY <1>4 DEF Abort, Typed
  <2> QED BY <1>4, <2>1 DEF OwnCancellation
<1>9. /\ \A x \in Of(k) : Open(x) <=> x \in ToSet(e.steers) \/ Follows(e, x) \/ x \in ToSet(task[t].batch)
      /\ \A x : x \in ToSet(e.steers) \/ Follows(e, x) \/ x \in ToSet(task[t].batch) => x \in Of(k)
  BY <1>2, <1>3, MailOf
<1>10. \A x : x \in Dropped(e) <=> x \in ToSet(e.steers) \/ Follows(e, x)
  <2>1. \A y : y \in ToSet(e.follow_ups) <=> \E i \in DOMAIN e.follow_ups : e.follow_ups[i] = y
    BY SetOf
  <2> QED BY <2>1 DEF Dropped, Follows
<1>11. \A x \in Msgs : fate'[x] = IF x \in Of(k) /\ Open(x) THEN "aborted" ELSE fate[x]
  BY <1>7, <1>9, <1>10 DEF Settle
<1>12. fate' \in [Msgs -> Fates]
  <2>1. "aborted" \in Fates /\ fate \in [Msgs -> Fates]
    BY <1>4 DEF Fates, Types
  <2> QED BY <1>7, <2>1 DEF Settle
<1>13. PermitInv'
  <2>1. task'[t] = r /\ \A u \in Msgs : u # t => task'[u] = task[u]
    BY <1>4, <1>7 DEF Types
  <2>2. HasPermit(t) /\ ~HasPermit(t)' /\ \A u \in Msgs : u # t => (HasPermit(u)' <=> HasPermit(u))
    BY <1>2, <1>6, <2>1 DEF HasPermit, Live, Turns
  <2>3. \A j \in Keys : entries'[j] = Probe <=> entries[j] = Probe
    BY <1>4, <1>7, HeldIs DEF Types, NoHolder, Probe
  <2> QED BY <1>4, <1>7, <2>2, <2>3, PermitBack
<1>14. Frees(k, t, r)
  BY <1>2, <1>3, <1>6, <1>7, <1>8, <1>11, <1>12, <1>13 DEF Frees
<1> QED BY <1>2, <1>3, <1>6, <1>7, <1>8, <1>14, FreeKeeps

\* The task t opens a turn led by n in the entry f.
OpensTurn(k, t, n, f) ==
  /\ t \in Of(k) /\ n \in Of(k) /\ f \in Sessions /\ f.run = n /\ f.steers = <<>>
  /\ f.authorizing = 0 /\ f.aborts = 0 /\ Apart(f.follow_ups) /\ Len(f.follow_ups) <= Capacity
  /\ \A i \in DOMAIN f.follow_ups : ItemOK(f, f.follow_ups[i])
  /\ \A x \in ToSet(f.turn) : Sender[x] = Sender[n]
  /\ \A u \in Of(k) : u # t => ~Live(u) /\ task[u].batch = <<>>
  /\ entries' = [entries EXCEPT ![k] = f] /\ task' = [task EXCEPT ![t] = Runs(n)]
  /\ OwnCancellation(k) /\ vouched' = vouched

\* What a turn led by n takes enters it; what f keeps waits.
OpensWith(k, t, n, f) ==
  /\ fate' \in [Msgs -> Fates] /\ ran' \in [Msgs -> Msgs \union {None}] /\ FatesGrow(k)
  /\ fate'[n] = "taken" /\ fate[n] # "taken" /\ fate'[t] # "unsent"
  /\ \A x \in Msgs : x \notin Of(k) => fate'[x] = fate[x] /\ ran'[x] = ran[x]
  /\ \A x \in Of(k) : Open(x)' <=> Follows(f, x)
  /\ \A x : Follows(f, x) => x \in Of(k)
  /\ \A x \in ToSet(f.turn) : x \in Of(k) /\ fate'[x] = "taken" /\ ran'[x] = n
  /\ \A x \in Of(k) : fate'[x] = "taken" =>
       \/ fate[x] = "taken" /\ ran'[x] = ran[x]
       \/ ran'[x] = n /\ Sender[x] = Sender[n] /\ Kind[x] # "late"
  /\ \A x \in Of(k) : \A y : Through(x, y) => Through(x, y)'

LEMMA OpenKeeps ==
  ASSUME NEW k \in Keys, NEW t, NEW n, NEW f, Good(k), Typed',
         OpensTurn(k, t, n, f), OpensWith(k, t, n, f), arrived' \in Seq(Msgs), ArriveInv', PermitInv',
         arrived' = arrived \/ \E m \in Msgs : ArrivesNow(m)
  PROVE  Keeps(k)
<1>0a. /\ t \in Of(k) /\ n \in Of(k) /\ f \in Sessions /\ f.run = n /\ f.steers = <<>>
       /\ f.authorizing = 0 /\ f.aborts = 0 /\ Apart(f.follow_ups) /\ Len(f.follow_ups) <= Capacity
       /\ \A i \in DOMAIN f.follow_ups : ItemOK(f, f.follow_ups[i])
       /\ \A x \in ToSet(f.turn) : Sender[x] = Sender[n]
       /\ \A u \in Of(k) : u # t => ~Live(u) /\ task[u].batch = <<>>
       /\ entries' = [entries EXCEPT ![k] = f] /\ task' = [task EXCEPT ![t] = Runs(n)]
       /\ OwnCancellation(k) /\ vouched' = vouched
  BY DEF OpensTurn
<1>0b. /\ fate' \in [Msgs -> Fates] /\ ran' \in [Msgs -> Msgs \union {None}] /\ FatesGrow(k)
       /\ fate'[n] = "taken" /\ fate[n] # "taken" /\ fate'[t] # "unsent"
       /\ \A x \in Msgs : x \notin Of(k) => fate'[x] = fate[x] /\ ran'[x] = ran[x]
       /\ \A x \in Of(k) : Open(x)' <=> Follows(f, x)
       /\ \A x : Follows(f, x) => x \in Of(k)
       /\ \A x \in ToSet(f.turn) : x \in Of(k) /\ fate'[x] = "taken" /\ ran'[x] = n
       /\ \A x \in Of(k) : fate'[x] = "taken" =>
            \/ fate[x] = "taken" /\ ran'[x] = ran[x]
            \/ ran'[x] = n /\ Sender[x] = Sender[n] /\ Kind[x] # "late"
       /\ \A x \in Of(k) : \A y : Through(x, y) => Through(x, y)'
  BY DEF OpensWith
<1> USE <1>0a, <1>0b
<1>1. /\ Types /\ LifeOK(k) /\ SendOK(k) /\ LateOK(k) /\ t \in Msgs /\ n \in Msgs
  BY OfKey DEF Good, Parts, Later
<1>2. PICK r : r = Runs(n)
  OBVIOUS
<1>3. r \in TaskRecords /\ r.phase = "opening" /\ r.run = n /\ r.batch = <<>>
  <2>1. "opening" \in Phases /\ <<>> \in Seq(Msgs)
    BY DEF Phases, Turns
  <2> QED BY <1>1, <1>2, <2>1 DEF Runs, TaskRecords
<1>4. /\ entries'[k] = f /\ Held(k)' /\ \A j \in Keys : j # k => entries'[j] = entries[j]
      /\ entries' \in [Keys -> {NoHolder, Probe} \union Sessions]
  BY <1>1, SessionFields DEF Types, Held
<1>5. /\ task'[t] = r /\ \A u \in Msgs : u # t => task'[u] = task[u]
      /\ task' \in [Msgs -> TaskRecords]
  BY <1>1, <1>2, <1>3 DEF Types
<1>6. Live(t)' /\ \A u \in Of(k) : u # t => ~Live(u)' /\ task'[u].phase \notin Turns
  BY <1>3, <1>5, OfKey DEF Live, Turns
<1>7. \A u \in Of(k) : task'[u].batch = <<>>
  BY <1>3, <1>5, OfKey
<1>8. \A u \in Of(k) : (\A x : x \notin ToSet(task'[u].batch)) /\ Inj(task'[u].batch) /\ Len(task'[u].batch) = 0
  BY <1>7, NoElements
<1>9. \A x : ~InBatch(k, x)'
  BY <1>8 DEF InBatch
<1>10. Inj(f.steers) /\ (\A x : x \notin ToSet(f.steers)) /\ Len(f.steers) = 0
  BY NoElements
<1>11. \A x : ~InSteers(k, x)' /\ (InFollow(k, x)' <=> Follows(f, x))
  BY <1>4, <1>10 DEF InSteers, InFollow, Follows
<1>12. Types'
  <2>1. permits' \in Int
    BY DEF PermitInv
  <2> QED BY <1>1, <1>4, <1>5, <2>1 DEF Types, Typed
<1>13. Local(k)
  <2>1. \A x \in Msgs : x \notin Of(k) => x # t
    OBVIOUS
  <2> QED BY <1>4, <1>5, <2>1 DEF Local, OwnCancellation
<1>14. LifeOK(k)'
  <2>1. ASSUME NEW u \in Of(k)
        PROVE  /\ fate'[u] = "unsent" => task'[u].phase = "none"
               /\ task'[u].phase # "none" => task'[u].run \in Of(k) /\ fate'[task'[u].run] = "taken"
               /\ Live(u)' => Held(k)' /\ entries'[k].run = task'[u].run
               /\ task'[u].phase = "dropping" /\ Held(k)' => entries'[k].run # task'[u].run
               /\ task'[u].phase \in Turns \ {"opening"} => entries'[k].mapping # "pending"
    <3>1. CASE u = t
      BY <1>3, <1>4, <1>5, <3>1
    <3>2. CASE u # t
      <4>1. task'[u] = task[u] /\ ~Live(u)' /\ task'[u].phase \notin Turns
        BY <1>5, <1>6, <3>2, OfKey
      <4>2. task[u].phase # "none" =>
              task[u].run \in Of(k) /\ fate[task[u].run] = "taken" /\ fate'[task[u].run] = "taken"
        BY <1>1 DEF LifeOK, FatesGrow
      <4>3. fate'[u] = "unsent" => task[u].phase = "none"
        BY <1>1 DEF LifeOK, FatesGrow
      <4>4. task[u].phase = "dropping" => task[u].run # n
        BY <4>2
      <4> QED BY <1>4, <4>1, <4>2, <4>3, <4>4
    <3> QED BY <3>1, <3>2
  <2>2. \A u, v \in Of(k) : Live(u)' /\ Live(v)' => u = v
    BY <1>6
  <2>3. \A u \in Of(k) : task'[u].batch # <<>> => /\ task'[u].phase = "prompting" /\ entries'[k].mapping = "mapped"
                                          /\ entries'[k].run \notin PosterOnly
    BY <1>7
  <2> QED BY <1>6, <2>1, <2>2, <2>3 DEF LifeOK
<1>15. MailOK(k)'
  <2>1. \A x \in Of(k) : Open(x)' <=> InSteers(k, x)' \/ InFollow(k, x)' \/ InBatch(k, x)'
    BY <1>9, <1>11
  <2>2. \A x : /\ InSteers(k, x)' => x \in Of(k) /\ ~InFollow(k, x)' /\ ~InBatch(k, x)'
               /\ InFollow(k, x)' => x \in Of(k) /\ ~InBatch(k, x)'
               /\ InBatch(k, x)' => x \in Of(k)
    BY <1>9, <1>11
  <2>3. Inj(entries'[k].steers) /\ Apart(entries'[k].follow_ups)
    BY <1>4, <1>10
  <2> QED BY <1>8, <2>1, <2>2, <2>3 DEF MailOK, Inj, Apart
<1>16. BoundOK(k)'
  <2>1. Depth(f) <= Capacity
    <3> DEFINE b == Len(f.follow_ups)
    <3>1. b \in Nat /\ b <= Capacity
      BY SessionFields
    <3>2. Depth(f) = 0 + b + 0
      BY <1>10 DEF Depth
    <3> HIDE DEF b
    <3> QED BY <3>1, <3>2, BoundsAssumption
  <2>2. f.aborts <= MaxInterrupts
    BY BoundsAssumption
  <2>3. \A u \in Of(k) : f.authorizing = Len(task'[u].batch)
    BY <1>8
  <2> QED BY <1>4, <2>1, <2>2, <2>3 DEF BoundOK, Depth
<1>17. SendOK(k)'
  <2>1. \A x : x \in ToSet(f.steers) \/ x \in ToSet(f.turn) => Hears(f, x)
    BY <1>10 DEF Hears
  <2>2. \A x \in Of(k) : fate'[x] = "taken" /\ Sender[x] # Sender[ran'[x]] =>
          x \in vouched' /\ ran'[x] \notin PosterOnly
    BY <1>1 DEF SendOK
  <2>3. \A u \in Of(k) : \A x \in ToSet(task'[u].batch) :
          Sender[x] = Sender[task'[u].run] \/ task'[u].run \notin PosterOnly
    BY <1>8
  <2> QED BY <1>4, <2>1, <2>2, <2>3, SendStep
<1>18. LateOK(k)'
  <2>1. \A x \in ToSet(f.turn) : x \in Of(k) /\ Through(x, f.run)'
    BY DEF Through
  <2>2. ASSUME NEW l \in Of(k), Kind[l] = "late", fate'[l] = "taken"
        PROVE  Through(Base[l], ran[l])'
    <3>1. Base[l] \in Of(k) /\ fate[l] = "taken" /\ ran'[l] = ran[l]
      BY <2>2, BaseOf
    <3>2. PICK y : y = ran[l]
      OBVIOUS
    <3>3. Through(Base[l], y)'
      BY <1>1, <2>2, <3>1, <3>2 DEF LateOK
    <3> QED BY <3>1, <3>2, <3>3 DEF Through
  <2> QED BY <1>4, <1>8, <1>10, <2>1, <2>2, LateStep
<1>19. InterruptOK(k)' /\ OrderOK(k)'
  BY <1>4, EmptyOrder
<1> QED BY <1>12, <1>13, <1>14, <1>15, <1>16, <1>17, <1>18, <1>19 DEF Keeps, Good, Parts, Later

LEMMA AdmitNewKeeps ==
  ASSUME NEW m \in Msgs, NEW k \in Keys, k = KeyOf[m], Good(k), Typed', AdmitNew(m)
  PROVE  Keeps(k)
<1>1. /\ Types /\ ArriveInv /\ PermitInv /\ LifeOK(k) /\ MailOK(k) /\ m \in Of(k)
  BY OfKey DEF Good, Parts
<1>2. ArrivesNow(m) /\ Kind[m] # "late" /\ entries[k] = NoHolder /\ permits > 0 /\ permits' = permits - 1
  BY DEF AdmitNew, Arrives, ArrivesNow
<1>3. ~Held(k) /\ fate[m] = "unsent"
  BY <1>2 DEF Held, NoHolder, ArrivesNow
<1>4. \A u \in Of(k) : ~Live(u) /\ task[u].batch = <<>>
  BY <1>1, <1>3 DEF LifeOK, Live, Turns
<1>5. \A x \in Of(k) : ~Open(x)
  <2>1. \A u \in Of(k) : \A x : x \notin ToSet(task[u].batch)
    BY <1>4, NoElements
  <2>2. \A x : ~InBatch(k, x) /\ ~InSteers(k, x) /\ ~InFollow(k, x)
    BY <1>3, <2>1 DEF InBatch, InSteers, InFollow
  <2> QED BY <1>1, <2>2 DEF MailOK
<1>6. fate' = Settle({m}, "taken") /\ ran' = Enter({m}, m) /\ vouched' = vouched
  BY DEF AdmitNew
<1>7. /\ \A x \in Msgs : fate'[x] = IF x = m THEN "taken" ELSE fate[x]
      /\ \A x \in Msgs : ran'[x] = IF x = m THEN m ELSE ran[x]
  BY <1>6 DEF Settle, Enter
<1>8. fate' \in [Msgs -> Fates] /\ ran' \in [Msgs -> Msgs \union {None}]
  <2>1. "taken" \in Fates /\ fate \in [Msgs -> Fates] /\ ran \in [Msgs -> Msgs \union {None}]
    BY <1>1 DEF Fates, Types
  <2> QED BY <1>6, <2>1 DEF Settle, Enter
<1>9. ArriveInv' /\ arrived' \in Seq(Msgs)
  BY <1>1, <1>2, <1>7, ArriveOne
<1>10. PICK turn \in TurnIds({m}) : entries' = [entries EXCEPT ![k] = Running(m, turn)]
  BY DEF AdmitNew
<1>11. turn \in Seq(Msgs) /\ \A x \in ToSet(turn) : x = m
  <2>1. PICK S : S = {m}
    OBVIOUS
  <2>2. S \in SUBSET Msgs /\ IsFiniteSet(S) /\ turn \in TurnIds(S)
    BY <1>10, <2>1, FS_Singleton
  <2>3. turn \in Seq(Msgs) /\ \A x \in ToSet(turn) : x \in S
    BY <2>2, TurnIdsSeq
  <2> QED BY <2>1, <2>3
<1>12. PICK f : f = Running(m, turn)
  OBVIOUS
<1>13. /\ f \in Sessions /\ f.run = m /\ f.aborts = 0 /\ f.authorizing = 0
       /\ f.steers = <<>> /\ f.follow_ups = <<>> /\ f.turn = turn
  BY <1>11, <1>12, RunningIs
<1>14. DOMAIN f.follow_ups = {} /\ Len(f.follow_ups) = 0
  BY <1>13
<1>15. /\ Apart(f.follow_ups) /\ Len(f.follow_ups) <= Capacity
       /\ \A i \in DOMAIN f.follow_ups : ItemOK(f, f.follow_ups[i])
       /\ \A x : ~Follows(f, x)
  BY <1>14, BoundsAssumption DEF Apart, Follows
<1>16. entries' = [entries EXCEPT ![k] = f] /\ task' = [task EXCEPT ![m] = Runs(m)]
  BY <1>10, <1>12 DEF AdmitNew
<1>17. OwnCancellation(k)
  <2>1. cancellation' = [cancellation EXCEPT ![m] = FreshCancellation]
    BY DEF AdmitNew
  <2> QED BY <1>1, <2>1 DEF OwnCancellation, Types
<1>18. PermitInv'
  <2>1. task[m].phase = "none"
    BY <1>1, <1>3 DEF LifeOK
  <2>2. task'[m].phase = "opening" /\ \A u \in Msgs : u # m => task'[u] = task[u]
    BY <1>1, <1>16 DEF Types, Runs
  <2>3. ~HasPermit(m) /\ HasPermit(m)' /\ \A u \in Msgs : u # m => (HasPermit(u)' <=> HasPermit(u))
    BY <2>1, <2>2 DEF HasPermit, Live, Turns
  <2>4. \A j \in Keys : entries'[j] = Probe <=> entries[j] = Probe
    <3>1. f # Probe /\ NoHolder # Probe
      BY <1>13, SessionFields DEF Probe, NoHolder
    <3> QED BY <1>1, <1>2, <1>16, <3>1 DEF Types
  <2> QED BY <1>1, <1>2, <2>3, <2>4, PermitTaken
<1>19. FatesGrow(k)
  BY <1>3, <1>7, OfKey DEF FatesGrow
<1>20. \A x \in Msgs : x \notin Of(k) => fate'[x] = fate[x] /\ ran'[x] = ran[x]
  BY <1>1, <1>7
<1>21. \A x \in Of(k) : ~Open(x)'
  BY <1>5, <1>7, OfKey DEF Open
<1>22. \A x \in Of(k) : fate'[x] = "taken" =>
         \/ fate[x] = "taken" /\ ran'[x] = ran[x]
         \/ ran'[x] = m /\ Sender[x] = Sender[m] /\ Kind[x] # "late"
  BY <1>2, <1>7, OfKey
<1>23. \A x \in Of(k) : \A y : Through(x, y) => Through(x, y)'
  BY <1>3, <1>7, OfKey DEF Through
<1>24. fate'[m] = "taken" /\ ran'[m] = m /\ fate[m] # "taken"
  BY <1>3, <1>7
<1>25. /\ \A x \in ToSet(f.turn) : x \in Of(k) /\ fate'[x] = "taken" /\ ran'[x] = m
       /\ \A x \in ToSet(f.turn) : Sender[x] = Sender[m]
  BY <1>1, <1>11, <1>13, <1>24
<1>26. /\ \A x \in Of(k) : Open(x)' <=> Follows(f, x)
       /\ \A x : Follows(f, x) => x \in Of(k)
  BY <1>15, <1>21
<1>27. /\ \A u \in Of(k) : u # m => ~Live(u) /\ task[u].batch = <<>>
       /\ fate'[m] # "unsent" /\ (arrived' = arrived \/ \E x \in Msgs : ArrivesNow(x))
  BY <1>2, <1>4, <1>24
<1>28. /\ f \in Sessions /\ f.run = m /\ f.aborts = 0 /\ f.authorizing = 0 /\ f.steers = <<>>
       /\ Apart(f.follow_ups) /\ Len(f.follow_ups) <= Capacity
       /\ \A i \in DOMAIN f.follow_ups : ItemOK(f, f.follow_ups[i])
  BY <1>13, <1>15
<1>29. vouched' = vouched /\ m \in Of(k)
  BY <1>1, <1>6
<1>30. OpensTurn(k, m, m, f)
  BY <1>16, <1>17, <1>25, <1>27, <1>28, <1>29 DEF OpensTurn
<1>31. OpensWith(k, m, m, f)
  BY <1>8, <1>19, <1>20, <1>22, <1>23, <1>24, <1>25, <1>26, <1>27 DEF OpensWith
<1> QED BY <1>9, <1>18, <1>27, <1>30, <1>31, OpenKeeps

\* q is what waits behind an ended turn: its leftover steers, folded, then its
\* follow-ups.
Waits(q, e) ==
  /\ q \in Seq(Items) /\ Len(q) \in Nat /\ DOMAIN q = 1..Len(q) /\ Apart(q)
  /\ Len(q) <= Len(e.steers) + Len(e.follow_ups)
  /\ \A j \in DOMAIN q : /\ q[j].pending = FALSE /\ q[j].lead \in Content(q[j])
                         /\ \A x \in Content(q[j]) : Sender[x] = Sender[q[j].lead] /\ Kind[x] # "late"
  /\ \A x : (\E j \in DOMAIN q : x \in Content(q[j])) <=>
              (x \in ToSet(e.steers) /\ Kind[x] # "late") \/ Follows(e, x)

LEMMA WaitingIs ==
  ASSUME NEW k \in Keys, NEW t \in Of(k), NEW e, At(k, t, e), e.mapping # "pending",
         NEW q, q = Waiting(e)
  PROVE  Waits(q, e)
<1>1. SendOK(k) /\ e \in Sessions /\ Held(k) /\ entries[k] = e
  BY DEF At
<1>2. /\ e.steers \in Seq(Msgs) /\ e.follow_ups \in Seq(Items)
      /\ Len(e.steers) \in Nat /\ Len(e.follow_ups) \in Nat
  BY <1>1, SessionFields
<1>3. /\ Inj(e.steers) /\ Apart(e.follow_ups)
      /\ \A x : x \in ToSet(e.steers) => ~Follows(e, x)
  BY MailOf
<1>4. PICK L : L = Leftovers(e.steers)
  OBVIOUS
<1>5. LeftOver(L, e.steers)
  BY <1>2, <1>3, <1>4, LeftoversIs
<1>6. /\ L \in Seq(Items) /\ Len(L) \in Nat /\ Len(L) <= Len(e.steers) /\ Apart(L)
      /\ \A j \in DOMAIN L : L[j].pending = FALSE /\ \A m \in L[j].rest : Sender[m] = Sender[L[j].lead]
      /\ \A m : (\E j \in DOMAIN L : m \in Content(L[j])) <=> m \in ToSet(e.steers) /\ Kind[m] # "late"
  BY <1>5 DEF LeftOver
<1>7. PICK u : u = e.follow_ups
  OBVIOUS
<1>8. q = L \o u /\ u \in Seq(Items) /\ Len(u) \in Nat /\ Apart(u)
  BY <1>2, <1>3, <1>4, <1>7 DEF Waiting
<1>9. /\ q \in Seq(Items) /\ Len(q) = Len(L) + Len(u) /\ DOMAIN q = 1..(Len(L) + Len(u))
      /\ \A i \in DOMAIN L : i \in DOMAIN q /\ q[i] = L[i]
      /\ \A i \in DOMAIN u : Len(L) + i \in DOMAIN q /\ q[Len(L) + i] = u[i]
      /\ \A i \in DOMAIN q : i \in DOMAIN L \/ \E j \in DOMAIN u : i = Len(L) + j
  BY <1>6, <1>8, JoinSet
<1>10. \A i \in DOMAIN u : ItemOK(e, u[i])
  BY <1>1, <1>7 DEF SendOK
<1>11. \A x : Follows(e, x) <=> \E i \in DOMAIN u : x \in Content(u[i])
  BY <1>7 DEF Follows
<1>12. \A i \in DOMAIN q : \/ i \in DOMAIN L /\ q[i] = L[i]
                           \/ \E j \in DOMAIN u : i = Len(L) + j /\ q[i] = u[j]
  BY <1>9
<1>13. \A x : (\E j \in DOMAIN q : x \in Content(q[j])) <=>
                (\E j \in DOMAIN L : x \in Content(L[j])) \/ (\E j \in DOMAIN u : x \in Content(u[j]))
  <2> TAKE x
  <2>1. ASSUME NEW j \in DOMAIN L, x \in Content(L[j]) PROVE \E i \in DOMAIN q : x \in Content(q[i])
    BY <1>9, <2>1
  <2>2. ASSUME NEW j \in DOMAIN u, x \in Content(u[j]) PROVE \E i \in DOMAIN q : x \in Content(q[i])
    <3>1. Len(L) + j \in DOMAIN q /\ x \in Content(q[Len(L) + j])
      BY <1>9, <2>2
    <3> QED BY <3>1
  <2>3. ASSUME NEW i \in DOMAIN q, x \in Content(q[i])
        PROVE  (\E j \in DOMAIN L : x \in Content(L[j])) \/ (\E j \in DOMAIN u : x \in Content(u[j]))
    BY <1>12, <2>3
  <2> QED BY <2>1, <2>2, <2>3
<1>14. ASSUME NEW i \in DOMAIN q
       PROVE  /\ q[i].pending = FALSE /\ q[i].lead \in Content(q[i])
              /\ \A x \in Content(q[i]) : Sender[x] = Sender[q[i].lead] /\ Kind[x] # "late"
  <2>1. q[i].lead \in Content(q[i])
    BY DEF Content
  <2>2. CASE i \in DOMAIN L /\ q[i] = L[i]
    <3>1. \A x \in Content(L[i]) : Kind[x] # "late"
      BY <1>6, <2>2
    <3>2. \A x \in Content(L[i]) : Sender[x] = Sender[L[i].lead]
      BY <1>6, <2>2 DEF Content
    <3> QED BY <1>6, <2>1, <2>2, <3>1, <3>2
  <2>3. ASSUME NEW j \in DOMAIN u, q[i] = u[j]
        PROVE  /\ q[i].pending = FALSE
               /\ \A x \in Content(q[i]) : Sender[x] = Sender[q[i].lead] /\ Kind[x] # "late"
    <3>1. ItemOK(e, u[j])
      BY <1>10
    <3>2. u[j].pending \in BOOLEAN
      <4>1. u[j] \in Items
        BY <1>8
      <4> QED BY <4>1 DEF Items
    <3>3. u[j].pending = FALSE
      BY <3>1, <3>2 DEF ItemOK
    <3> QED BY <2>3, <3>1, <3>3 DEF ItemOK, Content
  <2> QED BY <1>12, <2>1, <2>2, <2>3
<1>15. Apart(q)
  <2>1. ASSUME NEW a \in DOMAIN q, NEW b \in DOMAIN q, NEW x, x \in Content(q[a]), x \in Content(q[b])
        PROVE  a = b
    <3>1. CASE a \in DOMAIN L /\ q[a] = L[a] /\ b \in DOMAIN L /\ q[b] = L[b]
      BY <1>6, <2>1, <3>1 DEF Apart
    <3>2. ASSUME NEW c \in DOMAIN u, a = Len(L) + c, q[a] = u[c],
                 NEW d \in DOMAIN u, b = Len(L) + d, q[b] = u[d]
          PROVE  a = b
      <4>1. c = d
        BY <1>8, <2>1, <3>2 DEF Apart
      <4> QED BY <3>2, <4>1
    <3>3. ASSUME NEW g \in DOMAIN L, NEW c \in DOMAIN u, x \in Content(L[g]), x \in Content(u[c])
          PROVE  FALSE
      BY <1>3, <1>6, <1>11, <3>3
    <3> QED BY <1>12, <2>1, <3>1, <3>2, <3>3
  <2> QED BY <2>1 DEF Apart
<1>16. Len(q) \in Nat /\ DOMAIN q = 1..Len(q) /\ Len(q) <= Len(e.steers) + Len(e.follow_ups)
  BY <1>2, <1>6, <1>7, <1>8, <1>9
<1>17. \A x : (\E j \in DOMAIN q : x \in Content(q[j])) <=>
                (x \in ToSet(e.steers) /\ Kind[x] # "late") \/ Follows(e, x)
  BY <1>6, <1>11, <1>13
<1> QED BY <1>9, <1>14, <1>15, <1>16, <1>17 DEF Waits

\* What the end of a turn makes of the items G that lost their route and of
\* the late forwards that nothing holds.
Lapses(s, G, e) ==
  \A x \in Msgs : s[x] = IF x \in G THEN "routelost"
                         ELSE IF x \in ToSet(e.steers) /\ Kind[x] = "late" THEN "unheld" ELSE fate[x]

LEMMA LapsesIs ==
  ASSUME NEW G, NEW e, NEW s, \A x \in G : Kind[x] # "late",
         s = [m \in Msgs |-> CASE m \in G -> "routelost"
                               [] m \in {l \in ToSet(e.steers) : Kind[l] = "late"} -> "unheld"
                               [] OTHER -> fate[m]]
  PROVE  Lapses(s, G, e) /\ DOMAIN s = Msgs /\ s = [m \in Msgs |-> s[m]]
<1>1. PICK U : U = {l \in ToSet(e.steers) : Kind[l] = "late"}
  OBVIOUS
<1>2. \A x : x \in U <=> x \in ToSet(e.steers) /\ Kind[x] = "late"
  BY <1>1
<1>3. s = [m \in Msgs |-> CASE m \in G -> "routelost" [] m \in U -> "unheld" [] OTHER -> fate[m]]
  BY <1>1
<1>4. ASSUME NEW x \in Msgs
      PROVE  s[x] = IF x \in G THEN "routelost" ELSE IF x \in U THEN "unheld" ELSE fate[x]
  <2>1. s[x] = CASE x \in G -> "routelost" [] x \in U -> "unheld" [] OTHER -> fate[x]
    BY <1>3
  <2>2. CASE x \in G /\ x \notin U
    BY <2>1, <2>2
  <2>3. CASE x \notin G
    BY <2>1, <2>3
  <2> QED BY <1>2, <2>2, <2>3
<1>5. DOMAIN s = Msgs /\ s = [m \in Msgs |-> s[m]]
  BY <1>3
<1> QED BY <1>2, <1>4, <1>5 DEF Lapses

LEMMA ReleaseKeeps ==
  ASSUME NEW t \in Msgs, NEW k \in Keys, k = KeyOf[t], t \in Of(k), Good(k), Typed', NEW e, At(k, t, e),
         task[t].phase = "ended", NEW q, Waits(q, e),
         entries' = [entries EXCEPT ![k] = NoHolder], task' = [task EXCEPT ![t].phase = "dropping"],
         UNCHANGED <<permits, cancellation, ran, arrived, vouched>>,
         NEW G, G = ContentOf(q, 1..Len(q)), NEW s, Lapses(s, G, e), fate' = s, DOMAIN s = Msgs,
         s = [m \in Msgs |-> s[m]]
  PROVE  Keeps(k)
<1>1. /\ Types /\ LifeOK(k) /\ PermitInv /\ e \in Sessions /\ task[t] \in TaskRecords /\ Held(k)
      /\ Live(t) /\ entries[k] = e
  BY DEF At, Good, Live, Turns
<1>2. task[t].batch = <<>>
  BY <1>1 DEF LifeOK
<1>3. \A x \in Of(k) : Open(x) <=> x \in ToSet(e.steers) \/ Follows(e, x)
  BY <1>2, MailOf, NoElements
<1>4. \A x : x \in ToSet(e.steers) \/ Follows(e, x) => x \in Of(k)
  BY MailOf
<1>5. \A x : x \in G <=> (x \in ToSet(e.steers) /\ Kind[x] # "late") \/ Follows(e, x)
  <2>1. \A x : x \in G <=> \E j \in DOMAIN q : x \in Content(q[j])
    BY DEF ContentOf, Waits
  <2> QED BY <2>1 DEF Waits
<1>6. \A x \in Msgs : fate'[x] = IF x \in G THEN "routelost"
                                 ELSE IF x \in ToSet(e.steers) /\ Kind[x] = "late" THEN "unheld" ELSE fate[x]
  BY DEF Lapses
<1>7. \A x \in Msgs : IF x \in Of(k) /\ Open(x) THEN fate'[x] \in {"aborted", "routelost", "unheld"}
                                                ELSE fate'[x] = fate[x]
  BY <1>3, <1>4, <1>5, <1>6
<1>8. fate' \in [Msgs -> Fates]
  <2>1. "routelost" \in Fates /\ "unheld" \in Fates /\ fate \in [Msgs -> Fates]
    BY <1>1 DEF Fates, Types
  <2>2. \A x \in Msgs : s[x] \in Fates
    BY <1>6, <2>1
  <2>3. s \in [Msgs -> Fates]
    BY <2>2
  <2> QED BY <2>3
<1>9. PICK r : r = [task[t] EXCEPT !.phase = "dropping"]
  OBVIOUS
<1>10. r \in TaskRecords /\ r.phase = "dropping" /\ r.run = task[t].run /\ r.batch = <<>>
  <2>1. "dropping" \in Phases
    BY DEF Phases
  <2> QED BY <1>1, <1>2, <1>9, <2>1, TaskChanges
<1>11. task' = [task EXCEPT ![t] = r] /\ OwnCancellation(k)
  BY <1>9 DEF OwnCancellation
<1>12. PermitInv'
  <2>1. task'[t] = r /\ \A u \in Msgs : u # t => task'[u] = task[u]
    BY <1>1, <1>11 DEF Types
  <2>2. \A u \in Msgs : HasPermit(u)' <=> HasPermit(u)
    BY <1>1, <1>10, <2>1 DEF HasPermit, Live, Turns
  <2>3. \A j \in Keys : entries'[j] = Probe <=> entries[j] = Probe
    BY <1>1, HeldIs DEF Types, NoHolder, Probe
  <2> QED BY <1>1, <2>2, <2>3, PermitSame
<1>13. Frees(k, t, r)
  BY <1>7, <1>8, <1>10, <1>11, <1>12 DEF Frees
<1> QED BY <1>1, <1>13, FreeKeeps

LEMMA NextKeeps ==
  ASSUME NEW t \in Msgs, NEW k \in Keys, k = KeyOf[t], t \in Of(k), Good(k), Typed', NEW e, At(k, t, e),
         task[t].phase = "ended", NEW q, Waits(q, e), NEW n \in 1..Len(q), NEW d, NEW f,
         Opens(f, q, n, d), \A j \in (n + 1)..d : Sender[q[j].lead] = Sender[q[n].lead],
         entries' = [entries EXCEPT ![k] = f], task' = [task EXCEPT ![t] = Runs(q[n].lead)],
         cancellation' = [cancellation EXCEPT ![q[n].lead] = FreshCancellation],
         UNCHANGED <<permits, arrived, vouched>>,
         ran' = Enter(ContentOf(q, n..d), q[n].lead), fate' \in [Msgs -> Fates],
         NEW s, Lapses(s, ContentOf(q, 1..(n - 1)), e),
         \A x \in Msgs : fate'[x] = IF x \in ContentOf(q, n..d) THEN "taken" ELSE s[x]
  PROVE  Keeps(k)
<1>1. /\ Types /\ ArriveInv /\ LifeOK(k) /\ PermitInv /\ e \in Sessions /\ Held(k) /\ Live(t)
      /\ entries[k] = e /\ Depth(e) <= Capacity /\ e.authorizing = Len(task[t].batch)
  BY DEF At, Good, Live, Turns
<1>2. task[t].batch = <<>>
  BY <1>1 DEF LifeOK
<1>3. \A x \in Of(k) : Open(x) <=> x \in ToSet(e.steers) \/ Follows(e, x)
  BY <1>2, MailOf, NoElements
<1>4. \A x : /\ x \in ToSet(e.steers) \/ Follows(e, x) => x \in Of(k)
             /\ x \in ToSet(e.steers) => ~Follows(e, x)
  BY MailOf
<1>5. /\ q \in Seq(Items) /\ Len(q) \in Nat /\ DOMAIN q = 1..Len(q) /\ Apart(q)
      /\ Len(q) <= Len(e.steers) + Len(e.follow_ups)
      /\ \A j \in DOMAIN q : /\ q[j].pending = FALSE /\ q[j].lead \in Content(q[j])
                             /\ \A x \in Content(q[j]) : Sender[x] = Sender[q[j].lead] /\ Kind[x] # "late"
      /\ \A x : (\E j \in DOMAIN q : x \in Content(q[j])) <=>
                  (x \in ToSet(e.steers) /\ Kind[x] # "late") \/ Follows(e, x)
  BY DEF Waits
<1>6. /\ f \in Sessions /\ f.run = q[n].lead /\ f.aborts = 0 /\ f.authorizing = 0 /\ f.steers = <<>>
      /\ d \in n..Len(q) /\ f.follow_ups \in Seq(Items) /\ Len(f.follow_ups) = Len(q) - d
      /\ \A i \in 1..(Len(q) - d) : f.follow_ups[i] = q[d + i]
      /\ \A m \in ToSet(f.turn) : m \in ContentOf(q, n..d)
  BY DEF Opens
<1>7. n \in Nat /\ d \in Nat /\ n <= d /\ d <= Len(q) /\ n \in DOMAIN q /\ n \in n..d
  BY <1>5, <1>6
<1>8. PICK taken : taken = ContentOf(q, n..d)
  OBVIOUS
<1>9. PICK gone : gone = ContentOf(q, 1..(n - 1))
  OBVIOUS
<1>10. /\ \A x : x \in taken <=> \E j \in n..d : x \in Content(q[j])
       /\ \A x : x \in gone <=> \E j \in 1..(n - 1) : x \in Content(q[j])
  BY <1>8, <1>9 DEF ContentOf
<1>11. DOMAIN f.follow_ups = 1..(Len(q) - d)
  BY <1>6
<1>12. \A j \in n..d : j \in DOMAIN q
  BY <1>5, <1>7
<1>13. \A i \in DOMAIN f.follow_ups : d + i \in DOMAIN q /\ f.follow_ups[i] = q[d + i] /\ d + i > d
  <2> DEFINE c == Len(q)
  <2>1. c \in Nat /\ d \in Nat /\ d <= c
    BY <1>5, <1>7
  <2>2. /\ DOMAIN q = 1..c /\ DOMAIN f.follow_ups = 1..(c - d)
        /\ \A i \in 1..(c - d) : f.follow_ups[i] = q[d + i]
    BY <1>5, <1>6, <1>11
  <2> HIDE DEF c
  <2>3. \A i \in 1..(c - d) : d + i \in 1..c /\ d + i > d
    BY <2>1
  <2> QED BY <2>2, <2>3
<1>14. \A j \in DOMAIN q : j \in 1..(n - 1) \/ j \in n..d \/ \E i \in DOMAIN f.follow_ups : j = d + i
  <2> TAKE j \in DOMAIN q
  <2>1. j \in Nat /\ 1 <= j /\ j <= Len(q)
    BY <1>5
  <2>2. CASE j <= d
    BY <1>7, <2>1, <2>2
  <2>3. CASE j > d
    <3>1. j - d \in 1..(Len(q) - d) /\ j = d + (j - d)
      BY <1>5, <1>7, <2>1, <2>3
    <3> QED BY <1>11, <3>1
  <2> QED BY <1>7, <2>1, <2>2, <2>3
<1>15. \A x : Follows(f, x) <=> \E i \in DOMAIN f.follow_ups : x \in Content(q[d + i])
  BY <1>13 DEF Follows
<1>16. \A x : (x \in ToSet(e.steers) /\ Kind[x] # "late") \/ Follows(e, x) <=>
                x \in gone \/ x \in taken \/ Follows(f, x)
  <2> TAKE x
  <2>1. ASSUME NEW j \in DOMAIN q, x \in Content(q[j])
        PROVE  x \in gone \/ x \in taken \/ Follows(f, x)
    BY <1>10, <1>14, <1>15, <2>1
  <2>2. ASSUME x \in gone \/ x \in taken \/ Follows(f, x)
        PROVE  \E j \in DOMAIN q : x \in Content(q[j])
    <3>1. \A j \in 1..(n - 1) : j \in DOMAIN q
      BY <1>5, <1>7
    <3> QED BY <1>10, <1>12, <1>13, <1>15, <2>2, <3>1
  <2> QED BY <1>5, <2>1, <2>2
<1>17. \A x : ~(x \in gone /\ Follows(f, x)) /\ ~(x \in taken /\ Follows(f, x))
  <2> TAKE x
  <2>1. ASSUME NEW j \in 1..d, x \in Content(q[j]), Follows(f, x)
        PROVE  FALSE
    <3>1. PICK i \in DOMAIN f.follow_ups : x \in Content(q[d + i])
      BY <1>15, <2>1
    <3>2. j \in DOMAIN q /\ d + i \in DOMAIN q
      BY <1>5, <1>7, <1>13
    <3>3. j = d + i
      BY <1>5, <2>1, <3>1, <3>2 DEF Apart
    <3>4. j <= d /\ d + i > d
      BY <1>13
    <3> QED BY <1>7, <3>2, <3>3, <3>4
  <2>2. \A j : j \in 1..(n - 1) \/ j \in n..d => j \in 1..d
    BY <1>7
  <2> QED BY <1>10, <2>1, <2>2
<1>18. \A x \in Msgs : fate'[x] = IF x \in taken THEN "taken"
                                  ELSE IF x \in gone THEN "routelost"
                                  ELSE IF x \in ToSet(e.steers) /\ Kind[x] = "late" THEN "unheld"
                                  ELSE fate[x]
  BY <1>8, <1>9 DEF Lapses
<1>19. PICK lead : lead = q[n].lead
  OBVIOUS
<1>20. /\ lead \in taken /\ \A x \in taken : Sender[x] = Sender[lead] /\ Kind[x] # "late"
  <2>1. lead \in taken
    BY <1>5, <1>7, <1>10, <1>19
  <2>2. ASSUME NEW x \in taken PROVE Sender[x] = Sender[lead] /\ Kind[x] # "late"
    <3>1. PICK j \in n..d : x \in Content(q[j])
      BY <1>10
    <3>2. Sender[x] = Sender[q[j].lead] /\ Kind[x] # "late"
      BY <1>5, <1>12, <3>1
    <3>3. j = n \/ j \in (n + 1)..d
      BY <1>7
    <3> QED BY <1>19, <3>2, <3>3
  <2> QED BY <2>1, <2>2
<1>21. \A x \in taken : x \in Of(k) /\ Open(x) /\ x \in Msgs
  BY <1>3, <1>4, <1>16, OfKey
<1>22. lead \in Of(k) /\ lead \in Msgs
  BY <1>20, <1>21
<1>23. \A x \in Msgs : ran'[x] = IF x \in taken THEN lead ELSE ran[x]
  BY <1>8, <1>19 DEF Enter
<1>24. ran' \in [Msgs -> Msgs \union {None}]
  <2>1. ran' = Enter(taken, lead) /\ ran \in [Msgs -> Msgs \union {None}]
    BY <1>1, <1>8, <1>19 DEF Types
  <2> QED BY <1>22, <2>1 DEF Enter
<1>25. \A x \in Of(k) : ~Open(x) => fate'[x] = fate[x] /\ ran'[x] = ran[x]
  BY <1>3, <1>16, <1>18, <1>21, <1>23, OfKey
<1>26. \A x \in Of(k) : Open(x) => (Open(x)' <=> Follows(f, x)) /\ fate'[x] # "unsent"
  <2> TAKE x \in Of(k)
  <2>1. CASE Follows(f, x)
    <3>1. x \notin taken /\ x \notin gone /\ (x \in ToSet(e.steers) => Kind[x] # "late")
      BY <1>4, <1>16, <1>17, <2>1
    <3> QED BY <1>18, <2>1, <3>1, OfKey DEF Open
  <2>2. CASE ~Follows(f, x)
    <3>1. Open(x) => x \in taken \/ x \in gone \/ (x \in ToSet(e.steers) /\ Kind[x] = "late")
      BY <1>3, <1>16, <2>2
    <3> QED BY <1>18, <2>2, <3>1, OfKey DEF Open
  <2> QED BY <2>1, <2>2
<1>27. /\ \A x \in Of(k) : Open(x)' <=> Follows(f, x)
       /\ \A x : Follows(f, x) => x \in Of(k) /\ Open(x)
  <2>1. \A x : Follows(f, x) => x \in Of(k) /\ Open(x)
    BY <1>3, <1>4, <1>16
  <2>2. \A x \in Of(k) : ~Open(x) => ~Open(x)'
    BY <1>25 DEF Open
  <2> QED BY <1>26, <2>1, <2>2
<1>28. FatesGrow(k)
  <2>1. \A x \in Of(k) : fate[x] = "taken" => ~Open(x)
    BY DEF Open
  <2> QED BY <1>25, <1>26, <2>1 DEF FatesGrow
<1>29. \A x \in Msgs : x \notin Of(k) => fate'[x] = fate[x] /\ ran'[x] = ran[x]
  BY <1>4, <1>16, <1>18, <1>23
<1>30. \A x \in Msgs : fate'[x] = "unsent" <=> fate[x] = "unsent"
  <2>1. \A x : fate[x] = "unsent" => ~Open(x)
    BY DEF Open
  <2> QED BY <1>25, <1>26, <1>29, <2>1
<1>31. /\ \A x \in ToSet(f.turn) : x \in Of(k) /\ fate'[x] = "taken" /\ ran'[x] = lead
       /\ \A x \in ToSet(f.turn) : Sender[x] = Sender[lead]
  BY <1>6, <1>8, <1>18, <1>20, <1>21, <1>23
<1>32. \A x \in Of(k) : fate'[x] = "taken" =>
         \/ fate[x] = "taken" /\ ran'[x] = ran[x]
         \/ ran'[x] = lead /\ Sender[x] = Sender[lead] /\ Kind[x] # "late"
  <2> TAKE x \in Of(k)
  <2>1. CASE x \in taken
    BY <1>20, <1>23, <2>1, OfKey
  <2>2. CASE x \notin taken
    BY <1>18, <1>23, <2>2, OfKey
  <2> QED BY <2>1, <2>2
<1>33. \A x \in Of(k) : \A y : Through(x, y) => Through(x, y)'
  <2> SUFFICES ASSUME NEW x \in Of(k), NEW y, Through(x, y) PROVE Through(x, y)'
    OBVIOUS
  <2>1. fate'[x] = fate[x] /\ ran'[x] = ran[x]
    BY <1>25, ThroughClosed
  <2> QED BY <2>1 DEF Through
<1>34. fate'[lead] = "taken" /\ fate[lead] # "taken" /\ fate'[t] # "unsent"
  <2>1. fate[t] # "unsent"
    BY <1>1 DEF LifeOK
  <2> QED BY <1>18, <1>20, <1>21, <1>22, <1>30, <2>1 DEF Open
<1>35. OpensWith(k, t, lead, f)
  BY <1>24, <1>27, <1>28, <1>29, <1>31, <1>32, <1>33, <1>34 DEF OpensWith
<1>36. Apart(f.follow_ups)
  <2>1. ASSUME NEW a \in DOMAIN f.follow_ups, NEW b \in DOMAIN f.follow_ups, NEW x,
               x \in Content(f.follow_ups[a]), x \in Content(f.follow_ups[b])
        PROVE  a = b
    <3>1. d + a \in DOMAIN q /\ d + b \in DOMAIN q /\ x \in Content(q[d + a]) /\ x \in Content(q[d + b])
      BY <1>13, <2>1
    <3>2. d + a = d + b
      BY <1>5, <3>1 DEF Apart
    <3>3. a \in Nat /\ b \in Nat
      BY <1>11
    <3> QED BY <1>7, <3>2, <3>3
  <2> QED BY <2>1 DEF Apart
<1>37. Len(f.follow_ups) <= Capacity
  <2> DEFINE a == Len(e.steers)
             b == Len(e.follow_ups)
             c == Len(q)
  <2>1. a \in Nat /\ b \in Nat /\ c \in Nat /\ c <= a + b /\ Len(f.follow_ups) = c - d
    <3>1. a \in Nat /\ b \in Nat
      BY <1>1, SessionFields
    <3>2. c \in Nat /\ c <= a + b
      BY <1>5
    <3> QED BY <1>6, <3>1, <3>2
  <2>2. Depth(e) = a + b + 0
    BY <1>1, <1>2, NoElements DEF Depth
  <2> HIDE DEF a, b, c
  <2> QED BY <1>1, <1>7, <2>1, <2>2, BoundsAssumption
<1>38. ASSUME NEW i \in DOMAIN f.follow_ups PROVE ItemOK(f, f.follow_ups[i])
  <2>1. PICK item : item = q[d + i]
    OBVIOUS
  <2>2. /\ f.follow_ups[i] = item /\ item.pending = FALSE
        /\ \A x \in Content(item) : Sender[x] = Sender[item.lead] /\ Kind[x] # "late"
    BY <1>5, <1>13, <2>1
  <2>3. ItemOK(f, item)
    BY <2>2 DEF ItemOK, Content
  <2> QED BY <2>2, <2>3
<1>39. OwnCancellation(k)
  <2>1. \A x \in Msgs : x # lead => cancellation'[x] = cancellation[x]
    BY <1>1, <1>19 DEF Types
  <2> QED BY <1>22, <2>1 DEF OwnCancellation
<1>40. \A u \in Of(k) : u # t => ~Live(u) /\ task[u].batch = <<>>
  BY <1>1, HolderIs
<1>41. OpensTurn(k, t, lead, f)
  <2>1. task' = [task EXCEPT ![t] = Runs(lead)] /\ f.run = lead /\ vouched' = vouched
    BY <1>6, <1>19
  <2> QED BY <1>6, <1>22, <1>31, <1>36, <1>37, <1>38, <1>39, <1>40, <2>1 DEF OpensTurn
<1>42. PermitInv'
  <2>1. task'[t].phase = "opening" /\ \A u \in Msgs : u # t => task'[u] = task[u]
    BY <1>1 DEF Types, Runs
  <2>2. \A u \in Msgs : HasPermit(u)' <=> HasPermit(u)
    BY <1>1, <2>1 DEF HasPermit, Live, Turns
  <2>3. f # Probe /\ entries[k] # Probe
    BY <1>1, <1>6, SessionFields DEF Probe
  <2>4. \A j \in Keys : entries'[j] = Probe <=> entries[j] = Probe
    BY <1>1, <2>3 DEF Types
  <2> QED BY <1>1, <2>2, <2>4, PermitSame
<1>43. ArriveInv' /\ arrived' \in Seq(Msgs)
  BY <1>1, <1>30, ArriveSame DEF Types
<1> QED BY <1>35, <1>41, <1>42, <1>43, OpenKeeps

LEMMA NextOrReleaseKeeps ==
  ASSUME NEW t \in Msgs, NEW lost, NEW k \in Keys, k = KeyOf[t], Good(k), Typed', NextOrRelease(t, lost)
  PROVE  Keeps(k)
<1>1. PICK e : e = entries[k]
  OBVIOUS
<1>2. t \in Of(k) /\ Live(t) /\ task[t].phase = "ended"
  BY OfKey DEF NextOrRelease, Live, Turns
<1>3. At(k, t, e)
  BY <1>1, <1>2, TaskHolds
<1>4. e.mapping # "pending" /\ fate \in [Msgs -> Fates] /\ arrived \in Seq(Msgs)
  BY <1>1, <1>2, <1>3 DEF At, LifeOK, Turns, Types
<1>5. PICK q : q = Waiting(e)
  OBVIOUS
<1>6. Waits(q, e)
  BY <1>2, <1>3, <1>4, <1>5, WaitingIs
<1>7. q \in Seq(Items) /\ Len(q) \in Nat /\ lost \in 0..Len(q)
  <2>1. q \in Seq(Items) /\ Len(q) \in Nat
    BY <1>6 DEF Waits
  <2>2. lost \in 0..(Len(q) - 1) \/ lost = Len(q)
    BY <1>1, <1>5 DEF NextOrRelease
  <2> QED BY <2>1, <2>2
<1>8. PICK n : n = lost + 1
  OBVIOUS
<1>9. PICK G : G = ContentOf(q, 1..lost)
  OBVIOUS
<1>10. PICK settled : settled = [m \in Msgs |-> CASE m \in G -> "routelost"
                                                 [] m \in {l \in ToSet(e.steers) : Kind[l] = "late"} -> "unheld"
                                                 [] OTHER -> fate[m]]
  OBVIOUS
<1>0. Lapses(settled, G, e) /\ DOMAIN settled = Msgs /\ settled = [m \in Msgs |-> settled[m]]
  <2>1. 1..lost \subseteq DOMAIN q
    BY <1>6, <1>7 DEF Waits
  <2>2. \A x \in G : Kind[x] # "late"
    BY <1>6, <1>9, <2>1 DEF Waits, ContentOf
  <2> QED BY <1>10, <2>2, LapsesIs
<1>11. /\ UNCHANGED <<permits, arrived, vouched>>
       /\ \/ /\ lost \in 0..(Len(q) - 1)
             /\ \E turn \in TurnIds(ContentOf(q, n..(FoldEnd(q, n) - 1))) :
                  entries' = [entries EXCEPT ![k] = NextTurn(q, n, turn)]
             /\ cancellation' = [cancellation EXCEPT ![q[n].lead] = FreshCancellation]
             /\ task' = [task EXCEPT ![t] = Runs(q[n].lead)]
             /\ fate' = [m \in Msgs |-> IF m \in ContentOf(q, n..(FoldEnd(q, n) - 1)) THEN "taken"
                                        ELSE settled[m]]
             /\ ran' = Enter(ContentOf(q, n..(FoldEnd(q, n) - 1)), q[n].lead)
          \/ /\ lost = Len(q)
             /\ entries' = [entries EXCEPT ![k] = NoHolder]
             /\ task' = [task EXCEPT ![t].phase = "dropping"]
             /\ fate' = settled
             /\ UNCHANGED <<cancellation, ran>>
  BY <1>1, <1>5, <1>8, <1>9, <1>10 DEF NextOrRelease
<1>12. ASSUME lost \in 0..(Len(q) - 1),
              \E turn \in TurnIds(ContentOf(q, n..(FoldEnd(q, n) - 1))) :
                entries' = [entries EXCEPT ![k] = NextTurn(q, n, turn)],
              cancellation' = [cancellation EXCEPT ![q[n].lead] = FreshCancellation],
              task' = [task EXCEPT ![t] = Runs(q[n].lead)],
              fate' = [m \in Msgs |-> IF m \in ContentOf(q, n..(FoldEnd(q, n) - 1)) THEN "taken"
                                        ELSE settled[m]],
              ran' = Enter(ContentOf(q, n..(FoldEnd(q, n) - 1)), q[n].lead)
       PROVE  Keeps(k)
  <2>0. lost \in 0..(Len(q) - 1)
    BY <1>12, Zenon
  <2>1. n \in 1..Len(q) /\ n - 1 = lost
    BY <1>7, <1>8, <2>0
  <2>2. PICK d : d = FoldEnd(q, n) - 1
    OBVIOUS
  <2>3. PICK C : C = ContentOf(q, n..d)
    OBVIOUS
  <2>31. PICK turn \in TurnIds(C) : entries' = [entries EXCEPT ![k] = NextTurn(q, n, turn)]
    BY <1>12, <2>2, <2>3
  <2>32. PICK f : f = NextTurn(q, n, turn)
    OBVIOUS
  <2>33. IsFiniteSet(C)
    <3>1. Inj(arrived) /\ MailOK(k) /\ ArriveInv
      BY <1>3 DEF At, ArriveInv
    <3>2. d \in n..Len(q)
      <4>1. FoldEnd(q, n) \in (n + 1)..(Len(q) + 1)
        BY <1>7, <2>1, FoldEndIs
      <4> QED BY <1>7, <2>1, <2>2, <4>1
    <3>3. \A j \in n..d : j \in DOMAIN q
      BY <1>7, <2>1, <3>2
    <3>4. \A x \in C : x \in ToSet(e.steers) \/ Follows(e, x)
      BY <1>6, <2>3, <3>3 DEF Waits, ContentOf
    <3>5. C \in SUBSET ToSet(arrived)
      BY <1>2, <1>3, <3>4, StandsArrived
    <3>6. IsFiniteSet(ToSet(arrived))
      BY <1>4, <3>1, InjCard
    <3> QED BY <3>5, <3>6, FS_Subset
  <2>4. Opens(f, q, n, d)
    BY <1>7, <2>1, <2>2, <2>3, <2>31, <2>32, <2>33, NextTurnIs
  <2>5. \A j \in (n + 1)..d : Sender[q[j].lead] = Sender[q[n].lead]
    BY <1>7, <2>1, <2>2, FoldEndIs
  <2>6. \A x \in Msgs : fate'[x] = IF x \in ContentOf(q, n..d) THEN "taken" ELSE settled[x]
    BY <1>12, <2>2
  <2>7. fate' \in [Msgs -> Fates]
    <3>1. "taken" \in Fates /\ "routelost" \in Fates /\ "unheld" \in Fates
      BY DEF Fates
    <3>2. \A x \in Msgs : settled[x] \in Fates
      BY <1>0, <1>4, <3>1 DEF Lapses
    <3>3. \A x \in Msgs : fate'[x] \in Fates
      BY <2>6, <3>1, <3>2
    <3> QED BY <1>12, <3>3
  <2>8. entries' = [entries EXCEPT ![k] = f] /\ ran' = Enter(ContentOf(q, n..d), q[n].lead)
    BY <1>12, <2>2, <2>31, <2>32
  <2>9. Lapses(settled, ContentOf(q, 1..(n - 1)), e) /\ UNCHANGED <<permits, arrived, vouched>>
    BY <1>0, <1>9, <1>11, <2>1
  <2> QED BY <1>2, <1>3, <1>6, <1>12, <2>1, <2>4, <2>5, <2>6, <2>7, <2>8, <2>9, NextKeeps
<1>13. ASSUME lost = Len(q), entries' = [entries EXCEPT ![k] = NoHolder],
              task' = [task EXCEPT ![t].phase = "dropping"], fate' = settled,
              UNCHANGED <<cancellation, ran>>
       PROVE  Keeps(k)
  <2>1. G = ContentOf(q, 1..Len(q))
    BY <1>9, <1>13
  <2> QED BY <1>0, <1>2, <1>3, <1>6, <1>11, <1>13, <2>1, ReleaseKeeps
<1> QED BY <1>11, <1>12, <1>13

------------------------------------------------------------------------------
(* The invariant of all conversations, from the step of one. *)

LEMMA GateGood ==
  ASSUME GateInv, NEW k \in Keys
  PROVE  Good(k)
BY DEF GateInv, Good, Parts, Later

LEMMA LocalOrder ==
  ASSUME GateInv, NEW k \in Keys, Keeps(k), NEW j \in Keys, j # k
  PROVE  OrderOK(j)'
<1>1. Types /\ ArriveInv /\ MailOK(j) /\ OrderOK(j)
  BY DEF GateInv
<1>2. entries'[j] = entries[j] /\ (Held(j)' <=> Held(j))
  BY LocalFrame DEF Keeps
<1>3. CASE ~Held(j)
  BY <1>2, <1>3 DEF OrderOK
<1>4. CASE Held(j)
  <2>1. PICK s : s = entries[j].steers
    OBVIOUS
  <2>2. s \in Seq(Msgs) /\ Sorted(s)
    <3>1. entries[j] \in Sessions
      BY <1>1, <1>4, HeldIs
    <3> QED BY <1>1, <1>4, <2>1, <3>1 DEF OrderOK, Sessions
  <2>3. \A x : x \in ToSet(s) => x \in ToSet(arrived)
    BY <1>1, <1>4, <2>1, MailArrived DEF InSteers
  <2>4. CASE arrived' = arrived
    <3>1. Sorted(s)'
      BY <2>2, <2>4, SortedSame
    <3> QED BY <1>2, <2>1, <3>1 DEF OrderOK, Sorted
  <2>5. CASE \E m \in Msgs : ArrivesNow(m)
    <3>1. PICK m \in Msgs : ArrivesNow(m)
      BY <2>5
    <3>2. arrived \in Seq(Msgs) /\ m \notin ToSet(arrived) /\ arrived' = Append(arrived, m)
      BY <1>1, <3>1 DEF Types, ArriveInv, ArrivesNow
    <3>3. Sorted(s)'
      BY <2>2, <2>3, <3>2, SortedOne
    <3> QED BY <1>2, <2>1, <3>3 DEF OrderOK, Sorted
  <2> QED BY <2>4, <2>5 DEF Keeps
<1> QED BY <1>3, <1>4

LEMMA GateStep ==
  ASSUME GateInv, NEW k \in Keys, Keeps(k)
  PROVE  GateInv'
<1>1. Good(k)' /\ Local(k)
  BY DEF Keeps
<1>2. ASSUME NEW j \in Keys
      PROVE  Parts(j)' /\ Later(j)'
  <2>1. CASE j = k
    BY <1>1, <2>1 DEF Good
  <2>2. CASE j # k
    <3>1. Good(j)
      BY GateGood
    <3>2. Parts(j) /\ InterruptOK(j) /\ LateOK(j)
      BY <3>1 DEF Good, Later
    <3>3. Parts(j)' /\ InterruptOK(j)' /\ LateOK(j)'
      BY <1>1, <2>2, <3>2, LocalParts, LocalLater
    <3>4. OrderOK(j)'
      BY <2>2, LocalOrder
    <3> QED BY <3>3, <3>4 DEF Later
  <2> QED BY <2>1, <2>2
<1> QED BY <1>1, <1>2 DEF GateInv, Good, Parts, Later

\* The gate that has admitted nothing.
LEMMA GateInit == Init => GateInv
<1> SUFFICES ASSUME Init PROVE GateInv
  OBVIOUS
<1>1. /\ entries \in [Keys -> {NoHolder, Probe} \union Sessions] /\ \A k \in Keys : entries[k] = NoHolder
      /\ permits = Permits /\ permits \in Nat /\ permits \in Int
      /\ \A m \in Msgs : fate[m] = "unsent" /\ task[m] = IdleTask
      /\ arrived = <<>> /\ vouched = {}
  BY BoundsAssumption DEF Init
<1>2. IdleTask \in TaskRecords /\ IdleTask.phase = "none" /\ IdleTask.batch = <<>>
  BY DEF IdleTask, TaskRecords, Phases
<1>3. Types
  <2>1. task \in [Msgs -> TaskRecords]
    BY <1>2 DEF Init
  <2>2. cancellation \in [Msgs -> Cancellations]
    BY StopInit DEF StopInv
  <2>3. fate \in [Msgs -> Fates] /\ ran \in [Msgs -> Msgs \union {None}]
    BY DEF Init, Fates
  <2> QED BY <1>1, <2>1, <2>2, <2>3 DEF Types
<1>4. \A k \in Keys : ~Held(k) /\ entries[k] # Probe
  BY <1>1 DEF Held, NoHolder, Probe
<1>5. \A m \in Msgs : ~Live(m) /\ ~HasPermit(m) /\ ~Open(m) /\ task[m].phase = "none" /\ task[m].batch = <<>>
  BY <1>1, <1>2 DEF Live, HasPermit, Turns, Open
<1>6. \A m \in Msgs : \A x : x \notin ToSet(task[m].batch)
  BY <1>5, NoElements
<1>7. ArriveInv
  <2>1. Inj(arrived) /\ \A x : x \notin ToSet(arrived)
    BY <1>1, NoElements DEF Inj
  <2> QED BY <1>1, <2>1 DEF ArriveInv
<1>8. PermitInv
  <2>1. Holders = {} /\ Probes = {}
    BY <1>4, <1>5 DEF Holders, Probes
  <2>2. IsFiniteSet({}) /\ Cardinality({}) = 0
    BY FS_EmptySet
  <2>3. /\ IsFiniteSet(Holders) /\ Cardinality(Holders) = 0
        /\ IsFiniteSet(Probes) /\ Cardinality(Probes) = 0
    BY <2>1, <2>2
  <2>4. permits + 0 + 0 = Permits
    BY <1>1
  <2> QED BY <1>1, <2>3, <2>4 DEF PermitInv
<1>9. ASSUME NEW k \in Keys
      PROVE  LifeOK(k) /\ MailOK(k) /\ BoundOK(k) /\ SendOK(k) /\ InterruptOK(k) /\ LateOK(k) /\ OrderOK(k)
  <2>1. ~Held(k) /\ \A t \in Of(k) : /\ t \in Msgs /\ task[t].phase = "none" /\ ~Live(t) /\ ~Open(t)
                                     /\ fate[t] = "unsent" /\ task[t].batch = <<>>
    BY <1>1, <1>4, <1>5, OfKey
  <2>2. \A x : ~InSteers(k, x) /\ ~InFollow(k, x) /\ ~InBatch(k, x)
    BY <1>6, <2>1 DEF InSteers, InFollow, InBatch
  <2>3. LifeOK(k)
    BY <2>1 DEF LifeOK, Turns
  <2>4. MailOK(k)
    BY <2>1, <2>2 DEF MailOK, Inj
  <2>5. BoundOK(k) /\ InterruptOK(k) /\ OrderOK(k)
    BY <2>1 DEF BoundOK, InterruptOK, OrderOK
  <2>6. SendOK(k) /\ LateOK(k)
    BY <1>6, <2>1 DEF SendOK, LateOK
  <2> QED BY <2>3, <2>4, <2>5, <2>6
<1> QED BY <1>3, <1>7, <1>8, <1>9 DEF GateInv

\* A step of the gateway loop for one message, or of one session task.
LEMMA GatewayKeeps ==
  ASSUME NEW m \in Msgs, NEW k \in Keys, k = KeyOf[m], Good(k), Typed', Admit(m) \/ Enrich(m)
  PROVE  Keeps(k)
<1>1. CASE AdmitNew(m)
  BY <1>1, AdmitNewKeeps
<1>2. CASE AdmitRefused(m)
  BY <1>2, AdmitRefusedKeeps
<1>3. CASE AdmitBatched(m)
  BY <1>3, AdmitBatchedKeeps
<1>4. CASE AdmitSteer(m)
  BY <1>4, AdmitSteerKeeps
<1>5. CASE AdmitFollowUp(m)
  BY <1>5, AdmitFollowUpKeeps
<1>6. CASE Enrich(m)
  BY <1>6, EnrichKeeps
<1> QED BY <1>1, <1>2, <1>3, <1>4, <1>5, <1>6 DEF Admit

LEMMA TurnKeeps ==
  ASSUME NEW t \in Msgs, NEW k \in Keys, k = KeyOf[t], Good(k), Typed', TurnStep(t)
  PROVE  Keeps(k)
<1>1. CASE \E mapped \in BOOLEAN : ResolveMapping(t, mapped)
  BY <1>1, ResolveMappingKeeps
<1>2. CASE EarlyReturn(t)
  BY <1>2, EarlyReturnKeeps
<1>3. CASE TakeSteers(t)
  BY <1>3, TakeSteersKeeps
<1>4. CASE \E mode \in {"take", "seal"} : WorkerDrain(t, mode)
  BY <1>4, WorkerDrainKeeps
<1>5. CASE \E granted \in SUBSET ToSet(task[t].batch) : WorkerReply(t, granted)
  BY <1>5, WorkerReplyKeeps
<1>6. CASE Seal(t)
  BY <1>6, SealKeeps
<1>7. CASE Stopped(t)
  BY <1>7, StoppedKeeps
<1>8. CASE \E lost \in 0..Cardinality(Msgs) : NextOrRelease(t, lost)
  BY <1>8, NextOrReleaseKeeps
<1>9. CASE DropAdmission(t)
  BY <1>9, DropAdmissionKeeps
<1> QED BY <1>1, <1>2, <1>3, <1>4, <1>5, <1>6, <1>7, <1>8, <1>9 DEF TurnStep

LEMMA GateNext ==
  ASSUME GateInv, StopInv, [Next]_vars
  PROVE  GateInv' /\ StopInv'
<1>1. StopInv'
  <2>1. StopInv /\ [Next]_vars => StopInv'
    BY StopStep
  <2> QED BY <2>1
<1>2. Typed'
  BY <1>1 DEF StopInv, Typed
<1>3. CASE \E m \in Msgs : Admit(m) \/ Enrich(m)
  <2>1. PICK m \in Msgs : Admit(m) \/ Enrich(m)
    BY <1>3
  <2>2. PICK k \in Keys : k = KeyOf[m]
    BY OfKey
  <2>3. Keeps(k)
    BY <1>2, <2>1, <2>2, GateGood, GatewayKeeps
  <2> QED BY <1>1, <2>3, GateStep
<1>4. CASE \E k \in Keys : ProbeAdmit(k) \/ ProbeDrop(k)
  <2>1. PICK k \in Keys : ProbeAdmit(k) \/ ProbeDrop(k)
    BY <1>4
  <2>2. Keeps(k)
    BY <2>1, GateGood, ProbeKeeps
  <2> QED BY <1>1, <2>2, GateStep
<1>5. CASE \E k \in Keys, m \in Msgs : KeyOf[m] = k /\ Stop(Sender[m], k)
  <2>1. PICK k \in Keys, m \in Msgs : KeyOf[m] = k /\ Stop(Sender[m], k)
    BY <1>5
  <2>2. Keeps(k)
    BY <1>2, <2>1, GateGood, StopKeeps
  <2> QED BY <1>1, <2>2, GateStep
<1>6. CASE \E t \in Msgs : TurnStep(t) \/ Expire(t) \/ ExpireSignal(t) \/ Abort(t)
  <2>1. PICK t \in Msgs : TurnStep(t) \/ Expire(t) \/ ExpireSignal(t) \/ Abort(t)
    BY <1>6
  <2>2. PICK k \in Keys : k = KeyOf[t]
    BY OfKey
  <2>3. Good(k)
    BY GateGood
  <2>4. Keeps(k)
    BY <1>2, <2>1, <2>2, <2>3, TurnKeeps, ExpireKeeps, ExpireSignalKeeps, AbortKeeps
  <2> QED BY <1>1, <2>4, GateStep
<1>7. CASE UNCHANGED vars
  <2>1. UNCHANGED <<entries, permits, task, cancellation, fate, ran, arrived, vouched>>
    BY <1>7 DEF vars
  <2>2. CASE \E k \in Keys : TRUE
    <3>1. PICK k \in Keys : TRUE
      BY <2>2
    <3>2. Good(k)
      BY GateGood
    <3>3. Types' /\ PermitInv' /\ Local(k)
      <4>1. Types'
        BY <2>1 DEF GateInv, Types
      <4>2. PermitInv'
        BY <2>1, PermitSame DEF GateInv, HasPermit, Live
      <4>3. Local(k)
        BY <2>1 DEF Local
      <4> QED BY <4>1, <4>2, <4>3
    <3>4. Held(k)' <=> Held(k)
      BY <2>1 DEF Held
    <3>5. Keeps(k)
      BY <2>1, <3>2, <3>3, <3>4, QuietKeeps
    <3> QED BY <1>1, <3>5, GateStep
  <2>3. CASE ~\E k \in Keys : TRUE
    <3>1. Types' /\ ArriveInv'
      BY <2>1, ArriveSame DEF GateInv, Types
    <3>2. PermitInv'
      BY <2>1, PermitSame DEF GateInv, HasPermit, Live
    <3> QED BY <1>1, <2>3, <3>1, <3>2 DEF GateInv
  <2> QED BY <2>2, <2>3
<1> QED BY <1>3, <1>4, <1>5, <1>6, <1>7 DEF Next

------------------------------------------------------------------------------
(* What the invariant gives. *)

\* The places of a message that is open are one, of any other none.
LEMMA OnePlace ==
  ASSUME GateInv, NEW m \in Msgs
  PROVE  Cardinality(Places(KeyOf[m], m) \union Authorizing(m)) = IF Open(m) THEN 1 ELSE 0
<1>1. PICK k \in Keys : k = KeyOf[m]
  BY OfKey
<1>2. PICK P : P = Places(k, m) \union Authorizing(m)
  OBVIOUS
<1>3. m \in Of(k) /\ MailOK(k) /\ LifeOK(k) /\ Types
  BY <1>1, OfKey DEF GateInv
<1>4. \A x : x \in Places(k, m) <=>
        /\ Held(k)
        /\ \/ \E i \in DOMAIN entries[k].steers : entries[k].steers[i] = m /\ x = <<"steer", i>>
           \/ \E i \in DOMAIN entries[k].follow_ups :
                m \in Content(entries[k].follow_ups[i]) /\ x = <<"follow", i>>
  BY DEF Places
<1>5. \A x : x \in Authorizing(m) <=> \E t \in Of(k) : m \in ToSet(task[t].batch) /\ x = <<"batch", t>>
  <2>1. ASSUME NEW t \in Msgs, m \in ToSet(task[t].batch)
        PROVE  t \in Of(k)
    <3>1. KeyOf[t] \in Keys /\ t \in Of(KeyOf[t])
      BY OfKey
    <3>2. InBatch(KeyOf[t], m) /\ MailOK(KeyOf[t])
      BY <2>1, <3>1 DEF InBatch, GateInv
    <3>3. m \in Of(KeyOf[t])
      BY <3>2 DEF MailOK
    <3> QED BY <1>3, <3>1, <3>3, OfKey
  <2> QED BY <2>1, OfKey DEF Authorizing
<1>6. \A x : x \in P <=> x \in Places(k, m) \/ x \in Authorizing(m)
  BY <1>2
<1>7. CASE ~Open(m)
  <2>1. ~InSteers(k, m) /\ ~InFollow(k, m) /\ ~InBatch(k, m)
    BY <1>3, <1>7 DEF MailOK
  <2>2. \A x : x \notin P
    BY <1>4, <1>5, <1>6, <2>1, SetOf DEF InSteers, InFollow, InBatch
  <2>3. P = {}
    BY <2>2
  <2> QED BY <1>1, <1>2, <1>7, <2>3, FS_EmptySet
<1>8. CASE Open(m)
  <2>1. \E x : \A y : y \in P <=> y = x
    <3>1. CASE InSteers(k, m)
      <4>1. Held(k) /\ ~InFollow(k, m) /\ ~InBatch(k, m) /\ Inj(entries[k].steers)
        BY <1>3, <3>1 DEF MailOK, InSteers
      <4>2. PICK i \in DOMAIN entries[k].steers : entries[k].steers[i] = m
        BY <3>1, SetOf DEF InSteers
      <4>3. \A j \in DOMAIN entries[k].steers : entries[k].steers[j] = m => j = i
        BY <4>1, <4>2 DEF Inj
      <4>4. \A y : y \in P <=> y = <<"steer", i>>
        BY <1>4, <1>5, <1>6, <4>1, <4>2, <4>3 DEF InFollow, InBatch
      <4>6. PICK p : p = <<"steer", i>>
        OBVIOUS
      <4>7. \A y : y \in P <=> y = p
        BY <4>4, <4>6
      <4> QED BY <4>7
    <3>2. CASE InFollow(k, m)
      <4>1. Held(k) /\ ~InSteers(k, m) /\ ~InBatch(k, m) /\ Apart(entries[k].follow_ups)
        BY <1>3, <3>2 DEF MailOK, InFollow
      <4>2. PICK i \in DOMAIN entries[k].follow_ups : m \in Content(entries[k].follow_ups[i])
        BY <3>2 DEF InFollow
      <4>3. \A j \in DOMAIN entries[k].follow_ups : m \in Content(entries[k].follow_ups[j]) => j = i
        BY <4>1, <4>2 DEF Apart
      <4>4. \A j \in DOMAIN entries[k].steers : entries[k].steers[j] # m
        BY <4>1, SetOf DEF InSteers
      <4>5. \A y : y \in P <=> y = <<"follow", i>>
        BY <1>4, <1>5, <1>6, <4>1, <4>2, <4>3, <4>4 DEF InBatch
      <4>6. PICK p : p = <<"follow", i>>
        OBVIOUS
      <4>7. \A y : y \in P <=> y = p
        BY <4>5, <4>6
      <4> QED BY <4>7
    <3>3. CASE InBatch(k, m)
      <4>1. ~InSteers(k, m) /\ ~InFollow(k, m)
        BY <1>3, <3>3 DEF MailOK
      <4>2. PICK t \in Of(k) : m \in ToSet(task[t].batch)
        BY <3>3 DEF InBatch
      <4>3. \A u \in Of(k) : m \in ToSet(task[u].batch) => u = t
        <5>1. ASSUME NEW u \in Of(k), m \in ToSet(task[u].batch)
              PROVE  Live(u)
          <6>1. task[u].batch # <<>>
            BY <5>1, NoElements
          <6> QED BY <1>3, <6>1 DEF LifeOK, Live, Turns
        <5> QED BY <1>3, <4>2, <5>1 DEF LifeOK
      <4>4. \A x : x \notin Places(k, m)
        BY <1>4, <4>1, SetOf DEF InSteers, InFollow
      <4>5. \A y : y \in P <=> y = <<"batch", t>>
        BY <1>5, <1>6, <4>2, <4>3, <4>4
      <4>6. PICK p : p = <<"batch", t>>
        OBVIOUS
      <4>7. \A y : y \in P <=> y = p
        BY <4>5, <4>6
      <4> QED BY <4>7
    <3> QED BY <1>3, <1>8, <3>1, <3>2, <3>3 DEF MailOK
  <2>2. PICK x : \A y : y \in P <=> y = x
    BY <2>1
  <2>3. P = {x}
    BY <2>2
  <2>4. Cardinality({x}) = 1
    BY FS_Singleton
  <2> QED BY <1>1, <1>2, <1>8, <2>3, <2>4
<1> QED BY <1>7, <1>8

LEMMA GateTypes == GateInv => TypeOK
<1> SUFFICES ASSUME GateInv PROVE TypeOK
  OBVIOUS
<1>1. Types /\ PermitInv /\ \A k \in Keys : LifeOK(k) /\ BoundOK(k)
  BY DEF GateInv
<1>2. permits \in 0..Permits
  <2>1. permits \in Nat /\ Cardinality(Holders) \in Nat /\ Cardinality(Probes) \in Nat
        /\ permits + Cardinality(Holders) + Cardinality(Probes) = Permits
    BY <1>1, FS_CardinalityType DEF PermitInv
  <2> DEFINE a == Cardinality(Holders)
             b == Cardinality(Probes)
  <2>2. a \in Nat /\ b \in Nat /\ permits + a + b = Permits
    BY <2>1
  <2> HIDE DEF a, b
  <2> QED BY <2>1, <2>2, BoundsAssumption
<1>3. ASSUME NEW k \in Keys, Held(k)
      PROVE  /\ entries[k].authorizing \in 0..Capacity /\ entries[k].aborts \in 0..MaxInterrupts
             /\ entries[k].mapping \in {"pending", "mapped", "unmapped"}
             /\ entries[k].steers \in Seq(Msgs) /\ entries[k].turn \in Seq(Msgs)
             /\ entries[k].follow_ups \in Seq([lead: Msgs, rest: SUBSET Msgs, pending: BOOLEAN])
             /\ Depth(entries[k]) <= Capacity
  <2>1. PICK e : e = entries[k]
    OBVIOUS
  <2>2. e \in Sessions
    BY <1>1, <1>3, <2>1, HeldIs
  <2>3. /\ e.mapping \in Mappings /\ e.aborts \in Nat /\ e.steers \in Seq(Msgs)
        /\ e.follow_ups \in Seq(Items) /\ e.turn \in Seq(Msgs)
    BY <2>2 DEF Sessions
  <2>4. PICK t \in Of(k) : Live(t)
    BY <1>1, <1>3 DEF LifeOK
  <2>5. task[t].batch \in Seq(Msgs)
    BY <1>1, OfKey, TaskFields
  <2>6. /\ e.authorizing = Len(task[t].batch) /\ Depth(e) <= Capacity /\ e.aborts <= MaxInterrupts
    BY <1>1, <1>3, <2>1, <2>4 DEF BoundOK
  <2>7. e.authorizing \in Nat /\ Len(e.steers) \in Nat /\ Len(e.follow_ups) \in Nat
    BY <2>3, <2>5, <2>6
  <2>8. e.authorizing \in 0..Capacity
    <3> DEFINE a == Len(e.steers)
               b == Len(e.follow_ups)
               c == e.authorizing
    <3>1. a \in Nat /\ b \in Nat /\ c \in Nat /\ a + b + c <= Capacity
      BY <2>6, <2>7 DEF Depth
    <3> HIDE DEF a, b, c
    <3>2. c \in 0..Capacity
      BY <3>1, BoundsAssumption
    <3> QED BY <3>2 DEF c
  <2>9. e.aborts \in 0..MaxInterrupts
    BY <2>3, <2>6, BoundsAssumption
  <2> QED BY <2>1, <2>3, <2>6, <2>8, <2>9 DEF Mappings, Items
<1>4. /\ fate \in [Msgs -> Fates] /\ ran \in [Msgs -> Msgs \union {None}]
      /\ \A r \in Msgs : cancellation[r].state \in {"none", "running", "completing", "cancelled"}
  BY <1>1 DEF Types, Cancellations, States
<1>5. MailboxBound
  BY <1>1, <1>3, OfKey DEF MailboxBound, BoundOK
<1> QED BY <1>2, <1>3, <1>4, <1>5 DEF TypeOK

LEMMA GateSessions == GateInv => OneSession
<1> SUFFICES ASSUME GateInv PROVE OneSession
  OBVIOUS
<1>1. ASSUME NEW k \in Keys
      PROVE  LET ts == {t \in Msgs : KeyOf[t] = k /\ Live(t)} IN
             IF Held(k) THEN \E t \in ts : ts = {t} /\ task[t].run = entries[k].run ELSE ts = {}
  <2>1. PICK ts : ts = {t \in Msgs : KeyOf[t] = k /\ Live(t)}
    OBVIOUS
  <2>2. LifeOK(k) /\ \A t : t \in ts <=> t \in Of(k) /\ Live(t)
    BY <2>1, OfKey DEF GateInv
  <2>3. CASE Held(k)
    <3>1. PICK t \in Of(k) : Live(t)
      BY <2>2, <2>3 DEF LifeOK
    <3>2. t \in ts /\ task[t].run = entries[k].run /\ \A u \in ts : u = t
      BY <2>2, <3>1 DEF LifeOK
    <3>3. ts = {t}
      BY <3>2
    <3> QED BY <2>1, <2>3, <3>2, <3>3
  <2>4. CASE ~Held(k)
    <3>1. ts = {}
      BY <2>2, <2>4 DEF LifeOK
    <3> QED BY <2>1, <2>4, <3>1
  <2> QED BY <2>3, <2>4
<1>2. permits + Cardinality({t \in Msgs : HasPermit(t)})
        + Cardinality({k \in Keys : entries[k] = Probe}) = Permits
  BY DEF GateInv, PermitInv, Holders, Probes
<1> QED BY <1>1, <1>2 DEF OneSession

------------------------------------------------------------------------------
\* The two invariants together are inductive.
LEMMA GateHolds == Spec => [](GateInv /\ StopInv)
<1>1. Init => GateInv /\ StopInv
  BY GateInit, StopInit
<1>2. GateInv /\ StopInv /\ [Next]_vars => (GateInv /\ StopInv)'
  BY GateNext
<1> QED BY <1>1, <1>2, PTL DEF Spec

\* For any messages, conversations and bounds: every variable of the gate has
\* its type, no mailbox holds more than MAILBOX_CAPACITY, and `authorizing`
\* counts exactly the batch that is being authorized.
THEOREM GateTypeOK == Spec => []TypeOK
<1>1. GateInv => TypeOK
  BY GateTypes
<1> QED BY <1>1, GateHolds, PTL

\* A conversation is held exactly while one task runs the turn it names, and no
\* permit is lost or doubled, although a task drops its admission after it has
\* released the conversation and a newer session may hold it.
THEOREM GateOneSession == Spec => []OneSession
<1>1. GateInv => OneSession
  BY GateSessions
<1> QED BY <1>1, GateHolds, PTL

\* A message the gate accepted is in one place of one mailbox, or is being
\* authorized, until it is settled, and a settled message is in none: no steer
\* is lost or doubled by a seal, a stop, a fold or an abort.
THEOREM GateAccounted == Spec => []Accounted
<1>1. GateInv => Accounted
  BY OnePlace DEF Accounted
<1> QED BY <1>1, GateHolds, PTL

\* A turn hears its own asker and, when it is mapped and not poster-only, those
\* the broker authorized for it: nobody else, by whatever way a message enters.
THEOREM GateNoForeignInput == Spec => []NoForeignInput
<1>1. GateInv => NoForeignInput
  <2> SUFFICES ASSUME GateInv, NEW m \in Msgs, fate[m] = "taken", Sender[m] # Sender[ran[m]]
               PROVE  m \in vouched /\ ran[m] \notin PosterOnly
    BY DEF NoForeignInput
  <2>1. SendOK(KeyOf[m]) /\ m \in Of(KeyOf[m])
    BY OfKey DEF GateInv
  <2> QED BY <2>1 DEF SendOK
<1> QED BY <1>1, GateHolds, PTL

\* With interrupts left, a running abort-steered turn whose asker has a message
\* waiting has its model call interrupted.
THEOREM GateInterruptHeld == Spec => []InterruptHeld
<1>1. GateInv => InterruptHeld
  BY DEF GateInv, InterruptOK, InterruptHeld
<1> QED BY <1>1, GateHolds, PTL

\* No steer of a mailbox is ahead of one both received and admitted before it,
\* after promoted follow-ups are sorted in by received_at and, later, messages
\* that a collector held, or job notices, are appended.
THEOREM GateSteersInOrder == Spec => []SteersInOrder
<1>1. GateInv => SteersInOrder
  <2> SUFFICES ASSUME GateInv, NEW k \in Keys, Held(k), NEW s, s = entries[k].steers,
                      NEW i \in DOMAIN s, NEW j \in DOMAIN s, i < j
               PROVE  ReceivedAt[s[i]] <= ReceivedAt[s[j]] \/ Before(s[i], s[j])
    BY DEF SteersInOrder
  <2>1. Types /\ ArriveInv /\ MailOK(k) /\ OrderOK(k) /\ entries[k] \in Sessions
    BY HeldIs DEF GateInv
  <2>2. Sorted(s)
    BY <2>1 DEF OrderOK
  <2>3. s[i] \in ToSet(s) /\ s[j] \in ToSet(s)
    BY SetOf
  <2>4. s[i] \in ToSet(arrived) /\ s[j] \in ToSet(arrived)
    BY <2>1, <2>3, MailArrived DEF InSteers
  <2>5. PICK a \in DOMAIN arrived, b \in DOMAIN arrived : arrived[a] = s[i] /\ arrived[b] = s[j]
    BY <2>4, SetOf
  <2> QED BY <2>2, <2>5 DEF Sorted, Before
<1> QED BY <1>1, GateHolds, PTL

\* A late forward enters the turn its message entered, or one that refused its
\* message, and never a later turn.
THEOREM GateLateWithBase == Spec => []LateWithBase
<1>1. GateInv => LateWithBase
  <2> SUFFICES ASSUME GateInv, NEW l \in Msgs, Kind[l] = "late", fate[l] = "taken"
               PROVE  ran[Base[l]] = ran[l] \/ fate[Base[l]] = "unauthorized"
    BY DEF LateWithBase
  <2>1. LateOK(KeyOf[l]) /\ l \in Of(KeyOf[l])
    BY OfKey DEF GateInv
  <2> QED BY <2>1 DEF LateOK, Through
<1> QED BY <1>1, GateHolds, PTL
==============================================================================
