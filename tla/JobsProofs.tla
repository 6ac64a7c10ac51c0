----------------------------- MODULE JobsProofs -----------------------------
(* Proofs about Jobs, for any owners, waits, jobs and bounds.              *)
(*                                                                         *)
(* The inductive invariant JobsInv has a part for each concern, and each   *)
(* part is kept by lemmas of its own: Types; HeldInv (the waits' hold on   *)
(* the rows); BoundsInv (permits, table, channel); RowInv (what a row says *)
(* of a job's end); NoticeInv (where a job's notice is); ToldInv.          *)
EXTENDS Jobs, FiniteSetTheorems, WellFoundedInduction, TLAPS

States == {"none", "running", "finished", "evicted"}
Stops == {"none", "killed", "cancelled"}
Rows == [state: States, owner: Owners \union {"none"}, stop: Stops,
         outcome: Stops \union {"ended"}, waiters: Int, waited: BOOLEAN]
WaitStates == [phase: {"idle", "registered", "waiting", "leaving", "done"},
               ids: SUBSET Ids, exited: SUBSET Ids]

Types ==
  /\ row \in [Ids -> Rows]
  /\ wait \in [Waits -> WaitStates]
  /\ told \in [Ids -> SUBSET Told]
  /\ notices \in Seq(Ids)
  /\ sending \subseteq Ids
  /\ permits \in Int
  /\ sealed \in BOOLEAN /\ closed \in BOOLEAN

(* What each change of a row keeps and changes. *)

LEMMA AbsentFields ==
  /\ Absent \in Rows
  /\ Absent.state = "none" /\ Absent.stop = "none" /\ Absent.outcome = "none"
  /\ Absent.waiters = 0 /\ Absent.waited = FALSE
BY DEF Absent, Rows, States, Stops

LEMMA NewRowFields ==
  ASSUME NEW o \in Owners
  PROVE  LET s == NewRow(o) IN
         /\ s \in Rows
         /\ s.state = "running" /\ s.stop = "none" /\ s.outcome = "none"
         /\ s.waiters = 0 /\ s.waited = FALSE
BY DEF NewRow, Absent, Rows, States, Stops

LEMMA EvictedRowFields ==
  ASSUME NEW r \in Rows
  PROVE  LET s == EvictedRow(r) IN
         /\ s \in Rows
         /\ s.state = "evicted"
         /\ s.stop = r.stop /\ s.outcome = r.outcome
         /\ s.waiters = r.waiters /\ s.waited = r.waited
BY DEF EvictedRow, Rows, States

LEMMA FinishedRowFields ==
  ASSUME NEW r \in Rows
  PROVE  LET s == FinishedRow(r) IN
         /\ s \in Rows
         /\ s.state = "finished"
         /\ s.stop = r.stop /\ s.outcome = Outcome(r)
         /\ s.waiters = r.waiters /\ s.waited = (r.waited \/ r.waiters > 0)
BY DEF FinishedRow, Outcome, Rows, States, Stops

LEMMA StoppedRowFields ==
  ASSUME NEW r \in Rows, NEW stop \in Stops \ {"none"}
  PROVE  LET s == StoppedRow(r, stop) IN
         /\ s \in Rows
         /\ s.state = r.state /\ s.outcome = r.outcome
         /\ s.waiters = r.waiters /\ s.waited = r.waited
         /\ r.state # "running" => s.stop = r.stop
         /\ r.state = "running" => s.stop # "none"
BY DEF StoppedRow, Rows, Stops

LEMMA WaiterFields ==
  ASSUME NEW r \in Rows
  PROVE  LET h == HeldRow(r)
             d == ReleasedRow(r) IN
         /\ h \in Rows /\ d \in Rows
         /\ h.state = r.state /\ h.stop = r.stop /\ h.outcome = r.outcome
         /\ h.waited = r.waited /\ h.waiters = r.waiters + 1
         /\ d.state = r.state /\ d.stop = r.stop /\ d.outcome = r.outcome
         /\ d.waited = r.waited /\ d.waiters = r.waiters - 1
BY DEF HeldRow, ReleasedRow, Rows

LEMMA TakenRowFields ==
  ASSUME NEW r \in Rows
  PROVE  LET s == TakenRow(r) IN
         /\ s \in Rows
         /\ s.state = r.state /\ s.stop = r.stop /\ s.outcome = r.outcome
         /\ s.waiters = r.waiters /\ s.waited = TRUE
BY DEF TakenRow, Rows

LEMMA TypesInit == Init => Types
<1>1. NoWait \in WaitStates
  BY DEF NoWait, WaitStates
<1>2. Init => permits \in Int
  BY JobsAssumption DEF Init
<1>3. Init => sealed \in BOOLEAN /\ closed \in BOOLEAN
  BY DEF Init
<1>4. Init => notices \in Seq(Ids) /\ sending \subseteq Ids /\ told \in [Ids -> SUBSET Told]
  BY DEF Init
<1>5. Init => row \in [Ids -> Rows] /\ wait \in [Waits -> WaitStates]
  BY <1>1, AbsentFields DEF Init
<1> QED BY <1>2, <1>3, <1>4, <1>5 DEF Types

LEMMA TypesNext ==
  ASSUME Types, [Next]_vars
  PROVE Types'
<1>1. CASE \E o \in Owners : Start(o)
  <2>1. PICK o \in Owners : Start(o)
    BY <1>1
  <2>2. row' \in [Ids -> Rows]
    BY <2>1, NewRowFields, EvictedRowFields DEF Types, Start
  <2> QED BY <2>1, <2>2 DEF Types, Start
<1>2. CASE \E j \in Ids : Finish(j)
  BY <1>2, FinishedRowFields DEF Types, Finish
<1>3. CASE \E j \in Ids : Notify(j)
  BY <1>3 DEF Types, Notify, Lost, Told
<1>4. CASE \E w \in Waits : WaitScan(w)
  <2>1. PICK w \in Waits : WaitScan(w)
    BY <1>4
  <2>2. row' \in [Ids -> Rows]
    BY <2>1, TakenRowFields DEF Types, WaitScan
  <2>3. wait' \in [Waits -> WaitStates]
    BY <2>1 DEF Types, WaitScan, WaitStates
  <2> QED BY <2>1, <2>2, <2>3 DEF Types, WaitScan
<1>5. CASE \E w \in Waits : WaitLeave(w)
  BY <1>5, WaiterFields DEF Types, WaitLeave, WaitStates, Told
<1>6. CASE \E w \in Waits : WaitGiveUp(w)
  BY <1>6 DEF Types, WaitGiveUp, WaitStates
<1>7. CASE \E w \in Waits, o \in Owners, ids \in SUBSET Ids : WaitRegister(w, o, ids)
  BY <1>7, WaiterFields DEF Types, WaitRegister, WaitStates
<1>8. CASE Deliver
  BY <1>8 DEF Types, Deliver, Lost, Told
<1>9. CASE CloseNotices
  BY <1>9 DEF Types, CloseNotices, Lost, Told
<1>10. CASE SealTable
  BY <1>10, StoppedRowFields DEF Types, SealTable, StopRows, Stops
<1>11. CASE \E j \in Ids : Kill(j)
  BY <1>11, StoppedRowFields DEF Types, Kill, StopRows, Stops
<1>12. CASE \E o \in Owners : CancelOwner(o)
  BY <1>12, StoppedRowFields DEF Types, CancelOwner, StopRows, Stops
<1>13. CASE UNCHANGED vars
  BY <1>13 DEF Types, vars
<1> QED BY <1>1, <1>2, <1>3, <1>4, <1>5, <1>6, <1>7, <1>8, <1>9, <1>10, <1>11, <1>12, <1>13 DEF Next

------------------------------------------------------------------------------
(* Waits and the rows they hold. *)

Holders(j) == {w \in Waits : Holding(w) /\ j \in wait[w].ids}

\* RowsHeld, and that finitely many waits hold a row: each step adds at most
\* one, so that nothing need be assumed of Waits.
HeldInv ==
  \A j \in Ids :
    /\ IsFiniteSet(Holders(j))
    /\ Holders(j) # {} => j \in Present
    /\ row[j].waiters = Cardinality(Holders(j))

LEMMA HeldInit == Init => HeldInv
<1> SUFFICES ASSUME Init PROVE HeldInv
  OBVIOUS
<1>1. \A j : Holders(j) = {}
  BY DEF Init, Holders, Holding, NoWait
<1>2. Present = {}
  BY AbsentFields DEF Init, Present
<1>3. \A j \in Ids : row[j].waiters = 0
  BY AbsentFields DEF Init
<1> QED BY <1>1, <1>2, <1>3, FS_EmptySet DEF HeldInv

\* The oldest of a non-empty set of jobs is one of them.
LEMMA MinIn ==
  ASSUME NEW S \in SUBSET Ids, S # {}
  PROVE  Min(S) \in S
<1> DEFINE Less == OpToRel(<, Nat)
<1>1. PICK n \in S : \A m \in S : ~(<<m, n>> \in Less)
  <2>1. S \subseteq Nat
    BY JobsAssumption DEF Ids
  <2>2. IsWellFoundedOn(Less, Nat)
    BY NatLessThanWellFounded
  <2> HIDE DEF Less
  <2> QED BY <2>1, <2>2, WFMin
<1>2. \A m, k \in Nat : m < k => <<m, k>> \in Less
  <2>1. ASSUME NEW m \in Nat, NEW k \in Nat, m < k
        PROVE  <<m, k>> \in {ss \in Nat \X Nat : ss[1] < ss[2]}
    BY <2>1
  <2> QED BY <2>1 DEF OpToRel
<1> HIDE DEF Less
<1>3. \A m \in S : n <= m
  <2>1. S \subseteq Nat
    BY JobsAssumption DEF Ids
  <2>2. ASSUME NEW m \in S, m < n PROVE FALSE
    <3>1. <<m, n>> \in Less
      BY <1>2, <2>1, <2>2
    <3> QED BY <3>1, <1>1
  <2> QED BY <2>1, <2>2
<1> QED BY <1>3 DEF Min

LEMMA MinUnused == Unused # {} => Min(Unused) \in Unused
BY MinIn DEF Unused
LEMMA MinEvictable == Evictable # {} => Min(Evictable) \in Evictable
BY MinIn DEF Evictable, Present

\* A step that leaves the waits alone, and evicts only rows without waiters.
LEMMA HeldKept ==
  ASSUME HeldInv, UNCHANGED wait,
         \A j \in Ids :
           /\ row'[j].waiters = row[j].waiters
           /\ j \in Present /\ j \notin Present' => row[j].waiters = 0
  PROVE  HeldInv'
<1>1. \A j : Holders(j)' = Holders(j)
  BY DEF Holders, Holding
<1> SUFFICES ASSUME NEW j \in Ids
             PROVE  /\ IsFiniteSet(Holders(j))
                    /\ Holders(j) # {} => j \in Present'
                    /\ row'[j].waiters = Cardinality(Holders(j))
  BY <1>1 DEF HeldInv
<1>2. IsFiniteSet(Holders(j))
  BY DEF HeldInv
<1>3. Cardinality(Holders(j)) = 0 <=> Holders(j) = {}
  BY <1>2, FS_EmptySet
<1> QED BY <1>2, <1>3 DEF HeldInv

\* A kill, a stop request and the seal all stop the running rows of a set.
StopStep == \E js \in SUBSET Ids, stop \in Stops \ {"none"} : row' = StopRows(js, stop)

LEMMA StopSteps ==
  ASSUME SealTable \/ (\E j \in Ids : Kill(j)) \/ (\E o \in Owners : CancelOwner(o))
  PROVE  StopStep
<1>1. "killed" \in Stops \ {"none"} /\ "cancelled" \in Stops \ {"none"}
  BY DEF Stops
<1>2. CASE SealTable
  BY <1>1, <1>2 DEF SealTable, StopStep, Running
<1>3. CASE \E j \in Ids : Kill(j)
  <2>1. PICK j \in Ids : row' = StopRows({j}, "killed")
    BY <1>3 DEF Kill
  <2>2. {j} \in SUBSET Ids
    OBVIOUS
  <2> QED BY <1>1, <2>1, <2>2 DEF StopStep
<1>4. CASE \E o \in Owners : CancelOwner(o)
  <2>1. PICK o \in Owners : row' = StopRows({j \in Running : row[j].owner = o}, "cancelled")
    BY <1>4 DEF CancelOwner
  <2>2. {j \in Running : row[j].owner = o} \in SUBSET Ids
    BY DEF Running
  <2> QED BY <1>1, <2>1, <2>2 DEF StopStep
<1> QED BY <1>2, <1>3, <1>4

LEMMA HeldNext ==
  ASSUME Types, HeldInv, [Next]_vars
  PROVE  HeldInv'
<1>1. CASE \E o \in Owners : Start(o)
  <2>1. PICK o \in Owners : Start(o)
    BY <1>1
  <2> DEFINE j == Min(Unused)
             full == Cardinality(Present) >= Maximum
             gone == IF full THEN {Min(Evictable)} ELSE {}
  <2>2. row' = [i \in Ids |->
          IF i = j THEN NewRow(o) ELSE IF i \in gone THEN EvictedRow(row[i]) ELSE row[i]]
    BY <2>1 DEF Start
  <2>3. j \in Unused
    BY <2>1, MinUnused DEF Start, MayStart
  <2>4. gone \subseteq Evictable
    BY <2>1, MinEvictable DEF Start
  <2>5. UNCHANGED wait
    BY <2>1 DEF Start
  <2> HIDE DEF j, full, gone
  <2>6. ASSUME NEW i \in Ids
        PROVE  /\ row'[i].waiters = row[i].waiters
               /\ i \in Present /\ i \notin Present' => row[i].waiters = 0
    <3>1. CASE i = j
      <4>1. i \notin Present
        BY <3>1, <2>3 DEF Present, Unused
      <4>2. Holders(i) = {} /\ row[i].waiters = Cardinality(Holders(i))
        BY <4>1 DEF HeldInv
      <4> QED BY <3>1, <4>1, <4>2, <2>2, FS_EmptySet, NewRowFields
    <3>2. CASE i # j /\ i \in gone
      BY <3>2, <2>2, <2>4, EvictedRowFields DEF Present, Evictable, Types
    <3>3. CASE i # j /\ i \notin gone
      BY <3>3, <2>2 DEF Present
    <3> QED BY <3>1, <3>2, <3>3
  <2> QED BY <2>5, <2>6, HeldKept
<1>2. CASE \E j \in Ids : Finish(j)
  BY <1>2, FinishedRowFields, HeldKept DEF Types, Finish, Present
<1>3. CASE (\E j \in Ids : Notify(j)) \/ Deliver \/ CloseNotices \/ UNCHANGED vars
  <2>1. UNCHANGED <<row, wait>>
    BY <1>3 DEF Notify, Deliver, CloseNotices, vars
  <2> QED BY <2>1, HeldKept DEF Present
<1>4. CASE SealTable \/ (\E j \in Ids : Kill(j)) \/ (\E o \in Owners : CancelOwner(o))
  <2>1. StopStep /\ UNCHANGED wait
    BY <1>4, StopSteps DEF SealTable, Kill, CancelOwner
  <2> QED BY <2>1, StoppedRowFields, HeldKept DEF StopStep, Types, StopRows, Present
<1>5. CASE \E w \in Waits : WaitScan(w)
  <2>1. PICK w \in Waits : WaitScan(w)
    BY <1>5
  <2>2. \A j : Holders(j)' = Holders(j)
    <3>1. Holding(w) /\ Holding(w)' /\ wait'[w].ids = wait[w].ids
      BY <2>1 DEF WaitScan, Holding, Types
    <3>2. \A u \in Waits : u # w => wait'[u] = wait[u]
      BY <2>1 DEF WaitScan, Types
    <3> QED BY <3>1, <3>2 DEF Holders, Holding
  <2>3. \A j \in Ids : row'[j].state = row[j].state /\ row'[j].waiters = row[j].waiters
    BY <2>1, TakenRowFields DEF WaitScan, Types
  <2> QED BY <2>2, <2>3 DEF HeldInv, Present
<1>6. CASE \E w \in Waits : WaitGiveUp(w)
  <2>1. PICK w \in Waits : WaitGiveUp(w)
    BY <1>6
  <2>2. \A j : Holders(j)' = Holders(j)
    <3>1. Holding(w) /\ Holding(w)' /\ wait'[w].ids = wait[w].ids
      BY <2>1 DEF WaitGiveUp, Holding, Types, WaitStates
    <3>2. \A u \in Waits : u # w => wait'[u] = wait[u]
      BY <2>1 DEF WaitGiveUp, Types
    <3> QED BY <3>1, <3>2 DEF Holders, Holding
  <2>3. row' = row
    BY <2>1 DEF WaitGiveUp
  <2> QED BY <2>2, <2>3 DEF HeldInv, Present
<1>7. CASE \E w \in Waits, o \in Owners, ids \in SUBSET Ids : WaitRegister(w, o, ids)
  <2>1. PICK w \in Waits, o \in Owners, ids \in SUBSET Ids : WaitRegister(w, o, ids)
    BY <1>7
  <2> DEFINE held == {j \in ids : j \in Present /\ row[j].owner = o}
  <2>2. ~Holding(w) /\ Holding(w)' /\ wait'[w].ids = held
    BY <2>1 DEF WaitRegister, Holding, Types
  <2>3. \A u \in Waits : u # w => wait'[u] = wait[u]
    BY <2>1 DEF WaitRegister, Types
  <2>4. \A j : w \notin Holders(j)
    BY <2>2 DEF Holders
  <2>5. \A j : Holders(j)' = IF j \in held THEN Holders(j) \union {w} ELSE Holders(j)
    BY <2>2, <2>3 DEF Holders, Holding
  <2>6. row' = [j \in Ids |-> IF j \in held THEN HeldRow(row[j]) ELSE row[j]]
    BY <2>1 DEF WaitRegister
  <2>7. held \subseteq Present
    OBVIOUS
  <2> HIDE DEF held
  <2> SUFFICES ASSUME NEW j \in Ids
               PROVE  /\ IsFiniteSet(Holders(j)')
                      /\ Holders(j)' # {} => j \in Present'
                      /\ row'[j].waiters = Cardinality(Holders(j)')
    BY DEF HeldInv
  <2>8. CASE j \in held
    <3>1. IsFiniteSet(Holders(j)) /\ row[j].waiters = Cardinality(Holders(j))
      BY <2>7, <2>8 DEF HeldInv
    <3>2. IsFiniteSet(Holders(j) \union {w}) /\ Cardinality(Holders(j) \union {w}) = Cardinality(Holders(j)) + 1
      BY <3>1, <2>4, FS_AddElement
    <3>3. row'[j].waiters = row[j].waiters + 1 /\ row'[j].state = row[j].state
      BY <2>6, <2>8, WaiterFields DEF Types
    <3> QED BY <3>1, <3>2, <3>3, <2>5, <2>7, <2>8 DEF Present
  <2>9. CASE j \notin held
    BY <2>9, <2>5, <2>6 DEF HeldInv, Present
  <2> QED BY <2>8, <2>9
<1>8. CASE \E w \in Waits : WaitLeave(w)
  <2>1. PICK w \in Waits : WaitLeave(w)
    BY <1>8
  <2>2. Holding(w) /\ ~Holding(w)'
    BY <2>1 DEF WaitLeave, Holding, Types, WaitStates
  <2>3. \A u \in Waits : u # w => wait'[u] = wait[u]
    BY <2>1 DEF WaitLeave, Types
  <2>4. \A j : Holders(j)' = Holders(j) \ {w}
    BY <2>2, <2>3 DEF Holders, Holding
  <2>5. \A j : w \in Holders(j) <=> j \in wait[w].ids
    BY <2>2 DEF Holders
  <2>6. row' = [j \in Ids |-> IF j \in wait[w].ids /\ j \in Present
                              THEN ReleasedRow(row[j]) ELSE row[j]]
    BY <2>1 DEF WaitLeave
  <2> SUFFICES ASSUME NEW j \in Ids
               PROVE  /\ IsFiniteSet(Holders(j)')
                      /\ Holders(j)' # {} => j \in Present'
                      /\ row'[j].waiters = Cardinality(Holders(j)')
    BY DEF HeldInv
  <2>7. CASE j \in wait[w].ids
    <3>1. j \in Present /\ IsFiniteSet(Holders(j)) /\ row[j].waiters = Cardinality(Holders(j))
      BY <2>5, <2>7 DEF HeldInv
    <3>2. IsFiniteSet(Holders(j) \ {w}) /\ Cardinality(Holders(j) \ {w}) = Cardinality(Holders(j)) - 1
      BY <3>1, <2>5, <2>7, FS_RemoveElement
    <3>3. row'[j].waiters = row[j].waiters - 1 /\ row'[j].state = row[j].state
      BY <2>6, <2>7, <3>1, WaiterFields DEF Types
    <3> QED BY <3>1, <3>2, <3>3, <2>4 DEF Present
  <2>8. CASE j \notin wait[w].ids
    <3>1. Holders(j)' = Holders(j)
      BY <2>4, <2>5, <2>8
    <3>2. row'[j] = row[j]
      BY <2>6, <2>8
    <3> QED BY <3>1, <3>2 DEF HeldInv, Present
  <2> QED BY <2>7, <2>8
<1> QED BY <1>1, <1>2, <1>3, <1>4, <1>5, <1>6, <1>7, <1>8 DEF Next

------------------------------------------------------------------------------
(* The bounds of the table, of the permits and of the notice channel. *)

BoundsInv == TableBounds /\ Len(notices) <= Maximum

LEMMA TableFinite ==
  /\ IsFiniteSet(Present) /\ Cardinality(Present) \in Nat
  /\ IsFiniteSet(Running) /\ Cardinality(Running) \in Nat
<1>1. IsFiniteSet(Ids)
  BY JobsAssumption, FS_Interval DEF Ids
<1>2. Present \in SUBSET Ids /\ Running \in SUBSET Ids
  BY DEF Present, Running
<1> QED BY <1>1, <1>2, FS_Subset, FS_CardinalityType

LEMMA BoundsInit == Init => BoundsInv
<1> SUFFICES ASSUME Init PROVE BoundsInv
  OBVIOUS
<1>1. Present = {} /\ Running = {}
  BY AbsentFields DEF Init, Present, Running
<1>2. sealed = FALSE /\ permits = Maximum /\ Len(notices) = 0
  BY DEF Init
<1> QED BY <1>1, <1>2, FS_EmptySet, JobsAssumption DEF BoundsInv, TableBounds

\* A step that starts and ends no job, and clears no stop.
LEMMA BoundsKept ==
  ASSUME BoundsInv, UNCHANGED <<permits, sealed>>, Len(notices') <= Maximum,
         \A j \in Ids : /\ row'[j].state = row[j].state
                        /\ row[j].stop # "none" => row'[j].stop # "none"
  PROVE  BoundsInv'
<1>1. Present' = Present /\ Running' = Running
  BY DEF Present, Running
<1> QED BY <1>1 DEF BoundsInv, TableBounds, Running

LEMMA BoundsNext ==
  ASSUME Types, BoundsInv, [Next]_vars
  PROVE  BoundsInv'
<1> USE JobsAssumption
<1>1. CASE \E o \in Owners : Start(o)
  <2>1. PICK o \in Owners : Start(o)
    BY <1>1
  <2> DEFINE j == Min(Unused)
             full == Cardinality(Present) >= Maximum
             gone == IF full THEN {Min(Evictable)} ELSE {}
  <2>2. row' = [i \in Ids |->
          IF i = j THEN NewRow(o) ELSE IF i \in gone THEN EvictedRow(row[i]) ELSE row[i]]
    BY <2>1 DEF Start
  <2>3. j \in Unused
    BY <2>1, MinUnused DEF Start, MayStart
  <2>4. gone \subseteq Evictable
    BY <2>1, MinEvictable DEF Start
  <2>5. full => Min(Evictable) \in Present
    BY <2>1, MinEvictable DEF Start, Evictable
  <2>6. permits' = permits - 1 /\ UNCHANGED notices
    BY <2>1 DEF Start
  <2>7. sealed' = FALSE
    BY <2>1 DEF Start, MayStart, Types
  <2>8. Present' = (Present \ gone) \union {j}
    <3> HIDE DEF j, full, gone
    <3> QED BY <2>2, <2>3, <2>4, NewRowFields, EvictedRowFields DEF Present, Unused, Types, Evictable
  <2>9. Running' = Running \union {j} /\ j \notin Running
    <3> HIDE DEF j, full, gone
    <3> QED BY <2>2, <2>3, <2>4, NewRowFields, EvictedRowFields DEF Running, Unused, Types, Evictable
  <2>10. j \notin Present
    BY <2>3 DEF Unused, Present
  <2>11. Cardinality(Running') = Cardinality(Running) + 1
    BY <2>9, TableFinite, FS_AddElement
  <2>12. Cardinality(Present') <= Maximum
    <3> HIDE DEF j
    <3>1. CASE full
      <4> DEFINE g == Min(Evictable)
      <4>1. Present' = (Present \ {g}) \union {j} /\ g \in Present
        BY <3>1, <2>5, <2>8
      <4> HIDE DEF g, full, gone
      <4>2. /\ IsFiniteSet(Present \ {g})
            /\ Cardinality(Present \ {g}) = Cardinality(Present) - 1
        BY <4>1, TableFinite, FS_RemoveElement
      <4>3. Cardinality((Present \ {g}) \union {j}) = Cardinality(Present \ {g}) + 1
        BY <4>2, <2>10, FS_AddElement
      <4> QED BY <4>1, <4>2, <4>3, TableFinite DEF BoundsInv, TableBounds
    <3>2. CASE ~full
      <4>1. Present' = Present \union {j} /\ Cardinality(Present) < Maximum
        BY <3>2, <2>8, TableFinite
      <4>2. Cardinality(Present') = Cardinality(Present) + 1
        BY <4>1, <2>10, TableFinite, FS_AddElement
      <4> QED BY <4>1, <4>2, TableFinite
    <3> QED BY <3>1, <3>2
  <2> HIDE DEF j, full, gone
  <2> QED BY <2>6, <2>7, <2>11, <2>12, TableFinite DEF BoundsInv, TableBounds, Types
<1>2. CASE \E j \in Ids : Finish(j)
  <2>1. PICK j \in Ids : Finish(j)
    BY <1>2
  <2>2. row' = [row EXCEPT ![j] = FinishedRow(row[j])] /\ row[j].state = "running"
    BY <2>1 DEF Finish
  <2>3. Present' = Present
    BY <2>2, FinishedRowFields DEF Types, Present
  <2>4. Running' = Running \ {j} /\ j \in Running
    BY <2>2, FinishedRowFields DEF Types, Running
  <2>5. Cardinality(Running') = Cardinality(Running) - 1
    BY <2>4, TableFinite, FS_RemoveElement
  <2>6. permits' = permits + 1 /\ UNCHANGED <<sealed, notices>>
    BY <2>1 DEF Finish
  <2>7. \A i \in Running' : row'[i] = row[i]
    BY <2>2, <2>4 DEF Types, Running
  <2> QED BY <2>3, <2>4, <2>5, <2>6, <2>7, TableFinite DEF BoundsInv, TableBounds, Types
<1>3. CASE (\E j \in Ids : Notify(j)) \/ Deliver \/ CloseNotices \/ UNCHANGED vars
  <2>1. UNCHANGED <<row, permits, sealed>>
    BY <1>3 DEF Notify, Deliver, CloseNotices, vars
  <2>2. Len(notices') <= Maximum
    <3>1. CASE \E j \in Ids : Notify(j)
      <4>1. PICK j \in Ids : \/ Len(notices) < Maximum /\ notices' = Append(notices, j)
                            \/ UNCHANGED notices
        BY <3>1 DEF Notify, Sendable
      <4> QED BY <4>1 DEF Types, BoundsInv
    <3>2. CASE Deliver
      <4>1. notices # <<>> /\ notices' = Tail(notices)
        BY <3>2 DEF Deliver
      <4> QED BY <4>1 DEF Types, BoundsInv
    <3>3. CASE CloseNotices
      BY <3>3 DEF CloseNotices
    <3> QED BY <1>3, <3>1, <3>2, <3>3 DEF vars, BoundsInv
  <2> QED BY <2>1, <2>2, BoundsKept
<1>4. CASE (\E j \in Ids : Kill(j)) \/ (\E o \in Owners : CancelOwner(o))
  <2>1. StopStep
    BY <1>4, StopSteps
  <2>2. UNCHANGED <<permits, sealed, notices>>
    BY <1>4 DEF Kill, CancelOwner
  <2> QED BY <2>1, <2>2, BoundsKept, StoppedRowFields DEF StopStep, StopRows, Types, BoundsInv
<1>5. CASE SealTable
  <2>1. row' = StopRows(Running, "cancelled") /\ UNCHANGED <<permits, notices>>
    BY <1>5 DEF SealTable
  <2>2. "cancelled" \in Stops \ {"none"}
    BY DEF Stops
  <2>3. \A j \in Ids : /\ row'[j].state = row[j].state
                       /\ j \in Running => row'[j].stop # "none"
    BY <2>1, <2>2, StoppedRowFields DEF StopRows, Running, Types
  <2>4. Present' = Present /\ Running' = Running
    BY <2>3 DEF Present, Running
  <2> QED BY <2>1, <2>3, <2>4 DEF BoundsInv, TableBounds, Running
<1>6. CASE \E w \in Waits : WaitScan(w)
  BY <1>6, BoundsKept, TakenRowFields DEF WaitScan, Types, BoundsInv
<1>7. CASE \E w \in Waits : WaitGiveUp(w)
  BY <1>7, BoundsKept DEF WaitGiveUp, BoundsInv
<1>8. CASE \E w \in Waits : WaitLeave(w)
  BY <1>8, BoundsKept, WaiterFields DEF WaitLeave, Types, BoundsInv
<1>9. CASE \E w \in Waits, o \in Owners, ids \in SUBSET Ids : WaitRegister(w, o, ids)
  BY <1>9, BoundsKept, WaiterFields DEF WaitRegister, Types, BoundsInv
<1> QED BY <1>1, <1>2, <1>3, <1>4, <1>5, <1>6, <1>7, <1>8, <1>9 DEF Next

------------------------------------------------------------------------------
(* How a job ends and how its end is told. *)

Ended(r) == r.state \in {"finished", "evicted"}

\* A row has an outcome once its job ended; it is "ended" only of a job that
\* was not stopped; and no wait has taken the end of a job that runs.
RowInv ==
  \A j \in Ids :
    /\ row[j].outcome # "none" <=> Ended(row[j])
    /\ row[j].outcome = "ended" => row[j].stop = "none"
    /\ ~Ended(row[j]) => ~row[j].waited

LEMMA RowInit == Init => RowInv
BY AbsentFields DEF Init, RowInv, Ended

Queued(j) == \E i \in DOMAIN notices : notices[i] = j
Announced(j) == "notice" \in told[j] \/ "dropped" \in told[j]

\* A job's notice is in one place: with its thread, in the channel once, or
\* announced; and only the end of a job that was not stopped makes one.
NoticeInv ==
  /\ \A j \in Ids :
       /\ (j \in sending \/ Queued(j) \/ Announced(j)) => row[j].outcome = "ended"
       /\ Queued(j) => j \notin sending /\ ~Announced(j)
       /\ j \in sending => ~Announced(j)
  /\ \A i, k \in DOMAIN notices : notices[i] = notices[k] => i = k

LEMMA NoticeInit == Init => NoticeInv
BY DEF Init, NoticeInv, Queued, Announced

\* What a step may do to a row: nothing that matters here; admit it; evict it;
\* end it; stop it; or take its end for a wait.
Same(r, s) ==
  s.state = r.state /\ s.stop = r.stop /\ s.outcome = r.outcome /\ s.waited = r.waited
Born(r, s) ==
  r.state = "none" /\ s.state = "running" /\ s.stop = "none" /\ s.outcome = "none" /\ ~s.waited
Evicts(r, s) ==
  /\ r.state = "finished" /\ s.state = "evicted"
  /\ s.stop = r.stop /\ s.outcome = r.outcome /\ s.waited = r.waited
Ends(r, s) ==
  /\ r.state = "running" /\ s.state = "finished"
  /\ s.stop = r.stop /\ s.outcome = Outcome(r) /\ s.waited = (r.waited \/ r.waiters > 0)
Stopping(r, s) ==
  /\ r.state = "running" /\ s.state = "running"
  /\ s.stop # "none" /\ s.outcome = r.outcome /\ s.waited = r.waited
Taken(r, s) ==
  r.state = "finished" /\ s.state = "finished" /\ s.stop = r.stop /\ s.outcome = r.outcome

RowStep(r, s) ==
  Same(r, s) \/ Born(r, s) \/ Evicts(r, s) \/ Stopping(r, s) \/ Taken(r, s)

LEMMA RowSteps ==
  ASSUME Types, [Next]_vars, NEW j \in Ids
  PROVE  RowStep(row[j], row'[j]) \/ (Finish(j) /\ Ends(row[j], row'[j]))
<1> USE DEF RowStep
<1>1. CASE \E o \in Owners : Start(o)
  <2>1. PICK o \in Owners : Start(o)
    BY <1>1
  <2> DEFINE n == Min(Unused)
             full == Cardinality(Present) >= Maximum
             gone == IF full THEN {Min(Evictable)} ELSE {}
  <2>2. row' = [i \in Ids |->
          IF i = n THEN NewRow(o) ELSE IF i \in gone THEN EvictedRow(row[i]) ELSE row[i]]
    BY <2>1 DEF Start
  <2>3. n \in Unused
    BY <2>1, MinUnused DEF Start, MayStart
  <2>4. gone \subseteq Evictable
    BY <2>1, MinEvictable DEF Start
  <2> HIDE DEF n, full, gone
  <2>5. CASE j = n
    BY <2>2, <2>3, <2>5, NewRowFields DEF Born, Unused
  <2>6. CASE j # n /\ j \in gone
    BY <2>2, <2>4, <2>6, EvictedRowFields DEF Evicts, Evictable, Types
  <2>7. CASE j # n /\ j \notin gone
    BY <2>2, <2>7 DEF Same
  <2> QED BY <2>5, <2>6, <2>7
<1>2. CASE \E i \in Ids : Finish(i)
  <2>1. PICK i \in Ids : Finish(i)
    BY <1>2
  <2>2. row' = [row EXCEPT ![i] = FinishedRow(row[i])] /\ row[i].state = "running"
    BY <2>1 DEF Finish
  <2>3. CASE j = i
    BY <2>1, <2>2, <2>3, FinishedRowFields DEF Ends, Types
  <2>4. CASE j # i
    BY <2>2, <2>4 DEF Same, Types
  <2> QED BY <2>3, <2>4
<1>3. CASE UNCHANGED row
  BY <1>3 DEF Same
<1>4. CASE StopStep
  <2>1. PICK js \in SUBSET Ids, stop \in Stops \ {"none"} : row' = StopRows(js, stop)
    BY <1>4 DEF StopStep
  <2>2. row'[j] = row[j] \/ row'[j] = StoppedRow(row[j], stop)
    BY <2>1 DEF StopRows
  <2>3. row[j] \in Rows
    BY DEF Types
  <2> QED BY <2>2, <2>3, StoppedRowFields DEF Same, Stopping
<1>5. CASE \E w \in Waits : WaitScan(w)
  <2>1. row'[j] = row[j] \/ (row'[j] = TakenRow(row[j]) /\ row[j].state = "finished")
    BY <1>5 DEF WaitScan
  <2> QED BY <2>1, TakenRowFields DEF Same, Taken, Types
<1>6. CASE \/ \E w \in Waits, o \in Owners, ids \in SUBSET Ids : WaitRegister(w, o, ids)
           \/ \E w \in Waits : WaitLeave(w)
  <2>1. row'[j] = row[j] \/ row'[j] = HeldRow(row[j]) \/ row'[j] = ReleasedRow(row[j])
    BY <1>6 DEF WaitRegister, WaitLeave
  <2> QED BY <2>1, WaiterFields DEF Same, Types
<1>7. ASSUME (\E i \in Ids : Notify(i)) \/ Deliver \/ CloseNotices \/ UNCHANGED vars
             \/ \E w \in Waits : WaitGiveUp(w)
      PROVE  UNCHANGED row
  BY <1>7 DEF Notify, Deliver, CloseNotices, WaitGiveUp, vars
<1> QED BY <1>1, <1>2, <1>3, <1>4, <1>5, <1>6, <1>7, StopSteps DEF Next

LEMMA RowNext ==
  ASSUME Types, RowInv, [Next]_vars
  PROVE  RowInv'
<1> SUFFICES ASSUME NEW j \in Ids
             PROVE  /\ row'[j].outcome # "none" <=> Ended(row'[j])
                    /\ row'[j].outcome = "ended" => row'[j].stop = "none"
                    /\ ~Ended(row'[j]) => ~row'[j].waited
  BY DEF RowInv, Ended
<1>1. RowStep(row[j], row'[j]) \/ Ends(row[j], row'[j])
  BY RowSteps
<1>2. row[j] \in Rows
  BY DEF Types
<1>3. Outcome(row[j]) # "none" /\ (Outcome(row[j]) = "ended" => row[j].stop = "none")
  BY <1>2 DEF Outcome, Rows, Stops
<1> QED BY <1>1, <1>3 DEF RowInv, Ended, RowStep, Same, Born, Evicts, Ends, Stopping, Taken

\* A job that ended stays ended, and only its own end ends it.
LEMMA EndedKept ==
  ASSUME Types, RowInv, [Next]_vars, NEW j \in Ids
  PROVE  /\ row[j].outcome = "ended" => row'[j].outcome = "ended"
         /\ row'[j].outcome = "ended" => row[j].outcome = "ended" \/ Finish(j)
<1>1. RowStep(row[j], row'[j]) \/ (Finish(j) /\ Ends(row[j], row'[j]))
  BY RowSteps
<1> QED BY <1>1 DEF RowInv, Ended, RowStep, Same, Born, Evicts, Ends, Stopping, Taken

\* The end of a job adds to the notices about to be sent only if nobody
\* stopped it.
LEMMA FinishSends ==
  ASSUME Types, RowInv, NEW j \in Ids, Finish(j)
  PROVE  /\ UNCHANGED <<notices, told, wait>>
         /\ sending' = sending \/ (sending' = sending \union {j} /\ row'[j].outcome = "ended")
         /\ row[j].outcome = "none"
<1>1. row'[j] = FinishedRow(row[j])
  BY DEF Finish, Types
<1> QED BY <1>1 DEF Finish, RowInv, Ended

LEMMA NoticeNext ==
  ASSUME Types, RowInv, NoticeInv, [Next]_vars
  PROVE  NoticeInv'
<1>0. \A j \in Ids : row[j].outcome = "ended" => row'[j].outcome = "ended"
  BY EndedKept
<1>1. CASE UNCHANGED <<sending, notices, told>>
  BY <1>0, <1>1 DEF NoticeInv, Queued, Announced
<1>2. CASE \E j \in Ids : Finish(j)
  <2>1. PICK j \in Ids : Finish(j)
    BY <1>2
  <2>2. \/ sending' = sending
        \/ sending' = sending \union {j} /\ row'[j].outcome = "ended"
    BY <2>1, FinishSends
  <2>3. UNCHANGED <<notices, told>> /\ row[j].outcome = "none"
    BY <2>1, FinishSends
  <2>4. \A i : Queued(i)' = Queued(i) /\ Announced(i)' = Announced(i)
    BY <2>3 DEF Queued, Announced
  <2>5. ~Queued(j) /\ ~Announced(j)
    BY <2>3 DEF NoticeInv
  <2> QED BY <1>0, <2>2, <2>3, <2>4, <2>5 DEF NoticeInv
<1>3. CASE \E j \in Ids : Notify(j)
  <2>1. PICK j \in Ids : Notify(j)
    BY <1>3
  <2>2. j \in sending /\ sending' = sending \ {j}
    BY <2>1 DEF Notify
  <2>3. row[j].outcome = "ended" /\ ~Queued(j) /\ ~Announced(j)
    BY <2>2 DEF NoticeInv
  <2>4. CASE notices' = Append(notices, j) /\ UNCHANGED told
    <3>1. \A i : Queued(i)' <=> Queued(i) \/ i = j
      BY <2>4 DEF Queued, Types
    <3>2. \A i : Announced(i)' = Announced(i)
      BY <2>4 DEF Announced
    <3>3. \A i, k \in DOMAIN notices' : notices'[i] = notices'[k] => i = k
      BY <2>3, <2>4 DEF Queued, Types, NoticeInv
    <3> QED BY <1>0, <2>2, <2>3, <3>1, <3>2, <3>3 DEF NoticeInv
  <2>5. CASE told' = Lost({j}) /\ UNCHANGED notices
    <3>1. \A i : Queued(i)' <=> Queued(i)
      BY <2>5 DEF Queued
    <3>2. \A i \in Ids : Announced(i)' <=> Announced(i) \/ i = j
      BY <2>5 DEF Announced, Lost
    <3> QED BY <1>0, <2>2, <2>3, <2>5, <3>1, <3>2 DEF NoticeInv
  <2> QED BY <2>1, <2>4, <2>5 DEF Notify
<1>4. CASE Deliver
  <2> DEFINE h == Head(notices)
  <2>1. notices # <<>> /\ notices' = Tail(notices) /\ UNCHANGED sending
    BY <1>4 DEF Deliver
  <2>2. h \in Ids /\ Queued(h)
    BY <2>1 DEF Queued, Types
  <2>3. \A i \in Ids : i # h => told'[i] = told[i]
    BY <1>4 DEF Deliver, Lost, Types
  <2>4. \A i : Queued(i)' => Queued(i) /\ i # h
    BY <2>1 DEF Queued, Types, NoticeInv
  <2>5. \A i, k \in DOMAIN notices' : notices'[i] = notices'[k] => i = k
    BY <2>1 DEF Types, NoticeInv
  <2>6. \A i \in Ids : i # h => Announced(i)' = Announced(i)
    BY <2>3 DEF Announced
  <2> HIDE DEF h
  <2> QED BY <1>0, <2>1, <2>2, <2>4, <2>5, <2>6 DEF NoticeInv
<1>5. CASE CloseNotices
  <2>1. notices' = <<>> /\ UNCHANGED sending
        /\ told' = Lost({notices[i] : i \in DOMAIN notices})
    BY <1>5 DEF CloseNotices
  <2>2. \A j \in Ids : Announced(j)' <=> Announced(j) \/ Queued(j)
    BY <2>1 DEF Announced, Queued, Lost
  <2>3. \A j : ~Queued(j)'
    BY <2>1 DEF Queued
  <2> QED BY <1>0, <2>1, <2>2, <2>3 DEF NoticeInv
<1>6. CASE \E w \in Waits : WaitLeave(w)
  <2>1. UNCHANGED <<sending, notices>>
    BY <1>6 DEF WaitLeave
  <2>2. \A j \in Ids : told'[j] \subseteq told[j] \union {"exit"} /\ told[j] \subseteq told'[j]
    BY <1>6 DEF WaitLeave
  <2>3. \A j \in Ids : Announced(j)' = Announced(j)
    BY <2>2 DEF Announced
  <2>4. \A j : Queued(j)' = Queued(j)
    BY <2>1 DEF Queued
  <2> QED BY <1>0, <2>1, <2>3, <2>4 DEF NoticeInv
<1>7. ASSUME \/ \E o \in Owners : Start(o) \/ CancelOwner(o)
             \/ \E j \in Ids : Kill(j)
             \/ SealTable \/ UNCHANGED vars
             \/ \E w \in Waits, o \in Owners, ids \in SUBSET Ids : WaitRegister(w, o, ids)
             \/ \E w \in Waits : WaitScan(w) \/ WaitGiveUp(w)
      PROVE  UNCHANGED <<sending, notices, told>>
  BY <1>7 DEF Start, CancelOwner, Kill, SealTable, vars, WaitRegister, WaitScan, WaitGiveUp
<1> QED BY <1>1, <1>2, <1>3, <1>4, <1>5, <1>6, <1>7 DEF Next

GaveUp(j) == \E w \in Waits : wait[w].phase = "done" /\ j \in wait[w].ids /\ j \notin wait[w].exited
Heard(j) == told[j] # {} \/ j \in sending \/ Queued(j) \/ Holders(j) # {} \/ GaveUp(j)

\* What is told stays told, and a wait that returned keeps its answer.
LEMMA HeardKept ==
  ASSUME Types, [Next]_vars, NEW j \in Ids, Heard(j)
  PROVE  Heard(j)'
<1>1. CASE UNCHANGED <<sending, notices, told, wait>>
  BY <1>1 DEF Heard, Queued, Holders, Holding, GaveUp
<1>2. CASE \E i \in Ids : Finish(i)
  <2>1. sending \subseteq sending' /\ UNCHANGED <<notices, told, wait>>
    BY <1>2 DEF Finish
  <2> QED BY <2>1 DEF Heard, Queued, Holders, Holding, GaveUp
<1>3. CASE \E i \in Ids : Notify(i)
  <2>1. PICK i \in Ids : Notify(i)
    BY <1>3
  <2>2. sending' = sending \ {i} /\ UNCHANGED wait
    BY <2>1 DEF Notify
  <2>3. CASE notices' = Append(notices, i) /\ UNCHANGED told
    <3>1. Queued(j) \/ j = i => Queued(j)'
      BY <2>3 DEF Queued, Types
    <3> QED BY <2>2, <2>3, <3>1 DEF Heard, Holders, Holding, GaveUp
  <2>4. CASE told' = Lost({i}) /\ UNCHANGED notices
    <3>1. told[j] # {} \/ j = i => told'[j] # {}
      BY <2>4 DEF Lost
    <3> QED BY <2>2, <2>4, <3>1 DEF Heard, Queued, Holders, Holding, GaveUp
  <2> QED BY <2>1, <2>3, <2>4 DEF Notify
<1>4. CASE Deliver
  <2>1. notices # <<>> /\ notices' = Tail(notices) /\ UNCHANGED <<sending, wait>>
    BY <1>4 DEF Deliver
  <2>2. told[j] # {} \/ j = Head(notices) => told'[j] # {}
    BY <1>4 DEF Deliver, Lost, Types
  <2>3. Queued(j) => j = Head(notices) \/ Queued(j)'
    <3> SUFFICES ASSUME NEW i \in DOMAIN notices, notices[i] = j, i # 1
                 PROVE  Queued(j)'
      BY <2>1 DEF Queued, Types
    <3>1. i - 1 \in DOMAIN notices' /\ notices'[i - 1] = j
      BY <2>1 DEF Types
    <3> QED BY <3>1 DEF Queued
  <2> QED BY <2>1, <2>2, <2>3 DEF Heard, Holders, Holding, GaveUp
<1>5. CASE CloseNotices
  <2>1. UNCHANGED <<sending, wait>> /\ told' = Lost({notices[i] : i \in DOMAIN notices})
    BY <1>5 DEF CloseNotices
  <2>2. told[j] # {} \/ Queued(j) => told'[j] # {}
    BY <2>1 DEF Lost, Queued
  <2> QED BY <2>1, <2>2 DEF Heard, Holders, Holding, GaveUp
<1>6. CASE \E w \in Waits : WaitLeave(w)
  <2>1. PICK w \in Waits : WaitLeave(w)
    BY <1>6
  <2>2. UNCHANGED <<sending, notices>> /\ wait[w].phase = "leaving"
    BY <2>1 DEF WaitLeave
  <2>3. /\ wait'[w].phase = "done" /\ wait'[w].ids = wait[w].ids
        /\ wait'[w].exited = wait[w].exited
        /\ \A u \in Waits : u # w => wait'[u] = wait[u]
    BY <2>1 DEF WaitLeave, Types, WaitStates
  <2>4. told[j] # {} \/ j \in wait[w].exited => told'[j] # {}
    BY <2>1 DEF WaitLeave
  <2>5. GaveUp(j) => GaveUp(j)'
    BY <2>2, <2>3 DEF GaveUp
  <2>6. Holders(j) # {} => Holders(j)' # {} \/ told'[j] # {} \/ GaveUp(j)'
    <3> SUFFICES ASSUME NEW u \in Waits, Holding(u), j \in wait[u].ids
                 PROVE  Holders(j)' # {} \/ told'[j] # {} \/ GaveUp(j)'
      BY DEF Holders
    <3>1. CASE u = w
      BY <3>1, <2>3, <2>4 DEF GaveUp
    <3>2. CASE u # w
      BY <3>2, <2>3 DEF Holders, Holding
    <3> QED BY <3>1, <3>2
  <2>7. Queued(j)' = Queued(j)
    BY <2>2 DEF Queued
  <2> QED BY <2>2, <2>4, <2>5, <2>6, <2>7 DEF Heard
<1>7. CASE \/ \E w \in Waits, o \in Owners, ids \in SUBSET Ids : WaitRegister(w, o, ids)
           \/ \E w \in Waits : WaitScan(w) \/ WaitGiveUp(w)
  <2>1. PICK w \in Waits :
          /\ \A u \in Waits : u # w => wait'[u] = wait[u]
          /\ wait[w].phase # "done"
          /\ \/ ~Holding(w)
             \/ Holding(w)' /\ wait'[w].ids = wait[w].ids
    BY <1>7 DEF WaitRegister, WaitScan, WaitGiveUp, Types, WaitStates, Holding
  <2>2. UNCHANGED <<sending, notices, told>>
    BY <1>7 DEF WaitRegister, WaitScan, WaitGiveUp
  <2>3. GaveUp(j) => GaveUp(j)'
    BY <2>1 DEF GaveUp
  <2>4. Holders(j) # {} => Holders(j)' # {}
    <3> SUFFICES ASSUME NEW u \in Waits, Holding(u), j \in wait[u].ids
                 PROVE  u \in Holders(j)'
      BY DEF Holders
    <3>1. CASE u = w
      BY <3>1, <2>1 DEF Holders
    <3>2. CASE u # w
      BY <3>2, <2>1 DEF Holders, Holding
    <3> QED BY <3>1, <3>2
  <2>5. Queued(j)' = Queued(j)
    BY <2>2 DEF Queued
  <2> QED BY <2>2, <2>3, <2>4, <2>5 DEF Heard
<1>8. ASSUME \/ \E o \in Owners : Start(o) \/ CancelOwner(o)
             \/ \E i \in Ids : Kill(i)
             \/ SealTable \/ UNCHANGED vars
      PROVE  UNCHANGED <<sending, notices, told, wait>>
  BY <1>8 DEF Start, CancelOwner, Kill, SealTable, vars
<1> QED BY <1>1, <1>2, <1>3, <1>4, <1>5, <1>6, <1>7, <1>8 DEF Next

ToldInv == \A j \in Ids : row[j].outcome = "ended" => Heard(j)

LEMMA ToldInit == Init => ToldInv
BY AbsentFields DEF Init, ToldInv

LEMMA ToldNext ==
  ASSUME Types, HeldInv, RowInv, ToldInv, [Next]_vars
  PROVE  ToldInv'
<1> SUFFICES ASSUME NEW j \in Ids, row'[j].outcome = "ended"
             PROVE  Heard(j)'
  BY DEF ToldInv
<1>1. CASE row[j].outcome = "ended"
  BY <1>1, HeardKept DEF ToldInv
<1>2. CASE Finish(j)
  <2> DEFINE f == FinishedRow(row[j])
  <2>1. row' = [row EXCEPT ![j] = f] /\ UNCHANGED wait /\ row[j].state = "running"
    BY <1>2 DEF Finish
  <2>2. sending' = IF f.outcome = "ended" /\ ~f.waited THEN sending \union {j} ELSE sending
    BY <1>2 DEF Finish
  <2>3. f.waited = (row[j].waited \/ row[j].waiters > 0)
    BY FinishedRowFields DEF Types
  <2>4. f.outcome = "ended"
    BY <2>1 DEF Types
  <2>5. ~row[j].waited
    BY <2>1 DEF RowInv, Ended
  <2>6. CASE row[j].waiters > 0
    <3>1. Cardinality(Holders(j)) > 0
      BY <2>1, <2>6 DEF HeldInv, Present
    <3>2. Holders(j) # {}
      BY <3>1, FS_EmptySet
    <3>3. Holders(j)' = Holders(j)
      BY <2>1 DEF Holders, Holding
    <3> QED BY <3>2, <3>3 DEF Heard
  <2>7. CASE ~(row[j].waiters > 0)
    <3>1. f.waited = FALSE
      BY <2>3, <2>5, <2>7
    <3> HIDE DEF f
    <3>2. j \in sending'
      BY <2>2, <2>4, <3>1
    <3> QED BY <3>2 DEF Heard
  <2> QED BY <2>6, <2>7
<1> QED BY <1>1, <1>2, EndedKept

------------------------------------------------------------------------------
JobsInv == Types /\ HeldInv /\ BoundsInv /\ RowInv /\ NoticeInv /\ ToldInv

\* The conjuncts are kept together: the table's counts, the rows and what was
\* told of them.
LEMMA JobsInductive == Spec => []JobsInv
<1>1. Init => JobsInv
  BY TypesInit, HeldInit, BoundsInit, RowInit, NoticeInit, ToldInit DEF JobsInv
<1>2. JobsInv /\ [Next]_vars => JobsInv'
  BY TypesNext, HeldNext, BoundsNext, RowNext, NoticeNext, ToldNext DEF JobsInv
<1> QED BY <1>1, <1>2, PTL DEF Spec

\* Every row counts exactly the waits that hold it, and no eviction takes a
\* row from a wait, for any number of jobs and waits: the count that admit
\* trusts is never stale.
THEOREM RowsCounted == Spec => []RowsHeld
<1>1. JobsInv => RowsHeld
  BY DEF JobsInv, HeldInv, RowsHeld, Holders
<1> QED BY <1>1, JobsInductive, PTL

\* The permits, the table and the notice channel keep their bounds, waiters
\* never goes below zero, and a sealed table runs no job it did not stop.
THEOREM JobTypes == Spec => []TypeOK
<1>1. JobsInv => TypeOK
  <2> SUFFICES ASSUME JobsInv PROVE TypeOK
    OBVIOUS
  <2>1. permits \in 0 .. Maximum
    <3>1. Running \in SUBSET Present
      BY DEF Running, Present
    <3>2. Cardinality(Running) <= Cardinality(Present)
      BY <3>1, TableFinite, FS_Subset
    <3>3. /\ permits \in Int /\ permits + Cardinality(Running) = Maximum
          /\ Cardinality(Present) <= Maximum
      BY DEF JobsInv, Types, BoundsInv, TableBounds
    <3> QED BY <3>2, <3>3, TableFinite, JobsAssumption
  <2>2. \A j \in Ids : row[j].waiters \in Nat
    BY FS_CardinalityType DEF JobsInv, HeldInv
  <2>3. /\ sealed \in BOOLEAN /\ closed \in BOOLEAN /\ sending \subseteq Ids
        /\ \A j \in Ids : row[j] \in Rows /\ told[j] \subseteq Told
    BY DEF JobsInv, Types
  <2>4. \A j \in Ids : /\ row[j].state \in States /\ row[j].stop \in Stops
                       /\ row[j].waited \in BOOLEAN
    BY <2>3 DEF Rows
  <2>5. Len(notices) <= Maximum /\ TableBounds
    BY DEF JobsInv, BoundsInv
  <2> QED BY <2>1, <2>2, <2>3, <2>4, <2>5 DEF TypeOK, States, Stops
<1> QED BY <1>1, JobsInductive, PTL

\* The end of a job nobody stopped is told, on its way, dropped with its
\* notice, or was left to a wait that gave up: for any number of jobs, waits
\* and owners, nothing else silences it.
THEOREM EndsTold == Spec => []EndTold
<1>1. JobsInv => EndTold
  BY DEF JobsInv, ToldInv, Heard, EndTold, Pending, Queued, Holders, GaveUp
<1> QED BY <1>1, JobsInductive, PTL

\* No job sends two notices, and a stopped job sends none.
THEOREM NoticesOnce == Spec => []NoticeOnce
<1>1. JobsInv => NoticeOnce
  <2> SUFFICES ASSUME JobsInv, NEW j \in Ids
               PROVE  /\ row[j].stop # "none" => told[j] \subseteq {"exit"} /\ j \notin sending
                      /\ Cardinality({i \in DOMAIN notices : notices[i] = j})
                           + (IF j \in sending THEN 1 ELSE 0)
                           + (IF told[j] \intersect {"notice", "dropped"} # {} THEN 1 ELSE 0) <= 1
    BY DEF NoticeOnce
  <2> DEFINE at == {i \in DOMAIN notices : notices[i] = j}
  <2>1. row[j].stop # "none" => told[j] \subseteq {"exit"} /\ j \notin sending
    BY DEF JobsInv, RowInv, NoticeInv, Announced, Types, Told
  <2>2. told[j] \intersect {"notice", "dropped"} # {} <=> Announced(j)
    BY DEF Announced
  <2>3. at # {} => Queued(j)
    BY DEF Queued
  <2>4. \/ Cardinality(at) = 0
        \/ Cardinality(at) = 1 /\ Queued(j)
    <3>1. CASE at = {}
      BY <3>1, FS_EmptySet
    <3>2. CASE at # {}
      <4>1. PICK i : at = {i}
        BY <3>2 DEF JobsInv, NoticeInv
      <4> QED BY <3>2, <4>1, <2>3, FS_Singleton
    <3> QED BY <3>1, <3>2
  <2> HIDE DEF at
  <2>5. /\ Queued(j) => j \notin sending /\ ~Announced(j)
        /\ j \in sending => ~Announced(j)
    BY DEF JobsInv, NoticeInv
  <2>6. Cardinality(at) + (IF j \in sending THEN 1 ELSE 0) + (IF Announced(j) THEN 1 ELSE 0) <= 1
    BY <2>4, <2>5
  <2> QED BY <2>1, <2>2, <2>6 DEF at
<1> QED BY <1>1, JobsInductive, PTL
==============================================================================
