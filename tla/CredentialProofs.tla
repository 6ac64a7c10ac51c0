--------------------------- MODULE CredentialProofs ---------------------------
(***************************************************************************)
(* Proofs about Credential, for any number of concurrent resolutions and   *)
(* all bounds: rotating tokens are presented once, what is returned was    *)
(* saved, and seals hold.                                                  *)
(***************************************************************************)
EXTENDS Credential, TLAPS

Working(t) == task[t].pc \in {"post", "reply", "save"}

\* A transaction runs under the record's lock, from the read to the save.
Exclusive == \A t \in Tasks : Working(t) => lock = t

\* Seeds are named in the order they are provided, and a transaction is about
\* the record's family or a newer seed: never about a family that is sealed.
FamiliesOrdered ==
    /\ record.family <= seed /\ (present => seed > 0)
    /\ record.state = "absent" => record.family = 0
    /\ \A t \in Tasks : Working(t) =>
         /\ record.family <= task[t].family /\ task[t].family <= seed
         /\ task[t].family = record.family => record.state = "live"
    /\ \A t \in Tasks : task[t].pc = "save" =>
         task[t].next.family = task[t].family /\ task[t].next.state # "absent"

\* Some task knows of a rotation of f that the record does not show yet.
Unrecorded(f) == \E t \in Tasks : Rotated(t) /\ task[t].family = f

\* What the record, and a task on its way, say of family f agrees with the
\* endpoint, or the family is revoked.
AgreedOn(f) ==
    /\ f > record.family /\ ~Unrecorded(f) => head[f] \in {0, Revoked}
    /\ record.state = "live" /\ record.family = f /\ ~Unrecorded(f) =>
         head[f] \in {record.place, Revoked}
    /\ \A t \in Tasks : task[t].family = f =>
         /\ task[t].pc = "post" => head[f] \in {task[t].place, Revoked}
         /\ task[t].pc = "reply" /\ task[t].reply = "issued" => head[f] = task[t].access
         /\ task[t].pc = "reply" /\ task[t].reply = "same" => head[f] = task[t].place
         /\ task[t].pc = "save" /\ task[t].next.state = "live" =>
              head[f] = task[t].next.place

\* A family on which they may disagree is one whose request or reply was lost;
\* the requests still on their way are of such families.
Agreed == \A f \in Families : f \in lost \/ AgreedOn(f)
StraysLost == \A s \in strays : s.family \in lost

Core == Exclusive /\ FamiliesOrdered /\ StraysLost /\ Agreed

IInv == TypeOK /\ Core /\ ServedSaved /\ NeverReused

USE CredentialAssumption

-----------------------------------------------------------------------------
(* Facts about the steps. *)

\* Tasks, families and records of the initial state are what they should be.
LEMMA Basics ==
    /\ None \notin Tasks /\ Sched \in Tasks
    /\ Absent \in Records /\ Idle \in TaskRecords
    /\ Waiting \in TaskRecords /\ Waiting.pc = "lock"
    /\ \A f \in Families, p \in Places, a \in Accesses, g \in Ages :
         Live(f, p, a, g) \in Records
    /\ \A f \in Families : Sealed(f) \in Records
BY DEF Tasks, Absent, Records, Idle, Waiting, At, TaskRecords, Live, Sealed, Families, Places,
       Accesses, Ages, Replies

\* A step that gives one task a new place.
LEMMA Moved ==
    ASSUME TypeOK, NEW t \in Tasks, NEW x \in TaskRecords, task' = [task EXCEPT ![t] = x]
    PROVE  /\ task' \in [Tasks -> TaskRecords]
           /\ task'[t] = x
           /\ \A u \in Tasks : u # t => task'[u] = task[u]
BY DEF TypeOK

\* While one task holds the record, no other is in a transaction.
LEMMA Alone ==
    ASSUME Exclusive, NEW t \in Tasks, lock = t \/ lock = None
    PROVE  \A u \in Tasks : u # t => ~Working(u)
BY Basics DEF Exclusive

\* The initial states satisfy the invariant.
LEMMA InitInv == Init => IInv
<1> SUFFICES ASSUME Init PROVE IInv
  OBVIOUS
<1>1. \A t \in Tasks : task[t] = Idle /\ task[t].pc = "idle"
  BY DEF Init, Idle, At
<1>0. 0 \in Families /\ 0 \in Places /\ 0 \in Accesses /\ Repeating \in Accesses /\ "fresh" \in Ages
  BY DEF Families, Places, Accesses, Ages
<1>2. record \in Records /\ record.family = 0 /\ record.place = 0
  <2>1. CASE record = Absent
    BY <2>1, Basics DEF Absent
  <2>2. ASSUME NEW a \in {0, Repeating}, record = Live(0, 0, a, "fresh")
        PROVE  record \in Records /\ record.family = 0 /\ record.place = 0
    <3>1. Live(0, 0, a, "fresh") \in Records
      BY <1>0, Basics
    <3> QED BY <2>2, <3>1 DEF Live
  <2> QED BY <2>1, <2>2 DEF Init
<1>3. TypeOK
  <2>1. task \in [Tasks -> TaskRecords]
    BY Basics DEF Init
  <2>2. head \in [Families -> Places \cup {Revoked}]
    BY <1>0 DEF Init
  <2>3. faults \in 0 .. MaxFaults
    BY DEF Init
  <2>4. seed \in Families /\ issued \in Places /\ strays \subseteq Strays /\ served \subseteq Accesses
    BY <1>0 DEF Init
  <2>5. /\ present \in BOOLEAN /\ hold \in BOOLEAN /\ newGen \in BOOLEAN
        /\ lost \subseteq Families /\ reused \subseteq Families /\ lock \in Tasks \cup {None}
    BY DEF Init
  <2> QED BY <1>2, <2>1, <2>2, <2>3, <2>4, <2>5 DEF TypeOK
<1>4. Exclusive /\ FamiliesOrdered
  BY <1>1, <1>2 DEF Init, Exclusive, FamiliesOrdered, Working
<1>5. StraysLost /\ ServedSaved /\ NeverReused
  BY DEF Init, StraysLost, ServedSaved, NeverReused
<1>6. Agreed
  BY <1>1, <1>2 DEF Init, Agreed, AgreedOn
<1> QED BY <1>3, <1>4, <1>5, <1>6 DEF IInv, Core

Same == UNCHANGED <<record, seed, present, head, issued>>

\* A task is outside of a transaction afterwards, and the record and the
\* endpoint are as before: the core holds unless a rotation was dropped.
LEMMA Quits ==
    ASSUME TypeOK, Core, NEW t \in Tasks, NEW x \in TaskRecords, x.pc \in {"idle", "lock"},
           task' = [task EXCEPT ![t] = x], Same,
           \/ lock' = lock /\ ~Working(t)
           \/ lock' = None /\ lock \in {t, None},
           lost \subseteq lost', Rotated(t) => task[t].family \in lost', StraysLost'
    PROVE  Core'
<1>1. task'[t] = x /\ \A u \in Tasks : u # t => task'[u] = task[u]
  BY Moved
<1>2. Exclusive'
  <2> SUFFICES ASSUME NEW u \in Tasks, Working(u)' PROVE lock' = u
    BY DEF Exclusive
  <2>1. u # t /\ Working(u)
    BY <1>1 DEF Working
  <2>2. lock = u
    BY <2>1 DEF Core, Exclusive
  <2> QED BY <2>1, <2>2, Basics
<1>3. FamiliesOrdered'
  BY <1>1 DEF Core, FamiliesOrdered, Working, Same
<1>4. Agreed'
  <2> SUFFICES ASSUME NEW f \in Families, f \notin lost' PROVE AgreedOn(f)'
    BY DEF Agreed
  <2>1. AgreedOn(f) /\ (Rotated(t) => task[t].family # f)
    BY DEF Core, Agreed
  <2>2. Unrecorded(f) => Unrecorded(f)'
    BY <1>1, <2>1 DEF Unrecorded, Rotated
  <2> QED BY <1>1, <2>1, <2>2 DEF AgreedOn, Same
<1> QED BY <1>2, <1>3, <1>4 DEF Core

\* No task, the record or the endpoint changes; a new seed may come.
LEMMA Keeps ==
    ASSUME TypeOK, Core, UNCHANGED <<task, lock, record, head, issued, strays, lost>>,
           seed' \in Nat, seed' >= seed, present' => seed' > 0
    PROVE  Core'
<1>1. Exclusive' /\ StraysLost' /\ Agreed'
  BY DEF Core, Exclusive, Working, StraysLost, Agreed, AgreedOn, Unrecorded, Rotated
<1>2. FamiliesOrdered'
  <2>1. seed \in Nat /\ record.family \in Nat /\ \A t \in Tasks : task[t].family \in Nat
    BY DEF TypeOK, Records, TaskRecords, Families
  <2> QED BY <2>1 DEF Core, FamiliesOrdered, Working
<1> QED BY <1>1, <1>2 DEF Core

\* Who asks, and the operator, change nothing that matters.
LEMMA AskInv ==
    ASSUME IInv, (\E t \in Lazy : Resolve(t)) \/ Tick
    PROVE  IInv'
<1>1. PICK t \in Tasks : task[t].pc = "idle" /\ task' = [task EXCEPT ![t] = Waiting]
  BY DEF Resolve, Tick, Tasks
<1>3. /\ UNCHANGED <<record, lock, operator, endpoint, strays, faults, lost, served>>
      /\ hold' \in BOOLEAN /\ newGen' \in BOOLEAN
  BY DEF Resolve, Tick, broker, IInv, TypeOK
<1>4. TypeOK'
  <2>1. task' \in [Tasks -> TaskRecords]
    BY <1>1, Basics, Moved DEF IInv
  <2> QED BY <1>3, <2>1 DEF IInv, TypeOK, operator, endpoint
<1>5. Core'
  <2>1. ~Working(t) /\ ~Rotated(t)
    BY <1>1 DEF Working, Rotated
  <2>2. StraysLost'
    BY <1>3 DEF IInv, Core, StraysLost
  <2> QED BY <1>1, <1>3, <2>1, <2>2, Basics, Quits DEF IInv, Same, operator, endpoint
<1> QED BY <1>3, <1>4, <1>5 DEF IInv, ServedSaved, NeverReused, endpoint

LEMMA OperatorInv ==
    ASSUME IInv, Provide \/ TakeAway \/ Reloaded \/ Retry
    PROVE  IInv'
<1>1. UNCHANGED <<record, lock, task, endpoint, strays, faults, lost, served>>
  BY DEF Provide, TakeAway, Reloaded, Retry, broker, operator
<1>2. seed' \in Families /\ seed' >= seed
  BY DEF Provide, TakeAway, Reloaded, Retry, operator, IInv, TypeOK, Families
<1>3. present' \in BOOLEAN /\ hold' \in BOOLEAN /\ newGen' \in BOOLEAN
  BY Zenon DEF Provide, TakeAway, Reloaded, Retry, broker, operator, IInv, TypeOK
<1>7. present' => seed' > 0
  <2>1. seed' = seed + 1 \/ (seed' = seed /\ (present' => present))
    BY Zenon DEF Provide, TakeAway, Reloaded, Retry, operator
  <2>2. seed \in Nat
    BY DEF IInv, TypeOK, Families
  <2> QED BY <2>1, <2>2 DEF IInv, Core, FamiliesOrdered
<1>4. TypeOK'
  BY <1>1, <1>2, <1>3 DEF IInv, TypeOK, endpoint
<1>5. Core'
  <2>1. seed' \in Nat
    BY <1>2 DEF Families
  <2> QED BY <1>1, <1>2, <1>7, <2>1, Keeps DEF IInv, endpoint
<1> QED BY <1>1, <1>4, <1>5 DEF IInv, ServedSaved, NeverReused, endpoint

\* Time passes: the record's age enters none of the invariants.
LEMMA AgeInv ==
    ASSUME IInv, Age
    PROVE  IInv'
<1>1. UNCHANGED <<lock, task, broker, operator, endpoint, strays, faults, lost, served>>
  BY DEF Age
<1>2. /\ record' \in Records /\ record'.state = record.state /\ record'.place = record.place
      /\ record'.access = record.access /\ record'.family = record.family
  BY DEF Age, IInv, TypeOK, Records, Ages
<1>3. TypeOK'
  BY <1>1, <1>2 DEF IInv, TypeOK, broker, operator, endpoint
<1>4. Exclusive' /\ FamiliesOrdered' /\ StraysLost'
  BY <1>1, <1>2 DEF IInv, Core, Exclusive, FamiliesOrdered, StraysLost, Working, operator
<1>5. Agreed'
  BY <1>1, <1>2 DEF IInv, Core, Agreed, AgreedOn, Unrecorded, Rotated, endpoint
<1> QED BY <1>1, <1>2, <1>3, <1>4, <1>5 DEF IInv, Core, ServedSaved, NeverReused, endpoint

\* What a task that is given up leaves on its way.
LEMMA AstrayType ==
    ASSUME TypeOK, Fault, NEW t \in Tasks
    PROVE  Astray(t) \subseteq Strays
<1>1. faults' \in 1 .. MaxFaults
  BY DEF Fault, TypeOK
<1>2. task[t].family \in Families /\ task[t].place \in Places
  BY DEF TypeOK, TaskRecords
<1> QED BY <1>1, <1>2 DEF Astray, Strays

\* A crash ends every transaction, and is a loss if one had rotated a token.
LEMMA CrashInv ==
    ASSUME IInv, Crash
    PROVE  IInv'
<1>1. UNCHANGED <<record, operator, endpoint, served>>
  BY DEF Crash
<1>2. \A t \in Tasks : task'[t] = Idle /\ task'[t].pc = "idle"
  BY DEF Crash, Idle, At
<1>3. lost \subseteq lost' /\ \A t \in Tasks : task[t].pc = "post" \/ Rotated(t) => task[t].family \in lost'
  BY DEF Crash, Uncertain
<1>7. \A s \in strays' : s \in strays \/ \E t \in Tasks : s \in Astray(t)
  BY DEF Crash
<1>4. TypeOK'
  <2>1. task' \in [Tasks -> TaskRecords]
    BY Basics DEF Crash
  <2>2. faults' \in 0 .. MaxFaults
    BY DEF Crash, Fault, IInv, TypeOK
  <2>3. hold' \in BOOLEAN /\ newGen' \in BOOLEAN /\ lock' \in Tasks \cup {None}
    BY DEF Crash
  <2>4. lost' \subseteq Families
    BY DEF Crash, Uncertain, IInv, TypeOK, TaskRecords
  <2>5. strays' \subseteq Strays
    <3>1. Fault
      BY DEF Crash
    <3> QED BY <1>7, <3>1, AstrayType DEF IInv, TypeOK
  <2> QED BY <1>1, <2>1, <2>2, <2>3, <2>4, <2>5 DEF IInv, TypeOK, operator, endpoint
<1>5. Exclusive' /\ FamiliesOrdered'
  BY <1>1, <1>2 DEF IInv, Core, Exclusive, FamiliesOrdered, Working, operator
<1>6. Agreed'
  <2> SUFFICES ASSUME NEW f \in Families, f \notin lost' PROVE AgreedOn(f)'
    BY DEF Agreed
  <2>1. AgreedOn(f) /\ ~Unrecorded(f)
    BY <1>3 DEF IInv, Core, Agreed, Unrecorded
  <2> QED BY <1>1, <1>2, <2>1 DEF AgreedOn, endpoint
<1>8. StraysLost'
  <2> SUFFICES ASSUME NEW s \in strays' PROVE s.family \in lost'
    BY DEF StraysLost
  <2>1. CASE s \in strays
    BY <1>3, <2>1 DEF IInv, Core, StraysLost
  <2>2. ASSUME NEW t \in Tasks, s \in Astray(t) PROVE s.family \in lost'
    BY <1>3, <2>2 DEF Astray
  <2> QED BY <1>7, <2>1, <2>2
<1>9. NeverReused'
  BY <1>1, <1>3 DEF IInv, NeverReused, endpoint
<1> QED BY <1>1, <1>4, <1>5, <1>6, <1>8, <1>9 DEF IInv, Core, ServedSaved

\* The transaction ends without a change of the record.
LEMMA FinishInv ==
    ASSUME IInv, NEW t \in Tasks, NEW ok \in BOOLEAN, Finish(t, ok), Same,
           UNCHANGED <<reused, newGen>>, faults' \in 0 .. MaxFaults,
           lock \in {t, None},
           lost \subseteq lost', lost' \subseteq Families,
           Rotated(t) => task[t].family \in lost', strays' \subseteq Strays, StraysLost',
           served' # {} => record.state = "live" /\ served' = {record.access}
    PROVE  IInv'
<1>1. task' = [task EXCEPT ![t] = Idle] /\ lock' = None
  BY DEF Finish
<1>2. Idle \in TaskRecords /\ Idle.pc = "idle"
  BY Basics DEF Idle, At
<1>3. Core'
  BY <1>1, <1>2, Quits DEF IInv
<1>4. TypeOK'
  <2>1. task' \in [Tasks -> TaskRecords]
    BY <1>1, <1>2, Moved DEF IInv
  <2>2. hold' \in BOOLEAN
    BY DEF Finish, IInv, TypeOK
  <2>3. served' \subseteq Accesses
    BY DEF IInv, TypeOK, Records
  <2> QED BY <1>1, <2>1, <2>2, <2>3 DEF IInv, TypeOK, Same
<1>5. ServedSaved' /\ NeverReused'
  BY DEF IInv, Same, ServedSaved, NeverReused
<1> QED BY <1>3, <1>4, <1>5 DEF IInv

\* A transaction begins: it presents a token that the endpoint accepts, or seals
\* the record it found.
LEMMA Begins ==
    ASSUME IInv, NEW t \in Tasks, NEW x \in TaskRecords,
           task[t].pc = "lock", lock = None, lock' = t,
           task' = [task EXCEPT ![t] = x], x.reply = "none",
           Same, UNCHANGED <<hold, served, newGen, reused, strays, faults, lost>>,
           record.family <= x.family, x.family <= seed,
           x.family = record.family => record.state = "live",
           \/ x.pc = "post" /\ (x.family \in lost \/ head[x.family] \in {x.place, Revoked})
           \/ x.pc = "save" /\ x.next.family = x.family /\ x.next.state = "sealed"
    PROVE  IInv'
<1>2. task'[t] = x /\ task' \in [Tasks -> TaskRecords] /\ \A u \in Tasks : u # t => task'[u] = task[u]
  BY Moved DEF IInv
<1>3. TypeOK'
  BY <1>2 DEF IInv, TypeOK, Same
<1>4. \A u \in Tasks : ~Working(u) /\ (Working(u)' => u = t)
  BY <1>2, Basics DEF IInv, Core, Exclusive, Working
<1>5. Exclusive' /\ FamiliesOrdered' /\ StraysLost'
  BY <1>2, <1>4 DEF IInv, Core, Exclusive, FamiliesOrdered, StraysLost, Same, Working
<1>6. Agreed'
  <2> SUFFICES ASSUME NEW f \in Families, f \notin lost PROVE AgreedOn(f)'
    BY DEF Agreed
  <2>1. AgreedOn(f)
    BY DEF IInv, Core, Agreed
  <2>2. ~Unrecorded(f) /\ ~Unrecorded(f)'
    BY <1>2, <1>4 DEF Unrecorded, Rotated, Working
  <2>3. \A u \in Tasks : u # t => task'[u].pc \notin {"post", "reply", "save"}
    BY <1>4 DEF Working
  <2> QED BY <1>2, <2>1, <2>2, <2>3 DEF AgreedOn, Same
<1> QED BY <1>3, <1>5, <1>6 DEF IInv, Core, Same, ServedSaved, NeverReused

LEMMA AcquireInv ==
    ASSUME IInv, NEW t \in Tasks, Acquire(t)
    PROVE  IInv'
<1>1. /\ task[t].pc = "lock" /\ lock = None
      /\ UNCHANGED <<record, newGen, operator, endpoint, strays, faults, lost>>
  BY DEF Acquire, MayAcquire
<1>2. Same /\ UNCHANGED reused /\ faults' \in 0 .. MaxFaults /\ strays' \subseteq Strays /\ StraysLost'
      /\ lost' \subseteq Families
  BY <1>1 DEF Same, operator, endpoint, IInv, Core, TypeOK, StraysLost
<1>3. ~Rotated(t) /\ \A f : ~Unrecorded(f)
  BY <1>1, Basics DEF Rotated, Unrecorded, IInv, Core, Exclusive, Working
<1>0. /\ seed \in Families /\ 0 \in Places /\ record.family \in Families /\ record.place \in Places
      /\ "none" \in Replies
  BY DEF IInv, TypeOK, Places, Records, Replies
<1>4. CASE Adopts /\ lock' = t /\ task' = [task EXCEPT ![t] = At("post", seed, 0, "none", 0, Absent)]
           /\ UNCHANGED <<hold, served>>
  <2> DEFINE x == At("post", seed, 0, "none", 0, Absent)
  <2>1. x \in TaskRecords /\ x.pc = "post" /\ x.family = seed /\ x.place = 0 /\ x.reply = "none"
    BY <1>0, Basics DEF At, TaskRecords
  <2>2. record.family < seed
    BY <1>0, <1>4 DEF Adopts, IInv, Core, FamiliesOrdered, Families
  <2>3. seed \in lost \/ head[seed] \in {0, Revoked}
    BY <1>0, <1>3, <2>2 DEF IInv, Core, Agreed, AgreedOn
  <2>4. record.family <= seed /\ seed <= seed /\ seed # record.family
    BY <1>0, <2>2 DEF Families
  <2> HIDE DEF x
  <2>5. task' = [task EXCEPT ![t] = x]
    BY <1>4 DEF x
  <2> QED BY <1>1, <1>2, <1>4, <2>1, <2>3, <2>4, <2>5, Begins
<1>5. CASE record.state = "live" /\ lock' = t
           /\ task' = [task EXCEPT ![t] = At("post", record.family, record.place, "none", 0, Absent)]
           /\ UNCHANGED <<hold, served>>
  <2> DEFINE x == At("post", record.family, record.place, "none", 0, Absent)
  <2>1. x \in TaskRecords /\ x.pc = "post" /\ x.family = record.family /\ x.place = record.place
        /\ x.reply = "none"
    BY <1>0, Basics DEF At, TaskRecords
  <2>2. record.family \in lost \/ head[record.family] \in {record.place, Revoked}
    BY <1>0, <1>3, <1>5 DEF IInv, Core, Agreed, AgreedOn
  <2>3. record.family <= record.family /\ record.family <= seed
    BY <1>0 DEF IInv, Core, FamiliesOrdered, Families
  <2> HIDE DEF x
  <2>5. task' = [task EXCEPT ![t] = x]
    BY <1>5 DEF x
  <2> QED BY <1>1, <1>2, <1>5, <2>1, <2>2, <2>3, <2>5, Begins
<1>6. CASE /\ record.state = "live" /\ Finish(t, TRUE)
           /\ served' = IF t = Sched THEN served ELSE served \cup {record.access}
  <2>1. served' # {} => served' = {record.access}
    BY <1>6 DEF IInv, ServedSaved
  <2> QED BY <1>1, <1>2, <1>3, <1>6, <2>1, FinishInv
<1>7. CASE Finish(t, FALSE) /\ UNCHANGED served
  <2>1. served' # {} => record.state = "live" /\ served' = {record.access}
    BY <1>7 DEF IInv, ServedSaved
  <2> QED BY <1>1, <1>2, <1>3, <1>7, <2>1, FinishInv
<1>8. CASE record.state = "live" /\ lock' = t
           /\ task' = [task EXCEPT ![t] = At("save", record.family, record.place, "none", 0,
                                              Sealed(record.family))]
           /\ UNCHANGED <<hold, served>>
  <2> DEFINE x == At("save", record.family, record.place, "none", 0, Sealed(record.family))
  <2>1. x \in TaskRecords /\ x.pc = "save" /\ x.family = record.family /\ x.reply = "none"
        /\ x.next = Sealed(record.family)
    BY <1>0, Basics DEF At, TaskRecords
  <2>2. x.next.family = x.family /\ x.next.state = "sealed"
    BY <2>1 DEF Sealed
  <2>3. record.family <= record.family /\ record.family <= seed
    BY <1>0 DEF IInv, Core, FamiliesOrdered, Families
  <2> HIDE DEF x
  <2>5. task' = [task EXCEPT ![t] = x]
    BY <1>8 DEF x
  <2> QED BY <1>1, <1>2, <1>8, <2>1, <2>2, <2>3, <2>5, Begins
<1> QED BY <1>4, <1>5, <1>6, <1>7, <1>8 DEF Acquire

LEMMA ReadFailsInv ==
    ASSUME IInv, NEW t \in Tasks, ReadFails(t)
    PROVE  IInv'
<1>1. /\ task[t].pc = "lock" /\ lock = None /\ Finish(t, FALSE)
      /\ UNCHANGED <<record, newGen, operator, endpoint, strays, lost, served>>
  BY DEF ReadFails, MayAcquire
<1>2. /\ Same /\ UNCHANGED reused /\ strays' \subseteq Strays /\ StraysLost' /\ lost' \subseteq Families
      /\ ~Rotated(t)
  BY <1>1 DEF Same, operator, endpoint, IInv, Core, TypeOK, StraysLost, Rotated
<1>3. faults' \in 0 .. MaxFaults
  BY DEF ReadFails, Fault, IInv, TypeOK
<1>4. served' # {} => record.state = "live" /\ served' = {record.access}
  BY <1>1 DEF IInv, ServedSaved
<1> QED BY <1>1, <1>2, <1>3, <1>4, FinishInv

\* What the endpoint does with a request: to its family alone, and it calls a
\* token replaced only if it is not the current one.
LEMMA Served ==
    ASSUME TypeOK, NEW f \in Families, NEW p \in Places, NEW reply, Serve(f, p, reply)
    PROVE  /\ head' \in [Families -> Places \cup {Revoked}]
           /\ \A g \in Families : g # f => head'[g] = head[g]
           /\ issued' \in Places /\ faults' \in 0 .. MaxFaults
           /\ \/ reply \in {"issued", "reflected"} /\ p = head[f] /\ head'[f] = issued'
              \/ reply \in {"same", "refused"} /\ p = head[f] /\ head'[f] = head[f]
              \/ reply = "reauthorize" /\ head'[f] = Revoked
           /\ reused' = reused
              \/ (head[f] \notin {p, Revoked} /\ reused' = reused \cup {f})
<1>1. CASE /\ reply \in {"issued", "reflected"} /\ p = head[f] /\ issued < MaxIssues
           /\ issued' = issued + 1 /\ head' = [head EXCEPT ![f] = issued']
           /\ UNCHANGED <<reused, faults>>
  <2>1. issued' \in Places
    BY <1>1 DEF TypeOK, Places
  <2> QED BY <1>1, <2>1 DEF TypeOK
<1>2. CASE /\ reply = "same" /\ p = head[f] /\ issued < MaxIssues
           /\ issued' = issued + 1 /\ UNCHANGED <<head, reused, faults>>
  <2>1. issued' \in Places
    BY <1>2 DEF TypeOK, Places
  <2> QED BY <1>2, <2>1 DEF TypeOK
<1>3. CASE reply = "refused" /\ p = head[f] /\ Fault /\ UNCHANGED endpoint
  <2>1. faults' \in 0 .. MaxFaults
    BY <1>3 DEF Fault, TypeOK
  <2> QED BY <1>3, <2>1 DEF TypeOK, endpoint
<1>4. CASE /\ reply = "reauthorize" /\ head' = [head EXCEPT ![f] = Revoked]
           /\ reused' = IF head[f] \in {p, Revoked} THEN reused ELSE reused \cup {f}
           /\ UNCHANGED <<issued, faults>>
  BY <1>4 DEF TypeOK
<1> QED BY <1>1, <1>2, <1>3, <1>4 DEF Serve

LEMMA EndpointInv ==
    ASSUME IInv, NEW t \in Tasks, Endpoint(t)
    PROVE  IInv'
<1> DEFINE f == task[t].family
           p == task[t].place
<1>0. /\ task[t].pc = "post"
      /\ UNCHANGED <<record, lock, broker, operator, strays, lost, served>>
  BY DEF Endpoint
<1>r. PICK reply \in Replies :
        /\ Serve(f, p, reply)
        /\ task' = [task EXCEPT ![t] = At("reply", f, p, reply, issued', Absent)]
  BY DEF Endpoint
<1> DEFINE x == At("reply", f, p, reply, issued', Absent)
<1>1. f \in Families /\ p \in Places
  BY DEF IInv, TypeOK, TaskRecords
<1>3. /\ head' \in [Families -> Places \cup {Revoked}]
      /\ \A g \in Families : g # f => head'[g] = head[g]
      /\ issued' \in Places /\ faults' \in 0 .. MaxFaults
      /\ \/ reply \in {"issued", "reflected"} /\ p = head[f] /\ head'[f] = issued'
         \/ reply \in {"same", "refused"} /\ p = head[f] /\ head'[f] = head[f]
         \/ reply = "reauthorize" /\ head'[f] = Revoked
      /\ reused' = reused
         \/ (head[f] \notin {p, Revoked} /\ reused' = reused \cup {f})
  BY <1>1, <1>r, Served DEF IInv
<1>x. /\ x \in TaskRecords /\ x.pc = "reply" /\ x.family = f /\ x.place = p /\ x.reply = reply
      /\ x.access = issued'
  BY <1>1, <1>3, Basics DEF At, TaskRecords
<1> HIDE DEF x
<1>2. task'[t] = x /\ task' \in [Tasks -> TaskRecords] /\ \A u \in Tasks : u # t => task'[u] = task[u]
  <2>1. task' = [task EXCEPT ![t] = x]
    BY <1>r DEF x
  <2> QED BY <1>x, <2>1, Moved DEF IInv
<1>a. f \in lost \/ head[f] \in {p, Revoked}
  BY <1>0, <1>1 DEF IInv, Core, Agreed, AgreedOn
<1>4. TypeOK' /\ NeverReused'
  BY <1>0, <1>1, <1>2, <1>3, <1>a DEF IInv, TypeOK, NeverReused, broker, operator
<1>5. Working(t) /\ lock = t
  BY <1>0 DEF IInv, Core, Exclusive, Working
<1>6. \A u \in Tasks : u # t => ~Working(u) /\ ~Working(u)'
  BY <1>2, <1>5, Alone DEF IInv, Core, Working
<1>7. Exclusive' /\ FamiliesOrdered' /\ StraysLost'
  BY <1>0, <1>x, <1>2, <1>5, <1>6
  DEF IInv, Core, Exclusive, FamiliesOrdered, StraysLost, operator, Working
<1>8. Agreed'
  <2> SUFFICES ASSUME NEW g \in Families, g \notin lost' PROVE AgreedOn(g)'
    BY DEF Agreed
  <2>1. AgreedOn(g) /\ ~Unrecorded(g)
    BY <1>0, <1>6 DEF IInv, Core, Agreed, Unrecorded, Rotated, Working
  <2>3. reply \in {"issued", "reflected"} /\ g = f => Unrecorded(g)'
    BY <1>x, <1>2 DEF Unrecorded, Rotated
  <2>4. Unrecorded(g)' \/ head'[g] \in {head[g], Revoked}
    BY <1>3, <2>3
  <2>5. \A u \in Tasks : u # t => task'[u].pc \notin {"post", "reply", "save"}
    BY <1>6 DEF Working
  <2>6. /\ g > record.family /\ ~Unrecorded(g)' => head'[g] \in {0, Revoked}
        /\ record.state = "live" /\ record.family = g /\ ~Unrecorded(g)' =>
             head'[g] \in {record.place, Revoked}
    BY <2>1, <2>4 DEF AgreedOn
  <2>7. g = f => /\ reply = "issued" => head'[g] = issued'
                 /\ reply = "same" => head'[g] = p
    BY <1>3
  <2> QED BY <1>0, <1>x, <1>2, <2>5, <2>6, <2>7 DEF AgreedOn
<1> QED BY <1>0, <1>4, <1>7, <1>8 DEF IInv, Core, ServedSaved

\* A request that was given up arrives: what it does it does to a family that is
\* counted as lost.
LEMMA LateRequestInv ==
    ASSUME IInv, NEW s \in strays, LateRequest(s)
    PROVE  IInv'
<1>0. /\ strays' = strays \ {s}
      /\ UNCHANGED <<record, lock, task, broker, operator, lost, served>>
  BY DEF LateRequest
<1>1. s.family \in Families /\ s.place \in Places /\ s.family \in lost
  BY DEF IInv, TypeOK, Strays, Core, StraysLost
<1>2. /\ head' \in [Families -> Places \cup {Revoked}]
      /\ \A g \in Families : g # s.family => head'[g] = head[g]
      /\ issued' \in Places /\ faults' \in 0 .. MaxFaults
      /\ reused' = reused \/ reused' = reused \cup {s.family}
  <2>1. PICK reply \in Replies : Serve(s.family, s.place, reply)
    BY DEF LateRequest
  <2> QED BY <1>1, <2>1, Served DEF IInv
<1>3. TypeOK' /\ NeverReused' /\ ServedSaved'
  BY <1>0, <1>1, <1>2 DEF IInv, TypeOK, NeverReused, ServedSaved, broker, operator
<1>4. Exclusive' /\ FamiliesOrdered' /\ StraysLost'
  BY <1>0 DEF IInv, Core, Exclusive, FamiliesOrdered, StraysLost, operator, Working
<1>5. Agreed'
  <2> SUFFICES ASSUME NEW g \in Families, g \notin lost PROVE AgreedOn(g)'
    BY <1>0 DEF Agreed
  <2>1. AgreedOn(g) /\ head'[g] = head[g]
    BY <1>1, <1>2 DEF IInv, Core, Agreed
  <2> QED BY <1>0, <2>1 DEF AgreedOn, Unrecorded, Rotated
<1> QED BY <1>3, <1>4, <1>5 DEF IInv, Core

\* What a reply makes of the record is about the family that was presented,
\* and as far as the endpoint is.
LEMMA NextRecordType ==
    ASSUME IInv, NEW t \in Tasks, task[t].pc = "reply"
    PROVE  /\ NextRecord(t) \in Records /\ NextRecord(t).family = task[t].family
           /\ NextRecord(t).state # "absent"
           /\ NextRecord(t).state = "live" /\ task[t].family \notin lost =>
                NextRecord(t).place = head[task[t].family]
<1> DEFINE r == NextRecord(t)
<1>1. /\ task[t].family \in Families /\ task[t].place \in Places /\ task[t].access \in Places
      /\ task[t].access \in Accesses /\ "fresh" \in Ages
  BY DEF IInv, TypeOK, TaskRecords, Accesses, Ages
<1>0. task[t].family \in lost \/ AgreedOn(task[t].family)
  BY <1>1 DEF IInv, Core, Agreed
<1>2. CASE task[t].reply = "issued"
  <2>1. r = Live(task[t].family, task[t].access, task[t].access, "fresh")
    BY <1>2 DEF NextRecord
  <2>2. r \in Records
    BY <1>1, <2>1, Basics
  <2> QED BY <1>0, <1>2, <2>1, <2>2 DEF Live, AgreedOn
<1>3. CASE task[t].reply = "same"
  <2>1. r = Live(task[t].family, task[t].place, task[t].access, "fresh")
    BY <1>3 DEF NextRecord
  <2>2. r \in Records
    BY <1>1, <2>1, Basics
  <2> QED BY <1>0, <1>3, <2>1, <2>2 DEF Live, AgreedOn
<1>4. CASE task[t].reply \notin {"issued", "same"}
  <2>1. r = Sealed(task[t].family)
    BY <1>4 DEF NextRecord
  <2>2. r \in Records
    BY <1>1, <2>1, Basics
  <2> QED BY <2>1, <2>2 DEF Sealed
<1> QED BY <1>2, <1>3, <1>4

\* The reply is read, and the record to save made from it.
LEMMA ReceiveInv ==
    ASSUME IInv, NEW t \in Tasks, Receive(t)
    PROVE  IInv'
<1>1. /\ task[t].pc = "reply"
      /\ UNCHANGED <<record, newGen, operator, endpoint, strays, faults, lost, served>>
  BY DEF Receive
<1>2. Working(t) /\ lock = t
  BY <1>1 DEF IInv, Core, Exclusive, Working
<1>3. CASE task[t].reply = "refused" /\ Finish(t, FALSE)
  <2>1. /\ ~Rotated(t) /\ Same /\ UNCHANGED reused /\ faults' \in 0 .. MaxFaults
        /\ strays' \subseteq Strays /\ StraysLost' /\ lost' \subseteq Families
    BY <1>1, <1>3 DEF Rotated, Same, operator, endpoint, IInv, Core, TypeOK, StraysLost
  <2>2. served' # {} => record.state = "live" /\ served' = {record.access}
    BY <1>1 DEF IInv, ServedSaved
  <2> QED BY <1>1, <1>2, <1>3, <2>1, <2>2, FinishInv
<1>4. CASE /\ UNCHANGED <<lock, hold>>
           /\ task' = [task EXCEPT ![t] = At("save", task[t].family, task[t].place,
                                             task[t].reply, task[t].access, NextRecord(t))]
  <2> DEFINE r == NextRecord(t)
             x == At("save", task[t].family, task[t].place, task[t].reply, task[t].access, r)
  <2>1. /\ r \in Records /\ r.family = task[t].family /\ r.state # "absent"
        /\ r.state = "live" /\ task[t].family \notin lost => r.place = head[task[t].family]
    BY <1>1, NextRecordType
  <2> HIDE DEF r
  <2>2. x \in TaskRecords /\ x.pc = "save" /\ x.family = task[t].family
        /\ x.reply = task[t].reply /\ x.next = r
    BY <2>1 DEF At, TaskRecords, IInv, TypeOK
  <2>a. task' = [task EXCEPT ![t] = x]
    BY <1>4 DEF r
  <2> HIDE DEF x
  <2>3. task'[t] = x /\ task' \in [Tasks -> TaskRecords] /\ \A u \in Tasks : u # t => task'[u] = task[u]
    BY <2>a, <2>2, Moved DEF IInv
  <2>4. TypeOK'
    BY <1>1, <1>4, <2>3 DEF IInv, TypeOK, operator, endpoint
  <2>5. \A u \in Tasks : u # t => ~Working(u) /\ ~Working(u)'
    BY <1>2, <2>3, Alone DEF IInv, Core, Working
  <2>6. Exclusive' /\ FamiliesOrdered' /\ StraysLost'
    BY <1>1, <1>2, <1>4, <2>1, <2>2, <2>3, <2>5
    DEF IInv, Core, Exclusive, FamiliesOrdered, StraysLost, operator, Working
  <2>7. Agreed'
    <3> SUFFICES ASSUME NEW f \in Families, f \notin lost PROVE AgreedOn(f)'
      BY <1>1 DEF Agreed
    <3>1. AgreedOn(f)
      BY DEF IInv, Core, Agreed
    <3>2. Unrecorded(f) => Unrecorded(f)'
      BY <1>1, <2>2, <2>3 DEF Unrecorded, Rotated
    <3>3. \A u \in Tasks : u # t => task'[u].pc \notin {"post", "reply", "save"}
      BY <2>5 DEF Working
    <3> QED BY <1>1, <2>1, <2>2, <2>3, <3>1, <3>2, <3>3 DEF AgreedOn, endpoint
  <2> QED BY <1>1, <2>4, <2>6, <2>7 DEF IInv, Core, ServedSaved, NeverReused, endpoint
<1> QED BY <1>3, <1>4 DEF Receive

\* The request is given up, before or after the endpoint has handled it.
LEMMA LoseInv ==
    ASSUME IInv, NEW t \in Tasks, Lose(t)
    PROVE  IInv'
<1>1. /\ task[t].pc \in {"post", "reply"} /\ Finish(t, FALSE) /\ Fault
      /\ lost' = lost \cup Uncertain(t) /\ strays' = strays \cup Astray(t)
      /\ UNCHANGED <<record, newGen, operator, endpoint, served>>
  BY DEF Lose
<1>2. Working(t) /\ lock = t
  BY <1>1 DEF IInv, Core, Exclusive, Working
<1>3. Same /\ UNCHANGED reused /\ faults' \in 0 .. MaxFaults
  BY <1>1 DEF Same, operator, endpoint, Fault, IInv, TypeOK
<1>4. served' # {} => record.state = "live" /\ served' = {record.access}
  BY <1>1 DEF IInv, ServedSaved
<1>5. /\ lost \subseteq lost' /\ lost' \subseteq Families
      /\ Rotated(t) \/ task[t].pc = "post" => task[t].family \in lost'
  BY <1>1 DEF Uncertain, IInv, TypeOK, TaskRecords
<1>6. strays' \subseteq Strays
  BY <1>1, AstrayType DEF IInv, TypeOK
<1>7. StraysLost'
  BY <1>1, <1>5 DEF Astray, IInv, Core, StraysLost
<1> QED BY <1>1, <1>2, <1>3, <1>4, <1>5, <1>6, <1>7, FinishInv

\* The record is replaced by what the task has to save.
LEMMA Replaced ==
    ASSUME IInv, NEW t \in Tasks, NEW ok \in BOOLEAN, task[t].pc = "save", Finish(t, ok),
           record' = task[t].next,
           served' # {} => task[t].next.state = "live" /\ served' = {task[t].next.access},
           faults' \in 0 .. MaxFaults,
           UNCHANGED <<newGen, operator, endpoint, strays, lost>>
    PROVE  IInv'
<1> DEFINE r == task[t].next
<1>1. Working(t) /\ lock = t /\ lock' = None /\ task' = [task EXCEPT ![t] = Idle]
  BY DEF IInv, Core, Exclusive, Working, Finish
<1>2. Idle \in TaskRecords /\ Idle.pc = "idle"
  BY Basics DEF Idle, At
<1>3. task'[t] = Idle /\ task' \in [Tasks -> TaskRecords] /\ \A u \in Tasks : u # t => task'[u] = task[u]
  BY <1>1, <1>2, Moved DEF IInv
<1>4. \A u \in Tasks : ~Working(u)' /\ (u # t => ~Working(u))
  BY <1>1, <1>2, <1>3, Alone DEF IInv, Core, Working
<1>5. r \in Records /\ r.family = task[t].family /\ r.state # "absent" /\ record' = r
  BY DEF IInv, Core, TypeOK, TaskRecords, FamiliesOrdered
<1>6. TypeOK'
  <2>1. served' \subseteq Accesses
    BY <1>5 DEF Records
  <2>2. hold' \in BOOLEAN /\ lock' \in Tasks \cup {None}
    BY <1>1 DEF Finish, IInv, TypeOK
  <2> QED BY <1>3, <1>5, <2>1, <2>2 DEF IInv, TypeOK, operator, endpoint
<1>7. Exclusive' /\ StraysLost'
  BY <1>4 DEF Exclusive, IInv, Core, StraysLost
<1>8. FamiliesOrdered'
  <2>1. r.family <= seed
    BY <1>1, <1>5 DEF IInv, Core, FamiliesOrdered
  <2>2. \A u \in Tasks : task'[u].pc # "save"
    BY <1>4 DEF Working
  <2> QED BY <1>4, <1>5, <2>1, <2>2 DEF IInv, Core, FamiliesOrdered, operator
<1>9. Agreed'
  <2> SUFFICES ASSUME NEW g \in Families, g \notin lost PROVE AgreedOn(g)'
    BY DEF Agreed
  <2>1. AgreedOn(g)
    BY DEF IInv, Core, Agreed
  <2>2. record.family \in Nat /\ r.family \in Nat /\ record.family <= r.family
    BY <1>1, <1>5 DEF IInv, Core, TypeOK, Records, Families, FamiliesOrdered
  <2>3. g # r.family => ~Unrecorded(g)
    BY <1>4, <1>5 DEF Unrecorded, Rotated, Working
  <2>4. g > r.family => head[g] \in {0, Revoked}
    <3> SUFFICES ASSUME g > r.family PROVE head[g] \in {0, Revoked}
      OBVIOUS
    <3>1. g > record.family /\ g # r.family
      BY <2>2 DEF Families
    <3> QED BY <2>1, <2>3, <3>1 DEF AgreedOn
  <2>5. r.state = "live" /\ r.family = g => head[g] = r.place
    BY <1>5, <2>1 DEF AgreedOn
  <2>6. \A u \in Tasks : task'[u].pc \notin {"post", "reply", "save"}
    BY <1>4 DEF Working
  <2> QED BY <1>5, <2>4, <2>5, <2>6 DEF AgreedOn, endpoint
<1> QED BY <1>5, <1>6, <1>7, <1>8, <1>9 DEF IInv, Core, ServedSaved, NeverReused, endpoint

LEMMA SaveInv ==
    ASSUME IInv, NEW t \in Tasks, Save(t)
    PROVE  IInv'
<1>1. /\ task[t].pc = "save" /\ Finish(t, task[t].next.state = "live")
      /\ record' = task[t].next
      /\ served' # {} => task[t].next.state = "live" /\ served' = {task[t].next.access}
      /\ UNCHANGED <<newGen, operator, endpoint, strays, faults, lost>>
  BY DEF Save
<1>2. faults' \in 0 .. MaxFaults
  BY <1>1 DEF IInv, TypeOK
<1> QED BY <1>1, <1>2, Replaced

\* A save that fails returns nothing, whether the file was replaced or not.
LEMMA SaveFailsInv ==
    ASSUME IInv, NEW t \in Tasks, SaveFails(t)
    PROVE  IInv'
<1>1. /\ task[t].pc = "save" /\ Finish(t, FALSE)
      /\ UNCHANGED <<newGen, operator, endpoint, strays>>
  BY DEF SaveFails
<1>2. faults' \in 0 .. MaxFaults
  BY DEF SaveFails, Fault, IInv, TypeOK
<1>3. CASE record' = task[t].next /\ served' = {} /\ UNCHANGED lost
  BY <1>1, <1>2, <1>3, Replaced
<1>4. CASE lost' = lost \cup Uncertain(t) /\ served' = served /\ UNCHANGED record
  <2>1. lock = t
    BY <1>1 DEF IInv, Core, Exclusive, Working
  <2>2. Same /\ UNCHANGED reused
    BY <1>1, <1>4 DEF Same, operator, endpoint
  <2>3. /\ lost \subseteq lost' /\ lost' \subseteq Families /\ (Rotated(t) => task[t].family \in lost')
        /\ strays' \subseteq Strays
    BY <1>1, <1>4 DEF Uncertain, IInv, TypeOK, TaskRecords
  <2>4. StraysLost'
    BY <1>1, <2>3 DEF IInv, Core, StraysLost
  <2>5. served' # {} => record.state = "live" /\ served' = {record.access}
    BY <1>4 DEF IInv, ServedSaved
  <2> QED BY <1>1, <1>2, <2>1, <2>2, <2>3, <2>4, <2>5, FinishInv
<1> QED BY <1>3, <1>4 DEF SaveFails, UnsavedAnswer

-----------------------------------------------------------------------------
(* The theorems. *)

\* The inductive invariant holds of every behaviour.
LEMMA Inductive == Spec => []IInv
<1>1. IInv /\ [Next]_vars => IInv'
  <2> SUFFICES ASSUME IInv, [Next]_vars PROVE IInv'
    OBVIOUS
  <2>1. ASSUME NEW t \in Tasks, Step(t) PROVE IInv'
    BY <2>1, AcquireInv, ReadFailsInv, EndpointInv, ReceiveInv, LoseInv, SaveInv, SaveFailsInv DEF Step
  <2>2. CASE Next
    BY <2>1, <2>2, AskInv, LateRequestInv, OperatorInv, AgeInv, CrashInv DEF Next
  <2>3. CASE UNCHANGED vars
    BY <2>3 DEF vars, IInv, Core, TypeOK, Exclusive, FamiliesOrdered, Working, StraysLost,
                ServedSaved, NeverReused, Agreed, AgreedOn, Unrecorded, Rotated
  <2> QED BY <2>2, <2>3
<1> QED BY InitInv, <1>1, PTL DEF Spec

\* For any number of resolutions and all bounds the credential's state keeps
\* its types.
THEOREM CredentialTypes == Spec => []TypeOK
<1>1. IInv => TypeOK
  BY DEF IInv
<1> QED BY Inductive, <1>1, PTL

\* oauth2::run under the record's lock presents each refresh token once: the
\* endpoint sees a replaced one only in a family of which a request was given up
\* (it may arrive late) or a rotation was lost before it was saved.
THEOREM TokensPresentedOnce == Spec => []NeverReused
<1>1. IInv => NeverReused
  BY DEF IInv
<1> QED BY Inductive, <1>1, PTL

\* oauth2::refresh returns an access token only after save_bytes has replaced
\* the record, whatever fails.
THEOREM ReturnedWasSaved == Spec => []ServedSaved
<1>1. IInv => ServedSaved
  BY DEF IInv
<1> QED BY Inductive, <1>1, PTL

\* A sealed record is left alone, and its family is not presented again, until
\* the record of another seed takes its place.
THEOREM SealsHold == Spec => SealHolds
<1> DEFINE Kept == record' = record \/ record'.family # record.family
           Spared == \A t \in Tasks : task[t].pc # "post" /\ task'[t].pc = "post" =>
                                        task'[t].family # record.family
<1>1. ASSUME IInv, record.state = "sealed", Next PROVE Kept /\ Spared
  <2>1. CASE (\E t \in Lazy : Resolve(t)) \/ Tick
    <3>1. PICK t \in Tasks : task' = [task EXCEPT ![t] = Waiting]
      BY <2>1 DEF Resolve, Tick, Tasks
    <3>2. Waiting.pc = "lock"
      BY Basics
    <3> QED BY <1>1, <2>1, <3>1, <3>2 DEF Resolve, Tick, IInv, TypeOK
  <2>2. CASE Provide \/ TakeAway \/ Reloaded \/ Retry \/ Age
    BY <1>1, <2>2 DEF Provide, TakeAway, Reloaded, Retry, Age
  <2>6. ASSUME NEW s \in strays, LateRequest(s) PROVE Kept /\ Spared
    BY <2>6 DEF LateRequest
  <2>3. CASE Crash
    <3>1. \A t \in Tasks : task'[t].pc = "idle"
      BY <2>3 DEF Crash, Idle, At
    <3> QED BY <2>3, <3>1 DEF Crash
  <2>4. ASSUME NEW t \in Tasks, Acquire(t) PROVE Kept /\ Spared
    <3>1. CASE /\ Adopts
               /\ task' = [task EXCEPT ![t] = At("post", seed, 0, "none", 0, Absent)]
      <4>1. seed # record.family
        BY <1>1, <3>1 DEF Adopts
      <4>2. At("post", seed, 0, "none", 0, Absent).family = seed
        BY DEF At
      <4> QED BY <1>1, <2>4, <3>1, <4>1, <4>2 DEF Acquire, IInv, TypeOK
    <3>2. CASE task' = [task EXCEPT ![t] = Idle]
      <4>1. Idle.pc = "idle"
        BY DEF Idle, At
      <4> QED BY <1>1, <2>4, <3>2, <4>1 DEF Acquire, IInv, TypeOK
    <3> QED BY <1>1, <2>4, <3>1, <3>2 DEF Acquire, Finish
  <2>5. ASSUME NEW t \in Tasks,
               ReadFails(t) \/ Endpoint(t) \/ Receive(t) \/ Lose(t) \/ Save(t) \/ SaveFails(t)
        PROVE  Kept /\ Spared
    <3>1. \E x : task' = [task EXCEPT ![t] = x] /\ x.pc # "post"
      <4>1. CASE Endpoint(t)
        <5>1. \E y, a : task' = [task EXCEPT ![t] = At("reply", task[t].family, task[t].place, y, a, Absent)]
          BY <4>1 DEF Endpoint
        <5>2. \A y, a : At("reply", task[t].family, task[t].place, y, a, Absent).pc = "reply"
          BY DEF At
        <5> QED BY <5>1, <5>2
      <4>2. CASE Receive(t) /\ task[t].reply # "refused"
        <5>1. \E y : task' = [task EXCEPT ![t] = At("save", task[t].family, task[t].place,
                                                    task[t].reply, task[t].access, y)]
          BY <4>2 DEF Receive
        <5>2. \A y : At("save", task[t].family, task[t].place, task[t].reply, task[t].access, y).pc = "save"
          BY DEF At
        <5> QED BY <5>1, <5>2
      <4>3. CASE task' = [task EXCEPT ![t] = Idle]
        <5>1. Idle.pc = "idle"
          BY DEF Idle, At
        <5> QED BY <4>3, <5>1
      <4> QED BY <2>5, <4>1, <4>2, <4>3 DEF ReadFails, Receive, Lose, Save, SaveFails, Finish
    <3>2. Spared
      BY <1>1, <3>1 DEF IInv, TypeOK
    <3>3. record' = record \/ (record' = task[t].next /\ task[t].pc = "save")
      BY <2>5 DEF ReadFails, Endpoint, Receive, Lose, Save, SaveFails
    <3>4. task[t].pc = "save" => task[t].next.family # record.family
      BY <1>1 DEF IInv, Core, FamiliesOrdered, Working
    <3> QED BY <3>2, <3>3, <3>4
  <2> QED BY <1>1, <2>1, <2>2, <2>3, <2>4, <2>5, <2>6 DEF Next, Step
<1>2. IInv /\ [Next]_vars => [record.state = "sealed" => Kept /\ Spared]_vars
  BY <1>1
<1> QED BY Inductive, <1>2, PTL DEF Spec, SealHolds
==============================================================================
