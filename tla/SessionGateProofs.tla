-------------------------- MODULE SessionGateProofs --------------------------
(* Proofs about SessionGate, for any messages, conversations and bounds. *)
EXTENDS SessionGate, TLAPS

States == {"none", "running", "completing", "cancelled"}
Cancellations == [state: States, model: BOOLEAN, signal: BOOLEAN]

\* The inductive invariant: the property and the type of the one variable it
\* speaks of.  No step needs to know anything else about the gate.
StopInv == cancellation \in [Msgs -> Cancellations] /\ StopReachesModel

Safe(c) == c \in Cancellations /\ (c.state = "cancelled" /\ ~c.signal => c.model)

\* The type and the property hold of a gate that has started no turn.
LEMMA StopInit == Init => StopInv
BY DEF Init, StopInv, StopReachesModel, NoCancellation, Cancellations, States

\* SessionCancellation::rearm_model leaves a cancelled turn alone.
LEMMA RearmSafe == ASSUME NEW c, Safe(c) PROVE Safe(Rearm(c))
BY DEF Safe, Rearm, Cancellations, States

\* A step that changes the cancellation of at most one turn, to a safe one.
Replaces(r, c) == cancellation' = [cancellation EXCEPT ![r] = c]

LEMMA SafeReplace ==
  ASSUME StopInv, NEW r, NEW c, r \in Msgs => Safe(c), Replaces(r, c)
  PROVE  StopInv'
BY DEF StopInv, StopReachesModel, Safe, Replaces

LEMMA SafeUnchanged == StopInv /\ UNCHANGED cancellation => StopInv'
BY DEF StopInv, StopReachesModel

\* The turn's cancellation is interrupted: the watch is only ever set.
LEMMA SafeInterrupt ==
  ASSUME StopInv, NEW e, cancellation' = InterruptModel(e)
  PROVE  StopInv'
BY DEF StopInv, StopReachesModel, InterruptModel, Cancellations, States

\* The steps of the gateway loop.
LEMMA StopGateway ==
  ASSUME StopInv, NEW m \in Msgs, NEW k \in Keys,
         Admit(m) \/ Enrich(m) \/ ProbeAdmit(k) \/ ProbeDrop(k) \/ Stop(Sender[m], k)
  PROVE  StopInv'
<1>1. CASE AdmitNew(m)
  <2>1. Safe(FreshCancellation)
    BY DEF Safe, FreshCancellation, Cancellations, States
  <2>2. Replaces(m, FreshCancellation)
    BY <1>1 DEF AdmitNew, Replaces
  <2> QED BY <2>1, <2>2, SafeReplace
<1>2. CASE AdmitSteer(m)
  <2>1. (UNCHANGED cancellation) \/ cancellation' = InterruptModel(entries[KeyOf[m]])
    BY <1>2 DEF AdmitSteer
  <2> QED BY <2>1, SafeUnchanged, SafeInterrupt
<1>3. CASE AdmitRefused(m) \/ AdmitBatched(m) \/ AdmitFollowUp(m)
  <2>1. UNCHANGED cancellation
    BY <1>3 DEF AdmitRefused, AdmitBatched, AdmitFollowUp
  <2> QED BY <2>1, SafeUnchanged
<1>4. CASE Enrich(m)
  <2>1. (UNCHANGED cancellation) \/ cancellation' = InterruptModel(entries[KeyOf[m]])
    BY <1>4 DEF Enrich
  <2> QED BY <2>1, SafeUnchanged, SafeInterrupt
<1>5. CASE ProbeAdmit(k) \/ ProbeDrop(k)
  <2>1. UNCHANGED cancellation
    BY <1>5 DEF ProbeAdmit, ProbeDrop
  <2> QED BY <2>1, SafeUnchanged
<1>6. CASE Stop(Sender[m], k)
  <2> DEFINE r == entries[k].run
             c == [cancellation[r] EXCEPT !.state = "cancelled", !.model = TRUE]
  <2>1. (UNCHANGED cancellation) \/ Replaces(r, c)
    BY <1>6 DEF Stop, Replaces, StopInv
  <2>2. r \in Msgs => Safe(c)
    BY DEF StopInv, Safe, Cancellations, States
  <2> QED BY <2>1, <2>2, SafeUnchanged, SafeReplace
<1> QED BY <1>1, <1>2, <1>3, <1>4, <1>5, <1>6 DEF Admit

\* The steps of a session task, its worker and its deadline.
LEMMA StopTask ==
  ASSUME StopInv, NEW t \in Msgs,
         TurnStep(t) \/ Expire(t) \/ ExpireSignal(t) \/ Abort(t)
  PROVE  StopInv'
<1> DEFINE held == EntryOf(t).run
           r == task[t].run
<1>1. CASE (\E mapped \in BOOLEAN : ResolveMapping(t, mapped)) \/ EarlyReturn(t)
           \/ (\E g \in SUBSET ToSet(task[t].batch) : WorkerReply(t, g))
           \/ Stopped(t) \/ DropAdmission(t)
  <2>1. UNCHANGED cancellation
    BY <1>1 DEF ResolveMapping, EarlyReturn, WorkerReply, Stopped, DropAdmission
  <2> QED BY <2>1, SafeUnchanged
<1>2. CASE TakeSteers(t) \/ \E mode \in {"take", "seal"} : WorkerDrain(t, mode)
  <2>1. Replaces(held, Rearm(cancellation[held]))
    BY <1>2 DEF TakeSteers, WorkerDrain, Replaces, EntryOf
  <2>2. held \in Msgs => Safe(cancellation[held])
    BY DEF StopInv, StopReachesModel, Safe
  <2> QED BY <2>1, <2>2, RearmSafe, SafeReplace
<1>3. CASE Seal(t)
  <2> DEFINE c == [cancellation[held] EXCEPT !.state = "completing"]
  <2>1. Replaces(held, c)
    BY <1>3 DEF Seal, Replaces
  <2>2. held \in Msgs => Safe(c)
    BY DEF StopInv, Safe, Cancellations, States
  <2> QED BY <2>1, <2>2, SafeReplace
<1>4. CASE \E lost \in 0..Cardinality(Msgs) : NextOrRelease(t, lost)
  <2>1. (UNCHANGED cancellation) \/ \E lead : Replaces(lead, FreshCancellation)
    BY <1>4 DEF NextOrRelease, Replaces
  <2>2. Safe(FreshCancellation)
    BY DEF Safe, FreshCancellation, Cancellations, States
  <2> QED BY <2>1, <2>2, SafeUnchanged, SafeReplace
<1>5. CASE Expire(t)
  <2> DEFINE c == [cancellation[r] EXCEPT !.state = "cancelled", !.signal = TRUE]
  <2>1. Replaces(r, c)
    BY <1>5 DEF Expire, Replaces
  <2>2. r \in Msgs => Safe(c)
    BY DEF StopInv, Safe, Cancellations, States
  <2> QED BY <2>1, <2>2, SafeReplace
<1>6. CASE ExpireSignal(t)
  <2> DEFINE c == [cancellation[t] EXCEPT !.model = TRUE, !.signal = FALSE]
  <2>1. Replaces(t, c)
    BY <1>6 DEF ExpireSignal, Replaces
  <2>2. Safe(c)
    BY DEF StopInv, Safe, Cancellations, States
  <2> QED BY <2>1, <2>2, SafeReplace
<1>7. CASE Abort(t)
  <2> DEFINE c == [cancellation[r] EXCEPT !.state = "cancelled", !.model = TRUE]
  <2>1. (UNCHANGED cancellation) \/ Replaces(r, c)
    BY <1>7 DEF Abort, Replaces
  <2>2. r \in Msgs => Safe(c)
    BY DEF StopInv, Safe, Cancellations, States
  <2> QED BY <2>1, <2>2, SafeUnchanged, SafeReplace
<1> QED BY <1>1, <1>2, <1>3, <1>4, <1>5, <1>6, <1>7 DEF TurnStep

\* Every step keeps the invariant.
LEMMA StopStep == StopInv /\ [Next]_vars => StopInv'
<1> SUFFICES ASSUME StopInv, [Next]_vars PROVE StopInv'
  OBVIOUS
<1>1. CASE \E m \in Msgs : Admit(m) \/ Enrich(m)
  <2>1. PICK m \in Msgs : Admit(m) \/ Enrich(m)
    BY <1>1
  <2>2. KeyOf[m] \in Keys
    BY MessagesAssumption
  <2> QED BY <2>1, <2>2, StopGateway
<1>2. CASE \E k \in Keys : ProbeAdmit(k) \/ ProbeDrop(k)
  <2>1. UNCHANGED cancellation
    BY <1>2 DEF ProbeAdmit, ProbeDrop
  <2> QED BY <2>1, SafeUnchanged
<1>3. CASE \E k \in Keys, m \in Msgs : KeyOf[m] = k /\ Stop(Sender[m], k)
  BY <1>3, StopGateway
<1>4. CASE \E t \in Msgs : TurnStep(t) \/ Expire(t) \/ ExpireSignal(t) \/ Abort(t)
  BY <1>4, StopTask
<1>5. CASE UNCHANGED vars
  BY <1>5, SafeUnchanged DEF vars
<1> QED BY <1>1, <1>2, <1>3, <1>4, <1>5 DEF Next

\* For any messages and bounds: draining the mailbox, sealing, folding or a
\* late interrupt never clears a stop from the model's watch, whoever stopped
\* the turn and however the deadline's two steps interleave with a drain.
THEOREM StopNeverCleared == Spec => []StopReachesModel
<1>1. StopInv => StopReachesModel
  BY DEF StopInv
<1> QED BY <1>1, StopInit, StopStep, PTL DEF Spec
==============================================================================
