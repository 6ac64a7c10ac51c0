----------------------------- MODULE ReloadProofs -----------------------------
(***************************************************************************)
(* Reload implements Generation, for all files, digests and bounds and any *)
(* number of late requests; and a generation is prepared only on the one   *)
(* that runs.                                                              *)
(***************************************************************************)
EXTENDS Reload, TLAPS

\* An answer that names a running generation names one that has run since the
\* gateway began to ask, and the answer to a commit is about its target.
AnswerRan ==
  /\ Running \in recent
  /\ answer.outcome = "prepared" => answer.digest \in Digests
  /\ answer.outcome \in {"active", "applied"} => answer.digest \in recent
  /\ answer.outcome = "applied" /\ pc = "commit" => answer.digest = target

\* The request whose answer is awaited in a commit is that commit.
CommitAwaited ==
  /\ pc \in {"commit", "confirm"} => target \in Digests
  /\ pc = "commit" /\ wait \in Calls /\ call[wait].op = "commit" => call[wait].digest = target

IInv == TypeOK /\ PreparedOnActive /\ AnswerRan /\ CommitAwaited

USE ReloadAssumption

\* Every content has a digest.
LEMMA RunningType == ASSUME TypeOK PROVE Running \in Digests
  BY DEF TypeOK, Running

\* Both daemons start in agreement.
LEMMA InitInv == Init => IInv
  BY DEF Init, IInv, TypeOK, PreparedOnActive, AnswerRan, CommitAwaited, Running, Pairs,
         NoCall, NoPrepared, NoPair, NoAnswer

CallType == [Calls -> [op : {"none", "observe", "prepare", "load", "commit"},
                       digest : Digests \cup {"none"}, base : Nat]]

Sent(c, op, d) ==
  /\ call' \in CallType /\ call'[c].op = op /\ call'[c].digest = d
  /\ wait' = c /\ answer' = NoAnswer

\* A request is sent: the answer awaited is its own.
LEMMA SendType ==
  ASSUME TypeOK, NEW c \in Calls, NEW op \in {"observe", "prepare", "commit"},
         NEW d \in Digests \cup {"none"}, Send(c, op, d)
  PROVE  Sent(c, op, d)
  BY DEF Send, Sent, CallType, TypeOK

\* A request ends: its slot is free, and its answer arrives or is ignored.
LEMMA ReplyType ==
  ASSUME TypeOK, NEW c \in Calls, NEW d \in Digests \cup {"none"},
         NEW o \in {"active", "prepared", "applied", "refused", "error"}, Reply(c, d, o)
  PROVE /\ call' \in CallType
        /\ wait' = wait
        /\ \/ wait = c /\ answer' = [digest |-> d, outcome |-> o]
           \/ wait # c /\ answer' = answer
        /\ answer' \in [digest : Digests \cup {"none"},
                 outcome : {"none", "active", "prepared", "applied", "refused", "error"}]
        /\ \A e \in Calls : call'[e] = call[e] \/ call'[e].op = "none"
  BY DEF Reply, CallType, TypeOK, NoCall

\* The broker's handlers: what runs changes only by a commit, which is recorded.
LEMMA BrokerStep ==
  ASSUME IInv, NEW c \in Calls, Handle(c)
  PROVE  IInv'
<1> USE DEF IInv
<1>0. Running \in Digests
  BY RunningType
<1>1. CASE Unowned(c)
  <2>1. Reply(c, "none", "error")
    BY <1>1 DEF Unowned
  <2> QED BY <1>1, <2>1, ReplyType
     
            DEF Unowned, broker, gateway, world, TypeOK, PreparedOnActive, AnswerRan,
                CommitAwaited, Running, CallType
<1>2. CASE Observe(c)
  <2>1. Reply(c, Running, "active")
    BY <1>2 DEF Observe
  <2> QED BY <1>0, <1>2, <2>1, ReplyType
     
            DEF Observe, broker, gateway, world, TypeOK, PreparedOnActive, AnswerRan,
                CommitAwaited, Running, CallType
<1>3. CASE PrepareBegin(c)
  <2>1. CASE Reply(c, Running, "refused") /\ UNCHANGED loading
    BY <1>0, <1>3, <2>1, ReplyType
      DEF PrepareBegin, gateway, world, TypeOK, PreparedOnActive, AnswerRan, CommitAwaited, Running, CallType
  <2>2. CASE /\ loading' = c
             /\ call' = [call EXCEPT ![c] =
                        [op |-> "load", digest |-> call[c].digest, base |-> gen]]
             /\ UNCHANGED <<wait, answer>>
    BY <1>3, <2>2
      DEF PrepareBegin, gateway, world, TypeOK, PreparedOnActive, AnswerRan, CommitAwaited, Running, CallType
  <2> QED BY <1>3, <2>1, <2>2 DEF PrepareBegin
<1>4. CASE PrepareEnd(c)
  <2>0. UNCHANGED <<active, gen, gateway, world, recent>> /\ loading' = "none"
    BY <1>4 DEF PrepareEnd
  <2>1. CASE Loaded = "none" /\ Reply(c, call[c].digest, "refused") /\ UNCHANGED prepared
    <3>1. call[c].digest \in Digests \cup {"none"}
      BY DEF TypeOK
    <3> QED BY <2>0, <2>1, <3>1, ReplyType
      DEF gateway, world, TypeOK, PreparedOnActive, AnswerRan, CommitAwaited, Running, CallType
  <2>2. CASE Reply(c, Running, "refused") /\ UNCHANGED prepared
    BY <1>0, <2>0, <2>2, ReplyType
      DEF gateway, world, TypeOK, PreparedOnActive, AnswerRan, CommitAwaited, Running, CallType
  <2>3. CASE Reply(c, Running, "active") /\ prepared' = NoPrepared
    BY <1>0, <2>0, <2>3, ReplyType
      DEF gateway, world, TypeOK, PreparedOnActive, AnswerRan, CommitAwaited, Running, CallType
  <2>4. CASE /\ Loaded = "candidate" /\ StillBase(c)
             /\ prepared' = [base |-> call[c].base, content |-> disk]
             /\ Reply(c, DigestOf[disk], "prepared")
    <3>1. disk \in Contents /\ DigestOf[disk] \in Digests /\ call[c].base = gen
      BY <2>4 DEF Loaded, TypeOK, StillBase
    <3> QED BY <2>0, <2>4, <3>1, ReplyType
      DEF gateway, world, TypeOK, PreparedOnActive, AnswerRan, CommitAwaited, Running, CallType
  <2> QED BY <1>4, <2>1, <2>2, <2>3, <2>4 DEF PrepareEnd
<1>5. CASE Commit(c)
  <2>0. call[c].op = "commit" /\ call[c].digest \in Digests \cup {"none"}
        /\ UNCHANGED <<loading, gateway, world>>
    BY <1>5 DEF Commit, TypeOK
  <2>1. CASE Reply(c, call[c].digest, "refused") /\ UNCHANGED <<active, gen, prepared, recent>>
    BY <2>0, <2>1, ReplyType
      DEF gateway, world, TypeOK, PreparedOnActive, AnswerRan, CommitAwaited, Running, CallType
  <2>2. CASE /\ prepared # NoPrepared /\ DigestOf[prepared.content] = call[c].digest
             /\ active' = prepared.content /\ gen' = gen + 1 /\ prepared' = NoPrepared
             /\ recent' = recent \cup {DigestOf[prepared.content]}
             /\ Reply(c, call[c].digest, "applied")
    <3>1. prepared.content \in Contents /\ call[c].digest \in Digests
      BY <2>2 DEF TypeOK
    <3>2. pc = "commit" /\ wait = c => call[c].digest = target
      BY <2>0 DEF CommitAwaited
    <3> QED BY <2>0, <2>2, <3>1, <3>2, ReplyType
      DEF gateway, world, TypeOK, PreparedOnActive, AnswerRan, CommitAwaited, Running, CallType
  <2> QED BY <1>5, <2>1, <2>2 DEF Commit
<1> QED BY <1>1, <1>2, <1>3, <1>4, <1>5 DEF Handle

\* Publishing with a digest that exists keeps the types.
LEMMA SettleType ==
  ASSUME TypeOK, NEW d \in Digests, Settle(d)
  PROVE  served' \in Pairs /\ known' \in Digests /\ pending' \in Pairs
  BY DEF Settle, TypeOK, Pairs

\* A failed request keeps the types and what is known of answers: each way on
\* drops the answer, and sends an observation if it sends anything.
LEMMA FailedStep ==
  ASSUME IInv, NEW c \in Calls, Failed(c), faults' \in 0 .. MaxFaults,
         UNCHANGED <<disk, files, edits>>
  PROVE  IInv'
<1> USE DEF IInv
<1>1. answer' = NoAnswer /\ UNCHANGED <<broker, cand, target, recent>>
  BY DEF Failed, Done, Send, TypeOK
<1>2. CASE pc \in {"observe", "prepare"}
  <2>1. Done /\ UNCHANGED <<call, served, known, pending>>
    BY <1>2 DEF Failed
  <2> QED BY <1>1, <2>1
        DEF gateway, world, broker, Done, TypeOK, PreparedOnActive, AnswerRan, CommitAwaited,
            Running, NoAnswer
<1>3. CASE pc = "commit"
  <2>1. pc' = "confirm" /\ Send(c, "observe", "none") /\ UNCHANGED <<served, known, pending>>
    BY <1>3 DEF Failed
  <2>2. Sent(c, "observe", "none")
    BY <2>1, SendType
  <2> QED BY <1>1, <1>3, <2>1, <2>2
        DEF Sent, CallType, gateway, world, broker, Done, TypeOK, PreparedOnActive, AnswerRan, CommitAwaited,
            Running, NoAnswer
<1>4. CASE pc = "confirm"
  <2>1. InDoubt /\ Done /\ UNCHANGED call
    BY <1>4 DEF Failed
  <2>2. pending' \in Pairs
    BY <1>4, <2>1 DEF InDoubt, Pairs, TypeOK, CommitAwaited
  <2> QED BY <1>1, <2>1, <2>2
        DEF InDoubt, gateway, world, broker, Done, TypeOK, PreparedOnActive, AnswerRan,
            CommitAwaited, Running, NoAnswer
<1>5. CASE pc = "boot"
  <2>1. Send(c, "observe", "none") /\ UNCHANGED <<served, known, pending, pc>>
    BY <1>5 DEF Failed
  <2>2. Sent(c, "observe", "none")
    BY <2>1, SendType
  <2> QED BY <1>1, <1>5, <2>1, <2>2
        DEF Sent, CallType, gateway, world, broker, Done, TypeOK, PreparedOnActive, AnswerRan, CommitAwaited,
            Running, NoAnswer
<1> QED BY <1>2, <1>3, <1>4, <1>5 DEF Failed

\* The gateway's steps that wait for nothing, or for an answer that came.
LEMMA GatewayStep ==
  ASSUME IInv, Gateway
  PROVE  IInv'
<1> USE DEF IInv
<1>1. ASSUME NEW c \in Calls, Tick(c) PROVE IInv'
  <2>1. cand' = files /\ files \in Configs /\ recent' = {Running} /\ Running \in Digests
        /\ UNCHANGED <<broker, served, known, pending, target, world>>
    BY <1>1, RunningType DEF Tick, Candidate, TypeOK
  <2>2. CASE Send(c, "observe", "none") /\ pc' = "observe"
    <3>1. Sent(c, "observe", "none")
      BY <2>2, SendType
    <3> QED BY <2>1, <2>2, <3>1
          DEF Sent, CallType, gateway, world, broker, Done, TypeOK, PreparedOnActive, AnswerRan,
              CommitAwaited, Running, NoAnswer
  <2>3. CASE Send(c, "prepare", known) /\ pc' = "prepare"
    <3>1. known \in Digests \cup {"none"}
      BY DEF TypeOK
    <3>2. Sent(c, "prepare", known)
      BY <2>3, <3>1, SendType
    <3> QED BY <2>1, <2>3, <3>2
          DEF Sent, CallType, gateway, world, broker, Done, TypeOK, PreparedOnActive, AnswerRan,
              CommitAwaited, Running, NoAnswer
  <2> QED BY <1>1, <2>2, <2>3 DEF Tick
<1>2. ASSUME NEW c \in Calls, Observed(c) PROVE IInv'
  <2>1. answer.digest \in Digests /\ UNCHANGED <<broker, cand, target, world, recent>>
    BY <1>2 DEF Observed, TypeOK, AnswerRan
  <2>2. CASE Settle(answer.digest) /\ Done /\ UNCHANGED call
    BY <2>1, <2>2, SettleType
          DEF gateway, world, broker, Done, TypeOK, PreparedOnActive, AnswerRan,
              CommitAwaited, Running, NoAnswer
  <2>3. CASE /\ known' = answer.digest /\ pending' = NoPair
             /\ pc' = "prepare"
             /\ Send(c, "prepare", answer.digest)
             /\ UNCHANGED served
    <3>1. Sent(c, "prepare", answer.digest)
      BY <2>1, <2>3, SendType
    <3> QED BY <2>1, <2>3, <3>1
          DEF Sent, CallType, Pairs, gateway, world, broker, Done, TypeOK, PreparedOnActive, AnswerRan,
              CommitAwaited, Running, NoAnswer
  <2> QED BY <1>2, <2>2, <2>3 DEF Observed
<1>3. ASSUME NEW c \in Calls, Prepared(c) PROVE IInv'
  <2>1. UNCHANGED <<broker, cand, world, recent>> /\ pc = "prepare"
    BY <1>3 DEF Prepared
  <2>2. CASE answer.outcome = "active"
    <3>1. Done /\ UNCHANGED <<call, target>> /\ answer.digest \in Digests
      BY <1>3, <2>2 DEF Prepared, TypeOK, AnswerRan
    <3>2. CASE answer.digest = known
      <4>1. Settle(known)
        BY <1>3, <2>2, <3>2 DEF Prepared
      <4> QED BY <2>1, <3>1, <3>2, <4>1, SettleType
            DEF gateway, world, broker, Done, TypeOK, PreparedOnActive, AnswerRan,
                CommitAwaited, Running, NoAnswer
    <3>3. CASE answer.digest # known
      <4>1. UNCHANGED <<served, known, pending>>
        BY <1>3, <2>2, <3>3 DEF Prepared
      <4> QED BY <2>1, <3>1, <4>1
            DEF gateway, world, broker, Done, TypeOK, PreparedOnActive, AnswerRan,
                CommitAwaited, Running, NoAnswer
    <3> QED BY <3>2, <3>3
  <2>3. CASE answer.outcome = "refused"
    <3>1. Relearn(answer.digest) /\ Done /\ UNCHANGED <<call, target, served, pending>>
      BY <1>3, <2>3 DEF Prepared
    <3> QED BY <2>1, <3>1
          DEF Relearn, gateway, world, broker, Done, TypeOK, PreparedOnActive, AnswerRan,
              CommitAwaited, Running, NoAnswer
  <2>4. CASE answer.outcome = "prepared"
    <3>1. /\ target' = answer.digest /\ pc' = "commit"
          /\ Send(c, "commit", answer.digest)
          /\ UNCHANGED <<served, known, pending>>
      BY <1>3, <2>4 DEF Prepared
    <3>2. answer.digest \in Digests
      BY <2>4 DEF AnswerRan
    <3>3. Sent(c, "commit", answer.digest)
      BY <3>1, <3>2, SendType
    <3> QED BY <2>1, <3>1, <3>2, <3>3
          DEF Sent, CallType, gateway, world, broker, Done, TypeOK, PreparedOnActive, AnswerRan,
              CommitAwaited, Running, NoAnswer
  <2> QED BY <1>3, <2>2, <2>3, <2>4 DEF Prepared
<1>4. ASSUME NEW c \in Calls, Refusal(c) PROVE IInv'
  BY <1>4, FailedStep DEF Refusal, world, TypeOK
<1>5. ASSUME NEW c \in Calls, Booting(c) PROVE IInv'
  <2>1. Sent(c, "observe", "none") /\ UNCHANGED <<broker, gateway, world, recent>> /\ pc = "boot"
    BY <1>5, SendType DEF Booting
  <2> QED BY <2>1
        DEF Sent, CallType, gateway, world, broker, Done, TypeOK, PreparedOnActive, AnswerRan,
            CommitAwaited, Running, NoAnswer
<1>6. CASE Committed \/ Confirmed
  <2>1. Done /\ UNCHANGED <<broker, call, cand, target, world, recent>>
        /\ target \in Digests
    BY <1>6 DEF Committed, Confirmed, CommitAwaited
  <2>2. CASE Settle(target)
    BY <2>1, <2>2, SettleType
          DEF gateway, world, broker, Done, TypeOK, PreparedOnActive, AnswerRan,
              CommitAwaited, Running, NoAnswer
  <2>3. CASE InDoubt
    <3>1. pending' \in Pairs /\ UNCHANGED <<served, known>>
      BY <2>1, <2>3 DEF InDoubt, Pairs, TypeOK
    <3> QED BY <2>1, <3>1
          DEF gateway, world, broker, Done, TypeOK, PreparedOnActive, AnswerRan,
              CommitAwaited, Running, NoAnswer
  <2> QED BY <1>6, <2>2, <2>3 DEF Committed, Confirmed
<1>7. CASE Booted
  <2>1. answer.digest \in Digests /\ Settle(answer.digest) /\ Done
        /\ UNCHANGED <<broker, call, cand, target, world, recent>>
    BY <1>7 DEF Booted, TypeOK, AnswerRan
  <2> QED BY <2>1, SettleType
        DEF gateway, world, broker, Done, TypeOK, PreparedOnActive, AnswerRan, CommitAwaited,
            Running, NoAnswer
<1> QED BY <1>1, <1>2, <1>3, <1>4, <1>5, <1>6, <1>7 DEF Gateway

\* Timeouts, restarts and edits.
LEMMA WorldStep ==
  ASSUME IInv,
         \/ TickRefused \/ BrokerRestart \/ GatewayRestart
         \/ \E c \in Calls : Timeout(c)
         \/ \E x \in Contents \cup {"bad"} : EditBroker(x)
         \/ \E x \in Configs \cup {"bad"} : EditGateway(x)
  PROVE  IInv'
<1> USE DEF IInv
<1>1. CASE TickRefused
  BY <1>1 DEF TickRefused, vars, TypeOK, PreparedOnActive, AnswerRan, CommitAwaited, Running
<1>2. CASE BrokerRestart
  <2>1. disk \in Contents /\ DigestOf[disk] \in Digests /\ faults + 1 \in 0 .. MaxFaults
    BY <1>2 DEF BrokerRestart, TypeOK
  <2> QED BY <1>2, <2>1
      DEF BrokerRestart, gateway, NoCall, NoPrepared, TypeOK, PreparedOnActive, AnswerRan,
          CommitAwaited, Running
<1>3. CASE GatewayRestart
  <2>1. files \in Configs /\ Running \in Digests /\ faults + 1 \in 0 .. MaxFaults
    BY <1>3, RunningType DEF GatewayRestart, TypeOK
  <2> QED BY <1>3, <2>1
      DEF GatewayRestart, broker, NoPair, NoAnswer, Pairs, TypeOK, PreparedOnActive, AnswerRan,
          CommitAwaited, Running
<1>4. ASSUME NEW c \in Calls, Timeout(c) PROVE IInv'
  <2>1. faults' \in 0 .. MaxFaults
    BY <1>4 DEF Timeout, TypeOK
  <2> QED BY <1>4, <2>1, FailedStep DEF Timeout
<1>5. ASSUME NEW x \in Contents \cup {"bad"}, EditBroker(x) PROVE IInv'
  BY <1>5 DEF EditBroker, broker, gateway, TypeOK, PreparedOnActive, AnswerRan, CommitAwaited,
              Running
<1>6. ASSUME NEW x \in Configs \cup {"bad"}, EditGateway(x) PROVE IInv'
  BY <1>6 DEF EditGateway, broker, gateway, TypeOK, PreparedOnActive, AnswerRan, CommitAwaited,
              Running
<1> QED BY <1>1, <1>2, <1>3, <1>4, <1>5, <1>6

\* The inductive invariant holds of every behaviour.
LEMMA Inductive == Spec => []IInv
<1>1. IInv /\ [Next]_vars => IInv'
  <2> SUFFICES ASSUME IInv, [Next]_vars PROVE IInv'
    OBVIOUS
  <2>1. CASE Next
    BY <2>1, BrokerStep, GatewayStep, WorldStep DEF Next
  <2>2. CASE UNCHANGED vars
    BY <2>2 DEF vars, IInv, TypeOK, PreparedOnActive, AnswerRan, CommitAwaited, Running
  <2> QED BY <2>1, <2>2
<1> QED BY InitInv, <1>1, PTL DEF Spec

\* For all files, digests and bounds, both daemons' state keeps its types.
THEOREM ReloadTypes == Spec => []TypeOK
<1>1. IInv => TypeOK
  BY DEF IInv
<1> QED BY Inductive, <1>1, PTL

\* Coordination::prepare looks again after the load: however late commits and
\* loads come, what is prepared was loaded on the generation that runs.
THEOREM PreparedOnRunning == Spec => []PreparedOnActive
<1>1. IInv => PreparedOnActive
  BY DEF IInv
<1> QED BY Inductive, <1>1, PTL

------------------------------------------------------------------------------
(* The refinement. *)

\* A step of Reload, seen from Generation: the broker changes over, the gateway
\* asks, agrees on what ran, or starts again, or nothing is to be seen.
Seen ==
  \/ UNCHANGED <<Running, recent, served.broker>>
  \/ Abstract!Next

\* The handlers of the broker.
LEMMA BrokerSeen ==
  ASSUME IInv, NEW c \in Calls, Handle(c)
  PROVE  Seen
<1>1. CASE Commit(c) /\ active' # active
  <2>1. prepared.content \in Contents /\ active' = prepared.content
        /\ recent' = recent \cup {DigestOf[prepared.content]} /\ served' = served
    BY <1>1 DEF Commit, gateway, IInv, TypeOK
  <2>2. DigestOf[prepared.content] \in Digests
    BY <2>1
  <2>3. Abstract!Activate(DigestOf[prepared.content])
    BY <2>1 DEF Abstract!Activate, Running
  <2> QED BY <2>2, <2>3 DEF Seen, Abstract!Next
<1>2. CASE Commit(c) /\ active' = active
  <2>0. DigestOf[active] \in recent
    BY DEF IInv, AnswerRan, Running
  <2>1. recent' = recent /\ served' = served
    <3>1. served' = served
      BY <1>2 DEF Commit, gateway
    <3>2. recent' = recent \/ (active' = prepared.content
                               /\ recent' = recent \cup {DigestOf[prepared.content]})
      BY <1>2 DEF Commit
    <3> QED BY <1>2, <2>0, <3>1, <3>2
  <2> QED BY <1>2, <2>1 DEF Seen, Running
<1>3. CASE Unowned(c) \/ Observe(c) \/ PrepareBegin(c) \/ PrepareEnd(c)
  BY <1>3 DEF Unowned, Observe, PrepareBegin, PrepareEnd, broker, gateway, Seen, Running
<1> QED BY <1>1, <1>2, <1>3 DEF Handle

\* Publishing with a digest that has run since the gateway began to ask.
LEMMA SettleSeen ==
  ASSUME IInv, NEW d \in recent, Settle(d), UNCHANGED <<active, recent>>
  PROVE  Seen
<1>1. d \in Digests /\ served'.broker = d
  BY DEF Settle, IInv, TypeOK
<1>2. Abstract!Agree(d)
  BY <1>1 DEF Abstract!Agree, Running
<1> QED BY <1>1, <1>2 DEF Seen, Abstract!Next

\* A failed request publishes nothing.
LEMMA FailedSeen ==
  ASSUME IInv, NEW c \in Calls, Failed(c)
  PROVE  Seen
<1>1. UNCHANGED <<active, recent, served>>
  BY DEF Failed, InDoubt, broker
<1> QED BY <1>1 DEF Seen, Running

\* The gateway's steps.
LEMMA GatewaySeen ==
  ASSUME IInv, Gateway
  PROVE  Seen
<1>1. ASSUME NEW c \in Calls, Tick(c) PROVE Seen
  <2>1. Abstract!Ask
    BY <1>1 DEF Tick, broker, Abstract!Ask, Running
  <2> QED BY <2>1 DEF Seen, Abstract!Next
<1>2. ASSUME NEW c \in Calls, Observed(c) PROVE Seen
  <2>1. answer.digest \in recent /\ UNCHANGED <<active, recent>>
    BY <1>2 DEF Observed, broker, IInv, AnswerRan
  <2>2. Settle(answer.digest) \/ UNCHANGED served
    BY <1>2 DEF Observed
  <2> QED BY <2>1, <2>2, SettleSeen DEF Seen, Running
<1>3. ASSUME NEW c \in Calls, Prepared(c) PROVE Seen
  <2>1. UNCHANGED <<active, recent>>
    BY <1>3 DEF Prepared, broker
  <2>2. (Settle(known) /\ answer.outcome = "active" /\ answer.digest = known) \/ UNCHANGED served
    BY <1>3 DEF Prepared
  <2>3. answer.outcome = "active" => answer.digest \in recent
    BY DEF IInv, AnswerRan
  <2> QED BY <2>1, <2>2, <2>3, SettleSeen DEF Seen, Running
<1>4. ASSUME NEW c \in Calls, Refusal(c) PROVE Seen
  BY <1>4, FailedSeen DEF Refusal
<1>5. ASSUME NEW c \in Calls, Booting(c) PROVE Seen
  BY <1>5 DEF Booting, broker, gateway, Seen, Running
<1>6. CASE Committed
  <2>1. UNCHANGED <<active, recent>> /\ pc = "commit"
    BY <1>6 DEF Committed, broker
  <2>2. (Settle(target) /\ answer.outcome = "applied") \/ UNCHANGED served
    BY <1>6 DEF Committed, InDoubt
  <2>3. answer.outcome = "applied" => target \in recent
    BY <2>1 DEF IInv, AnswerRan
  <2> QED BY <2>1, <2>2, <2>3, SettleSeen DEF Seen, Running
<1>7. CASE Confirmed
  <2>1. UNCHANGED <<active, recent>> /\ answer.digest \in recent
    BY <1>7 DEF Confirmed, broker, IInv, AnswerRan
  <2>2. (Settle(target) /\ answer.digest = target) \/ UNCHANGED served
    BY <1>7 DEF Confirmed, InDoubt
  <2> QED BY <2>1, <2>2, SettleSeen DEF Seen, Running
<1>8. CASE Booted
  <2>1. UNCHANGED <<active, recent>> /\ answer.digest \in recent /\ Settle(answer.digest)
    BY <1>8 DEF Booted, broker, IInv, AnswerRan
  <2> QED BY <2>1, SettleSeen
<1> QED BY <1>1, <1>2, <1>3, <1>4, <1>5, <1>6, <1>7, <1>8 DEF Gateway

\* Timeouts, restarts and edits.
LEMMA WorldSeen ==
  ASSUME IInv,
         \/ TickRefused \/ BrokerRestart \/ GatewayRestart
         \/ \E c \in Calls : Timeout(c)
         \/ \E x \in Contents \cup {"bad"} : EditBroker(x)
         \/ \E x \in Configs \cup {"bad"} : EditGateway(x)
  PROVE  Seen
<1>1. CASE BrokerRestart
  <2>1. DigestOf[disk] \in Digests
    BY <1>1 DEF BrokerRestart, IInv, TypeOK
  <2>2. Abstract!Activate(DigestOf[disk])
    BY <1>1 DEF BrokerRestart, gateway, Abstract!Activate, Running
  <2> QED BY <2>1, <2>2 DEF Seen, Abstract!Next
<1>2. CASE GatewayRestart
  <2>1. Abstract!Forget
    BY <1>2 DEF GatewayRestart, broker, NoPair, Abstract!Forget, Running
  <2> QED BY <2>1 DEF Seen, Abstract!Next
<1>3. ASSUME NEW c \in Calls, Timeout(c) PROVE Seen
  BY <1>3, FailedSeen DEF Timeout
<1>4. CASE \/ TickRefused
           \/ \E x \in Contents \cup {"bad"} : EditBroker(x)
           \/ \E x \in Configs \cup {"bad"} : EditGateway(x)
  BY <1>4 DEF TickRefused, EditBroker, EditGateway, vars, broker, gateway, Seen, Running
<1> QED BY <1>1, <1>2, <1>3, <1>4

\* The two daemons implement Generation: whatever times out, comes late or is
\* restarted, ReloadState publishes only with a digest that the broker has run
\* since the gateway began to ask.
THEOREM ReloadImplementsGeneration == Spec => AgreesOnRunning
<1>1. Init => Abstract!Init
  BY DEF Init, NoPair, Running, Abstract!Init
<1>2. IInv /\ [Next]_vars => [Abstract!Next]_(Abstract!vars)
  <2> SUFFICES ASSUME IInv, [Next]_vars PROVE [Abstract!Next]_(Abstract!vars)
    OBVIOUS
  <2>1. CASE Next
    <3>1. Seen
      BY <2>1, BrokerSeen, GatewaySeen, WorldSeen DEF Next
    <3> QED BY <3>1 DEF Seen, Abstract!vars
  <2>2. CASE UNCHANGED vars
    BY <2>2 DEF vars, Abstract!vars, Running
  <2> QED BY <2>1, <2>2
<1> QED BY Inductive, <1>1, <1>2, PTL DEF Spec, AgreesOnRunning, Abstract!Spec
===============================================================================
