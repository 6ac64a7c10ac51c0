------------------------------- MODULE Reload -------------------------------
(***************************************************************************)
(* Reloading the configuration of the two daemons together.  The gateway   *)
(* (gateway.rs, ReloadState) reads its files every two seconds and has the *)
(* broker (dekopon-brokerd/src/lib.rs, Coordination) read its own: it asks *)
(* the broker to prepare a generation and then to commit it, and publishes *)
(* its own candidate with the digest of the generation the broker runs.    *)
(*                                                                         *)
(* A request that times out at the gateway goes on in the broker, so that  *)
(* a prepare or a commit may act long after the gateway has given up on    *)
(* it.  Either daemon may start again at any time.  Some settings take     *)
(* effect at a start only: files that change one are refused until then.   *)
(* Abstracted: what a configuration says (a broker configuration is a      *)
(* Content, of which the digest leaves out the secrets, and whose settings *)
(* that take effect at a start only are its pin), reports, the             *)
(* proxy that is rebuilt with the candidate, and the check of the owner's  *)
(* uid beyond whether the running content makes the gateway the owner.     *)
(***************************************************************************)
EXTENDS Naturals, FiniteSets

CONSTANTS Contents,   \* broker configurations that load
          Digests,    \* their digests
          DigestOf,   \* content to digest
          Owning,     \* contents that make the gateway the reconciliation owner
          Configs,    \* gateway configurations that load
          Pins,       \* settings of either daemon that take effect at a start only
          BrokerPin,  \* those of a content
          GatewayPin, \* those of a gateway configuration
          Calls,      \* bound: requests under way in the broker at a time
          MaxEdits,   \* bound: edits of either daemon's files
          MaxFaults   \* bound: timeouts and restarts

ASSUME ReloadAssumption ==
  /\ DigestOf \in [Contents -> Digests]
  /\ Owning \subseteq Contents
  /\ BrokerPin \in [Contents -> Pins] /\ GatewayPin \in [Configs -> Pins]
  /\ "none" \notin Digests \cup Configs \cup Calls \cup Contents
  /\ "bad" \notin Contents \cup Configs
  /\ MaxEdits \in Nat /\ MaxFaults \in Nat

VARIABLES disk,      \* the broker's files: a content, or "bad"
          active,    \* GenerationState.active
          gen,       \* which Arc it is: active generations of this process
          prepared,  \* GenerationState.prepared
          loading,   \* the call that holds Coordination.loading, or "none"
          call,      \* requests under way in the broker
          files,     \* the gateway's files: a configuration, or "bad"
          served,    \* the published generation: its configuration and broker digest
          known,     \* ReloadState.broker_digest
          pending,   \* ReloadState.pending
          pc,        \* where ReloadState.activate is
          cand,      \* its candidate
          target,    \* the digest it commits
          wait,      \* the call whose answer it awaits, or "none"
          answer,    \* that answer, when it has come
          recent,    \* history: digests the broker has run since the gateway began to ask
          edits, faults

broker == <<active, gen, prepared, loading>>
gateway == <<served, known, pending, pc, cand, target>>
world == <<disk, files, edits, faults>>
vars == <<disk, active, gen, prepared, loading, call, files, served, known, pending, pc, cand,
          target, wait, answer, recent, edits, faults>>

NoCall == [op |-> "none", digest |-> "none", base |-> 0]
NoPrepared == [base |-> 0, content |-> "none"]
NoPair == [config |-> "none", broker |-> "none"]
NoAnswer == [digest |-> "none", outcome |-> "none"]

Running == DigestOf[active]

Init ==
  /\ disk \in Contents /\ active = disk /\ gen = 1 /\ prepared = NoPrepared
  /\ loading = "none" /\ call = [c \in Calls |-> NoCall]
  /\ files \in Configs
  /\ served = NoPair /\ known = "none" /\ pending = NoPair
  /\ pc = "boot" /\ cand = files /\ target = "none"
  /\ wait = "none" /\ answer = NoAnswer
  /\ recent = {Running}
  /\ edits = 0 /\ faults = 0

------------------------------------------------------------------------------
(* The broker. *)

\* A request ends; its answer reaches the gateway if that still waits for it.
Reply(c, d, outcome) ==
  /\ call' = [call EXCEPT ![c] = NoCall]
  /\ answer' = IF wait = c THEN [digest |-> d, outcome |-> outcome] ELSE answer
  /\ UNCHANGED wait

Owned == active \in Owning

\* Generation requests of a peer that is no longer the owner get an error.
Unowned(c) ==
  /\ call[c].op \in {"observe", "prepare", "commit"} /\ ~Owned
  /\ Reply(c, "none", "error")
  /\ UNCHANGED <<broker, gateway, world, recent>>

Observe(c) ==
  /\ call[c].op = "observe" /\ Owned
  /\ Reply(c, Running, "active")
  /\ UNCHANGED <<broker, gateway, world, recent>>

\* Coordination::prepare up to the load: the gateway must know what runs, and
\* still be the owner after it has waited for its turn.
PrepareBegin(c) ==
  /\ call[c].op = "prepare" /\ loading = "none"
  /\ IF call[c].digest = Running /\ Owned
     THEN /\ loading' = c
          /\ call' = [call EXCEPT ![c] =
                     [op |-> "load", digest |-> call[c].digest, base |-> gen]]
          /\ UNCHANGED <<wait, answer>>
     ELSE Reply(c, Running, "refused") /\ UNCHANGED loading
  /\ UNCHANGED <<active, gen, prepared, gateway, world, recent>>

\* Mutant: what runs is not looked at again after the load.
StillBaseUnchecked(c) == Owned

\* The generation that the load began from is still the one that runs.
StillBase(c) == call[c].base = gen /\ Owned

\* load_candidate: the files may not load, change what only a start can, or say
\* what runs already.
Loaded ==
  IF disk = "bad" \/ BrokerPin[disk] # BrokerPin[active] THEN "none"
  ELSE IF disk = active THEN "unchanged" ELSE "candidate"

\* The load has ended, and what it began from is looked at again.
PrepareEnd(c) ==
  /\ call[c].op = "load"
  /\ loading' = "none"
  /\ \/ /\ Loaded = "none"
        /\ Reply(c, call[c].digest, "refused") /\ UNCHANGED prepared
     \/ /\ Loaded # "none" /\ ~StillBase(c)
        /\ Reply(c, Running, "refused") /\ UNCHANGED prepared
     \/ /\ Loaded = "unchanged" /\ StillBase(c)
        /\ Reply(c, Running, "active") /\ prepared' = NoPrepared
     \/ /\ Loaded = "candidate" /\ StillBase(c)
        /\ prepared' = [base |-> call[c].base, content |-> disk]
        /\ Reply(c, DigestOf[disk], "prepared")
  /\ UNCHANGED <<active, gen, gateway, world, recent>>

\* Coordination::commit.
Commit(c) ==
  /\ call[c].op = "commit" /\ Owned
  /\ IF prepared # NoPrepared /\ DigestOf[prepared.content] = call[c].digest
           /\ prepared.base = gen
     THEN /\ active' = prepared.content /\ gen' = gen + 1 /\ prepared' = NoPrepared
          /\ recent' = recent \cup {DigestOf[prepared.content]}
          /\ Reply(c, call[c].digest, "applied")
     ELSE Reply(c, call[c].digest, "refused") /\ UNCHANGED <<active, gen, prepared, recent>>
  /\ UNCHANGED <<loading, gateway, world>>

\* The broker starts again, with the files as they are.
BrokerRestart ==
  /\ disk # "bad" /\ faults < MaxFaults
  /\ faults' = faults + 1
  /\ active' = disk /\ gen' = 1 /\ prepared' = NoPrepared /\ loading' = "none"
  /\ call' = [c \in Calls |-> NoCall]
  /\ recent' = recent \cup {DigestOf[disk]}
  /\ UNCHANGED <<gateway, wait, answer, disk, files, edits>>

------------------------------------------------------------------------------
(* The gateway: ReloadState::reconcile and activate. *)

Free == {c \in Calls : call[c] = NoCall}

\* A request takes a free slot; the slots are alike, so that one will do.
Send(c, op, d) ==
  /\ c \in Free /\ c = CHOOSE e \in Free : TRUE
  /\ call' = [call EXCEPT ![c] = [op |-> op, digest |-> d, base |-> 0]]
  /\ wait' = c /\ answer' = NoAnswer

Done == pc' = "idle" /\ wait' = "none" /\ answer' = NoAnswer

\* Mutant: what is published is what the files say by now.
SettleUnchecked(d) ==
  /\ served' = [config |-> files, broker |-> d]
  /\ known' = d /\ pending' = NoPair

\* ReloadState::settle: publish the candidate with the broker's digest.
Settle(d) ==
  /\ served' = [config |-> cand, broker |-> d]
  /\ known' = d /\ pending' = NoPair

\* The files load, and change nothing that only a start can.
Candidate == files # "bad" /\ GatewayPin[files] = GatewayPin[served.config]

\* Files that make no candidate are reported, and change nothing.
TickRefused == pc = "idle" /\ ~Candidate /\ UNCHANGED vars

\* Every two seconds.
Tick(c) ==
  /\ pc = "idle" /\ Candidate
  /\ cand' = files
  /\ recent' = {Running}
  /\ IF pending # NoPair THEN Send(c, "observe", "none") /\ pc' = "observe"
                        ELSE Send(c, "prepare", known) /\ pc' = "prepare"
  /\ UNCHANGED <<broker, served, known, pending, target, world>>

\* A commit that was in doubt has gone through, or the gateway starts over
\* from what it observed.
Observed(c) ==
  /\ pc = "observe" /\ answer.outcome = "active"
  /\ IF answer.digest = pending.broker /\ cand = pending.config
     THEN Settle(answer.digest) /\ Done /\ UNCHANGED call
     ELSE /\ known' = answer.digest /\ pending' = NoPair
          /\ pc' = "prepare"
          /\ Send(c, "prepare", answer.digest)
          /\ UNCHANGED served
  /\ UNCHANGED <<broker, cand, target, world, recent>>

\* Mutant: a refusal teaches the gateway nothing.
RelearnNothing(d) == UNCHANGED known

\* A refused prepare tells what the broker runs.
Relearn(d) == known' = d

Prepared(c) ==
  /\ pc = "prepare" /\ answer.outcome \in {"active", "prepared", "refused"}
  /\ \/ /\ answer.outcome = "active"
        /\ IF answer.digest = known THEN Settle(known) ELSE UNCHANGED <<served, known, pending>>
        /\ Done /\ UNCHANGED <<call, target>>
     \/ /\ answer.outcome = "refused"
        /\ Relearn(answer.digest)
        /\ Done /\ UNCHANGED <<call, target, served, pending>>
     \/ /\ answer.outcome = "prepared"
        /\ target' = answer.digest
        /\ pc' = "commit"
        /\ Send(c, "commit", answer.digest)
        /\ UNCHANGED <<served, known, pending>>
  /\ UNCHANGED <<broker, cand, world, recent>>

InDoubt == pending' = [config |-> cand, broker |-> target] /\ UNCHANGED <<served, known>>

Committed ==
  /\ pc = "commit" /\ answer.outcome \in {"applied", "refused"}
  /\ IF answer.outcome = "applied" THEN Settle(target) ELSE InDoubt
  /\ Done
  /\ UNCHANGED <<broker, call, cand, target, world, recent>>

Confirmed ==
  /\ pc = "confirm" /\ answer.outcome = "active"
  /\ IF answer.digest = target THEN Settle(target) ELSE InDoubt
  /\ Done
  /\ UNCHANGED <<broker, call, cand, target, world, recent>>

\* Mutant: a commit whose answer is lost is taken for one that went through.
FailedTrusting(c) ==
  /\ pc # "idle"
  /\ IF pc \in {"commit", "confirm"} THEN Settle(target) /\ Done /\ UNCHANGED call
     ELSE IF pc = "boot" THEN Send(c, "observe", "none") /\ UNCHANGED <<served, known, pending, pc>>
     ELSE Done /\ UNCHANGED <<call, served, known, pending>>
  /\ UNCHANGED <<broker, cand, target, recent>>

\* The request failed: an error was answered, or none came.  A commit in
\* doubt is asked about; a boot that fails is tried again.
Failed(c) ==
  /\ \/ /\ pc \in {"observe", "prepare"}
        /\ Done /\ UNCHANGED <<call, served, known, pending>>
     \/ /\ pc = "commit" /\ pc' = "confirm"
        /\ Send(c, "observe", "none") /\ UNCHANGED <<served, known, pending>>
     \/ /\ pc = "confirm"
        /\ InDoubt /\ Done /\ UNCHANGED call
     \/ /\ pc = "boot"
        /\ Send(c, "observe", "none") /\ UNCHANGED <<served, known, pending, pc>>
  /\ UNCHANGED <<broker, cand, target, recent>>

\* An error answer, and a connection the broker's restart has closed.
Refusal(c) ==
  /\ answer.outcome = "error" \/ (answer = NoAnswer /\ wait \in Free)
  /\ Failed(c)
  /\ UNCHANGED world

\* The gateway gives up on a request that the broker goes on with.
Timeout(c) ==
  /\ wait # "none" /\ answer = NoAnswer /\ wait \notin Free
  /\ faults < MaxFaults /\ faults' = faults + 1
  /\ Failed(c)
  /\ UNCHANGED <<disk, files, edits>>

\* At boot the gateway serves with what it observes.
Booting(c) ==
  /\ pc = "boot" /\ wait = "none"
  /\ Send(c, "observe", "none")
  /\ UNCHANGED <<broker, gateway, world, recent>>

Booted ==
  /\ pc = "boot" /\ answer.outcome = "active"
  /\ Settle(answer.digest) /\ Done
  /\ UNCHANGED <<broker, call, cand, target, world, recent>>

GatewayRestart ==
  /\ files # "bad" /\ faults < MaxFaults
  /\ faults' = faults + 1
  /\ pc' = "boot" /\ wait' = "none" /\ answer' = NoAnswer
  /\ served' = NoPair /\ known' = "none" /\ pending' = NoPair /\ target' = "none"
  /\ cand' = files
  /\ recent' = {Running}
  /\ UNCHANGED <<broker, call, disk, files, edits>>

EditBroker(x) ==
  /\ edits < MaxEdits /\ x # disk
  /\ edits' = edits + 1 /\ disk' = x
  /\ UNCHANGED <<broker, call, gateway, wait, answer, recent, files, faults>>

EditGateway(x) ==
  /\ edits < MaxEdits /\ x # files
  /\ edits' = edits + 1 /\ files' = x
  /\ UNCHANGED <<broker, call, gateway, wait, answer, recent, disk, faults>>

Gateway ==
  \/ \E c \in Calls : Tick(c) \/ Observed(c) \/ Prepared(c) \/ Refusal(c) \/ Booting(c)
  \/ Committed \/ Confirmed \/ Booted

Handle(c) == Unowned(c) \/ Observe(c) \/ PrepareBegin(c) \/ PrepareEnd(c) \/ Commit(c)

Next ==
  \/ Gateway \/ TickRefused
  \/ \E c \in Calls : Handle(c) \/ Timeout(c)
  \/ BrokerRestart \/ GatewayRestart
  \/ \E x \in Contents \cup {"bad"} : EditBroker(x)
  \/ \E x \in Configs \cup {"bad"} : EditGateway(x)

Spec == Init /\ [][Next]_vars

\* Both daemons run; files, timeouts and restarts owe nothing.
Live == Spec /\ WF_vars(Gateway) /\ \A c \in Calls : WF_vars(Handle(c))

------------------------------------------------------------------------------
Abstract == INSTANCE Generation WITH active <- Running, served <- served.broker

\* The two daemons keep their promise: whatever is lost, late or restarted,
\* the gateway publishes only with a digest that the broker ran while the
\* gateway was asking, never one that was merely prepared.
AgreesOnRunning == Abstract!Spec

Pairs == [config : Configs, broker : Digests] \cup {NoPair}

\* Types of both daemons' state.
TypeOK ==
  /\ disk \in Contents \cup {"bad"} /\ files \in Configs \cup {"bad"}
  /\ active \in Contents /\ gen \in Nat \ {0}
  /\ prepared \in [base : Nat \ {0}, content : Contents] \cup {NoPrepared}
  /\ loading \in Calls \cup {"none"}
  /\ call \in [Calls -> [op : {"none", "observe", "prepare", "load", "commit"},
                        digest : Digests \cup {"none"}, base : Nat]]
  /\ served \in Pairs /\ pending \in Pairs
  /\ known \in Digests \cup {"none"} /\ target \in Digests \cup {"none"}
  /\ pc \in {"boot", "idle", "observe", "prepare", "commit", "confirm"}
  /\ cand \in Configs /\ wait \in Calls \cup {"none"}
  /\ answer \in [digest : Digests \cup {"none"},
                 outcome : {"none", "active", "prepared", "applied", "refused", "error"}]
  /\ recent \subseteq Digests
  /\ edits \in 0 .. MaxEdits /\ faults \in 0 .. MaxFaults

\* A generation is only ever prepared on top of the one that runs, although
\* a late commit may change that one while the next is being loaded.
PreparedOnActive == prepared # NoPrepared => prepared.base = gen

InStep == served.config = files /\ served.broker = Running /\ active = disk

\* A good file waits for its daemon to be started again.
RestartRequired ==
  \/ BrokerPin[disk] # BrokerPin[active]
  \/ served # NoPair /\ GatewayPin[files] # GatewayPin[served.config]

\* Once files are left alone and nothing is lost any more, both daemons come
\* to run what the files say, unless a file is bad, the broker's takes the
\* gateway's ownership away, or one changes a setting that only a start of its
\* daemon can.
Converges ==
  <>[](files = "bad" \/ disk = "bad" \/ ~Owned \/ RestartRequired \/ InStep)
==============================================================================
