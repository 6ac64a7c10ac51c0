----------------------------- MODULE SessionGate -----------------------------
(***************************************************************************)
(* dekopon-gatewayd's SessionGate (session.rs): which turn a chat message  *)
(* joins.  A conversation holds at most one session.  While its turn runs, *)
(* the asker's later messages steer it, other people's wait as follow-ups  *)
(* or, in a mapped channel, steer it once a worker (participants.rs) has   *)
(* authorized them.  A turn is sealed or stopped exactly once; the session *)
(* then runs what is left, one turn at a time, and releases.               *)
(*                                                                         *)
(* The gate's map is behind one mutex, so everything done under one lock   *)
(* is one action.  The actors that interleave: the gateway loop (Admit,    *)
(* Enrich, Stop, probes), one session task per conversation, its           *)
(* participant worker, and the wall-clock deadline.                        *)
(*                                                                         *)
(* A turn is named by its lead message: a message leads at most one.       *)
(* Abstracted: texts, assets and receipts (a message is its identity);     *)
(* Follow ids are treated by the gate as wakes are.  The time a message    *)
(* was received is fixed when its transport (or its job) makes it, and     *)
(* need not agree with the order of admission: a collector may hold it.    *)
(***************************************************************************)
EXTENDS Naturals, FiniteSets, Sequences, SequencesExt

CONSTANTS Msgs,           \* messages that may arrive
          Keys,           \* conversations
          KeyOf, Sender, Kind,  \* of each message; see Kinds
          Base,           \* Base[m]: the message a late forward m belongs to
          ReceivedAt,     \* ReceivedAt[m]: the received_at of m
          PosterOnly,     \* messages that carry pull_request_links
          SharedKeys,     \* shared memory, channel or thread: mappable
          AbortSteering,  \* keys whose route has steering: abort
          Permits,        \* sessions.maxConcurrent
          Capacity,       \* MAILBOX_CAPACITY
          MaxInterrupts,  \* MAX_INTERRUPTS
          BatchMax,       \* deliveries in one GithubBatch
          None

Kinds == {"native", "job", "wake", "github", "late"}

ASSUME MessagesAssumption ==
  /\ KeyOf \in [Msgs -> Keys] /\ Kind \in [Msgs -> Kinds] /\ None \notin Msgs
  /\ ReceivedAt \in [Msgs -> Nat]
  /\ \A m \in Msgs : Kind[m] = "late" =>
       /\ Base[m] \in Msgs /\ Kind[Base[m]] = "native"
       /\ KeyOf[m] = KeyOf[Base[m]] /\ Sender[m] = Sender[Base[m]]
ASSUME BoundsAssumption ==
  Permits \in Nat /\ Capacity \in Nat /\ MaxInterrupts \in Nat /\ BatchMax \in Nat

VARIABLES entries,       \* SessionGate.in_flight
          permits,       \* SessionGate.permits: those available
          task,          \* the session task each message started, if any
          cancellation,  \* the SessionCancellation of each turn
          fate,          \* what became of each message
          ran,           \* the turn each message entered
          arrived,       \* the messages that reached the gate, in that order
          vouched        \* ghost: messages the participant worker authorized

vars == <<entries, permits, task, cancellation, fate, ran, arrived, vouched>>

Native(m) == Kind[m] = "native"

\* The elements of s at the places S, in their order: what a retain or a drain
\* keeps of a queue.
Place(S, n) == CHOOSE i \in S : Cardinality({j \in S : j <= i}) = n
Pick(s, S) == [n \in 1..Cardinality(S) |-> s[Place(S, n)]]

NoHolder == [kind |-> "none"]
Probe == [kind |-> "probe"]
Held(k) == entries[k].kind = "session"

\* Mapping::for_turn
ForTurn(m) ==
  IF KeyOf[m] \in SharedKeys /\ Kind[m] # "github" THEN "pending" ELSE "unmapped"

\* TurnId lists keep the newest MAILBOX_CAPACITY ids.
Newest(ids) == SubSeq(ids, 1 + (IF Len(ids) > Capacity THEN Len(ids) - Capacity ELSE 0), Len(ids))


\* turn_ids of a message folded from ms, in any order they were folded in.
TurnIds(ms) == {Newest(ids) : ids \in SetToSeqs({m \in ms : Native(m)})}

\* A stable sort by received_at: the place of s[i], and the sorted sequence.
Rank(s, i) ==
  Cardinality({j \in DOMAIN s : \/ ReceivedAt[s[j]] < ReceivedAt[s[i]]
                                \/ ReceivedAt[s[j]] = ReceivedAt[s[i]] /\ j <= i})
ByReceipt(s) == [n \in DOMAIN s |-> s[CHOOSE i \in DOMAIN s : Rank(s, i) = n]]

\* Running::new; next_or_release resets the same fields for the next turn.
Running(lead, turn) ==
  [kind |-> "session", run |-> lead, mapping |-> ForTurn(lead), aborts |-> 0,
   authorizing |-> 0, steers |-> <<>>, follow_ups |-> <<>>, turn |-> turn]

FreshCancellation == [state |-> "running", model |-> FALSE, signal |-> FALSE]
NoCancellation == [state |-> "none", model |-> FALSE, signal |-> FALSE]
IdleTask == [phase |-> "none", run |-> None, mode |-> "none", batch |-> <<>>]
Runs(lead) == [phase |-> "opening", run |-> lead, mode |-> "none", batch |-> <<>>]

State(e) == cancellation[e.run].state
Depth(e) == Len(e.steers) + Len(e.follow_ups) + e.authorizing

FollowUp(lead, rest, pending) == [lead |-> lead, rest |-> rest, pending |-> pending]
Content(item) == {item.lead} \union item.rest

\* Running::queue_request
QueueRequest(e, m) ==
  [e EXCEPT !.steers = Append(@, m),
            !.turn = IF Native(m) THEN Newest(Append(@, m)) ELSE @]

\* A follow-up is queued behind the turn, or joins the batch at the tail.
Queued(e, item) == [e EXCEPT !.follow_ups = Append(@, item)]
Batched(e, m) ==
  LET tail == Last(e.follow_ups) IN
  [e EXCEPT !.follow_ups[Len(e.follow_ups)] = FollowUp(tail.lead, tail.rest \union {m}, tail.pending)]

\* A late forward follows the turn's steers.
Enriched(e, l) == [e EXCEPT !.steers = Append(@, l)]

\* A model interrupt of the turn of e, spent from its budget of MAX_INTERRUPTS.
MayInterrupt(e) == KeyOf[e.run] \in AbortSteering /\ e.aborts < MaxInterrupts

Interrupted(e) == IF MayInterrupt(e) THEN [e EXCEPT !.aborts = @ + 1] ELSE e

\* Mutant: only the first message of a mailbox interrupts.
InterruptIfFirst(e) ==
  IF MayInterrupt(e) /\ e.steers = <<>>
  THEN [cancellation EXCEPT ![e.run].model = TRUE] ELSE cancellation

InterruptModel(e) ==
  IF MayInterrupt(e) THEN [cancellation EXCEPT ![e.run].model = TRUE] ELSE cancellation

\* Mutant: a re-arm that does not look at the state.
RearmAlways(c) == [c EXCEPT !.model = FALSE]

\* SessionCancellation::rearm_model
Rearm(c) == IF c.state # "cancelled" THEN [c EXCEPT !.model = FALSE] ELSE c

Settle(ms, what) == [m \in Msgs |-> IF m \in ms THEN what ELSE fate[m]]
Enter(ms, r) == [m \in Msgs |-> IF m \in ms THEN r ELSE ran[m]]

------------------------------------------------------------------------------
Init ==
  /\ entries = [k \in Keys |-> NoHolder]
  /\ permits = Permits
  /\ task = [m \in Msgs |-> IdleTask]
  /\ cancellation = [m \in Msgs |-> NoCancellation]
  /\ fate = [m \in Msgs |-> "unsent"]
  /\ ran = [m \in Msgs |-> None]
  /\ arrived = <<>>
  /\ vouched = {}

------------------------------------------------------------------------------
(* SessionGate::admit, one action per way it returns. *)

Arrives(m) ==
  /\ fate[m] = "unsent" /\ Kind[m] # "late"
  /\ arrived' = Append(arrived, m)

\* The tail follow-up is a GitHub batch that can still take this delivery.
JoinsBatch(e, m) ==
  /\ Kind[m] = "github" /\ e.follow_ups # <<>>
  /\ LET tail == Last(e.follow_ups)
     IN Kind[tail.lead] = "github" /\ Sender[tail.lead] = Sender[m]
        /\ Cardinality(tail.rest) + 2 <= BatchMax

\* Mutant: a poster-only turn takes participants too.
ParticipatesInAny(e, m) ==
  /\ Native(m) /\ Sender[m] # Sender[e.run]
  /\ e.mapping = "mapped" /\ State(e) = "running"

\* Another sender's chat message in a mapped conversation.
Participates(e, m) ==
  /\ e.run \notin PosterOnly /\ Native(m) /\ Sender[m] # Sender[e.run]
  /\ e.mapping = "mapped" /\ State(e) = "running"

\* The asker's own chat message or job notice.
SteersOwn(e, m) ==
  Sender[m] = Sender[e.run] /\ Kind[m] \in {"native", "job"} /\ State(e) = "running"

\* Another sender's chat message before the turn knows whether it is mapped.
AwaitsMapping(e, m) ==
  /\ e.run \notin PosterOnly /\ e.mapping = "pending" /\ Native(m)
  /\ Sender[m] # Sender[e.run] /\ State(e) = "running"

AdmitNew(m) ==
  LET k == KeyOf[m] IN
  /\ Arrives(m) /\ entries[k] = NoHolder /\ permits > 0
  /\ permits' = permits - 1
  /\ \E turn \in TurnIds({m}) : entries' = [entries EXCEPT ![k] = Running(m, turn)]
  /\ cancellation' = [cancellation EXCEPT ![m] = FreshCancellation]
  /\ task' = [task EXCEPT ![m] = Runs(m)]
  /\ fate' = Settle({m}, "taken") /\ ran' = Enter({m}, m)
  /\ UNCHANGED vouched

\* Admit::Saturated and Admit::Full: the sender is told the gateway is busy.
AdmitRefused(m) ==
  LET e == entries[KeyOf[m]] IN
  /\ Arrives(m)
  /\ \/ e = Probe
     \/ e = NoHolder /\ permits = 0
     \/ e.kind = "session" /\ ~JoinsBatch(e, m) /\ Depth(e) = Capacity
  /\ fate' = Settle({m}, "busy")
  /\ UNCHANGED <<entries, permits, task, cancellation, ran, vouched>>

AdmitBatched(m) ==
  LET k == KeyOf[m]  e == entries[k] IN
  /\ Arrives(m) /\ Held(k) /\ JoinsBatch(e, m)
  /\ entries' = [entries EXCEPT ![k] = Batched(e, m)]
  /\ fate' = Settle({m}, "queued")
  /\ UNCHANGED <<permits, task, cancellation, ran, vouched>>

AdmitSteer(m) ==
  LET k == KeyOf[m]  e == entries[k] IN
  /\ Arrives(m) /\ Held(k) /\ Depth(e) # Capacity
  /\ \/ /\ Participates(e, m)
        /\ entries' = [entries EXCEPT ![k] = QueueRequest(e, m)]
        /\ UNCHANGED cancellation
     \/ /\ SteersOwn(e, m) /\ Native(m)
        /\ entries' = [entries EXCEPT ![k] = Interrupted(QueueRequest(e, m))]
        /\ cancellation' = InterruptModel(e)
     \/ /\ SteersOwn(e, m) /\ ~Native(m)
        /\ entries' = [entries EXCEPT ![k] = QueueRequest(e, m)]
        /\ UNCHANGED cancellation
  /\ fate' = Settle({m}, "steered")
  /\ UNCHANGED <<permits, task, ran, vouched>>

AdmitFollowUp(m) ==
  LET k == KeyOf[m]  e == entries[k] IN
  /\ Arrives(m) /\ Held(k) /\ ~JoinsBatch(e, m) /\ Depth(e) # Capacity
  /\ ~Participates(e, m) /\ ~SteersOwn(e, m)
  /\ entries' = [entries EXCEPT ![k] = Queued(e, FollowUp(m, {}, AwaitsMapping(e, m)))]
  /\ fate' = Settle({m}, "queued")
  /\ UNCHANGED <<permits, task, cancellation, ran, vouched>>

Admit(m) ==
  AdmitNew(m) \/ AdmitRefused(m) \/ AdmitBatched(m) \/ AdmitSteer(m) \/ AdmitFollowUp(m)

\* SessionGate::enrich: a forward the platform delivers after its message.  It
\* is absorbed by a message still queued, or follows one the turn has taken.
Enrich(l) ==
  LET k == KeyOf[l]  e == entries[k]  b == Base[l] IN
  /\ fate[l] = "unsent" /\ Kind[l] = "late" /\ fate[b] # "unsent"
  /\ arrived' = Append(arrived, l)
  /\ LET absorbed == /\ Held(k)
                     /\ \/ \E i \in DOMAIN e.follow_ups : e.follow_ups[i].lead = b
                        \/ b \in ToSet(e.steers)
         follows == /\ Held(k) /\ State(e) = "running" /\ Depth(e) < Capacity
                    /\ b \in ToSet(e.turn)
     IN \/ /\ absorbed
           /\ fate' = Settle({l}, "absorbed") /\ UNCHANGED <<entries, cancellation>>
        \/ /\ ~absorbed /\ follows
           /\ entries' = [entries EXCEPT ![k] = Interrupted(Enriched(e, l))]
           /\ cancellation' = InterruptModel(e)
           /\ fate' = Settle({l}, "steered")
        \/ /\ ~absorbed /\ ~follows
           /\ fate' = Settle({l}, "unheld") /\ UNCHANGED <<entries, cancellation>>
  /\ UNCHANGED <<permits, task, ran, vouched>>

\* SessionGate::admit_probe and the drop of its ProbeAdmission.
ProbeAdmit(k) ==
  /\ entries[k] = NoHolder /\ permits > 0
  /\ entries' = [entries EXCEPT ![k] = Probe] /\ permits' = permits - 1
  /\ UNCHANGED <<task, cancellation, fate, ran, arrived, vouched>>

ProbeDrop(k) ==
  /\ entries[k] = Probe
  /\ entries' = [entries EXCEPT ![k] = NoHolder] /\ permits' = permits + 1
  /\ UNCHANGED <<task, cancellation, fate, ran, arrived, vouched>>

\* What a sender has queued in e, and what is left of e without it.
QueuedBy(e, s) ==
  {m \in ToSet(e.steers) : Sender[m] = s}
  \union UNION {Content(i) : i \in {i \in ToSet(e.follow_ups) : Sender[i.lead] = s}}
Without(e, s) ==
  [e EXCEPT !.steers = Pick(@, {i \in DOMAIN @ : Sender[@[i]] # s}),
            !.follow_ups = Pick(@, {i \in DOMAIN @ : Sender[@[i].lead] # s}),
            !.turn = Pick(@, {i \in DOMAIN @ : Sender[@[i]] # s})]

\* SessionGate::cancel: a sender's stop drops what that sender has queued and,
\* if the turn is theirs, cancels it.  The watch is set under the gate's lock.
Stop(s, k) ==
  LET e == entries[k] IN
  /\ Held(k)
  /\ entries' = [entries EXCEPT ![k] = Without(e, s)]
  /\ cancellation' = IF Sender[e.run] = s /\ State(e) = "running"
                     THEN [cancellation EXCEPT ![e.run].state = "cancelled", ![e.run].model = TRUE]
                     ELSE cancellation
  /\ fate' = Settle(QueuedBy(e, s), "stopped")
  /\ UNCHANGED <<permits, task, ran, arrived, vouched>>

------------------------------------------------------------------------------
(* The session task and its turn (session.rs: run_session_resolving,        *)
(* session, session_turn; dekopon-agent's prompt.rs: MailboxLease, turns). *)
(* t is the message that started the task.                                 *)

Turns == {"opening", "resolved", "prompting", "ended"}
Prompting(t) == task[t].phase \in {"resolved", "prompting"}
Live(t) == task[t].phase \in Turns
EntryOf(t) == entries[KeyOf[t]]

\* The gate holds the turn this task runs: the Arc::ptr_eq of the cancellations.
Holds(t) == Held(KeyOf[t]) /\ EntryOf(t).run = task[t].run

\* The follow-ups that a mapped turn promotes to steers.
Promotes(e, mapped, item) ==
  item.pending /\ mapped /\ e.run \notin PosterOnly /\ State(e) = "running"
Promoted(e, mapped) == {i \in DOMAIN e.follow_ups : Promotes(e, mapped, e.follow_ups[i])}
Leads(items) == [n \in DOMAIN items |-> items[n].lead]
Resolved(items) == [n \in DOMAIN items |-> FollowUp(items[n].lead, items[n].rest, FALSE)]

\* Mutant: the promoted messages are appended and the steers not sorted.
ResolveUnsorted(e, mapped) ==
  LET up == Promoted(e, mapped)
      leads == Leads(Pick(e.follow_ups, up))
  IN [e EXCEPT
        !.mapping = IF mapped THEN "mapped" ELSE "unmapped",
        !.follow_ups = Resolved(Pick(@, DOMAIN @ \ up)),
        !.steers = @ \o leads,
        !.turn = Newest(@ \o leads)]

\* SessionGate::resolve_mapping: only chat messages await the mapping.
Resolve(e, mapped) ==
  LET up == Promoted(e, mapped)
      leads == Leads(Pick(e.follow_ups, up))
  IN [e EXCEPT
        !.mapping = IF mapped THEN "mapped" ELSE "unmapped",
        !.follow_ups = Resolved(Pick(@, DOMAIN @ \ up)),
        !.steers = ByReceipt(@ \o leads),
        !.turn = Newest(@ \o leads)]
Settled(e, mapped) == IF e.mapping = "pending" THEN Resolve(e, mapped) ELSE e

\* The broker leg is open: the turn learns whether its channel is mapped.
ResolveMapping(t, mapped) ==
  LET k == KeyOf[t]  e == entries[k] IN
  /\ task[t].phase = "opening" /\ Holds(t)
  /\ mapped => e.mapping = "pending"
  /\ entries' = [entries EXCEPT ![k] = Settled(e, mapped)]
  /\ task' = [task EXCEPT ![t].phase = "resolved"]
  /\ fate' = Settle(ToSet(Settled(e, mapped).steers), "steered")
  /\ UNCHANGED <<permits, cancellation, ran, arrived, vouched>>

\* session_turn returns before its prompt starts (refused, sealed, failed), so
\* nothing seals the mailbox; session() then resolves a pending mapping.
EarlyReturn(t) ==
  LET k == KeyOf[t]  e == entries[k] IN
  /\ task[t].phase \in {"opening", "resolved"} /\ Holds(t)
  /\ entries' = [entries EXCEPT ![k] = Settled(e, FALSE)]
  /\ task' = [task EXCEPT ![t].phase = "ended"]
  /\ UNCHANGED <<permits, cancellation, fate, ran, arrived, vouched>>

\* The mailbox is drained of its steers, of which n are being authorized.
DrainedOf(e, n) == [e EXCEPT !.steers = <<>>, !.authorizing = @ + n]
Authorized(e, n) == [e EXCEPT !.authorizing = @ - n]
Batch(r, mode, batch) == [r EXCEPT !.phase = "prompting", !.mode = mode, !.batch = batch]
Ends(r) == [r EXCEPT !.phase = "ended", !.mode = "none", !.batch = <<>>]

\* A mapped turn that is not poster-only has a participant worker.
HasWorker(e) == e.mapping = "mapped" /\ e.run \notin PosterOnly

\* SessionGate::take_steers, and seal_or_take when it takes: without a
\* participant worker the steers go to the model as they are.
TakeSteers(t) ==
  LET k == KeyOf[t]  e == entries[k] IN
  /\ Prompting(t) /\ Holds(t) /\ ~HasWorker(e)
  /\ entries' = [entries EXCEPT ![k] = DrainedOf(e, 0)]
  /\ cancellation' = [cancellation EXCEPT ![e.run] = Rearm(@)]
  /\ task' = [task EXCEPT ![t].phase = "prompting"]
  /\ fate' = Settle(ToSet(e.steers), "taken") /\ ran' = Enter(ToSet(e.steers), e.run)
  /\ UNCHANGED <<permits, arrived, vouched>>

\* Mutant: the drained steers are not counted while they are authorized.
WorkerDrainUncounted(t, mode) ==
  LET k == KeyOf[t]  e == entries[k] IN
  /\ Prompting(t) /\ Holds(t) /\ HasWorker(e) /\ State(e) # "cancelled"
  /\ task[t].batch = <<>> /\ task[t].mode \in {"none", mode}
  /\ mode = "seal" => e.steers # <<>>
  /\ entries' = [entries EXCEPT ![k] = DrainedOf(e, 0)]
  /\ cancellation' = [cancellation EXCEPT ![e.run] = Rearm(@)]
  /\ task' = [task EXCEPT ![t] = Batch(@, IF e.steers = <<>> THEN "none" ELSE mode, e.steers)]
  /\ UNCHANGED <<permits, fate, ran, arrived, vouched>>

\* authorize(), its first step: the worker of a mapped turn drains the steers
\* for a Take or a SealOrTake request and counts them as authorizing.
WorkerDrain(t, mode) ==
  LET k == KeyOf[t]  e == entries[k] IN
  /\ Prompting(t) /\ Holds(t) /\ HasWorker(e) /\ State(e) # "cancelled"
  /\ task[t].batch = <<>> /\ task[t].mode \in {"none", mode}
  /\ mode = "seal" => e.steers # <<>>
  /\ entries' = [entries EXCEPT ![k] = DrainedOf(e, Len(e.steers))]
  /\ cancellation' = [cancellation EXCEPT ![e.run] = Rearm(@)]
  /\ task' = [task EXCEPT ![t] = Batch(@, IF e.steers = <<>> THEN "none" ELSE mode, e.steers)]
  /\ UNCHANGED <<permits, fate, ran, arrived, vouched>>

\* The participants.rs Table: the asker and whoever was authorized in this turn
\* are not asked about again.  (It has a handle for each sender considered.)
Known(t, ms, i) ==
  LET batch == task[t].batch  s == Sender[batch[i]]  r == task[t].run IN
  \/ s = Sender[r]
  \/ \E m \in vouched : ran[m] = r /\ Sender[m] = s
  \/ \E j \in 1..(i - 1) : batch[j] \in ms /\ Sender[batch[j]] = s

\* authorize(), its end: the messages the broker grants enter the turn, the
\* others are refused.  A SealOrTake with nothing granted drains again.
WorkerReply(t, granted) ==
  LET k == KeyOf[t]  e == entries[k]  batch == task[t].batch IN
  /\ batch # <<>> /\ Holds(t) /\ State(e) # "cancelled"
  /\ granted \subseteq ToSet(batch)
  /\ \A i \in DOMAIN batch : Known(t, granted, i) => batch[i] \in granted
  /\ entries' = [entries EXCEPT ![k] = Authorized(e, Len(batch))]
  /\ task' = [task EXCEPT ![t] = Batch(@, IF @.mode = "seal" /\ granted = {} THEN "seal" ELSE "none",
                                       <<>>)]
  /\ fate' = [m \in Msgs |-> CASE m \in granted -> "taken"
                               [] m \in ToSet(batch) \ granted -> "unauthorized"
                               [] OTHER -> fate[m]]
  /\ ran' = Enter(granted, e.run)
  /\ vouched' = vouched \union granted
  /\ UNCHANGED <<permits, cancellation, arrived>>

\* Mutant: a SealOrTake that granted nothing waits for another steer.
SealUnlessRefused(t) ==
  LET e == EntryOf(t) IN
  /\ Prompting(t) /\ Holds(t) /\ State(e) = "running"
  /\ task[t].batch = <<>> /\ task[t].mode = "none"
  /\ cancellation' = [cancellation EXCEPT ![e.run].state = "completing"]
  /\ task' = [task EXCEPT ![t].phase = "ended"]
  /\ UNCHANGED <<entries, permits, fate, ran, arrived, vouched>>

\* seal_locked, won: at the end of the prompt, with the mailbox empty, or
\* whatever it holds at the last allowed step, on a decline or an error.
Seal(t) ==
  LET e == EntryOf(t) IN
  /\ Prompting(t) /\ Holds(t) /\ State(e) = "running" /\ task[t].batch = <<>>
  /\ task[t].mode = "seal" => e.steers = <<>>
  /\ cancellation' = [cancellation EXCEPT ![e.run].state = "completing"]
  /\ task' = [task EXCEPT ![t] = Ends(@)]
  /\ UNCHANGED <<entries, permits, fate, ran, arrived, vouched>>

\* seal_locked, lost: the turn was cancelled.  The worker's select! drops the
\* batch it was authorizing, and with it the reservation in `authorizing`.
Stopped(t) ==
  LET k == KeyOf[t]  e == entries[k]  batch == task[t].batch IN
  /\ Prompting(t) /\ Holds(t) /\ State(e) = "cancelled"
  /\ entries' = [entries EXCEPT ![k] = Authorized(e, Len(batch))]
  /\ task' = [task EXCEPT ![t] = Ends(@)]
  /\ fate' = Settle(ToSet(batch), IF task[t].mode = "seal" THEN "stranded" ELSE "dropped")
  /\ UNCHANGED <<permits, cancellation, ran, arrived, vouched>>

\* The wall-clock deadline (progress/policy.rs) cancels without the gate's
\* lock: the state first, the model's watch after the source lock is released.
Expire(t) ==
  LET r == task[t].run IN
  /\ Prompting(t) /\ cancellation[r].state = "running"
  /\ cancellation' = [cancellation EXCEPT ![r].state = "cancelled", ![r].signal = TRUE]
  /\ UNCHANGED <<entries, permits, task, fate, ran, arrived, vouched>>

ExpireSignal(r) ==
  /\ cancellation[r].signal
  /\ cancellation' = [cancellation EXCEPT ![r].model = TRUE, ![r].signal = FALSE]
  /\ UNCHANGED <<entries, permits, task, fate, ran, arrived, vouched>>

\* Two chat messages of one sender, one right after the other, fold into one.
FoldsInto(m, n) == Native(m) /\ Native(n) /\ Sender[m] = Sender[n]

\* Mutant: the steers left over when the turn ends are discarded.
LeftoversDiscarded(steers) == <<>>

\* The requests left in `steers`, folded; leftover late forwards are not held.
Leftovers(steers) ==
  LET left == Pick(steers, {i \in DOMAIN steers : Kind[steers[i]] # "late"})
      starts == {i \in DOMAIN left : i = 1 \/ ~FoldsInto(left[i - 1], left[i])}
      folded(i) == {j \in (i + 1)..Len(left) : (i + 1)..j \intersect starts = {}}
  IN [n \in 1..Cardinality(starts) |->
        LET i == Place(starts, n) IN FollowUp(left[i], {left[j] : j \in folded(i)}, FALSE)]

Waiting(e) == Leftovers(e.steers) \o e.follow_ups

\* Where the items end that the turn led by item n takes.
FoldEnd(q, n) ==
  Min({j \in (n + 1)..(Len(q) + 1) : j > Len(q) \/ ~FoldsInto(q[n].lead, q[j].lead)})
ContentOf(q, js) == UNION {Content(q[j]) : j \in js}
NextTurn(q, n, turn) ==
  [Running(q[n].lead, turn) EXCEPT !.follow_ups = SubSeq(q, FoldEnd(q, n), Len(q))]

\* Mutant: the next turn keeps the ids of the one before it.
NextKeepsTurn(t, lost) ==
  LET k == KeyOf[t]  n == lost + 1 IN
  /\ task[t].phase = "ended" /\ Held(k)
  /\ \E q \in {Waiting(entries[k])} :
       LET taken == ContentOf(q, n..(FoldEnd(q, n) - 1)) IN
       /\ lost \in 0..(Len(q) - 1)
       /\ entries' = [entries EXCEPT ![k] = NextTurn(q, n, entries[k].turn)]
       /\ cancellation' = [cancellation EXCEPT ![q[n].lead] = FreshCancellation]
       /\ task' = [task EXCEPT ![t] = Runs(q[n].lead)]
       /\ fate' = Settle(taken, "taken") /\ ran' = Enter(taken, q[n].lead)
  /\ UNCHANGED <<permits, arrived, vouched>>

\* SessionAdmission::next_or_release_with: `lost` items no longer have a route;
\* the next one leads a turn of its own, or the conversation is released.
NextOrRelease(t, lost) ==
  LET k == KeyOf[t]  e == entries[k]  n == lost + 1 IN
  /\ task[t].phase = "ended" /\ Held(k)
  /\ \E q \in {Waiting(e)} :
       LET taken == ContentOf(q, n..(FoldEnd(q, n) - 1))
           gone == ContentOf(q, 1..lost)
           unheld == {m \in ToSet(e.steers) : Kind[m] = "late"}
           settled == [m \in Msgs |-> CASE m \in gone -> "routelost"
                                        [] m \in unheld -> "unheld"
                                        [] OTHER -> fate[m]]
       IN
       \/ /\ lost \in 0..(Len(q) - 1)
          /\ \E turn \in TurnIds(taken) : entries' = [entries EXCEPT ![k] = NextTurn(q, n, turn)]
          /\ cancellation' = [cancellation EXCEPT ![q[n].lead] = FreshCancellation]
          /\ task' = [task EXCEPT ![t] = Runs(q[n].lead)]
          /\ fate' = [m \in Msgs |-> IF m \in taken THEN "taken" ELSE settled[m]]
          /\ ran' = Enter(taken, q[n].lead)
       \/ /\ lost = Len(q)
          /\ entries' = [entries EXCEPT ![k] = NoHolder]
          /\ task' = [task EXCEPT ![t].phase = "dropping"]
          /\ fate' = settled
          /\ UNCHANGED <<cancellation, ran>>
  /\ UNCHANGED <<permits, arrived, vouched>>

\* What a removed entry still held dies with it.
Dropped(e) == ToSet(e.steers) \union UNION {Content(i) : i \in ToSet(e.follow_ups)}

\* Mutant: the drop removes whichever session holds the conversation by then.
DropAnyHolder(t) ==
  LET k == KeyOf[t] IN
  /\ task[t].phase = "dropping"
  /\ entries' = [entries EXCEPT ![k] = NoHolder]
  /\ fate' = IF Held(k) THEN Settle(Dropped(entries[k]), "aborted") ELSE fate
  /\ task' = [task EXCEPT ![t].phase = "done"]
  /\ permits' = permits + 1
  /\ UNCHANGED <<cancellation, ran, arrived, vouched>>

\* SessionAdmission::drop after the release, when a newer session may already
\* hold the conversation; then the permit.
DropAdmission(t) ==
  LET k == KeyOf[t] IN
  /\ task[t].phase = "dropping"
  /\ entries' = IF Holds(t) THEN [entries EXCEPT ![k] = NoHolder] ELSE entries
  /\ fate' = IF Holds(t) THEN Settle(Dropped(entries[k]), "aborted") ELSE fate
  /\ task' = [task EXCEPT ![t].phase = "done"]
  /\ permits' = permits + 1
  /\ UNCHANGED <<cancellation, ran, arrived, vouched>>

\* The task panics or is aborted at shutdown: its admission is dropped as it
\* stands, and CancellationOnDrop cancels a turn that was prompting.
Abort(t) ==
  LET k == KeyOf[t]  r == task[t].run IN
  /\ task[t].phase \in Turns /\ Holds(t)
  /\ cancellation' =
       IF Prompting(t) /\ cancellation[r].state = "running"
       THEN [cancellation EXCEPT ![r].state = "cancelled", ![r].model = TRUE] ELSE cancellation
  /\ entries' = [entries EXCEPT ![k] = NoHolder]
  /\ fate' = Settle(Dropped(entries[k]) \union ToSet(task[t].batch), "aborted")
  /\ task' = [task EXCEPT ![t] = [Ends(@) EXCEPT !.phase = "done"]]
  /\ permits' = permits + 1
  /\ UNCHANGED <<ran, arrived, vouched>>

------------------------------------------------------------------------------
TurnStep(t) ==
  \/ \E mapped \in BOOLEAN : ResolveMapping(t, mapped)
  \/ EarlyReturn(t)
  \/ TakeSteers(t)
  \/ \E mode \in {"take", "seal"} : WorkerDrain(t, mode)
  \/ \E granted \in SUBSET ToSet(task[t].batch) : WorkerReply(t, granted)
  \/ Seal(t)
  \/ Stopped(t)
  \/ \E lost \in 0..Cardinality(Msgs) : NextOrRelease(t, lost)
  \/ DropAdmission(t)

Next ==
  \/ \E m \in Msgs : Admit(m) \/ Enrich(m)
  \/ \E k \in Keys : ProbeAdmit(k) \/ ProbeDrop(k)
  \/ \E k \in Keys, m \in Msgs : KeyOf[m] = k /\ Stop(Sender[m], k)
  \/ \E t \in Msgs : TurnStep(t) \/ Expire(t) \/ ExpireSignal(t) \/ Abort(t)

Spec == Init /\ [][Next]_vars

\* The runtime polls a ready task again, a prompt is bounded by max_steps and
\* the wall-clock deadline, and a probe ends.
FairSpec ==
  /\ Spec
  /\ \A t \in Msgs : WF_vars(TurnStep(t))
  /\ \A k \in Keys : WF_vars(ProbeDrop(k))

------------------------------------------------------------------------------
Fates == {"unsent", "steered", "queued", "taken", "absorbed", "busy", "stopped", "routelost",
          "unauthorized", "unheld", "stranded", "dropped", "aborted"}

\* The mailbox never holds more than MAILBOX_CAPACITY, counting what is being
\* authorized, and `authorizing` counts exactly that (admit refuses only at
\* depth == MAILBOX_CAPACITY, so an overshoot would lift the bound).
MailboxBound ==
  \A k \in Keys : Held(k) =>
    /\ Depth(entries[k]) <= Capacity
    /\ \A t \in Msgs : KeyOf[t] = k /\ Live(t) => entries[k].authorizing = Len(task[t].batch)

\* Every variable has its type; in particular `authorizing` (a usize that is
\* decremented on drop) and `aborts` stay within their bounds.
TypeOK ==
  /\ permits \in 0..Permits
  /\ \A k \in Keys : Held(k) =>
       /\ entries[k].authorizing \in 0..Capacity /\ entries[k].aborts \in 0..MaxInterrupts
       /\ entries[k].mapping \in {"pending", "mapped", "unmapped"}
       /\ entries[k].steers \in Seq(Msgs) /\ entries[k].turn \in Seq(Msgs)
       /\ entries[k].follow_ups \in Seq([lead: Msgs, rest: SUBSET Msgs, pending: BOOLEAN])
  /\ fate \in [Msgs -> Fates] /\ ran \in [Msgs -> Msgs \union {None}]
  /\ \A r \in Msgs : cancellation[r].state \in {"none", "running", "completing", "cancelled"}
  /\ MailboxBound

\* A turn hears its own asker and nobody else, except, when it is mapped and
\* not poster-only, people the broker authorized for it: leftover steers,
\* promoted follow-ups and late forwards included (session.rs:1017).
NoForeignInput ==
  \A m \in Msgs : fate[m] = "taken" /\ Sender[m] # Sender[ran[m]] =>
    m \in vouched /\ ran[m] \notin PosterOnly

Places(k, m) ==
  LET e == entries[k] IN
  IF ~Held(k) THEN {}
  ELSE {<<"steer", i>> : i \in {i \in DOMAIN e.steers : e.steers[i] = m}}
       \union {<<"follow", i>> : i \in {i \in DOMAIN e.follow_ups : m \in Content(e.follow_ups[i])}}

Authorizing(m) == {<<"batch", t>> : t \in {t \in Msgs : m \in ToSet(task[t].batch)}}

Open(m) == fate[m] \in {"steered", "queued"}

\* Nothing accepted is lost or doubled: a message the gate accepted is in one
\* place of one mailbox, or being authorized, until it is settled, and a
\* settled message is in none (a steer racing a seal is the hard case).
Accounted ==
  \A m \in Msgs :
    Cardinality(Places(KeyOf[m], m) \union Authorizing(m)) = IF Open(m) THEN 1 ELSE 0

HasPermit(t) == Live(t) \/ task[t].phase = "dropping"

\* A conversation is held exactly while one task runs the turn it names, and
\* every permit is free, with a task or with a probe, although a released
\* task drops its admission after a newer session may have taken the key.
OneSession ==
  /\ \A k \in Keys : LET ts == {t \in Msgs : KeyOf[t] = k /\ Live(t)} IN
       IF Held(k) THEN \E t \in ts : ts = {t} /\ task[t].run = entries[k].run ELSE ts = {}
  /\ permits + Cardinality({t \in Msgs : HasPermit(t)})
       + Cardinality({k \in Keys : entries[k] = Probe}) = Permits

\* Draining the mailbox re-arms the model, but never clears a stop: a
\* cancelled turn's model watch is set, or is about to be (session.rs:1190).
StopReachesModel ==
  \A r \in Msgs : cancellation[r].state = "cancelled" /\ ~cancellation[r].signal
                    => cancellation[r].model

\* With interrupts left, an abort-steered turn whose asker has a message
\* waiting has its model call interrupted; re-arming never races the message.
InterruptHeld ==
  \A k \in Keys : Held(k) => LET e == entries[k] IN
    /\ k \in AbortSteering /\ e.aborts < MaxInterrupts /\ State(e) = "running"
    /\ \E m \in ToSet(e.steers) : Native(m) /\ Sender[m] = Sender[e.run]
    => cancellation[e.run].model

\* m reached the gate before n.
Before(m, n) ==
  \E i, j \in DOMAIN arrived : i < j /\ arrived[i] = m /\ arrived[j] = n

\* The model never hears a steer ahead of one that was both received and
\* admitted before it, also when participants' messages held back while the
\* mapping was pending are sorted in by received_at (participants.rs:206-209)
\* and later ones, which may have been received earlier, are appended.
SteersInOrder ==
  \A k \in Keys : Held(k) =>
    LET s == entries[k].steers IN
    \A i, j \in DOMAIN s : i < j =>
      ReceivedAt[s[i]] <= ReceivedAt[s[j]] \/ Before(s[i], s[j])

\* A late forward enters the turn its message entered, or one that refused its
\* message, and never a later turn or one its sender was stopped from.
LateWithBase ==
  \A l \in Msgs : Kind[l] = "late" /\ fate[l] = "taken" =>
    ran[Base[l]] = ran[l] \/ fate[Base[l]] = "unauthorized"

\* Every accepted message is settled, and every conversation is released.
Drained ==
  /\ \A m \in Msgs : Open(m) ~> ~Open(m)
  /\ \A k \in Keys : []<>(entries[k] = NoHolder)

\* "A steer that arrived as a turn finished, or during its last allowed step,
\* is no longer stranded" (CHANGELOG.md:907): no steer drained by the turn's
\* final SealOrTake is dropped without entering a turn.
NoSteerStranded == \A m \in Msgs : fate[m] # "stranded"
==============================================================================
