----------------------------- MODULE WakeStore -----------------------------
(***************************************************************************)
(* dekopon-gatewayd's wakes (wake.rs, wake/store.rs) and the part of the   *)
(* gateway's loop that serves them (gateway.rs).  An agent asks to be      *)
(* woken once, when a probe script says so (a watch, a space's digest) or  *)
(* when a pull request it reviewed changes (a subscription).  The rows are *)
(* kept in a file, and a wake that fires retires its row first.            *)
(*                                                                         *)
(* A call of the store holds its mutex from start to end: it computes the  *)
(* new rows, renames a new file into place, and only then changes memory   *)
(* and answers.  The variable op is that call; between its steps time may  *)
(* pass and the process may be killed.  Times are kept as the time left,   *)
(* as the code compares them with now only.                                *)
(* Abstracted: notes, scripts and probe output (a digest that prints what  *)
(* it printed before is a probe that waits), conversations below a space,  *)
(* refusals that change nothing, audit records, sub-tick rounding of times *)
(* in the file, and the wrap of the 32-bit ids.                            *)
(***************************************************************************)
EXTENDS Naturals, FiniteSets, FiniteSetsExt

CONSTANTS People, Spaces,       \* the subjects that own wakes
          Kinds,                \* which kinds are registered
          Targets,              \* pull requests
          After, Every, Until,  \* the times asked for
          Expiry,               \* bounds.subscription_expiry
          MaxPerSubject,        \* bounds.max_per_subject
          MaxSubscriptions,     \* bounds.max_subscriptions_per_agent
          MaxWakes              \* bound: rows registered over a behaviour

ASSUME WakesAssumption ==
  /\ Kinds \subseteq {"once", "watch", "digest", "subscription"}
  /\ {After, Every, Until, Expiry} \subseteq Nat \ {0} /\ Every <= Until
  /\ {MaxPerSubject, MaxSubscriptions, MaxWakes} \subseteq Nat
  /\ People \cap Spaces = {} /\ "none" \notin People \cup Spaces \cup Targets

VARIABLES table,    \* State.wakes, by registration
          nextId,   \* State.next_id
          made,     \* registrations so far
          file,     \* the rows a restart would read
          op,       \* the call that holds the store's mutex
          phase,    \* where the gateway's loop is
          deadline, \* the loop's wake_deadline: time left, or Never
          stopped,  \* has the loop given up wakes (its `wakes` is None)?
          due,      \* what take_due handed to the loop
          ticks,    \* probes that run, one task each
          results,  \* finished tick tasks that the loop has not joined
          fate,     \* what became of each registration
          started   \* how often each registration's wake was started

store == <<table, nextId, made, file, op>>
loop == <<phase, deadline, stopped, due>>
vars == <<table, nextId, made, file, op, phase, deadline, stopped, due,
          ticks, results, fate, started>>

Wakes == 1 .. MaxWakes
Ids == 1 .. MaxWakes
Times == 0 .. Max({After, Every, Until, Expiry})
Never == Max(Times) + 1
Scheduled == {"once", "watch", "digest"}
NoRow == [kind |-> "none", id |-> 0, owner |-> "none", target |-> "none",
          left |-> 0, ends |-> 0]
NoTick == [id |-> 0, of |-> 0]
Fires(set) == [fired |-> set, ticks |-> {}]
NoDue == Fires({})
NoOp == [by |-> "none", rows |-> [w \in Wakes |-> NoRow], out |-> NoDue,
         tick |-> NoTick, fate |-> "none", renamed |-> FALSE]

Rows(t) == {w \in Wakes : t[w].kind # "none"}
WithId(t, id) == {w \in Rows(t) : t[w].id = id}
ScheduledOf(t, owner) == {w \in Rows(t) : t[w].owner = owner /\ t[w].kind \in Scheduled}
Subscriptions(t) == {w \in Rows(t) : t[w].kind = "subscription"}
Without(t, gone) == [w \in Wakes |-> IF w \in gone THEN NoRow ELSE t[w]]

ExpiredDigests(t) == {w \in Rows(t) : t[w].kind = "digest" /\ t[w].ends = 0}
ExpiredSubscriptions(t) == {w \in Rows(t) : t[w].kind = "subscription" /\ t[w].left = 0}

\* Who asks: a person, in a mapped channel (then new wakes are the
\* space's) or elsewhere.
Callers == [person : People, space : Spaces \cup {"none"}]
OwnerFor(c) == IF c.space = "none" THEN c.person ELSE c.space

Init ==
  /\ table = [w \in Wakes |-> NoRow] /\ file = table
  /\ nextId = 1 /\ made = 0 /\ op = NoOp
  /\ phase = "top" /\ deadline = Never /\ stopped = FALSE /\ due = NoDue
  /\ ticks = {} /\ results = {}
  /\ fate = [w \in Wakes |-> "none"]
  /\ started = [w \in Wakes |-> 0]

------------------------------------------------------------------------------
(* The store. *)

\* Nobody holds the mutex.
Free == op.by = "none"

\* A call takes the mutex with the rows and the answer it computed; what it
\* removes from the table meets the fate it names.
Call(by, rows, out, tick, end) ==
  /\ phase # "off" /\ Free
  /\ op' = [by |-> by, rows |-> rows, out |-> out, tick |-> tick, fate |-> end,
            renamed |-> FALSE]

NewRow(kind, owner, target) ==
  [kind |-> kind, id |-> nextId, owner |-> owner, target |-> target,
   left |-> CASE kind = "once" -> After [] kind = "subscription" -> Expiry [] OTHER -> Every,
   ends |-> IF kind \in {"watch", "digest"} THEN Until ELSE 0]

\* Mutant: one row too many, and any number of digests.
MayRegisterOver(kind, owner, kept) ==
  Cardinality(ScheduledOf(kept, owner)) <= MaxPerSubject

\* One digest a space, and max_per_subject rows a subject.
MayRegister(kind, owner, kept) ==
  /\ kind = "digest" =>
       owner \in Spaces /\ ~\E w \in Rows(kept) : kept[w].kind = "digest" /\ kept[w].owner = owner
  /\ Cardinality(ScheduledOf(kept, owner)) < MaxPerSubject

\* WakeStore::register.
Register(c, kind) ==
  LET kept == Without(table, ExpiredDigests(table))
      owner == OwnerFor(c)
  IN
  /\ made < MaxWakes /\ kind \in Kinds \cap Scheduled
  /\ MayRegister(kind, owner, kept)
  /\ made' = made + 1
  /\ Call("register", [kept EXCEPT ![made + 1] = NewRow(kind, owner, "none")],
          NoDue, NoTick, "expired")
  /\ UNCHANGED <<table, nextId, file, loop, ticks, results, fate, started>>

\* WakeStore::subscribe: a reviewed pull request is watched once a thread.
Subscribe(space, target) ==
  LET kept == Without(table, ExpiredSubscriptions(table))
      subs == Subscriptions(kept)
  IN
  /\ made < MaxWakes /\ "subscription" \in Kinds
  /\ ~\E w \in subs : kept[w].owner = space /\ kept[w].target = target
  /\ Cardinality(subs) < MaxSubscriptions
  /\ made' = made + 1
  /\ Call("register", [kept EXCEPT ![made + 1] = NewRow("subscription", space, target)],
          NoDue, NoTick, "expired")
  /\ UNCHANGED <<table, nextId, file, loop, ticks, results, fate, started>>

\* WakeStore::cancel_for: personal wakes of the caller, and the space's.
Cancel(c, id) ==
  LET mine == {w \in WithId(table, id) :
                 table[w].owner \in {c.person, c.space} /\ table[w].kind \in Scheduled}
  IN
  /\ mine # {}
  /\ Call("cancel", Without(table, mine), NoDue, NoTick, "cancelled")
  /\ UNCHANGED <<table, nextId, made, file, loop, ticks, results, fate, started>>

\* WakeStore::cancel_subscription.
CancelSubscription(space, id) ==
  LET mine == {w \in WithId(table, id) :
                 table[w].owner = space /\ table[w].kind = "subscription"}
  IN
  /\ mine # {}
  /\ Call("cancel", Without(table, mine), NoDue, NoTick, "cancelled")
  /\ UNCHANGED <<table, nextId, made, file, loop, ticks, results, fate, started>>

\* WakeStore::deliver_subscriptions: a pull request was pushed to, or closed.
\* A subscription that fires stays.
Deliver(target, closed) ==
  LET kept == Without(table, ExpiredSubscriptions(table))
      hit == {w \in Rows(kept) : kept[w].target = target}
  IN
  /\ hit # {}
  /\ Call("deliver", IF closed THEN Without(kept, hit) ELSE kept,
          Fires(IF closed THEN {} ELSE hit), NoTick, "expired")
  /\ UNCHANGED <<table, nextId, made, file, loop, ticks, results, fate, started>>

\* WakeStore::list_subscriptions drops what has expired.
ListSubscriptions ==
  /\ ExpiredSubscriptions(table) # {}
  /\ Call("deliver", Without(table, ExpiredSubscriptions(table)), NoDue, NoTick, "expired")
  /\ UNCHANGED <<table, nextId, made, file, loop, ticks, results, fate, started>>

\* When a watch is due again.
Rearm(r) == [r EXCEPT !.left = IF r.kind = "digest" THEN Min({Every, r.ends}) ELSE Every]

\* WakeStore::take_due, called by the loop when its deadline has passed.
TakeDue ==
  LET expired == ExpiredDigests(table)
      late == {w \in Rows(table) \ expired : table[w].left = 0}
      fired == {w \in late : table[w].kind = "once"}
      probe == {w \in late : table[w].kind \in {"watch", "digest"}}
      kept == Without(table, expired \cup (late \ probe))
  IN
  /\ phase = "select" /\ deadline = 0
  /\ Call("take", [w \in Wakes |-> IF w \in probe THEN Rearm(kept[w]) ELSE kept[w]],
          [fired |-> fired, ticks |-> {[id |-> table[w].id, of |-> w] : w \in probe}],
          NoTick, "expired")
  /\ phase' = "taking"
  /\ UNCHANGED <<table, nextId, made, file, deadline, stopped, due, ticks, results,
                 fate, started>>

\* What Tick::resolve finds when its wake is still in the table: the row
\* goes (remove), is armed again (rearm) or is left alone, and its wake fires.
Settle(r, verdict) ==
  CASE r.kind = "digest" /\ (r.ends = 0 \/ verdict = "failed") -> {"remove"}
    [] r.kind = "digest" -> {"rearm"} \cup (IF verdict = "fire" THEN {"fire"} ELSE {})
    [] r.kind = "watch" /\ verdict = "wait" /\ r.ends > 0 -> {}
    [] r.kind = "watch" -> {"remove", "fire"}
    [] OTHER -> {}
Settled(r, verdict) ==
  IF "remove" \in Settle(r, verdict) THEN NoRow
  ELSE IF "rearm" \in Settle(r, verdict) THEN Rearm(r) ELSE r

\* Mutant: a tick fires the wake it was made from, whether or not the row is there.
ResolveBlind(x, verdict) ==
  /\ x \in ticks
  /\ Call("resolve", Without(table, {x.of}), Fires({x.of}), x, "expired")
  /\ UNCHANGED <<table, nextId, made, file, loop, ticks, results, fate, started>>

\* run_tick: the probe ends with a verdict and Tick::resolve looks its row up by id.
Resolve(x, verdict) ==
  LET found == WithId(table, x.id)
  IN
  /\ x \in ticks
  /\ Call("resolve",
          [w \in Wakes |-> IF w \in found THEN Settled(table[w], verdict) ELSE table[w]],
          Fires({w \in found : "fire" \in Settle(table[w], verdict)}), x, "expired")
  /\ UNCHANGED <<table, nextId, made, file, loop, ticks, results, fate, started>>

\* A probe thread that panics resolves nothing.
TickPanics(x) ==
  /\ x \in ticks /\ op.tick # x
  /\ ticks' = ticks \ {x}
  /\ results' = results \cup {[of |-> x.of, fired |-> {}]}
  /\ UNCHANGED <<store, loop, fate, started>>

\* What became of a row that the call removes.  A digest or a subscription
\* that fired stays, so its end says nothing of wakes that are under way.
Ended(w) == IF w \in op.out.fired THEN "owed"
            ELSE IF file[w].kind \in {"once", "watch"} THEN op.fate
            ELSE "ended"

\* The end of write(): the new file replaces the old one.
Rename ==
  /\ ~Free /\ ~op.renamed
  /\ file' = op.rows
  /\ op' = [op EXCEPT !.renamed = TRUE]
  /\ fate' = [w \in Wakes |->
       IF w \in Rows(op.rows) THEN "pending"
       ELSE IF w \in Rows(file) THEN Ended(w)
       ELSE fate[w]]
  /\ UNCHANGED <<table, nextId, made, loop, ticks, results, started>>

\* The loop, or the tick's task, has its answer from the store.
Answer(out) ==
  /\ due' = IF op.by = "take" THEN out ELSE due
  /\ ticks' = ticks \ {op.tick}
  /\ results' = IF op.by = "resolve" THEN results \cup {[of |-> op.tick.of, fired |-> out.fired]}
                                     ELSE results

\* Mutant: a failed write is not noticed.
WriteFailsUnseen ==
  /\ ~Free /\ ~op.renamed
  /\ table' = op.rows
  /\ op' = NoOp
  /\ Answer(op.out)
  /\ phase' = IF op.by = "take" THEN "handling" ELSE phase
  /\ UNCHANGED <<nextId, made, file, deadline, stopped, fate, started>>

\* write() fails: memory is left as it was.  A loop that cannot write gives
\* up wakes; a tick is lost, and its row comes due again.
WriteFails ==
  /\ ~Free /\ ~op.renamed
  /\ op' = NoOp
  /\ Answer(NoDue)
  /\ stopped' = (stopped \/ op.by = "take")
  /\ phase' = IF op.by = "take" THEN "top" ELSE phase
  /\ UNCHANGED <<table, nextId, made, file, deadline, fate, started>>

StartAll(set) == started' = [w \in Wakes |-> IF w \in set THEN Min({2, started[w] + 1})
                                                          ELSE started[w]]

\* Mutant: the next id is the least that no row uses.
CommitIdFree ==
  /\ ~Free /\ op.renamed
  /\ table' = op.rows
  /\ nextId' = Max({0} \cup {op.rows[w].id : w \in Rows(op.rows)}) + 1
  /\ op' = NoOp
  /\ Answer(op.out)
  /\ StartAll(IF op.by = "deliver" THEN op.out.fired ELSE {})
  /\ phase' = IF op.by = "take" THEN "handling" ELSE phase
  /\ UNCHANGED <<made, file, deadline, stopped, fate>>

\* The call changes memory, gives up the mutex and answers.  A delivery
\* starts the subscriptions' wakes itself.
Commit ==
  /\ ~Free /\ op.renamed
  /\ table' = op.rows
  /\ nextId' = IF op.by = "register" THEN nextId + 1 ELSE nextId
  /\ op' = NoOp
  /\ Answer(op.out)
  /\ StartAll(IF op.by = "deliver" THEN op.out.fired ELSE {})
  /\ phase' = IF op.by = "take" THEN "handling" ELSE phase
  /\ UNCHANGED <<made, file, deadline, stopped, fate>>

------------------------------------------------------------------------------
(* The gateway's loop. *)

\* The top of the loop reads the next deadline; nothing that happens later
\* changes it until the loop turns again.
Turn ==
  /\ phase = "top" /\ Free
  /\ phase' = "select"
  /\ deadline' = IF stopped THEN Never
                 ELSE Min({Never} \cup {table[w].left : w \in Rows(table)})
  /\ UNCHANGED <<store, stopped, due, ticks, results, fate, started>>

\* start_wake: the row has been retired, its wake is a session from here on.
Start(set) ==
  /\ StartAll(set)
  /\ fate' = [w \in Wakes |-> IF w \in set /\ fate[w] = "owed" THEN "started" ELSE fate[w]]

\* Mutant: a probe that finds no room ends the handling of what is due.
HandleDueUntilBusy(admitted) ==
  /\ phase = "handling"
  /\ admitted \subseteq {x \in due.ticks : ~\E y \in ticks : y.id = x.id}
  /\ Start(IF admitted = due.ticks THEN due.fired ELSE {})
  /\ ticks' = ticks \cup admitted
  /\ due' = NoDue
  /\ phase' = "top"
  /\ UNCHANGED <<store, deadline, stopped, results>>

\* After take_due: what is due starts, and each probe that is admitted gets
\* a thread; one whose last probe still runs, or that finds no room, waits
\* for its next interval.
HandleDue(admitted) ==
  /\ phase = "handling"
  /\ admitted \subseteq {x \in due.ticks : ~\E y \in ticks : y.id = x.id}
  /\ Start(due.fired)
  /\ ticks' = ticks \cup admitted
  /\ due' = NoDue
  /\ phase' = "top"
  /\ UNCHANGED <<store, deadline, stopped, results>>

\* A finished tick is joined, by the loop or while the gateway stops.
JoinTick(r) ==
  /\ r \in results
  /\ phase = "draining" \/ (phase = "select" /\ deadline # 0)
  /\ Start(r.fired)
  /\ results' = results \ {r}
  /\ phase' = IF phase = "select" THEN "top" ELSE phase
  /\ UNCHANGED <<store, deadline, stopped, due, ticks>>

\* Anything else the loop waits for: a message, a deadline of its own.
Event ==
  /\ phase = "select" /\ deadline # 0 /\ results = {}
  /\ phase' = "top"
  /\ UNCHANGED <<store, deadline, stopped, due, ticks, results, fate, started>>

Shutdown ==
  /\ phase = "select"
  /\ phase' = "draining"
  /\ UNCHANGED <<store, deadline, stopped, due, ticks, results, fate, started>>

\* Mutant: a gateway that stops waits for the probes, and drops their results.
DrainedEarly == ticks = {}

Drained == ticks = {} /\ results = {}

Exit ==
  /\ phase = "draining" /\ Free /\ Drained
  /\ phase' = "off"
  /\ results' = {}
  /\ UNCHANGED <<store, deadline, stopped, due, ticks, fate, started>>

\* The process is killed: only the file stays.
Crash ==
  /\ phase # "off"
  /\ phase' = "off" /\ op' = NoOp
  /\ due' = NoDue /\ ticks' = {} /\ results' = {}
  /\ fate' = [w \in Wakes |-> IF fate[w] = "owed" THEN "lost" ELSE fate[w]]
  /\ UNCHANGED <<table, nextId, made, file, deadline, stopped, started>>

\* WakeStore::open at boot; ids go on after the highest in the file.
Open ==
  /\ phase = "off"
  /\ phase' = "top"
  /\ table' = file
  /\ nextId' = Max({0} \cup {file[w].id : w \in Rows(file)}) + 1
  /\ deadline' = Never /\ stopped' = FALSE
  /\ UNCHANGED <<made, file, op, due, ticks, results, fate, started>>

Later(n) == IF n = 0 THEN 0 ELSE n - 1
Aged(r) == [r EXCEPT !.left = Later(@), !.ends = Later(@)]
Age(t) == [w \in Wakes |-> Aged(t[w])]

\* Time passes, whether or not the gateway runs.
Pass ==
  /\ table' = Age(table) /\ file' = Age(file)
  /\ op' = [op EXCEPT !.rows = Age(@)]
  /\ deadline' = IF deadline = Never THEN Never ELSE Later(deadline)
  /\ <<table', file', op', deadline'>> # <<table, file, op, deadline>>
  /\ UNCHANGED <<nextId, made, phase, stopped, due, ticks, results, fate, started>>

Next ==
  \/ \E c \in Callers : (\E k \in Scheduled : Register(c, k)) \/ \E i \in Ids : Cancel(c, i)
  \/ \E s \in Spaces : (\E t \in Targets : Subscribe(s, t)) \/ \E i \in Ids : CancelSubscription(s, i)
  \/ \E t \in Targets, closed \in BOOLEAN : Deliver(t, closed)
  \/ ListSubscriptions
  \/ TakeDue \/ Turn \/ Event \/ Shutdown \/ Exit
  \/ \E admitted \in SUBSET due.ticks : HandleDue(admitted)
  \/ \E x \in ticks : TickPanics(x) \/ \E v \in {"fire", "wait", "failed"} : Resolve(x, v)
  \/ \E r \in results : JoinTick(r)
  \/ Rename \/ WriteFails \/ Commit
  \/ Crash \/ Open \/ Pass

Spec == Init /\ [][Next]_vars

\* The loop runs, time passes, file operations end, and the mutex is fair in
\* the end; nothing is promised of callers, probes or other events.
Live ==
  /\ Spec
  /\ SF_vars(Turn) /\ SF_vars(TakeDue)
  /\ WF_vars(\E admitted \in SUBSET due.ticks : HandleDue(admitted))
  /\ WF_vars(\E r \in results : JoinTick(r))
  /\ WF_vars(Rename \/ WriteFails) /\ WF_vars(Commit)
  /\ WF_vars(Pass)

------------------------------------------------------------------------------
RowType == [kind : Kinds \cup {"none"}, id : Ids \cup {0}, owner : People \cup Spaces \cup {"none"},
            target : Targets \cup {"none"}, left : Times, ends : Times]
TickType == [id : Ids, of : Wakes]
DueType == [fired : SUBSET Wakes, ticks : SUBSET TickType]
Fates == {"none", "pending", "owed", "started", "cancelled", "expired", "ended", "lost"}

\* The limits on rows hold over expiry, crashes and restarts: so many
\* scheduled wakes a subject, so many subscriptions, one digest a space.
Limits(t) ==
  /\ \A o \in People \cup Spaces :
       /\ Cardinality(ScheduledOf(t, o)) <= MaxPerSubject
       /\ Cardinality({w \in ScheduledOf(t, o) : t[w].kind = "digest"}) <= 1
  /\ Cardinality(Subscriptions(t)) <= MaxSubscriptions

\* Types of the store's, the loop's and the ticks' state, and the limits on rows.
TypeOK ==
  /\ table \in [Wakes -> RowType] /\ file \in [Wakes -> RowType]
  /\ nextId \in 1 .. (MaxWakes + 1) /\ made \in 0 .. MaxWakes
  /\ op \in [by : {"none", "register", "cancel", "deliver", "take", "resolve"},
             rows : [Wakes -> RowType], out : DueType, tick : TickType \cup {NoTick},
             fate : {"none", "expired", "cancelled"}, renamed : BOOLEAN]
  /\ phase \in {"top", "select", "taking", "handling", "draining", "off"}
  /\ deadline \in 0 .. Never /\ stopped \in BOOLEAN
  /\ due \in DueType /\ ticks \subseteq TickType
  /\ results \subseteq [of : Wakes, fired : SUBSET Wakes]
  /\ fate \in [Wakes -> Fates] /\ started \in [Wakes -> 0 .. 2]
  /\ Limits(table)

\* The wakes that have fired and have yet to be started.
InFlight == due.fired \cup (IF op.renamed THEN op.out.fired ELSE {})
            \cup UNION {r.fired : r \in results}

\* A one-shot wake or a watch fires once, over crashes, failed writes and
\* restarts: it starts only when no file holds its row any more.
AtMostOnce == \A w \in Wakes :
  /\ fate[w] = "started" => started[w] = 1
  /\ fate[w] \in {"owed", "lost"} => started[w] = 0
  /\ w \in Rows(file) /\ file[w].kind \in {"once", "watch"} => started[w] = 0

\* A retired row's wake is on its way to a session until it starts; only a
\* killed process loses it, an orderly stop does not.
NotForgotten == \A w \in Wakes : fate[w] = "owed" => w \in InFlight

\* A wake whose cancel has removed it never fires, although its probe may be
\* running when it is cancelled.
CancelHonoured == \A w \in Wakes :
  fate[w] = "cancelled" => started[w] = 0 /\ w \notin InFlight

\* An id names one row, and the probe that runs for an id runs for that row.
IdsNameOneWake ==
  /\ \A v, w \in Rows(table) : table[v].id = table[w].id => v = w
  /\ phase # "off" => \A x \in ticks \cup due.ticks : WithId(table, x.id) \subseteq {x.of}

Over(w) == fate[w] \in {"started", "cancelled", "lost"} \/ stopped \/ phase \in {"draining", "off"}

\* A one-shot wake that the loop's deadline covers is started in the end.
CoveredWakeStarts == \A w \in Wakes :
  (/\ phase = "select" /\ Free
   /\ table[w].kind = "once" /\ deadline <= table[w].left) ~> Over(w)

\* `schedule` wakes you once after `afterSeconds`: every one-shot wake that is
\* registered starts in the end, unless it is cancelled or the gateway stops.
ScheduledWakeStarts == \A w \in Wakes : (table[w].kind = "once") ~> Over(w)
==============================================================================
