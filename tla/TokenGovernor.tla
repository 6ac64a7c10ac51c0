---------------------------- MODULE TokenGovernor ----------------------------
(***************************************************************************)
(* The token budget of one agent: dekopon-model-token-governor's Budget    *)
(* (budget.rs) and Metering (metering.rs), with the boot-time restore task *)
(* of dekopon-gatewayd (meter_restore.rs).                                 *)
(*                                                                         *)
(* Many model calls of the agent run at once (turns, jobs, wakes, VM proxy *)
(* requests).  Each is admitted, which reserves its estimate, and settled  *)
(* once, which gives the reservation back and charges what was spent.      *)
(* Admission, settlement and restore each hold the budget's lock, so each  *)
(* is one action; budgets of different agents share nothing.               *)
(***************************************************************************)
EXTENDS Meter, Sequences, SequencesExt

CONSTANTS Calls,        \* model calls of this agent
          Budgets,      \* the configurations considered: sequences of specs
          Estimates,    \* [input, output_reserve] records
          Usages,       \* reported usage: [input, output], each a Nat or None
          Texts,        \* output tokens estimated from the text streamed
          Histories,    \* what the telemetry search may return: sets of rows
          None,         \* an absent usage number
          Boot,         \* the time the process started
          LookbackMax,  \* restore.lookbackMax
          FirstTime, LastTime  \* bound: the wall clock stays between these

ASSUME ClockAssumption == Boot \in Int /\ FirstTime \in Int /\ LastTime \in Int
ASSUME BudgetsAssumption == Budgets \subseteq Seq(MeterSpecs)
ASSUME EstimatesAssumption == Estimates \subseteq [input: Nat, output_reserve: Nat]
ASSUME UsagesAssumption == /\ Usages \subseteq [input: Nat \union {None}, output: Nat \union {None}]
                           /\ Texts \subseteq Nat
ASSUME RestoreAssumption ==
  /\ LookbackMax \in Nat
  /\ \A rows \in Histories : /\ IsFiniteSet(rows)
                             /\ rows \subseteq [at: Int, tokens: Nat, covered: BOOLEAN]

VARIABLES specs,     \* the meters configured for the agent
          clock,     \* the wall clock, which an operator may set back
          meters,    \* Budget.meters
          reserved,  \* Budget.reserved
          restore,   \* Budget.live_since_boot: "pending" when it is Some
          live,      \* the charges collected there
          call,      \* the Admission of each call
          replayed,  \* ghost: the history rows restored
          spent,     \* ghost: every charge of this process, in order; one of
                     \* zero tokens only moves a meter's last_seen, and is
                     \* forgotten when the meters are rebuilt
          overrun,   \* ghost: by how much calls have passed their estimates
          setBack    \* ghost: has the clock ever gone backwards?

vars == <<specs, clock, meters, reserved, restore, live, call, replayed, spent, overrun, setBack>>

Idle == [phase |-> "idle", input |-> 0, total |-> 0, covered |-> FALSE]

Meters(since) == [i \in DOMAIN specs |-> NewMeter(specs[i], since)]

ChargeAll(ms, charge) ==
  [i \in DOMAIN ms |-> Charge(specs[i], ms[i], charge.at, charge.tokens)]

Rebuilt(since, charges) == [i \in DOMAIN specs |-> Replay(specs[i], since, charges)]

\* The charges that cost something, in their order.
Costly(charges) ==
  LET kept[n \in 0 .. Len(charges)] ==
        IF n = 0 THEN <<>>
        ELSE IF charges[n].tokens > 0 THEN Append(kept[n - 1], charges[n])
        ELSE kept[n - 1]
  IN  kept[Len(charges)]

------------------------------------------------------------------------------
\* Budget::new, and Metering::begin_restore when a restore is configured.
Init ==
  /\ specs \in Budgets
  /\ clock = Boot
  /\ meters = Meters(Boot)
  /\ reserved = 0
  /\ restore \in {"off", "pending"}
  /\ live = <<>>
  /\ call = [c \in Calls |-> Idle]
  /\ replayed = <<>>
  /\ spent = <<>>
  /\ overrun = 0
  /\ setBack = FALSE

\* Mutant: concurrent callers do not see each other's reservations.
ExplainIgnoresHeld(now, held, want) ==
  IF \A i \in DOMAIN specs : Verdict(specs[i], meters[i], now, 0, want) = Allow
  THEN Allow ELSE Wait(ReservationWait)

\* Budget::explain: the worst verdict of all meters, Allow when none objects.
Explain(now, held, want) ==
  LET verdicts == {Verdict(specs[i], meters[i], now, held, want) : i \in DOMAIN specs}
      waits == {v.after : v \in {w \in verdicts : w.tag = "wait"}}
  IN  IF Never \in verdicts THEN Never
      ELSE IF waits # {} THEN Wait(Max(waits))
      ELSE Allow

\* Metering::admit and Budget::reserve: a call for a model outside the budget
\* is admitted without a reservation.
Admit(c, estimate, covered) ==
  LET total == estimate.input + estimate.output_reserve
      admission == [phase |-> "open", input |-> estimate.input,
                    total |-> total, covered |-> covered]
      allowed == ~covered \/ Explain(clock, reserved, total) = Allow
  IN  /\ call[c].phase = "idle"
      /\ call' = [call EXCEPT ![c] = IF allowed THEN admission
                                     ELSE [@ EXCEPT !.phase = "refused"]]
      /\ reserved' = IF covered /\ allowed THEN reserved + total ELSE reserved
      /\ UNCHANGED <<specs, clock, meters, restore, live, replayed, spent, overrun, setBack>>

\* Charge::of: a call that was never sent costs nothing; otherwise what the
\* provider reported, and our own estimate for each number it did not report.
ChargeOf(outcome, input, usage, text) ==
  IF outcome = "NotSent" THEN 0
  ELSE (IF usage.input = None THEN input ELSE usage.input)
       + (IF usage.output = None THEN text ELSE usage.output)

\* Mutant: the reservation is reduced by what was spent, not by what was held.
SettleRefundsActual(tokens, actual) ==
  LET charge == [at |-> clock, tokens |-> actual]
  IN  /\ reserved' = reserved - actual
      /\ meters' = ChargeAll(meters, charge)
      /\ live' = IF restore = "pending" THEN Append(live, charge) ELSE live

\* Mutant: a call that cost nothing returns before it gives the estimate back.
SettleSkipsUnsent(tokens, actual) ==
  LET charge == [at |-> clock, tokens |-> actual]
  IN  /\ reserved' = IF actual = 0 THEN reserved ELSE Max({reserved - tokens, 0})
      /\ meters' = ChargeAll(meters, charge)
      /\ live' = IF restore = "pending" /\ actual > 0 THEN Append(live, charge) ELSE live

\* Budget::settle: the reservation goes back and the spend is charged, to the
\* meters and, while a restore is pending, to the live tail.
SettleBudget(tokens, actual) ==
  LET charge == [at |-> clock, tokens |-> actual]
  IN  /\ reserved' = Max({reserved - tokens, 0})
      /\ meters' = ChargeAll(meters, charge)
      /\ live' = IF restore = "pending" /\ actual > 0 THEN Append(live, charge) ELSE live

\* Admission::finish, once: from settle, settle_with_kind, or Drop with
\* outcome "Cancelled".  What the call observed (observe_usage, observe_text)
\* is read only here, so it is an input of this step.
Finish(c, outcome, usage, text) ==
  LET actual == ChargeOf(outcome, call[c].input, usage, text)
  IN  /\ call[c].phase = "open"
      /\ call' = [call EXCEPT ![c] = [Idle EXCEPT !.phase = "settled"]]
      /\ \/ /\ call[c].covered
            /\ SettleBudget(call[c].total, actual)
            /\ spent' = Append(spent, [at |-> clock, tokens |-> actual])
            /\ overrun' = overrun + Max({actual - call[c].total, 0})
         \/ /\ ~call[c].covered
            /\ UNCHANGED <<reserved, meters, live, spent, overrun>>
      /\ UNCHANGED <<specs, clock, restore, replayed, setBack>>

\* restore_once's window: back from boot by the longest horizon, up to boot.
Since ==
  Boot - Min({LookbackMax, Max({0} \union {Horizon(specs[i], Boot) : i \in DOMAIN specs})})

\* Mutant: rows stamped after boot are kept.
KeptUnbounded(rows) == {r \in rows : r.at >= Since /\ r.covered}

\* The rows kept: inside the window, and for a model the budget covers.
Kept(rows) == {r \in rows : r.at >= Since /\ r.at < Boot /\ r.covered}

\* The orders by time: rows of the same time keep the order in which the search
\* happened to return them.
InOrder(rows) ==
  {q \in SetToSeqs(rows) : \A i, j \in DOMAIN q : i < j => q[i].at <= q[j].at}

\* Mutant: what was charged while the search ran is forgotten.
RestoreWithoutLiveTail(rows) ==
  \E history \in InOrder(Kept(rows)) :
      /\ restore = "pending"
      /\ meters' = Rebuilt(Since, history)
      /\ replayed' = history
      /\ restore' = "restored"
      /\ live' = <<>>
      /\ spent' = Costly(spent)
      /\ UNCHANGED <<specs, clock, reserved, call, overrun, setBack>>

\* Metering::restore and Budget::restore: fresh meters, the history in order of
\* time, then what this process has charged since it booted.
Restore(rows) ==
  \E history \in InOrder(Kept(rows)) :
      /\ restore = "pending"
      /\ meters' = Rebuilt(Since, history \o live)
      /\ replayed' = history
      /\ restore' = "restored"
      /\ live' = <<>>
      /\ spent' = Costly(spent)
      /\ UNCHANGED <<specs, clock, reserved, call, overrun, setBack>>

\* restore_once on any error: unsynced clock, failed, partial or late search.
AbandonRestore ==
  /\ restore = "pending"
  /\ restore' = "abandoned"
  /\ live' = <<>>
  /\ UNCHANGED <<specs, clock, meters, reserved, call, replayed, spent, overrun, setBack>>

\* The environment: time passes, or someone sets the clock back.
Tick ==
  /\ clock < LastTime
  /\ clock' = clock + 1
  /\ UNCHANGED <<specs, meters, reserved, restore, live, call, replayed, spent, overrun, setBack>>

SetClockBack ==
  /\ ~setBack
  /\ clock > FirstTime
  /\ clock' \in FirstTime .. (clock - 1)
  /\ setBack' = TRUE
  /\ UNCHANGED <<specs, meters, reserved, restore, live, call, replayed, spent, overrun>>

Outcomes == {"Succeeded", "Failed", "Cancelled", "NotSent"}

Next ==
  \/ \E c \in Calls, e \in Estimates, covered \in BOOLEAN : Admit(c, e, covered)
  \/ \E c \in Calls, o \in Outcomes, u \in Usages, t \in Texts : Finish(c, o, u, t)
  \/ \E rows \in Histories : Restore(rows)
  \/ AbandonRestore
  \/ Tick
  \/ SetClockBack

Spec == Init /\ [][Next]_vars

------------------------------------------------------------------------------
Phases == {"idle", "open", "refused", "settled"}

TypeOK ==
  /\ specs \in Budgets
  /\ clock \in Int
  /\ reserved \in Nat
  /\ restore \in {"off", "pending", "restored", "abandoned"}
  /\ call \in [Calls -> [phase: Phases, input: Nat, total: Nat, covered: BOOLEAN]]
  /\ setBack \in BOOLEAN

Holds(c) == call[c].phase = "open" /\ call[c].covered

\* One coin per token that a call in flight holds.
HeldCoins == UNION {{c} \X (1 .. call[c].total) : c \in {d \in Calls : Holds(d)}}

\* The reservations counted in Budget.reserved are exactly those of the calls
\* in flight: whatever way a call ends, its estimate comes back, and only once.
ReservedExact == reserved = Cardinality(HeldCoins)

\* However many calls run at once, what is spent in the current window and
\* what is reserved stay within every limit, but for the calls that cost more
\* than they estimated.  (History restored from telemetry is not ours to
\* bound, nor is a clock that someone set back.)
NoOverspend ==
  (~setBack /\ replayed = <<>>) =>
    \A i \in DOMAIN specs :
      Used(specs[i], meters[i], clock) + reserved <= specs[i].limit + overrun

\* Restoring from telemetry while calls are being charged loses nothing and
\* counts nothing twice: the meters always are what charging the restored
\* history and then every charge of this process, in order, would have made.
RestoreExact ==
  meters = Rebuilt(IF restore = "restored" THEN Since ELSE Boot, replayed \o spent)

\* The time at which the n-th charge counts: no earlier than any before it.
CountsAt(charges, n, base) == Max({base} \union {charges[k].at : k \in 1 .. n})

\* What a window meter reports as used is the sum of the charges whose time
\* falls in the window, by a definition that does not go through Charge:
\* buckets that are dropped early, kept late or charged twice would differ.
WindowSpend ==
  LET all == replayed \o spent
      base == IF restore = "restored" THEN Since ELSE Boot
      now == Max({clock, CountsAt(all, Len(all), base)})
      sum(S) == Total([n \in DOMAIN all |-> all[n].tokens], S)
      since(i, n) == Floor(CountsAt(all, n, base), RollingBucket(specs[i].period))
  IN  \A i \in DOMAIN specs :
        /\ specs[i].kind = "fixed" =>
             Used(specs[i], meters[i], clock) =
               sum({n \in DOMAIN all : Floor(CountsAt(all, n, base), specs[i].period)
                                       = Floor(now, specs[i].period)})
        /\ specs[i].kind = "rolling" =>
             Used(specs[i], meters[i], clock) =
               sum({n \in DOMAIN all : now < since(i, n) + RollingExpiry(specs[i].period)})

\* Restored history never carries a meter past the present: a row with a
\* corrupt, future time would freeze the budget's clock there, and every
\* window with it (the row filter in restore_once).
BudgetClockNotFrozen ==
  ~setBack => \A i \in DOMAIN specs : meters[i].last_seen <= clock

\* The sizes a call may ask for: up to one token over each limit.
Wants == UNION {0 .. (specs[i].limit + 1) : i \in DOMAIN specs}

\* A refusal is honest.  With nothing in flight, a call told to retry after w
\* is admitted at that time and at no earlier one, and a call told "never" is
\* larger than some limit.
HonestRetry ==
  reserved = 0 =>
    \A want \in Wants :
      LET now == Max({clock} \union {meters[i].last_seen : i \in DOMAIN specs})
          answer == Explain(now, 0, want)
      IN  /\ answer.tag = "wait" =>
               /\ Explain(now + answer.after, 0, want) = Allow
               /\ \A t \in now .. (now + answer.after - 1) : Explain(t, 0, want) # Allow
          /\ answer.tag = "never" <=> \E i \in DOMAIN specs : want > specs[i].limit
==============================================================================
