-------------------------------- MODULE Meter --------------------------------
(***************************************************************************)
(* One token meter of dekopon-model-token-governor (src/meter.rs).  A      *)
(* meter is a value; the module has no variables.  Times are milliseconds, *)
(* amounts are tokens.  A meter's spec is a record                         *)
(*                                                                         *)
(*   kind    "fixed" | "rolling" | "session" | "credit"                    *)
(*   limit   the limit, or the capacity of a credit bucket                 *)
(*   period  the period, session length, or `per' of a credit bucket       *)
(*   refill, initial     of a credit bucket only                           *)
(*                                                                         *)
(* Saturating u64/i128 arithmetic is exact here: no configured limit comes *)
(* near the saturation points.                                             *)
(***************************************************************************)
EXTENDS Integers, Sequences, FiniteSetsExt

CONSTANTS NoWindow,        \* i64::MIN of a fixed window, None of a session
          ReservationWait  \* RESERVATION_WAIT, the wait when only
                           \* reservations in flight stand in the way

ASSUME NoWindowAssumption == NoWindow \notin Int
ASSUME ReservationWaitAssumption == ReservationWait \in Nat \ {0}

\* The specs that pass the check of the configuration (spec in gatewayd's
\* metering.rs): no limit, refill or period is zero, and a credit bucket
\* starts with no more than its capacity.
WindowSpecs == [kind: {"fixed", "rolling", "session"},
                limit: Nat \ {0}, period: Nat \ {0}]
CreditSpecs == {spec \in [kind: {"credit"}, limit: Nat \ {0}, period: Nat \ {0},
                          refill: Nat \ {0}, initial: Nat] : spec.initial <= spec.limit}
MeterSpecs == WindowSpecs \union CreditSpecs

Floor(t, width) == (t \div width) * width

RollingBucket(period) == Max({1, period \div 60})
RollingExpiry(period) == period + RollingBucket(period)

NewMeter(spec, since) ==
  CASE spec.kind = "fixed"   -> [last_seen |-> since, window |-> NoWindow, used |-> 0]
    [] spec.kind = "rolling" -> [last_seen |-> since, buckets |-> [s \in {} |-> 0]]
    [] spec.kind = "session" -> [last_seen |-> since, open |-> NoWindow, used |-> 0]
    [] spec.kind = "credit"  -> [last_seen |-> since, at |-> since,
                                 scaled |-> spec.initial * spec.period]

\* The balance in units of 1/per tokens: what accrued since the last charge
\* is added, and the sum never passes the capacity.
CreditBalance(spec, m, now) ==
  LET cap == spec.limit * spec.period
      accrued == Max({now - m.at, 0}) * spec.refill
  IN  IF m.scaled >= cap THEN m.scaled ELSE Min({m.scaled + accrued, cap})

\* Mutant: a bucket still counts in the millisecond in which it expires.
LiveBucketsLate(spec, m, now) ==
  {s \in DOMAIN m.buckets : s + RollingExpiry(spec.period) >= now}

LiveBuckets(spec, m, now) ==
  {s \in DOMAIN m.buckets : s + RollingExpiry(spec.period) > now}

\* The sum of f[x] over the x in S.
Total(f, S) == MapThenSumSet(LAMBDA x : f[x], S)

BucketSpend(m, S) == Total(m.buckets, S)

SessionOpen(spec, m, now) == m.open # NoWindow /\ m.open + spec.period > now

\* Meter::status(now).used
Used(spec, m, t) ==
  LET now == Max({t, m.last_seen})
  IN  CASE spec.kind = "fixed" ->
             IF m.window = Floor(now, spec.period) THEN m.used ELSE 0
        [] spec.kind = "rolling" -> BucketSpend(m, LiveBuckets(spec, m, now))
        [] spec.kind = "session" -> IF SessionOpen(spec, m, now) THEN m.used ELSE 0
        [] spec.kind = "credit" ->
             spec.limit - (CreditBalance(spec, m, now) \div spec.period)

Allow == [tag |-> "allow", after |-> 0]
Never == [tag |-> "never", after |-> 0]
Wait(d) == [tag |-> "wait", after |-> Max({d, 0})]

\* Meter::verdict: may a call that wants `want' tokens go ahead while `held'
\* tokens are reserved by calls in flight?
Verdict(spec, m, t, held, want) ==
  LET now == Max({t, m.last_seen})
      fits(used) == used + held + want <= spec.limit
      used == Used(spec, m, now)
      current == Floor(now, spec.period)
      live == LiveBuckets(spec, m, now)
      \* the buckets whose expiry, oldest first, makes room
      enough == {s \in live : fits(BucketSpend(m, {r \in live : r > s}))}
      balance == CreditBalance(spec, m, now)
      need == (held + want) * spec.period
  IN  IF want > spec.limit THEN Never
      ELSE CASE spec.kind = "fixed" ->
                  (IF fits(used) THEN Allow
                   ELSE IF fits(0) THEN Wait(current + spec.period - now)
                   ELSE Wait(ReservationWait))
             [] spec.kind = "rolling" ->
                  (IF fits(used) THEN Allow
                   ELSE IF enough # {}
                   THEN Wait(Min(enough) + RollingExpiry(spec.period) - now)
                   ELSE Wait(ReservationWait))
             [] spec.kind = "session" ->
                  (IF fits(used) THEN Allow
                   ELSE IF SessionOpen(spec, m, now) /\ fits(0)
                   THEN Wait(m.open + spec.period - now)
                   ELSE Wait(ReservationWait))
             [] spec.kind = "credit" ->
                  (IF balance >= need THEN Allow
                   ELSE IF spec.refill = 0 THEN Never
                   ELSE Wait((need - balance + spec.refill - 1) \div spec.refill))

\* Mutant: a new bucket drops those that only the next one outlives.
ChargeRollingEarly(spec, m, at, spent) ==
  LET kept == {s \in DOMAIN m.buckets : s + spec.period > at}
      key == Floor(at, RollingBucket(spec.period))
  IN  [m EXCEPT !.last_seen = at,
                !.buckets = [s \in kept \union {key} |->
                               (IF s \in kept THEN m.buckets[s] ELSE 0)
                               + (IF s = key THEN spent ELSE 0)]]

\* A rolling meter pops the buckets that have expired before it charges: the
\* popped prefix is the expired set, because starts only grow.
ChargeRolling(spec, m, at, spent) ==
  LET kept == LiveBuckets(spec, m, at)
      key == Floor(at, RollingBucket(spec.period))
  IN  [m EXCEPT !.last_seen = at,
                !.buckets = [s \in kept \union {key} |->
                               (IF s \in kept THEN m.buckets[s] ELSE 0)
                               + (IF s = key THEN spent ELSE 0)]]

\* Meter::charge.  Time never runs backwards inside a meter: a charge stamped
\* before the last one counts at the last one's time.
Charge(spec, m, t, spent) ==
  LET at == Max({t, m.last_seen})
      current == Floor(at, spec.period)
  IN  IF spent = 0 THEN [m EXCEPT !.last_seen = at]
      ELSE CASE spec.kind = "fixed" ->
                  [last_seen |-> at, window |-> current,
                   used |-> (IF m.window = current THEN m.used ELSE 0) + spent]
             [] spec.kind = "rolling" -> ChargeRolling(spec, m, at, spent)
             [] spec.kind = "session" ->
                  (IF SessionOpen(spec, m, at)
                   THEN [m EXCEPT !.last_seen = at, !.used = m.used + spent]
                   ELSE [last_seen |-> at, open |-> at, used |-> spent])
             [] spec.kind = "credit" ->
                  [last_seen |-> at, at |-> at,
                   scaled |-> CreditBalance(spec, m, at) - spent * spec.period]

\* What a fresh meter becomes when it is charged with each of the charges in
\* order: the loop of Budget::restore, for one of its meters.
Replay(spec, since, charges) ==
  LET after[n \in 0 .. Len(charges)] ==
        IF n = 0 THEN NewMeter(spec, since)
        ELSE Charge(spec, after[n - 1], charges[n].at, charges[n].tokens)
  IN  after[Len(charges)]

\* Meter::horizon: how far back spending still matters.
Horizon(spec, now) ==
  CASE spec.kind = "fixed"   -> now - Floor(now, spec.period)
    [] spec.kind = "rolling" -> RollingExpiry(spec.period)
    [] spec.kind = "session" -> 2 * spec.period
    [] spec.kind = "credit"  -> (spec.limit * spec.period) \div Max({spec.refill, 1})
==============================================================================
