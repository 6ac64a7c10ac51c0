---------------------------- MODULE WakeStoreProofs ----------------------------
(***************************************************************************)
(* What holds of the wakes for every set of subjects, every bound and      *)
(* every time asked for.  WakeInv is inductive:                            *)
(*   StoreInv  memory and file agree but between a rename and its commit;  *)
(*   CallInv   what the call that holds the mutex will make of the rows;   *)
(*   IdInv     ids in use lie below nextId, which a restart lowers to just *)
(*             above the file's highest: no tick outlives the process;     *)
(*   OwedInv   a wake whose row is gone is on its way exactly once, in the *)
(*             call's answer, in the loop's due or in one finished tick;   *)
(*   FateInv   a wake that is not owed and whose row would be retired when *)
(*             it fires is on nobody's way;                                *)
(*   TableInv  the limits, and that only subscriptions have a target.      *)
(* Every call of the store first becomes a Called step (CallsCalled): rows *)
(* only leave the table, or one row with a fresh id joins it.              *)
(***************************************************************************)
EXTENDS WakeStore, FiniteSetTheorems, WellFoundedInduction, TLAPS

OneShot == {"once", "watch"}

\* A row as it was, but for its times.
Same(r, s) == r.kind = s.kind /\ r.id = s.id /\ r.owner = s.owner /\ r.target = s.target

Tables == [Wakes -> RowType]
OpType == [by : {"none", "register", "cancel", "deliver", "take", "resolve"},
           rows : Tables, out : DueType, tick : TickType \cup {NoTick},
           fate : {"none", "expired", "cancelled"}, renamed : BOOLEAN]

Types ==
    /\ table \in Tables /\ file \in Tables
    /\ nextId \in 1 .. (MaxWakes + 1) /\ made \in 0 .. MaxWakes
    /\ op \in OpType
    /\ phase \in {"top", "select", "taking", "handling", "draining", "off"}
    /\ deadline \in 0 .. Never /\ stopped \in BOOLEAN
    /\ due \in DueType /\ ticks \subseteq TickType
    /\ results \subseteq [of : Wakes, fired : SUBSET Wakes]
    /\ fate \in [Wakes -> Fates] /\ started \in [Wakes -> 0 .. 2]

\* Memory and file differ only between a rename and what follows it; a gateway
\* that is off has nothing but its file.
StoreInv ==
    /\ op.renamed => file = op.rows
    /\ phase # "off" /\ ~op.renamed => file = table
    /\ Free => ~op.renamed
    /\ phase = "off" => Free /\ ticks = {} /\ results = {}
    /\ op.by = "take" <=> phase = "taking"
    /\ phase # "handling" => due = NoDue
    /\ op.by # "take" => op.out.ticks = {}
    /\ op.by \in {"none", "register", "cancel"} => op.out.fired = {}
    /\ op.by = "resolve" => op.tick \in TickType

\* What the call that holds the mutex is about to make of the rows.
CallInv ==
    ~Free =>
      /\ \A w \in Rows(op.rows) :
           \/ w \in Rows(table) /\ Same(op.rows[w], table[w])
           \/ op.by = "register" /\ w = made /\ op.rows[w].id = nextId
      /\ op.by = "register" => made \in Wakes /\ made \notin Rows(table)
      /\ \A w \in op.out.fired :
           /\ w \in Rows(table)
           /\ w \in Rows(op.rows) <=> table[w].kind \notin OneShot
           /\ op.by = "deliver" => table[w].kind = "subscription"
      /\ \A x \in op.out.ticks : x.of \in Rows(table) /\ table[x.of].id = x.id

Unique(t) == \A v, w \in Rows(t) : t[v].id = t[w].id => v = w

IdInv ==
    /\ Unique(table) /\ Unique(file)
    /\ \A w \in Rows(table) : w <= made /\ table[w].id \in 1 .. made
    /\ \A w \in Rows(file) : w <= made /\ file[w].id \in 1 .. made
    /\ nextId <= made + 1 /\ (op.by = "register" => nextId <= made)
    /\ phase # "off" =>
         /\ \A w \in Rows(table) : table[w].id < nextId
         /\ \A x \in ticks \cup due.ticks : x.id < nextId /\ WithId(table, x.id) \subseteq {x.of}

\* The fate of a wake that is neither on its way nor yet to come.
Settling(w) ==
    \/ fate[w] \in {"none", "started", "cancelled", "expired", "lost"}
    \/ fate[w] = "pending" /\ file[w].kind \in OneShot

\* An owed wake is on its way once.
OwedInv ==
    \A w \in Wakes : fate[w] = "owed" =>
      /\ w \in InFlight
      /\ \A r \in results : w \in r.fired =>
           /\ w \notin due.fired /\ ~(op.renamed /\ w \in op.out.fired)
           /\ \A q \in results : w \in q.fired => q = r
      /\ ~(w \in due.fired /\ op.renamed /\ w \in op.out.fired)

FateInv ==
    /\ \A w \in Wakes : fate[w] = "pending" <=> w \in Rows(file)
    /\ \A w \in Wakes : fate[w] # "none" => w <= made
    /\ op.by = "register" /\ ~op.renamed => fate[made] = "none"
    /\ \A w \in Wakes : Settling(w) => w \notin InFlight
    /\ \A w \in Wakes : /\ fate[w] = "started" => started[w] = 1
                        /\ fate[w] \in {"none", "owed", "lost", "cancelled"} => started[w] = 0
                        /\ fate[w] = "pending" /\ file[w].kind \in OneShot => started[w] = 0

\* The limits hold, and only subscriptions have a pull request.
TableOK(t) ==
    Limits(t) /\ \A w \in Rows(t) : t[w].kind # "subscription" => t[w].target = "none"

TableInv == TableOK(table) /\ TableOK(file) /\ (~Free => TableOK(op.rows))

-------------------------------------------------------------------------------
(* The least and the greatest of a set of naturals, and the constants. *)

LEMMA LeastIn ==
  ASSUME NEW S \in SUBSET Nat, S # {}
  PROVE  Min(S) \in S /\ \A m \in S : Min(S) <= m
<1> DEFINE Less == OpToRel(<, Nat)
<1>1. PICK n \in S : \A m \in S : ~(<<m, n>> \in Less)
  <2>1. IsWellFoundedOn(Less, Nat)
    BY NatLessThanWellFounded
  <2> HIDE DEF Less
  <2> QED BY <2>1, WFMin
<1>2. \A m, k \in Nat : m < k => <<m, k>> \in Less
  <2>1. ASSUME NEW m \in Nat, NEW k \in Nat, m < k
        PROVE  <<m, k>> \in {ss \in Nat \X Nat : ss[1] < ss[2]}
    BY <2>1
  <2> QED BY <2>1 DEF OpToRel
<1> HIDE DEF Less
<1>3. \A m \in S : n <= m
  <2>1. ASSUME NEW m \in S, m < n
        PROVE  FALSE
    <3>1. <<m, n>> \in Less
      BY <1>2, <2>1
    <3> QED BY <1>1, <3>1
  <2> QED BY <2>1
<1> QED BY <1>3 DEF Min

LEMMA GreatestIn ==
  ASSUME NEW N \in Nat, NEW S \in SUBSET (0 .. N), S # {}
  PROVE  Max(S) \in S /\ \A m \in S : Max(S) >= m
<1> DEFINE T == {N - m : m \in S}
<1>1. T \in SUBSET Nat /\ T # {}
  <2>1. \A m \in S : N - m \in Nat
    OBVIOUS
  <2> QED BY <2>1, Zenon
<1>2. Min(T) \in T /\ \A k \in T : Min(T) <= k
  <2> HIDE DEF T
  <2> QED BY <1>1, LeastIn
<1>3. PICK n \in S : Min(T) = N - n
  BY <1>2
<1>4. \A m \in S : n >= m
  <2> TAKE m \in S
  <2>1. N - m \in T
    OBVIOUS
  <2>2. N - n <= N - m
    BY <1>2, <1>3, <2>1
  <2> QED BY <2>2
<1> QED BY <1>4 DEF Max

LEMMA ConstFacts ==
  /\ MaxWakes \in Nat /\ MaxPerSubject \in Nat /\ MaxSubscriptions \in Nat
  /\ Times \subseteq Nat /\ 0 \in Times /\ {After, Every, Until, Expiry} \subseteq Times
  /\ \A m \in Nat, n \in Times : m <= n => m \in Times
  /\ Never \in Nat /\ \A n \in Times : n < Never
  /\ "none" \notin Kinds /\ "none" \notin People \cup Spaces \cup Targets
<1> DEFINE S == {After, Every, Until, Expiry}
           N == After + Every + Until + Expiry
           M == Max(S)
<1>1. /\ MaxWakes \in Nat /\ MaxPerSubject \in Nat /\ MaxSubscriptions \in Nat
      /\ After \in Nat /\ Every \in Nat /\ Until \in Nat /\ Expiry \in Nat
      /\ "none" \notin Kinds /\ "none" \notin People \cup Spaces \cup Targets
  BY WakesAssumption
<1>2. M \in S /\ \A m \in S : M >= m
  <2>1. N \in Nat /\ S \in SUBSET (0 .. N) /\ S # {}
    BY <1>1
  <2> HIDE DEF N, S
  <2> QED BY <2>1, GreatestIn
<1>3. M \in Nat /\ Times = 0 .. M
  BY <1>1, <1>2 DEF Times
<1>4. Max(Times) \in Times /\ \A m \in Times : Max(Times) >= m
  <2> HIDE DEF M
  <2>1. 0 .. M \in SUBSET (0 .. M) /\ 0 .. M # {}
    BY <1>3
  <2> QED BY <1>3, <2>1, GreatestIn
<1>5. {After, Every, Until, Expiry} \subseteq Times /\ 0 \in Times
  BY <1>1, <1>2, <1>3
<1> HIDE DEF S, M, N
<1>6. \A n \in Times : n < Never /\ Never \in Nat
  BY <1>3, <1>4 DEF Never
<1> QED BY <1>1, <1>3, <1>5, <1>6

-------------------------------------------------------------------------------
(* Rows. *)

LEMMA NoRowFields == NoRow \in RowType /\ NoRow.kind = "none"
BY ConstFacts DEF NoRow, RowType

LEMMA NewRowFields ==
  ASSUME nextId \in Ids, NEW kind \in Kinds, NEW owner \in People \cup Spaces,
         NEW target \in Targets \cup {"none"}
  PROVE  LET r == NewRow(kind, owner, target) IN
         r \in RowType /\ r.kind = kind /\ r.id = nextId /\ r.owner = owner /\ r.target = target
<1> DEFINE left == CASE kind = "once" -> After [] kind = "subscription" -> Expiry [] OTHER -> Every
           ends == IF kind \in {"watch", "digest"} THEN Until ELSE 0
<1>1. left \in Times
  BY ConstFacts
<1>2. ends \in Times
  BY ConstFacts
<1>3. NewRow(kind, owner, target) = [kind |-> kind, id |-> nextId, owner |-> owner,
                                     target |-> target, left |-> left, ends |-> ends]
  BY DEF NewRow
<1> HIDE DEF left, ends
<1> QED BY <1>1, <1>2, <1>3 DEF RowType

LEMMA RearmFields ==
  ASSUME NEW r \in RowType
  PROVE  Rearm(r) \in RowType /\ Same(Rearm(r), r)
<1> DEFINE left == IF r.kind = "digest" THEN Min({Every, r.ends}) ELSE Every
<1>1. r.ends \in Times
  BY DEF RowType
<1>2. left \in Times
  <2>1. {Every, r.ends} \in SUBSET Nat /\ {Every, r.ends} # {}
    BY <1>1, ConstFacts
  <2>2. Min({Every, r.ends}) \in {Every, r.ends}
    BY <2>1, LeastIn
  <2> QED BY <1>1, <2>2, ConstFacts
<1>3. Rearm(r) = [r EXCEPT !.left = left]
  BY DEF Rearm
<1> HIDE DEF left
<1> QED BY <1>2, <1>3 DEF RowType, Same

LEMMA LaterTimes ==
  ASSUME NEW n \in Times
  PROVE  Later(n) \in Times
<1>1. n \in Nat /\ Later(n) \in Nat /\ Later(n) <= n
  BY ConstFacts DEF Later
<1> QED BY <1>1, ConstFacts

LEMMA AgedFields ==
  ASSUME NEW r \in RowType
  PROVE  Aged(r) \in RowType /\ Same(Aged(r), r)
<1> DEFINE left == Later(r.left)
           ends == Later(r.ends)
<1>1. r.left \in Times /\ r.ends \in Times
  BY DEF RowType
<1>2. left \in Times /\ ends \in Times
  BY <1>1, LaterTimes
<1>3. Aged(r) = [r EXCEPT !.left = left, !.ends = ends]
  BY DEF Aged
<1> HIDE DEF left, ends
<1> QED BY <1>2, <1>3 DEF RowType, Same

\* What becomes of a row whose probe ended: a watch that fires is removed, a
\* digest that fires stays.
LEMMA SettledFields ==
  ASSUME NEW r \in RowType, NEW v
  PROVE  /\ Settled(r, v) \in RowType
         /\ Settled(r, v).kind = "none" \/ Same(Settled(r, v), r)
         /\ "fire" \in Settle(r, v) =>
              /\ r.kind \in {"watch", "digest"}
              /\ r.kind = "watch" => Settled(r, v).kind = "none"
              /\ r.kind = "digest" => Settled(r, v).kind = "digest"
<1>1. Settled(r, v) \in {NoRow, Rearm(r), r}
  BY DEF Settled
<1>2. Same(r, r)
  BY DEF Same
<1>3. "fire" \in Settle(r, v) =>
        \/ r.kind = "watch" /\ "remove" \in Settle(r, v)
        \/ r.kind = "digest" /\ "remove" \notin Settle(r, v)
  BY DEF Settle
<1>4. "fire" \in Settle(r, v) /\ r.kind = "digest" => Settled(r, v) \in {Rearm(r), r}
  BY <1>3 DEF Settled
<1>5. "fire" \in Settle(r, v) /\ r.kind = "watch" => Settled(r, v) = NoRow
  BY <1>3 DEF Settled
<1> QED BY <1>1, <1>2, <1>3, <1>4, <1>5, NoRowFields, RearmFields DEF Same

\* The rows of t are rows of s, as they were but for their times.
Shrinks(t, s) == t \in Tables /\ \A w \in Rows(t) : w \in Rows(s) /\ Same(t[w], s[w])

LEMMA WithoutRows ==
  ASSUME NEW t \in Tables, NEW gone
  PROVE  /\ Shrinks(Without(t, gone), t) /\ Rows(Without(t, gone)) = Rows(t) \ gone
         /\ \A w \in Rows(t) \ gone : Without(t, gone)[w] = t[w]
<1>1. /\ Without(t, gone) \in Tables
      /\ \A w \in Wakes : Without(t, gone)[w] = IF w \in gone THEN NoRow ELSE t[w]
  BY NoRowFields DEF Without, Tables
<1>2. Rows(Without(t, gone)) = Rows(t) \ gone
  BY <1>1, NoRowFields DEF Rows
<1> QED BY <1>1, <1>2 DEF Shrinks, Same, Rows

LEMMA ShrinksTwice ==
  ASSUME NEW t, NEW s, NEW r, Shrinks(t, s), Shrinks(s, r)
  PROVE  Shrinks(t, r)
BY DEF Shrinks, Same

LEMMA FiniteRows ==
  ASSUME NEW S \in SUBSET Wakes
  PROVE  IsFiniteSet(S) /\ Cardinality(S) \in Nat
<1>1. IsFiniteSet(Wakes)
  BY ConstFacts, FS_Interval DEF Wakes
<1> QED BY <1>1, FS_Subset, FS_CardinalityType

LEMMA ShrinksLimits ==
  ASSUME NEW t \in Tables, NEW s \in Tables, Shrinks(t, s), Limits(s)
  PROVE  Limits(t)
<1>1. ASSUME NEW A \in SUBSET Wakes, NEW B \in SUBSET A, NEW n \in Nat, Cardinality(A) <= n
      PROVE  Cardinality(B) <= n
  <2>1. IsFiniteSet(A) /\ Cardinality(A) \in Nat /\ Cardinality(B) \in Nat
    BY FiniteRows
  <2>2. Cardinality(B) <= Cardinality(A)
    BY <2>1, FS_Subset
  <2> QED BY <1>1, <2>1, <2>2
<1>2. ASSUME NEW o
      PROVE  /\ ScheduledOf(t, o) \in SUBSET ScheduledOf(s, o)
             /\ ScheduledOf(s, o) \in SUBSET Wakes
             /\ {w \in ScheduledOf(t, o) : t[w].kind = "digest"}
                  \in SUBSET {w \in ScheduledOf(s, o) : s[w].kind = "digest"}
             /\ {w \in ScheduledOf(s, o) : s[w].kind = "digest"} \in SUBSET Wakes
  BY DEF ScheduledOf, Shrinks, Same, Rows
<1>3. Subscriptions(t) \in SUBSET Subscriptions(s) /\ Subscriptions(s) \in SUBSET Wakes
  BY DEF Subscriptions, Shrinks, Same, Rows
<1>4. ASSUME NEW o \in People \cup Spaces
      PROVE  /\ Cardinality(ScheduledOf(t, o)) <= MaxPerSubject
             /\ Cardinality({w \in ScheduledOf(t, o) : t[w].kind = "digest"}) <= 1
  <2>1. /\ Cardinality(ScheduledOf(s, o)) <= MaxPerSubject
        /\ Cardinality({w \in ScheduledOf(s, o) : s[w].kind = "digest"}) <= 1
    BY DEF Limits
  <2>2. Cardinality(ScheduledOf(t, o)) <= MaxPerSubject
    BY <1>1, <1>2, <2>1, ConstFacts
  <2>3. Cardinality({w \in ScheduledOf(t, o) : t[w].kind = "digest"}) <= 1
    BY <1>1, <1>2, <2>1
  <2> QED BY <2>2, <2>3
<1>5. Cardinality(Subscriptions(t)) <= MaxSubscriptions
  BY <1>1, <1>3, ConstFacts DEF Limits
<1> QED BY <1>4, <1>5 DEF Limits

LEMMA ShrinksOK ==
  ASSUME NEW t \in Tables, NEW s \in Tables, Shrinks(t, s), TableOK(s)
  PROVE  TableOK(t)
BY ShrinksLimits DEF TableOK, Shrinks, Same

-------------------------------------------------------------------------------
(* The calls of the store, up to the file. *)

\* A call has the mutex, and has computed what it will make of the rows.
Called ==
    /\ phase # "off" /\ Free
    /\ op' \in OpType /\ op'.by # "none" /\ op'.renamed = FALSE
    /\ UNCHANGED <<table, nextId, file, deadline, stopped, due, ticks, results, fate, started>>
    /\ \/ op'.by = "register" /\ made < MaxWakes /\ made' = made + 1
       \/ op'.by # "register" /\ made' = made
    /\ \/ op'.by # "take" /\ phase' = phase /\ op'.out.ticks = {}
       \/ op'.by = "take" /\ phase = "select" /\ phase' = "taking"
    /\ op'.by \in {"register", "cancel"} => op'.out.fired = {}
    /\ op'.by = "resolve" => op'.tick \in TickType
    /\ \A w \in Rows(op'.rows) :
         \/ w \in Rows(table) /\ Same(op'.rows[w], table[w])
         \/ op'.by = "register" /\ w = made + 1 /\ op'.rows[w].id = nextId
    /\ \A w \in op'.out.fired :
         /\ w \in Rows(table)
         /\ w \in Rows(op'.rows) <=> table[w].kind \notin OneShot
         /\ op'.by = "deliver" => table[w].kind = "subscription"
    /\ \A x \in op'.out.ticks : x.of \in Rows(table) /\ table[x.of].id = x.id
    /\ TableOK(op'.rows)

LEMMA CallType ==
  ASSUME NEW by \in {"register", "cancel", "deliver", "take", "resolve"}, NEW rows \in Tables,
         NEW out \in DueType, NEW tick \in TickType \cup {NoTick}, NEW end \in {"expired", "cancelled"},
         Call(by, rows, out, tick, end)
  PROVE  /\ op' \in OpType /\ phase # "off" /\ Free
         /\ op'.by = by /\ op'.rows = rows /\ op'.out = out /\ op'.tick = tick /\ op'.fate = end
         /\ op'.renamed = FALSE
BY DEF Call, OpType

LEMMA FiresType ==
  ASSUME NEW set \in SUBSET Wakes
  PROVE  Fires(set) \in DueType /\ Fires(set).fired = set /\ Fires(set).ticks = {}
BY DEF Fires, DueType

LEMMA NoDueType == NoDue \in DueType /\ NoDue.fired = {} /\ NoDue.ticks = {}
BY FiresType DEF NoDue

LEMMA CardOneMore ==
  ASSUME NEW S \in SUBSET Wakes, NEW w \in Wakes, NEW n \in Nat, NEW T \in SUBSET (S \cup {w}),
         Cardinality(S) < n
  PROVE  Cardinality(T) <= n
<1>1. IsFiniteSet(S) /\ Cardinality(S) \in Nat
  BY FiniteRows
<1>2. Cardinality(S \cup {w}) <= n /\ S \cup {w} \in SUBSET Wakes
  <2>1. Cardinality(S \cup {w}) = IF w \in S THEN Cardinality(S) ELSE Cardinality(S) + 1
    BY <1>1, FS_AddElement
  <2>2. Cardinality(S \cup {w}) <= n
    BY <1>1, <2>1
  <2> QED BY <2>2
<1>3. IsFiniteSet(S \cup {w}) /\ Cardinality(S \cup {w}) \in Nat
  BY <1>2, FiniteRows
<1>4. T \in SUBSET Wakes /\ Cardinality(T) <= Cardinality(S \cup {w})
  BY <1>2, <1>3, FS_Subset
<1>5. Cardinality(T) \in Nat
  BY <1>4, FiniteRows
<1> QED BY <1>2, <1>3, <1>4, <1>5

LEMMA RegisterLimits ==
  ASSUME NEW t \in Tables, Limits(t), NEW w \in Wakes, w \notin Rows(t), NEW r \in RowType,
         r.kind \in Kinds,
         \/ r.kind \in Scheduled /\ MayRegister(r.kind, r.owner, t)
         \/ r.kind = "subscription" /\ Cardinality(Subscriptions(t)) < MaxSubscriptions
  PROVE  Limits([t EXCEPT ![w] = r])
<1> DEFINE s == [t EXCEPT ![w] = r]
           Digests(q, o) == {v \in ScheduledOf(q, o) : q[v].kind = "digest"}
<1>1. /\ s \in Tables /\ Rows(s) = Rows(t) \cup {w} /\ s[w] = r
      /\ \A v \in Rows(t) : s[v] = t[v]
  <2>1. r.kind # "none"
    BY ConstFacts
  <2> QED BY <2>1 DEF Tables, Rows
<1>2. Rows(t) \in SUBSET Wakes
  BY DEF Rows
<1> HIDE DEF s
<1>3. ASSUME NEW o \in People \cup Spaces
      PROVE  Cardinality(ScheduledOf(s, o)) <= MaxPerSubject /\ Cardinality(Digests(s, o)) <= 1
  <2>1. /\ ScheduledOf(t, o) \in SUBSET Wakes /\ Digests(t, o) \in SUBSET Wakes
        /\ Cardinality(ScheduledOf(t, o)) <= MaxPerSubject /\ Cardinality(Digests(t, o)) <= 1
    BY <1>2 DEF ScheduledOf, Limits
  <2>2. CASE r.kind \in Scheduled /\ r.owner = o
    <3>1. MayRegister(r.kind, o, t)
      BY <2>2 DEF Scheduled
    <3>2. ScheduledOf(s, o) \in SUBSET (ScheduledOf(t, o) \cup {w})
      BY <1>1 DEF ScheduledOf
    <3>3. Cardinality(ScheduledOf(t, o)) < MaxPerSubject
      BY <3>1 DEF MayRegister
    <3>4. Cardinality(ScheduledOf(s, o)) <= MaxPerSubject
      BY <2>1, <3>2, <3>3, CardOneMore, ConstFacts
    <3>5. CASE r.kind = "digest"
      <4>1. Digests(t, o) = {}
        BY <3>1, <3>5 DEF MayRegister, ScheduledOf
      <4>2. Digests(s, o) \in SUBSET ({} \cup {w})
        BY <1>1, <4>1 DEF ScheduledOf
      <4>3. Cardinality({}) < 1
        BY FS_EmptySet
      <4> HIDE DEF Digests
      <4> QED BY <3>4, <4>2, <4>3, CardOneMore
    <3>6. CASE r.kind # "digest"
      <4>1. Digests(s, o) = Digests(t, o)
        BY <1>1, <3>6 DEF ScheduledOf
      <4> QED BY <2>1, <3>4, <4>1
    <3> QED BY <3>5, <3>6
  <2>3. CASE ~(r.kind \in Scheduled /\ r.owner = o)
    <3>1. ScheduledOf(s, o) = ScheduledOf(t, o)
      BY <1>1, <2>3 DEF ScheduledOf
    <3>2. Digests(s, o) = Digests(t, o)
      BY <1>1, <3>1 DEF ScheduledOf
    <3> QED BY <2>1, <3>1, <3>2
  <2> QED BY <2>2, <2>3
<1>4. Cardinality(Subscriptions(s)) <= MaxSubscriptions
  <2>1. Subscriptions(t) \in SUBSET Wakes /\ Cardinality(Subscriptions(t)) <= MaxSubscriptions
    BY <1>2 DEF Subscriptions, Limits
  <2>2. CASE r.kind = "subscription"
    <3>1. Subscriptions(s) \in SUBSET (Subscriptions(t) \cup {w})
      BY <1>1 DEF Subscriptions
    <3>2. Cardinality(Subscriptions(t)) < MaxSubscriptions
      BY <2>2 DEF Scheduled
    <3> QED BY <2>1, <3>1, <3>2, CardOneMore, ConstFacts
  <2>3. CASE r.kind # "subscription"
    <3>1. Subscriptions(s) = Subscriptions(t)
      BY <1>1, <2>3 DEF Subscriptions
    <3> QED BY <2>1, <3>1
  <2> QED BY <2>2, <2>3
<1> QED BY <1>3, <1>4 DEF Limits, s

LEMMA ShrinkingCall ==
  ASSUME Types, TableInv, NEW by \in {"cancel", "deliver", "take", "resolve"}, NEW rows \in Tables,
         NEW out \in DueType, NEW tick \in TickType \cup {NoTick}, NEW end \in {"expired", "cancelled"},
         Call(by, rows, out, tick, end), Shrinks(rows, table),
         UNCHANGED <<table, nextId, made, file, deadline, stopped, due, ticks, results, fate, started>>,
         \/ by # "take" /\ phase' = phase /\ out.ticks = {}
         \/ by = "take" /\ phase = "select" /\ phase' = "taking",
         by = "cancel" => out.fired = {},
         by = "resolve" => tick \in TickType,
         \A w \in out.fired :
           /\ w \in Rows(table)
           /\ w \in Rows(rows) <=> table[w].kind \notin OneShot
           /\ by = "deliver" => table[w].kind = "subscription",
         \A x \in out.ticks : x.of \in Rows(table) /\ table[x.of].id = x.id
  PROVE  Called
<1>1. /\ op' \in OpType /\ phase # "off" /\ Free
      /\ op'.by = by /\ op'.rows = rows /\ op'.out = out /\ op'.tick = tick /\ op'.renamed = FALSE
  BY DEF Call, OpType
<1>2. TableOK(rows)
  BY ShrinksOK DEF Types, TableInv
<1> QED BY <1>1, <1>2 DEF Called, Shrinks

\* What is registered is a row more than the table without what expired.
LEMMA RegisteringCall ==
  ASSUME Types, IdInv, TableInv, NEW gone, NEW kind \in Kinds, NEW owner \in People \cup Spaces,
         NEW target \in Targets \cup {"none"}, made < MaxWakes, made' = made + 1,
         Call("register", [Without(table, gone) EXCEPT ![made + 1] = NewRow(kind, owner, target)],
              NoDue, NoTick, "expired"),
         \/ kind \in Scheduled /\ MayRegister(kind, owner, Without(table, gone))
         \/ kind = "subscription" /\ Cardinality(Subscriptions(Without(table, gone))) < MaxSubscriptions,
         kind # "subscription" => target = "none",
         UNCHANGED <<table, nextId, file, loop, ticks, results, fate, started>>
  PROVE  Called
<1> DEFINE kept == Without(table, gone)
           r == NewRow(kind, owner, target)
           rows == [kept EXCEPT ![made + 1] = r]
<1>1. /\ kept \in Tables /\ Shrinks(kept, table) /\ Rows(kept) \subseteq Rows(table)
  BY WithoutRows DEF Types, Shrinks
<1>2. made \in Nat /\ made + 1 \in Wakes /\ nextId \in Ids
  BY ConstFacts DEF Types, IdInv, Wakes, Ids
<1>3. made + 1 \notin Rows(table)
  BY <1>2 DEF IdInv
<1>4. r \in RowType /\ r.kind = kind /\ r.id = nextId /\ r.owner = owner /\ kind # "none"
      /\ r.target = target
  BY <1>2, NewRowFields, ConstFacts
<1>5. TableOK(kept)
  BY <1>1, ShrinksOK DEF Types, TableInv
<1> HIDE DEF kept, r
<1>6. /\ rows \in Tables /\ Rows(rows) = Rows(kept) \cup {made + 1} /\ rows[made + 1] = r
      /\ \A v \in Rows(kept) : rows[v] = kept[v]
  BY <1>1, <1>2, <1>3, <1>4 DEF Tables, Rows
<1>7. TableOK(rows)
  <2>1. Limits(rows)
    BY <1>1, <1>2, <1>3, <1>4, <1>5, RegisterLimits DEF kept, TableOK
  <2>2. kind # "subscription" => target = "none"
    OBVIOUS
  <2> QED BY <1>4, <1>5, <1>6, <2>1, <2>2 DEF TableOK
<1>8. Call("register", rows, NoDue, NoTick, "expired")
  BY DEF kept, r
<1> HIDE DEF rows
<1>9. /\ op' \in OpType /\ phase # "off" /\ Free
      /\ op'.by = "register" /\ op'.rows = rows /\ op'.out = NoDue /\ op'.renamed = FALSE
  BY <1>6, <1>8, CallType, NoDueType
<1> QED BY <1>1, <1>4, <1>6, <1>7, <1>9, NoDueType DEF Called, Shrinks, loop

\* The steps in which a call takes the mutex.
Calls ==
    \/ \E c \in Callers : (\E k \in Scheduled : Register(c, k)) \/ \E i \in Ids : Cancel(c, i)
    \/ \E s \in Spaces : (\E t \in Targets : Subscribe(s, t))
                         \/ \E i \in Ids : CancelSubscription(s, i)
    \/ \E t \in Targets, closed \in BOOLEAN : Deliver(t, closed)
    \/ ListSubscriptions \/ TakeDue
    \/ \E x \in ticks, v \in {"fire", "wait", "failed"} : Resolve(x, v)

LEMMA CallsCalled ==
  ASSUME Types, IdInv, TableInv, Calls
  PROVE  Called
<1>0. table \in Tables /\ Rows(table) \in SUBSET Wakes
  BY DEF Types, Rows
<1>1. ASSUME NEW c \in Callers, NEW k \in Scheduled, Register(c, k)
      PROVE  Called
  <2>1. OwnerFor(c) \in People \cup Spaces /\ k \in Kinds
    BY <1>1 DEF Callers, OwnerFor, Register
  <2> QED BY <1>1, <2>1, RegisteringCall DEF Register
<1>2. ASSUME NEW s \in Spaces, NEW t \in Targets, Subscribe(s, t)
      PROVE  Called
  BY <1>2, RegisteringCall DEF Subscribe
<1>3. ASSUME NEW gone, Call("cancel", Without(table, gone), NoDue, NoTick, "cancelled"),
             UNCHANGED <<table, nextId, made, file, loop, ticks, results, fate, started>>
      PROVE  Called
  <2>1. Shrinks(Without(table, gone), table) /\ Without(table, gone) \in Tables
    BY <1>0, WithoutRows DEF Shrinks
  <2> QED BY <1>3, <2>1, ShrinkingCall, NoDueType DEF loop
<1>4. ASSUME NEW c \in Callers, NEW i \in Ids, Cancel(c, i)
      PROVE  Called
  BY <1>3, <1>4 DEF Cancel
<1>5. ASSUME NEW s \in Spaces, NEW i \in Ids, CancelSubscription(s, i)
      PROVE  Called
  BY <1>3, <1>5 DEF CancelSubscription
<1>6. CASE ListSubscriptions
  <2> DEFINE rows == Without(table, ExpiredSubscriptions(table))
  <2>1. Shrinks(rows, table) /\ rows \in Tables
    BY <1>0, WithoutRows DEF Shrinks
  <2>2. Call("deliver", rows, NoDue, NoTick, "expired")
        /\ UNCHANGED <<table, nextId, made, file, loop, ticks, results, fate, started>>
    BY <1>6 DEF ListSubscriptions
  <2> HIDE DEF rows
  <2> QED BY <2>1, <2>2, ShrinkingCall, NoDueType DEF loop
<1>7. ASSUME NEW t \in Targets, NEW closed \in BOOLEAN, Deliver(t, closed)
      PROVE  Called
  <2> DEFINE kept == Without(table, ExpiredSubscriptions(table))
             hit == {w \in Rows(kept) : kept[w].target = t}
             rows == IF closed THEN Without(kept, hit) ELSE kept
             out == Fires(IF closed THEN {} ELSE hit)
  <2>1. Shrinks(kept, table) /\ kept \in Tables /\ Rows(kept) \subseteq Rows(table)
        /\ \A w \in Rows(kept) : kept[w] = table[w]
    BY <1>0, WithoutRows DEF Shrinks
  <2>2. hit \in SUBSET Wakes
    BY <1>0, <2>1
  <2>3. \A w \in hit : table[w].kind = "subscription"
    BY <2>1, ConstFacts DEF TableInv, TableOK
  <2> HIDE DEF kept
  <2>4. Shrinks(rows, table) /\ rows \in Tables
    BY <2>1, WithoutRows, ShrinksTwice DEF Shrinks
  <2>5. /\ Call("deliver", rows, out, NoTick, "expired")
        /\ UNCHANGED <<table, nextId, made, file, loop, ticks, results, fate, started>>
    BY <1>7 DEF Deliver, kept
  <2>6. out \in DueType /\ out.fired = (IF closed THEN {} ELSE hit) /\ out.ticks = {}
    BY <2>2, FiresType
  <2>7. \A w \in out.fired : w \in Rows(table) /\ w \in Rows(rows) /\ table[w].kind = "subscription"
    BY <2>1, <2>3, <2>6
  <2> HIDE DEF rows, out, hit
  <2> QED BY <2>4, <2>5, <2>6, <2>7, ShrinkingCall DEF loop, OneShot
<1>8. CASE TakeDue
  <2> DEFINE expired == ExpiredDigests(table)
             late == {w \in Rows(table) \ expired : table[w].left = 0}
             fired == {w \in late : table[w].kind = "once"}
             probe == {w \in late : table[w].kind \in {"watch", "digest"}}
             kept == Without(table, expired \cup (late \ probe))
             rows == [w \in Wakes |-> IF w \in probe THEN Rearm(kept[w]) ELSE kept[w]]
             out == [fired |-> fired, ticks |-> {[id |-> table[w].id, of |-> w] : w \in probe}]
  <2>1. /\ Call("take", rows, out, NoTick, "expired")
        /\ UNCHANGED <<table, nextId, made, file, deadline, stopped, due, ticks, results, fate, started>>
        /\ phase = "select" /\ phase' = "taking"
    BY <1>8 DEF TakeDue
  <2>2. /\ kept \in Tables /\ Rows(kept) = Rows(table) \ (expired \cup (late \ probe))
        /\ \A w \in Rows(kept) : kept[w] = table[w]
    BY <1>0, WithoutRows DEF Shrinks
  <2>3. probe \subseteq Rows(table) /\ fired \subseteq Rows(table) /\ fired \cap probe = {}
        /\ fired \subseteq late
    OBVIOUS
  <2>4. \A w \in probe : table[w].id \in Ids
    <3>1. \A w \in Rows(table) : table[w].id \in Ids
      BY <1>0 DEF Tables, RowType, IdInv, Rows
    <3> QED BY <2>3, <3>1
  <2>5. /\ fired \in SUBSET Wakes
        /\ {[id |-> table[w].id, of |-> w] : w \in probe} \in SUBSET TickType
    BY <1>0, <2>3, <2>4 DEF TickType
  <2>6. out \in DueType /\ out.fired = fired
        /\ out.ticks = {[id |-> table[w].id, of |-> w] : w \in probe}
    BY <2>5 DEF DueType
  <2> HIDE DEF kept, probe, fired
  <2>7. \A w \in Wakes : kept[w] \in RowType /\ Rearm(kept[w]) \in RowType
                          /\ Same(Rearm(kept[w]), kept[w])
    BY <2>2, RearmFields DEF Tables
  <2>8. rows \in Tables /\ \A w \in Wakes : Same(rows[w], kept[w])
    BY <2>7 DEF Tables, Same
  <2>9. Rows(rows) = Rows(kept)
    BY <2>8 DEF Rows, Same
  <2>10. Shrinks(rows, table)
    BY <1>0, <2>2, <2>8, <2>9 DEF Shrinks
  <2>11. \A w \in fired : w \in Rows(table) /\ w \notin Rows(rows) /\ table[w].kind \in OneShot
    BY <2>2, <2>3, <2>9 DEF fired, OneShot
  <2>12. \A x \in out.ticks : x.of \in Rows(table) /\ table[x.of].id = x.id
    BY <2>3, <2>6
  <2> HIDE DEF rows, out
  <2> QED BY <2>1, <2>6, <2>8, <2>10, <2>11, <2>12, ShrinkingCall
<1>9. ASSUME NEW x \in ticks, NEW v, Resolve(x, v)
      PROVE  Called
  <2> DEFINE found == WithId(table, x.id)
             rows == [w \in Wakes |-> IF w \in found THEN Settled(table[w], v) ELSE table[w]]
             fired == {w \in found : "fire" \in Settle(table[w], v)}
             out == Fires(fired)
  <2>1. /\ Call("resolve", rows, out, x, "expired")
        /\ UNCHANGED <<table, nextId, made, file, loop, ticks, results, fate, started>>
    BY <1>9 DEF Resolve
  <2>2. found \subseteq Rows(table) /\ fired \subseteq found
    BY DEF WithId
  <2>3. \A w \in Wakes : table[w] \in RowType
    BY <1>0 DEF Tables
  <2>4. x \in TickType
    BY DEF Types
  <2>5. \A w \in fired : "fire" \in Settle(table[w], v)
    OBVIOUS
  <2> HIDE DEF found, fired
  <2>6. \A w \in Wakes : rows[w] \in RowType /\ (rows[w].kind = "none" \/ Same(rows[w], table[w]))
    BY <2>3, SettledFields DEF Same
  <2>7. rows \in Tables
    BY <2>6 DEF Tables
  <2>8. Shrinks(rows, table)
    BY <2>6, <2>7 DEF Shrinks, Rows, Same
  <2>9. \A w \in fired : w \in Rows(table) /\ (w \in Rows(rows) <=> table[w].kind \notin OneShot)
    <3> TAKE w \in fired
    <3>1. w \in Wakes /\ w \in Rows(table) /\ rows[w] = Settled(table[w], v)
      BY <1>0, <2>2
    <3> HIDE DEF rows
    <3>2. /\ table[w].kind \in {"watch", "digest"}
          /\ table[w].kind = "watch" => rows[w].kind = "none"
          /\ table[w].kind = "digest" => rows[w].kind = "digest"
      BY <2>3, <2>5, <3>1, SettledFields
    <3> QED BY <3>1, <3>2 DEF OneShot, Rows
  <2>10. out \in DueType /\ out.fired = fired /\ out.ticks = {}
    BY <1>0, <2>2, FiresType
  <2> HIDE DEF rows, out
  <2> QED BY <2>1, <2>4, <2>7, <2>8, <2>9, <2>10, ShrinkingCall DEF loop
<1> QED BY <1>1, <1>2, <1>4, <1>5, <1>6, <1>7, <1>8, <1>9 DEF Calls

-------------------------------------------------------------------------------
(* The inductive invariant, action by action. *)

WakeInv ==
    Types /\ StoreInv /\ CallInv /\ IdInv /\ OwedInv /\ FateInv /\ TableInv

\* Where the wakes on their way are.
LEMMA InFlightIs ==
  \A w : w \in InFlight <=> \/ w \in due.fired
                            \/ \E r \in results : w \in r.fired
                            \/ op.renamed /\ w \in op.out.fired
BY DEF InFlight

LEMMA NumberFacts ==
  ASSUME Types
  PROVE  /\ made \in Nat /\ nextId \in Nat /\ MaxWakes \in Nat
         /\ \A w \in Wakes : w \in Nat
         /\ \A t \in Tables, w \in Wakes : t[w] \in RowType /\ t[w].id \in Nat
         /\ \A t : Rows(t) \subseteq Wakes
<1>1. /\ made \in Nat /\ nextId \in Nat /\ MaxWakes \in Nat
      /\ \A w \in Wakes : w \in Nat
  BY ConstFacts DEF Types, Wakes
<1>2. \A r \in RowType : r.id \in Nat
  BY ConstFacts DEF RowType, Ids
<1>3. ASSUME NEW t \in Tables, NEW w \in Wakes
      PROVE  t[w] \in RowType /\ t[w].id \in Nat
  <2>1. t[w] \in RowType
    BY DEF Tables
  <2> QED BY <1>2, <2>1
<1>4. ASSUME NEW t
      PROVE  Rows(t) \subseteq Wakes
  BY DEF Rows
<1> QED BY <1>1, <1>3, <1>4

LEMMA CalledInv ==
  ASSUME WakeInv, Called
  PROVE  WakeInv'
<1> USE DEF WakeInv
<1>0. /\ made \in Nat /\ nextId \in Nat /\ MaxWakes \in Nat
      /\ \A w \in Wakes : w \in Nat
      /\ \A t \in Tables, w \in Wakes : t[w] \in RowType /\ t[w].id \in Nat
      /\ \A t : Rows(t) \subseteq Wakes
  BY NumberFacts
<1>1. /\ phase # "off" /\ Free /\ op.by = "none" /\ op.renamed = FALSE /\ file = table
      /\ op' \in OpType /\ op'.by # "none" /\ op'.renamed = FALSE /\ ~Free'
      /\ table' = table /\ nextId' = nextId /\ file' = file /\ deadline' = deadline
      /\ stopped' = stopped /\ due' = due /\ ticks' = ticks /\ results' = results
      /\ fate' = fate /\ started' = started
  BY DEF Called, StoreInv, Types, OpType, Free
<1>2. /\ made' \in 0 .. MaxWakes /\ made <= made' /\ made' \in Nat
      /\ op'.by = "register" => made' = made + 1 /\ made' \in Wakes
  BY <1>0 DEF Called, Types, Wakes
<1>3. Types'
  BY <1>1, <1>2 DEF Types, Called
<1>4. StoreInv'
  BY <1>1 DEF Called, StoreInv, Free
<1>5. CallInv'
  <2>1. op'.by = "register" => made' \notin Rows(table)
    BY <1>0, <1>2 DEF IdInv
  <2>2. \A w \in Rows(op'.rows) :
           \/ w \in Rows(table) /\ Same(op'.rows[w], table[w])
           \/ op'.by = "register" /\ w = made' /\ op'.rows[w].id = nextId
    BY <1>2 DEF Called
  <2> QED BY <1>1, <1>2, <2>1, <2>2 DEF Called, CallInv
<1>6. IdInv'
  <2>1. /\ \A w \in Rows(table) : w <= made' /\ table[w].id \in 1 .. made'
        /\ \A w \in Rows(file) : w <= made' /\ file[w].id \in 1 .. made'
        /\ nextId <= made' + 1 /\ (op'.by = "register" => nextId <= made')
    BY <1>0, <1>2 DEF IdInv
  <2>2. \A id : WithId(table, id)' = WithId(table, id)
    BY <1>1 DEF WithId
  <2>3. \A w \in Rows(table) : table[w].id < nextId
    BY <1>1 DEF IdInv
  <2>4. \A x \in ticks \cup due.ticks : x.id < nextId /\ WithId(table, x.id) \subseteq {x.of}
    BY <1>1 DEF IdInv
  <2> QED BY <1>1, <2>1, <2>3, <2>4 DEF IdInv, Unique, WithId
<1>7. \A w : w \in InFlight' <=> w \in InFlight
  BY <1>1 DEF InFlight
<1>8. OwedInv'
  BY <1>1, <1>7 DEF OwedInv
<1>9. FateInv'
  <2>1. \A w \in Wakes : Settling(w)' <=> Settling(w)
    BY <1>1 DEF Settling
  <2>2. op'.by = "register" => fate[made'] = "none"
    BY <1>0, <1>2 DEF FateInv
  <2>3. \A w \in Wakes : fate[w] # "none" => w <= made'
    BY <1>0, <1>2 DEF FateInv
  <2> QED BY <1>1, <1>7, <2>1, <2>2, <2>3 DEF FateInv
<1>10. TableInv'
  BY <1>1 DEF TableInv, Called
<1> QED BY <1>3, <1>4, <1>5, <1>6, <1>8, <1>9, <1>10

\* The rows of a call: rows of the table, or the new one.
LEMMA CallRows ==
  ASSUME Types, StoreInv, CallInv, IdInv, ~Free
  PROVE  /\ op.rows \in Tables /\ Unique(op.rows) /\ phase # "off"
         /\ \A w \in Rows(op.rows) : w <= made /\ op.rows[w].id \in 1 .. made
         /\ \A w \in Rows(op.rows) :
              \/ w \in Rows(table) /\ op.rows[w].kind = table[w].kind
                 /\ op.rows[w].id = table[w].id /\ op.rows[w].id < nextId
              \/ op.by = "register" /\ w = made /\ w \notin Rows(table) /\ op.rows[w].id = nextId
         /\ \A w \in op.out.fired : w \in Rows(table) /\ w \in Wakes
<1>1. /\ made \in Nat /\ nextId \in Nat
      /\ \A w \in Wakes : w \in Nat
      /\ \A t \in Tables, w \in Wakes : t[w] \in RowType /\ t[w].id \in Nat
      /\ \A t : Rows(t) \subseteq Wakes
  BY NumberFacts
<1>2. op.rows \in Tables /\ phase # "off" /\ table \in Tables /\ nextId >= 1
  BY DEF Types, OpType, StoreInv
<1>3. \A w \in Rows(op.rows) :
              \/ w \in Rows(table) /\ op.rows[w].kind = table[w].kind
                 /\ op.rows[w].id = table[w].id /\ op.rows[w].id < nextId
              \/ op.by = "register" /\ w = made /\ w \notin Rows(table) /\ op.rows[w].id = nextId
  BY <1>2 DEF CallInv, Same, IdInv
<1>4. Unique(op.rows)
  BY <1>1, <1>2, <1>3 DEF Unique, IdInv
<1>5. \A w \in Rows(op.rows) : w <= made /\ op.rows[w].id \in 1 .. made
  BY <1>1, <1>2, <1>3 DEF IdInv
<1>6. \A w \in op.out.fired : w \in Rows(table) /\ w \in Wakes
  BY <1>1 DEF CallInv
<1> QED BY <1>2, <1>3, <1>4, <1>5, <1>6

LEMMA RenameInv ==
  ASSUME WakeInv, Rename
  PROVE  WakeInv'
<1> USE DEF WakeInv
<1>0. /\ made \in Nat /\ nextId \in Nat
      /\ \A w \in Wakes : w \in Nat
      /\ \A t : Rows(t) \subseteq Wakes
  BY NumberFacts
<1>1. /\ ~Free /\ op.renamed = FALSE /\ phase # "off" /\ file = table
      /\ table' = table /\ nextId' = nextId /\ made' = made /\ phase' = phase
      /\ deadline' = deadline /\ stopped' = stopped /\ due' = due /\ ticks' = ticks
      /\ results' = results /\ started' = started /\ file' = op.rows
  BY CallRows DEF Rename, StoreInv, Types, OpType, loop
<1>2. /\ op' \in OpType /\ op'.by = op.by /\ op'.rows = op.rows /\ op'.out = op.out
      /\ op'.tick = op.tick /\ op'.fate = op.fate /\ op'.renamed = TRUE
  BY DEF Rename, Types, OpType
<1>3. \A w \in Wakes : fate'[w] = IF w \in Rows(op.rows) THEN "pending"
                                  ELSE IF w \in Rows(table) THEN Ended(w) ELSE fate[w]
  BY <1>1 DEF Rename
<1>4. \A w \in Wakes :
        Ended(w) = IF w \in op.out.fired THEN "owed"
                   ELSE IF table[w].kind \in OneShot THEN op.fate ELSE "ended"
  BY <1>1 DEF Ended, OneShot
<1>5. op.fate \in {"none", "expired", "cancelled"}
  BY DEF Types, OpType
<1>6. /\ op.rows \in Tables /\ Unique(op.rows)
      /\ \A w \in Rows(op.rows) : w <= made /\ op.rows[w].id \in 1 .. made
      /\ \A w \in Rows(op.rows) :
              \/ w \in Rows(table) /\ op.rows[w].kind = table[w].kind
              \/ op.by = "register" /\ w = made /\ w \notin Rows(table)
      /\ \A w \in op.out.fired : w \in Rows(table) /\ w \in Wakes
                                 /\ (w \in Rows(op.rows) <=> table[w].kind \notin OneShot)
  BY <1>1, CallRows DEF CallInv
<1>7. /\ \A w \in Wakes : fate[w] = "pending" <=> w \in Rows(table)
      /\ op.by = "register" => fate[made] = "none"
      /\ \A w \in Wakes : /\ w \in InFlight => fate[w] \in {"owed", "ended", "pending"}
                          /\ w \in InFlight /\ fate[w] = "pending" => table[w].kind \notin OneShot
  <2>1. \A w \in Wakes : w \in InFlight => ~Settling(w)
    BY DEF FateInv
  <2>2. \A w \in Wakes : fate[w] \in Fates
    BY DEF Types
  <2>3. \A w \in Wakes : /\ w \in InFlight => fate[w] \in {"owed", "ended", "pending"}
                         /\ w \in InFlight /\ fate[w] = "pending" => table[w].kind \notin OneShot
    BY <1>1, <2>1, <2>2 DEF Settling, Fates
  <2> QED BY <1>1, <2>3 DEF FateInv
<1>8. \A w \in Wakes : w \in InFlight' <=> w \in InFlight \/ w \in op.out.fired
  BY <1>1, <1>2 DEF InFlight
<1>9. Types'
  <2>1. \A w \in Wakes : fate[w] \in Fates
    BY DEF Types
  <2>2. \A w \in Wakes : fate'[w] \in Fates
    BY <1>3, <1>4, <1>5, <2>1 DEF Fates
  <2>3. fate' \in [Wakes -> Fates]
    BY <2>2 DEF Rename
  <2> QED BY <1>1, <1>2, <1>6, <2>3 DEF Types
<1>10. StoreInv'
  BY <1>1, <1>2 DEF StoreInv, Free
<1>11. CallInv'
  BY <1>1, <1>2 DEF CallInv, Free
<1>12. IdInv'
  BY <1>1, <1>2, <1>6 DEF IdInv, Unique, WithId
<1>13. TableInv'
  BY <1>1, <1>2 DEF TableInv, Free
<1>14. OwedInv'
  <2> SUFFICES ASSUME NEW w \in Wakes, fate'[w] = "owed"
               PROVE  /\ w \in InFlight'
                      /\ \A r \in results : w \in r.fired =>
                           /\ w \notin due.fired /\ w \notin op.out.fired
                           /\ \A q \in results : w \in q.fired => q = r
                      /\ ~(w \in due.fired /\ w \in op.out.fired)
    BY <1>1, <1>2 DEF OwedInv
  <2>1. CASE w \in op.out.fired
    <3>1. w \in Rows(table) /\ table[w].kind \in OneShot
      BY <1>3, <1>6, <2>1
    <3>2. w \notin InFlight
      BY <1>7, <3>1
    <3> QED BY <1>8, <2>1, <3>2, InFlightIs
  <2>2. CASE w \notin op.out.fired
    <3>1. fate[w] = "owed"
      BY <1>3, <1>4, <1>5, <2>2
    <3> QED BY <1>8, <2>2, <3>1 DEF OwedInv
  <2> QED BY <2>1, <2>2
<1>15. FateInv'
  <2>1. \A w \in Wakes : fate'[w] = "pending" <=> w \in Rows(op.rows)
    BY <1>3, <1>4, <1>5, <1>7
  <2>2. \A w \in Wakes : fate'[w] # "none" => w <= made
    BY <1>1, <1>3, <1>6, <1>7 DEF FateInv
  <2>3. ASSUME NEW w \in Wakes, Settling(w)', w \in InFlight'
        PROVE  FALSE
    <3>1. \/ fate'[w] \in {"none", "started", "cancelled", "expired", "lost"}
          \/ fate'[w] = "pending" /\ op.rows[w].kind \in OneShot
      BY <1>1, <2>3 DEF Settling
    <3> QED BY <1>3, <1>4, <1>5, <1>6, <1>7, <1>8, <2>3, <3>1
  <2>4. ASSUME NEW w \in Wakes
        PROVE  /\ fate'[w] = "started" => started[w] = 1
               /\ fate'[w] \in {"none", "owed", "lost", "cancelled"} => started[w] = 0
               /\ fate'[w] = "pending" /\ op.rows[w].kind \in OneShot => started[w] = 0
    <3>1. /\ fate[w] = "started" => started[w] = 1
          /\ fate[w] \in {"none", "owed", "lost", "cancelled"} => started[w] = 0
          /\ w \in Rows(table) /\ table[w].kind \in OneShot => started[w] = 0
      BY <1>1, <1>7 DEF FateInv
    <3> QED BY <1>3, <1>4, <1>5, <1>6, <1>7, <3>1
  <2> QED BY <1>1, <1>2, <2>1, <2>2, <2>3, <2>4 DEF FateInv
<1> QED BY <1>9, <1>10, <1>11, <1>12, <1>13, <1>14, <1>15

\* The answer of a call that is given up: a tick's task ends with nothing.
LEMMA AnswerInv ==
  ASSUME Types, StoreInv, NEW out \in DueType, Answer(out)
  PROVE  /\ op.by = "take" => due' = out
         /\ op.by # "take" => due' = due
         /\ ticks' \subseteq ticks
         /\ op.by = "resolve" => /\ op.tick \in TickType
                                 /\ results' = results \cup {[of |-> op.tick.of, fired |-> out.fired]}
         /\ op.by # "resolve" => results' = results
         /\ due' \in DueType /\ ticks' \subseteq TickType
         /\ results' \subseteq [of : Wakes, fired : SUBSET Wakes]
<1>1. op.by = "resolve" => op.tick \in TickType
  BY DEF StoreInv
<1>2. op.tick \in TickType => [of |-> op.tick.of, fired |-> out.fired] \in [of : Wakes, fired : SUBSET Wakes]
  BY DEF TickType, DueType
<1>3. results \subseteq [of : Wakes, fired : SUBSET Wakes] /\ ticks \subseteq TickType /\ due \in DueType
  BY DEF Types
<1> QED BY <1>1, <1>2, <1>3 DEF Answer

LEMMA NoOpFields ==
  /\ NoOp \in OpType /\ NoOp.by = "none" /\ NoOp.renamed = FALSE
  /\ NoOp.out = NoDue
<1>1. [w \in Wakes |-> NoRow] \in Tables
  BY NoRowFields DEF Tables
<1> QED BY <1>1, NoDueType DEF NoOp, OpType

LEMMA WriteFailsInv ==
  ASSUME WakeInv, WriteFails
  PROVE  WakeInv'
<1> USE DEF WakeInv
<1>1. /\ ~Free /\ op.renamed = FALSE /\ phase # "off" /\ file = table /\ op' = NoOp
      /\ table' = table /\ nextId' = nextId /\ made' = made /\ file' = file
      /\ deadline' = deadline /\ fate' = fate /\ started' = started
      /\ phase' = (IF op.by = "take" THEN "top" ELSE phase)
      /\ stopped' \in BOOLEAN /\ Answer(NoDue)
  BY DEF WriteFails, StoreInv, Types, OpType, Free
<1>2. /\ op.by = "take" => due' = NoDue
      /\ op.by # "take" => due' = due
      /\ ticks' \subseteq ticks
      /\ op.by = "resolve" => /\ op.tick \in TickType
                              /\ results' = results \cup {[of |-> op.tick.of, fired |-> {}]}
      /\ op.by # "resolve" => results' = results
      /\ due' \in DueType /\ ticks' \subseteq TickType
      /\ results' \subseteq [of : Wakes, fired : SUBSET Wakes]
  BY <1>1, AnswerInv, NoDueType
<1>3. due' = due
  BY <1>2 DEF StoreInv
<1>4. /\ \A r \in results : r \in results'
      /\ \A r \in results' : r \in results \/ r.fired = {}
  BY <1>2
<1>5. op' \in OpType /\ op'.by = "none" /\ op'.renamed = FALSE /\ op'.out.fired = {} /\ op'.out.ticks = {}
  BY <1>1, NoOpFields, NoDueType
<1>6. Free'
  BY <1>5 DEF Free
<1>7. Types'
  BY <1>1, <1>2, <1>5 DEF Types
<1>8. StoreInv'
  BY <1>1, <1>3, <1>5, <1>6 DEF StoreInv
<1>9. CallInv'
  BY <1>6 DEF CallInv
<1>10. IdInv'
  <2>1. \A x \in ticks' \cup due'.ticks : x \in ticks \cup due.ticks
    BY <1>2, <1>3
  <2>2. \A x \in ticks' \cup due'.ticks : x.id < nextId /\ WithId(table, x.id) \subseteq {x.of}
    BY <1>1, <2>1 DEF IdInv
  <2> QED BY <1>1, <1>5, <2>2 DEF IdInv, Unique, WithId
<1>11. \A w : w \in InFlight' <=> w \in InFlight
  <2>1. \A w : (\E r \in results' : w \in r.fired) <=> (\E r \in results : w \in r.fired)
    BY <1>4
  <2> QED BY <1>1, <1>3, <1>5, <2>1 DEF InFlight
<1>12. OwedInv'
  <2>1. \A w \in Wakes : fate[w] = "owed" =>
      /\ w \in InFlight
      /\ \A r \in results' : w \in r.fired =>
           /\ w \notin due.fired
           /\ \A q \in results' : w \in q.fired => q = r
    BY <1>4 DEF OwedInv
  <2> QED BY <1>1, <1>3, <1>5, <1>11, <2>1 DEF OwedInv
<1>13. FateInv'
  <2>1. \A w \in Wakes : Settling(w)' <=> Settling(w)
    BY <1>1 DEF Settling
  <2> QED BY <1>1, <1>5, <1>11, <2>1 DEF FateInv
<1>14. TableInv'
  BY <1>1, <1>6 DEF TableInv
<1> QED BY <1>7, <1>8, <1>9, <1>10, <1>12, <1>13, <1>14

LEMMA StartAllFields ==
  ASSUME Types, NEW set, StartAll(set)
  PROVE  /\ started' \in [Wakes -> 0 .. 2]
         /\ \A w \in Wakes : w \notin set => started'[w] = started[w]
         /\ \A w \in Wakes : w \in set /\ started[w] = 0 => started'[w] = 1
<1>1. \A n \in 0 .. 2 : Min({2, n + 1}) \in 0 .. 2 /\ (n = 0 => Min({2, n + 1}) = 1)
  <2> TAKE n \in 0 .. 2
  <2>1. {2, n + 1} \in SUBSET Nat /\ {2, n + 1} # {}
    OBVIOUS
  <2>2. /\ Min({2, n + 1}) \in {2, n + 1}
        /\ \A m \in {2, n + 1} : Min({2, n + 1}) <= m
    BY <2>1, LeastIn
  <2> QED BY <2>2
<1>2. \A w \in Wakes : started[w] \in 0 .. 2
  BY DEF Types
<1>3. \A w \in Wakes : started'[w] = IF w \in set THEN Min({2, started[w] + 1}) ELSE started[w]
  BY DEF StartAll
<1>4. \A w \in Wakes : started'[w] \in 0 .. 2
  BY <1>1, <1>2, <1>3
<1>5. started' \in [Wakes -> 0 .. 2]
  BY <1>4 DEF StartAll
<1>6. \A w \in Wakes : w \in set /\ started[w] = 0 => started'[w] = 1
  BY <1>1, <1>2, <1>3
<1> QED BY <1>3, <1>5, <1>6

LEMMA CommitInv ==
  ASSUME WakeInv, Commit
  PROVE  WakeInv'
<1> USE DEF WakeInv
<1>0. /\ made \in Nat /\ nextId \in Nat /\ MaxWakes \in Nat
      /\ \A w \in Wakes : w \in Nat
      /\ \A t \in Tables, w \in Wakes : t[w] \in RowType /\ t[w].id \in Nat
      /\ \A t : Rows(t) \subseteq Wakes
  BY NumberFacts
<1> DEFINE set == IF op.by = "deliver" THEN op.out.fired ELSE {}
<1>1. /\ ~Free /\ op.renamed = TRUE /\ file = op.rows /\ op' = NoOp
      /\ table' = op.rows /\ made' = made /\ file' = file
      /\ nextId' = (IF op.by = "register" THEN nextId + 1 ELSE nextId)
      /\ deadline' = deadline /\ stopped' = stopped /\ fate' = fate
      /\ phase' = (IF op.by = "take" THEN "handling" ELSE phase)
      /\ Answer(op.out) /\ StartAll(set) /\ op.out \in DueType
  BY DEF Commit, StoreInv, Types, OpType
<1>2. /\ op.by = "take" => due' = op.out
      /\ op.by # "take" => due' = due
      /\ ticks' \subseteq ticks
      /\ op.by = "resolve" => /\ op.tick \in TickType
                              /\ results' = results \cup {[of |-> op.tick.of, fired |-> op.out.fired]}
      /\ op.by # "resolve" => results' = results
      /\ due' \in DueType /\ ticks' \subseteq TickType
      /\ results' \subseteq [of : Wakes, fired : SUBSET Wakes]
  BY <1>1, AnswerInv
<1>3. /\ started' \in [Wakes -> 0 .. 2]
      /\ \A w \in Wakes : w \notin set => started'[w] = started[w]
  <2> HIDE DEF set
  <2> QED BY <1>1, StartAllFields
<1>4. op' \in OpType /\ op'.by = "none" /\ op'.renamed = FALSE /\ op'.out.fired = {} /\ op'.out.ticks = {}
  BY <1>1, NoOpFields, NoDueType
<1>5. Free'
  BY <1>4 DEF Free
<1>6. /\ op.rows \in Tables /\ Unique(op.rows) /\ phase # "off"
      /\ \A w \in Rows(op.rows) : w <= made /\ op.rows[w].id \in 1 .. made
      /\ \A w \in Rows(op.rows) :
           \/ w \in Rows(table) /\ op.rows[w].kind = table[w].kind
              /\ op.rows[w].id = table[w].id /\ op.rows[w].id < nextId
           \/ op.by = "register" /\ w = made /\ w \notin Rows(table) /\ op.rows[w].id = nextId
      /\ \A w \in op.out.fired : w \in Rows(table) /\ w \in Wakes
  BY <1>1, CallRows
<1>7. op.by = "take" => due = NoDue /\ due.fired = {} /\ due.ticks = {}
  BY NoDueType DEF StoreInv
<1>8. nextId <= nextId' /\ nextId' \in 1 .. (MaxWakes + 1) /\ nextId' <= made + 1
  BY <1>0, <1>1 DEF IdInv, Types
<1>9. Types'
  BY <1>1, <1>2, <1>3, <1>4, <1>6, <1>8 DEF Types
<1>10. StoreInv'
  <2>1. phase' \notin {"off", "taking"}
    BY <1>1, <1>6 DEF StoreInv
  <2>2. phase' # "handling" => due' = NoDue
    BY <1>1, <1>2 DEF StoreInv
  <2> QED BY <1>1, <1>4, <1>5, <2>1, <2>2 DEF StoreInv
<1>11. CallInv'
  BY <1>5 DEF CallInv
<1>12. IdInv'
  <2>1. \A w \in Rows(op.rows) : op.rows[w].id < nextId'
    BY <1>0, <1>1, <1>6
  <2>2. ASSUME NEW x \in ticks' \cup due'.ticks
        PROVE  x.id < nextId' /\ WithId(op.rows, x.id) \subseteq {x.of}
    <3>1. x.id \in Nat /\ x.id < nextId /\ WithId(table, x.id) \subseteq {x.of}
      <4>1. CASE x \in ticks \cup due.ticks
        <5>1. x \in TickType
          BY <4>1 DEF Types, DueType
        <5>2. x.id \in Nat
          BY <1>0, <5>1 DEF TickType, Ids
        <5> QED BY <1>6, <4>1, <5>2 DEF IdInv
      <4>2. CASE x \in op.out.ticks
        <5>1. x.of \in Rows(table) /\ table[x.of].id = x.id
          BY <1>1, <4>2 DEF CallInv
        <5>2. WithId(table, x.id) \subseteq {x.of}
          BY <5>1 DEF IdInv, Unique, WithId
        <5>3. table[x.of].id < nextId /\ table[x.of].id \in Nat
          BY <1>0, <1>6, <5>1 DEF IdInv
        <5> QED BY <5>1, <5>2, <5>3
      <4> QED BY <1>2, <4>1, <4>2
    <3>2. WithId(op.rows, x.id) \subseteq WithId(table, x.id)
      BY <1>0, <1>6, <3>1 DEF WithId
    <3> QED BY <1>0, <1>8, <3>1, <3>2
  <2> QED BY <1>1, <1>4, <1>6, <1>8, <2>1, <2>2 DEF IdInv, Unique, WithId
<1>13. \A w : /\ w \in InFlight' => w \in InFlight
              /\ w \in InFlight => w \in InFlight' \/ w \in set
  <2>1. \A w : w \in InFlight' <=> w \in due'.fired \/ \E r \in results' : w \in r.fired
    BY <1>4 DEF InFlight
  <2>2. \A w : w \in InFlight <=> \/ w \in due.fired \/ w \in op.out.fired
                                  \/ \E r \in results : w \in r.fired
    BY <1>1, InFlightIs
  <2>3. CASE op.by = "take"
    BY <1>2, <1>7, <2>1, <2>2, <2>3
  <2>4. CASE op.by = "resolve"
    <3>1. \A r \in results' : r \in results \/ r.fired = op.out.fired
      BY <1>2, <2>4
    <3>2. \A r \in results : r \in results'
      BY <1>2, <2>4
    <3> DEFINE r0 == [of |-> op.tick.of, fired |-> op.out.fired]
    <3>0. r0 \in results' /\ r0.fired = op.out.fired
      BY <1>2, <2>4
    <3> HIDE DEF r0
    <3>3. \E r \in results' : r.fired = op.out.fired
      BY <3>0
    <3> QED BY <1>2, <2>1, <2>2, <2>4, <3>1, <3>2, <3>3
  <2>5. CASE op.by = "deliver"
    BY <1>2, <2>1, <2>2, <2>5
  <2>6. CASE op.by \in {"none", "register", "cancel"}
    <3>1. op.out.fired = {}
      BY <2>6 DEF StoreInv
    <3> QED BY <1>2, <2>1, <2>2, <2>6, <3>1
  <2> QED BY <2>3, <2>4, <2>5, <2>6 DEF Types, OpType
<1>14. \A w \in set : w \in Wakes /\ fate[w] = "pending" /\ file[w].kind \notin OneShot
  <2> SUFFICES ASSUME NEW w \in set, op.by = "deliver", w \in op.out.fired
               PROVE  w \in Wakes /\ fate[w] = "pending" /\ file[w].kind \notin OneShot
    OBVIOUS
  <2>1. w \in Rows(op.rows) /\ w \in Rows(table) /\ w \in Wakes /\ table[w].kind = "subscription"
    BY <1>1, <1>6 DEF CallInv, OneShot
  <2>2. op.rows[w].kind = "subscription"
    BY <1>6, <2>1
  <2> QED BY <1>1, <2>1, <2>2 DEF FateInv, OneShot
<1>15. OwedInv'
  <2> SUFFICES ASSUME NEW w \in Wakes, fate[w] = "owed"
               PROVE  /\ w \in InFlight'
                      /\ \A r \in results' : w \in r.fired =>
                           /\ w \notin due'.fired
                           /\ \A q \in results' : w \in q.fired => q = r
    BY <1>1, <1>4 DEF OwedInv
  <2>1. /\ w \in InFlight
        /\ \A r \in results : w \in r.fired =>
             /\ w \notin due.fired /\ w \notin op.out.fired
             /\ \A q \in results : w \in q.fired => q = r
        /\ ~(w \in due.fired /\ w \in op.out.fired)
    BY <1>1 DEF OwedInv
  <2>2. w \in InFlight'
    BY <1>13, <1>14, <2>1
  <2>3. CASE op.by = "take"
    BY <1>2, <2>1, <2>2, <2>3
  <2>4. CASE op.by = "resolve"
    <3> DEFINE r0 == [of |-> op.tick.of, fired |-> op.out.fired]
    <3>1. results' = results \cup {r0} /\ r0.fired = op.out.fired /\ due' = due
      BY <1>2, <2>4
    <3> HIDE DEF r0
    <3> QED BY <2>1, <2>2, <3>1
  <2>5. CASE op.by \notin {"take", "resolve"}
    BY <1>2, <2>1, <2>2, <2>5
  <2> QED BY <2>3, <2>4, <2>5
<1>16. FateInv'
  <2>1. \A w \in Wakes : Settling(w)' <=> Settling(w)
    BY <1>1 DEF Settling
  <2>2. \A w \in Wakes : started'[w] = started[w] \/ (fate[w] = "pending" /\ file[w].kind \notin OneShot)
    BY <1>3, <1>14
  <2> QED BY <1>1, <1>4, <1>13, <2>1, <2>2 DEF FateInv
<1>17. TableInv'
  BY <1>1, <1>5 DEF TableInv
<1> QED BY <1>9, <1>10, <1>11, <1>12, <1>15, <1>16, <1>17

\* The loop turns, is woken by something else, or begins to stop.
LEMMA LoopInv ==
  ASSUME WakeInv, Turn \/ Event \/ Shutdown
  PROVE  WakeInv'
<1> USE DEF WakeInv
<1>1. /\ table' = table /\ nextId' = nextId /\ made' = made /\ file' = file /\ op' = op
      /\ stopped' = stopped /\ due' = due /\ ticks' = ticks /\ results' = results
      /\ fate' = fate /\ started' = started
      /\ phase \in {"top", "select"} /\ phase' \in {"top", "select", "draining"}
  BY DEF Turn, Event, Shutdown, store
<1>2. deadline' \in 0 .. Never
  <2> DEFINE S == {Never} \cup {table[w].left : w \in Rows(table)}
  <2>1. S \in SUBSET (0 .. Never) /\ S # {}
    <3>1. \A w \in Rows(table) : table[w].left \in 0 .. Never
      <4>1. \A w \in Rows(table) : table[w].left \in Times
        BY DEF Types, Tables, RowType, Rows
      <4>2. \A n \in Times : n \in 0 .. Never
        BY ConstFacts
      <4> QED BY <4>1, <4>2
    <3>2. Never \in 0 .. Never
      BY ConstFacts
    <3> QED BY <3>1, <3>2
  <2>2. Min(S) \in 0 .. Never
    <3> HIDE DEF S
    <3>1. S \in SUBSET Nat
      BY <2>1, ConstFacts
    <3>2. Min(S) \in S
      BY <2>1, <3>1, LeastIn
    <3> QED BY <2>1, <3>2
  <2>3. CASE Turn
    <3>1. deadline' = IF stopped THEN Never ELSE Min(S)
      BY <2>3 DEF Turn
    <3> HIDE DEF S
    <3> QED BY <2>2, <3>1, ConstFacts
  <2>4. CASE Event \/ Shutdown
    BY <2>4 DEF Event, Shutdown, Types
  <2> QED BY <2>3, <2>4
<1>3. Types'
  BY <1>1, <1>2 DEF Types
<1>4. StoreInv'
  BY <1>1 DEF StoreInv, Free
<1>5. CallInv'
  BY <1>1 DEF CallInv, Free
<1>6. IdInv'
  BY <1>1 DEF IdInv, Unique, WithId
<1>7. InFlight' = InFlight
  BY <1>1 DEF InFlight
<1>8. OwedInv'
  BY <1>1, <1>7 DEF OwedInv
<1>9. FateInv'
  <2>1. \A w \in Wakes : Settling(w)' <=> Settling(w)
    BY <1>1 DEF Settling
  <2> QED BY <1>1, <1>7, <2>1 DEF FateInv
<1>10. TableInv'
  BY <1>1 DEF TableInv, Free
<1> QED BY <1>3, <1>4, <1>5, <1>6, <1>8, <1>9, <1>10

\* A process that stops with nothing left to do, or that is killed.
LEMMA StopInv ==
  ASSUME WakeInv, Exit \/ Crash
  PROVE  WakeInv'
<1> USE DEF WakeInv
<1>1. /\ table' = table /\ nextId' = nextId /\ made' = made /\ file' = file
      /\ deadline' = deadline /\ stopped' = stopped /\ started' = started
      /\ phase' = "off" /\ ticks' = {} /\ results' = {} /\ due' = NoDue
      /\ op' \in OpType /\ op'.by = "none" /\ op'.renamed = FALSE
      /\ op'.out.fired = {} /\ op'.out.ticks = {}
  <2>1. CASE Crash
    BY <2>1, NoOpFields, NoDueType DEF Crash
  <2>2. CASE Exit
    BY <2>2 DEF Exit, Drained, store, StoreInv, Free, Types
  <2> QED BY <2>1, <2>2
<1>2. \A w \in Wakes : fate'[w] = fate[w] \/ (fate[w] = "owed" /\ fate'[w] = "lost")
  BY DEF Crash, Exit
<1>3. \A w \in Wakes : fate'[w] # "owed"
  <2>1. CASE Crash
    BY <2>1 DEF Crash
  <2>2. CASE Exit
    <3>1. /\ due.fired = {} /\ results = {} /\ ~op.renamed /\ fate' = fate
      BY <2>2, NoDueType DEF Exit, Drained, StoreInv
    <3>2. \A w : w \notin InFlight
      BY <3>1 DEF InFlight
    <3> QED BY <3>1, <3>2 DEF OwedInv
  <2> QED BY <2>1, <2>2
<1>4. fate' \in [Wakes -> Fates]
  <2>1. \A w \in Wakes : fate[w] \in Fates /\ "lost" \in Fates
    BY DEF Types, Fates
  <2>2. \A w \in Wakes : fate'[w] \in Fates
    BY <1>2, <2>1
  <2>3. DOMAIN fate' = Wakes /\ fate' = [w \in Wakes |-> fate'[w]]
    BY DEF Crash, Exit, Types
  <2> QED BY <2>2, <2>3
<1>5. Free'
  BY <1>1 DEF Free
<1>6. Types'
  BY <1>1, <1>4, NoDueType DEF Types
<1>7. StoreInv'
  BY <1>1, <1>5 DEF StoreInv
<1>8. CallInv'
  BY <1>5 DEF CallInv
<1>9. IdInv'
  BY <1>1 DEF IdInv, Unique
<1>10. \A w : w \notin InFlight'
  BY <1>1, NoDueType DEF InFlight
<1>11. OwedInv'
  BY <1>3 DEF OwedInv
<1>12. FateInv'
  <2>1. \A w \in Wakes : fate'[w] = "pending" <=> fate[w] = "pending"
    BY <1>2
  <2> QED BY <1>1, <1>2, <1>10, <2>1 DEF FateInv
<1>13. TableInv'
  BY <1>1, <1>5 DEF TableInv
<1> QED BY <1>6, <1>7, <1>8, <1>9, <1>11, <1>12, <1>13

LEMMA TickPanicsInv ==
  ASSUME WakeInv, NEW x \in ticks, TickPanics(x)
  PROVE  WakeInv'
<1> USE DEF WakeInv
<1>1. /\ table' = table /\ nextId' = nextId /\ made' = made /\ file' = file /\ op' = op
      /\ phase' = phase /\ deadline' = deadline /\ stopped' = stopped /\ due' = due
      /\ fate' = fate /\ started' = started /\ ticks' \subseteq ticks
      /\ results' = results \cup {[of |-> x.of, fired |-> {}]} /\ phase # "off"
  BY DEF TickPanics, store, loop, StoreInv
<1>2. results' \subseteq [of : Wakes, fired : SUBSET Wakes]
  <2>1. x.of \in Wakes
    BY DEF Types, TickType
  <2> QED BY <1>1, <2>1 DEF Types
<1>3. /\ \A r \in results : r \in results'
      /\ \A r \in results' : r \in results \/ r.fired = {}
  BY <1>1
<1>4. Types'
  BY <1>1, <1>2 DEF Types
<1>5. StoreInv'
  BY <1>1 DEF StoreInv, Free
<1>6. CallInv'
  BY <1>1 DEF CallInv, Free
<1>7. IdInv'
  BY <1>1 DEF IdInv, Unique, WithId
<1>8. \A w : w \in InFlight' <=> w \in InFlight
  <2>1. \A w : (\E r \in results' : w \in r.fired) <=> (\E r \in results : w \in r.fired)
    BY <1>3
  <2> QED BY <1>1, <2>1 DEF InFlight
<1>9. OwedInv'
  <2>1. \A w \in Wakes : fate[w] = "owed" =>
          \A r \in results' : w \in r.fired =>
            /\ w \notin due.fired /\ ~(op.renamed /\ w \in op.out.fired)
            /\ \A q \in results' : w \in q.fired => q = r
    BY <1>3 DEF OwedInv
  <2> QED BY <1>1, <1>8, <2>1 DEF OwedInv
<1>10. FateInv'
  <2>1. \A w \in Wakes : Settling(w)' <=> Settling(w)
    BY <1>1 DEF Settling
  <2> QED BY <1>1, <1>8, <2>1 DEF FateInv
<1>11. TableInv'
  BY <1>1 DEF TableInv, Free
<1> QED BY <1>4, <1>5, <1>6, <1>7, <1>9, <1>10, <1>11

\* Wakes that are on their way start, and are on their way no longer.
LEMMA StartInv ==
  ASSUME WakeInv, NEW set \in SUBSET InFlight, Start(set),
         file' = file, op' = op, made' = made,
         \A w : w \in InFlight' => w \in InFlight,
         \A w : w \in InFlight /\ w \notin set => w \in InFlight',
         \A w \in Wakes : w \in set /\ fate[w] = "owed" => w \notin InFlight',
         results' \subseteq results, \A w : w \in due'.fired => w \in due.fired
  PROVE  /\ OwedInv' /\ FateInv'
         /\ fate' \in [Wakes -> Fates] /\ started' \in [Wakes -> 0 .. 2]
<1> USE DEF WakeInv
<1>1. /\ started' \in [Wakes -> 0 .. 2]
      /\ \A w \in Wakes : w \notin set => started'[w] = started[w]
      /\ \A w \in Wakes : w \in set /\ started[w] = 0 => started'[w] = 1
  BY StartAllFields DEF Start
<1>2. \A w \in Wakes : fate'[w] = IF w \in set /\ fate[w] = "owed" THEN "started" ELSE fate[w]
  BY DEF Start
<1>3. fate' \in [Wakes -> Fates]
  <2>1. \A w \in Wakes : fate[w] \in Fates /\ "started" \in Fates
    BY DEF Types, Fates
  <2>2. \A w \in Wakes : fate'[w] \in Fates
    BY <1>2, <2>1
  <2> QED BY <2>2 DEF Start
<1>4. OwedInv'
  <2> SUFFICES ASSUME NEW w \in Wakes, fate'[w] = "owed"
               PROVE  /\ w \in InFlight'
                      /\ \A r \in results' : w \in r.fired =>
                           /\ w \notin due'.fired /\ ~(op.renamed /\ w \in op.out.fired)
                           /\ \A q \in results' : w \in q.fired => q = r
                      /\ ~(w \in due'.fired /\ op.renamed /\ w \in op.out.fired)
    BY DEF OwedInv
  <2>1. fate[w] = "owed" /\ w \notin set
    BY <1>2
  <2>2. /\ w \in InFlight
        /\ \A r \in results : w \in r.fired =>
             /\ w \notin due.fired /\ ~(op.renamed /\ w \in op.out.fired)
             /\ \A q \in results : w \in q.fired => q = r
        /\ ~(w \in due.fired /\ op.renamed /\ w \in op.out.fired)
    BY <2>1 DEF OwedInv
  <2> QED BY <2>1, <2>2
<1>5. FateInv'
  <2>1. ASSUME NEW w \in Wakes
        PROVE  /\ w \in set => ~Settling(w)
               /\ Settling(w)' => Settling(w) \/ (w \in set /\ fate[w] = "owed")
               /\ fate'[w] = "pending" <=> fate[w] = "pending"
               /\ fate'[w] = "none" <=> fate[w] = "none"
    <3>1. w \in set => ~Settling(w)
      BY DEF FateInv
    <3>2. Settling(w)' => Settling(w) \/ (w \in set /\ fate[w] = "owed")
      BY <1>2 DEF Settling
    <3> QED BY <1>2, <3>1, <3>2
  <2>2. \A w \in Wakes : Settling(w)' => w \notin InFlight'
    BY <2>1 DEF FateInv
  <2>3. ASSUME NEW w \in Wakes
        PROVE  /\ fate'[w] = "started" => started'[w] = 1
               /\ fate'[w] \in {"none", "owed", "lost", "cancelled"} => started'[w] = 0
               /\ fate'[w] = "pending" /\ file[w].kind \in OneShot => started'[w] = 0
    <3>1. /\ fate[w] = "started" => started[w] = 1
          /\ fate[w] \in {"none", "owed", "lost", "cancelled"} => started[w] = 0
          /\ fate[w] = "pending" /\ file[w].kind \in OneShot => started[w] = 0
      BY DEF FateInv
    <3>2. CASE w \in set
      <4>1. fate[w] \notin {"none", "started", "cancelled", "lost"}
            /\ ~(fate[w] = "pending" /\ file[w].kind \in OneShot)
        BY <2>1, <3>2 DEF Settling
      <4> QED BY <1>1, <1>2, <3>1, <3>2, <4>1
    <3>3. CASE w \notin set
      BY <1>1, <1>2, <3>1, <3>3
    <3> QED BY <3>2, <3>3
  <2>4. op.by = "register" /\ ~op.renamed => fate'[made] = "none"
    <3>1. op.by = "register" => made \in Wakes
      BY DEF CallInv, Free
    <3> QED BY <2>1, <3>1 DEF FateInv
  <2> QED BY <2>1, <2>2, <2>3, <2>4 DEF FateInv
<1> QED BY <1>1, <1>3, <1>4, <1>5

LEMMA HandleDueInv ==
  ASSUME WakeInv, NEW admitted, HandleDue(admitted)
  PROVE  WakeInv'
<1> USE DEF WakeInv
<1>1. /\ table' = table /\ nextId' = nextId /\ made' = made /\ file' = file /\ op' = op
      /\ phase = "handling" /\ phase' = "top" /\ deadline' = deadline /\ stopped' = stopped
      /\ due' = NoDue /\ results' = results /\ Start(due.fired)
      /\ ticks' \subseteq ticks \cup due.ticks
  BY DEF HandleDue, store
<1>2. due'.fired = {} /\ due'.ticks = {} /\ due' \in DueType
  BY <1>1, NoDueType
<1>3. /\ \A w : w \in InFlight <=> \/ w \in due.fired \/ (op.renamed /\ w \in op.out.fired)
                                   \/ \E r \in results : w \in r.fired
      /\ \A w : w \in InFlight' <=> \/ op.renamed /\ w \in op.out.fired
                                    \/ \E r \in results : w \in r.fired
  <2>1. \A w : w \in InFlight' <=> \/ op.renamed /\ w \in op.out.fired
                                   \/ \E r \in results : w \in r.fired
    BY <1>1, <1>2 DEF InFlight
  <2> QED BY <2>1, InFlightIs
<1>4. \A w \in Wakes : w \in due.fired /\ fate[w] = "owed" => w \notin InFlight'
  BY <1>3 DEF OwedInv
<1>5. /\ OwedInv' /\ FateInv'
      /\ fate' \in [Wakes -> Fates] /\ started' \in [Wakes -> 0 .. 2]
  <2>1. due.fired \in SUBSET InFlight
    BY <1>3
  <2> QED BY <1>1, <1>2, <1>3, <1>4, <2>1, StartInv
<1>6. Types'
  <2>1. ticks' \subseteq TickType
    BY <1>1 DEF Types, DueType
  <2> QED BY <1>1, <1>2, <1>5, <2>1 DEF Types
<1>7. StoreInv'
  BY <1>1 DEF StoreInv, Free
<1>8. CallInv'
  BY <1>1 DEF CallInv, Free
<1>9. IdInv'
  BY <1>1, <1>2 DEF IdInv, Unique, WithId
<1>10. TableInv'
  BY <1>1 DEF TableInv, Free
<1> QED BY <1>5, <1>6, <1>7, <1>8, <1>9, <1>10

LEMMA JoinTickInv ==
  ASSUME WakeInv, NEW r \in results, JoinTick(r)
  PROVE  WakeInv'
<1> USE DEF WakeInv
<1>1. /\ table' = table /\ nextId' = nextId /\ made' = made /\ file' = file /\ op' = op
      /\ phase \in {"draining", "select"} /\ phase' \in {"draining", "top"}
      /\ deadline' = deadline /\ stopped' = stopped
      /\ due' = due /\ results' = results \ {r} /\ Start(r.fired) /\ ticks' = ticks
  BY DEF JoinTick, store
<1>2. /\ \A w : w \in InFlight <=> \/ w \in due.fired \/ (op.renamed /\ w \in op.out.fired)
                                   \/ \E q \in results : w \in q.fired
      /\ \A w : w \in InFlight' <=> \/ w \in due.fired \/ (op.renamed /\ w \in op.out.fired)
                                    \/ \E q \in results \ {r} : w \in q.fired
  <2>1. \A w : w \in InFlight' <=> \/ w \in due.fired \/ (op.renamed /\ w \in op.out.fired)
                                   \/ \E q \in results \ {r} : w \in q.fired
    BY <1>1 DEF InFlight
  <2> QED BY <2>1, InFlightIs
<1>3. \A w \in Wakes : w \in r.fired /\ fate[w] = "owed" => w \notin InFlight'
  BY <1>2 DEF OwedInv
<1>4. /\ OwedInv' /\ FateInv'
      /\ fate' \in [Wakes -> Fates] /\ started' \in [Wakes -> 0 .. 2]
  <2>1. r.fired \in SUBSET InFlight
    BY <1>2
  <2>2. \A w : w \in InFlight' => w \in InFlight
    BY <1>2
  <2>3. \A w : w \in InFlight /\ w \notin r.fired => w \in InFlight'
    BY <1>2
  <2> QED BY <1>1, <1>3, <2>1, <2>2, <2>3, StartInv
<1>5. Types'
  BY <1>1, <1>4 DEF Types
<1>6. StoreInv'
  BY <1>1 DEF StoreInv, Free
<1>7. CallInv'
  BY <1>1 DEF CallInv, Free
<1>8. IdInv'
  BY <1>1 DEF IdInv, Unique, WithId
<1>9. TableInv'
  BY <1>1 DEF TableInv, Free
<1> QED BY <1>4, <1>5, <1>6, <1>7, <1>8, <1>9

\* A restart goes on from the file, with ids above every id in it.
LEMMA OpenInv ==
  ASSUME WakeInv, Open
  PROVE  WakeInv'
<1> USE DEF WakeInv
<1>0. /\ made \in Nat /\ MaxWakes \in Nat /\ made <= MaxWakes
      /\ \A t \in Tables, w \in Wakes : t[w] \in RowType /\ t[w].id \in Nat
      /\ \A t : Rows(t) \subseteq Wakes
  BY NumberFacts DEF Types
<1>1. /\ phase = "off" /\ phase' = "top" /\ table' = file /\ file' = file /\ made' = made
      /\ op' = op /\ due' = due /\ ticks' = ticks /\ results' = results /\ fate' = fate
      /\ started' = started /\ deadline' = Never /\ stopped' = FALSE
      /\ Free /\ ticks = {} /\ results = {} /\ due = NoDue /\ ~op.renamed
  BY DEF Open, StoreInv
<1>2. /\ nextId' \in 1 .. (made + 1)
      /\ \A w \in Rows(file) : file[w].id < nextId'
  <2> DEFINE S == {0} \cup {file[w].id : w \in Rows(file)}
  <2>1. S \in SUBSET (0 .. made) /\ S # {}
    <3>1. \A w \in Rows(file) : file[w].id \in 0 .. made
      BY <1>0 DEF IdInv
    <3> QED BY <1>0, <3>1
  <2>2. nextId' = Max(S) + 1
    BY DEF Open
  <2>3. \A w \in Rows(file) : file[w].id \in S
    OBVIOUS
  <2> HIDE DEF S
  <2>4. Max(S) \in S /\ \A m \in S : Max(S) >= m
    BY <1>0, <2>1, GreatestIn
  <2>5. \A m \in S : m \in Nat /\ m <= made
    BY <1>0, <2>1
  <2> QED BY <1>0, <2>2, <2>3, <2>4, <2>5
<1>3. Types'
  <2>1. nextId' \in 1 .. (MaxWakes + 1)
    BY <1>0, <1>2
  <2>2. Never \in 0 .. Never
    BY ConstFacts
  <2> QED BY <1>1, <2>1, <2>2 DEF Types
<1>4. StoreInv'
  BY <1>1 DEF StoreInv, Free
<1>5. CallInv'
  BY <1>1 DEF CallInv, Free
<1>6. IdInv'
  <2>1. nextId' <= made + 1
    BY <1>0, <1>2
  <2>2. op'.by # "register"
    BY <1>1 DEF Free
  <2>3. ticks' \cup due'.ticks = {}
    BY <1>1, NoDueType
  <2> QED BY <1>1, <1>2, <2>1, <2>2, <2>3 DEF IdInv, Unique
<1>7. InFlight' = InFlight
  BY <1>1 DEF InFlight
<1>8. OwedInv'
  BY <1>1, <1>7 DEF OwedInv
<1>9. FateInv'
  <2>1. \A w \in Wakes : Settling(w)' <=> Settling(w)
    BY <1>1 DEF Settling
  <2> QED BY <1>1, <1>7, <2>1 DEF FateInv
<1>10. TableInv'
  BY <1>1 DEF TableInv, Free
<1> QED BY <1>3, <1>4, <1>5, <1>6, <1>8, <1>9, <1>10

\* Time moves no row but in its times.
LEMMA AgeRows ==
  ASSUME NEW t \in Tables
  PROVE  /\ Age(t) \in Tables /\ Rows(Age(t)) = Rows(t)
         /\ \A w \in Wakes : Same(Age(t)[w], t[w])
         /\ Shrinks(Age(t), t)
<1>1. \A w \in Wakes : Age(t)[w] = Aged(t[w]) /\ t[w] \in RowType
  BY DEF Age, Tables
<1>2. \A w \in Wakes : Age(t)[w] \in RowType /\ Same(Age(t)[w], t[w])
  BY <1>1, AgedFields
<1>3. Age(t) \in Tables
  BY <1>2 DEF Age, Tables
<1>4. Rows(Age(t)) = Rows(t)
  BY <1>2 DEF Rows, Same
<1> QED BY <1>2, <1>3, <1>4 DEF Shrinks, Rows

LEMMA PassInv ==
  ASSUME WakeInv, Pass
  PROVE  WakeInv'
<1> USE DEF WakeInv
<1>1. /\ table' = Age(table) /\ file' = Age(file) /\ nextId' = nextId /\ made' = made
      /\ phase' = phase /\ stopped' = stopped /\ due' = due /\ ticks' = ticks
      /\ results' = results /\ fate' = fate /\ started' = started
      /\ table \in Tables /\ file \in Tables /\ op.rows \in Tables /\ op \in OpType
  BY DEF Pass, Types, OpType
<1>2. /\ table' \in Tables /\ file' \in Tables /\ Age(op.rows) \in Tables
      /\ Rows(table') = Rows(table) /\ Rows(file') = Rows(file)
      /\ Rows(Age(op.rows)) = Rows(op.rows)
      /\ \A w \in Wakes : Same(table'[w], table[w]) /\ Same(file'[w], file[w])
                          /\ Same(Age(op.rows)[w], op.rows[w])
      /\ Shrinks(table', table) /\ Shrinks(file', file) /\ Shrinks(Age(op.rows), op.rows)
  BY <1>1, AgeRows
<1>3. /\ op' \in OpType /\ op'.by = op.by /\ op'.rows = Age(op.rows) /\ op'.out = op.out
      /\ op'.tick = op.tick /\ op'.fate = op.fate /\ op'.renamed = op.renamed
  BY <1>1, <1>2 DEF Pass, OpType
<1>4. Free' <=> Free
  BY <1>3 DEF Free
<1>5. Types'
  <2>1. deadline' \in 0 .. Never
    BY ConstFacts DEF Pass, Later, Types
  <2> QED BY <1>1, <1>2, <1>3, <2>1 DEF Types
<1>6. StoreInv'
  BY <1>1, <1>3, <1>4 DEF StoreInv
<1>7. CallInv'
  <2>0. \A t : Rows(t) \subseteq Wakes
    BY DEF Rows
  <2> SUFFICES ASSUME ~Free
               PROVE  CallInv'
    BY <1>4 DEF CallInv
  <2>1. \A w \in Rows(op'.rows) :
           \/ w \in Rows(table') /\ Same(op'.rows[w], table'[w])
           \/ op'.by = "register" /\ w = made' /\ op'.rows[w].id = nextId'
    BY <1>1, <1>2, <1>3, <2>0 DEF CallInv, Same
  <2>2. \A w \in op'.out.fired :
           /\ w \in Rows(table')
           /\ w \in Rows(op'.rows) <=> table'[w].kind \notin OneShot
           /\ op'.by = "deliver" => table'[w].kind = "subscription"
    BY <1>1, <1>2, <1>3, <2>0 DEF CallInv, Same
  <2>3. \A x \in op'.out.ticks : x.of \in Rows(table') /\ table'[x.of].id = x.id
    BY <1>1, <1>2, <1>3, <2>0 DEF CallInv, Same
  <2>4. op'.by = "register" => made' \in Wakes /\ made' \notin Rows(table')
    BY <1>1, <1>2, <1>3 DEF CallInv
  <2> QED BY <2>1, <2>2, <2>3, <2>4 DEF CallInv
<1>8. IdInv'
  <2>0. \A t : Rows(t) \subseteq Wakes
    BY DEF Rows
  <2>1. Unique(table') /\ Unique(file')
    BY <1>2, <2>0 DEF IdInv, Unique, Same
  <2>2. \A id : WithId(table', id) = WithId(table, id)
    BY <1>2, <2>0 DEF WithId, Same
  <2>3. /\ \A w \in Rows(table) : table'[w].id = table[w].id
        /\ \A w \in Rows(file) : file'[w].id = file[w].id
    BY <1>2, <2>0 DEF Same
  <2> QED BY <1>1, <1>2, <1>3, <2>1, <2>2, <2>3 DEF IdInv
<1>9. InFlight' = InFlight
  BY <1>1, <1>3 DEF InFlight
<1>10. OwedInv'
  BY <1>1, <1>3, <1>9 DEF OwedInv
<1>11. FateInv'
  <2>1. \A w \in Wakes : file'[w].kind = file[w].kind
    BY <1>2 DEF Same
  <2>2. \A w \in Wakes : Settling(w)' <=> Settling(w)
    BY <1>1, <2>1 DEF Settling
  <2> QED BY <1>1, <1>2, <1>3, <1>9, <2>1, <2>2 DEF FateInv
<1>12. TableInv'
  BY <1>1, <1>2, <1>3, <1>4, ShrinksOK DEF TableInv
<1> QED BY <1>5, <1>6, <1>7, <1>8, <1>10, <1>11, <1>12

LEMMA WakeInit ==
  ASSUME Init
  PROVE  WakeInv
<1>1. /\ table \in Tables /\ file = table /\ \A w \in Wakes : table[w].kind = "none"
      /\ nextId = 1 /\ made = 0 /\ op = NoOp /\ phase = "top" /\ deadline = Never
      /\ stopped = FALSE /\ due = NoDue /\ ticks = {} /\ results = {}
      /\ fate = [w \in Wakes |-> "none"] /\ started = [w \in Wakes |-> 0]
  BY NoRowFields DEF Init, Tables
<1>2. op \in OpType /\ op.by = "none" /\ op.renamed = FALSE /\ op.out.fired = {} /\ op.out.ticks = {}
  BY <1>1, NoOpFields, NoDueType
<1>3. Rows(table) = {} /\ Free
  BY <1>1, <1>2 DEF Rows, Free
<1>4. Types
  <2>1. nextId \in 1 .. (MaxWakes + 1) /\ made \in 0 .. MaxWakes /\ deadline \in 0 .. Never
    BY <1>1, ConstFacts
  <2>2. fate \in [Wakes -> Fates] /\ started \in [Wakes -> 0 .. 2]
    BY <1>1 DEF Fates
  <2>3. due \in DueType /\ ticks \subseteq TickType /\ table \in Tables /\ file \in Tables
        /\ phase \in {"top", "select", "taking", "handling", "draining", "off"} /\ stopped \in BOOLEAN
        /\ results \subseteq [of : Wakes, fired : SUBSET Wakes]
    BY <1>1, NoDueType
  <2> QED BY <1>2, <2>1, <2>2, <2>3 DEF Types
<1>5. StoreInv
  BY <1>1, <1>2, <1>3 DEF StoreInv
<1>6. CallInv
  BY <1>3 DEF CallInv
<1>7. IdInv
  BY <1>1, <1>2, <1>3, NoDueType DEF IdInv, Unique
<1>8. \A w : w \notin InFlight
  BY <1>1, <1>2, NoDueType DEF InFlight
<1>9. OwedInv
  BY <1>1 DEF OwedInv
<1>10. FateInv
  BY <1>1, <1>2, <1>3, <1>8 DEF FateInv
<1>11. TableInv
  <2>1. Cardinality({}) = 0
    BY FS_EmptySet
  <2>2. Subscriptions(table) = {} /\ MaxPerSubject >= 0 /\ MaxSubscriptions >= 0
    BY <1>3, ConstFacts DEF Subscriptions
  <2>3. ASSUME NEW o
        PROVE  /\ Cardinality(ScheduledOf(table, o)) = 0
               /\ Cardinality({w \in ScheduledOf(table, o) : table[w].kind = "digest"}) = 0
    <3>1. ScheduledOf(table, o) = {}
      BY <1>3 DEF ScheduledOf
    <3>2. {w \in ScheduledOf(table, o) : table[w].kind = "digest"} = {}
      BY <3>1
    <3> QED BY <2>1, <3>1, <3>2
  <2>4. Limits(table)
    BY <2>1, <2>2, <2>3 DEF Limits
  <2> QED BY <1>1, <1>3, <2>4 DEF TableInv, TableOK
<1> QED BY <1>4, <1>5, <1>6, <1>7, <1>9, <1>10, <1>11 DEF WakeInv

LEMMA WakeStutters ==
  ASSUME WakeInv, UNCHANGED vars
  PROVE  WakeInv'
<1> USE DEF WakeInv
<1>1. /\ table' = table /\ nextId' = nextId /\ made' = made /\ file' = file /\ op' = op
      /\ phase' = phase /\ deadline' = deadline /\ stopped' = stopped /\ due' = due
      /\ ticks' = ticks /\ results' = results /\ fate' = fate /\ started' = started
  BY DEF vars
<1>2. InFlight' = InFlight /\ (Free' <=> Free)
  BY <1>1 DEF InFlight, Free
<1>3. \A w \in Wakes : Settling(w)' <=> Settling(w)
  BY <1>1 DEF Settling
<1>4. Types' /\ StoreInv' /\ CallInv'
  BY <1>1, <1>2 DEF Types, StoreInv, CallInv
<1>5. IdInv'
  BY <1>1 DEF IdInv
<1>6. OwedInv' /\ FateInv' /\ TableInv'
  BY <1>1, <1>2, <1>3 DEF OwedInv, FateInv, TableInv
<1> QED BY <1>4, <1>5, <1>6

LEMMA WakeInductive == Spec => []WakeInv
<1>1. Init => WakeInv
  BY WakeInit
<1>2. WakeInv /\ [Next]_vars => WakeInv'
  <2> SUFFICES ASSUME WakeInv, [Next]_vars
               PROVE  WakeInv'
    OBVIOUS
  <2>1. CASE UNCHANGED vars
    BY <2>1, WakeStutters
  <2>2. CASE Rename \/ WriteFails \/ Commit \/ Open \/ Pass
    BY <2>2, RenameInv, WriteFailsInv, CommitInv, OpenInv, PassInv
  <2>3. CASE Turn \/ Event \/ Shutdown \/ Exit \/ Crash
    BY <2>3, LoopInv, StopInv
  <2>4. CASE \E admitted \in SUBSET due.ticks : HandleDue(admitted)
    BY <2>4, HandleDueInv
  <2>5. CASE \E x \in ticks : TickPanics(x)
    BY <2>5, TickPanicsInv
  <2>6. CASE \E r \in results : JoinTick(r)
    BY <2>6, JoinTickInv
  <2>7. CASE Calls
    BY <2>7, CallsCalled, CalledInv DEF WakeInv
  <2> QED BY <2>1, <2>2, <2>3, <2>4, <2>5, <2>6, <2>7 DEF Next, Calls
<1> QED BY <1>1, <1>2, PTL DEF Spec

-------------------------------------------------------------------------------
(* What follows from it. *)

\* The state has its types, and no file or table ever holds more rows than the
\* bounds allow: so many scheduled wakes a subject, so many subscriptions, one
\* digest a space (WakeStore::register and subscribe).
THEOREM WakeTypes == Spec => []TypeOK
<1>1. WakeInv => TypeOK
  BY DEF WakeInv, Types, TypeOK, TableInv, TableOK, Tables, OpType
<1> QED BY <1>1, WakeInductive, PTL

\* A one-shot wake or a watch starts at most once, whatever crashes, failed
\* writes and restarts come between take_due, Tick::resolve and start_wake.
THEOREM FiredAtMostOnce == Spec => []AtMostOnce
<1>1. WakeInv => AtMostOnce
  BY DEF WakeInv, AtMostOnce, FateInv, OneShot
<1> QED BY <1>1, WakeInductive, PTL

\* A row that was retired to fire has its wake on the way to a session: only
\* Crash loses one.
THEOREM OwedIsInFlight == Spec => []NotForgotten
<1>1. WakeInv => NotForgotten
  BY DEF WakeInv, NotForgotten, OwedInv
<1> QED BY <1>1, WakeInductive, PTL

\* A wake that cancel_for removed has not started and is not on its way, although
\* its probe may still run and report.
THEOREM CancelledNeverFires == Spec => []CancelHonoured
<1>1. WakeInv => CancelHonoured
  BY DEF WakeInv, CancelHonoured, FateInv, Settling
<1> QED BY <1>1, WakeInductive, PTL

\* Ids of rows are distinct, and a probe's id finds its own row or none, although
\* a restart hands out the ids of wakes that ended again.
THEOREM IdsAreUnique == Spec => []IdsNameOneWake
<1>1. WakeInv => IdsNameOneWake
  BY DEF WakeInv, IdsNameOneWake, IdInv, Unique
<1> QED BY <1>1, WakeInductive, PTL
================================================================================
