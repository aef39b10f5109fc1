-------------------------- MODULE RateLimiterProofs --------------------------
(***************************************************************************)
(* Proofs about RateLimiter: for any keys, projects, limits, calendar and  *)
(* number of requests, the requests let past a counter respect its limit.  *)
(*                                                                         *)
(* The argument is that a counter is exact (CounterIsExact) as long as a   *)
(* walk may come to it, since a walk lags less behind the clock than the   *)
(* counter's expiry; so the value a request compares with its limit is     *)
(* what the requests that have charged the counter are worth, itself       *)
(* included: their number, or their tokens.                                *)
(***************************************************************************)
EXTENDS RateLimiter, FiniteSetTheorems, TLAPS

\* A walk has a step to go, and has not fallen behind the clock.
Walks ==
  \A r \in Requests :
    /\ status[r] = "new" => charged[r] = 0
    /\ status[r] = "walking" => charged[r] < WalkLength /\ minute <= at[r] + 1
    /\ status[r] = "refused" => charged[r] > 0

\* A key's request counter has refused nobody, or has let the limit pass.
RefusesWhenFull ==
  \A c \in Counters :
    c.scope \in Keys /\ c.meter \in RequestMeters =>
      Passing(c) = Charging(c) \/ Cardinality(Passing(c)) >= Limit(c.scope, c.meter)

Inv == /\ TypeOK /\ Walks /\ CounterIsExact
       /\ KeyWithinLimit /\ RefusesWhenFull
       /\ ProjectWithinLargestLimit /\ TokensWithinLimit

-----------------------------------------------------------------------------
\* Every counter has a meter, a scope and a window (the names of limiter.py).
LEMMA CounterFields ==
  ASSUME NEW c \in Counters
  PROVE  /\ c.meter \in Meters /\ c.scope \in Keys \cup Projects
         /\ c = [meter |-> c.meter, scope |-> c.scope, window |-> c.window]
         /\ StepOf(c) \in 1..WalkLength /\ MeterAt(StepOf(c)) = c.meter
         /\ StepOf(c) > 4 <=> c.scope \in Projects
<1>1. PICK m \in Meters : c \in [meter : {m}, scope : Keys \cup Projects,
                                 window : {WindowAt(m, t) : t \in 0..Horizon}]
  BY DEF Counters
<1>2. /\ c.meter \in Meters /\ c.scope \in Keys \cup Projects
      /\ c = [meter |-> c.meter, scope |-> c.scope, window |-> c.window]
  BY <1>1
<1>3. /\ StepOf(c) \in 1..WalkLength /\ MeterAt(StepOf(c)) = c.meter
      /\ StepOf(c) > 4 <=> c.scope \in Projects
  BY <1>2 DEF StepOf, MeterAt, WalkLength, Meters
<1> QED
  BY <1>2, <1>3

\* A step of a walk names one counter, and that counter names its step: no
\* request comes to a counter twice (the two loops of enforce_limits).
LEMMA StepNames ==
  ASSUME NEW k \in Keys, NEW t \in 0..Horizon, NEW s \in 1..WalkLength
  PROVE  /\ CounterAt(k, t, s) \in Counters
         /\ StepOf(CounterAt(k, t, s)) = s
         /\ CounterAt(k, t, s).meter = MeterAt(s)
<1>1. MeterAt(s) \in Meters
  BY DEF MeterAt, Meters
<1>2. ScopeAt(k, s) \in Keys \cup Projects /\ (ScopeAt(k, s) \in Projects <=> s > 4)
  BY KeysAssumption DEF ScopeAt, WalkLength
<1>3. CounterAt(k, t, s) \in [meter : {MeterAt(s)}, scope : Keys \cup Projects,
                    window : {WindowAt(MeterAt(s), u) : u \in 0..Horizon}]
  BY <1>2 DEF CounterAt
<1>4. CounterAt(k, t, s) \in Counters
  BY <1>1, <1>3 DEF Counters
<1>5. /\ CounterAt(k, t, s).meter = MeterAt(s)
      /\ CounterAt(k, t, s).scope = ScopeAt(k, s)
  BY DEF CounterAt
<1>6. StepOf(CounterAt(k, t, s)) = s
  BY <1>2, <1>5 DEF StepOf, MeterAt, WalkLength
<1> QED
  BY <1>4, <1>5, <1>6

\* There are finitely many requests, so the counts below are numbers.
LEMMA Finite ==
  ASSUME NEW S \in SUBSET Requests
  PROVE  IsFiniteSet(S) /\ Cardinality(S) \in Nat
BY KeysAssumption, FS_Subset, FS_CardinalityType

\* A limit is a number.
LEMMA LimitIsNat ==
  ASSUME NEW k \in Keys, NEW m \in Meters PROVE Limit(k, m) \in Nat
BY KeysAssumption DEF Limit

-----------------------------------------------------------------------------
\* What _add is called with is what a request is worth.
LEMMA SharesCount ==
  ASSUME NEW m \in Meters, NEW n \in Nat
  PROVE  IsFiniteSet(Shares(m, n)) /\ Cardinality(Shares(m, n)) = Amount(m, n)
<1>1. CASE m # "tpm" \/ n = 0
  <2>1. Shares(m, n) = {1}
    BY <1>1 DEF Shares
  <2> QED
    BY <1>1, <2>1, FS_Singleton DEF Amount
<1>2. CASE m = "tpm" /\ n # 0
  <2>1. Shares(m, n) = 1..n
    BY <1>2 DEF Shares
  <2>2. IsFiniteSet(1..n) /\ Cardinality(1..n) = n
    BY <1>2, FS_Interval
  <2> QED
    BY <1>2, <2>1, <2>2 DEF Amount
<1> QED
  BY <1>1, <1>2

\* The units of one request.
LEMMA OwnUnits ==
  ASSUME NEW m \in Meters, NEW n \in Nat, NEW r
  PROVE  /\ IsFiniteSet({r} \X Shares(m, n))
         /\ Cardinality({r} \X Shares(m, n)) = Amount(m, n)
<1>1. IsFiniteSet({r}) /\ Cardinality({r}) = 1
  BY FS_Singleton
<1>2. /\ IsFiniteSet({r} \X Shares(m, n))
      /\ Cardinality({r} \X Shares(m, n)) = Cardinality({r}) * Cardinality(Shares(m, n))
  BY <1>1, SharesCount, FS_Product
<1>3. Amount(m, n) \in Nat
  BY DEF Amount
<1>4. 1 * Amount(m, n) = Amount(m, n)
  BY <1>3
<1> QED
  BY <1>1, <1>2, <1>4, SharesCount

\* The units of some requests can be counted, and fewer requests have no more.
LEMMA UnitsFinite ==
  ASSUME TypeOK, NEW m \in Meters, NEW S \in SUBSET Requests
  PROVE  /\ IsFiniteSet(Units(m, S)) /\ Cardinality(Units(m, S)) \in Nat
         /\ \A T \in SUBSET S : Cardinality(Units(m, T)) <= Cardinality(Units(m, S))
<1> DEFINE f == [r \in S |-> {r} \X Shares(m, tokens[r])]
           All == {{r} \X Shares(m, tokens[r]) : r \in S}
<1>1. f \in Surjection(S, All)
  BY DEF Surjection
<1>2. IsFiniteSet(All)
  BY <1>1, Finite, FS_Surjection
<1>3. \A r \in S : tokens[r] \in Nat
  BY KeysAssumption DEF TypeOK
<1>4. \A X \in All : IsFiniteSet(X)
  BY <1>3, OwnUnits
<1>5. IsFiniteSet(UNION All)
  BY <1>2, <1>4, FS_UNION
<1>6. IsFiniteSet(Units(m, S)) /\ Cardinality(Units(m, S)) \in Nat
  BY <1>5, FS_CardinalityType DEF Units
<1>7. ASSUME NEW T \in SUBSET S
      PROVE  Cardinality(Units(m, T)) <= Cardinality(Units(m, S))
  <2>1. Units(m, T) \subseteq Units(m, S)
    BY DEF Units
  <2> QED
    BY <1>6, <2>1, FS_Subset
<1> QED
  BY <1>6, <1>7

\* A request that joins adds what it is worth.
LEMMA UnitsJoin ==
  ASSUME TypeOK, NEW m \in Meters, NEW S \in SUBSET Requests,
         NEW r \in Requests, r \notin S
  PROVE  Cardinality(Units(m, S \cup {r})) =
           Cardinality(Units(m, S)) + Amount(m, tokens[r])
<1> DEFINE own == {r} \X Shares(m, tokens[r])
           old == Units(m, S)
<1>1. Units(m, S \cup {r}) = old \cup own /\ old \cap own = {}
  BY DEF Units
<1>2. tokens[r] \in Nat
  BY KeysAssumption DEF TypeOK
<1>3. IsFiniteSet(own) /\ Cardinality(own) = Amount(m, tokens[r])
  BY <1>2, OwnUnits
<1>4. IsFiniteSet(old) /\ Cardinality(old) \in Nat
  BY UnitsFinite
<1>5. Amount(m, tokens[r]) \in Nat
  BY <1>2 DEF Amount
<1> HIDE DEF own, old
<1>6. Cardinality(old \cup own) =
        Cardinality(old) + Cardinality(own) - Cardinality(old \cap own)
  BY <1>3, <1>4, FS_Union
<1>7. Cardinality(old \cap own) = 0
  BY <1>1, FS_EmptySet
<1>8. Cardinality(old \cup own) = Cardinality(old) + Amount(m, tokens[r]) - 0
  BY <1>3, <1>6, <1>7
<1>9. Cardinality(old \cup own) = Cardinality(old) + Amount(m, tokens[r])
  BY <1>4, <1>5, <1>8
<1> QED
  BY <1>1, <1>9 DEF old

\* On the meters of requests each is worth one.
LEMMA OneEach ==
  ASSUME NEW m \in RequestMeters, NEW S \in SUBSET Requests
  PROVE  Cardinality(Units(m, S)) = Cardinality(S)
<1>1. Units(m, S) = S \X {1}
  BY DEF Units, Shares, RequestMeters
<1>2. IsFiniteSet({1}) /\ Cardinality({1}) = 1
  BY FS_Singleton
<1>3. IsFiniteSet(S) /\ Cardinality(S) \in Nat
  BY Finite
<1>4. Cardinality(S \X {1}) = Cardinality(S) * Cardinality({1})
  BY <1>2, <1>3, FS_Product
<1>5. Cardinality(S) * 1 = Cardinality(S)
  BY <1>3
<1> QED
  BY <1>1, <1>2, <1>4, <1>5

-----------------------------------------------------------------------------
\* A walk begins at the clock's minute and ends at its eighth counter.
LEMMA TypeStep == ASSUME TypeOK, Walks, [Next]_vars PROVE TypeOK' /\ Walks'
<1> USE DEF TypeOK, Walks
<1>1. ASSUME NEW r \in Requests, Start(r) PROVE TypeOK' /\ Walks'
  BY <1>1, ClockAssumption, SMTT(60) DEF Start, WalkLength
<1>2. ASSUME NEW r \in Requests, Charge(r) PROVE TypeOK' /\ Walks'
  <2> DEFINE s == charged[r] + 1
             c == CounterAt(key[r], at[r], s)
             count == counters[c] + Amount(c.meter, tokens[r])
  <2>1. s \in 1..WalkLength
    BY <1>2 DEF Charge, WalkLength
  <2>2. c \in Counters
    BY <2>1, StepNames
  <2>3. Amount(c.meter, tokens[r]) \in Nat
    BY KeysAssumption DEF Amount
  <2>4. count \in Nat
    BY <2>2, <2>3
  <2> HIDE DEF c, count
  <2>5. /\ counters' = [counters EXCEPT ![c] = count]
        /\ charged' = [charged EXCEPT ![r] = s]
        /\ \/ status' = [status EXCEPT ![r] = "refused"]
           \/ s < WalkLength /\ status' = status
           \/ status' = [status EXCEPT ![r] = "admitted"]
        /\ UNCHANGED <<minute, key, tokens, at>>
    BY <1>2 DEF Charge, reqVars, c, count
  <2>6. /\ counters' \in [Counters -> Nat]
        /\ charged' \in [Requests -> 0..8]
    BY <2>1, <2>2, <2>4, <2>5 DEF WalkLength
  <2>7. TypeOK'
    BY <2>5, <2>6
  <2>8. Walks'
    BY <1>2, <2>1, <2>5 DEF Charge, WalkLength
  <2> QED
    BY <2>7, <2>8
<1>3. ASSUME NEW r \in Requests, Abandon(r) PROVE TypeOK' /\ Walks'
  BY <1>3 DEF Abandon, reqVars
<1>4. CASE Tick
  BY <1>4, PromptAssumption, ClockAssumption DEF Tick, reqVars
<1>5. ASSUME NEW c \in Counters, Expire(c) PROVE TypeOK' /\ Walks'
  BY <1>5 DEF Expire, reqVars
<1>6. CASE UNCHANGED vars
  BY <1>6 DEF vars
<1> QED
  BY <1>1, <1>2, <1>3, <1>4, <1>5, <1>6 DEF Next, Over

\* What one step of a walk does to the sets of requests: those that charged
\* another counter stay the same, and r joins those of its counter.
LEMMA ChargeJoins ==
  ASSUME TypeOK, Walks, NEW r \in Requests, Charge(r), NEW d \in Counters
  PROVE  LET c == CounterAt(key[r], at[r], charged[r] + 1)
         IN /\ c \in Counters
            /\ d # c => Charging(d)' = Charging(d) /\ Passing(d)' = Passing(d)
            /\ d = c =>
                 /\ Charging(d)' = Charging(d) \cup {r} /\ r \notin Charging(d)
                 /\ Passing(d) \subseteq Charging(d)
                 /\ Passing(d)' \subseteq Charging(d)'
                 /\ (status'[r] = "refused" => Passing(d)' = Passing(d))
<1> DEFINE s == charged[r] + 1
           c == CounterAt(key[r], at[r], s)
<1> USE DEF TypeOK
<1>1. s \in 1..WalkLength /\ s = charged[r] + 1 /\ status[r] = "walking"
  BY DEF Charge, Walks, WalkLength
<1>2. c \in Counters /\ StepOf(c) = s
  BY <1>1, StepNames
<1>3. /\ charged' = [charged EXCEPT ![r] = s]
      /\ key' = key /\ at' = at
      /\ \A q \in Requests \ {r} : status'[q] = status[q]
  BY DEF Charge, reqVars
<1>4. StepOf(d) \in 1..WalkLength
  BY CounterFields
<1> HIDE DEF s, c
<1>5. ASSUME NEW q \in Requests \ {r}
      PROVE  (q \in Charging(d)' <=> q \in Charging(d))
             /\ (q \in Passing(d)' <=> q \in Passing(d))
  BY <1>3 DEF Charging, Passing
<1>6. r \in Charging(d)' <=> StepOf(d) <= s /\ CounterAt(key[r], at[r], StepOf(d)) = d
  BY <1>3 DEF Charging
<1>7. r \in Charging(d) <=> StepOf(d) < s /\ CounterAt(key[r], at[r], StepOf(d)) = d
  BY <1>1, <1>4 DEF Charging, WalkLength
<1>8. CASE d # c
  <2>1. r \in Charging(d)' <=> r \in Charging(d)
    BY <1>1, <1>4, <1>6, <1>7, <1>8 DEF c, WalkLength
  <2>2. r \in Charging(d) => StepOf(d) < s /\ StepOf(d) < charged[r] + 1
    BY <1>1, <1>7
  <2>3. r \in Passing(d)' <=> r \in Charging(d)'
    BY <1>1, <1>3, <2>1, <2>2 DEF Passing, Charging
  <2>4. r \in Passing(d) <=> r \in Charging(d)
    BY <1>1 DEF Passing
  <2> QED
    BY <1>2, <1>5, <1>8, <2>1, <2>3, <2>4 DEF Charging, Passing, c, s
<1>9. CASE d = c
  <2>1. r \in Charging(d)' /\ r \notin Charging(d)
    BY <1>1, <1>2, <1>6, <1>7, <1>9 DEF c, WalkLength
  <2>2. status'[r] = "refused" => r \notin Passing(d)'
    BY <1>1, <1>2, <1>3, <1>9 DEF Passing
  <2> QED
    BY <1>2, <1>5, <1>9, <2>1, <2>2 DEF Charging, Passing, c, s
<1> QED
  BY <1>8, <1>9

\* A request that is not refused at a counter has passed it.
LEMMA PassJoins ==
  ASSUME TypeOK, Walks, NEW r \in Requests, Charge(r), status'[r] # "refused",
         NEW d \in Counters, d = CounterAt(key[r], at[r], charged[r] + 1)
  PROVE  /\ Charging(d)' = Charging(d) \cup {r}
         /\ Passing(d)' = Passing(d) \cup {r}
<1>1. Charging(d)' = Charging(d) \cup {r} /\ r \notin Charging(d)
  BY ChargeJoins
<1>2. /\ \A q \in Charging(d) : status'[q] = status[q] /\ charged'[q] = charged[q]
      /\ r \in Requests /\ Charging(d) \subseteq Requests
  BY <1>1 DEF Charge, TypeOK, Charging
<1> QED
  BY <1>1, <1>2 DEF Passing

\* No other step changes who has charged a counter, and a request that has not
\* begun has charged none.
LEMMA OthersStay ==
  ASSUME TypeOK, Walks, [Next]_vars, \A r \in Requests : ~Charge(r),
         NEW d \in Counters
  PROVE  Charging(d)' = Charging(d) /\ Passing(d)' = Passing(d)
<1> USE DEF TypeOK
<1>0. StepOf(d) \in 1..WalkLength
  BY CounterFields
<1>1. ASSUME NEW r \in Requests, Start(r)
      PROVE  Charging(d)' = Charging(d) /\ Passing(d)' = Passing(d)
  <2>1. charged[r] = 0 /\ charged' = charged /\ key' = key
    BY <1>1 DEF Start, Walks
  <2>2. ASSUME NEW q \in Requests
        PROVE  q \in Charging(d)' <=> q \in Charging(d)
    BY <1>0, <1>1, <2>1 DEF Start, Charging, WalkLength
  <2>3. ASSUME NEW q \in Charging(d) PROVE status'[q] = status[q]
    BY <1>0, <1>1, <2>1 DEF Start, Charging, WalkLength
  <2>4. Charging(d)' = Charging(d)
    BY <2>2 DEF Charging
  <2> QED
    BY <2>1, <2>3, <2>4 DEF Passing
<1>2. ASSUME NEW r \in Requests, Abandon(r)
      PROVE  Charging(d)' = Charging(d) /\ Passing(d)' = Passing(d)
  BY <1>2 DEF Abandon, reqVars, Charging, Passing
<1>3. CASE Tick
  BY <1>3 DEF Tick, reqVars, Charging, Passing
<1>4. ASSUME NEW c \in Counters, Expire(c)
      PROVE  Charging(d)' = Charging(d) /\ Passing(d)' = Passing(d)
  BY <1>4 DEF Expire, reqVars, Charging, Passing
<1>5. CASE UNCHANGED vars
  BY <1>5 DEF vars, Charging, Passing
<1> QED
  BY <1>1, <1>2, <1>3, <1>4, <1>5 DEF Next, Over

\* The counter a walk comes to has not expired: PromptAssumption.
LEMMA WalkIsFresh ==
  ASSUME TypeOK, Walks, NEW r \in Requests, status[r] = "walking",
         NEW s \in 1..WalkLength
  PROVE  ~Stale(CounterAt(key[r], at[r], s))
<1>1. minute <= at[r] + 1 /\ at[r] \in 0..Horizon /\ minute \in 0..Horizon
  BY DEF Walks, TypeOK
<1>2. /\ CounterAt(key[r], at[r], s).meter = MeterAt(s)
      /\ CounterAt(key[r], at[r], s).window = WindowAt(MeterAt(s), at[r])
  BY DEF CounterAt
<1> QED
  BY <1>1, <1>2 DEF Stale

\* A counter that is stale stays so.
LEMMA StaleStays ==
  ASSUME TypeOK, [Next]_vars, NEW d \in Counters, Stale(d) PROVE Stale(d)'
<1>1. minute' = minute \/ minute' = minute + 1
  BY DEF Next, Start, Charge, Abandon, Tick, Expire, Over, vars, reqVars
<1> QED
  BY <1>1 DEF Stale, TypeOK

\* No step changes an estimate.
LEMMA TokensStay == ASSUME [Next]_vars PROVE tokens' = tokens
BY DEF Next, Start, Charge, Abandon, Tick, Expire, Over, vars, reqVars

\* INCRBY counts what charges a counter.
LEMMA ExactStep ==
  ASSUME TypeOK, Walks, CounterIsExact, [Next]_vars PROVE CounterIsExact'
<1> SUFFICES ASSUME NEW d \in Counters, ~Stale(d)'
             PROVE  counters'[d] = Cardinality(Units(d.meter, Charging(d)'))
  BY TokensStay DEF CounterIsExact, Units
<1>0. d.meter \in Meters /\ Charging(d) \in SUBSET Requests
  BY CounterFields DEF Charging
<1>1. ~Stale(d) /\ counters[d] = Cardinality(Units(d.meter, Charging(d)))
  BY StaleStays DEF CounterIsExact
<1>2. ASSUME NEW r \in Requests, Charge(r)
      PROVE  counters'[d] = Cardinality(Units(d.meter, Charging(d)'))
  <2> DEFINE c == CounterAt(key[r], at[r], charged[r] + 1)
  <2>1. counters' = [counters EXCEPT ![c] = counters[c] + Amount(c.meter, tokens[r])]
    BY <1>2 DEF Charge
  <2>2. c \in Counters
    BY <1>2, ChargeJoins
  <2>3. CASE d # c
    BY <1>1, <1>2, <2>1, <2>2, <2>3, ChargeJoins DEF TypeOK
  <2>4. CASE d = c
    <3>1. Charging(d)' = Charging(d) \cup {r} /\ r \notin Charging(d)
      BY <1>2, <2>4, ChargeJoins
    <3>2. counters'[d] = counters[d] + Amount(d.meter, tokens[r])
      <4> HIDE DEF c
      <4> QED
        BY <2>1, <2>4 DEF TypeOK
    <3> QED
      BY <1>0, <1>1, <3>1, <3>2, UnitsJoin
  <2> QED
    BY <2>3, <2>4
<1>3. CASE \A r \in Requests : ~Charge(r)
  <2>1. Charging(d)' = Charging(d)
    BY <1>3, OthersStay
  <2>2. counters'[d] = counters[d]
    BY <1>1, <1>3 DEF TypeOK, Next, Start, Abandon, Tick, Expire, Over, vars, reqVars
  <2> QED
    BY <1>1, <2>1, <2>2
<1> QED
  BY <1>2, <1>3

-----------------------------------------------------------------------------
\* What is let past a counter keeps the limit it is compared with, because the
\* value compared is what all are worth.
LEMMA LimitStep ==
  ASSUME TypeOK, Walks, CounterIsExact, NEW r \in Requests, Charge(r),
         NEW d \in Counters
  PROVE  \/ Passing(d)' = Passing(d)
         \/ /\ d = CounterAt(key[r], at[r], charged[r] + 1)
            /\ Passing(d)' \in SUBSET Requests
            /\ Cardinality(Units(d.meter, Passing(d)')) <= Limit(key[r], d.meter)
<1> DEFINE c == CounterAt(key[r], at[r], charged[r] + 1)
<1>1. CASE d # c
  BY <1>1, ChargeJoins
<1>2. CASE d = c /\ status'[r] = "refused"
  BY <1>2, ChargeJoins
<1>3. CASE d = c /\ status'[r] # "refused"
  <2> DEFINE all == Cardinality(Units(d.meter, Charging(d)'))
             past == Cardinality(Units(d.meter, Passing(d)'))
             bound == Limit(key[r], d.meter)
  <2>0. charged[r] + 1 \in 1..WalkLength /\ status[r] = "walking"
    BY DEF Charge, Walks, WalkLength, TypeOK
  <2>1. counters[d] = Cardinality(Units(d.meter, Charging(d)))
    BY <1>3, <2>0, WalkIsFresh DEF CounterIsExact
  <2>2. /\ d.meter \in Meters /\ key[r] \in Keys
        /\ Charging(d) \in SUBSET Requests /\ Charging(d)' \in SUBSET Requests
    BY CounterFields DEF TypeOK, Charging
  <2>3. ~Exceeds(counters[d] + Amount(d.meter, tokens[r]), bound)
    BY <1>3 DEF Charge, TypeOK
  <2>4. /\ Charging(d)' = Charging(d) \cup {r} /\ r \notin Charging(d)
        /\ Passing(d)' \in SUBSET (Charging(d)')
    BY <1>3, ChargeJoins
  <2>5. all = counters[d] + Amount(d.meter, tokens[r])
    BY <2>1, <2>2, <2>4, UnitsJoin
  <2>6. past <= all /\ all \in Nat
    BY <2>2, <2>4, UnitsFinite
  <2>7. Passing(d)' \in SUBSET Requests /\ past \in Nat /\ bound \in Nat
    BY <2>2, <2>4, UnitsFinite, LimitIsNat
  <2>8. ~(all > bound)
    BY <2>3, <2>5 DEF Exceeds
  <2> HIDE DEF all, past, bound
  <2>9. past <= bound
    BY <2>6, <2>7, <2>8
  <2> QED
    BY <1>3, <2>7, <2>9 DEF past, bound
<1> QED
  BY <1>1, <1>2, <1>3

LEMMA KeyStep ==
  ASSUME TypeOK, Walks, CounterIsExact, KeyWithinLimit, [Next]_vars
  PROVE  KeyWithinLimit'
<1> SUFFICES ASSUME NEW d \in Counters, d.scope \in Keys, d.meter \in RequestMeters
             PROVE  Cardinality(Passing(d)') <= Limit(d.scope, d.meter)
  BY DEF KeyWithinLimit
<1>1. Cardinality(Passing(d)) <= Limit(d.scope, d.meter)
  BY DEF KeyWithinLimit
<1>2. ASSUME NEW r \in Requests, Charge(r)
      PROVE  Cardinality(Passing(d)') <= Limit(d.scope, d.meter)
  <2>1. ASSUME d = CounterAt(key[r], at[r], charged[r] + 1) PROVE d.scope = key[r]
    BY <2>1, KeysAssumption DEF CounterAt, ScopeAt, TypeOK
  <2> QED
    BY <1>1, <1>2, <2>1, LimitStep, OneEach
<1>3. CASE \A r \in Requests : ~Charge(r)
  BY <1>1, <1>3, OthersStay
<1> QED
  BY <1>2, <1>3

\* A request charges only one counter more, and refuses it when what has
\* charged that counter, itself included, is more than the limit.
LEMMA RefusalStep ==
  ASSUME TypeOK, Walks, CounterIsExact, RefusesWhenFull, [Next]_vars
  PROVE  RefusesWhenFull'
<1> SUFFICES ASSUME NEW d \in Counters, d.scope \in Keys, d.meter \in RequestMeters
             PROVE  \/ Passing(d)' = Charging(d)'
                    \/ Cardinality(Passing(d)') >= Limit(d.scope, d.meter)
  BY DEF RefusesWhenFull
<1>1. Passing(d) = Charging(d) \/ Cardinality(Passing(d)) >= Limit(d.scope, d.meter)
  BY DEF RefusesWhenFull
<1>2. ASSUME NEW r \in Requests, Charge(r)
      PROVE  \/ Passing(d)' = Charging(d)'
             \/ Cardinality(Passing(d)') >= Limit(d.scope, d.meter)
  <2> DEFINE c == CounterAt(key[r], at[r], charged[r] + 1)
             n == Cardinality(Charging(d))
             bound == Limit(key[r], d.meter)
  <2>1. CASE d # c
    BY <1>1, <1>2, <2>1, ChargeJoins
  <2>2. CASE d = c /\ status'[r] = "refused"
    <3>1. /\ Charging(d) \in SUBSET Requests /\ Passing(d)' = Passing(d)
          /\ status[r] = "walking" /\ charged[r] + 1 \in 1..WalkLength
          /\ d.scope = key[r] /\ key[r] \in Keys
      <4>1. Passing(d)' = Passing(d) /\ Charging(d) \in SUBSET Requests
        BY <1>2, <2>2, ChargeJoins DEF Charging
      <4>2. status[r] = "walking" /\ charged[r] + 1 \in 1..WalkLength
        BY <1>2 DEF Charge, Walks, WalkLength, TypeOK
      <4>3. d.scope = key[r] /\ key[r] \in Keys
        BY <2>2, KeysAssumption DEF CounterAt, ScopeAt, TypeOK
      <4> QED
        BY <4>1, <4>2, <4>3
    <3>2. counters[d] = n /\ n \in Nat /\ bound \in Nat
      <4>1. counters[d] = Cardinality(Units(d.meter, Charging(d)))
        BY <2>2, <3>1, WalkIsFresh DEF CounterIsExact
      <4> QED
        BY <3>1, <4>1, OneEach, Finite, LimitIsNat, CounterFields
    <3>3. n + 1 > bound
      <4>1. Exceeds(counters[d] + Amount(d.meter, tokens[r]), bound)
        BY <1>2, <2>2, <3>1 DEF Charge, TypeOK
      <4>2. Amount(d.meter, tokens[r]) = 1
        BY DEF Amount, RequestMeters
      <4> QED
        BY <3>2, <4>1, <4>2 DEF Exceeds
    <3> HIDE DEF n, bound
    <3>4. n >= bound
      BY <3>2, <3>3
    <3> QED
      BY <1>1, <3>1, <3>4 DEF n, bound
  <2>3. CASE d = c /\ status'[r] # "refused"
    <3>1. /\ Charging(d)' = Charging(d) \cup {r}
          /\ Passing(d)' = Passing(d) \cup {r}
      BY <1>2, <2>3, PassJoins
    <3>2. /\ IsFiniteSet(Passing(d)') /\ Cardinality(Passing(d)) \in Nat
          /\ Cardinality(Passing(d)') \in Nat
          /\ Limit(d.scope, d.meter) \in Nat
      BY <3>1, Finite, LimitIsNat, CounterFields DEF Passing, Charging
    <3>3. Cardinality(Passing(d)) <= Cardinality(Passing(d)')
      BY <3>1, <3>2, FS_Subset
    <3> QED
      BY <1>1, <3>1, <3>2, <3>3
  <2> QED
    BY <2>1, <2>2, <2>3
<1>3. CASE \A r \in Requests : ~Charge(r)
  BY <1>1, <1>3, OthersStay
<1> QED
  BY <1>2, <1>3

LEMMA ProjectStep ==
  ASSUME TypeOK, Walks, CounterIsExact, ProjectWithinLargestLimit, [Next]_vars
  PROVE  ProjectWithinLargestLimit'
<1> DEFINE Bounded(n, d) == \E k \in Keys : ProjectOf[k] = d.scope /\ n <= Limit(k, d.meter)
<1> SUFFICES ASSUME NEW d \in Counters, d.scope \in Projects,
                    d.meter \in RequestMeters, Passing(d)' # {}
             PROVE  Bounded(Cardinality(Passing(d)'), d)
  BY DEF ProjectWithinLargestLimit
<1>1. Passing(d) # {} => Bounded(Cardinality(Passing(d)), d)
  BY DEF ProjectWithinLargestLimit
<1>2. ASSUME NEW r \in Requests, Charge(r)
      PROVE  Bounded(Cardinality(Passing(d)'), d)
  <2>1. ASSUME d = CounterAt(key[r], at[r], charged[r] + 1)
        PROVE  key[r] \in Keys /\ d.scope = ProjectOf[key[r]]
    BY <2>1, KeysAssumption DEF CounterAt, ScopeAt, TypeOK
  <2>2. CASE Passing(d)' = Passing(d)
    BY <1>1, <2>2
  <2>3. CASE Passing(d)' # Passing(d)
    BY <1>2, <2>1, <2>3, LimitStep, OneEach
  <2> QED
    BY <2>2, <2>3
<1>3. CASE \A r \in Requests : ~Charge(r)
  BY <1>1, <1>3, OthersStay
<1> QED
  BY <1>2, <1>3

\* The tokens let past a counter respect the limit of the request that came last.
LEMMA TokensStep ==
  ASSUME TypeOK, Walks, CounterIsExact, TokensWithinLimit, [Next]_vars
  PROVE  TokensWithinLimit'
<1> DEFINE Bounded(n, d) ==
             \E k \in Keys : d.scope \in {k, ProjectOf[k]} /\ n <= Limit(k, "tpm")
<1> SUFFICES ASSUME NEW d \in Counters, d.meter = "tpm", Passing(d)' # {}
             PROVE  Bounded(Cardinality(Units("tpm", Passing(d)')), d)
  BY TokensStay DEF TokensWithinLimit, Units
<1>1. Passing(d) # {} => Bounded(Cardinality(Units("tpm", Passing(d))), d)
  BY DEF TokensWithinLimit
<1>2. ASSUME NEW r \in Requests, Charge(r)
      PROVE  Bounded(Cardinality(Units("tpm", Passing(d)')), d)
  <2>1. ASSUME d = CounterAt(key[r], at[r], charged[r] + 1)
        PROVE  key[r] \in Keys /\ d.scope \in {key[r], ProjectOf[key[r]]}
    BY <2>1 DEF CounterAt, ScopeAt, TypeOK
  <2>2. CASE Passing(d)' = Passing(d)
    BY <1>1, <2>2
  <2>3. CASE Passing(d)' # Passing(d)
    BY <1>2, <2>1, <2>3, LimitStep
  <2> QED
    BY <2>2, <2>3
<1>3. CASE \A r \in Requests : ~Charge(r)
  BY <1>1, <1>3, OthersStay
<1> QED
  BY <1>2, <1>3

\* A key's increments of its project's counter have passed its own counter.
LEMMA Drain == ASSUME TypeOK, KeyWithinLimit PROVE KeyCannotDrainProject
<1> USE DEF TypeOK
<1> SUFFICES ASSUME NEW c \in Counters, NEW k \in Keys, c.scope \in Projects,
                    c.meter \in RequestMeters
             PROVE  Cardinality({r \in Charging(c) : key[r] = k}) <= Limit(k, c.meter)
  BY DEF KeyCannotDrainProject
<1> DEFINE own == [meter |-> c.meter, scope |-> k, window |-> c.window]
           mine == {r \in Charging(c) : key[r] = k}
<1>1. own \in Counters
  <2>1. PICK m \in Meters : c \in [meter : {m}, scope : Keys \cup Projects,
                                   window : {WindowAt(m, t) : t \in 0..Horizon}]
    BY DEF Counters
  <2>2. own \in [meter : {m}, scope : Keys \cup Projects,
                 window : {WindowAt(m, t) : t \in 0..Horizon}]
    BY <2>1
  <2> QED
    BY <2>2 DEF Counters
<1>2. StepOf(own) = StepOf(c) - 4 /\ StepOf(own) \in 1..4
  BY CounterFields, KeysAssumption DEF StepOf, RequestMeters
<1>3. ASSUME NEW r \in mine PROVE r \in Passing(own)
  <2>1. /\ r \in Requests /\ key[r] = k /\ StepOf(c) <= charged[r]
        /\ CounterAt(k, at[r], StepOf(c)) = c
    BY DEF Charging
  <2>2. StepOf(own) < charged[r] /\ StepOf(own) <= charged[r]
    <3>1. charged[r] \in 0..8
      BY <2>1
    <3> QED
      BY <1>2, <2>1, <3>1
  <2>3. MeterAt(StepOf(own)) = c.meter
    BY <1>1, CounterFields
  <2>4. WindowAt(c.meter, at[r]) = c.window
    BY <2>1, CounterFields DEF CounterAt
  <2>5. CounterAt(k, at[r], StepOf(own)) = own
    BY <1>2, <2>3, <2>4 DEF CounterAt, ScopeAt
  <2> QED
    BY <2>1, <2>2, <2>5 DEF Passing, Charging
<1>4. /\ mine \subseteq Passing(own) /\ IsFiniteSet(Passing(own))
      /\ Cardinality(Passing(own)) \in Nat
  BY <1>3, Finite DEF Passing, Charging
<1>5. Cardinality(mine) <= Cardinality(Passing(own)) /\ Cardinality(mine) \in Nat
  BY <1>4, FS_Subset, FS_CardinalityType
<1>6. Cardinality(Passing(own)) <= Limit(k, c.meter)
  BY <1>1 DEF KeyWithinLimit
<1>7. Limit(k, c.meter) \in Nat
  BY LimitIsNat, CounterFields
<1> QED
  BY <1>4, <1>5, <1>6, <1>7

\* A refused request is one that has charged its last counter and not passed it.
LEMMA RefusedWhenFull == ASSUME TypeOK, Walks, RefusesWhenFull PROVE NoEarlyRefusal
<1> SUFFICES ASSUME NEW r \in Requests, status[r] = "refused", charged[r] <= 3
             PROVE  LET c == CounterAt(key[r], at[r], charged[r])
                    IN Cardinality(Passing(c)) >= Limit(key[r], c.meter)
  BY DEF NoEarlyRefusal
<1> DEFINE s == charged[r]
           c == CounterAt(key[r], at[r], s)
<1>1. s \in 1..3 /\ s \in 1..WalkLength /\ key[r] \in Keys /\ at[r] \in 0..Horizon
  BY DEF Walks, TypeOK, WalkLength
<1>2. c \in Counters /\ StepOf(c) = s /\ c.meter = MeterAt(s)
  BY <1>1, StepNames
<1>3. MeterAt(s) \in RequestMeters
  BY <1>1 DEF MeterAt, RequestMeters
<1>4. c.scope = key[r]
  BY <1>1 DEF CounterAt, ScopeAt
<1>5. r \in Charging(c) /\ r \notin Passing(c)
  BY <1>1, <1>2 DEF Charging, Passing
<1>6. Cardinality(Passing(c)) >= Limit(key[r], c.meter)
  <2> HIDE DEF c, s
  <2> QED
    BY <1>1, <1>2, <1>3, <1>4, <1>5 DEF RefusesWhenFull
<1> QED
  BY <1>6

-----------------------------------------------------------------------------
\* At first no counter exists and nobody has charged one.
LEMMA InitInv == Init => Inv
<1> SUFFICES ASSUME Init PROVE Inv
  OBVIOUS
<1> USE DEF Init
<1>1. TypeOK
  BY ClockAssumption DEF TypeOK
<1>2. ASSUME NEW d \in Counters
      PROVE  Charging(d) = {} /\ Passing(d) = {} /\ counters[d] = 0
  <2>1. StepOf(d) \in 1..WalkLength
    BY CounterFields
  <2> QED
    BY <2>1 DEF Charging, Passing, WalkLength
<1>3. Cardinality({}) = 0
  BY FS_EmptySet
<1>4. Walks
  BY DEF Walks
<1>5. CounterIsExact
  <2>1. \A m : Units(m, {}) = {}
    BY DEF Units
  <2> QED
    BY <1>2, <1>3, <2>1 DEF CounterIsExact
<1>6. KeyWithinLimit
  <2> SUFFICES ASSUME NEW d \in Counters, d.scope \in Keys, d.meter \in RequestMeters
               PROVE  Cardinality(Passing(d)) <= Limit(d.scope, d.meter)
    BY DEF KeyWithinLimit
  <2>1. Limit(d.scope, d.meter) \in Nat
    BY LimitIsNat, CounterFields
  <2> QED
    BY <1>2, <1>3, <2>1
<1>7. ProjectWithinLargestLimit /\ TokensWithinLimit /\ RefusesWhenFull
  BY <1>2 DEF ProjectWithinLargestLimit, TokensWithinLimit, RefusesWhenFull
<1> QED
  BY <1>1, <1>4, <1>5, <1>6, <1>7 DEF Inv

\* The invariant holds in every behaviour of enforce_limits.
THEOREM Invariance == Spec => []Inv
<1>1. Inv /\ [Next]_vars => Inv'
  BY TypeStep, ExactStep, KeyStep, RefusalStep, ProjectStep, TokensStep DEF Inv
<1> QED
  BY InitInv, <1>1, PTL DEF Spec

\* Every variable has its type, and a walk stays within a minute of the clock.
THEOREM TypeCorrect == Spec => [](TypeOK /\ Walks)
<1>1. Inv => TypeOK /\ Walks
  BY DEF Inv
<1> QED
  BY Invariance, <1>1, PTL

\* A counter that a walk may still reach is exact, whatever Redis
\* has dropped before.
THEOREM CounterIsExactHolds == Spec => []CounterIsExact
<1>1. Inv => CounterIsExact
  BY DEF Inv
<1> QED
  BY Invariance, <1>1, PTL

\* In no window do more requests of a key pass a counter than the limit that
\* _limits picks for the key, as long as walks are prompt (PromptAssumption).
THEOREM KeyWithinLimitHolds == Spec => []KeyWithinLimit
<1>1. Inv => KeyWithinLimit
  BY DEF Inv
<1> QED
  BY Invariance, <1>1, PTL

\* The limit-th request of a key passes: a key's request counter refuses none
\* before as many as its limit have passed.
THEOREM NoEarlyRefusalHolds == Spec => []NoEarlyRefusal
<1>1. Inv => NoEarlyRefusal
  BY RefusedWhenFull DEF Inv
<1> QED
  BY Invariance, <1>1, PTL

\* A project's requests are bounded by the largest limit among its keys.
THEOREM ProjectWithinLargestLimitHolds == Spec => []ProjectWithinLargestLimit
<1>1. Inv => ProjectWithinLargestLimit
  BY DEF Inv
<1> QED
  BY Invariance, <1>1, PTL

\* The token estimates let past a counter of tokens respect its limit.
THEOREM TokensWithinLimitHolds == Spec => []TokensWithinLimit
<1>1. Inv => TokensWithinLimit
  BY DEF Inv
<1> QED
  BY Invariance, <1>1, PTL

\* No key charges its project more often than its own limit allows, although a
\* refused request leaves its charges behind.
THEOREM KeyCannotDrainProjectHolds == Spec => []KeyCannotDrainProject
<1>1. Inv => KeyCannotDrainProject
  BY Drain DEF Inv
<1> QED
  BY Invariance, <1>1, PTL

=============================================================================
