---------------------------- MODULE RateLimiter ----------------------------
(***************************************************************************)
(* Rate limiting: enforce_limits and _add of                               *)
(* packages/gateway/mc_gateway/limiter.py, called with the limits that     *)
(* _limits of gateway.py picks.                                            *)
(*                                                                         *)
(* A request reads the clock once and then walks eight counters, four for  *)
(* its API key and four for its project.  Each counter is incremented      *)
(* atomically (INCRBY in Redis, one step of the event loop in memory) and  *)
(* compared afterwards; the walks of concurrent requests interleave        *)
(* between increments.  A refused request leaves behind what it added.     *)
(* Redis forgets a counter after its TTL.                                  *)
(*                                                                         *)
(* A definition X_Y that precedes X is X with a plausible bug.             *)
(***************************************************************************)
EXTENDS Integers, FiniteSets

CONSTANTS
  Requests,      \* requests, each made once
  Keys, Projects,
  ProjectOf,     \* the project of each API key
  KeyLimit,      \* a key's own limit of each meter, 0 when it has none
  ProjectLimit,  \* a project's limit of each meter
  TokenCounts,   \* token estimates of requests
  Horizon,       \* bound on the clock, in minutes
  DayOf,         \* the day of each minute
  MonthOf,       \* the month of each minute
  MaxLag         \* how many minutes may begin during one walk

Meters == {"rpm", "day", "month", "tpm"}

ASSUME KeysAssumption ==
  /\ Keys \cap Projects = {}
  /\ ProjectOf \in [Keys -> Projects]
  /\ KeyLimit \in [Keys -> [Meters -> Nat]]
  /\ ProjectLimit \in [Projects -> [Meters -> Nat]]
  /\ TokenCounts \subseteq Nat
  /\ IsFiniteSet(Requests)

ASSUME ClockAssumption ==
  /\ Horizon \in Nat
  /\ DayOf \in [0..Horizon -> Nat] /\ MonthOf \in [0..Horizon -> Nat]

\* Redis keeps a minute's counter for 120 seconds after its first increment,
\* so at least one minute after the minute is over: a walk that takes longer
\* would find the counter gone.
ASSUME PromptAssumption == MaxLag \in 0..1

VARIABLES
  minute,    \* the clock
  counters,  \* the value of each counter, 0 when it does not exist
  status,    \* what became of each request
  key,       \* the API key a request was made with
  tokens,    \* its token estimate
  at,        \* the minute it read from the clock
  charged    \* how many of its eight counters it has incremented

reqVars == <<key, tokens, at>>
vars == <<minute, counters, status, key, tokens, at, charged>>

-----------------------------------------------------------------------------
\* _limits: a key without a limit of its own, or with a limit of 0, has its
\* project's.  The same limit is applied to the key and to the project.
Limit(k, m) ==
  IF KeyLimit[k][m] # 0 THEN KeyLimit[k][m] ELSE ProjectLimit[ProjectOf[k]][m]

WindowAt(m, t) ==
  CASE m = "day" -> DayOf[t] [] m = "month" -> MonthOf[t] [] OTHER -> t
Counters ==
  UNION {[meter : {m}, scope : Keys \cup Projects,
          window : {WindowAt(m, t) : t \in 0..Horizon}] : m \in Meters}

\* The order of the walk: the key's meters, then the project's.
MeterAt(s) == CASE s \in {1, 5} -> "rpm" [] s \in {2, 6} -> "day"
                [] s \in {3, 7} -> "month" [] OTHER -> "tpm"
ScopeAt(k, s) == IF s <= 4 THEN k ELSE ProjectOf[k]

\* The counter that step s of a walk increments.
CounterAt(k, t, s) == [meter |-> MeterAt(s), scope |-> ScopeAt(k, s),
                       window |-> WindowAt(MeterAt(s), t)]

\* max(1, tokens) for the token meter.
Amount_AlwaysOne(m, n) == 1
Amount(m, n) == IF m # "tpm" \/ n = 0 THEN 1 ELSE n

\* The comparison comes after the increment and counts the request itself.
Exceeds_CountsOthersOnly(count, limit) == count - 1 > limit
Exceeds_AtLimit(count, limit) == count >= limit
Exceeds(count, limit) == count > limit

\* Two scopes of four meters.
WalkLength == 8

Init ==
  /\ minute = 0
  /\ counters = [c \in Counters |-> 0]
  /\ status = [r \in Requests |-> "new"]
  /\ key \in [Requests -> Keys]
  /\ tokens \in [Requests -> TokenCounts]
  /\ at = [r \in Requests |-> 0]
  /\ charged = [r \in Requests |-> 0]

\* enforce_limits is entered and takes its one look at the clock.
Start(r) ==
  /\ status[r] = "new"
  /\ status' = [status EXCEPT ![r] = "walking"]
  /\ at' = [at EXCEPT ![r] = minute]
  /\ UNCHANGED <<minute, counters, key, tokens, charged>>

\* _add and the comparison that follows it: one step of the walk.
Charge(r) ==
  /\ status[r] = "walking"
  /\ LET s == charged[r] + 1
         c == CounterAt(key[r], at[r], s)
         count == counters[c] + Amount(c.meter, tokens[r])
     IN /\ counters' = [counters EXCEPT ![c] = count]
        /\ charged' = [charged EXCEPT ![r] = s]
        /\ \/ /\ Exceeds(count, Limit(key[r], c.meter))
              /\ status' = [status EXCEPT ![r] = "refused"]
           \/ /\ ~Exceeds(count, Limit(key[r], c.meter)) /\ s < WalkLength
              /\ UNCHANGED status
           \/ /\ ~Exceeds(count, Limit(key[r], c.meter)) /\ s = WalkLength
              /\ status' = [status EXCEPT ![r] = "admitted"]
  /\ UNCHANGED <<minute, reqVars>>

\* Redis is unreachable, or the client leaves: the walk ends half-way.
Abandon(r) ==
  /\ status[r] = "walking"
  /\ status' = [status EXCEPT ![r] = "abandoned"]
  /\ UNCHANGED <<minute, counters, reqVars, charged>>

\* No walk lasts longer than MaxLag allows.
Tick ==
  /\ minute < Horizon
  /\ \A r \in Requests : status[r] = "walking" => minute + 1 <= at[r] + MaxLag
  /\ minute' = minute + 1
  /\ UNCHANGED <<counters, status, reqVars, charged>>

\* The window of a counter ended at least a minute ago.
Stale(c) ==
  \A t \in 0..Horizon : WindowAt(c.meter, t) = c.window => t + 2 <= minute

\* The TTL of a counter runs out.  It need not: a crash between INCRBY and
\* EXPIRE leaves a counter without one, and the in-memory table has none.
Expire_TooEarly(c) ==
  /\ counters[c] > 0
  /\ counters' = [counters EXCEPT ![c] = 0]
  /\ UNCHANGED <<minute, status, reqVars, charged>>
Expire(c) ==
  /\ counters[c] > 0 /\ Stale(c)
  /\ counters' = [counters EXCEPT ![c] = 0]
  /\ UNCHANGED <<minute, status, reqVars, charged>>

\* The clock is at its bound and every request is over.
Over ==
  /\ minute = Horizon
  /\ \A r \in Requests : status[r] \in {"admitted", "refused", "abandoned"}
  /\ UNCHANGED vars

Next ==
  \/ \E r \in Requests : Start(r) \/ Charge(r) \/ Abandon(r)
  \/ Tick
  \/ \E c \in Counters : Expire(c)
  \/ Over

Spec == Init /\ [][Next]_vars

-----------------------------------------------------------------------------
(* Properties.                                                             *)

\* Every variable has its type.
TypeOK ==
  /\ minute \in 0..Horizon
  /\ counters \in [Counters -> Nat]
  /\ status \in [Requests -> {"new", "walking", "admitted", "refused",
                              "abandoned"}]
  /\ key \in [Requests -> Keys]
  /\ tokens \in [Requests -> TokenCounts]
  /\ at \in [Requests -> 0..Horizon]
  /\ charged \in [Requests -> 0..8]

\* The step of a walk at which counters of this meter and scope come up.
StepOf(c) ==
  (CASE c.meter = "rpm" -> 1 [] c.meter = "day" -> 2 [] c.meter = "month" -> 3
     [] OTHER -> 4) + (IF c.scope \in Projects THEN 4 ELSE 0)

\* The requests that have incremented counter c, and those among them that
\* were let past it.
Charging(c) ==
  {r \in Requests : /\ StepOf(c) <= charged[r]
                    /\ CounterAt(key[r], at[r], StepOf(c)) = c}
Passing(c) ==
  {r \in Charging(c) : status[r] = "refused" => StepOf(c) < charged[r]}

RequestMeters == {"rpm", "day", "month"}

\* In each window no more requests of a key pass than its limit, however
\* their walks interleave; a counter that expires lets no extra ones in, since
\* walks are prompt (PromptAssumption).
KeyWithinLimit ==
  \A c \in Counters :
    c.scope \in Keys /\ c.meter \in RequestMeters =>
      Cardinality(Passing(c)) <= Limit(c.scope, c.meter)

\* A request is refused at a request counter of its key, one of the first three
\* of its walk, only when as many as the limit allows have passed it: the last
\* of them passes too, and what a refused request leaves behind takes nobody's
\* place.  (On the token counters it does: a refused estimate stays charged
\* until the minute is over.)
NoEarlyRefusal ==
  \A r \in Requests :
    status[r] = "refused" /\ charged[r] <= 3 =>
      LET c == CounterAt(key[r], at[r], charged[r])
      IN Cardinality(Passing(c)) >= Limit(key[r], c.meter)

\* The requests of a whole project are bounded by the most generous limit
\* among its keys, not by the project's own limit.
ProjectWithinLargestLimit ==
  \A c \in Counters :
    c.scope \in Projects /\ c.meter \in RequestMeters /\ Passing(c) # {} =>
      \E k \in Keys : /\ ProjectOf[k] = c.scope
                      /\ Cardinality(Passing(c)) <= Limit(k, c.meter)

\* A key that has used up its own quota cannot use up its project's: of the
\* increments of a project's counter, no key makes more than its own limit.
KeyCannotDrainProject ==
  \A c \in Counters : \A k \in Keys :
    c.scope \in Projects /\ c.meter \in RequestMeters =>
      Cardinality({r \in Charging(c) : key[r] = k}) <= Limit(k, c.meter)

\* What the requests of S are worth on a meter: one each, or on the token meter
\* their estimates, at least one each; as a set of units that can be counted.
Shares(m, n) == IF m = "tpm" THEN {1} \cup 1..n ELSE {1}
Units(m, S) == UNION {{r} \X Shares(m, tokens[r]) : r \in S}

\* The token estimates let past a counter add up to no more than the limit of
\* the key, or of the most generous key of the project.
TokensWithinLimit ==
  \A c \in Counters :
    c.meter = "tpm" /\ Passing(c) # {} =>
      \E k \in Keys : /\ c.scope \in {k, ProjectOf[k]}
                      /\ Cardinality(Units("tpm", Passing(c))) <= Limit(k, "tpm")

\* A counter never forgets a request while it can still matter: as long as a
\* walk may reach it, it counts exactly what the requests that incremented it
\* are worth.
CounterIsExact ==
  \A c \in Counters :
    Stale(c) \/ counters[c] = Cardinality(Units(c.meter, Charging(c)))

=============================================================================
