--------------------------- MODULE HealthRouting ---------------------------
(***************************************************************************)
(* How the platform learns which runtimes are alive and avoids the others: *)
(* the worker's tick (apps/worker/health.py), the health check of an       *)
(* administrator and the starting and stopping of deployments (the admin   *)
(* routes and services.py of the API), and resolve_route                   *)
(* (packages/router/mc_router/router.py), which reads what they wrote.     *)
(*                                                                         *)
(* The worker reads all runtimes once and then checks one after another.   *)
(* Its session keeps what it read across commits and writes a health only  *)
(* when it differs from what that session read, so it can miss what an     *)
(* administrator's check wrote in between.  What a tick finds out about    *)
(* the deployments of a runtime is committed together with the next        *)
(* runtime's health.  An exception ends the tick and loses what is not     *)
(* committed; main() swallows it and starts the next tick.                 *)
(*                                                                         *)
(* A definition X_Y that precedes X is X with a plausible bug.             *)
(***************************************************************************)
EXTENDS Integers, Sequences

CONSTANTS
  Runtimes, Deployments,
  Orders,      \* the runtimes there may be, in the orders a tick may find them
  RuntimeOf,   \* the runtime of each deployment
  Misconfigured, \* runtimes whose adapter cannot be built at all
  MaxFlips     \* bound on how often runtimes go up or down

ASSUME HealthAssumption ==
  /\ Orders \subseteq Seq(Runtimes)
  /\ RuntimeOf \in [Deployments -> Runtimes]
  /\ Misconfigured \subseteq Runtimes
  /\ MaxFlips \in Nat

VARIABLES
  order,       \* the runtimes there are, as a tick finds them
  up,          \* whether each runtime would answer a health check
  flips,       \* how often this has changed
  runtimeHealth, deploymentHealth, running,  \* the committed rows
  at,          \* worker: position in order, 0 between ticks
  step,        \* worker: what it does there
  read,        \* worker: the runtimes' health as its session holds it
  found,       \* worker: the result of the latest health check
  pending,     \* worker: deployment healths written but not committed
  admin        \* the administrator's health check, NoCheck if there is none

worker == <<at, step, read, found, pending>>
db == <<runtimeHealth, deploymentHealth, running>>
outside == <<order, up, flips>>
vars == <<outside, db, worker, admin>>

Results == {"online", "unhealthy", "offline"}
Healths == Results \cup {"unknown"}
Bad == {"unhealthy", "offline"}
NoCheck == [runtime |-> "none"]

-----------------------------------------------------------------------------
\* create_runtime and create_deployment leave health unknown.
Init ==
  /\ order \in Orders
  /\ up \in [Runtimes -> BOOLEAN] /\ \A r \in Misconfigured : ~up[r]
  /\ flips = 0
  /\ runtimeHealth = [r \in Runtimes |-> "unknown"]
  /\ deploymentHealth = [d \in Deployments |-> "unknown"]
  /\ running = [d \in Deployments |-> TRUE]
  /\ at = 0 /\ step = "idle" /\ read = runtimeHealth /\ found = "unknown"
  /\ pending = <<>>
  /\ admin = NoCheck

\* A runtime stops answering, or answers again; one that is misconfigured is
\* never asked.
Flip(r) ==
  /\ flips < MaxFlips /\ r \notin Misconfigured
  /\ flips' = flips + 1
  /\ up' = [up EXCEPT ![r] = ~@]
  /\ UNCHANGED <<order, db, worker, admin>>

\* health_check of an adapter: an error status or no answer at all.
CheckResult(r) == IF up[r] THEN {"online"} ELSE Bad

-----------------------------------------------------------------------------
(* The worker.                                                             *)

\* Changes a session has not committed: a function on some deployments.
NoChanges == <<>>
Apply(changes) ==
  [d \in Deployments |-> IF d \in DOMAIN changes THEN changes[d]
                         ELSE deploymentHealth[d]]

BeginTick ==
  /\ step = "idle"
  /\ at' = 1 /\ step' = "check" /\ read' = runtimeHealth
  /\ pending' = NoChanges
  /\ UNCHANGED <<outside, db, found, admin>>

\* build_runtime and health_check; the write comes after the await.
Check ==
  /\ step = "check" /\ at <= Len(order) /\ order[at] \notin Misconfigured
  /\ found' \in CheckResult(order[at])
  /\ step' = "write"
  /\ UNCHANGED <<outside, db, at, read, pending, admin>>

\* The runtime's health is set and committed, and with it what the tick
\* still holds about the deployments of the runtime before.
Update(r, seen, result) ==
  IF seen # result THEN [runtimeHealth EXCEPT ![r] = result] ELSE runtimeHealth

Write ==
  /\ step = "write"
  /\ runtimeHealth' = Update(order[at], read[order[at]], found)
  /\ read' = [read EXCEPT ![order[at]] = found]
  /\ deploymentHealth' = Apply(pending)
  /\ pending' = NoChanges
  /\ step' = "deployments"
  /\ UNCHANGED <<outside, running, at, found, admin>>

\* The running deployments of the runtime are read and set.
Verdict_Inverted == IF found = "online" THEN "unhealthy" ELSE "online"
Verdict == IF found # "online" THEN "unhealthy" ELSE "online"

SetDeployments ==
  /\ step = "deployments"
  /\ pending' = [d \in {d \in Deployments : RuntimeOf[d] = order[at] /\ running[d]}
                   |-> Verdict]
  /\ at' = at + 1 /\ step' = "check"
  /\ UNCHANGED <<outside, db, read, found, admin>>

\* The last commit, and 30 seconds of sleep.
EndTick ==
  /\ step = "check" /\ at > Len(order)
  /\ deploymentHealth' = Apply(pending)
  /\ pending' = NoChanges
  /\ at' = 0 /\ step' = "idle"
  /\ UNCHANGED <<outside, runtimeHealth, running, read, found, admin>>

\* An adapter that cannot be built raises; main() drops the tick.
AbortTick ==
  /\ step = "check" /\ at <= Len(order) /\ order[at] \in Misconfigured
  /\ at' = 0 /\ step' = "idle" /\ pending' = NoChanges
  /\ UNCHANGED <<outside, db, read, found, admin>>

-----------------------------------------------------------------------------
(* The API.                                                                *)

\* POST /runtimes/{id}/health: the runtime is read,
AdminRead(r) ==
  /\ admin = NoCheck /\ r \notin Misconfigured
  /\ admin' = [runtime |-> r, read |-> runtimeHealth[r], found |-> "unknown"]
  /\ UNCHANGED <<outside, db, worker>>

\* checked,
AdminCheck ==
  /\ admin # NoCheck /\ admin.found = "unknown"
  /\ \E result \in CheckResult(admin.runtime) :
       admin' = [admin EXCEPT !.found = result]
  /\ UNCHANGED <<outside, db, worker>>

\* and written; the deployments are left to the worker.
AdminWrite ==
  /\ admin # NoCheck /\ admin.found # "unknown"
  /\ runtimeHealth' = Update(admin.runtime, admin.read, admin.found)
  /\ admin' = NoCheck
  /\ UNCHANGED <<outside, deploymentHealth, running, worker>>

\* PATCH /deployments/{id} and POST /deployments/{id}/stop: health stays.
SetRunning(d) ==
  /\ running' = [running EXCEPT ![d] = ~@]
  /\ UNCHANGED <<outside, runtimeHealth, deploymentHealth, worker, admin>>

\* resolve_route returns the oldest running deployment that is routable.
Routable_IgnoresRuntime(d) == running[d] /\ deploymentHealth[d] \notin Bad
Routable(d) ==
  /\ running[d]
  /\ deploymentHealth[d] \notin Bad
  /\ runtimeHealth[RuntimeOf[d]] \notin Bad

-----------------------------------------------------------------------------
Worker == BeginTick \/ Check \/ Write \/ SetDeployments \/ EndTick \/ AbortTick
Admin == AdminCheck \/ AdminWrite

Next ==
  \/ \E r \in Runtimes : Flip(r)
  \/ Worker
  \/ \E r \in Runtimes : AdminRead(r)
  \/ Admin
  \/ \E d \in Deployments : SetRunning(d)

Spec == Init /\ [][Next]_vars

\* The worker ticks for ever and every check ends, by httpx's timeout at the
\* latest.  Nobody need start checks or stop deployments.
FairSpec == Spec /\ WF_vars(Worker) /\ WF_vars(Admin)

-----------------------------------------------------------------------------
(* Properties.                                                             *)

\* Every variable has its type.
TypeOK ==
  /\ order \in Orders
  /\ up \in [Runtimes -> BOOLEAN] /\ flips \in 0..MaxFlips
  /\ runtimeHealth \in [Runtimes -> Healths]
  /\ deploymentHealth \in [Deployments -> Healths]
  /\ running \in [Deployments -> BOOLEAN]
  /\ at \in 0..(Len(order) + 1)
  /\ step \in {"idle", "check", "write", "deployments"}
  /\ read \in [Runtimes -> Healths] /\ found \in Healths
  /\ DOMAIN pending \subseteq Deployments
  /\ \A d \in DOMAIN pending : pending[d] \in Results

\* A tick comes as far as the first misconfigured runtime.  What it finds out
\* about a runtime is kept if it comes that far, and what it finds out about
\* its deployments if it comes one runtime further.
Reached(r) ==
  \E i \in DOMAIN order :
    order[i] = r /\ \A j \in 1..i : order[j] \notin Misconfigured
Recorded(d) ==
  \E i \in DOMAIN order :
    /\ order[i] = RuntimeOf[d]
    /\ \A j \in 1..(i + 1) : j \in DOMAIN order => order[j] \notin Misconfigured

\* A runtime that stays down is avoided in the end: its running deployments
\* are not routed to, although the worker and an administrator overwrite each
\* other's findings and may each miss the other's.
DownIsAvoided ==
  \A d \in Deployments :
    <>[](Reached(RuntimeOf[d]) /\ ~up[RuntimeOf[d]]) => <>[](~Routable(d))

\* A runtime that stays up is used in the end: a deployment that stays running
\* on it is routed to again, even if it was unhealthy while it was stopped.
UpIsUsed ==
  \A d \in Deployments :
    <>[](Recorded(d) /\ up[RuntimeOf[d]] /\ running[d]) => <>[]Routable(d)

=============================================================================
