------------------------- MODULE PlaygroundKeyProofs -------------------------
(***************************************************************************)
(* Proofs about PlaygroundKey: for any number of requests and models, no   *)
(* answered request leaves its key, and a key that is issued may use the   *)
(* models it was issued for.                                               *)
(***************************************************************************)
EXTENDS PlaygroundKey, TLAPS

Unissued == {"asked", "creating", "looking", "linking"}

Served == {"issued", "serving", "offered", "streaming", "revoking", "closing",
           "failing"}

\* A request has no key before it is issued one, and has one afterwards.
NoKeyYet ==
  \A r \in Requests : /\ at[r] \in Unissued => key[r] = "none"
                      /\ at[r] \in Served => key[r] # "none"

\* What r has found or inserted so far is committed, or will be with its key.
Has(r, row) == row \in committed \/ row \in held[r]
LinksOf(r) ==
  /\ at[r] \in {"asked", "creating"} => linked[r] = 0
  /\ at[r] \in {"looking", "linking"} => Has(r, ProjectRow)
  /\ at[r] \in {"looking", "linking"} =>
       \A i \in 1..linked[r] : Has(r, Wanted[r][i])
  /\ at[r] = "linking" => linked[r] < Len(Wanted[r])
LinksKept == \A r \in Requests : LinksOf(r)

\* What ModelsAllowed says of r.
AllowedOf(r) ==
  key[r] # "none" \/ (Kind[r] = "allow" /\ at[r] = "answered") =>
    \A i \in DOMAIN Wanted[r] : {ProjectRow, Wanted[r][i]} \subseteq committed

Inv == TypeOK /\ NoKeyYet /\ LinksKept /\ NoKeyLeft /\ ModelsAllowed

\* Init establishes the invariant (a session that has just begun).
LEMMA InitInv == Init => Inv
<1> SUFFICES ASSUME Init PROVE Inv
  OBVIOUS
<1> USE DEF Init
<1>1. TypeOK
  <2>1. ASSUME NEW r \in Requests PROVE Len(Wanted[r]) \in Nat
    BY WantedAssumption
  <2>2. /\ linked \in [Requests -> Nat]
        /\ \A r \in Requests : linked[r] <= Len(Wanted[r])
    <3> SUFFICES ASSUME NEW r \in Requests PROVE linked[r] <= Len(Wanted[r])
      OBVIOUS
    <3>1. linked[r] = 0 /\ Len(Wanted[r]) \in Nat
      BY <2>1
    <3> QED
      BY <3>1
  <2>3. committed \subseteq Rows /\ held \in [Requests -> SUBSET Rows]
    OBVIOUS
  <2>4. /\ at \in [Requests -> {"asked"}]
        /\ key \in [Requests -> {"none", "active", "revoked"}]
    OBVIOUS
  <2> QED
    BY <2>2, <2>3, <2>4 DEF TypeOK
<1>2. NoKeyYet /\ LinksKept /\ NoKeyLeft /\ ModelsAllowed
  BY DEF NoKeyYet, Unissued, Served, LinksKept, LinksOf, Has, NoKeyLeft, ModelsAllowed
<1> QED
  BY <1>1, <1>2 DEF Inv

\* Every variable keeps its type.
LEMMA TypeStep == ASSUME TypeOK, LinksKept, [Next]_vars PROVE TypeOK'
<1> USE DEF TypeOK
<1>1. ASSUME NEW r \in Requests, Work(r) PROVE TypeOK'
  <2> USE DEF Goto, Ended
  <2>l. /\ Len(Wanted[r]) \in Nat
        /\ \A i \in 1..Len(Wanted[r]) : Wanted[r][i] \in Models
    BY WantedAssumption
  <2>m. ASSUME linked[r] < Len(Wanted[r]) PROVE Model(r) \in Rows
    <3>1. linked[r] + 1 \in 1..Len(Wanted[r])
      BY <2>l, <2>m
    <3> QED
      BY <3>1, <2>l DEF Model, Rows
  <2>1. CASE Refuse(r)
    BY <2>1 DEF Refuse
  <2>2. CASE FindProject(r)
    BY <2>2 DEF FindProject
  <2>3. CASE CreateProject(r)
    BY <2>3 DEF CreateProject, Insert, Crash, Rows
  <2>4. CASE LookUp(r)
    <3>1. linked' \in [Requests -> Nat] /\ at' \in [Requests -> Ended
            \cup {"asked", "creating", "looking", "linking", "issued", "serving",
                  "offered", "streaming", "revoking", "closing", "failing"}]
      BY <2>4 DEF LookUp
    <3>2. \A q \in Requests : linked'[q] <= Len(Wanted[q])
      BY <2>4, <2>l DEF LookUp, Links
    <3> QED
      BY <2>4, <3>1, <3>2 DEF LookUp
  <2>5. CASE Link(r)
    <3>1. linked[r] < Len(Wanted[r])
      BY <2>5 DEF Link, LinksKept, LinksOf
    <3>2. /\ linked' \in [Requests -> Nat]
          /\ \A q \in Requests : linked'[q] <= Len(Wanted[q])
      BY <2>5, <2>l, <3>1 DEF Link
    <3>3. Model(r) \in Rows
      BY <3>1, <2>m
    <3>4. held' \in [Requests -> SUBSET Rows]
      BY <2>5, <3>3 DEF Link, Insert, Crash
    <3>5. at' = [at EXCEPT ![r] = "looking"] \/ at' = [at EXCEPT ![r] = "crashed"]
      BY <2>5 DEF Link, Insert, Crash
    <3> QED
      BY <2>5, <3>2, <3>4, <3>5 DEF Link
  <2>6. CASE IssueKey(r)
    BY <2>6 DEF IssueKey, Commit, Crash
  <2>7. CASE Allow(r)
    BY <2>7 DEF Allow, Commit, Crash
  <2>8. CASE DeadlockVictim(r)
    BY <2>8 DEF DeadlockVictim, Crash
  <2>9. CASE Begin(r) \/ StartStream(r) \/ Serve(r) \/ EndStream(r)
    BY <2>9 DEF Begin, StartStream, Serve, EndStream
  <2>10. CASE Revoke(r)
    BY <2>10 DEF Revoke
  <2> QED
    BY <1>1, <2>1, <2>2, <2>3, <2>4, <2>5, <2>6, <2>7, <2>8, <2>9, <2>10 DEF Work
<1>2. ASSUME NEW r \in Requests, Leave(r) PROVE TypeOK'
  BY <1>2 DEF Leave, Goto, Ended
<1>3. CASE UNCHANGED vars
  BY <1>3 DEF vars
<1> QED
  BY <1>1, <1>2, <1>3 DEF Next, Over

\* No step gives a key early, or leaves one with an answered request.
LEMMA KeyStep ==
  ASSUME TypeOK, NoKeyYet, NoKeyLeft, [Next]_vars PROVE (NoKeyYet /\ NoKeyLeft)'
<1> USE DEF TypeOK, NoKeyYet, NoKeyLeft, Unissued, Served
<1>1. ASSUME NEW r \in Requests, Work(r) PROVE (NoKeyYet /\ NoKeyLeft)'
  <2> USE DEF Goto
  <2>1. CASE Refuse(r) \/ FindProject(r)
    BY <2>1 DEF Refuse, FindProject
  <2>2. CASE CreateProject(r) \/ Link(r) \/ LookUp(r) \/ DeadlockVictim(r)
    BY <2>2 DEF CreateProject, Link, LookUp, DeadlockVictim, Insert, Crash
  <2>3. CASE IssueKey(r) \/ Allow(r)
    BY <2>3, ZenonT(60) DEF IssueKey, Allow, Commit, Crash
  <2>4. CASE Begin(r) \/ StartStream(r) \/ EndStream(r)
    BY <2>4 DEF Begin, StartStream, EndStream
  <2>5. CASE Serve(r)
    BY <2>5 DEF Serve, Revoked
  <2>6. CASE Revoke(r)
    BY <2>6, SMTT(60) DEF Revoke
  <2> QED
    BY <1>1, <2>1, <2>2, <2>3, <2>4, <2>5, <2>6 DEF Work
<1>2. ASSUME NEW r \in Requests, Leave(r) PROVE (NoKeyYet /\ NoKeyLeft)'
  BY <1>2 DEF Leave, Goto
<1>3. CASE UNCHANGED vars
  BY <1>3 DEF vars
<1> QED
  BY <1>1, <1>2, <1>3 DEF Next, Over

\* What is committed stays committed, and only r's own steps, which end its
\* transaction by a commit or a crash, take rows from r.
LEMMA RowsStep ==
  ASSUME TypeOK, [Next]_vars
  PROVE  /\ committed \subseteq committed'
         /\ \A r \in Requests :
              \/ held[r] \subseteq held'[r]
              \/ at'[r] = "crashed"
              \/ held[r] \subseteq committed' /\ at'[r] \in {"issued", "answered"}
<1> DEFINE Goal == /\ committed \subseteq committed'
                   /\ \A q \in Requests :
                        \/ held[q] \subseteq held'[q]
                        \/ at'[q] = "crashed"
                        \/ /\ held[q] \subseteq committed'
                           /\ at'[q] \in {"issued", "answered"}
<1> USE DEF TypeOK
<1>1. ASSUME NEW r \in Requests, Work(r) PROVE Goal
  <2> USE DEF Goto
  <2>1. CASE Refuse(r) \/ FindProject(r) \/ LookUp(r)
    BY <2>1 DEF Refuse, FindProject, LookUp
  <2>2. CASE CreateProject(r) \/ Link(r) \/ DeadlockVictim(r)
    BY <2>2 DEF CreateProject, Link, DeadlockVictim, Insert, Crash
  <2>3. CASE IssueKey(r) \/ Allow(r)
    BY <2>3 DEF IssueKey, Allow, Commit, Crash
  <2>4. CASE Begin(r) \/ StartStream(r) \/ Serve(r) \/ EndStream(r) \/ Revoke(r)
    BY <2>4 DEF Begin, StartStream, Serve, EndStream, Revoke
  <2> QED
    BY <1>1, <2>1, <2>2, <2>3, <2>4 DEF Work
<1>2. ASSUME NEW r \in Requests, Leave(r) PROVE Goal
  BY <1>2 DEF Leave
<1>3. CASE UNCHANGED vars
  BY <1>3 DEF vars
<1> QED
  BY <1>1, <1>2, <1>3 DEF Next, Over

\* No step loses a row that a request has found or inserted before its commit.
LEMMA LinksStep == ASSUME TypeOK, LinksKept, [Next]_vars PROVE LinksKept'
<1> USE DEF TypeOK, LinksKept
<1>1. committed \subseteq committed'
  BY RowsStep
<1>2. ASSUME NEW r \in Requests, Work(r) PROVE LinksKept'
  <2> USE DEF Goto
  <2>1. ASSUME NEW q \in Requests \ {r} PROVE LinksOf(q)'
    <3>1. at'[q] = at[q] /\ linked'[q] = linked[q] /\ held'[q] = held[q]
      BY <1>2 DEF Work, Refuse, FindProject, CreateProject, LookUp, Link, IssueKey,
        Allow, DeadlockVictim, Begin, StartStream, Serve, EndStream, Revoke, Insert,
        Crash, Commit
    <3> QED
      BY <1>1, <3>1 DEF LinksOf, Has
  <2>2. LinksOf(r)'
    <3>0. LinksOf(r) /\ Len(Wanted[r]) \in Nat
      BY WantedAssumption
    <3>1. CASE Refuse(r) \/ DeadlockVictim(r)
      BY <3>1 DEF Refuse, DeadlockVictim, Crash, LinksOf
    <3>2. CASE FindProject(r)
      BY <3>2, <3>0 DEF FindProject, LinksOf, Has
    <3>3. CASE CreateProject(r)
      BY <3>3, <3>0 DEF CreateProject, Insert, Crash, LinksOf, Has
    <3>4. CASE LookUp(r)
      BY <3>4, <3>0 DEF LookUp, Links, Model, LinksOf, Has
    <3>5. CASE Link(r)
      BY <3>5, <3>0 DEF Link, Insert, Crash, Model, LinksOf, Has
    <3>6. CASE IssueKey(r) \/ Allow(r)
      BY <3>6 DEF IssueKey, Allow, Crash, LinksOf
    <3>7. CASE Begin(r) \/ StartStream(r) \/ Serve(r) \/ EndStream(r) \/ Revoke(r)
      BY <3>7 DEF Begin, StartStream, Serve, EndStream, Revoke, LinksOf
    <3> QED
      BY <1>2, <3>1, <3>2, <3>3, <3>4, <3>5, <3>6, <3>7 DEF Work
  <2> QED
    BY <2>1, <2>2
<1>3. ASSUME NEW r \in Requests, Leave(r) PROVE LinksKept'
  BY <1>3 DEF Leave, Goto, LinksOf, Has
<1>4. CASE UNCHANGED vars
  BY <1>4 DEF vars, LinksOf, Has
<1> QED
  BY <1>2, <1>3, <1>4 DEF Next, Over

\* The rows a key or an answer stands for are committed with it, and stay.
LEMMA AllowedStep ==
  ASSUME TypeOK, NoKeyYet, LinksKept, ModelsAllowed, [Next]_vars
  PROVE  ModelsAllowed'
<1> SUFFICES ASSUME NEW q \in Requests PROVE AllowedOf(q)'
  BY DEF ModelsAllowed, AllowedOf
<1> USE DEF TypeOK
<1>0. AllowedOf(q) /\ committed \subseteq committed'
  BY RowsStep DEF ModelsAllowed, AllowedOf
<1>1. ASSUME NEW r \in Requests, Work(r) PROVE AllowedOf(q)'
  <2> USE DEF Goto
  <2>1. CASE IssueKey(r) \/ Allow(r)
    <3>1. CASE r # q
      BY <1>0, <2>1, <3>1 DEF IssueKey, Allow, Commit, Crash, AllowedOf
    <3>2. CASE r = q /\ at'[q] = "crashed"
      BY <1>0, <2>1, <3>2 DEF IssueKey, Allow, Commit, Crash, AllowedOf
    <3>3. CASE r = q /\ at'[q] # "crashed"
      <4>1. committed' = committed \cup held[q]
        BY <2>1, <3>3 DEF IssueKey, Allow, Commit, Crash
      <4>2. /\ at[q] = "looking" /\ linked[q] = Len(Wanted[q])
        BY <2>1, <3>3 DEF IssueKey, Allow, Links
      <4>3. DOMAIN Wanted[q] = 1..linked[q]
        BY <4>2, WantedAssumption
      <4>4. LinksOf(q)
        BY DEF LinksKept
      <4> QED
        BY <4>1, <4>2, <4>3, <4>4 DEF LinksOf, Has, AllowedOf
    <3> QED
      BY <3>1, <3>2, <3>3
  <2>2. CASE /\ ~IssueKey(r) /\ ~Allow(r)
    <3>1. \/ key[q] # "none"
          \/ key'[q] = "none" /\ (at'[q] = "answered" => at[q] = "answered")
      <4>1. CASE Revoke(r)
        BY <4>1 DEF Revoke, NoKeyYet, Served
      <4>2. CASE /\ ~Revoke(r)
        BY <1>1, <2>2, <4>2 DEF Work, Refuse, FindProject, CreateProject, LookUp, Link,
          DeadlockVictim, Begin, StartStream, Serve, EndStream, Insert, Crash, Revoked
      <4> QED
        BY <4>1, <4>2
    <3> QED
      BY <1>0, <3>1 DEF AllowedOf
  <2> QED
    BY <2>1, <2>2
<1>2. ASSUME NEW r \in Requests, Leave(r) PROVE AllowedOf(q)'
  BY <1>0, <1>2 DEF Leave, Goto, NoKeyYet, Served, AllowedOf
<1>3. CASE UNCHANGED vars
  BY <1>0, <1>3 DEF vars, AllowedOf
<1> QED
  BY <1>1, <1>2, <1>3 DEF Next, Over

-----------------------------------------------------------------------------
\* The invariant holds in every behaviour (the whole of PlaygroundKey).
THEOREM Invariance == Spec => []Inv
<1>1. Inv /\ [Next]_vars => Inv'
  BY TypeStep, KeyStep, LinksStep, AllowedStep DEF Inv
<1> QED
  BY InitInv, <1>1, PTL DEF Spec

\* Every variable has its type, for any requests and models.
THEOREM TypeCorrect == Spec => []TypeOK
<1>1. Inv => TypeOK
  BY DEF Inv
<1> QED
  BY Invariance, <1>1, PTL

\* No request that was answered leaves its key active: the handler's except
\* clause and the streams' finally clause reach every such way out.
THEOREM NoKeyLeftHolds == Spec => []NoKeyLeft
<1>1. Inv => NoKeyLeft
  BY DEF Inv
<1> QED
  BY Invariance, <1>1, PTL

\* A key that is issued may use its models, and a manager who was answered has
\* allowed the model, however _playground_key and allow_model interleave.
THEOREM ModelsAllowedHolds == Spec => []ModelsAllowed
<1>1. Inv => ModelsAllowed
  BY DEF Inv
<1> QED
  BY Invariance, <1>1, PTL

=============================================================================
