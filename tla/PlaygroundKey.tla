---------------------------- MODULE PlaygroundKey ----------------------------
(***************************************************************************)
(* The short-lived API key of the dashboard's playground: playground,      *)
(* playground_voice and _playground_key of apps/api/mc_api/routes/admin.py;*)
(* and allow_model, by which a manager allows the same project a model.    *)
(*                                                                         *)
(* Each request works in a database session of its own.  It finds or makes *)
(* the project "playground", allows the project the models it is about to  *)
(* use, creates a key and commits all of it at once; then it serves one    *)
(* gateway request with that key and revokes it.  What it has not          *)
(* committed nobody else sees, but the unique constraints of the tables    *)
(* do: an insertion waits for the session that holds the same row, and     *)
(* fails when that session commits.  The database breaks a circle of       *)
(* sessions that wait for each other.  The gateway request is abstracted   *)
(* to the ways it ends.                                                    *)
(*                                                                         *)
(* A definition X_Y that precedes X is X with a plausible bug: the runs    *)
(* are known to find it.  The specification uses none of them.             *)
(***************************************************************************)
EXTENDS Integers, Sequences

CONSTANTS
  Requests,    \* requests, each with a session of its own
  Kind,        \* Kind[r] \in {"chat", "voice", "allow"}
  Wanted,      \* Wanted[r]: the models of r, in the order it looks them up
  Models       \* all models; every one exists and is active

ASSUME KindAssumption ==
  Kind \in [Requests -> {"chat", "voice", "allow"}]
ASSUME WantedAssumption == Wanted \in [Requests -> Seq(Models)]

VARIABLES
  at,         \* at[r]: where request r stands
  linked,     \* linked[r]: how many of its models r has looked up
  held,       \* held[r]: rows r has inserted and not committed
  committed,  \* rows everyone sees: the project and the links to its models
  key         \* key[r]: the key of r, "none" until it is committed

vars == <<at, linked, held, committed, key>>

-----------------------------------------------------------------------------
ProjectRow == "playground"
Rows == {ProjectRow} \cup Models

Ended == {"answered", "refused", "crashed", "left"}
Model(r) == Wanted[r][linked[r] + 1]

\* Another session holds the row: an insertion of it has to wait.
Blocked(r, row) == \E o \in Requests \ {r} : row \in held[o]

\* The row r waits for, if it is about to insert one.
Inserting(r, row) == \/ at[r] = "creating" /\ row = ProjectRow
                     \/ at[r] = "linking" /\ row = Model(r)

Init ==
  /\ at = [r \in Requests |-> "asked"]
  /\ linked = [r \in Requests |-> 0]
  /\ held = [r \in Requests |-> {}]
  /\ committed \in SUBSET Rows
  /\ ProjectRow \notin committed => committed = {}
  /\ key = [r \in Requests |-> "none"]

Goto(r, place) == at' = [at EXCEPT ![r] = place]

\* An exception that is not handled closes the session, which rolls back.
Crash(r) == /\ Goto(r, "crashed")
            /\ held' = [held EXCEPT ![r] = {}]

-----------------------------------------------------------------------------
(* The project, its models and the key.                                    *)

\* A model is not active, there is no organization, or it is another's; the
\* project that is to be allowed a model does not exist.
Refuse(r) ==
  /\ at[r] = "asked"
  /\ Goto(r, "refused")
  /\ UNCHANGED <<linked, held, committed, key>>

FindProject(r) ==
  /\ at[r] = "asked" /\ (Kind[r] = "allow" => ProjectRow \in committed)
  /\ Goto(r, IF ProjectRow \in committed THEN "looking" ELSE "creating")
  /\ UNCHANGED <<linked, held, committed, key>>

\* An insertion waits for other sessions; it fails when one has committed the
\* same row since r looked for it.
Insert_TryAgain(r, row) ==
  /\ ~Blocked(r, row)
  /\ IF row \in committed
     THEN UNCHANGED held /\ Goto(r, IF row = ProjectRow THEN at[r] ELSE "looking")
     ELSE held' = [held EXCEPT ![r] = @ \cup {row}] /\ Goto(r, "looking")
Insert(r, row) ==
  /\ ~Blocked(r, row)
  /\ IF row \in committed
     THEN Crash(r)
     ELSE held' = [held EXCEPT ![r] = @ \cup {row}] /\ Goto(r, "looking")

CreateProject(r) ==
  /\ at[r] = "creating"
  /\ Insert(r, ProjectRow)
  /\ UNCHANGED <<linked, committed, key>>

\* One model after another: the link is there, or it is inserted by the flush
\* before the next query.
Links_FirstOnly(r) == 1
Links(r) == Len(Wanted[r])

LookUp(r) ==
  /\ at[r] = "looking" /\ linked[r] < Links(r)
  /\ IF Model(r) \in committed \cup held[r]
     THEN linked' = [linked EXCEPT ![r] = @ + 1] /\ UNCHANGED at
     ELSE Goto(r, "linking") /\ UNCHANGED linked
  /\ UNCHANGED <<held, committed, key>>

Link(r) ==
  /\ at[r] = "linking"
  /\ Insert(r, Model(r))
  /\ linked' = [linked EXCEPT ![r] = @ + 1]
  /\ UNCHANGED <<committed, key>>

\* The commit of r's rows, which may fail as a whole.
Commit(r) == /\ committed' = committed \cup held[r]
             /\ held' = [held EXCEPT ![r] = {}]

\* The key is committed with the rows.
IssueKey(r) ==
  /\ at[r] = "looking" /\ linked[r] = Links(r) /\ Kind[r] # "allow"
  /\ \/ /\ Commit(r)
        /\ key' = [key EXCEPT ![r] = "active"]
        /\ Goto(r, "issued")
     \/ Crash(r) /\ UNCHANGED <<committed, key>>
  /\ UNCHANGED linked

\* allow_model commits its link, if it was not there.
Allow(r) ==
  /\ at[r] = "looking" /\ linked[r] = Links(r) /\ Kind[r] = "allow"
  /\ \/ Commit(r) /\ Goto(r, "answered")
     \/ Crash(r) /\ UNCHANGED committed
  /\ UNCHANGED <<linked, key>>

\* Two sessions wait for each other: the database ends one of them.
DeadlockVictim(r) ==
  /\ \E o \in Requests \ {r}, mine, theirs \in Rows :
       /\ Inserting(r, mine) /\ mine \in held[o]
       /\ Inserting(o, theirs) /\ theirs \in held[r]
  /\ Crash(r)
  /\ UNCHANGED <<linked, committed, key>>

-----------------------------------------------------------------------------
(* The gateway request and the revocation.                                 *)

\* A chat goes on in the handler, or in the response when it is a stream.  A
\* conversation begins its stream in the handler, which reads the upload first,
\* outside of every try.
Begin(r) ==
  /\ at[r] = "issued"
  /\ IF Kind[r] = "chat" THEN Goto(r, "serving") \/ Goto(r, "offered")
                         ELSE Goto(r, "streaming") \/ Goto(r, "crashed")
  /\ UNCHANGED <<linked, held, committed, key>>

StartStream(r) ==
  /\ at[r] = "offered"
  /\ Goto(r, "streaming")
  /\ UNCHANGED <<linked, held, committed, key>>

\* The gateway returns or raises a PlatformError: the handler revokes the key
\* on both ways, but lets any other exception pass.
Revoked_OnSuccess(end) == end = "returned"
Revoked(end) == end \in {"returned", "refused"}

Serve(r) ==
  /\ at[r] = "serving"
  /\ \E end \in {"returned", "refused", "raised"} :
       Goto(r, IF Revoked(end) THEN "revoking"
               ELSE IF end = "raised" THEN "crashed" ELSE "answered")
  /\ UNCHANGED <<linked, held, committed, key>>

\* The finally clause of a stream is reached by every exception.
EndStream(r) ==
  /\ at[r] = "streaming"
  /\ Goto(r, "closing") \/ Goto(r, "failing")
  /\ UNCHANGED <<linked, held, committed, key>>

\* The commit of the revocation, after an answer or after an exception.
Revoke(r) ==
  /\ at[r] \in {"revoking", "closing", "failing"}
  /\ \/ /\ key' = [key EXCEPT ![r] = "revoked"]
        /\ Goto(r, IF at[r] = "failing" THEN "crashed" ELSE "answered")
     \/ Goto(r, "crashed") /\ UNCHANGED key
  /\ UNCHANGED <<linked, held, committed>>

\* The client of a stream leaves.  A generator that has not begun never will,
\* so its finally clause does not run; one that has begun runs it, but in a
\* task that is cancelled, so that the commit in it may not be reached.  A
\* conversation cannot be left before its first event; that is not told apart.
Leave(r) ==
  /\ at[r] \in {"offered", "streaming", "closing"}
  /\ Goto(r, "left")
  /\ \/ at[r] # "offered" /\ key' = [key EXCEPT ![r] = "revoked"]
     \/ UNCHANGED key
  /\ UNCHANGED <<linked, held, committed>>

Over == (\A r \in Requests : at[r] \in Ended) /\ UNCHANGED vars

Work(r) == \/ Refuse(r) \/ FindProject(r) \/ CreateProject(r) \/ LookUp(r)
           \/ Link(r) \/ IssueKey(r) \/ Allow(r) \/ DeadlockVictim(r) \/ Begin(r)
           \/ StartStream(r) \/ Serve(r) \/ EndStream(r) \/ Revoke(r)

Next == (\E r \in Requests : Work(r) \/ Leave(r)) \/ Over

Spec == Init /\ [][Next]_vars

\* The event loop runs every handler, the database answers every query and the
\* gateway request ends (see VoicePipeline); no client is obliged to leave.
FairSpec == Spec /\ WF_vars(\E r \in Requests : Work(r))

-----------------------------------------------------------------------------
(* Properties.                                                             *)

\* Every variable has its type.
TypeOK ==
  /\ at \in [Requests -> Ended \cup {"asked", "creating", "looking", "linking",
                          "issued", "serving", "offered", "streaming",
                          "revoking", "closing", "failing"}]
  /\ linked \in [Requests -> Nat]
  /\ \A r \in Requests : linked[r] <= Len(Wanted[r])
  /\ held \in [Requests -> SUBSET Rows]
  /\ committed \subseteq Rows
  /\ key \in [Requests -> {"none", "active", "revoked"}]

\* No playground request that ends in an answer, a PlatformError included,
\* leaves an active key behind: only one that crashed or was left may.
NoKeyLeft ==
  \A r \in Requests : at[r] \in {"answered", "refused"} => key[r] # "active"

\* When the key is issued, or the manager is answered, the project may use
\* every model the request is for, whatever other requests do and undo
\* meanwhile: the gateway will not refuse the playground a model.
ModelsAllowed ==
  \A r \in Requests :
    key[r] # "none" \/ (Kind[r] = "allow" /\ at[r] = "answered") =>
      \A i \in DOMAIN Wanted[r] : {ProjectRow, Wanted[r][i]} \subseteq committed

\* Every request ends: no circle of sessions waiting for each other's rows
\* holds it up, and none tries the same row again for ever.
EveryRequestEnds == <>(\A r \in Requests : at[r] \in Ended)

=============================================================================
