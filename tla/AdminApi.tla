------------------------------- MODULE AdminApi -------------------------------
(* The handlers of routes/admin.py that change a model, a deployment or a key, *)
(* and the gateway's _record, which notes when a key was last used, as         *)
(* concurrent transactions of one database.                                    *)
(*                                                                             *)
(* A handler loads the row (session.get), sets attributes of the object and    *)
(* commits.  SQLAlchemy's UPDATE names the columns whose new value is not the  *)
(* one that was loaded; the sessions are made with expire_on_commit=False and  *)
(* nothing locks the row or compares a version.  One row of each table is      *)
(* enough: a transaction touches one row.                                      *)
EXTENDS Sessions

CONSTANTS
  Names,        \* the texts a model may be described with
  Titles,       \* the texts a deployment may be described with
  Unset         \* a column that a request leaves alone

VARIABLES
  row,          \* the committed columns of the three rows
  created,      \* the desired status the deployment was created with
  asks,         \* the columns a request sets, and to what
  seen,         \* the columns as the request's session holds them
  committed,    \* the requests that have committed
  before        \* history: those that had when the request loaded the row

rowVars == <<row, created, asks, seen, committed, before>>
vars == <<sessionVars, rowVars>>

\* model: name (and all that describes it), active; deployment: title (and
\* the runtime's name for the model), status, desired; key: key, used
Columns == {"name", "active", "title", "status", "desired", "key", "used"}

Values == Names \union Titles \union Requests \union
  {"first", "on", "off", "running", "stopped", "other", "active", "revoked", "never"}

PartialRows == [Columns -> Values \union {Unset}]

Nothing == [c \in Columns |-> Unset]

\* create_model, create_deployment and issue_project_key.  Any text is taken
\* as the deployment's desired status; "other" stands for all but two of them.
Created(active, desired) ==
  [c \in Columns |->
     CASE c \in {"name", "title"} -> "first"
       [] c = "active"  -> active
       [] c = "desired" -> desired
       [] c = "status"  -> IF desired = "running" THEN "running" ELSE "stopped"
       [] c = "key"     -> "active"
       [] c = "used"    -> "never"]

\* What the handlers set, as a request asks for it
PutModel(name, active) == [Nothing EXCEPT !["name"] = name, !["active"] = active]
DisableModel == [Nothing EXCEPT !["active"] = "off"]
PatchDeployment(title, status) ==
  [Nothing EXCEPT !["title"] = title, !["status"] = status, !["desired"] = status]
StopDeployment_StatusOnly == [Nothing EXCEPT !["status"] = "stopped"]
StopDeployment == [Nothing EXCEPT !["status"] = "stopped", !["desired"] = "stopped"]
RevokeKey == [Nothing EXCEPT !["key"] = "revoked"]
RecordUse(r) == [Nothing EXCEPT !["used"] = r]

UserAsks ==
       {PutModel(n, a) : n \in Names, a \in {"on", "off"}}
  \union {PatchDeployment(t, s) : t \in Titles \union {Unset},
                                  s \in {"running", "stopped", Unset}}
  \union {DisableModel, StopDeployment, RevokeKey}

TypeOK ==
  /\ SessionTypeOK
  /\ row \in [Columns -> Values]
  /\ created \in {"running", "stopped", "other"}
  /\ asks \in [Requests -> PartialRows]
  /\ seen \in [Requests -> PartialRows]
  /\ committed \subseteq {r \in Requests : at[r] = "done"}
  /\ before \in [Requests -> SUBSET committed]

Init ==
  /\ SessionInit
  /\ created \in {"running", "stopped", "other"}
  /\ \E a \in {"on", "off"} : row = Created(a, created)
  /\ asks = [r \in Requests |-> Nothing]
  /\ seen = [r \in Requests |-> Nothing]
  /\ committed = {}
  /\ before = [r \in Requests |-> {}]

\* A handler has got its row from the database
Load(r, body) ==
  /\ Enter(r)
  /\ asks' = [asks EXCEPT ![r] = body]
  /\ seen' = [seen EXCEPT ![r] = row]
  /\ before' = [before EXCEPT ![r] = committed]
  /\ UNCHANGED <<row, created, committed>>

\* put_model, disable_model, patch_deployment, stop_deployment, revoke_key
LoadForUser(r) ==
  /\ at[r] = "known"
  /\ \E body \in UserAsks : Load(r, body)

\* authenticate_key, which refuses a revoked key
LoadForKey(r) ==
  /\ at[r] = "new"
  /\ row["key"] = "active"
  /\ Load(r, RecordUse(r))

\* session.commit: the UPDATE of what has changed, and the COMMIT
Changes(r, c) == asks[r][c] # Unset /\ asks[r][c] # seen[r][c]

Written_WholeRow(r) ==
  [c \in Columns |-> IF Changes(r, c) THEN asks[r][c] ELSE seen[r][c]]
Written(r) == [c \in Columns |-> IF Changes(r, c) THEN asks[r][c] ELSE row[c]]

\* The session is closed
Close(r) == seen' = [seen EXCEPT ![r] = Nothing]

Commit(r) ==
  /\ at[r] = "handling"
  /\ Leave(r)
  /\ row' = Written(r)
  /\ committed' = committed \union {r}
  /\ Close(r)
  /\ UNCHANGED <<created, asks, before>>

\* assert_manager, assert_org, a row that does not exist, a slug, name or
\* status that is not valid, a failing database: the session is closed without
\* a commit and what the handler has set is forgotten
Refuse(r) ==
  /\ Leave(r)
  /\ Close(r)
  /\ asks' = [asks EXCEPT ![r] = Nothing]
  /\ UNCHANGED <<row, created, committed, before>>

SessionStep ==
  /\ \/ \E r \in Requests :
          \/ LogIn(r) \/ CheckRefresh(r) \/ FinishRefresh(r)
          \/ Authenticate(r) \/ LogOut(r) \/ Expire(r)
     \/ Restart
  /\ UNCHANGED rowVars

Next ==
  \/ \E r \in Requests :
       LoadForUser(r) \/ LoadForKey(r) \/ Commit(r) \/ Refuse(r)
  \/ SessionStep

Spec == Init /\ [][Next]_vars

-------------------------------------------------------------------------------

\* c holds what q asked for, or what a request asked for that committed after
\* q had loaded the row
KeptOrReplaced(q, c) ==
  \/ row[c] = asks[q][c]
  \/ \E p \in committed \ before[q] : asks[p][c] # Unset /\ row[c] = asks[p][c]

\* No update is lost to a request that did not ask for the column: a column
\* that a committed request has set keeps its value until a request that
\* commits after it was loaded sets that same column.  A disabled model, a
\* stopped deployment and above all a revoked key survive the commit of a
\* request that had loaded the row before (put_model, _record).
NoChangeLost ==
  \A q \in committed, c \in Columns : asks[q][c] # Unset => KeptOrReplaced(q, c)

\* The router picks deployments by their status, the dashboard shows what was
\* desired: patch_deployment and stop_deployment keep the two equal, whatever
\* they interleave with, for a deployment created as running or stopped.  One
\* created with another text may come to differ: a stop that loaded it leaves
\* out the status it believes to be stopped already.
StatusMatchesDesired ==
  created # "other" => row["status"] = row["desired"]

===============================================================================
