----------------------------- MODULE Bootstrap -----------------------------
(***************************************************************************)
(* The first start of the API: apps/api/mc_api/bootstrap.py, with init_db  *)
(* of packages/shared/mc_shared/db.py and bootstrap_admin of services.py.  *)
(*                                                                         *)
(* `from mc_shared.db import SessionLocal' copies the value the name has   *)
(* when the module is imported.  init_db() later gives mc_shared.db's own  *)
(* name another value; the copy does not follow it.                        *)
(***************************************************************************)
EXTENDS Naturals

CONSTANTS
  Emails, Passwords,  \* possible values of the two settings, Unset among them
  Unset,
  Acceptable,         \* the passwords password_is_acceptable accepts
  MaxStarts           \* bound on the starts of the container

VARIABLES
  email, password,  \* DEFAULT_ADMIN_EMAIL and DEFAULT_ADMIN_PASSWORD
  factory,          \* mc_shared.db.SessionLocal
  imported,         \* bootstrap's copy of it
  admins,           \* the e-mails of the super admins in the database
  stage,            \* how far the start of the container has come
  starts            \* how often the container was started

vars == <<email, password, factory, imported, admins, stage, starts>>

Nothing == "None"

Init ==
  /\ email \in Emails /\ password \in Passwords
  /\ factory = Nothing /\ imported = Nothing
  /\ admins = {} /\ stage = "import" /\ starts = 1

Import ==
  /\ stage = "import"
  /\ imported' = factory
  /\ stage' = "init_db"
  /\ UNCHANGED <<email, password, factory, admins, starts>>

\* init_db(), and the tables.
InitDb ==
  /\ stage = "init_db"
  /\ factory' = "session factory"
  /\ stage' = "admin"
  /\ UNCHANGED <<email, password, imported, admins, starts>>

\* if SessionLocal is None: return
Skip ==
  /\ stage = "admin" /\ imported = Nothing
  /\ stage' = "serving"
  /\ UNCHANGED <<email, password, factory, imported, admins, starts>>

\* bootstrap_admin.
CreateAdmin ==
  /\ stage = "admin" /\ imported # Nothing
  /\ admins' = IF email # Unset /\ password \in Acceptable /\ admins = {}
               THEN {email} ELSE admins
  /\ stage' = "serving"
  /\ UNCHANGED <<email, password, factory, imported, starts>>

\* The container is started again; the database stays.
Restart ==
  /\ stage = "serving" /\ starts < MaxStarts
  /\ starts' = starts + 1
  /\ stage' = "import" /\ factory' = Nothing /\ imported' = Nothing
  /\ UNCHANGED <<email, password, admins>>

Over == stage = "serving" /\ starts = MaxStarts /\ UNCHANGED vars

Next == Import \/ InitDb \/ Skip \/ CreateAdmin \/ Restart \/ Over

Spec == Init /\ [][Next]_vars

-----------------------------------------------------------------------------
\* What README.md says of the first start: "The API creates that super admin
\* only when both values are set and none exists."  Once the API serves, a
\* super admin exists if both values were set (and the password accepted).
AdminExistsWhenServing ==
  stage = "serving" /\ email # Unset /\ password \in Acceptable => admins # {}

=============================================================================
