------------------------------- MODULE Sessions -------------------------------
(* The dashboard's sessions: POST /auth/login, /auth/refresh and /auth/logout  *)
(* (routes/admin.py), the tokens of mc_auth/tokens.py and the set of revoked   *)
(* refresh tokens that deps.py keeps in the memory of the API process.         *)
(*                                                                             *)
(* Tokens are named by the request that issued them: request r answers with    *)
(* the pair r, an access and a refresh token.  A handler is cut where it       *)
(* awaits the database; between two awaits nothing else runs in the process.   *)
(* The other handlers of the dashboard enter through Authenticate and Enter;   *)
(* AdminApi says what they do.                                                 *)
EXTENDS FiniteSets

CONSTANT Requests       \* the requests that reach the API, each one once

VARIABLES
  at,          \* how far a request has come
  presented,   \* the refresh token a request has brought
  pair,        \* the age of the pair of tokens a request has issued
  login,       \* the login that a pair descends from
  revoked,     \* deps._revoked: the refresh tokens refused from now on
  left,        \* history: logins whose live refresh token was given to logout
  overlapped,  \* history: logins one of whose tokens was revoked while another
               \* request that had already checked it was waiting
  restarted    \* history: the process has been restarted

sessionVars == <<at, presented, pair, login, revoked, left, overlapped, restarted>>

\* "none": not issued; "fresh": both tokens valid; "old": the access token has
\* expired; "expired": so has the refresh token, which lives longer
Ages == {"none", "fresh", "old", "expired"}

States == {"new", "refreshing", "known", "handling", "done"}

SessionTypeOK ==
  /\ at \in [Requests -> States]
  /\ presented \in [Requests -> Requests]
  /\ pair \in [Requests -> Ages]
  /\ login \in [Requests -> Requests]
  /\ revoked \subseteq Requests
  /\ left \subseteq Requests
  /\ overlapped \subseteq Requests
  /\ restarted \in BOOLEAN

SessionInit ==
  /\ at = [r \in Requests |-> "new"]
  /\ presented = [r \in Requests |-> r]
  /\ pair = [r \in Requests |-> "none"]
  /\ login = [r \in Requests |-> r]
  /\ revoked = {}
  /\ left = {}
  /\ overlapped = {}
  /\ restarted = FALSE

AccessValid(t) == pair[t] = "fresh"
RefreshValid(t) == pair[t] \in {"fresh", "old"}

Issued == {t \in Requests : pair[t] # "none"}
Live == Issued \ revoked

\* r's handler comes to s
Goes(r, s) == at' = [at EXCEPT ![r] = s]

\* revoke_jti; a request that has checked t and waits for the database will
\* not look at it again
Revoke(r, t) ==
  /\ revoked' = revoked \union {t}
  /\ overlapped' = overlapped \union
       {login[t] : u \in {q \in Requests \ {r} : /\ at[q] = "refreshing"
                                                 /\ presented[q] = t}}

\* Two calls of issue_token, one for each token of the pair
Issue(r, l) ==
  /\ pair' = [pair EXCEPT ![r] = "fresh"]
  /\ login' = [login EXCEPT ![r] = l]

LogIn(r) ==
  /\ at[r] = "new"
  /\ Goes(r, "done")
  /\ Issue(r, r)
  /\ UNCHANGED <<presented, revoked, left, overlapped, restarted>>

CheckRefresh_AnyToken(r) ==
  /\ at[r] = "new"
  /\ \E t \in Requests :
       /\ RefreshValid(t)
       /\ presented' = [presented EXCEPT ![r] = t]
  /\ Goes(r, "refreshing")
  /\ UNCHANGED <<pair, login, revoked, left, overlapped, restarted>>

\* post_refresh up to the SELECT of the user
CheckRefresh(r) ==
  /\ at[r] = "new"
  /\ \E t \in Requests \ revoked :
       /\ RefreshValid(t)
       /\ presented' = [presented EXCEPT ![r] = t]
  /\ Goes(r, "refreshing")
  /\ UNCHANGED <<pair, login, revoked, left, overlapped, restarted>>

FinishRefresh_KeepOld(r) ==
  /\ at[r] = "refreshing"
  /\ Goes(r, "done")
  /\ Issue(r, login[presented[r]])
  /\ UNCHANGED <<presented, revoked, left, overlapped, restarted>>

\* ... and from its answer to the end
FinishRefresh(r) ==
  /\ at[r] = "refreshing"
  /\ Goes(r, "done")
  /\ Revoke(r, presented[r])
  /\ Issue(r, login[presented[r]])
  /\ UNCHANGED <<presented, left, restarted>>

\* current_user: the access token is decoded, then the user is read.  No
\* access token is ever revoked: logout is given the refresh token only.
Authenticate(r) ==
  /\ at[r] = "new"
  /\ \E t \in Requests : AccessValid(t)
  /\ Goes(r, "known")
  /\ UNCHANGED <<presented, pair, login, revoked, left, overlapped, restarted>>

\* post_logout, after current_user; decode_token asks only that the refresh
\* token has not expired
LogOut(r) ==
  /\ at[r] = "known"
  /\ Goes(r, "done")
  /\ \E t \in Requests :
       /\ RefreshValid(t)
       /\ Revoke(r, t)
       /\ left' = left \union {login[u] : u \in {t} \ revoked}
  /\ UNCHANGED <<presented, pair, login, restarted>>

\* Another handler goes to work for the user (known) or for an API key (new)
Enter(r) ==
  /\ at[r] \in {"new", "known"}
  /\ Goes(r, "handling")
  /\ UNCHANGED <<presented, pair, login, revoked, left, overlapped, restarted>>

\* A handler ends, with a result or with an error
Leave(r) ==
  /\ at[r] \in {"refreshing", "known", "handling"}
  /\ Goes(r, "done")
  /\ UNCHANGED <<presented, pair, login, revoked, left, overlapped, restarted>>

Expire(t) ==
  /\ \/ pair[t] = "fresh" /\ pair' = [pair EXCEPT ![t] = "old"]
     \/ pair[t] = "old"   /\ pair' = [pair EXCEPT ![t] = "expired"]
  /\ UNCHANGED <<at, presented, login, revoked, left, overlapped, restarted>>

\* The process ends and starts again: the requests under way are lost, and so
\* is the set of revoked tokens
Restart ==
  /\ at' = [r \in Requests |-> IF at[r] = "new" THEN "new" ELSE "done"]
  /\ revoked' = {}
  /\ restarted' = TRUE
  /\ UNCHANGED <<presented, pair, login, left, overlapped>>

SessionNext ==
  \/ \E r \in Requests :
       \/ LogIn(r) \/ CheckRefresh(r) \/ FinishRefresh(r)
       \/ Authenticate(r) \/ LogOut(r) \/ Enter(r) \/ Leave(r) \/ Expire(r)
  \/ Restart

SessionSpec == SessionInit /\ [][SessionNext]_sessionVars

-------------------------------------------------------------------------------

\* A refresh token is good for one refresh: of all the refresh tokens that
\* descend from one login, post_refresh would accept at most one, however the
\* handlers interleave, unless a token was revoked while another request that
\* had checked it waited for the database (admin.py:160 and :165), or the
\* process was restarted and forgot what it had revoked (deps.py:14).
OneRefreshToken ==
  ~restarted =>
    \A t, u \in Live : login[t] = login[u] => t = u \/ login[t] \in overlapped

\* Once post_logout has been given the live refresh token of a login, no
\* refresh token that descends from that login is accepted again, with the
\* same two exceptions.
LogoutEndsSession ==
  ~restarted => \A t \in Live : login[t] \in left => login[t] \in overlapped

===============================================================================
