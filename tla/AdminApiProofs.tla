---------------------------- MODULE AdminApiProofs ----------------------------
(* What AdminApi and the Sessions it is built on promise, for any number of    *)
(* requests, names and titles.                                                 *)
EXTENDS AdminApi, TLAPS

-------------------------------------------------------------------------------
\* Sessions

\* The values of Sessions' variables stay in their sets (deps.py, tokens.py).
LEMMA SessionTyping == SessionSpec => []SessionTypeOK
<1>1. SessionInit => SessionTypeOK
  <2> SUFFICES ASSUME SessionInit PROVE SessionTypeOK
    OBVIOUS
  <2>1. at \in [Requests -> States] /\ pair \in [Requests -> Ages]
    BY DEF SessionInit, States, Ages
  <2>2. presented \in [Requests -> Requests] /\ login \in [Requests -> Requests]
    BY DEF SessionInit
  <2> QED
    BY <2>1, <2>2 DEF SessionInit, SessionTypeOK
<1>2. SessionTypeOK /\ [SessionNext]_sessionVars => SessionTypeOK'
  <2> SUFFICES ASSUME SessionTypeOK, [SessionNext]_sessionVars
               PROVE  SessionTypeOK'
    OBVIOUS
  <2> USE DEF SessionTypeOK, States, Ages
  <2>1. ASSUME NEW r \in Requests, LogIn(r) PROVE SessionTypeOK'
    BY <2>1 DEF LogIn, Goes, Issue
  <2>2. ASSUME NEW r \in Requests, CheckRefresh(r) PROVE SessionTypeOK'
    BY <2>2 DEF CheckRefresh, Goes
  <2>3. ASSUME NEW r \in Requests, FinishRefresh(r) PROVE SessionTypeOK'
    BY <2>3 DEF FinishRefresh, Goes, Issue, Revoke
  <2>4. ASSUME NEW r \in Requests, Authenticate(r) PROVE SessionTypeOK'
    BY <2>4 DEF Authenticate, Goes
  <2>5. ASSUME NEW r \in Requests, LogOut(r) PROVE SessionTypeOK'
    BY <2>5 DEF LogOut, Goes, Revoke
  <2>6. ASSUME NEW r \in Requests, Enter(r) PROVE SessionTypeOK'
    BY <2>6 DEF Enter, Goes
  <2>7. ASSUME NEW r \in Requests, Leave(r) PROVE SessionTypeOK'
    BY <2>7 DEF Leave, Goes
  <2>8. ASSUME NEW r \in Requests, Expire(r) PROVE SessionTypeOK'
    BY <2>8 DEF Expire
  <2>9. CASE Restart
    BY <2>9 DEF Restart
  <2>10. CASE UNCHANGED sessionVars
    BY <2>10 DEF sessionVars
  <2> QED
    BY <2>1, <2>2, <2>3, <2>4, <2>5, <2>6, <2>7, <2>8, <2>9, <2>10 DEF SessionNext
<1> QED
  BY <1>1, <1>2, PTL DEF SessionSpec

\* The token that a waiting refresh has checked was issued, and it is still
\* live unless its revocation overlapped.
CheckedIsIssued ==
  \A r \in Requests : at[r] = "refreshing" => presented[r] \in Issued

CheckedIsLive ==
  \A r \in Requests :
    at[r] = "refreshing" /\ presented[r] \in revoked =>
      login[presented[r]] \in overlapped

NewHasNoPair == \A r \in Requests : at[r] # "done" => pair[r] = "none"

\* A pair descends from a login that was itself issued, so a new login shares
\* no lineage with it.
LoginIssued == \A t \in Issued : login[t] \in Issued

OneLive ==
  \A t, u \in Live : login[t] = login[u] => t = u \/ login[t] \in overlapped

NoneAfterLogout == \A t \in Live : login[t] \in left => login[t] \in overlapped

LeftIssued == left \subseteq Issued

SessionInv ==
  /\ NewHasNoPair
  /\ LoginIssued
  /\ LeftIssued
  /\ CheckedIsIssued
  /\ ~restarted => CheckedIsLive /\ OneLive /\ NoneAfterLogout

\* The strengthened invariant of the sessions is inductive: a refresh passes
\* its login's one live token on, a logout takes it away (admin.py:155-175).
LEMMA SessionStepInv ==
  SessionTypeOK /\ SessionInv /\ [SessionNext]_sessionVars => SessionInv'
<1> SUFFICES ASSUME SessionTypeOK, SessionInv, [SessionNext]_sessionVars
             PROVE  SessionInv'
  OBVIOUS
<1> USE DEF SessionTypeOK, States, Ages, Issued
<1>1. ASSUME NEW r \in Requests, LogIn(r) PROVE SessionInv'
  <2>1. r \notin Issued
    BY <1>1 DEF LogIn, SessionInv, NewHasNoPair
  <2>2. /\ Issued' = Issued \union {r}
        /\ \A t \in Requests : login'[t] = IF t = r THEN r ELSE login[t]
        /\ \A q \in Requests : at'[q] = IF q = r THEN "done" ELSE at[q]
        /\ UNCHANGED <<presented, revoked, left, overlapped, restarted>>
    BY <1>1 DEF LogIn, Goes, Issue
  <2>3. NewHasNoPair' /\ LoginIssued' /\ LeftIssued' /\ CheckedIsIssued'
    BY <1>1, <2>2 DEF LogIn, Issue, SessionInv, NewHasNoPair, LoginIssued, LeftIssued, CheckedIsIssued
  <2>4. ASSUME ~restarted PROVE CheckedIsLive'
    BY <2>1, <2>2, <2>4 DEF SessionInv, CheckedIsLive, CheckedIsIssued
  <2>5. ASSUME ~restarted PROVE OneLive' /\ NoneAfterLogout'
    BY <2>1, <2>2, <2>5 DEF SessionInv, OneLive, NoneAfterLogout, Live, LoginIssued, LeftIssued
  <2> QED
    BY <2>2, <2>3, <2>4, <2>5 DEF SessionInv
<1>2. ASSUME NEW r \in Requests, FinishRefresh(r) PROVE SessionInv'
  <2> DEFINE t == presented[r]
  <2>1. r \notin Issued /\ t \in Requests
    BY <1>2 DEF FinishRefresh, SessionInv, NewHasNoPair
  <2>2. /\ Issued' = Issued \union {r}
        /\ \A u \in Requests : login'[u] = IF u = r THEN login[t] ELSE login[u]
        /\ \A q \in Requests : at'[q] = IF q = r THEN "done" ELSE at[q]
        /\ revoked' = revoked \union {t}
        /\ overlapped \subseteq overlapped'
        /\ UNCHANGED <<presented, left, restarted>>
    BY <1>2 DEF FinishRefresh, Goes, Issue, Revoke
  <2>3. \A q \in Requests \ {r} :
           at[q] = "refreshing" /\ presented[q] = t => login[t] \in overlapped'
    BY <1>2 DEF FinishRefresh, Revoke
  <2>4. NewHasNoPair' /\ LeftIssued' /\ CheckedIsIssued'
    BY <1>2, <2>2 DEF FinishRefresh, Issue, SessionInv, NewHasNoPair, LeftIssued, CheckedIsIssued
  <2>5. t \in Issued
    BY <1>2 DEF FinishRefresh, SessionInv, CheckedIsIssued
  <2>6. LoginIssued'
    BY <2>1, <2>2, <2>5 DEF SessionInv, LoginIssued
  <2>7. CASE restarted
    BY <2>7, <2>2, <2>4, <2>6 DEF SessionInv
  <2>8. CASE ~restarted
    <3>1. t \in revoked => login[t] \in overlapped
      BY <1>2, <2>8 DEF FinishRefresh, SessionInv, CheckedIsLive
    <3>2. CheckedIsLive'
      <4> SUFFICES ASSUME NEW q \in Requests, at'[q] = "refreshing",
                          presented[q] \in revoked'
                   PROVE  login'[presented[q]] \in overlapped'
        BY <2>2 DEF CheckedIsLive
      <4>1. q # r /\ at[q] = "refreshing" /\ presented[q] # r
        BY <2>1, <2>2 DEF SessionInv, CheckedIsIssued
      <4>2. login'[presented[q]] = login[presented[q]]
        BY <2>2, <4>1
      <4> QED
        BY <2>2, <2>3, <2>8, <4>1, <4>2 DEF SessionInv, CheckedIsLive
    <3>3. /\ Live' \subseteq (Live \ {t}) \union {r}
          /\ \A u \in Live' \ {r} : u \in Live /\ u # t /\ login'[u] = login[u]
          /\ login'[r] = login[t]
      BY <2>1, <2>2 DEF Live
    <3>4. \A u \in Live \ {t} : login[u] = login[t] => login[t] \in overlapped
      BY <2>5, <2>8, <3>1 DEF SessionInv, OneLive, Live
    <3>5. OneLive'
      BY <2>2, <2>8, <3>3, <3>4 DEF SessionInv, OneLive
    <3>6. login[t] \in left => login[t] \in overlapped
      BY <2>5, <2>8, <3>1 DEF SessionInv, NoneAfterLogout, Live
    <3>7. NoneAfterLogout'
      BY <2>2, <2>8, <3>3, <3>6 DEF SessionInv, NoneAfterLogout
    <3> QED
      BY <2>2, <2>4, <2>6, <3>2, <3>5, <3>7 DEF SessionInv
  <2> QED
    BY <2>7, <2>8
<1>3. ASSUME NEW r \in Requests, LogOut(r) PROVE SessionInv'
  <2>1. PICK t \in Requests :
          RefreshValid(t) /\ Revoke(r, t) /\ left' = left \union {login[u] : u \in {t} \ revoked}
    BY <1>3 DEF LogOut
  <2>2. t \in Issued
    BY <2>1 DEF RefreshValid
  <2>3. /\ UNCHANGED <<presented, pair, login, restarted>>
        /\ at' = [at EXCEPT ![r] = "done"] /\ at[r] = "known"
        /\ revoked' = revoked \union {t}
        /\ overlapped \subseteq overlapped'
    BY <1>3, <2>1 DEF LogOut, Goes, Revoke
  <2>4. \A q \in Requests \ {r} :
           at[q] = "refreshing" /\ presented[q] = t => login[t] \in overlapped'
    BY <2>1 DEF Revoke
  <2>5. NewHasNoPair' /\ LoginIssued' /\ LeftIssued' /\ CheckedIsIssued'
    BY <2>1, <2>2, <2>3 DEF SessionInv, NewHasNoPair, LoginIssued, LeftIssued, CheckedIsIssued
  <2>6. ASSUME ~restarted PROVE CheckedIsLive'
    BY <2>3, <2>4, <2>6 DEF SessionInv, CheckedIsLive
  <2>7. Live' = Live \ {t}
    BY <2>3 DEF Live
  <2>8. ASSUME ~restarted PROVE OneLive'
    BY <2>3, <2>7, <2>8 DEF SessionInv, OneLive
  <2>9. ASSUME ~restarted PROVE NoneAfterLogout'
    <3> SUFFICES ASSUME NEW x \in Live \ {t}, login[x] \in left'
                 PROVE  login[x] \in overlapped
      BY <2>3, <2>7 DEF NoneAfterLogout
    <3>1. CASE login[x] \in left
      BY <2>9, <3>1 DEF SessionInv, NoneAfterLogout
    <3>2. CASE login[x] \notin left
      <4>1. t \in Live /\ login[x] = login[t]
        BY <2>1, <2>2, <3>2 DEF Live
      <4> QED
        BY <2>9, <4>1 DEF SessionInv, OneLive
    <3> QED
      BY <3>1, <3>2
  <2> QED
    BY <2>3, <2>5, <2>6, <2>8, <2>9 DEF SessionInv
<1>4. ASSUME NEW r \in Requests, CheckRefresh(r) PROVE SessionInv'
  <2>1. PICK t \in Requests \ revoked :
          RefreshValid(t) /\ presented' = [presented EXCEPT ![r] = t]
    BY <1>4 DEF CheckRefresh
  <2>2. t \in Issued
    BY <2>1 DEF RefreshValid
  <2>3. /\ UNCHANGED <<pair, login, revoked, left, overlapped, restarted>>
        /\ at' = [at EXCEPT ![r] = "refreshing"] /\ at[r] = "new"
    BY <1>4 DEF CheckRefresh, Goes
  <2>4. NewHasNoPair' /\ LoginIssued' /\ LeftIssued' /\ CheckedIsIssued'
    <3>1. CheckedIsIssued'
      BY <2>1, <2>2, <2>3 DEF SessionInv, CheckedIsIssued
    <3> QED
      BY <2>3, <3>1 DEF SessionInv, NewHasNoPair, LoginIssued, LeftIssued
  <2>5. ASSUME ~restarted PROVE CheckedIsLive'
    BY <2>1, <2>2, <2>3, <2>5 DEF SessionInv, CheckedIsLive
  <2>6. ASSUME ~restarted PROVE OneLive' /\ NoneAfterLogout'
    BY <2>3, <2>6 DEF SessionInv, OneLive, NoneAfterLogout, Live
  <2> QED
    BY <2>3, <2>4, <2>5, <2>6 DEF SessionInv
<1>5. ASSUME NEW r \in Requests, Authenticate(r) \/ Enter(r) \/ Leave(r) PROVE SessionInv'
  <2>1. /\ UNCHANGED <<presented, pair, login, revoked, left, overlapped, restarted>>
        /\ \A q \in Requests : at'[q] = at[q] \/ (at'[q] # "refreshing" /\ at[q] # "done")
    BY <1>5 DEF Authenticate, Enter, Leave, Goes
  <2>2. NewHasNoPair' /\ LoginIssued' /\ LeftIssued' /\ CheckedIsIssued'
    BY <2>1 DEF SessionInv, NewHasNoPair, LoginIssued, LeftIssued, CheckedIsIssued
  <2>3. ASSUME ~restarted PROVE CheckedIsLive'
    BY <2>1, <2>3 DEF SessionInv, CheckedIsLive
  <2>4. ASSUME ~restarted PROVE OneLive' /\ NoneAfterLogout'
    BY <2>1, <2>4 DEF SessionInv, OneLive, NoneAfterLogout, Live
  <2> QED
    BY <2>1, <2>2, <2>3, <2>4 DEF SessionInv
<1>6. ASSUME NEW t \in Requests, Expire(t) PROVE SessionInv'
  <2>1. /\ UNCHANGED <<at, presented, login, revoked, left, overlapped, restarted>>
        /\ Issued' = Issued
        /\ \A q \in Requests : pair[q] = "none" => pair'[q] = "none"
    BY <1>6 DEF Expire
  <2> QED
    BY <2>1 DEF SessionInv, NewHasNoPair, LoginIssued, LeftIssued, CheckedIsIssued, CheckedIsLive,
                OneLive, NoneAfterLogout, Live
<1>7. CASE Restart
  BY <1>7 DEF Restart, SessionInv, NewHasNoPair, LoginIssued, LeftIssued, CheckedIsIssued
<1>8. CASE UNCHANGED sessionVars
  BY <1>8 DEF sessionVars, SessionInv, NewHasNoPair, LoginIssued, LeftIssued, CheckedIsIssued,
              CheckedIsLive, OneLive, NoneAfterLogout, Live
<1> QED
  BY <1>1, <1>2, <1>3, <1>4, <1>5, <1>6, <1>7, <1>8 DEF SessionNext

\* Sessions alone: one refresh token to a login, none after its logout.
LEMMA SessionsCorrect == SessionSpec => [](OneRefreshToken /\ LogoutEndsSession)
<1>1. SessionInit => SessionInv
  BY DEF SessionInit, SessionInv, NewHasNoPair, LoginIssued, LeftIssued, CheckedIsIssued, CheckedIsLive,
         OneLive, NoneAfterLogout, Issued, Live
<1>2. SessionInv => OneRefreshToken /\ LogoutEndsSession
  BY DEF SessionInv, OneLive, NoneAfterLogout, OneRefreshToken, LogoutEndsSession
<1> QED
  BY <1>1, <1>2, SessionTyping, SessionStepInv, PTL DEF SessionSpec

-------------------------------------------------------------------------------
\* The handlers over the sessions

\* Whatever the handlers of admin.py do, the sessions see requests that enter
\* and leave: AdminApi implements Sessions.
THEOREM ImplementsSessions == Spec => SessionSpec
<1>1. Init => SessionInit
  BY DEF Init
<1>2. [Next]_vars => [SessionNext]_sessionVars
  <2> SUFFICES ASSUME [Next]_vars PROVE [SessionNext]_sessionVars
    OBVIOUS
  <2>1. ASSUME NEW r \in Requests, LoadForUser(r) \/ LoadForKey(r) PROVE Enter(r)
    BY <2>1 DEF LoadForUser, LoadForKey, Load
  <2>2. ASSUME NEW r \in Requests, Commit(r) \/ Refuse(r) PROVE Leave(r)
    BY <2>2 DEF Commit, Refuse
  <2>3. CASE SessionStep
    BY <2>3 DEF SessionStep, SessionNext
  <2>4. CASE UNCHANGED vars
    BY <2>4 DEF vars
  <2> QED
    BY <2>1, <2>2, <2>3, <2>4 DEF Next, SessionNext
<1> QED
  BY <1>1, <1>2, PTL DEF Spec, SessionSpec

\* post_refresh spends the refresh token it is given: no two live refresh
\* tokens descend from one login.
THEOREM OneRefreshTokenHolds == Spec => []OneRefreshToken
  BY ImplementsSessions, SessionsCorrect, PTL

\* post_logout leaves its session no live refresh token.
THEOREM LogoutEndsSessionHolds == Spec => []LogoutEndsSession
  BY ImplementsSessions, SessionsCorrect, PTL

\* What a step may do to the rows and to a request's view of them: nothing, a
\* load, a commit, or a close without one.
Loads(r) ==
  /\ at[r] \in {"new", "known"} /\ at' = [at EXCEPT ![r] = "handling"]
  /\ \E body \in UserAsks \union {RecordUse(r)} : asks' = [asks EXCEPT ![r] = body]
  /\ seen' = [seen EXCEPT ![r] = row]
  /\ before' = [before EXCEPT ![r] = committed]
  /\ UNCHANGED <<row, created, committed>>

Commits(r) ==
  /\ at[r] = "handling" /\ at' = [at EXCEPT ![r] = "done"]
  /\ row' = Written(r)
  /\ committed' = committed \union {r}
  /\ seen' = [seen EXCEPT ![r] = Nothing]
  /\ UNCHANGED <<created, asks, before>>

Closes(r) ==
  /\ at[r] \in {"refreshing", "known", "handling"} /\ at' = [at EXCEPT ![r] = "done"]
  /\ asks' = [asks EXCEPT ![r] = Nothing]
  /\ seen' = [seen EXCEPT ![r] = Nothing]
  /\ UNCHANGED <<row, created, committed, before>>

\* Session steps neither begin a handler nor take back that one has ended.
HandlersStay ==
  \A q \in Requests :
    /\ at'[q] = "handling" => at[q] = "handling"
    /\ at[q] = "done" => at'[q] = "done"

Aside == HandlersStay /\ UNCHANGED rowVars

LEMMA StepKinds ==
  ASSUME SessionTypeOK, [Next]_vars
  PROVE  (\E r \in Requests : Loads(r) \/ Commits(r) \/ Closes(r)) \/ Aside
<1>1. ASSUME NEW r \in Requests, LoadForUser(r) \/ LoadForKey(r) PROVE Loads(r)
  BY <1>1 DEF LoadForUser, LoadForKey, Load, Enter, Goes, Loads
<1>2. ASSUME NEW r \in Requests, Commit(r) PROVE Commits(r)
  BY <1>2 DEF Commit, Leave, Goes, Close, Commits
<1>3. ASSUME NEW r \in Requests, Refuse(r) PROVE Closes(r)
  BY <1>3 DEF Refuse, Leave, Goes, Close, Closes
<1>4. CASE SessionStep
  <2>1. ASSUME NEW r \in Requests,
               \/ LogIn(r) \/ CheckRefresh(r) \/ FinishRefresh(r)
               \/ Authenticate(r) \/ LogOut(r) \/ Expire(r)
        PROVE  HandlersStay
    BY <2>1 DEF LogIn, CheckRefresh, FinishRefresh, Authenticate, LogOut, Expire,
                Goes, SessionTypeOK, HandlersStay
  <2>2. Restart => HandlersStay
    BY DEF Restart, SessionTypeOK, HandlersStay
  <2>3. HandlersStay
    <3>1. CASE Restart
      BY <3>1, <2>2
    <3>2. CASE ~Restart
      <4>1. PICK r \in Requests :
              \/ LogIn(r) \/ CheckRefresh(r) \/ FinishRefresh(r)
              \/ Authenticate(r) \/ LogOut(r) \/ Expire(r)
        BY <1>4, <3>2 DEF SessionStep
      <4> QED
        BY <4>1, <2>1
    <3> QED
      BY <3>1, <3>2
  <2>4. UNCHANGED rowVars
    BY <1>4 DEF SessionStep, rowVars
  <2>5. Aside
    BY <2>3, <2>4 DEF Aside
  <2> QED
    BY <2>5
<1>5. CASE UNCHANGED vars
  BY <1>5 DEF vars, sessionVars, Aside, HandlersStay
<1>6. CASE \E r \in Requests :
               LoadForUser(r) \/ LoadForKey(r) \/ Commit(r) \/ Refuse(r)
  <2>1. PICK r \in Requests : LoadForUser(r) \/ LoadForKey(r) \/ Commit(r) \/ Refuse(r)
    BY <1>6
  <2> QED
    BY <2>1, <1>1, <1>2, <1>3
<1> QED
  BY <1>4, <1>5, <1>6 DEF Next

-------------------------------------------------------------------------------
\* The rows

\* Everything a handler may ask for sets both the status and the desired
\* status, to the same text, or neither.
LEMMA AsksAgree ==
  ASSUME NEW r \in Requests, NEW body \in UserAsks \union {RecordUse(r)}
  PROVE  body \in PartialRows /\ body["status"] = body["desired"]
<1> USE DEF PartialRows, Values, Columns, Nothing
<1>1. ASSUME NEW n \in Names, NEW a \in {"on", "off"}, body = PutModel(n, a)
      PROVE  body \in PartialRows /\ body["status"] = body["desired"]
  BY <1>1 DEF PutModel
<1>2. ASSUME NEW t \in Titles \union {Unset}, NEW s \in {"running", "stopped", Unset},
             body = PatchDeployment(t, s)
      PROVE  body \in PartialRows /\ body["status"] = body["desired"]
  BY <1>2 DEF PatchDeployment
<1>3. CASE body \in {DisableModel, StopDeployment, RevokeKey, RecordUse(r)}
  BY <1>3 DEF DisableModel, StopDeployment, RevokeKey, RecordUse
<1> QED
  BY <1>1, <1>2, <1>3 DEF UserAsks

\* The columns hold texts, and only finished requests have committed
\* (mc_shared/models.py, admin.py:263-459).
THEOREM TypeCorrect == Spec => []TypeOK
<1>1. Init => TypeOK
  <2> SUFFICES ASSUME Init PROVE TypeOK
    OBVIOUS
  <2>1. SessionTypeOK
    <3>1. at \in [Requests -> States] /\ pair \in [Requests -> Ages]
      BY DEF Init, SessionInit, States, Ages
    <3>2. presented \in [Requests -> Requests] /\ login \in [Requests -> Requests]
      BY DEF Init, SessionInit
    <3> QED
      BY <3>1, <3>2 DEF Init, SessionInit, SessionTypeOK
  <2>2. row \in [Columns -> Values] /\ created \in {"running", "stopped", "other"}
    BY DEF Init, Created, Columns, Values
  <2>3. Nothing \in PartialRows
    BY DEF Nothing, PartialRows
  <2>4. asks \in [Requests -> PartialRows] /\ seen \in [Requests -> PartialRows]
    BY <2>3 DEF Init
  <2> QED
    BY <2>1, <2>2, <2>4 DEF TypeOK, Init
<1>2. TypeOK /\ SessionTypeOK' /\ [Next]_vars => TypeOK'
  <2> SUFFICES ASSUME TypeOK, SessionTypeOK', [Next]_vars PROVE TypeOK'
    OBVIOUS
  <2>0. Nothing \in PartialRows /\ row \in PartialRows
    BY DEF Nothing, PartialRows, TypeOK
  <2>1. ASSUME NEW r \in Requests, Loads(r) PROVE TypeOK'
    BY <2>0, <2>1, AsksAgree DEF Loads, TypeOK, SessionTypeOK
  <2>2. ASSUME NEW r \in Requests, Commits(r) PROVE TypeOK'
    <3>1. row' \in [Columns -> Values]
      BY <2>2 DEF Commits, Written, Changes, TypeOK, PartialRows
    <3> QED
      BY <2>0, <2>2, <3>1 DEF Commits, TypeOK, SessionTypeOK
  <2>3. ASSUME NEW r \in Requests, Closes(r) PROVE TypeOK'
    BY <2>0, <2>3 DEF Closes, TypeOK, SessionTypeOK
  <2>4. CASE Aside
    <3>1. UNCHANGED <<row, created, asks, seen, committed, before>> /\ HandlersStay
      BY <2>4 DEF Aside, rowVars
    <3>2. committed' \subseteq {r \in Requests : at'[r] = "done"}
      BY <3>1 DEF TypeOK, HandlersStay
    <3> QED
      BY <3>1, <3>2 DEF TypeOK
  <2> QED
    BY <2>1, <2>2, <2>3, <2>4, StepKinds DEF TypeOK
<1>3. Spec => []SessionTypeOK
  BY ImplementsSessions, SessionTyping, PTL
<1> QED
  BY <1>1, <1>2, <1>3, PTL DEF Spec

\* A request that has loaded its row and not yet committed sees the row as it
\* is, except where a request that committed since asked for the column.
SeenOrChanged ==
  \A r \in Requests, c \in Columns :
    at[r] = "handling" =>
      \/ row[c] = seen[r][c]
      \/ \E p \in committed \ before[r] : asks[p][c] # Unset /\ row[c] = asks[p][c]

RowInv == SeenOrChanged /\ NoChangeLost

\* The commit of r, column by column: r writes it or the row keeps it.
LEMMA CommitKeepsRowInv ==
  ASSUME TypeOK, RowInv, NEW r \in Requests, Commits(r)
  PROVE  RowInv'
<1>1. /\ r \notin committed
      /\ \A q \in Requests : before[q] \subseteq committed
      /\ committed' = committed \union {r}
      /\ UNCHANGED <<asks, before>>
      /\ \A c \in Columns : row'[c] = IF Changes(r, c) THEN asks[r][c] ELSE row[c]
      /\ \A q \in Requests : at'[q] = "handling" => at[q] = "handling" /\ seen'[q] = seen[q]
  BY DEF TypeOK, SessionTypeOK, Commits, Written
<1>2. SeenOrChanged'
  <2> SUFFICES ASSUME NEW q \in Requests, NEW c \in Columns, at'[q] = "handling"
               PROVE  \/ row'[c] = seen'[q][c]
                      \/ \E p \in committed' \ before'[q] :
                           asks'[p][c] # Unset /\ row'[c] = asks'[p][c]
    BY DEF SeenOrChanged
  <2>1. CASE Changes(r, c)
    BY <1>1, <2>1 DEF Changes
  <2>2. CASE ~Changes(r, c)
    <3>1. \/ row[c] = seen[q][c]
          \/ \E p \in committed \ before[q] : asks[p][c] # Unset /\ row[c] = asks[p][c]
      BY <1>1 DEF RowInv, SeenOrChanged
    <3> QED
      BY <1>1, <2>2, <3>1
  <2> QED
    BY <2>1, <2>2
<1>3. NoChangeLost'
  <2> SUFFICES ASSUME NEW q \in committed', NEW c \in Columns, asks[q][c] # Unset
               PROVE  \/ row'[c] = asks[q][c]
                      \/ \E p \in committed' \ before[q] :
                           asks[p][c] # Unset /\ row'[c] = asks[p][c]
    BY <1>1 DEF NoChangeLost, KeptOrReplaced
  <2>0. q \in Requests
    BY <1>1 DEF TypeOK
  <2>1. CASE Changes(r, c)
    BY <1>1, <2>0, <2>1 DEF Changes
  <2>2. CASE ~Changes(r, c) /\ q = r
    <3>1. row'[c] = row[c] /\ asks[r][c] = seen[r][c]
      BY <1>1, <2>2 DEF Changes
    <3>2. \/ row[c] = seen[r][c]
          \/ \E p \in committed \ before[r] : asks[p][c] # Unset /\ row[c] = asks[p][c]
      BY DEF RowInv, SeenOrChanged, Commits
    <3> QED
      BY <1>1, <2>2, <3>1, <3>2
  <2>3. CASE ~Changes(r, c) /\ q # r
    <3>1. q \in committed /\ row'[c] = row[c]
      BY <1>1, <2>3
    <3>2. \/ row[c] = asks[q][c]
          \/ \E p \in committed \ before[q] : asks[p][c] # Unset /\ row[c] = asks[p][c]
      BY <3>1 DEF RowInv, NoChangeLost, KeptOrReplaced
    <3> QED
      BY <1>1, <3>1, <3>2
  <2> QED
    BY <2>1, <2>2, <2>3
<1> QED
  BY <1>2, <1>3 DEF RowInv

\* No update is lost to one that did not ask for its column, for any number of
\* concurrent handlers (SQLAlchemy's UPDATE of changed columns, _record).
THEOREM NoChangeLostHolds == Spec => []NoChangeLost
<1>1. Init => RowInv
  BY DEF Init, SessionInit, RowInv, SeenOrChanged, NoChangeLost
<1>2. TypeOK /\ RowInv /\ [Next]_vars => RowInv'
  <2> SUFFICES ASSUME TypeOK, RowInv, [Next]_vars PROVE RowInv'
    OBVIOUS
  <2>1. ASSUME NEW r \in Requests, Loads(r) \/ Closes(r) PROVE RowInv'
    <3>1. /\ r \notin committed
          /\ UNCHANGED <<row, committed>>
          /\ \A q \in Requests \ {r} : asks'[q] = asks[q] /\ before'[q] = before[q]
                                      /\ seen'[q] = seen[q] /\ at'[q] = at[q]
          /\ at'[r] = "handling" => seen'[r] = row
      BY <2>1 DEF TypeOK, SessionTypeOK, Loads, Closes
    <3>2. \A q \in committed : q \in Requests \ {r}
      BY <3>1 DEF TypeOK
    <3>3. NoChangeLost'
      BY <3>1, <3>2 DEF RowInv, NoChangeLost, KeptOrReplaced
    <3>4. SeenOrChanged'
      BY <3>1, <3>2 DEF RowInv, SeenOrChanged
    <3> QED
      BY <3>3, <3>4 DEF RowInv
  <2>2. ASSUME NEW r \in Requests, Commits(r) PROVE RowInv'
    BY <2>2, CommitKeepsRowInv
  <2>3. CASE Aside
    BY <2>3 DEF Aside, HandlersStay, rowVars, RowInv, SeenOrChanged, NoChangeLost, KeptOrReplaced
  <2> QED
    BY <2>1, <2>2, <2>3, StepKinds DEF TypeOK
<1>3. RowInv => NoChangeLost
  BY DEF RowInv
<1> QED
  BY <1>1, <1>2, <1>3, TypeCorrect, PTL DEF Spec

\* Where the deployment was created as running or stopped, a request holds the
\* two columns equal too, and what it asks of one it asks of the other.
AgreeInv ==
  /\ StatusMatchesDesired
  /\ \A r \in Requests :
       /\ asks[r]["status"] = asks[r]["desired"]
       /\ created # "other" => seen[r]["status"] = seen[r]["desired"]

\* The status the router goes by is the status that was desired
\* (patch_deployment, stop_deployment), for any number of handlers.
THEOREM StatusMatchesDesiredHolds == Spec => []StatusMatchesDesired
<1> USE DEF Columns
<1>1. Init => AgreeInv
  BY DEF Init, Created, Nothing, AgreeInv, StatusMatchesDesired
<1>2. TypeOK /\ AgreeInv /\ [Next]_vars => AgreeInv'
  <2> SUFFICES ASSUME TypeOK, AgreeInv, [Next]_vars PROVE AgreeInv'
    OBVIOUS
  <2>1. ASSUME NEW r \in Requests, Loads(r) PROVE AgreeInv'
    BY <2>1, AsksAgree DEF Loads, TypeOK, AgreeInv, StatusMatchesDesired
  <2>2. ASSUME NEW r \in Requests, Commits(r) PROVE AgreeInv'
    <3>1. created # "other" => row'["status"] = row'["desired"]
      BY <2>2 DEF Commits, Written, Changes, AgreeInv, StatusMatchesDesired
    <3> QED
      BY <2>2, <3>1 DEF Commits, Nothing, TypeOK, AgreeInv, StatusMatchesDesired
  <2>3. ASSUME NEW r \in Requests, Closes(r) PROVE AgreeInv'
    BY <2>3 DEF Closes, Nothing, TypeOK, AgreeInv, StatusMatchesDesired
  <2>4. CASE Aside
    BY <2>4 DEF Aside, rowVars, AgreeInv, StatusMatchesDesired
  <2> QED
    BY <2>1, <2>2, <2>3, <2>4, StepKinds DEF TypeOK
<1>3. AgreeInv => StatusMatchesDesired
  BY DEF AgreeInv
<1> QED
  BY <1>1, <1>2, <1>3, TypeCorrect, PTL DEF Spec

===============================================================================
