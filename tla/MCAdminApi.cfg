\* Four requests in all, of any kinds: one is the login, as nothing but the
\* gateway's requests is served without one.
CONSTANTS
  Requests = {r1, r2, r3, r4}
  Names = {m1, m2}
  Titles = {d1}
  Unset = Unset
SPECIFICATION Spec
INVARIANTS
  NoChangeLost
  StatusMatchesDesired
  OneRefreshToken
  LogoutEndsSession
SYMMETRY Symmetry
\* Every request has been served.
CHECK_DEADLOCK FALSE
