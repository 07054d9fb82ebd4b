SPECIFICATION FairSpec
CONSTANTS
  h1 = h1
  h2 = h2
  here = here
  admin = admin
  s1 = s1
  s2 = s2
  None = None
  Admin = admin
  Handlers = {h1, h2}
  Addresses = {here}
  Emails = {admin}
  Tokens = {s1, s2}
  Limit = 2
  Window = 2
  Ttl = 1
INVARIANTS TypeOK FailuresBounded StaleRequestsAreAnonymous
PROPERTIES BlocksEnd EndedSessionsStayEnded
