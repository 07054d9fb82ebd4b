SPECIFICATION MCSpec
CONSTANTS
  h1 = h1
  h2 = h2
  o1 = o1
  o2 = o2
  Home = Home
  p1 = p1
  p2 = p2
  t1 = t1
  t2 = t2
  a1 = a1
  a2 = a2
  k1 = k1
  k2 = k2
  home = home
  work = work
  x = x
  y = y
  None = None
  Handlers = {h1, h2}
  OrgIds = {o1, o2}
  ProjectIds = {p1, p2}
  TaskIds = {t1}
  AttachmentIds = {a1, a2}
  ObjectKeys = {k1, k2}
  Names = {home, Home, work}
  Slugs <- MCSlugs
  ToSlug <- MCToSlug
  Texts = {x}
  MaxRequests = 4
SYMMETRY Symmetry
INVARIANTS TypeOK Connected DoneIsCompleted SlugsAreOfNames
PROPERTIES ArchivedWhenDone DeletedStayDeleted ReopenedOnRequestOrStaleRead NoForgottenObjects
CHECK_DEADLOCK FALSE
