SPECIFICATION SharesSpec
CONSTANTS
  h1 = h1
  h2 = h2
  here = here
  s1 = s1
  s2 = s2
  draft = draft
  memo = memo
  folder = folder
  photo = photo
  None = None
  Handlers = {h1, h2}
  Addresses = {here}
  ShareIds = {s1, s2}
  Notes = {draft, memo}
  Media = {photo}
  Prefixes = {folder, memo}
  Covers <- MCCovers
  Keys <- MCKeys
  Lifetimes = {1}
  Loads <- MCLoads
  Limit = 2
  Window = 2
SYMMETRY Symmetry
INVARIANTS TypeOK BurstsAreBounded FullKeysWereUsed NothingForTheLate ServedIsShared
PROPERTIES ReopenedOnRequestOrStaleRead
