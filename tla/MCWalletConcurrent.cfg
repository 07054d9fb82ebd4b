SPECIFICATION MCSpec
CONSTANTS
  h1 = h1
  h2 = h2
  m1 = m1
  m2 = m2
  k1 = k1
  k2 = k2
  i1 = i1
  i2 = i2
  a1 = a1
  a2 = a2
  a3 = a3
  a4 = a4
  t1 = t1
  t2 = t2
  t3 = t3
  t4 = t4
  t5 = t5
  None = None
  Handlers = {h1, h2}
  MonthIds = {m1}
  IncomeIds = {i1}
  AllocIds = {a1, a2, a3}
  TxnIds = {t1, t2, t3, t4}
  MonthKeys = {k1}
  Amounts = {1, 2}
  Budgets = {0}
  Names = {"plain"}
  Balances <- MCBalances
  MaxSplitRows = 2
  MaxRequests = 3
  Populated = TRUE
SYMMETRY Symmetry
INVARIANTS SplitRecordsAgree SplitsAreFlat
PROPERTIES VarianceMovesOnlyOnStaleReads
CHECK_DEADLOCK FALSE
