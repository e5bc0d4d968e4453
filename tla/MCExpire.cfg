SPECIFICATION Spec
CONSTANTS
  Intents = {i1}
  Payments = {p1, p2}
  Refunds = {}
  Keys = {}
  Confirms = {c1}
  Events = {}
  Hooks = {}
  Voids = {}
  Sweeps = {s1}
  SweepLimit = 2
  Dues = {1, 2}
  Amounts = {1}
  ConfirmTargets = {p1, p2}
  Production = FALSE
  OutboxEnabled = TRUE
  InvoiceScopedIds = FALSE
  None = None
CHECK_DEADLOCK FALSE
SYMMETRY Symmetry
INVARIANTS
  StatusMatchesTotals
  TotalsAreSums
  AnnouncedIsTrue
PROPERTY SettledForGood
