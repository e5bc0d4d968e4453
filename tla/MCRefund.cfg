SPECIFICATION Spec
CONSTANTS
  Intents = {i1}
  Payments = {p1}
  Refunds = {r1, r2}
  Keys = {k1}
  Confirms = {}
  Events = {}
  Hooks = {}
  Voids = {}
  Sweeps = {}
  SweepLimit = 0
  Dues <- JustTwo
  Amounts <- OneOrTwo
  ConfirmTargets = {p1}
  Production = TRUE
  OutboxEnabled = TRUE
  InvoiceScopedIds = FALSE
  None = None
CHECK_DEADLOCK FALSE
SYMMETRY Symmetry
INVARIANTS
  AmountsConserved
  StatusMatchesTotals
  CreditedExactly
  BookedIsReturned
PROPERTY ImplementsAccount
