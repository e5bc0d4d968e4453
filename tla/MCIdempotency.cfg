SPECIFICATION Spec
CONSTANTS
  Intents = {i1}
  Payments = {p1, p2, p3}
  Refunds = {}
  Keys = {k1}
  Confirms = {}
  Events = {}
  Hooks = {}
  Voids = {}
  Sweeps = {}
  SweepLimit = 0
  Dues <- JustTwo
  Amounts <- OneOrTwo
  ConfirmTargets = {p1, p2, p3}
  Production = TRUE
  OutboxEnabled = FALSE
  InvoiceScopedIds = FALSE
  None = None
CHECK_DEADLOCK FALSE
SYMMETRY Symmetry
INVARIANTS
  TypeOK
  OneChargePerKey
  CompletedKeyIsStored
