SPECIFICATION Spec
CONSTANTS
  Intents = {i1}
  Payments = {p1}
  Refunds = {}
  Keys = {}
  Confirms = {}
  Events = {e1}
  Hooks = {h1}
  Voids = {v1}
  Sweeps = {}
  SweepLimit = 0
  Dues <- JustTwo
  Amounts <- JustTwo
  ConfirmTargets = {p1}
  Production = TRUE
  OutboxEnabled = FALSE
  InvoiceScopedIds = FALSE
  None = None
CHECK_DEADLOCK FALSE
PROPERTY SucceededStays
