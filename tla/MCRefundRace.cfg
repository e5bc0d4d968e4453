SPECIFICATION Spec
CONSTANTS
  Intents = {i1}
  Payments = {p1}
  Refunds = {r1, r2}
  Keys = {}
  Confirms = {}
  Events = {}
  Hooks = {}
  Voids = {}
  Sweeps = {}
  SweepLimit = 0
  Dues <- JustTwo
  Amounts <- JustTwo
  ConfirmTargets = {p1}
  Production = TRUE
  OutboxEnabled = FALSE
  InvoiceScopedIds = FALSE
  None = None
CHECK_DEADLOCK FALSE
INVARIANT ReturnedWithinSource
