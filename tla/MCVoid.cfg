SPECIFICATION Spec
CONSTANTS
  Intents = {i1}
  Payments = {p1}
  Refunds = {}
  Keys = {}
  Confirms = {c1}
  Events = {e1}
  Hooks = {h1, h2}
  Voids = {v1}
  Sweeps = {}
  SweepLimit = 0
  Dues <- JustTwo
  Amounts <- OneUnit
  ConfirmTargets = {p1}
  Production = TRUE
  OutboxEnabled = TRUE
  InvoiceScopedIds = TRUE
  None = None
CHECK_DEADLOCK FALSE
SYMMETRY Symmetry
INVARIANTS
  TotalsAreSums
  CreditedOnlyIfCaptured
  AnnouncedIsTrue
  OneWorkerPerEvent
PROPERTIES
  SettledForGood
  ProcessedEventIsApplied
