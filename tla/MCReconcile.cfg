SPECIFICATION MaintenanceSpec
CONSTANTS
  Intents = {i1}
  Payments = {p1, p2}
  Refunds = {r1}
  Keys = {}
  Events = {}
  Hooks = {}
  Refreshes = {f1}
  Reconciles = {c1, c2}
  Reprocesses = {}
  MaxBusy = 2
  Dues = {2}
  Amounts = {1, 2}
  Production = TRUE
  OutboxEnabled = FALSE
  InvoiceScopedIds = FALSE
  None = None
CHECK_DEADLOCK FALSE
INVARIANT NothingCountedTwice
PROPERTIES
  RepairsSettle
  DriftIsRepaired
