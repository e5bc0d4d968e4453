SPECIFICATION MaintenanceSpec
CONSTANTS
  Intents = {i1}
  Payments = {p1, p2}
  Refunds = {}
  Keys = {}
  Events = {e1}
  Hooks = {h1}
  Refreshes = {f1}
  Reconciles = {c1}
  Reprocesses = {b1}
  MaxBusy = 2
  Dues = {1, 2}
  Amounts = {1}
  Production = TRUE
  OutboxEnabled = FALSE
  InvoiceScopedIds = FALSE
  None = None
CHECK_DEADLOCK FALSE
SYMMETRY Symmetry
INVARIANTS
  NothingCountedTwice
  ReplayedEventIsApplied
PROPERTIES
  RepairsCreditOnlyCaptured
