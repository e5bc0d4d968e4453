SPECIFICATION CreationSpec
CONSTANTS
  Requests = {q1, q2, q3}
  Keys = {k1, k2}
  Payables = {o1}
  Apps = {a1}
  Dues = {1, 2}
  None = None
CHECK_DEADLOCK FALSE
INVARIANTS
  CreationInv
  OneIntentPerKey
  AnswersAreAsked
PROPERTY KeepsPromise
