SPECIFICATION CatalogSpec
CONSTANTS
  Accounts = {a1}
  PayMethods = {card, qris}
  Terms = {any, limited}
  DeclaredBy <- BothDeclared
  AdapterTerms = limited
  DefaultTerms = any
  Editors = {e1, e2}
  Syncs = {s1}
  None = None
CHECK_DEADLOCK FALSE
PROPERTY DisableTakesEffect
