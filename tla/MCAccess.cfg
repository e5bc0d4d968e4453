SPECIFICATION MCSpec
CONSTANTS
  app = app
  internal = internal
  b1 = b1
  b2 = b2
  b3 = b3
  k1 = k1
  m1 = m1
  m2 = m2
  m3 = m3
  q1 = q1
  q2 = q2
  q3 = q3
  Clients = {app, internal}
  SystemClients = {internal}
  Credentials = {b1, b2, b3}
  SigningKeys = {k1}
  Merchants = {m1, m2, m3}
  Refs = {x1}
  ScopeSets <- SomeScopes
  Expiries <- AtOnceOrNever
  MaxNow = 1
  MaxCommands = 1
  Requests = {q1, q2, q3}
  Nonces = {n1}
  Offered <- SomeRoutes
  RefsOf <- OwnRefs
  GlobalLimit = 2
  RouteLimit = 1
  None = None
CHECK_DEADLOCK FALSE
SYMMETRY Symmetry
INVARIANTS
  EffectsWereAllowed
  SignedOnce
  RefusalsAreEarned
  MerchantsAreHeld
PROPERTY OnlyOwnersEnd
