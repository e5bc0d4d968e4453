SPECIFICATION FairSpec
CONSTANTS
  Notices = {n1}
  Endpoints = {e1}
  Secrets = {s1, s2}
  Emitters = {m1, m2}
  Workers = {w1, w2}
  Replays = {r1}
  MaxAttempts = 2
  ClaimLimit = 1
  MaxRequeues = 1
  MaxUnheard = 1
  None = None
CHECK_DEADLOCK FALSE
INVARIANTS
  DeliveryInv
  HandledOnce
  AttemptsBounded
  SucceededWasHandled
  NoneIsPassedOver
  AbandonedByDeath
PROPERTY EveryNoticeEnds
