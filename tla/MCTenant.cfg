SPECIFICATION TenantSpec
CONSTANTS
  None = None
  o1 = o1
  c1 = c1
  Org = {o1}
  Customer = {c1, c2}
  Event <- StripeEvents
  Handler = {h1, h2}
  Session = {s1, s2}
  Request = {r1, r2}
  IdempotencyKey = {i1, i2, i3}
  Fingerprint = {fa, fb}
  RequestId = {q1, q2}
  Limits = {1, 2}
  Threshold = {50, 100}
  Key = {k1, k2, k3, k4}
  Console = {u1, u2}
  Limit = 2
  Delivery = {d1, d2}
  Batch = {b1, b2}
  MaxAttempts = 2
  DisableAfter = 2
  Email = {m1, m2}
  Sweep = {w1, w2}
  MaxRollbacks = 1
SYMMETRY Interchangeable
INVARIANTS
  TypesOK
  NewestWins
  EventsAccountedFor
  OverrunIsBounded
  AnswersAgree
  WarningsKeepUp
  KeysWithinLimit
  PostsBounded
  MailedOnce
PROPERTY SettledIsFinal
CHECK_DEADLOCK FALSE
