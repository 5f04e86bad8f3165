\* Two hooks share three calls; one sign-in or renewal after the first.
SPECIFICATION Spec
CONSTANTS
  c1 = c1
  c2 = c2
  r1 = r1
  r2 = r2
  r3 = r3
  Clients = {c1, c2}
  Calls = {r1, r2, r3}
  ClientOf <- TwoHooks
  Gate = gate
  MaxToken = 2
INVARIANTS
  TypeOK
  SingleFlight
  OneRedirect
  DeniedMeansDead
  DeadIsLeaving
PROPERTIES
  CallsSettle
