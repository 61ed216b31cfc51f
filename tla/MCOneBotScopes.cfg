\* One message delivered twice, two scopes for one slot, a panic, an expiry, a shutdown.
SPECIFICATION FairSpec
CONSTANTS
  d1 = d1
  d2 = d2
  d3 = d3
  d4 = d4
  a = a
  b = b
  k1 = k1
  k2 = k2
  None = None
  Deliveries = {d1, d2, d3, d4}
  Scopes = {a, b}
  ScopeOf <- MCScopeOf
  Keys = {k1, k2}
  KeyOf <- MCKeyOf
  Capacity = 2
  MaxScopes = 1
  MaxPanics = 1
  MaxExpiries = 1
  MayShutDown = TRUE
INVARIANTS
  WorkersAreSound
  OnceOrAgain
PROPERTIES
  KeepsOrder
  EveryMessageSettles
  ShutdownEnds
CHECK_DEADLOCK FALSE
