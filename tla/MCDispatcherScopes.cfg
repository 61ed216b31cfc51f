\* Two scopes, one slot, a narrow channel, a panic and a shutdown.
SPECIFICATION FairSpec
CONSTANTS
  m1 = m1
  m2 = m2
  m3 = m3
  m4 = m4
  a = a
  b = b
  None = None
  Messages = {m1, m2, m3, m4}
  Scopes = {a, b}
  ScopeOf <- MCScopeOf
  Groups = {a}
  Silent = {m4}
  Capacity = 2
  MaxWorkers = 1
  CommandRoom = 2
  NoticeRoom = 1
  MaxPanics = 1
  MayShutDown = TRUE
INVARIANTS
  TableIsSound
PROPERTIES
  KeepsOrder
  EveryCallReturns
  EveryMessageSettles
\* The messages are finitely many: then the dispatcher has nothing to do.
CHECK_DEADLOCK FALSE
