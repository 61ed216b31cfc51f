\* Two users, room for one batch, two parts of one message, a dedupe key in two
\* conversations, a cancellation, and what must happen in the end.
SPECIFICATION FairSpec
CONSTANTS
  m1 = m1
  m2 = m2
  m3 = m3
  m4 = m4
  alice = alice
  bob = bob
  k1 = k1
  k2 = k2
  k3 = k3
  i1 = i1
  i2 = i2
  None = None
  Messages = {m1, m2, m3, m4}
  Users = {alice, bob}
  UserOf <- MCUserOf
  Keys = {k1, k2, k3}
  KeysOf <- MCKeysOf
  Ids = {i1, i2}
  IdsOf <- MCIdsOf
  SizeOf <- MCSizeOf
  Cancels = {m2}
  NonText = {m1, m3}
  MaxMessages = 3
  MaxChars = 4
  MaxActive = 1
  Quiet = 1
  MaxWait = 2
INVARIANTS
  BatchesAreSound
  KeysFollowMessages
  HandsOnInOrder
  NothingIsLeft
PROPERTIES
  EveryMessageSettles
\* The messages are finitely many, and the aggregator may be shut down.
CHECK_DEADLOCK FALSE
