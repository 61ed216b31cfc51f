\* Two rows claimed together, two payloads, two workers that may overlap, one fault.
SPECIFICATION FairSpec
CONSTANTS
  k1 = k1
  k2 = k2
  w1 = w1
  w2 = w2
  s1 = s1
  t1 = t1
  long = long
  broken = broken
  None = None
  Keys = {k1, k2}
  Sources = {s1}
  Types = {t1}
  TypeOf <- MCTypeOf
  Contents = {long, broken}
  PartCount <- MCPartCount
  Workers = {w1, w2}
  Delays = {0}
  MaxAttempts = 2
  RetryDelay = 1
  LockTimeout = 1
  BatchLimit = 2
  MaxLate = 0
  MaxRequests = 2
  MaxFaults = 1
INVARIANTS
  TypeOK
  SentMeansReceived
  LeasesAreSound
PROPERTIES
  PushesTheRow
  KeepsPromise
  EveryRowSettles
