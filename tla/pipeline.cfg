SPECIFICATION Spec
CONSTANTS
  k1 = k1
  k2 = k2
  k3 = k3
  p = p
  r1 = r1
  r2 = r2
  r3 = r3
  Key <- Addresses
  Proxy = p
  Req <- Requests
  MaxTokens = 1
  Grain = 5
  RefillRate = 2
  IdleTimeout = 2
  MaxBuckets = 2
  SWEEP_INTERVAL = 3
  MaxTime = 5
  MaxBytes = 2
  Origin <- Pages
  Traffic <- MCTraffic
SYMMETRY Interchangeable
INVARIANT CacheSafe
INVARIANT BodyBounded
INVARIANT BucketsBounded
INVARIANT OneTokenEach
PROPERTY CheckIsExact
\* Every request has been answered.
CHECK_DEADLOCK FALSE
