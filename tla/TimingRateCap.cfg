\* Expected to be violated: see findings.
CONSTANTS
  t1 = t1  t2 = t2  t3 = t3
  indexHost = indexHost  dataHost = dataHost
  index = index  data = data
  Tasks = {t1, t2, t3}
  Hosts = {indexHost}
  Buckets = {index}
  BucketOf <- OneBucket
  MaxRps = 1
  MaxConcurrency = 1
  MaxRetries = 1
  BaseBackoff = 1
  MaxBackoff = 2
  MaxCalls = 1
  Horizon = 6
SPECIFICATION TSpecPrompt
SYMMETRY TaskSymmetry
INVARIANT RateCap
\* Behaviours end at the Horizon.
CHECK_DEADLOCK FALSE
