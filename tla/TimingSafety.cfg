\* Two callers, two buckets; time up to the horizon.
CONSTANTS
  t1 = t1  t2 = t2  t3 = t3
  indexHost = indexHost  dataHost = dataHost
  index = index  data = data
  Tasks = {t1, t2}
  Hosts = {indexHost, dataHost}
  Buckets = {index, data}
  BucketOf <- MCBucketOf
  MaxRps = 1
  MaxConcurrency = 1
  MaxRetries = 3
  BaseBackoff = 1
  MaxBackoff = 2
  MaxCalls = 1
  Horizon = 8
SPECIFICATION TSpec
SYMMETRY TaskSymmetry
INVARIANT LongRunRate
INVARIANT RetryBudget
INVARIANT BackoffObserved
\* Behaviours end at the Horizon.
CHECK_DEADLOCK FALSE
