\* Three concurrent callers of one bucket, two permits, two retries.
CONSTANTS
  t1 = t1  t2 = t2  t3 = t3
  indexHost = indexHost  dataHost = dataHost
  index = index  data = data
  Tasks = {t1, t2, t3}
  Hosts = {indexHost}
  Buckets = {index}
  BucketOf <- OneBucket
  MaxRps = 1
  MaxConcurrency = 2
  MaxRetries = 2
  BaseBackoff = 1
  MaxBackoff = 2
  MaxCalls = 1
SPECIFICATION FairSpec
INVARIANT TypeOK
INVARIANT PermitsConserved
INVARIANT HoldersAreSending
INVARIANT QueueIsALine
PROPERTY EveryCallReturns
