\* Two tasks load the list and fetch captures, or one of them fetches a list or
\* collects seeds; some answers do not parse.
CONSTANTS
  t1 = t1  t2 = t2
  collinfo = collinfo  capture1 = capture1  capture2 = capture2  capture3 = capture3
  url = url  digest = digest  other = other
  Tasks = {t1, t2}
  Requests = {collinfo, capture1, capture2, capture3}
  Collinfo = collinfo
  Keys = {url, digest, other}
  KeyOf <- UrlAndDigests
  MaxVersion = 3
  MaxLeft = 1
  Garbled = {2}
  Main = t1
  Jobs <- FiveJobs
  LocsOf <- Locs
SPECIFICATION ComSpec
INVARIANT AnswersTheRequest
INVARIANT AnsweredIsCached
INVARIANT MemoryHoldsAList
INVARIANT ListFetched
INVARIANT SeedsAreWhatWasRead
