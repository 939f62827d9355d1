\* refresh over the cached transport: see findings.
CONSTANTS
  t1 = t1  t2 = t2
  collinfo = collinfo  capture1 = capture1  capture2 = capture2  capture3 = capture3
  url = url  digest = digest  other = other
  Tasks = {t1, t2}
  Requests = {collinfo}
  Collinfo = collinfo
  Keys = {url}
  KeyOf <- OneKey
  MaxVersion = 2
  MaxLeft = 1
  Garbled = {}
  Main = t1
  Jobs <- NoJobs
  LocsOf <- Locs
SPECIFICATION ComSpec
PROPERTY RefreshReloads
