\* The index stream inside each kind of enumeration, read to its end,
\* dropped, or written by the command line.
CONSTANTS
  Crawls <- FourCrawls
  Index <- FourIndexes
  Captures = {"a1", "a2", "b1", "b2", "c1", "c2", "d1", "d2"}
  UrlKeyOf <- UrlKeys
  LengthOf <- Lengths
  TimeOf <- Times
  MaxPages = 3
  Limit = 2
  Orders <- AllOrders
SPECIFICATION CommandFairSpec
INVARIANT InOrder
INVARIANT NothingSkipped
INVARIANT GuardBeforePages
INVARIANT WithinBudget
INVARIANT OneCapturePerUrl
INVARIANT FirstErrorResumes
INVARIANT ExitTells
PROPERTY NoReadAhead
PROPERTY EnumerationEnds
