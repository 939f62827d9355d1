\* Every match type; exact and prefix with every kind of filter; every selector; the same as SQL.
CONSTANTS
  Registered <- FiveCrawls
  YearLength = 10
  Files <- FiveTables
  Queries <- KeyQueries
SPECIFICATION BulkSpec
INVARIANT BulkAnswers
INVARIANT OnlyWanted
INVARIANT BackendsAgree
INVARIANT SelectorKept
INVARIANT SqlAgrees
