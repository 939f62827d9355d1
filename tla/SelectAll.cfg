\* Every operation, on every index of up to four captures; every template on
\* every pair of URLs.
CONSTANTS
  Captures <- TwoUrls
  MaxCaptures = 4
  Listed <- EachText
  MaxListed = 2
  Texts <- ListedTexts
  Chars <- AllChars
  Www <- www
  Jobs <- AllJobs
SPECIFICATION SelectionSpec
INVARIANT ExtremeChosen
INVARIANT HistoryKept
INVARIANT EveryContentOnce
INVARIANT SpanKept
INVARIANT PerUrlBound
INVARIANT BindingsAreReadings
