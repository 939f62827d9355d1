\* fetch_url and the newest capture of a URL.
CONSTANTS
  Captures <- OneUrl
  MaxCaptures = 4
  Listed <- EachText
  MaxListed = 2
  Texts <- ListedTexts
  Chars <- AllChars
  Www <- www
  Jobs <- FetchJobs
SPECIFICATION SelectionSpec
INVARIANT FetchedIsNewest
