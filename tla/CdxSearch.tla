----------------------------- MODULE CdxSearch -----------------------------
(***************************************************************************)
(* IndexClient::search: the lazy stream over crawls, index pages and CDXJ  *)
(* lines.  The generator runs only while the consumer awaits an item; it   *)
(* stops for good at its first error, and it can be dropped at any time.   *)
(* What the transport answers to a request is the environment's choice.    *)
(***************************************************************************)
EXTENDS Integers, Sequences

CONSTANTS
  Crawls,     \* the resolved crawls, a sequence
  Index,      \* per crawl (by position), its pages: sequences of captures
  Captures,   \* what the lines stand for
  MaxPages,   \* IndexClient::max_pages
  Limit       \* UrlQuery::limit, 0 for None

ASSUME IndexAssumption == /\ Crawls \in Seq(STRING)
                          /\ Index \in [DOMAIN Crawls -> Seq(Seq(Captures))]
ASSUME GuardAssumption == MaxPages \in Nat /\ Limit \in Nat

VARIABLES
  stage,    \* where the generator stands
  crawl,    \* the crawl it works on
  counts,   \* page counts num_pages answered, per crawl so far
  total,    \* pages of that crawl it will ask for
  page,     \* the page it works on, 0-based
  line,     \* lines of that page already yielded
  demand,   \* the consumer is awaiting the next item
  out,      \* positions of the captures yielded, in order
  asked,    \* pages asked for
  missing,  \* pages the server answered with NotFound
  error     \* the kind of the error the stream ended with

vars == <<stage, crawl, counts, total, page, line, demand, out, asked, missing, error>>

Errors == {"none", "IndexTooLarge", "RateLimited", "other"}

Stages == {"probe", "page", "lines", "ended", "failed", "dropped"}
Live == stage \in {"probe", "page", "lines"}

PagesOf(c) == Len(Index[c])

\* What the server sends for a page: the query's limit goes with every
\* request, so the server cuts each page to it.
Lines(c, p) ==
  LET all == IF p < PagesOf(c) THEN Index[c][p + 1] ELSE <<>>
  IN  IF Limit > 0 /\ Limit < Len(all) THEN SubSeq(all, 1, Limit) ELSE all

CaptureAt(pos) == Lines(pos[1], pos[2])[pos[3]]

Init ==
  /\ stage = IF Len(Crawls) = 0 THEN "ended" ELSE "probe"
  /\ crawl = 1 /\ counts = <<>> /\ total = 0 /\ page = 0 /\ line = 0
  /\ demand = FALSE
  /\ out = <<>> /\ asked = {} /\ missing = {} /\ error = "none"

----------------------------------------------------------------------------
\* The consumer awaits the next item.
Poll ==
  /\ Live /\ ~demand
  /\ demand' = TRUE
  /\ UNCHANGED <<stage, crawl, total, page, line, out, asked, missing, error, counts>>

\* The stream yields an error, and with it ends.
Fail(kind) ==
  /\ stage' = "failed"
  /\ demand' = FALSE
  /\ error' = kind

\* Fault: of a crawl that is too wide the first pages are read.
ProbeCutting(n) ==
  /\ stage = "probe" /\ demand
  /\ counts' = Append(counts, n)
  /\ total' = IF n = 0 THEN 1 ELSE IF n > MaxPages THEN MaxPages ELSE n
  /\ page' = 0
  /\ stage' = "page"
  /\ UNCHANGED <<demand, crawl, line, out, asked, missing, error>>

\* Fault: the last page of several is left out.
ProbeOneShort(n) ==
  /\ stage = "probe" /\ demand
  /\ counts' = Append(counts, n)
  /\ IF n > MaxPages
       THEN Fail("IndexTooLarge") /\ UNCHANGED <<total, page>>
       ELSE /\ total' = IF n < 2 THEN 1 ELSE n - 1
            /\ page' = 0
            /\ stage' = "page"
            /\ UNCHANGED <<demand, error>>
  /\ UNCHANGED <<crawl, line, out, asked, missing>>

\* num_pages answers n: the page count, or 0 for a 404 and for a body that is
\* neither a number nor {"pages": N}.  The guard refuses a crawl wider than
\* MaxPages; a crawl of 0 pages is still asked for its page 0.
Probe(n) ==
  /\ stage = "probe" /\ demand
  /\ counts' = Append(counts, n)
  /\ IF n > MaxPages
       THEN Fail("IndexTooLarge") /\ UNCHANGED <<total, page>>
       ELSE /\ total' = IF n = 0 THEN 1 ELSE n
            /\ page' = 0
            /\ stage' = "page"
            /\ UNCHANGED <<demand, error>>
  /\ UNCHANGED <<crawl, line, out, asked, missing>>

\* A request, for the page count or a page, ends in an error other than 404.
RequestFails ==
  /\ stage = "probe" \/ (stage = "page" /\ page < total)
  /\ demand
  /\ asked' = IF stage = "page" THEN asked \cup {<<crawl, page>>} ELSE asked
  /\ Fail("RateLimited") \/ Fail("other")
  /\ UNCHANGED <<crawl, total, page, line, out, missing, counts>>

\* Fault: the position in the previous page is kept.
PageArrivesMidway ==
  /\ stage = "page" /\ demand /\ page < total
  /\ asked' = asked \cup {<<crawl, page>>}
  /\ stage' = "lines"
  /\ UNCHANGED <<crawl, total, page, line, demand, out, missing, error, counts>>

\* Fault: the next page is asked for along with this one.
PageArrivesPrefetching ==
  /\ stage = "page" /\ demand /\ page < total
  /\ asked' = asked \cup {<<crawl, page>>, <<crawl, page + 1>>}
  /\ line' = 0
  /\ stage' = "lines"
  /\ UNCHANGED <<crawl, total, page, demand, out, missing, error, counts>>

PageArrives ==
  /\ stage = "page" /\ demand /\ page < total
  /\ asked' = asked \cup {<<crawl, page>>}
  /\ line' = 0
  /\ stage' = "lines"
  /\ UNCHANGED <<crawl, total, page, demand, out, missing, error, counts>>

\* A 404 for a page: the loop goes on with the next one.
PageNotFound ==
  /\ stage = "page" /\ demand /\ page < total
  /\ asked' = asked \cup {<<crawl, page>>}
  /\ missing' = missing \cup {<<crawl, page>>}
  /\ page' = page + 1
  /\ UNCHANGED <<stage, crawl, total, line, demand, out, error, counts>>

\* The next line parses, and its capture is yielded.
YieldLine ==
  /\ stage = "lines" /\ demand
  /\ line < Len(Lines(crawl, page))
  /\ out' = Append(out, <<crawl, page, line + 1>>)
  /\ line' = line + 1
  /\ demand' = FALSE
  /\ UNCHANGED <<stage, crawl, total, page, asked, missing, error, counts>>

\* The next line does not parse.
BadLine ==
  /\ stage = "lines" /\ demand
  /\ line < Len(Lines(crawl, page))
  /\ Fail("other")
  /\ UNCHANGED <<crawl, total, page, line, out, asked, missing, counts>>

\* Fault: the page number does not advance.
PageDoneAgain ==
  /\ stage = "lines" /\ demand
  /\ line = Len(Lines(crawl, page))
  /\ stage' = "page"
  /\ UNCHANGED <<crawl, total, page, line, demand, out, asked, missing, error, counts>>

\* Fault: a page without lines is asked for again.
PageDoneUnlessEmpty ==
  /\ stage = "lines" /\ demand
  /\ line = Len(Lines(crawl, page))
  /\ stage' = "page"
  /\ page' = IF line = 0 THEN page ELSE page + 1
  /\ UNCHANGED <<crawl, total, line, demand, out, asked, missing, error, counts>>

PageDone ==
  /\ stage = "lines" /\ demand
  /\ line = Len(Lines(crawl, page))
  /\ stage' = "page"
  /\ page' = page + 1
  /\ UNCHANGED <<crawl, total, line, demand, out, asked, missing, error, counts>>

\* All pages of the crawl: on to the next crawl, or the end of the stream.
CrawlDone ==
  /\ stage = "page" /\ demand
  /\ page = total
  /\ crawl' = crawl + 1
  /\ IF crawl = Len(Crawls)
       THEN stage' = "ended" /\ demand' = FALSE
       ELSE stage' = "probe" /\ UNCHANGED demand
  /\ UNCHANGED <<total, page, line, out, asked, missing, error, counts>>

\* The consumer drops the stream, between two items or during a request.
Drop ==
  /\ Live
  /\ stage' = "dropped"
  /\ demand' = FALSE
  /\ UNCHANGED <<crawl, total, page, line, out, asked, missing, error, counts>>

Generate ==
  \/ Live /\ \E n \in {0, PagesOf(crawl)} : Probe(n)
  \/ RequestFails
  \/ PageArrives
  \/ PageNotFound
  \/ YieldLine
  \/ BadLine
  \/ PageDone
  \/ CrawlDone

Finished == ~Live /\ UNCHANGED vars

Next == Poll \/ Generate \/ Drop \/ Finished

Spec == Init /\ [][Next]_vars

----------------------------------------------------------------------------
Yielded == {out[k] : k \in DOMAIN out}

Before(a, b) == \/ a[1] < b[1]
                \/ a[1] = b[1] /\ a[2] < b[2]
                \/ a[1] = b[1] /\ a[2] = b[2] /\ a[3] < b[3]

\* The lines of a page the generator has asked for, or all of them.
LinesOfPage(q) == {<<q[1], q[2], i>> : i \in DOMAIN Lines(q[1], q[2])}

\* Captures come out "ordered by crawl" (pagination.rs), then by page and by
\* line, and none comes twice.
InOrder == \A j, k \in DOMAIN out : j < k => Before(out[j], out[k])

\* The pages asked for of a crawl.
PagesAsked(c) == {q[2] : q \in {r \in asked : r[1] = c}}

\* No capture is passed over: a stream that moved on to a page has yielded
\* every line of the pages before it, except of pages the server said do not
\* exist; and a stream that ends without error has asked each crawl for exactly
\* the pages the server counted, or for page 0 where it counted none or the
\* count was not to be had.
NothingSkipped ==
  LET current == IF stage = "lines" THEN {<<crawl, page>>} ELSE {}
  IN  /\ stage \in {"probe", "page", "ended"} \/ current # {} =>
           \A q \in (asked \ missing) \ current : LinesOfPage(q) \subseteq Yielded
      /\ stage = "ended" =>
           /\ DOMAIN counts = DOMAIN Crawls
           /\ \A c \in DOMAIN Crawls :
                PagesAsked(c) = IF counts[c] = 0 THEN {0} ELSE 0..(counts[c] - 1)

\* Paging is lazy: pages are asked for one at a time, and only when all that
\* came before has gone to the consumer.
NoReadAhead ==
  [][\A q \in asked' \ asked :
       \A r \in asked \ missing : LinesOfPage(r) \subseteq Yielded]_vars

\* The guard: a crawl is asked for no page, not even its first, before the server
\* has counted its pages, and for none at all when it counted more than MaxPages,
\* whatever the crawls before it have cost.
GuardBeforePages ==
  \A q \in asked : q[1] \in DOMAIN counts /\ counts[q[1]] <= MaxPages

=============================================================================
