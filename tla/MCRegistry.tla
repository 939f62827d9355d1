---------------------------- MODULE MCRegistry -----------------------------
\* Small instances of Registry and Commands: collinfo.json, keyed by its URL, and
\* three captures, two of them of one digest.
EXTENDS Commands, TLC

CONSTANTS t1, t2, collinfo, capture1, capture2, capture3, url, digest, other

OneKey == collinfo :> url
UrlAndDigests == (collinfo :> url) @@ (capture1 :> digest) @@ (capture2 :> digest) @@ (capture3 :> other)

\* A list whose first and last line share a digest, one with a line that is no
\* capture; a host whose robots.txt names the usual sitemap and another, which
\* share a URL; URLs are 1 to 5.
Lines(s) == [kind |-> "fetch", lines |-> s, beside |-> {capture1, capture2}, changing |-> {capture1}]
NoJob(requests) == [kind |-> "none", beside |-> requests, changing |-> requests \ {capture2}]
FiveJobs == {NoJob({collinfo}), NoJob({capture1, capture2}),
             Lines(<<capture1, capture3, capture2>>), Lines(<<capture3, NoCapture>>),
             [kind |-> "seeds", sitemaps |-> <<4, SitemapXml>>,
              beside |-> {collinfo}, changing |-> {}]}
Locs == (SitemapXml :> <<3, 2, 3>>) @@ (4 :> <<5, 2>>)
NoJobs == {NoJob({collinfo})}
=============================================================================
