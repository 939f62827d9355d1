----------------------------- MODULE Selection -----------------------------
(***************************************************************************)
(* What is made of a capture stream that is read to its end: the single    *)
(* capture text_in, fetch_url and --newest/--oldest choose, the per-URL    *)
(* samples of a manifest, and the variables a template binds.  Captures    *)
(* come in the index's order: crawl by crawl, the newest crawl first,      *)
(* inside a crawl by URL and time.  A capture is a record of its crawl's   *)
(* position, URL, time and digest.                                         *)
(***************************************************************************)
EXTENDS Template, Sorting

CONSTANTS
  Captures,     \* records [crawl, url, time, digest]
  MaxCaptures,  \* bound: captures the query matches
  Listed,       \* captures the query of a template may match
  MaxListed,    \* bound: how many it matches
  Texts,        \* what URLs say after the scheme: URL u is Texts[u]
  Jobs          \* what to do: records [op, max], [op, parts] for a template

ASSUME CaptureAssumption ==
  \A c \in Captures \cup Listed :
    /\ {"crawl", "url", "time", "digest"} = DOMAIN c
    /\ c.crawl \in Nat /\ c.url \in Nat /\ c.time \in Int
ASSUME ListedAssumption ==
  \A c \in Listed : c.url \in DOMAIN Texts /\ Texts[c.url] \in Seq(Chars)
ASSUME BoundsAssumption == MaxCaptures \in Nat /\ MaxListed \in Nat

VARIABLES
  index,    \* the captures that match, in the index's order
  job,
  taken,    \* how many the stream has yielded
  chosen,   \* the capture kept so far, in a sequence of at most one
  phase,    \* open, done, failed or panicked
  result,   \* what is handed over
  bound     \* and, beside each capture, the values its template's variables got

vars == <<index, job, taken, chosen, phase, result, bound>>

InIndexOrder(a, b) ==
  \/ a.crawl < b.crawl
  \/ a.crawl = b.crawl /\ a.url < b.url
  \/ a.crawl = b.crawl /\ a.url = b.url /\ a.time <= b.time

Indexes(captures, most) ==
  {s \in UNION {[1..n -> captures] : n \in 0..most} :
     \A i \in 1..(Len(s) - 1) : InIndexOrder(s[i], s[i + 1])}

Choosers == {"text", "newest", "oldest"}
Samplers == {"all", "unique-digest", "first-last", "first-last-digest", "adaptive"}

ASSUME JobsAssumption ==
  \A j \in Jobs :
    /\ j.op \in Choosers \cup Samplers \cup {"fetch", "template"}
    /\ j.op = "adaptive" => j.max \in Nat
    /\ j.op = "template" => Parsed(j.parts)

SelectionInit ==
  /\ job \in Jobs
  /\ index \in IF job.op = "template" THEN Indexes(Listed, MaxListed)
                                     ELSE Indexes(Captures, MaxCaptures)
  /\ taken = 0 /\ chosen = <<>>
  /\ phase = "open"
  /\ result = <<>> /\ bound = <<>>

----------------------------------------------------------------------------
(* The reducers of one URL's captures, in time order *)

UniqueDigest(g) ==
  Pick(g, {i \in DOMAIN g : \A j \in 1..(i - 1) : g[j].digest # g[i].digest})

FirstLast(g) == IF Len(g) <= 2 THEN g ELSE <<g[1], g[Len(g)]>>

\* Fault: a content is taken for a change only when it is new.
ChangesUnseen(g) ==
  Pick(g, {i \in DOMAIN g : \/ i = Len(g)
                            \/ \A j \in 1..(i - 1) : g[j].digest # g[i].digest})

\* first_last_digest_changes: both edges, and what differs from the capture before.
Changes(g) ==
  Pick(g, {i \in DOMAIN g : i = 1 \/ i = Len(g) \/ g[i].digest # g[i - 1].digest})

\* Fault: the steps divide the length instead of the distance.
CapLenEven(g, max) ==
  IF max = 0 \/ Len(g) <= max
    THEN g
    ELSE Pick(g, {1 + (i * Len(g)) \div max : i \in 0..(max - 1)})

\* Fault: one step too many.
CapLenInclusive(g, max) ==
  IF max = 0 \/ Len(g) <= max
    THEN g
    ELSE Pick(g, {1 + (i * (Len(g) - 1)) \div max : i \in 0..max})

\* cap_len: max positions evenly spaced from the first to the last.
CapLen(g, max) ==
  IF max = 0 \/ Len(g) <= max
    THEN g
    ELSE Pick(g, {1 + (i * (Len(g) - 1)) \div (max - 1) : i \in 0..(max - 1)})

\* With max = 1 the spacing is a division by zero.
CapLenPanics(g, max) == max = 1 /\ Len(g) > 1

Reduce(g, j) ==
  CASE j.op = "all" -> g
    [] j.op = "unique-digest" -> UniqueDigest(g)
    [] j.op = "first-last" -> FirstLast(g)
    [] j.op = "first-last-digest" -> Changes(g)
    [] j.op = "adaptive" -> CapLen(Changes(g), j.max)

Urls(s) == {s[i].url : i \in DOMAIN s}

\* Fault: the group stays in the order of the stream.
GroupUnsorted(s, u) == Pick(s, {i \in DOMAIN s : s[i].url = u})

\* The captures of one URL, sorted by time, those of one time in their order.
Group(s, u) ==
  LET Earlier == {p \in (DOMAIN s) \X DOMAIN s :
                    \/ s[p[1]].time < s[p[2]].time
                    \/ s[p[1]].time = s[p[2]].time /\ p[1] < p[2]}
      order == SortedBy({i \in DOMAIN s : s[i].url = u}, Earlier)
  IN  [k \in DOMAIN order |-> s[order[k]]]

\* sample: the groups in the order of their URLs, each reduced.
Sample(s, j) ==
  LET urls == Ascending(Urls(s))
  IN  FlattenSeq([k \in DOMAIN urls |-> Reduce(Group(s, urls[k]), j)])

SamplePanics(s, j) ==
  j.op = "adaptive" /\ \E u \in Urls(s) : CapLenPanics(Changes(Group(s, u)), j.max)

\* What a template makes of a capture.
Binding(j, c) == Bind(j.parts, Stripped(Texts[c.url]))

Matching(s, j) == Pick(s, {i \in DOMAIN s : Binding(j, s[i]).ok})

----------------------------------------------------------------------------
\* Fault: the last capture of the stream is taken.
BetterLast(c) == job.op \in Choosers

\* Whether a capture replaces the one chosen so far.
Better(c) ==
  /\ job.op \in Choosers
  /\ \/ chosen = <<>>
     \/ job.op \in {"text", "newest"} /\ c.time > chosen[1].time
     \/ job.op = "oldest" /\ c.time < chosen[1].time

\* The stream yields a capture; fetch_url takes the first and stops.
Take ==
  /\ phase = "open" /\ taken < Len(index)
  /\ taken' = taken + 1
  /\ LET c == index[taken']
     IN  /\ chosen' = IF Better(c) THEN <<c>> ELSE chosen
         /\ IF job.op = "fetch"
              THEN phase' = "done" /\ result' = <<c>>
              ELSE UNCHANGED <<phase, result>>
  /\ UNCHANGED <<index, job, bound>>

\* The stream yields an error: what has been read is given up.
Break ==
  /\ phase = "open"
  /\ phase' = "failed"
  /\ UNCHANGED <<index, job, taken, chosen, result, bound>>

\* The stream ends.  With no capture there is nothing to hand over.
End ==
  /\ phase = "open" /\ taken = Len(index)
  /\ IF SamplePanics(index, job)
       THEN phase' = "panicked" /\ UNCHANGED <<result, bound>>
       ELSE /\ phase' = "done"
            /\ result' = CASE job.op \in Samplers -> Sample(index, job)
                           [] job.op = "template" -> Matching(index, job)
                           [] OTHER -> chosen
            /\ bound' = IF job.op = "template"
                          THEN [k \in DOMAIN result' |-> Binding(job, result'[k]).vars]
                          ELSE <<>>
  /\ UNCHANGED <<index, job, taken, chosen>>

Over == phase # "open" /\ UNCHANGED vars

SelectionNext == Take \/ Break \/ End \/ Over

SelectionSpec == SelectionInit /\ [][SelectionNext]_vars

----------------------------------------------------------------------------
Kept(u) == {k \in DOMAIN result : result[k].url = u}
Sampled(op) == phase = "done" /\ job.op = op

\* "Resolve the newest 200 capture" (client.rs), "Reduce any search/enumerate result
\* to the single newest (or oldest)" (README): whatever the order of the stream, no
\* capture of it is newer (older) than the one that text_in and write_stream choose,
\* and one is chosen if there is any.
ExtremeChosen ==
  phase = "done" /\ job.op \in Choosers =>
    /\ index = <<>> <=> result = <<>>
    /\ \A i \in DOMAIN index :
         IF job.op = "oldest" THEN result[1].time <= index[i].time
                              ELSE result[1].time >= index[i].time

\* "A bare URL fetches its newest 200" (README, "fetch"; main.rs): no capture of the
\* stream is newer than the one fetch_url takes.  It takes the first of the stream,
\* which is of the newest crawl, but the oldest there.
FetchedIsNewest ==
  phase = "done" /\ job.op = "fetch" =>
    \A i \in DOMAIN index : result[1].time >= index[i].time

\* Captures that share neither URL nor time with another.
Alone(i) == \A j \in DOMAIN index \ {i} :
              index[j].url # index[i].url \/ index[j].time # index[i].time

\* first-last-digest loses no content: the capture kept last up to the time of
\* any capture shows the content that URL had then.  (Captures of the same
\* instant have no order in time, so nothing is said of them.)
HistoryKept ==
  Sampled("first-last-digest") =>
    \A i \in {j \in DOMAIN index : Alone(j)} :
      LET upTo == {k \in Kept(index[i].url) : result[k].time <= index[i].time}
      IN  \E k \in upTo : /\ result[k].digest = index[i].digest
                          /\ \A m \in upTo : result[m].time <= result[k].time

\* unique-digest keeps every content a URL had once, in its earliest capture,
\* also when URLs share a content.
EveryContentOnce ==
  Sampled("unique-digest") =>
    \A i \in DOMAIN index :
      \E k \in Kept(index[i].url) :
        /\ result[k].digest = index[i].digest
        /\ result[k].time <= index[i].time
        /\ \A m \in Kept(index[i].url) \ {k} : result[m].digest # result[k].digest

\* A sample that thins out keeps the time span of each URL.
SpanKept ==
  phase = "done" /\ job.op \in {"first-last", "first-last-digest", "adaptive"} =>
    \A i \in DOMAIN index :
      /\ \E k \in Kept(index[i].url) : result[k].time <= index[i].time
      /\ \E k \in Kept(index[i].url) : result[k].time >= index[i].time

\* adaptive: "Max captures retained per URL" (manifest.rs) holds of every
\* manifest that is made, 0 being no limit; none is made, because the spacing
\* divides by zero, only where a limit of 1 meets a URL with several captures.
PerUrlBound ==
  job.op = "adaptive" =>
    /\ job.max # 0 => \A u \in Urls(index) : Cardinality(Kept(u)) <= job.max
    /\ phase = "panicked" => /\ job.max = 1
                             /\ \E u \in Urls(index) : Len(Group(index, u)) > 1

\* Templates whose variables can be told apart in a URL.
Templated == phase = "done" /\ job.op = "template" /\ Readable(job.parts)

\* "Enumerate a template's literal prefix and bind each matching URL" (client.rs):
\* every capture whose URL is the template with values put in is handed over with
\* these values, whatever captures stand around it, so that a URL has one reading;
\* and the values handed over, put back, give the URL, up to what may follow a
\* literal the template ends with.
BindingsAreReadings ==
  Templated =>
    /\ \A i \in DOMAIN index : \A vals \in Readings(job.parts, Stripped(Texts[index[i].url])) :
         \E k \in DOMAIN result : result[k] = index[i] /\ bound[k] = vals
    /\ \A k \in DOMAIN result :
         LET url == Stripped(Texts[result[k].url])
             rendered == Render(job.parts, bound[k])
         IN  /\ IsPrefix(rendered, url)
             /\ Len(job.parts) \in Variables(job.parts) => rendered = url
=============================================================================
