------------------------------ MODULE Commands ------------------------------
(***************************************************************************)
(* Two operations made of many requests, run in the task Main beside the   *)
(* others: ccdl fetch @list, a fetch_http and a file for each line of a    *)
(* list of captures; and sitemap_seeds, a text_in for each document that   *)
(* may name URLs of a host.  Both can be killed and are called again.      *)
(***************************************************************************)
EXTENDS Registry, Sorting, SequencesExt

CONSTANTS
  Main,
  Jobs,       \* records of the job's kind with its lines or sitemaps; and, as bounds,
              \* what the tasks beside it ask for (beside), whose answers change (changing)
  LocsOf      \* parse_sitemap of each document's text; URLs are numbers, in their order

NoCapture == "no capture"   \* a line that is no JSON of a capture
RobotsTxt == 0
SitemapXml == 1

ASSUME MainAssumption == Main \in Tasks
ASSUME JobAssumption ==
  \A j \in Jobs : /\ j.beside \cup j.changing \subseteq Requests
                  /\ j.kind = "fetch" => j.lines \in Seq(Requests \cup {NoCapture})
                  /\ j.kind = "seeds" =>
                       /\ j.sitemaps \in Seq(Nat)
                       /\ Range(j.sitemaps) \cup {SitemapXml} \subseteq DOMAIN LocsOf
ASSUME LocsAssumption == \A url \in DOMAIN LocsOf : url \in Nat /\ LocsOf[url] \in Seq(Nat)

VARIABLES
  job,
  end,      \* running, ok or failed
  at,       \* the line the fetch has come to
  files,    \* the payload written for each digest: Nothing, Torn or a body
  agenda,   \* documents still to read, and whether robots.txt named them
  resolved, \* the crawls have been asked for, for the first document
  seeds,    \* URLs found
  docs      \* observed: the documents read

fetching == <<at, files>>
seeding == <<agenda, resolved, seeds, docs>>
jvars == <<job, end, fetching, seeding>>
comvars == <<allvars, jvars>>

Torn == [of |-> "torn", version |-> 0]

Document(url, named) == [url |-> url, named |-> named]
Robots == Document(RobotsTxt, FALSE)
FirstAgenda == <<Robots, Document(SitemapXml, FALSE)>>

JobsInit ==
  /\ RInit
  /\ job \in Jobs
  /\ end = "running" /\ at = 1
  /\ files = [k \in Keys |-> Nothing]
  /\ agenda = FirstAgenda /\ resolved = FALSE /\ seeds = <<>> /\ docs = {}

----------------------------------------------------------------------------
(* cmd_fetch with --out, on a list read as a whole before the first line. *)

IsFetching == job.kind = "fetch" /\ end = "running"
Line == job.lines[at]
FetchedKey == KeyOf[req[Main]]

\* The bytes unzip to a record that holds an HTTP response, and its body decodes;
\* those of parts do not, by gzip's check sum.
HasPayload(bytes) == bytes # Mixed /\ bytes.version \notin Garbled

\* A line that does not parse ends the command.
FetchBadLine ==
  /\ IsFetching /\ op[Main] = "none" /\ at <= Len(job.lines)
  /\ Line = NoCapture
  /\ end' = "failed"
  /\ UNCHANGED <<allvars, job, fetching, seeding>>

FetchLine ==
  /\ IsFetching /\ op[Main] = "none" /\ at <= Len(job.lines)
  /\ Line # NoCapture /\ Lookup(Main, Line)
  /\ op' = [op EXCEPT ![Main] = "fetch"]
  /\ UNCHANGED <<crawls, since, listed, jvars>>

\* Fault: the line is passed over.
FetchPassesOver ==
  /\ IsFetching /\ op[Main] = "fetch"
  /\ pc[Main] = "failed" \/ (pc[Main] = "answered" /\ ~HasPayload(body[Main]))
  /\ Done(Main)
  /\ op' = [op EXCEPT ![Main] = "none"]
  /\ at' = at + 1
  /\ UNCHANGED <<crawls, since, listed, job, end, files, seeding>>

\* There are no bytes, they are no record with an HTTP response in it, or the
\* file cannot be opened.
FetchFails ==
  /\ IsFetching /\ op[Main] = "fetch"
  /\ pc[Main] \in {"failed", "answered"}
  /\ Done(Main)
  /\ op' = [op EXCEPT ![Main] = "none"]
  /\ end' = "failed"
  /\ UNCHANGED <<crawls, since, listed, job, fetching, seeding>>

\* The record is parsed: the file named by the digest is opened, and with it emptied.
WritePayload ==
  /\ IsFetching /\ op[Main] = "fetch"
  /\ pc[Main] = "answered" /\ HasPayload(body[Main])
  /\ files' = [files EXCEPT ![FetchedKey] = Torn]
  /\ op' = [op EXCEPT ![Main] = "write"]
  /\ UNCHANGED <<cvars, crawls, since, listed, job, end, at, seeding>>

\* The payload is in the file: on to the next line.
PayloadWritten ==
  /\ op[Main] = "write"
  /\ files' = [files EXCEPT ![FetchedKey] = body[Main]]
  /\ Done(Main)
  /\ op' = [op EXCEPT ![Main] = "none"]
  /\ at' = at + 1
  /\ UNCHANGED <<crawls, since, listed, job, end, seeding>>

\* The file cannot be written to its end.
PayloadFails ==
  /\ op[Main] = "write"
  /\ Done(Main)
  /\ op' = [op EXCEPT ![Main] = "none"]
  /\ end' = "failed"
  /\ UNCHANGED <<crawls, since, listed, job, fetching, seeding>>

FetchEnds ==
  /\ IsFetching /\ at > Len(job.lines)
  /\ end' = "ok"
  /\ UNCHANGED <<allvars, job, fetching, seeding>>

----------------------------------------------------------------------------
(* sitemap_seeds *)

IsSeeding == job.kind = "seeds" /\ end = "running"

\* text_in resolves its crawls anew for every document.
ResolveForText ==
  /\ IsSeeding /\ ~resolved /\ agenda # <<>>
  /\ AllFromMemory(Main) \/ StartLoad(Main, "all")
  /\ resolved' = TRUE
  /\ UNCHANGED <<job, end, fetching, agenda, seeds, docs>>

\* What robots.txt names comes before what was on the agenda.
Named == [k \in DOMAIN job.sitemaps |-> Document(job.sitemaps[k], TRUE)]

AtDocument == IsSeeding /\ resolved /\ op[Main] = "none"

\* The search for the document and the fetch of its newest capture succeed: the
\* sitemaps of a robots.txt are read next, the URLs of a sitemap are seeds, and
\* its own URL too, if robots.txt named it.
TextRead ==
  /\ AtDocument /\ listed[Main] # 0
  /\ LET doc == Head(agenda)
     IN  /\ docs' = docs \cup {doc}
         /\ IF doc = Robots
              THEN agenda' = Named \o Tail(agenda) /\ UNCHANGED seeds
              ELSE /\ agenda' = Tail(agenda)
                   /\ seeds' = seeds \o LocsOf[doc.url] \o (IF doc.named THEN <<doc.url>> ELSE <<>>)
  /\ resolved' = FALSE
  /\ UNCHANGED <<allvars, job, end, fetching>>

\* There is no list of crawls, no capture or no text: the document is passed
\* over, whatever the error was.
TextFails ==
  /\ AtDocument
  /\ LET doc == Head(agenda)
     IN  /\ agenda' = Tail(agenda)
         /\ seeds' = seeds \o (IF doc.named THEN <<doc.url>> ELSE <<>>)
  /\ resolved' = FALSE
  /\ UNCHANGED <<allvars, job, end, fetching, docs>>

\* Fault: neighbours are compared before the URLs are sorted.
SeedsEndUnsorted ==
  /\ IsSeeding /\ agenda = <<>>
  /\ seeds' = FoldLeft(LAMBDA s, u : IF s # <<>> /\ Last(s) = u THEN s ELSE Append(s, u), <<>>, seeds)
  /\ end' = "ok"
  /\ UNCHANGED <<allvars, job, fetching, agenda, resolved, docs>>

\* sort and dedup.
SeedsEnd ==
  /\ IsSeeding /\ agenda = <<>>
  /\ seeds' = Ascending(Range(seeds))
  /\ end' = "ok"
  /\ UNCHANGED <<allvars, job, fetching, agenda, resolved, docs>>

----------------------------------------------------------------------------
\* Main is called with the same list or host: from the beginning, whatever files
\* and cached bodies there are from before.
Afresh ==
  /\ end' = "running" /\ at' = 1
  /\ agenda' = FirstAgenda /\ resolved' = FALSE /\ seeds' = <<>> /\ docs' = {}
  /\ UNCHANGED <<job, files>>

CalledAgain == end # "running" /\ Afresh /\ UNCHANGED allvars

\* The process is killed, perhaps while a file is written.
Killed == RRestart /\ Afresh

\* The seeds are asked for in a call that is dropped, and then in another.
SeedsDropped ==
  /\ IsSeeding
  /\ Dropped(Main) \/ (op[Main] = "none" /\ UNCHANGED allvars)
  /\ Afresh

\* Another cached request.
StartOther(t, r) ==
  /\ op[t] = "none" /\ r # Collinfo
  /\ Lookup(t, r)
  /\ op' = [op EXCEPT ![t] = "other"]
  /\ UNCHANGED <<crawls, since, listed>>

EndOther(t) ==
  /\ op[t] = "other"
  /\ Done(t)
  /\ op' = [op EXCEPT ![t] = "none"]
  /\ UNCHANGED <<crawls, since, listed>>

\* What a task does that does not run the job.
Beside(t) ==
  \/ /\ Collinfo \in job.beside
     /\ AllFromMemory(t) \/ \E what \in {"all", "refresh"} : StartLoad(t, what)
  \/ \E r \in job.beside : StartOther(t, r)
  \/ Dropped(t)

ComNext ==
  \/ FetchBadLine \/ FetchLine \/ FetchFails
  \/ WritePayload \/ PayloadWritten \/ PayloadFails \/ FetchEnds
  \/ ResolveForText \/ TextRead \/ TextFails \/ SeedsEnd
  \/ CalledAgain \/ Killed \/ SeedsDropped
  \/ /\ \/ \E t \in Tasks : \/ (t # Main \/ job.kind = "none") /\ Beside(t)
                            \/ EndOther(t) \/ Requesting(t) \/ Loading(t)
        \/ Background /\ UNCHANGED rvars
        \/ \E r \in job.changing : Publish(r) /\ UNCHANGED rvars
     /\ UNCHANGED jvars

ComSpec == JobsInit /\ [][ComNext]_comvars

----------------------------------------------------------------------------
Whole(k) == files[k].of \in Requests /\ KeyOf[files[k].of] = k /\ HasPayload(files[k])

\* ccdl fetch @list "fetches each, writing digest-named files" (README): however
\* often it is killed and called again, each line it has behind it has a file with
\* the whole payload of its digest, one that parses, except that a write of the
\* same digest that is under way or has failed empties it; a list that ends well
\* has no other lines.
ListFetched ==
  job.kind = "fetch" =>
    /\ \A k \in 1..(at - 1) :
         /\ job.lines[k] # NoCapture
         /\ Whole(KeyOf[job.lines[k]])
              \/ /\ op[Main] = "write" \/ end = "failed"
                 /\ FetchedKey = KeyOf[job.lines[k]]
    /\ end = "ok" => at = Len(job.lines) + 1

\* The URLs that stand in the documents read.
WhatWasRead ==
  (UNION {Range(LocsOf[d.url]) : d \in docs \ {Robots}})
    \cup IF Robots \in docs THEN Range(job.sitemaps) ELSE {}

\* sitemap_seeds returns "the union of <loc> entries found" (client.rs) and the
\* sitemaps a robots.txt that was read has named, sorted, each once; a document
\* that could not be read takes with it no more than what it would have named.
SeedsAreWhatWasRead ==
  job.kind = "seeds" /\ end = "ok" =>
    /\ \A j, k \in DOMAIN seeds : j < k => seeds[j] < seeds[k]
    /\ Range(seeds) = WhatWasRead
=============================================================================
