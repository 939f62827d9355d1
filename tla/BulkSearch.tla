----------------------------- MODULE BulkSearch -----------------------------
(***************************************************************************)
(* Ccdl::bulk: the crawls of a query resolved, the query compiled to       *)
(* predicates over the columns of the cc-index table, and the table read   *)
(* with them, crawl by crawl, file by file, batch by batch, into a buffer. *)
(*                                                                         *)
(* A URL is its host's labels from the top-level domain down, without a    *)
(* leading www, and its path with what follows it.  Characters of a path   *)
(* are their bytes, labels (which are lower case) numbers in their order,  *)
(* so that SURT keys compare the way strings do.  A key forgets the        *)
(* scheme, www, any port, and the case of the letters.  The keys in the    *)
(* table are taken to be those surt makes of the rows' URLs ("Matches      *)
(* pywb / Common Crawl", surt.rs).                                         *)
(***************************************************************************)
EXTENDS CrawlSelection, CdxCompile

CONSTANTS
  Files,    \* per crawl id, its Parquet files: sequences of batches of rows
  Queries   \* records [match, host, path, filters, crawls]; a filter is of one
            \* value for an equality, crawls is a selector

MatchTypes == {"exact", "prefix", "host", "domain"}

\* UrlQuery, without the time range, the limit and the fields, which the table
\* does not look at.
IsQuery(q) ==
  /\ q.match \in MatchTypes
  /\ IsSelector(q.crawls)
  /\ q.filters \in Seq(Range(q.filters)) /\ \A f \in Range(q.filters) : IsFilter(f)

\* Bytes between and after the labels of a key; letters are above them.
Close == 41
Comma == 44
Slash == 47

RowsOf(id) == UNION {UNION {Range(rows) : rows \in Range(f)} : f \in Range(Files[id])}
Rows == UNION {RowsOf(id) : id \in DOMAIN Files}

\* What url::Url makes of an address with a host: labels, and a path, of which
\* the shortest is "/".
IsUrl(u) == u.host \in Seq(Nat) \ {<<>>} /\ u.path \in Seq(Nat) \ {<<>>}

ASSUME TableAssumption ==
  /\ DOMAIN Files = {c.id : c \in Range(Registered)}
  /\ \A id \in DOMAIN Files : Files[id] \in Seq(Seq(Seq(RowsOf(id))))
  /\ \A row \in Rows : IsUrl(row) /\ row.status \in 0..999
ASSUME QueryAssumption == \A q \in Queries : IsQuery(q) /\ IsUrl(q)

VARIABLES
  query,    \* the query that runs
  crawls,   \* the crawls it spans
  crawl,    \* the crawl, file and batch the loops have come to
  file,
  batch,
  out,      \* the buffer
  phase     \* resolving, reading, done or failed

vars == <<query, crawls, crawl, file, batch, out, phase>>

\* list_parquet: the files of the crawl at position c.
FilesOf(c) == Files[crawls[c].id]

BulkInit ==
  /\ query \in Queries
  /\ crawls = <<>>
  /\ crawl = 1 /\ file = 1 /\ batch = 1
  /\ out = <<>>
  /\ phase = "resolving"

----------------------------------------------------------------------------
(* Keys *)

\* to_ascii_lowercase.
Lower(byte) == IF byte \in 65..90 THEN byte + 32 ELSE byte
Lowered(path) == [i \in DOMAIN path |-> Lower(path[i])]

\* Fault: the path stays as it is written.
SurtAsWritten(u) ==
  [i \in 1..(2 * Len(u.host)) |-> IF i = 2 * Len(u.host) THEN Close
                                  ELSE IF i % 2 = 1 THEN u.host[(i + 1) \div 2]
                                  ELSE Comma]
  \o (IF u.path = <<>> THEN <<Slash>> ELSE u.path)

\* surt: the labels joined by commas, a parenthesis, the path in lower case or "/".
Surt(u) ==
  [i \in 1..(2 * Len(u.host)) |-> IF i = 2 * Len(u.host) THEN Close
                                  ELSE IF i % 2 = 1 THEN u.host[(i + 1) \div 2]
                                  ELSE Comma]
  \o (IF u.path = <<>> THEN <<Slash>> ELSE Lowered(u.path))

\* The order of strings.
Less(s, t) ==
  \/ IsStrictPrefix(s, t)
  \/ \E i \in (DOMAIN s) \cap (DOMAIN t) :
       s[i] < t[i] /\ \A j \in 1..(i - 1) : s[j] = t[j]

\* surt_prefix_bounds: the last byte plus one is the first key after the prefix.
PrefixEnd(key) == [key EXCEPT ![Len(key)] = @ + 1]

\* The bounds an exact query gets: the key followed by a NUL.
ExactEnd(key) == key \o <<0>>

----------------------------------------------------------------------------
(* compile_predicates.  The last filter of a kind wins; host, TLD, language  *)
(* and regular expression are compiled or dropped, and never looked at, so   *)
(* they have no part here; nor has the time range.                           *)

AnyKey == [bounded |-> FALSE, lo |-> <<>>, hi |-> <<>>]
Between(lo, hi) == [bounded |-> TRUE, lo |-> lo, hi |-> hi]

SurtRange(q) ==
  LET key == Surt(q)
  IN  CASE q.match = "host" -> AnyKey
        [] q.match \in {"domain", "prefix"} -> Between(key, PrefixEnd(key))
        [] q.match = "exact" -> Between(key, ExactEnd(key))

FiltersOf(q, kind) == Pick(q.filters, {k \in DOMAIN q.filters : q.filters[k].kind = kind})

\* status_ok: one of the statuses, or the class.
StatusHolds(f, status) ==
  (IF f.op = "class" THEN status \div 100 ELSE status) \in f.values

\* The declared or the detected type.
MimeHolds(f, row) == {row.mime, row.detected} \cap f.values # {}

\* Fault: the upper bound belongs to the range.
PassesClosed(q, row) ==
  LET range == SurtRange(q)
      key == Surt(row)
      status == FiltersOf(q, "status")
      mime == FiltersOf(q, "mime")
  IN  /\ range.bounded => ~Less(key, range.lo) /\ ~Less(range.hi, key)
      /\ status # <<>> => StatusHolds(Last(status), row.status)
      /\ mime # <<>> => MimeHolds(Last(mime), row)

\* collect_batch on one row.
Passes(q, row) ==
  LET range == SurtRange(q)
      key == Surt(row)
      status == FiltersOf(q, "status")
      mime == FiltersOf(q, "mime")
  IN  /\ range.bounded => ~Less(key, range.lo) /\ Less(key, range.hi)
      /\ status # <<>> => StatusHolds(Last(status), row.status)
      /\ mime # <<>> => MimeHolds(Last(mime), row)

----------------------------------------------------------------------------
(* Reading *)

\* The selector is resolved against the registry's list.
ResolveCrawls ==
  /\ phase = "resolving"
  /\ crawls' = Resolve(query.crawls)
  /\ phase' = "reading"
  /\ UNCHANGED <<query, crawl, file, batch, out>>

\* The list is not to be had.
ResolveFails ==
  /\ phase = "resolving"
  /\ phase' = "failed"
  /\ UNCHANGED <<query, crawls, crawl, file, batch, out>>

AtBatch == /\ phase = "reading" /\ crawl \in DOMAIN crawls
           /\ file \in DOMAIN FilesOf(crawl)
           /\ batch \in DOMAIN FilesOf(crawl)[file]

\* A batch is decoded and its rows that pass are buffered.
CollectBatch ==
  /\ AtBatch
  /\ LET all == FilesOf(crawl)[file][batch]
         rows == Pick(all, {k \in DOMAIN all : Passes(query, all[k])})
     IN  out' = out \o [k \in DOMAIN rows |-> [crawl |-> crawls[crawl].id, row |-> rows[k]]]
  /\ batch' = batch + 1
  /\ UNCHANGED <<query, crawls, crawl, file, phase>>

NextFile ==
  /\ phase = "reading" /\ crawl \in DOMAIN crawls
  /\ file \in DOMAIN FilesOf(crawl) /\ batch > Len(FilesOf(crawl)[file])
  /\ file' = file + 1
  /\ batch' = 1
  /\ UNCHANGED <<query, crawls, crawl, out, phase>>

NextCrawl ==
  /\ phase = "reading" /\ crawl \in DOMAIN crawls
  /\ file > Len(FilesOf(crawl))
  /\ crawl' = crawl + 1
  /\ file' = 1 /\ batch' = 1
  /\ UNCHANGED <<query, crawls, out, phase>>

\* Fault: a file that cannot be read is passed over.
BackendSkips ==
  /\ phase = "reading" /\ crawl \in DOMAIN crawls /\ file \in DOMAIN FilesOf(crawl)
  /\ file' = file + 1
  /\ batch' = 1
  /\ UNCHANGED <<query, crawls, crawl, out, phase>>

\* Listing, opening or reading a file fails, and the whole search with it:
\* nothing of the buffer is handed out.
BackendFails ==
  /\ phase = "reading" /\ crawl \in DOMAIN crawls
  /\ phase' = "failed"
  /\ out' = <<>>
  /\ UNCHANGED <<query, crawls, crawl, file, batch>>

\* Every crawl is read: the buffer becomes the stream.
HandOver ==
  /\ phase = "reading" /\ crawl > Len(crawls)
  /\ phase' = "done"
  /\ UNCHANGED <<query, crawls, crawl, file, batch, out>>

BulkOver == phase \in {"done", "failed"} /\ UNCHANGED vars

BulkNext ==
  ResolveCrawls \/ ResolveFails \/ CollectBatch \/ NextFile \/ NextCrawl \/ BackendFails \/ HandOver \/ BulkOver

BulkSpec == BulkInit /\ [][BulkNext]_vars

----------------------------------------------------------------------------
(* What the query asks for (query.rs), of the row's URL and not of its key,  *)
(* as far as a key can tell: letters are the same in either case.            *)

SamePath(p, q) == Lowered(p) = Lowered(q)
PathBegins(p, q) == IsPrefix(Lowered(p), Lowered(q))

InScope(q, row) ==
  CASE q.match = "exact" -> row.host = q.host /\ SamePath(q.path, row.path)
    [] q.match = "prefix" -> row.host = q.host /\ PathBegins(q.path, row.path)
    [] q.match = "host" -> row.host = q.host
    [] q.match = "domain" -> IsPrefix(q.host, row.host)

FilterHolds(f, row) ==
  CASE f.kind = "status" /\ f.op = "class" -> \E s \in f.values : row.status \in 100 * s..100 * s + 99
    [] f.kind = "status" /\ f.op # "class" -> row.status \in f.values
    [] f.kind = "mime" -> row.mime \in f.values \/ row.detected \in f.values
    [] f.kind = "language" -> row.languages \cap f.values # {}
    [] f.kind = "tld" -> row.host[1] \in f.values

FiltersHold(q, row) == \A k \in DOMAIN q.filters : FilterHolds(q.filters[k], row)

Wanted(q, row) == InScope(q, row) /\ FiltersHold(q, row)

\* Queries whose filters both backends can take whole: the table keeps the last
\* of several filters of a kind and looks at no other kinds, and the index sends a
\* choice of no status.
Plain(q) ==
  /\ \A k \in DOMAIN q.filters : q.filters[k].kind \in {"status", "mime"}
  /\ \A j, k \in DOMAIN q.filters : j # k => q.filters[j].kind # q.filters[k].kind
  /\ \A k \in DOMAIN q.filters : q.filters[k].values # {}

\* Exact and prefix queries; what the key range of the others is worth is
\* another matter.
ByKey(q) == q.match \in {"exact", "prefix"}

\* Every row with a property, of every crawl of the query, once, in the order
\* of the table.
Answer(Holds(_)) ==
  FlattenSeq([c \in DOMAIN crawls |->
    LET all == FlattenSeq(FlattenSeq(FilesOf(c)))
        rows == Pick(all, {k \in DOMAIN all : Holds(all[k])})
    IN  [k \in DOMAIN rows |-> [crawl |-> crawls[c].id, row |-> rows[k]]]])

\* A bulk search that does not fail answers an exact or prefix query completely,
\* and with nothing but the rows of the URLs the query means (up to the case of
\* letters), also at the edges of the key range and across files and crawls: the
\* half-open range over keys "covers exactly the prefix" (surt.rs).
BulkAnswers ==
  phase = "done" /\ ByKey(query) /\ Plain(query) =>
    out = Answer(LAMBDA r : InScope(query, r) /\ FiltersHold(query, r))

\* No row is handed out that an exact, prefix or domain query excludes (up to the
\* case of letters), whatever fails.
OnlyWanted ==
  query.match # "host" /\ Plain(query) => \A k \in DOMAIN out : Wanted(query, out[k].row)

\* "The single query description both backends compile" (query.rs): what the
\* index answers to an exact or prefix query, the table answers too, and without a
\* media type, to which the index compares the declared type alone, nothing else.
\* Of host and domain queries this says nothing: there the two differ, since the
\* table looks at no host and its range of a domain ends before the subdomains.
BackendsAgree ==
  phase = "done" /\ ByKey(query) /\ Plain(query) =>
    LET cdx == Answer(LAMBDA r : InScope(query, r) /\ CdxFiltersHold(query.filters, r))
    IN  /\ Range(cdx) \subseteq Range(out)
        /\ FiltersOf(query, "mime") = <<>> => Range(out) = Range(cdx)

\* A query spans the crawls its selector describes, the newest first.  Only where
\* the list has no end of coverage does Since go by the year in the id: it may
\* take in a crawl of the year asked for that ended before the day asked for, and
\* miss one that ran on into a later year than its id's.
SelectorKept ==
  phase \in {"reading", "done"} =>
    LET sel == query.crawls
        Guessed(c) == sel.kind = "since" /\ c.to = None
    IN  /\ \A j, k \in DOMAIN crawls : j < k => crawls[j].ends > crawls[k].ends
        /\ \A c \in Range(Registered) \ Range(crawls) :
             Named(sel, c) => Guessed(c) /\ YearOf(c.ends) > c.year
        /\ \A c \in Range(crawls) :
             Named(sel, c) \/ (Guessed(c) /\ c.year = YearOf(sel.since))
=============================================================================
