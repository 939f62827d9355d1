--------------------------- MODULE AthenaCompile ---------------------------
(***************************************************************************)
(* compile_sql (athena/sql.rs): the query of BulkSearch as conditions on   *)
(* the columns of the same table, for Athena to run.  Rows carry their URL *)
(* as it is written, which the key forgets: form is a scheme and perhaps   *)
(* www; a pattern may do without the scheme, or name a port, which the key *)
(* forgets as well (no row has one: Common Crawl's keys keep it).  A       *)
(* query's limit is left out: it becomes the LIMIT of the whole.           *)
(***************************************************************************)
EXTENDS BulkSearch

RowForms == {"http", "http-www"}
Forms == RowForms \cup {"http-port", "bare", "bare-www"}

ASSUME FormAssumption ==
  (\A row \in Rows : row.form \in RowForms) /\ (\A q \in Queries : q.form \in Forms)

----------------------------------------------------------------------------
(* url_host_name is the host as the URL has it, while host_of takes www away *)
(* from the pattern and leaves a port there.                                 *)
SqlScope(q, row) ==
  CASE q.match = "host" -> q.form # "http-port" /\ row.form # "http-www" /\ row.host = q.host
    [] q.match = "domain" -> q.form # "http-port" /\ IsPrefix(q.host, row.host)
    [] q.match = "prefix" -> ~Less(Surt(row), Surt(q)) /\ Less(Surt(row), PrefixEnd(Surt(q)))
    [] q.match = "exact" -> row.form = q.form /\ row.host = q.host /\ row.path = q.path

\* Fault: both ends of a class belong to it.
SqlFilterClosed(f, row) ==
  CASE f.kind = "status" /\ f.op = "class" ->
         \E c \in f.values : row.status >= 100 * c /\ row.status <= 100 * c + 100
    [] f.kind = "status" /\ f.op # "class" -> row.status \in f.values
    [] f.kind = "mime" -> row.detected \in f.values
    [] f.kind = "language" -> row.languages \cap f.values # {}
    [] f.kind = "tld" -> row.host[1] \in f.values

\* The detected type alone; every filter, each a condition of its own.
SqlFilterHolds(f, row) ==
  CASE f.kind = "status" /\ f.op = "class" ->
         \E c \in f.values : row.status >= 100 * c /\ row.status < 100 * c + 100
    [] f.kind = "status" /\ f.op # "class" -> row.status \in f.values
    [] f.kind = "mime" -> row.detected \in f.values
    [] f.kind = "language" -> row.languages \cap f.values # {}
    [] f.kind = "tld" -> row.host[1] \in f.values

SqlHolds(q, row) ==
  SqlScope(q, row) /\ \A k \in DOMAIN q.filters : SqlFilterHolds(q.filters[k], row)

\* crawl IN (...) is left out when there is no crawl to name: then every
\* crawl of the table is read.
SqlCrawls == IF crawls = <<>> THEN DOMAIN Files ELSE {crawls[c].id : c \in DOMAIN crawls}

Answers(id, row) == id \in SqlCrawls /\ SqlHolds(query, row)

----------------------------------------------------------------------------
\* Every choice of statuses names one: IN () is no SQL.
Sayable(q) == \A k \in DOMAIN q.filters : q.filters[k].values # {}

\* Rows whose URL is written the way the pattern finds it.
Written(q, row) ==
  CASE q.match = "exact" -> row.form = q.form /\ row.path = q.path
    [] q.match = "host" -> q.form # "http-port" /\ row.form = "http"
    [] q.match = "domain" -> q.form # "http-port"
    [] q.match = "prefix" -> TRUE

\* "Compile a query (restricted to explicit crawl ids)" (sql.rs): where the
\* selector finds crawls, Athena answers no row of another crawl and none that the
\* query excludes, by whatever filters (a prefix, compared with url_surtkey, up to
\* the case of letters); and it answers every row the query wants, subdomains and
\* the edges of the range included, but for rows written in another way than the
\* pattern and rows whose type is the declared one only.
SqlAgrees ==
  phase = "done" /\ crawls # <<>> /\ Sayable(query) =>
    \A id \in DOMAIN Files : \A r \in RowsOf(id) :
      LET wanted == id \in {crawls[c].id : c \in DOMAIN crawls} /\ Wanted(query, r)
          types == FiltersOf(query, "mime")
      IN  /\ Answers(id, r) => wanted
          /\ wanted /\ Written(query, r) /\ ~Answers(id, r) =>
               \E k \in DOMAIN types : r.detected \notin types[k].values
=============================================================================
