----------------------------- MODULE CdxCompile -----------------------------
(***************************************************************************)
(* The filters of a query as parameters of a CDX request (cdx_compile.rs), *)
(* and what the index server makes of them.  A filter is a record          *)
(* [kind, op, values]; a status is the sequence of its digits.             *)
(***************************************************************************)
EXTENDS Integers, Sequences

FilterKinds == {"status", "mime", "language", "tld"}

\* A status has three digits, a class is the first of them.
Statuses == 100..999
Classes == 1..9

IsFilter(f) ==
  /\ f.kind \in FilterKinds
  /\ f.kind = "status" => f.values \subseteq (IF f.op = "class" THEN Classes ELSE Statuses)

Digits(status) == <<status \div 100, (status \div 10) % 10, status % 10>>

\* The dot of a regular expression.
AnyDigit == 10

Alternatives(field, words) == [field |-> field, words |-> words]

\* Fault: only one of several codes is sent.
CdxFilterFirst(f) ==
  CASE f.kind = "mime" -> Alternatives("mime", f.values)
    [] f.kind = "status" /\ f.op = "class" ->
         Alternatives("status", {<<c, AnyDigit, AnyDigit>> : c \in f.values})
    [] f.kind = "status" /\ f.op # "class" ->
         Alternatives("status", {Digits(s) : s \in {v \in f.values : \A w \in f.values : v <= w}})

\* filter_params: status:200, ~status:(200|301), ~status:2.., mime:text/html,
\* languages:eng, and urlkey:com,.* without the ~ of a regular expression.
CdxFilter(f) ==
  CASE f.kind = "mime" -> Alternatives("mime", f.values)
    [] f.kind = "language" -> Alternatives("languages", f.values)
    [] f.kind = "tld" -> Alternatives("urlkey", f.values)
    [] f.kind = "status" /\ f.op = "class" ->
         Alternatives("status", {<<c, AnyDigit, AnyDigit>> : c \in f.values})
    [] f.kind = "status" /\ f.op # "class" ->
         Alternatives("status", {Digits(s) : s \in f.values})

\* The server: the declared type; a status that fits one of the words.  A
\* group without words, "()", fits everything; no key has ".*" in it.
FilterParamHolds(p, row) ==
  CASE p.field = "mime" -> row.mime \in p.words
    [] p.field = "languages" -> row.languages \cap p.words # {}
    [] p.field = "urlkey" -> FALSE
    [] p.field = "status" ->
         \/ p.words = {}
         \/ \E w \in p.words : \A i \in 1..3 : w[i] \in {AnyDigit, Digits(row.status)[i]}

\* compile_cdx_url sends every filter, and the server wants all of them.
CdxFiltersHold(filters, row) ==
  \A k \in DOMAIN filters : FilterParamHolds(CdxFilter(filters[k]), row)
=============================================================================
