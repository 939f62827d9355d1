---------------------------- MODULE MCBulkSearch ----------------------------
\* A table of five crawls, two of them with rows that matter: c.e and its
\* neighbours c.e.b and c.f, with paths on both sides of each bound and one that
\* differs from another in case alone, in two files of which one has two batches.
EXTENDS AthenaCompile

\* Ten instants a year.  The list has no end of coverage for two crawls; one of
\* these and the first ran on into the year after the one in their ids.
FiveCrawls == <<
  [id |-> "new", year |-> 3, to |-> 36, ends |-> 36],
  [id |-> "open", year |-> 3, to |-> None, ends |-> 33],
  [id |-> "late", year |-> 2, to |-> None, ends |-> 30],
  [id |-> "old", year |-> 2, to |-> 25, ends |-> 25],
  [id |-> "first", year |-> 1, to |-> 20, ends |-> 20] >>

\* Media types, languages.
html == 1
pdf == 2
eng == 1
deu == 2

\* Letters, as bytes.
a == 97  b == 98  c == 99  e == 101  f == 102

Row(host, path, status) ==
  [host |-> host, path |-> path, status |-> status,
   form |-> IF path = <<Slash, a, b>> THEN "http-www" ELSE "http",
   languages |-> IF status = 200 THEN {eng} ELSE {eng, deu},
   mime |-> IF path = <<Slash, b>> THEN pdf ELSE html,
   detected |-> IF status = 204 THEN pdf ELSE html]

Root == <<Slash>>
PathA == <<Slash, a>>
PathUpper == <<Slash, 65>>
PathAB == <<Slash, a, b>>
PathB == <<Slash, b>>
PathAA == <<Slash, a, Slash, a>>

NewFiles ==
  << << <<Row(<<c, e>>, Root, 200), Row(<<c, e>>, PathA, 200)>>,
        <<Row(<<c, e>>, PathAB, 204)>> >>,
     << <<Row(<<c, e>>, PathB, 200), Row(<<c, e, b>>, PathA, 200)>> >> >>

OldFiles ==
  << << <<Row(<<c, e>>, PathA, 404), Row(<<c, e>>, PathAA, 200)>>,
        <<Row(<<c, f>>, PathA, 200), Row(<<c, e>>, PathUpper, 200), Row(<<c, e>>, PathAB, 300)>> >> >>

OneRow == << << <<Row(<<c, e>>, PathA, 200)>> >> >>

FiveTables ==
  [id \in {k.id : k \in Range(FiveCrawls)} |->
     CASE id = "new" -> NewFiles
       [] id = "old" -> OldFiles
       [] id = "first" -> <<>>
       [] OTHER -> OneRow]

Patterns == {<<h, p>> : h \in {<<c>>, <<c, e>>, <<c, e, b>>},
                        p \in {Root, PathA, PathUpper, PathAB, PathAA}}
Status(op, values) == <<[kind |-> "status", op |-> op, values |-> values]>>
Mime(m) == <<[kind |-> "mime", op |-> "eq", values |-> {m}]>>
FilterLists == {<<>>, Status("eq", {200}), Status("class", {2}), Status("in", {204, 404}),
                Status("in", {}), Mime(pdf), Status("eq", {200}) \o Mime(html),
                Status("eq", {200}) \o Status("class", {2})}

Selector(kind) == [kind |-> kind]
TwoOfThem == [kind |-> "ids", ids |-> {"new", "old", "none such"}]
Selectors ==
  {Selector("all"), Selector("latest"), TwoOfThem}
    \cup {[kind |-> "latest-n", n |-> n] : n \in {0, 2, 9}}
    \cup {[kind |-> "years", from |-> y[1], to |-> y[2]] : y \in {<<2, 3>>, <<1, 1>>, <<3, 2>>}}
    \cup {[kind |-> "since", since |-> d] : d \in {20, 21, 25, 26, 30, 31, 34, 36, 37, 40}}

WrittenAs(as, m, p, l, s) ==
  [form |-> as, match |-> m, host |-> p[1], path |-> p[2], filters |-> l, crawls |-> s]
Query(m, p, l, s) == WrittenAs("http", m, p, l, s)

\* Filters Athena looks at and the table does not, with a class of statuses.
One(kind, value) == <<[kind |-> kind, op |-> "eq", values |-> {value}]>>
SqlFilterLists == {One("language", eng), One("language", deu), One("tld", c), One("tld", e),
                   One("language", deu) \o Status("class", {2})}

KeyQueries ==
  {Query(m, p, l, TwoOfThem) : m \in {"exact", "prefix"}, p \in Patterns, l \in FilterLists}
    \cup {Query(m, <<h, Root>>, l, TwoOfThem) :
            m \in {"domain", "host"}, h \in {<<c>>, <<c, e>>}, l \in FilterLists}
    \cup {Query("exact", <<<<c, e>>, PathA>>, <<>>, s) : s \in Selectors}
    \cup {WrittenAs(form, m, <<<<c, e>>, p>>, <<>>, TwoOfThem) :
            form \in {"bare", "http-www", "http-port"}, m \in MatchTypes, p \in {PathA, PathAB}}
    \cup {Query(m, <<h, Root>>, l, TwoOfThem) :
            m \in {"prefix", "domain"}, h \in {<<c>>, <<c, e>>}, l \in SqlFilterLists}
=============================================================================
