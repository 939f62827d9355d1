--------------------------- MODULE CrawlSelection ---------------------------
(***************************************************************************)
(* The crawls a query spans: Registry::resolve_in.  A crawl is a record of *)
(* its id, the year in its id, the end of its coverage as collinfo.json    *)
(* has it (to), and the end it really has.  Time is counted in instants,   *)
(* YearLength of them to a year.                                           *)
(***************************************************************************)
EXTENDS Sorting, SequencesExt

CONSTANTS
  Registered,   \* the list of crawls, a sequence of records [id, year, to, ends]
  YearLength

\* A field that is absent or does not parse.
None == -1

YearOf(time) == time \div YearLength

\* CrawlInfo, as far as selectors look at it.  The id's year may be absent too;
\* a crawl ends in the year of its id or later (the id names the week it began).
IsCrawl(c) ==
  /\ c.year \in Nat \cup {None} /\ c.ends \in Nat /\ c.to \in {c.ends, None}
  /\ c.year <= YearOf(c.ends)

ASSUME YearAssumption == YearLength \in Nat \ {0}
ASSUME RegisteredAssumption ==
  Registered \in Seq(Range(Registered)) /\ \A c \in Range(Registered) : IsCrawl(c)

\* "newest-first (as collinfo.json provides them)": an assumption on the server.
ASSUME NewestFirst ==
  \A i, j \in DOMAIN Registered : i < j => Registered[i].ends > Registered[j].ends

\* A selector is a record of its kind and [n], [ids], [from, to] or [since].
SelectorKinds == {"all", "latest", "latest-n", "ids", "years", "since"}

IsSelector(sel) ==
  /\ sel.kind \in SelectorKinds
  /\ sel.kind = "latest-n" => sel.n \in Nat
  /\ sel.kind = "years" => sel.from \in Nat /\ sel.to \in Nat
  /\ sel.kind = "since" => sel.since \in Nat

Within(year, from, to) == year # None /\ from <= year /\ year <= to

FirstOf(n) == SubSeq(Registered, 1, IF n < Len(Registered) THEN n ELSE Len(Registered))

\* Fault: the year in the id decides alone.
CoversYear(c, since) == c.year # None /\ c.year >= YearOf(since)

\* The end of coverage decides; the year in the id, where there is none.
CoversSince(c, since) ==
  IF c.to = None THEN c.year # None /\ c.year >= YearOf(since) ELSE c.to >= since

\* The crawls of the list that are wanted, in its order.
Those(IsWanted(_)) == Pick(Registered, {i \in DOMAIN Registered : IsWanted(Registered[i])})

\* resolve_in
Resolve(sel) ==
  CASE sel.kind = "all" -> Registered
    [] sel.kind = "latest" -> FirstOf(1)
    [] sel.kind = "latest-n" -> FirstOf(sel.n)
    [] sel.kind = "ids" -> Those(LAMBDA c : c.id \in sel.ids)
    [] sel.kind = "years" -> Those(LAMBDA c : Within(c.year, sel.from, sel.to))
    [] sel.kind = "since" -> Those(LAMBDA c : CoversSince(c, sel.since))

----------------------------------------------------------------------------
(* What the selectors say (crawl.rs), of when the crawls really end. *)

\* Crawls that end later than c.
Newer(c) == {i \in DOMAIN Registered : Registered[i].ends > c.ends}

Named(sel, c) ==
  CASE sel.kind = "all" -> TRUE
    [] sel.kind = "latest" -> Newer(c) = {}
    [] sel.kind = "latest-n" -> Cardinality(Newer(c)) < sel.n
    [] sel.kind = "ids" -> c.id \in sel.ids
    [] sel.kind = "years" -> c.year \in sel.from..sel.to
    [] sel.kind = "since" -> c.ends >= sel.since
=============================================================================
