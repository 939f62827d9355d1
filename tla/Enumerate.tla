----------------------------- MODULE Enumerate -----------------------------
(***************************************************************************)
(* An enumeration as its consumer sees it: IndexClient::search, wrapped by *)
(* EnumerateBuilder::run when distinct_urls is set, wrapped by             *)
(* Budget::apply.  Awaiting an item of the outer stream awaits the inner   *)
(* ones; one outer item may take several inner ones.                       *)
(***************************************************************************)
EXTENDS CdxSearch, FiniteSets

CONSTANTS
  UrlKeyOf,   \* Capture::urlkey
  LengthOf,   \* Capture::length
  Orders      \* the enumerations to run

Unlimited == -1

\* EnumerateBuilder::distinct, and Budget's max_records and max_bytes.
Options == [distinct : BOOLEAN, max_records : Nat \cup {Unlimited},
            max_bytes : Nat \cup {Unlimited}]

ASSUME EnumerationAssumption ==
  /\ DOMAIN UrlKeyOf = Captures
  /\ LengthOf \in [Captures -> Nat]
  /\ Orders \subseteq Options

VARIABLES
  order,    \* the enumeration that runs
  wanted,   \* the consumer awaits an item of the outer stream
  seen,     \* run's set of urlkeys
  records,  \* apply's counters
  bytes,
  last,     \* and the position its resume token names, <<>> for none
  items     \* what the consumer was given, in order

outer == <<order, wanted, seen, records, bytes, last, items>>
evars == <<vars, outer>>

EInit ==
  /\ Init
  /\ order \in Orders
  /\ wanted = FALSE
  /\ seen = {}
  /\ records = 0 /\ bytes = 0 /\ last = <<>>
  /\ items = <<>>

----------------------------------------------------------------------------
\* Captures given to the consumer, and errors that carry a resume token.
Given(pos) == [ok |-> TRUE, pos |-> pos]
Exhausted(resume) == [ok |-> FALSE, pos |-> resume]

\* Fault: the records are compared with > instead of >=.
CrossesLate(pos) ==
  \/ order.max_records # Unlimited /\ records > order.max_records
  \/ order.max_bytes # Unlimited /\ bytes + LengthOf[CaptureAt(pos)] > order.max_bytes

\* A limit the next capture would cross.
Crosses(pos) ==
  \/ order.max_records # Unlimited /\ records >= order.max_records
  \/ order.max_bytes # Unlimited /\ bytes + LengthOf[CaptureAt(pos)] > order.max_bytes

\* Fault: the resume token is moved before the limits are looked at.
DeliverMarkingFirst(pos) ==
  /\ IF Crosses(pos)
       THEN /\ items' = Append(items, Exhausted(pos))
            /\ UNCHANGED <<records, bytes>>
       ELSE /\ items' = Append(items, Given(pos))
            /\ records' = records + 1
            /\ bytes' = bytes + LengthOf[CaptureAt(pos)]
  /\ last' = pos
  /\ wanted' = FALSE

\* Budget::apply on one capture: pass it and count it, or an error in its
\* place.  The stream does not end here, the next item is treated alike.
Deliver(pos) ==
  /\ IF Crosses(pos)
       THEN /\ items' = Append(items, Exhausted(last))
            /\ UNCHANGED <<records, bytes, last>>
       ELSE /\ items' = Append(items, Given(pos))
            /\ records' = records + 1
            /\ bytes' = bytes + LengthOf[CaptureAt(pos)]
            /\ last' = pos
  /\ wanted' = FALSE

\* Fault: only the urlkey of the previous capture is remembered.
DedupeNeighbours(pos) ==
  LET key == UrlKeyOf[CaptureAt(pos)]
  IN  IF order.distinct /\ key \in seen
        THEN UNCHANGED outer
        ELSE /\ seen' = {key}
             /\ Deliver(pos)
             /\ UNCHANGED order

\* EnumerateBuilder::run on one capture: a urlkey seen before is dropped and
\* the inner stream awaited again.
Dedupe(pos) ==
  LET key == UrlKeyOf[CaptureAt(pos)]
  IN  IF order.distinct /\ key \in seen
        THEN UNCHANGED outer
        ELSE /\ seen' = IF order.distinct THEN seen \cup {key} ELSE seen
             /\ Deliver(pos)
             /\ UNCHANGED order

\* The consumer awaits the next item.
Want ==
  /\ Live /\ ~wanted
  /\ wanted' = TRUE
  /\ UNCHANGED <<vars, order, seen, records, bytes, last, items>>

\* A wrapper awaits the stream inside.
AwaitInner == wanted /\ Poll /\ UNCHANGED outer

InnerYields ==
  /\ YieldLine
  /\ Dedupe(<<crawl, page, line + 1>>)

\* Requests and page turns do not surface; an error or the end of the inner
\* stream is passed on.
InnerWorks ==
  /\ \/ Live /\ \E n \in {0, PagesOf(crawl)} : Probe(n)
     \/ RequestFails \/ PageArrives \/ PageNotFound
     \/ BadLine \/ PageDone \/ CrawlDone
  /\ wanted' = (wanted /\ Live')
  /\ UNCHANGED <<order, seen, records, bytes, last, items>>

DropAll ==
  /\ Drop
  /\ wanted' = FALSE
  /\ UNCHANGED <<order, seen, records, bytes, last, items>>

----------------------------------------------------------------------------
Handed == {k \in DOMAIN items : items[k].ok}
HandedPositions == {items[k].pos : k \in Handed}

\* The lengths of the first k items, errors not counted.
BytesOf[k \in Nat] ==
  IF k = 0 THEN 0
  ELSE BytesOf[k - 1] + IF items[k].ok THEN LengthOf[CaptureAt(items[k].pos)] ELSE 0

\* Captures yielded by the index that no earlier one shares the urlkey with.
Firsts == {p \in Yielded : ~order.distinct \/
             \A q \in Yielded : UrlKeyOf[CaptureAt(q)] = UrlKeyOf[CaptureAt(p)]
                                  => q = p \/ Before(p, q)}

\* The captures the consumer was given stay within both limits, also after
\* errors, and whatever was dropped as a duplicate is not counted.
WithinBudget ==
  /\ order.max_records # Unlimited => Cardinality(Handed) <= order.max_records
  /\ order.max_bytes # Unlimited => BytesOf[Len(items)] <= order.max_bytes

\* With distinct_urls no urlkey is given twice, across pages and crawls, and
\* the capture given is the first the index had.
OneCapturePerUrl ==
  /\ HandedPositions \subseteq Firsts
  /\ Cardinality(HandedPositions) = Cardinality(Handed)

\* Everything up to the place the k-th item's resume token names was given.
ResumesAt(k) ==
  IF items[k].pos = <<>>
    THEN \A j \in 1..(k - 1) : ~items[j].ok
    ELSE \A p \in Firsts : ~Before(items[k].pos, p) => p \in HandedPositions

\* A consumer that stops at the first error and resumes after its token
\* misses nothing and sees nothing twice.
FirstErrorResumes ==
  \A k \in DOMAIN items :
    ~items[k].ok /\ (\A j \in 1..(k - 1) : items[j].ok) =>
      /\ ResumesAt(k)
      /\ items[k].pos = IF k = 1 THEN <<>> ELSE items[k - 1].pos
=============================================================================
