-------------------------- MODULE EnumerateProofs --------------------------
(***************************************************************************)
(* First the stream of IndexClient::search: what it promises holds for     *)
(* every list of crawls, every index, guard and limit, and every answer of *)
(* the server.  Then the enumerations of the library and the command line, *)
(* which see that stream, so that its theorems hold of them; and that they *)
(* give each URL once, keep their budgets, resume from their first token   *)
(* and end with the right exit code, for every enumeration and reader.     *)
(***************************************************************************)
EXTENDS EnumerateCommand, ListFacts

Positions == Nat \X Nat \X Nat

STypeOK ==
  /\ stage \in Stages
  /\ crawl \in Nat \ {0} /\ total \in Nat /\ page \in Nat /\ line \in Nat
  /\ out \in Seq(Positions)
  /\ asked \subseteq Nat \X Nat
  /\ counts \in Seq(Nat)

\* A crawl is there, those before it are counted, and its pages are as many as
\* were counted, which the guard let pass, or one.
Place ==
  /\ Live => crawl \in DOMAIN Crawls
  /\ stage = "probe" => Len(counts) = crawl - 1
  /\ stage \in {"page", "lines"} =>
       /\ Len(counts) = crawl /\ counts[crawl] <= MaxPages
       /\ total = IF counts[crawl] = 0 THEN 1 ELSE counts[crawl]
       /\ page <= total
  /\ stage = "lines" => page < total /\ line <= Len(Lines(crawl, page))

\* All that has been yielded lies behind the generator.
Behind ==
  Live => \A k \in DOMAIN out :
            \/ out[k][1] < crawl
            \/ /\ out[k][1] = crawl
               /\ \/ stage \in {"page", "lines"} /\ out[k][2] < page
                  \/ stage = "lines" /\ out[k][2] = page /\ out[k][3] <= line

\* Every page asked for has been yielded, except the one in hand, of which the
\* lines before the current one have.
AskedIsYielded ==
  stage \in {"probe", "page", "lines", "ended"} =>
    /\ \A q \in asked \ missing :
         (stage = "lines" /\ q = <<crawl, page>>) \/ LinesOfPage(q) \subseteq Yielded
    /\ stage = "lines" => \A i \in 1..line : <<crawl, page, i>> \in Yielded

\* The pages asked for of a crawl: all, or those before the generator, or none.
AllAsked(c) == PagesAsked(c) = IF counts[c] = 0 THEN {0} ELSE 0..(counts[c] - 1)

PagesInTurn ==
  stage \in {"probe", "page", "lines", "ended"} =>
    \A c \in DOMAIN Crawls :
      /\ c < crawl => AllAsked(c)
      /\ c = crawl => PagesAsked(c) = CASE stage = "probe" -> {}
                                        [] stage = "page" -> 0..(page - 1)
                                        [] stage = "lines" -> 0..page
      /\ c > crawl => PagesAsked(c) = {}

EndedBehind ==
  stage = "ended" => DOMAIN counts = DOMAIN Crawls /\ \A c \in DOMAIN Crawls : c < crawl

SInv == /\ STypeOK /\ Place /\ Behind /\ InOrder /\ AskedIsYielded
        /\ PagesInTurn /\ EndedBehind /\ GuardBeforePages

----------------------------------------------------------------------------
\* A page has a finite sequence of lines, cut by the limit.
LEMMA LinesIsSeq ==
  ASSUME NEW c \in DOMAIN Crawls, NEW p \in Nat
  PROVE  Lines(c, p) \in Seq(Captures) /\ Len(Lines(c, p)) \in Nat /\ PagesOf(c) \in Nat
  <1>1. Index[c] \in Seq(Seq(Captures))
    BY IndexAssumption
  <1>2. (IF p < PagesOf(c) THEN Index[c][p + 1] ELSE <<>>) \in Seq(Captures)
    BY <1>1 DEF PagesOf
  <1>3. Lines(c, p) \in Seq(Captures)
    BY <1>2, GuardAssumption DEF Lines
  <1> QED BY <1>1, <1>3 DEF PagesOf

\* What was yielded is a sequence of places in the index.
LEMMA OutIsPositions ==
  ASSUME STypeOK
  PROVE  \A k \in DOMAIN out : out[k][1] \in Nat /\ out[k][2] \in Nat /\ out[k][3] \in Nat
  <1>1. \A k \in DOMAIN out : out[k] \in Positions
    BY DEF STypeOK
  <1> QED BY <1>1 DEF Positions

\* What is yielded stays yielded.
LEMMA YieldedAppends ==
  ASSUME out \in Seq(Positions), NEW pos \in Positions, out' = Append(out, pos)
  PROVE  Yielded' = Yielded \cup {pos}
  <1>1. /\ out' \in Seq(Positions) /\ Len(out') = Len(out) + 1
        /\ \A k \in 1..Len(out) : out'[k] = out[k]
        /\ out'[Len(out) + 1] = pos
    OBVIOUS
  <1>2. Yielded' \subseteq Yielded \cup {pos}
    BY <1>1 DEF Yielded
  <1>3. Yielded \subseteq Yielded'
    BY <1>1 DEF Yielded
  <1>4. pos \in Yielded'
    BY <1>1 DEF Yielded
  <1> QED BY <1>2, <1>3, <1>4

\* Asking for one more page.
LEMMA AskedAdds ==
  ASSUME NEW c, NEW p, NEW d, asked' = asked \cup {<<c, p>>}
  PROVE  PagesAsked(d)' = PagesAsked(d) \cup IF d = c THEN {p} ELSE {}
  <1>1. ASSUME NEW n PROVE n \in PagesAsked(d)' <=> n \in PagesAsked(d) \/ (d = c /\ n = p)
    <2>1. n \in PagesAsked(d)' => n \in PagesAsked(d) \/ (d = c /\ n = p)
      BY DEF PagesAsked
    <2>2. n \in PagesAsked(d) => n \in PagesAsked(d)'
      BY DEF PagesAsked
    <2>3. d = c /\ n = p => n \in PagesAsked(d)'
      <3> SUFFICES ASSUME d = c, n = p PROVE <<c, p>> \in {r \in asked' : r[1] = d}
        BY DEF PagesAsked
      <3> QED OBVIOUS
    <2> QED BY <2>1, <2>2, <2>3
  <1> QED BY <1>1

\* A stream begins before everything.
LEMMA SInitInv == Init => SInv
  <1> SUFFICES ASSUME Init PROVE SInv
    OBVIOUS
  <1> USE DEF Init
  <1>0. DOMAIN Crawls = 1..Len(Crawls) /\ Len(Crawls) \in Nat
    BY IndexAssumption
  <1>1. STypeOK
    BY DEF STypeOK, Stages
  <1>2. Place /\ EndedBehind
    BY <1>0 DEF Place, EndedBehind, Live
  <1>3. Behind /\ InOrder /\ AskedIsYielded /\ GuardBeforePages
    BY DEF Behind, InOrder, AskedIsYielded, GuardBeforePages
  <1>4. \A c : PagesAsked(c) = {}
    BY DEF PagesAsked
  <1>5. PagesInTurn
    BY <1>0, <1>4 DEF PagesInTurn
  <1> QED BY <1>1, <1>2, <1>3, <1>5 DEF SInv

\* A step that changes nothing, or only the demand of the consumer.
LEMMA QuietStepInv ==
  ASSUME SInv, UNCHANGED <<stage, crawl, counts, total, page, line, out, asked, missing>>
  PROVE  SInv'
  <1> USE DEF SInv
  <1>1. STypeOK' /\ Place' /\ EndedBehind' /\ GuardBeforePages'
    BY DEF STypeOK, Place, EndedBehind, GuardBeforePages, Live
  <1>2. Behind' /\ InOrder'
    BY DEF Behind, InOrder, Live
  <1>3. AskedIsYielded'
    BY DEF AskedIsYielded, Yielded
  <1>4. PagesInTurn'
    BY DEF PagesInTurn, PagesAsked, AllAsked
  <1> QED BY <1>1, <1>2, <1>3, <1>4

\* A page asked for is one of a crawl that was counted and let pass.
LEMMA AskedInGuard ==
  ASSUME SInv, asked' = asked \cup {<<crawl, page>>}, counts' = counts, stage = "page", page < total
  PROVE  GuardBeforePages' /\ asked' \subseteq Nat \X Nat
  <1>1. crawl \in DOMAIN counts /\ counts[crawl] <= MaxPages
    BY DEF SInv, Place, STypeOK
  <1>2. \A q \in asked' : q[1] \in DOMAIN counts /\ counts[q[1]] <= MaxPages
    BY <1>1 DEF SInv, GuardBeforePages
  <1> QED BY <1>2 DEF GuardBeforePages, SInv, STypeOK

\* A count more takes nothing from those before.
LEMMA CountAdded ==
  ASSUME SInv, NEW n \in Nat, counts' = Append(counts, n)
  PROVE  /\ counts' \in Seq(Nat) /\ Len(counts') = Len(counts) + 1 /\ counts'[Len(counts) + 1] = n
         /\ \A c \in DOMAIN counts : c \in DOMAIN counts' /\ counts'[c] = counts[c]
  BY DEF SInv, STypeOK

\* Steps after which the generator does not run again.
LEMMA EndStepInv ==
  ASSUME SInv, stage' \in {"failed", "dropped"}, UNCHANGED <<crawl, total, page, line, out>>,
         \/ asked' = asked /\ counts' = counts
         \/ asked' = asked /\ \E n \in Nat : counts' = Append(counts, n)
         \/ /\ asked' = asked \cup {<<crawl, page>>} /\ counts' = counts
            /\ stage = "page" /\ page < total
  PROVE  SInv'
  <1> USE DEF SInv
  <1>1. asked' \subseteq Nat \X Nat /\ counts' \in Seq(Nat) /\ GuardBeforePages'
    <2>1. CASE asked' = asked /\ counts' = counts
      BY <2>1 DEF GuardBeforePages, STypeOK
    <2>2. CASE asked' = asked /\ \E n \in Nat : counts' = Append(counts, n)
      BY <2>2, CountAdded DEF GuardBeforePages, STypeOK
    <2>3. CASE /\ asked' = asked \cup {<<crawl, page>>} /\ counts' = counts
               /\ stage = "page" /\ page < total
      BY <2>3, AskedInGuard DEF STypeOK
    <2> QED BY <2>1, <2>2, <2>3
  <1>2. STypeOK'
    BY <1>1 DEF STypeOK, Stages
  <1>3. Place' /\ Behind' /\ AskedIsYielded' /\ PagesInTurn' /\ EndedBehind'
    BY DEF Place, Behind, AskedIsYielded, PagesInTurn, EndedBehind, Live
  <1>4. InOrder'
    BY DEF InOrder
  <1> QED BY <1>1, <1>2, <1>3, <1>4

\* The guard lets at most MaxPages pass, and a page 0 in any case.
LEMMA ProbeInv ==
  ASSUME SInv, NEW n \in {0, PagesOf(crawl)}, Live, Probe(n), ~(n > MaxPages)
  PROVE  SInv'
  <1> USE DEF SInv
  <1>0. PagesOf(crawl) \in Nat
    BY LinesIsSeq DEF Place, STypeOK
  <1>1. /\ stage = "probe" /\ stage' = "page" /\ page' = 0
        /\ total' = IF n = 0 THEN 1 ELSE n
        /\ counts' = Append(counts, n)
        /\ UNCHANGED <<crawl, line, out, asked, missing>>
    BY DEF Probe
  <1>2. n <= MaxPages /\ n \in Nat
    BY <1>0, GuardAssumption
  <1>3. /\ counts' \in Seq(Nat) /\ Len(counts') = crawl /\ counts'[crawl] = n
        /\ \A c \in DOMAIN counts : c \in DOMAIN counts' /\ counts'[c] = counts[c]
        /\ DOMAIN counts = 1..(crawl - 1) /\ crawl \in Nat
    <2>1. /\ counts' \in Seq(Nat) /\ Len(counts') = Len(counts) + 1 /\ counts'[Len(counts) + 1] = n
          /\ \A c \in DOMAIN counts : c \in DOMAIN counts' /\ counts'[c] = counts[c]
      BY <1>1, <1>2, CountAdded
    <2>2. Len(counts) = crawl - 1 /\ crawl \in Nat /\ DOMAIN counts = 1..Len(counts)
      BY <1>1 DEF Place, STypeOK
    <2> QED BY <2>1, <2>2
  <1>4. STypeOK' /\ Place'
    <2>1. total' \in Nat /\ page' <= total'
      BY <1>1, <1>2
    <2> QED BY <1>1, <1>2, <1>3, <2>1 DEF STypeOK, Stages, Place, Live
  <1>5. Behind'
    BY <1>1 DEF Behind, Live
  <1>6. InOrder' /\ AskedIsYielded' /\ EndedBehind'
    BY <1>1 DEF InOrder, AskedIsYielded, EndedBehind, Yielded
  <1>7. GuardBeforePages'
    BY <1>1, <1>3 DEF GuardBeforePages
  <1>8. \A c : PagesAsked(c)' = PagesAsked(c)
    BY <1>1 DEF PagesAsked
  <1>9. 0..(page' - 1) = {}
    BY <1>1
  <1>10. \A c \in DOMAIN Crawls : c < crawl => AllAsked(c)'
    <2> TAKE c \in DOMAIN Crawls
    <2> HAVE c < crawl
    <2>1. AllAsked(c)
      BY <1>1 DEF PagesInTurn
    <2>2. c \in DOMAIN counts
      BY <1>3, IndexAssumption
    <2> QED BY <1>3, <1>8, <2>1, <2>2 DEF AllAsked
  <1>11. PagesInTurn'
    BY <1>1, <1>8, <1>9, <1>10 DEF PagesInTurn
  <1> QED BY <1>4, <1>5, <1>6, <1>7, <1>11

\* A page is asked for after all before it was yielded.
LEMMA PageArrivesInv == ASSUME SInv, PageArrives PROVE SInv'
  <1> USE DEF SInv
  <1>0. crawl \in DOMAIN Crawls /\ Len(Lines(crawl, page)) \in Nat
    BY LinesIsSeq DEF PageArrives, Place, STypeOK, Live
  <1>1. /\ stage = "page" /\ page < total /\ stage' = "lines" /\ line' = 0
        /\ asked' = asked \cup {<<crawl, page>>}
        /\ UNCHANGED <<crawl, counts, total, page, out, missing>>
    BY DEF PageArrives
  <1>2. STypeOK' /\ Place' /\ GuardBeforePages'
    BY <1>0, <1>1, AskedInGuard DEF STypeOK, Stages, Place, Live
  <1>3. Behind' /\ InOrder' /\ EndedBehind'
    BY <1>1 DEF Behind, Live, InOrder, EndedBehind
  <1>4. AskedIsYielded'
    BY <1>1 DEF AskedIsYielded, Yielded, LinesOfPage, Lines
  <1>5. page \in Nat /\ 0..(page - 1) \cup {page} = 0..page
    BY DEF STypeOK
  <1>6. ASSUME NEW c \in DOMAIN Crawls
        PROVE  PagesAsked(c)' = PagesAsked(c) \cup IF c = crawl THEN {page} ELSE {}
    BY <1>1, AskedAdds
  <1>7. \A c \in DOMAIN Crawls : c # crawl => PagesAsked(c)' = PagesAsked(c)
    BY <1>6
  <1>8. PagesAsked(crawl)' = 0..page
    <2>1. PagesAsked(crawl) = 0..(page - 1)
      BY <1>0, <1>1 DEF PagesInTurn, STypeOK
    <2>2. PagesAsked(crawl)' = PagesAsked(crawl) \cup {page}
      BY <1>0, <1>6, <1>1
    <2> QED BY <1>5, <2>1, <2>2
  <1>9. PagesInTurn'
    BY <1>0, <1>1, <1>7, <1>8 DEF PagesInTurn, AllAsked, STypeOK
  <1> QED BY <1>2, <1>3, <1>4, <1>9

\* A 404 counts as a page that was asked for and is missing.
LEMMA PageNotFoundInv == ASSUME SInv, PageNotFound PROVE SInv'
  <1> USE DEF SInv
  <1>0. crawl \in DOMAIN Crawls /\ page \in Nat /\ 0..(page - 1) \cup {page} = 0..((page + 1) - 1)
    BY DEF PageNotFound, Place, STypeOK, Live
  <1>1. /\ stage = "page" /\ page < total /\ stage' = "page" /\ page' = page + 1
        /\ asked' = asked \cup {<<crawl, page>>} /\ missing' = missing \cup {<<crawl, page>>}
        /\ UNCHANGED <<crawl, counts, total, line, out>>
    BY DEF PageNotFound
  <1>2. STypeOK' /\ Place' /\ GuardBeforePages'
    BY <1>0, <1>1, AskedInGuard DEF STypeOK, Stages, Place, Live
  <1>3. Behind' /\ InOrder' /\ EndedBehind'
    BY <1>0, <1>1, OutIsPositions DEF Behind, Live, InOrder, EndedBehind
  <1>4. AskedIsYielded'
    BY <1>1 DEF AskedIsYielded, Yielded
  <1>5. ASSUME NEW c \in DOMAIN Crawls
        PROVE  PagesAsked(c)' = PagesAsked(c) \cup IF c = crawl THEN {page} ELSE {}
    BY <1>1, AskedAdds
  <1>6. \A c \in DOMAIN Crawls : c # crawl => PagesAsked(c)' = PagesAsked(c)
    BY <1>5
  <1>7. PagesAsked(crawl)' = 0..(page' - 1)
    <2>1. PagesAsked(crawl) = 0..(page - 1)
      BY <1>0, <1>1 DEF PagesInTurn, STypeOK
    <2>2. PagesAsked(crawl)' = PagesAsked(crawl) \cup {page}
      BY <1>0, <1>5, <1>1
    <2> QED BY <1>0, <1>1, <2>1, <2>2
  <1>8. PagesInTurn'
    BY <1>0, <1>1, <1>6, <1>7 DEF PagesInTurn, AllAsked, STypeOK
  <1> QED BY <1>2, <1>3, <1>4, <1>8

\* A line goes behind all that was yielded.
LEMMA YieldLineInv == ASSUME SInv, YieldLine PROVE SInv'
  <1> USE DEF SInv
  <1> DEFINE pos == <<crawl, page, line + 1>>
  <1>0. crawl \in DOMAIN Crawls /\ page \in Nat /\ Len(Lines(crawl, page)) \in Nat /\ line \in Nat
    BY LinesIsSeq DEF YieldLine, Place, STypeOK, Live
  <1>1. /\ stage = "lines" /\ line < Len(Lines(crawl, page)) /\ line' = line + 1
        /\ out' = Append(out, pos)
        /\ UNCHANGED <<stage, crawl, counts, total, page, asked, missing>>
    BY DEF YieldLine
  <1>2. pos \in Positions /\ out \in Seq(Positions)
    BY DEF STypeOK, Positions
  <1> HIDE DEF pos
  <1>3. /\ out' \in Seq(Positions) /\ DOMAIN out = 1..Len(out) /\ Len(out) \in Nat
        /\ DOMAIN out' = 1..(Len(out) + 1)
        /\ \A k \in 1..Len(out) : out'[k] = out[k]
        /\ out'[Len(out) + 1] = pos
    BY <1>1, <1>2
  <1>4. STypeOK' /\ Place' /\ EndedBehind' /\ GuardBeforePages'
    BY <1>0, <1>1, <1>3 DEF STypeOK, Stages, Place, Live, EndedBehind, GuardBeforePages
  <1>5. Behind'
    BY <1>0, <1>1, <1>3, OutIsPositions DEF Behind, Live, pos
  <1>6. \A k \in 1..Len(out) : Before(out[k], pos)
    BY <1>0, <1>1, <1>3, OutIsPositions, SMTT(20) DEF Behind, Before, Live, pos
  <1>7. InOrder'
    BY <1>3, <1>6 DEF InOrder
  <1>8. Yielded' = Yielded \cup {pos}
    BY <1>1, <1>2, YieldedAppends
  <1>9. AskedIsYielded'
    BY <1>0, <1>1, <1>8 DEF AskedIsYielded, pos
  <1>10. PagesInTurn'
    BY <1>1 DEF PagesInTurn, PagesAsked, AllAsked
  <1> QED BY <1>4, <1>5, <1>7, <1>9, <1>10

\* Behind the last line of a page all its lines were yielded.
LEMMA PageDoneInv == ASSUME SInv, PageDone PROVE SInv'
  <1> USE DEF SInv
  <1>0. crawl \in DOMAIN Crawls /\ page \in Nat /\ Lines(crawl, page) \in Seq(Captures)
    BY LinesIsSeq DEF PageDone, Place, STypeOK, Live
  <1>1. /\ stage = "lines" /\ line = Len(Lines(crawl, page)) /\ stage' = "page" /\ page' = page + 1
        /\ UNCHANGED <<crawl, counts, total, line, out, asked, missing>>
    BY DEF PageDone
  <1>2. STypeOK' /\ Place' /\ EndedBehind' /\ GuardBeforePages'
    BY <1>0, <1>1 DEF STypeOK, Stages, Place, Live, EndedBehind, GuardBeforePages
  <1>3. Behind' /\ InOrder'
    BY <1>0, <1>1, OutIsPositions DEF Behind, Live, InOrder
  <1>4. LinesOfPage(<<crawl, page>>) \subseteq Yielded
    BY <1>0, <1>1 DEF AskedIsYielded, LinesOfPage
  <1>5. AskedIsYielded'
    BY <1>1, <1>4 DEF AskedIsYielded, Yielded
  <1>6. 0..(page' - 1) = 0..page
    BY <1>0, <1>1
  <1>7. \A c : PagesAsked(c)' = PagesAsked(c)
    BY <1>1 DEF PagesAsked
  <1>8. PagesInTurn'
    BY <1>1, <1>6, <1>7 DEF PagesInTurn, AllAsked
  <1> QED BY <1>2, <1>3, <1>5, <1>8

\* Behind the last page of a crawl all its pages were asked for.
LEMMA CrawlDoneInv == ASSUME SInv, CrawlDone PROVE SInv'
  <1> USE DEF SInv
  <1>0. /\ crawl \in DOMAIN Crawls /\ DOMAIN Crawls = 1..Len(Crawls) /\ Len(Crawls) \in Nat
        /\ crawl \in Nat /\ page \in Nat
    BY IndexAssumption DEF CrawlDone, Place, STypeOK, Live
  <1>1. /\ stage = "page" /\ page = total /\ crawl' = crawl + 1
        /\ stage' = IF crawl = Len(Crawls) THEN "ended" ELSE "probe"
        /\ UNCHANGED <<counts, total, page, line, out, asked, missing>>
    BY DEF CrawlDone
  <1>2. STypeOK' /\ GuardBeforePages'
    <2>1. stage' \in Stages /\ crawl' \in Nat \ {0}
      BY <1>0, <1>1 DEF Stages
    <2>2. STypeOK'
      BY <1>1, <2>1 DEF STypeOK
    <2> QED BY <1>1, <2>2 DEF GuardBeforePages
  <1>9. Place' /\ EndedBehind'
    BY <1>0, <1>1 DEF Place, Live, EndedBehind
  <1>3. Behind' /\ InOrder'
    BY <1>0, <1>1, OutIsPositions DEF Behind, Live, InOrder
  <1>4. AskedIsYielded'
    BY <1>1 DEF AskedIsYielded, Yielded
  <1>5. \A c : PagesAsked(c)' = PagesAsked(c)
    BY <1>1 DEF PagesAsked
  <1>6. PagesAsked(crawl) = 0..(page - 1)
    BY <1>0, <1>1 DEF PagesInTurn
  <1>7. AllAsked(crawl)
    <2>1. total = IF counts[crawl] = 0 THEN 1 ELSE counts[crawl]
      BY <1>1 DEF Place
    <2>2. 0..(1 - 1) = {0}
      OBVIOUS
    <2> QED BY <1>1, <1>6, <2>1, <2>2 DEF AllAsked
  <1>8. PagesInTurn'
    BY <1>0, <1>1, <1>5, <1>7 DEF PagesInTurn, AllAsked
  <1> QED BY <1>2, <1>3, <1>4, <1>8, <1>9

\* Each step of the generator preserves the invariant.
LEMMA SNextInv == SInv /\ [Next]_vars => SInv'
  <1> SUFFICES ASSUME SInv, [Next]_vars PROVE SInv'
    OBVIOUS
  <1>1. CASE Poll \/ Finished \/ UNCHANGED vars
    BY <1>1, QuietStepInv DEF Poll, Finished, vars
  <1>2. CASE Live /\ \E n \in {0, PagesOf(crawl)} : Probe(n)
    <2> PICK n \in {0, PagesOf(crawl)} : Probe(n)
      BY <1>2
    <2>1. CASE n > MaxPages
      <3>1. n \in Nat
        BY <1>2, LinesIsSeq DEF SInv, Place, STypeOK
      <3> QED BY <2>1, <3>1, EndStepInv DEF Probe, Fail
    <2>2. CASE ~(n > MaxPages)
      BY <1>2, <2>2, ProbeInv
    <2> QED BY <2>1, <2>2
  <1>3. CASE RequestFails \/ BadLine \/ Drop
    BY <1>3, EndStepInv DEF RequestFails, BadLine, Drop, Fail
  <1>4. CASE PageArrives \/ PageNotFound \/ YieldLine \/ PageDone \/ CrawlDone
    BY <1>4, PageArrivesInv, PageNotFoundInv, YieldLineInv, PageDoneInv, CrawlDoneInv
  <1> QED BY <1>1, <1>2, <1>3, <1>4 DEF Next, Generate

\* The invariant of the stream: what has been yielded and asked for follows from
\* where the generator stands.
THEOREM SearchInvariant == Spec => []SInv
  BY SInitInv, SNextInv, PTL DEF Spec

\* Captures come by crawl, page and line, none twice.
THEOREM SearchIsInOrder == Spec => []InOrder
  <1>1. SInv => InOrder
    BY DEF SInv
  <1> QED BY SearchInvariant, <1>1, PTL

\* No page is asked for of a crawl that is not counted or wider than the guard.
THEOREM SearchIsGuarded == Spec => []GuardBeforePages
  <1>1. SInv => GuardBeforePages
    BY DEF SInv
  <1> QED BY SearchInvariant, <1>1, PTL

\* NothingSkipped follows from where the loops stand.
LEMMA InvSkipsNothing == SInv => NothingSkipped
  <1> SUFFICES ASSUME SInv PROVE NothingSkipped
    OBVIOUS
  <1> DEFINE current == IF stage = "lines" THEN {<<crawl, page>>} ELSE {}
  <1>1. stage \in {"probe", "page", "ended"} \/ current # {} =>
          \A q \in (asked \ missing) \ current : LinesOfPage(q) \subseteq Yielded
    BY DEF SInv, AskedIsYielded
  <1>2. stage = "ended" => DOMAIN counts = DOMAIN Crawls /\ \A c \in DOMAIN Crawls : AllAsked(c)
    BY DEF SInv, PagesInTurn, EndedBehind
  <1> QED BY <1>1, <1>2 DEF NothingSkipped, AllAsked

\* Nothing the server has for the pages asked for is passed over, and a stream
\* that ends has asked each crawl for all the pages counted.
THEOREM SearchSkipsNothing == Spec => []NothingSkipped
  BY SearchInvariant, InvSkipsNothing, PTL

\* A page is asked for only when all that came before has been yielded.
THEOREM SearchIsLazy == Spec => NoReadAhead
  <1>1. SInv /\ [Next]_vars =>
          [\A q \in asked' \ asked : \A r \in asked \ missing : LinesOfPage(r) \subseteq Yielded]_vars
    <2> SUFFICES ASSUME SInv, [Next]_vars, asked' # asked
                 PROVE  \A r \in asked \ missing : LinesOfPage(r) \subseteq Yielded
      OBVIOUS
    <2>1. stage = "page"
      BY DEF Next, Poll, Generate, Probe, RequestFails, PageArrives, PageNotFound, YieldLine,
             BadLine, PageDone, CrawlDone, Drop, Finished, vars
    <2> QED BY <2>1 DEF SInv, AskedIsYielded
  <1> QED BY SearchInvariant, <1>1, PTL DEF Spec, NoReadAhead

----------------------------------------------------------------------------
(* The enumerations. *)

KeyAt(p) == UrlKeyOf[CaptureAt(p)]

Items == [ok : BOOLEAN, pos : Positions \cup {<<>>}]

OTypeOK == /\ order \in Options /\ items \in Seq(Items)
           /\ IsFiniteSet(Handed) /\ IsFiniteSet(HandedPositions)

\* The set run keeps is that of all it has seen.
SeenIsYielded == order.distinct => seen = {KeyAt(p) : p \in Yielded}

\* Captures are given in the order of the stream, and tokens name captures of it.
ItemsFollow ==
  /\ \A k \in DOMAIN items : items[k].pos \in Yielded \/ (~items[k].ok /\ items[k].pos = <<>>)
  /\ \A j, k \in DOMAIN items : j < k /\ items[j].ok /\ items[k].ok
       => Before(items[j].pos, items[k].pos)

\* Until the first error everything is given, and the token names the last of it.
UntilError ==
  (\A k \in DOMAIN items : items[k].ok) =>
    /\ HandedPositions = Firsts
    /\ last = IF items = <<>> THEN <<>> ELSE items[Len(items)].pos

LastFollows == last = <<>> \/ last \in Yielded

OInv == /\ OTypeOK /\ SeenIsYielded /\ ItemsFollow /\ UntilError /\ LastFollows
        /\ OneCapturePerUrl /\ FirstErrorResumes

\* A place in the index is not the absence of one.
LEMMA PositionsAreNotEmpty == \A p \in Positions : p # <<>>
  <1> TAKE p \in Positions
  <1>1. PICK a, b, c \in Nat : p = <<a, b, c>>
    BY DEF Positions
  <1>2. Len(p) = 3 /\ Len(<<>>) = 0
    BY <1>1
  <1> QED BY <1>2

----------------------------------------------------------------------------
(* The stream inside. *)

\* Every step of a reader or a wrapper is one of the generator, or leaves it alone.
LEMMA StepIsSearch == [CommandNext]_cvars => [Next]_vars
  <1> SUFFICES ASSUME [CommandNext]_cvars PROVE [Next]_vars
    OBVIOUS
  <1>1. CASE AwaitItem
    BY <1>1 DEF AwaitItem, Want
  <1>2. CASE Streams
    <2>1. CASE AwaitInner
      BY <2>1 DEF AwaitInner, Next
    <2>2. CASE InnerYields
      BY <2>2 DEF InnerYields, Next, Generate
    <2>3. CASE InnerWorks
      BY <2>3 DEF InnerWorks, Next, Generate
    <2>4. CASE DropAll
      BY <2>4 DEF DropAll, Next
    <2> QED BY <1>2, <2>1, <2>2, <2>3, <2>4 DEF Streams
  <1>3. CASE ReadExhausted
    BY <1>3 DEF ReadExhausted, DropAll, Next
  <1>4. CASE ReadCapture \/ ReadError \/ ReadEnd
    BY <1>4 DEF ReadCapture, ReadError, ReadEnd, evars
  <1>5. CASE CommandOver \/ UNCHANGED cvars
    BY <1>5 DEF CommandOver, cvars, evars
  <1> QED BY <1>1, <1>2, <1>3, <1>4, <1>5 DEF CommandNext

\* Whoever awaits it, the stream is IndexClient::search.
THEOREM CommandsAreSearches == CommandSpec => Spec
  <1>1. CommandInit => Init
    BY DEF CommandInit, EInit
  <1> QED BY <1>1, StepIsSearch, PTL DEF CommandSpec, Spec

\* A capture comes after all that came before it.
LEMMA YieldGoesOn ==
  ASSUME SInv, YieldLine
  PROVE  LET pos == <<crawl, page, line + 1>>
         IN  /\ pos \in Positions
             /\ Yielded' = Yielded \cup {pos}
             /\ \A q \in Yielded : Before(q, pos) /\ ~Before(pos, q) /\ q # pos
             /\ pos # <<>>
  <1> DEFINE pos == <<crawl, page, line + 1>>
  <1>1. /\ stage = "lines" /\ out' = Append(out, pos) /\ out \in Seq(Positions) /\ Live
        /\ crawl \in Nat /\ page \in Nat /\ line \in Nat
    BY DEF SInv, STypeOK, YieldLine, Live
  <1>2. pos \in Positions
    BY <1>1 DEF Positions
  <1>3. Yielded' = Yielded \cup {pos}
    BY <1>1, <1>2, YieldedAppends
  <1>4. ASSUME NEW q \in Yielded PROVE Before(q, pos) /\ ~Before(pos, q) /\ q # pos
    <2>1. PICK k \in DOMAIN out : q = out[k]
      BY DEF Yielded
    <2>2. q \in Positions
      BY <1>1, <2>1
    <2>3. Before(q, pos)
      BY <1>1, <2>1, OutIsPositions DEF SInv, Behind, Before
    <2> QED BY <1>2, <2>2, <2>3 DEF Before, Positions
  <1> QED BY <1>2, <1>3, <1>4

----------------------------------------------------------------------------
(* A capture is yielded: dropped, given or refused. *)

\* The firsts of their URL, with one more capture.
LEMMA NewFirsts ==
  ASSUME NEW pos, Yielded' = Yielded \cup {pos}, order' = order,
         \A q \in Yielded : Before(q, pos) /\ ~Before(pos, q) /\ q # pos
  PROVE  Firsts' = IF order.distinct /\ KeyAt(pos) \in {KeyAt(p) : p \in Yielded}
                     THEN Firsts ELSE Firsts \cup {pos}
  <1>1. ASSUME NEW p \in Yielded PROVE p \in Firsts' <=> p \in Firsts
    BY DEF Firsts
  <1>2. pos \in Firsts' <=> ~(order.distinct /\ KeyAt(pos) \in {KeyAt(p) : p \in Yielded})
    BY DEF Firsts, KeyAt
  <1>3. Firsts \subseteq Yielded /\ Firsts' \subseteq Yielded \cup {pos}
    BY DEF Firsts
  <1> QED BY <1>1, <1>2, <1>3

\* A step that neither yields nor delivers keeps the invariant of the wrappers.
LEMMA QuietOuter ==
  ASSUME OInv, UNCHANGED <<order, seen, last, items, out>>
  PROVE  OInv'
  <1> USE DEF OInv
  <1>1. Yielded' = Yielded /\ Handed' = Handed
    BY DEF Yielded, Handed
  <1>2. HandedPositions' = HandedPositions /\ Firsts' = Firsts
    BY <1>1 DEF HandedPositions, Firsts
  <1>3. OTypeOK' /\ SeenIsYielded' /\ ItemsFollow' /\ UntilError' /\ LastFollows' /\ OneCapturePerUrl'
    BY <1>1, <1>2 DEF OTypeOK, SeenIsYielded, ItemsFollow, UntilError, LastFollows, OneCapturePerUrl
  <1>4. FirstErrorResumes'
    BY <1>2 DEF FirstErrorResumes, ResumesAt
  <1> QED BY <1>3, <1>4

\* An item is delivered behind those that were.
LEMMA ItemsAppend ==
  ASSUME items \in Seq(Items), NEW i \in Items, items' = Append(items, i)
  PROVE  /\ items' \in Seq(Items) /\ Len(items') = Len(items) + 1 /\ Len(items) \in Nat
         /\ DOMAIN items = 1..Len(items) /\ DOMAIN items' = 1..(Len(items) + 1)
         /\ \A k \in 1..Len(items) : items'[k] = items[k]
         /\ items'[Len(items) + 1] = i /\ items' # <<>>
         /\ Handed' = Handed \cup IF i.ok THEN {Len(items) + 1} ELSE {}
         /\ HandedPositions' = HandedPositions \cup IF i.ok THEN {i.pos} ELSE {}
  <1>1. /\ items' \in Seq(Items) /\ Len(items') = Len(items) + 1 /\ Len(items) \in Nat
        /\ DOMAIN items = 1..Len(items) /\ DOMAIN items' = 1..(Len(items) + 1)
        /\ \A k \in 1..Len(items) : items'[k] = items[k]
        /\ items'[Len(items) + 1] = i /\ items' # <<>>
    OBVIOUS
  <1>2. Handed' = Handed \cup IF i.ok THEN {Len(items) + 1} ELSE {}
    BY <1>1 DEF Handed
  <1>3. \A k \in Handed : items'[k] = items[k]
    BY <1>1 DEF Handed
  <1>4. HandedPositions' = HandedPositions \cup IF i.ok THEN {i.pos} ELSE {}
    <2>1. CASE i.ok
      <3>1. Handed' = Handed \cup {Len(items) + 1} /\ items'[Len(items) + 1].pos = i.pos
        BY <1>1, <1>2, <2>1
      <3>2. \A q \in HandedPositions' : q \in HandedPositions \/ q = i.pos
        BY <1>3, <3>1 DEF HandedPositions
      <3>3. HandedPositions \subseteq HandedPositions' /\ i.pos \in HandedPositions'
        BY <1>3, <3>1 DEF HandedPositions
      <3> QED BY <2>1, <3>2, <3>3
    <2>2. CASE ~i.ok
      BY <1>2, <1>3, <2>2 DEF HandedPositions
    <2> QED BY <2>1, <2>2
  <1> QED BY <1>1, <1>2, <1>4

\* A token that was right stays right, whatever is given later.
LEMMA TokenStays ==
  ASSUME NEW pos, NEW k \in DOMAIN items, items'[k] = items[k], ResumesAt(k),
         \A j \in 1..(k - 1) : items'[j] = items[j],
         HandedPositions \subseteq HandedPositions', Firsts' \subseteq Firsts \cup {pos},
         items[k].pos = <<>> \/ Before(items[k].pos, pos)
  PROVE  ResumesAt(k)'
  BY DEF ResumesAt

\* A URL that was given before.
LEMMA DropsInv ==
  ASSUME SInv, OInv, YieldLine, UNCHANGED outer,
         order.distinct, KeyAt(<<crawl, page, line + 1>>) \in seen
  PROVE  OInv'
  <1> DEFINE pos == <<crawl, page, line + 1>>
  <1> USE DEF OInv, outer
  <1>1. /\ Yielded' = Yielded \cup {pos} /\ pos \in Positions
        /\ \A q \in Yielded : Before(q, pos) /\ ~Before(pos, q) /\ q # pos
    BY YieldGoesOn
  <1>2. KeyAt(pos) \in {KeyAt(p) : p \in Yielded} /\ order' = order
    BY DEF SeenIsYielded
  <1> HIDE DEF pos
  <1>3. Firsts' = Firsts
    BY <1>1, <1>2, NewFirsts
  <1>4. Handed' = Handed /\ HandedPositions' = HandedPositions
    BY DEF Handed, HandedPositions
  <1>5. SeenIsYielded'
    BY <1>1, <1>2 DEF SeenIsYielded, KeyAt
  <1>6. OTypeOK' /\ ItemsFollow' /\ UntilError' /\ LastFollows' /\ OneCapturePerUrl'
    BY <1>1, <1>3, <1>4 DEF OTypeOK, ItemsFollow, UntilError, LastFollows, OneCapturePerUrl
  <1>7. FirstErrorResumes'
    BY <1>3, <1>4 DEF FirstErrorResumes, ResumesAt
  <1> QED BY <1>5, <1>6, <1>7

\* What giving and refusing a capture have in common: one item more.
LEMMA DeliversInv ==
  ASSUME SInv, OInv, YieldLine, NEW i \in Items, items' = Append(items, i), order' = order,
         ~(order.distinct /\ KeyAt(<<crawl, page, line + 1>>) \in seen),
         order.distinct => seen' = seen \cup {KeyAt(<<crawl, page, line + 1>>)},
         \/ i = Given(<<crawl, page, line + 1>>) /\ last' = <<crawl, page, line + 1>>
         \/ i = Exhausted(last) /\ last' = last
  PROVE  OInv'
  <1> DEFINE pos == <<crawl, page, line + 1>>
             n == Len(items) + 1
  <1> USE DEF OInv
  <1>1. /\ Yielded' = Yielded \cup {pos} /\ pos \in Positions /\ pos # <<>>
        /\ \A q \in Yielded : Before(q, pos) /\ ~Before(pos, q) /\ q # pos
    BY YieldGoesOn
  <1>2. Firsts' = Firsts \cup {pos}
    <2>1. ~(order.distinct /\ KeyAt(pos) \in {KeyAt(p) : p \in Yielded})
      BY DEF SeenIsYielded
    <2> HIDE DEF pos
    <2> QED BY <1>1, <2>1, NewFirsts
  <1>3. /\ (i = Given(pos) /\ last' = pos) \/ (i = Exhausted(last) /\ last' = last)
        /\ order.distinct => seen' = seen \cup {KeyAt(pos)}
    OBVIOUS
  <1> HIDE DEF pos
  <1>4. /\ items' \in Seq(Items) /\ Len(items') = n /\ n \in Nat \ {0}
        /\ DOMAIN items = 1..(n - 1) /\ DOMAIN items' = 1..n
        /\ \A k \in 1..(n - 1) : items'[k] = items[k]
        /\ items'[n] = i /\ items' # <<>>
        /\ Len(items) = n - 1 /\ (items = <<>> <=> n = 1)
        /\ Handed' = Handed \cup IF i.ok THEN {n} ELSE {}
        /\ HandedPositions' = HandedPositions \cup IF i.ok THEN {i.pos} ELSE {}
    BY ItemsAppend DEF OTypeOK
  <1>5. /\ Firsts \subseteq Yielded /\ HandedPositions \subseteq Firsts
        /\ Handed \subseteq 1..(n - 1) /\ IsFiniteSet(Handed) /\ IsFiniteSet(HandedPositions)
    BY <1>4 DEF Firsts, OneCapturePerUrl, Handed, OTypeOK
  <1> HIDE DEF n
  <1>6. OTypeOK'
    <2>1. IsFiniteSet(Handed \cup {n}) /\ IsFiniteSet(HandedPositions \cup {i.pos})
      BY <1>5, FS_AddElement
    <2>2. IsFiniteSet(Handed') /\ IsFiniteSet(HandedPositions')
      <3>1. CASE i.ok
        BY <1>4, <2>1, <3>1
      <3>2. CASE ~i.ok
        BY <1>4, <1>5, <3>2
      <3> QED BY <3>1, <3>2
    <2> QED BY <1>4, <2>2 DEF OTypeOK
  <1>7. SeenIsYielded'
    BY <1>1, <1>3 DEF SeenIsYielded, KeyAt
  <1>8. LastFollows'
    BY <1>1, <1>3 DEF LastFollows
  <1>9. ItemsFollow'
    <2>1. i.pos \in Yielded' \/ (~i.ok /\ i.pos = <<>>)
      BY <1>1, <1>3 DEF Given, Exhausted, LastFollows
    <2>2. ASSUME NEW j \in 1..(n - 1), items[j].ok, i.ok
          PROVE  Before(items[j].pos, i.pos)
      BY <1>1, <1>3, <1>4, <2>2 DEF Given, Exhausted, ItemsFollow
    <2>3. \A k \in DOMAIN items' :
            items'[k].pos \in Yielded' \/ (~items'[k].ok /\ items'[k].pos = <<>>)
      BY <1>1, <1>4, <2>1 DEF ItemsFollow
    <2>4. ASSUME NEW j \in DOMAIN items', NEW k \in DOMAIN items',
                 j < k, items'[j].ok, items'[k].ok
          PROVE  Before(items'[j].pos, items'[k].pos)
      <3>1. CASE k = n
        BY <1>4, <2>2, <2>4, <3>1
      <3>2. CASE k # n
        BY <1>4, <2>4, <3>2 DEF ItemsFollow
      <3> QED BY <3>1, <3>2
    <2> QED BY <2>3, <2>4 DEF ItemsFollow
  <1>10. UntilError'
    <2> SUFFICES ASSUME \A k \in 1..n : items'[k].ok
                 PROVE  HandedPositions' = Firsts' /\ last' = items'[n].pos
      BY <1>4 DEF UntilError
    <2>1. i.ok /\ \A k \in DOMAIN items : items[k].ok
      BY <1>4
    <2>2. i = Given(pos) /\ last' = pos
      BY <1>3, <2>1 DEF Exhausted
    <2> QED BY <1>2, <1>4, <2>1, <2>2 DEF UntilError, Given
  <1>11. OneCapturePerUrl'
    <2>1. CASE i = Given(pos)
      <3>1. Handed' = Handed \cup {n} /\ HandedPositions' = HandedPositions \cup {pos}
        BY <1>4, <2>1 DEF Given
      <3>2. n \notin Handed /\ pos \notin HandedPositions
        BY <1>1, <1>4, <1>5
      <3>3. /\ Cardinality(HandedPositions \cup {pos}) = Cardinality(HandedPositions) + 1
            /\ Cardinality(Handed \cup {n}) = Cardinality(Handed) + 1
        BY <1>5, <3>2, FS_AddElement
      <3>4. Cardinality(HandedPositions') = Cardinality(Handed')
        BY <3>1, <3>3 DEF OneCapturePerUrl
      <3> QED BY <1>2, <1>5, <3>1, <3>4 DEF OneCapturePerUrl
    <2>2. CASE i = Exhausted(last)
      BY <1>2, <1>4, <2>2 DEF OneCapturePerUrl, Exhausted
    <2> QED BY <1>3, <2>1, <2>2
  <1>12. ASSUME NEW k \in DOMAIN items', ~items'[k].ok, \A j \in 1..(k - 1) : items'[j].ok
         PROVE  ResumesAt(k)' /\ items'[k].pos = IF k = 1 THEN <<>> ELSE items'[k - 1].pos
    <2>1. CASE k # n
      <3>1. k \in DOMAIN items /\ ~items[k].ok /\ \A j \in 1..(k - 1) : items[j].ok /\ items'[j] = items[j]
        BY <1>4, <1>12, <2>1
      <3>2. ResumesAt(k) /\ items[k].pos = IF k = 1 THEN <<>> ELSE items[k - 1].pos
        BY <3>1 DEF FirstErrorResumes
      <3>3. items[k].pos = <<>> \/ Before(items[k].pos, pos)
        BY <1>1, <3>1 DEF ItemsFollow
      <3>4. ResumesAt(k)'
        BY <1>2, <1>4, <2>1, <3>1, <3>2, <3>3, TokenStays
      <3>5. k = 1 \/ k - 1 \in 1..(k - 1)
        BY <1>4
      <3> QED BY <1>4, <2>1, <3>1, <3>2, <3>4, <3>5
    <2>2. CASE k = n
      <3>1. i = Exhausted(last) /\ \A j \in DOMAIN items : items[j].ok
        BY <1>3, <1>4, <1>12, <2>2 DEF Given
      <3>2. HandedPositions' = Firsts /\ items'[n].pos = last
        BY <1>4, <3>1 DEF UntilError, Exhausted
      <3>3. CASE n = 1
        <4>1. last = <<>>
          BY <1>4, <3>1, <3>3 DEF UntilError
        <4> QED BY <2>2, <3>2, <3>3, <4>1 DEF ResumesAt
      <3>4. CASE n # 1
        <4>1. /\ last = items[n - 1].pos /\ n - 1 \in DOMAIN items /\ items'[n - 1] = items[n - 1]
          BY <1>4, <3>1, <3>4 DEF UntilError
        <4>2. last \in Yielded
          BY <3>1, <4>1 DEF ItemsFollow
        <4>3. last # <<>>
          BY <4>2, PositionsAreNotEmpty DEF SInv, STypeOK, Yielded
        <4> QED BY <1>1, <1>2, <2>2, <3>2, <3>4, <4>1, <4>2, <4>3 DEF ResumesAt
      <3> QED BY <3>3, <3>4
    <2> QED BY <2>1, <2>2
  <1>13. FirstErrorResumes'
    BY <1>12 DEF FirstErrorResumes
  <1> QED BY <1>6, <1>7, <1>8, <1>9, <1>10, <1>11, <1>13

\* What the generator yields is dropped as a duplicate, or delivered, or refused.
LEMMA InnerYieldsInv == ASSUME SInv, OInv, InnerYields PROVE OInv'
  <1> DEFINE pos == <<crawl, page, line + 1>>
  <1>1. YieldLine /\ Dedupe(pos)
    BY DEF InnerYields
  <1>2. CASE order.distinct /\ KeyAt(pos) \in seen
    BY <1>1, <1>2, DropsInv DEF Dedupe, KeyAt
  <1>3. CASE ~(order.distinct /\ KeyAt(pos) \in seen)
    <2>1. /\ Deliver(pos) /\ order' = order
          /\ order.distinct => seen' = seen \cup {KeyAt(pos)}
      BY <1>1, <1>3 DEF Dedupe, KeyAt
    <2>2. pos \in Positions
      BY <1>1, YieldGoesOn
    <2>3. Given(pos) \in Items /\ Exhausted(last) \in Items
      <3>1. last = <<>> \/ last \in Positions
        BY DEF OInv, LastFollows, SInv, STypeOK, Yielded
      <3> QED BY <2>2, <3>1 DEF Given, Exhausted, Items
    <2>4. CASE Crosses(pos)
      BY <1>1, <1>3, <2>1, <2>3, <2>4, DeliversInv DEF Deliver
    <2>5. CASE ~Crosses(pos)
      BY <1>1, <1>3, <2>1, <2>3, <2>5, DeliversInv DEF Deliver
    <2> QED BY <2>4, <2>5
  <1> QED BY <1>2, <1>3

\* An enumeration begins with nothing seen and nothing given.
LEMMA OInitInv == CommandInit => OInv
  <1> SUFFICES ASSUME CommandInit PROVE OInv
    OBVIOUS
  <1>1. /\ items = <<>> /\ out = <<>> /\ last = <<>> /\ seen = {} /\ order \in Orders
    BY DEF CommandInit, EInit, Init
  <1>2. /\ Handed = {} /\ HandedPositions = {} /\ Yielded = {} /\ Firsts = {}
    BY <1>1 DEF Handed, HandedPositions, Yielded, Firsts
  <1>3. OTypeOK
    BY <1>1, <1>2, EnumerationAssumption, FS_EmptySet DEF OTypeOK
  <1> QED BY <1>1, <1>2, <1>3 DEF OInv, SeenIsYielded, ItemsFollow, UntilError, LastFollows,
                                  OneCapturePerUrl, FirstErrorResumes

\* Each step of an enumeration preserves the invariant of the wrappers.
LEMMA OStepInv == SInv /\ OInv /\ [CommandNext]_cvars => OInv'
  <1> SUFFICES ASSUME SInv, OInv, [CommandNext]_cvars PROVE OInv'
    OBVIOUS
  <1>1. CASE InnerYields
    BY <1>1, InnerYieldsInv
  <1>2. CASE AwaitItem \/ AwaitInner \/ CommandOver \/ UNCHANGED cvars
    BY <1>2, QuietOuter DEF AwaitItem, Want, AwaitInner, Poll, CommandOver, cvars, evars, outer, vars
  <1>3. CASE InnerWorks
    <2>1. out' = out
      BY <1>3 DEF InnerWorks, Probe, Fail, RequestFails, PageArrives, PageNotFound, BadLine,
                  PageDone, CrawlDone
    <2> QED BY <1>3, <2>1, QuietOuter DEF InnerWorks
  <1>4. CASE DropAll
    BY <1>4, QuietOuter DEF DropAll, Drop
  <1>5. CASE ReadCapture \/ ReadExhausted \/ ReadError \/ ReadEnd
    BY <1>5, QuietOuter DEF ReadCapture, ReadExhausted, DropAll, Drop, ReadError, ReadEnd,
                            evars, outer, vars
  <1> QED BY <1>1, <1>2, <1>3, <1>4, <1>5 DEF CommandNext, Streams

\* Every item follows from what the stream inside has yielded.
THEOREM EnumerationInvariant == CommandSpec => []OInv
  <1>1. SInv /\ OInv /\ [CommandNext]_cvars => OInv'
    BY OStepInv
  <1> QED BY CommandsAreSearches, SearchInvariant, OInitInv, <1>1, PTL DEF CommandSpec

\* distinct_urls gives each URL once, its first capture.
THEOREM UrlsAreGivenOnce == CommandSpec => []OneCapturePerUrl
  <1>1. OInv => OneCapturePerUrl
    BY DEF OInv
  <1> QED BY EnumerationInvariant, <1>1, PTL

\* Whoever stops at the first error and resumes after its token misses nothing.
THEOREM FirstTokenResumes == CommandSpec => []FirstErrorResumes
  <1>1. OInv => FirstErrorResumes
    BY DEF OInv
  <1> QED BY EnumerationInvariant, <1>1, PTL

----------------------------------------------------------------------------
(* The limits. *)

\* What the k-th item adds to the bytes given.
SizeAt(k) == IF items[k].ok THEN LengthOf[CaptureAt(items[k].pos)] ELSE 0

BytesAddUp == BytesOf = [k \in Nat |-> IF k = 0 THEN 0 ELSE BytesOf[k - 1] + SizeAt(k)]

\* BytesOf adds up the sizes.
LEMMA BytesUnroll == BytesAddUp
  <1> DEFINE a == [k \in Nat |-> SizeAt(k)]
  <1>1. \E F : F = [k \in Nat |-> IF k = 0 THEN 0 ELSE F[k - 1] + a[k]]
    <2> HIDE DEF a
    <2> QED BY SumExists
  <1>2. \E F : F = [k \in Nat |-> IF k = 0 THEN 0 ELSE F[k - 1] + SizeAt(k)]
    BY <1>1
  <1> QED BY <1>2 DEF BytesAddUp, BytesOf, SizeAt

\* As long as the first n items are the same, so are the bytes.
LEMMA BytesStay ==
  ASSUME NEW n \in Nat, \A k \in 1..n : items'[k] = items[k]
  PROVE  BytesOf'[n] = BytesOf[n]
  <1>1. BytesAddUp /\ BytesAddUp'
    BY BytesUnroll, PTL
  <1> DEFINE T == {k \in Nat : k <= n => BytesOf'[k] = BytesOf[k]}
  <1>2. 0 \in T
    BY <1>1 DEF BytesAddUp
  <1>3. ASSUME NEW k \in Nat, k \in T PROVE k + 1 \in T
    <2> SUFFICES ASSUME k + 1 <= n PROVE BytesOf'[k + 1] = BytesOf[k + 1]
      OBVIOUS
    <2>1. items'[k + 1] = items[k + 1] /\ BytesOf'[k] = BytesOf[k]
      BY <1>3
    <2>2. SizeAt(k + 1)' = SizeAt(k + 1)
      BY <2>1 DEF SizeAt
    <2>3. k + 1 \in Nat /\ k + 1 # 0 /\ k + 1 - 1 = k
      OBVIOUS
    <2> QED BY <1>1, <2>1, <2>2, <2>3 DEF BytesAddUp
  <1>4. n \in T
    <2> HIDE DEF T
    <2> QED BY <1>2, <1>3, NatInduct
  <1> QED BY <1>4

\* One item more adds its size.
LEMMA BytesAppend ==
  ASSUME items \in Seq(Items), NEW i \in Items, items' = Append(items, i)
  PROVE  BytesOf'[Len(items')] = BytesOf[Len(items)]
                                   + IF i.ok THEN LengthOf[CaptureAt(i.pos)] ELSE 0
  <1>1. PICK n \in Nat : /\ n = Len(items) /\ Len(items') = n + 1 /\ items'[n + 1] = i
                         /\ \A k \in 1..n : items'[k] = items[k]
    BY ItemsAppend
  <1>2. BytesOf'[n] = BytesOf[n]
    BY <1>1, BytesStay
  <1>3. BytesAddUp'
    BY BytesUnroll, PTL
  <1>4. SizeAt(n + 1)' = IF i.ok THEN LengthOf[CaptureAt(i.pos)] ELSE 0
    BY <1>1 DEF SizeAt
  <1>5. BytesOf'[n + 1] = BytesOf'[n] + SizeAt(n + 1)'
    <2>1. n + 1 \in Nat /\ n + 1 # 0 /\ n + 1 - 1 = n
      BY <1>1
    <2> QED BY <1>3, <2>1 DEF BytesAddUp
  <1> QED BY <1>1, <1>2, <1>4, <1>5

\* apply's counters count what was given.
BInv ==
  /\ records \in Nat /\ records = Cardinality(Handed)
  /\ bytes \in Nat /\ bytes = BytesOf[Len(items)]
  /\ WithinBudget

\* A step that gives nothing changes no count.
LEMMA QuietBudget ==
  ASSUME OInv, BInv, UNCHANGED <<order, records, bytes, items>>
  PROVE  BInv'
  <1>1. Handed' = Handed
    BY DEF Handed
  <1>2. Len(items) \in Nat
    BY DEF OInv, OTypeOK
  <1>3. BytesOf'[Len(items')] = BytesOf[Len(items)]
    BY <1>2, BytesStay
  <1> QED BY <1>1, <1>3 DEF BInv, WithinBudget

\* A capture of the stream is one of the index.
LEMMA YieldsCaptures ==
  ASSUME SInv, YieldLine
  PROVE  CaptureAt(<<crawl, page, line + 1>>) \in Captures
  <1>1. crawl \in DOMAIN Crawls /\ page \in Nat /\ line \in Nat /\ line < Len(Lines(crawl, page))
    BY DEF SInv, STypeOK, Place, YieldLine, Live
  <1>2. Lines(crawl, page) \in Seq(Captures)
    BY <1>1, LinesIsSeq
  <1>3. line + 1 \in 1..Len(Lines(crawl, page))
    BY <1>1, <1>2
  <1> QED BY <1>2, <1>3 DEF CaptureAt

\* What is given fits the limits, and what does not is refused.
LEMMA InnerYieldsBudget ==
  ASSUME SInv, OInv, BInv, InnerYields
  PROVE  BInv'
  <1> DEFINE pos == <<crawl, page, line + 1>>
             size == LengthOf[CaptureAt(pos)]
  <1>1. YieldLine /\ Dedupe(pos)
    BY DEF InnerYields
  <1>2. CASE UNCHANGED outer
    BY <1>2, QuietBudget DEF outer
  <1>3. CASE Deliver(pos) /\ order' = order
    <2>1. size \in Nat
      BY <1>1, YieldsCaptures, EnumerationAssumption
    <2>2. pos \in Positions /\ (last = <<>> \/ last \in Positions)
      BY <1>1, YieldGoesOn DEF OInv, LastFollows, SInv, STypeOK, Yielded
    <2>3. Given(pos) \in Items /\ Exhausted(last) \in Items /\ items \in Seq(Items)
      BY <2>2 DEF Given, Exhausted, Items, OInv, OTypeOK
    <2>4. order \in Options /\ IsFiniteSet(Handed)
      BY DEF OInv, OTypeOK
    <2>5. CASE Crosses(pos)
      <3>1. items' = Append(items, Exhausted(last)) /\ UNCHANGED <<records, bytes>>
        BY <1>3, <2>5 DEF Deliver
      <3>2. Handed' = Handed
        BY <2>3, <3>1, ItemsAppend DEF Exhausted
      <3>3. BytesOf'[Len(items')] = bytes
        BY <2>3, <3>1, BytesAppend DEF Exhausted, BInv
      <3> QED BY <1>3, <3>1, <3>2, <3>3 DEF BInv, WithinBudget
    <2>6. CASE ~Crosses(pos)
      <3>1. /\ items' = Append(items, Given(pos)) /\ records' = records + 1
            /\ bytes' = bytes + size
        BY <1>3, <2>6 DEF Deliver
      <3>2. Handed' = Handed \cup {Len(items) + 1} /\ Len(items) + 1 \notin Handed
        BY <2>3, <3>1, ItemsAppend DEF Given, Handed
      <3>3. Cardinality(Handed') = records'
        BY <2>4, <3>1, <3>2, FS_AddElement DEF BInv
      <3>4. BytesOf'[Len(items')] = bytes'
        <4> HIDE DEF pos
        <4> QED BY <2>3, <3>1, BytesAppend DEF Given, BInv
      <3>5. records' \in Nat /\ bytes' \in Nat
        BY <2>1, <3>1 DEF BInv
      <3>6. /\ order.max_records # Unlimited => records' <= order.max_records
            /\ order.max_bytes # Unlimited => bytes' <= order.max_bytes
        <4>1. /\ order.max_records # Unlimited => ~(records >= order.max_records)
              /\ order.max_bytes # Unlimited => ~(bytes + size > order.max_bytes)
          BY <2>6 DEF Crosses
        <4>2. /\ order.max_records # Unlimited => order.max_records \in Nat
              /\ order.max_bytes # Unlimited => order.max_bytes \in Nat
          BY <2>4 DEF Options
        <4> HIDE DEF size
        <4> QED BY <2>1, <3>1, <4>1, <4>2, SMTT(20) DEF BInv
      <3> QED BY <1>3, <3>3, <3>4, <3>5, <3>6 DEF BInv, WithinBudget
    <2> QED BY <2>5, <2>6
  <1> QED BY <1>1, <1>2, <1>3 DEF Dedupe

\* At the start nothing has been given.
LEMMA BInitInv == CommandInit => BInv
  <1> SUFFICES ASSUME CommandInit PROVE BInv
    OBVIOUS
  <1>1. items = <<>> /\ records = 0 /\ bytes = 0 /\ order \in Options
    BY EnumerationAssumption DEF CommandInit, EInit
  <1>2. Cardinality(Handed) = 0
    BY <1>1, FS_EmptySet DEF Handed
  <1>3. BytesOf[Len(items)] = 0
    BY <1>1, BytesUnroll DEF BytesAddUp
  <1> QED BY <1>1, <1>2, <1>3 DEF BInv, WithinBudget, Options

LEMMA BStepInv == SInv /\ OInv /\ BInv /\ [CommandNext]_cvars => BInv'
  <1> SUFFICES ASSUME SInv, OInv, BInv, [CommandNext]_cvars PROVE BInv'
    OBVIOUS
  <1>1. CASE InnerYields
    BY <1>1, InnerYieldsBudget
  <1>2. CASE AwaitItem \/ AwaitInner \/ InnerWorks \/ DropAll
    BY <1>2, QuietBudget DEF AwaitItem, Want, AwaitInner, InnerWorks, DropAll, outer
  <1>3. CASE ReadCapture \/ ReadExhausted \/ ReadError \/ ReadEnd \/ CommandOver \/ UNCHANGED cvars
    BY <1>3, QuietBudget DEF ReadCapture, ReadExhausted, DropAll, ReadError, ReadEnd, CommandOver,
                             cvars, evars, outer
  <1> QED BY <1>1, <1>2, <1>3 DEF CommandNext, Streams

\* No consumer is given more captures or bytes than the budget, however often
\* it goes on after an error, and a duplicate that was dropped costs nothing.
THEOREM BudgetIsKept == CommandSpec => []WithinBudget
  <1>1. SInv /\ OInv /\ BInv /\ [CommandNext]_cvars => BInv'
    BY BStepInv
  <1>2. BInv => WithinBudget
    BY DEF BInv
  <1> QED BY CommandsAreSearches, SearchInvariant, EnumerationInvariant, BInitInv, <1>1, <1>2, PTL
           DEF CommandSpec
----------------------------------------------------------------------------
(* The guard, as the command's exit code has it. *)

\* Where the stream stands, its crawl is the last it has asked pages of.
AskedSoFar ==
  /\ Live => error = "none"
  /\ stage = "probe" => \A q \in asked : q[1] < crawl
  /\ stage \in {"page", "lines"} => \A q \in asked : q[1] <= crawl
  /\ error = "IndexTooLarge" =>
       stage = "failed" /\ PagesOf(crawl) > MaxPages /\ \A q \in asked : q[1] < crawl

LEMMA AskedSoFarInit == Init => AskedSoFar
  BY DEF Init, AskedSoFar, Live

LEMMA EmptyPasses == ~(0 > MaxPages)
  BY GuardAssumption

\* The guard refuses a crawl before any of its pages.
LEMMA AskedSoFarStep == SInv /\ AskedSoFar /\ [Next]_vars => AskedSoFar'
  <1> SUFFICES ASSUME SInv, AskedSoFar, [Next]_vars PROVE AskedSoFar'
    OBVIOUS
  <1> USE DEF AskedSoFar, Live
  <1>0. crawl \in Nat /\ asked \subseteq Nat \X Nat
    BY DEF SInv, STypeOK
  <1>1. CASE Poll \/ Finished \/ UNCHANGED vars
    BY <1>1 DEF Poll, Finished, vars, PagesOf
  <1>2. CASE Drop
    BY <1>2 DEF Drop
  <1>3. ASSUME NEW n \in {0, PagesOf(crawl)}, Probe(n) PROVE AskedSoFar'
    <2>1. CASE n > MaxPages
      <3>1. n # 0
        BY <2>1, EmptyPasses
      <3>2. n = PagesOf(crawl)
        BY <3>1
      <3> QED BY <1>3, <2>1, <3>2 DEF Probe, Fail, PagesOf
    <2>2. CASE ~(n > MaxPages)
      BY <1>0, <1>3, <2>2 DEF Probe
    <2> QED BY <2>1, <2>2
  <1>4. CASE RequestFails
    BY <1>4 DEF RequestFails, Fail
  <1>5. CASE PageArrives \/ PageNotFound
    <2>1. /\ asked' = asked \cup {<<crawl, page>>} /\ crawl' = crawl /\ error' = "none"
          /\ stage = "page" /\ stage' \in {"page", "lines"}
      BY <1>5 DEF PageArrives, PageNotFound
    <2>2. ASSUME NEW q \in asked' PROVE q[1] <= crawl
      BY <1>0, <2>1
    <2> QED BY <2>1, <2>2
  <1>6. CASE YieldLine \/ BadLine \/ PageDone
    BY <1>6 DEF YieldLine, BadLine, PageDone, Fail
  <1>7. CASE CrawlDone
    BY <1>0, <1>7 DEF CrawlDone
  <1> QED BY <1>1, <1>2, <1>3, <1>4, <1>5, <1>6, <1>7 DEF Next, Generate

----------------------------------------------------------------------------
(* The command at the end of the stream. *)

Keeping == use \in {"newest", "oldest"}

TimeAt(p) == TimeOf[CaptureAt(p)]

\* Of two captures, whether the first may be kept before the second.
AsGood(p, q) == IF use = "newest" THEN TimeAt(p) >= TimeAt(q) ELSE TimeAt(p) <= TimeAt(q)

KTypeOK ==
  /\ use \in Uses /\ read \in Nat /\ read <= Len(items)
  /\ exit \in {Running, 0, 1, 3, 4}
  /\ use = "library" => exit = Running
  /\ use # "library" => order.max_bytes = Unlimited
  /\ \A p \in Yielded : CaptureAt(p) \in Captures

\* The command awaits an item when it has looked at those before it, and is
\* over only after the stream.
InStep ==
  /\ demand => wanted
  /\ use # "library" => /\ wanted => read = Len(items)
                        /\ Len(items) <= read + 1
  /\ exit # Running => ~Live

\* It has met no error yet, and has written or weighed what came before.
SoFar ==
  IsCommand =>
    /\ \A k \in 1..read : items[k].ok
    /\ use = "none" => written = [k \in 1..read |-> items[k].pos]
    /\ Keeping => /\ read = 0 => chosen = <<>>
                  /\ read # 0 => \E k \in 1..read :
                       /\ chosen = <<items[k].pos>>
                       /\ \A j \in 1..read : AsGood(items[k].pos, items[j].pos)

\* Nothing is written of the captures weighed before the end.
NotYet == use # "none" /\ exit # 0 => written = <<>>

\* A capture is refused when as many were given as may be, and it is one more.
RefusedAtLimit ==
  IsCommand /\ items # <<>> /\ ~items[Len(items)].ok =>
    Cardinality(Handed) = order.max_records /\ Cardinality(Firsts) = order.max_records + 1

KInv == /\ KTypeOK /\ InStep /\ SoFar /\ NotYet /\ RefusedAtLimit /\ ExitTells

\* Until the command ends its exit code tells nothing.
LEMMA RunningTells == exit = Running /\ NotYet => ExitTells
  BY DEF ExitTells, NotYet, Running

\* The stream goes on without an item: what is read and written stays.
LEMMA QuietCommand ==
  ASSUME OInv, KInv, UNCHANGED <<command, order, items, out>>, exit = Running \/ UNCHANGED evars,
         demand' => wanted', use # "library" /\ wanted' => read = Len(items)
  PROVE  KInv'
  <1> USE DEF KInv
  <1>1. Yielded' = Yielded /\ Handed' = Handed /\ Firsts' = Firsts
    BY DEF Yielded, Handed, Firsts
  <1>2. KTypeOK' /\ SoFar' /\ NotYet' /\ RefusedAtLimit'
    BY <1>1 DEF KTypeOK, SoFar, NotYet, RefusedAtLimit, IsCommand, Keeping, AsGood, TimeAt, command
  <1>3. InStep'
    BY DEF InStep, command, evars, vars, outer, Live
  <1>4. ExitTells'
    <2>1. CASE exit = Running
      <3>1. (exit = Running /\ NotYet)'
        BY <1>2, <2>1 DEF command, Running
      <3> QED BY <3>1, RunningTells, PTL
    <2>2. CASE UNCHANGED evars
      BY <1>1, <2>2 DEF ExitTells, command, evars, vars, outer, TimesOf, Written, PagesOf
    <2> QED BY <2>1, <2>2
  <1> QED BY <1>2, <1>3, <1>4

\* A capture is dropped as a duplicate, or is the next the command looks at; a
\* refused one is one more than the budget allows.
LEMMA YieldsCommand ==
  ASSUME SInv, OInv, BInv, KInv, InnerYields, UNCHANGED command
  PROVE  KInv'
  <1> DEFINE pos == <<crawl, page, line + 1>>
  <1> USE DEF KInv
  <1>1. /\ YieldLine /\ Dedupe(pos) /\ demand /\ demand' = FALSE /\ Live /\ order' = order
        /\ stage' = stage
    BY DEF InnerYields, YieldLine, Live, Dedupe, outer
  <1>2. exit = Running /\ (use # "library" => IsCommand /\ read = Len(items))
    BY <1>1 DEF InStep, IsCommand
  <1>3. /\ Yielded' = Yielded \cup {pos} /\ pos \in Positions
        /\ \A q \in Yielded : Before(q, pos) /\ ~Before(pos, q) /\ q # pos
        /\ CaptureAt(pos) \in Captures
    BY <1>1, YieldGoesOn, YieldsCaptures
  <1>4. Firsts' = IF order.distinct /\ KeyAt(pos) \in seen THEN Firsts ELSE Firsts \cup {pos}
    <2>1. order.distinct => seen = {KeyAt(p) : p \in Yielded}
      BY DEF OInv, SeenIsYielded
    <2> HIDE DEF pos
    <2> QED BY <1>1, <1>3, <2>1, NewFirsts
  <1>5. NotYet' /\ ExitTells'
    <2>1. (exit = Running /\ NotYet)'
      BY <1>2 DEF command, NotYet
    <2> QED BY <2>1, RunningTells, PTL
  <1>6. CASE order.distinct /\ KeyAt(pos) \in seen
    <2>1. UNCHANGED outer
      BY <1>1, <1>6 DEF Dedupe, KeyAt
    <2>2. Handed' = Handed /\ Firsts' = Firsts
      BY <1>4, <1>6, <2>1 DEF Handed, outer
    <2>3. KTypeOK'
      BY <1>3, <2>1 DEF KTypeOK, command, outer
    <2>4. InStep' /\ SoFar'
      BY <1>1, <1>2, <2>1 DEF InStep, SoFar, command, outer, IsCommand, Keeping, AsGood, TimeAt, Live
    <2>5. RefusedAtLimit'
      BY <2>1, <2>2 DEF RefusedAtLimit, command, outer, IsCommand
    <2> QED BY <1>5, <2>3, <2>4, <2>5
  <1>7. CASE ~(order.distinct /\ KeyAt(pos) \in seen)
    <2>1. Deliver(pos) /\ wanted' = FALSE
      BY <1>1, <1>7 DEF Dedupe, KeyAt, Deliver
    <2>2. PICK i \in Items :
             /\ items' = Append(items, i)
             /\ i = Given(pos) \/ (i = Exhausted(last) /\ Crosses(pos))
      <3>1. last = <<>> \/ last \in Positions
        BY DEF OInv, LastFollows, SInv, STypeOK, Yielded
      <3>2. Given(pos) \in Items /\ Exhausted(last) \in Items
        BY <1>3, <3>1 DEF Given, Exhausted, Items
      <3> QED BY <2>1, <3>2 DEF Deliver
    <2>3. /\ Len(items) \in Nat /\ Len(items') = Len(items) + 1 /\ items'[Len(items) + 1] = i
          /\ \A k \in 1..Len(items) : items'[k] = items[k]
          /\ Handed' = Handed \cup IF i.ok THEN {Len(items) + 1} ELSE {}
      BY <2>2, ItemsAppend DEF OInv, OTypeOK
    <2>4. KTypeOK'
      BY <1>1, <1>3, <2>3 DEF KTypeOK, command
    <2>5. InStep'
      BY <1>1, <1>2, <2>1, <2>3 DEF InStep, command, Live, KTypeOK
    <2>6. SoFar'
      <3>1. \A k \in 1..read : items'[k] = items[k]
        BY <2>3 DEF KTypeOK
      <3> QED BY <3>1 DEF SoFar, command, IsCommand, Keeping, AsGood, TimeAt
    <2>7. RefusedAtLimit'
      <3> SUFFICES ASSUME IsCommand', ~i.ok
                   PROVE  /\ Cardinality(Handed') = order.max_records
                          /\ Cardinality(Firsts') = order.max_records + 1
        BY <1>1, <2>3 DEF RefusedAtLimit
      <3>1. IsCommand /\ \A k \in DOMAIN items : items[k].ok
        BY <1>2 DEF SoFar, OInv, OTypeOK, IsCommand, command
      <3>2. HandedPositions = Firsts /\ Cardinality(HandedPositions) = Cardinality(Handed)
        BY <3>1 DEF OInv, UntilError, OneCapturePerUrl
      <3>3. Handed' = Handed
        BY <2>3
      <3>4. Firsts' = Firsts \cup {pos} /\ pos \notin Firsts /\ IsFiniteSet(Firsts)
        BY <1>3, <1>4, <1>7, <3>2 DEF Firsts, OInv, OTypeOK
      <3>5. Cardinality(Firsts') = Cardinality(Firsts) + 1
        BY <3>4, FS_AddElement
      <3>6. Crosses(pos) /\ order.max_bytes = Unlimited
        BY <2>2, <3>1 DEF Given, KTypeOK, IsCommand
      <3>7. /\ order.max_records # Unlimited /\ records >= order.max_records
            /\ records \in Nat /\ records = Cardinality(Handed) /\ records <= order.max_records
        BY <3>6 DEF Crosses, BInv, WithinBudget
      <3>8. order.max_records \in Nat
        BY <3>7 DEF OInv, OTypeOK, Options
      <3>9. records = order.max_records
        BY <3>7, <3>8
      <3> QED BY <3>2, <3>3, <3>5, <3>7, <3>9
    <2> QED BY <1>5, <2>4, <2>5, <2>6, <2>7
  <1> QED BY <1>6, <1>7

\* One more capture is written, or weighed against the one kept.
LEMMA ReadCaptureInv ==
  ASSUME OInv, KInv, ReadCapture
  PROVE  KInv'
  <1> DEFINE n == read + 1
             pos == items[n].pos
  <1> USE DEF KInv
  <1>1. /\ IsCommand /\ IsCommand' /\ exit = Running /\ UNCHANGED <<evars, use, exit>>
        /\ read' = n /\ n \in 1..Len(items) /\ n = Len(items) /\ read \in Nat /\ items[n].ok
        /\ Len(items) \in Nat /\ items \in Seq(Items)
        /\ \A k \in 1..read : items[k].ok
    BY DEF ReadCapture, IsCommand, KTypeOK, InStep, SoFar, OInv, OTypeOK
  <1>2. /\ use = "none" => written' = Append(written, pos) /\ chosen' = chosen
        /\ use # "none" => chosen' = (IF Keeps(pos) THEN <<pos>> ELSE chosen) /\ written' = written
    BY <1>1 DEF ReadCapture
  <1>3. Yielded' = Yielded /\ Handed' = Handed /\ Firsts' = Firsts
    BY <1>1 DEF Yielded, Handed, Firsts, evars, vars, outer
  <1>4. KTypeOK' /\ InStep' /\ RefusedAtLimit'
    BY <1>1, <1>3 DEF KTypeOK, InStep, RefusedAtLimit, evars, vars, outer, Live
  <1>5. NotYet' /\ ExitTells'
    <2>1. (exit = Running /\ NotYet)'
      BY <1>1, <1>2 DEF NotYet
    <2> QED BY <2>1, RunningTells, PTL
  <1>6. \A k \in 1..n : items'[k] = items[k] /\ items[k].ok /\ TimeAt(items[k].pos) \in Nat
    <2> TAKE k \in 1..n
    <2>1. items[k].ok /\ k \in DOMAIN items
      BY <1>1
    <2>2. items[k].pos \in Yielded
      BY <2>1 DEF OInv, ItemsFollow
    <2> QED BY <1>1, <2>1, <2>2, TimeAssumption DEF TimeAt, KTypeOK, evars, outer
  <1> HIDE DEF pos
  <1>7. use = "none" => written' = [k \in 1..n |-> items[k].pos]
    <2> SUFFICES ASSUME use = "none" PROVE Append(written, pos) = [k \in 1..n |-> items[k].pos]
      BY <1>2
    <2>1. written = [k \in 1..read |-> items[k].pos]
      BY <1>1 DEF SoFar
    <2> QED BY <1>1, <2>1 DEF pos
  <1>8. Keeping => \E k \in 1..n : /\ chosen' = <<items[k].pos>>
                                   /\ \A j \in 1..n : AsGood(items[k].pos, items[j].pos)
    <2> SUFFICES ASSUME Keeping
                 PROVE  \E k \in 1..n : /\ chosen' = <<items[k].pos>>
                                        /\ \A j \in 1..n : AsGood(items[k].pos, items[j].pos)
      OBVIOUS
    <2>1. chosen' = IF Keeps(pos) THEN <<pos>> ELSE chosen
      BY <1>2 DEF Keeping
    <2>2. CASE read = 0
      <3>1. chosen = <<>>
        BY <1>1, <2>2 DEF SoFar
      <3>2. chosen' = <<items[1].pos>> /\ n = 1
        BY <2>1, <2>2, <3>1 DEF Keeps, pos
      <3>3. AsGood(items[1].pos, items[1].pos)
        BY <1>6, <3>2 DEF AsGood
      <3> QED BY <3>2, <3>3
    <2>3. CASE read # 0
      <3>1. PICK k \in 1..read : /\ chosen = <<items[k].pos>>
                                 /\ \A j \in 1..read : AsGood(items[k].pos, items[j].pos)
        BY <1>1, <2>3 DEF SoFar
      <3>2. /\ chosen # <<>> /\ chosen[1] = items[k].pos
            /\ k \in 1..n /\ n \in 1..n /\ \A j \in 1..n : j = n \/ j \in 1..read
        BY <1>1, <3>1
      <3>3. CASE Keeps(pos)
        <4>1. IF use = "newest" THEN TimeAt(pos) > TimeAt(items[k].pos)
                                ELSE TimeAt(pos) < TimeAt(items[k].pos)
          BY <3>2, <3>3 DEF Keeps, TimeAt, Keeping
        <4>2. \A j \in 1..n : AsGood(pos, items[j].pos)
          BY <1>6, <3>1, <3>2, <4>1 DEF AsGood, pos
        <4> QED BY <2>1, <3>2, <3>3, <4>2 DEF pos
      <3>4. CASE ~Keeps(pos)
        <4>1. IF use = "newest" THEN ~(TimeAt(pos) > TimeAt(items[k].pos))
                                ELSE ~(TimeAt(pos) < TimeAt(items[k].pos))
          BY <3>2, <3>4 DEF Keeps, TimeAt, Keeping
        <4>2. \A j \in 1..n : AsGood(items[k].pos, items[j].pos)
          BY <1>6, <3>1, <3>2, <4>1 DEF AsGood, pos
        <4> QED BY <2>1, <3>1, <3>2, <3>4, <4>2
      <3> QED BY <3>3, <3>4
    <2> QED BY <2>2, <2>3
  <1>9. SoFar'
    <2>1. n # 0 /\ use' = use /\ items' = items
      BY <1>1 DEF evars, outer
    <2> HIDE DEF n
    <2> QED BY <1>1, <1>6, <1>7, <1>8, <2>1 DEF SoFar, Keeping, AsGood
  <1> QED BY <1>4, <1>5, <1>9

\* What has been written is what was given, up to an error.
LEMMA WrittenIsGiven ==
  ASSUME OInv, KInv, IsCommand, NEW n \in Nat, n = read,
         \A k \in DOMAIN items : items[k].ok <=> k <= n
  PROVE  /\ Handed = 1..n /\ Cardinality(Handed) = n
         /\ HandedPositions = {items[k].pos : k \in 1..n}
         /\ use = "none" => Written = HandedPositions /\ Len(written) = n
  <1>1. n <= Len(items) /\ DOMAIN items = 1..Len(items) /\ Len(items) \in Nat
    BY DEF KInv, KTypeOK, OInv, OTypeOK
  <1>2. Handed = 1..n
    BY <1>1 DEF Handed
  <1>3. Cardinality(1..n) = n
    <2>1. 1 \in Int /\ n \in Int /\ n - 1 + 1 = n
      OBVIOUS
    <2>2. Cardinality(1..n) = IF 1 > n THEN 0 ELSE n - 1 + 1
      BY <2>1, FS_Interval
    <2> QED BY <2>2
  <1>4. HandedPositions = {items[k].pos : k \in 1..n}
    BY <1>2 DEF HandedPositions
  <1>5. ASSUME use = "none" PROVE Written = HandedPositions /\ Len(written) = n
    <2>1. written = [k \in 1..n |-> items[k].pos]
      BY <1>5 DEF KInv, SoFar
    <2>2. DOMAIN written = 1..n /\ \A k \in 1..n : written[k] = items[k].pos
      BY <2>1
    <2>3. Len(written) = n
      BY <2>1
    <2> QED BY <1>4, <2>2, <2>3 DEF Written
  <1> QED BY <1>2, <1>3, <1>4, <1>5

\* The budget is exhausted.
LEMMA ReadExhaustedInv ==
  ASSUME OInv, AskedSoFar, KInv, ReadExhausted
  PROVE  KInv'
  <1> USE DEF KInv
  <1>0. /\ IsCommand /\ exit = Running /\ exit' = 3 /\ use # "library" /\ use' = use
        /\ read < Len(items) /\ read' = read + 1 /\ ~items[read + 1].ok
        /\ written' = written /\ UNCHANGED <<order, items, out>> /\ error' = error
        /\ Live /\ ~Live' /\ demand' = FALSE /\ wanted' = FALSE
    BY DEF ReadExhausted, DropAll, Drop, IsCommand, Live
  <1>1. /\ read \in Nat /\ Len(items) \in Nat /\ Len(items) = read + 1
        /\ \A k \in 1..read : items[k].ok
        /\ DOMAIN items = 1..Len(items) /\ items # <<>> /\ error = "none"
    BY <1>0 DEF KTypeOK, InStep, SoFar, OInv, OTypeOK, AskedSoFar
  <1>2. Yielded' = Yielded /\ Firsts' = Firsts
    BY <1>0, <1>1 DEF Yielded, Firsts
  <1>3. KTypeOK' /\ InStep'
    BY <1>0, <1>1, <1>2 DEF KTypeOK, InStep, Running
  <1>4. SoFar' /\ NotYet' /\ RefusedAtLimit'
    BY <1>0, <1>1 DEF SoFar, NotYet, RefusedAtLimit, IsCommand, Running
  <1>5. Cardinality(Handed) = order.max_records /\ Cardinality(Firsts) = order.max_records + 1
    BY <1>0, <1>1 DEF RefusedAtLimit
  <1>6. use = "none" => Cardinality(Written) = order.max_records
    <2>1. \A k \in DOMAIN items : items[k].ok <=> k <= read
      BY <1>0, <1>1
    <2>2. use = "none" => Written = HandedPositions
      BY <1>0, <1>1, <2>1, WrittenIsGiven
    <2> QED BY <1>5, <2>2 DEF OInv, OneCapturePerUrl
  <1>7. ExitTells'
    BY <1>0, <1>1, <1>2, <1>4, <1>5, <1>6 DEF ExitTells, NotYet, Written
  <1> QED BY <1>3, <1>4, <1>7

\* The stream is over and everything of it has been looked at.
LEMMA ReadAll ==
  ASSUME OInv, KInv, IsCommand, read = Len(items)
  PROVE  /\ HandedPositions = Firsts /\ HandedPositions = {items[k].pos : k \in 1..read}
         /\ use = "none" => Written = Firsts /\ Len(written) = Cardinality(Firsts)
  <1>1. read \in Nat /\ DOMAIN items = 1..read /\ \A k \in DOMAIN items : items[k].ok /\ k <= read
    BY DEF KInv, KTypeOK, SoFar, OInv, OTypeOK
  <1>2. /\ Handed = 1..read /\ Cardinality(Handed) = read
        /\ HandedPositions = {items[k].pos : k \in 1..read}
        /\ use = "none" => Written = HandedPositions /\ Len(written) = read
    BY <1>1, WrittenIsGiven
  <1>3. HandedPositions = Firsts /\ Cardinality(HandedPositions) = Cardinality(Handed)
    BY <1>1 DEF OInv, UntilError, OneCapturePerUrl
  <1> QED BY <1>2, <1>3

\* Which exit code stands for which error.
LEMMA ExitForTells ==
  ASSUME NEW kind
  PROVE  /\ ExitFor(kind) \in {1, 3, 4}
         /\ ExitFor(kind) = 3 => kind = "RateLimited"
         /\ ExitFor(kind) = 4 => kind = "IndexTooLarge"
  <1>1. kind = "RateLimited" => ExitFor(kind) = 3
    BY DEF ExitFor
  <1>2. kind = "IndexTooLarge" => ExitFor(kind) = 4
    BY DEF ExitFor
  <1>3. kind # "RateLimited" /\ kind # "IndexTooLarge" => ExitFor(kind) = 1
    BY DEF ExitFor
  <1> HIDE DEF ExitFor
  <1> QED BY <1>1, <1>2, <1>3

\* The stream ends in an error: of the guard, of the server, of a line.
LEMMA ReadErrorInv ==
  ASSUME OInv, AskedSoFar, KInv, ReadError
  PROVE  KInv'
  <1> USE DEF KInv
  <1>1. /\ IsCommand /\ exit = Running /\ exit' = ExitFor(error) /\ use # "library"
        /\ read = Len(items) /\ stage = "failed" /\ UNCHANGED <<evars, use, read, chosen, written>>
    BY DEF ReadError, IsCommand
  <1>2. /\ exit' \in {1, 3, 4}
        /\ exit' = 3 => error = "RateLimited"
        /\ exit' = 4 => error = "IndexTooLarge"
    BY <1>1, ExitForTells
  <1>3. Yielded' = Yielded /\ Firsts' = Firsts /\ Written' = Written
    BY <1>1 DEF Yielded, Firsts, Written, evars, vars, outer
  <1>4. KTypeOK' /\ InStep'
    BY <1>1, <1>2, <1>3 DEF KTypeOK, InStep, Running, evars, vars, outer, Live
  <1>5. SoFar' /\ NotYet' /\ RefusedAtLimit'
    BY <1>1, <1>2 DEF SoFar, NotYet, RefusedAtLimit, IsCommand, Running
  <1>6. use = "none" => Written = Firsts
    BY <1>1, ReadAll
  <1>7. exit' = 4 => PagesOf(crawl) > MaxPages /\ \A q \in asked : q[1] < crawl
    BY <1>2 DEF AskedSoFar
  <1>8. ExitTells'
    BY <1>1, <1>2, <1>3, <1>5, <1>6, <1>7 DEF ExitTells, NotYet, evars, vars, PagesOf
  <1> QED BY <1>4, <1>5, <1>8

\* The stream ends, and with it the command.
LEMMA ReadEndInv ==
  ASSUME OInv, KInv, ReadEnd
  PROVE  KInv'
  <1> USE DEF KInv
  <1>1. /\ IsCommand /\ exit = Running /\ exit' = 0 /\ use \in {"none", "newest", "oldest"}
        /\ read = Len(items) /\ read \in Nat
        /\ stage = "ended" /\ UNCHANGED <<evars, use, read, chosen>>
        /\ written' = IF use = "none" THEN written ELSE chosen
    BY DEF ReadEnd, IsCommand, KTypeOK, Uses
  <1>2. Yielded' = Yielded /\ Firsts' = Firsts /\ Handed' = Handed
    BY <1>1 DEF Yielded, Firsts, Handed, evars, vars, outer
  <1>3. KTypeOK' /\ InStep'
    BY <1>1, <1>2 DEF KTypeOK, InStep, Running, evars, vars, outer, Live
  <1>4. SoFar' /\ NotYet' /\ RefusedAtLimit'
    BY <1>1 DEF SoFar, NotYet, RefusedAtLimit, IsCommand, Running
  <1>5. /\ Firsts = {items[k].pos : k \in 1..read}
        /\ use = "none" => Written = Firsts /\ Len(written) = Cardinality(Firsts)
    BY <1>1, ReadAll
  <1>6. CASE use = "none"
    <2>1. Written' = Written /\ Len(written') = Len(written)
      BY <1>1, <1>6 DEF Written
    <2>2. stage' = "ended" /\ use' = "none" /\ exit' = 0
      BY <1>1, <1>6 DEF evars, vars
    <2>3. ExitTells'
      BY <1>2, <1>5, <1>6, <2>1, <2>2 DEF ExitTells
    <2> QED BY <1>3, <1>4, <2>3
  <1>7. CASE Keeping /\ read = 0
    <2>1. written' = <<>> /\ use # "none"
      BY <1>1, <1>7 DEF SoFar, Keeping
    <2>2. Firsts = {}
      BY <1>5, <1>7
    <2>3. Written' = {} /\ Len(written') = 0
      BY <2>1 DEF Written
    <2>4. stage' = "ended" /\ use' # "none" /\ exit' = 0
      BY <1>1, <2>1 DEF evars, vars
    <2>5. ExitTells'
      BY <1>2, <2>2, <2>3, <2>4 DEF ExitTells, TimesOf
    <2> QED BY <1>3, <1>4, <2>5
  <1>8. CASE Keeping /\ read # 0
    <2>1. PICK k \in 1..read : /\ chosen = <<items[k].pos>>
                               /\ \A j \in 1..read : AsGood(items[k].pos, items[j].pos)
      BY <1>1, <1>8 DEF SoFar
    <2>2. written' = <<items[k].pos>> /\ use # "none"
      BY <1>1, <1>8, <2>1 DEF Keeping
    <2>3. Written' = {items[k].pos} /\ Len(written') = 1
      BY <2>2 DEF Written
    <2>4. stage' = "ended" /\ use' = use /\ use' # "none" /\ exit' = 0
      BY <1>1, <2>2 DEF evars, vars
    <2>5. items[k].pos \in Firsts
      BY <1>5
    <2>6. \A u \in Firsts : AsGood(items[k].pos, u)
      BY <1>5, <2>1
    <2>7. ASSUME NEW t \in TimesOf(Written'), NEW u \in TimesOf(Firsts)
          PROVE  IF use = "newest" THEN t >= u ELSE t <= u
      BY <2>3, <2>6, <2>7 DEF TimesOf, AsGood, TimeAt
    <2>8. ExitTells'
      BY <1>2, <2>3, <2>4, <2>5, <2>7 DEF ExitTells, TimesOf
    <2> QED BY <1>3, <1>4, <2>8
  <1> QED BY <1>1, <1>6, <1>7, <1>8 DEF Keeping

\* A command begins with nothing read, written or kept.
LEMMA KInitInv == CommandInit => KInv
  <1> SUFFICES ASSUME CommandInit PROVE KInv
    OBVIOUS
  <1>1. /\ items = <<>> /\ out = <<>> /\ read = 0 /\ chosen = <<>> /\ written = <<>>
        /\ exit = Running /\ demand = FALSE /\ wanted = FALSE /\ use \in Uses
        /\ use # "library" => order.max_bytes = Unlimited
    BY DEF CommandInit, EInit, Init
  <1>2. Yielded = {} /\ Len(items) = 0
    BY <1>1 DEF Yielded
  <1>3. KTypeOK /\ InStep
    BY <1>1, <1>2 DEF KTypeOK, InStep
  <1>4. SoFar
    <2>1. <<>> = [k \in 1..0 |-> items[k].pos]
      OBVIOUS
    <2> QED BY <1>1, <2>1 DEF SoFar
  <1>5. NotYet /\ RefusedAtLimit
    BY <1>1 DEF NotYet, RefusedAtLimit
  <1> QED BY <1>1, <1>3, <1>4, <1>5, RunningTells DEF KInv

\* Each step of the command or of the stream it reads preserves the invariant.
LEMMA KStepInv ==
  SInv /\ OInv /\ BInv /\ AskedSoFar /\ KInv /\ [CommandNext]_cvars => KInv'
  <1> SUFFICES ASSUME SInv, OInv, BInv, AskedSoFar, KInv, [CommandNext]_cvars PROVE KInv'
    OBVIOUS
  <1>0. exit # Running => ~Live
    BY DEF KInv, InStep
  <1>1. CASE AwaitItem
    BY <1>0, <1>1, QuietCommand DEF AwaitItem, Want, vars
  <1>2. CASE Streams /\ ~InnerYields
    <2>1. CASE AwaitInner
      BY <1>0, <1>2, <2>1, QuietCommand DEF Streams, AwaitInner, Poll, outer, KInv, InStep
    <2>2. CASE InnerWorks
      <3>1. out' = out /\ Live /\ (demand' => demand /\ Live')
        BY <2>2 DEF InnerWorks, Probe, Fail, RequestFails, PageArrives, PageNotFound, BadLine,
                    PageDone, CrawlDone, Live
      <3> QED BY <1>0, <1>2, <2>2, <3>1, QuietCommand DEF Streams, InnerWorks, KInv, InStep
    <2>3. CASE DropAll
      BY <1>0, <1>2, <2>3, QuietCommand DEF Streams, DropAll, Drop
    <2> QED BY <1>2, <2>1, <2>2, <2>3 DEF Streams
  <1>3. CASE Streams /\ InnerYields
    BY <1>3, YieldsCommand DEF Streams
  <1>4. CASE ReadCapture \/ ReadExhausted \/ ReadError \/ ReadEnd
    BY <1>4, ReadCaptureInv, ReadExhaustedInv, ReadErrorInv, ReadEndInv
  <1>5. CASE CommandOver \/ UNCHANGED cvars
    BY <1>5, QuietCommand DEF CommandOver, cvars, evars, vars, outer, KInv, InStep
  <1> QED BY <1>1, <1>2, <1>3, <1>4, <1>5 DEF CommandNext

\* An exit code of 0 means that everything was written, or the newest (oldest)
\* of it; 3 that the server or the budget stopped it, at exactly the budget; 4
\* that a crawl is wider than the guard: for every index, time and budget.
THEOREM ExitCodeTells == CommandSpec => []ExitTells
  <1>1. SInv /\ OInv /\ BInv /\ [CommandNext]_cvars => BInv'
    BY BStepInv
  <1>2. SInv /\ AskedSoFar /\ [Next]_vars => AskedSoFar'
    BY AskedSoFarStep
  <1>3. SInv /\ OInv /\ BInv /\ AskedSoFar /\ KInv /\ [CommandNext]_cvars => KInv'
    BY KStepInv
  <1>4. KInv => ExitTells
    BY DEF KInv
  <1>5. Spec => []AskedSoFar
    BY AskedSoFarInit, <1>2, SearchInvariant, PTL DEF Spec
  <1> QED BY CommandsAreSearches, SearchInvariant, EnumerationInvariant, BInitInv, KInitInv,
             <1>1, <1>3, <1>4, <1>5, PTL DEF CommandSpec
=============================================================================
