---------------------------- MODULE MCEnumerate ----------------------------
\* A small index: a page longer than the limit, a crawl without pages, an
\* empty page, a crawl wider than the guard.  a1 and a2, b1 and b2 are captures
\* of one URL each, on different pages; the bodies of b are longer.
EXTENDS EnumerateCommand

FourCrawls == <<"new", "none", "old", "wide">>
FourIndexes == << << <<"a1", "b1">>, <<"a2", "c1", "c2">> >>,
                  << >>,
                  << <<"b2">>, << >>, <<"d1">> >>,
                  << <<"d2">>, << >>, << >>, << >> >> >>

UrlKeys == [c \in Captures |-> CASE c \in {"a1", "a2"} -> "a"
                                 [] c \in {"b1", "b2"} -> "b"
                                 [] c \in {"c1", "c2"} -> "c"
                                 [] OTHER -> "d"]
Lengths == [c \in Captures |-> IF c \in {"b1", "b2"} THEN 3 ELSE 1]

\* Newer crawls first, but inside a crawl by URL.
Times == [c \in Captures |-> CASE c \in {"a1", "b1"} -> 5 [] c = "a2" -> 6
                              [] c \in {"c1", "c2"} -> 4 [] c = "b2" -> 3
                              [] c = "d1" -> 2 [] OTHER -> 1]

Order(d, r, b) == [distinct |-> d, max_records |-> r, max_bytes |-> b]
AllOrders == {Order(FALSE, Unlimited, Unlimited), Order(TRUE, Unlimited, Unlimited), Order(TRUE, 2, Unlimited),
              Order(TRUE, 2, 3), Order(FALSE, Unlimited, 3)}
=============================================================================
