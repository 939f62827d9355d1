------------------------------ MODULE Template ------------------------------
(***************************************************************************)
(* URL templates (model/template.rs): literals and named variables, bound  *)
(* to a URL.  Text is a sequence of characters; a leading www. is one.     *)
(***************************************************************************)
EXTENDS Integers, FiniteSets, SequencesExt

CONSTANTS
  Chars,   \* the characters of a text
  Www      \* the one that stands for a leading www.

Lit(text) == [kind |-> "lit", text |-> text]
Var(name) == [kind |-> "var", name |-> name]

Literals(parts) == {i \in DOMAIN parts : parts[i].kind = "lit"}
Variables(parts) == DOMAIN parts \ Literals(parts)

\* What parse makes: no literal is empty, and between two stands a variable.
Part == [kind : {"lit"}, text : Seq(Chars) \ {<<>>}] \cup [kind : {"var"}, name : STRING \ {""}]
Parsed(parts) ==
  parts \in Seq(Part) /\ \A i \in Literals(parts) : i + 1 \notin Literals(parts)

\* Where t begins in s.
Offsets(t, s) == {k \in 0..(Len(s) - Len(t)) : IsPrefix(t, SubSeq(s, k + 1, Len(s)))}

Failed == [ok |-> FALSE, pos |-> 0, vars |-> <<>>]
Matched(pos, vars) == [ok |-> TRUE, pos |-> pos, vars |-> vars]
Started == Matched(0, <<>>)

Inserted(vars, name, text) ==
  [x \in DOMAIN vars \cup {name} |-> IF x = name THEN text ELSE vars[x]]

\* A literal has to follow.
MatchLit(m, text, rest) ==
  IF IsPrefix(text, rest) THEN Matched(m.pos + Len(text), m.vars) ELSE Failed

\* The variable takes the next n characters, at least one; a later value of a
\* name replaces the earlier one.
MatchVar(m, name, rest, n) ==
  IF n = 0 THEN Failed
  ELSE Matched(m.pos + n, Inserted(m.vars, name, SubSeq(rest, 1, n)))

\* Fault: a variable reaches to the last separator.
VarEndLast(parts, i, rest) ==
  IF i + 1 \in Literals(parts)
    THEN LET ends == Offsets(parts[i + 1].text, rest)
         IN  {n \in ends : \A k \in ends : k <= n}
    ELSE {Len(rest)}

\* Where a variable may end: where the literal after it begins, or at the end.
VarEnd(parts, i, rest) ==
  IF i + 1 \in Literals(parts) THEN Offsets(parts[i + 1].text, rest) ELSE {Len(rest)}

\* One part, after m has matched those before it.
BindPart(parts, url, m, i) ==
  LET rest == SubSeq(url, m.pos + 1, Len(url))
      ends == VarEnd(parts, i, rest)
  IN  IF ~m.ok THEN m
      ELSE IF i \in Literals(parts) THEN MatchLit(m, parts[i].text, rest)
      ELSE IF ends = {} THEN Failed
      ELSE MatchVar(m, parts[i].name, rest, CHOOSE n \in ends : \A k \in ends : n <= k)

\* UrlTemplate::bind, part by part.
Bind(parts, url) ==
  LET match[i \in 0..Len(parts)] ==
        IF i = 0 THEN Started ELSE BindPart(parts, url, match[i - 1], i)
  IN  match[Len(parts)]

\* enumerate_template: a leading www. of the URL is not looked at.
Stripped(url) == IF url # <<>> /\ Head(url) = Www THEN Tail(url) ELSE url

----------------------------------------------------------------------------
(* What binding is for: the values that turn the template into the URL. *)

Render(parts, vals) ==
  FlattenSeq([i \in DOMAIN parts |-> IF i \in Literals(parts) THEN parts[i].text
                                     ELSE vals[parts[i].name]])

Names(parts) == {parts[i].name : i \in Variables(parts)}

\* Every name marks one place, and no two variables touch.
Readable(parts) ==
  /\ Cardinality(Names(parts)) = Cardinality(Variables(parts))
  /\ \A i \in Variables(parts) : i + 1 \notin Variables(parts)

Pieces(url) == {SubSeq(url, p[1], p[2]) : p \in {q \in (1..Len(url)) \X (1..Len(url)) : q[1] <= q[2]}}

\* The values whose rendering is the URL and that end where their separator
\* first begins.
Readings(parts, url) ==
  {vals \in [Names(parts) -> Pieces(url)] :
     /\ Render(parts, vals) = url
     /\ \A i \in Variables(parts) : i + 1 \in Literals(parts) =>
          LET val == vals[parts[i].name]
          IN  Offsets(parts[i + 1].text, val \o parts[i + 1].text) = {Len(val)}}
=============================================================================
