---------------------------- MODULE MCSelection ----------------------------
\* Small instances of Selection: two URLs over two crawls of two instants
\* each, crawl 1 being the newer one, and two contents.
EXTENDS Selection, FiniteSetsExt

TwoUrls == {[crawl |-> IF t > 2 THEN 1 ELSE 2, url |-> u, time |-> t, digest |-> d] :
              u \in 1..2, t \in 1..4, d \in {"x", "y"}}

\* URLs of two characters: all that begin with x/, up to six long, and others.
X == "x"
slash == "/"
www == "www."
AllChars == {X, slash, www}

Strings(n) == UNION {[1..k -> {X, slash}] : k \in 0..n}
ListedTexts ==
  FoldSet(LAMBDA text, texts : Append(texts, text), <<>>,
          {<<X, slash>> \o s : s \in Strings(4)}
             \cup {<<www, X, slash>> \o s : s \in Strings(2)}
             \cup {<<X>>, <<slash, X>>, <<X, X, slash>>})
EachText == {[crawl |-> 1, url |-> u, time |-> 1, digest |-> "x"] : u \in DOMAIN ListedTexts}

\* Two holes, a longer separator, a literal at the end, a hole alone, holes that
\* touch, a name that comes twice.
Templates == {
  <<Lit(<<X, slash>>), Var("p"), Lit(<<slash>>), Var("q")>>,
  <<Lit(<<X, slash>>), Var("p"), Lit(<<slash, slash>>), Var("q")>>,
  <<Lit(<<X, slash>>), Var("p"), Lit(<<slash, X>>)>>,
  <<Var("p"), Lit(<<slash>>)>>,
  <<Lit(<<X>>), Var("p")>>,
  <<Lit(<<X, slash>>)>>,
  <<Lit(<<X, slash>>), Var("p"), Var("q")>>,
  <<Lit(<<X, slash>>), Var("p"), Lit(<<slash>>), Var("p")>> }

Policy(op) == [op |-> op, max |-> 0]
Adaptive(m) == [op |-> "adaptive", max |-> m]
AllJobs == {Policy(op) : op \in Choosers \cup Samplers \cup {"fetch"}}
             \cup {Adaptive(m) : m \in 1..3}
             \cup {[op |-> "template", parts |-> p] : p \in Templates}

\* fetch_url on the captures of one URL.
FetchJobs == {Policy("fetch")}
OneUrl == {c \in TwoUrls : c.url = 1}
=============================================================================
