---------------------------- MODULE LayeredCache ----------------------------
(***************************************************************************)
(* LayeredCache: a fast tier in front of FsCache, one entry of each.  The  *)
(* fast tier is a MemoryCache, which forgets at will and knows no TTL; one *)
(* that forgets at once is a NoopCache.  Calls do not overlap, what dropped *)
(* ones have left behind included.                                         *)
(***************************************************************************)
EXTENDS FsCacheExpiry

VARIABLES
  fast,      \* the body in the fast tier, <<>> for none
  filling,   \* a get has turned to the slow tier and not come back
  answer,    \* what the last get of each worker returned, <<>> for a miss
  settled,   \* observed: the body of the last put that succeeded
  since      \* and those of the puts begun after it

tiers == <<fast, filling, answer>>
observed == <<settled, since>>
lvars == <<evars, tiers, observed>>

Between(w) == pc[w] = "idle" /\ ~filling[w]

LInit ==
  /\ EInit
  /\ fast = <<>>
  /\ filling = [w \in Workers |-> FALSE]
  /\ answer = [w \in Workers |-> <<>>]
  /\ settled = <<>> /\ since = {}

----------------------------------------------------------------------------
\* get finds the body in the fast tier, whatever its age.
GetFast(w) ==
  /\ Between(w) /\ fast # <<>>
  /\ answer' = [answer EXCEPT ![w] = fast]
  /\ UNCHANGED <<evars, fast, filling, observed>>

\* It does not, and asks the slow tier.
GetSlow(w) ==
  /\ Between(w) /\ fast = <<>>
  /\ EGetOpen(w)
  /\ filling' = [filling EXCEPT ![w] = TRUE]
  /\ answer' = [answer EXCEPT ![w] = <<>>]
  /\ UNCHANGED <<fast, observed>>

\* The slow tier has answered: a hit is put into the fast tier, without a TTL.
Backfill(w) ==
  /\ filling[w] /\ pc[w] = "idle"
  /\ fast' = IF outcome[w].hit THEN outcome[w].bytes ELSE fast
  /\ answer' = [answer EXCEPT ![w] = outcome[w].bytes]
  /\ filling' = [filling EXCEPT ![w] = FALSE]
  /\ UNCHANGED <<evars, observed>>

\* Fault: a put goes to the slow tier alone.
PutAround(w) ==
  /\ Between(w)
  /\ \E v \in Values, ttl \in Ttls :
       PutOpen(w, v, ttl) /\ since' = since \cup {Body(v)}
  /\ answer' = [answer EXCEPT ![w] = <<>>]
  /\ UNCHANGED <<history, fast, filling, settled>>

\* put: the fast tier first, then the slow one.
PutFast(w) ==
  /\ Between(w)
  /\ \E v \in Values, ttl \in Ttls :
       PutOpen(w, v, ttl) /\ fast' = Body(v) /\ since' = since \cup {Body(v)}
  /\ answer' = [answer EXCEPT ![w] = <<>>]
  /\ UNCHANGED <<history, filling, settled>>

\* The slow tier has the body too.
PutEnds(w) ==
  /\ EPutMetaWrite(w)
  /\ settled' = Body(arg[w].v)
  /\ since' = {}
  /\ UNCHANGED tiers

\* The slow tier cannot write the body: put fails, what the fast tier has stays.
PutFails(w) ==
  /\ pc[w] = "write"
  /\ Return(w)
  /\ UNCHANGED <<files, now, outcome, history, tiers, observed>>

\* The slow tier at work: the rest of its get and put; gc, after that of the
\* fast tier, which removes nothing.
SlowWorks(w) ==
  /\ \/ EGetRead(w) \/ EPutRename(w) \/ EPutMetaOpen(w)
     \/ /\ \/ GetCheckTtl(w) \/ PutWrite(w) \/ RemoveData(w) \/ RemoveMeta(w)
           \/ Between(w) /\ GcRead(w)
        /\ UNCHANGED history
  /\ UNCHANGED <<tiers, observed>>

\* The fast tier is full, or the process is a new one.
Evict ==
  /\ fast # <<>>
  /\ fast' = <<>>
  /\ UNCHANGED <<evars, filling, answer, observed>>

\* The future of a call is dropped, in the slow tier or before the hit of that
\* one has been copied into the fast one.
LDrop(w) ==
  /\ \/ Cancel(w)
     \/ pc[w] = "idle" /\ filling[w] /\ UNCHANGED vars
  /\ filling' = [filling EXCEPT ![w] = FALSE]
  /\ answer' = [answer EXCEPT ![w] = <<>>]
  /\ UNCHANGED <<history, fast, observed>>

\* The process is killed in the middle of a call, and its fast tier is gone.
LKill ==
  /\ \E p \in Pids : Crash(p)
  /\ fast' = <<>>
  /\ filling' = [w \in Workers |-> FALSE]
  /\ answer' = [w \in Workers |-> <<>>]
  /\ UNCHANGED <<history, observed>>

LNext ==
  \/ \E w \in Workers :
       \/ GetFast(w) \/ GetSlow(w) \/ Backfill(w)
       \/ PutFast(w) \/ PutEnds(w) \/ PutFails(w) \/ SlowWorks(w)
       \/ LDrop(w)
  \/ LKill \/ Evict
  \/ Tick /\ UNCHANGED <<history, tiers, observed>>

LSpec == LInit /\ [][LNext]_lvars

----------------------------------------------------------------------------
\* "Writes go to both tiers" (layered.rs), and where they do not, because the
\* second failed, no get goes back behind the last put that succeeded: it
\* returns that body or one of a later put, whichever tier answers, whatever the
\* fast one has forgotten meanwhile, and whatever call was dropped or killed in
\* the middle.  (Of a TTL the fast tier knows nothing.)
LayeredReads ==
  \A w \in Workers : answer[w] # <<>> => answer[w] \in {settled} \cup since
=============================================================================
