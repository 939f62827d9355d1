----------------------------- MODULE CachedGet -----------------------------
(***************************************************************************)
(* The two cached requests of the client: HttpTransport::get_text, keyed   *)
(* by URL, and WarcClient::fetch_raw, keyed by content digest.  Both look  *)
(* into the cache, ask the server on a miss, and store what it sent, with  *)
(* no TTL, before anybody has parsed it.  The request is one step,         *)
(* Transport has its inside.                                               *)
(*                                                                         *)
(* The cache is FsCache, which Ccdl's builder gives to both.  Nothing      *)
(* removes an entry without a TTL; but the puts of one process to one key  *)
(* share a temporary file, so two of them that are under way at once may   *)
(* leave what neither has put, and so may a put beside the write or rename *)
(* that a dropped one has left running.  The process that comes after this *)
(* one has a temporary file of its own.                                    *)
(***************************************************************************)
EXTENDS Integers, FiniteSets

CONSTANTS
  Tasks,
  Requests,    \* URLs of get_text, captures of fetch_raw
  Keys,        \* cache keys
  KeyOf,       \* CacheKey::index(url) or CacheKey::payload(capture.digest)
  MaxVersion,  \* bound: how often the server's answers change
  MaxLeft      \* bound: dropped puts of a key that are still at work

ASSUME KeyAssumption == KeyOf \in [Requests -> Keys]
ASSUME VersionAssumption == MaxVersion \in Nat \ {0}
ASSUME LeftAssumption == MaxLeft \in Nat

VARIABLES
  origin,   \* the version of the answer the server has for each request
  cache,    \* the entry of each key, or Nothing
  tmp,      \* what the temporary file of each key may hold when it is renamed
  left,     \* how many dropped puts of each key still write or rename
  pc,       \* where each task's call stands
  req,      \* its request
  body,     \* what it has in hand: read from the cache or sent by the server
  crossed   \* observed: the keys two puts of which were under way at once

dir == <<cache, tmp, left, crossed>>
cvars == <<origin, dir, pc, req, body>>

Bodies == [of : Requests, version : 1..MaxVersion]
Nothing == [of |-> "nothing", version |-> 0]
Mixed == [of |-> "mixed", version |-> -1]   \* parts of bodies, or of one

Cached(r) == cache[KeyOf[r]]

Served(r) == [of |-> r, version |-> origin[r]]

CInit ==
  /\ origin = [r \in Requests |-> 1]
  /\ cache = [k \in Keys |-> Nothing]
  /\ tmp = [k \in Keys |-> {}]
  /\ left = [k \in Keys |-> 0]
  /\ pc = [t \in Tasks |-> "idle"]
  /\ req \in {[t \in Tasks |-> r] : r \in Requests}
  /\ body = [t \in Tasks |-> Nothing]
  /\ crossed = {}

----------------------------------------------------------------------------
\* The cache is asked first; a hit is the answer, an error of the cache the call's.
Lookup(t, r) ==
  /\ pc[t] = "idle"
  /\ req' = [req EXCEPT ![t] = r]
  /\ \/ /\ Cached(r) # Nothing
        /\ pc' = [pc EXCEPT ![t] = "answered"]
        /\ body' = [body EXCEPT ![t] = Cached(r)]
     \/ /\ Cached(r) = Nothing
        /\ pc' = [pc EXCEPT ![t] = "sending"]
        /\ UNCHANGED body
     \/ /\ pc' = [pc EXCEPT ![t] = "failed"]
        /\ UNCHANGED body
  /\ UNCHANGED <<origin, dir>>

\* Fault: the answer is handed out and the put goes on beside it.
ReceiveAnswering(t) ==
  /\ pc[t] = "sending"
  /\ body' = [body EXCEPT ![t] = Served(req[t])]
  /\ pc' = [pc EXCEPT ![t] = "answered"]
  /\ UNCHANGED <<origin, dir, req>>

\* A put of k has its temporary file open, or a dropped one has.
UnderWay(k) == left[k] > 0 \/ \E t \in Tasks : pc[t] = "storing" /\ KeyOf[req[t]] = k

\* Fault: one temporary file for all keys.
OpenTmpOfAll(k, b) ==
  /\ tmp' = [tmp EXCEPT ![k] = {b} \cup IF \E j \in Keys : UnderWay(j) THEN {Mixed} ELSE {}]
  /\ crossed' = IF UnderWay(k) THEN crossed \cup {k} ELSE crossed

\* A put of b writes its temporary file: over what others write to it, if any do.
OpenTmp(k, b) ==
  IF UnderWay(k)
    THEN /\ tmp' = [tmp EXCEPT ![k] = tmp[k] \cup {b, Mixed}]
         /\ crossed' = crossed \cup {k}
    ELSE /\ tmp' = [tmp EXCEPT ![k] = {b}]
         /\ UNCHANGED crossed

\* send_with_retry and bytes() bring the server's answer, and it is put.
Receive(t) ==
  /\ pc[t] = "sending"
  /\ body' = [body EXCEPT ![t] = Served(req[t])]
  /\ pc' = [pc EXCEPT ![t] = "storing"]
  /\ OpenTmp(KeyOf[req[t]], Served(req[t]))
  /\ UNCHANGED <<origin, cache, left, req>>

\* The entry of k becomes what is in the temporary file.
RenameTmp(k) == \E b \in tmp[k] : cache' = [cache EXCEPT ![k] = b]

\* The file is renamed to the entry.
Rename(t) ==
  /\ pc[t] = "storing"
  /\ RenameTmp(KeyOf[req[t]])
  /\ pc' = [pc EXCEPT ![t] = "renamed"]
  /\ UNCHANGED <<origin, tmp, left, crossed, req, body>>

\* The sidecar is written too; only now does the caller get its answer.
Store(t) ==
  /\ pc[t] = "renamed"
  /\ pc' = [pc EXCEPT ![t] = "answered"]
  /\ UNCHANGED <<origin, dir, req, body>>

\* The file that one put has renamed is still written by another that had it open.
Overwrite(k) ==
  /\ Mixed \in tmp[k] /\ UnderWay(k)
  /\ cache[k] # Nothing
  /\ RenameTmp(k)
  /\ UNCHANGED <<origin, tmp, left, crossed, pc, req, body>>

\* The request fails, or put does although the body is in hand: because another
\* has renamed its file, or for its sidecar when the entry is there already.
CallFails(t) ==
  /\ pc[t] \in {"sending", "storing", "renamed"}
  /\ pc' = [pc EXCEPT ![t] = "failed"]
  /\ body' = [body EXCEPT ![t] = Nothing]
  /\ UNCHANGED <<origin, dir, req>>

\* The caller has taken the result.
Done(t) ==
  /\ pc[t] \in {"answered", "failed"}
  /\ pc' = [pc EXCEPT ![t] = "idle"]
  /\ body' = [body EXCEPT ![t] = Nothing]
  /\ UNCHANGED <<origin, dir, req>>

\* The caller drops its call.  What a put has handed to the blocking threads, a
\* write or a rename, goes on.
Drop(t) ==
  /\ pc[t] # "idle"
  /\ pc' = [pc EXCEPT ![t] = "idle"]
  /\ body' = [body EXCEPT ![t] = Nothing]
  /\ LET k == KeyOf[req[t]]
     IN  IF pc[t] = "storing"
           THEN left[k] < MaxLeft /\ left' = [left EXCEPT ![k] = left[k] + 1]
           ELSE UNCHANGED left
  /\ UNCHANGED <<origin, cache, tmp, crossed, req>>

\* It ends: after a write nothing follows.
LeftoverEnds(k) ==
  /\ left[k] > 0
  /\ left' = [left EXCEPT ![k] = left[k] - 1]
  /\ UNCHANGED cache \/ RenameTmp(k)
  /\ UNCHANGED <<origin, tmp, crossed, pc, req, body>>

\* The process ends, its requests with it; the cache directory stays.
Restart ==
  /\ pc' = [t \in Tasks |-> "idle"]
  /\ body' = [t \in Tasks |-> Nothing]
  /\ left' = [k \in Keys |-> 0]
  /\ UNCHANGED <<origin, cache, tmp, crossed, req>>

\* The server has a new answer.
Publish(r) ==
  /\ origin[r] < MaxVersion
  /\ origin' = [origin EXCEPT ![r] = @ + 1]
  /\ UNCHANGED <<dir, pc, req, body>>

\* What nobody calls.
Background == \E k \in Keys : Overwrite(k) \/ LeftoverEnds(k)

CNext ==
  \/ \E t \in Tasks : \/ \E r \in Requests : Lookup(t, r)
                      \/ Receive(t) \/ Rename(t) \/ Store(t)
                      \/ CallFails(t) \/ Done(t) \/ Drop(t)
  \/ Background
  \/ Restart
  \/ \E r \in Requests : Publish(r)

CSpec == CInit /\ [][CNext]_cvars

----------------------------------------------------------------------------
\* An answer is one the server has given, under the key asked for and not newer
\* than what it has: to this URL, or to a capture of the same digest ("identical
\* digests are served from cache", README).  Only under a key two puts of which
\* have crossed in one process can it be what nobody has put.
AnswersTheRequest ==
  \A t \in Tasks : pc[t] = "answered" =>
    \/ /\ body[t].of \in Requests /\ KeyOf[body[t].of] = KeyOf[req[t]]
       /\ body[t].version <= origin[body[t].of]
    \/ body[t] = Mixed /\ KeyOf[req[t]] \in crossed

\* What a caller was told is in the cache, so it finds the key there again
\* after a restart (http.rs and fetch.rs: put is awaited and its error is
\* the call's).
AnsweredIsCached ==
  \A t \in Tasks : pc[t] = "answered" => Cached(req[t]) # Nothing
=============================================================================
