--------------------------- MODULE CommandsProofs ---------------------------
(***************************************************************************)
(* The properties of CachedGet, for all requests, keys, tasks and answers. *)
(* Commands is made of CachedGet's steps, so they hold of it; and with     *)
(* them that of the registry and those of ccdl fetch @list and of the      *)
(* seeds, for all lists, documents and interruptions.                      *)
(***************************************************************************)
EXTENDS Commands, ListFacts

----------------------------------------------------------------------------
(* CachedGet. *)

CTypeOK ==
  /\ origin \in [Requests -> 1..MaxVersion]
  /\ cache \in [Keys -> Bodies \cup {Nothing, Mixed}]
  /\ tmp \in [Keys -> SUBSET (Bodies \cup {Mixed})]
  /\ left \in [Keys -> Nat]
  /\ pc \in [Tasks -> {"idle", "sending", "storing", "renamed", "answered", "failed"}]
  /\ req \in [Tasks -> Requests]
  /\ body \in [Tasks -> Bodies \cup {Nothing, Mixed}]
  /\ crossed \subseteq Keys

\* b is an answer the server has given to a request with key k.
GivenFor(b, k) ==
  /\ b \in Bodies
  /\ KeyOf[b.of] = k
  /\ b.version <= origin[b.of]

\* Or it is made of parts, of puts of k that have crossed.
AllowedFor(b, k) == GivenFor(b, k) \/ (b = Mixed /\ k \in crossed)

\* That holds of the entry of a key, and of what may be renamed to it.
EntriesAllowed == \A k \in Keys : cache[k] # Nothing => AllowedFor(cache[k], k)

TmpAllowed == \A k \in Keys : \A b \in tmp[k] : AllowedFor(b, k)

\* And so of what a task has in hand.
InHandAllowed ==
  \A t \in Tasks : pc[t] \in {"storing", "renamed", "answered"} => AllowedFor(body[t], KeyOf[req[t]])

\* A task without a call has nothing in hand.
IdleHoldsNothing == \A t \in Tasks : pc[t] = "idle" => body[t] = Nothing

\* The entry is there when the rename is done.
RenamedIsCached == \A t \in Tasks : pc[t] \in {"renamed", "answered"} => Cached(req[t]) # Nothing

\* AnswersTheRequest says nothing of the cache the answers come from, nor of the
\* temporary files the cache is made of.
CInv == CTypeOK /\ EntriesAllowed /\ TmpAllowed /\ InHandAllowed /\ IdleHoldsNothing /\ RenamedIsCached

----------------------------------------------------------------------------
\* Bodies, parts of them and the absence of one are told apart.
LEMMA ThreeKinds == Nothing \notin Bodies /\ Mixed \notin Bodies /\ Nothing # Mixed
  BY VersionAssumption DEF Nothing, Mixed, Bodies

\* What may be an entry is one.
LEMMA AllowedIsThere ==
  ASSUME NEW b, NEW k, AllowedFor(b, k)
  PROVE  b \in Bodies \cup {Mixed} /\ b # Nothing
  BY ThreeKinds DEF AllowedFor, GivenFor

\* What the server sends is given for the key of the request.
LEMMA ServedIsGiven ==
  ASSUME CTypeOK, NEW r \in Requests
  PROVE  GivenFor(Served(r), KeyOf[r]) /\ Served(r) \in Bodies
  BY VersionAssumption DEF CTypeOK, GivenFor, Served, Bodies

\* Answers of the server are given for good: its versions only grow, and keys
\* that have crossed stay so.
LEMMA AllowedStays ==
  ASSUME CTypeOK, crossed \subseteq crossed',
         UNCHANGED origin \/ \E r \in Requests : Publish(r),
         NEW b, NEW k, AllowedFor(b, k)
  PROVE  AllowedFor(b, k)'
  <1>1. CASE b = Mixed /\ k \in crossed
    BY <1>1 DEF AllowedFor
  <1>2. CASE GivenFor(b, k)
    <2>1. CASE UNCHANGED origin
      BY <1>2, <2>1 DEF AllowedFor, GivenFor
    <2>2. CASE \E r \in Requests : Publish(r)
      BY <1>2, <2>2, VersionAssumption DEF CTypeOK, AllowedFor, GivenFor, Publish, Bodies
    <2> QED BY <2>1, <2>2
  <1> QED BY <1>1, <1>2 DEF AllowedFor

\* At the start nothing is cached and nobody has a call.
LEMMA CInitInv == CInit => CInv
  <1> SUFFICES ASSUME CInit PROVE CInv
    OBVIOUS
  <1>1. CTypeOK
    BY VersionAssumption DEF CInit, CTypeOK
  <1>2. EntriesAllowed /\ TmpAllowed /\ InHandAllowed /\ IdleHoldsNothing /\ RenamedIsCached
    BY DEF CInit, EntriesAllowed, TmpAllowed, InHandAllowed, IdleHoldsNothing, RenamedIsCached
  <1> QED BY <1>1, <1>2 DEF CInv

\* A look-up: what is in the cache is allowed for its key, and so for the caller.
LEMMA LookupInv ==
  ASSUME CInv, NEW t \in Tasks, NEW r \in Requests, Lookup(t, r)
  PROVE  CInv'
  <1> USE DEF CInv
  <1>0. /\ KeyOf[r] \in Keys
        /\ UNCHANGED <<origin, cache, tmp, left, crossed>>
        /\ \A b, k : AllowedFor(b, k)' <=> AllowedFor(b, k)
    BY KeyAssumption DEF Lookup, dir, AllowedFor, GivenFor
  <1>1. CTypeOK'
    BY <1>0 DEF CTypeOK, Lookup, Cached
  <1>2. EntriesAllowed' /\ TmpAllowed'
    BY <1>0 DEF EntriesAllowed, TmpAllowed
  <1>3. Cached(r) # Nothing => AllowedFor(Cached(r), KeyOf[r])
    BY <1>0 DEF EntriesAllowed, Cached
  <1>4. ASSUME NEW u \in Tasks, pc'[u] \in {"storing", "renamed", "answered"}
        PROVE  AllowedFor(body'[u], KeyOf[req'[u]])
    <2>1. CASE u = t
      BY <1>3, <1>4, <2>1 DEF Lookup, CTypeOK
    <2>2. CASE u # t
      BY <1>4, <2>2 DEF Lookup, CTypeOK, InHandAllowed
    <2> QED BY <2>1, <2>2
  <1>5. InHandAllowed'
    BY <1>0, <1>4 DEF InHandAllowed
  <1>6. RenamedIsCached'
    BY <1>0 DEF RenamedIsCached, Lookup, Cached, CTypeOK
  <1>7. IdleHoldsNothing'
    BY DEF IdleHoldsNothing, CTypeOK, Lookup
  <1> QED BY <1>1, <1>2, <1>5, <1>6, <1>7

\* A temporary file is opened for what the server has sent: it holds that, or
\* parts too, and then the key has crossed.
LEMMA ReceiveInv ==
  ASSUME CInv, NEW t \in Tasks, Receive(t)
  PROVE  CInv'
  <1> USE DEF CInv
  <1> DEFINE key == KeyOf[req[t]]
             sent == Served(req[t])
  <1>0. /\ GivenFor(sent, key) /\ sent \in Bodies /\ key \in Keys /\ req[t] \in Requests
        /\ UNCHANGED <<origin, cache, left, req>>
    BY ServedIsGiven, KeyAssumption DEF CTypeOK, Receive
  <1>1. /\ body' = [body EXCEPT ![t] = sent] /\ pc[t] = "sending"
        /\ pc' = [pc EXCEPT ![t] = "storing"] /\ OpenTmp(key, sent)
    BY DEF Receive
  <1> HIDE DEF key, sent
  <1>2. /\ crossed \subseteq crossed' /\ crossed' \subseteq Keys
        /\ \/ tmp' = [tmp EXCEPT ![key] = tmp[key] \cup {sent, Mixed}] /\ key \in crossed'
           \/ tmp' = [tmp EXCEPT ![key] = {sent}]
    BY <1>0, <1>1 DEF OpenTmp, CTypeOK
  <1>3. \A b, k : AllowedFor(b, k) => AllowedFor(b, k)'
    BY <1>0, <1>2, AllowedStays
  <1>4. /\ \A b : b = sent => AllowedFor(b, key)
        /\ \A b, k : (b = sent \/ (b = Mixed /\ key \in crossed')) /\ k = key => AllowedFor(b, k)'
    <2>1. \A b : b = sent => AllowedFor(b, key)
      BY <1>0 DEF AllowedFor
    <2>2. \A b, k : b = sent /\ k = key => AllowedFor(b, k)'
      BY <1>3, <2>1
    <2>3. \A b, k : b = Mixed /\ key \in crossed' /\ k = key => AllowedFor(b, k)'
      BY DEF AllowedFor
    <2> QED BY <2>1, <2>2, <2>3
  <1>5. CTypeOK'
    BY <1>0, <1>1, <1>2 DEF CTypeOK
  <1>6. EntriesAllowed'
    BY <1>0, <1>3 DEF EntriesAllowed
  <1>7. ASSUME NEW k \in Keys, NEW b \in tmp'[k] PROVE AllowedFor(b, k)'
    <2>1. CASE b \in tmp[k]
      BY <1>3, <2>1 DEF TmpAllowed
    <2>2. CASE b \notin tmp[k]
      <3>1. k = key /\ (b = sent \/ (b = Mixed /\ key \in crossed'))
        BY <1>0, <1>2, <1>7, <2>2 DEF CTypeOK
      <3> QED BY <1>4, <3>1
    <2> QED BY <2>1, <2>2
  <1>8. TmpAllowed'
    BY <1>7 DEF TmpAllowed
  <1>9. ASSUME NEW u \in Tasks, pc'[u] \in {"storing", "renamed", "answered"}
        PROVE  AllowedFor(body[u], KeyOf[req[u]])'
    <2>1. CASE u = t
      BY <1>0, <1>1, <1>4, <2>1 DEF CTypeOK, key
    <2>2. CASE u # t
      <3>1. /\ body'[u] = body[u] /\ req'[u] = req[u]
            /\ AllowedFor(body[u], KeyOf[req[u]])
        BY <1>0, <1>1, <1>9, <2>2 DEF CTypeOK, InHandAllowed
      <3>2. \A c, j : c = body[u] /\ j = KeyOf[req[u]] => AllowedFor(c, j)'
        BY <1>3, <3>1
      <3> QED BY <3>1, <3>2 DEF AllowedFor, GivenFor
    <2> QED BY <2>1, <2>2
  <1>10. InHandAllowed'
    BY <1>9 DEF InHandAllowed
  <1>11. RenamedIsCached' /\ IdleHoldsNothing'
    BY <1>0, <1>1 DEF RenamedIsCached, IdleHoldsNothing, Cached, CTypeOK
  <1> QED BY <1>5, <1>6, <1>8, <1>10, <1>11

\* A rename, of whatever put: the entry is what the temporary file may hold.
LEMMA EntryInv ==
  ASSUME CInv, NEW k \in Keys,
         UNCHANGED cache \/ RenameTmp(k), UNCHANGED <<origin, tmp, crossed, req, body>>,
         left' \in [Keys -> Nat],
         \/ UNCHANGED pc
         \/ \E t \in Tasks : /\ pc[t] = "storing" /\ KeyOf[req[t]] = k /\ RenameTmp(k)
                            /\ pc' = [pc EXCEPT ![t] = "renamed"]
  PROVE  CInv'
  <1> USE DEF CInv
  <1>0. \A b, j : AllowedFor(b, j)' <=> AllowedFor(b, j)
    BY DEF AllowedFor, GivenFor
  <1>1. \A j \in Keys : cache'[j] = cache[j] \/ (j = k /\ cache'[j] \in tmp[j])
    BY DEF CTypeOK, RenameTmp
  <1>2. \A j \in Keys : cache'[j] # Nothing => AllowedFor(cache'[j], j)
    BY <1>1 DEF EntriesAllowed, TmpAllowed
  <1>3. \A j \in Keys : cache[j] # Nothing => cache'[j] # Nothing
    <2>1. \A b \in tmp[k] : b # Nothing
      BY AllowedIsThere DEF TmpAllowed
    <2> QED BY <1>1, <2>1
  <1>4. RenameTmp(k) => cache'[k] # Nothing
    <2>1. \A b \in tmp[k] : b # Nothing
      BY AllowedIsThere DEF TmpAllowed
    <2> QED BY <2>1 DEF RenameTmp, CTypeOK
  <1>5. CTypeOK'
    BY DEF CTypeOK, RenameTmp
  <1>6. EntriesAllowed' /\ TmpAllowed'
    BY <1>0, <1>2 DEF EntriesAllowed, TmpAllowed
  <1>7. InHandAllowed' /\ IdleHoldsNothing'
    BY <1>0 DEF InHandAllowed, IdleHoldsNothing, CTypeOK
  <1>8. \A t \in Tasks : KeyOf[req[t]] \in Keys
    BY KeyAssumption DEF CTypeOK
  <1>9. RenamedIsCached'
    BY <1>3, <1>4, <1>8 DEF RenamedIsCached, Cached, CTypeOK
  <1> QED BY <1>5, <1>6, <1>7, <1>9

\* The steps that rename, a task's own or not.
LEMMA RenamesInv ==
  ASSUME CInv, (\E t \in Tasks : Rename(t)) \/ Background
  PROVE  CInv'
  <1>1. CASE \E t \in Tasks : Rename(t)
    <2> PICK t \in Tasks : Rename(t)
      BY <1>1
    <2>1. KeyOf[req[t]] \in Keys
      BY KeyAssumption DEF CInv, CTypeOK
    <2> QED BY <2>1, EntryInv DEF Rename, CInv, CTypeOK
  <1>2. CASE Background
    <2> PICK k \in Keys : Overwrite(k) \/ LeftoverEnds(k)
      BY <1>2 DEF Background
    <2>1. CASE Overwrite(k)
      BY <2>1, EntryInv DEF Overwrite, CInv, CTypeOK
    <2>2. CASE LeftoverEnds(k)
      <3>1. left' \in [Keys -> Nat]
        BY <2>2 DEF LeftoverEnds, CInv, CTypeOK
      <3> QED BY <2>2, <3>1, EntryInv DEF LeftoverEnds
    <2> QED BY <2>1, <2>2
  <1> QED BY <1>1, <1>2

\* A call that returns or ends, or a process, leaves the entries alone.
LEMMA EndInv ==
  ASSUME CInv, \/ \E t \in Tasks : Store(t) \/ CallFails(t) \/ Done(t) \/ Drop(t)
               \/ Restart
  PROVE  CInv'
  <1> USE DEF CInv, Store, CallFails, Done, Drop, Restart, dir
  <1>0. /\ UNCHANGED <<origin, cache, tmp, crossed, req>> /\ left' \in [Keys -> Nat]
        /\ \A b, k : AllowedFor(b, k)' <=> AllowedFor(b, k)
    <2>1. UNCHANGED <<origin, cache, tmp, crossed, req>>
      OBVIOUS
    <2>2. left' \in [Keys -> Nat]
      BY KeyAssumption DEF CTypeOK
    <2> QED BY <2>1, <2>2 DEF AllowedFor, GivenFor
  <1>1. CTypeOK'
    BY <1>0 DEF CTypeOK
  <1>2. EntriesAllowed' /\ TmpAllowed'
    BY <1>0 DEF EntriesAllowed, TmpAllowed
  <1>3. InHandAllowed'
    BY <1>0 DEF InHandAllowed, CTypeOK
  <1>4. RenamedIsCached'
    BY <1>0 DEF RenamedIsCached, Cached, CTypeOK
  <1>5. IdleHoldsNothing'
    BY DEF IdleHoldsNothing, CTypeOK
  <1> QED BY <1>1, <1>2, <1>3, <1>4, <1>5

\* A newer document on the server: what was given stays given.
LEMMA PublishInv ==
  ASSUME CInv, NEW r \in Requests, Publish(r)
  PROVE  CInv'
  <1> USE DEF CInv
  <1>0. UNCHANGED <<cache, tmp, left, crossed, pc, req, body>>
    BY DEF Publish, dir
  <1>1. \A b, k : AllowedFor(b, k) => AllowedFor(b, k)'
    BY <1>0, AllowedStays
  <1>2. CTypeOK'
    BY <1>0, VersionAssumption DEF CTypeOK, Publish
  <1>3. EntriesAllowed' /\ TmpAllowed' /\ InHandAllowed'
    BY <1>0, <1>1 DEF EntriesAllowed, TmpAllowed, InHandAllowed
  <1>4. RenamedIsCached' /\ IdleHoldsNothing'
    BY <1>0 DEF RenamedIsCached, Cached, IdleHoldsNothing
  <1> QED BY <1>2, <1>3, <1>4

\* Each step of the cached requests preserves the invariant.
LEMMA CNextInv == CInv /\ [CNext]_cvars => CInv'
  <1> SUFFICES ASSUME CInv, [CNext]_cvars PROVE CInv'
    OBVIOUS
  <1>1. CASE \E t \in Tasks, r \in Requests : Lookup(t, r)
    BY <1>1, LookupInv
  <1>2. CASE \E t \in Tasks : Receive(t)
    BY <1>2, ReceiveInv
  <1>3. CASE (\E t \in Tasks : Rename(t)) \/ Background
    BY <1>3, RenamesInv
  <1>4. CASE (\E t \in Tasks : Store(t) \/ CallFails(t) \/ Done(t) \/ Drop(t)) \/ Restart
    BY <1>4, EndInv
  <1>5. CASE \E r \in Requests : Publish(r)
    BY <1>5, PublishInv
  <1>6. CASE UNCHANGED cvars
    BY <1>6 DEF cvars, dir, CInv, CTypeOK, EntriesAllowed, TmpAllowed, InHandAllowed, AllowedFor,
                GivenFor, IdleHoldsNothing, RenamedIsCached, Cached
  <1> QED BY <1>1, <1>2, <1>3, <1>4, <1>5, <1>6 DEF CNext

\* Every entry, every body a task has in hand and all a temporary file may hold
\* was given by the server for its key, or is parts, of puts that have crossed:
\* get_text and fetch_raw never mix keys up.
THEOREM CachedGetInvariant == CSpec => []CInv
  <1>1. CInv /\ [CNext]_cvars => CInv'
    BY CNextInv
  <1> QED BY CInitInv, <1>1, PTL DEF CSpec

\* get_text and fetch_raw return what the server gave under the key asked for,
\* unless two puts of that key have crossed.
THEOREM AnswersAreTheRequests == CSpec => []AnswersTheRequest
  <1>1. CInv => AnswersTheRequest
    BY DEF CInv, InHandAllowed, AllowedFor, GivenFor, AnswersTheRequest, Bodies
  <1> QED BY CachedGetInvariant, <1>1, PTL

\* An answer handed to a caller is in the cache.
THEOREM AnswersAreCached == CSpec => []AnsweredIsCached
  <1>1. CInv => AnsweredIsCached
    BY DEF CInv, RenamedIsCached, AnsweredIsCached
  <1> QED BY CachedGetInvariant, <1>1, PTL

----------------------------------------------------------------------------
(* Commands. *)

Operations == {"none", "all", "refresh", "other", "fetch", "write"}

JTypeOK ==
  /\ crawls \in -1..MaxVersion
  /\ op \in [Tasks -> Operations]
  /\ listed \in [Tasks -> -1..MaxVersion]
  /\ job \in Jobs
  /\ end \in {"running", "ok", "failed"}
  /\ at \in Nat \ {0}
  /\ files \in [Keys -> Bodies \cup {Nothing, Mixed, Torn}]

\* A load asks for the list, whatever else its task has asked for.
LoadsTheList == \A t \in Tasks : op[t] \in {"all", "refresh"} => req[t] = Collinfo

\* Where the fetch of a list stands between its steps.
FetchPlace ==
  job.kind = "fetch" =>
    /\ at <= Len(job.lines) + 1
    /\ op[Main] \in {"none", "fetch", "write"}
    /\ op[Main] # "none" =>
         /\ end = "running" /\ at <= Len(job.lines)
         /\ Line # NoCapture /\ req[Main] = Line
    /\ op[Main] = "write" => pc[Main] = "answered" /\ HasPayload(body[Main])

JInv == CInv /\ JTypeOK /\ LoadsTheList /\ MemoryHoldsAList /\ FetchPlace /\ ListFetched

\* The steps of the cached requests and of the registry.
Shared(t) ==
  \/ AllFromMemory(t) \/ \E what \in {"all", "refresh"} : StartLoad(t, what)
  \/ \E r \in Requests : StartOther(t, r)
  \/ EndOther(t) \/ Dropped(t) \/ Requesting(t) \/ Loading(t)

----------------------------------------------------------------------------
(* Commands implements CachedGet. *)

\* A line of the list that is a capture is a request.
LEMMA LineIsRequest ==
  ASSUME JTypeOK, IsFetching, at <= Len(job.lines), Line # NoCapture
  PROVE  Line \in Requests
  BY JobAssumption DEF JTypeOK, IsFetching, Line

\* What the other tasks do are steps of the registry's module.
LEMMA BesideIsShared ==
  ASSUME JTypeOK, NEW t \in Tasks, Beside(t)
  PROVE  Shared(t)
  <1>1. job.beside \subseteq Requests
    BY JobAssumption DEF JTypeOK
  <1> QED BY <1>1 DEF Beside, Shared

\* A step of the registry is one of the cached requests.
LEMMA SharedIsCached ==
  ASSUME NEW t \in Tasks, Shared(t)
  PROVE  [CNext]_cvars
  <1>1. CASE AllFromMemory(t)
    BY <1>1 DEF AllFromMemory
  <1>2. CASE \E what \in {"all", "refresh"} : StartLoad(t, what)
    BY <1>2, CollinfoAssumption DEF StartLoad, CNext
  <1>3. CASE \E r \in Requests : StartOther(t, r)
    BY <1>3 DEF StartOther, CNext
  <1>4. CASE EndOther(t) \/ Dropped(t) \/ Requesting(t) \/ Loading(t)
    BY <1>4 DEF EndOther, Dropped, Requesting, Loading, StoreList, LoadFails, CNext
  <1> QED BY <1>1, <1>2, <1>3, <1>4 DEF Shared

\* So is a step of the commands, or it leaves their variables alone.
LEMMA StepIsCached == JInv /\ [ComNext]_comvars => [CNext]_cvars
  <1> SUFFICES ASSUME JInv, [ComNext]_comvars PROVE [CNext]_cvars
    OBVIOUS
  <1> USE DEF JInv
  <1>1. CASE FetchBadLine \/ WritePayload \/ FetchEnds \/ TextRead \/ TextFails \/ SeedsEnd
    BY <1>1 DEF FetchBadLine, WritePayload, FetchEnds, TextRead, TextFails, SeedsEnd, allvars
  <1>2. CASE FetchLine
    BY <1>2, LineIsRequest, MainAssumption DEF FetchLine, CNext
  <1>3. CASE FetchFails \/ PayloadWritten \/ PayloadFails
    BY <1>3, MainAssumption DEF FetchFails, PayloadWritten, PayloadFails, CNext
  <1>4. CASE ResolveForText
    BY <1>4, MainAssumption, SharedIsCached DEF ResolveForText, Shared
  <1>5. CASE CalledAgain
    BY <1>5 DEF CalledAgain, allvars
  <1>6. CASE Killed
    BY <1>6 DEF Killed, RRestart, CNext
  <1>7. CASE \E t \in Tasks : Beside(t) \/ EndOther(t) \/ Requesting(t) \/ Loading(t)
    BY <1>7, BesideIsShared, SharedIsCached DEF Shared
  <1>8. CASE \E r \in job.changing : Publish(r)
    BY <1>8, JobAssumption DEF JTypeOK, CNext
  <1>9. CASE SeedsDropped
    BY <1>9, MainAssumption, SharedIsCached DEF SeedsDropped, Shared, allvars
  <1>10. CASE Background \/ UNCHANGED comvars
    BY <1>10 DEF CNext, comvars, allvars
  <1> QED BY <1>1, <1>2, <1>3, <1>4, <1>5, <1>6, <1>7, <1>8, <1>9, <1>10 DEF ComNext

----------------------------------------------------------------------------
(* The registry. *)

\* A load has the list in hand, not a body of some other request.
LEMMA LoadGivesList ==
  ASSUME JInv, NEW t \in Tasks, op[t] \in {"all", "refresh"}, pc[t] = "answered"
  PROVE  /\ body[t].version \in -1..MaxVersion /\ body[t].version <= origin[Collinfo]
         /\ body[t].version = Mixed.version => KeyOf[Collinfo] \in crossed
         /\ Mixed.version = -1
  <1>0. /\ Mixed.version = -1 /\ origin[Collinfo] \in 1..MaxVersion
        /\ AllowedFor(body[t], KeyOf[Collinfo])
    BY CollinfoAssumption DEF Mixed, JInv, CInv, CTypeOK, InHandAllowed, LoadsTheList
  <1>1. CASE GivenFor(body[t], KeyOf[Collinfo])
    <2>1. body[t].of = Collinfo
      BY <1>1, CollinfoAssumption DEF GivenFor, Bodies
    <2> QED BY <1>0, <1>1, <2>1, VersionAssumption DEF GivenFor, Bodies
  <1>2. CASE body[t] = Mixed /\ KeyOf[Collinfo] \in crossed
    <2>1. body[t].version = -1
      BY <1>0, <1>2
    <2> QED BY <1>0, <1>2, <2>1, VersionAssumption
  <1> QED BY <1>0, <1>1, <1>2 DEF AllowedFor

\* A step of the registry keeps a list in memory.
LEMMA SharedKeepsList ==
  ASSUME JInv, NEW t \in Tasks, Shared(t)
  PROVE  /\ crawls' \in -1..MaxVersion
         /\ op' \in [Tasks -> Operations]
         /\ listed' \in [Tasks -> -1..MaxVersion]
         /\ LoadsTheList'
         /\ MemoryHoldsAList'
  <1> USE DEF JInv, JTypeOK, CInv, CTypeOK, Operations
  <1>0. Mixed.version = -1
    BY DEF Mixed
  <1>1. CASE AllFromMemory(t)
    BY <1>1, <1>0 DEF AllFromMemory, cvars, dir, LoadsTheList, MemoryHoldsAList, IsAList
  <1>2. CASE \E what \in {"all", "refresh"} : StartLoad(t, what)
    BY <1>2, CollinfoAssumption DEF StartLoad, Lookup, dir, LoadsTheList, MemoryHoldsAList, IsAList
  <1>3. CASE \E r \in Requests : StartOther(t, r)
    BY <1>3 DEF StartOther, Lookup, dir, LoadsTheList, MemoryHoldsAList, IsAList
  <1>4. CASE EndOther(t) \/ Dropped(t)
    BY <1>4 DEF EndOther, Dropped, Done, Drop, dir, LoadsTheList, MemoryHoldsAList, IsAList
  <1>5. CASE Requesting(t)
    <2>1. crossed \subseteq crossed' /\ origin' = origin /\ req' = req
      BY <1>5 DEF Requesting, Receive, OpenTmp, Rename, Store, CallFails, dir
    <2> QED BY <1>5, <2>1 DEF Requesting, rvars, LoadsTheList, MemoryHoldsAList, IsAList
  <1>6. CASE StoreList(t)
    <2>1. /\ body[t].version \in -1..MaxVersion /\ body[t].version <= origin[Collinfo]
          /\ body[t].version = Mixed.version => KeyOf[Collinfo] \in crossed
          /\ body[t].version \notin Garbled
      BY <1>6, LoadGivesList DEF StoreList
    <2> QED BY <1>6, <2>1 DEF StoreList, Done, dir, Finish, LoadsTheList, MemoryHoldsAList, IsAList
  <1>7. CASE LoadFails(t)
    BY <1>7, <1>0, CollinfoAssumption, GarbledAssumption, VersionAssumption
       DEF LoadFails, Done, dir, Finish, LoadsTheList, MemoryHoldsAList, IsAList
  <1> QED BY <1>1, <1>2, <1>3, <1>4, <1>5, <1>6, <1>7 DEF Shared, Loading

----------------------------------------------------------------------------
(* The fetch of a list. *)

\* Where a list is fetched its task does not share in the other operations, and
\* those of the other tasks do not touch its request.
LEMMA SharedKeepsFetch ==
  ASSUME JInv, NEW t \in Tasks, UNCHANGED jvars,
         \/ (t # Main \/ job.kind = "none") /\ Shared(t)
         \/ EndOther(t) \/ Requesting(t) \/ Loading(t)
  PROVE  FetchPlace' /\ ListFetched'
  <1> SUFFICES ASSUME job.kind = "fetch" PROVE FetchPlace' /\ ListFetched'
    BY DEF FetchPlace, ListFetched, jvars
  <1> USE MainAssumption DEF JInv, CInv, CTypeOK, JTypeOK, jvars, fetching
  <1>1. CASE t # Main
    <2>1. /\ op'[Main] = op[Main] /\ req'[Main] = req[Main]
          /\ pc'[Main] = pc[Main] /\ body'[Main] = body[Main]
      <3>1. CASE AllFromMemory(t)
        BY <1>1, <3>1 DEF AllFromMemory, cvars
      <3>2. CASE \E what \in {"all", "refresh"} : StartLoad(t, what)
        BY <1>1, <3>2 DEF StartLoad, Lookup
      <3>3. CASE \E r \in Requests : StartOther(t, r)
        BY <1>1, <3>3 DEF StartOther, Lookup
      <3>4. CASE EndOther(t) \/ Dropped(t) \/ Loading(t)
        BY <1>1, <3>4 DEF EndOther, Dropped, Loading, StoreList, LoadFails, Done, Drop, Finish
      <3>5. CASE Requesting(t)
        BY <1>1, <3>5 DEF Requesting, Receive, Rename, Store, CallFails, rvars
      <3> QED BY <1>1, <3>1, <3>2, <3>3, <3>4, <3>5 DEF Shared
    <2> QED BY <2>1 DEF FetchPlace, ListFetched, Line, HasPayload, FetchedKey, Whole
  <1>2. CASE t = Main
    <2>1. Requesting(Main)
      BY <1>2 DEF FetchPlace, EndOther, Loading, StoreList, LoadFails
    <2>2. op' = op /\ req' = req /\ op[Main] # "write"
      BY <2>1 DEF Requesting, rvars, Receive, Rename, Store, CallFails, FetchPlace
    <2> QED BY <2>2 DEF FetchPlace, ListFetched, Line, HasPayload, FetchedKey, Whole
  <1> QED BY <1>1, <1>2

\* A line is finished: its file is whole, and so are those of the lines before,
\* also if the one it was written over was among them.
LEMMA PayloadWrittenKeepsFetch ==
  ASSUME JInv, PayloadWritten, job.kind = "fetch"
  PROVE  FetchPlace' /\ ListFetched'
  <1> USE MainAssumption DEF JInv, CInv, CTypeOK, JTypeOK
  <1>0. job.lines \in Seq(Requests \cup {NoCapture})
    BY JobAssumption
  <1>1. /\ end = "running" /\ at <= Len(job.lines) /\ Line # NoCapture /\ req[Main] = Line
        /\ GivenFor(body[Main], FetchedKey) /\ HasPayload(body[Main])
    BY DEF PayloadWritten, FetchPlace, InHandAllowed, AllowedFor, HasPayload, FetchedKey
  <1>2. FetchedKey \in Keys
    BY KeyAssumption DEF FetchedKey
  <1>3. /\ at' = at + 1 /\ job' = job /\ end' = end /\ op'[Main] = "none"
        /\ req' = req /\ files' = [files EXCEPT ![FetchedKey] = body[Main]]
    BY DEF PayloadWritten, Done
  <1>4. Whole(FetchedKey)'
    BY <1>1, <1>2, <1>3 DEF Whole, GivenFor, HasPayload, Bodies, FetchedKey
  <1>5. ASSUME NEW k \in 1..at
        PROVE  job.lines[k] # NoCapture /\ Whole(KeyOf[job.lines[k]])'
    <2>1. CASE k = at
      BY <1>1, <1>3, <1>4, <2>1 DEF Line, FetchedKey
    <2>2. CASE k # at /\ KeyOf[job.lines[k]] = FetchedKey
      BY <1>3, <1>4, <2>2 DEF ListFetched, FetchedKey
    <2>3. CASE k # at /\ KeyOf[job.lines[k]] # FetchedKey
      <3>1. job.lines[k] # NoCapture /\ Whole(KeyOf[job.lines[k]])
        BY <2>3 DEF ListFetched
      <3>2. KeyOf[job.lines[k]] \in Keys
        BY <1>0, <1>1, <3>1, KeyAssumption
      <3>3. files'[KeyOf[job.lines[k]]] = files[KeyOf[job.lines[k]]]
        BY <1>3, <2>3, <3>2
      <3> HIDE DEF JInv, CInv, CTypeOK, JTypeOK
      <3> QED BY <1>3, <3>1, <3>3 DEF Whole, HasPayload
    <2> QED BY <2>1, <2>2, <2>3
  <1> QED BY <1>1, <1>3, <1>5, <1>0 DEF FetchPlace, ListFetched

\* The other steps of the fetch.
LEMMA FetchStepsKeepFetch ==
  ASSUME JInv,
         \/ FetchBadLine \/ FetchLine \/ FetchFails
         \/ WritePayload \/ PayloadFails \/ FetchEnds
  PROVE  FetchPlace' /\ ListFetched'
  <1> SUFFICES ASSUME job.kind = "fetch" PROVE FetchPlace' /\ ListFetched'
    BY DEF FetchPlace, ListFetched, FetchBadLine, FetchLine, FetchFails, WritePayload,
           PayloadFails, FetchEnds, jvars, fetching
  <1>0. /\ at \in Nat \ {0} /\ at <= Len(job.lines) + 1
        /\ job.lines \in Seq(Requests \cup {NoCapture})
        /\ op \in [Tasks -> Operations] /\ files \in [Keys -> Bodies \cup {Nothing, Mixed, Torn}]
        /\ FetchPlace /\ ListFetched
    BY JobAssumption DEF JInv, JTypeOK, FetchPlace
  <1>1. CASE FetchBadLine \/ FetchEnds
    <2>1. /\ UNCHANGED <<job, at, files, op, req, pc, body>>
          /\ op[Main] = "none" /\ end = "running"
          /\ end' = "failed" \/ (end' = "ok" /\ at > Len(job.lines))
      BY <1>0, <1>1 DEF FetchBadLine, FetchEnds, IsFetching, fetching, allvars, cvars, rvars, FetchPlace
    <2>2. \A k \in 1..(at - 1) : job.lines[k] # NoCapture /\ Whole(KeyOf[job.lines[k]])'
      BY <1>0, <2>1 DEF ListFetched, Whole, HasPayload
    <2> QED BY <1>0, <2>1, <2>2 DEF FetchPlace, ListFetched
  <1>2. CASE FetchLine
    <2>1. /\ UNCHANGED <<job, at, files, end>> /\ end = "running" /\ op[Main] = "none"
          /\ at <= Len(job.lines) /\ Line # NoCapture
          /\ op'[Main] = "fetch" /\ req'[Main] = Line
      BY <1>0, <1>2, MainAssumption
         DEF FetchLine, IsFetching, Lookup, jvars, fetching, JInv, CInv, CTypeOK
    <2>2. \A k \in 1..(at - 1) : job.lines[k] # NoCapture /\ Whole(KeyOf[job.lines[k]])'
      BY <1>0, <2>1 DEF ListFetched, Whole, HasPayload
    <2> QED BY <1>0, <2>1, <2>2 DEF FetchPlace, ListFetched, Line
  <1>3. CASE FetchFails \/ PayloadFails
    <2>1. /\ UNCHANGED <<job, at, files, req>> /\ end' = "failed" /\ op'[Main] = "none"
          /\ op[Main] # "none" /\ end = "running"
      BY <1>0, <1>3, MainAssumption DEF FetchFails, PayloadFails, IsFetching, Done, fetching, FetchPlace
    <2> QED BY <1>0, <2>1 DEF FetchPlace, ListFetched, Whole, HasPayload, FetchedKey
  <1>4. CASE WritePayload
    <2>1. /\ UNCHANGED <<job, at, end, req, pc, body>> /\ end = "running"
          /\ op[Main] = "fetch" /\ op'[Main] = "write"
          /\ files' = [files EXCEPT ![FetchedKey] = Torn]
          /\ pc[Main] = "answered" /\ HasPayload(body[Main])
      BY <1>0, <1>4, MainAssumption DEF WritePayload, IsFetching, cvars
    <2>2. ASSUME NEW k \in 1..(at - 1), KeyOf[job.lines[k]] # FetchedKey
          PROVE  Whole(KeyOf[job.lines[k]])'
      <3>1. job.lines[k] # NoCapture /\ Whole(KeyOf[job.lines[k]])
        BY <1>0, <2>1 DEF ListFetched
      <3>2. KeyOf[job.lines[k]] \in Keys
        BY <1>0, <3>1, KeyAssumption
      <3>3. files'[KeyOf[job.lines[k]]] = files[KeyOf[job.lines[k]]]
        BY <1>0, <2>1, <2>2, <3>2
      <3> QED BY <2>1, <3>1, <3>3 DEF Whole, HasPayload
    <2>3. ListFetched'
      BY <1>0, <2>1, <2>2 DEF ListFetched, FetchedKey
    <2>4. FetchPlace'
      BY <1>0, <2>1 DEF FetchPlace, Line, HasPayload
    <2> QED BY <2>3, <2>4
  <1> QED BY <1>1, <1>2, <1>3, <1>4

\* Whoever begins afresh has no line behind it.
LEMMA AfreshKeepsFetch ==
  ASSUME JInv, CalledAgain \/ Killed \/ SeedsDropped
  PROVE  FetchPlace' /\ ListFetched'
  <1>1. /\ at' = 1 /\ job' = job /\ end' = "running"
        /\ job.kind = "fetch" => op'[Main] = "none"
    BY MainAssumption DEF CalledAgain, Killed, SeedsDropped, IsSeeding, RRestart, Afresh, allvars,
                          rvars, JInv, FetchPlace
  <1>2. job.kind = "fetch" => job.lines \in Seq(Requests \cup {NoCapture})
    BY JobAssumption DEF JInv, JTypeOK
  <1> QED BY <1>1, <1>2 DEF FetchPlace, ListFetched

\* The seeds have nothing to do with it, nor has the server.
LEMMA OtherStepsKeepFetch ==
  ASSUME JInv,
         \/ ResolveForText \/ TextRead \/ TextFails \/ SeedsEnd
         \/ ((\E r \in Requests : Publish(r)) \/ Background) /\ UNCHANGED <<rvars, jvars>>
         \/ UNCHANGED comvars
  PROVE  FetchPlace' /\ ListFetched'
  <1>1. CASE ResolveForText \/ TextRead \/ TextFails \/ SeedsEnd
    BY <1>1 DEF ResolveForText, TextRead, TextFails, SeedsEnd, AtDocument, IsSeeding,
                FetchPlace, ListFetched
  <1>2. CASE ((\E r \in Requests : Publish(r)) \/ Background) /\ UNCHANGED <<rvars, jvars>>
    <2>1. UNCHANGED <<pc, req, body>>
      BY <1>2 DEF Publish, Background, Overwrite, LeftoverEnds
    <2> QED BY <1>2, <2>1 DEF JInv, FetchPlace, ListFetched, rvars, jvars, fetching,
                              Line, FetchedKey, Whole, HasPayload
  <1>3. CASE UNCHANGED comvars
    BY <1>3 DEF JInv, FetchPlace, ListFetched, comvars, allvars, cvars, rvars, jvars, fetching,
                Line, FetchedKey, Whole, HasPayload
  <1> QED BY <1>1, <1>2, <1>3

----------------------------------------------------------------------------
(* All of it. *)

\* At the start no job has done anything.
LEMMA JInitInv == JobsInit => JInv
  <1> SUFFICES ASSUME JobsInit PROVE JInv
    OBVIOUS
  <1>1. CInv
    BY CInitInv DEF JobsInit, RInit
  <1>2. JTypeOK
    BY VersionAssumption DEF JobsInit, RInit, JTypeOK, Operations
  <1>3. LoadsTheList /\ MemoryHoldsAList
    BY <1>1, CollinfoAssumption, GarbledAssumption, VersionAssumption
       DEF JobsInit, RInit, LoadsTheList, MemoryHoldsAList, IsAList, Mixed, CInv, CTypeOK
  <1>4. FetchPlace /\ ListFetched
    BY MainAssumption, JobAssumption DEF JobsInit, RInit, FetchPlace, ListFetched
  <1> QED BY <1>1, <1>2, <1>3, <1>4 DEF JInv

\* The steps that are not the requests' and the registry's.
LEMMA JobStepKeepsList ==
  ASSUME JInv,
         \/ FetchBadLine \/ FetchLine \/ FetchFails
         \/ WritePayload \/ PayloadWritten \/ PayloadFails \/ FetchEnds
         \/ TextRead \/ TextFails \/ SeedsEnd
         \/ CalledAgain \/ Killed
         \/ ((\E r \in Requests : Publish(r)) \/ Background) /\ UNCHANGED <<rvars, jvars>>
         \/ UNCHANGED comvars
  PROVE  JTypeOK' /\ LoadsTheList' /\ MemoryHoldsAList'
  <1> USE MainAssumption DEF JInv, JTypeOK, CInv, CTypeOK, Operations, LoadsTheList,
                             MemoryHoldsAList, IsAList
  <1>1. CASE FetchBadLine \/ FetchEnds \/ TextRead \/ TextFails \/ SeedsEnd \/ UNCHANGED comvars
    BY <1>1 DEF FetchBadLine, FetchEnds, TextRead, TextFails, SeedsEnd,
                comvars, allvars, cvars, dir, rvars, jvars, fetching
  <1>2. CASE FetchLine
    BY <1>2 DEF FetchLine, Lookup, dir, jvars, fetching
  <1>3. CASE FetchFails \/ PayloadFails
    BY <1>3 DEF FetchFails, PayloadFails, Done, dir, fetching
  <1>4. CASE WritePayload
    BY <1>4, KeyAssumption DEF WritePayload, FetchedKey, cvars, dir
  <1>5. CASE PayloadWritten
    BY <1>5, KeyAssumption DEF PayloadWritten, FetchedKey, Done, dir
  <1>6. CASE CalledAgain
    BY <1>6 DEF CalledAgain, Afresh, allvars, cvars, dir, rvars
  <1>7. CASE Killed
    BY <1>7, CollinfoAssumption, GarbledAssumption, VersionAssumption
       DEF Killed, RRestart, Restart, Afresh, Mixed
  <1>8. CASE ((\E r \in Requests : Publish(r)) \/ Background) /\ UNCHANGED <<rvars, jvars>>
    <2>1. /\ req' = req /\ crossed' = crossed
          /\ origin[Collinfo] <= origin'[Collinfo] /\ origin'[Collinfo] \in Nat
          /\ origin[Collinfo] \in Nat
      BY <1>8, CollinfoAssumption, VersionAssumption
         DEF Publish, Background, Overwrite, LeftoverEnds, dir
    <2> QED BY <1>8, <2>1, VersionAssumption DEF rvars, jvars, fetching
  <1> QED BY <1>1, <1>2, <1>3, <1>4, <1>5, <1>6, <1>7, <1>8

\* Each step of the commands preserves the invariant.
LEMMA ComNextInv == JInv /\ [ComNext]_comvars => JInv'
  <1> SUFFICES ASSUME JInv, [ComNext]_comvars PROVE JInv'
    OBVIOUS
  <1>1. CInv'
    BY StepIsCached, CNextInv DEF JInv
  <1>2. CASE \/ FetchBadLine \/ FetchLine \/ FetchFails
             \/ WritePayload \/ PayloadWritten \/ PayloadFails \/ FetchEnds
    <2>1. FetchPlace' /\ ListFetched'
      BY <1>2, FetchStepsKeepFetch, PayloadWrittenKeepsFetch
         DEF PayloadWritten, FetchPlace, ListFetched
    <2> QED BY <1>1, <1>2, <2>1, JobStepKeepsList DEF JInv
  <1>3. CASE CalledAgain \/ Killed
    BY <1>1, <1>3, AfreshKeepsFetch, JobStepKeepsList DEF JInv
  <1>8. CASE SeedsDropped
    <2>1. FetchPlace' /\ ListFetched'
      BY <1>8, AfreshKeepsFetch
    <2>2. UNCHANGED <<job, files>> /\ at' = 1 /\ end' = "running"
      BY <1>8 DEF SeedsDropped, Afresh
    <2>3. CASE Dropped(Main)
      BY <1>1, <2>1, <2>2, <2>3, MainAssumption, SharedKeepsList DEF Shared, JInv, JTypeOK
    <2>4. CASE UNCHANGED allvars
      BY <1>1, <2>1, <2>2, <2>4
         DEF JInv, JTypeOK, allvars, cvars, dir, rvars, LoadsTheList, MemoryHoldsAList, IsAList
    <2> QED BY <1>8, <2>3, <2>4 DEF SeedsDropped
  <1>4. CASE TextRead \/ TextFails \/ SeedsEnd \/ UNCHANGED comvars
    BY <1>1, <1>4, OtherStepsKeepFetch, JobStepKeepsList DEF JInv
  <1>5. CASE ResolveForText
    <2>1. Shared(Main) /\ UNCHANGED <<job, end, fetching>>
      BY <1>5 DEF ResolveForText, Shared
    <2>2. JTypeOK' /\ LoadsTheList' /\ MemoryHoldsAList'
      BY <2>1, MainAssumption, SharedKeepsList DEF JInv, JTypeOK, fetching
    <2> QED BY <1>1, <1>5, <2>2, OtherStepsKeepFetch DEF JInv
  <1>6. CASE \E t \in Tasks : /\ \/ (t # Main \/ job.kind = "none") /\ Beside(t)
                                \/ EndOther(t) \/ Requesting(t) \/ Loading(t)
                             /\ UNCHANGED jvars
    <2> PICK t \in Tasks : /\ \/ (t # Main \/ job.kind = "none") /\ Shared(t)
                              \/ EndOther(t) \/ Requesting(t) \/ Loading(t)
                           /\ UNCHANGED jvars
      BY <1>6, BesideIsShared DEF JInv
    <2>1. FetchPlace' /\ ListFetched'
      BY SharedKeepsFetch
    <2>2. JTypeOK' /\ LoadsTheList' /\ MemoryHoldsAList'
      BY SharedKeepsList DEF Shared, JInv, JTypeOK, jvars, fetching
    <2> QED BY <1>1, <2>1, <2>2 DEF JInv
  <1>7. CASE ((\E r \in job.changing : Publish(r)) \/ Background) /\ UNCHANGED <<rvars, jvars>>
    <2>1. job.changing \subseteq Requests
      BY JobAssumption DEF JInv, JTypeOK
    <2> QED BY <1>1, <1>7, <2>1, OtherStepsKeepFetch, JobStepKeepsList DEF JInv
  <1> QED BY <1>2, <1>3, <1>4, <1>5, <1>6, <1>7, <1>8 DEF ComNext

\* The invariant of the commands: what the registry and fetch @list rely on.
THEOREM CommandsInvariant == ComSpec => []JInv
  BY JInitInv, ComNextInv, PTL DEF ComSpec

\* The commands and the registry see CachedGet, so every property of get_text and
\* fetch_raw is one of theirs.
THEOREM CommandsAreCached == ComSpec => CSpec
  <1>1. JobsInit => CInit
    BY DEF JobsInit, RInit
  <1>2. JInv /\ [ComNext]_comvars => [CNext]_cvars
    BY StepIsCached
  <1> QED BY CommandsInvariant, <1>1, <1>2, PTL DEF ComSpec, CSpec

\* The crawl list in memory is one the server has sent and that parses, however
\* loads, refreshes, failures and new processes follow each other.
THEOREM RegistryHoldsAList == ComSpec => []MemoryHoldsAList
  <1>1. JInv => MemoryHoldsAList
    BY DEF JInv
  <1> QED BY CommandsInvariant, <1>1, PTL

\* ccdl fetch @list leaves a whole file for every line it has behind it.
THEOREM ListsAreFetched == ComSpec => []ListFetched
  <1>1. JInv => ListFetched
    BY DEF JInv
  <1> QED BY CommandsInvariant, <1>1, PTL

----------------------------------------------------------------------------
(* The seeds of a host. *)

Documents == [url : Nat, named : BOOLEAN]

\* The URLs robots.txt has named, of some documents.
NamedIn(s) == {s[i].url : i \in {k \in DOMAIN s : s[k].named}}

\* What the documents read so far name has been found or is on the agenda.
SeedPlace ==
  job.kind = "seeds" =>
    /\ seeds \in Seq(Nat)
    /\ agenda \in Seq(Documents)
    /\ \A i \in DOMAIN agenda : agenda[i] # Robots => agenda[i].url \in DOMAIN LocsOf
    /\ resolved => agenda # <<>>
    /\ end = "running" => WhatWasRead = Range(seeds) \cup NamedIn(agenda)

SInv == job \in Jobs /\ SeedPlace /\ SeedsAreWhatWasRead

\* What a concatenation holds, its parts hold.
LEMMA RangeConcat ==
  ASSUME NEW T, NEW s \in Seq(T), NEW t \in Seq(T)
  PROVE  s \o t \in Seq(T) /\ Range(s \o t) = Range(s) \cup Range(t)
  <1>1. /\ s \o t \in Seq(T) /\ DOMAIN (s \o t) = 1..(Len(s) + Len(t))
        /\ DOMAIN s = 1..Len(s) /\ DOMAIN t = 1..Len(t) /\ Len(s) \in Nat /\ Len(t) \in Nat
    OBVIOUS
  <1>2. /\ \A i \in 1..Len(s) : (s \o t)[i] = s[i]
        /\ \A i \in 1..Len(t) : (s \o t)[Len(s) + i] = t[i]
        /\ \A i \in 1..(Len(s) + Len(t)) : i \in 1..Len(s) \/ i - Len(s) \in 1..Len(t)
    OBVIOUS
  <1>3. ASSUME NEW i \in DOMAIN (s \o t) PROVE (s \o t)[i] \in Range(s) \cup Range(t)
    <2>1. CASE i \in 1..Len(s)
      BY <1>1, <1>2, <2>1 DEF Range
    <2>2. CASE i - Len(s) \in 1..Len(t)
      BY <1>1, <1>2, <2>2 DEF Range
    <2> QED BY <1>1, <1>2, <2>1, <2>2
  <1>4. \A i \in DOMAIN s : s[i] \in Range(s \o t)
    <2>1. \A i \in 1..Len(s) : i \in DOMAIN (s \o t)
      BY <1>1
    <2> QED BY <1>1, <1>2, <2>1 DEF Range
  <1>5. \A i \in DOMAIN t : t[i] \in Range(s \o t)
    <2>1. \A i \in 1..Len(t) : Len(s) + i \in DOMAIN (s \o t)
      BY <1>1
    <2> QED BY <1>1, <1>2, <2>1 DEF Range
  <1>6. Range(s \o t) \subseteq Range(s) \cup Range(t)
    BY <1>3 DEF Range
  <1>7. Range(s) \cup Range(t) \subseteq Range(s \o t)
    BY <1>4, <1>5 DEF Range
  <1> QED BY <1>1, <1>6, <1>7

\* Whoever is named in a sequence of documents is in its range.
LEMMA NamedInRange ==
  ASSUME NEW s
  PROVE  NamedIn(s) = {d.url : d \in {x \in Range(s) : x.named}}
  BY DEF NamedIn, Range

\* The first document taken off the agenda.
LEMMA HeadTaken ==
  ASSUME NEW T, NEW s \in Seq(T), s # <<>>
  PROVE  /\ Head(s) \in T /\ Tail(s) \in Seq(T) /\ Head(s) = s[1] /\ 1 \in DOMAIN s
         /\ Range(s) = Range(Tail(s)) \cup {Head(s)}
         /\ \A i \in DOMAIN Tail(s) : i + 1 \in DOMAIN s /\ Tail(s)[i] = s[i + 1]
  <1>1. /\ Head(s) \in T /\ Tail(s) \in Seq(T) /\ Head(s) = s[1] /\ 1 \in DOMAIN s
        /\ DOMAIN s = 1..Len(s) /\ DOMAIN Tail(s) = 1..(Len(s) - 1) /\ Len(s) \in Nat \ {0}
        /\ \A i \in 1..(Len(s) - 1) : i + 1 \in 1..Len(s) /\ Tail(s)[i] = s[i + 1]
    OBVIOUS
  <1>2. \A i \in 1..Len(s) : i = 1 \/ i - 1 \in 1..(Len(s) - 1)
    BY <1>1
  <1>3. \A i \in 1..Len(s) : i = 1 \/ (i - 1 \in DOMAIN Tail(s) /\ Tail(s)[i - 1] = s[i])
    BY <1>1, <1>2
  <1>4. Range(s) \subseteq Range(Tail(s)) \cup {Head(s)}
    <2>1. ASSUME NEW i \in 1..Len(s) PROVE s[i] \in Range(Tail(s)) \cup {Head(s)}
      <3>1. CASE i = 1
        BY <1>1, <3>1
      <3>2. CASE i # 1
        <4> DEFINE k == i - 1
        <4>1. k \in DOMAIN Tail(s) /\ Tail(s)[k] = s[i]
          BY <1>3, <3>2
        <4> HIDE DEF k
        <4> QED BY <4>1 DEF Range
      <3> QED BY <3>1, <3>2
    <2> QED BY <1>1, <2>1 DEF Range
  <1>5. Range(Tail(s)) \cup {Head(s)} \subseteq Range(s)
    BY <1>1 DEF Range
  <1> QED BY <1>1, <1>4, <1>5

\* Nothing is found or named at the beginning.
LEMMA FirstSeeds ==
  job \in Jobs /\ agenda = FirstAgenda /\ resolved = FALSE /\ seeds = <<>> /\ docs = {}
    /\ end = "running" => SInv
  <1> SUFFICES ASSUME job \in Jobs, agenda = FirstAgenda, resolved = FALSE, seeds = <<>>,
                      docs = {}, end = "running", job.kind = "seeds"
               PROVE  SeedPlace
    BY DEF SInv, SeedPlace, SeedsAreWhatWasRead
  <1>1. agenda = <<Document(RobotsTxt, FALSE), Document(SitemapXml, FALSE)>>
    BY DEF FirstAgenda, Robots
  <1>2. agenda \in Seq(Documents) /\ NamedIn(agenda) = {}
    BY <1>1 DEF Documents, Document, RobotsTxt, SitemapXml, NamedIn
  <1>3. SitemapXml \in DOMAIN LocsOf
    BY JobAssumption
  <1>4. \A i \in DOMAIN agenda : agenda[i] = Robots \/ agenda[i].url = SitemapXml
    <2>1. DOMAIN agenda = 1..2 /\ agenda[1] = Robots /\ agenda[2] = Document(SitemapXml, FALSE)
      BY DEF FirstAgenda
    <2> QED BY <2>1 DEF Document
  <1>5. WhatWasRead = {} /\ Range(seeds) = {}
    BY DEF WhatWasRead, Range
  <1> QED BY <1>2, <1>3, <1>4, <1>5 DEF SeedPlace

\* What robots.txt names is put on the agenda; what a sitemap names is found.
LEMMA TextReadSeeds ==
  ASSUME SInv, TextRead
  PROVE  SInv'
  <1> DEFINE doc == Head(agenda)
             rest == Tail(agenda)
  <1>0. /\ job \in Jobs /\ job.kind = "seeds" /\ end = "running" /\ agenda # <<>>
        /\ SeedPlace /\ job' = job /\ end' = end
        /\ docs' = docs \cup {doc} /\ resolved' = FALSE
    BY DEF SInv, TextRead, AtDocument, IsSeeding, SeedPlace
  <1>1. /\ doc \in Documents /\ rest \in Seq(Documents) /\ Range(agenda) = Range(rest) \cup {doc}
        /\ \A i \in DOMAIN rest : rest[i] # Robots => rest[i].url \in DOMAIN LocsOf
        /\ doc # Robots => doc.url \in DOMAIN LocsOf
    BY <1>0, HeadTaken DEF SeedPlace
  <1>2. WhatWasRead = Range(seeds) \cup NamedIn(agenda) /\ seeds \in Seq(Nat)
    BY <1>0 DEF SeedPlace
  <1>3. NamedIn(agenda) = NamedIn(rest) \cup (IF doc.named THEN {doc.url} ELSE {})
    <2> HIDE DEF doc, rest
    <2> QED BY <1>1, NamedInRange
  <1>4. /\ job.sitemaps \in Seq(Nat) /\ \A i \in DOMAIN job.sitemaps : job.sitemaps[i] \in DOMAIN LocsOf
    BY <1>0, JobAssumption DEF Range
  <1> HIDE DEF doc, rest
  <1>5. CASE doc = Robots
    <2>1. agenda' = Named \o rest /\ seeds' = seeds
      BY <1>5 DEF TextRead, doc, rest
    <2>2. /\ Named \in Seq(Documents) /\ DOMAIN Named = DOMAIN job.sitemaps
          /\ \A i \in DOMAIN Named : Named[i].url = job.sitemaps[i] /\ Named[i].named
      <3>1. \A url \in Nat : /\ Document(url, TRUE) \in Documents
                            /\ Document(url, TRUE).url = url /\ Document(url, TRUE).named
        BY DEF Document, Documents
      <3>2. /\ DOMAIN job.sitemaps = 1..Len(job.sitemaps) /\ Len(job.sitemaps) \in Nat
            /\ \A i \in 1..Len(job.sitemaps) : job.sitemaps[i] \in Nat
        BY <1>4
      <3>3. /\ DOMAIN Named = DOMAIN job.sitemaps
            /\ \A i \in DOMAIN Named : Named[i] = Document(job.sitemaps[i], TRUE)
        BY DEF Named
      <3>4. Named \in [1..Len(job.sitemaps) -> Documents]
        BY <3>1, <3>2 DEF Named
      <3>5. Named \in Seq(Documents)
        BY <3>2, <3>4, FunctionIsSeq
      <3> QED BY <3>1, <3>2, <3>3, <3>5
    <2>3. Named \o rest \in Seq(Documents) /\ Range(Named \o rest) = Range(Named) \cup Range(rest)
      BY <1>1, <2>2, RangeConcat
    <2>4. NamedIn(Named) = Range(job.sitemaps)
      BY <2>2 DEF NamedIn, Range
    <2>5. NamedIn(agenda') = Range(job.sitemaps) \cup NamedIn(rest)
      BY <2>1, <2>3, <2>4, NamedInRange
    <2>6. ASSUME NEW d \in Range(agenda'), d # Robots PROVE d.url \in DOMAIN LocsOf
      BY <1>1, <1>4, <2>1, <2>2, <2>3, <2>6 DEF Range
    <2>7. WhatWasRead' = WhatWasRead \cup Range(job.sitemaps)
      <3>1. docs' \ {Robots} = docs \ {Robots} /\ Robots \in docs'
        BY <1>0, <1>5 DEF doc
      <3> DEFINE In(D) == UNION {Range(LocsOf[d.url]) : d \in D}
      <3>2. WhatWasRead = In(docs \ {Robots}) \cup IF Robots \in docs THEN Range(job.sitemaps) ELSE {}
        BY DEF WhatWasRead
      <3>3. WhatWasRead' = In(docs' \ {Robots}) \cup IF Robots \in docs' THEN Range(job'.sitemaps) ELSE {}
        BY DEF WhatWasRead
      <3>4. job' = job
        BY <1>0
      <3> HIDE DEF In
      <3> QED BY <3>1, <3>2, <3>3, <3>4
    <2>8. ~doc.named
      BY <1>5 DEF Robots, Document
    <2>9. WhatWasRead' = Range(seeds') \cup NamedIn(agenda')
      BY <1>2, <1>3, <2>1, <2>5, <2>7, <2>8
    <2>10. \A i \in DOMAIN agenda' : agenda'[i] \in Range(agenda')
      BY DEF Range
    <2> QED BY <1>0, <1>2, <2>1, <2>3, <2>6, <2>9, <2>10
            DEF SInv, SeedPlace, SeedsAreWhatWasRead, NamedIn
  <1>6. CASE doc # Robots
    <2> DEFINE locs == LocsOf[doc.url]
               own == IF doc.named THEN <<doc.url>> ELSE <<>>
    <2>1. agenda' = rest /\ seeds' = seeds \o locs \o own
      BY <1>6 DEF TextRead, doc, rest
    <2>2. locs \in Seq(Nat) /\ doc.url \in Nat
      BY <1>1, <1>6, LocsAssumption DEF Documents
    <2>3. own \in Seq(Nat) /\ Range(own) = IF doc.named THEN {doc.url} ELSE {}
      BY <2>2 DEF Range
    <2> HIDE DEF locs, own
    <2>4. seeds' \in Seq(Nat) /\ Range(seeds') = Range(seeds) \cup Range(locs) \cup Range(own)
      <3> DEFINE more == seeds \o locs
      <3>1. more \in Seq(Nat) /\ Range(more) = Range(seeds) \cup Range(locs)
        BY <1>2, <2>2, RangeConcat
      <3>2. seeds' = more \o own
        BY <2>1
      <3> HIDE DEF more
      <3>3. more \o own \in Seq(Nat) /\ Range(more \o own) = Range(more) \cup Range(own)
        BY <2>3, <3>1, RangeConcat
      <3> QED BY <3>1, <3>2, <3>3
    <2>5. WhatWasRead' = WhatWasRead \cup Range(locs)
      BY <1>0, <1>6 DEF WhatWasRead, locs
    <2>6. WhatWasRead' = Range(seeds') \cup NamedIn(agenda')
      BY <1>2, <1>3, <2>1, <2>3, <2>4, <2>5
    <2> QED BY <1>0, <1>1, <2>1, <2>4, <2>6 DEF SInv, SeedPlace, SeedsAreWhatWasRead, NamedIn
  <1> QED BY <1>5, <1>6

\* A document that cannot be read is found if it was named.
LEMMA TextFailsSeeds ==
  ASSUME SInv, TextFails
  PROVE  SInv'
  <1> DEFINE doc == Head(agenda)
             rest == Tail(agenda)
  <1>0. /\ job \in Jobs /\ job.kind = "seeds" /\ end = "running" /\ agenda # <<>>
        /\ SeedPlace /\ job' = job /\ end' = end /\ docs' = docs /\ resolved' = FALSE
        /\ agenda' = rest /\ seeds' = seeds \o (IF doc.named THEN <<doc.url>> ELSE <<>>)
    BY DEF SInv, TextFails, AtDocument, IsSeeding, SeedPlace
  <1>1. /\ doc \in Documents /\ rest \in Seq(Documents) /\ Range(agenda) = Range(rest) \cup {doc}
        /\ \A i \in DOMAIN rest : rest[i] # Robots => rest[i].url \in DOMAIN LocsOf
    BY <1>0, HeadTaken DEF SeedPlace
  <1>2. WhatWasRead = Range(seeds) \cup NamedIn(agenda) /\ seeds \in Seq(Nat)
    BY <1>0 DEF SeedPlace
  <1>3. NamedIn(agenda) = NamedIn(rest) \cup (IF doc.named THEN {doc.url} ELSE {})
    <2> HIDE DEF doc, rest
    <2> QED BY <1>1, NamedInRange
  <1>4. WhatWasRead' = WhatWasRead
    BY <1>0 DEF WhatWasRead
  <1> HIDE DEF doc, rest
  <1>5. doc.url \in Nat
    BY <1>1 DEF Documents
  <1>6. /\ seeds' \in Seq(Nat)
        /\ Range(seeds') = Range(seeds) \cup (IF doc.named THEN {doc.url} ELSE {})
    <2> DEFINE own == IF doc.named THEN <<doc.url>> ELSE <<>>
    <2>1. own \in Seq(Nat) /\ Range(own) = (IF doc.named THEN {doc.url} ELSE {})
      BY <1>5 DEF Range
    <2>2. seeds' = seeds \o own
      BY <1>0
    <2> HIDE DEF own
    <2> QED BY <1>2, <2>1, <2>2, RangeConcat
  <1>7. WhatWasRead' = Range(seeds') \cup NamedIn(agenda')
    BY <1>0, <1>2, <1>3, <1>4, <1>6
  <1> QED BY <1>0, <1>1, <1>6, <1>7 DEF SInv, SeedPlace, SeedsAreWhatWasRead, NamedIn

\* When nothing is left on the agenda, all is found; sorting keeps it.
LEMMA SeedsEndSorted ==
  ASSUME SInv, SeedsEnd
  PROVE  SInv'
  <1>0. /\ job \in Jobs /\ job.kind = "seeds" /\ end = "running" /\ agenda = <<>>
        /\ SeedPlace /\ job' = job /\ end' = "ok" /\ seeds' = Ascending(Range(seeds))
        /\ UNCHANGED <<agenda, resolved, docs>>
    BY DEF SInv, SeedsEnd, IsSeeding
  <1>1. seeds \in Seq(Nat) /\ WhatWasRead = Range(seeds)
    <2>1. NamedIn(agenda) = {}
      BY <1>0 DEF NamedIn
    <2> QED BY <1>0, <2>1 DEF SeedPlace
  <1> DEFINE S == Range(seeds)
             n == Cardinality(S)
  <1>2. S \subseteq Int /\ IsFiniteSet(S)
    <2>1. /\ DOMAIN seeds = 1..Len(seeds) /\ Len(seeds) \in Nat /\ S \subseteq Nat
          /\ seeds \in [1..Len(seeds) -> Nat]
      BY <1>1 DEF Range
    <2>2. IsFiniteSet(1..Len(seeds))
      BY <2>1, FS_Interval
    <2>3. seeds \in Surjection(1..Len(seeds), S)
      BY <2>1 DEF Surjection, Range
    <2> HIDE DEF S
    <2> QED BY <2>1, <2>2, <2>3, FS_Surjection
  <1>3. /\ n \in Nat /\ seeds' \in [1..n -> S]
        /\ \A x \in S : \E k \in 1..n : seeds'[k] = x
        /\ \A j, k \in 1..n : j < k => seeds'[j] < seeds'[k]
    <2> HIDE DEF S
    <2> QED BY <1>0, <1>2, AscendingSorts DEF S
  <1>4. seeds' \in Seq(Nat) /\ DOMAIN seeds' = 1..n
    <2>1. S \subseteq Nat
      BY <1>1 DEF Range
    <2> HIDE DEF S, n
    <2>2. seeds' \in [1..n -> Nat]
      BY <1>3, <2>1
    <2> QED BY <1>3, <2>2, FunctionIsSeq
  <1>5. Range(seeds') = S
    <2> HIDE DEF S, n
    <2> QED BY <1>3, <1>4 DEF Range
  <1>6. WhatWasRead' = WhatWasRead
    BY <1>0 DEF WhatWasRead
  <1>7. SeedsAreWhatWasRead'
    <2> HIDE DEF n
    <2> QED BY <1>1, <1>3, <1>4, <1>5, <1>6 DEF SeedsAreWhatWasRead
  <1> QED BY <1>0, <1>4, <1>7 DEF SInv, SeedPlace

\* The seeds of a host are what stands in the documents that could be read,
\* sorted, each once, whatever fails and whenever the process is killed.
THEOREM SeedsAreFound == ComSpec => []SeedsAreWhatWasRead
  <1>1. JobsInit => SInv
    BY FirstSeeds DEF JobsInit
  <1>2. SInv /\ [ComNext]_comvars => SInv'
    <2> SUFFICES ASSUME SInv, [ComNext]_comvars PROVE SInv'
      OBVIOUS
    <2>1. CASE \/ FetchBadLine \/ FetchLine \/ FetchFails
               \/ WritePayload \/ PayloadWritten \/ PayloadFails \/ FetchEnds
      <3>1. job' = job /\ UNCHANGED seeding /\ (job.kind = "fetch" \/ end' \in {end, "failed"})
        BY <2>1 DEF FetchBadLine, FetchLine, FetchFails, WritePayload, PayloadWritten,
                    PayloadFails, FetchEnds, IsFetching, jvars
      <3> QED BY <3>1 DEF SInv, SeedPlace, SeedsAreWhatWasRead, seeding, WhatWasRead, NamedIn
    <2>2. CASE ResolveForText
      BY <2>2 DEF ResolveForText, IsSeeding, SInv, SeedPlace, SeedsAreWhatWasRead, WhatWasRead, NamedIn
    <2>3. CASE CalledAgain \/ Killed \/ SeedsDropped
      <3>1. (job \in Jobs /\ agenda = FirstAgenda /\ resolved = FALSE /\ seeds = <<>> /\ docs = {}
               /\ end = "running" => SInv)'
        BY FirstSeeds, PTL
      <3> QED BY <2>3, <3>1 DEF CalledAgain, Killed, SeedsDropped, Afresh, SInv
    <2>4. CASE UNCHANGED jvars
      BY <2>4 DEF jvars, seeding, SInv, SeedPlace, SeedsAreWhatWasRead, WhatWasRead, NamedIn
    <2> QED BY <2>1, <2>2, <2>3, <2>4, TextReadSeeds, TextFailsSeeds, SeedsEndSorted
            DEF ComNext, comvars
  <1>3. SInv => SeedsAreWhatWasRead
    BY DEF SInv
  <1> QED BY <1>1, <1>2, <1>3, PTL DEF ComSpec
=============================================================================
