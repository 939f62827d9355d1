------------------------------ MODULE Registry ------------------------------
(***************************************************************************)
(* Registry: the crawl list, kept in memory and loaded with get_json, that *)
(* is through the cache of CachedGet.  all and refresh run in several      *)
(* tasks, beside other cached requests; the lock is held for one read or   *)
(* one write at a time, never across the load.                             *)
(***************************************************************************)
EXTENDS CachedGet

CONSTANTS
  Collinfo,   \* the request for collinfo.json
  Garbled     \* versions of collinfo.json that do not parse

\* The key of a URL is the key of no other URL and of no digest (CacheKey).
ASSUME CollinfoAssumption ==
  /\ Collinfo \in Requests
  /\ \A r \in Requests : KeyOf[r] = KeyOf[Collinfo] => r = Collinfo
ASSUME GarbledAssumption == Garbled \subseteq 1..MaxVersion

VARIABLES
  crawls,   \* Registry::crawls: the version of the list, 0 for None, Mixed's for
            \* a list made of parts
  op,       \* what each task runs
  since,    \* observed: the server's version when it was called
  listed    \* what the last finished operation of each task returned, 0 for an error

rvars == <<crawls, op, since, listed>>
allvars == <<cvars, rvars>>

RInit ==
  /\ CInit
  /\ crawls = 0
  /\ op = [t \in Tasks |-> "none"]
  /\ since = [t \in Tasks |-> 1]
  /\ listed = [t \in Tasks |-> 0]

----------------------------------------------------------------------------
\* The operation is over.
Finish(t, version) ==
  /\ op' = [op EXCEPT ![t] = "none"]
  /\ listed' = [listed EXCEPT ![t] = version]

\* all, with the list in memory: it is returned as it is.
AllFromMemory(t) ==
  /\ op[t] = "none" /\ pc[t] = "idle"
  /\ crawls # 0
  /\ listed' = [listed EXCEPT ![t] = crawls]
  /\ since' = [since EXCEPT ![t] = origin[Collinfo]]
  /\ UNCHANGED <<cvars, crawls, op>>

\* all without a list, or refresh in any case: the lock is free again and
\* load asks the transport.
StartLoad(t, what) ==
  /\ op[t] = "none"
  /\ what = "all" => crawls = 0
  /\ Lookup(t, Collinfo)
  /\ op' = [op EXCEPT ![t] = what]
  /\ since' = [since EXCEPT ![t] = origin[Collinfo]]
  /\ UNCHANGED <<crawls, listed>>

\* Fault: the body is kept before it is parsed.
StoreListUnparsed(t) ==
  /\ op[t] \in {"all", "refresh"} /\ pc[t] = "answered"
  /\ crawls' = body[t].version
  /\ Done(t)
  /\ Finish(t, body[t].version)
  /\ UNCHANGED since

\* The body parses: it becomes the list, whatever has been stored since.
StoreList(t) ==
  /\ op[t] \in {"all", "refresh"} /\ pc[t] = "answered"
  /\ body[t].version \notin Garbled
  /\ crawls' = body[t].version
  /\ Done(t)
  /\ Finish(t, body[t].version)
  /\ UNCHANGED since

\* The body does not parse, or there is none: the list stays.  Parts of two lists
\* may be JSON or not.
LoadFails(t) ==
  /\ op[t] \in {"all", "refresh"}
  /\ \/ pc[t] = "answered" /\ body[t].version \in Garbled \cup {Mixed.version}
     \/ pc[t] = "failed"
  /\ Done(t)
  /\ Finish(t, 0)
  /\ UNCHANGED <<crawls, since>>

\* The caller of an operation drops it; the list stays.
Dropped(t) ==
  /\ op[t] \in {"all", "refresh", "other"}
  /\ Drop(t)
  /\ op' = [op EXCEPT ![t] = "none"]
  /\ UNCHANGED <<crawls, since, listed>>

\* A new process starts with an empty registry.
RRestart ==
  /\ Restart
  /\ crawls' = 0
  /\ op' = [t \in Tasks |-> "none"]
  /\ listed' = [t \in Tasks |-> 0]
  /\ UNCHANGED since

\* A request made, answered and stored, and the list made of it.
Requesting(t) ==
  (Receive(t) \/ Rename(t) \/ Store(t) \/ CallFails(t)) /\ UNCHANGED rvars

Loading(t) == StoreList(t) \/ LoadFails(t)

----------------------------------------------------------------------------
\* A list that parsed, of a body the server once sent, or of parts of several
\* where puts of the list have crossed.
IsAList(version) ==
  /\ version \notin Garbled /\ version <= origin[Collinfo]
  /\ version = Mixed.version => KeyOf[Collinfo] \in crossed

\* The list in memory was parsed from a body in the cache; a body that does not
\* parse never replaces a list, and no operation returns one.
MemoryHoldsAList == IsAList(crawls) /\ \A t \in Tasks : IsAList(listed[t])

\* A refresh that succeeds has the list the server had when it was called, or
\* a later one ("Force a reload of the crawl list", registry.rs; "--refresh
\* re-fetches the registry", README).
RefreshReloads ==
  [][\A t \in Tasks : op[t] = "refresh" /\ op'[t] = "none" /\ listed'[t] > 0
       => listed'[t] >= since[t]]_allvars
=============================================================================
