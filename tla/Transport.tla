----------------------------- MODULE Transport -----------------------------
(***************************************************************************)
(* The request path of the client: HttpTransport::send_with_retry funnels  *)
(* every request through Politeness::admit (a rate token of the host's     *)
(* bucket, then a permit of one semaphore), retries transient failures     *)
(* with exponential backoff and hands the response to the caller, who      *)
(* reads the body.  Tasks are the concurrent callers of the library; they  *)
(* share one Politeness.                                                   *)
(*                                                                         *)
(* One Tick is one replenishment interval of the limiter, 1/max_rps s.     *)
(***************************************************************************)
EXTENDS Integers, FiniteSets

CONSTANTS
  Tasks,           \* concurrent callers of get_text and get_range
  Hosts,           \* hosts requests are sent to
  Buckets,         \* rate-limit buckets
  BucketOf,        \* Politeness::bucket, the host's bucket
  MaxRps,          \* Politeness::max_rps, after .max(1)
  MaxConcurrency,  \* Politeness::max_concurrency, after .max(1)
  MaxRetries,      \* RetryPolicy::max_retries
  BaseBackoff,     \* RetryPolicy::base, in ticks
  MaxBackoff,      \* RetryPolicy::max, in ticks
  MaxCalls         \* bound: calls one task makes

\* Politeness::new clamps both limits to at least one.
ASSUME LimitsAssumption == /\ MaxRps \in Nat \ {0}
                           /\ MaxConcurrency \in Nat \ {0}
ASSUME RetryAssumption == /\ MaxRetries \in Nat
                          /\ BaseBackoff \in Nat
                          /\ MaxBackoff \in Nat
ASSUME BucketAssumption == BucketOf \in [Hosts -> Buckets]
ASSUME TasksAssumption == IsFiniteSet(Tasks) /\ MaxCalls \in Nat

VARIABLES
  pc,        \* where each task's call stands
  host,      \* the host of the call
  attempt,   \* send_with_retry's local, 0-based
  timer,     \* ticks left of tokio::time::sleep
  tokens,    \* rate tokens each bucket's limiter holds
  permits,   \* permits left in the semaphore
  holding,   \* tasks whose OwnedSemaphorePermit is alive
  ahead,     \* for a task waiting on the semaphore, who waits in front of it
  calls,     \* calls made so far
  result     \* how the last call ended

vars == <<pc, host, attempt, timer, tokens, permits, holding, ahead, calls, result>>

Outcomes == {"ok", "notfound", "ratelimited", "server", "refused", "network", "cancelled"}

\* What one execute() can answer that send_with_retry retries, and the error
\* each becomes once the attempts are used up.
TransientFailures == {"ratelimited", "server", "network"}

Stages == {"idle", "token", "queued", "sending", "sleeping", "body"}

TypeOK ==
  /\ pc \in [Tasks -> Stages]
  /\ host \in [Tasks -> Hosts]
  /\ attempt \in [Tasks -> 0..MaxRetries]
  /\ timer \in [Tasks -> 0..MaxBackoff]
  /\ tokens \in [Buckets -> 0..MaxRps]
  /\ permits \in 0..MaxConcurrency
  /\ holding \in SUBSET Tasks
  /\ ahead \in [Tasks -> SUBSET Tasks]
  /\ calls \in [Tasks -> 0..MaxCalls]
  /\ result \in [Tasks -> Outcomes \cup {"none"}]

\* RetryPolicy::backoff: base * 2^attempt, clamped to max.
Backoff(a) == LET d == BaseBackoff * 2^a
              IN  IF d < MaxBackoff THEN d ELSE MaxBackoff

BucketOfTask(t) == BucketOf[host[t]]

Queue == {t \in Tasks : pc[t] = "queued"}

\* Fault: a cancelled waiter stays in front of those behind it.
StillInQueue(t) == [ahead EXCEPT ![t] = {}]

\* What the other waiters see once t is no longer in the queue.
WithoutInQueue(t) == [u \in Tasks |-> IF u = t THEN {} ELSE ahead[u] \ {t}]

Init ==
  /\ pc = [t \in Tasks |-> "idle"]
  /\ host \in {[t \in Tasks |-> h] : h \in Hosts}
  /\ attempt = [t \in Tasks |-> 0]
  /\ timer = [t \in Tasks |-> 0]
  /\ tokens = [b \in Buckets |-> MaxRps]
  /\ permits = MaxConcurrency
  /\ holding = {}
  /\ ahead = [t \in Tasks |-> {}]
  /\ calls = [t \in Tasks |-> 0]
  /\ result = [t \in Tasks |-> "none"]

----------------------------------------------------------------------------
\* get_text (on a cache miss) or get_range enters send_with_retry.
Call(t, h) ==
  /\ pc[t] = "idle"
  /\ calls[t] < MaxCalls
  /\ pc' = [pc EXCEPT ![t] = "token"]
  /\ host' = [host EXCEPT ![t] = h]
  /\ calls' = [calls EXCEPT ![t] = @ + 1]
  /\ result' = [result EXCEPT ![t] = "none"]
  /\ UNCHANGED <<attempt, timer, tokens, permits, holding, ahead>>

\* admit: until_ready returns with a token of the bucket, and acquire_owned
\* joins the semaphore's FIFO queue.
TakeToken(t) ==
  /\ pc[t] = "token"
  /\ tokens[BucketOfTask(t)] > 0
  /\ tokens' = [tokens EXCEPT ![BucketOfTask(t)] = @ - 1]
  /\ pc' = [pc EXCEPT ![t] = "queued"]
  /\ ahead' = [ahead EXCEPT ![t] = Queue]
  /\ UNCHANGED <<host, attempt, timer, permits, holding, calls, result>>

\* admit: the waiter at the head of the queue gets a permit; the request is
\* cloned and execute() sends it.
GetPermit(t) ==
  /\ pc[t] = "queued"
  /\ ahead[t] = {}
  /\ permits > 0
  /\ permits' = permits - 1
  /\ holding' = holding \cup {t}
  /\ ahead' = WithoutInQueue(t)
  /\ pc' = [pc EXCEPT ![t] = "sending"]
  /\ UNCHANGED <<host, attempt, timer, tokens, calls, result>>

\* Fault: a permit is given back whether or not t holds one.
ReleaseUnheld(t) ==
  /\ holding' = holding \ {t}
  /\ permits' = permits + 1

\* The permit of t is dropped, by drop(permit) or at the end of its scope.
ReleasePermit(t) ==
  /\ holding' = holding \ {t}
  /\ permits' = IF t \in holding THEN permits + 1 ELSE permits

\* The call returns; its locals are gone.
EndCall(t, r) ==
  /\ pc' = [pc EXCEPT ![t] = "idle"]
  /\ attempt' = [attempt EXCEPT ![t] = 0]
  /\ result' = [result EXCEPT ![t] = r]

\* Fault: the permit of a successful request is never dropped.
SuccessLeaking(t) ==
  /\ pc[t] = "sending"
  /\ pc' = [pc EXCEPT ![t] = "body"]
  /\ UNCHANGED <<host, attempt, timer, tokens, permits, holding, ahead, calls, result>>

\* A 2xx answer: the response is returned with its body still unread, and
\* returning drops the permit.
Success(t) ==
  /\ pc[t] = "sending"
  /\ ReleasePermit(t)
  /\ pc' = [pc EXCEPT ![t] = "body"]
  /\ UNCHANGED <<host, attempt, timer, tokens, ahead, calls, result>>

\* 404 is NotFound, any other status that is not transient is Http: no retry.
Refuse(t, r) ==
  /\ pc[t] = "sending"
  /\ ReleasePermit(t)
  /\ EndCall(t, r)
  /\ UNCHANGED <<host, timer, tokens, ahead, calls>>

\* Fault: the backoff is slept out with the permit held.
RetryHolding(t) ==
  /\ pc[t] = "sending"
  /\ attempt[t] < MaxRetries
  /\ timer' = [timer EXCEPT ![t] = Backoff(attempt[t])]
  /\ pc' = [pc EXCEPT ![t] = "sleeping"]
  /\ UNCHANGED <<host, attempt, tokens, permits, holding, ahead, calls, result>>

\* Fault: the attempts are compared with > instead of >=.
RetryOnceMore(t) ==
  /\ pc[t] = "sending"
  /\ attempt[t] <= MaxRetries
  /\ ReleasePermit(t)
  /\ timer' = [timer EXCEPT ![t] = Backoff(attempt[t])]
  /\ pc' = [pc EXCEPT ![t] = "sleeping"]
  /\ UNCHANGED <<host, attempt, tokens, ahead, calls, result>>

\* 429, 5xx or a transport error with attempts left: the permit is dropped,
\* then the task sleeps.
Retry(t) ==
  /\ pc[t] = "sending"
  /\ attempt[t] < MaxRetries
  /\ ReleasePermit(t)
  /\ timer' = [timer EXCEPT ![t] = Backoff(attempt[t])]
  /\ pc' = [pc EXCEPT ![t] = "sleeping"]
  /\ UNCHANGED <<host, attempt, tokens, ahead, calls, result>>

\* The same with no attempt left.
GiveUp(t, r) ==
  /\ pc[t] = "sending"
  /\ attempt[t] >= MaxRetries
  /\ ReleasePermit(t)
  /\ EndCall(t, r)
  /\ UNCHANGED <<host, timer, tokens, ahead, calls>>

\* Fault: the sleep is created but never awaited.
WakeAtOnce(t) ==
  /\ pc[t] = "sleeping"
  /\ attempt' = [attempt EXCEPT ![t] = @ + 1]
  /\ pc' = [pc EXCEPT ![t] = "token"]
  /\ timer' = [timer EXCEPT ![t] = 0]
  /\ UNCHANGED <<host, tokens, permits, holding, ahead, calls, result>>

\* Fault: a retry goes back to the semaphore without a rate token.
WakeUnmetered(t) ==
  /\ pc[t] = "sleeping"
  /\ timer[t] = 0
  /\ attempt' = [attempt EXCEPT ![t] = @ + 1]
  /\ pc' = [pc EXCEPT ![t] = "queued"]
  /\ ahead' = [ahead EXCEPT ![t] = Queue]
  /\ UNCHANGED <<host, timer, tokens, permits, holding, calls, result>>

\* The sleep is over: attempt += 1 and the loop admits the request again.
Wake(t) ==
  /\ pc[t] = "sleeping"
  /\ timer[t] = 0
  /\ attempt' = [attempt EXCEPT ![t] = @ + 1]
  /\ pc' = [pc EXCEPT ![t] = "token"]
  /\ UNCHANGED <<host, timer, tokens, permits, holding, ahead, calls, result>>

\* resp.bytes().await in get_text and get_range: the body arrives, or the
\* connection fails; a failure here is not retried.
ReadBody(t, r) ==
  /\ pc[t] = "body"
  /\ EndCall(t, r)
  /\ UNCHANGED <<host, timer, tokens, permits, holding, ahead, calls>>

\* The caller drops the future (a stream that is no longer polled): the
\* permit is released and a waiter leaves the queue; a rate token is not
\* given back.
Cancel(t) ==
  /\ pc[t] # "idle"
  /\ ReleasePermit(t)
  /\ EndCall(t, "cancelled")
  /\ timer' = [timer EXCEPT ![t] = 0]
  /\ ahead' = WithoutInQueue(t)
  /\ UNCHANGED <<host, tokens, calls>>

\* Fault: the limiter saves up tokens beyond its burst.
TickUncapped ==
  /\ \/ \E b \in Buckets : tokens[b] < MaxRps
     \/ \E t \in Tasks : timer[t] > 0
  /\ tokens' = [b \in Buckets |-> tokens[b] + 1]
  /\ timer' = [t \in Tasks |-> IF timer[t] > 0 THEN timer[t] - 1 ELSE 0]
  /\ UNCHANGED <<pc, host, attempt, permits, holding, ahead, calls, result>>

\* 1/max_rps s go by: every limiter earns a token, up to its burst, and the
\* sleeps get shorter.  Time that changes nothing is not a step.
Tick ==
  /\ \/ \E b \in Buckets : tokens[b] < MaxRps
     \/ \E t \in Tasks : timer[t] > 0
  /\ tokens' = [b \in Buckets |-> IF tokens[b] < MaxRps THEN tokens[b] + 1 ELSE MaxRps]
  /\ timer' = [t \in Tasks |-> IF timer[t] > 0 THEN timer[t] - 1 ELSE 0]
  /\ UNCHANGED <<pc, host, attempt, permits, holding, ahead, calls, result>>

\* Every task made its calls and every limiter is full again.
Finished ==
  /\ \A t \in Tasks : pc[t] = "idle" /\ calls[t] = MaxCalls
  /\ \A b \in Buckets : tokens[b] = MaxRps
  /\ UNCHANGED vars

Answer(t) ==
  \/ Success(t)
  \/ \E r \in {"notfound", "refused"} : Refuse(t, r)
  \/ Retry(t)
  \/ \E r \in TransientFailures : GiveUp(t, r)

Next ==
  \/ \E t \in Tasks :
       \/ \E h \in Hosts : Call(t, h)
       \/ TakeToken(t)
       \/ GetPermit(t)
       \/ Answer(t)
       \/ Wake(t)
       \/ \E r \in {"ok", "network"} : ReadBody(t, r)
       \/ Cancel(t)
  \/ Tick
  \/ Finished

Spec == Init /\ [][Next]_vars

(***************************************************************************)
(* Fairness.  The executor polls every ready task (token, permit, wake),   *)
(* and time passes.  That the server answers and the body ends is an       *)
(* assumption on the environment: the reqwest client has no timeout, so    *)
(* nothing in the code implies it.  Calls and cancellations are the        *)
(* caller's choice.                                                        *)
(***************************************************************************)
Scheduling == /\ WF_vars(Tick)
              /\ \A t \in Tasks : /\ WF_vars(TakeToken(t))
                                  /\ WF_vars(GetPermit(t))
                                  /\ WF_vars(Wake(t))
ServerAnswers == \A t \in Tasks :
                   /\ WF_vars(Answer(t))
                   /\ WF_vars(\E r \in {"ok", "network"} : ReadBody(t, r))
FairSpec == Spec /\ Scheduling /\ ServerAnswers

----------------------------------------------------------------------------
\* No permit is lost or made up on any path through send_with_retry, early
\* returns, backoff and dropped futures included (polite.rs admit).
PermitsConserved == permits + Cardinality(holding) = MaxConcurrency

\* A task holds a permit exactly while its request is on the wire up to the
\* response head: nobody sleeps out a backoff, waits for a rate token or
\* sits in the queue with a permit in hand (http.rs drop(permit)), so tasks
\* that wait can never starve each other of permits.
HoldersAreSending == holding = {t \in Tasks : pc[t] = "sending"}

\* The waiters of the semaphore form one line: of two waiters exactly one is
\* in front of the other, and only waiters are in front of anybody.  A
\* cancelled waiter leaves no trace (acquire_owned is cancel safe and FIFO).
QueueIsALine ==
  /\ \A t \in Tasks : ahead[t] \subseteq Queue \ {t}
  /\ \A t \in Tasks : pc[t] # "queued" => ahead[t] = {}
  /\ \A t, u \in Queue : t # u => ((t \in ahead[u]) <=> (u \notin ahead[t]))
  /\ \A t, u \in Queue : t \in ahead[u] => ahead[t] \subseteq ahead[u]

\* Every call returns, however its requests fail, as long as the server
\* answers: waiting for tokens, permits and backoffs always ends.
EveryCallReturns == \A t \in Tasks : (pc[t] # "idle") ~> (pc[t] = "idle")
=============================================================================
