-------------------------- MODULE TransportTiming --------------------------
(***************************************************************************)
(* Transport observed from outside: history variables record when requests *)
(* leave, how often a call was tried, and how long ago it failed.  They    *)
(* never influence a step, so every behaviour is one of Transport's.       *)
(***************************************************************************)
EXTENDS Transport

CONSTANT Horizon   \* bound: ticks of a behaviour

ASSUME TimingAssumption == Horizon \in Nat

VARIABLES
  elapsed,   \* ticks since the start
  sent,      \* requests sent so far in each bucket
  burst,     \* requests sent in each bucket since the last tick
  tries,     \* requests the current call of a task has sent
  rested     \* ticks since the current call's last failure, up to MaxBackoff

history == <<elapsed, sent, burst, tries, rested>>
tvars == <<vars, history>>

TInit ==
  /\ Init
  /\ elapsed = 0
  /\ sent = [b \in Buckets |-> 0]
  /\ burst = [b \in Buckets |-> 0]
  /\ tries = [t \in Tasks |-> 0]
  /\ rested = [t \in Tasks |-> 0]

----------------------------------------------------------------------------
TCall(t, h) ==
  /\ Call(t, h)
  /\ tries' = [tries EXCEPT ![t] = 0]
  /\ rested' = [rested EXCEPT ![t] = 0]
  /\ UNCHANGED <<elapsed, sent, burst>>

\* The request leaves.
TGetPermit(t) ==
  /\ GetPermit(t)
  /\ sent' = [sent EXCEPT ![BucketOfTask(t)] = @ + 1]
  /\ burst' = [burst EXCEPT ![BucketOfTask(t)] = @ + 1]
  /\ tries' = [tries EXCEPT ![t] = @ + 1]
  /\ UNCHANGED <<elapsed, rested>>

\* The attempt fails.
TRetry(t) ==
  /\ Retry(t)
  /\ rested' = [rested EXCEPT ![t] = 0]
  /\ UNCHANGED <<elapsed, sent, burst, tries>>

TTick ==
  /\ elapsed < Horizon
  /\ Tick
  /\ elapsed' = elapsed + 1
  /\ burst' = [b \in Buckets |-> 0]
  /\ rested' = [t \in Tasks |-> IF rested[t] < MaxBackoff THEN rested[t] + 1 ELSE MaxBackoff]
  /\ UNCHANGED <<sent, tries>>

\* Steps in which no request leaves and no time passes.
TOther(t) ==
  /\ \/ TakeToken(t)
     \/ Success(t)
     \/ \E r \in {"notfound", "refused"} : Refuse(t, r)
     \/ \E r \in TransientFailures : GiveUp(t, r)
     \/ Wake(t)
     \/ \E r \in {"ok", "network"} : ReadBody(t, r)
     \/ Cancel(t)
  /\ UNCHANGED history

TNext ==
  \/ \E t \in Tasks :
       \/ \E h \in Hosts : TCall(t, h)
       \/ TGetPermit(t)
       \/ TRetry(t)
       \/ TOther(t)
  \/ TTick

TSpec == TInit /\ [][TNext]_tvars

\* An executor that keeps up: time passes only when no free permit is waiting
\* for the first of the queue to be polled.
PermitWaits == permits > 0 /\ Queue # {}
TSpecPrompt == TInit /\ [][TNext /\ (PermitWaits => elapsed' = elapsed)]_tvars

----------------------------------------------------------------------------
Waiting(b) == {t \in Tasks : pc[t] = "queued" /\ BucketOf[host[t]] = b}

\* A bucket never sends more than its burst plus one request per tick,
\* whatever queues up behind the semaphore, is retried or is cancelled
\* (polite.rs: every request and every retry takes a token of its own).
LongRunRate == \A b \in Buckets : sent[b] <= MaxRps + elapsed

\* A call sends at most max_retries + 1 requests, and it reports a transient
\* failure only after all of them: no path gives up early or retries late
\* (http.rs, the comparison of attempt with max_retries before attempt += 1).
RetryBudget ==
  \A t \in Tasks :
    /\ tries[t] <= MaxRetries + 1
    /\ result[t] \in {"ratelimited", "server"} => tries[t] = MaxRetries + 1

\* Between a failed attempt and the next request of the call at least the
\* backoff of that attempt goes by, with the exponent one less than the
\* number of the retry (http.rs: sleep before attempt += 1).
BackoffObserved ==
  \A t \in Tasks :
    pc[t] \in {"token", "queued", "sending"} /\ attempt[t] > 0
      => rested[t] >= Backoff(attempt[t] - 1)

\* The documented rate, max_rps requests per second and bucket (README,
\* --max-rps): between two ticks, which is at most a second, no bucket sends
\* more than max_rps requests.
RateCap == \A b \in Buckets : burst[b] <= MaxRps
=============================================================================
