-------------------------- MODULE TransportProofs --------------------------
(***************************************************************************)
(* The safety properties of Transport hold for every set of callers, every *)
(* mapping of hosts to buckets, and all limits; and the rate, retry and    *)
(* backoff properties of TransportTiming for every horizon.                *)
(***************************************************************************)
EXTENDS TransportTiming, FiniteSetTheorems, TLAPS

\* The exponential in Backoff is a natural number: it counts the subsets of
\* a finite set.
LEMMA PowerOfTwo == \A n \in Nat : 2^n \in Nat
<1> SUFFICES ASSUME NEW n \in Nat PROVE 2^n \in Nat
  OBVIOUS
<1>1. IsFiniteSet(1..n) /\ Cardinality(1..n) = n
  BY FS_Interval, SMT
<1>2. IsFiniteSet(SUBSET (1..n)) /\ Cardinality(SUBSET (1..n)) = 2^n
  BY <1>1, FS_SUBSET
<1> QED
  BY <1>2, FS_CardinalityType

\* RetryPolicy::backoff never exceeds max.
LEMMA BackoffRange == \A a \in Nat : Backoff(a) \in 0..MaxBackoff
<1> SUFFICES ASSUME NEW a \in Nat PROVE Backoff(a) \in 0..MaxBackoff
  OBVIOUS
<1>1. PICK p \in Nat : p = 2^a
  BY PowerOfTwo
<1>2. BaseBackoff * p \in Nat
  BY RetryAssumption, SMT
<1>3. Backoff(a) = IF BaseBackoff * p < MaxBackoff THEN BaseBackoff * p ELSE MaxBackoff
  BY <1>1 DEF Backoff
<1> QED
  BY <1>2, <1>3, RetryAssumption, SMT

----------------------------------------------------------------------------
\* The inductive invariant.  PermitsConserved is what bounds permits from
\* above when one is given back, and HoldersAreSending is what shows that a
\* task that gets a permit did not have one; SleepersMayRetry is what keeps
\* attempt in its range when a sleeper wakes.
SleepersMayRetry == \A t \in Tasks : pc[t] = "sleeping" => attempt[t] < MaxRetries

Inv == /\ TypeOK
       /\ PermitsConserved
       /\ HoldersAreSending
       /\ QueueIsALine
       /\ SleepersMayRetry

\* Giving back a permit keeps the count, whoever gives it back.
LEMMA ReleaseKeepsPermits ==
  ASSUME Inv, NEW t \in Tasks, ReleasePermit(t)
  PROVE  permits' \in 0..MaxConcurrency /\ PermitsConserved'
<1>1. IsFiniteSet(holding) /\ Cardinality(holding) \in Nat
  BY TasksAssumption, FS_Subset, FS_CardinalityType DEF Inv, TypeOK
<1>2. Cardinality(holding \ {t}) = IF t \in holding THEN Cardinality(holding) - 1
                                                    ELSE Cardinality(holding)
  BY <1>1, FS_RemoveElement
<1>3. Cardinality(holding \ {t}) \in Nat
  BY <1>1, FS_RemoveElement, FS_CardinalityType
<1> QED
  BY <1>1, <1>2, <1>3, LimitsAssumption, SMT
     DEF Inv, TypeOK, PermitsConserved, ReleasePermit

\* A task that takes a permit had none.
LEMMA TakeKeepsPermits ==
  ASSUME Inv, NEW t \in Tasks, GetPermit(t)
  PROVE  permits' \in 0..MaxConcurrency /\ PermitsConserved'
<1>1. IsFiniteSet(holding) /\ Cardinality(holding) \in Nat
  BY TasksAssumption, FS_Subset, FS_CardinalityType DEF Inv, TypeOK
<1>2. t \notin holding
  BY DEF Inv, HoldersAreSending, GetPermit
<1>3. Cardinality(holding \cup {t}) = Cardinality(holding) + 1
  BY <1>1, <1>2, FS_AddElement
<1> QED
  BY <1>1, <1>3, LimitsAssumption, SMT
     DEF Inv, TypeOK, PermitsConserved, GetPermit

LEMMA InitInv == Init => Inv
<1> SUFFICES ASSUME Init PROVE Inv
  OBVIOUS
<1>1. TypeOK
  <2>1. MaxRps \in 0..MaxRps /\ MaxConcurrency \in 0..MaxConcurrency
    BY LimitsAssumption
  <2>2. 0 \in 0..MaxRetries /\ 0 \in 0..MaxBackoff /\ 0 \in 0..MaxCalls
    BY RetryAssumption, TasksAssumption
  <2> QED
    BY <2>1, <2>2 DEF Init, TypeOK, Stages, Outcomes
<1>2. PermitsConserved
  BY FS_EmptySet, LimitsAssumption DEF Init, PermitsConserved
<1>3. HoldersAreSending
  BY DEF Init, HoldersAreSending
<1>4. QueueIsALine /\ SleepersMayRetry
  BY DEF Init, QueueIsALine, Queue, SleepersMayRetry
<1> QED
  BY <1>1, <1>2, <1>3, <1>4 DEF Inv

\* The locals of a task that returns from the sending stage.
LEMMA ReturnKeepsInv ==
  ASSUME Inv, NEW t \in Tasks, pc[t] = "sending", NEW r \in Outcomes,
         ReleasePermit(t), EndCall(t, r),
         UNCHANGED <<host, timer, tokens, ahead, calls>>
  PROVE  Inv'
<1>1. permits' \in 0..MaxConcurrency /\ PermitsConserved'
  BY ReleaseKeepsPermits
<1>2. TypeOK'
  BY <1>1, RetryAssumption DEF Inv, TypeOK, ReleasePermit, EndCall, Stages
<1>3. HoldersAreSending' /\ SleepersMayRetry'
  BY DEF Inv, TypeOK, HoldersAreSending, SleepersMayRetry, ReleasePermit, EndCall
<1>4. Queue' = Queue /\ ahead' = ahead
  BY DEF Inv, TypeOK, Queue, EndCall
<1>5. QueueIsALine'
  BY <1>4 DEF Inv, TypeOK, QueueIsALine, EndCall
<1> QED
  BY <1>1, <1>2, <1>3, <1>5 DEF Inv

\* A task that leaves the queue leaves the others in line.
LEMMA LeavingKeepsLine ==
  ASSUME Inv, NEW t \in Tasks, NEW s \in Stages \ {"queued"},
         pc' = [pc EXCEPT ![t] = s], ahead' = WithoutInQueue(t)
  PROVE  QueueIsALine'
<1>1. /\ \A u \in Tasks : ahead[u] \subseteq Queue \ {u}
      /\ \A u \in Tasks : pc[u] # "queued" => ahead[u] = {}
      /\ \A u, v \in Queue : u # v => ((u \in ahead[v]) <=> (v \notin ahead[u]))
      /\ \A u, v \in Queue : u \in ahead[v] => ahead[u] \subseteq ahead[v]
  BY DEF Inv, QueueIsALine
<1>2. /\ Queue \subseteq Tasks
      /\ \A u \in Tasks : u \in Queue' <=> u \in Queue /\ u # t
      /\ Queue' \subseteq Tasks
  BY DEF Inv, TypeOK, Queue
<1>3. ahead'[t] = {}
  BY DEF WithoutInQueue
<1>4. \A u \in Tasks : u # t => ahead'[u] = ahead[u] \ {t}
  BY DEF WithoutInQueue
<1>5. \A u \in Tasks : ahead'[u] \subseteq Queue' \ {u}
  BY <1>1, <1>2, <1>3, <1>4
<1>6. \A u \in Tasks : pc'[u] # "queued" => ahead'[u] = {}
  <2> SUFFICES ASSUME NEW u \in Tasks, pc'[u] # "queued", u # t PROVE ahead'[u] = {}
    BY <1>3
  <2>1. pc[u] # "queued"
    BY DEF Inv, TypeOK
  <2> QED
    BY <2>1, <1>1, <1>4
<1>7. \A u, v \in Queue' : u # v => ((u \in ahead'[v]) <=> (v \notin ahead'[u]))
  BY <1>1, <1>2, <1>4
<1>8. \A u, v \in Queue' : u \in ahead'[v] => ahead'[u] \subseteq ahead'[v]
  BY <1>1, <1>2, <1>4
<1> QED
  BY <1>5, <1>6, <1>7, <1>8 DEF QueueIsALine

LEMMA NextInv == Inv /\ [Next]_vars => Inv'
<1> SUFFICES ASSUME Inv, [Next]_vars PROVE Inv'
  OBVIOUS
<1>1. ASSUME NEW t \in Tasks, NEW h \in Hosts, Call(t, h) PROVE Inv'
  <2>1. TypeOK'
    BY <1>1, TasksAssumption DEF Inv, TypeOK, Call, Stages
  <2>2. PermitsConserved' /\ HoldersAreSending' /\ SleepersMayRetry'
    BY <1>1 DEF Inv, TypeOK, Call, PermitsConserved, HoldersAreSending, SleepersMayRetry
  <2>3. QueueIsALine'
    BY <1>1 DEF Inv, TypeOK, Call, QueueIsALine, Queue
  <2> QED
    BY <2>1, <2>2, <2>3 DEF Inv
<1>2. ASSUME NEW t \in Tasks, TakeToken(t) PROVE Inv'
  <2>1. BucketOfTask(t) \in Buckets
    BY BucketAssumption DEF BucketOfTask, Inv, TypeOK
  <2>2. tokens' \in [Buckets -> 0..MaxRps]
    BY <1>2, <2>1, LimitsAssumption DEF TakeToken, Inv, TypeOK
  <2>3. TypeOK'
    BY <1>2, <2>2 DEF Inv, TypeOK, TakeToken, Stages, Queue
  <2>4. PermitsConserved' /\ HoldersAreSending' /\ SleepersMayRetry'
    BY <1>2 DEF Inv, TypeOK, TakeToken, PermitsConserved, HoldersAreSending, SleepersMayRetry
  <2>5. QueueIsALine'
    <3>1. Queue' = Queue \cup {t} /\ t \notin Queue
      BY <1>2 DEF Inv, TypeOK, TakeToken, Queue
    <3>2. \A u \in Tasks : ahead'[u] = IF u = t THEN Queue ELSE ahead[u]
      BY <1>2 DEF Inv, TypeOK, TakeToken
    <3>3. /\ \A u \in Tasks : ahead[u] \subseteq Queue \ {u}
          /\ \A u, v \in Queue : u # v => ((u \in ahead[v]) <=> (v \notin ahead[u]))
          /\ \A u, v \in Queue : u \in ahead[v] => ahead[u] \subseteq ahead[v]
          /\ Queue \subseteq Tasks
      BY DEF Inv, QueueIsALine, Queue
    <3>4. \A u \in Tasks : ahead'[u] \subseteq Queue' \ {u}
      BY <3>1, <3>2, <3>3
    <3>5. \A u \in Tasks : pc'[u] # "queued" => ahead'[u] = {}
      BY <1>2, <3>2 DEF Inv, TypeOK, QueueIsALine, TakeToken
    <3>6. \A u, v \in Queue' : u # v => ((u \in ahead'[v]) <=> (v \notin ahead'[u]))
      BY <3>1, <3>2, <3>3
    <3>7. \A u, v \in Queue' : u \in ahead'[v] => ahead'[u] \subseteq ahead'[v]
      BY <3>1, <3>2, <3>3
    <3> QED
      BY <3>4, <3>5, <3>6, <3>7 DEF QueueIsALine
  <2> QED
    BY <2>3, <2>4, <2>5 DEF Inv
<1>3. ASSUME NEW t \in Tasks, GetPermit(t) PROVE Inv'
  <2>1. permits' \in 0..MaxConcurrency /\ PermitsConserved'
    BY <1>3, TakeKeepsPermits
  <2>2. TypeOK'
    BY <1>3, <2>1 DEF Inv, TypeOK, GetPermit, WithoutInQueue, Stages
  <2>3. HoldersAreSending' /\ SleepersMayRetry'
    BY <1>3 DEF Inv, TypeOK, GetPermit, HoldersAreSending, SleepersMayRetry
  <2>4. QueueIsALine'
    BY <1>3, LeavingKeepsLine DEF GetPermit, Stages
  <2> QED
    BY <2>1, <2>2, <2>3, <2>4 DEF Inv
<1>4. ASSUME NEW t \in Tasks, Success(t) PROVE Inv'
  <2>1. permits' \in 0..MaxConcurrency /\ PermitsConserved'
    BY <1>4, ReleaseKeepsPermits DEF Success
  <2>2. TypeOK'
    BY <1>4, <2>1 DEF Inv, TypeOK, Success, ReleasePermit, Stages
  <2>3. HoldersAreSending' /\ SleepersMayRetry'
    BY <1>4 DEF Inv, TypeOK, Success, ReleasePermit, HoldersAreSending, SleepersMayRetry
  <2>4. QueueIsALine'
    BY <1>4 DEF Inv, TypeOK, Success, QueueIsALine, Queue
  <2> QED
    BY <2>1, <2>2, <2>3, <2>4 DEF Inv
<1>5. ASSUME NEW t \in Tasks, NEW r \in {"notfound", "refused"}, Refuse(t, r) PROVE Inv'
  BY <1>5, ReturnKeepsInv DEF Refuse, Outcomes
<1>6. ASSUME NEW t \in Tasks, Retry(t) PROVE Inv'
  <2>1. permits' \in 0..MaxConcurrency /\ PermitsConserved'
    BY <1>6, ReleaseKeepsPermits DEF Retry
  <2>2. Backoff(attempt[t]) \in 0..MaxBackoff
    BY BackoffRange, RetryAssumption DEF Inv, TypeOK
  <2>3. TypeOK'
    BY <1>6, <2>1, <2>2 DEF Inv, TypeOK, Retry, ReleasePermit, Stages
  <2>4. HoldersAreSending' /\ SleepersMayRetry'
    BY <1>6 DEF Inv, TypeOK, Retry, ReleasePermit, HoldersAreSending, SleepersMayRetry
  <2>5. QueueIsALine'
    BY <1>6 DEF Inv, TypeOK, Retry, QueueIsALine, Queue
  <2> QED
    BY <2>1, <2>3, <2>4, <2>5 DEF Inv
<1>7. ASSUME NEW t \in Tasks, NEW r \in TransientFailures, GiveUp(t, r) PROVE Inv'
  BY <1>7, ReturnKeepsInv DEF GiveUp, TransientFailures, Outcomes
<1>8. ASSUME NEW t \in Tasks, Wake(t) PROVE Inv'
  <2>1. attempt[t] + 1 \in 0..MaxRetries
    BY <1>8, RetryAssumption DEF Inv, TypeOK, SleepersMayRetry, Wake
  <2>2. TypeOK'
    BY <1>8, <2>1 DEF Inv, TypeOK, Wake, Stages
  <2>3. PermitsConserved' /\ HoldersAreSending' /\ SleepersMayRetry'
    BY <1>8 DEF Inv, TypeOK, Wake, PermitsConserved, HoldersAreSending, SleepersMayRetry
  <2>4. QueueIsALine'
    BY <1>8 DEF Inv, TypeOK, Wake, QueueIsALine, Queue
  <2> QED
    BY <2>2, <2>3, <2>4 DEF Inv
<1>9. ASSUME NEW t \in Tasks, NEW r \in {"ok", "network"}, ReadBody(t, r) PROVE Inv'
  <2>1. TypeOK'
    BY <1>9, RetryAssumption DEF Inv, TypeOK, ReadBody, EndCall, Stages, Outcomes
  <2>2. PermitsConserved' /\ HoldersAreSending' /\ SleepersMayRetry'
    BY <1>9 DEF Inv, TypeOK, ReadBody, EndCall, PermitsConserved, HoldersAreSending,
                SleepersMayRetry
  <2>3. QueueIsALine'
    BY <1>9 DEF Inv, TypeOK, ReadBody, EndCall, QueueIsALine, Queue
  <2> QED
    BY <2>1, <2>2, <2>3 DEF Inv
<1>10. ASSUME NEW t \in Tasks, Cancel(t) PROVE Inv'
  <2>1. permits' \in 0..MaxConcurrency /\ PermitsConserved'
    BY <1>10, ReleaseKeepsPermits DEF Cancel
  <2>2. TypeOK'
    BY <1>10, <2>1, RetryAssumption
       DEF Inv, TypeOK, Cancel, ReleasePermit, EndCall, WithoutInQueue, Stages, Outcomes
  <2>3. HoldersAreSending' /\ SleepersMayRetry'
    BY <1>10 DEF Inv, TypeOK, Cancel, ReleasePermit, EndCall, HoldersAreSending,
                 SleepersMayRetry
  <2>4. QueueIsALine'
    BY <1>10, LeavingKeepsLine DEF Cancel, EndCall, Stages
  <2> QED
    BY <2>1, <2>2, <2>3, <2>4 DEF Inv
<1>11. ASSUME Tick PROVE Inv'
  <2>1. TypeOK'
    BY <1>11, LimitsAssumption, RetryAssumption DEF Inv, TypeOK, Tick
  <2>2. QueueIsALine'
    BY <1>11 DEF Inv, TypeOK, Tick, QueueIsALine, Queue
  <2> QED
    BY <1>11, <2>1, <2>2
       DEF Inv, Tick, PermitsConserved, HoldersAreSending, SleepersMayRetry
<1>12. ASSUME UNCHANGED vars PROVE Inv'
  BY <1>12 DEF Inv, TypeOK, vars, PermitsConserved, HoldersAreSending, SleepersMayRetry,
               QueueIsALine, Queue
<1> QED
  BY <1>1, <1>2, <1>3, <1>4, <1>5, <1>6, <1>7, <1>8, <1>9, <1>10, <1>11, <1>12
     DEF Next, Answer, Finished

\* Inv holds in every reachable state.
LEMMA Invariance == Spec => []Inv
  BY InitInv, NextInv, PTL DEF Spec

\* Type correctness, for every instance: limiters never hold more than their
\* burst, the semaphore never more than max_concurrency permits, and the
\* attempts of a call stay within max_retries.
THEOREM TypeCorrect == Spec => []TypeOK
<1>1. Inv => TypeOK
  BY DEF Inv
<1> QED
  BY <1>1, Invariance, PTL

\* Permits are neither lost nor made up on any path through a request.
THEOREM PermitsAreConserved == Spec => []PermitsConserved
<1>1. Inv => PermitsConserved
  BY DEF Inv
<1> QED
  BY <1>1, Invariance, PTL

\* Nobody waits, for a token, a permit or a backoff, with a permit in hand.
THEOREM NoHoldAndWait == Spec => []HoldersAreSending
<1>1. Inv => HoldersAreSending
  BY DEF Inv
<1> QED
  BY <1>1, Invariance, PTL

\* The waiters of the semaphore form one line, cancellations included.
THEOREM WaitersFormALine == Spec => []QueueIsALine
<1>1. Inv => QueueIsALine
  BY DEF Inv
<1> QED
  BY <1>1, Invariance, PTL

----------------------------------------------------------------------------
(* TransportTiming. *)

\* The tokens a bucket has spent or still has, and those its waiting tasks
\* took without having sent: together never more than the limiter gave out.
TokensAccounted ==
  \A b \in Buckets : sent[b] + Cardinality(Waiting(b)) + tokens[b] <= MaxRps + elapsed

\* How many requests a call has sent, stage by stage.
TriesFollowAttempt ==
  \A t \in Tasks :
    /\ pc[t] \in {"token", "queued"} => tries[t] = attempt[t]
    /\ pc[t] \in {"sending", "sleeping", "body"} => tries[t] = attempt[t] + 1
    /\ pc[t] # "idle" => result[t] = "none"

\* A sleeping task has rested for its backoff or still has to.
SleepCoversBackoff ==
  \A t \in Tasks : pc[t] = "sleeping" => rested[t] + timer[t] >= Backoff(attempt[t])

\* An idle task's next call starts at attempt 0.
IdleForgets == \A t \in Tasks : pc[t] = "idle" => attempt[t] = 0

HistoryOK ==
  /\ elapsed \in Nat
  /\ sent \in [Buckets -> Nat]
  /\ tries \in [Tasks -> Nat]
  /\ rested \in [Tasks -> 0..MaxBackoff]

TInv == /\ Inv
        /\ HistoryOK
        /\ IdleForgets
        /\ TokensAccounted
        /\ TriesFollowAttempt
        /\ RetryBudget
        /\ SleepCoversBackoff
        /\ BackoffObserved

\* A step of TransportTiming is a step of Transport.
LEMMA TimingRefinesTransport == TSpec => Spec
<1>1. TInit => Init
  BY DEF TInit
<1>2. [TNext]_tvars => [Next]_vars
  BY DEF TNext, TCall, TGetPermit, TRetry, TTick, TOther, tvars, Next, Answer
<1> QED
  BY <1>1, <1>2, PTL DEF TSpec, Spec

LEMMA WaitingIsFinite ==
  ASSUME NEW b PROVE IsFiniteSet(Waiting(b)) /\ Cardinality(Waiting(b)) \in Nat
<1>1. Waiting(b) \subseteq Tasks
  BY DEF Waiting
<1> QED
  BY <1>1, TasksAssumption, FS_Subset, FS_CardinalityType

LEMMA TInitInv == TInit => TInv
<1> SUFFICES ASSUME TInit PROVE TInv
  OBVIOUS
<1>1. Inv
  BY InitInv DEF TInit
<1>2. HistoryOK /\ IdleForgets
  BY RetryAssumption DEF TInit, Init, HistoryOK, IdleForgets
<1>3. TokensAccounted
  <2> SUFFICES ASSUME NEW b \in Buckets
               PROVE  sent[b] + Cardinality(Waiting(b)) + tokens[b] <= MaxRps + elapsed
    BY DEF TokensAccounted
  <2>1. Waiting(b) = {}
    BY DEF TInit, Init, Waiting
  <2>2. Cardinality(Waiting(b)) = 0
    BY <2>1, FS_EmptySet
  <2> QED
    BY <2>2, LimitsAssumption DEF TInit, Init
<1>4. TriesFollowAttempt
  BY DEF TInit, Init, TriesFollowAttempt
<1>5. RetryBudget
  BY RetryAssumption DEF TInit, Init, RetryBudget
<1>6. SleepCoversBackoff /\ BackoffObserved
  BY DEF TInit, Init, SleepCoversBackoff, BackoffObserved
<1> QED
  BY <1>1, <1>2, <1>3, <1>4, <1>5, <1>6 DEF TInv

----------------------------------------------------------------------------
\* One lemma per part of the invariant; each looks at the actions that can
\* disturb it.

LEMMA HistoryStep == TInv /\ [TNext]_tvars => HistoryOK'
<1> SUFFICES ASSUME TInv, [TNext]_tvars PROVE HistoryOK'
  OBVIOUS
<1> USE DEF TInv, HistoryOK
<1>1. ASSUME NEW t \in Tasks, NEW h \in Hosts, TCall(t, h) PROVE HistoryOK'
  BY <1>1, RetryAssumption DEF TCall
<1>2. ASSUME NEW t \in Tasks, TGetPermit(t) PROVE HistoryOK'
  <2>1. BucketOfTask(t) \in Buckets
    BY BucketAssumption DEF BucketOfTask, Inv, TypeOK
  <2> QED
    BY <1>2, <2>1 DEF TGetPermit
<1>3. ASSUME NEW t \in Tasks, TRetry(t) PROVE HistoryOK'
  BY <1>3, RetryAssumption DEF TRetry
<1>4. ASSUME NEW t \in Tasks, TOther(t) PROVE HistoryOK'
  BY <1>4 DEF TOther, history
<1>5. ASSUME TTick PROVE HistoryOK'
  BY <1>5, RetryAssumption DEF TTick
<1>6. ASSUME UNCHANGED tvars PROVE HistoryOK'
  BY <1>6 DEF tvars, history
<1> QED
  BY <1>1, <1>2, <1>3, <1>4, <1>5, <1>6 DEF TNext

LEMMA TokensStep == TInv /\ [TNext]_tvars => TokensAccounted'
<1> SUFFICES ASSUME TInv, [TNext]_tvars, NEW b \in Buckets
             PROVE  (sent[b] + Cardinality(Waiting(b)) + tokens[b] <= MaxRps + elapsed)'
  BY DEF TokensAccounted
<1> DEFINE Accounted == sent[b] + Cardinality(Waiting(b)) + tokens[b] <= MaxRps + elapsed
<1>a. Accounted /\ sent[b] \in Nat /\ tokens[b] \in 0..MaxRps /\ elapsed \in Nat
  BY DEF TInv, TokensAccounted, HistoryOK, Inv, TypeOK
<1>b. IsFiniteSet(Waiting(b)) /\ Cardinality(Waiting(b)) \in Nat
  BY WaitingIsFinite
<1>c. TypeOK
  BY DEF TInv, Inv
<1>d. ASSUME Waiting(b)' = Waiting(b), sent'[b] = sent[b], tokens'[b] = tokens[b],
             elapsed' = elapsed
      PROVE  Accounted'
  BY <1>a, <1>d
<1>1. ASSUME NEW t \in Tasks, NEW h \in Hosts, TCall(t, h) PROVE Accounted'
  <2>1. Waiting(b)' = Waiting(b)
    BY <1>1, <1>c DEF TCall, Call, Waiting, TypeOK
  <2> QED
    BY <1>1, <1>d, <2>1 DEF TCall, Call
<1>2. ASSUME NEW t \in Tasks, TGetPermit(t) PROVE Accounted'
  <2>0. BucketOfTask(t) \in Buckets
    BY <1>c, BucketAssumption DEF BucketOfTask, TypeOK
  <2>1. CASE BucketOfTask(t) = b
    <3>1. Waiting(b)' = Waiting(b) \ {t} /\ t \in Waiting(b)
      BY <1>2, <1>c, <2>1 DEF TGetPermit, GetPermit, Waiting, TypeOK, BucketOfTask
    <3>2. Cardinality(Waiting(b)') = Cardinality(Waiting(b)) - 1
      BY <3>1, <1>b, FS_RemoveElement
    <3>3. sent'[b] = sent[b] + 1 /\ tokens' = tokens /\ elapsed' = elapsed
      BY <1>2, <2>1 DEF TGetPermit, GetPermit, TInv, HistoryOK
    <3> QED
      BY <3>2, <3>3, <1>a, <1>b
  <2>2. CASE BucketOfTask(t) # b
    <3>1. Waiting(b)' = Waiting(b)
      BY <1>2, <1>c, <2>2 DEF TGetPermit, GetPermit, Waiting, TypeOK, BucketOfTask
    <3>2. sent'[b] = sent[b] /\ tokens' = tokens /\ elapsed' = elapsed
      BY <1>2, <2>2 DEF TGetPermit, GetPermit, TInv, HistoryOK
    <3> QED
      BY <3>1, <3>2, <1>d
  <2> QED
    BY <2>1, <2>2
<1>3. ASSUME NEW t \in Tasks, TRetry(t) PROVE Accounted'
  <2>1. Waiting(b)' = Waiting(b)
    BY <1>3, <1>c DEF TRetry, Retry, Waiting, TypeOK
  <2> QED
    BY <1>3, <1>d, <2>1 DEF TRetry, Retry
<1>4. ASSUME NEW t \in Tasks, TakeToken(t), UNCHANGED history PROVE Accounted'
  <2>0. BucketOfTask(t) \in Buckets
    BY <1>c, BucketAssumption DEF BucketOfTask, TypeOK
  <2>1. CASE BucketOfTask(t) = b
    <3>1. Waiting(b)' = Waiting(b) \cup {t} /\ t \notin Waiting(b)
      BY <1>4, <1>c, <2>1 DEF TakeToken, Waiting, TypeOK, BucketOfTask
    <3>2. Cardinality(Waiting(b)') = Cardinality(Waiting(b)) + 1
      BY <3>1, <1>b, FS_AddElement
    <3>3. tokens'[b] = tokens[b] - 1 /\ sent' = sent /\ elapsed' = elapsed
      BY <1>4, <1>c, <2>1 DEF TakeToken, history, TypeOK
    <3> QED
      BY <3>2, <3>3, <1>a, <1>b
  <2>2. CASE BucketOfTask(t) # b
    <3>1. Waiting(b)' = Waiting(b)
      BY <1>4, <1>c, <2>2 DEF TakeToken, Waiting, TypeOK, BucketOfTask
    <3>2. tokens'[b] = tokens[b] /\ sent' = sent /\ elapsed' = elapsed
      BY <1>4, <1>c, <2>2 DEF TakeToken, history, TypeOK
    <3> QED
      BY <3>1, <3>2, <1>d
  <2> QED
    BY <2>1, <2>2
<1>5. ASSUME NEW t \in Tasks, TOther(t), ~TakeToken(t) PROVE Accounted'
  <2>1. Waiting(b)' \subseteq Waiting(b)
    BY <1>5, <1>c DEF TOther, Success, Refuse, GiveUp, Wake, ReadBody, Cancel, EndCall,
                      Waiting, TypeOK
  <2>2. Cardinality(Waiting(b)') <= Cardinality(Waiting(b))
        /\ Cardinality(Waiting(b)') \in Nat
    BY <2>1, <1>b, FS_Subset, FS_CardinalityType
  <2>3. sent' = sent /\ tokens' = tokens /\ elapsed' = elapsed
    BY <1>5 DEF TOther, history, Success, Refuse, GiveUp, Wake, ReadBody, Cancel
  <2>4. sent'[b] = sent[b] /\ tokens'[b] = tokens[b]
    BY <2>3
  <2> HIDE DEF Accounted
  <2>5. Accounted' <=> sent'[b] + Cardinality(Waiting(b)') + tokens'[b] <= MaxRps + elapsed'
    BY DEF Accounted
  <2>6. sent[b] + Cardinality(Waiting(b)) + tokens[b] <= MaxRps + elapsed
    BY <1>a DEF Accounted
  <2> QED
    BY <2>2, <2>3, <2>4, <2>5, <2>6, <1>a, <1>b, LimitsAssumption, SMTT(60)
<1>6. ASSUME TTick PROVE Accounted'
  <2>1. Waiting(b)' = Waiting(b)
    BY <1>6 DEF TTick, Tick, Waiting
  <2>2. tokens'[b] <= tokens[b] + 1 /\ tokens'[b] \in Nat /\ sent' = sent
        /\ elapsed' = elapsed + 1
    BY <1>6, <1>a, LimitsAssumption DEF TTick, Tick
  <2> QED
    BY <2>1, <2>2, <1>a, <1>b, LimitsAssumption
<1>7. ASSUME UNCHANGED tvars PROVE Accounted'
  <2>1. Waiting(b)' = Waiting(b)
    BY <1>7 DEF tvars, vars, Waiting
  <2> QED
    BY <1>7, <1>d, <2>1 DEF tvars, vars, history
<1>8. ASSUME NEW t \in Tasks, TOther(t) PROVE Accounted'
  BY <1>8, <1>4, <1>5 DEF TOther
<1> QED
  BY <1>1, <1>2, <1>3, <1>6, <1>7, <1>8 DEF TNext

LEMMA TriesStep == TInv /\ [TNext]_tvars => TriesFollowAttempt' /\ RetryBudget'
<1> SUFFICES ASSUME TInv, [TNext]_tvars
             PROVE  TriesFollowAttempt' /\ RetryBudget'
  OBVIOUS
<1>a. TypeOK /\ HistoryOK /\ TriesFollowAttempt /\ RetryBudget /\ SleepersMayRetry
  BY DEF TInv, Inv
<1> USE RetryAssumption, <1>a
    DEF TypeOK, HistoryOK, TriesFollowAttempt, RetryBudget, Stages, Outcomes
<1>1. ASSUME NEW t \in Tasks, NEW h \in Hosts, TCall(t, h)
      PROVE  TriesFollowAttempt' /\ RetryBudget'
  <2>1. attempt[t] = 0
    BY <1>1 DEF TCall, Call, TInv, IdleForgets
  <2> QED
    BY <1>1, <2>1 DEF TCall, Call
<1>2. ASSUME NEW t \in Tasks, TGetPermit(t) PROVE TriesFollowAttempt' /\ RetryBudget'
  BY <1>2 DEF TGetPermit, GetPermit
<1>3. ASSUME NEW t \in Tasks, TRetry(t)
      PROVE  TriesFollowAttempt' /\ RetryBudget'
  BY <1>3 DEF TRetry, Retry
<1>4. ASSUME NEW t \in Tasks, TakeToken(t), UNCHANGED history
      PROVE  TriesFollowAttempt' /\ RetryBudget'
  BY <1>4 DEF TakeToken, history
<1>5. ASSUME NEW t \in Tasks, Success(t), UNCHANGED history
      PROVE  TriesFollowAttempt' /\ RetryBudget'
  BY <1>5 DEF Success, history
<1>6. ASSUME NEW t \in Tasks, NEW r \in {"notfound", "refused"}, Refuse(t, r),
             UNCHANGED history
      PROVE  TriesFollowAttempt' /\ RetryBudget'
  BY <1>6 DEF Refuse, EndCall, history
<1>7. ASSUME NEW t \in Tasks, NEW r \in TransientFailures, GiveUp(t, r), UNCHANGED history
      PROVE  TriesFollowAttempt' /\ RetryBudget'
  BY <1>7 DEF GiveUp, EndCall, history, TransientFailures
<1>8. ASSUME NEW t \in Tasks, Wake(t), UNCHANGED history
      PROVE  TriesFollowAttempt' /\ RetryBudget'
  BY <1>8 DEF Wake, history
<1>9. ASSUME NEW t \in Tasks, NEW r \in {"ok", "network"}, ReadBody(t, r), UNCHANGED history
      PROVE  TriesFollowAttempt' /\ RetryBudget'
  BY <1>9 DEF ReadBody, EndCall, history
<1>10. ASSUME NEW t \in Tasks, Cancel(t), UNCHANGED history
       PROVE  TriesFollowAttempt' /\ RetryBudget'
  BY <1>10 DEF Cancel, EndCall, history
<1>11. ASSUME TTick PROVE TriesFollowAttempt' /\ RetryBudget'
  BY <1>11 DEF TTick, Tick
<1>12. ASSUME UNCHANGED tvars PROVE TriesFollowAttempt' /\ RetryBudget'
  BY <1>12 DEF tvars, vars, history
<1> QED
  BY <1>1, <1>2, <1>3, <1>4, <1>5, <1>6, <1>7, <1>8, <1>9, <1>10, <1>11, <1>12
     DEF TNext, TOther

LEMMA IdleStep == TInv /\ [TNext]_tvars => IdleForgets'
<1> SUFFICES ASSUME TInv, [TNext]_tvars PROVE IdleForgets'
  OBVIOUS
<1>a. TypeOK /\ IdleForgets
  BY DEF TInv, Inv
<1>b. [Next]_vars
  BY DEF TNext, TCall, TGetPermit, TRetry, TTick, TOther, tvars, Next, Answer
<1> USE <1>a DEF TypeOK, IdleForgets
<1>1. CASE \E t \in Tasks : (\E h \in Hosts : Call(t, h)) \/ TakeToken(t) \/ GetPermit(t)
  BY <1>1 DEF Call, TakeToken, GetPermit
<1>2. CASE \E t \in Tasks : Answer(t)
  BY <1>2 DEF Answer, Success, Refuse, Retry, GiveUp, EndCall
<1>3. CASE \E t \in Tasks : Wake(t) \/ Cancel(t) \/ \E r \in {"ok", "network"} : ReadBody(t, r)
  BY <1>3 DEF Wake, Cancel, ReadBody, EndCall
<1>4. CASE Tick \/ Finished \/ UNCHANGED vars
  BY <1>4 DEF Tick, Finished, vars
<1> QED
  BY <1>b, <1>1, <1>2, <1>3, <1>4 DEF Next

LEMMA BackoffStep == TInv /\ [TNext]_tvars => SleepCoversBackoff' /\ BackoffObserved'
<1> SUFFICES ASSUME TInv, [TNext]_tvars
             PROVE  SleepCoversBackoff' /\ BackoffObserved'
  OBVIOUS
<1>a. TypeOK /\ HistoryOK /\ SleepCoversBackoff /\ BackoffObserved /\ IdleForgets
  BY DEF TInv, Inv
<1>b. \A a \in 0..MaxRetries : Backoff(a) \in 0..MaxBackoff
  BY BackoffRange, RetryAssumption
<1> USE RetryAssumption, <1>a, <1>b
    DEF TypeOK, HistoryOK, SleepCoversBackoff, BackoffObserved, IdleForgets, Stages
<1>1. ASSUME NEW t \in Tasks, NEW h \in Hosts, TCall(t, h)
      PROVE  SleepCoversBackoff' /\ BackoffObserved'
  BY <1>1 DEF TCall, Call
<1>2. ASSUME NEW t \in Tasks, TGetPermit(t) PROVE SleepCoversBackoff' /\ BackoffObserved'
  BY <1>2 DEF TGetPermit, GetPermit
<1>3. ASSUME NEW t \in Tasks, TRetry(t)
      PROVE  SleepCoversBackoff' /\ BackoffObserved'
  BY <1>3 DEF TRetry, Retry
<1>4. ASSUME NEW t \in Tasks, TakeToken(t), UNCHANGED history
      PROVE  SleepCoversBackoff' /\ BackoffObserved'
  BY <1>4 DEF TakeToken, history
<1>5. ASSUME NEW t \in Tasks, Success(t), UNCHANGED history
      PROVE  SleepCoversBackoff' /\ BackoffObserved'
  BY <1>5 DEF Success, history
<1>6. ASSUME NEW t \in Tasks, NEW r, EndCall(t, r), UNCHANGED history,
             timer' = timer \/ timer' = [timer EXCEPT ![t] = 0]
      PROVE  SleepCoversBackoff' /\ BackoffObserved'
  BY <1>6 DEF EndCall, history
<1>7. ASSUME NEW t \in Tasks, Wake(t), UNCHANGED history
      PROVE  SleepCoversBackoff' /\ BackoffObserved'
  <2>1. rested[t] >= Backoff(attempt[t])
    BY <1>7 DEF Wake
  <2>2. attempt'[t] = attempt[t] + 1 /\ attempt'[t] - 1 = attempt[t]
    BY <1>7 DEF Wake
  <2>3. SleepCoversBackoff'
    BY <1>7 DEF Wake, history
  <2>4. BackoffObserved'
    <3> SUFFICES ASSUME NEW u \in Tasks, pc'[u] \in {"token", "queued", "sending"},
                        attempt'[u] > 0
                 PROVE  rested'[u] >= Backoff(attempt'[u] - 1)
      BY DEF Backoff
    <3>1. CASE u = t
      BY <1>7, <2>1, <2>2, <3>1 DEF history
    <3>2. CASE u # t
      BY <1>7, <3>2 DEF Wake, history
    <3> QED
      BY <3>1, <3>2
  <2> QED
    BY <2>3, <2>4
<1>8. ASSUME TTick PROVE SleepCoversBackoff' /\ BackoffObserved'
  <2>1. pc' = pc /\ attempt' = attempt
    BY <1>8 DEF TTick, Tick
  <2>2. \A u \in Tasks : /\ rested'[u] = IF rested[u] < MaxBackoff THEN rested[u] + 1
                                                                   ELSE MaxBackoff
                         /\ timer'[u] = IF timer[u] > 0 THEN timer[u] - 1 ELSE 0
    BY <1>8 DEF TTick, Tick
  <2>3. SleepCoversBackoff'
    BY <2>1, <2>2
  <2>4. BackoffObserved'
    BY <2>1, <2>2
  <2> QED
    BY <2>3, <2>4
<1>9. ASSUME UNCHANGED tvars PROVE SleepCoversBackoff' /\ BackoffObserved'
  BY <1>9 DEF tvars, vars, history
<1>10. ASSUME NEW t \in Tasks, TOther(t) PROVE SleepCoversBackoff' /\ BackoffObserved'
  BY <1>10, <1>4, <1>5, <1>6, <1>7 DEF TOther, Refuse, GiveUp, ReadBody, Cancel
<1> QED
  BY <1>1, <1>2, <1>3, <1>8, <1>9, <1>10 DEF TNext

LEMMA TInvariance == TSpec => []TInv
<1>1. TInv /\ [TNext]_tvars => TInv'
  <2>1. [TNext]_tvars => [Next]_vars
    BY DEF TNext, TCall, TGetPermit, TRetry, TTick, TOther, tvars, Next, Answer
  <2>2. TInv /\ [TNext]_tvars => Inv'
    BY <2>1, NextInv DEF TInv
  <2> QED
    BY <2>2, HistoryStep, TokensStep, TriesStep, IdleStep, BackoffStep DEF TInv
<1> QED
  BY <1>1, TInitInv, PTL DEF TSpec

\* A bucket never sends more than its burst plus one request per tick, for
\* every limit, number of callers, schedule of failures and cancellations.
THEOREM LongRunRateHolds == TSpec => []LongRunRate
<1>1. TInv => LongRunRate
  <2> SUFFICES ASSUME TInv, NEW b \in Buckets PROVE sent[b] <= MaxRps + elapsed
    BY DEF LongRunRate
  <2>1. Cardinality(Waiting(b)) \in Nat
    BY WaitingIsFinite
  <2>2. /\ sent[b] + Cardinality(Waiting(b)) + tokens[b] <= MaxRps + elapsed
        /\ sent[b] \in Nat /\ tokens[b] \in Nat /\ elapsed \in Nat
    BY LimitsAssumption DEF TInv, TokensAccounted, HistoryOK, Inv, TypeOK
  <2> QED
    BY <2>1, <2>2, LimitsAssumption
<1> QED
  BY <1>1, TInvariance, PTL

\* A call sends at most max_retries + 1 requests and reports a transient
\* failure of the server only after all of them.
THEOREM RetryBudgetHolds == TSpec => []RetryBudget
<1>1. TInv => RetryBudget
  BY DEF TInv
<1> QED
  BY <1>1, TInvariance, PTL

\* No request of a call follows a failed one by less than its backoff.
THEOREM BackoffIsObserved == TSpec => []BackoffObserved
<1>1. TInv => BackoffObserved
  BY DEF TInv
<1> QED
  BY <1>1, TInvariance, PTL
=============================================================================
