---------------------------- MODULE AtomicCache ----------------------------
(***************************************************************************)
(* What a cache promises about one key: a put replaces the entry in one    *)
(* step, a get answers with the entry of one instant during the call or    *)
(* with a miss, and an entry may be dropped at any time.                   *)
(***************************************************************************)
CONSTANTS Workers, Contents, NoEntry

VARIABLES
  stored,   \* the bytes of the entry, or NoEntry
  answer    \* what each worker's get has found

avars == <<stored, answer>>

AInit ==
  /\ stored = NoEntry
  /\ answer = [w \in Workers |-> NoEntry]

APut(c) ==
  /\ stored' = c
  /\ UNCHANGED answer

ADrop ==
  /\ stored' = NoEntry
  /\ UNCHANGED answer

AGet(w) ==
  /\ answer' = [answer EXCEPT ![w] = stored]
  /\ UNCHANGED stored

\* A get that turns into a miss, and a worker that starts over.
AForget(S) ==
  /\ answer' = [w \in Workers |-> IF w \in S THEN NoEntry ELSE answer[w]]
  /\ UNCHANGED stored

ANext ==
  \/ \E c \in Contents : APut(c)
  \/ ADrop
  \/ \E w \in Workers : AGet(w)
  \/ \E S \in SUBSET Workers : AForget(S)

ASpec == AInit /\ [][ANext]_avars
=============================================================================
