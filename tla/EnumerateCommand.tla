-------------------------- MODULE EnumerateCommand --------------------------
(***************************************************************************)
(* ccdl enumerate and ccdl search: write_stream at the end of the streams  *)
(* of Enumerate.  It writes captures as they come, or keeps one to write   *)
(* at the end; the first error ends the command, whose exit code is all a  *)
(* script sees.  Beside it a consumer of the library, which goes on.       *)
(***************************************************************************)
EXTENDS Enumerate

CONSTANTS TimeOf   \* Capture::timestamp

ASSUME TimeAssumption == TimeOf \in [Captures -> Nat]

\* Reduce, and the consumer that is not the command.
Uses == {"none", "newest", "oldest", "library"}

VARIABLES
  use,
  read,      \* items the command has looked at
  chosen,    \* the capture kept so far, in a sequence of at most one
  written,   \* what went to the output
  exit       \* the exit code

command == <<use, read, chosen, written, exit>>
cvars == <<evars, command>>

Running == -1
IsCommand == use # "library" /\ exit = Running

\* The command line has no byte limit.
CommandInit ==
  /\ EInit
  /\ use \in Uses
  /\ use # "library" => order.max_bytes = Unlimited
  /\ read = 0 /\ chosen = <<>> /\ written = <<>>
  /\ exit = Running

----------------------------------------------------------------------------
\* exit_for, of the errors a search can end with.
ExitFor(kind) == CASE kind = "RateLimited" -> 3
                   [] kind = "IndexTooLarge" -> 4
                   [] OTHER -> 1

\* Of captures of one time the one that came first is kept.
Keeps(pos) ==
  LET time == TimeOf[CaptureAt(pos)]
  IN  \/ chosen = <<>>
      \/ use = "newest" /\ time > TimeOf[CaptureAt(chosen[1])]
      \/ use = "oldest" /\ time < TimeOf[CaptureAt(chosen[1])]

\* The next item is awaited when the last has been seen to.
AwaitItem == Want /\ (use # "library" => read = Len(items)) /\ UNCHANGED command

Streams ==
  /\ AwaitInner \/ InnerYields \/ InnerWorks \/ (use = "library" /\ DropAll)
  /\ UNCHANGED command

\* A capture is written, or compared with the one kept.
ReadCapture ==
  /\ IsCommand /\ read < Len(items) /\ items[read + 1].ok
  /\ read' = read + 1
  /\ LET pos == items[read'].pos
     IN  IF use = "none"
           THEN written' = Append(written, pos) /\ UNCHANGED chosen
           ELSE chosen' = (IF Keeps(pos) THEN <<pos>> ELSE chosen) /\ UNCHANGED written
  /\ UNCHANGED <<evars, use, exit>>

\* Fault: an exhausted budget is taken for the end of the stream.
ReadExhaustedEnding ==
  /\ IsCommand /\ read < Len(items) /\ ~items[read + 1].ok
  /\ read' = read + 1
  /\ exit' = 0
  /\ written' = IF use = "none" THEN written ELSE chosen
  /\ DropAll
  /\ UNCHANGED <<use, chosen>>

\* The budget is exhausted: the command ends, and drops the stream and what it kept.
ReadExhausted ==
  /\ IsCommand /\ read < Len(items) /\ ~items[read + 1].ok
  /\ read' = read + 1
  /\ exit' = 3
  /\ DropAll
  /\ UNCHANGED <<use, chosen, written>>

\* The stream ends in an error.
ReadError ==
  /\ IsCommand /\ read = Len(items) /\ stage = "failed"
  /\ exit' = ExitFor(error)
  /\ UNCHANGED <<evars, use, read, chosen, written>>

\* The stream ends: a capture kept is written.
ReadEnd ==
  /\ IsCommand /\ read = Len(items) /\ stage = "ended"
  /\ exit' = 0
  /\ written' = IF use = "none" THEN written ELSE chosen
  /\ UNCHANGED <<evars, use, read, chosen>>

CommandOver == ~Live /\ ~IsCommand /\ UNCHANGED cvars

CommandNext ==
  \/ AwaitItem \/ Streams
  \/ ReadCapture \/ ReadExhausted \/ ReadError \/ ReadEnd
  \/ CommandOver

CommandSpec == CommandInit /\ [][CommandNext]_cvars

\* The consumer keeps awaiting, and the executor polls what it awaits.
CommandFairSpec ==
  /\ CommandSpec
  /\ WF_cvars(AwaitItem)
  /\ WF_cvars(AwaitInner /\ UNCHANGED command)
  /\ WF_cvars((InnerYields \/ InnerWorks) /\ UNCHANGED command)
  /\ WF_cvars(ReadCapture \/ ReadExhausted \/ ReadError \/ ReadEnd)

----------------------------------------------------------------------------
\* What went to the output, as times.
TimesOf(positions) == {TimeOf[CaptureAt(p)] : p \in positions}
Written == {written[k] : k \in DOMAIN written}

\* The exit code tells what the output is worth (README, "Exit codes"; main.rs).
\* 0: everything the index yielded, duplicates apart, was written, or the newest
\* (oldest) of it; nothing is an answer too.  3: the rate limit, or as many
\* captures as the budget allows were written and there is one more.  4: a crawl
\* was wider than the guard, after everything of the crawls before it.  A command
\* that keeps one capture writes none unless it has seen all.
ExitTells ==
  /\ exit = 0 =>
       /\ stage = "ended" /\ Written \subseteq Firsts
       /\ use = "none" => Written = Firsts /\ Len(written) = Cardinality(Firsts)
       /\ use # "none" => /\ Len(written) = IF Firsts = {} THEN 0 ELSE 1
                          /\ \A t \in TimesOf(Written), u \in TimesOf(Firsts) :
                               IF use = "newest" THEN t >= u ELSE t <= u
  /\ exit = 3 /\ error # "RateLimited" =>
       /\ Cardinality(Firsts) = order.max_records + 1
       /\ use = "none" => Cardinality(Written) = order.max_records
  /\ exit = 4 =>
       /\ PagesOf(crawl) > MaxPages /\ \A q \in asked : q[1] < crawl
       /\ use = "none" => Written = Firsts
  /\ exit # 0 /\ use # "none" => written = <<>>

\* A stream whose consumer keeps awaiting comes to its end or to an error, and a
\* command to its exit.
EnumerationEnds == <>(~Live /\ ~IsCommand)
=============================================================================
