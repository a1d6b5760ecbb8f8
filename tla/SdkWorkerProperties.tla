------------------------ MODULE SdkWorkerProperties ------------------------
(***************************************************************************)
(* What CodexSdkWorkerTransport promises of one Run.                       *)
(***************************************************************************)
EXTENDS SdkWorker, SequencesExt

\* The callback interface GatewayService.start_run relies on.
Callback == INSTANCE TurnCallback WITH
  Starts <- {Run},
  answer <- [s \in {Run} |-> answer],
  told   <- [s \in {Run} |-> CASE told = <<>> -> "none"
                              [] Len(told) = 1 -> told[1]
                              [] OTHER -> "twice"]

(* The transport is a TurnCallback: start_turn ends once, on_terminal is called
   at most once, and a start the Gateway was told is rejected (and may offer
   again) is never followed by an outcome, though the reader goes on while
   start_turn gives up.                                                    *)
ImplementsCallback == Callback!Spec

-----------------------------------------------------------------------------
(* The verdict on a worker's output, taken from the lines themselves.        *)

Plain(line) == line \in {"thread", "turn"}

\* The lines before the first that is neither the thread's nor the turn's start.
Opening(lines) == SelectInSeq(lines, LAMBDA line : ~Plain(line))

HasOpened(lines) ==
  LET first == Opening(lines)
      upTo  == IF first = 0 THEN Len(lines) ELSE first - 1
  IN  {"thread", "turn"} \subseteq {lines[i] : i \in 1..upTo}

\* The outcome of a worker that has written these lines and will write no more.
OutcomeOf(lines) ==
  LET first == Opening(lines)
  IN  IF ~HasOpened(lines) THEN <<>>
      ELSE IF first = 0 THEN <<"failed">>
      ELSE IF lines[first] \in {"strange", "garbage"} THEN <<"unknown">>
      ELSE <<lines[first]>>

(* The outcome told is the first fact the worker reports after both its thread
   and its turn have been seen, with nothing else before them; a worker that
   leaves without one has failed; and a worker that never earned authority is
   never spoken for, whatever it says later.  All it wrote counts, unless a
   second was not enough for the reader to finish.                          *)
ToldIsFirstFact ==
  /\ told # <<>> \/ reader.pc = "done" => told = OutcomeOf(seen)
  /\ reader.pc = "done" /\ "reader_join_timeout" \notin faults => output = <<>>

(* A start is rejected only if the worker has not written turn.started: no line
   of it is waiting in the pipe or was overlooked when the start gave up
   (start_turn joins the reader before it looks at turnStarted).            *)
RejectedHasNotStarted ==
  (answer = "rejected" /\ "reader_join_timeout" \notin faults) =>
    \A i \in 1..Len(seen \o output) : (seen \o output)[i] # "turn"

(* A worker that is gone, however it went, is settled: its Run gets an outcome
   if the start returned, and the child leaves the table with its pipes closed,
   so that nothing is left to interrupt.                                    *)
DeadIsSettled ==
  process = "dead" ~> ((answer = "returned" => told # <<>>) /\ ~registered /\ closed)

=============================================================================
