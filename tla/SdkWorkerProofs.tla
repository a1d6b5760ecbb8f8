--------------------------- MODULE SdkWorkerProofs ---------------------------
(***************************************************************************)
(* The promises of CodexSdkWorkerTransport for every number of events,     *)
(* interruptions and faults: the verdict on a start agrees with what the   *)
(* worker wrote, the outcome told is the first fact the worker reported,   *)
(* and the transport implements the callback interface of module           *)
(* TurnCallback.                                                           *)
(***************************************************************************)
EXTENDS SdkWorkerProperties, SequenceTheorems, TLAPS

-----------------------------------------------------------------------------
(* The inductive invariant, in three parts.                                *)

(* Where the threads are: start_turn spawns the worker and its reader once,
   waits, and answers once; interrupt_turn comes after a start that returned. *)
Begun == reader.pc # "none"

Lifecycle ==
  /\ answer = "none" <=> starter = "none"
  /\ answer \in {"returned", "rejected", "unknown"} <=> starter = "done"
  /\ Begun <=> process # "none"
  /\ starter \in {"none", "spawn"} => ~Begun
  /\ starter \in {"wait", "decide", "reap", "join", "verdict"} => Begun
  /\ starter = "done" /\ ~Begun => answer = "rejected"
  /\ starter \in {"join", "verdict"} => process = "dead"
  /\ interrupter # "none" => answer = "returned"
  /\ interrupter = "bury" => process = "dead"
  /\ ~Begun => seen = <<>> /\ output = <<>> /\ ~closed
  /\ closed <=> cleaned
  /\ closed => process = "dead"

(* Once the reader is past the worker's last line nothing more is in the pipe,
   unless a wait for it was given up and the pipe was closed under it.      *)
InTime == "reader_join_timeout" \notin faults

Drained ==
  InTime =>
    /\ closed => reader.pc = "done"
    /\ reader.pc \in {"last", "cleanup", "done"} \/ reader.final
         => process = "dead" /\ output = <<>>
    /\ starter = "verdict" => reader.pc = "done"
    /\ answer = "rejected" => reader.pc \in {"none", "done"} /\ ~turnStarted

\* What has to be true of the flags, whatever the worker wrote.
Authority ==
  /\ authoritative =>
       turnStarted /\ ~startupError /\ ~identityError /\ ~prematureTerminal
  /\ started => turnStarted
  /\ turnStarted <=> \E i \in DOMAIN seen : seen[i] = "turn"
  /\ terminalNotified <=> told # <<>>
  /\ Len(told) <= 1
  /\ told # <<>> => turnStarted
  /\ reader.pc = "notify" <=> reader.says # "none"
  /\ reader.pc = "notify" => turnStarted
  /\ reader.final => reader.pc = "notify"
  /\ answer = "rejected" =>
       /\ told = <<>>
       /\ reader.pc # "notify"
       /\ Begun => startupError \/ identityError

\* What the flags and the reports say of the lines read.
Fallen == startupError \/ identityError \/ prematureTerminal

Reported ==
  \/ told = OutcomeOf(seen)
  \/ told = <<>> /\ reader.pc = "notify" /\ <<reader.says>> = OutcomeOf(seen)

Reading ==
  LET first == Opening(seen)
  IN  /\ first = 0 =>
           /\ ~Fallen
           /\ identity = "match" <=> \E i \in DOMAIN seen : seen[i] = "thread"
           /\ authoritative <=> HasOpened(seen)
           /\ reader.pc = "notify" => reader.final /\ authoritative
           /\ ~reader.final /\ reader.pc \notin {"cleanup", "done"} => told = <<>>
           /\ reader.pc \in {"cleanup", "done"} \/ reader.final => Reported
      /\ first # 0 /\ HasOpened(seen) => Reported
      /\ first # 0 /\ ~HasOpened(seen) =>
           ~authoritative /\ Fallen /\ told = <<>> /\ reader.pc # "notify"
      /\ reader.pc \in {"cleanup", "done"} => told = OutcomeOf(seen)

\* Opening(lines) is the first line that is not plain.
IsOpening(lines, first) ==
  /\ first \in 0..Len(lines)
  /\ first = 0 => \A i \in 1..Len(lines) : Plain(lines[i])
  /\ first # 0 => ~Plain(lines[first]) /\ \A i \in 1..(first - 1) : Plain(lines[i])

Opened == IsOpening(seen, Opening(seen))

\* The inductive invariant.
WorkerInv == TypeOK /\ Lifecycle /\ Drained /\ Authority /\ Reading /\ Opened

-----------------------------------------------------------------------------
(* Types.                                                                  *)

\* A cleanup leaves flags and a process that may be.
LEMMA CleanTypes ==
  ASSUME TypeOK, Clean
  PROVE  /\ cleaned' \in BOOLEAN /\ registered' \in BOOLEAN /\ closed' \in BOOLEAN
         /\ process' \in {"none", "running", "exiting", "dead"}
BY DEF TypeOK, Clean

\* A wait for the reader leaves the faults within those allowed.
LEMMA JoinTypes == ASSUME TypeOK, JoinsReader PROVE faults' \subseteq Faults
BY DEF TypeOK, JoinsReader, Fault

\* The record of a reader, wherever it goes next.
ReaderStates ==
  [pc: {"none", "read", "notify", "last", "cleanup", "done"},
   says: Outcomes \cup {"none"}, final: BOOLEAN]

\* A reader that goes on has nothing to report.
LEMMA AtTypes ==
  ASSUME NEW pc \in {"read", "last", "cleanup", "done"}, At(pc)
  PROVE  reader' \in ReaderStates
BY DEF At, ReaderStates

\* A reader that reports names an outcome.
LEMMA ReportsTypes ==
  ASSUME NEW says \in Outcomes, NEW final \in BOOLEAN, Reports(says, final)
  PROVE  reader' \in ReaderStates
BY DEF Reports, ReaderStates

\* Every step respects the types.
LEMMA NextTypeOK ==
  ASSUME ConstantsAssumption, TypeOK, Authority, [Next]_vars
  PROVE  TypeOK'
<1> USE DEF TypeOK, flags, upkeep, threads, results, worker
<1>1. CASE JoinAndClean
  BY <1>1, CleanTypes, JoinTypes DEF JoinAndClean
<1>2. CASE Bury
  BY <1>2, CleanTypes, JoinTypes DEF Bury
<1>3. CASE Interrupted
  BY <1>3, CleanTypes, JoinTypes DEF Interrupted
<1>4. CASE ReaderCleans
  BY <1>4, CleanTypes, AtTypes DEF ReaderCleans, ReaderStates
<1>5. CASE ReaderEnds
  <2>1. reader' \in ReaderStates
    BY <1>5, AtTypes, ReportsTypes DEF ReaderEnds, LastWord, Outcomes
  <2> QED BY <1>5, <2>1 DEF ReaderEnds, ReaderStates
<1>6. CASE StreamEnds
  <2>1. output' \in Seq(Events)
    <3>1. \A e \in Events : Append(output, e) \in Seq(Events)
      OBVIOUS
    <3>2. (IF aborting THEN "interrupted" ELSE "failed") \in Events
      BY DEF Events, SdkEvents
    <3> QED BY <1>6, <3>1, <3>2 DEF StreamEnds
  <2> QED BY <1>6, <2>1 DEF StreamEnds
<1>7. CASE Notify
  <2>1. told' \in Seq(Outcomes) /\ terminalNotified' \in BOOLEAN
    BY <1>7 DEF Notify, TestAndSet, Authority
  <2>2. UNCHANGED <<flags, cleaned, registered, closed, starter, interrupter, interrupts,
                    answer, worker, seen, faults>>
    BY <1>7 DEF Notify
  <2>3. reader' \in ReaderStates
    BY <1>7, AtTypes DEF Notify
  <2> QED BY <2>1, <2>2, <2>3 DEF ReaderStates
<1>8. CASE ReadLine
  <2>1. output' \in Seq(Events) /\ seen' \in Seq(Events)
    BY <1>8 DEF ReadLine
  <2>2. UNCHANGED <<upkeep, starter, interrupter, interrupts, results, process, aborting,
                    emitted, faults>>
    BY <1>8 DEF ReadLine
  <2>3. reader' \in ReaderStates
    BY <1>8, AtTypes, ReportsTypes DEF ReadLine, OnThread, OnStrange, OnTurn, OnError,
       OnTerminal, Outcomes
  <2>4. \A id, turn : Establishes(id, turn) \in BOOLEAN
    BY DEF Establishes
  <2>5. /\ identity' \in {"none", "match", "other"} /\ identityError' \in BOOLEAN
        /\ turnStarted' \in BOOLEAN /\ startupError' \in BOOLEAN
        /\ prematureTerminal' \in BOOLEAN /\ authoritative' \in BOOLEAN
        /\ started' \in BOOLEAN /\ outcomeUnknown' \in BOOLEAN /\ interruptAck' \in BOOLEAN
    <3>1. CASE OnThread \/ OnTurn
      BY <2>4, <3>1 DEF OnThread, OnTurn, EstablishAuthority
    <3>2. CASE OnStrange \/ OnError
      BY <3>2 DEF OnStrange, OnError
    <3>3. ASSUME NEW status, OnTerminal(status)
          PROVE  /\ identity' \in {"none", "match", "other"} /\ identityError' \in BOOLEAN
                 /\ turnStarted' \in BOOLEAN /\ startupError' \in BOOLEAN
                 /\ prematureTerminal' \in BOOLEAN /\ authoritative' \in BOOLEAN
                 /\ started' \in BOOLEAN /\ outcomeUnknown' \in BOOLEAN
                 /\ interruptAck' \in BOOLEAN
      BY <3>3 DEF OnTerminal
    <3> QED BY <1>8, <3>1, <3>2, <3>3 DEF ReadLine
  <2> QED BY <2>1, <2>2, <2>3, <2>5 DEF ReaderStates
<1>9. CASE Call \/ Interrupt \/ SpawnFails
  BY <1>9 DEF Call, Interrupt, SpawnFails, Fault, ConstantsAssumption
<1>15. CASE Spawn
  BY <1>15, AtTypes DEF Spawn, ReaderStates
<1>10. CASE StopWaiting \/ Decide \/ Reap \/ Raise
  BY <1>10 DEF StopWaiting, Decide, Reap, Raise, Verdict
<1>11. CASE OutputEnds
  BY <1>11, AtTypes DEF OutputEnds, ReaderStates
<1>12. CASE AckTimesOut \/ ExitTimesOut \/ Exit \/ Crash
  BY <1>12 DEF AckTimesOut, ExitTimesOut, Exit, Crash, Fault
<1>13. CASE Stream
  BY <1>13 DEF Stream, ConstantsAssumption, Events
<1>14. CASE UNCHANGED vars
  BY <1>14 DEF vars
<1> QED
  BY <1>1, <1>2, <1>3, <1>4, <1>5, <1>6, <1>7, <1>8, <1>9, <1>10, <1>11, <1>12, <1>13, <1>14,
     <1>15
     DEF Next, Starter, Reader, Interrupter
-----------------------------------------------------------------------------
(* The threads, the pipe and the flags.                                    *)

\* Threads follow their order: spawn, wait, decide; read, notify, clean.
LEMMA NextLifecycle ==
  ASSUME TypeOK, Lifecycle, [Next]_vars
  PROVE  Lifecycle'
<1> USE DEF TypeOK, Lifecycle, Begun, Alive, flags, upkeep, threads, results, worker
<1>1. CASE Call \/ Interrupt
  BY <1>1 DEF Call, Interrupt
<1>2. CASE Spawn
  BY <1>2 DEF Spawn, At
<1>3. CASE SpawnFails
  BY <1>3 DEF SpawnFails, Fault
<1>4. CASE StopWaiting \/ Decide \/ Reap
  BY <1>4 DEF StopWaiting, Decide, HasAuthority, Reap
<1>5. CASE JoinAndClean
  BY <1>5 DEF JoinAndClean, JoinsReader, Clean, Fault
<1>6. CASE Raise
  BY <1>6 DEF Raise, Verdict
<1>7. CASE ReadLine
  BY <1>7 DEF ReadLine, OnThread, OnStrange, OnTurn, OnError, OnTerminal, EstablishAuthority,
     Establishes, At, Reports
<1>8. CASE Notify
  BY <1>8 DEF Notify, TestAndSet, At
<1>9. CASE OutputEnds
  BY <1>9 DEF OutputEnds, At
<1>10. CASE ReaderEnds
  BY <1>10 DEF ReaderEnds, LastWord, At, Reports
<1>11. CASE ReaderCleans
  BY <1>11 DEF ReaderCleans, Clean, At
<1>12. CASE Bury \/ Interrupted
  BY <1>12 DEF Bury, JoinsReader, Clean, Fault, Interrupted
<1>13. CASE AckTimesOut \/ ExitTimesOut
  BY <1>13 DEF AckTimesOut, ExitTimesOut, Fault
<1>14. CASE Stream
  BY <1>14 DEF Stream
<1>15. CASE StreamEnds
  BY <1>15 DEF StreamEnds
<1>16. CASE Exit \/ Crash
  BY <1>16 DEF Exit, Crash, Fault
<1>17. CASE UNCHANGED vars
  BY <1>17 DEF vars
<1> QED
  BY <1>1, <1>2, <1>3, <1>4, <1>5, <1>6, <1>7, <1>8, <1>9, <1>10, <1>11, <1>12, <1>13, <1>14,
     <1>15, <1>16, <1>17
     DEF Next, Starter, Reader, Interrupter

\* A line is among those read if it was before or has just been read.
LEMMA AppendOccurs ==
  ASSUME NEW lines \in Seq(Events), NEW line \in Events, NEW x
  PROVE  (\E i \in DOMAIN Append(lines, line) : Append(lines, line)[i] = x)
           <=> (\E i \in DOMAIN lines : lines[i] = x) \/ line = x
<1>1. /\ DOMAIN lines = 1..Len(lines)
      /\ DOMAIN Append(lines, line) = 1..(Len(lines) + 1)
      /\ \A i \in 1..Len(lines) : Append(lines, line)[i] = lines[i]
      /\ Append(lines, line)[Len(lines) + 1] = line
      /\ Len(lines) \in Nat
  OBVIOUS
<1> QED BY <1>1

\* What reading a line leaves alone, and where it puts the reader.
LEMMA LineMoves ==
  ASSUME TypeOK, ReadLine
  PROVE  /\ reader.pc = "read" /\ ~closed /\ output # <<>>
         /\ seen' = Append(seen, Head(output))
         /\ output' = Tail(output)
         /\ Head(output) \in Events
         /\ reader'.pc \in {"read", "notify"} /\ reader'.final = FALSE
         /\ UNCHANGED <<upkeep, starter, interrupter, interrupts, results, process, aborting,
                        emitted, faults>>
<1>1. reader'.pc \in {"read", "notify"} /\ reader'.final = FALSE
  <2>1. ASSUME At("read")
        PROVE  reader'.pc \in {"read", "notify"} /\ reader'.final = FALSE
    BY <2>1 DEF At
  <2>2. ASSUME OnStrange \/ OnError
        PROVE  reader'.pc \in {"read", "notify"} /\ reader'.final = FALSE
    BY <2>2 DEF OnStrange, OnError, At, Reports
  <2>3. ASSUME NEW status, OnTerminal(status)
        PROVE  reader'.pc \in {"read", "notify"} /\ reader'.final = FALSE
    BY <2>3 DEF OnTerminal, At, Reports
  <2> QED BY <2>1, <2>2, <2>3 DEF ReadLine, OnThread, OnTurn
<1> QED BY <1>1 DEF ReadLine, TypeOK

\* What has been read after a line.
LEMMA LineOccurs ==
  ASSUME TypeOK, ReadLine, NEW x
  PROVE  (\E i \in DOMAIN seen' : seen'[i] = x)
           <=> (\E i \in DOMAIN seen : seen[i] = x) \/ Head(output) = x
<1>1. seen' = Append(seen, Head(output)) /\ Head(output) \in Events
  BY LineMoves
<1>2. seen \in Seq(Events)
  BY DEF TypeOK
<1> DEFINE line == Head(output)
<1> HIDE DEF line
<1>3. line \in Events
  BY <1>1 DEF line
<1>4. (\E i \in DOMAIN Append(seen, line) : Append(seen, line)[i] = x)
        <=> (\E i \in DOMAIN seen : seen[i] = x) \/ line = x
  BY <1>2, <1>3, AppendOccurs
<1> QED BY <1>1, <1>4 DEF line

\* In time, the reader empties the pipe before start_turn looks at what it read.
LEMMA NextDrained ==
  ASSUME TypeOK, Lifecycle, Drained, Authority, [Next]_vars
  PROVE  Drained'
<1> USE DEF TypeOK, Lifecycle, Drained, Authority, Begun, InTime, Alive, flags, upkeep,
   threads, results, worker
<1>1. CASE Call \/ Interrupt
  BY <1>1 DEF Call, Interrupt
<1>2. CASE Spawn
  BY <1>2 DEF Spawn, At
<1>3. CASE SpawnFails
  BY <1>3 DEF SpawnFails, Fault
<1>4. CASE StopWaiting \/ Decide \/ Reap
  BY <1>4 DEF StopWaiting, Decide, HasAuthority, Reap
<1>5. CASE JoinAndClean
  BY <1>5 DEF JoinAndClean, JoinsReader, Clean, Fault
<1>6. CASE Raise
  BY <1>6 DEF Raise, Verdict
<1>7. CASE ReadLine
  BY <1>7, LineMoves
<1>8. CASE Notify
  BY <1>8 DEF Notify, TestAndSet, At
<1>9. CASE OutputEnds
  BY <1>9 DEF OutputEnds, At
<1>10. CASE ReaderEnds
  BY <1>10 DEF ReaderEnds, LastWord, At, Reports
<1>11. CASE ReaderCleans
  BY <1>11 DEF ReaderCleans, Clean, At
<1>12. CASE Bury \/ Interrupted
  BY <1>12 DEF Bury, JoinsReader, Clean, Fault, Interrupted
<1>13. CASE AckTimesOut \/ ExitTimesOut
  BY <1>13 DEF AckTimesOut, ExitTimesOut, Fault
<1>14. CASE Stream
  BY <1>14 DEF Stream
<1>15. CASE StreamEnds
  BY <1>15 DEF StreamEnds
<1>16. CASE Exit \/ Crash
  BY <1>16 DEF Exit, Crash, Fault
<1>17. CASE UNCHANGED vars
  BY <1>17 DEF vars
<1> QED
  BY <1>1, <1>2, <1>3, <1>4, <1>5, <1>6, <1>7, <1>8, <1>9, <1>10, <1>11, <1>12, <1>13, <1>14,
     <1>15, <1>16, <1>17
     DEF Next, Starter, Reader, Interrupter

\* Authority, a turn seen and a report agree; a rejected start has lost authority.
LEMMA NextAuthority ==
  ASSUME TypeOK, Lifecycle, Authority, [Next]_vars
  PROVE  Authority'
<1> USE DEF TypeOK, Lifecycle, Authority, Begun, flags, upkeep, threads, results, worker
<1>1. CASE Call \/ Interrupt
  BY <1>1 DEF Call, Interrupt
<1>2. CASE Spawn
  BY <1>2 DEF Spawn, At
<1>3. CASE SpawnFails
  BY <1>3 DEF SpawnFails, Fault
<1>4. CASE StopWaiting \/ Decide \/ Reap
  BY <1>4 DEF StopWaiting, Decide, HasAuthority, Reap
<1>5. CASE JoinAndClean
  BY <1>5 DEF JoinAndClean, JoinsReader, Clean, Fault
<1>6. CASE Raise
  BY <1>6 DEF Raise, Verdict
<1>7. CASE ReadLine
  <2> DEFINE line == Head(output)
  <2>1. /\ reader.pc = "read"
        /\ UNCHANGED <<upkeep, starter, results, process>>
        /\ line \in Events
        /\ reader'.pc \in {"read", "notify"} /\ reader'.final = FALSE
    BY <1>7, LineMoves
  <2>2. (\E i \in DOMAIN seen' : seen'[i] = "turn") <=> turnStarted \/ line = "turn"
    BY <1>7, LineOccurs
  <2>3. ASSUME OnThread, line = "thread"
        PROVE  Authority'
    BY <2>1, <2>2, <2>3 DEF OnThread, EstablishAuthority, Establishes, At
  <2>4. ASSUME OnStrange, line = "strange"
        PROVE  Authority'
    BY <2>1, <2>2, <2>4 DEF OnStrange, At, Reports
  <2>5. ASSUME OnTurn, line = "turn"
        PROVE  Authority'
    BY <2>1, <2>2, <2>5 DEF OnTurn, EstablishAuthority, Establishes, At
  <2>6. ASSUME OnError, line \in {"garbage", "failed"}
        PROVE  Authority'
    BY <2>1, <2>2, <2>6 DEF OnError, At, Reports
  <2>7. ASSUME OnTerminal(line), line \in {"completed", "interrupted", "failed"}
        PROVE  Authority'
    BY <2>1, <2>2, <2>7 DEF OnTerminal, At, Reports
  <2> QED BY <1>7, <2>3, <2>4, <2>5, <2>6, <2>7 DEF ReadLine
<1>8. CASE Notify
  BY <1>8 DEF Notify, TestAndSet, At
<1>9. CASE OutputEnds
  BY <1>9 DEF OutputEnds, At
<1>10. CASE ReaderEnds
  BY <1>10 DEF ReaderEnds, LastWord, At, Reports
<1>11. CASE ReaderCleans
  BY <1>11 DEF ReaderCleans, Clean, At
<1>12. CASE Bury \/ Interrupted
  BY <1>12 DEF Bury, JoinsReader, Clean, Fault, Interrupted
<1>13. CASE AckTimesOut \/ ExitTimesOut
  BY <1>13 DEF AckTimesOut, ExitTimesOut, Fault
<1>14. CASE Stream
  BY <1>14 DEF Stream
<1>15. CASE StreamEnds
  BY <1>15 DEF StreamEnds
<1>16. CASE Exit \/ Crash
  BY <1>16 DEF Exit, Crash, Fault
<1>17. CASE UNCHANGED vars
  BY <1>17 DEF vars
<1> QED
  BY <1>1, <1>2, <1>3, <1>4, <1>5, <1>6, <1>7, <1>8, <1>9, <1>10, <1>11, <1>12, <1>13, <1>14,
     <1>15, <1>16, <1>17
     DEF Next, Starter, Reader, Interrupter

-----------------------------------------------------------------------------
(* The opening of a worker's output.                                       *)

\* There is one opening, the one SelectInSeq finds.
LEMMA OpeningIs ==
  ASSUME NEW lines \in Seq(Events), NEW first, IsOpening(lines, first)
  PROVE  Opening(lines) = first
<1> DEFINE I == {i \in 1..Len(lines) : ~Plain(lines[i])}
<1>1. Opening(lines) = IF I # {} THEN Min(I) ELSE 0
  BY DEF Opening, SelectInSeq
<1>2. Len(lines) \in Nat
  OBVIOUS
<1>3. CASE first = 0
  <2>1. I = {}
    BY <1>3 DEF IsOpening
  <2> QED BY <1>1, <1>3, <2>1
<1>4. CASE first # 0
  <2>1. first \in I /\ \A i \in I : first <= i
    BY <1>2, <1>4 DEF IsOpening
  <2>2. \A x \in I : (\A y \in I : x <= y) => x = first
    BY <1>2, <2>1
  <2>3. Min(I) = first
    BY <2>1, <2>2 DEF Min
  <2> QED BY <1>1, <2>1, <2>3
<1> QED BY <1>3, <1>4

\* A line opens the output only if all before it are plain.
LEMMA OpeningAppend ==
  ASSUME NEW lines \in Seq(Events), NEW line \in Events,
         IsOpening(lines, Opening(lines))
  PROVE  /\ Opening(Append(lines, line)) =
              IF Opening(lines) # 0 THEN Opening(lines)
              ELSE IF Plain(line) THEN 0 ELSE Len(lines) + 1
         /\ IsOpening(Append(lines, line), Opening(Append(lines, line)))
<1> DEFINE more == Append(lines, line)
           first == IF Opening(lines) # 0 THEN Opening(lines)
                    ELSE IF Plain(line) THEN 0 ELSE Len(lines) + 1
<1>1. /\ more \in Seq(Events)
      /\ Len(more) = Len(lines) + 1
      /\ \A i \in 1..Len(lines) : more[i] = lines[i]
      /\ more[Len(lines) + 1] = line
      /\ Len(lines) \in Nat
  OBVIOUS
<1>2. IsOpening(more, first)
  <2> HIDE DEF more
  <2>1. CASE Opening(lines) # 0
    BY <1>1, <2>1 DEF IsOpening
  <2>2. CASE Opening(lines) = 0
    BY <1>1, <2>2 DEF IsOpening
  <2> QED BY <2>1, <2>2
<1>3. Opening(more) = first
  BY <1>1, <1>2, OpeningIs
<1> QED BY <1>2, <1>3

\* Once opened or spoilt, what comes later changes nothing.
LEMMA OutcomeIsSettled ==
  ASSUME NEW lines \in Seq(Events), NEW line \in Events,
         IsOpening(lines, Opening(lines)), Opening(lines) # 0
  PROVE  /\ Opening(Append(lines, line)) = Opening(lines)
         /\ HasOpened(Append(lines, line)) = HasOpened(lines)
         /\ OutcomeOf(Append(lines, line)) = OutcomeOf(lines)
<1> DEFINE more == Append(lines, line)
           first == Opening(lines)
<1>1. /\ \A i \in 1..Len(lines) : more[i] = lines[i]
      /\ Len(lines) \in Nat
      /\ first \in 1..Len(lines)
  BY DEF IsOpening
<1>2. Opening(more) = first
  BY OpeningAppend
<1>3. {more[i] : i \in 1..(first - 1)} = {lines[i] : i \in 1..(first - 1)}
  <2>1. \A i \in 1..(first - 1) : i \in 1..Len(lines)
    BY <1>1
  <2> QED BY <1>1, <2>1
<1>4. HasOpened(more) = HasOpened(lines)
  BY <1>2, <1>3 DEF HasOpened
<1>5. more[first] = lines[first]
  BY <1>1
<1> HIDE DEF more, first
<1>6. OutcomeOf(more) = OutcomeOf(lines)
  BY <1>2, <1>4, <1>5 DEF OutcomeOf, first
<1> QED BY <1>2, <1>4, <1>6 DEF more, first

\* While all lines are plain, it takes both to open.
LEMMA PlainOpens ==
  ASSUME NEW lines \in Seq(Events), Opening(lines) = 0
  PROVE  /\ HasOpened(lines) <=>
              /\ \E i \in DOMAIN lines : lines[i] = "thread"
              /\ \E i \in DOMAIN lines : lines[i] = "turn"
         /\ OutcomeOf(lines) = IF HasOpened(lines) THEN <<"failed">> ELSE <<>>
<1>1. DOMAIN lines = 1..Len(lines)
  OBVIOUS
<1>2. HasOpened(lines) <=> {"thread", "turn"} \subseteq {lines[i] : i \in 1..Len(lines)}
  BY DEF HasOpened
<1>3. OutcomeOf(lines) = IF HasOpened(lines) THEN <<"failed">> ELSE <<>>
  BY DEF OutcomeOf
<1> QED BY <1>1, <1>2, <1>3

\* The first line that is not plain decides.
LEMMA DecidingLine ==
  ASSUME NEW lines \in Seq(Events), NEW line \in Events,
         IsOpening(lines, Opening(lines)), Opening(lines) = 0, ~Plain(line)
  PROVE  /\ Opening(Append(lines, line)) # 0
         /\ HasOpened(Append(lines, line)) = HasOpened(lines)
         /\ HasOpened(lines) => OutcomeOf(Append(lines, line)) =
              IF line \in {"strange", "garbage"} THEN <<"unknown">> ELSE <<line>>
<1> DEFINE more == Append(lines, line)
           last == Len(lines) + 1
<1>1. /\ \A i \in 1..Len(lines) : more[i] = lines[i]
      /\ more[last] = line
      /\ Len(lines) \in Nat /\ last # 0
  OBVIOUS
<1>2. Opening(more) = last
  BY OpeningAppend
<1>3. {more[i] : i \in 1..(last - 1)} = {lines[i] : i \in 1..Len(lines)}
  BY <1>1
<1> HIDE DEF more, last
<1>4. HasOpened(more) = HasOpened(lines)
  BY <1>1, <1>2, <1>3 DEF HasOpened
<1>5. HasOpened(more) => OutcomeOf(more) =
        IF line \in {"strange", "garbage"} THEN <<"unknown">> ELSE <<line>>
  BY <1>1, <1>2 DEF OutcomeOf
<1> QED BY <1>1, <1>2, <1>4, <1>5 DEF more

\* What the worker wrote has an outcome exactly if it earned authority.
LEMMA OpenedHasOutcome ==
  ASSUME NEW lines
  PROVE  OutcomeOf(lines) = <<>> <=> ~HasOpened(lines)
BY DEF OutcomeOf

\* A line read after the deciding one changes neither the verdict nor the report.
LEMMA LateLineKeepsReading ==
  ASSUME TypeOK, Authority, Reading, Opened, ReadLine, Opening(seen) # 0
  PROVE  Reading'
<1>1. /\ Opening(seen') = Opening(seen)
      /\ HasOpened(seen') = HasOpened(seen)
      /\ OutcomeOf(seen') = OutcomeOf(seen)
  BY LineMoves, OutcomeIsSettled DEF TypeOK, Opened
<1>2. /\ reader.pc = "read"
      /\ reader'.pc \in {"read", "notify"}
      /\ told' = told
  BY LineMoves DEF results
<1>3. CASE HasOpened(seen)
  BY <1>1, <1>2, <1>3 DEF Reading, Reported
<1>4. CASE ~HasOpened(seen)
  <2>1. ~authoritative /\ Fallen /\ told = <<>>
    BY <1>4 DEF Reading
  <2>2. ~authoritative' /\ Fallen' /\ reader'.pc # "notify"
    <3>1. CASE OnThread
      BY <2>1, <3>1 DEF OnThread, EstablishAuthority, Establishes, At, Fallen
    <3>2. CASE OnTurn
      BY <2>1, <3>2 DEF OnTurn, EstablishAuthority, Establishes, At, Fallen
    <3>3. CASE OnStrange
      BY <2>1, <3>3 DEF OnStrange, At, Fallen
    <3>4. CASE OnError
      BY <2>1, <3>4 DEF OnError, At, Fallen
    <3>5. ASSUME NEW status, OnTerminal(status)
          PROVE  ~authoritative' /\ Fallen' /\ reader'.pc # "notify"
      BY <2>1, <3>5 DEF OnTerminal, At, Fallen
    <3> QED BY <3>1, <3>2, <3>3, <3>4, <3>5 DEF ReadLine
  <2> QED BY <1>1, <1>2, <1>4, <2>1, <2>2 DEF Reading
<1> QED BY <1>3, <1>4

\* While only the thread and the turn have been named nothing is decided.
LEMMA PlainLineKeepsReading ==
  ASSUME TypeOK, Authority, Reading, Opened, ReadLine, Opening(seen) = 0,
         Plain(Head(output))
  PROVE  Reading'
<1> DEFINE Occurs(x) == \E i \in DOMAIN seen : seen[i] = x
<1>1. seen' \in Seq(Events) /\ Opening(seen') = 0
  <2>1. seen' = Append(seen, Head(output)) /\ Head(output) \in Events /\ seen \in Seq(Events)
    BY LineMoves DEF TypeOK
  <2>2. seen' \in Seq(Events)
    BY <2>1
  <2> QED BY <2>1, <2>2, OpeningAppend DEF Opened
<1>2. /\ reader.pc = "read"
      /\ told' = told
      /\ ~Fallen
      /\ identity = "match" <=> Occurs("thread")
      /\ turnStarted <=> Occurs("turn")
      /\ told = <<>>
  BY LineMoves DEF Reading, Authority, results
<1>3. HasOpened(seen) <=> Occurs("thread") /\ Occurs("turn")
  BY PlainOpens DEF TypeOK
<1>4. HasOpened(seen') <=>
        /\ Occurs("thread") \/ Head(output) = "thread"
        /\ Occurs("turn") \/ Head(output) = "turn"
  BY <1>1, PlainOpens, LineOccurs
<1>5. (\E i \in DOMAIN seen' : seen'[i] = "thread")
        <=> Occurs("thread") \/ Head(output) = "thread"
  BY LineOccurs
<1>6. authoritative <=> HasOpened(seen)
  BY DEF Reading
<1> HIDE DEF Occurs
<1>7. /\ ~Fallen'
      /\ identity' = "match" <=> Occurs("thread") \/ Head(output) = "thread"
      /\ authoritative' <=> HasOpened(seen')
      /\ reader'.pc = "read" /\ ~reader'.final
  <2>1. CASE OnThread /\ Head(output) = "thread"
    BY <1>2, <1>3, <1>4, <1>6, <2>1
       DEF OnThread, EstablishAuthority, Establishes, At, Fallen
  <2>2. CASE OnTurn /\ Head(output) = "turn"
    BY <1>2, <1>3, <1>4, <1>6, <2>2
       DEF OnTurn, EstablishAuthority, Establishes, At, Fallen
  <2> QED BY <2>1, <2>2 DEF ReadLine, Plain
<1> QED BY <1>1, <1>2, <1>5, <1>7 DEF Reading

\* The first other line decides: the outcome is reported, or there is none.
LEMMA DecidingLineKeepsReading ==
  ASSUME TypeOK, Authority, Reading, Opened, ReadLine, Opening(seen) = 0,
         ~Plain(Head(output))
  PROVE  Reading'
<1> DEFINE line == Head(output)
<1>1. /\ Opening(seen') # 0
      /\ HasOpened(seen') = HasOpened(seen)
      /\ HasOpened(seen) => OutcomeOf(seen') =
           IF line \in {"strange", "garbage"} THEN <<"unknown">> ELSE <<line>>
  BY LineMoves, DecidingLine DEF TypeOK, Opened
<1>2. /\ reader.pc = "read"
      /\ reader'.pc \in {"read", "notify"}
      /\ told' = told
      /\ told = <<>>
      /\ ~Fallen
      /\ authoritative <=> HasOpened(seen)
      /\ authoritative => turnStarted
  BY LineMoves DEF Reading, Authority, results
<1> HIDE DEF line
<1>3. CASE HasOpened(seen)
  <2>1. reader'.pc = "notify" /\ <<reader'.says>> = OutcomeOf(seen')
    <3>1. CASE OnStrange /\ line = "strange"
      BY <1>1, <1>2, <1>3, <3>1 DEF OnStrange, Reports
    <3>2. CASE OnError /\ line = "garbage"
      BY <1>1, <1>2, <1>3, <3>2 DEF OnError, Reports
    <3>3. CASE OnTerminal(line) /\ line \in {"completed", "interrupted", "failed"}
      BY <1>1, <1>2, <1>3, <3>3 DEF OnTerminal, Reports, Fallen
    <3> QED BY <1>2, <1>3, <3>1, <3>2, <3>3 DEF ReadLine, Plain, line
  <2> QED BY <1>1, <1>2, <1>3, <2>1 DEF Reading, Reported
<1>4. CASE ~HasOpened(seen)
  <2>1. ~authoritative
    BY <1>2, <1>4
  <2>2. ~authoritative' /\ Fallen' /\ reader'.pc # "notify"
    <3>1. CASE OnStrange
      BY <2>1, <3>1 DEF OnStrange, At, Fallen
    <3>2. CASE OnError
      BY <2>1, <3>2 DEF OnError, At, Fallen
    <3>3. ASSUME NEW status, OnTerminal(status)
          PROVE  ~authoritative' /\ Fallen' /\ reader'.pc # "notify"
      BY <2>1, <3>3 DEF OnTerminal, At, Fallen
    <3> QED BY <3>1, <3>2, <3>3 DEF ReadLine, Plain
  <2> QED BY <1>1, <1>2, <1>4, <2>2 DEF Reading
<1> QED BY <1>3, <1>4

\* The outcome told stays the one the lines read call for.
LEMMA NextReading ==
  ASSUME TypeOK, Lifecycle, Authority, Reading, Opened, [Next]_vars
  PROVE  Reading' /\ Opened'
<1>1. CASE ReadLine
  <2>1. Opened'
    BY <1>1, LineMoves, OpeningAppend DEF TypeOK, Opened
  <2> QED BY <1>1, <2>1, LateLineKeepsReading, PlainLineKeepsReading, DecidingLineKeepsReading
<1>2. CASE Notify
  <2>1. /\ reader.pc = "notify"
        /\ reader'.pc = IF reader.final THEN "cleanup" ELSE "read"
        /\ ~reader'.final
        /\ told' = IF told # <<>> THEN told ELSE <<reader.says>>
    <3>1. told' = IF terminalNotified THEN told ELSE Append(told, reader.says)
      BY <1>2 DEF Notify, TestAndSet
    <3>2. told = <<>> => Append(told, reader.says) = <<reader.says>>
      OBVIOUS
    <3>3. terminalNotified <=> told # <<>>
      BY DEF Authority
    <3>4. reader.pc = "notify" /\ At(IF reader.final THEN "cleanup" ELSE "read")
      BY <1>2 DEF Notify
    <3> QED BY <3>1, <3>2, <3>3, <3>4 DEF At
  <2>2. UNCHANGED <<flags, seen>>
    BY <1>2 DEF Notify
  <2>3. HasOpened(seen) /\ Reported
    BY <2>1, PlainOpens DEF Reading, TypeOK, Authority
  <2>4. told' = OutcomeOf(seen)
    BY <2>1, <2>3, OpenedHasOutcome DEF Reported
  <2> QED BY <2>1, <2>2, <2>3, <2>4 DEF Reading, Reported, Opened, Fallen, flags
<1>3. CASE OutputEnds
  BY <1>3 DEF OutputEnds, At, Reading, Reported, Opened, Fallen, Authority, flags, results
<1>4. CASE ReaderEnds
  <2>1. /\ reader.pc = "last"
        /\ UNCHANGED <<flags, upkeep, results, seen>>
        /\ IF authoritative /\ ~startupError /\ told = <<>>
           THEN reader' = [pc |-> "notify", says |-> "failed", final |-> TRUE]
           ELSE reader' = [pc |-> "cleanup", says |-> "none", final |-> FALSE]
    BY <1>4 DEF ReaderEnds, LastWord, At, Reports, Authority
  <2>2. CASE Opening(seen) = 0
    <3>1. told = <<>> /\ ~startupError /\ (authoritative <=> HasOpened(seen))
      BY <2>1, <2>2 DEF Reading, Authority, Fallen
    <3>2. OutcomeOf(seen) = IF HasOpened(seen) THEN <<"failed">> ELSE <<>>
      BY <2>2, PlainOpens DEF TypeOK
    <3> QED BY <2>1, <2>2, <3>1, <3>2
            DEF Reading, Reported, Opened, Fallen, flags, results
  <2>3. CASE Opening(seen) # 0 /\ HasOpened(seen)
    <3>1. told = OutcomeOf(seen) /\ told # <<>>
      BY <2>1, <2>3, OpenedHasOutcome DEF Reading, Reported
    <3> QED BY <2>1, <2>3, <3>1 DEF Reading, Reported, Opened, Fallen, flags, results
  <2>4. CASE Opening(seen) # 0 /\ ~HasOpened(seen)
    <3>1. told = <<>> /\ ~authoritative /\ OutcomeOf(seen) = <<>>
      BY <2>1, <2>4, OpenedHasOutcome DEF Reading
    <3> QED BY <2>1, <2>4, <3>1 DEF Reading, Reported, Opened, Fallen, flags, results
  <2> QED BY <2>2, <2>3, <2>4
<1>5. CASE ReaderCleans
  BY <1>5 DEF ReaderCleans, At, Reading, Reported, Opened, Fallen, Authority, flags, results
<1>6. CASE Spawn
  BY <1>6 DEF Spawn, At, Lifecycle, Begun, Reading, Reported, Opened, Fallen, Authority,
     flags, results
<1>7. ASSUME UNCHANGED <<identity, identityError, startupError, prematureTerminal,
                         authoritative, reader, told, seen>>
      PROVE  Reading' /\ Opened'
  BY <1>7 DEF Reading, Reported, Opened, Fallen
<1>8. CASE Call \/ Interrupt \/ SpawnFails \/ StopWaiting \/ Decide \/ Reap \/ JoinAndClean
           \/ Raise \/ Interrupter \/ Stream \/ StreamEnds \/ Exit \/ Crash \/ UNCHANGED vars
  <2>1. UNCHANGED <<flags, reader, told, seen>>
    BY <1>8 DEF Call, Interrupt, SpawnFails, StopWaiting, Decide, Reap, JoinAndClean, Raise,
       Interrupter, Bury, AckTimesOut, ExitTimesOut, Interrupted, Stream, StreamEnds, Exit,
       Crash, vars, threads, results
  <2> QED BY <1>7, <2>1 DEF flags
<1> QED BY <1>1, <1>2, <1>3, <1>4, <1>5, <1>6, <1>8 DEF Next, Starter, Reader

-----------------------------------------------------------------------------
(* The theorems.                                                           *)

\* Nothing has been read and nothing said.
LEMMA InitWorkerInv == Init => WorkerInv
<1> SUFFICES ASSUME Init
             PROVE  WorkerInv
  OBVIOUS
<1>1. TypeOK
  <2>1. /\ told \in Seq(Outcomes) /\ output \in Seq(Events) /\ seen \in Seq(Events)
        /\ interrupts \in 0..MaxInterrupts /\ emitted \in 0..MaxEvents
    BY ConstantsAssumption DEF Init
  <2>2. /\ reader.pc = "none" /\ reader.says = "none"
        /\ reader \in [pc: {"none", "read", "notify", "last", "cleanup", "done"},
                       says: Outcomes \cup {"none"}, final: BOOLEAN]
    BY DEF Init
  <2> QED BY <2>1, <2>2 DEF Init, TypeOK
<1>2. Lifecycle /\ Drained
  BY DEF Init, Lifecycle, Drained, Begun
<1>3. Authority
  BY DEF Init, Authority
<1>4. IsOpening(<<>>, 0)
  BY DEF IsOpening
<1>5. seen = <<>> /\ seen \in Seq(Events)
  BY DEF Init
<1>6. Opening(seen) = 0 /\ Opened
  BY <1>4, <1>5, OpeningIs DEF Opened
<1>7. ~HasOpened(seen)
  <2>1. DOMAIN seen = {}
    BY <1>5
  <2> QED BY <1>5, <1>6, <2>1, PlainOpens
<1>8. Reading
  BY <1>5, <1>6, <1>7 DEF Init, Reading, Fallen
<1> QED BY <1>1, <1>2, <1>3, <1>6, <1>8 DEF WorkerInv

\* Every step of a thread or of the worker keeps the invariant.
LEMMA AlwaysWorkerInv == Spec => []WorkerInv
<1>1. WorkerInv /\ [Next]_vars => WorkerInv'
  BY ConstantsAssumption, NextTypeOK, NextLifecycle, NextDrained, NextAuthority, NextReading
     DEF WorkerInv
<1> QED BY <1>1, InitWorkerInv, PTL DEF Spec

\* The child record, the threads and the pipe of a worker keep to their types.
THEOREM WorkerTypes == Spec => []TypeOK
<1>1. WorkerInv => TypeOK
  BY DEF WorkerInv
<1> QED BY <1>1, AlwaysWorkerInv, PTL

\* The outcome told is the first fact the worker reported with authority, and all
\* it wrote counts if the reader had time (transport.py:763, 841).
THEOREM OutcomeIsFirstFact == Spec => []ToldIsFirstFact
<1>1. WorkerInv => ToldIsFirstFact
  <2> SUFFICES ASSUME WorkerInv
               PROVE  ToldIsFirstFact
    OBVIOUS
  <2>1. ASSUME told # <<>>, reader.pc # "done"
        PROVE  told = OutcomeOf(seen)
    BY <2>1 DEF WorkerInv, Reading, Reported
  <2>2. reader.pc = "done" => told = OutcomeOf(seen)
    BY DEF WorkerInv, Reading
  <2>3. reader.pc = "done" /\ InTime => output = <<>>
    BY DEF WorkerInv, Drained
  <2> QED BY <2>1, <2>2, <2>3 DEF ToldIsFirstFact, InTime
<1> QED BY <1>1, AlwaysWorkerInv, PTL

\* A start is rejected only if turn.started is neither read nor in the pipe
\* (transport.py:882).
THEOREM RejectionIsTrue == Spec => []RejectedHasNotStarted
<1>1. WorkerInv => RejectedHasNotStarted
  <2> SUFFICES ASSUME WorkerInv, answer = "rejected", InTime
               PROVE  \A i \in 1..Len(seen \o output) : (seen \o output)[i] # "turn"
    BY DEF RejectedHasNotStarted, InTime
  <2>1. ~turnStarted /\ output = <<>>
    BY DEF WorkerInv, Drained, Lifecycle, Begun
  <2>2. seen \in Seq(Events)
    BY DEF WorkerInv, TypeOK
  <2>3. seen \o output = seen /\ DOMAIN seen = 1..Len(seen)
    BY <2>1, <2>2
  <2> QED BY <2>1, <2>3 DEF WorkerInv, Authority
<1> QED BY <1>1, AlwaysWorkerInv, PTL

-----------------------------------------------------------------------------
(* The callback interface.                                                 *)

\* What the interface sees of the calls of on_terminal.
Heard == CASE told = <<>> -> "none" [] Len(told) = 1 -> told[1] [] OTHER -> "twice"

View == <<[s \in {Run} |-> answer], [s \in {Run} |-> Heard]>>

\* The answer of a call that waits for it.
LEMMA AnswerRefines ==
  ASSUME answer = "waiting", answer' \in Callback!Answers, told' = told,
         answer' = "rejected" => told = <<>>
  PROVE  Callback!Next
<1>1. Callback!Answer(Run, answer')
  BY DEF Callback!Answer
<1> QED BY <1>1 DEF Callback!Next

\* The first call of on_terminal.
LEMMA TellRefines ==
  ASSUME told = <<>>, NEW outcome \in Outcomes, told' = <<outcome>>,
         answer \in {"waiting", "returned", "unknown"}, answer' = answer
  PROVE  Callback!Next
<1>1. told' # <<>> /\ Len(told') = 1 /\ told'[1] = outcome
  OBVIOUS
<1>2. Callback!Tell(Run, outcome)
  BY <1>1 DEF Callback!Tell
<1>3. outcome \in Callback!Outcomes
  BY DEF Outcomes, Callback!Outcomes
<1> QED BY <1>2, <1>3 DEF Callback!Next

\* A step is a call, its answer, a call of on_terminal, or none of them.
LEMMA StepRefinesCallback ==
  ASSUME WorkerInv, [Next]_vars
  PROVE  [Callback!Next]_View
<1>1. CASE Call
  <2>1. answer = "none" /\ answer' = "waiting" /\ told' = told
    BY <1>1 DEF Call, WorkerInv, Lifecycle
  <2>2. Callback!Call(Run)
    BY <2>1 DEF Callback!Call
  <2> QED BY <2>2 DEF Callback!Next
<1>2. CASE SpawnFails
  <2>1. answer = "waiting" /\ answer' = "rejected" /\ told' = told
    BY <1>2 DEF SpawnFails, WorkerInv, Lifecycle, TypeOK
  <2>2. told = <<>>
    BY <1>2 DEF SpawnFails, WorkerInv, Lifecycle, Begun, Authority
  <2> QED BY <2>1, <2>2, AnswerRefines DEF Callback!Answers
<1>3. CASE Decide
  <2>1. answer = "waiting" /\ answer' \in {"waiting", "returned"} /\ told' = told
    BY <1>3 DEF Decide, WorkerInv, Lifecycle, TypeOK
  <2>2. CASE answer' = "returned"
    BY <2>1, <2>2, AnswerRefines DEF Callback!Answers
  <2>3. CASE answer' = answer
    BY <2>1, <2>3 DEF View, Heard
  <2> QED BY <2>1, <2>2, <2>3
<1>4. CASE Raise
  <2>1. answer = "waiting" /\ answer' = Verdict /\ told' = told
    BY <1>4 DEF Raise, WorkerInv, Lifecycle, TypeOK
  <2>2. Verdict = "rejected" => told = <<>>
    BY DEF Verdict, WorkerInv, Authority
  <2>3. Verdict \in {"rejected", "unknown"}
    BY DEF Verdict
  <2> QED BY <2>1, <2>2, <2>3, AnswerRefines DEF Callback!Answers
<1>5. CASE Notify
  <2>1. /\ answer' = answer
        /\ told' = IF told # <<>> THEN told ELSE <<reader.says>>
        /\ reader.pc = "notify" /\ reader.says \in Outcomes
    <3>1. told' = IF terminalNotified THEN told ELSE Append(told, reader.says)
      BY <1>5 DEF Notify, TestAndSet
    <3>2. told = <<>> => Append(told, reader.says) = <<reader.says>>
      OBVIOUS
    <3>3. terminalNotified <=> told # <<>>
      BY DEF WorkerInv, Authority
    <3>4. reader.pc = "notify" /\ reader.says \in Outcomes
      BY <1>5 DEF Notify, WorkerInv, Authority, TypeOK
    <3> QED BY <1>5, <3>1, <3>2, <3>3, <3>4 DEF Notify
  <2>2. answer \in {"waiting", "returned", "unknown"}
    BY <2>1 DEF WorkerInv, TypeOK, Lifecycle, Authority, Begun
  <2>3. CASE told = <<>>
    BY <2>1, <2>2, <2>3, TellRefines
  <2>4. CASE told # <<>>
    BY <2>1, <2>4 DEF View, Heard
  <2> QED BY <2>3, <2>4
<1>6. CASE Interrupt \/ Spawn \/ StopWaiting \/ Reap \/ JoinAndClean \/ ReadLine \/ OutputEnds
           \/ ReaderEnds \/ ReaderCleans \/ Interrupter \/ Stream \/ StreamEnds \/ Exit \/ Crash
           \/ UNCHANGED vars
  <2>1. answer' = answer /\ told' = told
    BY <1>6 DEF Interrupt, Spawn, StopWaiting, Reap, JoinAndClean, ReadLine, OutputEnds,
       ReaderEnds, ReaderCleans, Interrupter, Bury, AckTimesOut, ExitTimesOut, Interrupted,
       Stream, StreamEnds, Exit, Crash, vars, results
  <2> QED BY <2>1 DEF View, Heard
<1> QED BY <1>1, <1>2, <1>3, <1>4, <1>5, <1>6 DEF Next, Starter, Reader

\* The SDK worker transport is a TurnCallback: one answer, at most one outcome, none
\* after a rejection, though its reader outlives the start (transport.py:765, 882).
THEOREM WorkerIsCallback == Spec => ImplementsCallback
<1>1. Init => Callback!Init
  BY DEF Init, Callback!Init
<1>2. WorkerInv /\ [Next]_vars => [Callback!Next]_View
  BY StepRefinesCallback
<1> QED BY <1>1, <1>2, AlwaysWorkerInv, PTL
        DEF Spec, ImplementsCallback, Callback!Spec, View, Heard

=============================================================================
