-------------------------- MODULE SignalPipeProofs --------------------------
(***************************************************************************)
(* Proofs about SignalPipe, for any pipe capacity, whatever signal is lost *)
(* or overtakes another, and kills at any point.                           *)
(***************************************************************************)
EXTENDS SignalPipe, TLAPS

\* The numbers on their way, with the lemmas about them.
Way == INSTANCE NumberLogProofs WITH closed <- (child = "dead")

Free == {"kill1", "fopen", "read", "kill2"}
Hold == {"print"}

\* Each action of Task 5 does to pipe, hands and file what WayStep allows.
LEMMA WaySteps == [Next]_vars => Way!WayStep(Free, Hold)
<1> SUFFICES ASSUME [Next]_vars PROVE Way!WayStep(Free, Hold)
  OBVIOUS
<1> USE DEF Way!WayStep, Free, Hold
<1>1. CASE \/ (\E sig \in {"SIGUSR1", "SIGUSR2"} : Handle(sig)) \/ TestFlag
          \/ EnterPause \/ OpenFile \/ WriteSigpipe \/ SleepOver \/ KillChild
  BY <1>1 DEF Way!ChildMoves, Handle, TestFlag, EnterPause, OpenFile, WriteSigpipe,
         SleepOver, KillChild
<1>2. CASE WritePipe
  BY <1>2 DEF Way!ChildWrites, WritePipe
<1>3. CASE Kill1 \/ CreateFile \/ Kill2 \/ KillParent
  BY <1>3 DEF Way!ParentMoves, Kill1, CreateFile, Kill2, KillParent
<1>4. CASE ReadPipe
  BY <1>4 DEF Way!ParentReads, ReadPipe
<1>5. CASE ReadEof
  BY <1>5 DEF Way!ParentReadsEof, ReadEof
<1>6. CASE PrintNumber
  BY <1>6 DEF Way!ParentRecords, PrintNumber
<1>7. CASE UNCHANGED vars
  BY <1>7 DEF vars
<1> QED
  BY <1>1, <1>2, <1>3, <1>4, <1>5, <1>6, <1>7
  DEF Next, Step, ChildStep, ParentStep

\* Task 5, two processes ordered by signals only: each number is in the file
\* once and in order, and junk only after the child has ended, whatever signal
\* is lost or overtakes another.
THEOREM SignalPipeInOrder == Spec => RecordsInOrder
<1>1. Init => Way!OnTheWay(Free, Hold) /\ Log!Init
  BY DEF Init, Way!OnTheWay, Free, Way!DataType, Way!Between, Way!Unread, Log!Init
<1>2. Way!OnTheWay(Free, Hold) /\ [Next]_vars
        => Way!OnTheWay(Free, Hold)' /\ [Log!Next]_(Log!logVars)
  <2> SUFFICES ASSUME Way!OnTheWay(Free, Hold), [Next]_vars
               PROVE  /\ Way!OnTheWay(Free, Hold)'
                      /\ [Log!Next]_(Log!logVars)
    OBVIOUS
  <2>1. /\ "read" \in Free /\ "dead" \notin Free \cup Hold
        /\ Free \cap Hold = {}
    BY DEF Free, Hold
  <2>2. Way!OnTheWay(Free, Hold)' /\ [Way!Next]_(Way!logVars)
    BY <2>1, WaySteps, Way!WayKept
  <2> QED
    BY <2>2
    DEF Way!Next, Way!Produce, Way!Record, Way!Close, Way!Junk, Way!Rerun,
        Way!logVars, Log!Next, Log!Produce, Log!Record, Log!Close,
        Log!Junk, Log!Rerun, Log!logVars
<1> QED
  BY <1>1, <1>2, PTL DEF Spec, RecordsInOrder, Log!Spec

\* So the k-th number printed to the file is the k-th the child sent.
THEOREM SignalPipeFile == Spec => []Way!InOrder
<1>1. Log!Spec => []Way!InOrder
  BY Way!LogInOrder
  DEF Log!Spec, Way!Spec, Log!Init, Way!Init, Log!logVars, Way!logVars,
      Way!Next, Way!Produce, Way!Record, Way!Close, Way!Junk, Way!Rerun,
      Log!Next, Log!Produce, Log!Record, Log!Close, Log!Junk, Log!Rerun
<1> QED
  BY <1>1, SignalPipeInOrder, PTL DEF RecordsInOrder

-----------------------------------------------------------------------------
(* Where the two processes of Task 5 can come to a stop. *)

\* What the pipe and the bounds of the model leave the processes, and when the
\* parent has closed its own write end: before it looks for a second number.
Course ==
    /\ child \in {"test", "pausing", "pause", "fopen", "write", "sleep", "dead"}
    /\ parent \in {"kill1", "fopen", "read", "print", "kill2", "dead"}
    /\ pipe \in Seq(Number) /\ Len(pipe) <= PIPE_CAP
    /\ produced \in Seq(Number) /\ Len(produced) <= MaxNumbers
    /\ child \in {"fopen", "write"} => Len(produced) < MaxNumbers
    /\ file \in Seq(Number) /\ Len(file) <= MaxNumbers
    /\ parent \in {"fopen", "read", "print"} => Len(file) < MaxNumbers
    /\ got \in Number
    /\ writeEnd => file = <<>> \/ parent \in {"kill2", "dead"}

\* No action leaves the course; kill2 closes the write end.
LEMMA CourseStep == Course /\ [Next]_vars => Course'
<1> SUFFICES ASSUME Course, [Next]_vars PROVE Course'
  OBVIOUS
<1> USE DEF Course
<1>1. CASE \/ (\E sig \in {"SIGUSR1", "SIGUSR2"} : Handle(sig)) \/ TestFlag
          \/ EnterPause \/ OpenFile \/ WriteSigpipe \/ SleepOver \/ KillChild
  <2>1. Len(produced) \in Nat
    OBVIOUS
  <2> QED
    BY <1>1, <2>1, SignalPipeAssumption
    DEF Handle, TestFlag, EnterPause, OpenFile, WriteSigpipe, SleepOver, KillChild
<1>2. CASE WritePipe
  <2>1. PICK n \in Number : pipe' = Append(pipe, n) /\ produced' = Append(produced, n)
    BY <1>2 DEF WritePipe
  <2>2. pipe' \in Seq(Number) /\ Len(pipe') <= PIPE_CAP
    BY <1>2, <2>1, SignalPipeAssumption DEF WritePipe
  <2>3. produced' \in Seq(Number) /\ Len(produced') <= MaxNumbers
    BY <1>2, <2>1, SignalPipeAssumption DEF WritePipe
  <2> QED
    BY <1>2, <2>2, <2>3 DEF WritePipe
<1>3. CASE Kill1 \/ CreateFile \/ Kill2 \/ KillParent \/ ReadEof
  BY <1>3 DEF Kill1, CreateFile, Kill2, KillParent, ReadEof
<1>4. CASE ReadPipe
  <2>1. got' \in Number /\ pipe' \in Seq(Number) /\ Len(pipe') <= PIPE_CAP
    BY <1>4, SignalPipeAssumption DEF ReadPipe
  <2> QED
    BY <1>4, <2>1 DEF ReadPipe
<1>5. CASE PrintNumber
  <2>1. file' \in Seq(Number) /\ Len(file') <= MaxNumbers
    BY <1>5, SignalPipeAssumption DEF PrintNumber
  <2> QED
    BY <1>5, <2>1 DEF PrintNumber
<1>6. CASE UNCHANGED vars
  BY <1>6 DEF vars
<1> QED
  BY <1>1, <1>2, <1>3, <1>4, <1>5, <1>6 DEF Next, Step, ChildStep, ParentStep

\* What a stop is judged by, in every state.
LEMMA CourseInvariant == Spec => []Course
<1>1. Init => Course
  <2> SUFFICES ASSUME Init PROVE Course
    OBVIOUS
  <2>1. pipe \in Seq(Number) /\ Len(pipe) = 0 /\ produced = pipe /\ file = pipe
    BY DEF Init
  <2> QED
    BY <2>1, SignalPipeAssumption DEF Init, Course
<1> QED
  BY <1>1, CourseStep, PTL DEF Spec

\* Whatever signal is lost: the program stops only with the parent at an empty
\* pipe, and the child asleep or gone before the first number was recorded.
THEOREM OnlyALostWakeupStopsTask5 == Spec => []OnlyALostWakeupStops
<1>1. Course => OnlyALostWakeupStops
  <2> SUFFICES ASSUME Course, Stopped, parent # "dead", ~AtBound
               PROVE  parent = "read" /\ pipe = <<>> /\ (LostWakeup \/ ChildGone)
    BY DEF OnlyALostWakeupStops
  <2>1. /\ Len(produced) \in Nat /\ Len(file) \in Nat
        /\ Len(produced) < MaxNumbers /\ Len(file) < MaxNumbers
    BY SignalPipeAssumption DEF Course, AtBound
  <2>2. parent = "read" /\ pipe = <<>> /\ (child # "dead" \/ writeEnd)
    BY <2>1, SignalPipeAssumption DEF Stopped, ParentWaits
  <2>3. CASE child = "dead"
    BY <2>2, <2>3 DEF ChildGone, Course
  <2>4. CASE child # "dead"
    <3>1. ~(Len(pipe) >= PIPE_CAP)
      BY <2>2, SignalPipeAssumption
    <3>2. child = "pause" /\ pending = {}
      BY <2>1, <2>4, <3>1, SignalPipeAssumption DEF Stopped, ChildWaits
    <3> QED
      BY <2>2, <3>2 DEF LostWakeup
  <2> QED
    BY <2>3, <2>4
<1> QED
  BY <1>1, CourseInvariant, PTL

\* A stop is a stop: from there neither process takes a step of its own.
THEOREM StoppedForGoodTask5 == Spec => [][Stopped => ~Step]_vars
<1>1. Course => (Stopped => ~Step)
  <2> SUFFICES ASSUME Course, Stopped, Step PROVE FALSE
    OBVIOUS
  <2>1. Len(produced) \in Nat /\ Len(pipe) \in Nat /\ Len(file) \in Nat
    BY DEF Course
  <2>2. ~ChildStep
    BY <2>1, SignalPipeAssumption
    DEF Stopped, ChildWaits, ChildStep, Handle, TestFlag, EnterPause, OpenFile,
        WritePipe, WriteSigpipe, SleepOver
  <2>3. ~ParentStep
    BY <2>1, SignalPipeAssumption
    DEF Stopped, ParentWaits, ParentStep, Kill1, CreateFile, ReadPipe, ReadEof,
        PrintNumber, Kill2
  <2> QED
    BY <2>2, <2>3 DEF Step
<1> QED
  BY <1>1, CourseInvariant, PTL
=============================================================================
