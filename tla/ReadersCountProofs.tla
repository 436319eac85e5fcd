------------------------- MODULE ReadersCountProofs -------------------------
(***************************************************************************)
(* Proofs about ReadersCount, for any pipe capacity, any number of runs and*)
(* kills at any point.                                                     *)
(***************************************************************************)
EXTENDS ReadersCount, TLAPS

\* The numbers on their way, with the lemmas about them.
Way == INSTANCE NumberLogProofs WITH closed <- (child = "dead")

Free == {"read", "post"}
Hold == {"wait", "append"}

\* Each action of Task 11 does to pipe, hands and file what WayStep allows.
LEMMA WaySteps == [Next]_vars => Way!WayStep(Free, Hold)
<1> SUFFICES ASSUME [Next]_vars PROVE Way!WayStep(Free, Hold)
  OBVIOUS
<1> USE DEF Way!WayStep, Free, Hold
<1>1. CASE \/ Enter \/ TakeResource \/ Entered \/ OpenFile \/ WriteSigpipe
          \/ Leave \/ FreeResource \/ Left \/ KillChild
  BY <1>1 DEF Way!ChildMoves, Enter, TakeResource, Entered, OpenFile, WriteSigpipe,
         Leave, FreeResource, Left, KillChild, dataVars
<1>2. CASE WritePipe
  BY <1>2 DEF Way!ChildWrites, WritePipe
<1>3. CASE ParentWait \/ AppendFails \/ ParentPost \/ KillParent
  BY <1>3 DEF Way!ParentMoves, ParentWait, AppendFails, ParentPost, KillParent, dataVars
<1>4. CASE ReadPipe
  BY <1>4 DEF Way!ParentReads, ReadPipe
<1>5. CASE ReadEof
  BY <1>5 DEF Way!ParentReadsEof, ReadEof
<1>6. CASE AppendFile
  BY <1>6 DEF Way!ParentRecords, AppendFile
<1>7. CASE Rerun
  BY <1>7 DEF Way!Restarts, Rerun
<1>8. CASE UNCHANGED vars
  BY <1>8 DEF vars, dataVars
<1> QED
  BY <1>1, <1>2, <1>3, <1>4, <1>5, <1>6, <1>7, <1>8
  DEF Next, Step, ChildStep, ParentStep

\* Task 11: in every run each number is in the file once and in order, and
\* junk only after the child has ended, although the parent waits for the
\* semaphore with a number in its hands.
THEOREM ReadersCountInOrder == Spec => RecordsInOrder
<1>1. Init => Way!OnTheWay(Free, Hold) /\ Log!Init
  BY DEF Init, Way!OnTheWay, Free, Way!DataType, Way!Between, Way!Unread, Log!Init
<1>2. Way!OnTheWay(Free, Hold) /\ [Next]_vars
        => Way!OnTheWay(Free, Hold)' /\ [Log!Next]_(Log!logVars)
  <2> SUFFICES ASSUME Way!OnTheWay(Free, Hold), [Next]_vars
               PROVE  /\ Way!OnTheWay(Free, Hold)'
                      /\ [Log!Next]_(Log!logVars)
    OBVIOUS
  <2>1. /\ "read" \in Free /\ "dead" \notin Free \cup Hold
        /\ Free \cap Hold = {}
    BY DEF Free, Hold
  <2>2. Way!OnTheWay(Free, Hold)' /\ [Way!Next]_(Way!logVars)
    BY <2>1, WaySteps, Way!WayKept
  <2> QED
    BY <2>2
    DEF Way!Next, Way!Produce, Way!Record, Way!Close, Way!Junk, Way!Rerun,
        Way!logVars, Log!Next, Log!Produce, Log!Record, Log!Close,
        Log!Junk, Log!Rerun, Log!logVars
<1> QED
  BY <1>1, <1>2, PTL DEF Spec, RecordsInOrder, Log!Spec

\* So in every run the k-th number in the file is the k-th the child sent.
THEOREM ReadersCountFile == Spec => []Way!InOrder
<1>1. Log!Spec => []Way!InOrder
  BY Way!LogInOrder
  DEF Log!Spec, Way!Spec, Log!Init, Way!Init, Log!logVars, Way!logVars,
      Way!Next, Way!Produce, Way!Record, Way!Close, Way!Junk, Way!Rerun,
      Log!Next, Log!Produce, Log!Record, Log!Close, Log!Junk, Log!Rerun
<1> QED
  BY <1>1, ReadersCountInOrder, PTL DEF RecordsInOrder

-----------------------------------------------------------------------------
(* The two named semaphores of Task 11. *)

ChildPlace ==
    {"enter", "resource", "entered", "fopen", "write", "leave", "free", "left", "dead"}
ParentPlace == {"read", "wait", "append", "post", "dead"}

\* What the semaphores and the count say about where the child is: it is
\* alone on readers_mutex, and has counted itself from Enter to Leave.  A
\* semaphore may be 0 with nobody inside: it was left so by a killed process.
Accounts ==
    /\ readers_mutex \in 0 .. 1 /\ resource_mutex \in 0 .. 1
    /\ child \in ChildPlace /\ parent \in ParentPlace
    /\ child \in {"resource", "entered", "free", "left"} => readers_mutex = 0
    /\ child \in {"enter", "free", "left"} => readers_count = 0
    /\ child \in {"resource", "entered", "fopen", "write", "leave"} => readers_count = 1

CountInv == Accounts /\ MutualExclusion

\* Every step, every kill and every new run on old semaphores keeps the
\* accounts of both semaphores.
LEMMA CountStep == CountInv /\ [Next]_vars => CountInv'
<1> SUFFICES ASSUME CountInv, [Next]_vars PROVE CountInv'
  OBVIOUS
<1> USE DEF CountInv, Accounts, MutualExclusion, ChildHolds, ParentHolds,
            ChildPlace, ParentPlace
<1>1. CASE Enter \/ TakeResource \/ Entered
  BY <1>1 DEF Enter, TakeResource, Entered
<1>2. CASE OpenFile \/ WritePipe \/ WriteSigpipe
  BY <1>2 DEF OpenFile, WritePipe, WriteSigpipe
<1>3. CASE Leave \/ FreeResource \/ Left
  BY <1>3 DEF Leave, FreeResource, Left
<1>4. CASE ReadPipe \/ ReadEof \/ ParentWait
  BY <1>4 DEF ReadPipe, ReadEof, ParentWait
<1>5. CASE AppendFile \/ AppendFails \/ ParentPost
  BY <1>5 DEF AppendFile, AppendFails, ParentPost
<1>6. CASE KillChild \/ KillParent \/ Rerun
  BY <1>6 DEF KillChild, KillParent, Rerun
<1>7. CASE UNCHANGED vars
  BY <1>7 DEF vars
<1> QED
  BY <1>1, <1>2, <1>3, <1>4, <1>5, <1>6, <1>7
  DEF Next, Step, ChildStep, ParentStep

\* The child lists the file only while the parent does not append to it, and
\* resource_mutex is taken whenever one of them does, in every run.
THEOREM CountExclusion == Spec => []MutualExclusion
<1>1. Init => CountInv
  BY DEF Init, CountInv, Accounts, MutualExclusion, ChildHolds, ParentHolds,
         ChildPlace, ParentPlace
<1>2. CountInv => MutualExclusion
  BY DEF CountInv
<1> QED
  BY <1>1, <1>2, CountStep, PTL DEF Spec

-----------------------------------------------------------------------------
(* Where the two processes of Task 11 can come to a stop. *)

\* A semaphore that is 0 is held by a process, or was lost with one.
Held ==
    /\ readers_mutex = 0 => child \in {"resource", "entered", "free", "left"} \/ orphaned
    /\ resource_mutex = 0 => ChildHolds \/ ParentHolds \/ orphaned

\* What the pipe and the bounds of the model hold.
Amounts ==
    /\ pipe \in Seq(Number) /\ Len(pipe) <= PIPE_CAP
    /\ produced \in Seq(Number) /\ Len(produced) <= MaxNumbers
    /\ child \in {"resource", "entered", "fopen", "write"} => Len(produced) < MaxNumbers
    /\ file \in Seq(Number) /\ got \in Number

\* Who takes a semaphore is at a place that gives it back.
LEMMA HeldStep == CountInv /\ Held /\ [Next]_vars => Held'
<1> SUFFICES ASSUME CountInv, Held, [Next]_vars PROVE Held'
  OBVIOUS
<1>1. /\ readers_mutex \in 0 .. 1 /\ resource_mutex \in 0 .. 1
      /\ child \in ChildPlace /\ parent \in ParentPlace
  BY DEF CountInv, Accounts
<1> USE <1>1 DEF Held, ChildHolds, ParentHolds, ChildPlace, ParentPlace
<1>2. CASE Enter \/ TakeResource \/ Entered
  BY <1>2 DEF Enter, TakeResource, Entered, CountInv, Accounts
<1>3. CASE OpenFile \/ WritePipe \/ WriteSigpipe
  BY <1>3 DEF OpenFile, WritePipe, WriteSigpipe
<1>4. CASE Leave \/ FreeResource \/ Left
  BY <1>4 DEF Leave, FreeResource, Left, CountInv, Accounts
<1>5. CASE ReadPipe \/ ReadEof \/ ParentWait
  BY <1>5 DEF ReadPipe, ReadEof, ParentWait
<1>6. CASE AppendFile \/ AppendFails \/ ParentPost
  BY <1>6 DEF AppendFile, AppendFails, ParentPost
<1>7. CASE KillChild \/ KillParent
  BY <1>7 DEF KillChild, KillParent
<1>8. CASE Rerun
  BY <1>8 DEF Rerun
<1>9. CASE UNCHANGED vars
  BY <1>9 DEF vars
<1> QED
  BY <1>2, <1>3, <1>4, <1>5, <1>6, <1>7, <1>8, <1>9 DEF Next, Step, ChildStep, ParentStep

\* No action exceeds the pipe or the bounds of the model.
LEMMA AmountsStep == Amounts /\ [Next]_vars => Amounts'
<1> SUFFICES ASSUME Amounts, [Next]_vars PROVE Amounts'
  OBVIOUS
<1> USE DEF Amounts
<1>1. CASE Enter
  BY <1>1 DEF Enter, dataVars
<1>2. CASE TakeResource \/ Entered \/ OpenFile \/ WriteSigpipe
  BY <1>2 DEF TakeResource, Entered, OpenFile, WriteSigpipe, dataVars
<1>3. CASE WritePipe
  <2>1. PICK n \in Number : pipe' = Append(pipe, n) /\ produced' = Append(produced, n)
    BY <1>3 DEF WritePipe
  <2>2. pipe' \in Seq(Number) /\ Len(pipe') <= PIPE_CAP
    BY <1>3, <2>1, ReadersCountAssumption DEF WritePipe
  <2>3. produced' \in Seq(Number) /\ Len(produced') <= MaxNumbers
    BY <1>3, <2>1, ReadersCountAssumption DEF WritePipe
  <2> QED
    BY <1>3, <2>2, <2>3 DEF WritePipe
<1>4. CASE Leave \/ FreeResource \/ Left
  BY <1>4 DEF Leave, FreeResource, Left, dataVars
<1>5. CASE ReadPipe
  <2>1. got' \in Number /\ pipe' \in Seq(Number) /\ Len(pipe') <= PIPE_CAP
    BY <1>5, ReadersCountAssumption DEF ReadPipe
  <2> QED
    BY <1>5, <2>1 DEF ReadPipe
<1>6. CASE ReadEof \/ ParentWait \/ AppendFails \/ ParentPost
  BY <1>6 DEF ReadEof, ParentWait, AppendFails, ParentPost, dataVars
<1>7. CASE AppendFile
  <2>1. file' \in Seq(Number)
    BY <1>7 DEF AppendFile
  <2> QED
    BY <1>7, <2>1 DEF AppendFile
<1>8. CASE KillChild \/ KillParent
  BY <1>8 DEF KillChild, KillParent, dataVars
<1>9. CASE Rerun
  <2>1. pipe' \in Seq(Number) /\ Len(pipe') = 0 /\ produced' = pipe' /\ file' = pipe'
    BY <1>9 DEF Rerun
  <2> QED
    BY <1>9, <2>1, ReadersCountAssumption DEF Rerun
<1>10. CASE UNCHANGED vars
  BY <1>10 DEF vars
<1> QED
  BY <1>1, <1>2, <1>3, <1>4, <1>5, <1>6, <1>7, <1>8, <1>9, <1>10
  DEF Next, Step, ChildStep, ParentStep

StopInv == CountInv /\ Held /\ Amounts

\* What a stop is judged by, in every state.
LEMMA StopInvariant == Spec => []StopInv
<1>1. Init => StopInv
  <2> SUFFICES ASSUME Init PROVE StopInv
    OBVIOUS
  <2>1. pipe \in Seq(Number) /\ Len(pipe) = 0 /\ produced = pipe /\ file = pipe
    BY DEF Init
  <2>2. Amounts
    BY <2>1, ReadersCountAssumption DEF Init, Amounts
  <2>3. CountInv /\ Held
    BY DEF Init, CountInv, Accounts, MutualExclusion, ChildHolds, ParentHolds, Held,
           ChildPlace, ParentPlace
  <2> QED
    BY <2>2, <2>3 DEF StopInv
<1>2. StopInv /\ [Next]_vars => StopInv'
  BY CountStep, HeldStep, AmountsStep DEF StopInv
<1> QED
  BY <1>1, <1>2, PTL DEF Spec

\* The order read, then sem_wait leaves one deadlock, the full pipe: the two
\* semaphores and the count add none of their own.
THEOREM OnlyAFullPipeStopsTask11 == Spec => []OnlyAFullPipeStops
<1>1. StopInv => OnlyAFullPipeStops
  <2> SUFFICES ASSUME StopInv, Stopped, ~orphaned, ~(child = "dead" /\ parent = "dead"),
                      Len(produced) # MaxNumbers, ~(Len(file) >= MaxNumbers)
               PROVE  FullPipe
    BY DEF OnlyAFullPipeStops
  <2>1. /\ Len(produced) \in Nat /\ Len(pipe) \in Nat
        /\ Len(produced) < MaxNumbers /\ Len(pipe) <= PIPE_CAP
    BY ReadersCountAssumption DEF StopInv, Amounts
  <2>2. parent \in {"dead", "read", "wait"}
    BY DEF Stopped, ParentWaits
  <2>3. child \notin {"enter", "leave"}
    BY <2>1, ReadersCountAssumption DEF Stopped, ChildWaits, StopInv, Held
  <2>4. child # "resource"
    BY <2>2 DEF Stopped, ChildWaits, StopInv, Held, ChildHolds, ParentHolds
  <2>5. CASE child = "dead"
    <3>1. parent = "wait" /\ resource_mutex = 0
      BY <2>5 DEF Stopped, ParentWaits
    <3> QED
      BY <2>5, <3>1 DEF StopInv, Held, ChildHolds, ParentHolds
  <2>6. CASE child = "write"
    <3>1. parent # "dead" /\ Len(pipe) = PIPE_CAP
      BY <2>1, <2>6, ReadersCountAssumption DEF Stopped, ChildWaits
    <3>2. pipe # <<>>
      BY <3>1, ReadersCountAssumption
    <3> QED
      BY <2>6, <3>1, <3>2 DEF Stopped, ParentWaits, FullPipe
  <2> QED
    BY <2>3, <2>4, <2>5, <2>6 DEF Stopped, ChildWaits
<1> QED
  BY <1>1, StopInvariant, PTL

\* A stop is a stop: from there neither process takes a step of its own.
THEOREM StoppedForGoodTask11 == Spec => [][Stopped => ~Step]_vars
<1>1. StopInv => (Stopped => ~Step)
  <2> SUFFICES ASSUME StopInv, Stopped, Step PROVE FALSE
    OBVIOUS
  <2>1. /\ readers_mutex \in 0 .. 1 /\ resource_mutex \in 0 .. 1
        /\ Len(produced) \in Nat /\ Len(pipe) \in Nat /\ Len(file) \in Nat
    BY DEF StopInv, CountInv, Accounts, Amounts
  <2>2. ~ChildStep
    BY <2>1, ReadersCountAssumption
    DEF Stopped, ChildWaits, ChildStep, Enter, TakeResource, Entered, OpenFile, WritePipe,
        WriteSigpipe, Leave, FreeResource, Left
  <2>3. ~ParentStep
    BY <2>1, ReadersCountAssumption
    DEF Stopped, ParentWaits, ParentStep, ReadPipe, ReadEof, ParentWait, AppendFile,
        AppendFails, ParentPost
  <2> QED
    BY <2>2, <2>3 DEF Step
<1> QED
  BY <1>1, StopInvariant, PTL
=============================================================================
