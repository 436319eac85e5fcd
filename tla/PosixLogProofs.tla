--------------------------- MODULE PosixLogProofs ---------------------------
(***************************************************************************)
(* Proofs about PosixLog, for any pipe capacity, any number of runs and    *)
(* kills at any point.                                                     *)
(***************************************************************************)
EXTENDS PosixLog, TLAPS

\* The numbers on their way, with the lemmas about them.
Way == INSTANCE NumberLogProofs WITH closed <- (child = "dead")

Free == {"wait", "read", "post"}
Hold == {"append"}

\* Each action of Task 10 does to pipe, hands and file what WayStep allows.
LEMMA WaySteps == [Next]_vars => Way!WayStep(Free, Hold)
<1> SUFFICES ASSUME [Next]_vars PROVE Way!WayStep(Free, Hold)
  OBVIOUS
<1> USE DEF Way!WayStep, Free, Hold
<1>1. CASE \/ ChildWait \/ ReadFile \/ ReadFileFails \/ WriteSigpipe
          \/ ChildPost \/ KillChild
  BY <1>1 DEF Way!ChildMoves, ChildWait, ReadFile, ReadFileFails, WriteSigpipe,
         ChildPost, KillChild
<1>2. CASE WritePipe
  BY <1>2 DEF Way!ChildWrites, WritePipe
<1>3. CASE ParentWait \/ AppendFails \/ ParentPost \/ KillParent
  BY <1>3 DEF Way!ParentMoves, ParentWait, AppendFails, ParentPost, KillParent
<1>4. CASE ReadPipe
  BY <1>4 DEF Way!ParentReads, ReadPipe
<1>5. CASE ReadEof
  BY <1>5 DEF Way!ParentReadsEof, ReadEof
<1>6. CASE AppendFile
  BY <1>6 DEF Way!ParentRecords, AppendFile
<1>7. CASE Rerun
  BY <1>7 DEF Way!Restarts, Rerun
<1>8. CASE UNCHANGED vars
  BY <1>8 DEF vars
<1> QED
  BY <1>1, <1>2, <1>3, <1>4, <1>5, <1>6, <1>7, <1>8
  DEF Next, Step, ChildStep, ParentStep

\* Task 10, one child and a named semaphore: in every run each number is in
\* the file once and in order, and junk only after the child has ended.
THEOREM PosixLogInOrder == Spec => RecordsInOrder
<1>1. Init => Way!OnTheWay(Free, Hold) /\ Log!Init
  BY DEF Init, Way!OnTheWay, Free, Way!DataType, Way!Between, Way!Unread, Log!Init
<1>2. Way!OnTheWay(Free, Hold) /\ [Next]_vars
        => Way!OnTheWay(Free, Hold)' /\ [Log!Next]_(Log!logVars)
  <2> SUFFICES ASSUME Way!OnTheWay(Free, Hold), [Next]_vars
               PROVE  /\ Way!OnTheWay(Free, Hold)'
                      /\ [Log!Next]_(Log!logVars)
    OBVIOUS
  <2>1. /\ "read" \in Free /\ "dead" \notin Free \cup Hold
        /\ Free \cap Hold = {}
    BY DEF Free, Hold
  <2>2. Way!OnTheWay(Free, Hold)' /\ [Way!Next]_(Way!logVars)
    BY <2>1, WaySteps, Way!WayKept
  <2> QED
    BY <2>2
    DEF Way!Next, Way!Produce, Way!Record, Way!Close, Way!Junk, Way!Rerun,
        Way!logVars, Log!Next, Log!Produce, Log!Record, Log!Close,
        Log!Junk, Log!Rerun, Log!logVars
<1> QED
  BY <1>1, <1>2, PTL DEF Spec, RecordsInOrder, Log!Spec

\* So in every run the k-th number in the file is the k-th the child sent.
THEOREM PosixLogFile == Spec => []Way!InOrder
<1>1. Log!Spec => []Way!InOrder
  BY Way!LogInOrder
  DEF Log!Spec, Way!Spec, Log!Init, Way!Init, Log!logVars, Way!logVars,
      Way!Next, Way!Produce, Way!Record, Way!Close, Way!Junk, Way!Rerun,
      Log!Next, Log!Produce, Log!Record, Log!Close, Log!Junk, Log!Rerun
<1> QED
  BY <1>1, PosixLogInOrder, PTL DEF RecordsInOrder

-----------------------------------------------------------------------------
(* The named semaphore of Task 10. *)

\* One token: free, with a process inside, or gone with one that ended inside.
Token ==
    /\ sem \in 0 .. 1
    /\ ChildInside \/ ParentInside => sem = 0
    /\ ~(ChildInside /\ ParentInside)
    /\ orphaned => sem = 0 /\ ~ChildInside /\ ~ParentInside

\* No action makes a second token, and a process that ends inside takes it
\* along.
LEMMA TokenStep == Token /\ [Next]_vars => Token'
<1> SUFFICES ASSUME Token, [Next]_vars PROVE Token'
  OBVIOUS
<1> USE DEF Token, ChildInside, ParentInside, Wait, Post
<1>1. CASE ChildWait \/ ReadFile \/ ReadFileFails
  BY <1>1 DEF ChildWait, ReadFile, ReadFileFails
<1>2. CASE WritePipe \/ WriteSigpipe \/ ChildPost
  BY <1>2 DEF WritePipe, WriteSigpipe, ChildPost
<1>3. CASE ParentWait \/ ReadPipe \/ ReadEof
  BY <1>3 DEF ParentWait, ReadPipe, ReadEof
<1>4. CASE AppendFile \/ AppendFails \/ ParentPost
  BY <1>4 DEF AppendFile, AppendFails, ParentPost
<1>5. CASE KillChild
  BY <1>5 DEF KillChild
<1>6. CASE KillParent
  BY <1>6 DEF KillParent
<1>7. CASE Rerun
  BY <1>7 DEF Rerun
<1>8. CASE UNCHANGED vars
  BY <1>8 DEF vars
<1> QED
  BY <1>1, <1>2, <1>3, <1>4, <1>5, <1>6, <1>7, <1>8
  DEF Next, Step, ChildStep, ParentStep

\* After a process has ended inside the critical section no run appends a
\* number any more, however often the program is started again.
THEOREM TokenLostForever == Spec => LostForever
<1>1. Init => Token
  BY DEF Init, Token, ChildInside, ParentInside
<1>2. Token /\ [Next]_vars => [orphaned => file' = file \/ file' = <<>>]_vars
  <2> SUFFICES ASSUME Token, [Next]_vars, orphaned PROVE file' = file \/ file' = <<>>
    OBVIOUS
  <2>1. ~AppendFile
    BY DEF Token, ParentInside, AppendFile
  <2> QED
    BY <2>1
    DEF Next, Step, ChildStep, ParentStep, ChildWait, ReadFile, ReadFileFails,
        WritePipe, WriteSigpipe, ChildPost, ParentWait, ReadPipe, ReadEof,
        AppendFails, ParentPost, KillChild, KillParent, Rerun, vars
<1> QED
  BY <1>1, <1>2, TokenStep, PTL DEF Spec, LostForever

-----------------------------------------------------------------------------
(* Where the two processes of Task 10 can come to a stop. *)

\* Where the processes are, and what the pipe and the bounds leave them.
Places ==
    /\ child \in {"wait", "fopen", "write", "post", "dead"}
    /\ parent \in {"wait", "read", "append", "post", "dead"}
    /\ pipe \in Seq(Number) /\ Len(pipe) <= PIPE_CAP
    /\ produced \in Seq(Number) /\ Len(produced) <= MaxNumbers
    /\ child \in {"fopen", "write"} => Len(produced) < MaxNumbers
    /\ file \in Seq(Number) /\ Len(file) <= MaxNumbers
    /\ parent \in {"read", "append"} => Len(file) < MaxNumbers
    /\ got \in Number

\* The token that is not free is with a process, or lost.
TokenHeld == sem = 0 => ChildInside \/ ParentInside \/ orphaned

StopInv == Token /\ Places /\ TokenHeld

\* The places and what the pipe and the bounds of the model hold.
LEMMA PlacesStep == Places /\ [Next]_vars => Places'
<1> SUFFICES ASSUME Places, [Next]_vars PROVE Places'
  OBVIOUS
<1> USE DEF Places
<1>1. CASE ChildWait \/ ReadFile \/ ReadFileFails \/ WriteSigpipe \/ ChildPost
  BY <1>1 DEF ChildWait, ReadFile, ReadFileFails, WriteSigpipe, ChildPost
<1>2. CASE WritePipe
  <2>1. PICK n \in Number : pipe' = Append(pipe, n) /\ produced' = Append(produced, n)
    BY <1>2 DEF WritePipe
  <2>2. pipe' \in Seq(Number) /\ Len(pipe') <= PIPE_CAP
    BY <1>2, <2>1, PosixLogAssumption DEF WritePipe
  <2>3. produced' \in Seq(Number) /\ Len(produced') <= MaxNumbers
    BY <1>2, <2>1, PosixLogAssumption DEF WritePipe
  <2> QED
    BY <1>2, <2>2, <2>3 DEF WritePipe
<1>3. CASE ParentWait \/ ReadEof \/ AppendFails \/ ParentPost
  BY <1>3 DEF ParentWait, ReadEof, AppendFails, ParentPost
<1>4. CASE ReadPipe
  <2>1. /\ got' \in Number /\ pipe' \in Seq(Number) /\ Len(pipe') <= PIPE_CAP
    BY <1>4, PosixLogAssumption DEF ReadPipe
  <2> QED
    BY <1>4, <2>1 DEF ReadPipe
<1>5. CASE AppendFile
  <2>1. file' \in Seq(Number) /\ Len(file') <= MaxNumbers
    BY <1>5, PosixLogAssumption DEF AppendFile
  <2> QED
    BY <1>5, <2>1 DEF AppendFile
<1>6. CASE KillChild \/ KillParent
  BY <1>6 DEF KillChild, KillParent
<1>7. CASE Rerun
  <2>1. pipe' \in Seq(Number) /\ Len(pipe') = 0
    BY <1>7 DEF Rerun
  <2>2. produced' = pipe' /\ file' = pipe'
    BY <1>7 DEF Rerun
  <2> QED
    BY <1>7, <2>1, <2>2, PosixLogAssumption DEF Rerun
<1>8. CASE UNCHANGED vars
  BY <1>8 DEF vars
<1> QED
  BY <1>1, <1>2, <1>3, <1>4, <1>5, <1>6, <1>7, <1>8
  DEF Next, Step, ChildStep, ParentStep

\* Who takes the token is inside until it is given back.
LEMMA TokenHeldStep == Token /\ Places /\ TokenHeld /\ [Next]_vars => TokenHeld'
<1> SUFFICES ASSUME Token, Places, TokenHeld, [Next]_vars PROVE TokenHeld'
  OBVIOUS
<1>1. sem \in 0 .. 1 /\ TokenHeld
  BY DEF Token
<1>2. CASE ChildWait \/ ReadFile \/ ReadFileFails \/ ChildPost
  BY <1>1, <1>2
  DEF TokenHeld, ChildInside, ParentInside, Wait, Post, ChildWait, ReadFile, ReadFileFails, ChildPost
<1>3. CASE WritePipe \/ WriteSigpipe
  BY <1>1, <1>3 DEF TokenHeld, ChildInside, ParentInside, WritePipe, WriteSigpipe
<1>4. CASE ParentWait \/ ReadPipe \/ ReadEof
  BY <1>1, <1>4 DEF TokenHeld, ChildInside, ParentInside, Wait, ParentWait, ReadPipe, ReadEof
<1>5. CASE AppendFile \/ AppendFails \/ ParentPost
  BY <1>1, <1>5 DEF TokenHeld, ChildInside, ParentInside, Post, AppendFile, AppendFails, ParentPost
<1>6. CASE KillChild \/ KillParent
  BY <1>1, <1>6 DEF TokenHeld, ChildInside, ParentInside, KillChild, KillParent
<1>7. CASE Rerun
  BY <1>1, <1>7 DEF TokenHeld, ChildInside, ParentInside, Rerun
<1>8. CASE UNCHANGED vars
  BY <1>1, <1>8 DEF TokenHeld, ChildInside, ParentInside, vars
<1> QED
  BY <1>2, <1>3, <1>4, <1>5, <1>6, <1>7, <1>8 DEF Next, Step, ChildStep, ParentStep

\* What a stop is judged by, in every state.
LEMMA StopInvariant == Spec => []StopInv
<1>1. Init => StopInv
  <2> SUFFICES ASSUME Init PROVE StopInv
    OBVIOUS
  <2>1. pipe \in Seq(Number) /\ Len(pipe) = 0 /\ produced = pipe /\ file = pipe
    BY DEF Init
  <2>2. Places
    BY <2>1, PosixLogAssumption DEF Init, Places
  <2> QED
    BY <2>2 DEF Init, StopInv, Token, TokenHeld, ChildInside, ParentInside
<1>2. StopInv /\ [Next]_vars => StopInv'
  BY TokenStep, PlacesStep, TokenHeldStep DEF StopInv
<1> QED
  BY <1>1, <1>2, PTL DEF Spec

\* Of all the ways in which both processes could wait, only the two at the
\* pipe occur, unless one has ended inside the critical section.
THEOREM OnlyThePipeStopsTask10 == Spec => []OnlyThePipeStops
<1>1. StopInv => OnlyThePipeStops
  <2> SUFFICES ASSUME StopInv, Stopped, ~orphaned, ~AtBound
               PROVE  \/ parent = "read" /\ pipe = <<>> /\ child = "wait"
                      \/ child = "write" /\ Len(pipe) = PIPE_CAP /\ parent = "wait"
                      \/ child = "dead" /\ parent = "dead"
    BY DEF OnlyThePipeStops
  <2>1. /\ Len(produced) \in Nat /\ Len(file) \in Nat /\ Len(pipe) \in Nat
        /\ Len(produced) < MaxNumbers /\ Len(file) < MaxNumbers /\ Len(pipe) <= PIPE_CAP
    BY PosixLogAssumption DEF StopInv, Places, AtBound
  <2>2. /\ child \in {"dead", "wait", "write"}
        /\ child = "wait" => sem = 0
        /\ child = "write" => parent # "dead" /\ Len(pipe) = PIPE_CAP
    BY <2>1, PosixLogAssumption DEF Stopped, ChildWaits
  <2>3. /\ parent \in {"dead", "wait", "read"}
        /\ parent = "wait" => sem = 0
        /\ parent = "read" => pipe = <<>> /\ child # "dead"
    BY <2>1, PosixLogAssumption DEF Stopped, ParentWaits
  <2>4. sem = 0 => child = "write" \/ parent = "read"
    BY <2>2, <2>3 DEF StopInv, TokenHeld, ChildInside, ParentInside
  <2>5. ~(child = "write" /\ parent = "read")
    BY DEF StopInv, Token, ChildInside, ParentInside
  <2> QED
    BY <2>2, <2>3, <2>4, <2>5
<1> QED
  BY <1>1, StopInvariant, PTL

\* A stop is a stop: from there neither process takes a step of its own.
THEOREM StoppedForGoodTask10 == Spec => [][Stopped => ~Step]_vars
<1>1. StopInv => (Stopped => ~Step)
  <2> SUFFICES ASSUME StopInv, Stopped, Step PROVE FALSE
    OBVIOUS
  <2>1. sem \in 0 .. 1 /\ Len(produced) \in Nat /\ Len(file) \in Nat /\ Len(pipe) \in Nat
    BY DEF StopInv, Token, Places
  <2>2. ~ChildStep
    BY <2>1, PosixLogAssumption
    DEF Stopped, ChildWaits, ChildStep, ChildWait, ReadFile, ReadFileFails, WritePipe,
        WriteSigpipe, ChildPost, Wait
  <2>3. ~ParentStep
    BY <2>1, PosixLogAssumption
    DEF Stopped, ParentWaits, ParentStep, ParentWait, ReadPipe, ReadEof, AppendFile,
        AppendFails, ParentPost, Wait
  <2> QED
    BY <2>2, <2>3 DEF Step
<1> QED
  BY <1>1, StopInvariant, PTL
=============================================================================
