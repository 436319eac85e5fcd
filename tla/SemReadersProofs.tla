-------------------------- MODULE SemReadersProofs --------------------------
(***************************************************************************)
(* Proofs about SemReaders, for any number of readers, any pipe capacity   *)
(* and kills at any point.                                                 *)
(***************************************************************************)
EXTENDS SemReaders, TLAPS

\* What a process owes the semaphore set: its SEM_UNDO adjustments are the
\* exact inverse of what it took, and nothing while it is outside.
UndoMatches ==
    /\ \A p \in Process : adj0[p] = IF Inside(p) THEN 1 ELSE 0
    /\ \A r \in Reader : adj1[r] = IF Inside(r) THEN -1 ELSE 0
    /\ adj1[Writer] = 0

\* The semaphores count the processes inside.
SemsCount ==
    /\ sem0 = 0 <=> \E p \in Process : Inside(p)
    /\ sem1 = 1 <=> \E r \in Reader : Inside(r)

PcOK ==
    /\ \A r \in Reader : pc[r] \in {"start", "fopen", "write", "end", "dead"}
    /\ pc[Writer] \in {"start", "poll", "read", "append", "end", "dead"}

SemType ==
    /\ sem0 \in 0 .. 1 /\ sem1 \in 0 .. 1
    /\ adj0 \in [Process -> 0 .. 1]
    /\ adj1 \in [Process -> -1 .. 0]
    /\ pc \in [Process -> {"start", "fopen", "write", "poll", "read", "append", "end", "dead"}]

LockInv == SemType /\ PcOK /\ UndoMatches /\ SemsCount /\ MutualExclusion

\* initSemaphores: the mutex is free and nobody is inside.
LEMMA LockInit == Init => LockInv
  BY SemReadersAssumption
  DEF Init, LockInv, SemType, PcOK, UndoMatches, SemsCount, MutualExclusion, Inside, Process, Writer

\* A process enters: the mutex was free, so nobody was inside.
LEMMA EnterKeeps ==
    ASSUME LockInv, NEW p \in Process, NEW to, pc[p] = "start",
           to = IF p = Writer THEN "poll" ELSE "fopen",
           pc' = [pc EXCEPT ![p] = to],
           Semop(p, -1, IF p = Writer THEN 0 ELSE 1)
    PROVE  LockInv'
<1> USE DEF LockInv
<1>1. sem0 = 1 /\ sem0' = 0 /\ \A q \in Process : ~Inside(q)
  BY DEF Semop, SemType, SemsCount
<1>2. sem1 = 0 /\ sem1' = (IF p = Writer THEN 0 ELSE 1)
  BY <1>1 DEF Semop, SemType, SemsCount, Process
<1>3. \A q \in Process : Inside(q)' <=> q = p
  BY <1>1 DEF Inside, SemType
<1>4. adj0' = [adj0 EXCEPT ![p] = 1]
  <2>1. adj0[p] = 0
    BY <1>1 DEF UndoMatches
  <2>2. adj0' = [adj0 EXCEPT ![p] = adj0[p] - (-1)]
    BY DEF Semop
  <2> QED
    BY <2>1, <2>2
<1>5. adj1' = [adj1 EXCEPT ![p] = IF p = Writer THEN 0 ELSE -1]
  <2>1. adj1[p] = 0
    BY <1>1 DEF UndoMatches, Process
  <2>2. adj1' = [adj1 EXCEPT ![p] = adj1[p] - (IF p = Writer THEN 0 ELSE 1)]
    BY DEF Semop
  <2>3. 0 - (IF p = Writer THEN 0 ELSE 1) = IF p = Writer THEN 0 ELSE -1
    OBVIOUS
  <2> QED
    BY <2>1, <2>2, <2>3
<1>6. SemType'
  BY <1>1, <1>2, <1>4, <1>5 DEF SemType
<1>7. PcOK'
  BY SemReadersAssumption DEF PcOK, SemType, Process, Writer
<1>8. UndoMatches'
  BY <1>1, <1>3, <1>4, <1>5, SemReadersAssumption DEF UndoMatches, SemType, Process, Writer
<1>9. SemsCount'
  BY <1>1, <1>2, <1>3, SemReadersAssumption DEF SemsCount, Process, Writer
<1>10. MutualExclusion'
  BY <1>3 DEF MutualExclusion
<1> QED
  BY <1>6, <1>7, <1>8, <1>9, <1>10

\* A process leaves, by endRead, endWrite or by dying: the semaphores get back
\* what the process took, and nothing if it took nothing.
LEMMA LeaveKeeps ==
    ASSUME LockInv, NEW p \in Process, NEW to \in {"start", "dead"},
           pc' = [pc EXCEPT ![p] = to],
           sem0' = sem0 + adj0[p], sem1' = sem1 + adj1[p],
           adj0' = [adj0 EXCEPT ![p] = 0], adj1' = [adj1 EXCEPT ![p] = 0]
    PROVE  LockInv'
<1> USE DEF LockInv
<1>1. \A q \in Process : Inside(q)' <=> Inside(q) /\ q # p
  BY DEF Inside, SemType
<1>2. PcOK'
  BY SemReadersAssumption DEF PcOK, SemType, Process, Writer
<1>3. UndoMatches'
  BY <1>1, SemReadersAssumption DEF UndoMatches, SemType, Process, Writer
<1>4. MutualExclusion'
  BY <1>1 DEF MutualExclusion
<1>5. CASE ~Inside(p)
  <2>1. adj0[p] = 0 /\ adj1[p] = 0
    BY <1>5 DEF UndoMatches, Process
  <2>2. sem0' = sem0 /\ sem1' = sem1
    BY <2>1 DEF SemType
  <2>3. SemsCount'
    BY <1>1, <1>5, <2>2 DEF SemsCount, Process
  <2> QED
    BY <1>2, <1>3, <1>4, <2>1, <2>2, <2>3 DEF SemType
<1>6. CASE Inside(p)
  <2>1. \A q \in Process : ~Inside(q)'
    BY <1>1, <1>6 DEF MutualExclusion
  <2>2. sem0 = 0 /\ adj0[p] = 1 /\ sem0' = 1
    BY <1>6 DEF SemsCount, UndoMatches, SemType
  <2>3. sem1' = 0
    <3>1. CASE p = Writer
      <4>1. ~\E r \in Reader : Inside(r)
        BY <1>6, <3>1, SemReadersAssumption DEF MutualExclusion, Process, Writer
      <4> QED
        BY <3>1, <4>1 DEF SemsCount, UndoMatches, SemType
    <3>2. CASE p \in Reader
      BY <1>6, <3>2 DEF SemsCount, UndoMatches, SemType
    <3> QED
      BY <3>1, <3>2 DEF Process
  <2>4. SemsCount'
    BY <2>1, <2>2, <2>3 DEF SemsCount, Process
  <2> QED
    BY <1>2, <1>3, <1>4, <2>2, <2>3, <2>4 DEF SemType
<1> QED
  BY <1>5, <1>6

\* A step inside the critical section.
LEMMA StayKeeps ==
    ASSUME LockInv, NEW p \in Process, Inside(p), NEW to,
           to \in IF p = Writer THEN {"read", "append", "end"} ELSE {"write", "end"},
           pc' = [pc EXCEPT ![p] = to], UNCHANGED semVars
    PROVE  LockInv'
<1> USE DEF LockInv
<1>1. \A q \in Process : Inside(q)' <=> Inside(q)
  BY DEF Inside, SemType
<1>2. PcOK' /\ SemType'
  BY SemReadersAssumption DEF PcOK, SemType, Process, Writer, semVars
<1>3. UndoMatches' /\ SemsCount'
  BY <1>1 DEF UndoMatches, SemsCount, Process, semVars
<1>4. MutualExclusion'
  BY <1>1 DEF MutualExclusion
<1> QED
  BY <1>2, <1>3, <1>4

\* Every step of the children and the parent, and every kill, keeps the
\* balance of semaphores and SEM_UNDO adjustments.
LEMMA LockStep == LockInv /\ [Next]_vars => LockInv'
<1> SUFFICES ASSUME LockInv, [Next]_vars PROVE LockInv'
  OBVIOUS
<1> USE DEF Goto
<1>w. Writer \in Process /\ \A r \in Reader : r \in Process /\ r # Writer
  BY SemReadersAssumption DEF Process, Writer
<1>1. ASSUME NEW p \in Process, Exit(p) PROVE LockInv'
  BY <1>1, LeaveKeeps DEF Exit
<1>2. ASSUME NEW r \in Reader, StartRead(r) PROVE LockInv'
  BY <1>w, <1>2, EnterKeeps DEF StartRead
<1>3. ASSUME NEW r \in Reader, ReadFile(r) \/ WritePipe(r) PROVE LockInv'
  BY <1>w, <1>3, StayKeeps DEF ReadFile, WritePipe, Inside
<1>4. ASSUME NEW r \in Reader, EndRead(r) PROVE LockInv'
  <2>1. adj0[r] = 1 /\ adj1[r] = -1
    BY <1>w, <1>4 DEF EndRead, LockInv, UndoMatches, Inside
  <2>2. /\ sem0' = sem0 + adj0[r] /\ sem1' = sem1 + adj1[r]
        /\ adj0' = [adj0 EXCEPT ![r] = 0] /\ adj1' = [adj1 EXCEPT ![r] = 0]
    BY <1>w, <1>4, <2>1 DEF EndRead, Semop, LockInv, SemType
  <2> QED
    BY <1>w, <1>4, <2>2, LeaveKeeps DEF EndRead
<1>5. CASE StartWrite
  BY <1>w, <1>5, EnterKeeps DEF StartWrite
<1>6. CASE PollDone \/ ReadPipe \/ ReadEof \/ AppendFile
  BY <1>w, <1>6, StayKeeps DEF PollDone, ReadPipe, ReadEof, AppendFile, Inside
<1>7. CASE EndWrite
  <2>1. adj0[Writer] = 1 /\ adj1[Writer] = 0
    BY <1>w, <1>7 DEF EndWrite, LockInv, UndoMatches, Inside
  <2>2. /\ sem0' = sem0 + adj0[Writer] /\ sem1' = sem1 + adj1[Writer]
        /\ adj0' = [adj0 EXCEPT ![Writer] = 0] /\ adj1' = [adj1 EXCEPT ![Writer] = 0]
    BY <1>w, <1>7, <2>1 DEF EndWrite, Semop, LockInv, SemType
  <2> QED
    BY <1>w, <1>7, <2>2, LeaveKeeps DEF EndWrite
<1>8. ASSUME NEW r \in Reader, ReadFileFails(r) \/ WriteSigpipe(r) PROVE LockInv'
  BY <1>w, <1>1, <1>8 DEF ReadFileFails, WriteSigpipe
<1>9. ASSUME NEW p \in Process, Kill(p) PROVE LockInv'
  BY <1>1, <1>9 DEF Kill
<1>10. CASE UNCHANGED vars
  BY <1>10 DEF vars, LockInv, SemType, PcOK, UndoMatches, SemsCount, MutualExclusion, Inside
<1> QED
  BY <1>2, <1>3, <1>4, <1>5, <1>6, <1>7, <1>8, <1>9, <1>10
  DEF Next, Step, WriterStep, ReaderStep

\* At most one process is inside the critical section, for any number of
\* readers and whatever is killed when.
THEOREM Exclusion == Spec => []MutualExclusion
<1>1. LockInv => MutualExclusion
  BY DEF LockInv
<1> QED
  BY LockInit, LockStep, <1>1, PTL DEF Spec

\* SEM_UNDO gives the mutex back: no kill and no exit loses it.
THEOREM NeverLost == Spec => []MutexNotLost
<1>1. LockInv => MutexNotLost
  BY DEF LockInv, MutexNotLost, SemsCount, SemType, Process
<1> QED
  BY LockInit, LockStep, <1>1, PTL DEF Spec

\* The polling loop of startWrite ends at its first test.
THEOREM NeverSpins == Spec => []PollNeverSpins
<1>1. LockInv => PollNeverSpins
  <2> SUFFICES ASSUME LockInv, pc[Writer] = "poll" PROVE sem1 = 0
    BY DEF PollNeverSpins
  <2>1. Inside(Writer)
    BY DEF Inside
  <2>2. ~\E r \in Reader : Inside(r)
    BY <2>1, SemReadersAssumption DEF LockInv, MutualExclusion, Process, Writer
  <2> QED
    BY <2>2 DEF LockInv, SemsCount, SemType
<1> QED
  BY LockInit, LockStep, <1>1, PTL DEF Spec
-----------------------------------------------------------------------------
(* The numbers on their way, with the lemmas about them. *)

Way == INSTANCE NumberLogProofs WITH closed <- (\A r \in Reader : pc[r] = "dead"),
                                     parent <- pc[Writer]

Free == {"start", "poll", "read", "end"}
Hold == {"append"}

\* A step of process p that moves no number is one of the children's, or the
\* parent goes on without one or dies.
LEMMA MovesNothing ==
    ASSUME LockInv, NEW p \in Process, NEW to, pc[p] # "dead", pc' = [pc EXCEPT ![p] = to],
           p = Writer => to = "dead" \/ (pc[p] \in Free /\ to \in Free),
           UNCHANGED <<pipe, produced, file, got>>
    PROVE  Way!WayStep(Free, Hold)
<1>1. pc \in [Process -> {"start", "fopen", "write", "poll", "read", "append", "end", "dead"}]
  BY DEF LockInv, SemType
<1>2. CASE p = Writer
  <2>1. pc'[Writer] = to /\ \A r \in Reader : pc'[r] = pc[r]
    BY <1>1, <1>2, SemReadersAssumption DEF Process, Writer
  <2> QED
    BY <1>2, <2>1 DEF Way!WayStep, Way!ParentMoves
<1>3. CASE p \in Reader
  <2>1. pc'[Writer] = pc[Writer] /\ ~\A r \in Reader : pc[r] = "dead"
    BY <1>1, <1>3, SemReadersAssumption DEF Process, Writer
  <2> QED
    BY <2>1 DEF Way!WayStep, Way!ChildMoves
<1> QED
  BY <1>2, <1>3 DEF Process

\* Each action of Task 9 does to pipe, hands and file what WayStep allows.
LEMMA WaySteps == LockInv /\ [Next]_vars => Way!WayStep(Free, Hold)
<1> SUFFICES ASSUME LockInv, [Next]_vars PROVE Way!WayStep(Free, Hold)
  OBVIOUS
<1> USE DEF Goto
<1>p. pc \in [Process -> {"start", "fopen", "write", "poll", "read", "append", "end", "dead"}]
  BY DEF LockInv, SemType
<1>w. Writer \in Process /\ \A r \in Reader : r \in Process /\ r # Writer
  BY SemReadersAssumption DEF Process, Writer
<1>1. ASSUME NEW r \in Reader,
             StartRead(r) \/ ReadFile(r) \/ EndRead(r) \/ ReadFileFails(r) \/ WriteSigpipe(r)
      PROVE  Way!WayStep(Free, Hold)
  BY <1>w, <1>1, MovesNothing DEF StartRead, ReadFile, EndRead, ReadFileFails, WriteSigpipe, Exit
<1>2. ASSUME NEW p \in Process, Kill(p) PROVE Way!WayStep(Free, Hold)
  BY <1>2, MovesNothing DEF Kill, Exit
<1>3. ASSUME NEW r \in Reader, WritePipe(r) PROVE Way!WayStep(Free, Hold)
  <2>1. /\ pc'[Writer] = pc[Writer] /\ pc[r] # "dead" /\ pc'[r] # "dead"
    BY <1>p, <1>w, <1>3 DEF WritePipe
  <2> QED
    BY <1>3, <2>1 DEF Way!WayStep, Way!ChildWrites, WritePipe
<1>4. CASE StartWrite \/ PollDone \/ EndWrite
  BY <1>w, <1>4, MovesNothing DEF StartWrite, PollDone, EndWrite, Free
<1>5. CASE ReadPipe \/ ReadEof \/ AppendFile
  <2>1. \A r \in Reader : pc'[r] = pc[r]
    BY <1>p, <1>w, <1>5 DEF ReadPipe, ReadEof, AppendFile
  <2>2. CASE ReadPipe
    BY <1>p, <1>w, <2>1, <2>2 DEF Way!WayStep, Way!ParentReads, ReadPipe, Hold
  <2>3. CASE ReadEof
    BY <2>1, <2>3 DEF Way!WayStep, Way!ParentReadsEof, ReadEof
  <2>4. CASE AppendFile
    BY <1>p, <1>w, <2>1, <2>4 DEF Way!WayStep, Way!ParentRecords, AppendFile, Free, Hold
  <2> QED
    BY <1>5, <2>2, <2>3, <2>4
<1>6. CASE UNCHANGED vars
  BY <1>6 DEF vars, Way!WayStep
<1> QED
  BY <1>1, <1>2, <1>3, <1>4, <1>5, <1>6 DEF Next, Step, WriterStep, ReaderStep

\* With any number of children and whatever is killed, each number is in the
\* file once and in the order in which the children wrote to the pipe; values
\* nobody sent are appended only after all children have ended.
THEOREM SemReadersInOrder == Spec => RecordsInOrder
<1>1. Init => Way!OnTheWay(Free, Hold) /\ Log!Init
  BY SemReadersAssumption
  DEF Init, Way!OnTheWay, Free, Way!DataType, Way!Between, Way!Unread, Log!Init, Process, Writer
<1>2. LockInv /\ Way!OnTheWay(Free, Hold) /\ [Next]_vars
        => Way!OnTheWay(Free, Hold)' /\ [Log!Next]_(Log!logVars)
  <2> SUFFICES ASSUME LockInv, Way!OnTheWay(Free, Hold), [Next]_vars
               PROVE  /\ Way!OnTheWay(Free, Hold)'
                      /\ [Log!Next]_(Log!logVars)
    OBVIOUS
  <2>1. /\ "read" \in Free /\ "dead" \notin Free \cup Hold
        /\ Free \cap Hold = {}
    BY DEF Free, Hold
  <2>2. Way!OnTheWay(Free, Hold)' /\ [Way!Next]_(Way!logVars)
    BY <2>1, WaySteps, Way!WayKept
  <2> QED
    BY <2>2
    DEF Way!Next, Way!Produce, Way!Record, Way!Close, Way!Junk, Way!Rerun,
        Way!logVars, Log!Next, Log!Produce, Log!Record, Log!Close,
        Log!Junk, Log!Rerun, Log!logVars
<1> QED
  BY <1>1, <1>2, LockInit, LockStep, PTL DEF Spec, RecordsInOrder, Log!Spec

\* So the k-th number in the file is the k-th that any of the children sent.
THEOREM SemReadersFile == Spec => []Way!InOrder
<1>1. Log!Spec => []Way!InOrder
  BY Way!LogInOrder
  DEF Log!Spec, Way!Spec, Log!Init, Way!Init, Log!logVars, Way!logVars,
      Way!Next, Way!Produce, Way!Record, Way!Close, Way!Junk, Way!Rerun,
      Log!Next, Log!Produce, Log!Record, Log!Close, Log!Junk, Log!Rerun
<1> QED
  BY <1>1, SemReadersInOrder, PTL DEF RecordsInOrder

-----------------------------------------------------------------------------
(* Where the program can come to a stop. *)

\* What the pipe and the bounds of the model hold.
Amounts ==
    /\ pipe \in Seq(Number) /\ Len(pipe) <= PIPE_CAP
    /\ produced \in Seq(Number) /\ Len(produced) <= MaxNumbers
    /\ file \in Seq(Number) /\ Len(file) <= MaxNumbers
    /\ got \in Number

\* No action exceeds the pipe or the bounds of the model.
LEMMA AmountsStep == Amounts /\ [Next]_vars => Amounts'
<1> SUFFICES ASSUME Amounts, [Next]_vars PROVE Amounts'
  OBVIOUS
<1>1. CASE UNCHANGED <<pipe, produced, file, got>>
  BY <1>1 DEF Amounts
<1>2. ASSUME NEW r \in Reader, WritePipe(r) PROVE Amounts'
  <2>1. PICK n \in Number : pipe' = Append(pipe, n) /\ produced' = Append(produced, n)
    BY <1>2 DEF WritePipe
  <2>2. pipe' \in Seq(Number) /\ Len(pipe') <= PIPE_CAP
    BY <1>2, <2>1, SemReadersAssumption DEF WritePipe, Amounts
  <2>3. produced' \in Seq(Number) /\ Len(produced') <= MaxNumbers
    BY <1>2, <2>1, SemReadersAssumption DEF WritePipe, Amounts
  <2> QED
    BY <1>2, <2>2, <2>3 DEF WritePipe, Amounts
<1>3. CASE ReadPipe
  <2>1. got' \in Number /\ pipe' \in Seq(Number) /\ Len(pipe') <= PIPE_CAP
    BY <1>3, SemReadersAssumption DEF ReadPipe, Amounts
  <2> QED
    BY <1>3, <2>1 DEF ReadPipe, Amounts
<1>4. CASE ReadEof
  BY <1>4 DEF ReadEof, Amounts
<1>5. CASE AppendFile
  <2>1. file' \in Seq(Number) /\ Len(file') <= MaxNumbers
    BY <1>5, SemReadersAssumption DEF AppendFile, Amounts
  <2> QED
    BY <1>5, <2>1 DEF AppendFile, Amounts
<1> QED
  BY <1>1, <1>2, <1>3, <1>4, <1>5
  DEF Next, Step, WriterStep, ReaderStep, StartRead, ReadFile, ReadFileFails, WriteSigpipe,
      EndRead, StartWrite, PollDone, EndWrite, Kill, vars

\* What a stop is judged by, in every state.
LEMMA StopInvariant == Spec => [](LockInv /\ Amounts)
<1>1. Init => Amounts
  <2> SUFFICES ASSUME Init PROVE Amounts
    OBVIOUS
  <2>1. pipe \in Seq(Number) /\ Len(pipe) = 0 /\ produced = pipe /\ file = pipe
    BY DEF Init
  <2> QED
    BY <2>1, SemReadersAssumption DEF Init, Amounts
<1> QED
  BY <1>1, LockInit, LockStep, AmountsStep, PTL DEF Spec

\* With any number of children, the program stops only with one of them at the
\* full pipe, or the parent at the empty one, and that one has the mutex.
THEOREM OnlyThePipeStopsTask9 == Spec => []OnlyThePipeStops
<1>1. LockInv /\ Amounts => OnlyThePipeStops
  <2> SUFFICES ASSUME LockInv, Amounts, Stopped, ~AtBound,
                      ~\A p \in Process : pc[p] = "dead"
               PROVE  WriterStarves \/ \E r \in Reader : ReaderStarves(r)
    BY DEF OnlyThePipeStops
  <2>1. /\ Len(produced) \in Nat /\ Len(file) \in Nat /\ Len(pipe) \in Nat
        /\ Len(produced) < MaxNumbers /\ Len(file) < MaxNumbers /\ Len(pipe) <= PIPE_CAP
    BY SemReadersAssumption DEF Amounts, AtBound
  <2>2. PICK p \in Process : Inside(p)
    <3> SUFFICES ASSUME \A q \in Process : ~Inside(q) PROVE FALSE
      OBVIOUS
    <3>1. sem0 # 0
      BY DEF LockInv, SemsCount
    <3>2. PICK q \in Process : pc[q] = "start"
      BY DEF Inside
    <3> QED
      BY <3>1, <3>2, SemReadersAssumption DEF Process, Writer, Stopped, WriterWaits, ReaderWaits
  <2>3. CASE p = Writer
    <3>1. pc[Writer] # "poll"
      <4>1. ~\E r \in Reader : Inside(r)
        BY <2>2, <2>3, SemReadersAssumption DEF LockInv, MutualExclusion, Process, Writer
      <4>2. sem1 = 0
        BY <4>1 DEF LockInv, SemsCount, SemType
      <4>3. WriterWaits
        BY DEF Stopped
      <4> QED
        BY <4>2, <4>3 DEF WriterWaits
    <3>2. pc[Writer] \in {"read", "append"}
      BY <2>2, <2>3, <3>1 DEF Stopped, WriterWaits, Inside
    <3>3. pc[Writer] = "read"
      BY <2>1, <3>2, SemReadersAssumption DEF Stopped, WriterWaits
    <3> QED
      BY <3>3 DEF Stopped, WriterWaits, WriterStarves
  <2>4. CASE p \in Reader
    <3>1. pc[p] = "write" /\ pc[Writer] # "dead"
      BY <2>2, <2>4 DEF Stopped, ReaderWaits, Inside
    <3>2. Len(pipe) >= PIPE_CAP
      BY <2>1, <2>4, <3>1, SemReadersAssumption DEF Stopped, ReaderWaits
    <3> QED
      BY <2>1, <2>4, <3>1, <3>2, SemReadersAssumption DEF ReaderStarves
  <2> QED
    BY <2>3, <2>4 DEF Process
<1> QED
  BY <1>1, StopInvariant, PTL

\* A stop is a stop: from there no process takes a step of its own.
THEOREM StoppedForGoodTask9 == Spec => [][Stopped => ~Step]_vars
<1>1. LockInv /\ Amounts => (Stopped => ~Step)
  <2> SUFFICES ASSUME LockInv, Amounts, Stopped, Step PROVE FALSE
    OBVIOUS
  <2>1. /\ sem0 \in 0 .. 1 /\ sem1 \in 0 .. 1
        /\ Len(produced) \in Nat /\ Len(file) \in Nat /\ Len(pipe) \in Nat
    BY DEF LockInv, SemType, Amounts
  <2>2. ~WriterStep
    BY <2>1, SemReadersAssumption
    DEF Stopped, WriterWaits, WriterStep, StartWrite, PollDone, ReadPipe, ReadEof, AppendFile,
        EndWrite, Goto, Semop
  <2>3. ASSUME NEW r \in Reader PROVE ~ReaderStep(r)
    BY <2>1, SemReadersAssumption
    DEF Stopped, ReaderWaits, ReaderStep, StartRead, ReadFile, ReadFileFails, WritePipe,
        WriteSigpipe, EndRead, Goto, Semop
  <2> QED
    BY <2>2, <2>3 DEF Step
<1> QED
  BY <1>1, StopInvariant, PTL
=============================================================================
