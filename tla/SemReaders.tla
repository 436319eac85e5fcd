----------------------------- MODULE SemReaders -----------------------------
(***************************************************************************)
(* "Module 3/Task 9": MAX_READERS children read number.txt and send random *)
(* numbers through a pipe, the parent appends them to the file.  Access to *)
(* the file is guarded by a System V semaphore set: semaphore 0 is the     *)
(* write mutex, semaphore 1 counts readers.  Every operation is SEM_UNDO,  *)
(* so the kernel keeps an adjustment per process and applies it on exit.   *)
(***************************************************************************)
EXTENDS Integers, Sequences

CONSTANTS
    Reader,      \* the children
    Number,      \* values of rand() % 100
    PIPE_CAP,    \* numbers the pipe holds before write blocks
    MaxNumbers   \* bound: numbers produced, and numbers appended, in a run

ASSUME SemReadersAssumption ==
    /\ Reader # {} /\ "writer" \notin Reader
    /\ PIPE_CAP \in Nat \ {0}
    /\ MaxNumbers \in Nat

VARIABLES
    sem0, sem1,   \* the semaphore set
    adj0, adj1,   \* semadj of every process, for SEM_UNDO
    pc,           \* what a process does next; "dead" once it has exited
    pipe,         \* unread numbers
    exists,       \* number.txt exists
    got,          \* receivedNumber of the parent: an indeterminate value is any
    produced, file   \* history: numbers written, numbers appended in this run

vars == <<sem0, sem1, adj0, adj1, pc, pipe, exists, got, produced, file>>
semVars == <<sem0, sem1, adj0, adj1>>

Writer == "writer"
Process == Reader \cup {Writer}

Init ==
    /\ sem0 = 1 /\ sem1 = 0          \* initSemaphores
    /\ adj0 = [p \in Process |-> 0]
    /\ adj1 = [p \in Process |-> 0]
    /\ pc = [p \in Process |-> "start"]
    /\ pipe = <<>>
    /\ exists \in BOOLEAN
    /\ got \in Number
    /\ produced = <<>>
    /\ file = <<>>

\* Mutant: without SEM_UNDO.
SemopNoUndo(p, op0, op1) ==
    /\ sem0 + op0 >= 0 /\ sem1 + op1 >= 0
    /\ sem0' = sem0 + op0
    /\ sem1' = sem1 + op1
    /\ UNCHANGED <<adj0, adj1>>

\* semop(semid, {sem_num, sem_op, SEM_UNDO}, n) of process p, atomic over the
\* set: it blocks while a value would become negative.
Semop(p, op0, op1) ==
    /\ sem0 + op0 >= 0 /\ sem1 + op1 >= 0
    /\ sem0' = sem0 + op0
    /\ sem1' = sem1 + op1
    /\ adj0' = [adj0 EXCEPT ![p] = @ - op0]
    /\ adj1' = [adj1 EXCEPT ![p] = @ - op1]

\* Process p ends: the kernel applies its adjustments.
Exit(p) ==
    /\ sem0' = sem0 + adj0[p]
    /\ sem1' = sem1 + adj1[p]
    /\ adj0' = [adj0 EXCEPT ![p] = 0]
    /\ adj1' = [adj1 EXCEPT ![p] = 0]
    /\ pc' = [pc EXCEPT ![p] = "dead"]

Goto(p, from, to) == pc[p] = from /\ pc' = [pc EXCEPT ![p] = to]

-----------------------------------------------------------------------------
(* A child. *)

\* Mutant: the reader only counts itself.
StartReadCounts(r) ==
    /\ Goto(r, "start", "fopen")
    /\ Semop(r, 0, 1)
    /\ UNCHANGED <<pipe, exists, got, produced, file>>

\* startRead: take the mutex and count the reader in one semop.
StartRead(r) ==
    /\ Goto(r, "start", "fopen")
    /\ Semop(r, -1, 1)
    /\ UNCHANGED <<pipe, exists, got, produced, file>>

\* fopen(.., "r") and the listing of the file.
ReadFile(r) ==
    /\ exists
    /\ Goto(r, "fopen", "write")
    /\ UNCHANGED <<semVars, pipe, exists, got, produced, file>>

\* number.txt is missing: exit inside the critical section.
ReadFileFails(r) ==
    /\ ~exists /\ pc[r] = "fopen"
    /\ Exit(r)
    /\ UNCHANGED <<pipe, exists, got, produced, file>>

\* write to the pipe, which blocks while it is full.
WritePipe(r) ==
    /\ Goto(r, "write", "end")
    /\ pc[Writer] # "dead"
    /\ Len(pipe) < PIPE_CAP /\ Len(produced) < MaxNumbers
    /\ \E n \in Number : pipe' = Append(pipe, n) /\ produced' = Append(produced, n)
    /\ UNCHANGED <<semVars, exists, got, file>>

\* Nobody has the read end open: SIGPIPE ends the child.
WriteSigpipe(r) ==
    /\ pc[r] = "write" /\ pc[Writer] = "dead"
    /\ Exit(r)
    /\ UNCHANGED <<pipe, exists, got, produced, file>>

\* Mutant: the reader stays counted.
EndReadStaysCounted(r) ==
    /\ Goto(r, "end", "start")
    /\ Semop(r, 1, 0)
    /\ UNCHANGED <<pipe, exists, got, produced, file>>

EndRead(r) ==
    /\ Goto(r, "end", "start")
    /\ Semop(r, 1, -1)
    /\ UNCHANGED <<pipe, exists, got, produced, file>>

-----------------------------------------------------------------------------
(* The parent. *)

\* startWrite: take the mutex ...
StartWrite ==
    /\ Goto(Writer, "start", "poll")
    /\ Semop(Writer, -1, 0)
    /\ UNCHANGED <<pipe, exists, got, produced, file>>

\* ... then poll semaphore 1 until there is no reader.
PollDone ==
    /\ sem1 = 0
    /\ Goto(Writer, "poll", "read")
    /\ UNCHANGED <<semVars, pipe, exists, got, produced, file>>

\* read from the pipe, which blocks while it is empty and a child is left.
ReadPipe ==
    /\ Goto(Writer, "read", "append")
    /\ pipe # <<>>
    /\ got' = Head(pipe)
    /\ pipe' = Tail(pipe)
    /\ UNCHANGED <<semVars, exists, produced, file>>

\* Mutant: read does not block, an empty pipe is taken for a number.
ReadEofNonblocking ==
    /\ Goto(Writer, "read", "append")
    /\ pipe = <<>>
    /\ got' \in Number
    /\ UNCHANGED <<semVars, pipe, exists, produced, file>>

\* Every write end is closed: read returns 0, only -1 is checked for, and
\* receivedNumber, declared in the loop body, is not assigned.
ReadEof ==
    /\ Goto(Writer, "read", "append")
    /\ pipe = <<>> /\ \A r \in Reader : pc[r] = "dead"
    /\ got' \in Number
    /\ UNCHANGED <<semVars, pipe, exists, produced, file>>

\* fopen(.., "a") creates the file if it is missing.
AppendFile ==
    /\ Goto(Writer, "append", "end")
    /\ Len(file) < MaxNumbers
    /\ exists' = TRUE
    /\ file' = Append(file, got)
    /\ UNCHANGED <<semVars, pipe, got, produced>>

\* Mutant: the mutex is kept.
EndWriteKeeps ==
    /\ Goto(Writer, "end", "start")
    /\ UNCHANGED <<semVars, pipe, exists, got, produced, file>>

EndWrite ==
    /\ Goto(Writer, "end", "start")
    /\ Semop(Writer, 1, 0)
    /\ UNCHANGED <<pipe, exists, got, produced, file>>

-----------------------------------------------------------------------------
\* A process is killed at any point.
Kill(p) ==
    /\ pc[p] # "dead"
    /\ Exit(p)
    /\ UNCHANGED <<pipe, exists, got, produced, file>>

ReaderStep(r) ==
    \/ StartRead(r) \/ ReadFile(r) \/ ReadFileFails(r)
    \/ WritePipe(r) \/ WriteSigpipe(r) \/ EndRead(r)

WriterStep == StartWrite \/ PollDone \/ ReadPipe \/ ReadEof \/ AppendFile \/ EndWrite

Step == WriterStep \/ \E r \in Reader : ReaderStep(r)

Next == Step \/ \E p \in Process : Kill(p)

Spec == Init /\ [][Next]_vars

\* The scheduler runs every process that can move; nothing has to be killed.
FairSpec == Spec /\ WF_vars(WriterStep) /\ \A r \in Reader : WF_vars(ReaderStep(r))

-----------------------------------------------------------------------------
\* p is between taking and releasing the mutex.
Inside(p) == pc[p] \notin {"start", "dead"}

\* The file is never read while it is written, nor by two readers at once
\* (startRead holds the mutex for the whole section), through any kill: the
\* SEM_UNDO adjustments of startRead and endRead must cancel (main.c:36-68).
MutualExclusion ==
    \A p, q \in Process : Inside(p) /\ Inside(q) => p = q

\* The mutex is never lost: it is free whenever nobody is inside, also after
\* a holder has exited or was killed (SEM_UNDO, main.c:41, 45, 74).
MutexNotLost == (\A p \in Process : ~Inside(p)) => sem0 = 1 /\ sem1 = 0

\* The polling loop of startWrite never waits (main.c:81-85): a reader counts
\* itself under the mutex that the writer already holds.
PollNeverSpins == pc[Writer] = "poll" => sem1 = 0

\* The writer waits for a number and holds the mutex that every child needs
\* to produce one; or a child waits for room in the pipe and holds the mutex
\* that the writer needs to make some.
WriterStarves == pc[Writer] = "read" /\ pipe = <<>> /\ \E r \in Reader : pc[r] # "dead"
ReaderStarves(r) == pc[r] = "write" /\ Len(pipe) = PIPE_CAP /\ pc[Writer] # "dead"
AtBound == Len(produced) = MaxNumbers \/ Len(file) = MaxNumbers

\* Where a process that cannot go on is: dead, at a semop, at the pipe, in the
\* polling loop or at the bound of the model.
ReaderWaits(r) ==
    \/ pc[r] = "dead"
    \/ pc[r] = "start" /\ sem0 = 0
    \/ pc[r] = "write" /\ pc[Writer] # "dead"
                      /\ (Len(pipe) >= PIPE_CAP \/ Len(produced) >= MaxNumbers)
WriterWaits ==
    \/ pc[Writer] = "dead"
    \/ pc[Writer] = "start" /\ sem0 = 0
    \/ pc[Writer] = "poll" /\ sem1 # 0
    \/ pc[Writer] = "read" /\ pipe = <<>> /\ \E r \in Reader : pc[r] # "dead"
    \/ pc[Writer] = "append" /\ Len(file) >= MaxNumbers

Stopped == WriterWaits /\ \A r \in Reader : ReaderWaits(r)

\* Of all combinations of waits only those two occur, or all have died: no two
\* processes wait for the mutex of each other, and nobody for one that is lost.
OnlyThePipeStops ==
    Stopped =>
        \/ WriterStarves \/ \E r \in Reader : ReaderStarves(r)
        \/ \A p \in Process : pc[p] = "dead"
        \/ AtBound

\* The program comes to a stop only in those two ways (or when all have died).
StopsOnlyOnPipe == (~ENABLED Step => Stopped) /\ OnlyThePipeStops

\* A process inside the critical section leaves it, or dies, or the program
\* has stopped on the pipe.
SectionEnds ==
    (sem0 = 0) ~> (sem0 = 1 \/ WriterStarves \/ (\E r \in Reader : ReaderStarves(r)) \/ AtBound)

\* Numbers are recorded once, in order; junk only after all children ended.
Log == INSTANCE NumberLog WITH closed <- (\A r \in Reader : pc[r] = "dead")
RecordsInOrder == Log!Spec
=============================================================================
