------------------------------ MODULE PosixLog ------------------------------
(***************************************************************************)
(* "Module 3/Task 10": one child reads number.txt and sends numbers, the   *)
(* parent appends them, both under one POSIX semaphore.  The semaphore is  *)
(* named and survives the processes: sem_unlink stands behind endless      *)
(* loops, and O_CREAT gives the value 1 only to a semaphore that is new.   *)
(***************************************************************************)
EXTENDS Integers, Sequences

CONSTANTS
    Number,      \* values of rand() % 100
    PIPE_CAP,    \* numbers the pipe holds before write blocks
    MaxNumbers,  \* bound: numbers produced, and numbers appended, in a run
    MaxRuns      \* bound: runs of the program

ASSUME PosixLogAssumption ==
    /\ PIPE_CAP \in Nat \ {0}
    /\ MaxNumbers \in Nat
    /\ MaxRuns \in Nat \ {0}

VARIABLES
    sem,              \* the value of "semaphore"
    child, parent,    \* what each process does next; "dead" once it has ended
    pipe, exists, got,
    produced, file,   \* history of the current run
    run,              \* number of the current run
    orphaned          \* history: a process ended while it held the semaphore

vars == <<sem, child, parent, pipe, exists, got, produced, file, run, orphaned>>

Init ==
    /\ sem = 1
    /\ child = "wait" /\ parent = "wait"
    /\ pipe = <<>>
    /\ exists \in BOOLEAN
    /\ got \in Number
    /\ produced = <<>> /\ file = <<>>
    /\ run = 1
    /\ orphaned = FALSE

ChildInside  == child \in {"fopen", "write", "post"}
ParentInside == parent \in {"read", "append", "post"}

Wait == sem > 0 /\ sem' = sem - 1
Post == sem' = sem + 1

-----------------------------------------------------------------------------
ChildWait ==
    /\ child = "wait" /\ Len(produced) < MaxNumbers
    /\ Wait
    /\ child' = "fopen"
    /\ UNCHANGED <<parent, pipe, exists, got, produced, file, run, orphaned>>

ReadFile ==
    /\ child = "fopen" /\ exists
    /\ child' = "write"
    /\ UNCHANGED <<sem, parent, pipe, exists, got, produced, file, run, orphaned>>

\* The file is missing: post, then exit.
ReadFileFails ==
    /\ child = "fopen" /\ ~exists
    /\ Post
    /\ child' = "dead"
    /\ UNCHANGED <<parent, pipe, exists, got, produced, file, run, orphaned>>

WritePipe ==
    /\ child = "write" /\ parent # "dead" /\ Len(pipe) < PIPE_CAP
    /\ \E n \in Number : pipe' = Append(pipe, n) /\ produced' = Append(produced, n)
    /\ child' = "post"
    /\ UNCHANGED <<sem, parent, exists, got, file, run, orphaned>>

\* The parent is gone: SIGPIPE ends the child before write returns -1, so the
\* sem_post of the error branch is never reached.
WriteSigpipe ==
    /\ child = "write" /\ parent = "dead"
    /\ child' = "dead"
    /\ orphaned' = TRUE
    /\ UNCHANGED <<sem, parent, pipe, exists, got, produced, file, run>>

ChildPost ==
    /\ child = "post"
    /\ Post
    /\ child' = "wait"
    /\ UNCHANGED <<parent, pipe, exists, got, produced, file, run, orphaned>>

-----------------------------------------------------------------------------
ParentWait ==
    /\ parent = "wait" /\ Len(file) < MaxNumbers
    /\ Wait
    /\ parent' = "read"
    /\ UNCHANGED <<child, pipe, exists, got, produced, file, run, orphaned>>

ReadPipe ==
    /\ parent = "read" /\ pipe # <<>>
    /\ got' = Head(pipe) /\ pipe' = Tail(pipe)
    /\ parent' = "append"
    /\ UNCHANGED <<sem, child, exists, produced, file, run, orphaned>>

\* Mutant: read does not block, an empty pipe is taken for a number.
ReadEofNonblocking ==
    /\ parent = "read" /\ pipe = <<>>
    /\ got' \in Number
    /\ parent' = "append"
    /\ UNCHANGED <<sem, child, pipe, exists, produced, file, run, orphaned>>

\* read returns 0, which is not checked for.
ReadEof ==
    /\ parent = "read" /\ pipe = <<>> /\ child = "dead"
    /\ got' \in Number
    /\ parent' = "append"
    /\ UNCHANGED <<sem, child, pipe, exists, produced, file, run, orphaned>>

AppendFile ==
    /\ parent = "append"
    /\ exists' = TRUE
    /\ file' = Append(file, got)
    /\ parent' = "post"
    /\ UNCHANGED <<sem, child, pipe, got, produced, run, orphaned>>

\* fopen(.., "a") fails: post, then exit.
AppendFails ==
    /\ parent = "append"
    /\ Post
    /\ parent' = "dead"
    /\ UNCHANGED <<child, pipe, exists, got, produced, file, run, orphaned>>

\* Mutant: the semaphore is kept.
ParentPostKeeps ==
    /\ parent = "post" /\ parent' = "wait"
    /\ UNCHANGED <<sem, child, pipe, exists, got, produced, file, run, orphaned>>

ParentPost ==
    /\ parent = "post"
    /\ Post
    /\ parent' = "wait"
    /\ UNCHANGED <<child, pipe, exists, got, produced, file, run, orphaned>>

-----------------------------------------------------------------------------
\* A signal ends a process; a POSIX semaphore is not given back.
KillChild ==
    /\ child # "dead" /\ child' = "dead"
    /\ orphaned' = (orphaned \/ ChildInside)
    /\ UNCHANGED <<sem, parent, pipe, exists, got, produced, file, run>>

KillParent ==
    /\ parent # "dead" /\ parent' = "dead"
    /\ orphaned' = (orphaned \/ ParentInside)
    /\ UNCHANGED <<sem, child, pipe, exists, got, produced, file, run>>

\* Mutant: the semaphore is created anew.
RerunUnlinks ==
    /\ child = "dead" /\ parent = "dead" /\ run < MaxRuns
    /\ run' = run + 1 /\ sem' = 1
    /\ child' = "wait" /\ parent' = "wait"
    /\ pipe' = <<>> /\ produced' = <<>> /\ file' = <<>>
    /\ UNCHANGED <<got, exists, orphaned>>

\* The program is started again: sem_open finds the semaphore it left.
Rerun ==
    /\ child = "dead" /\ parent = "dead" /\ run < MaxRuns
    /\ run' = run + 1
    /\ child' = "wait" /\ parent' = "wait"
    /\ pipe' = <<>> /\ produced' = <<>> /\ file' = <<>>
    /\ got' \in Number
    /\ UNCHANGED <<sem, exists, orphaned>>

ChildStep == ChildWait \/ ReadFile \/ ReadFileFails \/ WritePipe \/ WriteSigpipe \/ ChildPost
ParentStep == ParentWait \/ ReadPipe \/ ReadEof \/ AppendFile \/ AppendFails \/ ParentPost
Step == ChildStep \/ ParentStep
Next == Step \/ KillChild \/ KillParent \/ Rerun

Spec == Init /\ [][Next]_vars

-----------------------------------------------------------------------------
\* Once a process has ended inside, no later run records anything: the named
\* semaphore stays at 0 (main.c:16-20, 88-91).
LostForever == [][orphaned => file' = file \/ file' = <<>>]_vars

AtBound == Len(produced) = MaxNumbers \/ Len(file) = MaxNumbers

\* Where a process that cannot go on is: dead, in sem_wait, at the pipe or at
\* the bound of the model.
ChildWaits ==
    \/ child = "dead"
    \/ child = "wait" /\ (sem = 0 \/ Len(produced) >= MaxNumbers)
    \/ child = "write" /\ parent # "dead" /\ Len(pipe) >= PIPE_CAP
ParentWaits ==
    \/ parent = "dead"
    \/ parent = "wait" /\ (sem = 0 \/ Len(file) >= MaxNumbers)
    \/ parent = "read" /\ pipe = <<>> /\ child # "dead"

Stopped == ChildWaits /\ ParentWaits

\* Ways to stop: the parent waits for a number holding the token the child
\* needs; the child waits for room holding the token the parent needs; the
\* token went with a process that ended inside; all are dead.
OnlyThePipeStops ==
    Stopped =>
        \/ parent = "read" /\ pipe = <<>> /\ child = "wait"
        \/ child = "write" /\ Len(pipe) = PIPE_CAP /\ parent = "wait"
        \/ orphaned
        \/ child = "dead" /\ parent = "dead"
        \/ AtBound

\* The two processes come to a stop in those ways only.
StopsOnlyOnPipe == (~ENABLED Step => Stopped) /\ OnlyThePipeStops

\* Numbers are recorded once, in order; junk only after the child has ended.
Log == INSTANCE NumberLog WITH closed <- (child = "dead")
RecordsInOrder == Log!Spec
=============================================================================
