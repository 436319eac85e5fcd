---------------------------- MODULE ReadersCount ----------------------------
(***************************************************************************)
(* "Module 3/Task 11": the readers-writers scheme with readers_mutex,      *)
(* resource_mutex and readers_count, applied to one child and its parent.  *)
(* readers_count is a local variable, so after fork it is the child's own. *)
(* Unlike Tasks 9 and 10 the parent reads the pipe before it takes the     *)
(* semaphore.  Both semaphores are named and survive the processes.        *)
(***************************************************************************)
EXTENDS Integers, Sequences

CONSTANTS
    Number,      \* values of rand() % 100
    PIPE_CAP,    \* numbers the pipe holds before write blocks
    MaxNumbers,  \* bound: numbers produced, and numbers appended, in a run
    MaxRuns      \* bound: runs of the program

ASSUME ReadersCountAssumption ==
    /\ PIPE_CAP \in Nat \ {0}
    /\ MaxNumbers \in Nat
    /\ MaxRuns \in Nat \ {0}

VARIABLES
    readers_mutex, resource_mutex, readers_count,
    child, parent,    \* what each process does next; "dead" once it has ended
    failed,           \* the child is on the branch of a missing file
    pipe, exists, got,
    produced, file,   \* history of the current run
    run,              \* number of the current run
    orphaned          \* history: a process ended while it held a semaphore

vars == <<readers_mutex, resource_mutex, readers_count, child, parent, failed,
          pipe, exists, got, produced, file, run, orphaned>>
dataVars == <<pipe, exists, got, produced, file, run>>

Init ==
    /\ readers_mutex = 1 /\ resource_mutex = 1 /\ readers_count = 0
    /\ child = "enter" /\ parent = "read" /\ failed = FALSE
    /\ pipe = <<>>
    /\ exists \in BOOLEAN
    /\ got \in Number
    /\ produced = <<>> /\ file = <<>>
    /\ run = 1
    /\ orphaned = FALSE

ChildHolds  == child \in {"entered", "fopen", "write", "leave", "free"}
ParentHolds == parent \in {"append", "post"}

-----------------------------------------------------------------------------
\* Mutant: the count is tested before it is incremented.
EnterTestsOld ==
    /\ child = "enter" /\ Len(produced) < MaxNumbers
    /\ readers_mutex > 0 /\ readers_mutex' = readers_mutex - 1
    /\ readers_count' = readers_count + 1
    /\ child' = IF readers_count = 1 THEN "resource" ELSE "entered"
    /\ UNCHANGED <<resource_mutex, parent, failed, dataVars, orphaned>>

\* sem_wait(readers_mutex); readers_count++; the first reader goes on to
\* sem_wait(resource_mutex).
Enter ==
    /\ child = "enter" /\ Len(produced) < MaxNumbers
    /\ readers_mutex > 0 /\ readers_mutex' = readers_mutex - 1
    /\ readers_count' = readers_count + 1
    /\ child' = IF readers_count + 1 = 1 THEN "resource" ELSE "entered"
    /\ UNCHANGED <<resource_mutex, parent, failed, dataVars, orphaned>>

TakeResource ==
    /\ child = "resource"
    /\ resource_mutex > 0 /\ resource_mutex' = resource_mutex - 1
    /\ child' = "entered"
    /\ UNCHANGED <<readers_mutex, readers_count, parent, failed, dataVars, orphaned>>

Entered ==
    /\ child = "entered"
    /\ readers_mutex' = readers_mutex + 1
    /\ child' = "fopen"
    /\ UNCHANGED <<resource_mutex, readers_count, parent, failed, dataVars, orphaned>>

\* fopen, and if it succeeds the listing of the file.
OpenFile ==
    /\ child = "fopen"
    /\ failed' = ~exists
    /\ child' = IF exists THEN "write" ELSE "leave"
    /\ UNCHANGED <<readers_mutex, resource_mutex, readers_count, parent, dataVars, orphaned>>

WritePipe ==
    /\ child = "write" /\ parent # "dead" /\ Len(pipe) < PIPE_CAP
    /\ \E n \in Number : pipe' = Append(pipe, n) /\ produced' = Append(produced, n)
    /\ child' = "leave"
    /\ UNCHANGED <<readers_mutex, resource_mutex, readers_count, parent, failed, exists, got,
                   file, run, orphaned>>

WriteSigpipe ==
    /\ child = "write" /\ parent = "dead"
    /\ child' = "dead"
    /\ orphaned' = TRUE
    /\ UNCHANGED <<readers_mutex, resource_mutex, readers_count, parent, failed, dataVars>>

\* Mutant: the count is tested before it is decremented.
LeaveTestsOld ==
    /\ child = "leave"
    /\ readers_mutex > 0 /\ readers_mutex' = readers_mutex - 1
    /\ readers_count' = readers_count - 1
    /\ child' = IF readers_count = 0 THEN "free" ELSE "left"
    /\ UNCHANGED <<resource_mutex, parent, failed, dataVars, orphaned>>

\* sem_wait(readers_mutex); readers_count--; the last reader posts
\* resource_mutex.
Leave ==
    /\ child = "leave"
    /\ readers_mutex > 0 /\ readers_mutex' = readers_mutex - 1
    /\ readers_count' = readers_count - 1
    /\ child' = IF readers_count - 1 = 0 THEN "free" ELSE "left"
    /\ UNCHANGED <<resource_mutex, parent, failed, dataVars, orphaned>>

FreeResource ==
    /\ child = "free"
    /\ resource_mutex' = resource_mutex + 1
    /\ child' = "left"
    /\ UNCHANGED <<readers_mutex, readers_count, parent, failed, dataVars, orphaned>>

\* sem_post(readers_mutex); then loop, or exit on the branch of line 61.
Left ==
    /\ child = "left"
    /\ readers_mutex' = readers_mutex + 1
    /\ child' = IF failed THEN "dead" ELSE "enter"
    /\ UNCHANGED <<resource_mutex, readers_count, parent, failed, dataVars, orphaned>>

-----------------------------------------------------------------------------
ReadPipe ==
    /\ parent = "read" /\ pipe # <<>>
    /\ got' = Head(pipe) /\ pipe' = Tail(pipe)
    /\ parent' = "wait"
    /\ UNCHANGED <<readers_mutex, resource_mutex, readers_count, child, failed, exists,
                   produced, file, run, orphaned>>

\* Mutant: read does not block, an empty pipe is taken for a number.
ReadEofNonblocking ==
    /\ parent = "read" /\ pipe = <<>> /\ Len(file) < MaxNumbers
    /\ got' \in Number
    /\ parent' = "wait"
    /\ UNCHANGED <<readers_mutex, resource_mutex, readers_count, child, failed, pipe, exists,
                   produced, file, run, orphaned>>

\* read returns 0, which is not checked for.
ReadEof ==
    /\ parent = "read" /\ pipe = <<>> /\ child = "dead" /\ Len(file) < MaxNumbers
    /\ got' \in Number
    /\ parent' = "wait"
    /\ UNCHANGED <<readers_mutex, resource_mutex, readers_count, child, failed, pipe, exists,
                   produced, file, run, orphaned>>

ParentWait ==
    /\ parent = "wait"
    /\ resource_mutex > 0 /\ resource_mutex' = resource_mutex - 1
    /\ parent' = "append"
    /\ UNCHANGED <<readers_mutex, readers_count, child, failed, dataVars, orphaned>>

AppendFile ==
    /\ parent = "append"
    /\ exists' = TRUE
    /\ file' = Append(file, got)
    /\ parent' = "post"
    /\ UNCHANGED <<readers_mutex, resource_mutex, readers_count, child, failed, pipe, got,
                   produced, run, orphaned>>

\* fopen(.., "a") fails: post, then exit.
AppendFails ==
    /\ parent = "append"
    /\ resource_mutex' = resource_mutex + 1
    /\ parent' = "dead"
    /\ UNCHANGED <<readers_mutex, readers_count, child, failed, dataVars, orphaned>>

ParentPost ==
    /\ parent = "post"
    /\ resource_mutex' = resource_mutex + 1
    /\ parent' = "read"
    /\ UNCHANGED <<readers_mutex, readers_count, child, failed, dataVars, orphaned>>

-----------------------------------------------------------------------------
\* A signal ends a process; the semaphores are not given back.
KillChild ==
    /\ child # "dead" /\ child' = "dead"
    /\ orphaned' = (orphaned \/ child # "enter")
    /\ UNCHANGED <<readers_mutex, resource_mutex, readers_count, parent, failed, dataVars>>

KillParent ==
    /\ parent # "dead" /\ parent' = "dead"
    /\ orphaned' = (orphaned \/ ParentHolds)
    /\ UNCHANGED <<readers_mutex, resource_mutex, readers_count, child, failed, dataVars>>

\* The program is started again: sem_open finds the semaphores it left.
Rerun ==
    /\ child = "dead" /\ parent = "dead" /\ run < MaxRuns
    /\ run' = run + 1
    /\ child' = "enter" /\ parent' = "read" /\ failed' = FALSE
    /\ readers_count' = 0
    /\ pipe' = <<>> /\ produced' = <<>> /\ file' = <<>>
    /\ got' \in Number
    /\ UNCHANGED <<readers_mutex, resource_mutex, exists, orphaned>>

ChildStep ==
    \/ Enter \/ TakeResource \/ Entered \/ OpenFile \/ WritePipe \/ WriteSigpipe
    \/ Leave \/ FreeResource \/ Left
ParentStep == ReadPipe \/ ReadEof \/ ParentWait \/ AppendFile \/ AppendFails \/ ParentPost
Step == ChildStep \/ ParentStep
Next == Step \/ KillChild \/ KillParent \/ Rerun

Spec == Init /\ [][Next]_vars

\* Both processes are scheduled while they can move; nothing has to be killed.
FairSpec == Spec /\ WF_vars(ChildStep) /\ WF_vars(ParentStep)

-----------------------------------------------------------------------------
\* The file is never listed while it is appended to; resource_mutex is 1 only
\* when nobody has it, also in later runs on semaphores left at 0.
MutualExclusion ==
    /\ ~(ChildHolds /\ ParentHolds)
    /\ ChildHolds \/ ParentHolds => resource_mutex = 0

\* The child waits for room in the pipe with the resource that the parent
\* needs before it reads again.
FullPipe == child = "write" /\ Len(pipe) = PIPE_CAP /\ parent = "wait"

\* Where a process that cannot go on is: dead, in one of the sem_wait calls,
\* at the pipe or at the bound of the model.
ChildWaits ==
    \/ child = "dead"
    \/ child = "enter" /\ (readers_mutex = 0 \/ Len(produced) >= MaxNumbers)
    \/ child = "resource" /\ resource_mutex = 0
    \/ child = "write" /\ parent # "dead" /\ Len(pipe) >= PIPE_CAP
    \/ child = "leave" /\ readers_mutex = 0
ParentWaits ==
    \/ parent = "dead"
    \/ parent = "read" /\ pipe = <<>> /\ (child # "dead" \/ Len(file) >= MaxNumbers)
    \/ parent = "wait" /\ resource_mutex = 0

Stopped == ChildWaits /\ ParentWaits

\* Without a kill in a critical section the program stops only on a full pipe:
\* the order read, then sem_wait (lines 98-102) removes the deadlock on an
\* empty pipe of Tasks 9 and 10.
OnlyAFullPipeStops ==
    Stopped =>
        \/ FullPipe \/ orphaned
        \/ child = "dead" /\ parent = "dead"
        \/ Len(produced) = MaxNumbers \/ Len(file) >= MaxNumbers

\* The two processes come to a stop in that way only.
StopsOnlyOnFullPipe == (~ENABLED Step => Stopped) /\ OnlyAFullPipeStops

\* Every number sent is appended, unless a process is killed or the pipe is full.
EventuallyRecorded ==
    \A k \in 1 .. MaxNumbers :
        (Len(produced) >= k) ~> (Len(file) >= k \/ FullPipe \/ child = "dead" \/ parent = "dead")

\* Numbers are recorded once, in order; junk only after the child has ended.
Log == INSTANCE NumberLog WITH closed <- (child = "dead")
RecordsInOrder == Log!Spec
=============================================================================
