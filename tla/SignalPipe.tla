----------------------------- MODULE SignalPipe -----------------------------
(***************************************************************************)
(* "Module 3/Task 5": the parent lets the child read number.txt and send a *)
(* number with SIGUSR1 and stops it with SIGUSR2.  The handlers set and    *)
(* clear access_flag; the child waits for the flag with pause().  Signals  *)
(* of the same kind do not queue, and a handler that runs between the test *)
(* of the flag and pause() does not end the pause.                         *)
(***************************************************************************)
EXTENDS Integers, Sequences

CONSTANTS
    Number,      \* values of rand() % 100
    PIPE_CAP,    \* numbers the pipe holds before write blocks
    MaxNumbers   \* bound: numbers produced, and numbers appended

ASSUME SignalPipeAssumption ==
    /\ PIPE_CAP \in Nat \ {0}
    /\ MaxNumbers \in Nat

VARIABLES
    access_flag,  \* of the child
    pending,      \* signals sent to the child and not yet delivered
    child,        \* "test", "pausing" (the flag was 0, the call of pause is
                  \* next), "pause", "fopen", "write", "sleep" or "dead"
    parent,       \* "kill1", "fopen", "read", "print", "kill2" or "dead"
    pipe, exists, got,
    writeEnd,     \* the parent still has its own write end of the pipe open
    produced, file

vars == <<access_flag, pending, child, parent, pipe, exists, got, writeEnd, produced, file>>

\* signal() is called before fork, so the handlers are in place for the child.
Init ==
    /\ access_flag = 0
    /\ pending = {}
    /\ child = "test" /\ parent = "kill1"
    /\ pipe = <<>>
    /\ exists \in BOOLEAN
    /\ got \in Number
    /\ writeEnd = TRUE
    /\ produced = <<>> /\ file = <<>>

-----------------------------------------------------------------------------
(* The child. *)

\* A handler runs; it ends pause() and sleep(), and restarts write (signal()
\* installs handlers with SA_RESTART).  Before the call of pause it changes
\* nothing but the flag.
Handle(sig) ==
    /\ child # "dead" /\ sig \in pending
    /\ pending' = pending \ {sig}
    /\ access_flag' = IF sig = "SIGUSR1" THEN 1 ELSE 0
    /\ child' = IF child \in {"pause", "sleep"} THEN "test" ELSE child
    /\ UNCHANGED <<parent, pipe, exists, got, writeEnd, produced, file>>

\* while(!access_flag)
TestFlag ==
    /\ child = "test" /\ Len(produced) < MaxNumbers
    /\ child' = IF access_flag = 0 THEN "pausing" ELSE "fopen"
    /\ UNCHANGED <<access_flag, pending, parent, pipe, exists, got, writeEnd, produced, file>>

\* pause(), entered whatever the flag is by now.
EnterPause ==
    /\ child = "pausing" /\ child' = "pause"
    /\ UNCHANGED <<access_flag, pending, parent, pipe, exists, got, writeEnd, produced, file>>

OpenFile ==
    /\ child = "fopen"
    /\ child' = IF exists THEN "write" ELSE "dead"
    /\ UNCHANGED <<access_flag, pending, parent, pipe, exists, got, writeEnd, produced, file>>

WritePipe ==
    /\ child = "write" /\ parent # "dead" /\ Len(pipe) < PIPE_CAP
    /\ \E n \in Number : pipe' = Append(pipe, n) /\ produced' = Append(produced, n)
    /\ child' = "sleep"
    /\ UNCHANGED <<access_flag, pending, parent, exists, got, writeEnd, file>>

WriteSigpipe ==
    /\ child = "write" /\ parent = "dead"
    /\ child' = "dead"
    /\ UNCHANGED <<access_flag, pending, parent, pipe, exists, got, writeEnd, produced, file>>

SleepOver ==
    /\ child = "sleep" /\ child' = "test"
    /\ UNCHANGED <<access_flag, pending, parent, pipe, exists, got, writeEnd, produced, file>>

-----------------------------------------------------------------------------
(* The parent. *)

\* kill(pid, SIGUSR1); a zombie takes the signal without effect.
Kill1 ==
    /\ parent = "kill1" /\ Len(file) < MaxNumbers
    /\ pending' = IF child = "dead" THEN pending ELSE pending \cup {"SIGUSR1"}
    /\ parent' = "fopen"
    /\ UNCHANGED <<access_flag, child, pipe, exists, got, writeEnd, produced, file>>

\* fopen(.., "a") creates the file before anything is read.
CreateFile ==
    /\ parent = "fopen"
    /\ exists' = TRUE
    /\ parent' = "read"
    /\ UNCHANGED <<access_flag, pending, child, pipe, got, writeEnd, produced, file>>

\* Mutant: the parent takes the newest number only.
ReadPipeNewest ==
    /\ parent = "read" /\ pipe # <<>>
    /\ got' = pipe[Len(pipe)] /\ pipe' = <<>>
    /\ parent' = "print"
    /\ UNCHANGED <<access_flag, pending, child, exists, writeEnd, produced, file>>

ReadPipe ==
    /\ parent = "read" /\ pipe # <<>>
    /\ got' = Head(pipe) /\ pipe' = Tail(pipe)
    /\ parent' = "print"
    /\ UNCHANGED <<access_flag, pending, child, exists, writeEnd, produced, file>>

\* End of file needs the parent's own write end closed, too.
ReadEof ==
    /\ parent = "read" /\ pipe = <<>> /\ child = "dead" /\ ~writeEnd
    /\ got' \in Number
    /\ parent' = "print"
    /\ UNCHANGED <<access_flag, pending, child, pipe, exists, writeEnd, produced, file>>

PrintNumber ==
    /\ parent = "print"
    /\ file' = Append(file, got)
    /\ parent' = "kill2"
    /\ UNCHANGED <<access_flag, pending, child, pipe, exists, got, writeEnd, produced>>

\* Mutant: the write end stays open.
Kill2NoClose ==
    /\ parent = "kill2"
    /\ pending' = IF child = "dead" THEN pending ELSE pending \cup {"SIGUSR2"}
    /\ parent' = "kill1"
    /\ UNCHANGED <<access_flag, child, pipe, exists, got, writeEnd, produced, file>>

\* kill(pid, SIGUSR2); sleep(3); close(pipefd[1]).
Kill2 ==
    /\ parent = "kill2"
    /\ pending' = IF child = "dead" THEN pending ELSE pending \cup {"SIGUSR2"}
    /\ writeEnd' = FALSE
    /\ parent' = "kill1"
    /\ UNCHANGED <<access_flag, child, pipe, exists, got, produced, file>>

-----------------------------------------------------------------------------
(* Either process may be killed. *)

KillChild ==
    /\ child # "dead" /\ child' = "dead"
    /\ UNCHANGED <<access_flag, pending, parent, pipe, exists, got, writeEnd, produced, file>>

KillParent ==
    /\ parent # "dead" /\ parent' = "dead"
    /\ UNCHANGED <<access_flag, pending, child, pipe, exists, got, writeEnd, produced, file>>

ChildStep ==
    \/ \E sig \in {"SIGUSR1", "SIGUSR2"} : Handle(sig)
    \/ TestFlag \/ EnterPause \/ OpenFile \/ WritePipe \/ WriteSigpipe \/ SleepOver
ParentStep == Kill1 \/ CreateFile \/ ReadPipe \/ ReadEof \/ PrintNumber \/ Kill2
Step == ChildStep \/ ParentStep
Next == Step \/ KillChild \/ KillParent

Spec == Init /\ [][Next]_vars

-----------------------------------------------------------------------------
AtBound == Len(produced) = MaxNumbers \/ Len(file) = MaxNumbers

\* The child sleeps in pause() and no signal is on its way: SIGUSR1 was handled
\* between the test and the pause, which leaves the flag set, or before a
\* SIGUSR2 that cleared it again.
LostWakeup == child = "pause" /\ pending = {}

\* The child exited in the first round, before the parent created the file, or
\* was killed in it: the parent's own write end is closed only at its end.
ChildGone == child = "dead" /\ file = <<>>

\* Where a process that cannot go on is: dead, in pause(), at the pipe or at
\* the bound of the model; a signal that is pending still moves the child.
ChildWaits ==
    \/ child = "dead"
    \/ /\ pending = {}
       /\ \/ child = "pause"
          \/ child = "test" /\ Len(produced) >= MaxNumbers
          \/ child = "write" /\ parent # "dead" /\ Len(pipe) >= PIPE_CAP
ParentWaits ==
    \/ parent = "dead"
    \/ parent = "kill1" /\ Len(file) >= MaxNumbers
    \/ parent = "read" /\ pipe = <<>> /\ (child # "dead" \/ writeEnd)

Stopped == ChildWaits /\ ParentWaits

\* The program stops only on a lost wake-up, or with the child gone while the
\* parent holds its own write end open; never in any other combination, in
\* particular never with a number in the pipe.
OnlyALostWakeupStops ==
    Stopped =>
        \/ parent = "read" /\ pipe = <<>> /\ (LostWakeup \/ ChildGone)
        \/ parent = "dead"
        \/ AtBound

\* The two processes come to a stop in those ways only.
StopsOnlyOnLostWakeup == (~ENABLED Step => Stopped) /\ OnlyALostWakeupStops

\* Numbers are recorded once and in order; junk only after the child has ended.
Log == INSTANCE NumberLog WITH closed <- (child = "dead")
RecordsInOrder == Log!Spec
=============================================================================
