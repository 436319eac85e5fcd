-------------------------------- MODULE Taxi --------------------------------
(***************************************************************************)
(* The taxi manager of "Additional Tasks/Task 2": one CLI process that     *)
(* keeps a table of drivers, and one forked process per driver.  They talk *)
(* over System V message queues: every driver writes to the CLI's queue,   *)
(* the CLI writes tasks to a queue of each driver's own.                   *)
(*                                                                         *)
(* Both sides hand the *queue identifier* to epoll_ctl as if it were a     *)
(* file descriptor.  A message therefore wakes nobody.  What can wake a    *)
(* process is the terminal, when the identifier happens to be the number   *)
(* of a descriptor that becomes readable when a line is typed; cliFd and   *)
(* drvFd record which case the kernel's choice of identifier leads to.     *)
(***************************************************************************)
EXTENDS Integers, Sequences, FiniteSets

CONSTANTS
    Driver,       \* process ids that fork() may return
    MAX_DRIVERS,  \* capacity of the CLI's table
    Timer,        \* values an operator gives to send_task; int in the code
    QCAP,         \* messages a System V queue holds before msgsnd blocks
    MaxRestarts   \* bound: how often the CLI is killed and started again

ASSUME TaxiAssumption ==
    /\ MAX_DRIVERS \in Nat
    /\ Timer \subseteq Int
    /\ QCAP \in Nat \ {0}
    /\ MaxRestarts \in Nat

NoTimer == -1

VARIABLES
    drivers,    \* the CLI's table, in registration order
    cliQ,       \* queue CLI_QUEUE_KEY
    drvQ,       \* queue BASE_DRIVER_KEY + pid of each driver
    life,       \* "none" before fork, "live", "dead" once killed
    out,        \* <<msg>> while the driver is inside msgsnd, else <<>>
    busy, remaining,  \* the driver's locals
    timer,      \* seconds until the driver's timerfd fires, NoTimer if unarmed
    wake,       \* epoll_wait of the driver has returned an event for mq_id
    drvFd,      \* "tty": mq_id is the number of a terminal descriptor
    cliFd,      \* "stdin": cli_mq = 0; "tty": another terminal descriptor
    line,       \* number of typed lines that are unread, 0 or 1
    eof,        \* the end-of-file flag of the CLI's stdin, 0 or 1
    events,     \* branches of the CLI's event loop still to be run
    cliOut,     \* <<[to, data]>> while the CLI is inside msgsnd, else <<>>
    restarts    \* how often the CLI has been restarted

drvVars   == <<life, busy, remaining, timer, drvFd>>
cliVars   == <<line, eof, events, cliOut, restarts>>
vars == <<drivers, cliQ, drvQ, life, out, busy, remaining, timer, wake,
          drvFd, cliFd, line, eof, events, cliOut, restarts>>

Data    == Timer \cup {0}
Message == [type : {"REGISTER", "STATUS_UPDATE", "BUSY_RESP"},
            pid : Driver, data : Data]
\* Mutant: the type field keeps the REGISTER it was sent with first.
MsgStaleType(type, d, data) ==
    [type |-> IF data = 0 THEN "REGISTER" ELSE type, pid |-> d, data |-> data]
Msg(type, d, data) == [type |-> type, pid |-> d, data |-> data]

DriverInfo == [pid : Driver, status : {"AVAILABLE", "BUSY"}, remaining_time : Data]

-----------------------------------------------------------------------------
(* The table of the CLI. *)

\* find_driver: the indexes whose entry has this pid.
Index(d) == {i \in 1 .. Len(drivers) : drivers[i].pid = d}

InTable(d) == Index(d) # {}

\* Mutants of update_driver_status: it leaves remaining_time alone, or adds a
\* driver it does not know.
UpdatedStatusOnly(d, data) ==
    [i \in 1 .. Len(drivers) |->
        IF drivers[i].pid = d
        THEN [drivers[i] EXCEPT !.status = IF data > 0 THEN "BUSY" ELSE "AVAILABLE"]
        ELSE drivers[i]]
UpdatedAddsUnknown(d, data) ==
    IF InTable(d) THEN drivers
    ELSE Append(drivers, [pid |-> d, status |-> "BUSY", remaining_time |-> data])

\* update_driver_status(pid, data > 0, data): the first entry of that pid.
Updated(d, data) ==
    [i \in 1 .. Len(drivers) |->
        IF drivers[i].pid = d /\ \A j \in Index(d) : i <= j
        THEN [pid |-> d,
              status |-> IF data > 0 THEN "BUSY" ELSE "AVAILABLE",
              remaining_time |-> data]
        ELSE drivers[i]]

\* num_drivers < MAX_DRIVERS
HasRoom == Len(drivers) < MAX_DRIVERS

-----------------------------------------------------------------------------
Init ==
    /\ drivers = <<>>
    /\ cliQ = <<>>
    /\ drvQ = [d \in Driver |-> <<>>]
    /\ life = [d \in Driver |-> "none"]
    /\ out = [d \in Driver |-> <<>>]
    /\ busy = [d \in Driver |-> FALSE]
    /\ remaining = [d \in Driver |-> 0]
    /\ timer = [d \in Driver |-> NoTimer]
    /\ wake = [d \in Driver |-> FALSE]
    /\ drvFd = [d \in Driver |-> "none"]
    /\ cliFd \in {"stdin", "tty", "none"}
    /\ line = 0
    /\ eof = 0
    /\ events = <<>>
    /\ cliOut = <<>>
    /\ restarts = 0

-----------------------------------------------------------------------------
(* The operator and the clock. *)

\* A line is typed at the terminal (canonical mode: whole lines).
TypeLine ==
    /\ line = 0
    /\ line' = 1
    /\ UNCHANGED <<drivers, cliQ, drvQ, drvVars, out, wake, cliFd, eof, events,
                   cliOut, restarts>>

\* One second of CLOCK_MONOTONIC.
Tick ==
    /\ \E d \in Driver : timer[d] > 0
    /\ timer' = [d \in Driver |-> IF timer[d] > 0 THEN timer[d] - 1 ELSE timer[d]]
    /\ UNCHANGED <<drivers, cliQ, drvQ, life, out, busy, remaining, wake, drvFd,
                   cliFd, cliVars>>

-----------------------------------------------------------------------------
(* The event loop of the CLI. *)

\* Mutant: the second branch of the loop body is an else.
ReadyElse == {<<"stdin">>}

\* The events epoll_wait can report once a line is typed.  Identifier 0 is
\* stdin itself: one event takes both branches of the loop body.
Ready ==
    CASE cliFd = "stdin" -> {<<"mq", "stdin">>}
      [] cliFd = "tty"   -> {<<"mq">>, <<"stdin">>, <<"mq", "stdin">>, <<"stdin", "mq">>}
      [] cliFd = "none"  -> {<<"stdin">>}

EpollWait ==
    /\ cliOut = <<>> /\ events = <<>> /\ line = 1
    /\ events' \in Ready
    /\ UNCHANGED <<drivers, cliQ, drvQ, drvVars, out, wake, cliFd, line, eof,
                   cliOut, restarts>>

\* The CLI runs the branch b of the loop body and is not inside msgsnd.
At(b) == cliOut = <<>> /\ events # <<>> /\ Head(events) = b

\* recv_message(cli_mq, &msg, 1) == 0 with a message of this type.
Receives(type) == At("mq") /\ cliQ # <<>> /\ Head(cliQ).type = type

\* case REGISTER: a full table drops the message silently.
Register ==
    /\ Receives("REGISTER")
    /\ cliQ' = Tail(cliQ)
    /\ drivers' = IF HasRoom
                  THEN Append(drivers, [pid |-> Head(cliQ).pid, status |-> "AVAILABLE",
                                        remaining_time |-> 0])
                  ELSE drivers
    /\ UNCHANGED <<drvQ, drvVars, out, wake, cliFd, cliVars>>

\* case STATUS_UPDATE: an unknown pid is ignored.
StatusUpdate ==
    /\ Receives("STATUS_UPDATE")
    /\ cliQ' = Tail(cliQ)
    /\ drivers' = Updated(Head(cliQ).pid, Head(cliQ).data)
    /\ UNCHANGED <<drvQ, drvVars, out, wake, cliFd, cliVars>>

\* case BUSY_RESP: only printed.
BusyResp ==
    /\ Receives("BUSY_RESP")
    /\ cliQ' = Tail(cliQ)
    /\ UNCHANGED <<drivers, drvQ, drvVars, out, wake, cliFd, cliVars>>

\* Mutant: the receive has no IPC_NOWAIT, the CLI waits for a message.
DrainedBlocks == At("mq") /\ cliQ = <<>> /\ FALSE /\ UNCHANGED vars

\* recv_message fails with ENOMSG: the drain loop ends.
Drained ==
    /\ At("mq") /\ cliQ = <<>>
    /\ events' = Tail(events)
    /\ UNCHANGED <<drivers, cliQ, drvQ, drvVars, out, wake, cliFd, line, eof,
                   cliOut, restarts>>

\* fgets returns a line.
Command ==
    /\ At("stdin") /\ eof = 0
    /\ line' = 0
    /\ events' = Tail(events)
    /\ UNCHANGED <<eof, restarts>>

\* fgets returns NULL: end of file is seen for the first time, or the sticky
\* flag makes fgets return without reading what is typed.
FgetsFails ==
    /\ At("stdin")
    /\ \/ eof = 0 /\ eof' = 1 /\ line' = 0
       \/ eof = 1 /\ UNCHANGED <<eof, line>>
    /\ events' = Tail(events)
    /\ UNCHANGED <<drivers, cliQ, drvQ, drvVars, out, wake, cliFd, cliOut, restarts>>

\* "create_driver": the child creates its queue and enters
\* send_message(REGISTER); the kernel picks the queue's identifier.
CreateDriver(d) ==
    /\ Command
    /\ life[d] = "none"
    /\ life' = [life EXCEPT ![d] = "live"]
    /\ out' = [out EXCEPT ![d] = <<Msg("REGISTER", d, 0)>>]
    /\ \E fd \in {"tty", "none"} : drvFd' = [drvFd EXCEPT ![d] = fd]
    /\ UNCHANGED <<drivers, cliQ, drvQ, busy, remaining, timer, wake, cliFd, cliOut>>

\* "send_task <pid> <timer>" for a driver of the table.
SendTask(d, t) ==
    /\ Command
    /\ InTable(d)
    /\ cliOut' = <<[to |-> d, data |-> t]>>
    /\ UNCHANGED <<drivers, cliQ, drvQ, drvVars, out, wake, cliFd>>

\* get_status, get_drivers, an unknown command, a usage error, send_task to a
\* driver that is not in the table, a failed fork: text only.
OtherCommand ==
    /\ Command
    /\ UNCHANGED <<drivers, cliQ, drvQ, drvVars, out, wake, cliFd, cliOut>>

\* The CLI's msgsnd(flags 0) returns once the driver's queue has room.
CliSend ==
    /\ cliOut # <<>>
    /\ LET d == cliOut[1].to IN
         /\ Len(drvQ[d]) < QCAP
         /\ drvQ' = [drvQ EXCEPT ![d] = Append(@, cliOut[1].data)]
    /\ cliOut' = <<>>
    /\ UNCHANGED <<drivers, cliQ, drvVars, out, wake, cliFd, line, eof, events, restarts>>

-----------------------------------------------------------------------------
(* A driver. *)

Running(d) == life[d] = "live" /\ out[d] = <<>>

\* msgsnd to the CLI's queue returns once that queue has room.
DriverSend(d) ==
    /\ life[d] = "live" /\ out[d] # <<>>
    /\ Len(cliQ) < QCAP
    /\ cliQ' = Append(cliQ, out[d][1])
    /\ out' = [out EXCEPT ![d] = <<>>]
    /\ UNCHANGED <<drivers, drvQ, drvVars, wake, cliFd, cliVars>>

\* epoll_wait reports mq_id: only the terminal can make it readable.
DriverWake(d) ==
    /\ Running(d) /\ ~wake[d]
    /\ drvFd[d] = "tty" /\ line = 1
    /\ wake' = [wake EXCEPT ![d] = TRUE]
    /\ UNCHANGED <<drivers, cliQ, drvQ, drvVars, out, cliFd, cliVars>>

\* recv_message(mq_id, &msg, 1) fails: nothing is queued.
NothingQueued(d) ==
    /\ Running(d) /\ wake[d] /\ drvQ[d] = <<>>
    /\ wake' = [wake EXCEPT ![d] = FALSE]
    /\ UNCHANGED <<drivers, cliQ, drvQ, drvVars, out, cliFd, cliVars>>

\* recv_message(mq_id, &msg, 1) == 0: one TASK per event.
TakeTask(d) ==
    /\ Running(d) /\ wake[d] /\ drvQ[d] # <<>>
    /\ wake' = [wake EXCEPT ![d] = FALSE]
    /\ drvQ' = [drvQ EXCEPT ![d] = Tail(@)]

\* timerfd_settime arms the timer for a positive value, disarms it for 0 and
\* fails for a negative one.  Mutant: 0 fires at once.
ArmedAtZero(t) == IF t >= 0 THEN t ELSE NoTimer
Armed(t) == IF t > 0 THEN t ELSE NoTimer

\* Not busy: the timer is set and the STATUS_UPDATE sent, whatever its value.
AcceptTask(d) ==
    /\ TakeTask(d)
    /\ ~busy[d]
    /\ LET t == Head(drvQ[d]) IN
         /\ busy' = [busy EXCEPT ![d] = TRUE]
         /\ remaining' = [remaining EXCEPT ![d] = t]
         /\ timer' = [timer EXCEPT ![d] = Armed(t)]
         /\ out' = [out EXCEPT ![d] = <<Msg("STATUS_UPDATE", d, t)>>]
    /\ UNCHANGED <<drivers, cliQ, life, drvFd, cliFd, cliVars>>

\* Busy: the task is dropped and remaining, never counted down, is reported.
RefuseTask(d) ==
    /\ TakeTask(d)
    /\ busy[d]
    /\ out' = [out EXCEPT ![d] = <<Msg("BUSY_RESP", d, remaining[d])>>]
    /\ UNCHANGED <<drivers, cliQ, drvVars, cliFd, cliVars>>

\* The event of timer_fd.  Mutant: the timer is looked at only after a
\* message.
ExpiredAfterMessage(d) == Running(d) /\ timer[d] = 0 /\ wake[d]
Expired(d) == Running(d) /\ timer[d] = 0

TimerExpires(d) ==
    /\ Expired(d)
    /\ busy' = [busy EXCEPT ![d] = FALSE]
    /\ remaining' = [remaining EXCEPT ![d] = 0]
    /\ timer' = [timer EXCEPT ![d] = NoTimer]
    /\ out' = [out EXCEPT ![d] = <<Msg("STATUS_UPDATE", d, 0)>>]
    /\ UNCHANGED <<drivers, cliQ, drvQ, life, wake, drvFd, cliFd, cliVars>>

-----------------------------------------------------------------------------
(* Crashes.  No queue is ever removed, so what is queued survives both. *)

\* The CLI is killed and started again: its table is static data of the
\* process, the drivers keep running and never register twice.
RestartCli ==
    /\ restarts < MaxRestarts
    /\ restarts' = restarts + 1
    /\ drivers' = <<>>
    /\ events' = <<>>
    /\ cliOut' = <<>>
    /\ eof' = 0
    /\ UNCHANGED <<cliQ, drvQ, drvVars, out, wake, cliFd, line>>

\* A driver is killed; a message it was sending is not sent.
KillDriver(d) ==
    /\ life[d] = "live"
    /\ life' = [life EXCEPT ![d] = "dead"]
    /\ out' = [out EXCEPT ![d] = <<>>]
    /\ timer' = [timer EXCEPT ![d] = NoTimer]
    /\ wake' = [wake EXCEPT ![d] = FALSE]
    /\ UNCHANGED <<drivers, cliQ, drvQ, busy, remaining, drvFd, cliFd, cliVars>>

-----------------------------------------------------------------------------
CliStep ==
    \/ EpollWait \/ Register \/ StatusUpdate \/ BusyResp \/ Drained
    \/ FgetsFails \/ OtherCommand \/ CliSend
    \/ \E d \in Driver : CreateDriver(d)
    \/ \E d \in Driver, t \in Timer : SendTask(d, t)

DriverStep(d) ==
    \/ DriverSend(d) \/ DriverWake(d) \/ NothingQueued(d)
    \/ AcceptTask(d) \/ RefuseTask(d) \/ TimerExpires(d)

Step == TypeLine \/ Tick \/ CliStep \/ \E d \in Driver : DriverStep(d)

Next == Step \/ RestartCli \/ \E d \in Driver : KillDriver(d)

Spec == Init /\ [][Next]_vars

\* The scheduler runs every process that can move, time passes, and the
\* operator keeps typing.  Nothing makes the CLI restart or a driver die.
\* TimerExpires is strongly fair: epoll_wait asks for two events (cli.c:63),
\* so an expired timer is in the very next batch even while the terminal
\* keeps mq_id ready; handling a TASK in between cannot starve it.
Fairness ==
    /\ WF_vars(TypeLine)
    /\ WF_vars(Tick)
    /\ WF_vars(CliStep)
    /\ \A d \in Driver : WF_vars(DriverStep(d)) /\ SF_vars(TimerExpires(d))

FairSpec == Spec /\ Fairness

-----------------------------------------------------------------------------
TypeOK ==
    /\ drivers \in Seq(DriverInfo) /\ Len(drivers) <= MAX_DRIVERS
    /\ cliQ \in Seq(Message) /\ Len(cliQ) <= QCAP
    /\ drvQ \in [Driver -> Seq(Timer)]
    /\ \A d \in Driver : Len(drvQ[d]) <= QCAP
    /\ life \in [Driver -> {"none", "live", "dead"}]
    /\ out \in [Driver -> Seq(Message)]
    /\ \A d \in Driver : Len(out[d]) <= 1
    /\ busy \in [Driver -> BOOLEAN]
    /\ remaining \in [Driver -> Data]
    /\ timer \in [Driver -> Int]
    /\ wake \in [Driver -> BOOLEAN]
    /\ drvFd \in [Driver -> {"tty", "none"}]
    /\ cliFd \in {"stdin", "tty", "none"}
    /\ line \in 0 .. 1
    /\ eof \in 0 .. 1
    /\ events \in Seq({"mq", "stdin"}) /\ Len(events) <= 2
    /\ cliOut \in Seq([to : Driver, data : Timer]) /\ Len(cliOut) <= 1
    /\ restarts \in 0 .. MaxRestarts

\* A message of this type from d is in a queue or being sent.
InCliQ(type, d) == \E i \in 1 .. Len(cliQ) : cliQ[i].type = type /\ cliQ[i].pid = d
Sending(type, d) == out[d] # <<>> /\ out[d][1].type = type
Pending(type, d) == InCliQ(type, d) \/ Sending(type, d)

\* No driver is listed twice: find_driver returns the first entry of a pid,
\* so a second one would never be updated.  The drain loop (main.c:29-39)
\* appends without looking the pid up; this rests on one REGISTER per fork
\* and must survive restarts of the CLI that leave messages queued.
NoDuplicateRegistration ==
    /\ \A i, j \in 1 .. Len(drivers) : drivers[i].pid = drivers[j].pid => i = j
    /\ \A d \in Driver : Pending("REGISTER", d) => ~InTable(d)
    /\ \A i, j \in 1 .. Len(cliQ) :
         cliQ[i].type = "REGISTER" /\ cliQ[j].type = "REGISTER" /\ cliQ[i].pid = cliQ[j].pid
            => i = j

\* cliQ[i] is a STATUS_UPDATE of d, and the newest one in the queue.
UpdateAt(i, d) == cliQ[i].type = "STATUS_UPDATE" /\ cliQ[i].pid = d
NewestAt(i, d) == UpdateAt(i, d) /\ \A j \in i + 1 .. Len(cliQ) : ~UpdateAt(j, d)

\* What the CLI knows of a live driver is never lost, only late: the newest
\* unapplied STATUS_UPDATE carries the driver's remaining, and with none
\* unapplied the table entry that get_status prints does (cli.c:83-89,
\* 109-115, 133-139; main.c:41).
Coherent ==
    \A d \in Driver : life[d] = "live" =>
        IF Sending("STATUS_UPDATE", d) THEN out[d][1].data = remaining[d]
        ELSE /\ \A i \in 1 .. Len(cliQ) : NewestAt(i, d) => cliQ[i].data = remaining[d]
             /\ InCliQ("STATUS_UPDATE", d)
                   \/ \A i \in Index(d) : drivers[i].remaining_time = remaining[d]

\* The timerfd of a live driver is armed exactly while it is busy with a task
\* of positive length, and the "sec left" it reports (remaining) is never less
\* than the time really left (cli.c:69-81, 101-107).
TimerMatchesTask ==
    \A d \in Driver : life[d] = "live" =>
        /\ (timer[d] # NoTimer) = (busy[d] /\ remaining[d] > 0)
        /\ timer[d] <= remaining[d] \/ timer[d] = NoTimer
        /\ ~busy[d] => remaining[d] = 0

\* A driver that registered with a CLI since killed, or met a full table, is
\* never listed again: it sends REGISTER once (cli.c:49).
ForgottenForever ==
    [][\A d \in Driver :
        life[d] # "none" /\ ~Pending("REGISTER", d) /\ ~InTable(d) => ~InTable(d)']_vars

\* Where a process that cannot go on is: inside msgsnd, or in epoll_wait with
\* nothing that could wake it.
CliWaits ==
    \/ cliOut # <<>> /\ Len(drvQ[cliOut[1].to]) >= QCAP
    \/ cliOut = <<>> /\ events = <<>> /\ line # 1
DriverWaits(d) ==
    \/ life[d] # "live"
    \/ out[d] # <<>> /\ Len(cliQ) >= QCAP
    \/ out[d] = <<>> /\ ~wake[d] /\ timer[d] # 0 /\ ~(drvFd[d] = "tty" /\ line = 1)

\* Typing and time change nothing either: a line is unread, no timer runs.
Stopped ==
    /\ line # 0 /\ \A d \in Driver : ~(timer[d] > 0)
    /\ CliWaits /\ \A d \in Driver : DriverWaits(d)

\* The whole system stops only with the CLI inside msgsnd on the full queue of
\* a driver: a dead or deaf one, or one that hangs itself on the CLI's full
\* queue (cli.c:16, flags 0).
OnlyMsgsndStops ==
    Stopped =>
        /\ cliOut # <<>> /\ Len(drvQ[cliOut[1].to]) = QCAP
        /\ LET d == cliOut[1].to IN
             life[d] = "dead" \/ drvFd[d] = "none" \/ (out[d] # <<>> /\ Len(cliQ) = QCAP)

\* Typing, time and processes come to a stop in those ways only.
HangsOnlyInMsgsnd == (~ENABLED Step => Stopped) /\ OnlyMsgsndStops

\* An armed timer frees its driver, unless the driver is killed or hangs in
\* msgsnd on the full queue of the CLI.
TimerFrees ==
    \A d \in Driver :
        timer[d] >= 0 ~> (~busy[d] \/ life[d] = "dead" \/ (out[d] # <<>> /\ Len(cliQ) = QCAP))

\* With cli_mq = 0, and only then surely, typing empties the CLI's queue, or
\* the CLI hangs in msgsnd on the full queue of a driver (main.c:23-27).
TypingDrains ==
    (cliFd = "stdin" /\ cliQ # <<>>) ~>
        (cliQ = <<>> \/ (cliOut # <<>> /\ Len(drvQ[cliOut[1].to]) = QCAP))
=============================================================================
