----------------------------- MODULE PosixChat ------------------------------
(***************************************************************************)
(* "Module 3/Task 7": prog1 and prog2 chat over ONE POSIX queue used in    *)
(* both directions, so a program may receive its own line.  The queue      *)
(* orders by priority, then by age; its ten places are not a bound here,   *)
(* TurnTaking says how many a chat needs.                                  *)
(***************************************************************************)
EXTENDS Integers, Sequences, FiniteSets

CONSTANT MaxRuns     \* bound: how often each program is started

ASSUME PosixChatAssumption == MaxRuns \in Nat

VARIABLES
    mq,        \* the messages of each queue made so far
    chat_queue,\* the queue that has the name, 0 if none
    prog,      \* where each program is: "off", "open", "receive", "fgets"
    mqd,       \* the queue each program has opened
    buffer,    \* its text
    runs,      \* history: how often each program was started
    opened     \* history: how often prog1 has opened each queue

posixVars == <<mq, chat_queue, prog, mqd, buffer, runs, opened>>

Queue == 1 .. MaxRuns

PosixInit ==
    /\ mq = [q \in Queue |-> <<>>] /\ opened = [q \in Queue |-> 0]
    /\ chat_queue = 0
    /\ prog = [p \in 1 .. 2 |-> "off"] /\ mqd = [p \in 1 .. 2 |-> 0]
    /\ buffer = [p \in 1 .. 2 |-> "indeterminate"] /\ runs = [p \in 1 .. 2 |-> 0]

\* prog1 makes the queue if there is none (every start may make one).
OpenProg1 ==
    /\ prog[1] = "off" /\ runs[1] < MaxRuns
    /\ runs' = [runs EXCEPT ![1] = @ + 1]
    /\ chat_queue' = IF chat_queue = 0 THEN runs[1] + 1 ELSE chat_queue
    /\ mqd' = [mqd EXCEPT ![1] = chat_queue']
    /\ opened' = [opened EXCEPT ![chat_queue'] = @ + 1]
    /\ prog' = [prog EXCEPT ![1] = "open"]
    /\ buffer' = [buffer EXCEPT ![1] = "indeterminate"]
    /\ UNCHANGED mq

\* prog2 fails without one.
OpenProg2 ==
    /\ prog[2] = "off" /\ runs[2] < MaxRuns /\ chat_queue # 0
    /\ runs' = [runs EXCEPT ![2] = @ + 1]
    /\ mqd' = [mqd EXCEPT ![2] = chat_queue]
    /\ prog' = [prog EXCEPT ![2] = "receive"]
    /\ buffer' = [buffer EXCEPT ![2] = "indeterminate"]
    /\ UNCHANGED <<mq, chat_queue, opened>>

\* mq_send: behind the messages of the same priority, before the lower ones.
MqSend(q, prio, text) ==
    \E k \in 0 .. Len(mq[q]) :
        /\ \A i \in 1 .. Len(mq[q]) : i <= k <=> mq[q][i].prio >= prio
        /\ mq' = [mq EXCEPT ![q] = SubSeq(@, 1, k) \o <<[prio |-> prio, text |-> text]>>
                                      \o SubSeq(@, k + 1, Len(@))]

\* What fgets leaves in buffer: a line, "exit" and a newline, "/exit" with end of
\* file in place of the newline, or at end of file the text that was there, which
\* in a buffer that was never filled may be any of them.
Typed(p) == {"line", "exit", "/exit"} \cup ({buffer[p]} \ {"indeterminate"})

\* The first mq_send may fail on the length of an indeterminate text.
FirstSendFails ==
    /\ prog[1] = "open"
    /\ prog' = [prog EXCEPT ![1] = "receive"]
    /\ UNCHANGED <<mq, chat_queue, mqd, buffer, runs, opened>>

Talk1 ==
    /\ prog[1] \in {"open", "fgets"}
    /\ \E text \in Typed(1) :
         /\ buffer' = [buffer EXCEPT ![1] = text]
         /\ MqSend(mqd[1], 1, text)
    /\ prog' = [prog EXCEPT ![1] = "receive"]
    /\ UNCHANGED <<chat_queue, mqd, runs, opened>>

Talk2 ==
    /\ prog[2] = "fgets"
    /\ \E text \in Typed(2) \ {"exit"} :
         /\ buffer' = [buffer EXCEPT ![2] = text]
         /\ MqSend(mqd[2], 1, text)
    /\ prog' = [prog EXCEPT ![2] = "receive"]
    /\ UNCHANGED <<chat_queue, mqd, runs, opened>>

\* Mutant: the break is missing, and prog2 goes on to send the line as well.
ExitGoesOn ==
    /\ prog[2] = "fgets"
    /\ MqSend(mqd[2], 255, "Chat ended.")
    /\ UNCHANGED <<chat_queue, prog, mqd, buffer, runs, opened>>
Exit2 ==
    /\ prog[2] = "fgets"
    /\ MqSend(mqd[2], 255, "Chat ended.")
    /\ prog' = [prog EXCEPT ![2] = "off"]
    /\ UNCHANGED <<chat_queue, mqd, buffer, runs, opened>>

\* mq_receive
CanTake(p) == prog[p] = "receive" /\ mq[mqd[p]] # <<>>
Received(p) == Head(mq[mqd[p]])
Taken(p) == mq' = [mq EXCEPT ![mqd[p]] = Tail(@)]

\* prog1 ends on the text "/exit" only, whatever the priority, and unlinks the
\* name; prog2 keeps a queue that nobody else can open.
Receive1 ==
    /\ CanTake(1) /\ Taken(1)
    /\ buffer' = [buffer EXCEPT ![1] = Received(1).text]
    /\ IF Received(1).text = "/exit"
       THEN prog' = [prog EXCEPT ![1] = "off"] /\ chat_queue' = 0
       ELSE prog' = [prog EXCEPT ![1] = "fgets"] /\ UNCHANGED chat_queue
    /\ UNCHANGED <<mqd, runs, opened>>

\* prog2 ends on priority 255 only, which nobody but prog2 sends.
Receive2 ==
    /\ CanTake(2) /\ Taken(2)
    /\ buffer' = [buffer EXCEPT ![2] = Received(2).text]
    /\ prog' = [prog EXCEPT ![2] = IF Received(2).prio = 255 THEN "off" ELSE "fgets"]
    /\ UNCHANGED <<chat_queue, mqd, runs, opened>>

PosixKill(p) ==
    /\ prog[p] # "off"
    /\ prog' = [prog EXCEPT ![p] = "off"]
    /\ UNCHANGED <<mq, chat_queue, mqd, buffer, runs, opened>>

PosixNext ==
    \/ OpenProg1 \/ OpenProg2 \/ FirstSendFails \/ Talk1 \/ Talk2 \/ Exit2 \/ Receive1 \/ Receive2
    \/ PosixKill(1) \/ PosixKill(2)

PosixSpec == PosixInit /\ [][PosixNext]_posixVars

-----------------------------------------------------------------------------
\* The programs at the prompt of queue q.
Talking(q) == {p \in 1 .. 2 : prog[p] \in {"open", "fgets"} /\ mqd[p] = q}

\* Each queue has one turn per start of prog1 on it, as a message or as a user at
\* the prompt: a new queue is never read by two users at a time, and needs one of
\* its ten places, whichever program takes a message, exits or is killed; turns
\* add up only where a killed chat has left the queue (prog1.c:26-55,
\* prog2.c:20-47).
TurnTaking ==
    \A q \in Queue : Len(mq[q]) + Cardinality(Talking(q)) <= opened[q]
=============================================================================
