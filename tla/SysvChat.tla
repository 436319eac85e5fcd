------------------------------ MODULE SysvChat ------------------------------
(***************************************************************************)
(* "Module 3/Task 6": two users who write to each other in turn over one   *)
(* System V queue, first with type 1 and second with type 2.  No result of *)
(* msgrcv or msgsnd is tested, and nobody ever asks for the type 255 that  *)
(* says good-bye.  The queue is modelled as unbounded: a chat keeps one    *)
(* line in it, and leaves one good-bye.                                    *)
(***************************************************************************)
EXTENDS Integers, Sequences

CONSTANT MaxJoins    \* bound: how often each program is started

VARIABLES
    queue,     \* messages of the queue that exists
    msgs,      \* its identifier, 0 if there is none
    created,   \* history: queues created so far
    sysv,      \* where each program is
    msgid,     \* the identifier each program has got
    mtext,     \* the text in msg, "indeterminate" until msg is filled
    joins,     \* history: how often each program was started
    openings   \* history: how often second was started on this queue

sysvVars == <<queue, msgs, created, sysv, msgid, mtext, joins, openings>>

Talker == {"first", "second"}
Other(p) == IF p = "first" THEN "second" ELSE "first"

SysvInit ==
    /\ queue = <<>> /\ msgs = 0 /\ created = 0 /\ openings = 0
    /\ sysv = [p \in Talker |-> "off"]
    /\ msgid = [p \in Talker |-> 0]
    /\ mtext = [p \in Talker |-> "indeterminate"]
    /\ joins = [p \in Talker |-> 0]

\* msgget with IPC_CREAT; first waits, second begins with a line.
SysvStart(p) ==
    /\ sysv[p] = "off" /\ joins[p] < MaxJoins
    /\ joins' = [joins EXCEPT ![p] = @ + 1]
    /\ created' = IF msgs = 0 THEN created + 1 ELSE created
    /\ msgs' = IF msgs = 0 THEN created + 1 ELSE msgs
    /\ msgid' = [msgid EXCEPT ![p] = msgs']
    /\ sysv' = [sysv EXCEPT ![p] = IF p = "first" THEN "msgrcv" ELSE "open"]
    /\ mtext' = [mtext EXCEPT ![p] = "indeterminate"]
    /\ openings' = IF p = "second" THEN openings + 1 ELSE openings
    /\ UNCHANGED queue

\* The identifier is still good.
Valid(p) == msgs # 0 /\ msgid[p] = msgs

\* The type a program sends, and the one it asks for.  Mutant: the same one.
Sends(p) == IF p = "first" THEN 1 ELSE 2
AsksSame(p) == 1
Asks(p) == IF p = "first" THEN 2 ELSE 1

\* msgsnd, which fails unnoticed once the queue is removed.
Msgsnd(p, type, text) ==
    queue' = IF Valid(p) THEN Append(queue, [mtype |-> type, mtext |-> text, by |-> p]) ELSE queue

\* The messages msgrcv can return, by index.
Asked(p) == {i \in DOMAIN queue : Valid(p) /\ queue[i].mtype = Asks(p)}

Msgrcv(p) ==
    /\ sysv[p] = "msgrcv"
    /\ \E i \in Asked(p) :
         /\ \A j \in Asked(p) : i <= j
         /\ mtext' = [mtext EXCEPT ![p] = queue[i].mtext]
         /\ queue' = SubSeq(queue, 1, i - 1) \o SubSeq(queue, i + 1, Len(queue))
    /\ sysv' = [sysv EXCEPT ![p] = "fgets"]
    /\ UNCHANGED <<msgs, created, msgid, joins, openings>>

\* msgrcv fails: msg is what second sent last, printed and answered once more.
MsgrcvFails(p) ==
    /\ sysv[p] = "msgrcv" /\ ~Valid(p)
    /\ sysv' = [sysv EXCEPT ![p] = "fgets"]
    /\ UNCHANGED <<queue, msgs, created, msgid, mtext, joins, openings>>

\* A line is typed, or end of file leaves the text that was there, and sent.  The
\* opening line of second is not compared with "end".
Talk(p) ==
    /\ sysv[p] \in {"open", "fgets"}
    /\ \E text \in {"line", "end"} :
         /\ mtext' = [mtext EXCEPT ![p] = text]
         /\ Msgsnd(p, Sends(p), text)
         /\ sysv' = [sysv EXCEPT ![p] =
                       IF @ = "fgets" /\ text = "end" THEN "bye" ELSE "msgrcv"]
    /\ UNCHANGED <<msgs, created, msgid, joins, openings>>

Bye(p) ==
    /\ sysv[p] = "bye"
    /\ Msgsnd(p, 255, "Chat terminated")
    /\ sysv' = [sysv EXCEPT ![p] = IF p = "first" THEN "rmid" ELSE "off"]
    /\ UNCHANGED <<msgs, created, msgid, mtext, joins, openings>>

\* Only first removes the queue, with whatever is in it, so its own is still there.
MsgctlRmid ==
    /\ sysv["first"] = "rmid"
    /\ sysv' = [sysv EXCEPT !["first"] = "off"]
    /\ queue' = <<>> /\ msgs' = 0 /\ openings' = 0
    /\ UNCHANGED <<created, msgid, mtext, joins>>

SysvKill(p) ==
    /\ sysv[p] # "off"
    /\ sysv' = [sysv EXCEPT ![p] = "off"]
    /\ UNCHANGED <<queue, msgs, created, msgid, mtext, joins, openings>>

SysvNext ==
    \/ \E p \in Talker : \/ SysvStart(p) \/ Msgrcv(p) \/ MsgrcvFails(p) \/ Talk(p)
                         \/ Bye(p) \/ SysvKill(p)
    \/ MsgctlRmid

SysvSpec == SysvInit /\ [][SysvNext]_sysvVars

\* Programs run when they can; nobody has to type.
SysvFairness ==
    /\ WF_sysvVars(MsgctlRmid)
    /\ \A p \in Talker : WF_sysvVars(Msgrcv(p) \/ MsgrcvFails(p)) /\ WF_sysvVars(Bye(p))

-----------------------------------------------------------------------------
\* A line for p is in the queue p uses.
LineFor(p) == Valid(p) /\ \E i \in DOMAIN queue : queue[i].by = Other(p) /\ queue[i].mtype # 255

\* Whoever is at the prompt has no line waiting, as long as second was started
\* once on the queue, since only a start without a receive before it adds a
\* line (first.c:20-32, second.c:20-38); kills, ends and starts of first are
\* allowed for.
NoLineAtPrompt ==
    openings <= 1 => \A p \in Talker : sysv[p] \in {"open", "fgets"} => ~LineFor(p)

\* So a line waits for a running partner only until it is scheduled, never for
\* a user.
LinesHeard ==
    /\ []NoLineAtPrompt
    /\ \A p \in Talker :
        (LineFor(p) /\ sysv[p] # "off") ~> (~LineFor(p) \/ sysv[p] = "off" \/ openings > 1)
=============================================================================
