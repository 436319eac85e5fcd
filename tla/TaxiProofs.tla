----------------------------- MODULE TaxiProofs -----------------------------
(***************************************************************************)
(* Proofs about Taxi, for any set of drivers, any table size, any queue    *)
(* capacity, any set of timer values and any number of restarts.           *)
(***************************************************************************)
EXTENDS Taxi, TLAPS

\* A message queue or mailbox that is not empty has a typed first element.
LEMMA FirstType ==
    ASSUME NEW S, NEW s \in Seq(S), s # <<>>
    PROVE  Len(s) > 0 /\ s[1] \in S
  OBVIOUS

\* What epoll_wait may report is a list of at most two branches.
LEMMA EventLists ==
    \A e \in {<<"mq">>, <<"stdin">>, <<"mq", "stdin">>, <<"stdin", "mq">>} :
        e \in Seq({"mq", "stdin"}) /\ Len(e) <= 2
  OBVIOUS

\* timerfd_settime leaves the timer unarmed or armed with the value given.
LEMMA ArmedType == \A t \in Timer : Armed(t) \in Int
  BY TaxiAssumption DEF NoTimer, Armed

\* The type invariant holds when the CLI starts.
LEMMA TypeInit == Init => TypeOK
  BY TaxiAssumption DEF Init, TypeOK, Data, NoTimer

\* update_driver_status keeps the table a table of the same length.
LEMMA UpdatedType ==
    ASSUME drivers \in Seq(DriverInfo), NEW d \in Driver, NEW v \in Data
    PROVE  /\ Updated(d, v) \in Seq(DriverInfo)
           /\ Len(Updated(d, v)) = Len(drivers)
<1>1. [pid |-> d, status |-> IF v > 0 THEN "BUSY" ELSE "AVAILABLE", remaining_time |-> v]
        \in DriverInfo
  BY DEF DriverInfo
<1>2. \A i \in 1 .. Len(drivers) : Updated(d, v)[i] \in DriverInfo
  BY <1>1 DEF Updated
<1> QED
  BY <1>2 DEF Updated

\* Every step of the CLI, of a driver, of the clock and every crash keeps it.
LEMMA TypeStep == TypeOK /\ [Next]_vars => TypeOK'
<1> SUFFICES ASSUME TypeOK, [Next]_vars PROVE TypeOK'
  OBVIOUS
<1> USE TaxiAssumption DEF TypeOK, drvVars, cliVars
<1>1. CASE TypeLine
  BY <1>1 DEF TypeLine
<1>2. CASE Tick
  <2>1. timer' \in [Driver -> Int]
    BY <1>2, SMTT(30) DEF Tick
  <2> QED
    BY <1>2, <2>1, SMTT(30) DEF Tick
<1>3. CASE EpollWait
  <2>1. events' \in Seq({"mq", "stdin"}) /\ Len(events') <= 2
    <3>2. events' \in {<<"mq">>, <<"stdin">>, <<"mq", "stdin">>, <<"stdin", "mq">>}
      BY <1>3, Zenon DEF EpollWait, Ready
    <3> QED
      BY <3>2, EventLists, Zenon
  <2> QED
    BY <1>3, <2>1 DEF EpollWait
<1>4. CASE Register
  <2>1. drivers' \in Seq(DriverInfo) /\ Len(drivers') <= MAX_DRIVERS
    <3>1. Head(cliQ) \in Message
      BY <1>4 DEF Register, HasRoom, Receives
    <3>2. [pid |-> Head(cliQ).pid, status |-> "AVAILABLE", remaining_time |-> 0] \in DriverInfo
      BY <3>1 DEF Message, DriverInfo, Data
    <3> QED
      BY <1>4, <3>2 DEF Register, HasRoom
  <2>2. cliQ' \in Seq(Message) /\ Len(cliQ') <= QCAP
    BY <1>4 DEF Register, HasRoom, Receives
  <2> QED
    BY <1>4, <2>1, <2>2 DEF Register, HasRoom
<1>5. CASE StatusUpdate
  <2>1. Head(cliQ).pid \in Driver /\ Head(cliQ).data \in Data
    <3>1. Head(cliQ) \in Message
      BY <1>5 DEF StatusUpdate, Receives
    <3> QED
      BY <3>1 DEF Message
  <2>2. drivers' \in Seq(DriverInfo) /\ Len(drivers') = Len(drivers)
    BY <1>5, <2>1, UpdatedType DEF StatusUpdate
  <2>3. cliQ' \in Seq(Message) /\ Len(cliQ') <= QCAP
    BY <1>5 DEF StatusUpdate, Receives
  <2> QED
    BY <1>5, <2>2, <2>3 DEF StatusUpdate
<1>6. CASE BusyResp
  BY <1>6 DEF BusyResp, Receives, At
<1>7. CASE Drained
  BY <1>7 DEF Drained, At
<1>8. CASE FgetsFails
  BY <1>8 DEF FgetsFails, At
<1>9. CASE OtherCommand
  BY <1>9 DEF OtherCommand, Command, At
<1>10. CASE CliSend
  <2>1. cliOut[1] \in [to : Driver, data : Timer]
    <3> HIDE DEF TypeOK
    <3>1. cliOut \in Seq([to : Driver, data : Timer]) /\ cliOut # <<>>
      BY <1>10 DEF CliSend, TypeOK
    <3> QED
      BY <3>1, FirstType
  <2>2. drvQ' \in [Driver -> Seq(Timer)] /\ \A d \in Driver : Len(drvQ'[d]) <= QCAP
    <3> DEFINE e == cliOut[1].to
               q == Append(drvQ[e], cliOut[1].data)
    <3>1. e \in Driver /\ q \in Seq(Timer) /\ Len(q) <= QCAP
      BY <1>10, <2>1 DEF CliSend
    <3>2. drvQ' = [drvQ EXCEPT ![e] = q]
      BY <1>10 DEF CliSend
    <3> HIDE DEF e, q
    <3>3. drvQ \in [Driver -> Seq(Timer)] /\ \A d \in Driver : Len(drvQ[d]) <= QCAP
      OBVIOUS
    <3> HIDE DEF TypeOK
    <3> QED
      BY <3>1, <3>2, <3>3
  <2>3. cliOut' = <<>>
    BY <1>10 DEF CliSend
  <2> QED
    BY <1>10, <2>2, <2>3 DEF CliSend
<1>11. ASSUME NEW d \in Driver, CreateDriver(d) PROVE TypeOK'
  <2>1. Msg("REGISTER", d, 0) \in Message
    BY DEF Msg, Message, Data
  <2>2. out' \in [Driver -> Seq(Message)] /\ \A e \in Driver : Len(out'[e]) <= 1
    BY <1>11, <2>1 DEF CreateDriver
  <2>3. events' \in Seq({"mq", "stdin"}) /\ Len(events') <= 2
    BY <1>11 DEF CreateDriver, Command, At
  <2> QED
    BY <1>11, <2>2, <2>3 DEF CreateDriver, Command
<1>12. ASSUME NEW d \in Driver, NEW t \in Timer, SendTask(d, t) PROVE TypeOK'
  BY <1>12 DEF SendTask, Command, At
<1>13. CASE RestartCli
  BY <1>13 DEF RestartCli
<1>14. ASSUME NEW d \in Driver, DriverSend(d) PROVE TypeOK'
  BY <1>14 DEF DriverSend
<1>15. ASSUME NEW d \in Driver, DriverWake(d) PROVE TypeOK'
  BY <1>15 DEF DriverWake
<1>16. ASSUME NEW d \in Driver, NothingQueued(d) PROVE TypeOK'
  BY <1>16 DEF NothingQueued
<1>17. ASSUME NEW d \in Driver, AcceptTask(d) PROVE TypeOK'
  <2>1. Head(drvQ[d]) \in Timer
    BY <1>17 DEF AcceptTask, TakeTask
  <2>2. Msg("STATUS_UPDATE", d, Head(drvQ[d])) \in Message
    BY <2>1 DEF Msg, Message, Data
  <2>3. out' \in [Driver -> Seq(Message)] /\ \A e \in Driver : Len(out'[e]) <= 1
    BY <1>17, <2>2 DEF AcceptTask
  <2>4. remaining' \in [Driver -> Data]
    BY <1>17, <2>1 DEF AcceptTask, Data
  <2>6. timer' \in [Driver -> Int]
    <3>1. Armed(Head(drvQ[d])) \in Int
      BY <2>1, ArmedType
    <3>2. timer' = [timer EXCEPT ![d] = Armed(Head(drvQ[d]))]
      BY <1>17 DEF AcceptTask
    <3> QED
      BY <3>1, <3>2
  <2>5. drvQ' \in [Driver -> Seq(Timer)] /\ \A e \in Driver : Len(drvQ'[e]) <= QCAP
    BY <1>17 DEF AcceptTask, TakeTask
  <2> QED
    BY <1>17, <2>3, <2>4, <2>5, <2>6 DEF AcceptTask, TakeTask
<1>18. ASSUME NEW d \in Driver, RefuseTask(d) PROVE TypeOK'
  <2>1. Msg("BUSY_RESP", d, remaining[d]) \in Message
    BY DEF Msg, Message
  <2>2. out' \in [Driver -> Seq(Message)] /\ \A e \in Driver : Len(out'[e]) <= 1
    BY <1>18, <2>1 DEF RefuseTask
  <2>3. drvQ' \in [Driver -> Seq(Timer)] /\ \A e \in Driver : Len(drvQ'[e]) <= QCAP
    BY <1>18 DEF RefuseTask, TakeTask
  <2> QED
    BY <1>18, <2>2, <2>3 DEF RefuseTask, TakeTask
<1>19. ASSUME NEW d \in Driver, TimerExpires(d) PROVE TypeOK'
  <2>1. Msg("STATUS_UPDATE", d, 0) \in Message
    BY DEF Msg, Message, Data
  <2>2. out' \in [Driver -> Seq(Message)] /\ \A e \in Driver : Len(out'[e]) <= 1
    BY <1>19, <2>1 DEF TimerExpires, Expired
  <2> QED
    BY <1>19, <2>2 DEF TimerExpires, Expired, Data, NoTimer
<1>20. ASSUME NEW d \in Driver, KillDriver(d) PROVE TypeOK'
  BY <1>20 DEF KillDriver, NoTimer
<1>21. CASE UNCHANGED vars
  BY <1>21 DEF vars
<1> QED
  BY <1>1, <1>2, <1>3, <1>4, <1>5, <1>6, <1>7, <1>8, <1>9, <1>10, <1>11, <1>12, <1>13,
     <1>14, <1>15, <1>16, <1>17, <1>18, <1>19, <1>20, <1>21
  DEF Next, Step, CliStep, DriverStep

\* Every variable keeps its type, and no queue and no table ever exceeds its
\* capacity, whatever the interleaving of the CLI and its drivers.
THEOREM TypeCorrect == Spec => []TypeOK
  BY TypeInit, TypeStep, PTL DEF Spec

-----------------------------------------------------------------------------
(***************************************************************************)
(* One REGISTER per driver.  The strengthening says where the REGISTER of  *)
(* a driver can be: nowhere before the fork, and once it is being sent,    *)
(* not in the queue and not yet turned into a table entry.                 *)
(***************************************************************************)
UniqueEntry ==
    \A i, j \in 1 .. Len(drivers) : drivers[i].pid = drivers[j].pid => i = j
UniqueInQueue ==
    \A i, j \in 1 .. Len(cliQ) :
        cliQ[i].type = "REGISTER" /\ cliQ[j].type = "REGISTER" /\ cliQ[i].pid = cliQ[j].pid
            => i = j
QueuedNotListed ==
    \A i \in 1 .. Len(cliQ), j \in 1 .. Len(drivers) :
        cliQ[i].type = "REGISTER" => drivers[j].pid # cliQ[i].pid
OwnMessages ==
    \A d \in Driver : out[d] # <<>> => out[d][1].pid = d /\ life[d] = "live"
NoTrace(d) ==
    /\ \A j \in 1 .. Len(drivers) : drivers[j].pid # d
    /\ \A i \in 1 .. Len(cliQ) : cliQ[i].pid # d
NewNoTrace ==
    \A d \in Driver : life[d] = "none" \/ Sending("REGISTER", d) => NoTrace(d)

OneRegister == UniqueEntry /\ UniqueInQueue /\ QueuedNotListed /\ OwnMessages /\ NewNoTrace

RegInv == TypeOK /\ OneRegister

\* msgrcv takes the head of a queue: the others move up by one.
LEMMA TailFacts ==
    ASSUME NEW S, NEW s \in Seq(S), s # <<>>
    PROVE  /\ Head(s) = s[1] /\ Len(s) \in Nat /\ Len(s) > 0
           /\ Len(Tail(s)) = Len(s) - 1
           /\ \A i \in 1 .. Len(Tail(s)) : Tail(s)[i] = s[i + 1] /\ i + 1 \in 1 .. Len(s)
  OBVIOUS

\* msgsnd adds at the end of a queue: the others keep their places.
LEMMA AppendFacts ==
    ASSUME NEW S, NEW s \in Seq(S), NEW e
    PROVE  /\ Len(s) \in Nat
           /\ Len(Append(s, e)) = Len(s) + 1
           /\ \A i \in 1 .. Len(s) : Append(s, e)[i] = s[i]
           /\ Append(s, e)[Len(s) + 1] = e
  OBVIOUS

\* update_driver_status changes no pid of the table.
LEMMA UpdatedPid ==
    ASSUME drivers \in Seq(DriverInfo), NEW d, NEW v
    PROVE  /\ Len(Updated(d, v)) = Len(drivers)
           /\ \A i \in 1 .. Len(drivers) : Updated(d, v)[i].pid = drivers[i].pid
  BY DEF Updated

\* Nothing is registered or queued at the start.
LEMMA RegInit == Init => RegInv
  BY TypeInit DEF RegInv, OneRegister, Init, UniqueEntry, UniqueInQueue, QueuedNotListed,
     OwnMessages, NewNoTrace, NoTrace, Sending

\* No step makes a second REGISTER of a driver, or lists a driver again:
\* one step per action that touches the table or the queue of the CLI.
LEMMA RegStep == RegInv /\ [Next]_vars => RegInv'
<1> SUFFICES ASSUME RegInv, [Next]_vars PROVE OneRegister'
  BY TypeStep DEF RegInv
<1> TypeOK
  BY DEF RegInv
<1> UniqueEntry /\ UniqueInQueue /\ QueuedNotListed /\ OwnMessages /\ NewNoTrace
  BY DEF RegInv, OneRegister
<1> drivers \in Seq(DriverInfo) /\ cliQ \in Seq(Message) /\ out \in [Driver -> Seq(Message)]
  BY DEF TypeOK
<1> life \in [Driver -> {"none", "live", "dead"}]
  BY DEF TypeOK
<1> Len(cliQ) \in Nat /\ Len(drivers) \in Nat
  OBVIOUS
<1> DEFINE Popped == /\ Len(cliQ) > 0 /\ Len(cliQ') = Len(cliQ) - 1
                     /\ \A i \in 1 .. Len(cliQ') : cliQ'[i] = cliQ[i + 1] /\ i + 1 \in 1 .. Len(cliQ)
<1> DEFINE SamePids == /\ Len(drivers') = Len(drivers)
                       /\ \A i \in 1 .. Len(drivers) : drivers'[i].pid = drivers[i].pid
<1>1. ASSUME cliQ # <<>>, cliQ' = Tail(cliQ) PROVE Popped /\ Head(cliQ) = cliQ[1]
  BY <1>1, TailFacts
<1>2. ASSUME UNCHANGED <<drivers, cliQ, out, life>> PROVE OneRegister'
  BY <1>2 DEF OneRegister, UniqueEntry, UniqueInQueue, QueuedNotListed, OwnMessages,
              NewNoTrace, NoTrace, Sending
<1>3. ASSUME Popped PROVE UniqueInQueue'
  BY <1>3, SMTT(30) DEF UniqueInQueue
<1>4. ASSUME Popped, SamePids, UNCHANGED <<out, life>> PROVE OneRegister'
  <2>1. UniqueEntry'
    BY <1>4 DEF UniqueEntry
  <2>2. QueuedNotListed'
    BY <1>4 DEF QueuedNotListed
  <2>3. OwnMessages'
    BY <1>4 DEF OwnMessages
  <2>4. NewNoTrace'
    <3> SUFFICES ASSUME NEW d \in Driver, life[d] = "none" \/ Sending("REGISTER", d)
                 PROVE  NoTrace(d)'
      BY <1>4 DEF NewNoTrace, Sending
    <3>1. NoTrace(d)
      BY DEF NewNoTrace
    <3> QED
      BY <1>4, <3>1 DEF NoTrace
  <2> QED
    BY <1>3, <1>4, <2>1, <2>2, <2>3, <2>4 DEF OneRegister
<1>5. CASE Register
  <2> DEFINE p == cliQ[1].pid
  <2>1. Popped /\ cliQ[1].type = "REGISTER" /\ UNCHANGED <<out, life>> /\ Head(cliQ) = cliQ[1]
    BY <1>5, <1>1 DEF Register, HasRoom, Receives, drvVars
  <2>2. CASE drivers' = drivers
    BY <2>1, <2>2, <1>4
  <2>3. CASE drivers' # drivers
    <3>1. /\ Len(drivers') = Len(drivers) + 1
          /\ \A i \in 1 .. Len(drivers) : drivers'[i] = drivers[i]
          /\ drivers'[Len(drivers) + 1].pid = p
      <4>1. drivers' = Append(drivers, [pid |-> p, status |-> "AVAILABLE", remaining_time |-> 0])
        BY <1>5, <2>1, <2>3 DEF Register, HasRoom
      <4> QED
        BY <4>1, AppendFacts
    <3>6. \A j \in 1 .. Len(drivers') : j \in 1 .. Len(drivers) \/ j = Len(drivers) + 1
      BY <3>1
    <3>2. UniqueEntry'
      <4>1. \A i \in 1 .. Len(drivers) : drivers[i].pid # p
        BY <2>1 DEF QueuedNotListed
      <4> SUFFICES ASSUME NEW i \in 1 .. Len(drivers'), NEW j \in 1 .. Len(drivers'),
                          drivers'[i].pid = drivers'[j].pid
                   PROVE  i = j
        BY DEF UniqueEntry
      <4>2. CASE i \in 1 .. Len(drivers) /\ j \in 1 .. Len(drivers)
        BY <3>1, <4>2 DEF UniqueEntry
      <4>3. CASE i = Len(drivers) + 1 \/ j = Len(drivers) + 1
        BY <3>1, <3>6, <4>1, <4>3
      <4> QED
        BY <3>6, <4>2, <4>3
    <3>3. QueuedNotListed'
      <4>1. \A i \in 1 .. Len(cliQ') : cliQ'[i].type = "REGISTER" => cliQ'[i].pid # p
        <5> SUFFICES ASSUME NEW i \in 1 .. Len(cliQ'), cliQ'[i].type = "REGISTER"
                     PROVE  cliQ'[i].pid # p
          OBVIOUS
        <5>1. cliQ'[i] = cliQ[i + 1] /\ i + 1 \in 1 .. Len(cliQ) /\ 1 \in 1 .. Len(cliQ) /\ i + 1 # 1
          BY <2>1
        <5> QED
          BY <2>1, <5>1 DEF UniqueInQueue
      <4>2. \A i \in 1 .. Len(cliQ'), j \in 1 .. Len(drivers) :
               cliQ'[i].type = "REGISTER" => drivers[j].pid # cliQ'[i].pid
        BY <2>1 DEF QueuedNotListed
      <4> QED
        BY <3>1, <3>6, <4>1, <4>2 DEF QueuedNotListed
    <3>4. OwnMessages'
      BY <2>1 DEF OwnMessages
    <3>5. NewNoTrace'
      <4> SUFFICES ASSUME NEW d \in Driver, life[d] = "none" \/ Sending("REGISTER", d)
                   PROVE  NoTrace(d)'
        BY <2>1 DEF NewNoTrace, Sending
      <4>1. NoTrace(d)
        BY DEF NewNoTrace
      <4>2. p # d
        BY <2>1, <4>1 DEF NoTrace
      <4> QED
        BY <2>1, <3>1, <3>6, <4>1, <4>2 DEF NoTrace
    <3> QED
      BY <2>1, <1>3, <3>2, <3>3, <3>4, <3>5 DEF OneRegister
  <2> QED
    BY <2>2, <2>3
<1>6. CASE StatusUpdate
  <2>1. SamePids
    BY <1>6, UpdatedPid DEF StatusUpdate
  <2> QED
    BY <1>6, <1>1, <1>4, <2>1 DEF StatusUpdate, Receives, drvVars
<1>7. CASE BusyResp
  BY <1>7, <1>1, <1>4 DEF BusyResp, Receives, drvVars
<1>8. ASSUME NEW d \in Driver, CreateDriver(d) PROVE OneRegister'
  <2>1. UNCHANGED <<drivers, cliQ>>
    BY <1>8 DEF CreateDriver
  <2>2. life[d] = "none" /\ life' = [life EXCEPT ![d] = "live"]
    BY <1>8 DEF CreateDriver
  <2>3. out' = [out EXCEPT ![d] = <<[type |-> "REGISTER", pid |-> d, data |-> 0]>>]
    BY <1>8 DEF CreateDriver, Msg
  <2>4. OwnMessages'
    BY <2>2, <2>3 DEF OwnMessages
  <2>5. NewNoTrace'
    BY <2>1, <2>2, <2>3 DEF NewNoTrace, NoTrace, Sending
  <2> QED
    BY <2>1, <2>4, <2>5 DEF OneRegister, UniqueEntry, UniqueInQueue, QueuedNotListed
<1>9. ASSUME NEW d \in Driver, DriverSend(d) PROVE OneRegister'
  <2>1. UNCHANGED <<drivers, life>> /\ out[d] # <<>> /\ out[d][1].pid = d
    BY <1>9 DEF DriverSend, drvVars, OwnMessages
  <2>2. out' = [out EXCEPT ![d] = <<>>]
    BY <1>9 DEF DriverSend
  <2>3. /\ Len(cliQ') = Len(cliQ) + 1
        /\ \A i \in 1 .. Len(cliQ) : cliQ'[i] = cliQ[i]
        /\ cliQ'[Len(cliQ) + 1] = out[d][1]
    BY <1>9, AppendFacts DEF DriverSend
  <2>4. out[d][1].type = "REGISTER" => NoTrace(d)
    BY <2>1 DEF NewNoTrace, Sending
  <2>9. \A i \in 1 .. Len(cliQ') : i \in 1 .. Len(cliQ) \/ i = Len(cliQ) + 1
    BY <2>3
  <2>5. UniqueInQueue'
    <3> SUFFICES ASSUME NEW i \in 1 .. Len(cliQ'), NEW j \in 1 .. Len(cliQ'),
                        cliQ'[i].type = "REGISTER", cliQ'[j].type = "REGISTER",
                        cliQ'[i].pid = cliQ'[j].pid
                 PROVE  i = j
      BY DEF UniqueInQueue
    <3>1. CASE i \in 1 .. Len(cliQ) /\ j \in 1 .. Len(cliQ)
      BY <3>1, <2>3 DEF UniqueInQueue
    <3>2. CASE i = Len(cliQ) + 1 \/ j = Len(cliQ) + 1
      BY <3>2, <2>1, <2>3, <2>4, <2>9 DEF NoTrace
    <3> QED
      BY <2>9, <3>1, <3>2
  <2>6. QueuedNotListed'
    <3> SUFFICES ASSUME NEW i \in 1 .. Len(cliQ'), NEW j \in 1 .. Len(drivers),
                        cliQ'[i].type = "REGISTER"
                 PROVE  drivers[j].pid # cliQ'[i].pid
      BY <2>1 DEF QueuedNotListed
    <3>1. CASE i \in 1 .. Len(cliQ)
      BY <3>1, <2>3 DEF QueuedNotListed
    <3>2. CASE i = Len(cliQ) + 1
      BY <3>2, <2>1, <2>3, <2>4 DEF NoTrace
    <3> QED
      BY <2>9, <3>1, <3>2
  <2>7. OwnMessages'
    BY <2>1, <2>2 DEF OwnMessages
  <2>8. NewNoTrace'
    <3>1. life[d] = "live"
      BY <1>9 DEF DriverSend
    <3>2. ASSUME NEW e \in Driver, e # d, life[e] = "none" \/ Sending("REGISTER", e)
          PROVE  NoTrace(e)'
      <4>1. NoTrace(e)
        BY <3>2 DEF NewNoTrace
      <4> QED
        BY <2>1, <2>3, <2>9, <3>2, <4>1 DEF NoTrace
    <3> QED
      BY <2>1, <2>2, <3>1, <3>2 DEF NewNoTrace, Sending
  <2> QED
    BY <2>1, <2>5, <2>6, <2>7, <2>8 DEF OneRegister, UniqueEntry
<1>10. CASE RestartCli
  BY <1>10 DEF RestartCli, drvVars, OneRegister, UniqueEntry, UniqueInQueue, QueuedNotListed,
               OwnMessages, NewNoTrace, NoTrace, Sending
<1>11. ASSUME NEW d \in Driver, UNCHANGED <<drivers, cliQ, life>>, life[d] = "live",
              NEW type \in {"STATUS_UPDATE", "BUSY_RESP"}, NEW v,
              out' = [out EXCEPT ![d] = <<Msg(type, d, v)>>]
       PROVE  OneRegister'
  <2>1. OwnMessages'
    BY <1>11 DEF OwnMessages, Msg
  <2>2. NewNoTrace'
    BY <1>11 DEF NewNoTrace, NoTrace, Sending, Msg
  <2> QED
    BY <1>11, <2>1, <2>2 DEF OneRegister, UniqueEntry, UniqueInQueue, QueuedNotListed
<1>12. ASSUME NEW d \in Driver, AcceptTask(d) PROVE OneRegister'
  <2>1. out' = [out EXCEPT ![d] = <<Msg("STATUS_UPDATE", d, Head(drvQ[d]))>>]
    BY <1>12 DEF AcceptTask
  <2> QED
    BY <1>12, <1>11, <2>1 DEF AcceptTask, TakeTask, Running
<1>13. ASSUME NEW d \in Driver, RefuseTask(d) PROVE OneRegister'
  BY <1>13, <1>11 DEF RefuseTask, TakeTask, Running, drvVars
<1>14. ASSUME NEW d \in Driver, TimerExpires(d) PROVE OneRegister'
  BY <1>14, <1>11 DEF TimerExpires, Expired, Running
<1>15. ASSUME NEW d \in Driver, KillDriver(d) PROVE OneRegister'
  <2>1. UNCHANGED <<drivers, cliQ>> /\ life' = [life EXCEPT ![d] = "dead"]
        /\ out' = [out EXCEPT ![d] = <<>>]
    BY <1>15 DEF KillDriver
  <2> QED
    BY <2>1 DEF OneRegister, UniqueEntry, UniqueInQueue, QueuedNotListed,
                OwnMessages, NewNoTrace, NoTrace, Sending
<1>16. CASE TypeLine \/ Tick \/ EpollWait \/ Drained \/ FgetsFails \/ OtherCommand \/ CliSend
            \/ UNCHANGED vars
  BY <1>16, <1>2 DEF TypeLine, Tick, EpollWait, Drained, FgetsFails, OtherCommand, CliSend,
                     drvVars, vars
<1>17. ASSUME NEW d \in Driver, NEW t \in Timer, SendTask(d, t) PROVE OneRegister'
  BY <1>17, <1>2 DEF SendTask, drvVars
<1>18. ASSUME NEW d \in Driver, DriverWake(d) \/ NothingQueued(d) PROVE OneRegister'
  BY <1>18, <1>2 DEF DriverWake, NothingQueued, drvVars
<1> QED
  BY <1>5, <1>6, <1>7, <1>8, <1>9, <1>10, <1>12, <1>13, <1>14, <1>15, <1>16, <1>17, <1>18
  DEF Next, Step, CliStep, DriverStep

\* The inductive invariant contains the property.
LEMMA RegImplies == RegInv => NoDuplicateRegistration
  BY SMTT(30) DEF RegInv, OneRegister, UniqueEntry, UniqueInQueue, QueuedNotListed, OwnMessages,
     NewNoTrace, NoTrace, NoDuplicateRegistration, Pending, Sending, InCliQ, InTable, Index, TypeOK

\* No pid is ever listed twice, and a REGISTER still on its way is the only
\* trace of its driver: for any number of drivers, restarts and kills.
THEOREM NeverListedTwice == Spec => []NoDuplicateRegistration
  BY RegInit, RegStep, RegImplies, PTL DEF Spec

-----------------------------------------------------------------------------
(***************************************************************************)
(* The table is late, never wrong.  The strengthening: before its REGISTER *)
(* is applied a driver has no task, no armed timer and nothing to report,  *)
(* so the AVAILABLE entry with which the CLI starts is the truth.          *)
(***************************************************************************)
Unregistered(d) == life[d] = "none" \/ Pending("REGISTER", d)

Idle(d) ==
    /\ remaining[d] = 0 /\ timer[d] = NoTimer /\ drvQ[d] = <<>>
    /\ cliOut # <<>> => cliOut[1].to # d
    /\ ~Pending("STATUS_UPDATE", d)

UnregisteredIdle == \A d \in Driver : Unregistered(d) => Idle(d)

TableInv == RegInv /\ UnregisteredIdle /\ Coherent

\* The table is empty and nobody is alive at the start.
LEMMA TableInit == Init => TableInv
<1> SUFFICES ASSUME Init PROVE UnregisteredIdle /\ Coherent
  BY RegInit DEF TableInv
<1>1. cliQ = <<>> /\ Len(cliQ) = 0 /\ Len(drivers) = 0 /\ \A d \in Driver : out[d] = <<>>
  BY DEF Init
<1>2. UnregisteredIdle
  BY <1>1 DEF Init, UnregisteredIdle, Idle, Pending, InCliQ, Sending
<1>3. Coherent
  BY <1>1 DEF Init, Coherent, Index, Sending
<1> QED
  BY <1>2, <1>3

\* A message leaves the queue or enters it: what is then in the queue.
LEMMA PopInQ ==
    ASSUME cliQ \in Seq(Message), cliQ # <<>>, cliQ' = Tail(cliQ), NEW type, NEW d
    PROVE  InCliQ(type, d)' => InCliQ(type, d)
  BY TailFacts DEF InCliQ

\* The same for a message that a driver sends.
LEMMA PushInQ ==
    ASSUME cliQ \in Seq(Message), NEW m, cliQ' = Append(cliQ, m), NEW type, NEW d
    PROVE  InCliQ(type, d)' <=> (InCliQ(type, d) \/ (m.type = type /\ m.pid = d))
<1>1. \A i \in 1 .. Len(cliQ') : i \in 1 .. Len(cliQ) \/ i = Len(cliQ) + 1
  BY AppendFacts
<1> QED
  BY <1>1, AppendFacts DEF InCliQ

\* A driver of the table has no REGISTER on its way any more.
LEMMA ListedNotUnregistered ==
    ASSUME RegInv, NEW d \in Driver, InTable(d) PROVE ~Unregistered(d)
<1>1. PICK j \in 1 .. Len(drivers) : drivers[j].pid = d
  BY DEF InTable, Index
<1>2. ~NoTrace(d)
  BY <1>1 DEF NoTrace
<1>3. life[d] # "none" /\ ~Sending("REGISTER", d)
  BY <1>2 DEF RegInv, OneRegister, NewNoTrace
<1>4. ~InCliQ("REGISTER", d)
  BY <1>1 DEF RegInv, OneRegister, QueuedNotListed, InCliQ
<1> QED
  BY <1>3, <1>4 DEF Unregistered, Pending

\* A driver whose REGISTER is still on its way has no task: SendTask needs
\* the table entry.
LEMMA IdleStep == TableInv /\ [Next]_vars => UnregisteredIdle'
<1> SUFFICES ASSUME TableInv, [Next]_vars, NEW d \in Driver, Unregistered(d)' PROVE Idle(d)'
  BY DEF UnregisteredIdle
<1> RegInv /\ UnregisteredIdle /\ TypeOK
  BY DEF TableInv, RegInv
<1> /\ cliQ \in Seq(Message) /\ out \in [Driver -> Seq(Message)]
    /\ life \in [Driver -> {"none", "live", "dead"}] /\ drvQ \in [Driver -> Seq(Timer)]
    /\ timer \in [Driver -> Int] /\ remaining \in [Driver -> Data]
  BY DEF TypeOK
<1>1. ASSUME UNCHANGED <<cliQ, cliOut>>, drvQ'[d] = drvQ[d], remaining'[d] = remaining[d],
             out'[d] = out[d], life'[d] = life[d],
             timer'[d] = timer[d] \/ (timer[d] = NoTimer => timer'[d] = NoTimer)
      PROVE  Idle(d)'
  BY <1>1 DEF UnregisteredIdle, Unregistered, Idle, Pending, InCliQ, Sending
<1>2. ASSUME cliQ # <<>>, cliQ' = Tail(cliQ),
             UNCHANGED <<out, life, drvQ, remaining, timer, cliOut>>
      PROVE  Idle(d)'
  <2>1. InCliQ("REGISTER", d)' => InCliQ("REGISTER", d)
    BY <1>2, PopInQ
  <2>2. InCliQ("STATUS_UPDATE", d)' => InCliQ("STATUS_UPDATE", d)
    BY <1>2, PopInQ
  <2>3. Unregistered(d)
    BY <1>2, <2>1 DEF Unregistered, Pending, Sending
  <2> QED
    BY <1>2, <2>2, <2>3 DEF UnregisteredIdle, Idle, Pending, Sending
<1>3. CASE TypeLine \/ EpollWait \/ Drained \/ FgetsFails \/ OtherCommand \/ UNCHANGED vars
  BY <1>1, <1>3 DEF TypeLine, EpollWait, Drained, FgetsFails, OtherCommand, drvVars, vars
<1>4. CASE Tick
  <2>1. timer[d] = NoTimer => timer'[d] = NoTimer
    BY <1>4 DEF Tick, NoTimer
  <2> QED
    BY <1>1, <1>4, <2>1 DEF Tick, cliVars
<1>5. CASE Register \/ StatusUpdate \/ BusyResp
  BY <1>2, <1>5 DEF Register, HasRoom, StatusUpdate, BusyResp, Receives, drvVars, cliVars
<1>6. CASE CliSend
  <2>1. UNCHANGED <<cliQ, out, life, remaining, timer>> /\ cliOut' = <<>>
    BY <1>6 DEF CliSend, drvVars
  <2>2. Idle(d)
    BY <2>1 DEF UnregisteredIdle, Unregistered, Pending, InCliQ, Sending
  <2>3. cliOut[1].to # d
    BY <1>6, <2>2 DEF CliSend, Idle
  <2>4. drvQ'[d] = drvQ[d]
    BY <1>6, <2>3 DEF CliSend
  <2> QED
    BY <2>1, <2>2, <2>4 DEF Idle, Pending, InCliQ, Sending
<1>7. ASSUME NEW e \in Driver, CreateDriver(e) PROVE Idle(d)'
  <2>1. CASE e # d
    BY <1>7, <1>1, <2>1 DEF CreateDriver
  <2>2. CASE e = d
    <3>1. Idle(d) /\ UNCHANGED <<cliQ, cliOut, drvQ, remaining, timer>>
      BY <1>7, <2>2 DEF CreateDriver, UnregisteredIdle, Unregistered
    <3>2. ~Sending("STATUS_UPDATE", d)'
      BY <1>7, <2>2 DEF CreateDriver, Sending, Msg
    <3> QED
      BY <3>1, <3>2 DEF Idle, Pending, InCliQ
  <2> QED
    BY <2>1, <2>2
<1>8. ASSUME NEW e \in Driver, NEW t \in Timer, SendTask(e, t) PROVE Idle(d)'
  <2>1. UNCHANGED <<cliQ, out, life, remaining, timer, drvQ>> /\ cliOut' = <<[to |-> e, data |-> t]>>
    BY <1>8 DEF SendTask, drvVars
  <2>2. Unregistered(d)
    BY <2>1 DEF Unregistered, Pending, InCliQ, Sending
  <2>3. e # d
    BY <1>8, <2>2, ListedNotUnregistered DEF SendTask
  <2> QED
    BY <2>1, <2>2, <2>3 DEF UnregisteredIdle, Idle, Pending, InCliQ, Sending
<1>9. CASE RestartCli
  <2>1. UNCHANGED <<cliQ, out, life, remaining, timer, drvQ>> /\ cliOut' = <<>>
    BY <1>9 DEF RestartCli, drvVars
  <2> QED
    BY <2>1 DEF UnregisteredIdle, Unregistered, Idle, Pending, InCliQ, Sending
<1>10. ASSUME NEW e \in Driver, DriverSend(e) PROVE Idle(d)'
  <2>1. /\ UNCHANGED <<life, remaining, timer, drvQ, cliOut>> /\ out[e] # <<>> /\ out[e][1].pid = e
        /\ cliQ' = Append(cliQ, out[e][1]) /\ out' = [out EXCEPT ![e] = <<>>]
    BY <1>10 DEF DriverSend, drvVars, cliVars, RegInv, OneRegister, OwnMessages
  <2>2. \A type : InCliQ(type, d)' => Pending(type, d)
    BY <2>1, PushInQ DEF Pending, Sending
  <2>3. \A type : Sending(type, d)' => Sending(type, d)
    BY <2>1 DEF Sending
  <2>4. Unregistered(d)
    BY <2>1, <2>2, <2>3 DEF Unregistered, Pending
  <2> QED
    BY <2>1, <2>2, <2>3, <2>4 DEF UnregisteredIdle, Idle, Pending
<1>11. ASSUME NEW e \in Driver, drvQ[e] # <<>> \/ timer[e] # NoTimer, life[e] = "live",
              UNCHANGED <<cliQ, life, cliOut>>, NEW type \in {"STATUS_UPDATE", "BUSY_RESP"}, NEW v,
              out' = [out EXCEPT ![e] = <<Msg(type, e, v)>>],
              e # d => drvQ'[d] = drvQ[d] /\ remaining'[d] = remaining[d] /\ timer'[d] = timer[d]
       PROVE  Idle(d)'
  <2>1. e # d
    <3> SUFFICES ASSUME e = d PROVE FALSE
      OBVIOUS
    <3>1. ~Sending("REGISTER", d)'
      BY <1>11 DEF Sending, Msg
    <3>2. Unregistered(d)
      BY <1>11, <3>1 DEF Unregistered, Pending, InCliQ
    <3> QED
      BY <1>11, <3>2 DEF UnregisteredIdle, Idle
  <2> QED
    BY <1>1, <1>11, <2>1
<1>12. ASSUME NEW e \in Driver, AcceptTask(e) PROVE Idle(d)'
  <2>1. out' = [out EXCEPT ![e] = <<Msg("STATUS_UPDATE", e, Head(drvQ[e]))>>]
    BY <1>12 DEF AcceptTask
  <2>2. drvQ[e] # <<>> /\ life[e] = "live" /\ UNCHANGED <<cliQ, life, cliOut>>
    BY <1>12 DEF AcceptTask, TakeTask, Running, cliVars
  <2>3. e # d => drvQ'[d] = drvQ[d] /\ remaining'[d] = remaining[d] /\ timer'[d] = timer[d]
    BY <1>12 DEF AcceptTask, TakeTask
  <2> QED
    BY <2>1, <2>2, <2>3, <1>11
<1>13. ASSUME NEW e \in Driver, RefuseTask(e) PROVE Idle(d)'
  <2>1. out' = [out EXCEPT ![e] = <<Msg("BUSY_RESP", e, remaining[e])>>]
    BY <1>13 DEF RefuseTask
  <2>2. drvQ[e] # <<>> /\ life[e] = "live" /\ UNCHANGED <<cliQ, life, cliOut, remaining, timer>>
    BY <1>13 DEF RefuseTask, TakeTask, Running, drvVars, cliVars
  <2>3. e # d => drvQ'[d] = drvQ[d]
    BY <1>13 DEF RefuseTask, TakeTask
  <2> QED
    BY <2>1, <2>2, <2>3, <1>11
<1>14. ASSUME NEW e \in Driver, TimerExpires(e) PROVE Idle(d)'
  <2>1. out' = [out EXCEPT ![e] = <<Msg("STATUS_UPDATE", e, 0)>>]
    BY <1>14 DEF TimerExpires, Expired
  <2>2. timer[e] # NoTimer /\ life[e] = "live" /\ UNCHANGED <<cliQ, life, cliOut, drvQ>>
    BY <1>14 DEF TimerExpires, Expired, Running, cliVars, NoTimer
  <2>3. e # d => remaining'[d] = remaining[d] /\ timer'[d] = timer[d]
    BY <1>14 DEF TimerExpires, Expired
  <2> QED
    BY <2>1, <2>2, <2>3, <1>11
<1>15. ASSUME NEW e \in Driver, KillDriver(e) PROVE Idle(d)'
  <2>1. CASE e # d
    BY <1>15, <1>1, <2>1 DEF KillDriver, cliVars
  <2>2. CASE e = d
    <3>1. /\ UNCHANGED <<cliQ, cliOut, drvQ, remaining>> /\ timer'[d] = NoTimer
          /\ out'[d] = <<>> /\ life'[d] = "dead"
      BY <1>15, <2>2 DEF KillDriver, cliVars
    <3>2. Idle(d)
      BY <3>1 DEF UnregisteredIdle, Unregistered, Pending, InCliQ, Sending
    <3> QED
      BY <3>1, <3>2 DEF Idle, Pending, InCliQ, Sending
  <2> QED
    BY <2>1, <2>2
<1>16. ASSUME NEW e \in Driver, DriverWake(e) \/ NothingQueued(e) PROVE Idle(d)'
  BY <1>16, <1>1 DEF DriverWake, NothingQueued, drvVars, cliVars
<1> QED
  BY <1>3, <1>4, <1>5, <1>6, <1>7, <1>8, <1>9, <1>10, <1>12, <1>13, <1>14, <1>15, <1>16
  DEF Next, Step, CliStep, DriverStep

\* Coherence of one driver, the body of Coherent.
CoherentFor(d) ==
    IF Sending("STATUS_UPDATE", d) THEN out[d][1].data = remaining[d]
    ELSE /\ \A i \in 1 .. Len(cliQ) : NewestAt(i, d) => cliQ[i].data = remaining[d]
         /\ InCliQ("STATUS_UPDATE", d)
               \/ \A i \in Index(d) : drivers[i].remaining_time = remaining[d]

\* Every step keeps the newest STATUS_UPDATE of a driver, or else its table
\* entry, equal to the driver's remaining.
LEMMA CoherentStep == TableInv /\ [Next]_vars => Coherent'
<1> SUFFICES ASSUME TableInv, [Next]_vars, NEW d \in Driver, life'[d] = "live" PROVE CoherentFor(d)'
  BY DEF Coherent, CoherentFor
<1> RegInv /\ UnregisteredIdle /\ TypeOK /\ Coherent
  BY DEF TableInv, RegInv
<1> /\ cliQ \in Seq(Message) /\ out \in [Driver -> Seq(Message)] /\ drivers \in Seq(DriverInfo)
    /\ life \in [Driver -> {"none", "live", "dead"}] /\ remaining \in [Driver -> Data]
  BY DEF TypeOK
<1> Len(cliQ) \in Nat /\ Len(drivers) \in Nat
  OBVIOUS
<1> DEFINE Pop == /\ Len(cliQ) > 0 /\ Len(cliQ') = Len(cliQ) - 1
                  /\ \A i \in 1 .. Len(cliQ') : cliQ'[i] = cliQ[i + 1] /\ i + 1 \in 1 .. Len(cliQ)
<1>1. life[d] = "live" => CoherentFor(d)
  BY DEF Coherent, CoherentFor
<1>2. ASSUME UNCHANGED <<cliQ, drivers>>, remaining'[d] = remaining[d], out'[d] = out[d],
             life'[d] = life[d]
      PROVE  CoherentFor(d)'
  BY <1>1, <1>2 DEF CoherentFor, Sending, NewestAt, UpdateAt, InCliQ, Index
<1>3. ASSUME cliQ # <<>>, cliQ' = Tail(cliQ)
      PROVE  Pop /\ Head(cliQ) = cliQ[1]
  BY <1>3, TailFacts
<1>4. ASSUME Pop PROVE \A i \in 1 .. Len(cliQ') : NewestAt(i, d)' => NewestAt(i + 1, d)
  <2> SUFFICES ASSUME NEW i \in 1 .. Len(cliQ'), NewestAt(i, d)' PROVE NewestAt(i + 1, d)
    OBVIOUS
  <2>1. UpdateAt(i + 1, d)
    BY <1>4 DEF NewestAt, UpdateAt
  <2>2. ASSUME NEW j \in (i + 1) + 1 .. Len(cliQ), UpdateAt(j, d) PROVE FALSE
    <3>1. j - 1 \in i + 1 .. Len(cliQ') /\ j - 1 \in 1 .. Len(cliQ') /\ (j - 1) + 1 = j
      BY <1>4
    <3>2. cliQ'[j - 1] = cliQ[j]
      BY <1>4, <3>1
    <3> QED
      BY <2>2, <3>1, <3>2 DEF NewestAt, UpdateAt
  <2> QED
    BY <2>1, <2>2 DEF NewestAt
<1>5. ASSUME Pop, ~UpdateAt(1, d), InCliQ("STATUS_UPDATE", d) PROVE InCliQ("STATUS_UPDATE", d)'
  <2>1. PICK i \in 1 .. Len(cliQ) : UpdateAt(i, d)
    BY <1>5 DEF InCliQ, UpdateAt
  <2>2. i - 1 \in 1 .. Len(cliQ') /\ (i - 1) + 1 = i
    BY <1>5, <2>1
  <2>3. cliQ'[i - 1] = cliQ[i]
    BY <1>5, <2>2
  <2> QED
    BY <2>1, <2>2, <2>3 DEF InCliQ, UpdateAt
<1>6. ASSUME Pop, ~UpdateAt(1, d), UNCHANGED <<out, life, remaining>>,
             \A v : (\A i \in Index(d) : drivers[i].remaining_time = v)
                      => \A i \in Index(d)' : drivers'[i].remaining_time = v
      PROVE  CoherentFor(d)'
  <2>1. CoherentFor(d)
    BY <1>1, <1>6
  <2>2. CASE Sending("STATUS_UPDATE", d)
    BY <1>6, <2>1, <2>2 DEF CoherentFor, Sending
  <2>3. CASE ~Sending("STATUS_UPDATE", d)
    <3>1. \A i \in 1 .. Len(cliQ') : NewestAt(i, d)' => cliQ'[i].data = remaining[d]
      BY <1>4, <1>6, <2>1, <2>3 DEF CoherentFor
    <3>2. \/ InCliQ("STATUS_UPDATE", d)'
          \/ \A i \in Index(d)' : drivers'[i].remaining_time = remaining[d]
      BY <1>5, <1>6, <2>1, <2>3 DEF CoherentFor
    <3> QED
      BY <1>6, <2>3, <3>1, <3>2 DEF CoherentFor, Sending
  <2> QED
    BY <2>2, <2>3
<1>7. CASE Register
  <2>1. /\ Pop /\ cliQ[1].type = "REGISTER" /\ Head(cliQ) = cliQ[1]
        /\ UNCHANGED <<out, life, remaining>>
    BY <1>3, <1>7 DEF Register, HasRoom, Receives, drvVars
  <2>2. ~UpdateAt(1, d)
    BY <2>1 DEF UpdateAt
  <2>3. CASE drivers' = drivers
    BY <1>6, <2>1, <2>2, <2>3 DEF Index
  <2>4. CASE drivers' # drivers
    <3>1. drivers' = Append(drivers, [pid |-> cliQ[1].pid, status |-> "AVAILABLE",
                                      remaining_time |-> 0])
      BY <1>7, <2>1, <2>4 DEF Register, HasRoom
    <3>2. /\ Len(drivers') = Len(drivers) + 1
          /\ \A i \in 1 .. Len(drivers) : drivers'[i] = drivers[i]
          /\ drivers'[Len(drivers) + 1].pid = cliQ[1].pid
          /\ drivers'[Len(drivers) + 1].remaining_time = 0
      BY <3>1, AppendFacts
    <3>3. \A j \in 1 .. Len(drivers') : j \in 1 .. Len(drivers) \/ j = Len(drivers) + 1
      BY <3>2
    <3>4. CASE cliQ[1].pid = d
      <4>1. InCliQ("REGISTER", d)
        <5>1. 1 \in 1 .. Len(cliQ)
          BY <2>1
        <5> QED
          BY <2>1, <3>4, <5>1 DEF InCliQ
      <4>2. Idle(d)
        BY <4>1 DEF UnregisteredIdle, Unregistered, Pending
      <4>3. \A j \in 1 .. Len(drivers) : drivers[j].pid # d
        BY <2>1, <3>4 DEF RegInv, OneRegister, QueuedNotListed
      <4>4. \A i \in Index(d)' : drivers'[i].remaining_time = remaining[d]
        BY <3>2, <3>3, <4>2, <4>3 DEF Index, Idle
      <4>5. ~InCliQ("STATUS_UPDATE", d)'
        BY <1>7, <4>2, PopInQ DEF Register, HasRoom, Receives, Idle, Pending
      <4>6. ~Sending("STATUS_UPDATE", d)'
        BY <2>1, <4>2 DEF Idle, Pending, Sending
      <4>7. \A i \in 1 .. Len(cliQ') : ~NewestAt(i, d)'
        BY <4>5 DEF InCliQ, NewestAt, UpdateAt
      <4> QED
        BY <2>1, <4>4, <4>6, <4>7 DEF CoherentFor
    <3>5. CASE cliQ[1].pid # d
      <4>1. Index(d)' = Index(d) /\ \A i \in Index(d) : drivers'[i] = drivers[i]
        BY <3>2, <3>3, <3>5 DEF Index
      <4> QED
        BY <1>6, <2>1, <2>2, <4>1
    <3> QED
      BY <3>4, <3>5
  <2> QED
    BY <2>3, <2>4
<1>8. CASE StatusUpdate
  <2> DEFINE p == cliQ[1].pid
  <2> DEFINE v == cliQ[1].data
  <2>1. /\ Pop /\ cliQ[1].type = "STATUS_UPDATE" /\ Head(cliQ) = cliQ[1]
        /\ UNCHANGED <<out, life, remaining>>
    BY <1>3, <1>8 DEF StatusUpdate, Receives, drvVars
  <2>2. drivers' = Updated(p, v)
    BY <1>8, <2>1 DEF StatusUpdate
  <2>3. /\ Len(drivers') = Len(drivers)
        /\ \A i \in 1 .. Len(drivers) : drivers'[i].pid = drivers[i].pid
        /\ Index(d)' = Index(d)
    BY <2>2, UpdatedPid DEF Index
  <2>4. CASE p # d
    <3>1. ~UpdateAt(1, d)
      BY <2>4 DEF UpdateAt
    <3>2. \A i \in Index(d) : drivers'[i] = drivers[i]
      BY <2>2, <2>4 DEF Updated, Index
    <3> QED
      BY <1>6, <2>1, <2>3, <3>1, <3>2
  <2>5. CASE p = d
    <3>1. CoherentFor(d)
      BY <1>1, <2>1
    <3>2. CASE Sending("STATUS_UPDATE", d)
      BY <2>1, <3>1, <3>2 DEF CoherentFor, Sending
    <3>3. CASE ~Sending("STATUS_UPDATE", d)
      <4>1. \A i \in 1 .. Len(cliQ') : NewestAt(i, d)' => cliQ'[i].data = remaining[d]
        BY <1>4, <2>1, <3>1, <3>3 DEF CoherentFor
      <4>2. ASSUME ~InCliQ("STATUS_UPDATE", d)'
            PROVE  \A i \in Index(d)' : drivers'[i].remaining_time = remaining[d]
        <5>1. \A j \in 2 .. Len(cliQ) : ~UpdateAt(j, d)
          <6> SUFFICES ASSUME NEW j \in 2 .. Len(cliQ), UpdateAt(j, d) PROVE FALSE
            OBVIOUS
          <6>1. j - 1 \in 1 .. Len(cliQ') /\ (j - 1) + 1 = j
            BY <2>1
          <6>2. cliQ'[j - 1] = cliQ[j]
            BY <2>1, <6>1
          <6> QED
            BY <4>2, <6>1, <6>2 DEF InCliQ, UpdateAt
        <5>2. v = remaining[d]
          BY <2>1, <2>5, <3>1, <3>3, <5>1 DEF CoherentFor, NewestAt, UpdateAt
        <5>3. \A i \in Index(d), j \in Index(d) : i = j
          BY DEF RegInv, OneRegister, UniqueEntry, Index
        <5>4. \A i \in Index(d) : drivers'[i].remaining_time = v
          BY <2>2, <2>5, <5>3 DEF Updated, Index
        <5> QED
          BY <2>3, <5>2, <5>4
      <4> QED
        BY <2>1, <3>3, <4>1, <4>2 DEF CoherentFor, Sending
    <3> QED
      BY <3>2, <3>3
  <2> QED
    BY <2>4, <2>5
<1>9. CASE BusyResp
  <2>1. /\ Pop /\ cliQ[1].type = "BUSY_RESP" /\ UNCHANGED <<drivers, out, life, remaining>>
    BY <1>3, <1>9 DEF BusyResp, Receives, drvVars
  <2> QED
    BY <1>6, <2>1 DEF UpdateAt, Index
<1>10. ASSUME NEW e \in Driver, CreateDriver(e) PROVE CoherentFor(d)'
  <2>1. CASE e # d
    BY <1>2, <1>10, <2>1 DEF CreateDriver
  <2>2. CASE e = d
    <3>1. UNCHANGED <<drivers, cliQ, remaining>> /\ life[d] = "none"
      BY <1>10, <2>2 DEF CreateDriver
    <3>2. NoTrace(d)
      BY <3>1 DEF RegInv, OneRegister, NewNoTrace
    <3>3. ~Sending("STATUS_UPDATE", d)'
      BY <1>10, <2>2 DEF CreateDriver, Sending, Msg
    <3> QED
      BY <3>1, <3>2, <3>3 DEF CoherentFor, NoTrace, NewestAt, UpdateAt, Index
  <2> QED
    BY <2>1, <2>2
<1>11. ASSUME NEW e \in Driver, DriverSend(e) PROVE CoherentFor(d)'
  <2> DEFINE m == out[e][1]
  <2> DEFINE IsUpdate == m.type = "STATUS_UPDATE" /\ m.pid = d
  <2>1. /\ UNCHANGED <<drivers, life, remaining>> /\ out[e] # <<>> /\ m.pid = e
        /\ cliQ' = Append(cliQ, m) /\ out' = [out EXCEPT ![e] = <<>>]
    BY <1>11 DEF DriverSend, drvVars, RegInv, OneRegister, OwnMessages
  <2>2. /\ Len(cliQ') = Len(cliQ) + 1
        /\ \A i \in 1 .. Len(cliQ) : cliQ'[i] = cliQ[i]
        /\ cliQ'[Len(cliQ) + 1] = m
    BY <2>1, AppendFacts
  <2>3. \A i \in 1 .. Len(cliQ') : i \in 1 .. Len(cliQ) \/ i = Len(cliQ) + 1
    BY <2>2
  <2>4. CoherentFor(d)
    BY <1>1, <2>1
  <2>5. \A i \in 1 .. Len(cliQ) : NewestAt(i, d)' => NewestAt(i, d) /\ ~IsUpdate
    <3> SUFFICES ASSUME NEW i \in 1 .. Len(cliQ), NewestAt(i, d)' PROVE NewestAt(i, d) /\ ~IsUpdate
      OBVIOUS
    <3>1. Len(cliQ) + 1 \in i + 1 .. Len(cliQ')
      BY <2>2
    <3>2. \A j \in i + 1 .. Len(cliQ) : j \in i + 1 .. Len(cliQ') /\ cliQ'[j] = cliQ[j]
      BY <2>2
    <3> QED
      BY <2>2, <3>1, <3>2 DEF NewestAt, UpdateAt
  <2>6. InCliQ("STATUS_UPDATE", d) => InCliQ("STATUS_UPDATE", d)'
    BY <2>1, PushInQ
  <2>7. CASE IsUpdate
    <3>1. e = d /\ Sending("STATUS_UPDATE", d)
      BY <2>1, <2>7 DEF Sending
    <3>2. \A i \in 1 .. Len(cliQ') : NewestAt(i, d)' => cliQ'[i].data = remaining[d]
      BY <2>2, <2>3, <2>4, <2>5, <2>7, <3>1 DEF CoherentFor
    <3>3. InCliQ("STATUS_UPDATE", d)'
      BY <2>1, <2>7, PushInQ
    <3> QED
      BY <2>1, <3>1, <3>2, <3>3 DEF CoherentFor, Sending
  <2>8. CASE ~IsUpdate
    <3>1. Sending("STATUS_UPDATE", d) <=> Sending("STATUS_UPDATE", d)'
      BY <2>1, <2>8 DEF Sending
    <3>2. Sending("STATUS_UPDATE", d) => out'[d] = out[d]
      BY <2>1, <3>1 DEF Sending
    <3>3. \A i \in 1 .. Len(cliQ') : NewestAt(i, d)' => i \in 1 .. Len(cliQ) /\ NewestAt(i, d)
      BY <2>2, <2>3, <2>5, <2>8 DEF NewestAt, UpdateAt
    <3> QED
      BY <2>1, <2>2, <2>4, <2>6, <3>1, <3>2, <3>3 DEF CoherentFor, Index
  <2> QED
    BY <2>7, <2>8
<1>12. ASSUME NEW e \in Driver, life[e] = "live", out[e] = <<>>, UNCHANGED <<cliQ, life, drivers>>,
              NEW v, out' = [out EXCEPT ![e] = <<Msg("STATUS_UPDATE", e, v)>>],
              remaining' = [remaining EXCEPT ![e] = v]
       PROVE  CoherentFor(d)'
  <2>1. CASE e # d
    BY <1>2, <1>12, <2>1
  <2>2. CASE e = d
    BY <1>12, <2>2 DEF CoherentFor, Sending, Msg
  <2> QED
    BY <2>1, <2>2
<1>13. ASSUME NEW e \in Driver, AcceptTask(e) PROVE CoherentFor(d)'
  <2>1. /\ out' = [out EXCEPT ![e] = <<Msg("STATUS_UPDATE", e, Head(drvQ[e]))>>]
        /\ remaining' = [remaining EXCEPT ![e] = Head(drvQ[e])]
    BY <1>13 DEF AcceptTask
  <2> QED
    BY <1>12, <1>13, <2>1 DEF AcceptTask, TakeTask, Running
<1>14. ASSUME NEW e \in Driver, RefuseTask(e) PROVE CoherentFor(d)'
  <2>1. /\ UNCHANGED <<drivers, cliQ, life, remaining>> /\ out[e] = <<>>
        /\ out' = [out EXCEPT ![e] = <<Msg("BUSY_RESP", e, remaining[e])>>]
    BY <1>14 DEF RefuseTask, TakeTask, Running, drvVars
  <2>2. ~Sending("STATUS_UPDATE", e) /\ ~Sending("STATUS_UPDATE", e)'
    BY <2>1 DEF Sending, Msg
  <2>3. CASE e # d
    BY <1>2, <2>1, <2>3
  <2>4. CASE e = d
    <3>1. CoherentFor(d)
      BY <1>1, <2>1
    <3> QED
      BY <2>1, <2>2, <2>4, <3>1 DEF CoherentFor, NewestAt, UpdateAt, InCliQ, Index
  <2> QED
    BY <2>3, <2>4
<1>15. ASSUME NEW e \in Driver, TimerExpires(e) PROVE CoherentFor(d)'
  BY <1>12, <1>15 DEF TimerExpires, Expired, Running
<1>16. ASSUME NEW e \in Driver, KillDriver(e) PROVE CoherentFor(d)'
  <2>1. e # d
    BY <1>16 DEF KillDriver
  <2> QED
    BY <1>2, <1>16, <2>1 DEF KillDriver
<1>17. CASE RestartCli
  <2>1. UNCHANGED <<cliQ, out, life, remaining>> /\ Len(drivers') = 0
    BY <1>17 DEF RestartCli, drvVars
  <2>2. CoherentFor(d)
    BY <1>1, <2>1
  <2> QED
    BY <2>1, <2>2 DEF CoherentFor, Sending, NewestAt, UpdateAt, Index
<1>18. CASE TypeLine \/ Tick \/ EpollWait \/ Drained \/ FgetsFails \/ OtherCommand \/ CliSend
            \/ UNCHANGED vars
  BY <1>2, <1>18 DEF TypeLine, Tick, EpollWait, Drained, FgetsFails, OtherCommand, CliSend,
                     drvVars, vars
<1>19. ASSUME NEW e \in Driver, NEW t \in Timer, SendTask(e, t) PROVE CoherentFor(d)'
  BY <1>2, <1>19 DEF SendTask, drvVars
<1>20. ASSUME NEW e \in Driver, DriverWake(e) \/ NothingQueued(e) PROVE CoherentFor(d)'
  BY <1>2, <1>20 DEF DriverWake, NothingQueued, drvVars
<1> QED
  BY <1>7, <1>8, <1>9, <1>10, <1>11, <1>13, <1>14, <1>15, <1>16, <1>17, <1>18, <1>19, <1>20
  DEF Next, Step, CliStep, DriverStep

\* The CLI's table is late but never wrong, for any number of drivers, any
\* queue capacity and any timer values, through kills and restarts.
THEOREM TableCoherent == Spec => []Coherent
<1>1. TableInv /\ [Next]_vars => TableInv'
  BY RegStep, IdleStep, CoherentStep DEF TableInv
<1>2. TableInv => Coherent
  BY DEF TableInv
<1> QED
  BY TableInit, <1>1, <1>2, PTL DEF Spec

-----------------------------------------------------------------------------
(***************************************************************************)
(* The timerfd.  What TimerMatchesTask says of a live driver holds from    *)
(* before the fork on, and an armed timer stops at 0.                      *)
(***************************************************************************)
TimerFor(d) ==
    /\ timer[d] >= NoTimer
    /\ life[d] # "dead" =>
         /\ timer[d] # NoTimer <=> busy[d] /\ remaining[d] > 0
         /\ timer[d] <= remaining[d] \/ timer[d] = NoTimer
         /\ ~busy[d] => remaining[d] = 0

TimerType ==
    /\ life \in [Driver -> {"none", "live", "dead"}]
    /\ busy \in [Driver -> BOOLEAN]
    /\ remaining \in [Driver -> Int]
    /\ timer \in [Driver -> Int]

TimerInv == TypeOK /\ \A d \in Driver : TimerFor(d)

\* The types that the timers need.
LEMMA TimerTypes == TypeOK => TimerType /\ \A d \in Driver : drvQ[d] \in Seq(Timer)
<1> SUFFICES ASSUME TypeOK PROVE TimerType /\ \A d \in Driver : drvQ[d] \in Seq(Timer)
  OBVIOUS
<1>1. /\ life \in [Driver -> {"none", "live", "dead"}] /\ busy \in [Driver -> BOOLEAN]
      /\ remaining \in [Driver -> Data] /\ timer \in [Driver -> Int]
      /\ drvQ \in [Driver -> Seq(Timer)]
  BY DEF TypeOK
<1>2. Data \subseteq Int
  BY TaxiAssumption DEF Data
<1>3. remaining \in [Driver -> Int]
  BY <1>1, <1>2
<1> QED
  BY <1>1, <1>3 DEF TimerType

\* Only the clock, AcceptTask, TimerExpires, the fork and a kill touch what the
\* timer has to match.
LEMMA TimerStep == TimerInv /\ [Next]_vars => TimerInv'
<1> SUFFICES ASSUME TimerInv, [Next]_vars, NEW d \in Driver PROVE TimerFor(d)'
  BY TypeStep DEF TimerInv
<1>1. TimerType /\ TimerFor(d) /\ \A e \in Driver : drvQ[e] \in Seq(Timer)
  BY TimerTypes DEF TimerInv
<1>2. CASE UNCHANGED <<life, busy, remaining, timer>>
  BY <1>1, <1>2 DEF TimerFor
<1>3. CASE Tick
  <2>1. UNCHANGED <<life, busy, remaining>>
    BY <1>3 DEF Tick
  <2>2. timer'[d] = IF timer[d] > 0 THEN timer[d] - 1 ELSE timer[d]
    BY <1>3 DEF Tick
  <2> QED
    BY <1>1, <2>1, <2>2 DEF TimerFor, TimerType, NoTimer
<1>4. ASSUME NEW e \in Driver, AcceptTask(e) PROVE TimerFor(d)'
  <2> DEFINE t == Head(drvQ[e])
  <2>1. t \in Int
    <3>1. drvQ[e] \in Seq(Timer) /\ drvQ[e] # <<>>
      BY <1>1, <1>4 DEF AcceptTask, TakeTask
    <3>2. t \in Timer
      BY <3>1
    <3> QED
      BY <3>2, TaxiAssumption
  <2>2. /\ busy' = [busy EXCEPT ![e] = TRUE] /\ remaining' = [remaining EXCEPT ![e] = t]
        /\ timer' = [timer EXCEPT ![e] = Armed(t)] /\ life' = life
    BY <1>4 DEF AcceptTask
  <2> HIDE DEF t
  <2>3. CASE d = e
    <3>1. busy'[d] = TRUE /\ remaining'[d] = t /\ timer'[d] = Armed(t)
      BY <1>1, <2>2, <2>3 DEF TimerType
    <3> QED
      BY <2>1, <3>1 DEF TimerFor, Armed, NoTimer
  <2>4. CASE d # e
    <3>1. busy'[d] = busy[d] /\ remaining'[d] = remaining[d] /\ timer'[d] = timer[d]
      BY <1>1, <2>2, <2>4 DEF TimerType
    <3> QED
      BY <1>1, <2>2, <3>1 DEF TimerFor
  <2> QED
    BY <2>3, <2>4
<1>5. ASSUME NEW e \in Driver, TimerExpires(e) PROVE TimerFor(d)'
  <2>1. /\ busy' = [busy EXCEPT ![e] = FALSE] /\ remaining' = [remaining EXCEPT ![e] = 0]
        /\ timer' = [timer EXCEPT ![e] = NoTimer] /\ life' = life
    BY <1>5 DEF TimerExpires
  <2>2. CASE d = e
    <3>1. busy'[d] = FALSE /\ remaining'[d] = 0 /\ timer'[d] = NoTimer
      BY <1>1, <2>1, <2>2 DEF TimerType
    <3> QED
      BY <3>1 DEF TimerFor, NoTimer
  <2>3. CASE d # e
    <3>1. busy'[d] = busy[d] /\ remaining'[d] = remaining[d] /\ timer'[d] = timer[d]
      BY <1>1, <2>1, <2>3 DEF TimerType
    <3> QED
      BY <1>1, <2>1, <3>1 DEF TimerFor
  <2> QED
    BY <2>2, <2>3
<1>6. ASSUME NEW e \in Driver, CreateDriver(e) PROVE TimerFor(d)'
  <2>1. UNCHANGED <<busy, remaining, timer>> /\ (life'[d] # "dead" => life[d] # "dead")
    BY <1>1, <1>6 DEF CreateDriver, TimerType
  <2> QED
    BY <1>1, <2>1 DEF TimerFor
<1>7. ASSUME NEW e \in Driver, KillDriver(e) PROVE TimerFor(d)'
  <2>1. /\ UNCHANGED <<busy, remaining>> /\ timer' = [timer EXCEPT ![e] = NoTimer]
        /\ life' = [life EXCEPT ![e] = "dead"]
    BY <1>7 DEF KillDriver
  <2>2. /\ d = e => life'[d] = "dead" /\ timer'[d] = NoTimer
        /\ d # e => life'[d] = life[d] /\ timer'[d] = timer[d]
    BY <1>1, <2>1 DEF TimerType
  <2> QED
    BY <1>1, <2>1, <2>2 DEF TimerFor, NoTimer
<1>8. CASE TypeLine \/ EpollWait \/ Register \/ StatusUpdate \/ BusyResp \/ Drained \/ FgetsFails
  BY <1>2, <1>8
  DEF TypeLine, EpollWait, Register, StatusUpdate, BusyResp, Drained, FgetsFails, drvVars
<1>9. CASE OtherCommand \/ CliSend \/ RestartCli \/ UNCHANGED vars
  BY <1>2, <1>9 DEF OtherCommand, CliSend, RestartCli, drvVars, vars
<1>10. ASSUME NEW e \in Driver, NEW t \in Timer, SendTask(e, t) PROVE TimerFor(d)'
  BY <1>2, <1>10 DEF SendTask, drvVars
<1>11. ASSUME NEW e \in Driver, DriverSend(e) \/ DriverWake(e) \/ NothingQueued(e) \/ RefuseTask(e)
       PROVE  TimerFor(d)'
  BY <1>2, <1>11 DEF DriverSend, DriverWake, NothingQueued, RefuseTask, drvVars
<1> QED
  BY <1>3, <1>4, <1>5, <1>6, <1>7, <1>8, <1>9, <1>10, <1>11 DEF Next, Step, CliStep, DriverStep

\* A driver's timer is armed exactly while it works on a task of positive
\* length, and what it reports as left is never less than what is left.
THEOREM TimerAlwaysMatches == Spec => []TimerMatchesTask
<1>1. Init => TimerInv
  BY TypeInit DEF Init, TimerInv, TimerFor, NoTimer
<1>2. TimerInv => TimerMatchesTask
  <2> SUFFICES ASSUME TimerInv, NEW d \in Driver, life[d] = "live"
               PROVE  /\ (timer[d] # NoTimer) = (busy[d] /\ remaining[d] > 0)
                      /\ timer[d] <= remaining[d] \/ timer[d] = NoTimer
                      /\ ~busy[d] => remaining[d] = 0
    BY DEF TimerMatchesTask
  <2> QED
    BY DEF TimerInv, TimerFor
<1> QED
  BY <1>1, <1>2, TimerStep, PTL DEF Spec

-----------------------------------------------------------------------------
\* Only the handling of its one REGISTER lists a driver: a driver whose REGISTER
\* was dropped by a full table or consumed by a CLI since killed stays unknown.
THEOREM NeverListedAgain == Spec => ForgottenForever
<1>1. TypeOK /\ [Next]_vars =>
        [\A d \in Driver :
           life[d] # "none" /\ ~Pending("REGISTER", d) /\ ~InTable(d) => ~InTable(d)']_vars
  <2> SUFFICES ASSUME TypeOK, [Next]_vars, NEW d \in Driver,
                      ~Pending("REGISTER", d), ~InTable(d)
               PROVE  ~InTable(d)'
    OBVIOUS
  <2>1. drivers \in Seq(DriverInfo) /\ cliQ \in Seq(Message) /\ Len(drivers) \in Nat
    BY DEF TypeOK
  <2>2. \A i \in 1 .. Len(drivers) : drivers[i].pid # d
    BY DEF InTable, Index
  <2>3. ASSUME NEW s, drivers' = s, \A i \in 1 .. Len(s) : s[i].pid # d PROVE ~InTable(d)'
    BY <2>3 DEF InTable, Index
  <2>4. CASE Register
    <3>1. Head(cliQ) = cliQ[1] /\ 1 \in 1 .. Len(cliQ) /\ cliQ[1].type = "REGISTER"
      BY <2>1, <2>4 DEF Register, Receives
    <3>2. cliQ[1].pid # d
      BY <3>1 DEF Pending, InCliQ
    <3> DEFINE e == [pid |-> Head(cliQ).pid, status |-> "AVAILABLE", remaining_time |-> 0]
    <3>3. e.pid # d
      BY <3>1, <3>2
    <3> HIDE DEF e
    <3>4. \A i \in 1 .. Len(Append(drivers, e)) : Append(drivers, e)[i].pid # d
      <4>1. /\ Len(Append(drivers, e)) = Len(drivers) + 1
            /\ \A i \in 1 .. Len(drivers) : Append(drivers, e)[i] = drivers[i]
            /\ Append(drivers, e)[Len(drivers) + 1] = e
        BY <2>1, AppendFacts
      <4> QED
        BY <2>1, <2>2, <3>3, <4>1
    <3>5. drivers' = drivers \/ drivers' = Append(drivers, e)
      BY <2>4 DEF Register, e
    <3> QED
      BY <2>2, <2>3, <3>4, <3>5
  <2>5. CASE StatusUpdate
    BY <2>1, <2>2, <2>3, <2>5, UpdatedPid DEF StatusUpdate
  <2>6. CASE RestartCli
    BY <2>6 DEF RestartCli, InTable, Index
  <2>7. CASE drivers' = drivers
    BY <2>2, <2>3, <2>7
  <2> QED
    BY <2>4, <2>5, <2>6, <2>7
    DEF Next, Step, CliStep, DriverStep, TypeLine, Tick, EpollWait, BusyResp, Drained, FgetsFails,
        OtherCommand, CliSend, CreateDriver, SendTask, DriverSend, DriverWake, NothingQueued,
        AcceptTask, RefuseTask, TimerExpires, KillDriver, vars
<1> QED
  BY TypeInit, TypeStep, <1>1, PTL DEF Spec, ForgottenForever

-----------------------------------------------------------------------------
(* Where the whole system can come to a stop. *)

\* The CLI sends tasks to drivers it has forked only.
TargetForked == cliOut # <<>> => life[cliOut[1].to] # "none"

\* A task is sent to a driver.
LEMMA TargetType == TypeOK /\ cliOut # <<>> => cliOut[1].to \in Driver
<1> SUFFICES ASSUME TypeOK, cliOut # <<>> PROVE cliOut[1].to \in Driver
  OBVIOUS
<1>1. cliOut \in Seq([to : Driver, data : Timer])
  BY DEF TypeOK
<1>2. cliOut[1] \in [to : Driver, data : Timer]
  BY <1>1, FirstType
<1> QED
  BY <1>2

\* send_task finds its driver in the table, and only forked drivers register.
LEMMA TargetStep == RegInv /\ TargetForked /\ [Next]_vars => TargetForked'
<1> SUFFICES ASSUME RegInv, TargetForked, [Next]_vars PROVE TargetForked'
  OBVIOUS
<1>1. /\ life \in [Driver -> {"none", "live", "dead"}]
      /\ cliOut # <<>> => cliOut[1].to \in Driver
  BY TargetType DEF RegInv, TypeOK
<1>2. CASE UNCHANGED <<life, cliOut>>
  BY <1>2 DEF TargetForked
<1>3. ASSUME NEW d \in Driver, CreateDriver(d) PROVE TargetForked'
  BY <1>1, <1>3 DEF TargetForked, CreateDriver
<1>4. ASSUME NEW d \in Driver, NEW t \in Timer, SendTask(d, t) PROVE TargetForked'
  <2>1. life[d] # "none"
    BY <1>4 DEF SendTask, InTable, Index, RegInv, OneRegister, NewNoTrace, NoTrace
  <2>2. cliOut'[1].to = d /\ life' = life
    BY <1>4 DEF SendTask, drvVars
  <2> QED
    BY <2>1, <2>2 DEF TargetForked
<1>5. CASE CliSend
  BY <1>5 DEF TargetForked, CliSend
<1>6. CASE RestartCli
  BY <1>6 DEF TargetForked, RestartCli
<1>7. ASSUME NEW d \in Driver, KillDriver(d) PROVE TargetForked'
  BY <1>1, <1>7 DEF TargetForked, KillDriver, cliVars
<1> QED
  BY <1>2, <1>3, <1>4, <1>5, <1>6, <1>7
  DEF Next, Step, CliStep, DriverStep, TypeLine, Tick, EpollWait, Register, StatusUpdate,
      BusyResp, Drained, FgetsFails, OtherCommand, DriverSend, DriverWake, NothingQueued,
      TakeTask, AcceptTask, RefuseTask, TimerExpires, drvVars, cliVars, vars

\* What a stop is judged by, in every state.
LEMMA StopInvariant == Spec => [](RegInv /\ TargetForked)
<1>1. Init => TargetForked
  BY DEF Init, TargetForked
<1> QED
  BY <1>1, RegInit, RegStep, TargetStep, PTL DEF Spec

\* With any number of drivers and queues of any capacity: of all combinations
\* of waits only those occur in which the CLI is inside msgsnd on the full queue
\* of a driver that is dead, deaf, or itself inside msgsnd on the CLI's queue.
THEOREM OnlyMsgsndStopsTaxi == Spec => []OnlyMsgsndStops
<1>1. RegInv /\ TargetForked => OnlyMsgsndStops
  <2> SUFFICES ASSUME RegInv, TargetForked, Stopped
               PROVE  /\ cliOut # <<>> /\ Len(drvQ[cliOut[1].to]) = QCAP
                      /\ \/ life[cliOut[1].to] = "dead"
                         \/ drvFd[cliOut[1].to] = "none"
                         \/ out[cliOut[1].to] # <<>> /\ Len(cliQ) = QCAP
    BY DEF OnlyMsgsndStops
  <2>1. line = 1
    BY DEF RegInv, TypeOK, Stopped
  <2>2. cliOut # <<>> /\ Len(drvQ[cliOut[1].to]) >= QCAP
    BY <2>1 DEF Stopped, CliWaits
  <2> DEFINE d == cliOut[1].to
  <2>3. d \in Driver
    BY <2>2, TargetType DEF RegInv
  <2>4. /\ Len(drvQ[d]) \in Nat /\ Len(drvQ[d]) <= QCAP
        /\ Len(cliQ) \in Nat /\ Len(cliQ) <= QCAP
        /\ life[d] \in {"none", "live", "dead"} /\ drvFd[d] \in {"tty", "none"}
    <3>1. /\ drvQ \in [Driver -> Seq(Timer)] /\ \A e \in Driver : Len(drvQ[e]) <= QCAP
          /\ cliQ \in Seq(Message) /\ Len(cliQ) <= QCAP
          /\ life \in [Driver -> {"none", "live", "dead"}]
          /\ drvFd \in [Driver -> {"tty", "none"}]
      BY DEF RegInv, TypeOK
    <3> HIDE DEF d
    <3>2. Len(drvQ[d]) \in Nat /\ Len(cliQ) \in Nat
      BY <2>3, <3>1
    <3> QED
      BY <2>3, <3>1, <3>2
  <2>5. Len(drvQ[d]) = QCAP
    BY <2>2, <2>4, TaxiAssumption
  <2>6. life[d] # "none"
    BY <2>2 DEF TargetForked
  <2>7. DriverWaits(d)
    BY <2>3 DEF Stopped
  <2> HIDE DEF d
  <2>8. life[d] = "dead" \/ drvFd[d] = "none" \/ (out[d] # <<>> /\ Len(cliQ) = QCAP)
    BY <2>1, <2>4, <2>6, <2>7, TaxiAssumption DEF DriverWaits
  <2> QED
    BY <2>2, <2>5, <2>8 DEF d
<1> QED
  BY <1>1, StopInvariant, PTL

\* A stop is a stop: no typing, no time and no process changes anything then,
\* only a kill or a restart does.
THEOREM StoppedForGoodTaxi == Spec => [][Stopped => ~Step]_vars
<1>1. RegInv => (Stopped => ~Step)
  <2> SUFFICES ASSUME RegInv, Stopped, Step PROVE FALSE
    OBVIOUS
  <2>1. line = 1
    BY DEF RegInv, TypeOK, Stopped
  <2>2. cliOut # <<>> /\ Len(drvQ[cliOut[1].to]) >= QCAP /\ cliOut[1].to \in Driver
    <3>1. cliOut # <<>> /\ Len(drvQ[cliOut[1].to]) >= QCAP
      BY <2>1 DEF Stopped, CliWaits
    <3> QED
      BY <3>1, TargetType DEF RegInv
  <2>3. /\ Len(drvQ[cliOut[1].to]) \in Nat /\ Len(cliQ) \in Nat
    BY <2>2 DEF RegInv, TypeOK
  <2>4. ~TypeLine /\ ~Tick
    BY <2>1 DEF Stopped, TypeLine, Tick
  <2>5. ~CliSend
    BY <2>2, <2>3, TaxiAssumption DEF CliSend
  <2>6. ~CliStep
    BY <2>2, <2>5
    DEF CliStep, EpollWait, Register, StatusUpdate, BusyResp, Drained, FgetsFails, OtherCommand,
        CreateDriver, SendTask, Command, Receives, At
  <2>7. ASSUME NEW d \in Driver PROVE ~DriverStep(d)
    <3>1. DriverWaits(d)
      BY DEF Stopped
    <3> QED
      BY <2>3, <3>1, TaxiAssumption
      DEF DriverWaits, DriverStep, DriverSend, DriverWake, NothingQueued, TakeTask, AcceptTask,
          RefuseTask, TimerExpires, Expired, Running
  <2> QED
    BY <2>4, <2>6, <2>7 DEF Step
<1> QED
  BY <1>1, StopInvariant, PTL
=============================================================================
