--------------------------- MODULE ProgramsProofs ---------------------------
(***************************************************************************)
(* The programs with a small state, each for every value of its constants  *)
(* and any number of starts: the LED module, the character device, the     *)
(* two chats, the checksum, the minimum and maximum in shared memory, the  *)
(* phone book, the raw UDP echo server and its clients, and the contact    *)
(* tree.                                                                   *)
(***************************************************************************)
EXTENDS LedTimer, CharDevice, SharedMinMax, PhoneBook, PosixChat, Csum, RawEcho, ContactTree,
        SysvChat, FiniteSetTheorems, SequenceTheorems, WellFoundedInduction, TLAPS

(***************************************************************************)
(* LedTimer: the module unloads cleanly unless del_timer meets a running   *)
(* callback, for every set of masks and any number of loads.               *)
(***************************************************************************)
\* CleanUnload says nothing of the time between del_timer and kobject_put; a
\* timer armed there would outlive the module.
LedInv ==
    ~raced =>
        /\ ~stale
        /\ led \in {"restore", "put", "absent"} => my_timer = "idle"
        /\ led \in {"put", "absent"} => leds = RESTORE_LEDS

\* The mask 255 is not one of the three LED bits: the ioctl of kbleds_cleanup
\* gives the keyboard its own flags back (lab3.c:70).
LEMMA RestoreShown == Shown(RESTORE_LEDS) = RESTORE_LEDS
  BY DEF Shown, RESTORE_LEDS

\* No step of the module, of its timer or of a store breaks LedInv (lab3.c:27-100).
LEMMA LedStep == LedInv /\ [LedNext]_ledVars => LedInv'
<1> SUFFICES ASSUME LedInv, [LedNext]_ledVars
             PROVE  LedInv'
  OBVIOUS
<1>1. CASE LedLoad
  BY <1>1 DEF LedLoad, KbledsInit, LedInv
<1>2. CASE LedLoadFails
  BY <1>2 DEF LedLoadFails, LedInv
<1>3. CASE LedUnload
  BY <1>3 DEF LedUnload, LedInv
<1>4. CASE DelTimer
  <2>1. ~raced' => ~raced /\ my_timer' = "idle"
    BY <1>4 DEF DelTimer
  <2> QED
    BY <1>4, <2>1 DEF DelTimer, LedInv
<1>5. CASE RestoreLeds
  BY <1>5, RestoreShown DEF RestoreLeds, LedInv
<1>6. CASE KobjectPut
  BY <1>6 DEF KobjectPut, LedInv
<1>7. CASE FooStore
  BY <1>7 DEF FooStore, LedInv
<1>8. CASE Fires
  BY <1>8 DEF Fires, LedInv
<1>9. CASE SetStatus
  BY <1>9 DEF SetStatus, LedInv
<1>10. CASE SetLeds
  BY <1>10 DEF SetLeds, LedInv
<1>11. CASE AddTimer
  BY <1>11 DEF AddTimer, LedInv
<1>12. CASE LedOops
  BY <1>12 DEF LedOops, LedInv
<1>13. CASE UNCHANGED ledVars
  BY <1>13 DEF ledVars, LedInv
<1> QED
  BY <1>1, <1>2, <1>3, <1>4, <1>5, <1>6, <1>7, <1>8, <1>9, <1>10, <1>11, <1>12, <1>13
  DEF LedNext

\* Whatever the masks and however often the module is loaded: without a race
\* between del_timer and the callback no timer is left behind, and the LEDs are
\* the keyboard's again (lab3.c:67-71, 96-100).
THEOREM UnloadsCleanly == LedSpec => []CleanUnload
<1>1. LedInit => LedInv
  BY DEF LedInit, LedInv
<1>2. LedInv => CleanUnload
  BY DEF LedInv, CleanUnload
<1> QED
  BY <1>1, <1>2, LedStep, PTL DEF LedSpec

-----------------------------------------------------------------------------
(***************************************************************************)
(* CharDevice: an open of the device that was counted is whole, for any    *)
(* number of processes, any length of the message and any number of loads. *)
(***************************************************************************)
Place == {"none", "opening", "claimed", "open", "releasing", "returning", "dangling"}

DevType ==
    /\ chardev \in {"absent", "live", "going", "oops"}
    /\ refcnt \in Nat /\ already_open \in {0, 1} /\ counter \in Nat /\ msg \in Nat
    /\ file \in [Opener -> Place]
    /\ held \in [Opener -> BOOLEAN]
    /\ mine \in [Opener -> Nat]
    /\ offset \in [Opener -> 0 .. MSG_LEN]
    /\ got \in [Opener -> Seq(Nat \X Nat)]

\* The processes whose open file owns msg.
Owner == {p \in Opener : file[p] \in {"claimed", "open"}}

\* The flag has one owner, and none when it is clear.
Exclusive ==
    /\ \A p, q \in Owner : p = q
    /\ Owner # {} => already_open = 1

\* A module that is gone has left only dangling files.
Gone == chardev = "absent" => \A p \in Opener : file[p] \in {"none", "dangling"}

Holders == {p \in Opener : held[p] = TRUE}

\* The files that took a reference, which is all of them until rmmod begins, are
\* what refcnt counts.
Counted ==
    /\ \A p \in Holders : file[p] \in {"open", "releasing"} /\ chardev \in {"live", "oops"}
    /\ chardev = "live" => \A p \in Opener : file[p] \in {"open", "releasing"} => p \in Holders
    /\ chardev = "live" => refcnt = Cardinality(Holders)

\* An open file has read a beginning of the message device_open wrote for it.
Whole ==
    \A p \in Opener : file[p] = "open" =>
        /\ mine[p] = msg
        /\ got[p] = [i \in 1 .. offset[p] |-> <<mine[p], i>>]

DevInv == DevType /\ Exclusive /\ Gone /\ Counted /\ Whole

-----------------------------------------------------------------------------
\* device_read appends what follows (lab4.c:87-94).
LEMMA Extended ==
    ASSUME NEW m \in Nat, NEW k \in Nat, NEW n \in Nat
    PROVE  [i \in 1 .. k |-> <<m, i>>] \o [i \in 1 .. n |-> <<m, k + i>>]
             = [i \in 1 .. k + n |-> <<m, i>>]
<1> DEFINE a == [i \in 1 .. k |-> <<m, i>>]
           b == [i \in 1 .. n |-> <<m, k + i>>]
           c == [i \in 1 .. k + n |-> <<m, i>>]
<1>1. a \in Seq(Nat \X Nat) /\ Len(a) = k
  OBVIOUS
<1>2. b \in Seq(Nat \X Nat) /\ Len(b) = n
  OBVIOUS
<1>3. c \in Seq(Nat \X Nat) /\ Len(c) = k + n
  OBVIOUS
<1>4. a \o b \in Seq(Nat \X Nat) /\ Len(a \o b) = k + n
  BY <1>1, <1>2
<1>5. ASSUME NEW i \in 1 .. k + n PROVE (a \o b)[i] = c[i]
  <2>1. CASE i <= k
    BY <2>1, <1>1, <1>2
  <2>2. CASE i > k
    <3>1. (a \o b)[i] = b[i - k]
      BY <2>2, <1>1, <1>2
    <3>2. b[i - k] = <<m, k + (i - k)>>
      BY <2>2
    <3> QED BY <3>1, <3>2
  <2> QED BY <2>1, <2>2
<1>6. a \o b = c
  <2> HIDE DEF a, b, c
  <2> QED BY <1>3, <1>4, <1>5, SeqEqual
<1> QED BY <1>6

\* The types are kept by every step.
LEMMA DevTypeStep == DevType /\ [DevNext]_devVars => DevType'
<1> SUFFICES ASSUME DevType, [DevNext]_devVars
             PROVE  DevType'
  OBVIOUS
<1> USE CharDeviceAssumption DEF DevType, Place
<1>1. CASE DevLoad
  BY <1>1 DEF DevLoad
<1>2. CASE DevUnload
  BY <1>2 DEF DevUnload
<1>3. CASE ChardevExit
  BY <1>3 DEF ChardevExit
<1>4. ASSUME NEW p \in Opener, Lookup(p) PROVE DevType'
  BY <1>4 DEF Lookup
<1>5. ASSUME NEW p \in Opener, Claim(p) PROVE DevType'
  BY <1>5 DEF Claim
<1>6. ASSUME NEW p \in Opener, Busy(p) PROVE DevType'
  BY <1>6 DEF Busy
<1>7. ASSUME NEW p \in Opener, Tell(p) PROVE DevType'
  BY <1>7 DEF Tell
<1>8. ASSUME NEW p \in Opener, NEW n \in 1 .. MSG_LEN, DeviceRead(p, n) PROVE DevType'
  <2>1. [i \in 1 .. n |-> <<msg, offset[p] + i>>] \in Seq(Nat \X Nat)
    OBVIOUS
  <2>2. got[p] \o [i \in 1 .. n |-> <<msg, offset[p] + i>>] \in Seq(Nat \X Nat)
    BY <2>1
  <2>3. offset[p] + n \in 0 .. MSG_LEN
    BY <1>8 DEF DeviceRead
  <2> QED BY <1>8, <2>2, <2>3 DEF DeviceRead
<1>9. ASSUME NEW p \in Opener, ReadEnd(p) PROVE DevType'
  BY <1>9 DEF ReadEnd
<1>10. ASSUME NEW p \in Opener, Release(p) PROVE DevType'
  BY <1>10 DEF Release
<1>11. ASSUME NEW p \in Opener, ModulePut(p) PROVE DevType'
  BY <1>11 DEF ModulePut
<1>12. ASSUME NEW p \in Opener, Return(p) PROVE DevType'
  BY <1>12 DEF Return
<1>13. ASSUME NEW p \in Opener, DevOops(p) PROVE DevType'
  BY <1>13 DEF DevOops
<1>14. CASE UNCHANGED devVars
  BY <1>14 DEF devVars
<1> QED
  BY <1>1, <1>2, <1>3, <1>4, <1>5, <1>6, <1>7, <1>8, <1>9, <1>10, <1>11, <1>12, <1>13, <1>14
  DEF DevNext, DevStep

-----------------------------------------------------------------------------
\* atomic_cmpxchg gives the flag to one process at a time, and only its owner
\* clears it (lab4.c:61, 71).
LEMMA ExclusiveStep == DevInv /\ [DevNext]_devVars => Exclusive'
<1> SUFFICES ASSUME DevInv, [DevNext]_devVars
             PROVE  Exclusive'
  OBVIOUS
<1> USE DEF DevInv, DevType, Exclusive, Owner, At, Present
<1>1. CASE DevLoad
  BY <1>1 DEF DevLoad, Gone
<1>2. CASE DevUnload
  BY <1>2 DEF DevUnload
<1>3. CASE ChardevExit
  BY <1>3 DEF ChardevExit
<1>4. ASSUME NEW p \in Opener, Lookup(p) PROVE Exclusive'
  BY <1>4 DEF Lookup
<1>5. ASSUME NEW p \in Opener, Claim(p) PROVE Exclusive'
  BY <1>5 DEF Claim
<1>6. ASSUME NEW p \in Opener, Busy(p) PROVE Exclusive'
  BY <1>6 DEF Busy
<1>7. ASSUME NEW p \in Opener, Tell(p) PROVE Exclusive'
  BY <1>7 DEF Tell
<1>8. ASSUME NEW p \in Opener, NEW n \in 1 .. MSG_LEN, DeviceRead(p, n) PROVE Exclusive'
  BY <1>8 DEF DeviceRead
<1>9. ASSUME NEW p \in Opener, ReadEnd(p) PROVE Exclusive'
  BY <1>9 DEF ReadEnd
<1>10. ASSUME NEW p \in Opener, Release(p) PROVE Exclusive'
  BY <1>10 DEF Release
<1>11. ASSUME NEW p \in Opener, ModulePut(p) PROVE Exclusive'
  BY <1>11 DEF ModulePut
<1>12. ASSUME NEW p \in Opener, Return(p) PROVE Exclusive'
  BY <1>12 DEF Return
<1>13. ASSUME NEW p \in Opener, DevOops(p) PROVE Exclusive'
  BY <1>13 DEF DevOops
<1>14. CASE UNCHANGED devVars
  BY <1>14 DEF devVars
<1> QED
  BY <1>1, <1>2, <1>3, <1>4, <1>5, <1>6, <1>7, <1>8, <1>9, <1>10, <1>11, <1>12, <1>13, <1>14
  DEF DevNext, DevStep

\* chardev_exit leaves no process inside the module's functions (lab4.c:51-56).
LEMMA GoneStep == DevInv /\ [DevNext]_devVars => Gone'
<1> SUFFICES ASSUME DevInv, [DevNext]_devVars
             PROVE  Gone'
  OBVIOUS
<1> USE DEF DevInv, DevType, Gone, At, Present
<1>1. CASE DevLoad
  BY <1>1 DEF DevLoad
<1>2. CASE DevUnload
  BY <1>2 DEF DevUnload
<1>3. CASE ChardevExit
  BY <1>3 DEF ChardevExit
<1>4. ASSUME NEW p \in Opener, DevStep(p) PROVE Gone'
  BY <1>4 DEF DevStep, Lookup, Claim, Busy, Tell, DeviceRead, ReadEnd, Release, ModulePut,
              Return, DevOops
<1>5. CASE UNCHANGED devVars
  BY <1>5 DEF devVars
<1> QED BY <1>1, <1>2, <1>3, <1>4, <1>5 DEF DevNext

\* A message is written by the only owner, and what it reads grows from the front
\* (lab4.c:64, 77-96).
LEMMA WholeStep == DevInv /\ [DevNext]_devVars => Whole'
<1> SUFFICES ASSUME DevInv, [DevNext]_devVars
             PROVE  Whole'
  OBVIOUS
<1> USE DEF DevInv, DevType, Whole, At, Present
<1>1. CASE DevLoad
  BY <1>1 DEF DevLoad, Gone
<1>2. CASE DevUnload
  BY <1>2 DEF DevUnload
<1>3. CASE ChardevExit
  BY <1>3 DEF ChardevExit
<1>4. ASSUME NEW p \in Opener, Lookup(p) PROVE Whole'
  BY <1>4 DEF Lookup
<1>5. ASSUME NEW p \in Opener, Claim(p) PROVE Whole'
  BY <1>5 DEF Claim
<1>6. ASSUME NEW p \in Opener, Busy(p) PROVE Whole'
  BY <1>6 DEF Busy
<1>7. ASSUME NEW p \in Opener, Tell(p) PROVE Whole'
  <2> SUFFICES ASSUME NEW q \in Opener, file'[q] = "open"
               PROVE  /\ mine'[q] = msg'
                      /\ got'[q] = [i \in 1 .. offset'[q] |-> <<mine'[q], i>>]
    OBVIOUS
  <2>1. q = p
    BY <1>7 DEF Tell, Exclusive, Owner
  <2>2. mine'[p] = msg' /\ offset'[p] = 0 /\ got'[p] = <<>>
    BY <1>7 DEF Tell
  <2>3. <<>> = [i \in 1 .. 0 |-> <<mine'[p], i>>]
    OBVIOUS
  <2> QED BY <2>1, <2>2, <2>3
<1>8. ASSUME NEW p \in Opener, NEW n \in 1 .. MSG_LEN, DeviceRead(p, n) PROVE Whole'
  <2> SUFFICES ASSUME NEW q \in Opener, file'[q] = "open"
               PROVE  /\ mine'[q] = msg'
                      /\ got'[q] = [i \in 1 .. offset'[q] |-> <<mine'[q], i>>]
    OBVIOUS
  <2>1. CASE q = p
    <3>1. got'[p] = got[p] \o [i \in 1 .. n |-> <<msg, offset[p] + i>>]
      BY <1>8 DEF DeviceRead
    <3>2. got[p] = [i \in 1 .. offset[p] |-> <<msg, i>>] /\ mine[p] = msg
      BY <1>8 DEF DeviceRead
    <3>3. offset[p] \in Nat /\ n \in Nat /\ msg \in Nat
      BY CharDeviceAssumption
    <3>4. got'[p] = [i \in 1 .. offset[p] + n |-> <<msg, i>>]
      <4>1. [i \in 1 .. offset[p] |-> <<msg, i>>] \o [i \in 1 .. n |-> <<msg, offset[p] + i>>]
              = [i \in 1 .. offset[p] + n |-> <<msg, i>>]
        <5> HIDE DEF DevInv, DevType, Whole
        <5> QED BY <3>3, Extended, Zenon
      <4> QED BY <3>1, <3>2, <4>1, Zenon
    <3>5. offset'[p] = offset[p] + n /\ mine'[p] = msg /\ msg' = msg
      BY <1>8, <3>2 DEF DeviceRead
    <3> HIDE DEF DevInv, DevType, Whole
    <3> QED BY <2>1, <3>4, <3>5
  <2>2. CASE q # p
    <3>1. file[q] = "open"
      BY <1>8 DEF DeviceRead
    <3>2. mine'[q] = mine[q] /\ msg' = msg /\ offset'[q] = offset[q] /\ got'[q] = got[q]
      BY <1>8, <2>2 DEF DeviceRead
    <3> QED BY <3>1, <3>2
  <2> QED BY <2>1, <2>2
<1>9. ASSUME NEW p \in Opener, ReadEnd(p) PROVE Whole'
  <2> SUFFICES ASSUME NEW q \in Opener, file'[q] = "open"
               PROVE  /\ mine'[q] = msg'
                      /\ got'[q] = [i \in 1 .. offset'[q] |-> <<mine'[q], i>>]
    OBVIOUS
  <2>1. CASE q = p
    <3>1. mine'[p] = msg' /\ offset'[p] = 0 /\ got'[p] = <<>>
      BY <1>9 DEF ReadEnd
    <3>2. <<>> = [i \in 1 .. 0 |-> <<mine'[p], i>>]
      OBVIOUS
    <3> QED BY <2>1, <3>1, <3>2
  <2>2. CASE q # p
    BY <1>9, <2>2 DEF ReadEnd
  <2> QED BY <2>1, <2>2
<1>10. ASSUME NEW p \in Opener, Release(p) PROVE Whole'
  BY <1>10 DEF Release
<1>11. ASSUME NEW p \in Opener, ModulePut(p) PROVE Whole'
  BY <1>11 DEF ModulePut
<1>12. ASSUME NEW p \in Opener, Return(p) PROVE Whole'
  BY <1>12 DEF Return
<1>13. ASSUME NEW p \in Opener, DevOops(p) PROVE Whole'
  BY <1>13 DEF DevOops
<1>14. CASE UNCHANGED devVars
  BY <1>14 DEF devVars
<1> QED
  BY <1>1, <1>2, <1>3, <1>4, <1>5, <1>6, <1>7, <1>8, <1>9, <1>10, <1>11, <1>12, <1>13, <1>14
  DEF DevNext, DevStep

-----------------------------------------------------------------------------
\* One more and one fewer holder.
LEMMA HoldersFinite == IsFiniteSet(Holders) /\ Cardinality(Holders) \in Nat
<1>1. Holders \in SUBSET Opener
  BY DEF Holders
<1>2. IsFiniteSet(Holders)
  BY <1>1, CharDeviceAssumption, FS_Subset
<1> QED BY <1>2, FS_CardinalityType

\* try_module_get and module_put keep refcnt equal to the number of holders, and
\* rmmod begins only when there are none (lab4.c:65, 73).
LEMMA CountedStep == DevInv /\ [DevNext]_devVars => Counted'
<1> SUFFICES ASSUME DevInv, [DevNext]_devVars
             PROVE  Counted'
  OBVIOUS
<1> USE DEF DevInv, DevType, Counted, At, Present
<1>0. ASSUME UNCHANGED <<held, refcnt, chardev>>,
             \A q \in Opener : file'[q] \in {"open", "releasing"} <=> file[q] \in {"open", "releasing"}
      PROVE  Counted'
  <2>1. Holders' = Holders
    BY <1>0 DEF Holders
  <2>2. Holders \subseteq Opener
    BY DEF Holders
  <2> QED BY <1>0, <2>1, <2>2
<1>1. CASE DevLoad
  <2>1. Holders = {} /\ Holders' = {}
    BY <1>1 DEF DevLoad, Holders
  <2>2. \A p \in Opener : file'[p] \notin {"open", "releasing"}
    BY <1>1 DEF DevLoad, Gone
  <2>3. refcnt' = Cardinality(Holders')
    BY <1>1, <2>1, FS_EmptySet DEF DevLoad
  <2> QED BY <2>1, <2>2, <2>3
<1>2. CASE DevUnload
  <2>1. Holders = {}
    BY <1>2, HoldersFinite, FS_EmptySet DEF DevUnload
  <2>2. Holders' = {} /\ chardev' = "going"
    BY <1>2, <2>1 DEF DevUnload, Holders
  <2> QED BY <2>2
<1>3. CASE ChardevExit
  <2>1. Holders' = {} /\ chardev' = "absent"
    BY <1>3 DEF ChardevExit, Holders
  <2> QED BY <2>1
<1>4. ASSUME NEW p \in Opener, Lookup(p) PROVE Counted'
  BY <1>0, <1>4 DEF Lookup
<1>5. ASSUME NEW p \in Opener, Claim(p) PROVE Counted'
  BY <1>0, <1>5 DEF Claim
<1>6. ASSUME NEW p \in Opener, Busy(p) PROVE Counted'
  BY <1>0, <1>6 DEF Busy
<1>7. ASSUME NEW p \in Opener, Tell(p) PROVE Counted'
  <2>0. p \notin Holders
    BY <1>7 DEF Tell
  <2>1. CASE chardev = "live"
    <3>1. Holders' = Holders \cup {p}
      BY <1>7, <2>1 DEF Tell, Holders
    <3>2. refcnt' = Cardinality(Holders')
      BY <1>7, <2>0, <2>1, <3>1, HoldersFinite, FS_AddElement DEF Tell
    <3>3. chardev' = "live" /\ file' = [file EXCEPT ![p] = "open"]
      BY <1>7, <2>1 DEF Tell
    <3> QED BY <2>1, <3>1, <3>2, <3>3
  <2>2. CASE chardev # "live"
    <3>1. chardev' = "going" /\ Holders = {}
      BY <1>7, <2>2 DEF Tell
    <3>2. Holders' = {}
      BY <1>7, <2>2, <3>1 DEF Tell, Holders
    <3> QED BY <3>1, <3>2
  <2> QED BY <2>1, <2>2
<1>8. ASSUME NEW p \in Opener, NEW n \in 1 .. MSG_LEN, DeviceRead(p, n) PROVE Counted'
  BY <1>0, <1>8 DEF DeviceRead
<1>9. ASSUME NEW p \in Opener, ReadEnd(p) PROVE Counted'
  BY <1>0, <1>9 DEF ReadEnd
<1>10. ASSUME NEW p \in Opener, Release(p) PROVE Counted'
  BY <1>0, <1>10 DEF Release
<1>11. ASSUME NEW p \in Opener, ModulePut(p) PROVE Counted'
  <2>1. Holders' = Holders \ {p}
    BY <1>11 DEF ModulePut, Holders
  <2>2. CASE chardev = "live"
    <3>1. p \in Holders
      BY <1>11, <2>2 DEF ModulePut
    <3>2. Cardinality(Holders) # 0
      BY <3>1, HoldersFinite, FS_EmptySet
    <3>3. Cardinality(Holders') = Cardinality(Holders) - 1
      BY <2>1, <3>1, HoldersFinite, FS_RemoveElement
    <3>4. refcnt' = Cardinality(Holders')
      BY <1>11, <2>2, <3>2, <3>3, HoldersFinite DEF ModulePut
    <3>5. chardev' = "live" /\ file' = [file EXCEPT ![p] = "returning"]
      BY <1>11, <2>2 DEF ModulePut
    <3>6. Holders \subseteq Opener
      BY DEF Holders
    <3> QED BY <2>1, <2>2, <3>4, <3>5, <3>6
  <2>3. CASE chardev # "live"
    <3>1. chardev' = "going" /\ Holders = {}
      BY <1>11, <2>3 DEF ModulePut
    <3> QED BY <2>1, <3>1
  <2> QED BY <2>2, <2>3
<1>12. ASSUME NEW p \in Opener, Return(p) PROVE Counted'
  BY <1>0, <1>12 DEF Return
<1>13. ASSUME NEW p \in Opener, DevOops(p) PROVE Counted'
  <2>1. Holders' = Holders /\ chardev' = "oops" /\ file' = file
    BY <1>13 DEF DevOops, Holders
  <2> QED BY <2>1
<1>14. CASE UNCHANGED devVars
  BY <1>0, <1>14 DEF devVars
<1> QED
  BY <1>1, <1>2, <1>3, <1>4, <1>5, <1>6, <1>7, <1>8, <1>9, <1>10, <1>11, <1>12, <1>13, <1>14
  DEF DevNext, DevStep

-----------------------------------------------------------------------------
\* For any number of processes, any length of the message and any sequence of
\* loads: a counted open keeps the module, and reads its own message only
\* (lab4.c:58-96).
THEOREM SessionsIntact == DevSpec => []SessionIntact
<1>1. DevInit => DevInv
  <2> SUFFICES ASSUME DevInit PROVE DevInv
    OBVIOUS
  <2>1. DevType
    BY CharDeviceAssumption DEF DevInit, DevType, Place
  <2>2. Exclusive /\ Gone /\ Counted /\ Whole
    BY DEF DevInit, Exclusive, Owner, Gone, Counted, Holders, Whole
  <2> QED BY <2>1, <2>2 DEF DevInv
<1>2. DevInv /\ [DevNext]_devVars => DevInv'
  BY DevTypeStep, ExclusiveStep, GoneStep, CountedStep, WholeStep DEF DevInv
<1>3. DevInv => SessionIntact
  BY DEF DevInv, DevType, Counted, Holders, Whole, SessionIntact
<1> QED
  BY <1>1, <1>2, <1>3, PTL DEF DevSpec

-----------------------------------------------------------------------------
(***************************************************************************)
(* PosixChat: one turn per start of prog1 on each queue, for any number of *)
(* starts.                                                                 *)
(***************************************************************************)
ChatText == {"indeterminate", "line", "exit", "/exit", "Chat ended."}

Message == [prio : Nat, text : ChatText]

PosixType ==
    /\ mq \in [Queue -> Seq(Message)] /\ opened \in [Queue -> Nat]
    /\ chat_queue \in Queue \cup {0}
    /\ prog \in [1 .. 2 -> {"off", "open", "receive", "fgets"}]
    /\ mqd \in [1 .. 2 -> Queue \cup {0}]
    /\ \A p \in 1 .. 2 : prog[p] # "off" => mqd[p] \in Queue
    /\ buffer \in [1 .. 2 -> ChatText]
    /\ runs \in [1 .. 2 -> Nat]

\* The turn of p on queue q, as a number.
Turn(p, q) == IF prog[p] \in {"open", "fgets"} /\ mqd[p] = q THEN 1 ELSE 0

Turns == \A q \in Queue : Len(mq[q]) + Turn(1, q) + Turn(2, q) <= opened[q]

PosixInv == PosixType /\ Turns

-----------------------------------------------------------------------------
\* Two users are all there are at a prompt.
LEMMA TalkingCount ==
    ASSUME NEW q
    PROVE  Cardinality(Talking(q)) = Turn(1, q) + Turn(2, q)
<1>1. Cardinality({}) = 0 /\ IsFiniteSet({})
  BY FS_EmptySet
<1>2. Cardinality({1}) = 1 /\ IsFiniteSet({1})
  BY FS_Singleton
<1>3. Cardinality({2}) = 1
  BY FS_Singleton
<1>4. Cardinality({1} \cup {2}) = 2
  BY <1>2, FS_AddElement
<1>5. CASE Turn(1, q) = 0 /\ Turn(2, q) = 0
  <2>1. Talking(q) = {}
    BY <1>5 DEF Turn, Talking
  <2> QED BY <1>1, <1>5, <2>1
<1>6. CASE Turn(1, q) = 1 /\ Turn(2, q) = 0
  <2>1. Talking(q) = {1}
    BY <1>6 DEF Turn, Talking
  <2> QED BY <1>2, <1>6, <2>1
<1>7. CASE Turn(1, q) = 0 /\ Turn(2, q) = 1
  <2>1. Talking(q) = {2}
    BY <1>7 DEF Turn, Talking
  <2> QED BY <1>3, <1>7, <2>1
<1>8. CASE Turn(1, q) = 1 /\ Turn(2, q) = 1
  <2>1. Talking(q) = {1} \cup {2}
    BY <1>8 DEF Turn, Talking
  <2> QED BY <1>4, <1>8, <2>1
<1> QED BY <1>5, <1>6, <1>7, <1>8 DEF Turn

\* mq_send adds one message to its queue, wherever its priority puts it
\* (prog1.c:28, 51, prog2.c:37, 43).
LEMMA SendAdds ==
    ASSUME PosixType, NEW q \in Queue, NEW prio \in Nat, NEW line \in ChatText,
           MqSend(q, prio, line)
    PROVE  /\ mq' \in [Queue -> Seq(Message)]
           /\ \A r \in Queue : Len(mq'[r]) = IF r = q THEN Len(mq[r]) + 1 ELSE Len(mq[r])
<1> DEFINE s == mq[q]  m == [prio |-> prio, text |-> line]
<1>1. s \in Seq(Message) /\ m \in Message
  BY DEF PosixType, Message
<1>2. PICK k \in 0 .. Len(s) :
        mq' = [mq EXCEPT ![q] = SubSeq(s, 1, k) \o <<m>> \o SubSeq(s, k + 1, Len(s))]
  BY DEF MqSend
<1> HIDE DEF s, m
<1>3. /\ SubSeq(s, 1, k) \in Seq(Message) /\ Len(SubSeq(s, 1, k)) = k
      /\ SubSeq(s, k + 1, Len(s)) \in Seq(Message)
      /\ Len(SubSeq(s, k + 1, Len(s))) = Len(s) - k
  BY <1>1
<1> DEFINE front == SubSeq(s, 1, k)
           back  == SubSeq(s, k + 1, Len(s))
           t     == front \o <<m>> \o back
<1>4. t \in Seq(Message) /\ Len(t) = Len(s) + 1
  <2>1. front \in Seq(Message) /\ Len(front) = k
    BY <1>3
  <2>2. back \in Seq(Message) /\ Len(back) = Len(s) - k
    BY <1>3
  <2>3. Len(s) \in Nat /\ k \in Nat
    BY <1>1
  <2> HIDE DEF front, back
  <2>4. front \o <<m>> \in Seq(Message) /\ Len(front \o <<m>>) = k + 1
    BY <1>1, <2>1
  <2> QED BY <2>2, <2>3, <2>4
<1> HIDE DEF t
<1>5. mq' = [mq EXCEPT ![q] = t]
  BY <1>2 DEF t
<1> QED BY <1>4, <1>5 DEF PosixType, s

\* mq_receive takes one message from its queue (prog1.c:33, prog2.c:21).
LEMMA TakeRemoves ==
    ASSUME PosixType, NEW p \in 1 .. 2, CanTake(p), Taken(p)
    PROVE  /\ mq' \in [Queue -> Seq(Message)] /\ Received(p) \in Message
           /\ \A r \in Queue : Len(mq'[r]) = IF r = mqd[p] THEN Len(mq[r]) - 1 ELSE Len(mq[r])
<1> DEFINE s == mq[mqd[p]]
<1>1. mqd[p] \in Queue /\ s \in Seq(Message) /\ s # <<>>
  BY DEF PosixType, CanTake
<1> HIDE DEF s
<1>2. Tail(s) \in Seq(Message) /\ Len(Tail(s)) = Len(s) - 1 /\ Head(s) \in Message
  BY <1>1
<1> QED BY <1>1, <1>2 DEF PosixType, Taken, Received, s

-----------------------------------------------------------------------------
\* Types and turns are kept by every step: a line is sent by giving up the turn,
\* a turn is taken with a line, and only a start of prog1 adds one
\* (prog1.c:17-55, prog2.c:20-47).
LEMMA PosixStep == PosixInv /\ [PosixNext]_posixVars => PosixInv'
<1> SUFFICES ASSUME PosixType, Turns, [PosixNext]_posixVars
             PROVE  PosixType' /\ Turns'
  BY DEF PosixInv
<1>0. \A q \in Queue : Len(mq[q]) \in Nat /\ opened[q] \in Nat
  BY DEF PosixType
<1>a. \A q \in Queue : Turn(1, q) \in {0, 1} /\ Turn(2, q) \in {0, 1}
  BY DEF Turn
<1>b. \A q \in Queue : Turn(1, q)' \in {0, 1} /\ Turn(2, q)' \in {0, 1}
  BY DEF Turn
<1>c. 1 \in 1 .. 2 /\ 2 \in 1 .. 2 /\ 1 \in Nat /\ 255 \in Nat
  OBVIOUS
<1>d. /\ "receive" \in {"receive", "off"} /\ "off" \in {"receive", "off"}
      /\ chat_queue \in {0, chat_queue}
  OBVIOUS
<1>e. "indeterminate" \in ChatText /\ "Chat ended." \in ChatText
  BY DEF ChatText
<1>f. ASSUME NEW p \in 1 .. 2 PROVE buffer[p] \in ChatText /\ Typed(p) \subseteq ChatText
  <2>1. buffer[p] \in ChatText
    BY DEF PosixType
  <2> QED BY <2>1 DEF Typed, ChatText
<1>1. CASE OpenProg1
  <2>1. chat_queue' \in Queue
    <3>1. /\ chat_queue \in Queue \cup {0} /\ runs[1] \in Nat /\ runs[1] < MaxRuns
          /\ chat_queue' = IF chat_queue = 0 THEN runs[1] + 1 ELSE chat_queue
      BY <1>1 DEF OpenProg1, PosixType
    <3> QED
      BY <3>1, PosixChatAssumption DEF Queue
  <2>2. PosixType'
    <3>1. UNCHANGED mq /\ opened' \in [Queue -> Nat] /\ runs' \in [1 .. 2 -> Nat]
      BY <1>1, <2>1 DEF OpenProg1, PosixType
    <3>2. prog' \in [1 .. 2 -> {"off", "open", "receive", "fgets"}]
      BY <1>1 DEF OpenProg1, PosixType
    <3>3. mqd' \in [1 .. 2 -> Queue \cup {0}] /\ mqd'[1] \in Queue
      BY <1>1, <2>1 DEF OpenProg1, PosixType
    <3>4. prog'[2] = prog[2] /\ mqd'[2] = mqd[2]
      BY <1>1 DEF OpenProg1, PosixType
    <3>5. buffer' \in [1 .. 2 -> ChatText]
      BY <1>1, <1>e DEF OpenProg1, PosixType
    <3>6. \A p \in 1 .. 2 : prog'[p] # "off" => mqd'[p] \in Queue
      BY <3>3, <3>4 DEF PosixType
    <3> QED BY <2>1, <3>1, <3>2, <3>3, <3>5, <3>6 DEF PosixType
  <2>3. \A q \in Queue : Turn(1, q)' = (IF q = chat_queue' THEN 1 ELSE 0) /\ Turn(1, q) = 0
    BY <1>1, <2>1 DEF OpenProg1, PosixType, Turn
  <2>4. \A q \in Queue : Turn(2, q)' = Turn(2, q)
    BY <1>1 DEF OpenProg1, PosixType, Turn
  <2>5. \A q \in Queue : opened'[q] = IF q = chat_queue' THEN opened[q] + 1 ELSE opened[q]
    BY <1>1, <2>1 DEF OpenProg1, PosixType
  <2>6. mq' = mq
    BY <1>1 DEF OpenProg1
  <2>7. Turns'
    BY <1>0, <1>a, <2>3, <2>4, <2>5, <2>6 DEF Turns
  <2> QED BY <2>2, <2>7
<1>2. ASSUME NEW p \in 1 .. 2, UNCHANGED <<mq, opened>>,
             \A o \in 1 .. 2 : o # p => prog'[o] = prog[o] /\ mqd'[o] = mqd[o],
             prog'[p] \in {"receive", "off"}
      PROVE  Turns'
  <2>1. \A q \in Queue : Turn(p, q)' = 0
    BY <1>2 DEF Turn
  <2>2. \A q \in Queue : \A o \in 1 .. 2 : o # p => Turn(o, q)' = Turn(o, q)
    BY <1>2 DEF Turn
  <2>3. p = 1 \/ p = 2
    OBVIOUS
  <2>4. \A q \in Queue : Turn(1, q)' <= Turn(1, q) /\ Turn(2, q)' <= Turn(2, q)
    BY <1>a, <2>1, <2>2, <2>3
  <2>5. mq' = mq /\ opened' = opened
    BY <1>2
  <2> QED BY <1>0, <1>a, <1>b, <2>4, <2>5 DEF Turns
<1>3. CASE OpenProg2
  <2>1. PosixType'
    <3>1. UNCHANGED <<mq, opened, chat_queue>> /\ runs' \in [1 .. 2 -> Nat]
      BY <1>3 DEF OpenProg2, PosixType
    <3>2. prog' \in [1 .. 2 -> {"off", "open", "receive", "fgets"}]
      BY <1>3 DEF OpenProg2, PosixType
    <3>3. mqd' \in [1 .. 2 -> Queue \cup {0}] /\ mqd'[2] \in Queue
      BY <1>3 DEF OpenProg2, PosixType
    <3>4. prog'[1] = prog[1] /\ mqd'[1] = mqd[1]
      BY <1>3 DEF OpenProg2, PosixType
    <3>5. buffer' \in [1 .. 2 -> ChatText]
      BY <1>3, <1>e DEF OpenProg2, PosixType
    <3>6. \A p \in 1 .. 2 : prog'[p] # "off" => mqd'[p] \in Queue
      BY <3>3, <3>4 DEF PosixType
    <3> QED BY <3>1, <3>2, <3>3, <3>5, <3>6 DEF PosixType
  <2>2. prog'[2] = "receive" /\ prog'[1] = prog[1] /\ mqd'[1] = mqd[1]
    BY <1>3 DEF OpenProg2, PosixType
  <2>3. UNCHANGED <<mq, opened>>
    BY <1>3 DEF OpenProg2
  <2> QED BY <1>2, <2>1, <2>2, <2>3
<1>4. CASE FirstSendFails
  <2>1. PosixType'
    BY <1>4 DEF FirstSendFails, PosixType
  <2>2. prog'[1] = "receive" /\ prog'[2] = prog[2] /\ mqd' = mqd
    BY <1>4 DEF FirstSendFails, PosixType
  <2>3. UNCHANGED <<mq, opened>>
    BY <1>4 DEF FirstSendFails
  <2> QED BY <1>2, <2>1, <2>2, <2>3
<1>5. ASSUME NEW p \in 1 .. 2, PosixKill(p) PROVE PosixType' /\ Turns'
  <2>1. PosixType'
    BY <1>5 DEF PosixKill, PosixType
  <2>2. prog'[p] = "off" /\ (\A o \in 1 .. 2 : o # p => prog'[o] = prog[o]) /\ mqd' = mqd
    BY <1>5 DEF PosixKill, PosixType
  <2>3. UNCHANGED <<mq, opened>>
    BY <1>5 DEF PosixKill
  <2> QED BY <1>2, <2>1, <2>2, <2>3
<1>6. ASSUME NEW p \in 1 .. 2, NEW prio \in Nat, NEW line \in ChatText, NEW b \in ChatText,
             NEW place \in {"receive", "off"},
             prog[p] \in {"open", "fgets"}, MqSend(mqd[p], prio, line),
             prog' = [prog EXCEPT ![p] = place], buffer' = [buffer EXCEPT ![p] = b],
             chat_queue' = chat_queue, mqd' = mqd, runs' = runs, opened' = opened
      PROVE  PosixType' /\ Turns'
  <2>1. mqd[p] \in Queue
    BY <1>6 DEF PosixType
  <2>2. /\ mq' \in [Queue -> Seq(Message)]
        /\ \A r \in Queue : Len(mq'[r]) = IF r = mqd[p] THEN Len(mq[r]) + 1 ELSE Len(mq[r])
    BY <1>6, <2>1, SendAdds
  <2>3. PosixType'
    BY <1>6, <2>2 DEF PosixType
  <2>4. \A q \in Queue : Turn(p, q) = (IF q = mqd[p] THEN 1 ELSE 0) /\ Turn(p, q)' = 0
    BY <1>6 DEF PosixType, Turn
  <2>5. \A q \in Queue : \A o \in 1 .. 2 : o # p => Turn(o, q)' = Turn(o, q)
    BY <1>6 DEF PosixType, Turn
  <2>6. Turns'
    <3>1. CASE p = 1
      BY <1>0, <1>a, <1>6, <2>2, <2>4, <2>5, <3>1 DEF Turns
    <3>2. CASE p = 2
      BY <1>0, <1>a, <1>6, <2>2, <2>4, <2>5, <3>2 DEF Turns
    <3> QED BY <3>1, <3>2
  <2> QED BY <2>3, <2>6
<1>7. CASE Talk1
  <2>1. PICK line \in Typed(1) : buffer' = [buffer EXCEPT ![1] = line] /\ MqSend(mqd[1], 1, line)
    BY <1>7 DEF Talk1
  <2>2. line \in ChatText
    BY <1>f
  <2>3. /\ prog[1] \in {"open", "fgets"} /\ prog' = [prog EXCEPT ![1] = "receive"]
        /\ chat_queue' = chat_queue /\ mqd' = mqd /\ runs' = runs /\ opened' = opened
    BY <1>7 DEF Talk1
  <2> QED BY <1>6, <1>c, <1>d, <2>1, <2>2, <2>3, Zenon
<1>8. CASE Talk2
  <2>1. PICK line \in Typed(2) : buffer' = [buffer EXCEPT ![2] = line] /\ MqSend(mqd[2], 1, line)
    BY <1>8 DEF Talk2
  <2>2. line \in ChatText
    BY <1>f
  <2>3. /\ prog[2] \in {"open", "fgets"} /\ prog' = [prog EXCEPT ![2] = "receive"]
        /\ chat_queue' = chat_queue /\ mqd' = mqd /\ runs' = runs /\ opened' = opened
    BY <1>8 DEF Talk2
  <2> QED BY <1>6, <1>c, <1>d, <2>1, <2>2, <2>3, Zenon
<1>9. CASE Exit2
  <2>1. buffer' = [buffer EXCEPT ![2] = buffer[2]]
    BY <1>9 DEF Exit2, PosixType
  <2>2. /\ prog[2] \in {"open", "fgets"} /\ prog' = [prog EXCEPT ![2] = "off"]
        /\ MqSend(mqd[2], 255, "Chat ended.")
        /\ chat_queue' = chat_queue /\ mqd' = mqd /\ runs' = runs /\ opened' = opened
    BY <1>9 DEF Exit2
  <2>3. buffer[2] \in ChatText
    BY <1>f
  <2>4. "Chat ended." \in ChatText
    BY <1>e
  <2> QED BY <1>6, <1>c, <1>d, <2>1, <2>2, <2>3, <2>4, ZenonT(40)
<1>10. ASSUME NEW p \in 1 .. 2, NEW place \in {"off", "fgets"}, CanTake(p), Taken(p),
             prog' = [prog EXCEPT ![p] = place],
             buffer' = [buffer EXCEPT ![p] = Received(p).text],
             chat_queue' \in {0, chat_queue}, mqd' = mqd, runs' = runs, opened' = opened
      PROVE  PosixType' /\ Turns'
  <2>1. /\ mq' \in [Queue -> Seq(Message)] /\ Received(p) \in Message
        /\ \A r \in Queue : Len(mq'[r]) = IF r = mqd[p] THEN Len(mq[r]) - 1 ELSE Len(mq[r])
    BY <1>10, TakeRemoves
  <2>2. Received(p).text \in ChatText
    BY <2>1 DEF Message
  <2>3. mqd[p] \in Queue
    BY <1>10 DEF CanTake, PosixType
  <2>4. PosixType'
    BY <1>10, <2>1, <2>2, <2>3 DEF PosixType
  <2>5. \A q \in Queue : Turn(p, q) = 0 /\ Turn(p, q)' <= IF q = mqd[p] THEN 1 ELSE 0
    BY <1>10 DEF CanTake, PosixType, Turn
  <2>6. \A q \in Queue : \A o \in 1 .. 2 : o # p => Turn(o, q)' = Turn(o, q)
    BY <1>10 DEF PosixType, Turn
  <2>7. Turns'
    <3> SUFFICES ASSUME NEW q \in Queue
                 PROVE  Len(mq'[q]) + Turn(1, q)' + Turn(2, q)' <= opened[q]
      BY <1>10 DEF Turns
    <3>1. /\ Len(mq[q]) + Turn(1, q) + Turn(2, q) <= opened[q]
          /\ Len(mq'[q]) = IF q = mqd[p] THEN Len(mq[q]) - 1 ELSE Len(mq[q])
          /\ Turn(p, q) = 0 /\ Turn(p, q)' <= IF q = mqd[p] THEN 1 ELSE 0
      BY <2>1, <2>5 DEF Turns
    <3>2. /\ Len(mq[q]) \in Nat /\ opened[q] \in Nat
          /\ Turn(1, q) \in {0, 1} /\ Turn(2, q) \in {0, 1}
          /\ Turn(1, q)' \in {0, 1} /\ Turn(2, q)' \in {0, 1}
      BY <1>0, <1>a, <1>b
    <3>3. CASE p = 1
      <4>1. Turn(2, q)' = Turn(2, q)
        BY <1>c, <2>6, <3>3
      <4> QED BY <3>1, <3>2, <3>3, <4>1
    <3>4. CASE p = 2
      <4>1. Turn(1, q)' = Turn(1, q)
        BY <1>c, <2>6, <3>4
      <4> QED BY <3>1, <3>2, <3>4, <4>1
    <3> QED BY <3>3, <3>4
  <2> QED BY <2>4, <2>7
<1>11. CASE Receive1
  BY <1>10, <1>11 DEF Receive1
<1>12. CASE Receive2
  <2>1. PICK place \in {"off", "fgets"} : prog' = [prog EXCEPT ![2] = place]
    BY <1>12 DEF Receive2
  <2>2. /\ CanTake(2) /\ Taken(2) /\ buffer' = [buffer EXCEPT ![2] = Received(2).text]
        /\ chat_queue' = chat_queue /\ mqd' = mqd /\ runs' = runs /\ opened' = opened
    BY <1>12 DEF Receive2
  <2> QED BY <1>10, <1>c, <1>d, <2>1, <2>2, Zenon
<1>13. CASE UNCHANGED posixVars
  BY <1>13 DEF posixVars, PosixType, Turns, Turn
<1> QED
  BY <1>1, <1>3, <1>4, <1>5, <1>7, <1>8, <1>9, <1>11, <1>12, <1>13 DEF PosixNext

\* However often the programs are started, killed and ended: a queue holds no more
\* lines and users at the prompt than prog1 was started on it
\* (prog1.c:26-55, prog2.c:20-47).
THEOREM TurnsKept == PosixSpec => []TurnTaking
<1>1. PosixInit => PosixInv
  <2> SUFFICES ASSUME PosixInit PROVE PosixInv
    OBVIOUS
  <2>1. <<>> \in Seq(Message) /\ Len(<<>>) = 0
    OBVIOUS
  <2> QED BY <2>1 DEF PosixInit, PosixInv, PosixType, Turns, Turn, ChatText
<1>2. PosixInv => TurnTaking
  <2> SUFFICES ASSUME PosixInv, NEW q \in Queue
               PROVE  Len(mq[q]) + Cardinality(Talking(q)) <= opened[q]
    BY DEF TurnTaking
  <2>1. Len(mq[q]) \in Nat /\ Turn(1, q) \in {0, 1} /\ Turn(2, q) \in {0, 1}
    BY DEF PosixInv, PosixType, Turn
  <2>2. Len(mq[q]) + Turn(1, q) + Turn(2, q) <= opened[q]
    BY DEF PosixInv, Turns
  <2> QED BY <2>1, <2>2, TalkingCount
<1> QED
  BY <1>1, <1>2, PosixStep, PTL DEF PosixSpec

-----------------------------------------------------------------------------
(***************************************************************************)
(* Csum: csum is right for buffers of any length and content.              *)
(***************************************************************************)
\* One folding is enough after one addition: a carry is worth 65535 less.
LEMMA FoldOnce ==
    ASSUME NEW s \in Nat, s <= 131070
    PROVE  Fold(s) = IF s < 65536 THEN s ELSE s - 65535
<1>1. CASE s < 65536
  BY <1>1 DEF Fold
<1>2. CASE s >= 65536
  <2>1. s \div 65536 = 1 /\ s % 65536 = s - 65536
    BY <1>2
  <2> QED
    BY <1>2, <2>1 DEF Fold
<1> QED
  BY <1>1, <1>2

\* The complement of a 16-bit word.
LEMMA ComplementIs ==
    ASSUME NEW s \in UShort
    PROVE  Complement(s) = 65535 - s
  BY SMT DEF Complement, UShort

\* The inductive invariant: FoldIsOnes counts the carries, and the loop has
\* taken no byte from behind the buffer before its last round.
CsumInv == SumTypeOK /\ FoldIsOnes /\ (pc = "loop" => pad = 0) /\ Verifies

\* An empty buffer.
LEMMA CsumInit == SumInit => CsumInv
  BY CsumAssumption DEF SumInit, CsumInv, SumTypeOK, FoldIsOnes, IsOnesSum, Verifies,
                        UShort, UChar

\* A round of the loop that adds x keeps the sum right.
LEMMA RoundAdds ==
    ASSUME NEW s \in UShort, NEW x \in UShort, NEW t \in Nat, NEW n \in Nat,
           IsOnesSum(s, t, n)
    PROVE  Fold(s + x) \in UShort /\ IsOnesSum(Fold(s + x), t + x, n + 1)
<1> USE DEF UShort
<1>k. PICK k \in 0 .. n : t = s + 65535 * k
  BY SMT DEF IsOnesSum
<1>z. s = 0 <=> t = 0
  BY SMT DEF IsOnesSum
<1>1. CASE s + x < 65536
  <2>1. Fold(s + x) = s + x
    BY <1>1, FoldOnce, SMT
  <2>2. t + x = Fold(s + x) + 65535 * k /\ k \in 0 .. n + 1
    BY <1>k, <2>1, SMT
  <2> QED
    BY <1>1, <1>z, <2>1, <2>2, SMT DEF IsOnesSum
<1>2. CASE s + x >= 65536
  <2>1. Fold(s + x) = s + x - 65535
    BY <1>2, FoldOnce, SMT
  <2> DEFINE c == k + 1
  <2>2. t + x = Fold(s + x) + 65535 * c /\ c \in 0 .. n + 1
    BY <1>k, <2>1, SMT
  <2> HIDE DEF c
  <2>3. Fold(s + x) \in UShort /\ Fold(s + x) # 0 /\ t + x # 0
    BY <1>2, <2>1, SMT
  <2> QED
    BY <2>2, <2>3, SMT DEF IsOnesSum
<1> QED
  BY <1>1, <1>2, SMT

\* Every round of the loop, and its end, keep the invariant.
LEMMA CsumStep == CsumInv /\ [SumNext]_sumVars => CsumInv'
<1> SUFFICES ASSUME CsumInv, [SumNext]_sumVars PROVE CsumInv'
  OBVIOUS
<1> USE CsumAssumption DEF CsumInv, SumTypeOK
<1>1. ASSUME NEW w \in Word, AddWord(w) PROVE CsumInv'
  <2>1. w \in UShort /\ IsOnesSum(sum, total, nwords)
    BY <1>1, SMT DEF AddWord, FoldIsOnes
  <2>2. sum' \in UShort /\ IsOnesSum(sum', total + w, nwords + 1)
    <3>1. sum \in UShort /\ total \in Nat /\ nwords \in Nat
      BY SMT
    <3>2. Fold(sum + w) \in UShort /\ IsOnesSum(Fold(sum + w), total + w, nwords + 1)
      BY ONLY <2>1, <3>1, RoundAdds
    <3> QED
      BY <1>1, <3>2 DEF AddWord
  <2>3. total + w = total' + 256 * pad' /\ nwords + 1 = nwords'
    BY <1>1, <2>1, SMT DEF AddWord
  <2>4. FoldIsOnes'
    BY <2>2, <2>3, SMT DEF FoldIsOnes
  <2> QED
    BY <1>1, <2>1, <2>2, <2>4, SMT DEF AddWord, Verifies, UShort
<1>2. ASSUME NEW b \in Byte, NEW p \in Pad, AddOddByte(b, p) PROVE CsumInv'
  <2> DEFINE x == b + 256 * p
  <2>1. x \in UShort /\ IsOnesSum(sum, total, nwords)
    BY <1>2, SMT DEF AddOddByte, FoldIsOnes, UShort, UChar
  <2>2. sum' = Fold(sum + x) /\ total + x = total' + 256 * pad' /\ nwords + 1 = nwords'
    BY <1>2, SMT DEF AddOddByte, UShort, UChar
  <2> HIDE DEF x
  <2>3. sum' \in UShort /\ IsOnesSum(sum', total + x, nwords + 1)
    <3>1. sum \in UShort /\ total \in Nat /\ nwords \in Nat
      BY SMT
    <3>2. Fold(sum + x) \in UShort /\ IsOnesSum(Fold(sum + x), total + x, nwords + 1)
      BY ONLY <2>1, <3>1, RoundAdds
    <3> QED
      BY <2>2, <3>2
  <2>4. FoldIsOnes'
    BY <2>2, <2>3, SMT DEF FoldIsOnes
  <2> QED
    BY <1>2, <2>3, <2>4, SMT DEF AddOddByte, Verifies, UShort, UChar
<1>3. CASE Finish
  <2>k. PICK k \in 0 .. nwords : total + 256 * pad = sum + 65535 * k
    BY SMT DEF FoldIsOnes, IsOnesSum
  <2>1. check' = 65535 - sum
    BY <1>3, ComplementIs DEF Finish
  <2>2. FoldIsOnes'
    BY <1>3 DEF Finish, FoldIsOnes
  <2>3. CASE pad = 0
    <3>1. total + check' = 65535 * (k + 1) /\ k + 1 \in 1 .. nwords + 1
      BY <2>k, <2>1, <2>3, SMT DEF UShort
    <3>2. AllOnes(total + check)'
      <4>1. \E j \in 1 .. nwords + 1 : total + check' = 65535 * j
        <5>1. k + 1 \in 1 .. nwords + 1
          BY <3>1, SMT
        <5> WITNESS k + 1 \in 1 .. nwords + 1
        <5> QED
          BY <3>1, SMT
      <4>2. total' = total /\ nwords' = nwords
        BY <1>3 DEF Finish
      <4> QED
        BY <4>1, <4>2, SMT DEF AllOnes
    <3> QED
      BY <1>3, <2>1, <2>2, <2>3, <3>2 DEF Finish, Verifies, UShort
  <2>4. CASE pad # 0
    <3>1. ASSUME NEW j \in Int PROVE total + check' # 65535 * j
      BY <2>k, <2>1, <2>4, SMT DEF UShort, UChar
    <3> QED
      BY <1>3, <2>1, <2>2, <2>4, <3>1 DEF Finish, Verifies, AllOnes, UShort
  <2> QED
    BY <2>3, <2>4
<1>4. CASE MallocFails
  BY <1>4 DEF MallocFails, Verifies, FoldIsOnes, UShort
<1>5. CASE UNCHANGED sumVars
  BY <1>5 DEF sumVars, Verifies, FoldIsOnes, AllOnes
<1> QED
  BY <1>1, <1>2, <1>3, <1>4, <1>5 DEF SumNext

\* Folding after each word gives the ones' complement sum of the whole buffer,
\* for any length.
THEOREM FoldCorrect == SumSpec => []FoldIsOnes
<1>1. CsumInv => FoldIsOnes
  BY DEF CsumInv
<1> QED
  BY <1>1, CsumInit, CsumStep, PTL DEF SumSpec

\* The checksum is good exactly when no stray byte was added, for any length.
THEOREM ChecksumGood == SumSpec => []Verifies
<1>1. CsumInv => Verifies
  BY DEF CsumInv
<1> QED
  BY <1>1, CsumInit, CsumStep, PTL DEF SumSpec

-----------------------------------------------------------------------------
(***************************************************************************)
(* SharedMinMax: the report is right, for every set of counts and numbers  *)
(* and any number of rounds and runs.                                      *)
(***************************************************************************)
\* m is the least, or the greatest, of the first n numbers of s.
IsLow(s, m, n)  == (\A i \in 1 .. n : m <= s[i]) /\ (\E i \in 1 .. n : m = s[i])
IsHigh(s, m, n) == (\A i \in 1 .. n : s[i] <= m) /\ (\E i \in 1 .. n : m = s[i])

Looping == {"min?", "min=", "max?", "max="}

ShmType ==
    /\ seg \in [Cell -> Int] /\ seg[0] \in Count \cup {0}
    /\ parent \in {"off", "test", "gen", "print", "sleep"}
    /\ child \in {"off", "idle", "write min", "write max"} \cup Looping
    /\ fresh \in {"no", "quiet", "yes"}
    /\ cnt \in Count \cup {0} /\ cmin \in Int /\ cmax \in Int
    /\ child \in Looping => ci \in 1 .. cnt \/ ci = 1
    /\ printed \in Seq(Int)

\* The parent's round.
ShmRound ==
    /\ parent \in {"gen", "print", "sleep"} => count \in Count /\ seg[0] = count
    /\ parent = "gen" => gi \in 1 .. count - 1
    /\ parent = "print" => gi \in 1 .. count /\ Len(printed) = gi - 1
    /\ parent = "sleep" => Len(printed) = count
    /\ parent \in {"off", "test", "gen"} => printed = <<>> /\ fresh = "no"

\* findMinMax has seen the first n numbers.
Folded(n) == IsLow(seg, cmin, n) /\ IsHigh(seg, cmax, n)

\* How far the pass of the child is, when it began after the numbers were complete.
Pass ==
    /\ child \notin {"idle", "off"} => cnt = count
    /\ child = "min?" => ci \in 2 .. count /\ Folded(ci - 1)
    /\ child = "min=" => ci = 1 \/ (ci \in 2 .. count /\ Folded(ci - 1) /\ seg[ci] < cmin)
    /\ child = "max?" =>
         ci \in 2 .. count /\ IsLow(seg, cmin, ci) /\ IsHigh(seg, cmax, ci - 1)
    /\ child = "max=" =>
         /\ IsLow(seg, cmin, ci)
         /\ ci = 1 \/ (ci \in 2 .. count /\ IsHigh(seg, cmax, ci - 1) /\ seg[ci] > cmax)
    /\ child \in {"write min", "write max"} => Folded(count)

\* After a pass the cells behind the numbers hold the result, and a further
\* pass writes the same again.
Result ==
    /\ fresh # "no" =>
         /\ Pass
         /\ \A i \in 1 .. Len(printed) : printed[i] = seg[i]
         /\ child = "write max" => IsLow(seg, seg[count + 1], count)
    /\ fresh = "yes" =>
         IsLow(seg, seg[count + 1], count) /\ IsHigh(seg, seg[count + 2], count)

ShmInv == ShmType /\ ShmRound /\ Result

-----------------------------------------------------------------------------
\* The segment has room for the count, the numbers and the two results.
LEMMA CellHolds ==
    /\ \A c \in Count : c \in Nat /\ c >= 2
    /\ \A c \in Count \cup {0} : \A i \in 0 .. c + 2 : i \in Cell
    /\ \A n \in Number : n \in Int
<1> DEFINE m == CHOOSE c \in Count : \A d \in Count : d <= c
<1>1. m \in Count /\ \A d \in Count : d <= m
  BY SharedMinMaxAssumption
<1>2. Cell = 0 .. 2 + m
  BY DEF Cell
<1> HIDE DEF m
<1>3. m \in Nat
  BY <1>1, SharedMinMaxAssumption
<1> QED
  BY <1>1, <1>2, <1>3, SharedMinMaxAssumption

\* One more number: it is a new minimum, or the old one stays.
LEMMA LowExtends ==
    ASSUME NEW s \in [Cell -> Int], NEW n \in Nat, NEW m \in Int, NEW c \in Count, n \in 2 .. c,
           IsLow(s, m, n - 1)
    PROVE  IF s[n] < m THEN IsLow(s, s[n], n) ELSE IsLow(s, m, n)
<1>1. \A i \in 1 .. n : s[i] \in Int /\ (i \in 1 .. n - 1 \/ i = n)
  BY CellHolds
<1>2. n \in 1 .. n /\ \A i \in 1 .. n - 1 : i \in 1 .. n
  BY CellHolds
<1> QED
  BY <1>1, <1>2 DEF IsLow

\* The same for the maximum.
LEMMA HighExtends ==
    ASSUME NEW s \in [Cell -> Int], NEW n \in Nat, NEW m \in Int, NEW c \in Count, n \in 2 .. c,
           IsHigh(s, m, n - 1)
    PROVE  IF s[n] > m THEN IsHigh(s, s[n], n) ELSE IsHigh(s, m, n)
<1>1. \A i \in 1 .. n : s[i] \in Int /\ (i \in 1 .. n - 1 \/ i = n)
  BY CellHolds
<1>2. n \in 1 .. n /\ \A i \in 1 .. n - 1 : i \in 1 .. n
  BY CellHolds
<1> QED
  BY <1>1, <1>2 DEF IsHigh

\* The first number is both.
LEMMA FirstIsBoth ==
    ASSUME NEW s \in [Cell -> Int]
    PROVE  IsLow(s, s[1], 1) /\ IsHigh(s, s[1], 1)
<1>1. s[1] \in Int /\ \A i \in 1 .. 1 : i = 1
  BY CellHolds, SharedMinMaxAssumption
<1> QED
  BY <1>1 DEF IsLow, IsHigh

\* The results are written behind the numbers and change none of them.
LEMMA BehindNumbers ==
    ASSUME NEW s, NEW t, NEW n, \A i \in 1 .. n : t[i] = s[i]
    PROVE  \A m : (IsLow(s, m, n) <=> IsLow(t, m, n)) /\ (IsHigh(s, m, n) <=> IsHigh(t, m, n))
  BY DEF IsLow, IsHigh

-----------------------------------------------------------------------------
\* The accesses stay inside the segment (main.c:18-37).
LEMMA ShmTypeStep == ShmType /\ ShmRound /\ [ShmNext]_shmVars => ShmType'
<1> SUFFICES ASSUME ShmType, ShmRound, [ShmNext]_shmVars PROVE ShmType'
  OBVIOUS
<1>c. /\ \A c \in Count : c \in Nat /\ c >= 2
      /\ \A c \in Count \cup {0} : \A i \in 0 .. c + 2 : i \in Cell
      /\ \A n \in Number : n \in Int
      /\ 0 \in Cell
  BY CellHolds
<1>d. cnt \in Count \cup {0} /\ cnt \in Nat
  <2>1. cnt \in Count \cup {0}
    BY DEF ShmType
  <2> QED
    BY <1>c, <2>1
<1>k. child \in Looping => ci \in 1 .. cnt + 1 /\ ci \in Nat
  <2>1. child \in Looping => ci \in 1 .. cnt \/ ci = 1
    BY DEF ShmType
  <2> QED
    BY <1>d, <2>1
<1>l. child \in Looping => seg[ci] \in Int
  <2> SUFFICES ASSUME child \in Looping PROVE seg[ci] \in Int
    OBVIOUS
  <2>1. ci \in 0 .. cnt + 2
    BY <1>d, <1>k
  <2>2. ci \in Cell
    BY <1>c, <1>d, <2>1
  <2> QED
    BY <2>2 DEF ShmType
<1>z. [i \in Cell |-> 0] \in [Cell -> Int]
  OBVIOUS
<1>e. <<>> \in Seq(Int)
  BY EmptySeq
<1>1. CASE ShmStart
  <2>1. seg' \in [Cell -> Int] /\ seg'[0] \in Count \cup {0}
    BY <1>1, <1>c, <1>z DEF ShmStart, ShmType
  <2> QED
    BY <1>1, <2>1 DEF ShmStart, ShmType, Looping
<1>2. CASE Hangup
  <2>1. /\ printed' \in Seq(Int) /\ cnt' \in Count \cup {0} /\ cmin' \in Int /\ cmax' \in Int
        /\ child' = "off" /\ parent' = "off" /\ fresh' = "no" /\ seg' = seg
    BY <1>2, <1>e DEF Hangup
  <2> QED
    BY <2>1 DEF ShmType, Looping
<1>3. CASE SigintHandler("parent") \/ SigintHandler("child")
  BY <1>3 DEF SigintHandler, ShmType, parentVars, childVars
<1>4. CASE GenerateCount
  <2>1. count' \in Count /\ count' \in Int /\ seg' = [seg EXCEPT ![0] = count']
    BY <1>4, <1>c DEF GenerateCount
  <2>2. seg' \in [Cell -> Int] /\ seg'[0] \in Count \cup {0}
    BY <1>c, <2>1 DEF ShmType
  <2> QED
    BY <1>4, <2>2 DEF GenerateCount, ShmType, childVars
<1>5. CASE GenerateNumber
  <2>1. PICK n \in Number : seg' = [seg EXCEPT ![gi] = n]
    BY <1>5 DEF GenerateNumber
  <2>2. count \in Count /\ gi \in 1 .. count - 1
    BY <1>5 DEF GenerateNumber, ShmRound
  <2>3. gi \in Cell /\ gi # 0
    BY <1>c, <2>2
  <2>4. seg' \in [Cell -> Int] /\ seg'[0] \in Count \cup {0}
    BY <1>c, <2>1, <2>3 DEF ShmType
  <2> QED
    BY <1>5, <2>4 DEF GenerateNumber, ShmType, childVars
<1>6. CASE PrintNumber
  <2>1. count \in Count /\ gi \in 1 .. count
    BY <1>6 DEF PrintNumber, ShmRound
  <2>2. gi \in Cell
    BY <1>c, <2>1
  <2>3. printed' \in Seq(Int)
    BY <1>6, <2>2, AppendProperties DEF PrintNumber, ShmType
  <2> QED
    BY <1>6, <2>3 DEF PrintNumber, ShmType, childVars
<1>7. CASE Report
  BY <1>7, <1>e DEF Report, ShmType, childVars
<1>8. CASE ParentEnds
  BY <1>8 DEF ParentEnds, ShmType, childVars
<1>9. CASE BeginPass
  BY <1>9 DEF BeginPass, ShmType, parentVars, Looping
<1>10. CASE TestMin
  BY <1>10 DEF TestMin, ShmType, parentVars, Looping
<1>11. CASE SetMin
  BY <1>11, <1>l DEF SetMin, ShmType, parentVars, Looping
<1>12. CASE TestMax
  <2>1. ci' = ci \/ (child' = "min?" /\ ci' = ci + 1 /\ ci + 1 <= cnt)
        \/ child' = "write min"
    BY <1>12 DEF TestMax, NextNumber, More
  <2>2. ci \in Nat /\ (ci \in 1 .. cnt \/ ci = 1)
    BY <1>12, <1>k DEF TestMax, ShmType, Looping
  <2>3. child' \in Looping => ci' \in 1 .. cnt \/ ci' = 1
    <3>1. ci \in Nat /\ (ci \in 1 .. cnt \/ ci = 1) /\ cnt \in Nat
      BY <1>d, <2>2
    <3>2. ci + 1 <= cnt => ci + 1 \in 1 .. cnt
      BY <3>1
    <3> QED
      BY <2>1, <3>1, <3>2 DEF Looping
  <2> QED
    BY <1>12, <2>3 DEF TestMax, NextNumber, ShmType, parentVars, Looping
<1>13. CASE SetMax
  <2>1. (child' = "min?" /\ ci' = ci + 1 /\ ci + 1 <= cnt) \/ child' = "write min"
    BY <1>13 DEF SetMax, NextNumber, More
  <2>2. ci \in Nat /\ (ci \in 1 .. cnt \/ ci = 1)
    BY <1>13, <1>k DEF SetMax, ShmType, Looping
  <2>3. child' \in Looping => ci' \in 1 .. cnt \/ ci' = 1
    <3>1. ci \in Nat /\ (ci \in 1 .. cnt \/ ci = 1) /\ cnt \in Nat
      BY <1>d, <2>2
    <3>2. ci + 1 <= cnt => ci + 1 \in 1 .. cnt
      BY <3>1
    <3> QED
      BY <2>1, <3>1, <3>2 DEF Looping
  <2> QED
    BY <1>13, <1>l, <2>3 DEF SetMax, NextNumber, ShmType, parentVars, Looping
<1>14. CASE WriteMin
  <2>1. cnt + 1 \in 0 .. cnt + 2 /\ cnt + 1 # 0
    BY <1>d
  <2>a. cnt + 1 \in Cell
    BY <1>c, <1>d, <2>1
  <2>2. seg' \in [Cell -> Int] /\ seg'[0] \in Count \cup {0}
    BY <1>14, <1>c, <1>d, <2>1, <2>a DEF WriteMin, ShmType
  <2> QED
    BY <1>14, <2>2 DEF WriteMin, ShmType, parentVars, Looping
<1>15. CASE WriteMax
  <2>1. cnt + 2 \in 0 .. cnt + 2 /\ cnt + 2 # 0
    BY <1>d
  <2>a. cnt + 2 \in Cell
    BY <1>c, <1>d, <2>1
  <2>2. seg' \in [Cell -> Int] /\ seg'[0] \in Count \cup {0}
    BY <1>15, <1>c, <1>d, <2>1, <2>a DEF WriteMax, ShmType
  <2> QED
    <3>1. /\ child' = "idle" /\ cnt' = 0 /\ cmin' = 0 /\ cmax' = 0
          /\ parent' = parent /\ printed' = printed
      BY <1>15 DEF WriteMax, parentVars
    <3>2. fresh' = "yes" \/ fresh' = fresh
      BY <1>15 DEF WriteMax
    <3>3. cnt' \in Count \cup {0} /\ cmin' \in Int /\ cmax' \in Int
      BY <3>1
    <3>4. fresh' \in {"no", "quiet", "yes"}
      BY <3>2 DEF ShmType
    <3> QED
      BY <2>2, <3>1, <3>3, <3>4 DEF ShmType, Looping
<1>16. CASE ChildEnds
  BY <1>16 DEF ChildEnds, ShmType, parentVars, Looping
<1>17. CASE UNCHANGED shmVars
  BY <1>17 DEF shmVars, parentVars, childVars, ShmType
<1> QED
  BY <1>1, <1>2, <1>3, <1>4, <1>5, <1>6, <1>7, <1>8, <1>9, <1>10, <1>11, <1>12, <1>13, <1>14,
     <1>15, <1>16, <1>17 DEF ShmNext

\* The parent's round goes on, whatever the child does: the child never writes
\* the count (main.c:35-36, 76-86).
LEMMA RoundStep == ShmType /\ ShmRound /\ [ShmNext]_shmVars => ShmRound'
<1> SUFFICES ASSUME ShmType, ShmRound, [ShmNext]_shmVars PROVE ShmRound'
  OBVIOUS
<1>c. /\ \A c \in Count : c \in Nat /\ c >= 2
      /\ \A c \in Count \cup {0} : \A i \in 0 .. c + 2 : i \in Cell
      /\ 0 \in Cell
  BY CellHolds
<1>d. cnt \in Nat
  <2>1. cnt \in Count \cup {0}
    BY DEF ShmType
  <2> QED
    BY <1>c, <2>1
<1>1. CASE ShmStart
  BY <1>1 DEF ShmStart, ShmRound
<1>2. CASE Hangup
  BY <1>2 DEF Hangup, ShmRound
<1>3. CASE SigintHandler("parent") \/ SigintHandler("child")
  BY <1>3 DEF SigintHandler, ShmRound, parentVars
<1>4. CASE GenerateCount
  <2>1. count' \in Count /\ seg' = [seg EXCEPT ![0] = count'] /\ parent' = "gen" /\ gi' = 1
        /\ printed' = <<>> /\ fresh' = "no"
    BY <1>4 DEF GenerateCount, ShmRound
  <2>2. seg'[0] = count'
    BY <1>c, <2>1 DEF ShmType
  <2>3. 1 \in 1 .. count' - 1
    BY <1>c, <2>1
  <2> QED
    BY <2>1, <2>2, <2>3 DEF ShmRound
<1>5. CASE GenerateNumber
  <2>1. PICK n \in Number : seg' = [seg EXCEPT ![gi] = n]
    BY <1>5 DEF GenerateNumber
  <2>2. count \in Count /\ seg[0] = count /\ gi \in 1 .. count - 1 /\ printed = <<>> /\ fresh = "no"
    BY <1>5 DEF GenerateNumber, ShmRound
  <2>3. gi # 0 /\ count \in Nat /\ 1 \in 1 .. count
    BY <1>c, <2>2
  <2>4. seg'[0] = count
    BY <1>c, <2>1, <2>2, <2>3 DEF ShmType
  <2>5. CASE gi + 1 < count
    <3>1. gi + 1 \in 1 .. count - 1
      BY <2>2, <2>3, <2>5
    <3>2. gi' = gi + 1 /\ parent' = "gen" /\ fresh' = fresh /\ count' = count /\ printed' = printed
      BY <1>5, <2>5 DEF GenerateNumber
    <3> QED
      BY <2>2, <2>4, <3>1, <3>2 DEF ShmRound
  <2>6. CASE ~(gi + 1 < count)
    <3>1. gi' = 1 /\ parent' = "print" /\ count' = count /\ printed' = <<>>
      BY <1>5, <2>2, <2>6 DEF GenerateNumber
    <3>2. Len(printed') = gi' - 1
      BY <3>1
    <3> QED
      BY <2>2, <2>3, <2>4, <3>1, <3>2 DEF ShmRound
  <2> QED
    BY <2>5, <2>6
<1>6. CASE PrintNumber
  <2>1. count \in Count /\ seg[0] = count /\ gi \in 1 .. count /\ Len(printed) = gi - 1
    BY <1>6 DEF PrintNumber, ShmRound
  <2>2. gi \in Cell
    BY <1>c, <2>1
  <2>3. Len(printed') = gi
    <3>1. seg[gi] \in Int /\ printed \in Seq(Int)
      BY <2>2 DEF ShmType
    <3>2. Len(printed') = Len(printed) + 1
      BY <1>6, <3>1, AppendProperties DEF PrintNumber
    <3> QED
      BY <1>c, <2>1, <3>2
  <2>4. CASE gi < count
    <3>1. gi' = gi + 1 /\ parent' = "print" /\ count' = count /\ seg' = seg
      BY <1>6, <2>4 DEF PrintNumber
    <3>2. gi + 1 \in 1 .. count /\ gi = (gi + 1) - 1
      BY <1>c, <2>1, <2>4
    <3> QED
      BY <2>1, <2>3, <3>1, <3>2 DEF ShmRound
  <2>5. CASE ~(gi < count)
    <3>1. parent' = "sleep" /\ count' = count /\ seg' = seg
      BY <1>6, <2>5 DEF PrintNumber
    <3>2. gi = count
      BY <1>c, <2>1, <2>5
    <3> QED
      BY <2>1, <2>3, <3>1, <3>2 DEF ShmRound
  <2> QED
    BY <2>4, <2>5
<1>7. CASE Report
  BY <1>7 DEF Report, ShmRound
<1>8. CASE ParentEnds
  BY <1>8 DEF ParentEnds, ShmRound
<1>9. CASE BeginPass \/ TestMin \/ SetMin \/ TestMax \/ SetMax \/ ChildEnds
  BY <1>9 DEF BeginPass, TestMin, SetMin, TestMax, SetMax, ChildEnds, ShmRound, parentVars
<1>10. CASE WriteMin
  <2>1. cnt + 1 # 0
    BY <1>d
  <2>2. seg'[0] = seg[0]
    BY <1>10, <1>c, <2>1 DEF WriteMin, ShmType
  <2> QED
    BY <1>10, <2>2 DEF WriteMin, ShmRound, parentVars
<1>11. CASE WriteMax
  <2>1. cnt + 2 # 0
    BY <1>d
  <2>2. seg'[0] = seg[0]
    BY <1>11, <1>c, <2>1 DEF WriteMax, ShmType
  <2>3. fresh' = "no" \/ fresh # "no"
    BY <1>11 DEF WriteMax
  <2> QED
    BY <1>11, <2>2, <2>3 DEF WriteMax, ShmRound, parentVars
<1>12. CASE UNCHANGED shmVars
  BY <1>12 DEF shmVars, parentVars, ShmRound
<1> QED
  BY <1>1, <1>2, <1>3, <1>4, <1>5, <1>6, <1>7, <1>8, <1>9, <1>10, <1>11, <1>12 DEF ShmNext

-----------------------------------------------------------------------------
\* The parent's steps leave the pass and the results alone (main.c:76-86).
LEMMA ParentKeepsResult ==
    ASSUME ShmInv,
           ShmStart \/ Hangup \/ SigintHandler("parent") \/ SigintHandler("child")
           \/ GenerateCount \/ GenerateNumber \/ PrintNumber \/ Report \/ ParentEnds
    PROVE  Result'
<1>i. ShmType /\ ShmRound /\ Result
  BY DEF ShmInv
<1>n. ASSUME fresh' = "no" PROVE Result'
  BY <1>n DEF Result
<1>1. CASE ShmStart \/ Hangup \/ GenerateCount \/ Report \/ ParentEnds
  <2>1. fresh' = "no"
    BY <1>1, <1>i DEF ShmStart, Hangup, GenerateCount, Report, ParentEnds, ShmRound
  <2> QED
    BY <2>1, <1>n
<1>2. CASE SigintHandler("parent") \/ SigintHandler("child")
  BY <1>2, <1>i DEF SigintHandler, Result, Pass, Folded, parentVars, childVars
<1>3. CASE GenerateNumber
  <2>1. printed' = <<>> /\ fresh = "no" /\ child' = child
    BY <1>3, <1>i DEF GenerateNumber, ShmRound, childVars
  <2>2. CASE fresh' = "no"
    BY <1>n, <2>2
  <2>3. CASE fresh' # "no"
    <3>1. child' = "idle" /\ fresh' = "quiet"
      BY <1>3, <2>1, <2>3 DEF GenerateNumber
    <3>2. 1 .. Len(printed') = {}
      BY <2>1
    <3> QED
      BY <3>1, <3>2 DEF Result, Pass
  <2> QED
    BY <2>2, <2>3
<1>4. CASE PrintNumber
  <2>1. UNCHANGED <<seg, count, child, cnt, ci, cmin, cmax, fresh>>
    BY <1>4 DEF PrintNumber, childVars
  <2>2. count \in Count /\ gi \in 1 .. count /\ Len(printed) = gi - 1
    BY <1>4, <1>i DEF PrintNumber, ShmRound
  <2>3. seg[gi] \in Int /\ printed \in Seq(Int)
    <3>1. gi \in Cell
      BY <2>2, CellHolds
    <3> QED
      BY <1>i, <3>1 DEF ShmType
  <2>4. /\ Len(printed') = Len(printed) + 1 /\ Len(printed) \in Nat
        /\ \A i \in 1 .. Len(printed) : printed'[i] = printed[i]
        /\ printed'[Len(printed) + 1] = seg[gi]
    BY <1>4, <2>3, AppendProperties DEF PrintNumber
  <2>5. gi = Len(printed) + 1
    BY <2>2, CellHolds
  <2>6. (\A i \in 1 .. Len(printed) : printed[i] = seg[i])
          => \A i \in 1 .. Len(printed') : printed'[i] = seg'[i]
    <3> SUFFICES ASSUME \A i \in 1 .. Len(printed) : printed[i] = seg[i],
                        NEW i \in 1 .. Len(printed')
                 PROVE  printed'[i] = seg'[i]
      OBVIOUS
    <3>1. i \in 1 .. Len(printed) \/ i = Len(printed) + 1
      BY <2>4
    <3> QED
      BY <2>1, <2>4, <2>5, <3>1
  <2>7. Pass => Pass'
    BY <2>1 DEF Pass, Folded
  <2> QED
    BY <1>i, <2>1, <2>6, <2>7 DEF Result
<1> QED
  BY <1>1, <1>2, <1>3, <1>4

\* A pass that began after the numbers were complete finds their minimum and
\* maximum, and writes both before it counts as done (main.c:25-37).
LEMMA ChildKeepsResult ==
    ASSUME ShmInv,
           BeginPass \/ TestMin \/ SetMin \/ TestMax \/ SetMax \/ WriteMin \/ WriteMax \/ ChildEnds
    PROVE  Result'
<1>n. ASSUME fresh' = "no" PROVE Result'
  BY <1>n DEF Result
<1>f. fresh' # "no" => fresh # "no"
  BY DEF BeginPass, TestMin, SetMin, TestMax, SetMax, WriteMin, WriteMax, ChildEnds
<1> SUFFICES ASSUME fresh # "no" PROVE Result'
  BY <1>n, <1>f
<1>t. /\ seg \in [Cell -> Int] /\ cmin \in Int /\ cmax \in Int /\ ShmType
      /\ count \in Count /\ count \in Nat /\ count >= 2 /\ seg[0] = count
  BY CellHolds DEF ShmInv, ShmType, ShmRound
<1>p. Pass /\ (\A i \in 1 .. Len(printed) : printed[i] = seg[i])
  BY DEF ShmInv, Result
<1>y. /\ child = "write max" => IsLow(seg, seg[count + 1], count)
      /\ fresh = "yes" => IsLow(seg, seg[count + 1], count) /\ IsHigh(seg, seg[count + 2], count)
  BY DEF ShmInv, Result
<1>l. ASSUME Pass', UNCHANGED <<seg, count, printed, fresh>>, child' # "write max"
      PROVE  Result'
  BY <1>l, <1>p, <1>y DEF Result
<1>1. CASE BeginPass
  <2>1. Pass'
    BY <1>1, <1>t DEF BeginPass, Pass, parentVars
  <2> QED
    BY <1>1, <1>l, <2>1 DEF BeginPass, parentVars
<1>2. CASE TestMin
  <2>1. UNCHANGED <<seg, count, printed, fresh, cnt, ci, cmin, cmax>> /\ child = "min?"
        /\ child' = IF seg[ci] < cmin THEN "min=" ELSE "max?"
    BY <1>2 DEF TestMin, parentVars
  <2>2. cnt = count /\ ci \in 2 .. count /\ ci \in Nat /\ Folded(ci - 1)
    BY <1>p, <1>t, <2>1 DEF Pass
  <2>3. IF seg[ci] < cmin THEN IsLow(seg, seg[ci], ci) ELSE IsLow(seg, cmin, ci)
    BY <1>t, <2>2, LowExtends DEF Folded
  <2>4. Pass'
    BY <2>1, <2>2, <2>3 DEF Pass, Folded
  <2> QED
    BY <1>l, <2>1, <2>4
<1>3. CASE SetMin
  <2>1. UNCHANGED <<seg, count, printed, fresh, cnt, ci, cmax>> /\ child = "min=" /\ cmin' = seg[ci]
        /\ child' = IF ci = 1 THEN "max=" ELSE "max?"
    BY <1>3 DEF SetMin, parentVars
  <2>2. cnt = count
    BY <1>p, <2>1 DEF Pass
  <2>3. CASE ci = 1
    <3>1. IsLow(seg, cmin', ci)
      BY <1>t, <2>1, <2>3, FirstIsBoth
    <3>2. Pass'
      BY <2>1, <2>2, <2>3, <3>1 DEF Pass
    <3> QED
      BY <1>l, <2>1, <2>3, <3>2
  <2>4. CASE ci # 1
    <3>1. ci \in 2 .. count /\ ci \in Nat /\ Folded(ci - 1) /\ seg[ci] < cmin
      BY <1>p, <1>t, <2>1, <2>4 DEF Pass
    <3>2. IsLow(seg, cmin', ci)
      BY <1>t, <2>1, <3>1, LowExtends DEF Folded
    <3>3. Pass'
      BY <2>1, <2>2, <2>4, <3>1, <3>2 DEF Pass, Folded
    <3> QED
      BY <1>l, <2>1, <2>4, <3>3
  <2> QED
    BY <2>3, <2>4
<1>m. ASSUME NextNumber, UNCHANGED <<seg, count, printed, fresh, cnt, cmin>>, cnt = count,
             ci \in 1 .. count, IsLow(seg, cmin, ci), IsHigh(seg, cmax', ci)
      PROVE  Result'
  <2>1. ci' = ci + 1 /\ child' = (IF ci + 1 <= count THEN "min?" ELSE "write min")
    BY <1>m DEF NextNumber, More
  <2>2. CASE ci + 1 <= count
    <3>1. ci' \in 2 .. count /\ ci' - 1 = ci /\ child' = "min?"
      BY <1>m, <1>t, <2>1, <2>2
    <3>2. IsLow(seg', cmin', ci' - 1) /\ IsHigh(seg', cmax', ci' - 1)
      BY <1>m, <3>1
    <3>3. Pass'
      BY <1>m, <3>1, <3>2 DEF Pass, Folded
    <3> QED
      BY <1>l, <1>m, <3>1, <3>3
  <2>3. CASE ~(ci + 1 <= count)
    <3>a. ci \in 1 .. count /\ count \in Nat
      BY <1>m, <1>t
    <3>b. ci = count
      BY <2>3, <3>a
    <3>1. ci = count /\ child' = "write min"
      BY <2>1, <2>3, <3>b
    <3>2. Pass'
      BY <1>m, <3>1 DEF Pass, Folded
    <3> QED
      BY <1>l, <1>m, <3>1, <3>2
  <2> QED
    BY <2>2, <2>3
<1>4. CASE TestMax
  <2>1. UNCHANGED <<seg, count, printed, fresh, cnt, cmin, cmax>> /\ child = "max?"
    BY <1>4 DEF TestMax, parentVars
  <2>2. cnt = count /\ ci \in 2 .. count /\ ci \in Nat /\ ci \in 1 .. count
        /\ IsLow(seg, cmin, ci) /\ IsHigh(seg, cmax, ci - 1)
    BY <1>p, <1>t, <2>1 DEF Pass
  <2>3. CASE seg[ci] > cmax
    <3>1. child' = "max=" /\ ci' = ci
      BY <1>4, <2>3 DEF TestMax
    <3>2. Pass'
      BY <2>1, <2>2, <2>3, <3>1 DEF Pass
    <3> QED
      BY <1>l, <2>1, <3>1, <3>2
  <2>4. CASE ~(seg[ci] > cmax)
    <3>1. IsHigh(seg, cmax', ci)
      BY <1>t, <2>1, <2>2, <2>4, HighExtends
    <3>2. NextNumber
      BY <1>4, <2>4 DEF TestMax
    <3> QED
      BY <1>m, <2>1, <2>2, <3>1, <3>2
  <2> QED
    BY <2>3, <2>4
<1>5. CASE SetMax
  <2>1. UNCHANGED <<seg, count, printed, fresh, cnt, cmin>> /\ child = "max=" /\ cmax' = seg[ci]
        /\ NextNumber
    BY <1>5 DEF SetMax, parentVars
  <2>2. cnt = count /\ IsLow(seg, cmin, ci)
        /\ (ci = 1 \/ (ci \in 2 .. count /\ IsHigh(seg, cmax, ci - 1) /\ seg[ci] > cmax))
    BY <1>p, <2>1 DEF Pass
  <2>3. ci \in 1 .. count
    BY <1>t, <2>2
  <2>4. IsHigh(seg, cmax', ci)
    <3>1. CASE ci = 1
      BY <1>t, <2>1, <3>1, FirstIsBoth
    <3>2. CASE ci # 1
      <4>1. ci \in Nat
        BY <1>t, <2>3
      <4> QED
        BY <1>t, <2>1, <2>2, <3>2, <4>1, HighExtends
    <3> QED
      BY <3>1, <3>2
  <2> QED
    BY <1>m, <2>1, <2>2, <2>3, <2>4
<1>b. ASSUME NEW k \in {1, 2}, NEW v \in Int, seg' = [seg EXCEPT ![count + k] = v]
      PROVE  /\ seg'[count + k] = v /\ seg'[count + (3 - k)] = seg[count + (3 - k)]
             /\ \A i \in 1 .. count : seg'[i] = seg[i]
  <2>1. \A i \in 0 .. count + 2 : i \in Cell
    BY <1>t, CellHolds
  <2>2. count + k \in Cell /\ count + (3 - k) \in Cell /\ count + (3 - k) # count + k
    BY <1>t, <2>1
  <2>3. \A i \in 1 .. count : i \in Cell /\ i # count + k
    BY <1>t, <2>1
  <2> QED
    BY <1>b, <1>t, <2>2, <2>3
<1>q. \A i \in 1 .. Len(printed) : i \in 1 .. count
  <2>1. Len(printed) \in Nat /\ Len(printed) <= count
    <3>1. parent \in {"print", "sleep"} /\ printed \in Seq(Int)
      BY DEF ShmInv, ShmType, ShmRound
    <3>2. Len(printed) \in Nat
      BY <3>1, LenProperties
    <3> QED
      BY <1>t, <3>1, <3>2 DEF ShmInv, ShmRound
  <2> QED
    BY <1>t, <2>1
<1>6. CASE WriteMin
  <2>1. UNCHANGED <<count, printed, fresh, cnt, ci, cmin, cmax>> /\ child = "write min"
        /\ child' = "write max"
    BY <1>6 DEF WriteMin, parentVars
  <2>2. cnt = count /\ Folded(count)
    BY <1>p, <2>1 DEF Pass
  <2>3. seg' = [seg EXCEPT ![count + 1] = cmin]
    BY <1>6, <2>2 DEF WriteMin
  <2>4. /\ seg'[count + 1] = cmin /\ seg'[count + 2] = seg[count + 2]
        /\ \A i \in 1 .. count : seg'[i] = seg[i]
    <3>1. 1 \in {1, 2} /\ count + (3 - 1) = count + 2
      BY <1>t
    <3> QED
      BY <1>b, <1>t, <2>3, <3>1
  <2>5. \A m : /\ IsLow(seg, m, count) <=> IsLow(seg', m, count)
               /\ IsHigh(seg, m, count) <=> IsHigh(seg', m, count)
    BY <2>4, BehindNumbers
  <2>6. Folded(count)'
    BY <2>1, <2>2, <2>5 DEF Folded
  <2>7. Pass'
    BY <2>1, <2>2, <2>6 DEF Pass
  <2>8. \A i \in 1 .. Len(printed') : printed'[i] = seg'[i]
    BY <1>p, <1>q, <2>1, <2>4
  <2>9. IsLow(seg', seg'[count + 1], count)
    BY <2>2, <2>4, <2>5 DEF Folded
  <2>10. fresh = "yes" => IsHigh(seg', seg'[count + 2], count)
    BY <1>y, <2>4, <2>5
  <2> QED
    BY <2>1, <2>7, <2>8, <2>9, <2>10 DEF Result
<1>7. CASE WriteMax
  <2>1. UNCHANGED <<count, printed>> /\ child = "write max" /\ child' = "idle"
    BY <1>7 DEF WriteMax, parentVars
  <2>2. cnt = count /\ Folded(count)
    BY <1>p, <2>1 DEF Pass
  <2>3. seg' = [seg EXCEPT ![count + 2] = cmax]
    BY <1>7, <2>2 DEF WriteMax
  <2>4. /\ seg'[count + 2] = cmax /\ seg'[count + 1] = seg[count + 1]
        /\ \A i \in 1 .. count : seg'[i] = seg[i]
    <3>1. 2 \in {1, 2} /\ count + (3 - 2) = count + 1
      BY <1>t
    <3> QED
      BY <1>b, <1>t, <2>3, <3>1
  <2>5. \A m : /\ IsLow(seg, m, count) <=> IsLow(seg', m, count)
               /\ IsHigh(seg, m, count) <=> IsHigh(seg', m, count)
    BY <2>4, BehindNumbers
  <2>6. Pass'
    BY <2>1 DEF Pass
  <2>7. \A i \in 1 .. Len(printed') : printed'[i] = seg'[i]
    BY <1>p, <1>q, <2>1, <2>4
  <2>8. IsLow(seg', seg'[count + 1], count) /\ IsHigh(seg', seg'[count + 2], count)
    BY <1>y, <2>1, <2>2, <2>4, <2>5 DEF Folded
  <2> QED
    BY <2>1, <2>6, <2>7, <2>8 DEF Result
<1>8. CASE ChildEnds
  <2>1. Pass'
    BY <1>8 DEF ChildEnds, Pass
  <2> QED
    BY <1>8, <1>l, <2>1 DEF ChildEnds, parentVars
<1> QED
  BY <1>1, <1>2, <1>3, <1>4, <1>5, <1>6, <1>7, <1>8

-----------------------------------------------------------------------------
\* If findMinMax was asleep when the last number was written and has run since,
\* the report is the minimum and the maximum of the printed numbers, however
\* many numbers there are and whatever was in the segment before
\* (Task 12/main.c:18-37, 76-86).
THEOREM ReportAlwaysRight == ShmSpec => []ReportRight
<1>1. ShmInit => ShmInv
  <2> SUFFICES ASSUME ShmInit PROVE ShmInv
    OBVIOUS
  <2>1. seg \in [Cell -> Int] /\ seg[0] = 0
    <3>1. 0 \in 0 .. 0 + 2 /\ 0 \in Count \cup {0}
      OBVIOUS
    <3>2. 0 \in Cell
      BY <3>1, CellHolds
    <3>3. seg = [i \in Cell |-> 0]
      BY DEF ShmInit
    <3> QED
      BY <3>2, <3>3
  <2>2. ShmType
    BY <2>1, EmptySeq DEF ShmInit, ShmType, Looping
  <2> QED
    BY <2>2 DEF ShmInit, ShmInv, ShmRound, Result
<1>2. ShmInv /\ [ShmNext]_shmVars => ShmInv'
  <2> SUFFICES ASSUME ShmInv, [ShmNext]_shmVars PROVE ShmInv'
    OBVIOUS
  <2>1. ShmType' /\ ShmRound'
    BY ShmTypeStep, RoundStep DEF ShmInv
  <2>2. CASE UNCHANGED shmVars
    <3>1. UNCHANGED <<seg, count, printed, fresh, child, cnt, ci, cmin, cmax>>
      BY <2>2 DEF shmVars, parentVars, childVars
    <3>2. Pass => Pass'
      BY <3>1 DEF Pass, Folded
    <3>3. Result'
      BY <3>1, <3>2 DEF ShmInv, Result
    <3> QED
      BY <2>1, <3>3 DEF ShmInv
  <2>3. CASE ShmNext
    BY <2>1, <2>3, ParentKeepsResult, ChildKeepsResult DEF ShmNext, ShmInv
  <2> QED
    BY <2>2, <2>3
<1>3. ShmInv => ReportRight
  <2> SUFFICES ASSUME ShmInv, parent = "sleep", fresh = "yes"
               PROVE  /\ \A i \in 1 .. count :
                           seg[count + 1] <= printed[i] /\ printed[i] <= seg[count + 2]
                      /\ {seg[count + 1], seg[count + 2]} \subseteq {printed[i] : i \in 1 .. count}
    BY DEF ReportRight
  <2>1. /\ IsLow(seg, seg[count + 1], count) /\ IsHigh(seg, seg[count + 2], count)
        /\ \A i \in 1 .. count : printed[i] = seg[i]
    BY DEF ShmInv, Result, ShmRound
  <2> QED
    BY <2>1 DEF IsLow, IsHigh
<1> QED
  BY <1>1, <1>2, <1>3, PTL DEF ShmSpec

-----------------------------------------------------------------------------
(***************************************************************************)
(* PhoneBook: a run starts from the last save, for any people, any sizes   *)
(* of the two arrays and of the texts, and any number of saves, cut short  *)
(* or not.                                                                 *)
(***************************************************************************)
\* What was typed, or what fscanf made of the file: a name read up to a bar may
\* hold line ends, a typed one may hold bars.
Rec == {r \in [id : Seq(Char), name : Seq(Char), surname : Seq(Char)] :
          /\ IsId(r.id)
          /\ Len(r.name) <= WIDTH /\ Len(r.surname) <= WIDTH
          /\ ~Has(r.surname, Newline)
          /\ ~Has(r.name, Bar) \/ ~Has(r.name, Newline)}

\* A line as fscanf takes it apart: m characters of an id, a bar, k - 1 more up
\* to the next bar, and what is left up to the line end.
Shape(l, m, k) ==
    /\ l \in Seq(Char) /\ m \in Nat /\ k \in Nat
    /\ 1 <= m /\ 1 <= k /\ m + k + 2 <= Len(l)
    /\ l[1] \in Digit \/ (l[1] \in Sign /\ 2 <= m)
    /\ \A j \in 2 .. m : l[j] \in Digit
    /\ l[m + 1] = Bar /\ l[m + k + 1] = Bar
    /\ \A j \in m + 2 .. m + k : l[j] # Bar
    /\ \A j \in m + k + 2 .. Len(l) - 1 : l[j] # Newline
    /\ l[Len(l)] = Newline
    /\ k - 1 <= WIDTH /\ Len(l) - (m + k + 2) <= WIDTH

\* Line l is the file from character p + 1 to q; the file ends there, at the
\* latest within the line, or goes on with another record.
Lies(l, p, q) ==
    /\ p \in Nat /\ q \in p + 1 .. Len(phonebook) /\ q <= p + Len(l)
    /\ \A j \in 1 .. q - p : phonebook[p + j] = l[j]
    /\ q = Len(phonebook) \/ (q = p + Len(l) /\ phonebook[q + 1] \notin White)

-----------------------------------------------------------------------------
(* Runs of characters, and where they stop. *)

\* A set of numbers has a least one.
LEMMA LeastNumber == ASSUME NEW S \in SUBSET Nat, S # {} PROVE \E k \in S : \A j \in S : k <= j
<1> DEFINE R == {ss \in Nat \X Nat : ss[1] < ss[2]}
<1>1. IsWellFoundedOn(R, Nat)
  BY NatLessThanWellFounded DEF OpToRel
<1>2. PICK k \in S : \A j \in S : ~ (<<j, k>> \in R)
  <2> HIDE DEF R
  <2> QED
    BY <1>1, WFMin
<1>3. \A j \in S : ~ (j < k) /\ j \in Nat /\ k \in Nat
  BY <1>2
<1> HIDE DEF R
<1> QED
  BY <1>3

\* There is one place where a run stops.
LEMMA StopIs ==
    ASSUME phonebook \in Seq(Char), NEW p \in Nat, NEW C, NEW w \in Nat, NEW q, Run(p, C, w, q)
    PROVE  Stop(p, C, w) = q
<1>1. Len(phonebook) \in Nat
  OBVIOUS
<1>2. ASSUME NEW r, NEW s, Run(p, C, w, r), Run(p, C, w, s), r < s PROVE FALSE
  <2>1. r \in Int /\ s \in Int /\ p <= r /\ s <= Len(phonebook) /\ s - p <= w
    BY <1>1, <1>2 DEF Run
  <2>2. phonebook[r + 1] \notin C
    BY <1>1, <1>2, <2>1 DEF Run
  <2>3. r + 1 \in p + 1 .. s
    BY <1>2, <2>1
  <2> QED
    BY <1>2, <2>2, <2>3 DEF Run
<1>3. \A r : Run(p, C, w, r) => r = q
  <2> SUFFICES ASSUME NEW r, Run(p, C, w, r) PROVE r = q
    OBVIOUS
  <2>1. r \in Int /\ q \in Int
    BY <1>1 DEF Run
  <2>2. ~(r < q)
    BY <1>2
  <2>3. ~(q < r)
    BY <1>2
  <2> QED
    BY <2>1, <2>2, <2>3
<1>4. q \in p .. Len(phonebook)
  BY DEF Run
<1> QED
  BY <1>3, <1>4 DEF Stop

\* And there is always one.
LEMMA StopRuns ==
    ASSUME phonebook \in Seq(Char), NEW p \in 0 .. Len(phonebook), NEW C, NEW w \in Nat
    PROVE  Run(p, C, w, Stop(p, C, w))
<1>1. Len(phonebook) \in Nat /\ p \in Nat
  OBVIOUS
<1> DEFINE S == {n \in Nat : /\ p + n <= Len(phonebook)
                             /\ n = w \/ p + n = Len(phonebook) \/ phonebook[p + n + 1] \notin C}
           top == IF Len(phonebook) - p <= w THEN Len(phonebook) - p ELSE w
<1>2. top \in S /\ top <= w
  BY <1>1
<1>3. PICK n \in S : \A j \in S : n <= j
  <2> HIDE DEF S
  <2>1. S # {}
    BY <1>2
  <2>2. S \in SUBSET Nat
    BY DEF S
  <2> QED
    BY <2>1, <2>2, LeastNumber
<1>4. n \in Nat /\ n <= w /\ p + n <= Len(phonebook)
  <2>1. n <= top /\ top \in Nat
    BY <1>2, <1>3
  <2> HIDE DEF top
  <2> QED
    BY <1>2, <2>1
<1>5. ASSUME NEW i \in p + 1 .. p + n PROVE phonebook[i] \in C
  <2>1. i - p - 1 \in Nat /\ i - p - 1 < n /\ p + (i - p - 1) + 1 = i
    BY <1>1, <1>4
  <2>2. i - p - 1 \notin S
    <3> HIDE DEF S
    <3> SUFFICES ASSUME i - p - 1 \in S PROVE FALSE
      OBVIOUS
    <3>1. n <= i - p - 1
      BY <1>3
    <3> QED
      BY <1>4, <2>1, <3>1
  <2>3. p + (i - p - 1) <= Len(phonebook) /\ i - p - 1 # w /\ p + (i - p - 1) # Len(phonebook)
    BY <1>1, <1>4, <2>1
  <2> QED
    BY <2>1, <2>2, <2>3
<1>6. Run(p, C, w, p + n)
  BY <1>1, <1>3, <1>4, <1>5 DEF Run
<1>7. p + n \in p .. Len(phonebook)
  BY <1>1, <1>4
<1> HIDE DEF S, top
<1> QED
  BY <1>6, <1>7 DEF Stop

-----------------------------------------------------------------------------
(* What fscanf finds where a line lies. *)

LEMMA Width == WIDTH \in Nat
BY PhoneBookAssumption

LEMMA LiesFacts ==
    ASSUME phonebook \in Seq(Char), NEW l, NEW m, NEW k, NEW p, NEW q,
           Shape(l, m, k), Lies(l, p, q)
    PROVE  /\ p \in Nat /\ q \in Nat /\ m \in Nat /\ k \in Nat
           /\ Len(phonebook) \in Nat /\ Len(l) \in Nat
           /\ p < q /\ q <= Len(phonebook) /\ q <= p + Len(l)
           /\ 1 <= m /\ 1 <= k /\ m + k + 2 <= Len(l)
           /\ \A i \in p + 1 .. q : phonebook[i] = l[i - p] /\ phonebook[i] \in Char
           /\ q < p + Len(l) => q = Len(phonebook)
<1>1. /\ p \in Nat /\ q \in Int /\ m \in Nat /\ k \in Nat
      /\ Len(phonebook) \in Nat /\ Len(l) \in Nat
      /\ p < q /\ q <= Len(phonebook) /\ q <= p + Len(l)
      /\ 1 <= m /\ 1 <= k /\ m + k + 2 <= Len(l)
      /\ q < p + Len(l) => q = Len(phonebook)
  BY DEF Shape, Lies
<1>2. ASSUME NEW i \in p + 1 .. q PROVE phonebook[i] = l[i - p] /\ phonebook[i] \in Char
  <2>1. i - p \in 1 .. q - p /\ p + (i - p) = i /\ i \in 1 .. Len(phonebook)
    BY <1>1
  <2>2. phonebook[p + (i - p)] = l[i - p]
    BY <2>1 DEF Lies
  <2> QED
    BY <2>1, <2>2, ElementOfSeq
<1> QED
  BY <1>1, <1>2

\* %d stops at the bar, or at the end of a file that was cut before it.
LEMMA IdScan ==
    ASSUME phonebook \in Seq(Char), NEW l, NEW m, NEW k, NEW p, NEW q,
           Shape(l, m, k), Lies(l, p, q)
    PROVE  /\ IdBegins(p) = p
           /\ p + m < q => IdEnds(p) = p + m /\ DigitsBegin(p) < p + m
           /\ q <= p + m => IdEnds(p) = Len(phonebook)
<1>1. /\ p \in Nat /\ q \in Nat /\ m \in Nat
      /\ Len(phonebook) \in Nat /\ Len(l) \in Nat
      /\ p < q /\ q <= Len(phonebook)
      /\ 1 <= m /\ m < Len(l)
      /\ \A i \in p + 1 .. q : phonebook[i] = l[i - p]
      /\ q <= p + m => q = Len(phonebook)
  BY LiesFacts
<1>2. phonebook[p + 1] = l[1] /\ p + 1 \in p + 1 .. q
  <2>1. p + 1 \in p + 1 .. q /\ (p + 1) - p = 1
    BY <1>1
  <2> QED
    BY <1>1, <2>1
<1>3. IdBegins(p) = p
  <2>1. phonebook[p + 1] \notin White
    BY <1>2 DEF Shape, White, Newline, Digit, Sign
  <2>2. Run(p, White, Len(phonebook), p)
    BY <1>1, <2>1 DEF Run
  <2> QED
    BY <1>1, <2>2, StopIs DEF IdBegins, ToEnd
<1> DEFINE d == IF l[1] \in Sign THEN p + 1 ELSE p
<1>4. DigitsBegin(p) = d
  BY <1>1, <1>2, <1>3 DEF DigitsBegin, AtChar
<1>5. /\ d \in Nat /\ p <= d /\ d < p + m /\ d <= q
      /\ \A i \in d + 1 .. q : i <= p + m => phonebook[i] \in Digit
  <2>1. CASE l[1] \in Sign
    <3>1. 2 <= m /\ d = p + 1
      BY <2>1 DEF Shape, Sign, Digit
    <3>2. ASSUME NEW i \in d + 1 .. q, i <= p + m PROVE phonebook[i] \in Digit
      <4>1. i \in p + 1 .. q /\ i - p \in 2 .. m
        BY <1>1, <3>1, <3>2
      <4> QED
        BY <1>1, <4>1 DEF Shape
    <3> QED
      BY <1>1, <3>1, <3>2
  <2>2. CASE l[1] \notin Sign
    <3>1. l[1] \in Digit /\ d = p
      BY <2>2 DEF Shape
    <3>2. ASSUME NEW i \in d + 1 .. q, i <= p + m PROVE phonebook[i] \in Digit
      <4>1. i \in p + 1 .. q /\ (i - p = 1 \/ i - p \in 2 .. m)
        BY <1>1, <3>1, <3>2
      <4> QED
        BY <1>1, <3>1, <4>1 DEF Shape
    <3> QED
      BY <1>1, <3>1, <3>2
  <2> QED
    BY <2>1, <2>2
<1> HIDE DEF d
<1>6. CASE p + m < q
  <2>1. phonebook[p + m + 1] = Bar
    <3>1. p + m + 1 \in p + 1 .. q /\ (p + m + 1) - p = m + 1
      BY <1>1, <1>6
    <3> QED
      BY <1>1, <3>1 DEF Shape
  <2>2. Bar \notin Digit
    BY DEF Bar, Digit
  <2>3. Run(d, Digit, Len(phonebook), p + m)
    BY <1>1, <1>5, <1>6, <2>1, <2>2 DEF Run
  <2>4. IdEnds(p) = p + m
    BY <1>1, <1>4, <1>5, <2>3, StopIs DEF IdEnds, ToEnd
  <2> QED
    BY <1>1, <1>3, <1>4, <1>5, <1>6, <2>4
<1>7. CASE q <= p + m
  <2>1. q = Len(phonebook)
    BY <1>1, <1>7
  <2>2. Run(d, Digit, Len(phonebook), q)
    BY <1>1, <1>5, <1>7, <2>1 DEF Run
  <2>3. IdEnds(p) = q
    BY <1>1, <1>4, <1>5, <2>2, StopIs DEF IdEnds, ToEnd
  <2> QED
    BY <1>1, <1>3, <1>7, <2>1, <2>3
<1> QED
  BY <1>1, <1>6, <1>7

\* %29[^|] stops at the second bar, or at the end of the file.
LEMMA NameScan ==
    ASSUME phonebook \in Seq(Char), NEW l, NEW m, NEW k, NEW p, NEW q,
           Shape(l, m, k), Lies(l, p, q), p + m < q
    PROVE  /\ AtChar(IdEnds(p), {Bar})
           /\ p + m + k < q => NameEnds(p) = p + m + k /\ AtChar(NameEnds(p), {Bar})
           /\ ~(p + m + k < q) => NameEnds(p) = Len(phonebook)
<1>1. /\ p \in Nat /\ q \in Nat /\ m \in Nat /\ k \in Nat
      /\ Len(phonebook) \in Nat /\ Len(l) \in Nat /\ WIDTH \in Nat
      /\ q <= Len(phonebook) /\ 1 <= k /\ k - 1 <= WIDTH
      /\ \A i \in p + 1 .. q : phonebook[i] = l[i - p] /\ phonebook[i] \in Char
      /\ q <= p + m + k => q = Len(phonebook)
  <2>1. m + k + 2 <= Len(l) /\ (q < p + Len(l) => q = Len(phonebook))
    BY LiesFacts
  <2>2. /\ p \in Nat /\ q \in Nat /\ m \in Nat /\ k \in Nat
        /\ Len(phonebook) \in Nat /\ Len(l) \in Nat
        /\ q <= Len(phonebook) /\ 1 <= k
        /\ \A i \in p + 1 .. q : phonebook[i] = l[i - p] /\ phonebook[i] \in Char
    BY LiesFacts
  <2> QED
    BY <2>1, <2>2, Width DEF Shape
<1>2. IdEnds(p) = p + m
  BY IdScan
<1>3. \A i \in p + 1 .. q : (i = p + m + 1 \/ i = p + m + k + 1) => phonebook[i] = Bar
  <2> TAKE i \in p + 1 .. q
  <2>1. i = p + m + 1 => i - p = m + 1
    BY <1>1
  <2>2. i = p + m + k + 1 => i - p = m + k + 1
    BY <1>1
  <2> QED
    BY <1>1, <2>1, <2>2 DEF Shape
<1>4. AtChar(IdEnds(p), {Bar})
  BY <1>1, <1>2, <1>3 DEF AtChar
<1>5. ASSUME NEW i \in p + m + 2 .. q, i <= p + m + k PROVE phonebook[i] \in Char \ {Bar}
  <2>1. i \in p + 1 .. q /\ i - p \in m + 2 .. m + k
    BY <1>1, <1>5
  <2> QED
    BY <1>1, <2>1 DEF Shape
<1>6. CASE p + m + k < q
  <2>1. phonebook[p + m + k + 1] = Bar
    <3>1. p \in Nat /\ q \in Nat /\ m \in Nat /\ k \in Nat
      BY <1>1
    <3>2. p + m + k + 1 \in p + 1 .. q
      BY <1>6, <3>1
    <3> QED
      BY <1>3, <3>2
  <2>2. Run(p + m + 1, Char \ {Bar}, WIDTH, p + m + k)
    BY <1>1, <1>5, <1>6, <2>1 DEF Run
  <2>3. NameEnds(p) = p + m + k
    BY <1>1, <1>2, <2>2, StopIs DEF NameEnds
  <2> QED
    BY <1>1, <1>4, <1>6, <2>1, <2>3 DEF AtChar
<1>7. CASE q <= p + m + k
  <2>1. q = Len(phonebook)
    BY <1>1, <1>7
  <2>2. Run(p + m + 1, Char \ {Bar}, WIDTH, q)
    BY <1>1, <1>5, <1>7, <2>1 DEF Run
  <2>3. NameEnds(p) = q
    BY <1>1, <1>2, <2>2, StopIs DEF NameEnds
  <2> QED
    BY <1>1, <1>4, <1>7, <2>1, <2>3
<1> QED
  BY <1>1, <1>6, <1>7

\* %29[^\n] stops at the line end, which the last white space takes, or at the
\* end of the file.
LEMMA SurnameScan ==
    ASSUME phonebook \in Seq(Char), NEW l, NEW m, NEW k, NEW p, NEW q,
           Shape(l, m, k), Lies(l, p, q), p + m + k < q
    PROVE  /\ q = p + Len(l) => SurnameEnds(p) = q - 1
           /\ RecordEnds(p) = q
<1>1. /\ p \in Nat /\ q \in Nat /\ m \in Nat /\ k \in Nat
      /\ Len(phonebook) \in Nat /\ Len(l) \in Nat /\ WIDTH \in Nat
      /\ q <= Len(phonebook) /\ q <= p + Len(l) /\ m + k + 2 <= Len(l)
      /\ \A i \in p + 1 .. q : phonebook[i] = l[i - p] /\ phonebook[i] \in Char
      /\ q < p + Len(l) => q = Len(phonebook)
  BY LiesFacts, Width
<1>2. NameEnds(p) = p + m + k
  <2>1. p + m < q
    BY <1>1
  <2> QED
    BY <2>1, NameScan
<1>3. Len(l) - (m + k + 2) <= WIDTH
  BY DEF Shape
<1>4. ASSUME NEW i \in (p + m + k + 1) + 1 .. q, i < p + Len(l) PROVE phonebook[i] \in Char \ {Newline}
  <2>1. i \in p + 1 .. q /\ i - p \in m + k + 2 .. Len(l) - 1
    <3>1. p \in Nat /\ q \in Nat /\ m \in Nat /\ k \in Nat /\ Len(l) \in Nat
      BY <1>1
    <3> QED
      BY <1>4, <3>1
  <2> QED
    BY <1>1, <2>1 DEF Shape
<1>5. CASE q = p + Len(l)
  <2>1. phonebook[q] = Newline
    <3>1. q \in p + 1 .. q /\ q - p = Len(l)
      BY <1>1, <1>5
    <3> QED
      BY <1>1, <3>1 DEF Shape
  <2>2. Newline \notin Char \ {Newline} /\ Newline \in White
    BY DEF White
  <2>3. Run(p + m + k + 1, Char \ {Newline}, WIDTH, q - 1)
    <3>1. ASSUME NEW i \in (p + m + k + 1) + 1 .. q - 1 PROVE phonebook[i] \in Char \ {Newline}
      <4>1. i \in (p + m + k + 1) + 1 .. q /\ i < p + Len(l)
        BY <1>1, <1>5
      <4> QED
        BY <1>4, <4>1
    <3>2. /\ q - 1 \in p + m + k + 1 .. Len(phonebook) /\ (q - 1) + 1 = q
          /\ (q - 1) - (p + m + k + 1) <= WIDTH
      BY <1>1, <1>3, <1>5
    <3>3. phonebook[(q - 1) + 1] \notin Char \ {Newline}
      BY <2>1, <2>2, <3>2
    <3> QED
      BY <3>1, <3>2, <3>3 DEF Run
  <2>4. SurnameEnds(p) = q - 1
    <3>1. p + m + k + 1 \in Nat /\ WIDTH \in Nat
      BY <1>1
    <3>2. Stop(p + m + k + 1, Char \ {Newline}, WIDTH) = q - 1
      BY <2>3, <3>1, StopIs
    <3> QED
      BY <1>2, <3>2 DEF SurnameEnds
  <2>5. q = Len(phonebook) \/ phonebook[q + 1] \notin White
    BY DEF Lies
  <2>6. Run(q - 1, White, Len(phonebook), q) /\ q - 1 \in Nat
    BY <1>1, <1>5, <2>1, <2>2, <2>5 DEF Run
  <2>7. RecordEnds(p) = q
    BY <1>1, <2>4, <2>6, StopIs DEF RecordEnds, ToEnd
  <2> QED
    BY <2>4, <2>7
<1>6. CASE q < p + Len(l)
  <2>1. q = Len(phonebook)
    BY <1>1, <1>6
  <2>2. Run(p + m + k + 1, Char \ {Newline}, WIDTH, q)
    <3>1. ASSUME NEW i \in (p + m + k + 1) + 1 .. q PROVE phonebook[i] \in Char \ {Newline}
      <4>1. i < p + Len(l)
        BY <1>1, <1>6
      <4> QED
        BY <1>4, <4>1
    <3>2. q \in p + m + k + 1 .. Len(phonebook) /\ q - (p + m + k + 1) <= WIDTH
      BY <1>1, <1>3, <1>6, <2>1
    <3> QED
      BY <2>1, <3>1, <3>2 DEF Run
  <2>3. SurnameEnds(p) = q
    BY <1>1, <1>2, <2>2, StopIs DEF SurnameEnds
  <2>4. Run(q, White, Len(phonebook), q)
    BY <1>1, <2>1 DEF Run
  <2>5. RecordEnds(p) = q
    BY <1>1, <2>3, <2>4, StopIs DEF RecordEnds, ToEnd
  <2> QED
    BY <1>1, <1>6, <2>5
<1>7. q = p + Len(l) \/ q < p + Len(l)
  <2>1. q \in Nat /\ p + Len(l) \in Nat /\ q <= p + Len(l)
    BY <1>1
  <2> QED
    BY <2>1
<1> QED
  BY <1>5, <1>6, <1>7

\* Where a line lies fscanf takes that line, or nothing.
LEMMA LineScan ==
    ASSUME phonebook \in Seq(Char), NEW l, NEW m, NEW k, NEW p, NEW q,
           Shape(l, m, k), Lies(l, p, q), Matches(p)
    PROVE  RecordEnds(p) = q
<1>1. /\ p \in Nat /\ q \in Nat /\ m \in Nat /\ k \in Nat /\ Len(phonebook) \in Nat
  BY LiesFacts
<1>2. p + m < q
  <2> SUFFICES ASSUME q <= p + m PROVE FALSE
    BY <1>1
  <2>1. IdEnds(p) = Len(phonebook)
    BY IdScan
  <2> QED
    BY <1>1, <2>1 DEF Matches, AtChar
<1>3. ~(p + m + k < q) => NameEnds(p) = Len(phonebook)
  BY <1>2, NameScan
<1>4. p + m + k < q
  BY <1>1, <1>3 DEF Matches, AtChar
<1> QED
  BY <1>4, SurnameScan

\* Where all of a line lies fscanf takes it apart.
LiesWhole(l, p) == Lies(l, p, p + Len(l))
TakenApart(l, p, m, k) ==
    /\ IdBegins(p) = p /\ DigitsBegin(p) < p + m
    /\ IdEnds(p) = p + m /\ AtChar(p + m, {Bar})
    /\ NameEnds(p) = p + m + k /\ AtChar(p + m + k, {Bar})
    /\ SurnameEnds(p) = p + Len(l) - 1

LEMMA WholeLine ==
    ASSUME phonebook \in Seq(Char), NEW l, NEW m, NEW k, NEW p, Shape(l, m, k), LiesWhole(l, p)
    PROVE  TakenApart(l, p, m, k)
<1> DEFINE q == p + Len(l)
<1>1. Lies(l, p, q)
  BY DEF LiesWhole
<1>2. /\ p \in Nat /\ m \in Nat /\ k \in Nat /\ Len(l) \in Nat /\ 1 <= k
      /\ m + k + 2 <= Len(l)
  <2> HIDE DEF q
  <2> QED
    BY <1>1, LiesFacts
<1>3. p + m < q /\ p + m + k < q
  BY <1>2
<1>4. q = p + Len(l)
  OBVIOUS
<1> HIDE DEF q
<1>5. IdBegins(p) = p /\ DigitsBegin(p) < p + m /\ IdEnds(p) = p + m
  BY <1>1, <1>3, IdScan
<1>6. AtChar(IdEnds(p), {Bar}) /\ NameEnds(p) = p + m + k /\ AtChar(NameEnds(p), {Bar})
  <2>1. p + m < q
    BY <1>3
  <2>2. AtChar(IdEnds(p), {Bar})
    BY <1>1, <2>1, NameScan
  <2>3. p + m + k < q => NameEnds(p) = p + m + k
    BY <1>1, <2>1, NameScan
  <2>4. p + m + k < q => AtChar(NameEnds(p), {Bar})
    BY <1>1, <2>1, NameScan
  <2> QED
    BY <1>3, <2>2, <2>3, <2>4
<1>7. SurnameEnds(p) = q - 1
  BY <1>1, <1>3, <1>4, SurnameScan
<1>8. AtChar(p + m, {Bar}) /\ AtChar(p + m + k, {Bar})
  BY <1>5, <1>6
<1>9. SurnameEnds(p) = p + Len(l) - 1
  <2>1. q - 1 = p + Len(l) - 1
    BY <1>2 DEF q
  <2> QED
    BY <1>7, <2>1
<1> QED
  BY <1>5, <1>6, <1>8, <1>9 DEF TakenApart

-----------------------------------------------------------------------------
(* A record and its line. *)

LEMMA IdShape ==
    ASSUME NEW t, IsNumber(t)
    PROVE  /\ t \in Seq(Char) /\ 1 <= Len(t)
           /\ t[1] \in Digit \/ (t[1] \in Sign /\ 2 <= Len(t))
           /\ \A j \in 2 .. Len(t) : t[j] \in Digit
<1>1. t \in Seq(Char) /\ t # <<>> /\ DigitsOf(t) # <<>>
  BY DEF IsNumber
<1>2. 1 <= Len(t) /\ Len(t) \in Nat
  BY <1>1
<1>3. \A i \in 1 .. Len(DigitsOf(t)) : DigitsOf(t)[i] \in Digit
  BY DEF IsNumber
<1>4. CASE t[1] \in Sign
  <2>1. DigitsOf(t) = Tail(t)
    BY <1>4 DEF DigitsOf
  <2>2. Len(Tail(t)) = Len(t) - 1 /\ \A i \in 1 .. Len(Tail(t)) : Tail(t)[i] = t[i + 1]
    BY <1>1
  <2>3. 2 <= Len(t)
    <3> SUFFICES ASSUME ~(2 <= Len(t)) PROVE FALSE
      OBVIOUS
    <3>1. Tail(t) = SubSeq(t, 2, Len(t))
      BY <1>1, TailIsSubSeq
    <3>2. SubSeq(t, 2, Len(t)) = <<>>
      BY <1>2, SubSeqEmpty
    <3> QED
      BY <1>1, <2>1, <3>1, <3>2
  <2>4. ASSUME NEW j \in 2 .. Len(t) PROVE t[j] \in Digit
    <3>1. j - 1 \in 1 .. Len(Tail(t)) /\ (j - 1) + 1 = j
      BY <1>2, <2>2
    <3> QED
      BY <1>3, <2>1, <2>2, <3>1
  <2> QED
    BY <1>1, <1>2, <1>4, <2>3, <2>4
<1>5. CASE t[1] \notin Sign
  <2>1. DigitsOf(t) = t
    BY <1>5 DEF DigitsOf
  <2>2. \A i \in 1 .. Len(t) : t[i] \in Digit
    BY <1>3, <2>1
  <2> QED
    BY <1>1, <1>2, <2>2
<1> QED
  BY <1>4, <1>5

\* One text behind another.
IsText(s, n) == s \in Seq(Char) /\ n \in Nat /\ Len(s) = n
Joins(u, s, n, t, m) ==
    /\ IsText(u, n + m)
    /\ \A j \in 1 .. n : u[j] = s[j]
    /\ \A j \in 1 .. m : u[n + j] = t[j]
EndsIn(u, s, n, x) ==
    /\ IsText(u, n + 1)
    /\ \A j \in 1 .. n : u[j] = s[j]
    /\ u[n + 1] = x

LEMMA Joined ==
    ASSUME NEW s, NEW t, NEW n, NEW m, IsText(s, n), IsText(t, m)
    PROVE  Joins(s \o t, s, n, t, m)
<1>1. /\ s \in Seq(Char) /\ t \in Seq(Char) /\ n \in Nat /\ m \in Nat
      /\ Len(s) = n /\ Len(t) = m
  BY DEF IsText
<1>2. /\ s \o t \in Seq(Char)
      /\ Len(s \o t) = Len(s) + Len(t)
      /\ \A i \in 1 .. Len(s) + Len(t) : (s \o t)[i] = IF i <= Len(s) THEN s[i] ELSE t[i - Len(s)]
  BY <1>1, ConcatProperties
<1> DEFINE u == s \o t
<1> HIDE DEF u
<1>3. /\ IsText(u, n + m)
      /\ \A i \in 1 .. n + m : u[i] = IF i <= n THEN s[i] ELSE t[i - n]
  BY <1>1, <1>2 DEF IsText, u
<1>4. ASSUME NEW j \in 1 .. m PROVE u[n + j] = t[j]
  <2>1. n + j \in 1 .. n + m /\ ~(n + j <= n) /\ (n + j) - n = j
    BY <1>1
  <2> QED
    BY <1>3, <2>1
<1>5. ASSUME NEW j \in 1 .. n PROVE u[j] = s[j]
  <2>1. j \in 1 .. n + m /\ j <= n
    BY <1>1
  <2> QED
    BY <1>3, <2>1
<1>6. Joins(u, s, n, t, m)
  BY <1>3, <1>4, <1>5 DEF Joins
<1> QED
  BY <1>6 DEF u

LEMMA EndsHere ==
    ASSUME NEW s, NEW n, NEW x \in Char, IsText(s, n)
    PROVE  EndsIn(s \o <<x>>, s, n, x)
<1> DEFINE t == <<x>>
           u == s \o t
<1>1. IsText(t, 1) /\ t[1] = x
  BY DEF IsText
<1> HIDE DEF t
<1>2. Joins(u, s, n, t, 1)
  BY <1>1, Joined
<1> HIDE DEF u
<1>3. u[n + 1] = x
  BY <1>1, <1>2 DEF Joins
<1>4. EndsIn(u, s, n, x)
  BY <1>2, <1>3 DEF Joins, EndsIn
<1> QED
  BY <1>4 DEF t, u

LEMMA LineParts ==
    ASSUME NEW r \in Rec
    PROVE  \E m \in Nat, y \in Nat, z \in Nat :
             /\ IsText(r.id, m) /\ IsText(r.name, y) /\ IsText(r.surname, z)
             /\ IsText(Line(r), m + y + z + 3)
             /\ \A j \in 1 .. m : Line(r)[j] = r.id[j]
             /\ Line(r)[m + 1] = Bar
             /\ \A j \in 1 .. y : Line(r)[m + 1 + j] = r.name[j]
             /\ Line(r)[m + y + 2] = Bar
             /\ \A j \in 1 .. z : Line(r)[m + y + 2 + j] = r.surname[j]
             /\ Line(r)[m + y + z + 3] = Newline
<1>1. r.id \in Seq(Char) /\ r.name \in Seq(Char) /\ r.surname \in Seq(Char)
  BY DEF Rec
<1>2. Bar \in Char /\ Newline \in Char
  BY PhoneBookAssumption DEF White
<1>3. PICK m \in Nat, y \in Nat, z \in Nat : IsText(r.id, m) /\ IsText(r.name, y) /\ IsText(r.surname, z)
  BY <1>1 DEF IsText
<1> DEFINE a == r.id \o <<Bar>>
           b == a \o r.name
           c == b \o <<Bar>>
           d == c \o r.surname
<1>4. EndsIn(a, r.id, m, Bar)
  BY <1>2, <1>3, EndsHere
<1> HIDE DEF a
<1>5. Joins(b, a, m + 1, r.name, y)
  BY <1>3, <1>4, Joined DEF EndsIn
<1> HIDE DEF b
<1>6. EndsIn(c, b, m + 1 + y, Bar)
  BY <1>2, <1>5, EndsHere DEF Joins
<1> HIDE DEF c
<1>7. Joins(d, c, m + 1 + y + 1, r.surname, z)
  BY <1>3, <1>6, Joined DEF EndsIn
<1>8. Line(r) = d \o <<Newline>>
  BY DEF Line, a, b, c
<1> HIDE DEF d
<1>9. EndsIn(Line(r), d, m + 1 + y + 1 + z, Newline)
  BY <1>2, <1>7, <1>8, EndsHere DEF Joins
<1>10. ASSUME NEW j \in 1 .. m PROVE Line(r)[j] = r.id[j]
  <2>1. /\ j \in 1 .. m + 1 /\ j \in 1 .. m + 1 + y /\ j \in 1 .. m + 1 + y + 1
        /\ j \in 1 .. m + 1 + y + 1 + z
    OBVIOUS
  <2> QED
    BY <1>4, <1>5, <1>6, <1>7, <1>9, <2>1 DEF EndsIn, Joins
<1>11. Line(r)[m + 1] = Bar
  <2>1. /\ m + 1 \in 1 .. m + 1 /\ m + 1 \in 1 .. m + 1 + y /\ m + 1 \in 1 .. m + 1 + y + 1
        /\ m + 1 \in 1 .. m + 1 + y + 1 + z
    OBVIOUS
  <2> QED
    BY <1>4, <1>5, <1>6, <1>7, <1>9, <2>1 DEF EndsIn, Joins
<1>12. ASSUME NEW j \in 1 .. y PROVE Line(r)[m + 1 + j] = r.name[j]
  <2>1. /\ m + 1 + j \in 1 .. m + 1 + y /\ m + 1 + j \in 1 .. m + 1 + y + 1
        /\ m + 1 + j \in 1 .. m + 1 + y + 1 + z
    OBVIOUS
  <2> QED
    BY <1>5, <1>6, <1>7, <1>9, <2>1 DEF EndsIn, Joins
<1>13. Line(r)[m + y + 2] = Bar
  <2>1. /\ m + y + 2 = m + 1 + y + 1 /\ m + 1 + y + 1 \in 1 .. m + 1 + y + 1
        /\ m + 1 + y + 1 \in 1 .. m + 1 + y + 1 + z
    OBVIOUS
  <2> QED
    BY <1>6, <1>7, <1>9, <2>1 DEF EndsIn, Joins
<1>14. ASSUME NEW j \in 1 .. z PROVE Line(r)[m + y + 2 + j] = r.surname[j]
  <2>1. /\ m + y + 2 + j = m + 1 + y + 1 + j
        /\ m + 1 + y + 1 + j \in 1 .. m + 1 + y + 1 + z
    OBVIOUS
  <2> QED
    BY <1>7, <1>9, <2>1 DEF EndsIn, Joins
<1>15. IsText(Line(r), m + y + z + 3) /\ Line(r)[m + y + z + 3] = Newline
  <2>1. m + y + z + 3 = m + 1 + y + 1 + z + 1
    OBVIOUS
  <2> QED
    BY <1>9, <2>1 DEF EndsIn
<1> QED
  BY <1>3, <1>10, <1>11, <1>12, <1>13, <1>14, <1>15

\* The line of a record that fits is taken apart at the first bar of its name,
\* or at the one behind it.
LEMMA LineShape ==
    ASSUME NEW r \in Rec, Fits(r)
    PROVE  \E m \in Nat, k \in Nat :
             /\ Shape(Line(r), m, k) /\ Len(r.id) = m
             /\ Plain(r) => k = Len(r.name) + 1
<1>1. PICK m \in Nat, y \in Nat, z \in Nat :
        /\ IsText(r.id, m) /\ IsText(r.name, y) /\ IsText(r.surname, z)
        /\ IsText(Line(r), m + y + z + 3)
        /\ \A j \in 1 .. m : Line(r)[j] = r.id[j]
        /\ Line(r)[m + 1] = Bar
        /\ \A j \in 1 .. y : Line(r)[m + 1 + j] = r.name[j]
        /\ Line(r)[m + y + 2] = Bar
        /\ \A j \in 1 .. z : Line(r)[m + y + 2 + j] = r.surname[j]
        /\ Line(r)[m + y + z + 3] = Newline
  BY LineParts
<1>2. /\ y <= WIDTH /\ z <= WIDTH /\ WIDTH \in Nat
      /\ \A j \in 1 .. z : r.surname[j] # Newline
      /\ (\A j \in 1 .. y : r.name[j] # Bar) \/ (\A j \in 1 .. y : r.name[j] # Newline)
  BY <1>1, Width DEF Rec, Has, IsText
<1> DEFINE BarAt(k) == /\ k \in 1 .. y + 1 /\ (k = y + 1 \/ r.name[k] = Bar)
                       /\ \A j \in 1 .. k - 1 : r.name[j] # Bar
<1>3. PICK k \in Nat : BarAt(k)
  <2> DEFINE S == {n \in Nat : n \in 1 .. y + 1 /\ (n = y + 1 \/ r.name[n] = Bar)}
  <2>1. y + 1 \in S
    BY <1>1
  <2>2. PICK k \in S : \A j \in S : k <= j
    <3>1. S \in SUBSET Nat /\ S # {}
      BY <2>1
    <3> HIDE DEF S
    <3> QED
      BY <3>1, LeastNumber
  <2>3. ASSUME NEW j \in 1 .. k - 1, r.name[j] = Bar PROVE FALSE
    <3>1. k \in Nat /\ k <= y + 1
      OBVIOUS
    <3>2. j \in S /\ j < k
      BY <1>1, <2>3, <3>1
    <3>3. k <= j
      <4> HIDE DEF S
      <4> QED
        BY <2>2, <3>2
    <3> QED
      BY <3>1, <3>2, <3>3
  <2>4. BarAt(k) /\ k \in Nat
    BY <2>3
  <2> QED
    BY <2>4
<1>4. /\ k \in 1 .. y + 1 /\ (k = y + 1 \/ r.name[k] = Bar)
      /\ \A j \in 1 .. k - 1 : r.name[j] # Bar
  BY <1>3
<1> HIDE DEF BarAt
<1>5. y - k + 1 + z <= WIDTH
  <2>1. CASE k = y + 1
    BY <1>1, <1>2, <2>1
  <2>2. CASE k # y + 1
    <3>1. Len(r.name) = y /\ Len(r.surname) = z
      BY <1>1 DEF IsText
    <3>2. k \in 1 .. Len(r.name)
      BY <1>1, <1>4, <2>2, <3>1
    <3>3. Len(r.name) - k + 1 + Len(r.surname) <= WIDTH
      BY <1>4, <2>2, <3>2 DEF Fits
    <3> QED
      BY <3>1, <3>3
  <2> QED
    BY <2>1, <2>2
<1> DEFINE l == Line(r)
<1> HIDE DEF l
<1>6. /\ l \in Seq(Char) /\ Len(l) = m + y + z + 3
  BY <1>1 DEF IsText, l
<1>7. /\ 1 <= m /\ (l[1] \in Digit \/ (l[1] \in Sign /\ 2 <= m))
      /\ \A j \in 2 .. m : l[j] \in Digit
  <2>1. /\ 1 <= m /\ (r.id[1] \in Digit \/ (r.id[1] \in Sign /\ 2 <= m))
        /\ \A j \in 2 .. m : r.id[j] \in Digit
    BY <1>1, IdShape DEF Rec, IsId, IsText
  <2>2. l[1] = r.id[1] /\ \A j \in 2 .. m : l[j] = r.id[j]
    BY <1>1, <2>1 DEF l
  <2> QED
    BY <2>1, <2>2
<1>8. l[m + 1] = Bar /\ l[m + k + 1] = Bar
  <2>1. l[m + 1] = Bar
    BY <1>1 DEF l
  <2>2. CASE k = y + 1
    <3>1. m + k + 1 = m + y + 2
      BY <1>1, <2>2
    <3> QED
      BY <1>1, <2>1, <3>1 DEF l
  <2>3. CASE k # y + 1
    <3>1. k \in 1 .. y /\ m + 1 + k = m + k + 1
      BY <1>1, <1>4, <2>3
    <3>2. Line(r)[m + 1 + k] = r.name[k]
      BY <1>1, <3>1
    <3> QED
      BY <1>4, <2>1, <2>3, <3>1, <3>2 DEF l
  <2> QED
    BY <2>2, <2>3
<1>9. ASSUME NEW j \in m + 2 .. m + k PROVE l[j] # Bar
  <2>1. /\ j - (m + 1) \in 1 .. k - 1 /\ j - (m + 1) \in 1 .. y
        /\ m + 1 + (j - (m + 1)) = j
    BY <1>1, <1>4
  <2>2. Line(r)[m + 1 + (j - (m + 1))] = r.name[j - (m + 1)]
    BY <1>1, <2>1
  <2> QED
    BY <1>4, <2>1, <2>2 DEF l
<1>10. ASSUME NEW j \in m + k + 2 .. m + y + z + 2 PROVE l[j] # Newline
  <2>1. CASE j <= m + y + 1
    <3>1. /\ j - (m + 1) \in 1 .. y /\ m + 1 + (j - (m + 1)) = j /\ k # y + 1 /\ k \in 1 .. y
      BY <1>1, <1>4, <2>1
    <3>2. Line(r)[m + 1 + (j - (m + 1))] = r.name[j - (m + 1)]
      BY <1>1, <3>1
    <3> QED
      BY <1>2, <1>4, <3>1, <3>2 DEF l
  <2>2. CASE j = m + y + 2
    <3>1. Bar # Newline
      BY DEF Bar, Newline
    <3> QED
      BY <1>1, <2>2, <3>1 DEF l
  <2>3. CASE m + y + 2 < j
    <3>1. j - (m + y + 2) \in 1 .. z /\ m + y + 2 + (j - (m + y + 2)) = j
      BY <1>1, <2>3
    <3>2. Line(r)[m + y + 2 + (j - (m + y + 2))] = r.surname[j - (m + y + 2)]
      BY <1>1, <3>1
    <3> QED
      BY <1>2, <3>1, <3>2 DEF l
  <2> QED
    BY <1>1, <1>4, <2>1, <2>2, <2>3
<1>11. l[Len(l)] = Newline
  BY <1>1, <1>6 DEF l
<1>12. /\ 1 <= k /\ m + k + 2 <= Len(l) /\ Len(l) - 1 = m + y + z + 2
       /\ k - 1 <= WIDTH /\ Len(l) - (m + k + 2) <= WIDTH
  BY <1>1, <1>2, <1>4, <1>5, <1>6
<1>13. Shape(l, m, k)
  BY <1>1, <1>3, <1>6, <1>7, <1>8, <1>9, <1>10, <1>11, <1>12 DEF Shape
<1>14. Plain(r) => k = Len(r.name) + 1
  <2> SUFFICES ASSUME Plain(r), k # y + 1 PROVE FALSE
    BY <1>1 DEF IsText
  <2>1. k \in 1 .. Len(r.name) /\ r.name[k] = Bar
    BY <1>1, <1>4 DEF IsText
  <2> QED
    BY <2>1 DEF Plain, Has
<1>15. Len(r.id) = m
  BY <1>1 DEF IsText
<1> QED
  BY <1>13, <1>14, <1>15, <1>3 DEF l

\* A part of the file that holds a text is that text.
LEMMA Cut ==
    ASSUME phonebook \in Seq(Char), NEW s, NEW n, NEW i \in Nat, IsText(s, n),
           i + n <= Len(phonebook), \A j \in 1 .. n : phonebook[i + j] = s[j]
    PROVE  SubSeq(phonebook, i + 1, i + n) = s
<1>1. s \in Seq(Char) /\ n \in Nat /\ Len(s) = n /\ Len(phonebook) \in Nat
  BY DEF IsText
<1>2. \A j \in i + 1 .. i + n : phonebook[j] \in Char
  <2> TAKE j \in i + 1 .. i + n
  <2>1. j \in 1 .. Len(phonebook)
    BY <1>1
  <2> QED
    BY <2>1, ElementOfSeq
<1>3. i + 1 \in Int /\ i + n \in Int
  BY <1>1
<1>4. /\ SubSeq(phonebook, i + 1, i + n) \in Seq(Char)
      /\ Len(SubSeq(phonebook, i + 1, i + n)) = IF i + 1 <= i + n THEN (i + n) - (i + 1) + 1 ELSE 0
      /\ \A j \in 1 .. (i + n) - (i + 1) + 1 :
           SubSeq(phonebook, i + 1, i + n)[j] = phonebook[(i + 1) + j - 1]
  BY <1>2, <1>3, SubSeqProperties
<1> DEFINE t == SubSeq(phonebook, i + 1, i + n)
<1> HIDE DEF t
<1>5. t \in Seq(Char) /\ Len(t) = n
  BY <1>1, <1>4 DEF t
<1>6. ASSUME NEW j \in 1 .. n PROVE t[j] = s[j]
  <2>1. j \in 1 .. (i + n) - (i + 1) + 1 /\ (i + 1) + j - 1 = i + j
    BY <1>1
  <2>2. t[j] = phonebook[i + j]
    BY <1>4, <2>1 DEF t
  <2> QED
    BY <2>2
<1>7. t = s
  BY <1>1, <1>5, <1>6, SeqEqual
<1> QED
  BY <1>7 DEF t

\* A plain record comes back as it was.
LEMMA PlainLine ==
    ASSUME phonebook \in Seq(Char), NEW r \in Rec, Plain(r), NEW p, LiesWhole(Line(r), p)
    PROVE  Matches(p) /\ Scanned(p) = r
<1> DEFINE l == Line(r)
<1> HIDE DEF l
<1>1. Fits(r)
  BY DEF Plain, Has, Fits
<1>2. PICK m \in Nat, k \in Nat : Shape(l, m, k) /\ Len(r.id) = m /\ k = Len(r.name) + 1
  BY <1>1, LineShape DEF l
<1>3. LiesWhole(l, p)
  BY DEF l
<1>4. TakenApart(l, p, m, k)
  BY <1>2, <1>3, WholeLine
<1>5. PICK m1 \in Nat, y \in Nat, z \in Nat :
        /\ IsText(r.id, m1) /\ IsText(r.name, y) /\ IsText(r.surname, z)
        /\ IsText(l, m1 + y + z + 3)
        /\ \A j \in 1 .. m1 : l[j] = r.id[j]
        /\ l[m1 + 1] = Bar
        /\ \A j \in 1 .. y : l[m1 + 1 + j] = r.name[j]
        /\ l[m1 + y + 2] = Bar
        /\ \A j \in 1 .. z : l[m1 + y + 2 + j] = r.surname[j]
        /\ l[m1 + y + z + 3] = Newline
  BY LineParts DEF l
<1>6. /\ m1 = m /\ k = y + 1 /\ Len(l) = m + y + z + 3
  BY <1>2, <1>5 DEF IsText
<1>7. 1 <= y /\ 1 <= z
  BY <1>5 DEF Plain, IsText
<1>8. /\ p \in Nat /\ Len(phonebook) \in Nat /\ p + (m + y + z + 3) <= Len(phonebook)
      /\ \A j \in 1 .. m + y + z + 3 : phonebook[p + j] = l[j]
  <2>1. /\ p \in Nat /\ Len(phonebook) \in Nat /\ p + Len(l) \in p + 1 .. Len(phonebook)
        /\ \A j \in 1 .. (p + Len(l)) - p : phonebook[p + j] = l[j]
    BY <1>3 DEF LiesWhole, Lies
  <2>2. (p + Len(l)) - p = m + y + z + 3 /\ p + Len(l) = p + (m + y + z + 3)
    BY <1>6, <2>1
  <2>3. p + (m + y + z + 3) <= Len(phonebook)
    BY <2>1, <2>2
  <2> QED
    BY <2>1, <2>2, <2>3
<1>9. /\ IdBegins(p) = p /\ DigitsBegin(p) < IdEnds(p)
      /\ IdEnds(p) = p + m /\ AtChar(IdEnds(p), {Bar})
      /\ NameEnds(p) = p + m + y + 1 /\ AtChar(NameEnds(p), {Bar})
      /\ SurnameEnds(p) = p + m + y + z + 2
  <2>1. p \in Nat /\ p + m + k = p + m + y + 1
    BY <1>6, <1>8
  <2>2. p + Len(l) - 1 = p + m + y + z + 2
    BY <1>6, <2>1
  <2> QED
    BY <1>4, <2>1, <2>2 DEF TakenApart
<1>10. p \in Nat /\ p + m + y + z + 3 <= Len(phonebook) /\ Len(phonebook) \in Nat
  BY <1>8
<1>11. Matches(p)
  <2>1. p + m + y + 1 > p + m + 1 /\ p + m + y + z + 2 > p + m + y + 1 + 1
    BY <1>7, <1>10
  <2> QED
    BY <1>9, <2>1 DEF Matches
<1>12. SubSeq(phonebook, IdBegins(p) + 1, IdEnds(p)) = r.id
  <2>1. ASSUME NEW j \in 1 .. m PROVE phonebook[p + j] = r.id[j]
    <3>1. j \in 1 .. m + y + z + 3
      OBVIOUS
    <3> QED
      BY <1>5, <1>6, <1>8, <3>1
  <2>2. p + m <= Len(phonebook) /\ IsText(r.id, m)
    BY <1>5, <1>6, <1>10
  <2>3. SubSeq(phonebook, p + 1, p + m) = r.id
    BY <1>10, <2>1, <2>2, Cut
  <2> QED
    BY <1>9, <2>3
<1>13. SubSeq(phonebook, IdEnds(p) + 2, NameEnds(p)) = r.name
  <2> DEFINE i == p + m + 1
  <2>1. /\ i \in Nat /\ i + 1 = p + m + 2 /\ i + y = p + m + y + 1 /\ i + y <= Len(phonebook)
    BY <1>10
  <2>2. ASSUME NEW j \in 1 .. y PROVE phonebook[i + j] = r.name[j]
    <3>1. m + 1 + j \in 1 .. m + y + z + 3 /\ p + (m + 1 + j) = i + j
      BY <1>10
    <3> QED
      BY <1>5, <1>6, <1>8, <3>1
  <2>t. i \in Nat /\ i + y <= Len(phonebook) /\ IsText(r.name, y)
    BY <1>5, <2>1
  <2> HIDE DEF i
  <2>3. SubSeq(phonebook, i + 1, i + y) = r.name
    BY <2>t, <2>2, Cut
  <2>4. (p + m) + 2 = p + m + 2
    BY <1>10
  <2> QED
    BY <1>9, <2>1, <2>3, <2>4
<1>14. SubSeq(phonebook, NameEnds(p) + 2, SurnameEnds(p)) = r.surname
  <2> DEFINE i == p + m + y + 2
  <2>1. /\ i \in Nat /\ i + 1 = (p + m + y + 1) + 2 /\ i + z = p + m + y + z + 2
        /\ i + z <= Len(phonebook)
    BY <1>10
  <2>2. ASSUME NEW j \in 1 .. z PROVE phonebook[i + j] = r.surname[j]
    <3>1. m + y + 2 + j \in 1 .. m + y + z + 3 /\ p + (m + y + 2 + j) = i + j
      BY <1>10
    <3> QED
      BY <1>5, <1>6, <1>8, <3>1
  <2>t. i \in Nat /\ i + z <= Len(phonebook) /\ IsText(r.surname, z)
    BY <1>5, <2>1
  <2> HIDE DEF i
  <2>3. SubSeq(phonebook, i + 1, i + z) = r.surname
    BY <2>t, <2>2, Cut
  <2> QED
    BY <1>9, <2>1, <2>3
<1>15. Printed(r.id) = r.id /\ r = [id |-> r.id, name |-> r.name, surname |-> r.surname]
  BY DEF Rec, IsId
<1> QED
  BY <1>11, <1>12, <1>13, <1>14, <1>15 DEF Scanned

-----------------------------------------------------------------------------
(* A number that was read is printed as an id. *)

Digits(d) == d \in Seq(Char) /\ d # <<>> /\ \A i \in 1 .. Len(d) : d[i] \in Digit
FirstOf(d, k) == /\ d[k] # "0" \/ k = Len(d)
                 /\ \A j \in 1 .. k - 1 : d[j] = "0"

LEMMA CanonOf ==
    ASSUME NEW d, Digits(d)
    PROVE  /\ Digits(Canon(d))
           /\ Canon(d)[1] # "0" \/ Len(Canon(d)) = 1
<1>1. /\ d \in Seq(Char) /\ Len(d) \in Nat /\ 1 <= Len(d)
      /\ \A i \in 1 .. Len(d) : d[i] \in Digit
  BY EmptySeq DEF Digits
<1>2. PICK k \in 1 .. Len(d) : FirstOf(d, k)
  <2> DEFINE S == {n \in Nat : n \in 1 .. Len(d) /\ (d[n] # "0" \/ n = Len(d))}
  <2>1. Len(d) \in S
    BY <1>1
  <2>2. PICK k \in S : \A j \in S : k <= j
    <3>1. S \in SUBSET Nat /\ S # {}
      BY <2>1
    <3> HIDE DEF S
    <3> QED
      BY <3>1, LeastNumber
  <2>3. k \in Nat /\ k \in 1 .. Len(d) /\ (d[k] # "0" \/ k = Len(d))
    OBVIOUS
  <2>4. ASSUME NEW j \in 1 .. k - 1 PROVE d[j] = "0"
    <3> SUFFICES ASSUME d[j] # "0" PROVE FALSE
      OBVIOUS
    <3>1. j \in S /\ j < k
      BY <1>1, <2>3
    <3>2. k <= j
      <4> HIDE DEF S
      <4> QED
        BY <2>2, <3>1
    <3> QED
      BY <2>3, <3>1, <3>2
  <2> QED
    BY <2>3, <2>4 DEF FirstOf
<1> DEFINE f == CHOOSE n \in 1 .. Len(d) : FirstOf(d, n)
<1>3. f \in 1 .. Len(d) /\ FirstOf(d, f)
  BY <1>2
<1>4. Canon(d) = SubSeq(d, f, Len(d))
  BY DEF Canon, FirstOf
<1> HIDE DEF f
<1>5. \A i \in f .. Len(d) : d[i] \in Char
  <2> TAKE i \in f .. Len(d)
  <2>1. i \in 1 .. Len(d)
    BY <1>1, <1>3
  <2> QED
    BY <1>1, <2>1, ElementOfSeq
<1>6. /\ SubSeq(d, f, Len(d)) \in Seq(Char)
      /\ Len(SubSeq(d, f, Len(d))) = IF f <= Len(d) THEN Len(d) - f + 1 ELSE 0
      /\ \A i \in 1 .. Len(d) - f + 1 : SubSeq(d, f, Len(d))[i] = d[f + i - 1]
  <2>1. f \in Int /\ Len(d) \in Int
    BY <1>1, <1>3
  <2> QED
    BY <1>5, <2>1, SubSeqProperties
<1> DEFINE c == SubSeq(d, f, Len(d))
<1> HIDE DEF c
<1>7. /\ c \in Seq(Char) /\ Len(c) = Len(d) - f + 1 /\ 1 <= Len(d) - f + 1
      /\ \A i \in 1 .. Len(d) - f + 1 : c[i] = d[f + i - 1]
  BY <1>1, <1>3, <1>6 DEF c
<1>8. ASSUME NEW i \in 1 .. Len(c) PROVE c[i] \in Digit
  <2>1. i \in 1 .. Len(d) - f + 1 /\ f + i - 1 \in 1 .. Len(d)
    BY <1>1, <1>3, <1>7
  <2> QED
    BY <1>1, <1>7, <2>1
<1>9. c # <<>>
  BY <1>7
<1>10. c[1] # "0" \/ Len(c) = 1
  <2>1. 1 \in 1 .. Len(d) - f + 1 /\ f + 1 - 1 = f
    BY <1>1, <1>3, <1>7
  <2>2. c[1] = d[f]
    BY <1>7, <2>1
  <2>3. f = Len(d) => Len(c) = 1
    BY <1>1, <1>7
  <2> QED
    BY <1>3, <2>2, <2>3 DEF FirstOf
<1>11. Digits(c)
  BY <1>7, <1>8, <1>9 DEF Digits
<1> QED
  BY <1>4, <1>10, <1>11 DEF c

LEMMA CanonStays ==
    ASSUME NEW d, Digits(d), d[1] # "0" \/ Len(d) = 1
    PROVE  Canon(d) = d
<1>1. d \in Seq(Char) /\ Len(d) \in Nat /\ 1 <= Len(d)
  BY EmptySeq DEF Digits
<1> DEFINE f == CHOOSE n \in 1 .. Len(d) : FirstOf(d, n)
<1>2. 1 \in 1 .. Len(d) /\ FirstOf(d, 1)
  BY <1>1 DEF FirstOf
<1>3. f \in 1 .. Len(d) /\ FirstOf(d, f)
  BY <1>2
<1>4. Canon(d) = SubSeq(d, f, Len(d))
  BY DEF Canon, FirstOf
<1> HIDE DEF f
<1>5. f = 1
  <2> SUFFICES ASSUME f # 1 PROVE FALSE
    OBVIOUS
  <2>1. 1 \in 1 .. f - 1 /\ 1 < Len(d)
    BY <1>1, <1>3
  <2> QED
    BY <1>1, <1>3, <2>1 DEF FirstOf
<1>6. \A i \in 1 .. Len(d) : d[i] \in Char
  BY <1>1, ElementOfSeq
<1>7. /\ SubSeq(d, 1, Len(d)) \in Seq(Char)
      /\ Len(SubSeq(d, 1, Len(d))) = IF 1 <= Len(d) THEN Len(d) - 1 + 1 ELSE 0
      /\ \A i \in 1 .. Len(d) - 1 + 1 : SubSeq(d, 1, Len(d))[i] = d[1 + i - 1]
  <2>1. 1 \in Int /\ Len(d) \in Int
    BY <1>1
  <2> QED
    BY <1>6, <2>1, SubSeqProperties
<1> DEFINE c == SubSeq(d, 1, Len(d))
<1> HIDE DEF c
<1>8. c \in Seq(Char) /\ Len(c) = Len(d)
  BY <1>1, <1>7 DEF c
<1>9. ASSUME NEW i \in 1 .. Len(c) PROVE c[i] = d[i]
  <2>1. i \in 1 .. Len(d) - 1 + 1 /\ 1 + i - 1 = i
    BY <1>1, <1>8
  <2> QED
    BY <1>7, <2>1 DEF c
<1>10. c = d
  BY <1>1, <1>8, <1>9, SeqEqual
<1> QED
  BY <1>4, <1>5, <1>10 DEF c

LEMMA PrintedIsId == ASSUME NEW t, IsNumber(t) PROVE IsId(Printed(t))
<1>1. Digits(DigitsOf(t))
  <2>1. t \in Seq(Char) /\ t # <<>>
    BY DEF IsNumber
  <2>2. DigitsOf(t) \in Seq(Char)
    BY <2>1, HeadTailProperties DEF DigitsOf
  <2> QED
    BY <2>2 DEF Digits, IsNumber
<1> DEFINE c == Canon(DigitsOf(t))
<1>2. Digits(c) /\ (c[1] # "0" \/ Len(c) = 1)
  BY <1>1, CanonOf
<1>3. Printed(t) = IF t[1] = "-" /\ c # <<"0">> THEN <<"-">> \o c ELSE c
  BY DEF Printed
<1> HIDE DEF c
<1>4. Canon(c) = c
  BY <1>2, CanonStays
<1>5. c \in Seq(Char) /\ c # <<>> /\ c[1] \in Digit /\ Len(c) \in Nat /\ 1 <= Len(c)
  <2>1. c \in Seq(Char) /\ c # <<>> /\ Len(c) \in Nat \ {0}
    BY <1>2, EmptySeq DEF Digits
  <2>2. 1 \in 1 .. Len(c)
    BY <2>1
  <2> QED
    BY <1>2, <2>1, <2>2 DEF Digits
<1>6. CASE t[1] = "-" /\ c # <<"0">>
  <2> DEFINE u == <<"-">> \o c
  <2>1. "-" \in Char
    BY PhoneBookAssumption DEF Sign
  <2>2. IsText(<<"-">>, 1) /\ IsText(c, Len(c))
    BY <1>5, <2>1 DEF IsText
  <2>3. Joins(u, <<"-">>, 1, c, Len(c))
    BY <2>2, Joined
  <2> HIDE DEF u
  <2>4. /\ u \in Seq(Char) /\ Len(u) = 1 + Len(c) /\ u[1] = "-"
        /\ \A j \in 1 .. Len(c) : u[1 + j] = c[j]
    BY <2>3 DEF Joins, IsText
  <2>5. u # <<>>
    BY <1>5, <2>4
  <2>6. DigitsOf(u) = Tail(u)
    BY <2>4 DEF DigitsOf, Sign
  <2>7. /\ Tail(u) \in Seq(Char) /\ Len(Tail(u)) = Len(u) - 1
        /\ \A i \in 1 .. Len(Tail(u)) : Tail(u)[i] = u[i + 1]
    BY <2>4, <2>5, HeadTailProperties
  <2>8. Len(Tail(u)) = Len(c)
    BY <1>5, <2>4, <2>7
  <2>9. ASSUME NEW i \in 1 .. Len(Tail(u)) PROVE Tail(u)[i] = c[i]
    <3>1. i \in 1 .. Len(c) /\ i + 1 = 1 + i
      BY <1>5, <2>8
    <3> QED
      BY <2>4, <2>7, <3>1
  <2>10. Tail(u) = c
    BY <1>5, <2>7, <2>8, <2>9, SeqEqual
  <2>11. Printed(u) = u
    BY <1>4, <1>6, <2>4, <2>6, <2>10 DEF Printed, u
  <2>12. IsNumber(u)
    BY <1>2, <2>4, <2>5, <2>6, <2>10 DEF IsNumber, Digits
  <2> QED
    BY <1>3, <1>6, <2>11, <2>12 DEF IsId, u
<1>7. CASE ~(t[1] = "-" /\ c # <<"0">>)
  <2>1. c[1] \notin Sign /\ c[1] # "-"
    BY <1>5 DEF Digit, Sign
  <2>2. DigitsOf(c) = c
    BY <2>1 DEF DigitsOf
  <2>3. Printed(c) = c
    BY <1>4, <2>1, <2>2 DEF Printed
  <2>4. IsNumber(c)
    BY <1>2, <1>5, <2>2 DEF IsNumber, Digits
  <2> QED
    BY <1>3, <1>7, <2>3, <2>4 DEF IsId
<1> QED
  BY <1>6, <1>7

\* The parts of a record lie one behind the other.
LEMMA Within ==
    ASSUME phonebook \in Seq(Char), NEW p \in 0 .. Len(phonebook)
    PROVE  /\ Len(phonebook) \in Nat /\ p \in Nat
           /\ IdBegins(p) \in p .. Len(phonebook)
           /\ DigitsBegin(p) \in p .. Len(phonebook)
           /\ DigitsBegin(p) = IdBegins(p) \/ (DigitsBegin(p) = IdBegins(p) + 1
                                               /\ phonebook[IdBegins(p) + 1] \in Sign)
           /\ IdEnds(p) \in DigitsBegin(p) .. Len(phonebook)
           /\ \A i \in DigitsBegin(p) + 1 .. IdEnds(p) : phonebook[i] \in Digit
<1>1. Len(phonebook) \in Nat /\ p \in Nat
  OBVIOUS
<1>2. Run(p, White, Len(phonebook), IdBegins(p))
  BY <1>1, StopRuns DEF IdBegins, ToEnd
<1>3. IdBegins(p) \in p .. Len(phonebook)
  BY <1>2 DEF Run
<1>4. /\ DigitsBegin(p) \in p .. Len(phonebook)
      /\ DigitsBegin(p) = IdBegins(p) \/ (DigitsBegin(p) = IdBegins(p) + 1
                                          /\ phonebook[IdBegins(p) + 1] \in Sign)
  BY <1>1, <1>3 DEF DigitsBegin, AtChar
<1>5. DigitsBegin(p) \in 0 .. Len(phonebook)
  BY <1>1, <1>4
<1>6. Run(DigitsBegin(p), Digit, Len(phonebook), IdEnds(p))
  BY <1>1, <1>5, StopRuns DEF IdEnds, ToEnd
<1>7. /\ IdEnds(p) \in DigitsBegin(p) .. Len(phonebook)
      /\ \A i \in DigitsBegin(p) + 1 .. IdEnds(p) : phonebook[i] \in Digit
  BY <1>6 DEF Run
<1> QED
  BY <1>1, <1>3, <1>4, <1>7

\* At the end of the file there is no record.
LEMMA NoneAtEnd ==
    ASSUME phonebook \in Seq(Char) PROVE ~Matches(Len(phonebook))
<1>1. Len(phonebook) \in Nat /\ Len(phonebook) \in 0 .. Len(phonebook)
  OBVIOUS
<1>2. /\ DigitsBegin(Len(phonebook)) \in Len(phonebook) .. Len(phonebook)
      /\ IdEnds(Len(phonebook)) \in DigitsBegin(Len(phonebook)) .. Len(phonebook)
  BY <1>1, Within
<1> QED
  BY <1>1, <1>2 DEF Matches

\* Two characters behind p + 1 a text that a conversion stored.
LEMMA TextOf ==
    ASSUME phonebook \in Seq(Char), NEW i \in Nat, NEW q \in Nat, NEW C,
           i <= q, q <= Len(phonebook), \A j \in i + 1 .. q : phonebook[j] \in C
    PROVE  /\ SubSeq(phonebook, i + 1, q) \in Seq(Char)
           /\ Len(SubSeq(phonebook, i + 1, q)) = q - i
           /\ \A j \in 1 .. q - i : /\ SubSeq(phonebook, i + 1, q)[j] \in C
                                    /\ SubSeq(phonebook, i + 1, q)[j] = phonebook[i + j]
<1>1. Len(phonebook) \in Nat /\ i + 1 \in Int /\ q \in Int
  OBVIOUS
<1>2. \A j \in i + 1 .. q : phonebook[j] \in Char
  <2> TAKE j \in i + 1 .. q
  <2>1. j \in 1 .. Len(phonebook)
    BY <1>1
  <2> QED
    BY <2>1, ElementOfSeq
<1>3. /\ SubSeq(phonebook, i + 1, q) \in Seq(Char)
      /\ Len(SubSeq(phonebook, i + 1, q)) = IF i + 1 <= q THEN q - (i + 1) + 1 ELSE 0
      /\ \A j \in 1 .. q - (i + 1) + 1 : SubSeq(phonebook, i + 1, q)[j] = phonebook[i + 1 + j - 1]
  BY <1>1, <1>2, SubSeqProperties
<1> DEFINE t == SubSeq(phonebook, i + 1, q)
<1> HIDE DEF t
<1>4. t \in Seq(Char) /\ Len(t) = q - i
  BY <1>1, <1>3 DEF t
<1>5. ASSUME NEW j \in 1 .. q - i PROVE t[j] \in C /\ t[j] = phonebook[i + j]
  <2>1. /\ j \in 1 .. q - (i + 1) + 1 /\ i + 1 + j - 1 = i + j
        /\ i + j \in i + 1 .. q
    BY <1>1
  <2>2. t[j] = phonebook[i + j]
    BY <1>3, <2>1 DEF t
  <2> QED
    BY <2>1, <2>2
<1> QED
  BY <1>4, <1>5 DEF t

LEMMA NumberRead ==
    ASSUME phonebook \in Seq(Char), NEW p \in 0 .. Len(phonebook), IdEnds(p) > DigitsBegin(p)
    PROVE  IsNumber(SubSeq(phonebook, IdBegins(p) + 1, IdEnds(p)))
<1> DEFINE b == IdBegins(p)
           d == DigitsBegin(p)
           e == IdEnds(p)
           t == SubSeq(phonebook, b + 1, e)
<1>1. /\ Len(phonebook) \in Nat /\ b \in Nat /\ d \in Nat /\ e \in Nat
      /\ d < e /\ e <= Len(phonebook) /\ (d = b \/ (d = b + 1 /\ phonebook[b + 1] \in Sign))
      /\ \A i \in d + 1 .. e : phonebook[i] \in Digit
  <2>1. /\ Len(phonebook) \in Nat /\ p \in Nat
        /\ b \in p .. Len(phonebook) /\ d \in p .. Len(phonebook) /\ e \in d .. Len(phonebook)
        /\ d = b \/ (d = b + 1 /\ phonebook[b + 1] \in Sign)
        /\ \A i \in d + 1 .. e : phonebook[i] \in Digit
    BY Within
  <2>2. d < e
    BY <2>1
  <2> HIDE DEF b, d, e
  <2> QED
    BY <2>1, <2>2
<1> HIDE DEF b, d, e
<1>2. /\ t \in Seq(Char) /\ Len(t) = e - b
      /\ \A j \in 1 .. e - b : t[j] = phonebook[b + j]
  <2>1. \A j \in b + 1 .. e : phonebook[j] \in Sign \cup Digit
    <3> TAKE j \in b + 1 .. e
    <3>1. (j = b + 1 /\ d = b + 1) \/ j \in d + 1 .. e
      BY <1>1
    <3> QED
      BY <1>1, <3>1
  <2>2. b <= e
    BY <1>1
  <2> QED
    BY <1>1, <2>1, <2>2, TextOf
<1> HIDE DEF t
<1>3. t # <<>> /\ Len(t) \in Nat /\ 1 <= Len(t)
  BY <1>1, <1>2
<1>4. t[1] = phonebook[b + 1]
  <2>1. 1 \in 1 .. e - b
    BY <1>1
  <2> QED
    BY <1>2, <2>1
<1>5. CASE d = b
  <2>1. t[1] \in Digit
    <3>1. b + 1 \in d + 1 .. e
      BY <1>1, <1>5
    <3> QED
      BY <1>1, <1>4, <3>1
  <2>2. DigitsOf(t) = t
    BY <2>1 DEF DigitsOf, Digit, Sign
  <2>3. ASSUME NEW i \in 1 .. Len(t) PROVE t[i] \in Digit
    <3>1. i \in 1 .. e - b /\ b + i \in d + 1 .. e
      BY <1>1, <1>2, <1>5
    <3> QED
      BY <1>1, <1>2, <3>1
  <2> QED
    BY <1>2, <1>3, <2>2, <2>3 DEF IsNumber, t, b, d, e
<1>6. CASE d = b + 1 /\ phonebook[b + 1] \in Sign
  <2>1. DigitsOf(t) = Tail(t)
    BY <1>4, <1>6 DEF DigitsOf
  <2>2. /\ Len(Tail(t)) = Len(t) - 1
        /\ \A i \in 1 .. Len(Tail(t)) : Tail(t)[i] = t[i + 1]
    BY <1>2, <1>3, HeadTailProperties
  <2>3. Tail(t) # <<>>
    <3>1. 1 <= Len(Tail(t))
      BY <1>1, <1>2, <1>6, <2>2
    <3>2. Len(<<>>) = 0
      OBVIOUS
    <3> DEFINE s == Tail(t)
    <3> HIDE DEF s
    <3>3. 1 <= Len(s)
      BY <3>1 DEF s
    <3>4. s # <<>>
      BY <3>2, <3>3
    <3> QED
      BY <3>4 DEF s
  <2>4. ASSUME NEW i \in 1 .. Len(Tail(t)) PROVE Tail(t)[i] \in Digit
    <3>1. i + 1 \in 1 .. e - b /\ b + (i + 1) \in d + 1 .. e
      BY <1>1, <1>2, <1>6, <2>2
    <3> QED
      BY <1>1, <1>2, <2>2, <3>1
  <2> QED
    BY <1>2, <1>3, <2>1, <2>3, <2>4 DEF IsNumber, t, b, d, e
<1> QED
  BY <1>1, <1>5, <1>6

LEMMA RecordRead ==
    ASSUME phonebook \in Seq(Char), NEW p \in 0 .. Len(phonebook), Matches(p)
    PROVE  Scanned(p) \in Rec /\ RecordEnds(p) \in 0 .. Len(phonebook)
<1>1. Len(phonebook) \in Nat /\ WIDTH \in Nat
  BY Width
<1>2. IdEnds(p) \in Nat /\ IdEnds(p) < Len(phonebook)
  <2>1. /\ DigitsBegin(p) \in p .. Len(phonebook)
        /\ IdEnds(p) \in DigitsBegin(p) .. Len(phonebook)
    BY Within
  <2> QED
    BY <1>1, <2>1 DEF Matches, AtChar
<1>3. /\ NameEnds(p) \in Nat /\ IdEnds(p) + 1 <= NameEnds(p) /\ NameEnds(p) < Len(phonebook)
      /\ NameEnds(p) - (IdEnds(p) + 1) <= WIDTH
      /\ \A i \in (IdEnds(p) + 1) + 1 .. NameEnds(p) : phonebook[i] \in Char \ {Bar}
  <2>1. IdEnds(p) + 1 \in 0 .. Len(phonebook)
    BY <1>1, <1>2
  <2>2. Run(IdEnds(p) + 1, Char \ {Bar}, WIDTH, NameEnds(p))
    BY <1>1, <2>1, StopRuns DEF NameEnds
  <2> QED
    BY <1>1, <1>2, <2>2 DEF Run, Matches, AtChar
<1>4. /\ SurnameEnds(p) \in Nat /\ NameEnds(p) + 1 <= SurnameEnds(p)
      /\ SurnameEnds(p) <= Len(phonebook)
      /\ SurnameEnds(p) - (NameEnds(p) + 1) <= WIDTH
      /\ \A i \in (NameEnds(p) + 1) + 1 .. SurnameEnds(p) : phonebook[i] \in Char \ {Newline}
  <2>1. NameEnds(p) + 1 \in 0 .. Len(phonebook)
    BY <1>1, <1>3
  <2>2. Run(NameEnds(p) + 1, Char \ {Newline}, WIDTH, SurnameEnds(p))
    BY <1>1, <2>1, StopRuns DEF SurnameEnds
  <2> QED
    BY <1>1, <1>3, <2>2 DEF Run
<1>5. RecordEnds(p) \in 0 .. Len(phonebook)
  <2>1. SurnameEnds(p) \in 0 .. Len(phonebook)
    BY <1>1, <1>4
  <2>2. Run(SurnameEnds(p), White, Len(phonebook), RecordEnds(p))
    BY <1>1, <2>1, StopRuns DEF RecordEnds, ToEnd
  <2> QED
    BY <1>1, <1>4, <2>2 DEF Run
<1>6. IsId(Printed(SubSeq(phonebook, IdBegins(p) + 1, IdEnds(p))))
  BY NumberRead, PrintedIsId DEF Matches
<1> DEFINE name == SubSeq(phonebook, IdEnds(p) + 2, NameEnds(p))
           surname == SubSeq(phonebook, NameEnds(p) + 2, SurnameEnds(p))
<1>7. name \in Seq(Char) /\ Len(name) <= WIDTH /\ ~Has(name, Bar)
  <2>1. IdEnds(p) + 1 \in Nat /\ (IdEnds(p) + 1) + 1 = IdEnds(p) + 2
    BY <1>2
  <2>2. /\ SubSeq(phonebook, (IdEnds(p) + 1) + 1, NameEnds(p)) \in Seq(Char)
        /\ Len(SubSeq(phonebook, (IdEnds(p) + 1) + 1, NameEnds(p))) = NameEnds(p) - (IdEnds(p) + 1)
        /\ \A j \in 1 .. NameEnds(p) - (IdEnds(p) + 1) :
             SubSeq(phonebook, (IdEnds(p) + 1) + 1, NameEnds(p))[j] \in Char \ {Bar}
    <3>1. NameEnds(p) <= Len(phonebook)
      BY <1>1, <1>3
    <3> QED
      BY <1>3, <2>1, <3>1, TextOf
  <2>3. /\ name \in Seq(Char) /\ Len(name) = NameEnds(p) - (IdEnds(p) + 1)
        /\ \A j \in 1 .. NameEnds(p) - (IdEnds(p) + 1) : name[j] \in Char \ {Bar}
    BY <2>1, <2>2
  <2> HIDE DEF name
  <2> QED
    BY <1>3, <2>3 DEF Has
<1>8. surname \in Seq(Char) /\ Len(surname) <= WIDTH /\ ~Has(surname, Newline)
  <2>1. NameEnds(p) + 1 \in Nat /\ (NameEnds(p) + 1) + 1 = NameEnds(p) + 2
    BY <1>3
  <2>2. /\ SubSeq(phonebook, (NameEnds(p) + 1) + 1, SurnameEnds(p)) \in Seq(Char)
        /\ Len(SubSeq(phonebook, (NameEnds(p) + 1) + 1, SurnameEnds(p)))
             = SurnameEnds(p) - (NameEnds(p) + 1)
        /\ \A j \in 1 .. SurnameEnds(p) - (NameEnds(p) + 1) :
             SubSeq(phonebook, (NameEnds(p) + 1) + 1, SurnameEnds(p))[j] \in Char \ {Newline}
    BY <1>4, <2>1, TextOf
  <2>3. /\ surname \in Seq(Char) /\ Len(surname) = SurnameEnds(p) - (NameEnds(p) + 1)
        /\ \A j \in 1 .. SurnameEnds(p) - (NameEnds(p) + 1) : surname[j] \in Char \ {Newline}
    BY <2>1, <2>2
  <2> HIDE DEF surname
  <2> QED
    BY <1>4, <2>3 DEF Has
<1>9. Printed(SubSeq(phonebook, IdBegins(p) + 1, IdEnds(p))) \in Seq(Char)
  BY <1>6 DEF IsId, IsNumber
<1> HIDE DEF name, surname
<1>10. Scanned(p) = [id |-> Printed(SubSeq(phonebook, IdBegins(p) + 1, IdEnds(p))),
                     name |-> name, surname |-> surname]
  BY DEF Scanned, name, surname
<1> QED
  BY <1>5, <1>6, <1>7, <1>8, <1>9, <1>10 DEF Rec

-----------------------------------------------------------------------------
(* A file with one line after the other, e[i] where line i ends. *)

EndOf(e, i) == IF i = 0 THEN 0 ELSE e[i]
PlacedAt(f, l, p, q) ==
    /\ p \in Nat /\ q \in p + 1 .. Len(f) /\ q <= p + Len(l)
    /\ \A j \in 1 .. q - p : f[p + j] = l[j]
AllOf(s, e, i) == EndOf(e, i) = EndOf(e, i - 1) + Len(Line(s[i]))
FileHolds(f, s, e) ==
    /\ f \in Seq(Char) /\ s \in Seq(Rec) /\ e \in Seq(Nat)
    /\ Len(e) = Len(s) /\ EndOf(e, Len(s)) = Len(f)
    /\ \A i \in 1 .. Len(s) : PlacedAt(f, Line(s[i]), EndOf(e, i - 1), EndOf(e, i))
    /\ \A i \in 1 .. Len(s) - 1 : AllOf(s, e, i)
AllComplete(s, e) == \A i \in 1 .. Len(s) : AllOf(s, e, i)

\* One more line behind lines that are complete, or the first n characters of it.
LEMMA FileGrows ==
    ASSUME NEW f, NEW s, NEW e, FileHolds(f, s, e), AllComplete(s, e),
           NEW r \in Rec, NEW n \in 1 .. Len(Line(r))
    PROVE  /\ FileHolds(f \o SubSeq(Line(r), 1, n), Append(s, r), Append(e, Len(f) + n))
           /\ n = Len(Line(r)) => AllComplete(Append(s, r), Append(e, Len(f) + n))
<1> DEFINE l == Line(r)
           x == SubSeq(l, 1, n)
           g == f \o x
           t == Append(s, r)
           d == Append(e, Len(f) + n)
<1>1. /\ f \in Seq(Char) /\ s \in Seq(Rec) /\ e \in Seq(Nat)
      /\ Len(e) = Len(s) /\ EndOf(e, Len(s)) = Len(f)
  BY DEF FileHolds
<1>2. PICK a \in Nat, b \in Nat : Len(f) = a /\ Len(s) = b /\ Len(e) = b
  BY <1>1
<1>3. l \in Seq(Char) /\ Len(l) \in Nat /\ n \in Nat /\ 1 <= n /\ n <= Len(l)
  <2>1. l \in Seq(Char) /\ Len(l) \in Nat
    BY LineParts DEF IsText
  <2> QED
    BY <2>1
<1> HIDE DEF l
<1>4. IsText(x, n) /\ \A j \in 1 .. n : x[j] = l[j]
  <2>1. \A j \in 1 .. n : l[j] \in Char
    BY <1>3, ElementOfSeq
  <2>2. 1 \in Int /\ n \in Int
    BY <1>3
  <2>3. /\ x \in Seq(Char) /\ Len(x) = IF 1 <= n THEN n - 1 + 1 ELSE 0
        /\ \A j \in 1 .. n - 1 + 1 : x[j] = l[1 + j - 1]
    BY <2>1, <2>2, SubSeqProperties
  <2> HIDE DEF x
  <2>4. ASSUME NEW j \in 1 .. n PROVE x[j] = l[j]
    <3>1. j \in 1 .. n - 1 + 1 /\ 1 + j - 1 = j
      BY <1>3
    <3> QED
      BY <2>3, <3>1
  <2>5. Len(x) = n
    BY <1>3, <2>3
  <2> QED
    BY <1>3, <2>3, <2>4, <2>5 DEF IsText
<1> HIDE DEF x
<1>5. Joins(g, f, a, x, n)
  <2>1. IsText(f, a)
    BY <1>1, <1>2 DEF IsText
  <2> QED
    BY <1>4, <2>1, Joined
<1> HIDE DEF g
<1>6. /\ g \in Seq(Char) /\ Len(g) = a + n
      /\ \A j \in 1 .. a : g[j] = f[j]
      /\ \A j \in 1 .. n : g[a + j] = l[j]
  BY <1>4, <1>5 DEF Joins, IsText
<1>7. /\ t \in Seq(Rec) /\ Len(t) = b + 1 /\ t[b + 1] = r
      /\ \A i \in 1 .. b : t[i] = s[i]
  BY <1>1, <1>2, AppendProperties
<1>8. /\ d \in Seq(Nat) /\ Len(d) = b + 1 /\ d[b + 1] = a + n
      /\ \A i \in 1 .. b : d[i] = e[i]
  <2>1. a + n \in Nat
    BY <1>2, <1>3
  <2> QED
    BY <1>1, <1>2, <2>1, AppendProperties
<1> HIDE DEF t, d
<1>9. \A i \in 0 .. b : EndOf(d, i) = EndOf(e, i)
  <2> TAKE i \in 0 .. b
  <2>1. i = 0 \/ i \in 1 .. b
    BY <1>2
  <2> QED
    BY <1>8, <2>1 DEF EndOf
<1>10. EndOf(d, b) = a /\ EndOf(d, b + 1) = a + n /\ (b + 1) - 1 = b
  <2>1. b \in 0 .. b /\ b + 1 # 0
    BY <1>2
  <2> QED
    BY <1>1, <1>2, <1>8, <1>9, <2>1 DEF EndOf
<1>11. ASSUME NEW i \in 1 .. b
       PROVE  PlacedAt(g, Line(t[i]), EndOf(d, i - 1), EndOf(d, i)) /\ AllOf(t, d, i)
  <2>1. i \in 0 .. b /\ i - 1 \in 0 .. b /\ i \in 1 .. Len(s)
    BY <1>2
  <2>2. PICK p, q : p = EndOf(e, i - 1) /\ q = EndOf(e, i)
    OBVIOUS
  <2>3. EndOf(d, i - 1) = p /\ EndOf(d, i) = q /\ t[i] = s[i]
    BY <1>7, <1>9, <2>1, <2>2
  <2>4. PlacedAt(f, Line(s[i]), p, q)
    BY <2>1, <2>2 DEF FileHolds
  <2>5. /\ p \in Nat /\ q \in p + 1 .. a /\ q <= p + Len(Line(s[i]))
        /\ \A j \in 1 .. q - p : f[p + j] = Line(s[i])[j]
    BY <1>2, <2>4 DEF PlacedAt
  <2>6. q \in p + 1 .. Len(g)
    BY <1>2, <1>3, <1>6, <2>5
  <2>7. ASSUME NEW j \in 1 .. q - p PROVE g[p + j] = Line(s[i])[j]
    <3>1. p + j \in 1 .. a
      BY <1>2, <2>5
    <3> QED
      BY <1>6, <2>5, <3>1
  <2>8. PlacedAt(g, Line(s[i]), p, q)
    BY <2>5, <2>6, <2>7 DEF PlacedAt
  <2>9. q = p + Len(Line(s[i]))
    BY <2>1, <2>2 DEF AllComplete, AllOf
  <2> QED
    BY <2>3, <2>8, <2>9 DEF AllOf
<1>12. PlacedAt(g, l, a, a + n)
  <2>1. a + n \in a + 1 .. Len(g) /\ a + n <= a + Len(l) /\ (a + n) - a = n
    BY <1>2, <1>3, <1>6
  <2> QED
    BY <1>2, <1>6, <2>1 DEF PlacedAt
<1>13. \A i \in 1 .. b + 1 : i \in 1 .. b \/ i = b + 1
  BY <1>2
<1>14. \A i \in 1 .. b + 1 : PlacedAt(g, Line(t[i]), EndOf(d, i - 1), EndOf(d, i))
  BY <1>7, <1>10, <1>11, <1>12, <1>13 DEF l
<1>15. n = Len(l) => AllOf(t, d, b + 1)
  BY <1>7, <1>10 DEF AllOf, l
<1>16. (b + 1) - 1 = b
  BY <1>2
<1>17. FileHolds(g, t, d)
  BY <1>6, <1>7, <1>8, <1>10, <1>11, <1>14, <1>16 DEF FileHolds
<1>18. n = Len(l) => AllComplete(t, d)
  BY <1>7, <1>11, <1>13, <1>15 DEF AllComplete
<1> QED
  BY <1>17, <1>18 DEF g, x, t, d, l

\* Every line of such a file lies as fscanf needs it: the next one does not
\* begin with white space.
LEMMA LinesLie ==
    ASSUME FileHolds(phonebook, saved, ends), NEW i \in 1 .. Len(saved)
    PROVE  /\ Lies(Line(saved[i]), End(i - 1), End(i)) /\ saved[i] \in Rec
           /\ Complete(i) => LiesWhole(Line(saved[i]), End(i - 1))
<1>1. \A k : EndOf(ends, k) = End(k)
  BY DEF EndOf, End
<1>2. /\ phonebook \in Seq(Char) /\ saved \in Seq(Rec)
      /\ Len(saved) \in Nat /\ Len(phonebook) \in Nat /\ End(Len(saved)) = Len(phonebook)
      /\ \A k \in 1 .. Len(saved) : PlacedAt(phonebook, Line(saved[k]), End(k - 1), End(k))
      /\ \A k \in 1 .. Len(saved) - 1 : AllOf(saved, ends, k)
  BY <1>1 DEF FileHolds
<1>3. PICK p, q, l : p = End(i - 1) /\ q = End(i) /\ l = Line(saved[i])
  OBVIOUS
<1>4. /\ p \in Nat /\ q \in p + 1 .. Len(phonebook) /\ q <= p + Len(l)
      /\ \A j \in 1 .. q - p : phonebook[p + j] = l[j]
  BY <1>2, <1>3 DEF PlacedAt
<1>5. saved[i] \in Rec
  BY <1>2, ElementOfSeq
<1>6. q = Len(phonebook) \/ (q = p + Len(l) /\ phonebook[q + 1] \notin White)
  <2>1. CASE i = Len(saved)
    BY <1>2, <1>3, <2>1
  <2>2. CASE i # Len(saved)
    <3>1. i \in 1 .. Len(saved) - 1 /\ i + 1 \in 1 .. Len(saved) /\ (i + 1) - 1 = i
      BY <1>2, <2>2
    <3>2. q = p + Len(l)
      BY <1>1, <1>2, <1>3, <3>1 DEF AllOf
    <3>3. PICK m : m = Line(saved[i + 1])
      OBVIOUS
    <3>4. PlacedAt(phonebook, m, q, End(i + 1))
      BY <1>2, <1>3, <3>1, <3>3
    <3>5. q \in Nat /\ End(i + 1) \in q + 1 .. Len(phonebook)
      BY <3>4 DEF PlacedAt
    <3>6. 1 \in 1 .. End(i + 1) - q
      BY <1>2, <3>5
    <3>7. phonebook[q + 1] = m[1]
      BY <3>4, <3>6 DEF PlacedAt
    <3>8. m[1] \notin White
      <4>1. saved[i + 1] \in Rec
        BY <1>2, <3>1, ElementOfSeq
      <4>2. PICK r \in Rec : r = saved[i + 1]
        BY <4>1
      <4>3. PICK k \in Nat : IsText(r.id, k) /\ \A j \in 1 .. k : Line(r)[j] = r.id[j]
        BY LineParts
      <4>4. 1 <= k /\ (r.id[1] \in Digit \/ r.id[1] \in Sign)
        BY <4>3, IdShape DEF Rec, IsId, IsText
      <4>5. m[1] = r.id[1]
        BY <3>3, <4>2, <4>3, <4>4
      <4> QED
        BY <4>4, <4>5 DEF White, Newline, Digit, Sign
    <3> QED
      BY <3>2, <3>7, <3>8
  <2> QED
    BY <2>1, <2>2
<1>7. Lies(l, p, q)
  BY <1>4, <1>6 DEF Lies
<1>8. Complete(i) => q = p + Len(l)
  BY <1>3 DEF Complete
<1> QED
  BY <1>3, <1>5, <1>7, <1>8 DEF LiesWhole

-----------------------------------------------------------------------------
(* The invariant: the file holds what was saved, and what has been loaded    *)
(* so far are its first records.                                             *)

\* While the first records fit, one line was read for each record in the array.
InStep ==
    (\A i \in 1 .. Len(saved) : i <= Len(user) => Fits(saved[i]))
        => Len(user) <= Len(saved) /\ nread = End(Len(user))
PlainUpTo(i) == \A j \in 1 .. i : Plain(saved[j]) /\ Complete(j)
SameSoFar ==
    \A i \in 1 .. Len(saved) : i <= Len(user) /\ PlainUpTo(i) => user[i] = saved[i]

BookType ==
    /\ user \in Seq(Rec)
    /\ nread \in 0 .. Len(phonebook) /\ (book # "loading" => nread = 0)
    /\ book = "off" => user = <<>>
InFile ==
    /\ FileHolds(phonebook, saved, ends)
    /\ book = "saving" => AllComplete(saved, ends)
Loading == book = "loading" => InStep /\ SameSoFar
BookInv == BookType /\ InFile /\ Loading

LEMMA PersonIs == \A r \in Person : r \in Rec
<1> TAKE r \in Person
<1>1. /\ IsId(r.id) /\ r.id \in Seq(Char) /\ r.name \in TypedText /\ r.surname \in TypedText
      /\ r = [id |-> r.id, name |-> r.name, surname |-> r.surname]
  <2>1. /\ IsId(r.id) /\ r.name \in TypedText /\ r.surname \in TypedText
        /\ r = [id |-> r.id, name |-> r.name, surname |-> r.surname]
    BY PhoneBookAssumption
  <2> QED
    BY <2>1 DEF IsId, IsNumber
<1>2. /\ r.name \in Seq(Char) /\ r.surname \in Seq(Char)
      /\ Len(r.name) <= WIDTH /\ Len(r.surname) <= WIDTH
      /\ ~Has(r.name, Newline) /\ ~Has(r.surname, Newline)
  BY <1>1 DEF TypedText
<1>3. r \in [id : Seq(Char), name : Seq(Char), surname : Seq(Char)]
  BY <1>1, <1>2
<1> QED
  BY <1>1, <1>2, <1>3 DEF Rec

\* The record that is read next is the next one of the file.
LEMMA NextRead ==
    ASSUME BookInv, book = "loading", Matches(nread)
    PROVE  /\ Scanned(nread) \in Rec /\ RecordEnds(nread) \in 0 .. Len(phonebook)
           /\ nread = End(Len(user)) /\ Len(user) \in 0 .. Len(saved)
                => /\ Len(user) + 1 \in 1 .. Len(saved)
                   /\ Fits(saved[Len(user) + 1]) => RecordEnds(nread) = End(Len(user) + 1)
<1>1. /\ phonebook \in Seq(Char) /\ Len(phonebook) \in Nat /\ FileHolds(phonebook, saved, ends)
      /\ nread \in 0 .. Len(phonebook)
      /\ Len(saved) \in Nat /\ EndOf(ends, Len(saved)) = Len(phonebook)
  BY DEF BookInv, BookType, InFile, FileHolds
<1>2. Scanned(nread) \in Rec /\ RecordEnds(nread) \in 0 .. Len(phonebook)
  BY <1>1, RecordRead
<1>3. ASSUME nread = End(Len(user)), Len(user) \in 0 .. Len(saved)
      PROVE  Len(user) + 1 \in 1 .. Len(saved)
  <2> SUFFICES ASSUME Len(user) = Len(saved) PROVE FALSE
    BY <1>1, <1>3
  <2>1. nread = Len(phonebook)
    BY <1>1, <1>3 DEF End, EndOf
  <2> QED
    BY <1>1, <2>1, NoneAtEnd
<1>4. ASSUME nread = End(Len(user)), Len(user) \in 0 .. Len(saved), Fits(saved[Len(user) + 1])
      PROVE  RecordEnds(nread) = End(Len(user) + 1)
  <2>1. PICK i \in 1 .. Len(saved) : i = Len(user) + 1 /\ i - 1 = Len(user)
    BY <1>1, <1>3, <1>4
  <2>2. Lies(Line(saved[i]), End(i - 1), End(i)) /\ saved[i] \in Rec
    BY <1>1, LinesLie
  <2>3. Fits(saved[i])
    BY <1>4, <2>1
  <2>4. PICK m \in Nat, k \in Nat : Shape(Line(saved[i]), m, k)
    BY <2>2, <2>3, LineShape
  <2>5. RecordEnds(End(i - 1)) = End(i)
    <3>1. Matches(End(i - 1))
      BY <1>4, <2>1
    <3> QED
      BY <1>1, <2>2, <2>4, <3>1, LineScan
  <2> QED
    BY <1>4, <2>1, <2>5
<1> QED
  BY <1>2, <1>3, <1>4

\* A plain record that was written completely is read, and as it was.
LEMMA NextPlain ==
    ASSUME BookInv, book = "loading", NEW i \in 1 .. Len(saved), i = Len(user) + 1, PlainUpTo(i)
    PROVE  Matches(nread) /\ Scanned(nread) = saved[i]
<1>1. /\ phonebook \in Seq(Char) /\ FileHolds(phonebook, saved, ends) /\ InStep
      /\ Len(user) \in Nat /\ Len(saved) \in Nat
  <2>1. user \in Seq(Rec)
    BY DEF BookInv, BookType
  <2> QED
    BY <2>1 DEF BookInv, InFile, Loading, FileHolds
<1>2. Len(user) = i - 1
  BY <1>1
<1>3. nread = End(i - 1)
  <2>1. ASSUME NEW j \in 1 .. Len(saved), j <= Len(user) PROVE Fits(saved[j])
    <3>1. j \in 1 .. i
      BY <1>1, <2>1
    <3> QED
      BY <3>1 DEF PlainUpTo, Plain, Fits, Has
  <2> QED
    BY <1>1, <1>2, <2>1 DEF InStep
<1>4. i \in 1 .. i
  OBVIOUS
<1>5. saved[i] \in Rec /\ LiesWhole(Line(saved[i]), End(i - 1)) /\ Plain(saved[i])
  <2>1. Complete(i) /\ Plain(saved[i])
    BY <1>4 DEF PlainUpTo
  <2> QED
    BY <1>1, <2>1, LinesLie
<1>6. Matches(End(i - 1)) /\ Scanned(End(i - 1)) = saved[i]
  BY <1>1, <1>5, PlainLine
<1> QED
  BY <1>3, <1>6

\* One more record is in the array.
LEMMA RecordLoaded ==
    ASSUME BookInv, LoadRecord PROVE BookInv'
<1>1. /\ book = "loading" /\ Matches(nread) /\ user \in Seq(Rec) /\ Len(user) \in Nat
      /\ InStep /\ SameSoFar /\ InFile /\ Len(saved) \in Nat
  <2>1. book = "loading" /\ Matches(nread)
    BY DEF LoadRecord
  <2>2. user \in Seq(Rec) /\ saved \in Seq(Rec)
    BY DEF BookInv, BookType, InFile, FileHolds
  <2> QED
    BY <2>1, <2>2 DEF BookInv, Loading
<1>2. /\ Scanned(nread) \in Rec /\ RecordEnds(nread) \in 0 .. Len(phonebook)
      /\ nread = End(Len(user)) /\ Len(user) \in 0 .. Len(saved)
           => /\ Len(user) + 1 \in 1 .. Len(saved)
              /\ Fits(saved[Len(user) + 1]) => RecordEnds(nread) = End(Len(user) + 1)
  BY <1>1, NextRead
<1>3. /\ user' \in Seq(Rec) /\ Len(user') = Len(user) + 1
      /\ \A i \in 1 .. Len(user) : user'[i] = user[i]
      /\ user'[Len(user) + 1] = Scanned(nread)
  BY <1>1, <1>2, AppendProperties DEF LoadRecord
<1>4. nread' = RecordEnds(nread) /\ UNCHANGED <<book, phonebook, saved, ends>>
  BY DEF LoadRecord
<1>5. BookType'
  BY <1>1, <1>2, <1>3, <1>4 DEF BookType
<1>6. InFile'
  BY <1>1, <1>4 DEF InFile
<1>7. \A i : End(i)' = End(i)
  BY <1>4 DEF End
<1>8. InStep'
  <2> SUFFICES ASSUME \A i \in 1 .. Len(saved) : i <= Len(user) + 1 => Fits(saved[i])
               PROVE  Len(user) + 1 <= Len(saved) /\ RecordEnds(nread) = End(Len(user) + 1)
    BY <1>3, <1>4, <1>7 DEF InStep, Fits
  <2>1. \A i \in 1 .. Len(saved) : i <= Len(user) => Fits(saved[i])
    BY <1>1
  <2>2. nread = End(Len(user)) /\ Len(user) \in 0 .. Len(saved)
    BY <1>1, <2>1 DEF InStep
  <2>3. Len(user) + 1 \in 1 .. Len(saved)
    BY <1>2, <2>2
  <2>4. Fits(saved[Len(user) + 1])
    BY <1>1, <2>3
  <2> QED
    BY <1>1, <1>2, <2>2, <2>3, <2>4
<1>9. \A i : PlainUpTo(i)' = PlainUpTo(i)
  BY <1>4, <1>7 DEF PlainUpTo, Complete, Plain
<1>10. SameSoFar'
  <2> SUFFICES ASSUME NEW i \in 1 .. Len(saved), i <= Len(user) + 1, PlainUpTo(i)
               PROVE  user'[i] = saved[i]
    BY <1>3, <1>4, <1>9 DEF SameSoFar
  <2>1. CASE i <= Len(user)
    <3>1. i \in 1 .. Len(user)
      BY <1>1, <2>1
    <3> QED
      BY <1>1, <1>3, <2>1, <3>1 DEF SameSoFar
  <2>2. CASE i = Len(user) + 1
    <3>1. Scanned(nread) = saved[i]
      BY <1>1, <2>2, NextPlain
    <3> QED
      BY <1>3, <2>2, <3>1
  <2> QED
    BY <1>1, <2>1, <2>2
<1> QED
  BY <1>5, <1>6, <1>8, <1>10 DEF BookInv, Loading

\* A step at the menu that leaves the file alone.
LEMMA FileKept ==
    ASSUME BookInv, UNCHANGED fileVars, user' \in Seq(Rec),
           book # "loading", book' \in {"menu", "saving", "undefined"},
           book' = "saving" => book = "saving"
    PROVE  BookInv'
<1>1. UNCHANGED <<phonebook, nread, saved, ends>>
  BY DEF fileVars
<1>2. BookType'
  BY <1>1 DEF BookInv, BookType
<1>3. InFile'
  BY <1>1 DEF BookInv, InFile
<1>4. Loading'
  BY DEF Loading
<1> QED
  BY <1>2, <1>3, <1>4 DEF BookInv

LEMMA NoLines == FileHolds(<<>>, <<>>, <<>>) /\ AllComplete(<<>>, <<>>)
<1>1. <<>> \in Seq(Char) /\ <<>> \in Seq(Rec) /\ <<>> \in Seq(Nat) /\ Len(<<>>) = 0
  BY EmptySeq
<1> QED
  BY <1>1 DEF FileHolds, AllComplete, EndOf

LEMMA NextLine ==
    ASSUME BookInv, book = "saving", Len(saved) < Len(user),
           NEW n \in 1 .. Len(Line(NextRecord)), Written(n), book' \in {"menu", "saving"},
           book' = "saving" => n = Len(Line(NextRecord)), UNCHANGED <<user, nread>>
    PROVE  BookInv'
<1>1. /\ user \in Seq(Rec) /\ FileHolds(phonebook, saved, ends) /\ AllComplete(saved, ends)
      /\ nread = 0
  BY DEF BookInv, BookType, InFile
<1>2. NextRecord \in Rec
  <2>1. Len(saved) + 1 \in 1 .. Len(user)
    BY <1>1 DEF FileHolds
  <2> QED
    BY <1>1, <2>1, ElementOfSeq DEF NextRecord
<1>3. PICK r \in Rec : r = NextRecord
  BY <1>2
<1>4. n \in 1 .. Len(Line(r))
  BY <1>3
<1>5. /\ FileHolds(phonebook \o SubSeq(Line(r), 1, n), Append(saved, r),
                   Append(ends, Len(phonebook) + n))
      /\ n = Len(Line(r)) => AllComplete(Append(saved, r), Append(ends, Len(phonebook) + n))
  BY <1>1, <1>4, FileGrows
<1>6. /\ phonebook' = phonebook \o SubSeq(Line(r), 1, n)
      /\ saved' = Append(saved, r) /\ ends' = Append(ends, Len(phonebook) + n)
  BY <1>3 DEF Written
<1>7. /\ FileHolds(phonebook', saved', ends')
      /\ n = Len(Line(r)) => AllComplete(saved', ends')
  BY <1>5, <1>6
<1>8. InFile'
  BY <1>3, <1>7 DEF InFile
<1>9. BookType'
  <2>1. phonebook' \in Seq(Char)
    BY <1>7 DEF FileHolds
  <2>2. 0 \in 0 .. Len(phonebook')
    BY <2>1
  <2> QED
    BY <1>1, <2>2 DEF BookType
<1>10. Loading'
  BY DEF Loading
<1> QED
  BY <1>8, <1>9, <1>10 DEF BookInv

LEMMA BookStep == BookInv /\ [BookNext]_bookVars => BookInv'
<1> SUFFICES ASSUME BookInv, [BookNext]_bookVars PROVE BookInv'
  OBVIOUS
<1>t. /\ user \in Seq(Rec) /\ FileHolds(phonebook, saved, ends) /\ phonebook \in Seq(Char)
      /\ Len(phonebook) \in Nat /\ nread \in 0 .. Len(phonebook)
      /\ (book # "loading" => nread = 0) /\ (book = "off" => user = <<>>)
      /\ (book = "saving" => AllComplete(saved, ends))
      /\ saved \in Seq(Rec) /\ Len(saved) \in Nat
  <2>1. FileHolds(phonebook, saved, ends)
    BY DEF BookInv, InFile
  <2> QED
    BY <2>1 DEF BookInv, BookType, InFile, FileHolds
<1>p. \A r \in Person : r \in Rec
  BY PersonIs
<1>1. CASE BookStart
  <2>1. user = <<>> /\ UNCHANGED <<user, phonebook, saved, ends>> /\ nread' = 0 /\ book' = "loading"
    BY <1>1, <1>t DEF BookStart
  <2>2. Len(user') = 0
    BY <2>1
  <2>3. InStep' /\ SameSoFar'
    <3>1. End(0)' = 0
      BY DEF End
    <3>3. InStep'
      BY <1>t, <2>1, <2>2, <3>1 DEF InStep
    <3>4. SameSoFar'
      <4> SUFFICES ASSUME NEW i \in 1 .. Len(saved'), i <= Len(user') PROVE FALSE
        BY DEF SameSoFar
      <4> QED
        BY <1>t, <2>1, <2>2
    <3> QED
      BY <3>3, <3>4
  <2>4. BookType'
    BY <1>t, <2>1 DEF BookType
  <2>5. InFile'
    BY <1>t, <2>1 DEF InFile
  <2> QED
    BY <2>3, <2>4, <2>5 DEF BookInv, Loading
<1>2. CASE LoadRecord
  BY <1>2, RecordLoaded
<1>3. CASE LoadEnds
  <2>1. book' = "menu" /\ nread' = 0 /\ UNCHANGED <<user, phonebook, saved, ends>>
    BY <1>3 DEF LoadEnds
  <2>2. BookType'
    BY <1>t, <2>1 DEF BookType
  <2>3. InFile'
    BY <1>t, <2>1 DEF InFile
  <2> QED
    BY <2>1, <2>2, <2>3 DEF BookInv, Loading
<1>4. CASE AddBehind
  <2>1. <<>> \in Seq(Rec)
    OBVIOUS
  <2> QED
    BY <1>4, <2>1, FileKept DEF AddBehind
<1>5. CASE OpenTruncates
  <2>1. /\ book' = "saving" /\ phonebook' = <<>> /\ saved' = <<>> /\ ends' = <<>>
        /\ UNCHANGED <<user, nread>> /\ nread = 0
    BY <1>5, <1>t DEF OpenTruncates
  <2>2. BookType'
    <3>1. 0 \in 0 .. Len(<<>>)
      OBVIOUS
    <3> QED
      BY <1>t, <2>1, <3>1 DEF BookType
  <2>3. InFile'
    BY <2>1, NoLines DEF InFile
  <2> QED
    BY <2>1, <2>2, <2>3 DEF BookInv, Loading
<1>6. CASE WriteRecord
  <2>1. PICK n : n = Len(Line(NextRecord))
    OBVIOUS
  <2>2. n \in 1 .. Len(Line(NextRecord))
    <3>1. NextRecord \in Rec
      <4>1. Len(saved) + 1 \in 1 .. Len(user)
        BY <1>6, <1>t DEF WriteRecord
      <4> QED
        BY <1>t, <4>1, ElementOfSeq DEF NextRecord
    <3>2. PICK m \in Nat, y \in Nat, z \in Nat : IsText(Line(NextRecord), m + y + z + 3)
      BY <3>1, LineParts
    <3>3. n \in Nat /\ n = m + y + z + 3
      BY <2>1, <3>2 DEF IsText
    <3> QED
      BY <2>1, <3>3
  <2>3. /\ book = "saving" /\ Len(saved) < Len(user) /\ Written(n) /\ book' = "saving"
        /\ UNCHANGED <<user, nread>>
    BY <1>6, <2>1 DEF WriteRecord
  <2> QED
    BY <2>1, <2>2, <2>3, NextLine
<1>7. CASE WriteFails
  <2>1. CASE UNCHANGED <<phonebook, saved, ends>>
    <3>1. book # "loading" /\ book' = "menu" /\ UNCHANGED fileVars /\ user' \in Seq(Rec)
      BY <1>7, <1>t, <2>1 DEF WriteFails, fileVars
    <3> QED
      BY <3>1, FileKept
  <2>2. CASE \E n \in 1 .. Len(Line(NextRecord)) - 1 : Written(n)
    <3>1. PICK n \in 1 .. Len(Line(NextRecord)) - 1 : Written(n)
      BY <2>2
    <3>2. NextRecord \in Rec
      <4>1. Len(saved) + 1 \in 1 .. Len(user)
        BY <1>7, <1>t DEF WriteFails
      <4> QED
        BY <1>t, <4>1, ElementOfSeq DEF NextRecord
    <3>3. Len(Line(NextRecord)) \in Nat
      BY <3>2, LineParts DEF IsText
    <3>4. n \in 1 .. Len(Line(NextRecord))
      BY <3>3
    <3>5. /\ book = "saving" /\ Len(saved) < Len(user) /\ book' = "menu"
          /\ UNCHANGED <<user, nread>>
      BY <1>7 DEF WriteFails
    <3> QED
      BY <3>1, <3>4, <3>5, NextLine
  <2> QED
    BY <1>7, <2>1, <2>2 DEF WriteFails
<1>8. CASE SaveEnds
  <2>1. book # "loading" /\ book' = "menu" /\ UNCHANGED fileVars /\ user' \in Seq(Rec)
    BY <1>8, <1>t DEF SaveEnds
  <2> QED
    BY <2>1, FileKept
<1>9. CASE BookEnds
  <2>1. /\ book' = "off" /\ user' = <<>> /\ nread' = 0 /\ UNCHANGED <<phonebook, saved, ends>>
    BY <1>9 DEF BookEnds
  <2>2. <<>> \in Seq(Rec)
    OBVIOUS
  <2>3. BookType'
    BY <1>t, <2>1, <2>2 DEF BookType
  <2>4. InFile'
    BY <1>t, <2>1 DEF InFile
  <2> QED
    BY <2>1, <2>3, <2>4 DEF BookInv, Loading
<1>10. ASSUME NEW r \in Person, AddPerson(r) PROVE BookInv'
  <2>1. user' \in Seq(Rec)
    BY <1>10, <1>t, <1>p, AppendProperties DEF AddPerson
  <2> QED
    BY <1>10, <2>1, FileKept DEF AddPerson
<1>11. ASSUME NEW r \in Person, EditPerson(r) PROVE BookInv'
  <2>1. PICK i \in DOMAIN user : user' = [user EXCEPT ![i] = r]
    BY <1>11 DEF EditPerson
  <2>2. i \in 1 .. Len(user) /\ r \in Rec
    BY <1>t, <1>p, LenProperties
  <2>3. user' \in Seq(Rec)
    BY <1>t, <2>1, <2>2, ExceptSeq
  <2> QED
    BY <1>11, <2>3, FileKept DEF EditPerson
<1>12. ASSUME NEW k, DeletePerson(k) PROVE BookInv'
  <2>1. PICK i \in DOMAIN user :
          user' = SubSeq(user, 1, i - 1) \o SubSeq(user, i + 1, Len(user))
    BY <1>12 DEF DeletePerson
  <2>2. i \in 1 .. Len(user) /\ Len(user) \in Nat
    BY <1>t
  <2>3. \A j \in 1 .. Len(user) : user[j] \in Rec
    BY <1>t, ElementOfSeq
  <2>4. \A j \in 1 .. i - 1 : user[j] \in Rec
    BY <2>2, <2>3
  <2>5. \A j \in i + 1 .. Len(user) : user[j] \in Rec
    BY <2>2, <2>3
  <2>6. 1 \in Int /\ i - 1 \in Int /\ i + 1 \in Int /\ Len(user) \in Int
    BY <2>2
  <2>7. SubSeq(user, 1, i - 1) \in Seq(Rec)
    BY <2>4, <2>6, SubSeqProperties
  <2>8. SubSeq(user, i + 1, Len(user)) \in Seq(Rec)
    BY <2>5, <2>6, SubSeqProperties
  <2>9. user' \in Seq(Rec)
    BY <2>1, <2>7, <2>8, ConcatProperties
  <2> QED
    BY <1>12, <2>9, FileKept DEF DeletePerson
<1>13. CASE UNCHANGED bookVars
  <2>1. UNCHANGED <<book, user, phonebook, nread, saved, ends>>
    BY <1>13 DEF bookVars
  <2>2. BookType' /\ InFile'
    BY <1>t, <2>1 DEF BookType, InFile
  <2>3. Loading'
    BY <2>1 DEF BookInv, Loading, InStep, SameSoFar, PlainUpTo, Complete, End
  <2> QED
    BY <2>2, <2>3 DEF BookInv
<1> QED
  BY <1>1, <1>2, <1>3, <1>4, <1>5, <1>6, <1>7, <1>8, <1>9, <1>10, <1>11, <1>12, <1>13 DEF BookNext

\* loadFromFile stops neither before the first record that is not plain nor
\* behind the last line, and gives every plain record back as it was saved.
LEMMA LoadsSaved ==
    ASSUME BookInv, LoadEnds
    PROVE  /\ \A i \in DOMAIN saved :
                i <= MAX_LENGHT_STRUCT /\ (\A j \in 1 .. i : Plain(saved[j]) /\ Complete(j))
                   => i \in DOMAIN user /\ user[i] = saved[i]
           /\ (\A i \in DOMAIN saved : Fits(saved[i])) => Len(user) <= Len(saved)
<1>1. /\ book = "loading" /\ (Len(user) = MAX_LENGHT_STRUCT \/ ~Matches(nread))
      /\ InStep /\ SameSoFar
      /\ DOMAIN saved = 1 .. Len(saved) /\ DOMAIN user = 1 .. Len(user)
      /\ Len(saved) \in Nat /\ Len(user) \in Nat /\ MAX_LENGHT_STRUCT \in Nat
  <2>1. book = "loading" /\ (Len(user) = MAX_LENGHT_STRUCT \/ ~Matches(nread))
    BY DEF LoadEnds
  <2>2. user \in Seq(Rec) /\ saved \in Seq(Rec)
    BY DEF BookInv, BookType, InFile, FileHolds
  <2>3. MAX_LENGHT_STRUCT \in Nat
    BY PhoneBookAssumption
  <2> QED
    BY <2>1, <2>2, <2>3, LenProperties DEF BookInv, Loading
<1>2. ASSUME NEW i \in 1 .. Len(saved), i <= MAX_LENGHT_STRUCT, PlainUpTo(i)
      PROVE  i \in 1 .. Len(user) /\ user[i] = saved[i]
  <2> DEFINE n == Len(user)
             m == Len(saved)
             w == MAX_LENGHT_STRUCT
  <2>n. n \in Nat /\ m \in Nat /\ w \in Nat /\ i \in 1 .. m /\ i <= w
    BY <1>1, <1>2
  <2> HIDE DEF n, m, w
  <2>1. i <= n
    <3> SUFFICES ASSUME ~(i <= n) PROVE FALSE
      OBVIOUS
    <3>1. PICK k \in 1 .. m : k = n + 1 /\ k <= i
      BY <2>n
    <3>2. PlainUpTo(k)
      <4>1. \A j \in 1 .. k : j \in 1 .. i
        BY <3>1
      <4> QED
        BY <1>2, <4>1 DEF PlainUpTo
    <3>3. Matches(nread)
      BY <1>1, <3>1, <3>2, NextPlain DEF n, m
    <3>4. n # w
      BY <2>n
    <3> QED
      BY <1>1, <3>3, <3>4 DEF n, w
  <2>2. user[i] = saved[i]
    BY <1>1, <1>2, <2>1 DEF SameSoFar, n
  <2>3. i \in 1 .. n
    BY <2>n, <2>1
  <2> QED
    BY <2>2, <2>3 DEF n
<1>3. (\A i \in 1 .. Len(saved) : Fits(saved[i])) => Len(user) <= Len(saved)
  BY <1>1 DEF InStep
<1> QED
  BY <1>1, <1>2, <1>3 DEF PlainUpTo

\* Whatever was typed, edited, saved, cut short or reloaded before: a run starts
\* with the records of the last save, as far as they are plain, and with no more
\* of them, unless a bar in a name makes a record too long (main.c:18-63).
THEOREM SavesReload == BookSpec => StartsFromSaved
<1>1. BookInit => BookInv
  <2> SUFFICES ASSUME BookInit PROVE BookInv
    OBVIOUS
  <2>1. /\ user = <<>> /\ phonebook = <<>> /\ saved = <<>> /\ ends = <<>>
        /\ nread = 0 /\ book = "off"
    BY DEF BookInit
  <2>2. <<>> \in Seq(Rec) /\ 0 \in 0 .. Len(<<>>)
    OBVIOUS
  <2>3. BookType
    BY <2>1, <2>2 DEF BookType
  <2>4. InFile
    BY <2>1, NoLines DEF InFile
  <2> QED
    BY <2>1, <2>3, <2>4 DEF BookInv, Loading
<1> DEFINE Loads == LoadEnds =>
        /\ \A i \in DOMAIN saved :
             i <= MAX_LENGHT_STRUCT /\ (\A j \in 1 .. i : Plain(saved[j]) /\ Complete(j))
                => i \in DOMAIN user /\ user[i] = saved[i]
        /\ (\A i \in DOMAIN saved : Fits(saved[i])) => Len(user) <= Len(saved)
<1>2. BookInv /\ [BookNext]_bookVars => [Loads]_bookVars
  BY LoadsSaved
<1> QED
  BY <1>1, <1>2, BookStep, PTL DEF BookSpec, StartsFromSaved

-----------------------------------------------------------------------------
(***************************************************************************)
(* RawEcho: any number of clients and other senders, any size of the table *)
(* and of the socket buffers.                                              *)
(***************************************************************************)
Address == {Server, Own, Empty} \cup Foreign
EchoText == {"text", "CLOSE_CONNECTION"}

EchoPacket ==
    [from : Address, to : Address, text : EchoText, n : Nat, by : Client \cup Foreign, k : Nat]

EchoType ==
    /\ clients \in [Slot -> [addr : Address, count : Nat]]
    /\ rcv \in [Socket -> Seq(EchoPacket)]
    /\ client \in [Client -> {"off", "fgets", "recv", "close", "stopped"}]
    /\ sent \in [Client -> Nat]
    /\ packets \in Nat

\* A packet in a queue was sent with a number that exists by now.
Numbered == \A s \in Socket : \A j \in 1 .. Len(rcv[s]) : rcv[s][j].k <= packets

\* The oldest packet of a client that waits for its reply is a packet to the
\* server, or it was queued before the client sent its line.
Stale(c, p) == p.to = Server \/ (p.by = c => p.k < sent[c])
StaleFirst ==
    \A c \in Client : client[c] = "recv" =>
        \/ RCVBUF = 0 /\ rcv[c] = <<>>
        \/ rcv[c] # <<>> /\ Stale(c, Head(rcv[c]))

EchoInv == EchoType /\ UniqueEntries /\ Numbered /\ StaleFirst

\* The server starts with an empty table and empty queues.
LEMMA EchoInit == Init => EchoInv
<1> SUFFICES ASSUME Init PROVE EchoInv
  OBVIOUS
<1>1. EchoType
  BY DEF Init, EchoType, Address
<1>2. UniqueEntries /\ Numbered /\ StaleFirst
  BY DEF Init, UniqueEntries, Numbered, StaleFirst
<1> QED
  BY <1>1, <1>2 DEF EchoInv

\* The server has a socket that is no client's.
LEMMA SocketFacts == Server \in Socket /\ \A c \in Client : c \in Socket /\ c # Server
BY RawEchoAssumption DEF Socket, Server

\* What a sendto, successful or not, does to the queues.
LEMMA Delivered ==
    ASSUME NEW q \in [Socket -> Seq(EchoPacket)], NEW p \in EchoPacket, Deliver(p, q) \/ NotSent(p, q)
    PROVE  /\ rcv' \in [Socket -> Seq(EchoPacket)]
           /\ \A s \in Socket : \/ rcv'[s] = q[s]
                                \/ Len(q[s]) < RCVBUF /\ rcv'[s] = Append(q[s], p)
           /\ \A s \in Socket : Deliver(p, q) /\ Open(s) /\ Len(q[s]) < RCVBUF
                                  => rcv'[s] = Append(q[s], p)
<1>1. \A s \in Socket : Append(q[s], p) \in Seq(EchoPacket)
  BY AppendProperties
<1> QED
  BY <1>1 DEF Deliver, NotSent

\* Packets that are added to queues, and one that is taken from the server's,
\* leave the oldest packet of every client in place.
LEMMA QueuesKeep ==
    ASSUME EchoInv, NEW q \in [Socket -> Seq(EchoPacket)],
           \A s \in Socket : q[s] = rcv[s] \/ (s = Server /\ rcv[s] # <<>> /\ q[s] = Tail(rcv[s])),
           NEW p \in EchoPacket, packets' \in Nat, packets <= packets', p.k <= packets',
           Deliver(p, q) \/ NotSent(p, q)
    PROVE  /\ rcv' \in [Socket -> Seq(EchoPacket)]
           /\ Numbered'
           /\ \A c \in Client : rcv[c] # <<>> => rcv'[c] # <<>> /\ Head(rcv'[c]) = Head(rcv[c])
           /\ RCVBUF = 0 => \A c \in Client : rcv'[c] = rcv[c]
<1>1. /\ rcv' \in [Socket -> Seq(EchoPacket)]
      /\ \A s \in Socket : \/ rcv'[s] = q[s]
                           \/ Len(q[s]) < RCVBUF /\ rcv'[s] = Append(q[s], p)
  BY Delivered
<1>2. ASSUME NEW s \in Socket, NEW j \in 1 .. Len(q[s]) PROVE q[s][j].k <= packets'
  <2>1. rcv[s] \in Seq(EchoPacket) /\ packets \in Nat
    BY DEF EchoInv, EchoType
  <2>2. PICK i \in 1 .. Len(rcv[s]) : q[s][j] = rcv[s][i]
    <3>1. CASE q[s] = rcv[s]
      BY <1>2, <3>1
    <3>2. CASE rcv[s] # <<>> /\ q[s] = Tail(rcv[s])
      <4>1. j + 1 \in 1 .. Len(rcv[s]) /\ q[s][j] = rcv[s][j + 1]
        BY <1>2, <2>1, <3>2
      <4> QED
        BY <4>1
    <3> QED
      BY <3>1, <3>2
  <2>3. rcv[s][i] \in EchoPacket /\ rcv[s][i].k <= packets
    BY <2>1 DEF EchoInv, Numbered
  <2>4. rcv[s][i].k \in Nat
    BY <2>3 DEF EchoPacket
  <2> QED
    BY <2>1, <2>2, <2>3, <2>4
<1>3. Numbered'
  <2> SUFFICES ASSUME NEW s \in Socket, NEW j \in 1 .. Len(rcv'[s]) PROVE rcv'[s][j].k <= packets'
    BY DEF Numbered
  <2>1. CASE rcv'[s] = q[s]
    BY <1>2, <2>1
  <2>2. CASE rcv'[s] = Append(q[s], p)
    <3>1. /\ Len(q[s]) \in Nat /\ Len(rcv'[s]) = Len(q[s]) + 1 /\ rcv'[s][Len(q[s]) + 1] = p
          /\ \A i \in 1 .. Len(q[s]) : rcv'[s][i] = q[s][i]
      BY <2>2, AppendProperties
    <3>2. j = Len(q[s]) + 1 \/ j \in 1 .. Len(q[s])
      BY <3>1
    <3> QED
      BY <1>2, <3>1, <3>2
  <2> QED
    BY <1>1, <2>1, <2>2
<1>4. \A c \in Client : q[c] = rcv[c]
  BY SocketFacts
<1>5. ASSUME NEW c \in Client, rcv[c] # <<>> PROVE rcv'[c] # <<>> /\ Head(rcv'[c]) = Head(rcv[c])
  <2>1. rcv[c] \in Seq(EchoPacket)
    BY SocketFacts DEF EchoInv, EchoType
  <2>2. Append(rcv[c], p) # <<>> /\ Head(Append(rcv[c], p)) = Head(rcv[c])
    BY <1>5, <2>1
  <2> QED
    BY <1>1, <1>4, <1>5, <2>2, SocketFacts
<1>6. RCVBUF = 0 => \A c \in Client : rcv'[c] = rcv[c]
  <2>1. \A c \in Client : Len(rcv[c]) \in Nat
    BY SocketFacts DEF EchoInv, EchoType
  <2> QED
    BY <1>1, <1>4, <2>1, SocketFacts
<1> QED
  BY <1>1, <1>3, <1>5, <1>6

\* A client that goes on waiting still has a stale packet first.
LEMMA StaleKeeps ==
    ASSUME EchoInv,
           \A c \in Client : client'[c] = "recv" =>
               /\ client[c] = "recv" /\ sent'[c] = sent[c]
               /\ rcv[c] # <<>> => rcv'[c] # <<>> /\ Head(rcv'[c]) = Head(rcv[c])
               /\ RCVBUF = 0 => rcv'[c] = rcv[c]
    PROVE  StaleFirst'
BY DEF EchoInv, StaleFirst, Stale

\* The steps that leave the queues and the table alone and let no client wait.
LEMMA EchoQuietKeeps ==
    ASSUME EchoInv, UNCHANGED <<clients, rcv, sent, packets>>,
           client' \in [Client -> {"off", "fgets", "recv", "close", "stopped"}],
           \A c \in Client : client'[c] = "recv" => client[c] = "recv"
    PROVE  EchoInv'
<1>1. EchoType'
  BY DEF EchoInv, EchoType
<1>2. UniqueEntries' /\ Numbered'
  BY DEF EchoInv, UniqueEntries, Numbered
<1>3. StaleFirst'
  BY StaleKeeps
<1> QED
  BY <1>1, <1>2, <1>3 DEF EchoInv

\* A line goes to every open socket, the sender's own included: its copy, or
\* what was queued before it, is now the oldest packet of the sender.
LEMMA SendLineKeeps == ASSUME EchoInv, NEW c \in Client, SendLine(c) PROVE EchoInv'
<1>1. PICK word \in EchoText : Deliver(Packet(Own, Server, word, 0, c, packets + 1), rcv)
  BY DEF SendLine, EchoText
<1> DEFINE p == Packet(Own, Server, word, 0, c, packets + 1)
<1>2. /\ client[c] = "fgets" /\ packets' = packets + 1 /\ packets \in Nat
      /\ sent' = [sent EXCEPT ![c] = packets + 1] /\ client' = [client EXCEPT ![c] = "recv"]
      /\ clients' = clients /\ rcv \in [Socket -> Seq(EchoPacket)]
  BY DEF SendLine, EchoInv, EchoType
<1>3. p \in EchoPacket /\ p.k = packets + 1 /\ p.to = Server /\ Deliver(p, rcv)
  BY <1>1, <1>2 DEF Packet, EchoPacket, Address
<1> HIDE DEF p
<1>4. /\ rcv' \in [Socket -> Seq(EchoPacket)] /\ Numbered'
      /\ \A d \in Client : rcv[d] # <<>> => rcv'[d] # <<>> /\ Head(rcv'[d]) = Head(rcv[d])
      /\ RCVBUF = 0 => \A d \in Client : rcv'[d] = rcv[d]
  <2>1. packets' \in Nat /\ packets <= packets' /\ p.k <= packets'
    BY <1>2, <1>3
  <2> QED
    BY <1>2, <1>3, <2>1, QueuesKeep
<1>5. EchoType'
  BY <1>2, <1>4 DEF EchoInv, EchoType
<1>6. UniqueEntries'
  BY <1>2 DEF EchoInv, UniqueEntries
<1>7. StaleFirst'
  <2> SUFFICES ASSUME NEW d \in Client, client'[d] = "recv"
               PROVE  \/ RCVBUF = 0 /\ rcv'[d] = <<>>
                      \/ rcv'[d] # <<>> /\ Stale(d, Head(rcv[d]))'
    BY DEF StaleFirst, Stale
  <2>1. CASE d # c
    <3>1. client[d] = "recv" /\ sent'[d] = sent[d]
      BY <1>2, <2>1 DEF EchoInv, EchoType
    <3> QED
      BY <1>4, <3>1 DEF EchoInv, StaleFirst, Stale
  <2>2. CASE d = c
    <3>1. sent'[c] = packets + 1 /\ rcv[c] \in Seq(EchoPacket)
      BY <1>2, SocketFacts DEF EchoInv, EchoType
    <3>2. CASE rcv[c] # <<>>
      <4>1. Head(rcv[c]) = rcv[c][1] /\ 1 \in 1 .. Len(rcv[c]) /\ rcv[c][1] \in EchoPacket
        BY <3>1, <3>2
      <4>2. rcv[c][1].k <= packets /\ rcv[c][1].k \in Nat
        BY <4>1, SocketFacts DEF EchoInv, Numbered, EchoPacket
      <4>3. rcv[c][1].k < packets + 1
        BY <1>2, <4>2
      <4> QED
        BY <1>4, <2>2, <3>1, <3>2, <4>1, <4>3 DEF Stale
    <3>3. CASE rcv[c] = <<>> /\ RCVBUF # 0
      <4>1. Len(rcv[c]) < RCVBUF
        BY <3>3, RawEchoAssumption
      <4>2. Open(c)
        BY <1>2, SocketFacts DEF Open
      <4>3. rcv'[c] = Append(rcv[c], p)
        BY <1>2, <1>3, <4>1, <4>2, SocketFacts, Delivered
      <4>4. rcv'[c] # <<>> /\ Head(rcv'[c]) = p
        BY <1>3, <3>3, <4>3
      <4> QED
        BY <1>3, <2>2, <4>4 DEF Stale
    <3>4. CASE rcv[c] = <<>> /\ RCVBUF = 0
      BY <1>4, <2>2, <3>4
    <3> QED
      BY <3>2, <3>3, <3>4
  <2> QED
    BY <2>1, <2>2
<1> QED
  BY <1>4, <1>5, <1>6, <1>7 DEF EchoInv

\* A client prints the first packet and stops waiting.
LEMMA ReceiveKeeps == ASSUME EchoInv, NEW c \in Client, Receive(c) PROVE EchoInv'
<1>1. /\ rcv[c] # <<>> /\ rcv' = [rcv EXCEPT ![c] = Tail(rcv[c])]
      /\ client' = [client EXCEPT ![c] = LoopTest(c)] /\ LoopTest(c) \in {"fgets", "close"}
      /\ UNCHANGED <<clients, sent, packets>>
  BY DEF Receive, LoopTest
<1>2. rcv \in [Socket -> Seq(EchoPacket)] /\ c \in Socket /\ packets \in Nat
  BY SocketFacts DEF EchoInv, EchoType
<1>3. EchoType'
  BY <1>1, <1>2 DEF EchoInv, EchoType
<1>4. UniqueEntries'
  BY <1>1 DEF EchoInv, UniqueEntries
<1>5. Numbered'
  <2> SUFFICES ASSUME NEW s \in Socket, NEW j \in 1 .. Len(rcv'[s]) PROVE rcv'[s][j].k <= packets
    BY <1>1 DEF Numbered
  <2>1. CASE s # c
    BY <1>1, <1>2, <2>1 DEF EchoInv, Numbered
  <2>2. CASE s = c
    <3>1. rcv'[s] = Tail(rcv[s]) /\ rcv[s] \in Seq(EchoPacket) /\ rcv[s] # <<>>
      BY <1>1, <1>2, <2>2
    <3>2. j + 1 \in 1 .. Len(rcv[s]) /\ rcv'[s][j] = rcv[s][j + 1]
      BY <3>1
    <3> QED
      BY <3>2 DEF EchoInv, Numbered
  <2> QED
    BY <2>1, <2>2
<1>6. StaleFirst'
  <2>1. \A d \in Client : client'[d] = "recv" => d # c /\ client[d] = "recv" /\ rcv'[d] = rcv[d]
    BY <1>1, <1>2, SocketFacts DEF EchoInv, EchoType
  <2> QED
    BY <1>1, <2>1, StaleKeeps
<1> QED
  BY <1>3, <1>4, <1>5, <1>6 DEF EchoInv

\* CloseClient and ForeignSend: a packet to the server, and no client waits.
LEMMA OtherSendKeeps ==
    ASSUME EchoInv, NEW p \in EchoPacket, p.k = 0, Deliver(p, rcv) \/ NotSent(p, rcv),
           packets' \in {packets, packets + 1}, UNCHANGED <<clients, sent>>,
           client' \in [Client -> {"off", "fgets", "recv", "close", "stopped"}],
           \A c \in Client : client'[c] = "recv" => client[c] = "recv"
    PROVE  EchoInv'
<1>1. packets' \in Nat /\ packets <= packets' /\ p.k <= packets' /\ rcv \in [Socket -> Seq(EchoPacket)]
  BY DEF EchoInv, EchoType
<1>2. /\ rcv' \in [Socket -> Seq(EchoPacket)] /\ Numbered'
      /\ \A c \in Client : rcv[c] # <<>> => rcv'[c] # <<>> /\ Head(rcv'[c]) = Head(rcv[c])
      /\ RCVBUF = 0 => \A c \in Client : rcv'[c] = rcv[c]
  BY <1>1, QueuesKeep
<1>3. EchoType'
  BY <1>1, <1>2 DEF EchoInv, EchoType
<1>4. UniqueEntries'
  BY DEF EchoInv, UniqueEntries
<1>5. StaleFirst'
  BY <1>2, StaleKeeps
<1> QED
  BY <1>2, <1>3, <1>4, <1>5 DEF EchoInv

\* What a round of the server works on.
LEMMA RoundFacts ==
    ASSUME EchoInv, Round
    PROVE  /\ rcv[Server] # <<>> /\ Arrived \in EchoPacket /\ Arrived.k <= packets /\ packets \in Nat
           /\ Rest \in [Socket -> Seq(EchoPacket)]
           /\ \A s \in Socket : Rest[s] = rcv[s] \/ (s = Server /\ Rest[s] = Tail(rcv[s]))
           /\ UNCHANGED <<client, sent, packets>>
<1>1. rcv \in [Socket -> Seq(EchoPacket)] /\ rcv[Server] # <<>> /\ packets \in Nat
  BY DEF EchoInv, EchoType, Round
<1>2. /\ rcv[Server] \in Seq(EchoPacket) /\ Arrived = rcv[Server][1] /\ 1 \in 1 .. Len(rcv[Server])
      /\ Arrived \in EchoPacket
  BY <1>1, SocketFacts DEF Arrived
<1>3. Arrived.k <= packets
  BY <1>2, SocketFacts DEF EchoInv, Numbered
<1> QED
  BY <1>1, <1>2, <1>3, SocketFacts DEF Rest, Round

\* The server takes a packet and sends nothing.
LEMMA TakenKeeps ==
    ASSUME EchoInv, Round, rcv' = Rest, UniqueEntries',
           clients' \in [Slot -> [addr : Address, count : Nat]]
    PROVE  EchoInv'
<1>1. EchoType'
  BY RoundFacts DEF EchoInv, EchoType
<1>2. Numbered'
  <2> SUFFICES ASSUME NEW s \in Socket, NEW j \in 1 .. Len(rcv'[s]) PROVE rcv'[s][j].k <= packets
    BY RoundFacts DEF Numbered
  <2>1. CASE rcv'[s] = rcv[s]
    BY <2>1 DEF EchoInv, Numbered
  <2>2. CASE s = Server /\ rcv'[s] = Tail(rcv[s])
    <3>1. rcv[s] \in Seq(EchoPacket) /\ rcv[s] # <<>>
      BY <2>2, RoundFacts DEF EchoInv, EchoType
    <3>2. j + 1 \in 1 .. Len(rcv[s]) /\ rcv'[s][j] = rcv[s][j + 1]
      BY <2>2, <3>1
    <3> QED
      BY <3>2 DEF EchoInv, Numbered
  <2> QED
    BY <2>1, <2>2, RoundFacts
<1>3. StaleFirst'
  <2>1. \A c \in Client : rcv'[c] = rcv[c]
    BY RoundFacts, SocketFacts
  <2> QED
    BY <2>1, RoundFacts, StaleKeeps
<1> QED
  BY <1>1, <1>2, <1>3 DEF EchoInv

\* The server frees the entry of an address that said good-bye.
LEMMA RemoveKeeps == EchoInv /\ Remove => EchoInv'
<1> SUFFICES ASSUME EchoInv, Remove PROVE EchoInv'
  OBVIOUS
<1>1. Round /\ rcv' = Rest
  BY DEF Remove
<1>2. clients' \in [Slot -> [addr : Address, count : Nat]] /\ UniqueEntries'
  <2>1. CASE clients' = clients
    BY <2>1 DEF EchoInv, EchoType, UniqueEntries
  <2>2. ASSUME NEW i \in Slot, clients' = [clients EXCEPT ![i] = [addr |-> Empty, count |-> 0]]
        PROVE  clients' \in [Slot -> [addr : Address, count : Nat]] /\ UniqueEntries'
    BY <2>2 DEF EchoInv, EchoType, UniqueEntries, Address
  <2> QED
    BY <2>1, <2>2 DEF Remove
<1> QED
  BY <1>1, <1>2, TakenKeeps

\* find_client_index comes first, so add_client is called only for an address
\* that has no entry.
LEMMA EntryKeeps ==
    ASSUME EchoInv, NEW a \in Address, NEW i \in Slot, Entry(a, i), NEW n \in Nat,
           clients' = [clients EXCEPT ![i] = [addr |-> a, count |-> n]]
    PROVE  clients' \in [Slot -> [addr : Address, count : Nat]] /\ UniqueEntries'
<1>1. clients \in [Slot -> [addr : Address, count : Nat]]
  BY DEF EchoInv, EchoType
<1>2. clients'[i].addr = a /\ \A j \in Slot : j # i => clients'[j] = clients[j]
  BY <1>1
<1>3. \A j \in Slot : j # i /\ clients[j].addr = a /\ a # Empty => FALSE
  BY DEF Entry, First, Known, EchoInv, UniqueEntries
<1>4. UniqueEntries'
  BY <1>2, <1>3 DEF EchoInv, UniqueEntries
<1> QED
  BY <1>1, <1>4

\* The server answers, with a new entry or a greater count.
LEMMA ReplyKeeps == EchoInv /\ Reply => EchoInv'
<1> SUFFICES ASSUME EchoInv, Reply PROVE EchoInv'
  OBVIOUS
<1>1. Round
  BY DEF Reply
<1> DEFINE n(i) == (IF clients[i].addr = Arrived.from THEN clients[i].count ELSE 0) + 1
           p(i) == Packet(Server, Arrived.from, Arrived.text, n(i), Arrived.by, Arrived.k)
<1>2. PICK i \in Slot :
        /\ Entry(Arrived.from, i)
        /\ clients' = [clients EXCEPT ![i] = [addr |-> Arrived.from, count |-> n(i)]]
        /\ Deliver(p(i), Rest) \/ NotSent(p(i), Rest)
  BY DEF Reply
<1>3. n(i) \in Nat /\ Arrived.from \in Address
  <2>1. clients[i].count \in Nat
    BY DEF EchoInv, EchoType
  <2>2. Arrived.from \in Address
    BY <1>1, RoundFacts DEF EchoPacket
  <2> QED
    BY <2>1, <2>2
<1>4. p(i) \in EchoPacket /\ p(i).k <= packets
  BY <1>1, <1>3, RoundFacts DEF Packet, EchoPacket, Address
<1> HIDE DEF n, p
<1>5. clients' \in [Slot -> [addr : Address, count : Nat]] /\ UniqueEntries'
  BY <1>2, <1>3, EntryKeeps
<1>6. /\ rcv' \in [Socket -> Seq(EchoPacket)] /\ Numbered'
      /\ \A c \in Client : rcv[c] # <<>> => rcv'[c] # <<>> /\ Head(rcv'[c]) = Head(rcv[c])
      /\ RCVBUF = 0 => \A c \in Client : rcv'[c] = rcv[c]
  <2>1. packets' \in Nat /\ packets <= packets' /\ p(i).k <= packets'
    BY <1>1, <1>4, RoundFacts
  <2>2. \A s \in Socket :
          Rest[s] = rcv[s] \/ (s = Server /\ rcv[s] # <<>> /\ Rest[s] = Tail(rcv[s]))
    BY <1>1, RoundFacts
  <2> QED
    BY <1>1, <1>2, <1>4, <2>1, <2>2, RoundFacts, QueuesKeep
<1>7. EchoType'
  BY <1>1, <1>5, <1>6, RoundFacts DEF EchoInv, EchoType
<1>8. StaleFirst'
  BY <1>1, <1>6, RoundFacts, StaleKeeps
<1> QED
  BY <1>5, <1>6, <1>7, <1>8 DEF EchoInv

\* One step per action of the server, the clients and the others.
LEMMA EchoStep == EchoInv /\ [Next]_vars => EchoInv'
<1> SUFFICES ASSUME EchoInv, [Next]_vars PROVE EchoInv'
  OBVIOUS
<1>1. ASSUME NEW c \in Client, StartClient(c) \/ NothingSent(c) \/ SignalClient(c) PROVE EchoInv'
  <2>1. /\ UNCHANGED <<clients, rcv, sent, packets>>
        /\ client' = client \/ \E to \in {"fgets", "close"} : client' = [client EXCEPT ![c] = to]
    BY <1>1 DEF StartClient, NothingSent, SignalClient, LoopTest
  <2>2. /\ client' \in [Client -> {"off", "fgets", "recv", "close", "stopped"}]
        /\ \A d \in Client : client'[d] = "recv" => client[d] = "recv"
    BY <2>1 DEF EchoInv, EchoType
  <2> QED
    BY <2>1, <2>2, EchoQuietKeeps
<1>2. ASSUME NEW c \in Client, SendLine(c) \/ Receive(c) PROVE EchoInv'
  BY <1>2, SendLineKeeps, ReceiveKeeps
<1>3. ASSUME NEW c \in Client, CloseClient(c) PROVE EchoInv'
  <2> DEFINE p == Packet(Own, Server, "CLOSE_CONNECTION", 0, c, 0)
  <2>1. p \in EchoPacket /\ p.k = 0
    BY DEF Packet, EchoPacket, Address, EchoText
  <2>2. /\ Deliver(p, rcv) \/ NotSent(p, rcv)
        /\ packets' = packets /\ clients' = clients /\ sent' = sent
        /\ client' = [client EXCEPT ![c] = "stopped"]
    BY <1>3 DEF CloseClient
  <2> HIDE DEF p
  <2>3. /\ client' \in [Client -> {"off", "fgets", "recv", "close", "stopped"}]
        /\ \A d \in Client : client'[d] = "recv" => client[d] = "recv"
    BY <2>2 DEF EchoInv, EchoType
  <2> QED
    BY <2>1, <2>2, <2>3, OtherSendKeeps
<1>4. ASSUME NEW a \in Foreign, ForeignSend(a) PROVE EchoInv'
  <2>1. PICK word \in EchoText : Deliver(Packet(a, Server, word, 0, a, 0), rcv)
    BY <1>4 DEF ForeignSend, EchoText
  <2> DEFINE p == Packet(a, Server, word, 0, a, 0)
  <2>2. p \in EchoPacket /\ p.k = 0 /\ Deliver(p, rcv)
    BY <2>1 DEF Packet, EchoPacket, Address
  <2> HIDE DEF p
  <2>3. packets' = packets + 1 /\ UNCHANGED <<clients, sent, client>>
    BY <1>4 DEF ForeignSend
  <2>4. client' \in [Client -> {"off", "fgets", "recv", "close", "stopped"}]
    BY <2>3 DEF EchoInv, EchoType
  <2> QED
    BY <2>2, <2>3, <2>4, OtherSendKeeps
<1>5. CASE Ignore \/ TooManyClients
  <2>1. Round /\ rcv' = Rest /\ clients' = clients
    BY <1>5 DEF Ignore, TooManyClients
  <2>2. UniqueEntries' /\ clients' \in [Slot -> [addr : Address, count : Nat]]
    BY <2>1 DEF EchoInv, EchoType, UniqueEntries
  <2> QED
    BY <2>1, <2>2, TakenKeeps
<1>6. CASE Remove \/ Reply
  BY <1>6, RemoveKeeps, ReplyKeeps
<1>7. CASE SignalServer \/ UNCHANGED vars
  <2>1. UNCHANGED <<clients, rcv, sent, packets, client>>
    BY <1>7 DEF SignalServer, vars
  <2>2. client' \in [Client -> {"off", "fgets", "recv", "close", "stopped"}]
    BY <2>1 DEF EchoInv, EchoType
  <2> QED
    BY <2>1, <2>2, EchoQuietKeeps
<1> QED
  BY <1>1, <1>2, <1>3, <1>4, <1>5, <1>6, <1>7 DEF Next, ServerStep

\* No address has two entries of the server's table, whatever its size.
THEOREM EntriesUnique == Spec => []UniqueEntries
<1>1. EchoInv => UniqueEntries
  BY DEF EchoInv
<1> QED
  BY EchoInit, EchoStep, <1>1, PTL DEF Spec

\* Only a packet of an address changes the entry of that address.
THEOREM EntriesUndisturbed == Spec => EntriesIsolated
<1>1. EchoInv /\ [Next]_vars =>
        [\A i \in Slot : clients[i].addr # Empty /\ clients'[i] # clients[i]
                           => rcv[Server] # <<>> /\ Arrived.from = clients[i].addr]_vars
  <2> SUFFICES ASSUME EchoInv, [Next]_vars, NEW i \in Slot,
                      clients[i].addr # Empty, clients'[i] # clients[i]
               PROVE  rcv[Server] # <<>> /\ Arrived.from = clients[i].addr
    OBVIOUS
  <2>1. clients' # clients
    OBVIOUS
  <2>2. Remove \/ Reply
    BY <2>1 DEF Next, StartClient, SendLine, NothingSent, Receive, CloseClient, SignalClient,
                ForeignSend, ServerStep, Ignore, TooManyClients, SignalServer, vars
  <2>3. rcv[Server] # <<>>
    BY <2>2 DEF Remove, Reply, Round
  <2>4. clients \in [Slot -> [addr : Address, count : Nat]]
    BY DEF EchoInv, EchoType
  <2>5. CASE Remove
    <3>1. PICK j \in Slot : /\ First(Known(Arrived.from), j)
                            /\ clients' = [clients EXCEPT ![j] = [addr |-> Empty, count |-> 0]]
      BY <2>1, <2>5 DEF Remove
    <3>2. j = i
      BY <2>4, <3>1
    <3> QED
      BY <2>3, <3>1, <3>2 DEF First, Known
  <2>6. CASE Reply
    <3>1. PICK j \in Slot :
            /\ Entry(Arrived.from, j)
            /\ \E e : clients' = [clients EXCEPT ![j] = e]
      BY <2>6 DEF Reply
    <3>2. j = i
      BY <2>4, <3>1
    <3> QED
      BY <2>3, <3>1, <3>2 DEF Entry, First, Known
  <2> QED
    BY <2>2, <2>5, <2>6
<1> QED
  BY EchoInit, EchoStep, <1>1, PTL DEF Spec, EntriesIsolated

\* The reply to the newest line is never what a client prints after sending it.
THEOREM ReplyAlwaysLate == Spec => ReplyIsLate
<1>1. EchoInv /\ [Next]_vars =>
        [\A c \in Client : Prints(c) /\ Receive(c) /\ Head(rcv[c]).by = c
                             => Head(rcv[c]).k < sent[c]]_vars
  BY DEF EchoInv, StaleFirst, Stale, Prints, Own, Server
<1> QED
  BY EchoInit, EchoStep, <1>1, PTL DEF Spec, ReplyIsLate

-----------------------------------------------------------------------------
(***************************************************************************)
(* ContactTree: a search tree at every level of every recursion, for any   *)
(* number of nodes, ids and commands.  What cannot be had by induction on  *)
(* a tree is had from Subtree being the least closed set: a set that is    *)
(* closed under the children holds the subtree of each of its nodes.       *)
(***************************************************************************)
Map == [Pointer -> Addr \cup {NULL}]

TreeType ==
    /\ ptr \in Map /\ id \in [Addr -> Int] /\ text \in [Addr -> Text]
    /\ alloc \subseteq Addr
    /\ op \in {"menu", "insert", "edit", "find", "delete", "min", "exit", "crash"}
    /\ link \in Pointer
    /\ key \in Int
    /\ arg \in Int \X Text

\* The pointers of the nodes in S.
Of(S) == {Left(a) : a \in S} \cup {Right(a) : a \in S}

\* Freed nodes point nowhere, and the recursion is in the tree.
Placed ==
    /\ \A p \in Of(Addr \ alloc) : ptr[p] = NULL
    /\ link \in Of(alloc) \cup {AtRoot}

\* Ids are in use once, but for the minimum that is being deleted.
UniqueIds ==
    \A a, b \in alloc : id[a] = id[b] => a = b \/ (op = "delete" /\ id[a] = key)

\* A node with the id that a recursion looks for is still below it.
Searched ==
    op \in {"insert", "edit", "find"} =>
        key = arg[1] /\ \A b \in alloc : id[b] = key => b \in Subtree(ptr, node)

\* The new node will be on the right side of all nodes above it.
Path ==
    op = "insert" => \A c \in alloc :
        /\ link \in Of(Subtree(ptr, ptr[Left(c)])) \cup {Left(c)} => key < id[c]
        /\ link \in Of(Subtree(ptr, ptr[Right(c)])) \cup {Right(c)} => key > id[c]

\* What delete looks for is below it: the node b with the typed id, or the
\* minimum b that was copied to a.
Target ==
    op = "delete" => \E a, b \in alloc :
        /\ \A c \in alloc : id[c] = key <=> c \in {a, b}
        /\ b \in Subtree(ptr, node)
        /\ a = b => key = arg[1]
        /\ a # b =>
             /\ a \notin Subtree(ptr, node) /\ text[a] = text[b] /\ ptr[Left(b)] = NULL
             /\ \A c \in alloc : id[c] # arg[1]

\* findMin has passed only greater ids.
Least ==
    op = "min" =>
        /\ node \in alloc /\ id[node] = key /\ key = arg[1]
        /\ min \in Subtree(ptr, ptr[Right(node)])
        /\ \A b \in Subtree(ptr, ptr[Right(node)]) : b \in Subtree(ptr, min) \/ id[b] > id[min]

TreeInv ==
    TreeType /\ Placed /\ SearchTree /\ UniqueIds /\ Searched /\ Path /\ Target /\ Least

\* The pointers of different nodes are different.
LEMMA PointerFacts ==
    /\ AtRoot \in Pointer
    /\ \A a \in Addr : /\ Left(a) \in Pointer /\ Right(a) \in Pointer
                       /\ Left(a) # AtRoot /\ Right(a) # AtRoot
    /\ \A a, b \in Addr : Left(a) # Right(b)
    /\ \A a, b \in Addr : Left(a) = Left(b) => a = b
    /\ \A a, b \in Addr : Right(a) = Right(b) => a = b
    /\ \A p \in Pointer : p = AtRoot \/ \E a \in Addr : p = Left(a) \/ p = Right(a)
<1>1. \A p \in Pointer : p = AtRoot \/ \E a \in Addr : p = Left(a) \/ p = Right(a)
  BY DEF Pointer, Left, Right, AtRoot
<1> QED
  BY <1>1, ContactTreeAssumption DEF Pointer, Left, Right, AtRoot

\* A node is in its own subtree.
LEMMA SubNode == ASSUME NEW f, NEW p \in Addr PROVE p \in Subtree(f, p)
BY ContactTreeAssumption DEF Subtree

\* A closed set holds the subtree of each of its nodes.
LEMMA SubLeast ==
    ASSUME NEW f, NEW S \in SUBSET Addr, Closed(f, S), NEW p \in S \cup {NULL}
    PROVE  Subtree(f, p) \subseteq S
BY DEF Subtree

\* Nothing is below NULL.
LEMMA SubNull == ASSUME NEW f PROVE Subtree(f, NULL) = {}
<1>1. Closed(f, {})
  BY DEF Closed
<1> QED
  BY <1>1, SubLeast

\* A subtree consists of nodes.
LEMMA SubAddr == ASSUME NEW f, NEW p PROVE Subtree(f, p) \subseteq Addr
BY DEF Subtree

\* A subtree holds the children of its nodes.
LEMMA SubClosed ==
    ASSUME NEW f \in Map, NEW p
    PROVE  /\ Closed(f, Subtree(f, p))
           /\ \A a \in Subtree(f, p) : /\ f[Left(a)] \in Subtree(f, p) \cup {NULL}
                                       /\ f[Right(a)] \in Subtree(f, p) \cup {NULL}
<1>1. ASSUME NEW a \in Subtree(f, p)
      PROVE  /\ f[Left(a)] \in Subtree(f, p) \cup {NULL}
             /\ f[Right(a)] \in Subtree(f, p) \cup {NULL}
  <2>1. ASSUME NEW S \in SUBSET Addr, p \in S \cup {NULL}, Closed(f, S)
        PROVE  f[Left(a)] \in S \cup {NULL} /\ f[Right(a)] \in S \cup {NULL}
    <3>1. a \in S
      BY <2>1 DEF Subtree
    <3> QED
      BY <2>1, <3>1 DEF Closed
  <2>2. f[Left(a)] \in Addr \cup {NULL} /\ f[Right(a)] \in Addr \cup {NULL}
    BY SubAddr, PointerFacts DEF Map
  <2> QED
    BY <2>1, <2>2, ContactTreeAssumption DEF Subtree
<1> QED
  BY <1>1 DEF Closed

\* The subtree of a node of a subtree is part of it.
LEMMA SubTrans ==
    ASSUME NEW f \in Map, NEW p, NEW a \in Subtree(f, p)
    PROVE  Subtree(f, a) \subseteq Subtree(f, p)
BY SubClosed, SubAddr, SubLeast

\* A child's subtree.
LEMMA SubChild ==
    ASSUME NEW f \in Map, NEW a \in Addr, NEW q \in {Left(a), Right(a)}
    PROVE  Subtree(f, f[q]) \subseteq Subtree(f, a)
<1>1. f[q] \in Subtree(f, a) \cup {NULL}
  BY SubNode, SubClosed
<1> QED
  BY <1>1, SubTrans, SubNull

\* A subtree is its node and the subtrees of the two children.
LEMMA SubUnfold ==
    ASSUME NEW f \in Map, NEW p \in Addr, NEW b \in Subtree(f, p)
    PROVE  b = p \/ b \in Subtree(f, f[Left(p)]) \/ b \in Subtree(f, f[Right(p)])
<1> DEFINE S == {p} \cup Subtree(f, f[Left(p)]) \cup Subtree(f, f[Right(p)])
<1>1. S \subseteq Addr
  BY SubAddr
<1>2. f[Left(p)] \in S \cup {NULL} /\ f[Right(p)] \in S \cup {NULL}
  BY SubNode, PointerFacts DEF Map
<1>3. \A a \in S : f[Left(a)] \in S \cup {NULL} /\ f[Right(a)] \in S \cup {NULL}
  BY <1>2, SubClosed
<1>4. Closed(f, S)
  BY <1>3 DEF Closed
<1>5. Subtree(f, p) \subseteq S
  <2> HIDE DEF S
  <2>1. p \in S \cup {NULL}
    BY DEF S
  <2> QED
    BY <1>1, <1>4, <2>1, SubLeast
<1> QED
  BY <1>5

\* All but its first node are children of nodes of the subtree.
LEMMA SubParent ==
    ASSUME NEW f \in Map, NEW p \in Addr \cup {NULL}, NEW b \in Subtree(f, p), b # p
    PROVE  \E c \in Subtree(f, p) : b = f[Left(c)] \/ b = f[Right(c)]
<1> SUFFICES ASSUME \A c \in Subtree(f, p) : b # f[Left(c)] /\ b # f[Right(c)] PROVE FALSE
  OBVIOUS
<1> DEFINE S == Subtree(f, p) \ {b}
<1>1. S \subseteq Addr
  BY SubAddr
<1>2. Closed(f, S)
  BY SubClosed DEF Closed
<1>3. p \in S \cup {NULL}
  BY SubNode
<1>4. Subtree(f, p) \subseteq S
  <2> HIDE DEF S
  <2> QED
    BY <1>1, <1>2, <1>3, SubLeast
<1> QED
  BY <1>4

OneEach(f) == \A p, q \in Pointer : f[p] = f[q] => p = q \/ f[p] = NULL

\* No node of the tree is below itself: the nodes above a cycle would be all.
LEMMA SubAcyclic ==
    ASSUME NEW f \in Map, OneEach(f), NEW x \in Subtree(f, f[AtRoot]),
           NEW q \in {Left(x), Right(x)}
    PROVE  x \notin Subtree(f, f[q])
<1> SUFFICES ASSUME x \in Subtree(f, f[q]) PROVE FALSE
  OBVIOUS
<1> DEFINE A == Subtree(f, f[AtRoot])
           S == A \ Subtree(f, x)
<1>0. /\ x \in Addr /\ q \in Pointer /\ f[q] \in Addr \cup {NULL}
      /\ A \subseteq Addr /\ Subtree(f, x) \subseteq Addr
  BY SubAddr, PointerFacts DEF Map
<1>1. ASSUME NEW b \in Subtree(f, x)
      PROVE  \E c \in Subtree(f, x) : b = f[Left(c)] \/ b = f[Right(c)]
  <2>1. CASE b # x
    BY <1>0, <2>1, SubParent
  <2>2. CASE b = x /\ f[q] = x
    BY <1>0, <2>2, SubNode
  <2>3. CASE b = x /\ f[q] # x
    <3>1. PICK c \in Subtree(f, f[q]) : x = f[Left(c)] \/ x = f[Right(c)]
      BY <1>0, <2>3, SubParent
    <3>2. c \in Subtree(f, x)
      BY <1>0, SubChild
    <3> QED
      BY <2>3, <3>1, <3>2
  <2> QED
    BY <2>1, <2>2, <2>3
<1>2. ASSUME NEW p \in Pointer, f[p] \in Subtree(f, x)
      PROVE  \E c \in Subtree(f, x) : p = Left(c) \/ p = Right(c)
  <2>1. PICK c \in Subtree(f, x) : f[p] = f[Left(c)] \/ f[p] = f[Right(c)]
    BY <1>1, <1>2
  <2>2. f[p] # NULL /\ Left(c) \in Pointer /\ Right(c) \in Pointer
    BY <1>0, <1>2, PointerFacts, ContactTreeAssumption
  <2> QED
    BY <2>1, <2>2 DEF OneEach
<1>3. ASSUME NEW c \in S PROVE f[Left(c)] \in S \cup {NULL} /\ f[Right(c)] \in S \cup {NULL}
  <2>1. c \in A /\ c \in Addr /\ c \notin Subtree(f, x)
    BY <1>0, <1>3
  <2>2. f[Left(c)] \in A \cup {NULL} /\ f[Right(c)] \in A \cup {NULL}
    BY <2>1, SubClosed
  <2>3. f[Left(c)] \notin Subtree(f, x)
    <3> SUFFICES ASSUME f[Left(c)] \in Subtree(f, x) PROVE FALSE
      OBVIOUS
    <3>1. PICK d \in Subtree(f, x) : Left(c) = Left(d) \/ Left(c) = Right(d)
      BY <1>2, <2>1, PointerFacts
    <3> QED
      BY <1>0, <2>1, <3>1, PointerFacts
  <2>4. f[Right(c)] \notin Subtree(f, x)
    <3> SUFFICES ASSUME f[Right(c)] \in Subtree(f, x) PROVE FALSE
      OBVIOUS
    <3>1. PICK d \in Subtree(f, x) : Right(c) = Left(d) \/ Right(c) = Right(d)
      BY <1>2, <2>1, PointerFacts
    <3> QED
      BY <1>0, <2>1, <3>1, PointerFacts
  <2> QED
    BY <2>2, <2>3, <2>4
<1>4. f[AtRoot] \in S
  <2>1. f[AtRoot] \notin Subtree(f, x)
    BY <1>0, <1>2, PointerFacts
  <2>2. f[AtRoot] \in Addr
    <3>1. f[AtRoot] \in Addr \cup {NULL}
      BY PointerFacts DEF Map
    <3> QED
      BY <3>1, SubNull
  <2> QED
    BY <2>1, <2>2, SubNode
<1>5. A \subseteq S
  <2>1. S \in SUBSET Addr /\ Closed(f, S)
    BY <1>0, <1>3 DEF Closed
  <2> HIDE DEF S
  <2> QED
    BY <1>4, <2>1, SubLeast
<1> QED
  BY <1>0, <1>5, SubNode

\* The pointers of a set of nodes.
LEMMA OfFacts ==
    ASSUME NEW S \in SUBSET Addr
    PROVE  /\ Of(S) \subseteq Pointer /\ AtRoot \notin Of(S)
           /\ \A c \in Addr : (Left(c) \in Of(S) <=> c \in S) /\ (Right(c) \in Of(S) <=> c \in S)
           /\ \A p \in Of(S) : \E c \in S : p = Left(c) \/ p = Right(c)
BY PointerFacts DEF Of

\* A node without children is put at pointer l.
LeafAdded(f, g, a, l) ==
    /\ f \in Map /\ g \in Map /\ OneEach(f) /\ a \in Addr /\ l \in Pointer
    /\ a \notin Subtree(f, f[AtRoot]) /\ \A p \in Pointer : f[p] # a
    /\ f[Left(a)] = NULL /\ f[Right(a)] = NULL
    /\ f[l] = NULL /\ l \in Of(Subtree(f, f[AtRoot])) \cup {AtRoot}
    /\ g[l] = a /\ \A p \in Pointer : p # l => g[p] = f[p]

\* A new leaf is added to the tree and to the subtrees above it only.
LEMMA AddLeaf ==
    ASSUME NEW f, NEW g, NEW a, NEW l, LeafAdded(f, g, a, l)
    PROVE  /\ Subtree(g, g[AtRoot]) = Subtree(f, f[AtRoot]) \cup {a}
           /\ OneEach(g)
           /\ Subtree(g, a) \subseteq {a}
           /\ \A q \in (Addr \cup {NULL}) \ {a} : \A b \in Subtree(g, q) :
                b \in Subtree(f, q) \/ (b = a /\ l \in Of(Subtree(f, q)))
<1> USE DEF LeafAdded
<1> DEFINE A == Subtree(f, f[AtRoot])
<1>0. A \in SUBSET Addr /\ l # Left(a) /\ l # Right(a)
  <2>1. A \in SUBSET Addr
    BY SubAddr
  <2> QED
    BY <2>1, OfFacts, PointerFacts
<1>1. g[Left(a)] = NULL /\ g[Right(a)] = NULL
  BY <1>0, PointerFacts
<1>2. Subtree(g, a) \subseteq {a}
  <2>1. Closed(g, {a})
    BY <1>1 DEF Closed
  <2> QED
    BY <2>1, SubLeast
<1>3. ASSUME NEW q \in (Addr \cup {NULL}) \ {a}
      PROVE  \A b \in Subtree(g, q) : b \in Subtree(f, q) \/ (b = a /\ l \in Of(Subtree(f, q)))
  <2> DEFINE Q == Subtree(f, q)
             S == Q \cup {b \in {a} : l \in Of(Q)}
  <2>1. Q \in SUBSET Addr /\ S \in SUBSET Addr
    BY SubAddr
  <2>2. ASSUME NEW c \in S PROVE g[Left(c)] \in S \cup {NULL} /\ g[Right(c)] \in S \cup {NULL}
    <3>1. CASE c = a
      BY <1>1, <3>1
    <3>2. CASE c \in Q
      <4>1. f[Left(c)] \in Q \cup {NULL} /\ f[Right(c)] \in Q \cup {NULL}
        BY <3>2, SubClosed
      <4>2. Left(c) \in Of(Q) /\ Right(c) \in Of(Q) /\ Left(c) \in Pointer /\ Right(c) \in Pointer
        BY <2>1, <3>2, OfFacts, PointerFacts
      <4> QED
        BY <4>1, <4>2
    <3> QED
      BY <3>1, <3>2
  <2>3. q \in S \cup {NULL}
    BY SubNode
  <2>4. Subtree(g, q) \subseteq S
    <3>1. Closed(g, S)
      BY <2>2 DEF Closed
    <3> HIDE DEF S
    <3> QED
      BY <2>1, <2>3, <3>1, SubLeast
  <2> QED
    BY <2>4
<1>4. Subtree(g, g[AtRoot]) = A \cup {a}
  <2>1. CASE l = AtRoot
    <3>1. A = {} /\ g[AtRoot] = a
      BY <2>1, SubNull
    <3> QED
      BY <1>2, <3>1, SubNode
  <2>2. CASE l \in Of(A)
    <3> DEFINE T == Subtree(g, g[AtRoot])
    <3>0. T \in SUBSET Addr
      BY SubAddr
    <3>1. g[AtRoot] = f[AtRoot] /\ f[AtRoot] \in (Addr \cup {NULL}) \ {a}
      BY <1>0, <2>2, OfFacts, PointerFacts DEF Map
    <3>2. T \subseteq A \cup {a}
      BY <1>3, <3>1
    <3>3. ASSUME NEW c \in T PROVE f[Left(c)] \in T \cup {NULL} /\ f[Right(c)] \in T \cup {NULL}
      <4>1. g[Left(c)] \in T \cup {NULL} /\ g[Right(c)] \in T \cup {NULL}
        BY <3>3, SubClosed
      <4>2. Left(c) \in Pointer /\ Right(c) \in Pointer
        BY <3>0, <3>3, PointerFacts
      <4> QED
        BY <4>1, <4>2
    <3>4. A \subseteq T
      <4>1. Closed(f, T)
        BY <3>3 DEF Closed
      <4>2. f[AtRoot] \in T \cup {NULL}
        BY <3>1, SubNode
      <4> HIDE DEF T
      <4> QED
        BY <3>0, <4>1, <4>2, SubLeast
    <3>5. a \in T
      <4>1. PICK c \in A : l = Left(c) \/ l = Right(c)
        BY <1>0, <2>2, OfFacts
      <4>2. g[l] \in T \cup {NULL}
        BY <3>4, <4>1, SubClosed
      <4> QED
        BY <4>2, ContactTreeAssumption
    <3> QED
      BY <3>2, <3>4, <3>5
  <2> QED
    BY <2>1, <2>2
<1>5. OneEach(g)
  BY DEF OneEach
<1> QED
  BY <1>2, <1>3, <1>4, <1>5

\* Node n at pointer l gives its place to its only child, at pointer k.
NodeRemoved(f, g, n, l, k) ==
    /\ f \in Map /\ g \in Map /\ OneEach(f) /\ n \in Subtree(f, f[AtRoot])
    /\ l \in Pointer /\ f[l] = n /\ l \in Of(Subtree(f, f[AtRoot])) \cup {AtRoot}
    /\ k \in {Left(n), Right(n)} /\ \A o \in {Left(n), Right(n)} : o # k => f[o] = NULL
    /\ g[l] = f[k] /\ g[Left(n)] = NULL /\ g[Right(n)] = NULL
    /\ \A p \in Pointer : p \notin {l, Left(n), Right(n)} => g[p] = f[p]

\* A node with one child at most leaves the tree, and its child takes its
\* place.
LEMMA RemoveNode ==
    ASSUME NEW f, NEW g, NEW n, NEW l, NEW k, NodeRemoved(f, g, n, l, k)
    PROVE  /\ Subtree(g, g[AtRoot]) = Subtree(f, f[AtRoot]) \ {n}
           /\ OneEach(g)
           /\ \A p \in Pointer \ {Left(n), Right(n)} : Subtree(g, g[p]) \subseteq Subtree(f, f[p]) \ {n}
<1> USE DEF NodeRemoved
<1> DEFINE A == Subtree(f, f[AtRoot])
<1>0. /\ A \in SUBSET Addr /\ n \in Addr /\ n # NULL
      /\ Left(n) \in Pointer /\ Right(n) \in Pointer /\ Left(n) # Right(n)
      /\ k \in Pointer /\ f[k] \in Addr \cup {NULL}
  BY SubAddr, PointerFacts, ContactTreeAssumption DEF Map
<1>1. l # Left(n) /\ l # Right(n) /\ f[k] # n
  BY <1>0, SubAcyclic, SubNode
<1>2. \A p \in Pointer : p # l => f[p] # n
  BY <1>0 DEF OneEach
<1>3. ASSUME NEW q \in (Addr \cup {NULL}) \ {n}
      PROVE  Subtree(g, q) \subseteq Subtree(f, q) \ {n}
  <2> DEFINE Q == Subtree(f, q)
             S == Q \ {n}
  <2>1. Q \in SUBSET Addr /\ S \in SUBSET Addr
    BY SubAddr
  <2>2. ASSUME NEW c \in S, NEW p \in {Left(c), Right(c)} PROVE g[p] \in S \cup {NULL}
    <3>1. p \in Pointer /\ p \notin {Left(n), Right(n)}
      BY <1>0, <2>1, <2>2, PointerFacts
    <3>2. f[p] \in Q \cup {NULL}
      BY <2>2, SubClosed
    <3>3. CASE p = l
      <4>1. n \in Q
        BY <1>0, <3>2, <3>3
      <4>2. f[k] \in Q \cup {NULL}
        BY <4>1, SubClosed
      <4> QED
        BY <1>1, <3>3, <4>2
    <3>4. CASE p # l
      BY <1>2, <3>1, <3>2, <3>4
    <3> QED
      BY <3>3, <3>4
  <2>3. q \in S \cup {NULL}
    BY SubNode
  <2>4. Closed(g, S)
    BY <2>2 DEF Closed
  <2> HIDE DEF S
  <2>5. Subtree(g, q) \subseteq S
    BY <2>1, <2>3, <2>4, SubLeast
  <2> QED
    BY <2>5 DEF S
<1>4. ASSUME NEW p \in Pointer \ {Left(n), Right(n)}
      PROVE  Subtree(g, g[p]) \subseteq Subtree(f, f[p]) \ {n}
  <2>1. CASE p = l
    <3>1. Subtree(g, f[k]) \subseteq Subtree(f, f[k]) \ {n}
      BY <1>0, <1>1, <1>3
    <3>2. Subtree(f, f[k]) \subseteq Subtree(f, n)
      BY <1>0, SubChild
    <3> QED
      BY <2>1, <3>1, <3>2
  <2>2. CASE p # l
    <3>1. g[p] = f[p] /\ f[p] \in (Addr \cup {NULL}) \ {n}
      BY <1>2, <2>2 DEF Map
    <3> QED
      BY <1>3, <3>1
  <2> QED
    BY <2>1, <2>2
<1>5. Subtree(g, g[AtRoot]) = A \ {n}
  <2> DEFINE T == Subtree(g, g[AtRoot])
             S == T \cup {b \in {n} : l \in Of(T) \cup {AtRoot}}
  <2>0. AtRoot \in Pointer \ {Left(n), Right(n)}
    BY <1>0, PointerFacts
  <2>1. T \subseteq A \ {n}
    BY <1>4, <2>0
  <2>2. T \in SUBSET Addr /\ S \in SUBSET Addr
    BY <1>0, <2>1
  <2>3. ASSUME NEW c \in S, NEW p \in {Left(c), Right(c)} PROVE f[p] \in S \cup {NULL}
    <3>1. CASE c = n
      <4>1. l \in Of(T) \cup {AtRoot}
        BY <2>1, <2>3, <3>1
      <4>2. g[l] \in T \cup {NULL}
        <5>1. CASE l = AtRoot
          <6>1. g[AtRoot] \in Addr \cup {NULL}
            BY <2>0 DEF Map
          <6> QED
            BY <5>1, <6>1, SubNode
        <5>2. CASE l \in Of(T)
          <6>1. PICK d \in T : l = Left(d) \/ l = Right(d)
            BY <2>2, <5>2, OfFacts
          <6> QED
            BY <6>1, SubClosed
        <5> QED
          BY <4>1, <5>1, <5>2
      <4> QED
        BY <2>3, <3>1, <4>2
    <3>2. CASE c \in T
      <4>1. p \in Of(T) /\ p \in Pointer
        BY <2>2, <2>3, <3>2, OfFacts, PointerFacts
      <4>2. CASE p = l
        BY <4>1, <4>2
      <4>3. CASE p # l
        <5>1. p \notin {Left(n), Right(n)}
          BY <1>0, <2>1, <2>2, <2>3, <3>2, PointerFacts
        <5>2. g[p] \in T \cup {NULL}
          BY <2>3, <3>2, SubClosed
        <5> QED
          BY <4>1, <4>3, <5>1, <5>2
      <4> QED
        BY <4>2, <4>3
    <3> QED
      BY <3>1, <3>2
  <2>4. f[AtRoot] \in S \cup {NULL}
    <3>1. CASE l = AtRoot
      BY <3>1
    <3>2. CASE l # AtRoot
      <4>1. g[AtRoot] = f[AtRoot] /\ g[AtRoot] \in Addr \cup {NULL}
        BY <2>0, <3>2 DEF Map
      <4> QED
        BY <4>1, SubNode
    <3> QED
      BY <3>1, <3>2
  <2>5. A \subseteq S
    <3>1. Closed(f, S)
      BY <2>3 DEF Closed
    <3> HIDE DEF S
    <3> QED
      BY <2>2, <2>4, <3>1, SubLeast
  <2> QED
    BY <2>1, <2>5
<1>6. OneEach(g)
  BY <1>0, <1>1 DEF OneEach
<1> QED
  BY <1>4, <1>5, <1>6

\* The types and the shape one by one.
LEMMA TreeFacts ==
    ASSUME TreeInv
    PROVE  /\ ptr \in Map /\ OneEach(ptr) /\ alloc = Subtree(ptr, ptr[AtRoot]) /\ alloc \in SUBSET Addr
           /\ \A p \in Pointer : ptr[p] \in alloc \cup {NULL}
           /\ NULL \notin alloc /\ node \in alloc \cup {NULL}
           /\ \A c \in alloc : /\ c \in Addr /\ Left(c) \in Pointer /\ Right(c) \in Pointer
                               /\ Subtree(ptr, c) \subseteq alloc
           /\ \A p \in Pointer : Subtree(ptr, ptr[p]) \subseteq alloc
<1>1. ptr \in Map /\ OneEach(ptr) /\ alloc = Subtree(ptr, ptr[AtRoot]) /\ alloc \in SUBSET Addr
  BY DEF TreeInv, TreeType, SearchTree, OneEach
<1>2. \A p \in Pointer : ptr[p] \in alloc \cup {NULL}
  <2> TAKE p \in Pointer
  <2>1. CASE p = AtRoot
    <3>1. ptr[AtRoot] \in Addr \cup {NULL}
      BY <1>1, PointerFacts DEF Map
    <3> QED
      BY <1>1, <2>1, <3>1, SubNode
  <2>2. ASSUME NEW c \in Addr, p = Left(c) \/ p = Right(c) PROVE ptr[p] \in alloc \cup {NULL}
    <3>1. CASE c \in alloc
      BY <1>1, <2>2, <3>1, SubClosed
    <3>2. CASE c \notin alloc
      <4>1. p \in Of(Addr \ alloc)
        BY <2>2, <3>2, OfFacts
      <4> QED
        BY <4>1 DEF TreeInv, Placed
    <3> QED
      BY <3>1, <3>2
  <2> QED
    BY <2>1, <2>2, PointerFacts
<1>3. NULL \notin alloc /\ node \in alloc \cup {NULL}
  BY <1>1, <1>2, ContactTreeAssumption DEF node, TreeInv, TreeType
<1>4. \A c \in alloc : /\ c \in Addr /\ Left(c) \in Pointer /\ Right(c) \in Pointer
                       /\ Subtree(ptr, c) \subseteq alloc
  BY <1>1, PointerFacts, SubTrans
<1>5. \A p \in Pointer : Subtree(ptr, ptr[p]) \subseteq alloc
  BY <1>2, <1>4, SubNull
<1> QED
  BY <1>1, <1>2, <1>3, <1>4, <1>5

\* The empty tree is a search tree.
LEMMA TreeStarts == TreeInit => TreeInv
<1> SUFFICES ASSUME TreeInit PROVE TreeInv
  OBVIOUS
<1>1. NoText \in Text
  BY ContactTreeAssumption DEF NoText
<1>2. ptr \in Map /\ ptr[AtRoot] = NULL /\ \A p \in Pointer : ptr[p] = NULL
  BY PointerFacts DEF TreeInit, Map
<1>3. TreeType
  BY <1>1, <1>2, PointerFacts DEF TreeInit, TreeType
<1>4. Placed
  BY <1>2, OfFacts DEF TreeInit, Placed
<1>5. SearchTree
  <2>1. Subtree(ptr, ptr[AtRoot]) = {}
    BY <1>2, SubNull
  <2> QED
    BY <1>2, <2>1 DEF TreeInit, SearchTree
<1> QED
  BY <1>3, <1>4, <1>5 DEF TreeInit, TreeInv, UniqueIds, Searched, Path, Target, Least

\* A command that leaves the tree alone ends.
LEMMA EndKeeps ==
    ASSUME TreeInv, op # "delete", UNCHANGED nodeVars, op' \in {"menu", "exit", "crash"},
           link' \in Of(alloc) \cup {AtRoot}, key' \in Int, arg' \in Int \X Text
    PROVE  TreeInv'
<1>1. TreeType'
  <2>1. link' \in Pointer
    BY TreeFacts, OfFacts, PointerFacts
  <2> QED
    BY <2>1 DEF TreeInv, TreeType, nodeVars
<1>2. Placed'
  BY DEF TreeInv, Placed, nodeVars
<1>3. SearchTree' /\ UniqueIds'
  BY DEF TreeInv, SearchTree, UniqueIds, nodeVars
<1> QED
  BY <1>1, <1>2, <1>3 DEF TreeInv, Searched, Path, Target, Least

\* A command begins at the root.
LEMMA CommandKeeps ==
    ASSUME TreeInv, NEW name \in {"insert", "edit", "find"}, NEW i \in Id, NEW t \in Text,
           Command(name, i, t)
    PROVE  TreeInv'
<1>1. /\ op = "menu" /\ op' = name /\ link' = AtRoot /\ key' = i /\ arg' = <<i, t>>
      /\ UNCHANGED <<ptr, id, text, alloc>>
  BY DEF Command, Begin, nodeVars
<1>2. TreeType'
  BY <1>1, PointerFacts, ContactTreeAssumption DEF TreeInv, TreeType
<1>3. Placed'
  BY <1>1 DEF TreeInv, Placed
<1>4. SearchTree' /\ UniqueIds'
  BY <1>1 DEF TreeInv, SearchTree, UniqueIds
<1>5. Searched'
  BY <1>1, TreeFacts DEF Searched, node
<1>6. Path'
  <2>1. ASSUME NEW c \in alloc
        PROVE  /\ AtRoot \notin Of(Subtree(ptr, ptr[Left(c)])) \cup {Left(c)}
               /\ AtRoot \notin Of(Subtree(ptr, ptr[Right(c)])) \cup {Right(c)}
    BY TreeFacts, OfFacts, PointerFacts, SubAddr
  <2> QED
    BY <1>1, <2>1 DEF Path
<1> QED
  BY <1>1, <1>2, <1>3, <1>4, <1>5, <1>6 DEF TreeInv, Target, Least

\* The recursive call for one side of a node with another id.
LEMMA DescendKeeps ==
    ASSUME TreeInv, op \in {"insert", "edit", "find", "delete"}, node # NULL, id[node] # key, Descend
    PROVE  TreeInv'
<1> DEFINE n == node
<1>1. /\ link' = (IF key < id[n] THEN Left(n) ELSE Right(n))
      /\ UNCHANGED <<ptr, id, text, alloc, op, key, arg>>
  BY DEF Descend, nodeVars
<1>2. n \in alloc /\ n \in Addr /\ n = ptr[link] /\ link \in Pointer /\ id[n] \in Int /\ key \in Int
  BY TreeFacts DEF node, TreeInv, TreeType
<1>3. link' \in Of(alloc) /\ link' \in Pointer
  BY <1>1, <1>2, TreeFacts, OfFacts
<1>4. TreeType'
  BY <1>1, <1>3 DEF TreeInv, TreeType
<1>5. Placed' /\ UniqueIds'
  BY <1>1, <1>3 DEF TreeInv, Placed, UniqueIds
<1>6. Subtree(ptr, ptr[link']) \subseteq Subtree(ptr, n)
  BY <1>1, <1>2, TreeFacts, SubChild
<1>7. ASSUME NEW b \in Subtree(ptr, n), id[b] = key PROVE b \in Subtree(ptr, ptr[link'])
  <2>1. b = n \/ b \in Subtree(ptr, ptr[Left(n)]) \/ b \in Subtree(ptr, ptr[Right(n)])
    BY <1>2, TreeFacts, SubUnfold
  <2>2. b \in Subtree(ptr, ptr[Left(n)]) => id[b] < id[n]
    BY <1>2 DEF TreeInv, SearchTree
  <2>3. b \in Subtree(ptr, ptr[Right(n)]) => id[b] > id[n]
    BY <1>2 DEF TreeInv, SearchTree
  <2>4. key \in Int /\ id[n] \in Int /\ b # n
    BY <1>2, <1>7
  <2>5. CASE key < id[n]
    BY <1>1, <1>7, <2>1, <2>3, <2>4, <2>5
  <2>6. CASE ~(key < id[n])
    BY <1>1, <1>7, <2>1, <2>2, <2>4, <2>6
  <2> QED
    BY <2>5, <2>6
<1>8. Searched'
  <2> SUFFICES ASSUME op \in {"insert", "edit", "find"}
               PROVE  key = arg[1] /\ \A b \in alloc : id[b] = key => b \in Subtree(ptr, ptr[link'])
    BY <1>1 DEF Searched, node
  <2> QED
    BY <1>7 DEF TreeInv, Searched
<1>9. Target'
  <2> SUFFICES ASSUME op = "delete" PROVE Target'
    BY <1>1 DEF Target
  <2>1. PICK a, b \in alloc :
          /\ \A c \in alloc : id[c] = key <=> c \in {a, b}
          /\ b \in Subtree(ptr, n)
          /\ a = b => key = arg[1]
          /\ a # b =>
               /\ a \notin Subtree(ptr, n) /\ text[a] = text[b] /\ ptr[Left(b)] = NULL
               /\ \A c \in alloc : id[c] # arg[1]
    BY DEF TreeInv, Target
  <2>2. b \in Subtree(ptr, ptr[link'])
    BY <1>7, <2>1
  <2>3. a # b => a \notin Subtree(ptr, ptr[link'])
    BY <1>6, <2>1
  <2> QED
    BY <1>1, <2>1, <2>2, <2>3 DEF Target, node
<1>10. Path'
  <2> SUFFICES ASSUME op = "insert", NEW c \in alloc
               PROVE  /\ link' \in Of(Subtree(ptr, ptr[Left(c)])) \cup {Left(c)} => key < id[c]
                      /\ link' \in Of(Subtree(ptr, ptr[Right(c)])) \cup {Right(c)} => key > id[c]
    BY <1>1 DEF Path
  <2>1. c \in Addr /\ Left(c) \in Pointer /\ Right(c) \in Pointer
    BY TreeFacts
  <2>2. ASSUME NEW p \in {Left(c), Right(c)}, link' \in Of(Subtree(ptr, ptr[p]))
        PROVE  link \in Of(Subtree(ptr, ptr[p])) \cup {p}
    <3>1. n \in Subtree(ptr, ptr[p])
      BY <1>1, <1>2, <2>2, OfFacts, SubAddr
    <3>2. p \in Pointer /\ ptr[p] \in Addr \cup {NULL} /\ n # NULL
      BY <2>1, TreeFacts
    <3>3. CASE n = ptr[p]
      BY <1>2, <3>2, <3>3, TreeFacts DEF OneEach
    <3>4. CASE n # ptr[p]
      <4>1. PICK d \in Subtree(ptr, ptr[p]) : n = ptr[Left(d)] \/ n = ptr[Right(d)]
        BY <3>1, <3>2, <3>4, TreeFacts, SubParent
      <4>2. d \in Addr /\ Left(d) \in Pointer /\ Right(d) \in Pointer
        BY SubAddr, PointerFacts
      <4>3. link = Left(d) \/ link = Right(d)
        BY <1>2, <3>2, <4>1, <4>2, TreeFacts DEF OneEach
      <4> QED
        BY <4>2, <4>3, OfFacts, SubAddr
    <3> QED
      BY <3>3, <3>4
  <2>3. /\ link \in Of(Subtree(ptr, ptr[Left(c)])) \cup {Left(c)} => key < id[c]
        /\ link \in Of(Subtree(ptr, ptr[Right(c)])) \cup {Right(c)} => key > id[c]
    BY DEF TreeInv, Path
  <2>4. link' = Left(c) => c = n /\ key < id[n]
    BY <1>1, <1>2, <2>1, PointerFacts
  <2>5. link' = Right(c) => c = n /\ key > id[n]
    <3>1. link' = Right(c) => c = n /\ ~(key < id[n])
      BY <1>1, <1>2, <2>1, PointerFacts
    <3>2. ~(key < id[n]) => key > id[n]
      BY <1>2
    <3> QED
      BY <3>1, <3>2
  <2> QED
    BY <2>2, <2>3, <2>4, <2>5
<1>11. SearchTree'
  <2>1. op = "delete" => ptr[link'] # NULL
    <3> SUFFICES ASSUME op = "delete" PROVE ptr[link'] # NULL
      OBVIOUS
    <3>1. \E b : b \in Subtree(ptr, ptr[link'])
      BY <1>1, <1>9 DEF Target, node
    <3> QED
      BY <3>1, SubNull
  <2> QED
    BY <1>1, <2>1 DEF TreeInv, SearchTree, node
<1> QED
  BY <1>1, <1>4, <1>5, <1>8, <1>9, <1>10, <1>11 DEF TreeInv, Least

\* A command that returns leaves the menu behind, and no recursion.
LEMMA ReturnIs ==
    ASSUME NEW r, TreeReturn(r)
    PROVE  op' = "menu" /\ link' = AtRoot /\ key' \in Int /\ arg' \in Int \X Text
BY ContactTreeAssumption DEF TreeReturn, NoText

\* insertNode: the new node hangs where the walk has ended.
LEMMA InsertHangs ==
    ASSUME TreeInv, node = NULL, NEW a \in Addr \ alloc,
           ptr' = [ptr EXCEPT ![link] = a, ![Left(a)] = NULL, ![Right(a)] = NULL]
    PROVE  LeafAdded(ptr, ptr', a, link)
<1>0. /\ a \in Addr /\ a \notin alloc /\ link \in Pointer /\ ptr \in Map /\ OneEach(ptr)
      /\ alloc = Subtree(ptr, ptr[AtRoot]) /\ link \in Of(alloc) \cup {AtRoot} /\ ptr[link] = NULL
  BY TreeFacts DEF TreeInv, TreeType, Placed, node
<1>1. link # Left(a) /\ link # Right(a) /\ Left(a) \in Pointer /\ Right(a) \in Pointer /\ Left(a) # Right(a)
  BY <1>0, OfFacts, PointerFacts, TreeFacts
<1>2. ptr[Left(a)] = NULL /\ ptr[Right(a)] = NULL
  <2>1. Left(a) \in Of(Addr \ alloc) /\ Right(a) \in Of(Addr \ alloc)
    BY <1>0, OfFacts
  <2> QED
    BY <2>1 DEF TreeInv, Placed
<1>3. ptr' \in Map /\ ptr'[link] = a /\ \A p \in Pointer : p # link => ptr'[p] = ptr[p]
  BY <1>0, <1>1, <1>2 DEF Map
<1>4. \A p \in Pointer : ptr[p] # a
  BY <1>0, TreeFacts, ContactTreeAssumption
<1> QED
  BY <1>0, <1>2, <1>3, <1>4 DEF LeafAdded

\* insertNode: the tree with its new leaf is a search tree.
LEMMA InsertKeeps ==
    ASSUME TreeInv, op = "insert", node = NULL, NEW a \in Addr \ alloc,
           LeafAdded(ptr, ptr', a, link), alloc' = alloc \cup {a},
           id' = [id EXCEPT ![a] = key], text' = [text EXCEPT ![a] = arg[2]],
           op' = "menu", link' = AtRoot, key' \in Int, arg' \in Int \X Text
    PROVE  TreeInv'
<1>0. /\ a \in Addr /\ a \notin alloc /\ key \in Int
      /\ id \in [Addr -> Int] /\ text \in [Addr -> Text] /\ arg[2] \in Text
      /\ alloc = Subtree(ptr, ptr[AtRoot]) /\ link \in Of(alloc) \cup {AtRoot}
  BY TreeFacts DEF TreeInv, TreeType, Placed
<1>1. Left(a) \in Pointer /\ Right(a) \in Pointer /\ Left(a) # link /\ Right(a) # link
  BY <1>0, OfFacts, PointerFacts, TreeFacts
<1>2. ptr[Left(a)] = NULL /\ ptr[Right(a)] = NULL
  BY DEF LeafAdded
<1>3. ptr' \in Map /\ ptr'[link] = a /\ \A p \in Pointer : p # link => ptr'[p] = ptr[p]
  BY DEF LeafAdded
<1>4. \A p \in Pointer : ptr[p] # a
  BY DEF LeafAdded
<1>5. /\ Subtree(ptr', ptr'[AtRoot]) = Subtree(ptr, ptr[AtRoot]) \cup {a}
      /\ OneEach(ptr')
      /\ Subtree(ptr', a) \subseteq {a}
      /\ \A q \in (Addr \cup {NULL}) \ {a} : \A b \in Subtree(ptr', q) :
           b \in Subtree(ptr, q) \/ (b = a /\ link \in Of(Subtree(ptr, q)))
  BY AddLeaf
<1>6. /\ id' \in [Addr -> Int] /\ id'[a] = key /\ \A c \in Addr : c # a => id'[c] = id[c]
      /\ text' \in [Addr -> Text]
  BY <1>0
<1>7. TreeType'
  BY <1>0, <1>3, <1>6, PointerFacts DEF TreeInv, TreeType
<1>8. Placed'
  <2>1. ASSUME NEW p \in Of(Addr \ alloc') PROVE ptr'[p] = NULL
    <3>1. PICK c \in Addr \ alloc' : p = Left(c) \/ p = Right(c)
      BY OfFacts
    <3>2. p \in Pointer /\ p \in Of(Addr \ alloc) /\ p # link
      BY <1>0, <3>1, OfFacts, PointerFacts, TreeFacts
    <3> QED
      BY <1>3, <3>2 DEF TreeInv, Placed
  <2> QED
    BY <2>1 DEF Placed
<1>9. \A b \in alloc : id[b] # key
  BY SubNull DEF TreeInv, Searched
<1>10. UniqueIds'
  <2>1. \A b \in alloc : b \in Addr /\ b # a
    BY <1>0, TreeFacts
  <2> QED
    BY <1>6, <1>9, <2>1 DEF TreeInv, UniqueIds
<1>11. ASSUME NEW c \in alloc, NEW p \in {Left(c), Right(c)}, NEW b \in Subtree(ptr', ptr'[p])
       PROVE  \/ b \in Subtree(ptr, ptr[p]) /\ id'[b] = id[b]
              \/ id'[b] = key /\ link \in Of(Subtree(ptr, ptr[p])) \cup {p}
  <2>1. p \in Pointer /\ ptr[p] \in Addr \cup {NULL}
    BY TreeFacts, PointerFacts
  <2>2. CASE p = link
    BY <1>3, <1>5, <1>6, <1>11, <2>2
  <2>3. CASE p # link
    <3>1. ptr'[p] = ptr[p] /\ ptr[p] # a
      BY <1>3, <1>4, <2>1, <2>3
    <3>2. b \in Subtree(ptr, ptr[p]) \/ (b = a /\ link \in Of(Subtree(ptr, ptr[p])))
      BY <1>5, <1>11, <2>1, <3>1
    <3>3. b \in Subtree(ptr, ptr[p]) => b \in Addr /\ b # a
      BY <1>0, <2>1, TreeFacts
    <3> QED
      BY <1>6, <3>2, <3>3
  <2> QED
    BY <2>2, <2>3
<1>12. SearchTree'
  <2>1. ASSUME NEW c \in alloc'
        PROVE  /\ \A b \in Subtree(ptr', ptr'[Left(c)]) : id'[b] < id'[c]
               /\ \A b \in Subtree(ptr', ptr'[Right(c)]) : id'[b] > id'[c]
    <3>1. CASE c = a
      <4>1. ptr'[Left(a)] = NULL /\ ptr'[Right(a)] = NULL
        BY <1>1, <1>2, <1>3
      <4> QED
        BY <3>1, <4>1, SubNull
    <3>2. CASE c \in alloc
      <4>1. c \in Addr /\ id'[c] = id[c]
        BY <1>0, <1>6, <3>2, TreeFacts
      <4>2. /\ \A b \in Subtree(ptr, ptr[Left(c)]) : id[b] < id[c]
            /\ \A b \in Subtree(ptr, ptr[Right(c)]) : id[b] > id[c]
        BY <3>2 DEF TreeInv, SearchTree
      <4>3. /\ link \in Of(Subtree(ptr, ptr[Left(c)])) \cup {Left(c)} => key < id[c]
            /\ link \in Of(Subtree(ptr, ptr[Right(c)])) \cup {Right(c)} => key > id[c]
        BY <3>2 DEF TreeInv, Path
      <4>4. \A b \in Subtree(ptr', ptr'[Left(c)]) : id'[b] < id'[c]
        BY <1>11, <3>2, <4>1, <4>2, <4>3
      <4>5. \A b \in Subtree(ptr', ptr'[Right(c)]) : id'[b] > id'[c]
        BY <1>11, <3>2, <4>1, <4>2, <4>3
      <4> QED
        BY <4>4, <4>5
    <3> QED
      BY <3>1, <3>2
  <2> QED
    BY <1>0, <1>5, <2>1 DEF SearchTree, OneEach
<1> QED
  BY <1>7, <1>8, <1>10, <1>12 DEF TreeInv, Searched, Path, Target, Least

\* editContact changes texts only.
LEMMA EditKeeps == ASSUME TreeInv, EditContact PROVE TreeInv'
<1>1. /\ op = "edit" /\ node \in alloc /\ UNCHANGED <<ptr, id, alloc>>
      /\ text' = [text EXCEPT ![node] = arg[2]] /\ arg[2] \in Text
      /\ op' = "menu" /\ link' = AtRoot /\ key' \in Int /\ arg' \in Int \X Text
  BY ReturnIs, TreeFacts DEF EditContact, TreeInv, TreeType
<1>2. TreeType'
  BY <1>1, PointerFacts DEF TreeInv, TreeType
<1>3. Placed' /\ UniqueIds'
  <2>1. op # "delete" /\ UNCHANGED <<ptr, id, alloc>> /\ link' = AtRoot
    BY <1>1
  <2> QED
    BY <2>1 DEF TreeInv, Placed, UniqueIds
<1>4. SearchTree'
  <2>1. op # "delete" /\ op' # "delete" /\ UNCHANGED <<ptr, id, alloc>>
    BY <1>1
  <2> QED
    BY <2>1 DEF TreeInv, SearchTree
<1> QED
  BY <1>1, <1>2, <1>3, <1>4 DEF TreeInv, Searched, Path, Target, Least

\* deleteContact has found the node and calls delete from the root.
LEMMA DeleteContactKeeps == ASSUME TreeInv, DeleteContact PROVE TreeInv'
<1>1. /\ op = "find" /\ node # NULL /\ id[node] = key /\ op' = "delete" /\ link' = AtRoot /\ key' = key
      /\ UNCHANGED <<ptr, id, text, alloc, arg>>
  BY DEF DeleteContact, Begin, nodeVars
<1>2. node \in alloc /\ alloc = Subtree(ptr, ptr[AtRoot]) /\ key = arg[1]
  BY <1>1, TreeFacts DEF TreeInv, Searched
<1>3. TreeType'
  BY <1>1, PointerFacts DEF TreeInv, TreeType
<1>4. Placed' /\ UniqueIds'
  BY <1>1 DEF TreeInv, Placed, UniqueIds
<1>5. SearchTree'
  <2>1. ptr[AtRoot] # NULL
    BY <1>2, SubNull
  <2> QED
    BY <1>1, <2>1 DEF TreeInv, SearchTree, node
<1>6. Target'
  <2> DEFINE n == node
  <2>1. /\ \A c \in alloc : id[c] = key <=> c = n
        /\ n \in Subtree(ptr, ptr[AtRoot]) /\ n \in alloc /\ key = arg[1]
    BY <1>1, <1>2 DEF TreeInv, UniqueIds
  <2> HIDE DEF n
  <2>2. \E a, b \in alloc :
          /\ \A c \in alloc : id[c] = key <=> c \in {a, b}
          /\ b \in Subtree(ptr, ptr[AtRoot])
          /\ a = b => key = arg[1]
          /\ a # b =>
               /\ a \notin Subtree(ptr, ptr[AtRoot]) /\ text[a] = text[b] /\ ptr[Left(b)] = NULL
               /\ \A c \in alloc : id[c] # arg[1]
    BY <2>1
  <2> QED
    BY <1>1, <2>2 DEF Target, node
<1> QED
  BY <1>1, <1>3, <1>4, <1>5, <1>6 DEF TreeInv, Searched, Path, Least

\* The node that delete has found is the one it looks for: b of Target.
LEMMA TargetFound ==
    ASSUME TreeInv, AtTarget
    PROVE  \E a \in alloc :
             /\ \A c \in alloc : id[c] = key <=> c \in {a, node}
             /\ a = node => key = arg[1]
             /\ a # node =>
                  /\ text[a] = text[node] /\ ptr[Left(node)] = NULL
                  /\ \A c \in alloc : id[c] # arg[1]
<1> DEFINE n == node
<1>1. op = "delete" /\ n \in alloc /\ n \in Addr /\ id[n] = key
  BY TreeFacts DEF AtTarget
<1>2. PICK a, b \in alloc :
        /\ \A c \in alloc : id[c] = key <=> c \in {a, b}
        /\ b \in Subtree(ptr, n)
        /\ a = b => key = arg[1]
        /\ a # b =>
             /\ a \notin Subtree(ptr, n) /\ text[a] = text[b] /\ ptr[Left(b)] = NULL
             /\ \A c \in alloc : id[c] # arg[1]
  BY <1>1 DEF TreeInv, Target
<1>3. n \in Subtree(ptr, n)
  BY <1>1, SubNode
<1>4. n = b
  BY <1>1, <1>2, <1>3
<1> HIDE DEF n
<1>5. \E x \in alloc :
        /\ \A c \in alloc : id[c] = key <=> c \in {x, n}
        /\ x = n => key = arg[1]
        /\ x # n =>
             /\ text[x] = text[n] /\ ptr[Left(n)] = NULL
             /\ \A c \in alloc : id[c] # arg[1]
  BY <1>2, <1>4
<1> QED
  BY <1>5 DEF n

\* The id of a node is found below it, if at all, at a copied minimum.
LEMMA EqualBelow ==
    ASSUME TreeInv, NEW c \in alloc, NEW b \in Subtree(ptr, ptr[Right(c)])
    PROVE  b # c /\ b \in alloc
BY TreeFacts, SubAcyclic

\* delete: the only child takes the place of the node.
LEMMA DeleteHangs ==
    ASSUME TreeInv, DeleteNode
    PROVE  \E k : NodeRemoved(ptr, ptr', node, link, k)
<1> DEFINE n == node
           k == IF ptr[Left(n)] = NULL THEN Right(n) ELSE Left(n)
<1>1. /\ n \in alloc /\ n \in Addr /\ n # NULL /\ ptr \in Map /\ OneEach(ptr)
      /\ alloc = Subtree(ptr, ptr[AtRoot])
      /\ link \in Pointer /\ link \in Of(alloc) \cup {AtRoot} /\ ptr[link] = n
      /\ Left(n) \in Pointer /\ Right(n) \in Pointer /\ Left(n) # Right(n)
  BY TreeFacts, PointerFacts DEF DeleteNode, AtTarget, TreeInv, TreeType, Placed, node
<1>2. link # Left(n) /\ link # Right(n)
  BY <1>1, SubAcyclic, SubNode
<1>3. /\ k \in {Left(n), Right(n)} /\ ptr[k] \in Addr \cup {NULL}
      /\ \A o \in {Left(n), Right(n)} : o # k => ptr[o] = NULL
      /\ ptr' = [ptr EXCEPT ![link] = ptr[k], ![Left(n)] = NULL, ![Right(n)] = NULL]
  BY <1>1 DEF DeleteNode, Map
<1> HIDE DEF n, k
<1>4. ptr' \in Map
  BY <1>1, <1>3, ContactTreeAssumption DEF Map
<1>5. ptr'[link] = ptr[k] /\ ptr'[Left(n)] = NULL /\ ptr'[Right(n)] = NULL
  BY <1>1, <1>2, <1>3 DEF Map
<1>6. \A p \in Pointer : p \notin {link, Left(n), Right(n)} => ptr'[p] = ptr[p]
  BY <1>1, <1>3 DEF Map
<1>7. NodeRemoved(ptr, ptr', n, link, k)
  BY <1>1, <1>3, <1>4, <1>5, <1>6 DEF NodeRemoved
<1> QED
  BY <1>7 DEF n

\* deleteNode: the tree without the node is a search tree.
LEMMA DeleteKeeps ==
    ASSUME TreeInv, AtTarget, NEW k, NodeRemoved(ptr, ptr', node, link, k),
           alloc' = alloc \ {node}, id' = [id EXCEPT ![node] = 0],
           text' = [text EXCEPT ![node] = NoText],
           op' = "menu", link' = AtRoot, key' \in Int, arg' \in Int \X Text
    PROVE  TreeInv'
<1> DEFINE n == node
<1>1. /\ n \in alloc /\ n \in Addr /\ alloc \in SUBSET Addr /\ link \in Of(alloc) \cup {AtRoot}
      /\ alloc = Subtree(ptr, ptr[AtRoot]) /\ id \in [Addr -> Int] /\ text \in [Addr -> Text]
      /\ link \in Pointer
  BY TreeFacts DEF AtTarget, TreeInv, TreeType, Placed
<1>2. /\ Subtree(ptr', ptr'[AtRoot]) = Subtree(ptr, ptr[AtRoot]) \ {n}
      /\ OneEach(ptr')
      /\ \A p \in Pointer \ {Left(n), Right(n)} :
           Subtree(ptr', ptr'[p]) \subseteq Subtree(ptr, ptr[p]) \ {n}
  BY RemoveNode
<1>3. /\ ptr' \in Map /\ ptr'[Left(n)] = NULL /\ ptr'[Right(n)] = NULL
      /\ \A p \in Pointer : p \notin {link, Left(n), Right(n)} => ptr'[p] = ptr[p]
  BY DEF NodeRemoved
<1>4. /\ id' \in [Addr -> Int] /\ text' \in [Addr -> Text]
      /\ \A c \in alloc' : c \in Addr /\ id'[c] = id[c] /\ c \in alloc /\ c # n
  <2>1. NoText \in Text
    BY ContactTreeAssumption DEF NoText
  <2> QED
    BY <1>1, <2>1
<1>5. TreeType'
  BY <1>1, <1>3, <1>4, PointerFacts DEF TreeInv, TreeType
<1>6. Placed'
  <2>1. ASSUME NEW p \in Of(Addr \ alloc') PROVE ptr'[p] = NULL
    <3>1. PICK c \in Addr \ alloc' : p = Left(c) \/ p = Right(c)
      BY OfFacts
    <3>2. CASE c = n
      BY <1>3, <3>1, <3>2
    <3>3. CASE c # n
      <4>1. c \notin alloc
        BY <3>1, <3>3
      <4>2. p \in Pointer /\ p \in Of(Addr \ alloc) /\ p # link /\ p \notin {Left(n), Right(n)}
        BY <1>1, <3>1, <3>3, <4>1, OfFacts, PointerFacts
      <4> QED
        BY <1>3, <4>2 DEF TreeInv, Placed
    <3> QED
      BY <3>2, <3>3
  <2> QED
    BY <2>1 DEF Placed
<1>7. PICK a \in alloc : \A c \in alloc : id[c] = key <=> c \in {a, n}
  BY TargetFound
<1>8. UniqueIds'
  <2> SUFFICES ASSUME NEW x \in alloc', NEW y \in alloc', id'[x] = id'[y] PROVE x = y
    BY DEF UniqueIds
  <2>1. id[x] = id[y] /\ x \in alloc /\ y \in alloc /\ x # n /\ y # n
    BY <1>4
  <2>2. x = y \/ id[x] = key
    BY <2>1 DEF TreeInv, UniqueIds
  <2> QED
    BY <1>7, <2>1, <2>2
<1>9. SearchTree'
  <2>1. ASSUME NEW c \in alloc'
        PROVE  /\ \A b \in Subtree(ptr', ptr'[Left(c)]) : id'[b] < id'[c]
               /\ \A b \in Subtree(ptr', ptr'[Right(c)]) : id'[b] > id'[c]
    <3>1. c \in Addr /\ id'[c] = id[c] /\ c \in alloc /\ c # n
      BY <1>4
    <3>2. Left(c) \in Pointer \ {Left(n), Right(n)} /\ Right(c) \in Pointer \ {Left(n), Right(n)}
      BY <1>1, <3>1, PointerFacts
    <3>3. ASSUME NEW b \in Subtree(ptr', ptr'[Left(c)]) PROVE id'[b] < id'[c]
      <4>1. b \in Subtree(ptr, ptr[Left(c)]) /\ b # n
        BY <1>2, <3>2, <3>3
      <4>2. id[b] < id[c]
        BY <3>1, <4>1 DEF TreeInv, SearchTree
      <4>3. b \in alloc'
        BY <3>2, <4>1, TreeFacts
      <4> QED
        BY <1>4, <3>1, <4>2, <4>3
    <3>4. ASSUME NEW b \in Subtree(ptr', ptr'[Right(c)]) PROVE id'[b] > id'[c]
      <4>1. b \in Subtree(ptr, ptr[Right(c)]) /\ b # n
        BY <1>2, <3>2, <3>4
      <4>2. id[b] > id[c] \/ (id[c] = key /\ id[b] = key)
        BY <3>1, <4>1 DEF TreeInv, SearchTree
      <4>3. b \in alloc' /\ b # c
        BY <3>1, <4>1, EqualBelow
      <4>4. id[b] > id[c]
        BY <1>7, <3>1, <4>1, <4>2, <4>3
      <4> QED
        BY <1>4, <3>1, <4>3, <4>4
    <3> QED
      BY <3>3, <3>4
  <2> QED
    BY <1>1, <1>2, <2>1 DEF SearchTree, OneEach
<1> QED
  BY <1>5, <1>6, <1>8, <1>9 DEF TreeInv, Searched, Path, Target, Least

\* findMin begins at the right child; a copied minimum has no left child.
LEMMA FindMinKeeps == ASSUME TreeInv, FindMin PROVE TreeInv'
<1> DEFINE n == node
<1>1. /\ AtTarget /\ ptr[Left(n)] # NULL /\ ptr[Right(n)] # NULL
      /\ op' = "min" /\ min' = ptr[Right(n)] /\ UNCHANGED <<ptr, id, text, alloc, link, key, arg>>
  BY DEF FindMin, nodeVars
<1>2. n \in alloc /\ n \in Addr /\ id[n] = key /\ Right(n) \in Pointer /\ op = "delete"
  BY <1>1, TreeFacts DEF AtTarget
<1>3. key = arg[1] /\ \A c \in alloc : id[c] = key <=> c = n
  <2>1. PICK a \in alloc :
          /\ \A c \in alloc : id[c] = key <=> c \in {a, n}
          /\ a = n => key = arg[1]
          /\ a # n => ptr[Left(n)] = NULL
    BY <1>1, TargetFound
  <2> QED
    BY <1>1, <2>1
<1>4. TreeType' /\ Placed'
  BY <1>1 DEF TreeInv, TreeType, Placed
<1>5. UniqueIds'
  <2> SUFFICES ASSUME NEW x \in alloc, NEW y \in alloc, id[x] = id[y] PROVE x = y
    BY <1>1 DEF UniqueIds
  <2> QED
    BY <1>3 DEF TreeInv, UniqueIds
<1>6. SearchTree'
  <2>1. ASSUME NEW c \in alloc, NEW b \in Subtree(ptr, ptr[Right(c)]) PROVE id[b] > id[c]
    <3>1. id[b] > id[c] \/ (id[c] = key /\ id[b] = key)
      BY <2>1 DEF TreeInv, SearchTree
    <3> QED
      BY <1>3, <2>1, <3>1, EqualBelow
  <2> QED
    BY <1>1, <2>1 DEF TreeInv, SearchTree
<1>7. Least'
  <2>1. ptr[Right(n)] \in Addr
    BY <1>1, <1>2, TreeFacts
  <2>2. ptr[Right(n)] \in Subtree(ptr, ptr[Right(n)])
    BY <2>1, SubNode
  <2>3. node' = n
    BY <1>1 DEF node
  <2> QED
    BY <1>1, <1>2, <1>3, <2>2, <2>3 DEF Least
<1> QED
  BY <1>1, <1>4, <1>5, <1>6, <1>7 DEF TreeInv, Searched, Path, Target

\* findMin goes left, to smaller ids.
LEMMA MinWalkKeeps == ASSUME TreeInv, MinWalk PROVE TreeInv'
<1> DEFINE n == node
           R == Subtree(ptr, ptr[Right(n)])
           m == ptr[Left(min)]
<1>1. /\ op = "min" /\ m # NULL /\ min' = m
      /\ UNCHANGED <<ptr, id, text, alloc, op, link, key, arg>>
  BY DEF MinWalk, nodeVars
<1>2. /\ n \in alloc /\ id[n] = key /\ key = arg[1] /\ min \in R
      /\ \A b \in R : b \in Subtree(ptr, min) \/ id[b] > id[min]
  BY <1>1 DEF TreeInv, Least
<1>3. /\ R \subseteq alloc /\ min \in alloc /\ min \in Addr /\ Left(min) \in Pointer
      /\ m \in alloc /\ m \in Addr /\ ptr \in Map
  BY <1>1, <1>2, TreeFacts
<1>4. m \in R
  BY <1>1, <1>2, <1>3, SubClosed
<1>5. id[m] < id[min]
  <2>1. m \in Subtree(ptr, ptr[Left(min)])
    BY <1>3, SubNode
  <2> QED
    BY <1>3, <2>1 DEF TreeInv, SearchTree
<1>6. ASSUME NEW b \in R PROVE b \in Subtree(ptr, m) \/ id[b] > id[m]
  <2>1. /\ id[b] \in Int /\ id[m] \in Int /\ id[min] \in Int
    BY <1>3, <1>6 DEF TreeInv, TreeType
  <2>2. CASE id[b] > id[min]
    BY <1>5, <2>1, <2>2
  <2>3. CASE b \in Subtree(ptr, min)
    <3>1. b = min \/ b \in Subtree(ptr, m) \/ b \in Subtree(ptr, ptr[Right(min)])
      BY <1>3, <2>3, SubUnfold
    <3>2. b \in Subtree(ptr, ptr[Right(min)]) => id[b] > id[min]
      BY <1>1, <1>3 DEF TreeInv, SearchTree
    <3> QED
      BY <1>5, <2>1, <3>1, <3>2
  <2> QED
    BY <1>2, <1>6, <2>2, <2>3
<1>7. TreeType' /\ Placed' /\ UniqueIds'
  BY <1>1 DEF TreeInv, TreeType, Placed, UniqueIds
<1>8. SearchTree'
  BY <1>1 DEF TreeInv, SearchTree
<1>9. Least'
  <2>1. node' = n
    BY <1>1 DEF node
  <2> QED
    BY <1>1, <1>2, <1>4, <1>6, <2>1 DEF Least
<1> QED
  BY <1>1, <1>7, <1>8, <1>9 DEF TreeInv, Searched, Path, Target

\* The contact of the minimum of the right subtree is copied to the node: it is
\* greater than all on the left, and less than all others on the right.
LEMMA ReplaceKeeps == ASSUME TreeInv, ReplaceByMin PROVE TreeInv'
<1> DEFINE n == node
           R == Subtree(ptr, ptr[Right(n)])
           m == min
<1>1. /\ op = "min" /\ ptr[Left(m)] = NULL
      /\ id' = [id EXCEPT ![n] = id[m]] /\ text' = [text EXCEPT ![n] = text[m]]
      /\ op' = "delete" /\ link' = Right(n) /\ key' = id[m]
      /\ UNCHANGED <<ptr, alloc, arg>>
  BY DEF ReplaceByMin
<1>2. /\ n \in alloc /\ id[n] = key /\ key = arg[1] /\ m \in R
      /\ \A b \in R : b \in Subtree(ptr, m) \/ id[b] > id[m]
  BY <1>1 DEF TreeInv, Least
<1>3. /\ ptr \in Map /\ alloc \in SUBSET Addr /\ n \in Addr /\ m \in alloc /\ m \in Addr /\ m # n
      /\ R \subseteq alloc /\ Right(n) \in Pointer
      /\ id \in [Addr -> Int] /\ text \in [Addr -> Text]
  BY <1>2, TreeFacts, EqualBelow DEF TreeInv, TreeType
<1>4. ASSUME NEW c \in alloc
      PROVE  /\ \A b \in Subtree(ptr, ptr[Left(c)]) : id[b] < id[c]
             /\ \A b \in Subtree(ptr, ptr[Right(c)]) : id[b] > id[c]
  BY <1>1, <1>4 DEF TreeInv, SearchTree
<1>5. \A x, y \in alloc : id[x] = id[y] => x = y
  BY <1>1 DEF TreeInv, UniqueIds
<1>6. \A b \in R : b = m \/ id[b] > id[m]
  <2> TAKE b \in R
  <2>1. b \in Subtree(ptr, m) => b = m \/ b \in Subtree(ptr, ptr[Right(m)])
    BY <1>1, <1>3, SubUnfold, SubNull
  <2> QED
    BY <1>2, <1>3, <1>4, <2>1
<1>7. id[m] > id[n]
  BY <1>2, <1>4
<1>8. ASSUME NEW p, n \in Subtree(ptr, p) PROVE m \in Subtree(ptr, p)
  BY <1>2, <1>3, <1>8, SubTrans, SubChild
<1>9. /\ id' \in [Addr -> Int] /\ id'[n] = id[m] /\ \A c \in Addr : c # n => id'[c] = id[c]
      /\ text' \in [Addr -> Text] /\ text'[n] = text[m] /\ text'[m] = text[m]
  BY <1>1, <1>3
<1>10. \A c \in alloc : c \in Addr /\ id[c] \in Int
  BY <1>3
<1>11. TreeType'
  BY <1>1, <1>3, <1>9, <1>10 DEF TreeInv, TreeType
<1>12. Placed'
  <2>1. Right(n) \in Of(alloc)
    BY <1>2, <1>3, OfFacts
  <2> QED
    BY <1>1, <2>1 DEF TreeInv, Placed
<1>13. UniqueIds'
  <2> SUFFICES ASSUME NEW x \in alloc, NEW y \in alloc, id'[x] = id'[y] PROVE x = y \/ id'[x] = id[m]
    BY <1>1 DEF UniqueIds
  <2>1. CASE x = n
    BY <1>9, <2>1
  <2>2. CASE x # n
    BY <1>5, <1>9, <1>10, <2>2
  <2> QED
    BY <2>1, <2>2
<1>14. ASSUME NEW c \in alloc, NEW b \in Subtree(ptr, ptr[Left(c)]) PROVE id'[b] < id'[c]
  <2>1. b \in alloc /\ id[b] < id[c]
    BY <1>4, <1>14, TreeFacts
  <2>2. id[b] \in Int /\ id[c] \in Int /\ id[m] \in Int /\ id[n] \in Int
    BY <1>2, <1>3, <1>10, <2>1
  <2>3. CASE c = n
    <3>1. b # n
      BY <2>1, <2>2, <2>3
    <3>2. id'[b] = id[b] /\ id'[c] = id[m]
      BY <1>9, <1>10, <2>1, <2>3, <3>1
    <3> QED
      BY <1>7, <2>1, <2>2, <2>3, <3>2
  <2>4. CASE c # n /\ b = n
    BY <1>4, <1>8, <1>9, <1>10, <1>14, <2>4
  <2>5. CASE c # n /\ b # n
    BY <1>9, <1>10, <2>1, <2>5
  <2> QED
    BY <2>3, <2>4, <2>5
<1>15. ASSUME NEW c \in alloc, NEW b \in Subtree(ptr, ptr[Right(c)])
       PROVE  id'[b] > id'[c] \/ (id'[c] = id[m] /\ id'[b] = id[m])
  <2>1. b \in alloc /\ b # c /\ id[b] > id[c]
    BY <1>4, <1>15, EqualBelow
  <2>2. CASE c = n
    <3>1. id'[b] = id[b] /\ id'[c] = id[m]
      BY <1>9, <1>10, <2>1, <2>2
    <3>2. b = m \/ id[b] > id[m]
      BY <1>6, <1>15, <2>2
    <3> QED
      BY <3>1, <3>2
  <2>3. CASE c # n /\ b = n
    BY <1>4, <1>8, <1>9, <1>10, <1>15, <2>3
  <2>4. CASE c # n /\ b # n
    BY <1>9, <1>10, <2>1, <2>4
  <2> QED
    BY <2>2, <2>3, <2>4
<1>16. SearchTree'
  <2>1. node' = ptr[Right(n)] /\ ptr[Right(n)] # NULL
    BY <1>1, <1>2, SubNull DEF node
  <2>2. /\ Subtree(ptr, ptr[AtRoot]) = alloc
        /\ \A p, q \in Pointer : ptr[p] = ptr[q] => p = q \/ ptr[p] = NULL
    BY DEF TreeInv, SearchTree
  <2> QED
    BY <1>1, <1>14, <1>15, <2>1, <2>2 DEF SearchTree
<1>17. Target'
  <2>1. \A c \in alloc : id'[c] = id[m] <=> c \in {n, m}
    BY <1>3, <1>5, <1>9, <1>10
  <2>2. \A c \in alloc : id'[c] # arg[1]
    <3> TAKE c \in alloc
    <3>1. CASE c = n
      BY <1>2, <1>3, <1>7, <1>9, <1>10, <3>1
    <3>2. CASE c # n
      BY <1>2, <1>5, <1>9, <1>10, <3>2
    <3> QED
      BY <3>1, <3>2
  <2>3. n \notin R /\ node' = ptr[Right(n)]
    BY <1>1, <1>2, EqualBelow DEF node
  <2>4. /\ n \in alloc /\ m \in alloc /\ m # n /\ m \in Subtree(ptr, ptr[Right(n)])
        /\ n \notin Subtree(ptr, ptr[Right(n)]) /\ text'[n] = text'[m] /\ ptr[Left(m)] = NULL
    BY <1>1, <1>2, <1>3, <1>9, <2>3
  <2>5. node' = ptr[Right(n)]
    BY <2>3
  <2> HIDE DEF n, m
  <2>6. \E a, b \in alloc :
          /\ \A c \in alloc : id'[c] = key' <=> c \in {a, b}
          /\ b \in Subtree(ptr, node')
          /\ a = b => key' = arg[1]
          /\ a # b =>
               /\ a \notin Subtree(ptr, node') /\ text'[a] = text'[b] /\ ptr[Left(b)] = NULL
               /\ \A c \in alloc : id'[c] # arg[1]
    BY <1>1, <2>1, <2>2, <2>4, <2>5
  <2> QED
    BY <1>1, <2>6 DEF Target
<1> QED
  BY <1>1, <1>11, <1>12, <1>13, <1>16, <1>17 DEF TreeInv, Searched, Path, Least

\* Every step of every command, and the end of each, keeps the tree.
LEMMA TreeStep == TreeInv /\ [TreeNext]_treeVars => TreeInv'
<1> SUFFICES ASSUME TreeInv, [TreeNext]_treeVars PROVE TreeInv'
  OBVIOUS
<1>0. key \in Int /\ arg \in Int \X Text /\ link \in Of(alloc) \cup {AtRoot}
  BY DEF TreeInv, TreeType, Placed
<1>1. CASE InsertWalk \/ SearchWalk \/ DeleteWalk
  BY <1>1, DescendKeeps DEF InsertWalk, SearchWalk, DeleteWalk
<1>2. CASE InsertNode
  <2>1. /\ op = "insert" /\ node = NULL
        /\ op' = "menu" /\ link' = AtRoot /\ key' \in Int /\ arg' \in Int \X Text
    BY <1>2, ReturnIs DEF InsertNode
  <2>2. ASSUME NEW a \in Addr \ alloc,
               alloc' = alloc \cup {a},
               id' = [id EXCEPT ![a] = key], text' = [text EXCEPT ![a] = arg[2]],
               ptr' = [ptr EXCEPT ![link] = a, ![Left(a)] = NULL, ![Right(a)] = NULL]
        PROVE  TreeInv'
    <3>1. LeafAdded(ptr, ptr', a, link)
      BY <2>1, <2>2, InsertHangs
    <3> QED
      BY <2>1, <2>2, <3>1, InsertKeeps
  <2>3. CASE UNCHANGED nodeVars
    BY <2>1, <2>3, EndKeeps
  <2> QED
    BY <1>2, <2>2, <2>3 DEF InsertNode
<1>3. CASE InsertDuplicate \/ NotFound
  <2>1. /\ op # "delete" /\ UNCHANGED nodeVars
        /\ op' = "menu" /\ link' = AtRoot /\ key' \in Int /\ arg' \in Int \X Text
    BY <1>3, ReturnIs DEF InsertDuplicate, NotFound
  <2> QED
    BY <2>1, EndKeeps
<1>4. CASE EditMissing
  <2>1. /\ op # "delete" /\ UNCHANGED nodeVars
        /\ \/ op' = "crash" /\ UNCHANGED <<link, key, arg>>
           \/ op' = "menu" /\ link' = AtRoot /\ key' \in Int /\ arg' \in Int \X Text
    BY <1>4, ReturnIs DEF EditMissing
  <2> QED
    BY <1>0, <2>1, EndKeeps
<1>5. CASE ListContact \/ Exit
  <2>1. /\ op # "delete" /\ UNCHANGED nodeVars /\ op' \in {"menu", "exit"} /\ UNCHANGED <<link, key, arg>>
    BY <1>5 DEF ListContact, Exit
  <2> QED
    BY <1>0, <2>1, EndKeeps
<1>6. CASE EditContact \/ DeleteContact
  BY <1>6, EditKeeps, DeleteContactKeeps
<1>7. CASE DeleteNode
  <2>1. PICK k : NodeRemoved(ptr, ptr', node, link, k)
    BY <1>7, DeleteHangs
  <2>2. /\ AtTarget /\ alloc' = alloc \ {node} /\ id' = [id EXCEPT ![node] = 0]
        /\ text' = [text EXCEPT ![node] = NoText]
        /\ op' = "menu" /\ link' = AtRoot /\ key' \in Int /\ arg' \in Int \X Text
    BY <1>7, ReturnIs DEF DeleteNode
  <2> QED
    BY <2>1, <2>2, DeleteKeeps
<1>8. CASE FindMin \/ MinWalk \/ ReplaceByMin
  BY <1>8, FindMinKeeps, MinWalkKeeps, ReplaceKeeps
<1>9. ASSUME NEW i \in Id, NEW t \in Text,
             Command("insert", i, t) \/ Command("edit", i, t) \/ Command("find", i, NoText)
      PROVE  TreeInv'
  <2>1. NoText \in Text
    BY ContactTreeAssumption DEF NoText
  <2> QED
    BY <1>9, <2>1, CommandKeeps
<1>10. CASE UNCHANGED treeVars
  <2>1. UNCHANGED <<ptr, id, text, alloc, op, link, key, min, arg>>
    BY <1>10 DEF treeVars, nodeVars
  <2>2. node' = node
    BY <2>1 DEF node
  <2>3. TreeType' /\ Placed' /\ UniqueIds'
    BY <2>1 DEF TreeInv, TreeType, Placed, UniqueIds
  <2>4. SearchTree'
    BY <2>1, <2>2 DEF TreeInv, SearchTree
  <2>5. Searched' /\ Path'
    BY <2>1, <2>2 DEF TreeInv, Searched, Path
  <2>6. Target' /\ Least'
    BY <2>1, <2>2 DEF TreeInv, Target, Least
  <2> QED
    BY <2>3, <2>4, <2>5, <2>6 DEF TreeInv
<1> QED
  BY <1>1, <1>2, <1>3, <1>4, <1>5, <1>6, <1>7, <1>8, <1>9, <1>10, ContactTreeAssumption DEF TreeNext

\* The tree is a search tree in every state: at each level of each recursion, for
\* any number of nodes and ids (insertNode, editContact, delete, findMin).
THEOREM AlwaysSearchTree == TreeSpec => []SearchTree
<1>1. TreeInv => SearchTree
  BY DEF TreeInv
<1> QED
  BY <1>1, TreeStarts, TreeStep, PTL DEF TreeSpec

\* A step that leaves the nodes alone leaves the contacts.
LEMMA SameContacts == ASSUME UNCHANGED nodeVars, NEW i PROVE Contacts(i)' = Contacts(i)
BY DEF nodeVars, Contacts

\* A new node has the typed id: contacts of other ids stay.
LEMMA InsertTyped ==
    ASSUME TreeInv, op = "insert", NEW a \in Addr \ alloc, alloc' = alloc \cup {a},
           id' = [id EXCEPT ![a] = key], text' = [text EXCEPT ![a] = arg[2]],
           NEW i \in Id \ {arg[1]}
    PROVE  Contacts(i)' = Contacts(i)
<1>1. key = arg[1] /\ id \in [Addr -> Int] /\ text \in [Addr -> Text]
  BY DEF TreeInv, TreeType, Searched
<1>2. \A b \in alloc : b \in Addr /\ b # a /\ id'[b] = id[b] /\ text'[b] = text[b]
  BY <1>1, TreeFacts
<1>3. id'[a] # i
  BY <1>1
<1> QED
  BY <1>2, <1>3 DEF Contacts

\* An edited node has the typed id: contacts of other ids stay.
LEMMA EditTyped ==
    ASSUME TreeInv, EditContact, NEW i \in Id \ {arg[1]}
    PROVE  Contacts(i)' = Contacts(i)
<1> DEFINE n == node
<1>1. /\ key = arg[1] /\ id[n] = key /\ n \in alloc /\ text \in [Addr -> Text]
      /\ UNCHANGED <<id, alloc>> /\ text' = [text EXCEPT ![n] = arg[2]]
  BY TreeFacts DEF EditContact, TreeInv, TreeType, Searched
<1>2. \A b \in alloc : id[b] = i => b # n
  BY <1>1
<1>3. \A b \in alloc : b # n => text'[b] = text[b]
  BY <1>1, TreeFacts
<1> QED
  BY <1>1, <1>2, <1>3 DEF Contacts

\* The node that is freed has the typed id, or its contact has been copied.
LEMMA DeleteTyped ==
    ASSUME TreeInv, DeleteNode
    PROVE  \A i \in Id : IF i = arg[1] THEN Contacts(i)' = {} ELSE Contacts(i)' = Contacts(i)
<1> DEFINE n == node
<1>1. /\ AtTarget /\ alloc' = alloc \ {n}
      /\ id' = [id EXCEPT ![n] = 0] /\ text' = [text EXCEPT ![n] = NoText]
  BY DEF DeleteNode
<1>2. id \in [Addr -> Int] /\ text \in [Addr -> Text] /\ n \in alloc /\ id[n] = key
  BY <1>1, TreeFacts DEF AtTarget, TreeInv, TreeType
<1>3. PICK a \in alloc :
        /\ \A c \in alloc : id[c] = key <=> c \in {a, n}
        /\ a = n => key = arg[1]
        /\ a # n => text[a] = text[n] /\ \A c \in alloc : id[c] # arg[1]
  BY <1>1, TargetFound
<1>4. \A b \in alloc \ {n} : id'[b] = id[b] /\ text'[b] = text[b]
  BY <1>1, <1>2, TreeFacts
<1>5. ASSUME NEW i PROVE Contacts(i)' = {text[b] : b \in {c \in alloc \ {n} : id[c] = i}}
  BY <1>1, <1>4 DEF Contacts
<1> HIDE DEF n
<1>6. \A b \in alloc \ {n} : id[b] # arg[1]
  BY <1>3
<1>7. ASSUME NEW i \in Id \ {arg[1]}
      PROVE  Contacts(i) = {text[b] : b \in {c \in alloc \ {n} : id[c] = i}}
  <2>1. CASE id[n] # i
    BY <2>1 DEF Contacts
  <2>2. CASE id[n] = i
    <3>1. a # n /\ text[a] = text[n] /\ id[a] = i
      BY <1>2, <1>3, <2>2
    <3> QED
      BY <1>2, <3>1 DEF Contacts
  <2> QED
    BY <2>1, <2>2
<1>8. ASSUME NEW i \in Id, i = arg[1] PROVE Contacts(i)' = {}
  BY <1>5, <1>6, <1>8
<1> QED
  BY <1>5, <1>7, <1>8

\* The copied minimum stands under its id twice, with the same text; the typed
\* id is gone.
LEMMA ReplaceTyped ==
    ASSUME TreeInv, ReplaceByMin, NEW i \in Id \ {arg[1]}
    PROVE  Contacts(i)' = Contacts(i)
<1> DEFINE n == node
<1>1. /\ op = "min" /\ alloc' = alloc
      /\ id' = [id EXCEPT ![n] = id[min]] /\ text' = [text EXCEPT ![n] = text[min]]
  BY DEF ReplaceByMin
<1>2. /\ n \in alloc /\ id[n] = arg[1] /\ min \in Subtree(ptr, ptr[Right(n)])
      /\ id \in [Addr -> Int] /\ text \in [Addr -> Text]
  BY <1>1 DEF TreeInv, TreeType, Least
<1>3. min \in alloc /\ min # n
  BY <1>2, EqualBelow
<1>4. /\ id'[n] = id[min] /\ text'[n] = text[min]
      /\ \A b \in alloc \ {n} : id'[b] = id[b] /\ text'[b] = text[b]
  BY <1>1, <1>2, TreeFacts
<1> HIDE DEF n
<1>5. Contacts(i)' \subseteq Contacts(i)
  BY <1>1, <1>2, <1>3, <1>4 DEF Contacts
<1>6. Contacts(i) \subseteq Contacts(i)'
  BY <1>1, <1>2, <1>3, <1>4 DEF Contacts
<1> QED
  BY <1>5, <1>6

\* A command changes the contact of the typed id only, although delete moves
\* contacts between nodes, and no contact is left under an id that was reported
\* as deleted or as not found (main.c:68-90).
THEOREM OnlyTypedIdTouched == TreeSpec => OnlyTypedId
<1>1. ASSUME TreeInv, [TreeNext]_treeVars
      PROVE  [\A i \in Id :
                /\ i # arg[1] => Contacts(i)' = Contacts(i)
                /\ i = arg[1] /\ op \in {"delete", "find"} /\ op' = "menu" => Contacts(i)' = {}]_treeVars
  <2> DEFINE OnlyTyped == \A i \in Id :
                        /\ i # arg[1] => Contacts(i)' = Contacts(i)
                        /\ i = arg[1] /\ op \in {"delete", "find"} /\ op' = "menu" => Contacts(i)' = {}
  <2> SUFFICES ASSUME TreeNext PROVE OnlyTyped
    BY <1>1
  <2> USE <1>1
  <2>1. CASE InsertWalk \/ SearchWalk \/ DeleteWalk \/ DeleteContact
    <3>1. UNCHANGED nodeVars /\ ~(op \in {"delete", "find"} /\ op' = "menu")
      BY <2>1 DEF InsertWalk, SearchWalk, DeleteWalk, DeleteContact, Descend, Begin
    <3> QED
      BY <3>1, SameContacts
  <2>2. CASE InsertNode
    <3>1. op = "insert"
      BY <2>2 DEF InsertNode
    <3>2. CASE UNCHANGED nodeVars
      BY <3>1, <3>2, SameContacts
    <3>3. ASSUME NEW a \in Addr \ alloc, alloc' = alloc \cup {a},
                 id' = [id EXCEPT ![a] = key], text' = [text EXCEPT ![a] = arg[2]],
                 NEW i \in Id \ {arg[1]}
          PROVE  Contacts(i)' = Contacts(i)
      BY <3>1, <3>3, InsertTyped
    <3> QED
      BY <2>2, <3>1, <3>2, <3>3 DEF InsertNode
  <2>3. CASE InsertDuplicate \/ EditMissing \/ ListContact \/ Exit
    <3>1. UNCHANGED nodeVars /\ op \notin {"delete", "find"}
      BY <2>3 DEF InsertDuplicate, EditMissing, ListContact, Exit
    <3> QED
      BY <3>1, SameContacts
  <2>4. CASE EditContact
    <3>1. op = "edit"
      BY <2>4 DEF EditContact
    <3> QED
      BY <2>4, <3>1, EditTyped
  <2>5. CASE NotFound
    <3>1. UNCHANGED nodeVars /\ op = "find" /\ node = NULL
      BY <2>5 DEF NotFound
    <3>2. \A b \in alloc : id[b] # arg[1]
      BY <3>1, SubNull DEF TreeInv, Searched
    <3>3. ASSUME NEW i \in Id, i = arg[1] PROVE Contacts(i)' = {}
      BY <3>1, <3>2, <3>3 DEF Contacts, nodeVars
    <3> QED
      BY <3>1, <3>3, SameContacts
  <2>6. CASE DeleteNode
    BY <2>6, DeleteTyped
  <2>7. CASE FindMin \/ MinWalk
    <3>1. UNCHANGED nodeVars /\ op' # "menu"
      BY <2>7 DEF FindMin, MinWalk
    <3> QED
      BY <3>1, SameContacts
  <2>8. CASE ReplaceByMin
    <3>1. op = "min"
      BY <2>8 DEF ReplaceByMin
    <3> QED
      BY <2>8, <3>1, ReplaceTyped
  <2>9. ASSUME NEW j, NEW t, NEW name, Command(name, j, t)
        PROVE  OnlyTyped
    <3>1. UNCHANGED nodeVars /\ op = "menu"
      BY <2>9 DEF Command
    <3> QED
      BY <3>1, SameContacts
  <2> QED
    BY <2>1, <2>2, <2>3, <2>4, <2>5, <2>6, <2>7, <2>8, <2>9 DEF TreeNext
<1> QED
  BY <1>1, TreeStarts, TreeStep, PTL DEF TreeSpec, OnlyTypedId

-----------------------------------------------------------------------------
(***************************************************************************)
(* SysvChat: nobody at the prompt has an unread line, as long as second    *)
(* was started once on the queue; for any number of starts and kills.      *)
(***************************************************************************)
\* A program that was started and whose queue was not removed since.
On(p) == sysv[p] # "off" /\ Valid(p)

\* Something said or about to be said: a line in the queue, or a program at its
\* prompt, on the queue that exists.
IsLine(i) == queue[i].mtype # 255
AtPrompt(p) == On(p) /\ sysv[p] \in {"open", "fgets"}

\* There is one of them at most.
OneLine ==
    /\ \A i, j \in DOMAIN queue : IsLine(i) /\ IsLine(j) => i = j
    /\ \A i \in DOMAIN queue, p \in Talker : ~(IsLine(i) /\ AtPrompt(p))
    /\ ~(AtPrompt("first") /\ AtPrompt("second"))

\* Nothing has been said on a queue on which second was not started yet.
Silence ==
    /\ msgid["second"] # msgs \/ msgs = 0
    /\ \A i \in DOMAIN queue : ~IsLine(i)
    /\ ~AtPrompt("first")

\* What is put into the queue.
MessageType == [mtype : {1, 2, 255}, mtext : {"line", "end", "Chat terminated"}, by : Talker]

\* What a program sends.
Said(p, type, said) == [mtype |-> type, mtext |-> said, by |-> p]

\* A line of a program's type, or a good-bye.
Sendable(p, type, said) ==
    type \in {Sends(p), 255} /\ said \in {"line", "end", "Chat terminated"}

\* A message has its sender's type, or is a good-bye.
Signed(q) == \A i \in DOMAIN q : q[i].mtype \in {Sends(q[i].by), 255}

\* The types; first never runs without its queue, since only first removes it.
SysvTypes ==
    /\ queue \in Seq(MessageType)
    /\ Signed(queue)
    /\ created \in Nat /\ msgs \in 0 .. created /\ openings \in Nat
    /\ sysv \in [Talker -> {"off", "open", "msgrcv", "fgets", "bye", "rmid"}]
    /\ sysv["second"] # "rmid" /\ sysv["first"] # "open"
    /\ msgid \in [Talker -> Nat]
    /\ \A p \in Talker : msgid[p] <= created
    /\ sysv["first"] # "off" => Valid("first")
    /\ msgs = 0 => openings = 0 /\ queue = <<>>

\* Before second is started nothing is said; then one thing at a time.
Conversation ==
    /\ openings = 0 => Silence
    /\ openings = 1 => OneLine

SysvInv == SysvTypes /\ Conversation

\* What taking message i out of queue s leaves, and what adding m to it gives.
RestOf(s, i, t) ==
    /\ t \in Seq(MessageType)
    /\ \A k \in DOMAIN t : \E j \in DOMAIN s : j # i /\ t[k] = s[j]
Put(s, m, t) ==
    /\ t \in Seq(MessageType)
    /\ Len(s) + 1 \notin DOMAIN s
    /\ DOMAIN t = DOMAIN s \cup {Len(s) + 1}
    /\ \A k \in DOMAIN s : t[k] = s[k]
    /\ t[Len(s) + 1] = m

\* What one program sends is what the other asks for.
LEMMA SysvTalkers ==
    /\ \A p \in Talker : Other(p) \in Talker /\ Other(p) # p
    /\ \A p \in Talker : Sends(p) \in {1, 2} /\ Asks(p) = Sends(Other(p))
    /\ \A p, q \in Talker : p = q \/ p = Other(q)
  BY DEF Talker, Other, Sends, Asks

\* msgrcv takes one message out of a queue: the others are the same as before.
LEMMA TakenOut ==
    ASSUME NEW s \in Seq(MessageType), NEW i \in 1 .. Len(s), NEW t,
           t = SubSeq(s, 1, i - 1) \o SubSeq(s, i + 1, Len(s))
    PROVE  RestOf(s, i, t)
<1> DEFINE S == MessageType
<1> HIDE DEF S
<1>0. s \in Seq(S)
  BY DEF S
<1>1. Len(s) \in Nat /\ i \in Nat /\ i >= 1 /\ i <= Len(s)
  OBVIOUS
<1> DEFINE a == SubSeq(s, 1, i - 1)
           b == SubSeq(s, i + 1, Len(s))
<1>2. /\ a \in Seq(S) /\ Len(a) = i - 1
      /\ \A k \in 1 .. i - 1 : a[k] = s[k]
  BY <1>0, <1>1
<1>3. /\ b \in Seq(S) /\ Len(b) = Len(s) - i
      /\ \A k \in 1 .. Len(s) - i : b[k] = s[i + k]
  BY <1>0, <1>1
<1>4. t = a \o b
  BY DEF a, b
<1> HIDE DEF a, b
<1>5. /\ t \in Seq(S) /\ Len(t) = Len(s) - 1
      /\ \A k \in 1 .. Len(t) : t[k] = IF k <= i - 1 THEN a[k] ELSE b[k - (i - 1)]
  <2>1. a \in Seq(S) /\ b \in Seq(S) /\ Len(a) = i - 1 /\ Len(b) = Len(s) - i
    BY <1>2, <1>3
  <2>2. /\ a \o b \in Seq(S) /\ Len(a \o b) = Len(a) + Len(b)
        /\ \A k \in 1 .. Len(a) + Len(b) :
             (a \o b)[k] = IF k <= Len(a) THEN a[k] ELSE b[k - Len(a)]
    BY <2>1, ConcatProperties
  <2>3. (i - 1) + (Len(s) - i) = Len(s) - 1
    BY <1>1
  <2> QED
    BY <1>4, <2>1, <2>2, <2>3
<1>6. ASSUME NEW k \in 1 .. Len(t) PROVE \E j \in 1 .. Len(s) : j # i /\ t[k] = s[j]
  <2>0. k \in Int /\ k >= 1 /\ k <= Len(s) - 1
    BY <1>1, <1>5
  <2>1. CASE k <= i - 1
    <3>1. t[k] = a[k]
      BY <1>5, <2>1
    <3>2. k \in 1 .. i - 1 /\ k \in 1 .. Len(s) /\ k # i
      BY <1>1, <2>0, <2>1
    <3> QED
      BY <1>2, <3>1, <3>2
  <2>2. CASE k > i - 1
    <3>0. t[k] = b[k - (i - 1)]
      <4>1. ~(k <= i - 1)
        BY <1>1, <2>0, <2>2
      <4> QED
        BY <1>5, <4>1
    <3>1. t[k] = b[k - (i - 1)] /\ k - (i - 1) \in 1 .. Len(s) - i
      BY <1>1, <2>0, <2>2, <3>0
    <3>2. t[k] = s[i + (k - (i - 1))]
      BY <1>3, <3>1
    <3>3. i + (k - (i - 1)) = k + 1
      BY <1>1, <2>0
    <3>4. k + 1 \in 1 .. Len(s) /\ k + 1 # i
      BY <1>1, <2>0, <2>2
    <3> QED
      BY <3>2, <3>3, <3>4
  <2> QED
    BY <1>1, <2>0, <2>1, <2>2
<1>7. DOMAIN t = 1 .. Len(t) /\ DOMAIN s = 1 .. Len(s)
  <2>1. t \in Seq(S)
    BY <1>5
  <2> QED
    BY <1>0, <2>1, LenProperties, Zenon
<1> QED
  BY <1>5, <1>6, <1>7 DEF RestOf, S

\* msgsnd adds at the end of the queue: the others keep their places.
LEMMA PutIn ==
    ASSUME NEW s \in Seq(MessageType), NEW m \in MessageType, NEW t, t = Append(s, m)
    PROVE  Put(s, m, t)
<1> DEFINE S == MessageType
<1>0. s \in Seq(S) /\ m \in S
  BY DEF S
<1> HIDE DEF S
<1>1. /\ Len(s) \in Nat /\ DOMAIN s = 1 .. Len(s)
      /\ t \in Seq(S) /\ Len(t) = Len(s) + 1
      /\ \A k \in 1 .. Len(s) : t[k] = s[k]
      /\ t[Len(s) + 1] = m
  BY <1>0
<1>2. DOMAIN t = 1 .. Len(s) + 1
  BY <1>1
<1>3. 1 .. Len(s) + 1 = (1 .. Len(s)) \cup {Len(s) + 1}
  BY <1>1
<1> QED
  BY <1>1, <1>2, <1>3 DEF Put, S

\* A step that leaves the queue alone and brings nobody to a prompt keeps to
\* the conversation.
LEMMA SysvQuiet ==
    ASSUME SysvInv, SysvTypes', UNCHANGED <<queue, msgs, openings>>,
           AtPrompt("first")' => AtPrompt("first"), AtPrompt("second")' => AtPrompt("second"),
           msgid'["second"] = msgid["second"]
    PROVE  Conversation'
<1>1. /\ openings = 0 => Silence
      /\ openings = 1 => OneLine
  BY DEF SysvInv, Conversation
<1>2. "first" \in Talker /\ "second" \in Talker
  BY DEF Talker
<1>0. queue' = queue /\ msgs' = msgs /\ openings' = openings
  OBVIOUS
<1>3. openings' = 0 => Silence'
  <2>1. openings = 0 => /\ msgid["second"] # msgs \/ msgs = 0
                        /\ \A i \in DOMAIN queue : queue[i].mtype # 255 => FALSE
                        /\ ~AtPrompt("first")
    BY <1>1 DEF Silence, IsLine
  <2> QED
    BY <1>0, <2>1 DEF Silence, IsLine
<1>4. ASSUME openings' = 1 PROVE OneLine'
  <2>1. OneLine /\ (\A i : IsLine(i)' <=> IsLine(i)) /\ queue' = queue
    BY <1>0, <1>1, <1>4 DEF IsLine
  <2>2. ASSUME NEW i \in DOMAIN queue, NEW p \in Talker, IsLine(i), AtPrompt(p)'
        PROVE  FALSE
    <3>1. CASE p = "first"
      BY <1>2, <2>1, <2>2, <3>1 DEF OneLine
    <3>2. CASE p = "second"
      BY <1>2, <2>1, <2>2, <3>2 DEF OneLine
    <3> QED
      BY <3>1, <3>2 DEF Talker
  <2> QED
    BY <2>1, <2>2 DEF OneLine
<1> QED
  BY <1>3, <1>4 DEF Conversation

\* The types one by one.
LEMMA SysvFacts ==
    ASSUME SysvTypes
    PROVE  /\ sysv \in [Talker -> {"off", "open", "msgrcv", "fgets", "bye", "rmid"}]
           /\ msgid \in [Talker -> Nat] /\ msgid["first"] <= created /\ msgid["second"] <= created
           /\ created \in Nat /\ msgs \in 0 .. created /\ openings \in Nat
           /\ queue \in Seq(MessageType)
           /\ "first" \in Talker /\ "second" \in Talker
  BY DEF SysvTypes, Talker

\* A start: first finds no line to answer, second is about to say the first one.
LEMMA SysvStartKeeps == ASSUME SysvInv, NEW p \in Talker, SysvStart(p) PROVE SysvInv'
<1>0. SysvTypes
  BY DEF SysvInv
<1>1. /\ sysv[p] = "off" /\ queue' = queue
      /\ created' = (IF msgs = 0 THEN created + 1 ELSE created)
      /\ msgs' = (IF msgs = 0 THEN created + 1 ELSE msgs)
      /\ openings' = (IF p = "second" THEN openings + 1 ELSE openings)
  BY DEF SysvStart
<1>2. /\ msgid'[p] = msgs' /\ \A q \in Talker \ {p} : msgid'[q] = msgid[q]
      /\ sysv'[p] = (IF p = "first" THEN "msgrcv" ELSE "open")
      /\ \A q \in Talker \ {p} : sysv'[q] = sysv[q]
  BY <1>0, SysvFacts DEF SysvStart
<1>3. /\ DOMAIN msgid' = Talker
      /\ sysv' \in [Talker -> {"off", "open", "msgrcv", "fgets", "bye", "rmid"}]
      /\ msgid' = [msgid EXCEPT ![p] = msgs']
  BY <1>0, SysvFacts DEF SysvStart
<1>4. /\ created' \in Nat /\ created' >= created /\ msgs' \in 0 .. created' /\ msgs' # 0
      /\ openings' \in Nat
  BY <1>0, <1>1, SysvFacts
<1>5. SysvTypes'
  <2>1. msgid' \in [Talker -> Nat] /\ \A q \in Talker : msgid'[q] <= created'
    <3>1. ASSUME NEW q \in Talker PROVE msgid'[q] \in Nat /\ msgid'[q] <= created'
      <4>1. CASE q = p
        BY <1>2, <1>4, <4>1
      <4>2. CASE q # p
        <5>1. msgid'[q] = msgid[q] /\ msgid[q] \in Nat /\ msgid[q] <= created
          BY <1>0, <1>2, <4>2 DEF SysvTypes
        <5> QED
          BY <1>0, <1>4, <5>1, SysvFacts
      <4> QED
        BY <4>1, <4>2
    <3> QED
      BY <1>0, <1>3, <3>1, SysvFacts
  <2>2. sysv'["first"] # "off" => Valid("first")'
    <3>1. CASE p = "first"
      BY <1>2, <1>4, <3>1 DEF Valid
    <3>2. CASE p = "second"
      <4>1. sysv'["first"] = sysv["first"] /\ msgid'["first"] = msgid["first"]
        BY <1>2, <3>2 DEF Talker
      <4>2. Valid("first") => Valid("first")'
        BY <1>1, <4>1 DEF Valid
      <4> QED
        BY <1>0, <4>1, <4>2 DEF SysvTypes
    <3> QED
      BY <3>1, <3>2 DEF Talker
  <2>3. sysv'["second"] # "rmid" /\ sysv'["first"] # "open"
    BY <1>0, <1>2 DEF SysvTypes, Talker
  <2>4. queue' \in Seq(MessageType) /\ Signed(queue')
    BY <1>0, <1>1 DEF SysvTypes
  <2> QED
    BY <1>3, <1>4, <2>1, <2>2, <2>3, <2>4 DEF SysvTypes
<1>6. /\ openings = 0 => Silence
      /\ openings = 1 => OneLine
  BY DEF SysvInv, Conversation
<1>7. CASE p = "first"
  <2>1. ~AtPrompt("first")'
    BY <1>2, <1>7 DEF AtPrompt
  <2>2. /\ sysv'["second"] = sysv["second"] /\ msgid'["second"] = msgid["second"]
        /\ openings' = openings
    BY <1>1, <1>2, <1>7 DEF Talker
  <2>3. openings = 0 => Silence'
    <3>1. msgs = 0 => msgs' # msgid'["second"]
      BY <1>0, <1>1, <2>2, SysvFacts
    <3>2. msgs # 0 => msgs' = msgs
      BY <1>1
    <3> QED
      BY <1>1, <1>6, <2>1, <2>2, <3>1, <3>2 DEF Silence, IsLine
  <2>4. ASSUME openings = 1 PROVE OneLine'
    <3>1. msgs' = msgs
      BY <1>0, <1>1, <2>4 DEF SysvTypes
    <3>2. AtPrompt("second")' => AtPrompt("second")
      BY <2>2, <3>1 DEF AtPrompt, On, Valid
    <3>3. /\ \A i, j \in DOMAIN queue : queue[i].mtype # 255 /\ queue[j].mtype # 255 => i = j
          /\ \A i \in DOMAIN queue : ~(queue[i].mtype # 255 /\ AtPrompt("second"))
      BY <1>6, <2>4 DEF OneLine, IsLine, Talker
    <3>4. \A q \in Talker : AtPrompt(q)' => q = "second"
      BY <2>1 DEF Talker
    <3> QED
      BY <1>1, <2>1, <3>2, <3>3, <3>4 DEF OneLine, IsLine
  <2> QED
    BY <1>5, <2>2, <2>3, <2>4 DEF SysvInv, Conversation
<1>8. CASE p = "second"
  <2>1. openings' = openings + 1
    BY <1>1, <1>8
  <2>2. ASSUME openings = 0 PROVE OneLine'
    <3>1. \A i \in DOMAIN queue : queue[i].mtype = 255
      BY <1>6, <2>2 DEF Silence, IsLine
    <3>2. sysv'["first"] = sysv["first"] /\ msgid'["first"] = msgid["first"]
      BY <1>2, <1>8 DEF Talker
    <3>3. ~AtPrompt("first")'
      <4>1. CASE msgs = 0
        BY <1>0, <3>2, <4>1 DEF SysvTypes, Valid, AtPrompt, On
      <4>2. CASE msgs # 0
        BY <1>1, <1>6, <2>2, <3>2, <4>2 DEF Silence, AtPrompt, On, Valid
      <4> QED
        BY <4>1, <4>2
    <3> QED
      BY <1>1, <3>1, <3>3 DEF OneLine, IsLine
  <2> QED
    BY <1>0, <1>5, <2>1, <2>2, SysvFacts DEF SysvInv, Conversation
<1> QED
  BY <1>7, <1>8 DEF Talker

\* A step that leaves the queue alone, after which the program is elsewhere.
LEMMA SysvMoves ==
    ASSUME SysvInv, NEW p \in Talker, NEW to, sysv[p] # "off",
           sysv' = [sysv EXCEPT ![p] = to],
           UNCHANGED <<queue, msgs, created, msgid, openings>>,
           \/ to = "off"
           \/ to = "fgets" /\ ~Valid(p)
    PROVE  SysvInv'
<1>0. SysvTypes
  BY DEF SysvInv
<1>1. /\ queue' = queue /\ msgs' = msgs /\ created' = created /\ msgid' = msgid
      /\ openings' = openings
  OBVIOUS
<1>2. sysv'[p] = to /\ \A q \in Talker \ {p} : sysv'[q] = sysv[q]
  BY <1>0, SysvFacts
<1>3. SysvTypes'
  <2>1. sysv' \in [Talker -> {"off", "open", "msgrcv", "fgets", "bye", "rmid"}]
    BY <1>0, SysvFacts
  <2>2. sysv'["first"] # "off" => Valid("first")'
    <3>1. Valid("first") => Valid("first")'
      BY <1>1 DEF Valid
    <3>2. to = "fgets" => p # "first"
      BY <1>0 DEF SysvTypes
    <3>3. p = "first" => sysv'["first"] = to
      BY <1>2
    <3>4. p # "first" => sysv'["first"] = sysv["first"]
      BY <1>2 DEF Talker
    <3> QED
      BY <1>0, <3>1, <3>2, <3>3, <3>4 DEF SysvTypes
  <2>3. sysv'["second"] # "rmid" /\ sysv'["first"] # "open"
    <3>1. \A q \in Talker : sysv'[q] = sysv[q] \/ sysv'[q] \in {"off", "fgets"}
      BY <1>2
    <3> QED
      BY <1>0, <3>1, SysvFacts DEF SysvTypes
  <2> QED
    BY <1>0, <1>1, <2>1, <2>2, <2>3 DEF SysvTypes
<1>4. \A q \in Talker : AtPrompt(q)' => AtPrompt(q)
  BY <1>1, <1>2 DEF AtPrompt, On, Valid
<1>5. Conversation'
  <2>1. /\ AtPrompt("first")' => AtPrompt("first")
        /\ AtPrompt("second")' => AtPrompt("second")
        /\ msgid'["second"] = msgid["second"]
    BY <1>1, <1>4 DEF Talker
  <2> QED
    BY <1>1, <1>3, <2>1, SysvQuiet
<1> QED
  BY <1>3, <1>5 DEF SysvInv

\* Where a program that is not off goes changes no identifier.
LEMMA SysvOnward ==
    ASSUME SysvTypes, NEW p \in Talker, NEW to \in {"off", "msgrcv", "fgets", "bye", "rmid"},
           sysv[p] # "off", p = "second" => to # "rmid",
           sysv' = [sysv EXCEPT ![p] = to],
           UNCHANGED <<msgs, created, msgid, openings>>,
           queue' \in Seq(MessageType),
           Signed(queue'),
           msgs = 0 => queue' = <<>>
    PROVE  /\ SysvTypes'
           /\ sysv'[p] = to /\ sysv'[Other(p)] = sysv[Other(p)]
           /\ AtPrompt(p)' => to = "fgets" /\ On(p)
           /\ AtPrompt(Other(p))' <=> AtPrompt(Other(p))
<1>1. /\ msgs' = msgs /\ created' = created /\ msgid' = msgid /\ openings' = openings
  OBVIOUS
<1>2. sysv'[p] = to /\ \A q \in Talker \ {p} : sysv'[q] = sysv[q]
  BY SysvFacts
<1>3. sysv'[Other(p)] = sysv[Other(p)]
  BY <1>2, SysvTalkers
<1>4. SysvTypes'
  <2>1. sysv' \in [Talker -> {"off", "open", "msgrcv", "fgets", "bye", "rmid"}]
    BY SysvFacts
  <2>2. sysv["first"] # "off" => Valid("first")'
    BY <1>1 DEF SysvTypes, Valid
  <2>3. sysv'["first"] # "off" => sysv["first"] # "off"
    BY <1>2 DEF Talker
  <2>4. sysv'["second"] # "rmid" /\ sysv'["first"] # "open"
    <3>1. CASE p = "first"
      BY <1>2, <3>1 DEF SysvTypes, Talker
    <3>2. CASE p = "second"
      BY <1>2, <3>2 DEF SysvTypes, Talker
    <3> QED
      BY <3>1, <3>2 DEF Talker
  <2> QED
    BY <1>1, <2>1, <2>2, <2>3, <2>4 DEF SysvTypes
<1>5. AtPrompt(p)' => to = "fgets" /\ On(p)
  BY <1>1, <1>2 DEF AtPrompt, On, Valid
<1>6. AtPrompt(Other(p))' <=> AtPrompt(Other(p))
  BY <1>1, <1>3 DEF AtPrompt, On, Valid, Other
<1> QED
  BY <1>2, <1>3, <1>4, <1>5, <1>6

\* At most one line or prompt, said of a program and its partner.
LEMMA OneLineOf ==
    ASSUME NEW p \in Talker
    PROVE  OneLine <=> /\ \A i, j \in DOMAIN queue : IsLine(i) /\ IsLine(j) => i = j
                       /\ \A i \in DOMAIN queue : IsLine(i) => ~AtPrompt(p) /\ ~AtPrompt(Other(p))
                       /\ ~(AtPrompt(p) /\ AtPrompt(Other(p)))
<1>1. CASE p = "first"
  BY <1>1 DEF OneLine, Talker, Other
<1>2. CASE p = "second"
  BY <1>2 DEF OneLine, Talker, Other
<1> QED
  BY <1>1, <1>2 DEF Talker

\* The line is taken out of the queue and its reader is at the prompt.
LEMMA SysvMsgrcvKeeps == ASSUME SysvInv, NEW p \in Talker, Msgrcv(p) PROVE SysvInv'
<1>0. SysvTypes
  BY DEF SysvInv
<1>1. PICK i \in Asked(p) :
        queue' = SubSeq(queue, 1, i - 1) \o SubSeq(queue, i + 1, Len(queue))
  BY DEF Msgrcv
<1>2. i \in 1 .. Len(queue) /\ Valid(p) /\ queue[i].mtype = Asks(p)
  <2>1. i \in DOMAIN queue /\ Valid(p) /\ queue[i].mtype = Asks(p)
    BY DEF Asked
  <2>2. queue \in Seq(MessageType)
    BY <1>0, SysvFacts
  <2> QED
    BY <2>1, <2>2
<1>3. /\ queue' \in Seq(MessageType)
      /\ \A k \in DOMAIN queue' : \E j \in DOMAIN queue : j # i /\ queue'[k] = queue[j]
  <2>1. queue \in Seq(MessageType) /\ i \in 1 .. Len(queue)
    BY <1>0, <1>2, SysvFacts
  <2>2. RestOf(queue, i, queue')
    BY <1>1, <2>1, TakenOut
  <2> QED
    BY <2>2 DEF RestOf
<1>4. i \in DOMAIN queue /\ queue # <<>>
  BY <1>0, <1>2, SysvFacts
<1>5. Signed(queue')
  <2>1. Signed(queue)
    BY <1>0 DEF SysvTypes
  <2> QED
    BY <1>3, <2>1 DEF Signed
<1>6. /\ sysv[p] = "msgrcv" /\ sysv' = [sysv EXCEPT ![p] = "fgets"]
      /\ UNCHANGED <<msgs, created, msgid, openings>>
  BY DEF Msgrcv
<1>7. /\ SysvTypes' /\ sysv'[p] = "fgets" /\ (AtPrompt(Other(p))' <=> AtPrompt(Other(p)))
  <2>1. msgs # 0
    BY <1>2 DEF Valid
  <2> QED
    BY <1>0, <1>3, <1>5, <1>6, <2>1, SysvOnward
<1>8. IsLine(i)
  BY <1>2 DEF IsLine, Asks
<1>9. openings # 0
  BY <1>2, <1>4, <1>8 DEF SysvInv, Conversation, Silence
<1>10. ASSUME openings = 1 PROVE OneLine'
  <2>1. /\ \A k, j \in DOMAIN queue : IsLine(k) /\ IsLine(j) => k = j
        /\ ~AtPrompt(Other(p))
    BY <1>2, <1>4, <1>8, <1>10, OneLineOf DEF SysvInv, Conversation
  <2>2. ASSUME NEW k \in DOMAIN queue', queue'[k].mtype # 255 PROVE FALSE
    <3>1. PICK j \in DOMAIN queue : j # i /\ queue'[k] = queue[j]
      BY <1>3
    <3>2. IsLine(j)
      BY <2>2, <3>1 DEF IsLine
    <3> QED
      BY <1>4, <1>8, <2>1, <3>1, <3>2
  <2>3. ~AtPrompt(Other(p))'
    BY <1>7, <2>1
  <2>4. ~(AtPrompt("first")' /\ AtPrompt("second")')
    BY <2>3 DEF Talker, Other
  <2> QED
    BY <2>2, <2>4 DEF OneLine, IsLine
<1> QED
  BY <1>6, <1>7, <1>9, <1>10 DEF SysvInv, Conversation

\* What a message put into the queue does to the conversation: a line from a
\* program that was at its prompt, or else a good-bye.
LEMMA SysvSaid ==
    ASSUME SysvInv, NEW p \in Talker, NEW m, Put(queue, m, queue'),
           m.mtype # 255 => AtPrompt(p),
           ~AtPrompt(p)', AtPrompt(Other(p))' <=> AtPrompt(Other(p)),
           msgs' = msgs, msgid' = msgid, openings' = openings
    PROVE  Conversation'
<1>1. /\ openings = 0 => Silence
      /\ openings = 1 => OneLine
  BY DEF SysvInv, Conversation
<1>2. ASSUME NEW k \in DOMAIN queue'
      PROVE  (k \in DOMAIN queue /\ queue'[k] = queue[k]) \/ (k = Len(queue) + 1 /\ queue'[k] = m)
  BY DEF Put
<1>3. \A k \in DOMAIN queue' :
        IsLine(k)' => (k \in DOMAIN queue /\ IsLine(k)) \/ (k = Len(queue) + 1 /\ m.mtype # 255)
  BY <1>2 DEF IsLine
<1>4. Len(queue) + 1 \notin DOMAIN queue
  BY DEF Put
<1>5. ASSUME openings = 0 PROVE Silence'
  <2>1. Silence
    BY <1>1, <1>5
  <2>2. ~AtPrompt("first") /\ ~AtPrompt("second")
    BY <2>1 DEF Silence, AtPrompt, On, Valid
  <2>3. m.mtype = 255
    BY <2>2 DEF Talker
  <2>4. \A k \in DOMAIN queue' : ~IsLine(k)'
    <3>1. \A k \in DOMAIN queue : ~IsLine(k)
      BY <2>1 DEF Silence
    <3> QED
      BY <1>3, <2>3, <3>1
  <2>5. ~AtPrompt("first")'
    BY <2>2 DEF Talker, Other
  <2>6. msgid'["second"] # msgs' \/ msgs' = 0
    BY <2>1 DEF Silence
  <2> QED
    BY <2>4, <2>5, <2>6 DEF Silence
<1>6. ASSUME openings = 1 PROVE OneLine'
  <2>1. /\ \A i, j \in DOMAIN queue : IsLine(i) /\ IsLine(j) => i = j
        /\ \A i \in DOMAIN queue : IsLine(i) => ~AtPrompt(p) /\ ~AtPrompt(Other(p))
        /\ ~(AtPrompt(p) /\ AtPrompt(Other(p)))
    BY <1>1, <1>6, OneLineOf
  <2>2. ASSUME NEW i \in DOMAIN queue', NEW j \in DOMAIN queue', IsLine(i)', IsLine(j)'
        PROVE  i = j
    BY <1>3, <2>1, <2>2
  <2>3. ASSUME NEW i \in DOMAIN queue', IsLine(i)'
        PROVE  ~AtPrompt(Other(p))'
    BY <1>3, <2>1, <2>3
  <2>4. /\ ~(AtPrompt("first")' /\ AtPrompt("second")')
        /\ \A q \in Talker : AtPrompt(q)' => AtPrompt(Other(p))'
    BY DEF Talker, Other
  <2> QED
    BY <2>2, <2>3, <2>4 DEF OneLine
<1> QED
  BY <1>5, <1>6 DEF Conversation

\* What msgsnd leaves in a queue that exists.
LEMMA SysvAppends ==
    ASSUME queue \in Seq(MessageType), Signed(queue), NEW p \in Talker,
           NEW type, NEW said, Sendable(p, type, said), Msgsnd(p, type, said), Valid(p)
    PROVE  /\ Put(queue, Said(p, type, said), queue')
           /\ queue' \in Seq(MessageType) /\ Signed(queue')
<1>1. queue' = Append(queue, Said(p, type, said))
  BY DEF Msgsnd, Said
<1>2. /\ Said(p, type, said) \in MessageType
      /\ Said(p, type, said).mtype = type /\ Said(p, type, said).by = p
  <2>1. type \in {1, 2, 255} /\ said \in {"line", "end", "Chat terminated"}
    <3>1. Sends(p) \in {1, 2}
      BY SysvTalkers
    <3>2. type \in {Sends(p), 255}
      BY DEF Sendable
    <3>3. said \in {"line", "end", "Chat terminated"}
      BY DEF Sendable
    <3>4. type \in {1, 2, 255}
      BY <3>1, <3>2
    <3> QED
      BY <3>3, <3>4
  <2>2. /\ Said(p, type, said).mtype = type /\ Said(p, type, said).by = p
        /\ Said(p, type, said) = [mtype |-> type, mtext |-> said, by |-> p]
    BY DEF Said
  <2>3. [mtype |-> type, mtext |-> said, by |-> p] \in MessageType
    BY <2>1 DEF MessageType
  <2> QED
    BY <2>2, <2>3
<1>3. Put(queue, Said(p, type, said), queue')
  BY <1>1, <1>2, PutIn
<1>4. queue' \in Seq(MessageType)
  BY <1>3 DEF Put
<1>5. ASSUME NEW k \in DOMAIN queue' PROVE queue'[k].mtype \in {Sends(queue'[k].by), 255}
  <2>1. queue'[k] = Said(p, type, said) \/ (k \in DOMAIN queue /\ queue'[k] = queue[k])
    BY <1>3 DEF Put
  <2>2. CASE queue'[k] = Said(p, type, said)
    <3>1. Said(p, type, said).mtype \in {Sends(Said(p, type, said).by), 255}
      BY <1>2 DEF Sendable
    <3> QED
      BY <2>2, <3>1
  <2>3. CASE k \in DOMAIN queue /\ queue'[k] = queue[k]
    BY <2>3 DEF Signed
  <2> QED
    BY <2>1, <2>2, <2>3
<1> QED
  BY <1>3, <1>4, <1>5 DEF Signed

\* A program sends and then waits or ends, whether the queue is still there or not.
LEMMA SysvSendKeeps ==
    ASSUME SysvInv, NEW p \in Talker, NEW to \in {"off", "msgrcv", "bye", "rmid"},
           p = "second" => to # "rmid", sysv' = [sysv EXCEPT ![p] = to],
           UNCHANGED <<msgs, created, msgid, openings>>,
           NEW type, NEW said, Sendable(p, type, said),
           Msgsnd(p, type, said), sysv[p] # "off",
           type = 255 \/ sysv[p] \in {"open", "fgets"}
    PROVE  SysvInv'
<1>0. SysvTypes
  BY DEF SysvInv
<1>1. ~Valid(p) => queue' = queue
  BY DEF Msgsnd
<1>3. /\ queue \in Seq(MessageType) /\ Signed(queue)
      /\ msgs = 0 => queue = <<>> /\ ~Valid(p)
  BY <1>0 DEF SysvTypes, Valid
<1>4. ASSUME Valid(p)
      PROVE  /\ Put(queue, Said(p, type, said), queue')
             /\ queue' \in Seq(MessageType) /\ Signed(queue')
  <2>2. queue \in Seq(MessageType) /\ Signed(queue)
    BY <1>3
  <2> QED
    BY <1>4, <2>2, SysvAppends
<1>5. queue' \in Seq(MessageType) /\ Signed(queue')
  BY <1>1, <1>3, <1>4
<1>6. msgs = 0 => queue' = <<>>
  BY <1>1, <1>3
<1>7. /\ SysvTypes' /\ ~AtPrompt(p)'
      /\ (AtPrompt(Other(p))' <=> AtPrompt(Other(p)))
  <2>1. to \in {"off", "msgrcv", "fgets", "bye", "rmid"} /\ to # "fgets"
    OBVIOUS
  <2> QED
    BY <1>0, <1>5, <1>6, <2>1, SysvOnward
<1>8. msgs' = msgs /\ msgid' = msgid /\ openings' = openings
  OBVIOUS
<1>9. CASE Valid(p)
  <2>1. Said(p, type, said).mtype # 255 => AtPrompt(p)
    BY <1>9 DEF AtPrompt, On, Said
  <2>2. Put(queue, Said(p, type, said), queue')
    BY <1>4, <1>9
  <2>3. Conversation'
    BY <1>7, <1>8, <2>1, <2>2, SysvSaid, Zenon
  <2> QED
    BY <1>7, <2>3 DEF SysvInv
<1>10. CASE ~Valid(p)
  <2>1. queue' = queue
    BY <1>1, <1>10
  <2>2. /\ AtPrompt("first")' => AtPrompt("first")
        /\ AtPrompt("second")' => AtPrompt("second")
        /\ msgid'["second"] = msgid["second"]
    BY <1>7, <1>8 DEF Talker, Other
  <2>3. Conversation'
    BY <1>7, <1>8, <2>1, <2>2, SysvQuiet
  <2> QED
    BY <1>7, <2>3 DEF SysvInv
<1> QED
  BY <1>9, <1>10

\* The queue is removed, with whatever was said on it.
LEMMA SysvRmidKeeps == ASSUME SysvInv, MsgctlRmid PROVE SysvInv'
<1>0. SysvTypes
  BY DEF SysvInv
<1>1. /\ queue' = <<>> /\ msgs' = 0 /\ openings' = 0 /\ created' = created /\ msgid' = msgid
      /\ sysv' = [sysv EXCEPT !["first"] = "off"]
  BY DEF MsgctlRmid
<1>2. /\ sysv'["first"] = "off" /\ sysv'["second"] = sysv["second"]
      /\ sysv' \in [Talker -> {"off", "open", "msgrcv", "fgets", "bye", "rmid"}]
  BY <1>0, <1>1, SysvFacts
<1>3. queue' \in Seq(MessageType) /\ DOMAIN queue' = {}
  BY <1>1
<1>6. Signed(queue')
  BY <1>3 DEF Signed
<1>4. SysvTypes'
  <2>1. created' \in Nat /\ msgs' \in 0 .. created' /\ openings' \in Nat
    BY <1>0, <1>1, SysvFacts
  <2>2. msgid' \in [Talker -> Nat] /\ \A p \in Talker : msgid'[p] <= created'
    BY <1>0, <1>1 DEF SysvTypes
  <2>3. sysv'["second"] # "rmid" /\ sysv'["first"] # "open"
    BY <1>0, <1>2 DEF SysvTypes
  <2> QED
    BY <1>1, <1>2, <1>3, <1>6, <2>1, <2>2, <2>3 DEF SysvTypes
<1>5. Silence'
  <2>1. ~AtPrompt("first")'
    BY <1>2 DEF AtPrompt, On
  <2> QED
    BY <1>1, <1>3, <2>1 DEF Silence
<1> QED
  BY <1>1, <1>4, <1>5 DEF SysvInv, Conversation

\* One step per action of the chat.
LEMMA SysvStep == ASSUME SysvInv, [SysvNext]_sysvVars PROVE SysvInv'
<1>0. SysvTypes
  BY DEF SysvInv
<1>1. ASSUME NEW p \in Talker, SysvStart(p) PROVE SysvInv'
  BY <1>1, SysvStartKeeps
<1>2. ASSUME NEW p \in Talker, Msgrcv(p) PROVE SysvInv'
  BY <1>2, SysvMsgrcvKeeps
<1>3. ASSUME NEW p \in Talker, MsgrcvFails(p) PROVE SysvInv'
  <2>1. /\ sysv[p] # "off" /\ ~Valid(p) /\ sysv' = [sysv EXCEPT ![p] = "fgets"]
        /\ UNCHANGED <<queue, msgs, created, msgid, openings>>
    BY <1>3 DEF MsgrcvFails
  <2> QED
    BY <2>1, SysvMoves
<1>4. ASSUME NEW p \in Talker, Talk(p) PROVE SysvInv'
  <2>1. PICK said \in {"line", "end"} :
          /\ Msgsnd(p, Sends(p), said)
          /\ sysv' = [sysv EXCEPT ![p] = IF @ = "fgets" /\ said = "end" THEN "bye" ELSE "msgrcv"]
    BY <1>4 DEF Talk
  <2>2. PICK to \in {"msgrcv", "bye"} : sysv' = [sysv EXCEPT ![p] = to]
    BY <2>1
  <2>3. /\ sysv[p] \in {"open", "fgets"} /\ sysv[p] # "off"
        /\ UNCHANGED <<msgs, created, msgid, openings>>
    BY <1>4 DEF Talk
  <2>4. to \in {"off", "msgrcv", "bye", "rmid"} /\ to # "rmid"
    OBVIOUS
  <2>5. Sendable(p, Sends(p), said)
    BY DEF Sendable
  <2>6. Msgsnd(p, Sends(p), said)
    BY <2>1
  <2> QED
    BY <2>2, <2>3, <2>4, <2>5, <2>6, SysvSendKeeps
<1>5. ASSUME NEW p \in Talker, Bye(p) PROVE SysvInv'
  <2> DEFINE to == IF p = "first" THEN "rmid" ELSE "off"
  <2>1. /\ sysv[p] # "off" /\ sysv' = [sysv EXCEPT ![p] = to] /\ to \in {"off", "rmid"}
        /\ UNCHANGED <<msgs, created, msgid, openings>>
        /\ Msgsnd(p, 255, "Chat terminated") /\ (p = "second" => to # "rmid")
    BY <1>5 DEF Bye
  <2>2. Sendable(p, 255, "Chat terminated")
    BY DEF Sendable
  <2> HIDE DEF to
  <2> QED
    BY <2>1, <2>2, SysvSendKeeps
<1>6. ASSUME NEW p \in Talker, SysvKill(p) PROVE SysvInv'
  <2>1. /\ sysv[p] # "off" /\ sysv' = [sysv EXCEPT ![p] = "off"]
        /\ UNCHANGED <<queue, msgs, created, msgid, openings>>
    BY <1>6 DEF SysvKill
  <2> QED
    BY <2>1, SysvMoves
<1>7. CASE MsgctlRmid
  BY <1>7, SysvRmidKeeps
<1>8. CASE UNCHANGED sysvVars
  <2>1. /\ queue' = queue /\ msgs' = msgs /\ created' = created /\ sysv' = sysv
        /\ msgid' = msgid /\ openings' = openings
    BY <1>8 DEF sysvVars
  <2>2. SysvTypes'
    BY <1>0, <2>1 DEF SysvTypes, Valid
  <2>3. Conversation'
    BY <2>1, <2>2, SysvQuiet DEF AtPrompt, On, Valid
  <2> QED
    BY <2>2, <2>3 DEF SysvInv
<1> QED
  BY <1>1, <1>2, <1>3, <1>4, <1>5, <1>6, <1>7, <1>8 DEF SysvNext

\* As long as second was started once on the queue, nobody is asked for a line
\* while one of the partner waits unread (Task 6, first.c:20-32, second.c:20-38),
\* whatever the number of starts and whoever was killed in between.
THEOREM SysvChatTurns == SysvSpec => []NoLineAtPrompt
<1>1. SysvInit => SysvInv
  <2> SUFFICES ASSUME SysvInit PROVE SysvInv
    OBVIOUS
  <2>1. /\ queue = <<>> /\ DOMAIN queue = {} /\ msgs = 0 /\ created = 0 /\ openings = 0
        /\ queue \in Seq(MessageType)
    BY DEF SysvInit
  <2>2. /\ sysv \in [Talker -> {"off", "open", "msgrcv", "fgets", "bye", "rmid"}]
        /\ \A p \in Talker : sysv[p] = "off" /\ msgid[p] = 0
        /\ msgid \in [Talker -> Nat]
    BY DEF SysvInit
  <2>3. SysvTypes
    BY <2>1, <2>2 DEF SysvTypes, Talker, Signed
  <2>4. Silence
    BY <2>1, <2>2 DEF Silence, AtPrompt, On, Talker
  <2> QED
    BY <2>1, <2>3, <2>4 DEF SysvInv, Conversation
<1>2. SysvInv => NoLineAtPrompt
  <2> SUFFICES ASSUME SysvInv, openings <= 1, NEW p \in Talker, sysv[p] \in {"open", "fgets"},
                      LineFor(p)
               PROVE  FALSE
    BY DEF NoLineAtPrompt
  <2>1. PICK i \in DOMAIN queue : Valid(p) /\ IsLine(i)
    BY DEF LineFor, IsLine
  <2>2. AtPrompt(p)
    BY <2>1 DEF AtPrompt, On
  <2>3. openings = 0 \/ openings = 1
    BY SysvFacts DEF SysvInv
  <2>4. openings = 0 => ~IsLine(i)
    BY DEF SysvInv, Conversation, Silence
  <2>5. openings = 1 => ~(IsLine(i) /\ AtPrompt(p))
    BY DEF SysvInv, Conversation, OneLine
  <2> QED
    BY <2>1, <2>2, <2>3, <2>4, <2>5
<1> QED
  BY <1>1, <1>2, SysvStep, PTL DEF SysvSpec
=============================================================================
