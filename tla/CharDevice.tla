----------------------------- MODULE CharDevice -----------------------------
(***************************************************************************)
(* "Module 5/Lab 4": a character device for one process at a time, and the *)
(* references that keep its module loaded.  chardev_fops has no owner, so  *)
(* the kernel calls device_open and returns from device_release without a  *)
(* reference of its own: only try_module_get inside device_open counts.    *)
(***************************************************************************)
EXTENDS Integers, Sequences, FiniteSets

CONSTANTS
    Opener,      \* processes that use the device
    MSG_LEN,     \* length of the message
    MaxOpens     \* bound: messages written since the module was loaded

ASSUME CharDeviceAssumption == IsFiniteSet(Opener) /\ MSG_LEN \in Nat

VARIABLES
    chardev,       \* "absent", "live", "going" once rmmod runs, "oops"
    refcnt,        \* references that module_put and rmmod see
    already_open, counter,
    msg,           \* the number the message tells
    file,          \* where each process is: "none", "open", a place inside the
                   \* device's functions, "dangling" once the module is freed
    held,          \* try_module_get of the open file succeeded
    mine,          \* history: the number device_open gave to the file
    offset,        \* the file's position
    got            \* history: what the file has read since the last end of file

devVars == <<chardev, refcnt, already_open, counter, msg, file, held, mine, offset, got>>

DevInit ==
    /\ chardev = "absent" /\ refcnt = 0
    /\ already_open = 0 /\ counter = 0 /\ msg = 0
    /\ file = [p \in Opener |-> "none"]
    /\ held = [p \in Opener |-> FALSE]
    /\ mine = [p \in Opener |-> 0]
    /\ offset = [p \in Opener |-> 0]
    /\ got = [p \in Opener |-> <<>>]

DevLoad ==
    /\ chardev = "absent"
    /\ chardev' = "live"
    /\ refcnt' = 0 /\ already_open' = 0 /\ counter' = 0 /\ msg' = 0
    /\ UNCHANGED <<file, held, mine, offset, got>>

\* rmmod, refused while there are references; then chardev_exit, and the module
\* is freed.
DevUnload ==
    /\ chardev = "live" /\ refcnt = 0
    /\ chardev' = "going"
    /\ UNCHANGED <<refcnt, already_open, counter, msg, file, held, mine, offset, got>>

ChardevExit ==
    /\ chardev = "going"
    /\ chardev' = "absent"
    /\ file' = [p \in Opener |-> IF file[p] = "none" THEN "none" ELSE "dangling"]
    /\ UNCHANGED <<refcnt, already_open, counter, msg, held, mine, offset, got>>

-----------------------------------------------------------------------------
\* The code and data of the module are there.
Present == chardev \in {"live", "going"}
At(p, place) == Present /\ file[p] = place

\* The kernel has found the device and calls device_open.
Lookup(p) ==
    /\ At(p, "none") /\ counter < MaxOpens
    /\ file' = [file EXCEPT ![p] = "opening"]
    /\ UNCHANGED <<chardev, refcnt, already_open, counter, msg, held, mine, offset, got>>

\* atomic_cmpxchg.  Mutant: the test alone, the flag is set with the message.
ClaimLater(p) ==
    /\ At(p, "opening") /\ already_open = 0
    /\ file' = [file EXCEPT ![p] = "claimed"]
    /\ UNCHANGED <<chardev, refcnt, already_open, counter, msg, held, mine, offset, got>>
Claim(p) ==
    /\ At(p, "opening") /\ already_open = 0
    /\ already_open' = 1
    /\ file' = [file EXCEPT ![p] = "claimed"]
    /\ UNCHANGED <<chardev, refcnt, counter, msg, held, mine, offset, got>>

\* -EBUSY; the kernel does not call device_release for it.
Busy(p) ==
    /\ At(p, "opening") /\ already_open = 1
    /\ file' = [file EXCEPT ![p] = "none"]
    /\ UNCHANGED <<chardev, refcnt, already_open, counter, msg, held, mine, offset, got>>

\* sprintf and try_module_get, whose result is ignored.
Tell(p) ==
    /\ At(p, "claimed")
    /\ msg' = counter /\ counter' = counter + 1
    /\ mine' = [mine EXCEPT ![p] = counter]
    /\ offset' = [offset EXCEPT ![p] = 0]
    /\ got' = [got EXCEPT ![p] = <<>>]
    /\ held' = [held EXCEPT ![p] = chardev = "live"]
    /\ refcnt' = IF chardev = "live" THEN refcnt + 1 ELSE refcnt
    /\ file' = [file EXCEPT ![p] = "open"]
    /\ UNCHANGED <<chardev, already_open>>

\* device_read copies n characters, or finds the end and starts again.
DeviceRead(p, n) ==
    /\ At(p, "open") /\ n <= MSG_LEN - offset[p]
    /\ offset' = [offset EXCEPT ![p] = @ + n]
    /\ got' = [got EXCEPT ![p] = @ \o [i \in 1 .. n |-> <<msg, offset[p] + i>>]]
    /\ UNCHANGED <<chardev, refcnt, already_open, counter, msg, file, held, mine>>

ReadEnd(p) ==
    /\ At(p, "open") /\ offset[p] = MSG_LEN
    /\ offset' = [offset EXCEPT ![p] = 0]
    /\ got' = [got EXCEPT ![p] = <<>>]
    /\ UNCHANGED <<chardev, refcnt, already_open, counter, msg, file, held, mine>>

\* device_release: the flag first, then the reference; a put without a reference
\* only warns.  After it the function still has to return.
Release(p) ==
    /\ At(p, "open")
    /\ already_open' = 0
    /\ file' = [file EXCEPT ![p] = "releasing"]
    /\ UNCHANGED <<chardev, refcnt, counter, msg, held, mine, offset, got>>

ModulePut(p) ==
    /\ At(p, "releasing")
    /\ refcnt' = IF refcnt > 0 THEN refcnt - 1 ELSE 0
    /\ held' = [held EXCEPT ![p] = FALSE]
    /\ file' = [file EXCEPT ![p] = "returning"]
    /\ UNCHANGED <<chardev, already_open, counter, msg, mine, offset, got>>

Return(p) ==
    /\ At(p, "returning")
    /\ file' = [file EXCEPT ![p] = "none"]
    /\ UNCHANGED <<chardev, refcnt, already_open, counter, msg, held, mine, offset, got>>

\* A call into, or a return to, memory that is no longer the module's.
DevOops(p) ==
    /\ chardev # "oops" /\ file[p] = "dangling"
    /\ chardev' = "oops"
    /\ UNCHANGED <<refcnt, already_open, counter, msg, file, held, mine, offset, got>>

DevStep(p) ==
    \/ Lookup(p) \/ Claim(p) \/ Busy(p) \/ Tell(p) \/ ReadEnd(p) \/ Release(p) \/ ModulePut(p)
    \/ Return(p) \/ DevOops(p) \/ \E n \in 1 .. MSG_LEN : DeviceRead(p, n)

DevNext == DevLoad \/ DevUnload \/ ChardevExit \/ \E p \in Opener : DevStep(p)

DevSpec == DevInit /\ [][DevNext]_devVars

-----------------------------------------------------------------------------
\* A file whose open was counted has the module under it until its release, and
\* reads one whole message, the one device_open wrote for it, whatever other
\* processes open, release or unload meanwhile (lab4.c:58-96).
SessionIntact ==
    \A p \in Opener : held[p] =>
        /\ chardev \in {"live", "oops"} /\ file[p] \in {"open", "releasing"}
        /\ file[p] = "open" => got[p] = [i \in 1 .. offset[p] |-> <<mine[p], i>>]
=============================================================================
