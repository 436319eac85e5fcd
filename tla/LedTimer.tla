------------------------------ MODULE LedTimer ------------------------------
(***************************************************************************)
(* "Module 5/Lab 3": a kernel module whose timer blinks the keyboard LEDs  *)
(* with the mask written to /sys/kernel/sys_test/value.  The callback runs *)
(* on one CPU while another stores a mask or unloads the module; every     *)
(* access to a shared variable is a step.                                  *)
(***************************************************************************)
EXTENDS Integers

CONSTANT Mask    \* masks written to value

RESTORE_LEDS == 255

VARIABLES
    led,          \* "absent", "loaded", then where the exit function is: "del",
                  \* "restore", "put"; "oops" after a use of freed memory
    kobj,         \* the directory sys_test exists
    value, kbledstatus,
    my_timer,     \* "idle", "pending", or where the running callback is
    leds,         \* the mask the keyboard shows, RESTORE_LEDS for its own flags
    stale,        \* the timer of a freed module is armed or its callback runs
    raced         \* history: del_timer met a running callback

ledVars == <<led, kobj, value, kbledstatus, my_timer, leds, stale, raced>>

LedInit ==
    /\ led = "absent" /\ kobj = FALSE
    /\ value = 0 /\ kbledstatus = 0
    /\ my_timer = "idle" /\ leds = RESTORE_LEDS
    /\ stale = FALSE /\ raced = FALSE

\* KDSETLED: anything but the three LED bits gives the LEDs back.
Shown(mask) == IF mask \in 0 .. 7 THEN mask ELSE RESTORE_LEDS

-----------------------------------------------------------------------------
(* insmod and rmmod *)

KbledsInit == value' = 0 /\ kbledstatus' = 0 /\ my_timer' = "pending"

LedLoad ==
    /\ led = "absent" /\ ~kobj
    /\ led' = "loaded" /\ kobj' = TRUE
    /\ KbledsInit
    /\ UNCHANGED <<leds, stale, raced>>

\* sysfs_create_file fails: the directory stays, and with it its name, so that
\* kobject_create_and_add fails from now on.
LedLoadFails ==
    /\ led = "absent" /\ ~kobj
    /\ kobj' = TRUE
    /\ UNCHANGED <<led, value, kbledstatus, my_timer, leds, stale, raced>>

LedUnload ==
    /\ led = "loaded"
    /\ led' = "del"
    /\ UNCHANGED <<kobj, value, kbledstatus, my_timer, leds, stale, raced>>

\* del_timer takes a pending timer off the list and does not wait for a running
\* callback.  Mutant: the timer is left alone.
NoDelTimer ==
    /\ led = "del"
    /\ led' = "restore"
    /\ UNCHANGED <<kobj, value, kbledstatus, my_timer, leds, stale, raced>>
DelTimer ==
    /\ led = "del"
    /\ led' = "restore"
    /\ my_timer' = IF my_timer = "pending" THEN "idle" ELSE my_timer
    /\ raced' = (raced \/ my_timer \notin {"pending", "idle"})
    /\ UNCHANGED <<kobj, value, kbledstatus, leds, stale>>

RestoreLeds ==
    /\ led = "restore"
    /\ led' = "put"
    /\ leds' = Shown(RESTORE_LEDS)
    /\ UNCHANGED <<kobj, value, kbledstatus, my_timer, stale, raced>>

\* kobject_put; then the kernel frees the module.
KobjectPut ==
    /\ led = "put"
    /\ led' = "absent" /\ kobj' = FALSE
    /\ stale' = (stale \/ my_timer # "idle")
    /\ my_timer' = "idle"
    /\ UNCHANGED <<value, kbledstatus, leds, raced>>

-----------------------------------------------------------------------------
\* The code and data of the module are there.
InModule == led \in {"loaded", "del", "restore", "put"}

\* foo_store, until kobject_put takes its file away.
FooStore ==
    /\ InModule
    /\ value' \in Mask
    /\ UNCHANGED <<led, kobj, kbledstatus, my_timer, leds, stale, raced>>

(* my_timer_func *)
Fires ==
    /\ InModule /\ my_timer = "pending"
    /\ my_timer' = IF kbledstatus = value THEN "restore" ELSE "mask"
    /\ UNCHANGED <<led, kobj, value, kbledstatus, leds, stale, raced>>

\* value is read a second time.
SetStatus ==
    /\ InModule /\ my_timer \in {"restore", "mask"}
    /\ kbledstatus' = IF my_timer = "restore" THEN RESTORE_LEDS ELSE value
    /\ my_timer' = "ioctl"
    /\ UNCHANGED <<led, kobj, value, leds, stale, raced>>

\* The ioctl fails when the process the timer interrupts may not set LEDs.
SetLeds ==
    /\ InModule /\ my_timer = "ioctl"
    /\ leds' \in {leds, Shown(kbledstatus)}
    /\ my_timer' = "add"
    /\ UNCHANGED <<led, kobj, value, kbledstatus, stale, raced>>

AddTimer ==
    /\ InModule /\ my_timer = "add"
    /\ my_timer' = "pending"
    /\ UNCHANGED <<led, kobj, value, kbledstatus, leds, stale, raced>>

LedOops ==
    /\ stale /\ led # "oops"
    /\ led' = "oops"
    /\ UNCHANGED <<kobj, value, kbledstatus, my_timer, leds, stale, raced>>

LedNext ==
    \/ LedLoad \/ LedLoadFails \/ LedUnload \/ DelTimer \/ RestoreLeds \/ KobjectPut
    \/ FooStore \/ Fires \/ SetStatus \/ SetLeds \/ AddTimer \/ LedOops

LedSpec == LedInit /\ [][LedNext]_ledVars

-----------------------------------------------------------------------------
\* Unless del_timer meets a running callback, an unloaded module leaves no timer
\* behind, and the keyboard has its LEDs back for good (lab3.c:67-71, 96-100).
\* When it does meet one, the callback arms the timer of the freed module.
CleanUnload ==
    ~raced => ~stale /\ (led \in {"put", "absent"} => leds = RESTORE_LEDS /\ my_timer = "idle")
=============================================================================
