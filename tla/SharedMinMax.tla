---------------------------- MODULE SharedMinMax ----------------------------
(***************************************************************************)
(* "Module 3/Task 12" and "Task 13": a parent puts numbers into a shared   *)
(* segment, a child adds their minimum and maximum, and only sleep(1) is   *)
(* between their accesses.  The programs differ in the calls that make and *)
(* remove the segment.  Every access to the segment is a step; a sleep may *)
(* take any time.                                                          *)
(***************************************************************************)
EXTENDS Integers, Sequences

CONSTANTS
    Count,      \* what 2 + rand() % 5 may give
    Number      \* what rand() % 20 may give

\* There is a largest count, and two numbers at least.
ASSUME SharedMinMaxAssumption ==
    /\ \A c \in Count : c \in Nat /\ c >= 2
    /\ \E c \in Count : \A d \in Count : d <= c
    /\ \A n \in Number : n \in Nat

VARIABLES
    seg,        \* the segment's cells
    removed,    \* the segment is gone for later runs
    stopFlag,   \* of "parent" and of "child"
    parent,     \* "off", "test", "gen", "print", "sleep"
    count, gi,  \* the parent's count and loop index
    printed,    \* history: the numbers the parent has printed in this round
    child,      \* "off", "idle" (asleep), or where findMinMax is
    cnt, ci, cmin, cmax,   \* count, i, min and max of findMinMax
    fresh       \* history: "quiet" if the child was asleep when the numbers were
                \* complete, "yes" once findMinMax has run after that

parentVars == <<parent, count, gi, printed>>
childVars  == <<child, cnt, ci, cmin, cmax>>
shmVars    == <<seg, removed, stopFlag, parentVars, childVars, fresh>>

Cell == 0 .. 2 + CHOOSE c \in Count : \A d \in Count : d <= c

ShmInit ==
    /\ seg = [i \in Cell |-> 0] /\ removed = FALSE
    /\ stopFlag = [p \in {"parent", "child"} |-> 0]
    /\ parent = "off" /\ count = 0 /\ gi = 0 /\ printed = <<>>
    /\ child = "off" /\ cnt = 0 /\ ci = 0 /\ cmin = 0 /\ cmax = 0
    /\ fresh = "no"

\* A segment that was not removed is found again with its contents.
ShmStart ==
    /\ parent = "off" /\ child = "off"
    /\ parent' = "test" /\ child' = "idle"
    /\ stopFlag' = [p \in {"parent", "child"} |-> 0]
    /\ seg' = IF removed THEN [i \in Cell |-> 0] ELSE seg
    /\ removed' = FALSE
    /\ UNCHANGED <<count, gi, printed, cnt, ci, cmin, cmax, fresh>>

SigintHandler(p) ==
    /\ (IF p = "parent" THEN parent ELSE child) # "off"
    /\ stopFlag[p] = 0
    /\ stopFlag' = [stopFlag EXCEPT ![p] = 1]
    /\ UNCHANGED <<seg, removed, parentVars, childVars, fresh>>

\* The terminal goes away: both are killed and the segment stays.
Hangup ==
    /\ parent # "off" \/ child # "off"
    /\ parent' = "off" /\ count' = 0 /\ gi' = 0 /\ printed' = <<>>
    /\ child' = "off" /\ cnt' = 0 /\ ci' = 0 /\ cmin' = 0 /\ cmax' = 0
    /\ fresh' = "no"
    /\ UNCHANGED <<seg, removed, stopFlag>>

-----------------------------------------------------------------------------
(* The parent.  shm[count] is printed but never generated. *)

GenerateCount ==
    /\ parent = "test" /\ stopFlag["parent"] = 0
    /\ count' \in Count
    /\ seg' = [seg EXCEPT ![0] = count']
    /\ parent' = "gen" /\ gi' = 1
    /\ UNCHANGED <<removed, stopFlag, printed, childVars, fresh>>

GenerateNumber ==
    /\ parent = "gen"
    /\ \E n \in Number : seg' = [seg EXCEPT ![gi] = n]
    /\ IF gi + 1 < count
       THEN gi' = gi + 1 /\ UNCHANGED <<parent, fresh>>
       ELSE gi' = 1 /\ parent' = "print" /\ fresh' = IF child = "idle" THEN "quiet" ELSE "no"
    /\ UNCHANGED <<removed, stopFlag, count, printed, childVars>>

PrintNumber ==
    /\ parent = "print"
    /\ printed' = Append(printed, seg[gi])
    /\ IF gi < count THEN gi' = gi + 1 /\ UNCHANGED parent ELSE gi' = 0 /\ parent' = "sleep"
    /\ UNCHANGED <<seg, removed, stopFlag, count, childVars, fresh>>

\* The cells behind the numbers are printed as minimum and maximum.
Report ==
    /\ parent = "sleep"
    /\ parent' = "test" /\ count' = 0 /\ printed' = <<>> /\ fresh' = "no"
    /\ UNCHANGED <<seg, removed, stopFlag, gi, childVars>>

ParentEnds ==
    /\ parent = "test" /\ stopFlag["parent"] = 1
    /\ parent' = "off" /\ removed' = TRUE
    /\ UNCHANGED <<seg, stopFlag, count, gi, printed, childVars, fresh>>

-----------------------------------------------------------------------------
(* The child: findMinMax. *)

BeginPass ==
    /\ child = "idle" /\ stopFlag["child"] = 0
    /\ cnt' = seg[0] /\ ci' = 1 /\ child' = "min="
    /\ UNCHANGED <<seg, removed, stopFlag, parentVars, cmin, cmax, fresh>>

TestMin ==
    /\ child = "min?"
    /\ child' = IF seg[ci] < cmin THEN "min=" ELSE "max?"
    /\ UNCHANGED <<seg, removed, stopFlag, parentVars, cnt, ci, cmin, cmax, fresh>>

SetMin ==
    /\ child = "min="
    /\ cmin' = seg[ci]
    /\ child' = IF ci = 1 THEN "max=" ELSE "max?"
    /\ UNCHANGED <<seg, removed, stopFlag, parentVars, cnt, ci, cmax, fresh>>

\* The test of the loop.  Mutant: the last number is left out.
MoreLess(i) == i < cnt
More(i) == i <= cnt

NextNumber == ci' = ci + 1 /\ child' = IF More(ci + 1) THEN "min?" ELSE "write min"

TestMax ==
    /\ child = "max?"
    /\ IF seg[ci] > cmax THEN child' = "max=" /\ UNCHANGED ci ELSE NextNumber
    /\ UNCHANGED <<seg, removed, stopFlag, parentVars, cnt, cmin, cmax, fresh>>

SetMax ==
    /\ child = "max="
    /\ cmax' = seg[ci]
    /\ NextNumber
    /\ UNCHANGED <<seg, removed, stopFlag, parentVars, cnt, cmin, fresh>>

WriteMin ==
    /\ child = "write min"
    /\ seg' = [seg EXCEPT ![cnt + 1] = cmin]
    /\ child' = "write max"
    /\ UNCHANGED <<removed, stopFlag, parentVars, cnt, ci, cmin, cmax, fresh>>

WriteMax ==
    /\ child = "write max"
    /\ seg' = [seg EXCEPT ![cnt + 2] = cmax]
    /\ child' = "idle" /\ cnt' = 0 /\ ci' = 0 /\ cmin' = 0 /\ cmax' = 0
    /\ fresh' = IF fresh = "quiet" THEN "yes" ELSE fresh
    /\ UNCHANGED <<removed, stopFlag, parentVars>>

ChildEnds ==
    /\ child = "idle" /\ stopFlag["child"] = 1
    /\ child' = "off"
    /\ UNCHANGED <<seg, removed, stopFlag, parentVars, cnt, ci, cmin, cmax, fresh>>

ShmNext ==
    \/ ShmStart \/ Hangup \/ SigintHandler("parent") \/ SigintHandler("child")
    \/ GenerateCount \/ GenerateNumber \/ PrintNumber \/ Report \/ ParentEnds
    \/ BeginPass \/ TestMin \/ SetMin \/ TestMax \/ SetMax \/ WriteMin \/ WriteMax \/ ChildEnds

ShmSpec == ShmInit /\ [][ShmNext]_shmVars

-----------------------------------------------------------------------------
\* The parent reports the minimum and the maximum of the numbers it printed, the
\* one left in shm[count] by an earlier round included, if findMinMax was not
\* running when the last number was written and has run since; whatever rounds,
\* torn passes and runs came before, and although findMinMax may start again
\* before the report (Task 12/main.c:18-37, 76-86).
ReportRight ==
    parent = "sleep" /\ fresh = "yes" =>
        LET low == seg[count + 1]  high == seg[count + 2] IN
        /\ \A i \in 1 .. count : low <= printed[i] /\ printed[i] <= high
        /\ {low, high} \subseteq {printed[i] : i \in 1 .. count}
=============================================================================
