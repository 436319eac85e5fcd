----------------------------- MODULE NumberLog ------------------------------
(***************************************************************************)
(* What the number.txt programs of Module 3 (Tasks 5, 9, 10 and 11)        *)
(* promise: child processes produce numbers, the parent appends each one   *)
(* to the file exactly once and in the order of production.  Only when     *)
(* every producer is gone and all they produced is in the file may the     *)
(* parent append indeterminate values: it takes end of file for a number.  *)
(***************************************************************************)
EXTENDS Integers, Sequences

CONSTANT Number

VARIABLES
    produced,   \* numbers written to the pipe in this run of the program
    file,       \* what this run has appended to number.txt
    closed      \* no producer is left

logVars == <<produced, file, closed>>

Init == produced = <<>> /\ file = <<>> /\ closed = FALSE

Produce ==
    /\ ~closed
    /\ \E n \in Number : produced' = Append(produced, n)
    /\ UNCHANGED <<file, closed>>

\* The oldest number that is not in the file is appended.
Record ==
    /\ Len(file) < Len(produced)
    /\ file' = Append(file, produced[Len(file) + 1])
    /\ UNCHANGED <<produced, closed>>

Close == ~closed /\ closed' = TRUE /\ UNCHANGED <<produced, file>>

Junk ==
    /\ closed /\ Len(file) >= Len(produced)
    /\ \E n \in Number : file' = Append(file, n)
    /\ UNCHANGED <<produced, closed>>

\* The whole program is killed and started again: the pipe is a new one.
Rerun == produced' = <<>> /\ file' = <<>> /\ closed' = FALSE

Next == Produce \/ Record \/ Close \/ Junk \/ Rerun

Spec == Init /\ [][Next]_logVars
=============================================================================
