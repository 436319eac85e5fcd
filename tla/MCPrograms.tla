----------------------------- MODULE MCPrograms -----------------------------
(***************************************************************************)
(* The programs with a small state, and the checksum, side by side: in a   *)
(* behaviour one of them is used and the others are never started.         *)
(***************************************************************************)
EXTENDS LedTimer, CharDevice, SharedMinMax, PhoneBook, SysvChat, PosixChat, Csum

VARIABLE program    \* the one that is used

vars == <<program, ledVars, devVars, shmVars, bookVars, sysvVars, posixVars, sumVars>>

Init ==
    /\ program \in {"lab3", "lab4", "task12", "task3", "task6", "task7", "csum"}
    /\ LedInit /\ DevInit /\ ShmInit /\ BookInit /\ SysvInit /\ PosixInit /\ SumInit

Next ==
    /\ UNCHANGED program
    /\ \/ program = "lab3" /\ LedNext
          /\ UNCHANGED <<devVars, shmVars, bookVars, sysvVars, posixVars, sumVars>>
       \/ program = "lab4" /\ DevNext
          /\ UNCHANGED <<ledVars, shmVars, bookVars, sysvVars, posixVars, sumVars>>
       \/ program = "task12" /\ ShmNext
          /\ UNCHANGED <<ledVars, devVars, bookVars, sysvVars, posixVars, sumVars>>
       \/ program = "task3" /\ BookNext
          /\ UNCHANGED <<ledVars, devVars, shmVars, sysvVars, posixVars, sumVars>>
       \/ program = "task6" /\ SysvNext
          /\ UNCHANGED <<ledVars, devVars, shmVars, bookVars, posixVars, sumVars>>
       \/ program = "task7" /\ PosixNext
          /\ UNCHANGED <<ledVars, devVars, shmVars, bookVars, sysvVars, sumVars>>
       \/ program = "csum" /\ SumNext
          /\ UNCHANGED <<ledVars, devVars, shmVars, bookVars, sysvVars, posixVars>>

\* A program that was not started has no step to be fair to.
FairSpec == Init /\ [][Next]_vars /\ SysvFairness

\* Masks that show LEDs, and one that gives them back.
Masks == {0, 3, 255}

Characters ==
    {"a", "b", "c", "x", "y", "|", "newline", " ", "tab", "+", "-",
     "0", "1", "2", "3", "4", "5", "6", "7", "8", "9"}

\* A plain record, no surname, and a bar in a name that is too long for it:
\* what fscanf leaves of that line is one more plain record, 7|x|y.
People ==
    {[id |-> <<"-", "2">>, name |-> <<"a">>, surname |-> <<" ">>],
     [id |-> <<"1">>, name |-> <<"a">>, surname |-> <<>>],
     [id |-> <<"0">>, name |-> <<"a", "|", "b", "b", "b", "b">>,
      surname |-> <<"c", "7", "|", "x", "|", "y">>]}

\* Words and bytes around the carry and at both ends of the range.
Words == {0, 1, 255, 256, 32768, 65279, 65280, 65534, 65535}
Bytes == {0, 1, 254, 255}
Pads  == {0, 1, 127, 128, 254, 255}
=============================================================================
