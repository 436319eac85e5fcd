----------------------------- MODULE ContactBook ----------------------------
(***************************************************************************)
(* What the contact programs of Module 2 promise: contacts that are found  *)
(* by id, changed, deleted and listed in the order of their ids.           *)
(***************************************************************************)
EXTENDS Integers

CONSTANTS
    Text,   \* the texts of a contact
    Id      \* what may be typed as an id

VARIABLES
    book,    \* from the ids in use to the texts of the contacts
    count,   \* the next id
    reply    \* what the command printed, or none while it works

bookVars == <<book, count, reply>>

Init == book = [i \in {} |-> {}] /\ count = 0 /\ reply = <<"none">>

Add ==
    /\ \E t \in Text :
         book' = [i \in DOMAIN book \cup {count} |-> IF i = count THEN t ELSE book[i]]
    /\ count' = count + 1
    /\ reply' = <<"added", count>>

Delete(i) ==
    /\ i \in DOMAIN book
    /\ book' = [j \in DOMAIN book \ {i} |-> book[j]]
    /\ reply' = <<"deleted", i>>
    /\ UNCHANGED count

Edit(i) ==
    /\ i \in DOMAIN book
    /\ \E t \in Text : book' = [book EXCEPT ![i] = t]
    /\ reply' = <<"updated", i>>
    /\ UNCHANGED count

NotFound(i) == i \notin DOMAIN book /\ reply' = <<"not found", i>> /\ UNCHANGED <<book, count>>

\* Every contact once, with its text.
List == reply' = <<"listed", book>> /\ UNCHANGED <<book, count>>

\* A command that is not answered yet.
Ask == reply' = <<"none">> /\ UNCHANGED <<book, count>>

Next == Ask \/ Add \/ List \/ \E i \in Id : Delete(i) \/ Edit(i) \/ NotFound(i)

Spec == Init /\ [][Next]_bookVars
=============================================================================
