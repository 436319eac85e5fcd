---------------------------- MODULE ContactList -----------------------------
(***************************************************************************)
(* The contact programs "Module 2/Task 4.1, 6.1 and 6.2": one menu and one *)
(* doubly linked list, in one file, in a static and in a shared library.   *)
(* The heap is modelled: malloc returns any address that is not in use,    *)
(* one that was freed before included.  Every round of a loop over the     *)
(* list is a step, with current as a variable.                             *)
(***************************************************************************)
EXTENDS Integers, FiniteSets

CONSTANTS
    Addr,         \* addresses of nodes
    NULL,
    Text,         \* names, phone and link of a contact
    MaxContacts   \* bound: contacts added

ASSUME ContactListAssumption ==
    /\ NULL \notin Addr
    /\ Text # {}
    /\ MaxContacts \in Nat

VARIABLES
    head,
    next, prev, id, text,   \* the fields of the nodes
    alloc,                  \* addresses in use
    contactCount,
    op,        \* "menu", the loop the program is in, or "exit"
    current,   \* the loop variable current, or last
    newNode,   \* the node that insert was given
    arg,       \* the id that was typed
    printed,   \* history: what printNode has printed, from ids to texts
    reply      \* history: what the command printed, or none while it works

nodeVars == <<next, prev, id, text, alloc>>
vars == <<head, next, prev, id, text, alloc, contactCount, op, current, newNode, arg, printed, reply>>

Init ==
    /\ head = NULL
    /\ next = [a \in Addr |-> NULL] /\ prev = [a \in Addr |-> NULL]
    /\ id = [a \in Addr |-> 0] /\ text = [a \in Addr |-> CHOOSE t \in Text : TRUE]
    /\ alloc = {}
    /\ contactCount = 0
    /\ op = "menu" /\ current = NULL /\ newNode = NULL /\ arg = 0
    /\ printed = [i \in {} |-> {}] /\ reply = <<"none">>

\* A command ends: its local variables are gone.
Return(r) ==
    /\ op' = "menu" /\ reply' = r
    /\ current' = NULL /\ newNode' = NULL /\ arg' = 0 /\ printed' = [i \in {} |-> {}]

\* A loop begins at the head.
Begin(name) == op' = name /\ current' = head /\ reply' = <<"none">> /\ UNCHANGED printed

\* One more round of a loop.
Advance == current' = next[current] /\ UNCHANGED <<head, nodeVars, contactCount, op, newNode, arg, reply>>

-----------------------------------------------------------------------------
(* addContact and insert. *)

\* createNode on the address a.
CreateNode(a, t) ==
    /\ alloc' = alloc \cup {a}
    /\ id' = [id EXCEPT ![a] = contactCount] /\ text' = [text EXCEPT ![a] = t]
    /\ next' = [next EXCEPT ![a] = NULL] /\ prev' = [prev EXCEPT ![a] = NULL]

\* addContact: a node with the next id; insert returns at once when the list is
\* empty.
AddContact ==
    /\ op = "menu" /\ contactCount < MaxContacts
    /\ \E a \in Addr \ alloc, t \in Text :
         /\ CreateNode(a, t)
         /\ \/ head = NULL /\ head' = a /\ Return(<<"added", contactCount>>)
            \/ head # NULL /\ Begin("insert") /\ newNode' = a /\ UNCHANGED <<head, arg>>
    /\ contactCount' = contactCount + 1

\* while (current != NULL && current->con.id < con.id)
Smaller == current # NULL /\ id[current] < id[newNode]

InsertWalk == op = "insert" /\ Smaller /\ Advance /\ UNCHANGED printed

\* Before the head, between two nodes, or behind the last node, which a second
\* loop looks for.
InsertHere ==
    /\ op = "insert" /\ ~Smaller
    /\ IF current = NULL
       THEN Begin("last") /\ UNCHANGED <<head, next, prev, newNode, arg>>
       ELSE /\ next' = [a \in Addr |-> IF a = newNode THEN current
                                       ELSE IF current # head /\ a = prev[current] THEN newNode
                                       ELSE next[a]]
            /\ prev' = [a \in Addr |-> IF a = current THEN newNode
                                       ELSE IF current # head /\ a = newNode THEN prev[current]
                                       ELSE prev[a]]
            /\ head' = IF current = head THEN newNode ELSE head
            /\ Return(<<"added", id[newNode]>>)
    /\ UNCHANGED <<id, text, alloc, contactCount>>

\* while (last->next != NULL)
LastWalk == op = "last" /\ next[current] # NULL /\ Advance /\ UNCHANGED printed

LastLink ==
    /\ op = "last" /\ next[current] = NULL
    /\ next' = [next EXCEPT ![current] = newNode]
    /\ prev' = [prev EXCEPT ![newNode] = current]
    /\ Return(<<"added", id[newNode]>>)
    /\ UNCHANGED <<head, id, text, alloc, contactCount>>

-----------------------------------------------------------------------------
(* removeNode and editContact search for an id that is typed. *)

Command(name, i) ==
    /\ op = "menu" /\ Begin(name) /\ arg' = i
    /\ UNCHANGED <<head, nodeVars, contactCount, newNode>>

\* while (current != NULL && current->con.id != id)
SearchWalk ==
    /\ op \in {"remove", "edit"} /\ current # NULL /\ id[current] # arg
    /\ Advance /\ UNCHANGED printed

\* "Contact not found!"
NotFound ==
    /\ op \in {"remove", "edit"} /\ current = NULL
    /\ Return(<<"not found", arg>>)
    /\ UNCHANGED <<head, nodeVars, contactCount>>

Found(name) == op = name /\ current # NULL /\ id[current] = arg

\* The links of the list without c.  Mutant: the successor keeps its prev.
UnlinkedKeepsPrev(c) ==
    /\ head' = IF c = head THEN next[c] ELSE head
    /\ next' = [a \in Addr |-> IF c # head /\ a = prev[c] THEN next[c] ELSE next[a]]
    /\ UNCHANGED prev
Unlinked(c) ==
    /\ head' = IF c = head THEN next[c] ELSE head
    /\ next' = [a \in Addr |-> IF c # head /\ a = prev[c] THEN next[c] ELSE next[a]]
    /\ prev' = [a \in Addr |-> IF a # next[c] THEN prev[a]
                               ELSE IF c = head THEN NULL ELSE prev[c]]

\* The node is taken out of the list and freed.  Mutant: its id is counted back.
RemoveNodeCountsBack ==
    /\ Found("remove")
    /\ Unlinked(current)
    /\ alloc' = alloc \ {current}
    /\ contactCount' = contactCount - 1
    /\ Return(<<"deleted", arg>>)
    /\ UNCHANGED <<id, text>>
RemoveNode ==
    /\ Found("remove")
    /\ Unlinked(current)
    /\ alloc' = alloc \ {current}
    /\ Return(<<"deleted", arg>>)
    /\ UNCHANGED <<id, text, contactCount>>

\* Any of the texts is replaced, or none.
EditContact ==
    /\ Found("edit")
    /\ \E t \in Text : text' = [text EXCEPT ![current] = t]
    /\ Return(<<"updated", arg>>)
    /\ UNCHANGED <<head, next, prev, id, alloc, contactCount>>

-----------------------------------------------------------------------------
PrintNode ==
    /\ op = "menu" /\ Begin("print")
    /\ UNCHANGED <<head, nodeVars, contactCount, newNode, arg>>

PrintWalk ==
    /\ op = "print" /\ current # NULL
    /\ printed' = [i \in DOMAIN printed \cup {id[current]} |->
                     IF i = id[current] THEN text[current] ELSE printed[i]]
    /\ Advance

PrintEnd ==
    /\ op = "print" /\ current = NULL
    /\ Return(<<"listed", printed>>)
    /\ UNCHANGED <<head, nodeVars, contactCount>>

\* Choice 5: main returns without freeing the list.
Exit ==
    /\ op = "menu" /\ op' = "exit"
    /\ UNCHANGED <<head, nodeVars, contactCount, current, newNode, arg, printed, reply>>

-----------------------------------------------------------------------------
Loop ==
    \/ InsertWalk \/ InsertHere \/ LastWalk \/ LastLink
    \/ SearchWalk \/ NotFound \/ RemoveNode \/ EditContact
    \/ PrintWalk \/ PrintEnd

\* What the user may type: the ids given so far or later, and one that never is.
Id == 0 .. MaxContacts

Next ==
    \/ AddContact \/ PrintNode \/ Exit \/ Loop
    \/ \E i \in Id : Command("remove", i) \/ Command("edit", i)

Spec == Init /\ [][Next]_vars

-----------------------------------------------------------------------------
\* The nodes of the list: a node that insert still works on is not in it.
Linked == IF op \in {"insert", "last"} THEN alloc \ {newNode} ELSE alloc

\* The list is linked in both directions, ascending, and holds every node that
\* is not freed: nothing leaks, and no pointer leads to freed memory, through
\* removals at the head, in the middle and at the end and reuse of addresses
\* (linkedList.c:13-70).
WellLinked ==
    /\ head \in Linked \cup {NULL} /\ (head = NULL <=> Linked = {})
    /\ \A a \in Linked :
         /\ next[a] \in Linked \cup {NULL} /\ prev[a] \in Linked \cup {NULL}
         /\ next[a] # NULL => prev[next[a]] = a /\ id[a] < id[next[a]]
         /\ prev[a] # NULL => next[prev[a]] = a
         /\ prev[a] = NULL <=> a = head
    /\ current \in Linked \cup {NULL} \/ op = "menu" \/ op = "exit"

\* The program does what ContactBook promises: ids are found exactly when they
\* are in use, and a listing shows every contact once with its newest texts.
book == [i \in {id[a] : a \in Linked} |-> text[CHOOSE a \in Linked : id[a] = i]]
count == contactCount - (IF op \in {"insert", "last"} THEN 1 ELSE 0)
Book == INSTANCE ContactBook
ImplementsBook == Book!Spec
=============================================================================
