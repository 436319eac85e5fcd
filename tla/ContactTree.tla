---------------------------- MODULE ContactTree -----------------------------
(***************************************************************************)
(* The contact program "Module 2/Task 4.3": a binary search tree under ids *)
(* that the user types.  Every level of a recursion and every round of a   *)
(* loop is a step: link is the pointer whose value the recursion returns.  *)
(***************************************************************************)
EXTENDS Integers

CONSTANTS
    Addr,   \* addresses of nodes
    NULL,
    Id,     \* the ids that are typed
    Text    \* names, phone and link of a contact

ASSUME ContactTreeAssumption ==
    /\ NULL \notin Addr
    /\ Id \subseteq Int
    /\ Text # {}

VARIABLES
    ptr,       \* the pointers: root, and left and right of every node
    id, text,  \* the other fields of the nodes
    alloc,     \* addresses in use
    op,        \* "menu", the loop the program is in, "exit" or "crash"
    link,      \* the pointer that leads to the recursion's node
    key,       \* the parameter id of the recursion
    min,       \* findMin's node
    arg,       \* what was typed: id and text
    reply      \* history: what the command printed, or none while it works

nodeVars == <<ptr, id, text, alloc>>
treeVars == <<nodeVars, op, link, key, min, arg, reply>>

NoText == CHOOSE t \in Text : TRUE
AtRoot == <<NULL, "root">>
Left(a) == <<a, "left">>
Right(a) == <<a, "right">>
Pointer == {AtRoot} \cup (Addr \X {"left", "right"})

TreeInit ==
    /\ ptr = [p \in Pointer |-> NULL]
    /\ id = [a \in Addr |-> 0] /\ text = [a \in Addr |-> NoText]
    /\ alloc = {}
    /\ op = "menu" /\ link = AtRoot /\ key = 0 /\ min = NULL
    /\ arg = <<0, NoText>> /\ reply = <<"none">>

\* The node that the recursion looks at.
node == ptr[link]

\* The recursive call for the left or the right subtree.
Descend ==
    /\ link' = IF key < id[node] THEN Left(node) ELSE Right(node)
    /\ UNCHANGED <<nodeVars, op, key, min, arg, reply>>

Begin(name, i) == op' = name /\ link' = AtRoot /\ key' = i

TreeReturn(r) ==
    /\ op' = "menu" /\ reply' = r
    /\ link' = AtRoot /\ key' = 0 /\ min' = NULL /\ arg' = <<0, NoText>>

\* A choice of the menu with the id, and the text, that the user types.
Command(name, i, t) ==
    /\ op = "menu" /\ Begin(name, i)
    /\ arg' = <<i, t>> /\ reply' = <<"none">>
    /\ UNCHANGED <<nodeVars, min>>

-----------------------------------------------------------------------------
(* addContact and insertNode. *)

InsertWalk == op = "insert" /\ node # NULL /\ id[node] # key /\ Descend

\* createNode; a failing malloc stores the NULL that was there.
InsertNode ==
    /\ op = "insert" /\ node = NULL
    /\ \/ \E a \in Addr \ alloc :
            /\ alloc' = alloc \cup {a}
            /\ id' = [id EXCEPT ![a] = key] /\ text' = [text EXCEPT ![a] = arg[2]]
            /\ ptr' = [ptr EXCEPT ![link] = a, ![Left(a)] = NULL, ![Right(a)] = NULL]
       \/ UNCHANGED nodeVars
    /\ TreeReturn(<<"added", key>>)

\* An id that is in use: the contact is dropped, "User added" is printed.
InsertDuplicate ==
    /\ op = "insert" /\ node # NULL /\ id[node] = key
    /\ TreeReturn(<<"added", key>>)
    /\ UNCHANGED nodeVars

-----------------------------------------------------------------------------
(* editContact and deleteContact look for the node first. *)

SearchWalk == op \in {"edit", "find"} /\ node # NULL /\ id[node] # key /\ Descend

\* Any of the texts is replaced, or none.
EditContact ==
    /\ op = "edit" /\ node # NULL /\ id[node] = key
    /\ text' = [text EXCEPT ![node] = arg[2]]
    /\ TreeReturn(<<"updated", key>>)
    /\ UNCHANGED <<ptr, id, alloc>>

\* NULL is not tested for: any text crashes the program, and five empty lines
\* are answered with "Contact updated".
EditMissing ==
    /\ op = "edit" /\ node = NULL
    /\ \/ op' = "crash" /\ UNCHANGED <<link, key, min, arg, reply>>
       \/ TreeReturn(<<"updated", key>>)
    /\ UNCHANGED nodeVars

NotFound ==
    /\ op = "find" /\ node = NULL
    /\ TreeReturn(<<"not found", key>>)
    /\ UNCHANGED nodeVars

DeleteContact ==
    /\ op = "find" /\ node # NULL /\ id[node] = key
    /\ Begin("delete", key)
    /\ UNCHANGED <<nodeVars, min, arg, reply>>

-----------------------------------------------------------------------------
(* delete *)

DeleteWalk == op = "delete" /\ node # NULL /\ id[node] # key /\ Descend

AtTarget == op = "delete" /\ node # NULL /\ id[node] = key

\* At most one child, which takes the place of the node.  The fields of a freed
\* node have no value any more; NULL, 0 and NoText stand for it.
DeleteNode ==
    /\ AtTarget /\ NULL \in {ptr[Left(node)], ptr[Right(node)]}
    /\ LET child == IF ptr[Left(node)] = NULL THEN ptr[Right(node)] ELSE ptr[Left(node)]
       IN  ptr' = [ptr EXCEPT ![link] = child, ![Left(node)] = NULL, ![Right(node)] = NULL]
    /\ alloc' = alloc \ {node}
    /\ id' = [id EXCEPT ![node] = 0] /\ text' = [text EXCEPT ![node] = NoText]
    /\ TreeReturn(<<"deleted", arg[1]>>)

\* Two children: findMin in the right subtree ...
FindMin ==
    /\ AtTarget /\ NULL \notin {ptr[Left(node)], ptr[Right(node)]}
    /\ op' = "min" /\ min' = ptr[Right(node)]
    /\ UNCHANGED <<nodeVars, link, key, arg, reply>>

MinWalk ==
    /\ op = "min" /\ ptr[Left(min)] # NULL
    /\ min' = ptr[Left(min)]
    /\ UNCHANGED <<nodeVars, op, link, key, arg, reply>>

\* ... whose contact is copied here and deleted there.  Mutants: the right subtree
\* is searched for the old id; the contact is not copied.
ReplaceByMinOldKey ==
    /\ op = "min" /\ ptr[Left(min)] = NULL
    /\ id' = [id EXCEPT ![node] = id[min]] /\ text' = [text EXCEPT ![node] = text[min]]
    /\ op' = "delete" /\ link' = Right(node) /\ min' = NULL
    /\ UNCHANGED <<ptr, alloc, key, arg, reply>>
ReplaceByMinNoCopy ==
    /\ op = "min" /\ ptr[Left(min)] = NULL
    /\ op' = "delete" /\ link' = Right(node) /\ key' = id[min] /\ min' = NULL
    /\ UNCHANGED <<nodeVars, arg, reply>>
ReplaceByMin ==
    /\ op = "min" /\ ptr[Left(min)] = NULL
    /\ id' = [id EXCEPT ![node] = id[min]] /\ text' = [text EXCEPT ![node] = text[min]]
    /\ op' = "delete" /\ link' = Right(node) /\ key' = id[min] /\ min' = NULL
    /\ UNCHANGED <<ptr, alloc, arg, reply>>

-----------------------------------------------------------------------------
\* S holds, with a node, its children.
Closed(f, S) == \A a \in S : {f[Left(a)], f[Right(a)]} \subseteq S \cup {NULL}

\* The nodes that postOrderTravel visits from p when the pointers are f: those
\* in every set that holds p and, with a node, its children.
Subtree(f, p) ==
    LET Sets == {S \in SUBSET Addr : p \in S \cup {NULL} /\ Closed(f, S)}
    IN  {a \in Addr : \A S \in Sets : a \in S}

ListContact ==
    /\ op = "menu"
    /\ reply' = <<"listed", {id[a] : a \in Subtree(ptr, ptr[AtRoot])}>>
    /\ UNCHANGED <<nodeVars, op, link, key, min, arg>>

Exit ==
    /\ op = "menu" /\ op' = "exit"
    /\ UNCHANGED <<nodeVars, link, key, min, arg, reply>>

TreeNext ==
    \/ InsertWalk \/ InsertNode \/ InsertDuplicate
    \/ SearchWalk \/ EditContact \/ EditMissing \/ NotFound \/ DeleteContact
    \/ DeleteWalk \/ DeleteNode \/ FindMin \/ MinWalk \/ ReplaceByMin
    \/ ListContact \/ Exit
    \/ \E i \in Id, t \in Text : Command("insert", i, t) \/ Command("edit", i, t)
    \/ \E i \in Id : Command("find", i, NoText)

TreeSpec == TreeInit /\ [][TreeNext]_treeVars

-----------------------------------------------------------------------------
\* Between any two steps the nodes in use are one search tree: all are reached
\* from root, each by one pointer, with smaller ids on the left and greater ones
\* on the right.  While the minimum is deleted below its copy the two are equal.
\* delete is never called with NULL, where it would return no value (main.c:68).
SearchTree ==
    /\ Subtree(ptr, ptr[AtRoot]) = alloc
    /\ \A p, q \in Pointer : ptr[p] = ptr[q] => p = q \/ ptr[p] = NULL
    /\ \A a \in alloc :
         /\ \A b \in Subtree(ptr, ptr[Left(a)]) : id[b] < id[a]
         /\ \A b \in Subtree(ptr, ptr[Right(a)]) :
              id[b] > id[a] \/ (op = "delete" /\ id[a] = key /\ id[b] = key)
    /\ op = "delete" => node # NULL

\* The texts under an id.
Contacts(i) == {text[a] : a \in {b \in alloc : id[b] = i}}

\* A command changes the contact of the typed id only, whatever is moved in the
\* tree (main.c:85-87), and an id reported as deleted or not found is not in use.
OnlyTypedId ==
    [][\A i \in Id :
         /\ i # arg[1] => Contacts(i)' = Contacts(i)
         /\ i = arg[1] /\ op \in {"delete", "find"} /\ op' = "menu" => Contacts(i)' = {}]_treeVars
=============================================================================
