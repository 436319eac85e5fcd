--------------------------- MODULE MainLoopProofs ---------------------------
(***************************************************************************)
(* Two programs that are one loop each, for every value of their constants:*)
(* the contact list, which serves its menu, and the calculator server,     *)
(* which serves the descriptors that select reports.                       *)
(***************************************************************************)
EXTENDS ContactList, SelectServer, FiniteSetTheorems, SequenceTheorems,
        WellFoundedInduction, TLAPS

(***************************************************************************)
(* ContactList: any number of addresses, ids and texts.                    *)
(***************************************************************************)
Inserting == op \in {"insert", "last"}

Types ==
    /\ next \in [Addr -> Addr \cup {NULL}] /\ prev \in [Addr -> Addr \cup {NULL}]
    /\ id \in [Addr -> Nat]
    /\ alloc \subseteq Addr
    /\ contactCount \in Nat
    /\ op \in {"menu", "insert", "last", "remove", "edit", "print", "exit"}

\* A node that is being inserted is not linked yet and has the greatest id.
NewNodeInv ==
    /\ Inserting =>
         /\ newNode \in alloc /\ next[newNode] = NULL /\ prev[newNode] = NULL
         /\ id[newNode] < contactCount
         /\ \A a \in Linked : id[a] < id[newNode]
         /\ head # NULL
    /\ \A a \in Linked : id[a] < contactCount
    /\ op = "last" => current # NULL

ListInv == Types /\ NewNodeInv /\ WellLinked

-----------------------------------------------------------------------------
\* A set of nodes has one with the smallest id.
LEMMA LeastId ==
    ASSUME NEW f \in [Addr -> Nat], NEW S \in SUBSET Addr, S # {}
    PROVE  \E a \in S : \A b \in S : f[a] <= f[b]
<1> DEFINE T == {f[a] : a \in S}
<1>1. T \subseteq Nat /\ T # {}
  OBVIOUS
<1> DEFINE R == {ss \in Nat \X Nat : ss[1] < ss[2]}
<1>2. IsWellFoundedOn(R, Nat)
  BY NatLessThanWellFounded DEF OpToRel
<1>3. \E x \in T : \A y \in T : ~ (<<y, x>> \in R)
  <2> HIDE DEF T, R
  <2> QED BY <1>1, <1>2, WFMin
<1>4. PICK x \in T : \A y \in T : ~ (y < x)
  <2>1. PICK x \in T : \A y \in T : ~ (<<y, x>> \in R)
    BY <1>3
  <2> QED BY <1>1, <2>1
<1>5. PICK a \in S : f[a] = x
  OBVIOUS
<1>6. \A b \in S : f[b] \in T /\ f[b] \in Nat /\ f[a] \in Nat
  OBVIOUS
<1>7. \A b \in S : ~ (f[b] < f[a])
  BY <1>4, <1>5, <1>6
<1> HIDE DEF T, R
<1> QED BY <1>5, <1>6, <1>7

\* Behind a first node without a successor there is nothing.
LEMMA OnlyNode ==
    ASSUME Types, WellLinked, head # NULL, next[head] = NULL
    PROVE  Linked = {head}
<1>1. Linked \subseteq Addr /\ head \in Linked
  BY DEF Types, WellLinked, Linked
<1>2. SUFFICES ASSUME Linked \ {head} # {}
               PROVE  FALSE
  BY <1>1
<1>3. PICK a \in Linked \ {head} : \A b \in Linked \ {head} : id[a] <= id[b]
  BY <1>1, <1>2, LeastId DEF Types
<1>4. prev[a] \in Linked /\ next[prev[a]] = a
  BY <1>3 DEF WellLinked
<1>5. a # NULL
  BY <1>1, ContactListAssumption
<1>6. id[prev[a]] < id[a] /\ id[prev[a]] \in Nat /\ id[a] \in Nat
  BY <1>1, <1>4, <1>5 DEF WellLinked, Types
<1>7. prev[a] \in Linked \ {head}
  BY <1>4, <1>5
<1> QED BY <1>3, <1>6, <1>7

\* An empty list is well linked.
LEMMA InitList == Init => ListInv
BY DEF Init, ListInv, Types, NewNodeInv, WellLinked, Linked, Inserting

-----------------------------------------------------------------------------
\* Steps that change the list.

\* A new contact is not linked yet and has the greatest id.
LEMMA AddContactKeeps == ListInv /\ AddContact => ListInv'
<1> SUFFICES ASSUME ListInv, AddContact PROVE ListInv'
  OBVIOUS
<1> USE ContactListAssumption
<1>0. op = "menu" /\ contactCount' = contactCount + 1
  BY DEF AddContact
<1>1. PICK a \in Addr \ alloc, t \in Text :
         /\ CreateNode(a, t)
         /\ \/ head = NULL /\ head' = a /\ Return(<<"added", contactCount>>)
            \/ head # NULL /\ Begin("insert") /\ newNode' = a /\ UNCHANGED <<head, arg>>
  BY DEF AddContact
<1>2. Linked = alloc
  BY <1>0 DEF Linked
<1>3. op' \in {"menu", "insert"}
  BY <1>1 DEF Return, Begin
<1>4. Types'
  BY <1>0, <1>1, <1>3 DEF ListInv, Types, CreateNode
<1>5. CASE head = NULL
  <2>1. head' = a /\ op' = "menu" /\ alloc' = {a} /\ Linked' = {a}
    BY <1>1, <1>2, <1>5 DEF CreateNode, Return, Linked, ListInv, WellLinked
  <2>2. next'[a] = NULL /\ prev'[a] = NULL /\ id'[a] = contactCount
    BY <1>1 DEF CreateNode, ListInv, Types
  <2>3. WellLinked'
    BY <2>1, <2>2 DEF WellLinked
  <2>4. NewNodeInv'
    BY <1>0, <2>1, <2>2 DEF NewNodeInv, Inserting, ListInv, Types
  <2> QED BY <1>4, <2>3, <2>4 DEF ListInv
<1>6. CASE head # NULL
  <2>1. op' = "insert" /\ newNode' = a /\ alloc' = alloc \cup {a} /\ head' = head /\ current' = head
    BY <1>1, <1>6 DEF CreateNode, Begin
  <2>2. Linked' = Linked
    BY <1>2, <2>1 DEF Linked
  <2>3. \A b \in Linked : next'[b] = next[b] /\ prev'[b] = prev[b] /\ id'[b] = id[b]
    BY <1>1, <1>2 DEF CreateNode, ListInv, Types
  <2>4. next'[a] = NULL /\ prev'[a] = NULL /\ id'[a] = contactCount
    BY <1>1 DEF CreateNode, ListInv, Types
  <2>5. WellLinked'
    BY <1>2, <2>1, <2>2, <2>3 DEF WellLinked, ListInv, Types
  <2>6. NewNodeInv'
    BY <1>0, <1>2, <1>6, <2>1, <2>2, <2>3, <2>4 DEF NewNodeInv, Inserting, ListInv, Types
  <2> QED BY <1>4, <2>5, <2>6 DEF ListInv
<1> QED BY <1>5, <1>6

\* insert walks to the end: the new id is greater than all others.
LEMMA WalksToTheEnd == ListInv /\ op = "insert" /\ ~Smaller => current = NULL
BY DEF ListInv, NewNodeInv, WellLinked, Inserting, Smaller

\* insert looks for a place before a greater id and finds none.
LEMMA InsertHereKeeps == ListInv /\ InsertHere => ListInv'
<1> SUFFICES ASSUME ListInv, InsertHere PROVE ListInv'
  OBVIOUS
<1>1. current = NULL
  BY WalksToTheEnd DEF InsertHere
<1>2. /\ op = "insert" /\ op' = "last" /\ current' = head
      /\ UNCHANGED <<head, nodeVars, contactCount, newNode>>
  BY <1>1 DEF InsertHere, Begin, nodeVars
<1>3. Linked' = Linked
  BY <1>2 DEF Linked, nodeVars
<1> QED BY <1>2, <1>3 DEF ListInv, Types, NewNodeInv, Inserting, WellLinked, nodeVars

\* The new node is linked behind the last one.
LEMMA LastLinkKeeps == ListInv /\ LastLink => ListInv'
<1> SUFFICES ASSUME ListInv, LastLink PROVE ListInv'
  OBVIOUS
<1> USE ContactListAssumption
<1>1. /\ op = "last" /\ op' = "menu" /\ next[current] = NULL /\ current' = NULL
      /\ next' = [next EXCEPT ![current] = newNode]
      /\ prev' = [prev EXCEPT ![newNode] = current]
      /\ UNCHANGED <<head, id, alloc, contactCount>>
  BY DEF LastLink, Return
<1>2. /\ newNode \in alloc /\ next[newNode] = NULL /\ head # NULL
      /\ id[newNode] < contactCount /\ \A a \in Linked : id[a] < id[newNode]
      /\ current \in Linked
  BY <1>1 DEF ListInv, NewNodeInv, Inserting, WellLinked
<1>3. Linked = alloc \ {newNode} /\ Linked' = Linked \cup {newNode} /\ Linked \subseteq Addr
  BY <1>1, <1>2 DEF Linked, ListInv, Types
<1>4. Types'
  BY <1>1, <1>2, <1>3 DEF ListInv, Types
<1>5. NewNodeInv'
  BY <1>1, <1>2, <1>3 DEF ListInv, NewNodeInv, Inserting
<1>6. /\ next'[current] = newNode /\ prev'[newNode] = current /\ next'[newNode] = NULL
      /\ \A a \in Linked : prev'[a] = prev[a] /\ (a # current => next'[a] = next[a])
  BY <1>1, <1>2, <1>3 DEF ListInv, Types
<1>7. \A a \in Linked :
         /\ next'[a] \in Linked' \cup {NULL} /\ prev'[a] \in Linked' \cup {NULL}
         /\ next'[a] # NULL => prev'[next'[a]] = a /\ id[a] < id[next'[a]]
         /\ prev'[a] # NULL => next'[prev'[a]] = a
         /\ prev'[a] = NULL <=> a = head
  <2> TAKE a \in Linked
  <2>1. /\ next[a] \in Linked \cup {NULL} /\ prev[a] \in Linked \cup {NULL}
        /\ next[a] # NULL => prev[next[a]] = a /\ id[a] < id[next[a]]
        /\ prev[a] # NULL => next[prev[a]] = a
        /\ prev[a] = NULL <=> a = head
    BY DEF ListInv, WellLinked
  <2>2. prev[a] # NULL => prev[a] # current
    BY <1>1, <1>3, <2>1
  <2> QED BY <1>2, <1>3, <1>6, <2>1, <2>2
<1>8. WellLinked'
  BY <1>1, <1>2, <1>3, <1>6, <1>7 DEF WellLinked, ListInv
<1> QED BY <1>4, <1>5, <1>8 DEF ListInv

\* A node is unlinked at the head, in the middle or at the end, and freed.
LEMMA RemoveNodeKeeps == ListInv /\ RemoveNode => ListInv'
<1> SUFFICES ASSUME ListInv, RemoveNode PROVE ListInv'
  OBVIOUS
<1> USE ContactListAssumption
<1> DEFINE c == current
<1>1. /\ op = "remove" /\ op' = "menu" /\ c # NULL /\ alloc' = alloc \ {c}
      /\ head' = (IF c = head THEN next[c] ELSE head)
      /\ next' = [a \in Addr |-> IF c # head /\ a = prev[c] THEN next[c] ELSE next[a]]
      /\ prev' = [a \in Addr |-> IF a # next[c] THEN prev[a]
                                 ELSE IF c = head THEN NULL ELSE prev[c]]
      /\ UNCHANGED <<id, contactCount>>
  BY DEF RemoveNode, Found, Return, Unlinked
<1>2. Linked = alloc /\ Linked' = alloc \ {c} /\ alloc \subseteq Addr /\ c \in Linked
  BY <1>1 DEF Linked, ListInv, Types, WellLinked
<1> HIDE DEF c
<1>3. /\ next[c] \in Linked \cup {NULL} /\ prev[c] \in Linked \cup {NULL}
      /\ next[c] # NULL => prev[next[c]] = c /\ id[c] < id[next[c]]
      /\ prev[c] # NULL => next[prev[c]] = c /\ id[prev[c]] < id[c]
      /\ prev[c] = NULL <=> c = head
  BY <1>1, <1>2 DEF ListInv, WellLinked
<1>4. next[c] # c /\ prev[c] # c
  BY <1>2, <1>3 DEF ListInv, Types
<1>5. Types'
  BY <1>1, <1>2, <1>3 DEF ListInv, Types
<1>6. NewNodeInv'
  BY <1>1, <1>2 DEF ListInv, NewNodeInv, Inserting
<1>7. head' \in Linked' \cup {NULL} /\ (head' = NULL <=> Linked' = {})
  <2>1. CASE c = head /\ next[c] = NULL
    <3>1. Linked = {head}
      BY <1>1, <2>1, OnlyNode DEF ListInv
    <3> QED BY <1>1, <1>2, <2>1, <3>1
  <2>2. CASE c = head /\ next[c] # NULL
    BY <1>1, <1>2, <1>3, <1>4, <2>2
  <2>3. CASE c # head
    BY <1>1, <1>2, <2>3 DEF ListInv, WellLinked
  <2> QED BY <2>1, <2>2, <2>3
<1>8. \A a \in Linked' :
         /\ next'[a] \in Linked' \cup {NULL} /\ prev'[a] \in Linked' \cup {NULL}
         /\ next'[a] # NULL => prev'[next'[a]] = a /\ id[a] < id[next'[a]]
         /\ prev'[a] # NULL => next'[prev'[a]] = a
         /\ prev'[a] = NULL <=> a = head'
  <2> TAKE a \in Linked'
  <2>1. a \in Linked /\ a \in Addr /\ a # c /\ a # NULL
    BY <1>2
  <2>2. /\ next[a] \in Linked \cup {NULL} /\ prev[a] \in Linked \cup {NULL}
        /\ next[a] # NULL => prev[next[a]] = a /\ id[a] < id[next[a]]
        /\ prev[a] # NULL => next[prev[a]] = a
        /\ prev[a] = NULL <=> a = head
    BY <2>1 DEF ListInv, WellLinked
  <2>3. CASE c = head
    <3>1. next'[a] = next[a] /\ prev'[a] = IF a = next[c] THEN NULL ELSE prev[a]
      BY <1>1, <2>1, <2>3
    <3>2. next[a] # c /\ (prev[a] = c => a = next[c])
      BY <1>1, <1>3, <2>1, <2>2, <2>3
    <3>3. next[a] # NULL => prev'[next[a]] = a
      BY <1>1, <1>2, <1>3, <2>1, <2>2
    <3>4. prev'[a] # NULL => next'[prev'[a]] = a
      BY <1>1, <1>2, <2>2, <2>3, <3>1
    <3> QED BY <1>1, <1>2, <1>3, <2>1, <2>2, <2>3, <3>1, <3>2, <3>3, <3>4
  <2>4. CASE c # head
    <3>1. /\ next'[a] = IF a = prev[c] THEN next[c] ELSE next[a]
          /\ prev'[a] = IF a = next[c] THEN prev[c] ELSE prev[a]
      BY <1>1, <2>1, <2>4
    <3>2. (next[a] = c <=> a = prev[c]) /\ (prev[a] = c <=> a = next[c])
      BY <1>1, <1>3, <2>1, <2>2, <2>4
    <3>3. next'[a] # NULL => prev'[next'[a]] = a /\ id[a] < id[next'[a]]
      <4>1. CASE a = prev[c]
        <5>1. next'[a] = next[c] /\ (next[c] # NULL => prev'[next[c]] = a)
          BY <1>1, <1>2, <1>3, <2>4, <3>1, <4>1
        <5>2. next[c] # NULL => id[a] < id[next[c]]
          BY <1>2, <1>3, <2>1, <4>1 DEF ListInv, Types
        <5> QED BY <5>1, <5>2
      <4>2. CASE a # prev[c]
        <5>1. next'[a] = next[a] /\ next[a] # c /\ (next[a] # NULL => next[a] # next[c])
          BY <1>3, <2>1, <2>2, <3>1, <3>2, <4>2
        <5> QED BY <1>1, <1>2, <2>2, <5>1
      <4> QED BY <4>1, <4>2
    <3>4. prev'[a] # NULL => next'[prev'[a]] = a
      <4>1. CASE a = next[c]
        BY <1>1, <1>2, <1>3, <2>4, <3>1, <4>1
      <4>2. CASE a # next[c]
        <5>1. prev'[a] = prev[a] /\ prev[a] # c /\ (prev[a] # NULL => prev[a] # prev[c])
          BY <1>3, <2>1, <2>2, <3>1, <3>2, <4>2
        <5> QED BY <1>1, <1>2, <2>2, <5>1
      <4> QED BY <4>1, <4>2
    <3>5. prev'[a] = NULL <=> a = head'
      BY <1>1, <1>3, <2>1, <2>2, <2>4, <3>1
    <3>6. next'[a] \in Linked' \cup {NULL} /\ prev'[a] \in Linked' \cup {NULL}
      BY <1>2, <1>3, <1>4, <2>2, <3>1, <3>2
    <3> QED BY <3>3, <3>4, <3>5, <3>6
  <2> QED BY <2>3, <2>4
<1>9. WellLinked'
  BY <1>1, <1>7, <1>8 DEF WellLinked
<1> QED BY <1>5, <1>6, <1>9 DEF ListInv

-----------------------------------------------------------------------------
\* Steps that leave the links alone.

\* The rounds of the loops: current moves along next.
LEMMA AdvanceKeeps ==
    ASSUME ListInv, Advance, current # NULL, op \notin {"menu", "exit"}, op = "last" => next[current] # NULL
    PROVE  ListInv'
<1>1. Linked' = Linked
  BY DEF Advance, Linked, nodeVars
<1>2. current' \in Linked \cup {NULL}
  BY DEF Advance, ListInv, WellLinked
<1> QED BY <1>1, <1>2 DEF Advance, ListInv, Types, NewNodeInv, Inserting, WellLinked, nodeVars

\* Steps between commands and inside the ones that do not insert.
LEMMA QuietKeeps ==
    ASSUME ListInv, UNCHANGED <<head, next, prev, id, alloc, contactCount>>,
           ~Inserting, op' \in {"menu", "remove", "edit", "print", "exit"},
           current' \in {NULL, head}
    PROVE  ListInv'
<1>1. Linked' = Linked /\ head \in Linked \cup {NULL}
  BY DEF Inserting, Linked, ListInv, WellLinked
<1> QED BY <1>1 DEF ListInv, Types, NewNodeInv, Inserting, WellLinked

\* One step per action of the list.
LEMMA NextKeepsList == ListInv /\ [Next]_vars => ListInv'
<1> SUFFICES ASSUME ListInv, [Next]_vars PROVE ListInv'
  OBVIOUS
<1>1. CASE AddContact
  BY <1>1, AddContactKeeps
<1>2. CASE InsertHere
  BY <1>2, InsertHereKeeps
<1>3. CASE LastLink
  BY <1>3, LastLinkKeeps
<1>4. CASE RemoveNode
  BY <1>4, RemoveNodeKeeps
<1>5. CASE InsertWalk \/ LastWalk \/ SearchWalk \/ PrintWalk
  BY <1>5, AdvanceKeeps DEF InsertWalk, LastWalk, SearchWalk, PrintWalk, Smaller, ListInv, NewNodeInv
<1>6. CASE NotFound \/ EditContact \/ PrintEnd
  BY <1>6, QuietKeeps DEF NotFound, EditContact, PrintEnd, Found, Return, nodeVars, Inserting
<1>7. CASE PrintNode \/ \E i \in Id : Command("remove", i) \/ Command("edit", i)
  BY <1>7, QuietKeeps DEF PrintNode, Command, Begin, nodeVars, Inserting
<1>8. CASE Exit
  <2>1. Linked' = Linked
    BY <1>8 DEF Exit, Linked, nodeVars
  <2> QED BY <1>8, <2>1 DEF Exit, ListInv, Types, NewNodeInv, Inserting, WellLinked, nodeVars
<1>9. CASE UNCHANGED vars
  <2>1. Linked' = Linked
    BY <1>9 DEF vars, Linked
  <2> QED BY <1>9, <2>1 DEF vars, ListInv, Types, NewNodeInv, Inserting, WellLinked
<1> QED BY <1>1, <1>2, <1>3, <1>4, <1>5, <1>6, <1>7, <1>8, <1>9 DEF Next, Loop

-----------------------------------------------------------------------------
\* After any commands the list is linked in both directions, ascending, and
\* holds every node that is not freed (linkedList.c:13-70).
THEOREM AlwaysWellLinked == Spec => []WellLinked
<1>1. ListInv => WellLinked
  BY DEF ListInv
<1> QED BY <1>1, InitList, NextKeepsList, PTL DEF Spec

\* insert always appends: its branches for the head and for the middle
\* (linkedList.c:23-27 and 36-41) are never taken, and no walk goes past NULL.
THEOREM AlwaysAppends == Spec => [](op = "insert" /\ ~Smaller => current = NULL)
BY InitList, NextKeepsList, WalksToTheEnd, PTL DEF Spec

-----------------------------------------------------------------------------
(* What the list says of the book. *)

\* A loop that is at c, or behind the last node, has left a behind.
Passed(c, a) == c = NULL \/ id[a] < id[c]

\* A search has not met the typed id yet.
Searched ==
    op \in {"remove", "edit"} =>
        arg \in Id /\ \A a \in Linked : Passed(current, a) => id[a] # arg

\* printNode has printed the nodes it has passed, each with its texts.
Listed ==
    /\ op # "print" => printed = [i \in {} |-> {}]
    /\ op = "print" =>
         /\ printed = [i \in DOMAIN printed |-> printed[i]]
         /\ DOMAIN printed = {id[a] : a \in {b \in Linked : Passed(current, b)}}
         /\ \A a \in Linked : Passed(current, a) => printed[id[a]] = text[a]

BookInv ==
    /\ text \in [Addr -> Text]
    /\ Inserting => id[newNode] = contactCount - 1
    /\ Searched
    /\ Listed

\* The book of a set of nodes with the ids f and the texts t.
BookOver(L, f, t) == [i \in {f[a] : a \in L} |-> t[CHOOSE a \in L : f[a] = i]]

Distinct(L, f) == \A a, b \in L : f[a] = f[b] => a = b

\* Each contact is found under its id.
LEMMA OverIs ==
    ASSUME NEW L, NEW f, NEW t, Distinct(L, f), NEW a \in L
    PROVE  BookOver(L, f, t)[f[a]] = t[a]
<1> DEFINE c == CHOOSE x \in L : f[x] = f[a]
<1>1. c \in L /\ f[c] = f[a]
  OBVIOUS
<1>2. c = a
  BY <1>1 DEF Distinct
<1> QED
  BY <1>2 DEF BookOver

\* A function with the ids and the texts of the nodes is their book.
LEMMA OverEqual ==
    ASSUME NEW L, NEW f, NEW t, Distinct(L, f), NEW g,
           g = [i \in DOMAIN g |-> g[i]],
           DOMAIN g = {f[a] : a \in L},
           \A a \in L : g[f[a]] = t[a]
    PROVE  g = BookOver(L, f, t)
<1> DEFINE h == BookOver(L, f, t)
<1>1. h = [i \in DOMAIN g |-> h[i]]
  BY DEF BookOver
<1>2. \A i \in DOMAIN g : g[i] = h[i]
  <2>1. \A a \in L : h[f[a]] = t[a]
    BY OverIs
  <2> HIDE DEF h
  <2> QED
    BY <2>1
<1> HIDE DEF h
<1>3. g = h
  BY <1>1, <1>2
<1> QED
  BY <1>3 DEF h

-----------------------------------------------------------------------------
(* The order of the list. *)

\* The list begins with the smallest id.
LEMMA HeadLeast ==
    ASSUME Types, WellLinked, NEW a \in Linked
    PROVE  head \in Linked /\ id[head] <= id[a]
<1>1. Linked \subseteq Addr /\ Linked # {}
  BY DEF Types, Linked
<1>2. PICK x \in Linked : \A b \in Linked : id[x] <= id[b]
  BY <1>1, LeastId DEF Types
<1>3. x # NULL /\ x \in Addr
  BY <1>1, ContactListAssumption
<1>4. prev[x] = NULL
  <2> SUFFICES ASSUME prev[x] # NULL PROVE FALSE
    OBVIOUS
  <2>1. prev[x] \in Linked /\ next[prev[x]] = x
    BY DEF WellLinked
  <2>2. id[prev[x]] < id[x] /\ id[prev[x]] \in Nat /\ id[x] \in Nat
    BY <1>1, <1>3, <2>1 DEF WellLinked, Types
  <2> QED
    BY <1>2, <2>1, <2>2
<1>5. x = head
  BY <1>4 DEF WellLinked
<1> QED
  BY <1>2, <1>5

\* a has an id between those of two neighbours, or behind the last one.
Gap(a) == \E c \in Linked : id[c] < id[a] /\ (next[c] = NULL \/ id[a] < id[next[c]])

Twin(a) == \E b \in Linked : b # a /\ id[b] = id[a]

\* The list has no gap and no id twice: the node with the smallest such id would
\* have a predecessor with a smaller one.
LEMMA NoGap ==
    ASSUME Types, WellLinked
    PROVE  \A a \in Linked : ~Gap(a) /\ ~Twin(a)
<1> DEFINE Bad == {a \in Linked : Gap(a) \/ Twin(a)}
<1> SUFFICES ASSUME Bad # {} PROVE FALSE
  OBVIOUS
<1>1. Linked \subseteq Addr /\ Bad \subseteq Addr
  BY DEF Types, Linked
<1>2. PICK a \in Bad : \A b \in Bad : id[a] <= id[b]
  <2> HIDE DEF Bad
  <2> QED
    BY <1>1, LeastId DEF Types
<1>n. \A b \in Linked : id[b] \in Nat /\ b # NULL
  BY <1>1, ContactListAssumption DEF Types
<1>3. \A b \in Linked : id[b] < id[a] => ~Gap(b) /\ ~Twin(b)
  BY <1>2, <1>n
<1>p. ASSUME NEW b \in Linked, b # head
      PROVE  prev[b] \in Linked /\ next[prev[b]] = b /\ id[prev[b]] < id[b]
  <2>1. prev[b] \in Linked /\ next[prev[b]] = b
    BY <1>p DEF WellLinked
  <2> QED
    BY <1>n, <2>1 DEF WellLinked
<1>h. \A b \in Linked : head \in Linked /\ id[head] <= id[b]
  BY HeadLeast
<1>4. CASE Gap(a)
  <2>1. PICK c \in Linked : id[c] < id[a] /\ (next[c] = NULL \/ id[a] < id[next[c]])
    BY <1>4 DEF Gap
  <2>2. a # head
    BY <1>h, <1>n, <2>1
  <2> DEFINE y == prev[a]
  <2>3. y \in Linked /\ next[y] = a /\ id[y] < id[a]
    BY <1>p, <2>2
  <2> HIDE DEF y
  <2>4. CASE id[c] < id[y]
    <3>1. next[c] = NULL \/ id[y] < id[next[c]]
      <4>1. next[c] # NULL => next[c] \in Linked
        BY DEF WellLinked
      <4> QED
        BY <1>n, <2>1, <2>3, <4>1
    <3>2. Gap(y)
      BY <2>1, <2>4, <3>1 DEF Gap
    <3> QED
      BY <1>3, <2>3, <3>2
  <2>5. CASE id[y] < id[c]
    <3>1. Gap(c)
      BY <2>1, <2>3, <2>5 DEF Gap
    <3> QED
      BY <1>3, <2>1, <3>1
  <2>6. CASE id[y] = id[c]
    <3>1. y = c
      BY <1>3, <2>1, <2>3, <2>6 DEF Twin
    <3> QED
      BY <1>n, <2>1, <2>3, <3>1
  <2> QED
    BY <1>n, <2>1, <2>3, <2>4, <2>5, <2>6
<1>5. CASE Twin(a)
  <2>1. PICK b \in Linked : b # a /\ id[b] = id[a]
    BY <1>5 DEF Twin
  <2>2. a # head /\ b # head
    <3>1. a = head => id[prev[b]] < id[head] /\ prev[b] \in Linked
      BY <1>p, <2>1
    <3>2. b = head => id[prev[a]] < id[head] /\ prev[a] \in Linked
      BY <1>p, <2>1
    <3> QED
      BY <1>h, <1>n, <3>1, <3>2
  <2> DEFINE y == prev[a]  z == prev[b]
  <2>3. /\ y \in Linked /\ next[y] = a /\ id[y] < id[a]
        /\ z \in Linked /\ next[z] = b /\ id[z] < id[a]
    BY <1>p, <2>1, <2>2
  <2> HIDE DEF y, z
  <2>4. CASE id[y] = id[z]
    <3>1. y # z
      BY <2>1, <2>3
    <3>2. Twin(y)
      BY <2>3, <2>4, <3>1 DEF Twin
    <3> QED
      BY <1>3, <2>3, <3>2
  <2>5. CASE id[y] < id[z]
    <3>1. Gap(z)
      BY <2>3, <2>5 DEF Gap
    <3> QED
      BY <1>3, <2>3, <3>1
  <2>6. CASE id[z] < id[y]
    <3>1. Gap(y)
      BY <2>1, <2>3, <2>6 DEF Gap
    <3> QED
      BY <1>3, <2>3, <3>1
  <2> QED
    BY <1>n, <2>3, <2>4, <2>5, <2>6
<1> QED
  BY <1>4, <1>5

\* A round of a loop passes one node; a loop that begins has passed none.
LEMMA PassesOne ==
    ASSUME ListInv
    PROVE  /\ Distinct(Linked, id)
           /\ \A a \in Linked : ~Passed(head, a)
           /\ \A c, a \in Linked : Passed(next[c], a) <=> Passed(c, a) \/ a = c
           /\ \A c \in Linked : ~Passed(c, c)
<1>t. Types /\ WellLinked
  BY DEF ListInv
<1>1. Distinct(Linked, id)
  BY <1>t, NoGap DEF Twin, Distinct
<1>n. \A b \in Linked : id[b] \in Nat /\ b # NULL
  <2>1. Linked \subseteq Addr
    BY <1>t DEF Types, Linked
  <2> QED
    BY <1>t, <2>1, ContactListAssumption DEF Types
<1>2. ASSUME NEW a \in Linked PROVE ~Passed(head, a)
  <2>1. head \in Linked /\ id[head] <= id[a]
    BY <1>t, HeadLeast
  <2> QED
    BY <1>n, <2>1 DEF Passed
<1>3. ASSUME NEW c \in Linked, NEW a \in Linked
      PROVE  Passed(next[c], a) <=> Passed(c, a) \/ a = c
  <2>1. next[c] # NULL => next[c] \in Linked /\ id[c] < id[next[c]]
    BY <1>t DEF WellLinked
  <2>2. id[c] < id[a] => next[c] # NULL /\ ~(id[a] < id[next[c]])
    BY <1>t, NoGap DEF Gap
  <2>3. id[a] = id[c] => a = c
    BY <1>1 DEF Distinct
  <2> QED
    BY <1>n, <2>1, <2>2, <2>3 DEF Passed
<1>4. \A c \in Linked : ~Passed(c, c)
  BY <1>n DEF Passed
<1> QED
  BY <1>1, <1>2, <1>3, <1>4

-----------------------------------------------------------------------------
(* The steps of the book. *)

\* Nodes, ids and texts of the list are left alone.
LEMMA SameBook ==
    ASSUME ListInv, Linked' = Linked,
           \A a \in Linked : id'[a] = id[a] /\ text'[a] = text[a]
    PROVE  book' = book
<1>1. Distinct(Linked, id)
  BY PassesOne
<1>2. book = BookOver(Linked, id, text) /\ book' = BookOver(Linked', id', text')
  BY DEF book, BookOver
<1>3. Distinct(Linked', id')
  BY <1>1 DEF Distinct
<1> DEFINE g == BookOver(Linked, id, text)
<1>4. g = [i \in DOMAIN g |-> g[i]]
  BY DEF BookOver
<1>5. DOMAIN g = {id[a] : a \in Linked} /\ \A a \in Linked : g[id[a]] = text[a]
  <2>1. \A a \in Linked : BookOver(Linked, id, text)[id[a]] = text[a]
    BY <1>1, OverIs
  <2>2. DOMAIN BookOver(Linked, id, text) = {id[a] : a \in Linked}
    BY DEF BookOver
  <2> QED
    BY <2>1, <2>2
<1> HIDE DEF g
<1>6. {id[a] : a \in Linked} = {id'[a] : a \in Linked'}
  OBVIOUS
<1>7. \A a \in Linked' : g[id'[a]] = text'[a]
  BY <1>5
<1>8. g = BookOver(Linked', id', text')
  BY <1>3, <1>4, <1>5, <1>6, <1>7, OverEqual
<1> QED
  BY <1>2, <1>8 DEF g

\* A node with a new id is linked: the book gets its texts.
LEMMA BookGrows ==
    ASSUME ListInv, NEW n, n \notin Linked, Linked' = Linked \cup {n},
           \A a \in Linked : id'[a] = id[a] /\ text'[a] = text[a] /\ id[a] # id'[n]
    PROVE  book' = [i \in DOMAIN book \cup {id'[n]} |-> IF i = id'[n] THEN text'[n] ELSE book[i]]
<1> DEFINE k == id'[n]
           g == [i \in DOMAIN book \cup {k} |-> IF i = k THEN text'[n] ELSE book[i]]
<1>1. Distinct(Linked, id)
  BY PassesOne
<1>2. book = BookOver(Linked, id, text) /\ book' = BookOver(Linked', id', text')
  BY DEF book, BookOver
<1>3. Distinct(Linked', id')
  BY <1>1 DEF Distinct
<1>4. DOMAIN book = {id[a] : a \in Linked} /\ \A a \in Linked : book[id[a]] = text[a]
  <2>1. \A a \in Linked : BookOver(Linked, id, text)[id[a]] = text[a]
    BY <1>1, OverIs
  <2>2. DOMAIN BookOver(Linked, id, text) = {id[a] : a \in Linked}
    BY DEF BookOver
  <2> QED
    BY <1>2, <2>1, <2>2
<1>5. g = [i \in DOMAIN g |-> g[i]] /\ DOMAIN g = DOMAIN book \cup {k}
  OBVIOUS
<1>6. DOMAIN g = {id'[a] : a \in Linked'}
  BY <1>4, <1>5
<1>7. \A a \in Linked' : g[id'[a]] = text'[a]
  <2>1. g[id'[n]] = text'[n]
    OBVIOUS
  <2>2. \A a \in Linked : id'[a] # k /\ id'[a] \in DOMAIN book /\ book[id'[a]] = text'[a]
    BY <1>4
  <2> QED
    BY <2>1, <2>2
<1> HIDE DEF g
<1>8. g = BookOver(Linked', id', text')
  BY <1>3, <1>5, <1>6, <1>7, OverEqual
<1> QED
  BY <1>2, <1>8 DEF g

\* A node is unlinked: its id is not in use any more.
LEMMA BookShrinks ==
    ASSUME ListInv, NEW n \in Linked, Linked' = Linked \ {n}, id' = id, text' = text
    PROVE  book' = [j \in DOMAIN book \ {id[n]} |-> book[j]]
<1> DEFINE g == [j \in DOMAIN book \ {id[n]} |-> book[j]]
<1>1. Distinct(Linked, id)
  BY PassesOne
<1>2. book = BookOver(Linked, id, text) /\ book' = BookOver(Linked', id', text')
  BY DEF book, BookOver
<1>3. Distinct(Linked', id')
  BY <1>1 DEF Distinct
<1>4. DOMAIN book = {id[a] : a \in Linked} /\ \A a \in Linked : book[id[a]] = text[a]
  <2>1. \A a \in Linked : BookOver(Linked, id, text)[id[a]] = text[a]
    BY <1>1, OverIs
  <2>2. DOMAIN BookOver(Linked, id, text) = {id[a] : a \in Linked}
    BY DEF BookOver
  <2> QED
    BY <1>2, <2>1, <2>2
<1>5. g = [i \in DOMAIN g |-> g[i]] /\ DOMAIN g = DOMAIN book \ {id[n]}
  OBVIOUS
<1>6. \A a \in Linked : a # n => id[a] # id[n]
  BY <1>1 DEF Distinct
<1>7. DOMAIN g = {id'[a] : a \in Linked'}
  BY <1>4, <1>5, <1>6
<1>8. \A a \in Linked' : g[id'[a]] = text'[a]
  BY <1>4, <1>6
<1> HIDE DEF g
<1>9. g = BookOver(Linked', id', text')
  BY <1>3, <1>5, <1>7, <1>8, OverEqual
<1> QED
  BY <1>2, <1>9 DEF g

\* The texts of one node are replaced.
LEMMA BookChanges ==
    ASSUME ListInv, NEW n \in Linked, NEW t, Linked' = Linked, id' = id,
           text'[n] = t, \A a \in Linked : a # n => text'[a] = text[a]
    PROVE  book' = [book EXCEPT ![id[n]] = t]
<1> DEFINE g == [book EXCEPT ![id[n]] = t]
<1>1. Distinct(Linked, id)
  BY PassesOne
<1>2. book = BookOver(Linked, id, text) /\ book' = BookOver(Linked', id', text')
  BY DEF book, BookOver
<1>3. Distinct(Linked', id')
  BY <1>1 DEF Distinct
<1>4. DOMAIN book = {id[a] : a \in Linked} /\ \A a \in Linked : book[id[a]] = text[a]
  <2>1. \A a \in Linked : BookOver(Linked, id, text)[id[a]] = text[a]
    BY <1>1, OverIs
  <2>2. DOMAIN BookOver(Linked, id, text) = {id[a] : a \in Linked}
    BY DEF BookOver
  <2> QED
    BY <1>2, <2>1, <2>2
<1>5. g = [i \in DOMAIN g |-> g[i]] /\ DOMAIN g = DOMAIN book
  OBVIOUS
<1>6. \A a \in Linked : a # n => id[a] # id[n]
  BY <1>1 DEF Distinct
<1>7. DOMAIN g = {id'[a] : a \in Linked'}
  BY <1>4, <1>5
<1>8. \A a \in Linked' : g[id'[a]] = text'[a]
  BY <1>4, <1>6
<1> HIDE DEF g
<1>9. g = BookOver(Linked', id', text')
  BY <1>3, <1>5, <1>7, <1>8, OverEqual
<1> QED
  BY <1>2, <1>9 DEF g

-----------------------------------------------------------------------------
(* Every step of the program is a step of the book, or none. *)

\* A command that was answered has left nothing behind.
LEMMA AnsweredKeeps ==
    ASSUME BookInv, NEW r, Return(r), text' \in [Addr -> Text]
    PROVE  BookInv'
  BY DEF BookInv, Return, Inserting, Searched, Listed

\* A round of insert or of a search.
LEMMA WalkKeepsBook ==
    ASSUME ListInv, BookInv, InsertWalk \/ LastWalk \/ SearchWalk
    PROVE  BookInv' /\ UNCHANGED <<book, count, reply>>
<1>1. Advance /\ printed' = printed /\ op \in {"insert", "last", "remove", "edit"}
  BY DEF InsertWalk, LastWalk, SearchWalk
<1>2. UNCHANGED <<head, next, prev, id, text, alloc, contactCount, op, newNode, arg, reply>>
      /\ current' = next[current]
  BY <1>1 DEF Advance, nodeVars
<1>3. Linked' = Linked
  BY <1>2 DEF Linked
<1>4. book' = book
  BY <1>2, <1>3, SameBook
<1>5. Searched'
  <2> SUFFICES ASSUME op \in {"remove", "edit"}
               PROVE  arg \in Id /\ \A a \in Linked : Passed(next[current], a) => id[a] # arg
    BY <1>2, <1>3 DEF Searched, Passed
  <2>1. current # NULL /\ id[current] # arg
    BY DEF InsertWalk, LastWalk, SearchWalk
  <2>2. current \in Linked
    BY <2>1 DEF ListInv, WellLinked
  <2>3. \A a \in Linked : Passed(next[current], a) <=> Passed(current, a) \/ a = current
    BY <2>2, PassesOne
  <2> QED
    BY <2>1, <2>3 DEF BookInv, Searched
<1> QED
  BY <1>1, <1>2, <1>4, <1>5 DEF BookInv, Inserting, Listed, count

\* printNode passes one more contact (linkedList.c).
LEMMA PrintWalkKeepsBook ==
    ASSUME ListInv, BookInv, PrintWalk
    PROVE  BookInv' /\ UNCHANGED <<book, count, reply>>
<1>1. /\ op = "print" /\ current # NULL
      /\ UNCHANGED <<head, next, prev, id, text, alloc, contactCount, op, newNode, arg, reply>>
      /\ current' = next[current]
      /\ printed' = [i \in DOMAIN printed \cup {id[current]} |->
                       IF i = id[current] THEN text[current] ELSE printed[i]]
  BY DEF PrintWalk, Advance, nodeVars
<1>2. Linked' = Linked
  BY <1>1 DEF Linked
<1>3. book' = book
  BY <1>1, <1>2, SameBook
<1>4. current \in Linked
  BY <1>1 DEF ListInv, WellLinked
<1>5. \A a \in Linked : Passed(next[current], a) <=> Passed(current, a) \/ a = current
  BY <1>4, PassesOne
<1>6. \A a \in Linked : a # current => id[a] # id[current]
  BY <1>4, PassesOne DEF Distinct
<1>7. /\ DOMAIN printed = {id[a] : a \in {b \in Linked : Passed(current, b)}}
      /\ \A a \in Linked : Passed(current, a) => printed[id[a]] = text[a]
  BY <1>1 DEF BookInv, Listed
<1>8. DOMAIN printed' = {id[a] : a \in {b \in Linked : Passed(next[current], b)}}
  <2>1. DOMAIN printed' = DOMAIN printed \cup {id[current]}
    BY <1>1
  <2> QED
    BY <1>4, <1>5, <1>7, <2>1
<1>9. \A a \in Linked : Passed(next[current], a) => printed'[id[a]] = text[a]
  BY <1>1, <1>4, <1>5, <1>6, <1>7
<1>10. printed' = [i \in DOMAIN printed' |-> printed'[i]]
  BY <1>1
<1>11. Listed'
  BY <1>1, <1>2, <1>8, <1>9, <1>10 DEF Listed, Passed
<1> QED
  BY <1>1, <1>3, <1>11 DEF BookInv, Inserting, Searched, count

\* A command begins, or the program ends.
LEMMA CommandKeepsBook ==
    ASSUME ListInv, BookInv,
           PrintNode \/ Exit \/ \E i \in Id : Command("remove", i) \/ Command("edit", i)
    PROVE  BookInv' /\ UNCHANGED <<book, count>> /\ (reply' = <<"none">> \/ reply' = reply)
<1>1. /\ op = "menu" /\ op' \in {"print", "remove", "edit", "exit"}
      /\ UNCHANGED <<head, next, prev, id, text, alloc, contactCount, newNode, printed>>
      /\ op' # "exit" => current' = head
      /\ op' \in {"remove", "edit"} => arg' \in Id
      /\ reply' = <<"none">> \/ reply' = reply
  BY DEF PrintNode, Exit, Command, Begin, nodeVars
<1>2. Linked' = Linked
  BY <1>1 DEF Linked
<1>3. book' = book
  BY <1>1, <1>2, SameBook
<1>4. \A a \in Linked : ~Passed(head, a)
  BY PassesOne
<1>5. Searched'
  BY <1>1, <1>2, <1>4 DEF Searched, Passed
<1>6. Listed'
  <2>1. printed' = [i \in {} |-> {}]
    BY <1>1 DEF BookInv, Listed
  <2>2. op' = "print" => \A a \in Linked' : ~Passed(current, a)'
    BY <1>1, <1>2, <1>4 DEF Passed
  <2> QED
    BY <2>1, <2>2 DEF Listed
<1> QED
  BY <1>1, <1>3, <1>5, <1>6 DEF BookInv, Inserting, count

\* addContact, which links the first contact itself and leaves the others to
\* insert.
LEMMA AddContactIsAdd ==
    ASSUME ListInv, BookInv, AddContact
    PROVE  BookInv' /\ (Book!Add \/ Book!Ask)
<1>1. PICK a \in Addr \ alloc, t \in Text :
        /\ CreateNode(a, t)
        /\ \/ head = NULL /\ head' = a /\ Return(<<"added", contactCount>>)
           \/ head # NULL /\ Begin("insert") /\ newNode' = a /\ UNCHANGED <<head, arg>>
  BY DEF AddContact
<1>2. /\ op = "menu" /\ contactCount' = contactCount + 1 /\ contactCount \in Nat
      /\ alloc \subseteq Addr /\ id \in [Addr -> Nat] /\ text \in [Addr -> Text]
      /\ Linked = alloc
  BY DEF AddContact, ListInv, Types, BookInv, Linked
<1>3. /\ alloc' = alloc \cup {a} /\ id' = [id EXCEPT ![a] = contactCount]
      /\ text' = [text EXCEPT ![a] = t]
  BY <1>1 DEF CreateNode
<1>4. /\ id'[a] = contactCount /\ text'[a] = t /\ text' \in [Addr -> Text]
      /\ \A b \in Linked : b # a /\ id'[b] = id[b] /\ text'[b] = text[b]
  BY <1>2, <1>3
<1>5. \A b \in Linked : id[b] # contactCount
  BY <1>2 DEF ListInv, NewNodeInv, Types
<1>6. count = contactCount
  BY <1>2 DEF count
<1>7. CASE head = NULL
  <2>1. Return(<<"added", contactCount>>)
    BY <1>1, <1>7
  <2>2. op' = "menu" /\ reply' = <<"added", contactCount>>
    BY <2>1 DEF Return
  <2>3. Linked' = Linked \cup {a} /\ a \notin Linked
    BY <1>2, <1>3, <2>2 DEF Linked
  <2>4. book' = [i \in DOMAIN book \cup {id'[a]} |-> IF i = id'[a] THEN text'[a] ELSE book[i]]
    BY <1>4, <1>5, <2>3, BookGrows
  <2>5. count' = count + 1
    BY <1>2, <1>6, <2>2 DEF count
  <2>6. Book!Add
    BY <1>4, <1>6, <2>2, <2>4, <2>5 DEF Book!Add
  <2> QED
    BY <1>4, <2>1, <2>6, AnsweredKeeps
<1>8. CASE head # NULL
  <2>1. op' = "insert" /\ reply' = <<"none">> /\ newNode' = a /\ printed' = printed
    BY <1>1, <1>8 DEF Begin
  <2>2. Linked' = Linked
    BY <1>2, <1>3, <2>1 DEF Linked
  <2>3. book' = book
    BY <1>4, <2>2, SameBook
  <2>4. count' = count
    BY <1>2, <1>6, <2>1 DEF count
  <2>5. id'[newNode'] = contactCount' - 1
    BY <1>2, <1>4, <2>1
  <2>6. BookInv'
    BY <1>2, <1>4, <2>1, <2>5 DEF BookInv, Inserting, Searched, Listed
  <2> QED
    BY <2>1, <2>3, <2>4, <2>6 DEF Book!Ask
<1> QED
  BY <1>7, <1>8

\* insert appends the node (linkedList.c:13-41).
LEMMA InsertIsAdd ==
    ASSUME ListInv, BookInv, InsertHere \/ LastLink
    PROVE  BookInv' /\ (Book!Add \/ Book!Ask)
<1>t. contactCount \in Nat /\ text \in [Addr -> Text] /\ alloc \subseteq Addr
  BY DEF ListInv, Types, BookInv
<1>1. CASE InsertHere
  <2>1. current = NULL
    BY <1>1, WalksToTheEnd DEF InsertHere
  <2>2. /\ op = "insert" /\ op' = "last" /\ reply' = <<"none">>
        /\ UNCHANGED <<id, text, alloc, contactCount, newNode, printed>>
    BY <1>1, <2>1 DEF InsertHere, Begin
  <2>3. Linked' = Linked
    BY <2>2 DEF Linked
  <2>4. book' = book /\ count' = count
    BY <2>2, <2>3, SameBook DEF count
  <2>5. BookInv'
    BY <2>2 DEF BookInv, Inserting, Searched, Listed
  <2> QED
    BY <2>2, <2>4, <2>5 DEF Book!Ask
<1>2. CASE LastLink
  <2>1. /\ op = "last" /\ Return(<<"added", id[newNode]>>)
        /\ UNCHANGED <<id, text, alloc, contactCount>>
    BY <1>2 DEF LastLink
  <2>2. /\ newNode \in alloc /\ id[newNode] = contactCount - 1
        /\ \A a \in Linked : id[a] < id[newNode]
    BY <2>1 DEF ListInv, NewNodeInv, BookInv, Inserting
  <2>3. op' = "menu" /\ reply' = <<"added", id[newNode]>>
    BY <2>1 DEF Return
  <2>4. newNode \notin Linked /\ Linked' = Linked \cup {newNode}
    BY <2>1, <2>2, <2>3 DEF Linked
  <2>5. \A a \in Linked : id'[a] = id[a] /\ text'[a] = text[a] /\ id[a] # id'[newNode]
    <3>1. \A a \in Linked : id[a] \in Nat
      BY <1>t DEF ListInv, Types, Linked
    <3> QED
      BY <1>t, <2>1, <2>2, <3>1
  <2>6. book' = [i \in DOMAIN book \cup {id'[newNode]} |->
                   IF i = id'[newNode] THEN text'[newNode] ELSE book[i]]
    BY <2>4, <2>5, BookGrows
  <2>7. count = id[newNode] /\ count' = count + 1
    BY <1>t, <2>1, <2>2, <2>3 DEF count
  <2>8. text[newNode] \in Text
    BY <1>t, <2>2
  <2>9. Book!Add
    BY <2>1, <2>3, <2>6, <2>7, <2>8 DEF Book!Add
  <2>10. BookInv'
    BY <1>t, <2>1, AnsweredKeeps
  <2> QED
    BY <2>9, <2>10
<1> QED
  BY <1>1, <1>2

\* An id is found exactly when it is in use, and the node that is found is the
\* one that is deleted or changed (linkedList.c:43-70).
LEMMA SearchEnds ==
    ASSUME ListInv, BookInv, NotFound \/ RemoveNode \/ EditContact
    PROVE  BookInv' /\ \E i \in Id : Book!Delete(i) \/ Book!Edit(i) \/ Book!NotFound(i)
<1>t. /\ text \in [Addr -> Text] /\ alloc \subseteq Addr
      /\ op \in {"remove", "edit"} /\ arg \in Id /\ Linked = alloc
      /\ \A a \in Linked : Passed(current, a) => id[a] # arg
  BY DEF ListInv, Types, BookInv, NotFound, RemoveNode, EditContact, Found, Searched, Linked
<1>b. DOMAIN book = {id[a] : a \in Linked}
  BY DEF book
<1>1. CASE NotFound
  <2>1. /\ current = NULL /\ Return(<<"not found", arg>>)
        /\ UNCHANGED <<id, text, alloc, contactCount>>
    BY <1>1 DEF NotFound, nodeVars
  <2>2. op' = "menu" /\ reply' = <<"not found", arg>>
    BY <2>1 DEF Return
  <2>3. Linked' = Linked
    BY <1>t, <2>1, <2>2 DEF Linked
  <2>4. book' = book /\ count' = count
    BY <1>t, <2>1, <2>2, <2>3, SameBook DEF count
  <2>5. arg \notin DOMAIN book
    BY <1>b, <1>t, <2>1 DEF Passed
  <2>6. Book!NotFound(arg)
    BY <2>2, <2>4, <2>5 DEF Book!NotFound
  <2>7. BookInv'
    BY <1>t, <2>1, AnsweredKeeps
  <2> QED
    BY <1>t, <2>6, <2>7
<1>c. ASSUME current # NULL, id[current] = arg PROVE current \in Linked /\ arg \in DOMAIN book
  <2>1. current \in Linked
    BY <1>c, <1>t DEF ListInv, WellLinked
  <2> QED
    BY <1>b, <1>c, <2>1
<1>2. CASE RemoveNode
  <2>1. /\ current # NULL /\ id[current] = arg /\ Return(<<"deleted", arg>>)
        /\ alloc' = alloc \ {current} /\ UNCHANGED <<id, text, contactCount>>
    BY <1>2 DEF RemoveNode, Found
  <2>2. op' = "menu" /\ reply' = <<"deleted", arg>>
    BY <2>1 DEF Return
  <2>3. Linked' = Linked \ {current}
    BY <1>t, <2>1, <2>2 DEF Linked
  <2>4. current \in Linked /\ arg \in DOMAIN book
    BY <1>c, <2>1
  <2>5. book' = [j \in DOMAIN book \ {id[current]} |-> book[j]]
    BY <2>1, <2>3, <2>4, BookShrinks
  <2>6. count' = count
    BY <1>t, <2>1, <2>2 DEF count
  <2>7. Book!Delete(arg)
    BY <2>1, <2>2, <2>4, <2>5, <2>6 DEF Book!Delete
  <2>8. BookInv'
    BY <1>t, <2>1, AnsweredKeeps
  <2> QED
    BY <1>t, <2>7, <2>8
<1>3. CASE EditContact
  <2>1. PICK t \in Text : text' = [text EXCEPT ![current] = t]
    BY <1>3 DEF EditContact
  <2>2. /\ current # NULL /\ id[current] = arg /\ Return(<<"updated", arg>>)
        /\ UNCHANGED <<id, alloc, contactCount>>
    BY <1>3 DEF EditContact, Found
  <2>3. op' = "menu" /\ reply' = <<"updated", arg>>
    BY <2>2 DEF Return
  <2>4. Linked' = Linked
    BY <1>t, <2>2, <2>3 DEF Linked
  <2>5. current \in Linked /\ arg \in DOMAIN book
    BY <1>c, <2>2
  <2>6. /\ text' \in [Addr -> Text] /\ text'[current] = t
        /\ \A a \in Linked : a # current => text'[a] = text[a]
    BY <1>t, <2>1, <2>5
  <2>7. book' = [book EXCEPT ![id[current]] = t]
    BY <2>2, <2>4, <2>5, <2>6, BookChanges
  <2>8. count' = count
    BY <1>t, <2>2, <2>3 DEF count
  <2>9. Book!Edit(arg)
    BY <2>2, <2>3, <2>5, <2>7, <2>8 DEF Book!Edit
  <2>10. BookInv'
    BY <2>2, <2>6, AnsweredKeeps
  <2> QED
    BY <1>t, <2>9, <2>10
<1> QED
  BY <1>1, <1>2, <1>3

\* A listing that is done has every contact of the book (linkedList.c).
LEMMA PrintEndIsList ==
    ASSUME ListInv, BookInv, PrintEnd
    PROVE  BookInv' /\ Book!List
<1>1. /\ op = "print" /\ current = NULL /\ Return(<<"listed", printed>>)
      /\ UNCHANGED <<id, text, alloc, contactCount>>
  BY DEF PrintEnd, nodeVars
<1>2. op' = "menu" /\ reply' = <<"listed", printed>>
  BY <1>1 DEF Return
<1>3. Linked' = Linked
  BY <1>1, <1>2 DEF Linked
<1>4. book' = book /\ count' = count
  BY <1>1, <1>2, <1>3, SameBook DEF count
<1>5. /\ printed = [i \in DOMAIN printed |-> printed[i]]
      /\ DOMAIN printed = {id[a] : a \in Linked}
      /\ \A a \in Linked : printed[id[a]] = text[a]
  BY <1>1 DEF BookInv, Listed, Passed
<1>6. Distinct(Linked, id)
  BY PassesOne
<1>7. printed = BookOver(Linked, id, text)
  BY <1>5, <1>6, OverEqual
<1>8. printed = book
  BY <1>7 DEF book, BookOver
<1>9. BookInv'
  <2>1. text' \in [Addr -> Text]
    BY <1>1 DEF BookInv
  <2> QED
    BY <1>1, <2>1, AnsweredKeeps
<1> QED
  BY <1>2, <1>4, <1>8, <1>9 DEF Book!List

\* Whatever the commands, the nodes and the addresses malloc gives: the program
\* does what ContactBook promises.  Ids are found exactly when they are in use,
\* and a listing shows every contact once with its newest texts
\* (linkedList.c:13-70, contactList.c).
THEOREM ListImplementsBook == Spec => ImplementsBook
<1>1. Init => BookInv /\ Book!Init
  <2> SUFFICES ASSUME Init PROVE BookInv /\ Book!Init
    OBVIOUS
  <2>1. BookInv
    BY ContactListAssumption DEF Init, BookInv, Inserting, Searched, Listed
  <2>2. Linked = {}
    BY DEF Init, Linked
  <2>3. book = [i \in {} |-> {}]
    BY <2>2 DEF book
  <2>4. count = 0 /\ reply = <<"none">>
    <3>1. reply = <<"none">>
      BY DEF Init
    <3>2. contactCount = 0 /\ op = "menu"
      BY DEF Init
    <3>3. count = contactCount - 0
      BY <3>2 DEF count
    <3> QED
      BY <3>1, <3>2, <3>3
  <2> QED
    BY <2>1, <2>3, <2>4 DEF Book!Init
<1>2. ListInv /\ BookInv /\ [Next]_vars => BookInv' /\ [Book!Next]_(Book!bookVars)
  <2> SUFFICES ASSUME ListInv, BookInv, [Next]_vars
               PROVE  BookInv' /\ [Book!Next]_(Book!bookVars)
    OBVIOUS
  <2>1. CASE AddContact
    BY <2>1, AddContactIsAdd DEF Book!Next
  <2>2. CASE InsertHere \/ LastLink
    BY <2>2, InsertIsAdd DEF Book!Next
  <2>3. CASE InsertWalk \/ LastWalk \/ SearchWalk
    BY <2>3, WalkKeepsBook DEF Book!bookVars
  <2>4. CASE PrintWalk
    BY <2>4, PrintWalkKeepsBook DEF Book!bookVars
  <2>5. CASE NotFound \/ RemoveNode \/ EditContact
    BY <2>5, SearchEnds DEF Book!Next
  <2>6. CASE PrintEnd
    BY <2>6, PrintEndIsList DEF Book!Next
  <2>7. CASE PrintNode \/ Exit \/ \E i \in Id : Command("remove", i) \/ Command("edit", i)
    <3>1. BookInv' /\ UNCHANGED <<book, count>> /\ (reply' = <<"none">> \/ reply' = reply)
      BY <2>7, CommandKeepsBook
    <3> QED
      BY <3>1 DEF Book!Next, Book!Ask, Book!bookVars
  <2>8. CASE UNCHANGED vars
    <3>1. Linked' = Linked /\ UNCHANGED <<id, text, contactCount, op, reply>>
      BY <2>8 DEF vars, Linked
    <3>2. book' = book /\ count' = count
      BY <3>1, SameBook DEF count
    <3>3. BookInv'
      BY <2>8, <3>1 DEF vars, BookInv, Inserting, Searched, Listed, Passed
    <3> QED
      BY <3>1, <3>2, <3>3 DEF Book!bookVars
  <2> QED
    BY <2>1, <2>2, <2>3, <2>4, <2>5, <2>6, <2>7, <2>8 DEF Next, Loop
<1> QED
  BY <1>1, <1>2, InitList, NextKeepsList, PTL DEF Spec, ImplementsBook, Book!Spec

-----------------------------------------------------------------------------
(***************************************************************************)
(* SelectServer: any number of clients that come, send and leave without   *)
(* end, any backlog and any limit on descriptors.                          *)
(***************************************************************************)
PeerState == {"off", "open", "closed", "doomed", "broken", "reset"}

SelectType ==
    /\ server \in {"select", "scan", "prompt", "down", "undefined"}
    /\ nofile \in Nat /\ sockfd < nofile
    /\ max_fd \in Int
    /\ fds \subseteq Fd \cup {sockfd} /\ read_fds \subseteq Fd \cup {sockfd}
    /\ conn \in [Fd -> Client \cup {None}]
    /\ backlog \in Seq(Client)
    /\ peer \in [Client -> PeerState]
    /\ inbuf \in [Client -> Seq({"line", "odd"})]
    /\ rude \subseteq Client

\* A connection is in one place: in the backlog or at one descriptor.
OnePlace ==
    /\ \A i \in Fd : conn[i] # None => peer[conn[i]] # "off"
    /\ \A i, j \in Fd : conn[i] = conn[j] /\ conn[i] # None => i = j
    /\ \A k \in 1 .. Len(backlog) :
         peer[backlog[k]] # "off" /\ \A i \in Fd : conn[i] # backlog[k]
    /\ \A k, l \in 1 .. Len(backlog) : backlog[k] = backlog[l] => k = l

\* A client that is not rude is not reset, all it sends can be calculated, and
\* while it is to be written to it is still there.
PoliteClient(c) ==
    /\ peer[c] # "reset" /\ inbuf[c] \in Seq({"line"})
    /\ inbuf[c] # <<>> => peer[c] = "open"
    /\ \A k \in 1 .. Len(backlog) : backlog[k] = c => peer[c] = "open"
    /\ server = "prompt" /\ conn[cur] = c => peer[c] = "open"

Polite == \A c \in Client : c \notin rude => PoliteClient(c)

SelectInv == SelectType /\ WatchesAll /\ OnePlace /\ NeverBlocks /\ Polite

\* The listening socket is below every descriptor of a client.
LEMMA FdFacts ==
    /\ \A i \in Fd : i \in Int /\ i > sockfd
    /\ sockfd \in Int /\ sockfd \notin Fd /\ None \notin Client
    /\ FD_SETSIZE \in Nat /\ sockfd < FD_SETSIZE
<1>1. Cardinality(Client) \in Nat
  BY SelectServerAssumption, FS_CardinalityType
<1> QED
  BY <1>1, SelectServerAssumption DEF Fd, sockfd, None

\* Places in a longer backlog.
LEMMA Appended ==
    ASSUME NEW S, NEW s \in Seq(S), NEW x \in S
    PROVE  /\ Len(s) \in Nat /\ Len(Append(s, x)) = Len(s) + 1
           /\ Append(s, x)[Len(s) + 1] = x /\ Append(s, x) # <<>>
           /\ \A k \in 1 .. Len(s) : Append(s, x)[k] = s[k] /\ s[k] \in S
           /\ \A k \in 1 .. Len(Append(s, x)) : k = Len(s) + 1 \/ k \in 1 .. Len(s)
<1>1. Len(s) \in Nat /\ Len(Append(s, x)) = Len(s) + 1
  OBVIOUS
<1>2. Append(s, x)[Len(s) + 1] = x
  OBVIOUS
<1>3. \A k \in 1 .. Len(s) : Append(s, x)[k] = s[k] /\ s[k] \in S
  OBVIOUS
<1>4. Append(s, x) # <<>>
  BY <1>1
<1>5. \A k \in 1 .. Len(Append(s, x)) : k = Len(s) + 1 \/ k \in 1 .. Len(s)
  BY <1>1
<1> QED
  BY <1>1, <1>2, <1>3, <1>4, <1>5

\* The server starts with its listening socket watched.
LEMMA SelectStarts == SelectInit => SelectInv
<1> SUFFICES ASSUME SelectInit PROVE SelectInv
  OBVIOUS
<1>1. SelectType
  BY SelectServerAssumption DEF SelectInit, SelectType, PeerState, sockfd
<1>2. WatchesAll /\ NeverBlocks
  <2>1. fds = {sockfd} /\ max_fd = sockfd /\ server = "select" /\ sockfd \in Int
    BY DEF SelectInit, sockfd
  <2>2. \A i \in Fd : conn[i] = None
    BY DEF SelectInit
  <2>3. {i \in Fd : conn[i] # None} = {}
    BY <2>2
  <2>4. sockfd < nofile /\ nofile \in Nat
    BY <1>1 DEF SelectType
  <2>5. \A i \in fds : i <= max_fd /\ Usable(i)
    BY <2>1, <2>4, FdFacts DEF Usable
  <2> QED
    BY <2>1, <2>3, <2>5 DEF WatchesAll, NeverBlocks
<1>3. OnePlace
  BY DEF SelectInit, OnePlace
<1>4. Polite
  BY DEF SelectInit, Polite, PoliteClient
<1> QED
  BY <1>1, <1>2, <1>3, <1>4 DEF SelectInv

\* The server ends: nothing is connected any more.
LEMMA CloseAllKeeps == SelectInv /\ CloseAll => SelectInv'
<1> SUFFICES ASSUME SelectInv, CloseAll PROVE SelectInv'
  OBVIOUS
<1> USE DEF SelectInv, CloseAll
<1>1. SelectType'
  BY DEF SelectType
<1>2. WatchesAll' /\ NeverBlocks'
  BY DEF WatchesAll, NeverBlocks, Ended
<1>3. OnePlace'
  BY DEF OnePlace
<1>4. Polite'
  BY DEF Polite, PoliteClient
<1> QED
  BY <1>1, <1>2, <1>3, <1>4

\* Nothing is claimed of the descriptors once the server wrote behind fds.
LEMMA BeyondKeeps == SelectInv /\ AcceptBeyond => SelectInv'
<1> SUFFICES ASSUME SelectInv, AcceptBeyond PROVE SelectInv'
  OBVIOUS
<1> USE DEF SelectInv
<1>1. /\ server' = "undefined"
      /\ UNCHANGED <<nofile, fds, max_fd, read_fds, cur, conn, backlog, peer, inbuf, rude>>
  BY DEF AcceptBeyond, setVars, netVars, envVars
<1>2. SelectType'
  BY <1>1 DEF SelectType
<1>3. WatchesAll' /\ NeverBlocks'
  BY <1>1 DEF WatchesAll, NeverBlocks, Ended
<1>4. OnePlace'
  BY <1>1 DEF OnePlace
<1>5. Polite'
  BY <1>1 DEF Polite, PoliteClient
<1> QED
  BY <1>2, <1>3, <1>4, <1>5

\* A connection request: the client was nowhere before.
LEMMA ConnectKeeps == ASSUME SelectInv, NEW c \in Client, Connect(c) PROVE SelectInv'
<1> USE DEF SelectInv
<1>1. SelectType'
  BY DEF Connect, SelectType, PeerState, setVars, envVars
<1>2. WatchesAll'
  BY DEF Connect, WatchesAll, Ended, Usable, setVars, envVars
<1>3. /\ peer[c] = "off" /\ peer' = [peer EXCEPT ![c] = "open"]
      /\ UNCHANGED <<conn, server, cur, inbuf, rude>>
      /\ \A i \in Fd : conn[i] # c
      /\ \A k \in 1 .. Len(backlog) : backlog[k] # c
  BY FdFacts DEF Connect, OnePlace, SelectType, setVars
<1>4. /\ Len(backlog) \in Nat /\ Len(backlog') = Len(backlog) + 1
      /\ backlog'[Len(backlog) + 1] = c /\ backlog' # <<>>
      /\ \A k \in 1 .. Len(backlog) : backlog'[k] = backlog[k] /\ backlog[k] \in Client
      /\ \A k \in 1 .. Len(backlog') : k = Len(backlog) + 1 \/ k \in 1 .. Len(backlog)
  <2>1. backlog \in Seq(Client) /\ backlog' = Append(backlog, c)
    BY DEF Connect, SelectType
  <2> QED
    BY <2>1, Appended
<1>6. OnePlace'
  <2>1. \A i \in Fd : conn'[i] # None => peer'[conn'[i]] # "off"
    BY <1>3 DEF OnePlace, SelectType
  <2>2. \A i, j \in Fd : conn'[i] = conn'[j] /\ conn'[i] # None => i = j
    BY <1>3 DEF OnePlace
  <2>3. \A k \in 1 .. Len(backlog') :
          peer'[backlog'[k]] # "off" /\ \A i \in Fd : conn'[i] # backlog'[k]
    <3> TAKE k \in 1 .. Len(backlog')
    <3>1. CASE k = Len(backlog) + 1
      BY <1>3, <1>4, <3>1 DEF SelectType
    <3>2. CASE k \in 1 .. Len(backlog)
      <4>1. backlog'[k] = backlog[k] /\ backlog[k] \in Client /\ backlog[k] # c
        BY <1>3, <1>4, <3>2
      <4>2. peer[backlog[k]] # "off" /\ \A i \in Fd : conn[i] # backlog[k]
        BY <3>2 DEF OnePlace
      <4>3. peer'[backlog[k]] = peer[backlog[k]]
        BY <1>3, <4>1 DEF SelectType
      <4> QED
        BY <1>3, <4>1, <4>2, <4>3
    <3> QED
      BY <1>4, <3>1, <3>2
  <2>4. \A k, l \in 1 .. Len(backlog') : backlog'[k] = backlog'[l] => k = l
    BY <1>3, <1>4 DEF OnePlace
  <2> QED
    BY <2>1, <2>2, <2>3, <2>4 DEF OnePlace
<1>7. NeverBlocks'
  <2>1. \A i \in Fd : HasInput(i) => HasInput(i)'
    BY <1>3, FdFacts DEF HasInput, SelectType
  <2>2. HasInput(sockfd)'
    BY <1>4 DEF HasInput
  <2>3. read_fds' = read_fds /\ server' = server /\ cur' = cur /\ conn' = conn
    BY DEF Connect, setVars
  <2> QED
    BY <2>1, <2>2, <2>3 DEF NeverBlocks, SelectType
<1>8. Polite'
  <2> SUFFICES ASSUME NEW d \in Client, d \notin rude PROVE PoliteClient(d)'
    BY <1>3 DEF Polite
  <2>1. PoliteClient(d)
    BY DEF Polite
  <2>2. peer'[d] = IF d = c THEN "open" ELSE peer[d]
    BY <1>3 DEF SelectType
  <2>3. \A k \in 1 .. Len(backlog') : backlog'[k] = d => peer'[d] = "open"
    <3> TAKE k \in 1 .. Len(backlog')
    <3>1. CASE k = Len(backlog) + 1
      BY <1>4, <2>2, <3>1
    <3>2. CASE k \in 1 .. Len(backlog)
      BY <1>4, <2>1, <2>2, <3>2 DEF PoliteClient
    <3> QED
      BY <1>4, <3>1, <3>2
  <2> QED
    BY <1>3, <2>1, <2>2, <2>3 DEF PoliteClient
<1> QED
  BY <1>1, <1>2, <1>6, <1>7, <1>8

\* A client that sends or leaves, or whose RST arrives, makes no descriptor of
\* the copy unreadable.
LEMMA ClientKeeps ==
    ASSUME SelectInv, SelectType', UNCHANGED <<server, setVars, read_fds, cur, backlog, nofile>>,
           \A c \in Client : peer'[c] = "off" => peer[c] = "off",
           \A c \in Client : peer[c] # "open" => peer'[c] # "open",
           \A c \in Client : inbuf[c] # <<>> => inbuf'[c] # <<>>
    PROVE  WatchesAll' /\ OnePlace' /\ NeverBlocks'
<1> USE DEF SelectInv
<1>1. UNCHANGED <<fds, max_fd, conn>>
  BY DEF setVars
<1>2. WatchesAll'
  BY <1>1 DEF WatchesAll, Ended, Usable
<1>3. OnePlace'
  <2>1. \A k \in 1 .. Len(backlog) : backlog[k] \in Client
    BY DEF SelectType
  <2>2. \A i \in Fd : conn[i] # None => conn[i] \in Client
    BY DEF SelectType
  <2> QED
    BY <1>1, <2>1, <2>2 DEF OnePlace
<1>4. \A i \in Fd \cup {sockfd} : HasInput(i) => HasInput(i)'
  BY <1>1, FdFacts DEF HasInput, SelectType
<1>5. NeverBlocks'
  BY <1>1, <1>4 DEF NeverBlocks, SelectType
<1> QED
  BY <1>2, <1>3, <1>5

\* A line makes a descriptor readable; it is watched already.
LEMMA SendLineKeeps == ASSUME SelectInv, NEW c \in Client, SendLine(c) PROVE SelectInv'
<1> USE DEF SelectInv
<1>1. PICK line \in {"line", "odd"} :
        /\ inbuf' = [inbuf EXCEPT ![c] = Append(inbuf[c], line)]
        /\ rude' = IF line = "odd" THEN rude \cup {c} ELSE rude
  BY DEF SendLine
<1>2. /\ peer[c] = "open"
      /\ UNCHANGED <<server, nofile, fds, max_fd, conn, read_fds, cur, backlog, peer>>
  BY DEF SendLine, setVars, envVars
<1>3. Append(inbuf[c], line) \in Seq({"line", "odd"}) /\ Append(inbuf[c], line) # <<>>
  <2>1. inbuf[c] \in Seq({"line", "odd"})
    BY DEF SelectType
  <2> QED
    BY <2>1, AppendProperties
<1>4. SelectType'
  BY <1>1, <1>2, <1>3 DEF SelectType
<1>5. WatchesAll' /\ OnePlace' /\ NeverBlocks'
  <2>1. \A d \in Client : inbuf[d] # <<>> => inbuf'[d] # <<>>
    BY <1>1, <1>3 DEF SelectType
  <2> QED
    BY <1>2, <1>4, <2>1, ClientKeeps DEF setVars
<1>6. Polite'
  <2> SUFFICES ASSUME NEW d \in Client, d \notin rude' PROVE PoliteClient(d)'
    BY DEF Polite
  <2>1. d \notin rude /\ PoliteClient(d) /\ (d = c => line = "line")
    BY <1>1 DEF Polite
  <2>2. CASE d = c
    <3>1. Append(inbuf[c], line) \in Seq({"line"})
      BY <2>1, <2>2 DEF PoliteClient
    <3>2. inbuf'[d] \in Seq({"line"})
      BY <1>1, <2>2, <3>1 DEF SelectType
    <3> QED
      BY <1>2, <2>1, <2>2, <3>2 DEF PoliteClient
  <2>3. CASE d # c
    <3>1. inbuf'[d] = inbuf[d]
      BY <1>1, <2>3 DEF SelectType
    <3> QED
      BY <1>2, <2>1, <3>1 DEF PoliteClient
  <2> QED
    BY <2>2, <2>3
<1> QED
  BY <1>4, <1>5, <1>6

\* Whoever leaves and is not rude has been answered and prompted: it is not in
\* the backlog, has nothing unread and is not the one the server sleeps for.
LEMMA LeaveKeeps == ASSUME SelectInv, NEW c \in Client, Leave(c) PROVE SelectInv'
<1> USE DEF SelectInv
<1>1. PICK state \in {"closed", "reset"} : peer' = [peer EXCEPT ![c] = state]
  BY DEF Leave
<1>2. /\ peer[c] = "open"
      /\ UNCHANGED <<server, nofile, fds, max_fd, conn, read_fds, cur, backlog, inbuf>>
      /\ rude \subseteq rude' /\ rude' \subseteq Client
  BY DEF Leave, setVars, envVars, SelectType
<1>3. SelectType'
  BY <1>1, <1>2 DEF SelectType, PeerState
<1>4. WatchesAll' /\ OnePlace' /\ NeverBlocks'
  <2>1. /\ \A d \in Client : peer'[d] = "off" => peer[d] = "off"
        /\ \A d \in Client : peer[d] # "open" => peer'[d] # "open"
    BY <1>1, <1>2 DEF SelectType
  <2> QED
    BY <1>2, <1>3, <2>1, ClientKeeps DEF setVars
<1>5. Polite'
  <2> SUFFICES ASSUME NEW d \in Client, d \notin rude' PROVE PoliteClient(d)'
    BY DEF Polite
  <2>1. d \notin rude /\ PoliteClient(d)
    BY <1>2 DEF Polite
  <2>2. CASE d # c
    <3>1. peer'[d] = peer[d]
      BY <1>1, <2>2 DEF SelectType
    <3> QED
      BY <1>2, <2>1, <3>1 DEF PoliteClient
  <2>3. CASE d = c
    <3>1. Idle(c) /\ peer' = [peer EXCEPT ![c] = "closed"]
      BY <2>3 DEF Leave
    <3>2. PICK i \in Fd : conn[i] = c /\ ~(server = "prompt" /\ cur = i)
      BY <3>1 DEF Idle
    <3>3. inbuf[c] = <<>>
      BY <3>1 DEF Idle
    <3>4. \A k \in 1 .. Len(backlog) : backlog[k] # c
      BY <3>2 DEF OnePlace
    <3>5. server = "prompt" => conn[cur] # c
      BY <3>2, FdFacts DEF OnePlace, NeverBlocks
    <3>6. peer'[c] = "closed"
      BY <3>1 DEF SelectType
    <3> QED
      BY <1>2, <2>1, <2>3, <3>3, <3>4, <3>5, <3>6 DEF PoliteClient
  <2> QED
    BY <2>2, <2>3
<1> QED
  BY <1>3, <1>4, <1>5

\* The reset that follows a write to a client that has gone.
LEMMA RstArrivesKeeps == ASSUME SelectInv, NEW c \in Client, RstArrives(c) PROVE SelectInv'
<1> USE DEF SelectInv
<1>1. /\ peer[c] = "doomed" /\ peer' = [peer EXCEPT ![c] = "broken"]
      /\ UNCHANGED <<server, nofile, fds, max_fd, conn, read_fds, cur, backlog, inbuf, rude>>
  BY DEF RstArrives, setVars, netVars, envVars
<1>2. SelectType'
  BY <1>1 DEF SelectType, PeerState
<1>3. /\ \A d \in Client : peer'[d] = "off" => peer[d] = "off"
      /\ \A d \in Client : peer[d] # "open" => peer'[d] # "open"
      /\ \A d \in Client : peer[d] = "open" => peer'[d] = "open"
      /\ \A d \in Client : peer'[d] = "reset" => peer[d] = "reset"
  BY <1>1 DEF SelectType
<1>4. WatchesAll' /\ OnePlace' /\ NeverBlocks'
  BY <1>1, <1>2, <1>3, ClientKeeps DEF setVars
<1>5. Polite'
  BY <1>1, <1>3 DEF Polite, PoliteClient
<1> QED
  BY <1>2, <1>4, <1>5

\* select finds readable descriptors only.
LEMMA SelectKeeps == SelectInv /\ Select => SelectInv'
<1> SUFFICES ASSUME SelectInv, Select PROVE SelectInv'
  OBVIOUS
<1> USE DEF SelectInv
<1>1. /\ server = "select" /\ server' = "scan" /\ read_fds' = Ready
      /\ UNCHANGED <<nofile, fds, max_fd, conn, cur, peer, backlog, inbuf, rude>>
  BY DEF Select, setVars, netVars, envVars
<1>2. SelectType'
  BY <1>1 DEF SelectType, Ready
<1>3. WatchesAll' /\ OnePlace' /\ Polite'
  BY <1>1 DEF WatchesAll, Ended, Usable, OnePlace, Polite, PoliteClient
<1>4. \A i \in Ready : HasInput(i)'
  BY <1>1 DEF Ready, HasInput
<1>5. NeverBlocks'
  BY <1>1, <1>4 DEF NeverBlocks
<1> QED
  BY <1>2, <1>3, <1>5

\* What a write does to the client's end.
LEMMA WrittenIs ==
    ASSUME SelectType, NEW c \in Client, peer' = Written(c)
    PROVE  /\ peer' \in [Client -> PeerState]
           /\ \A d \in Client : peer'[d] = "off" <=> peer[d] = "off"
           /\ \A d \in Client : peer'[d] = "open" <=> peer[d] = "open"
           /\ \A d \in Client : peer'[d] = "reset" <=> peer[d] = "reset"
BY DEF SelectType, Written, PeerState

\* A client leaves the backlog for a descriptor that is added to the set at
\* once.
LEMMA AcceptKeeps == SelectInv /\ Accept => SelectInv'
<1> SUFFICES ASSUME SelectInv, Accept PROVE SelectInv'
  OBVIOUS
<1> USE DEF SelectInv
<1>1. PICK fd \in Fd : /\ conn[fd] = None /\ Usable(fd)
                       /\ conn' = [conn EXCEPT ![fd] = Head(backlog)]
                       /\ fds' = fds \cup {fd}
                       /\ max_fd' = IF fd > max_fd THEN fd ELSE max_fd
  BY DEF Accept, Lowest, FdSet, MaxFd
<1>2. /\ server = "scan" /\ server' \in {"select", "scan"}
      /\ peer' = Written(Head(backlog)) /\ read_fds' = read_fds \ {sockfd}
      /\ backlog # <<>> /\ backlog' = Tail(backlog)
      /\ UNCHANGED <<cur, inbuf, rude, nofile>>
  BY DEF Accept, Incoming, At, Rest, AfterScan, envVars
<1>3. /\ Head(backlog) \in Client /\ Head(backlog) = backlog[1] /\ backlog' \in Seq(Client)
      /\ Len(backlog) \in Nat \ {0} /\ Len(backlog') = Len(backlog) - 1
      /\ \A k \in 1 .. Len(backlog') : backlog'[k] = backlog[k + 1] /\ k + 1 \in 1 .. Len(backlog)
      /\ \A k \in 1 .. Len(backlog) : backlog[k] \in Client
  BY <1>2 DEF SelectType
<1> DEFINE c == Head(backlog)
<1>4. c \in Client /\ c # None /\ c = backlog[1] /\ 1 \in 1 .. Len(backlog)
  BY <1>3, FdFacts
<1>5. /\ peer' \in [Client -> PeerState]
      /\ \A d \in Client : peer'[d] = "off" <=> peer[d] = "off"
      /\ \A d \in Client : peer'[d] = "open" <=> peer[d] = "open"
      /\ \A d \in Client : peer'[d] = "reset" <=> peer[d] = "reset"
  BY <1>2, <1>4, WrittenIs
<1>6. conn'[fd] = c /\ \A i \in Fd : i # fd => conn'[i] = conn[i]
  BY <1>1 DEF SelectType
<1>7. \A i \in Fd : conn[i] # None => conn[i] \in Client
  BY DEF SelectType
<1> HIDE DEF c
<1>8. SelectType'
  <2>1. conn' \in [Fd -> Client \cup {None}]
    BY <1>1, <1>4 DEF SelectType, c
  <2>2. max_fd' \in Int
    BY <1>1, FdFacts DEF SelectType
  <2> QED
    BY <1>1, <1>2, <1>3, <1>5, <2>1, <2>2 DEF SelectType
<1>9. WatchesAll'
  <2>1. fds' = {sockfd} \cup {i \in Fd : conn'[i] # None}
    BY <1>1, <1>2, <1>4, <1>6 DEF WatchesAll, Ended
  <2>2. \A i \in fds' : i <= max_fd' /\ Usable(i)'
    <3>1. fd \in Int /\ max_fd \in Int
      BY FdFacts DEF SelectType
    <3>2. \A i \in fds : i \in Int /\ i <= max_fd /\ Usable(i)
      BY <1>2, FdFacts DEF WatchesAll, Ended, SelectType
    <3>3. \A i \in fds' : Usable(i)
      BY <1>1, <3>2
    <3> QED
      BY <1>1, <1>2, <3>1, <3>2, <3>3 DEF Usable
  <2> QED
    BY <2>1, <2>2 DEF WatchesAll
<1>10. OnePlace'
  <2>1. peer[c] # "off" /\ \A i \in Fd : conn[i] # c
    BY <1>4 DEF OnePlace
  <2>2. \A i \in Fd : conn'[i] # None => peer'[conn'[i]] # "off"
    BY <1>4, <1>5, <1>6, <1>7, <2>1 DEF OnePlace
  <2>3. \A i, j \in Fd : conn'[i] = conn'[j] /\ conn'[i] # None => i = j
    BY <1>6, <2>1 DEF OnePlace
  <2>4. \A k \in 1 .. Len(backlog) : k # 1 => backlog[k] # c
    BY <1>4 DEF OnePlace
  <2>5. \A k \in 1 .. Len(backlog') :
          peer'[backlog'[k]] # "off" /\ \A i \in Fd : conn'[i] # backlog'[k]
    <3> TAKE k \in 1 .. Len(backlog')
    <3>1. backlog'[k] = backlog[k + 1] /\ k + 1 \in 1 .. Len(backlog) /\ k + 1 # 1
      BY <1>3
    <3>2. /\ backlog[k + 1] # c /\ backlog[k + 1] \in Client /\ peer[backlog[k + 1]] # "off"
          /\ \A i \in Fd : conn[i] # backlog[k + 1]
      BY <1>3, <2>4, <3>1 DEF OnePlace
    <3> QED
      BY <1>5, <1>6, <3>1, <3>2
  <2>6. ASSUME NEW k \in 1 .. Len(backlog'), NEW l \in 1 .. Len(backlog'), backlog'[k] = backlog'[l]
        PROVE  k = l
    <3>1. k + 1 = l + 1
      BY <1>3, <2>6 DEF OnePlace
    <3> QED
      BY <3>1
  <2> QED
    BY <2>2, <2>3, <2>5, <2>6 DEF OnePlace
<1>11. NeverBlocks'
  <2>1. \A i \in Fd : HasInput(i) => i # fd /\ HasInput(i)'
    BY <1>1, <1>2, <1>5, <1>6, <1>7, FdFacts DEF HasInput
  <2> QED
    BY <1>2, <2>1 DEF NeverBlocks, SelectType
<1>12. Polite'
  <2> SUFFICES ASSUME NEW d \in Client, d \notin rude PROVE PoliteClient(d)'
    BY <1>2 DEF Polite
  <2>1. PoliteClient(d)
    BY DEF Polite
  <2>2. ASSUME NEW k \in 1 .. Len(backlog'), backlog'[k] = d PROVE peer'[d] = "open"
    <3>1. backlog[k + 1] = d /\ k + 1 \in 1 .. Len(backlog)
      BY <1>3, <2>2
    <3>2. peer[d] = "open"
      BY <2>1, <3>1 DEF PoliteClient
    <3> QED
      BY <1>5, <3>2
  <2> QED
    BY <1>2, <1>5, <2>1, <2>2 DEF PoliteClient
<1> QED
  BY <1>8, <1>9, <1>10, <1>11, <1>12

\* A closed descriptor leaves the set and the rest of the copy; its client was
\* at no other, and not in the backlog.
LEMMA ReadEofKeeps == ASSUME SelectInv, NEW i \in Fd, ReadEof(i) PROVE SelectInv'
<1> USE DEF SelectInv
<1> DEFINE c == conn[i]
<1>1. /\ server = "scan" /\ server' \in {"select", "scan"} /\ i # sockfd
      /\ c # None /\ inbuf[c] = <<>>
      /\ fds' = fds \ {i} /\ conn' = [conn EXCEPT ![i] = None] /\ read_fds' = read_fds \ {i}
      /\ peer' = [peer EXCEPT ![c] = "off"] /\ rude' = rude \ {c}
      /\ UNCHANGED <<max_fd, cur, backlog, inbuf, nofile>>
  BY DEF ReadEof, At, Rest, AfterScan, envVars
<1>2. conn'[i] = None /\ \A j \in Fd : j # i => conn'[j] = conn[j]
  BY <1>1 DEF SelectType
<1>3. SelectType'
  BY <1>1 DEF SelectType, PeerState
<1>4. WatchesAll'
  BY <1>1, <1>2 DEF WatchesAll, Ended, Usable
<1>5. /\ c \in Client
      /\ \A j \in Fd : conn[j] # None => conn[j] \in Client
      /\ \A k \in 1 .. Len(backlog) : backlog[k] \in Client /\ backlog[k] # c
      /\ \A j \in Fd : j # i => conn[j] # c
  BY <1>1 DEF OnePlace, SelectType
<1>6. peer'[c] = "off" /\ \A d \in Client : d # c => peer'[d] = peer[d]
  BY <1>1, <1>5 DEF SelectType
<1> HIDE DEF c
<1>7. OnePlace'
  <2>1. \A j \in Fd : conn'[j] # None => conn'[j] = conn[j] /\ conn[j] # c /\ conn[j] \in Client
    BY <1>2, <1>5
  <2>2. \A j \in Fd : conn'[j] # None => peer'[conn'[j]] # "off"
    BY <1>6, <2>1 DEF OnePlace
  <2>3. \A j, l \in Fd : conn'[j] = conn'[l] /\ conn'[j] # None => j = l
    BY <2>1 DEF OnePlace
  <2>4. \A k \in 1 .. Len(backlog) : peer'[backlog[k]] # "off" /\ \A j \in Fd : conn'[j] # backlog[k]
    BY <1>2, <1>5, <1>6, FdFacts DEF OnePlace
  <2>5. \A k, l \in 1 .. Len(backlog) : backlog[k] = backlog[l] => k = l
    BY DEF OnePlace
  <2> QED
    BY <1>1, <2>2, <2>3, <2>4, <2>5 DEF OnePlace
<1>8. NeverBlocks'
  <2>1. \A j \in Fd \cup {sockfd} : j # i /\ HasInput(j) => HasInput(j)'
    BY <1>1, <1>2, <1>5, <1>6 DEF HasInput
  <2> QED
    BY <1>1, <2>1 DEF NeverBlocks, SelectType
<1>9. Polite'
  <2> SUFFICES ASSUME NEW d \in Client, d \notin rude' PROVE PoliteClient(d)'
    BY DEF Polite
  <2>1. CASE d = c
    <3>1. <<>> \in Seq({"line"})
      OBVIOUS
    <3>2. inbuf'[d] \in Seq({"line"}) /\ inbuf'[d] = <<>>
      BY <1>1, <2>1, <3>1
    <3> QED
      BY <1>1, <1>5, <1>6, <2>1, <3>2 DEF PoliteClient
  <2>2. CASE d # c
    <3>1. PoliteClient(d) /\ peer'[d] = peer[d]
      BY <1>1, <1>6, <2>2 DEF Polite
    <3> QED
      BY <1>1, <3>1 DEF PoliteClient
  <2> QED
    BY <2>1, <2>2
<1> QED
  BY <1>3, <1>4, <1>7, <1>8, <1>9

\* The lines of the client at i are read; nobody else is at that client.
LEMMA AnswerKeeps == ASSUME SelectInv, NEW i \in Fd, Answer(i) PROVE SelectInv'
<1> USE DEF SelectInv
<1> DEFINE c == conn[i]
<1>1. /\ server = "scan" /\ server' = "prompt" /\ i # sockfd /\ c # None /\ inbuf[c] # <<>>
      /\ inbuf' = [inbuf EXCEPT ![c] = <<>>] /\ peer' = Written(c)
      /\ read_fds' = read_fds \ {i} /\ cur' = i
      /\ UNCHANGED <<nofile, fds, max_fd, conn, backlog, rude>>
  BY DEF Answer, Takes, At, Rest, setVars, envVars
<1>2. c \in Client
  BY <1>1 DEF SelectType
<1>3. /\ peer' \in [Client -> PeerState]
      /\ \A d \in Client : peer'[d] = "off" <=> peer[d] = "off"
      /\ \A d \in Client : peer'[d] = "open" <=> peer[d] = "open"
      /\ \A d \in Client : peer'[d] = "reset" <=> peer[d] = "reset"
  BY <1>1, <1>2, WrittenIs
<1>4. inbuf'[c] = <<>> /\ \A d \in Client : d # c => inbuf'[d] = inbuf[d]
  BY <1>1, <1>2 DEF SelectType
<1>5. SelectType'
  BY <1>1, <1>2, <1>3 DEF SelectType
<1>6. WatchesAll'
  BY <1>1 DEF WatchesAll, Ended, Usable
<1>7. \A j \in Fd : conn[j] # None => conn[j] \in Client
  BY DEF SelectType
<1>8. OnePlace'
  <2>1. \A k \in 1 .. Len(backlog) : backlog[k] \in Client
    BY DEF SelectType
  <2> QED
    BY <1>1, <1>3, <1>7, <2>1 DEF OnePlace
<1>9. NeverBlocks'
  <2>1. \A j \in Fd : conn[j] = c => j = i
    BY <1>1 DEF OnePlace
  <2>2. \A j \in Fd \cup {sockfd} : j # i /\ HasInput(j) => HasInput(j)'
    BY <1>1, <1>3, <1>4, <1>7, <2>1 DEF HasInput
  <2> QED
    BY <1>1, <2>2 DEF NeverBlocks, SelectType
<1>10. Polite'
  <2> SUFFICES ASSUME NEW d \in Client, d \notin rude PROVE PoliteClient(d)'
    BY <1>1 DEF Polite
  <2>1. PoliteClient(d)
    BY DEF Polite
  <2>2. inbuf'[d] \in Seq({"line"}) /\ (inbuf'[d] # <<>> => peer[d] = "open")
    <3>1. <<>> \in Seq({"line"})
      OBVIOUS
    <3>2. CASE d = c
      BY <1>4, <3>1, <3>2
    <3>3. CASE d # c
      BY <1>4, <2>1, <3>3 DEF PoliteClient
    <3> QED
      BY <3>2, <3>3
  <2>3. conn'[cur'] = d => peer[d] = "open"
    BY <1>1, <2>1 DEF PoliteClient
  <2> QED
    BY <1>1, <1>3, <2>1, <2>2, <2>3 DEF PoliteClient
<1> QED
  BY <1>5, <1>6, <1>8, <1>9, <1>10

\* The prompt is written to whoever was answered, gone by then or not.
LEMMA PromptKeeps == SelectInv /\ Prompt => SelectInv'
<1> SUFFICES ASSUME SelectInv, Prompt PROVE SelectInv'
  OBVIOUS
<1> USE DEF SelectInv
<1> DEFINE c == conn[cur]
<1>1. /\ server = "prompt" /\ server' \in {"select", "scan"} /\ peer' = Written(c)
      /\ cur' = sockfd
      /\ UNCHANGED <<nofile, fds, max_fd, conn, read_fds, backlog, inbuf, rude>>
  BY DEF Prompt, setVars, netVars, envVars
<1>2. c \in Client
  BY <1>1 DEF SelectType, NeverBlocks
<1>3. /\ peer' \in [Client -> PeerState]
      /\ \A d \in Client : peer'[d] = "off" <=> peer[d] = "off"
      /\ \A d \in Client : peer'[d] = "open" <=> peer[d] = "open"
      /\ \A d \in Client : peer'[d] = "reset" <=> peer[d] = "reset"
  BY <1>1, <1>2, WrittenIs
<1>4. SelectType'
  BY <1>1, <1>3 DEF SelectType
<1>5. WatchesAll'
  BY <1>1 DEF WatchesAll, Ended, Usable
<1>6. /\ \A j \in Fd : conn[j] # None => conn[j] \in Client
      /\ \A k \in 1 .. Len(backlog) : backlog[k] \in Client
  BY DEF SelectType
<1>7. OnePlace'
  BY <1>1, <1>3, <1>6 DEF OnePlace
<1>8. NeverBlocks'
  <2>1. \A j \in Fd \cup {sockfd} : HasInput(j) => HasInput(j)'
    BY <1>1, <1>3, <1>6, FdFacts DEF HasInput
  <2> QED
    BY <1>1, <2>1 DEF NeverBlocks, SelectType
<1>9. Polite'
  BY <1>1, <1>3 DEF Polite, PoliteClient
<1> QED
  BY <1>4, <1>5, <1>7, <1>8, <1>9

\* A step in which the server ends.
Ends ==
    \/ GreetingFails \/ AcceptFails \/ AcceptRefused \/ PromptFails \/ Timeout
    \/ \E i \in Fd : ReadFails(i) \/ AnswerFails(i) \/ Crash(i)

\* One step per action of the server, the clients and the kernel.
LEMMA SelectStep == SelectInv /\ [SelectNext]_selectVars => SelectInv'
<1> SUFFICES ASSUME SelectInv, [SelectNext]_selectVars PROVE SelectInv'
  OBVIOUS
<1>1. ASSUME NEW c \in Client, Connect(c) \/ SendLine(c) \/ Leave(c) \/ RstArrives(c)
      PROVE  SelectInv'
  BY <1>1, ConnectKeeps, SendLineKeeps, LeaveKeeps, RstArrivesKeeps
<1>2. CASE Select \/ Accept \/ AcceptBeyond \/ Prompt
  BY <1>2, SelectKeeps, AcceptKeeps, BeyondKeeps, PromptKeeps
<1>3. ASSUME NEW i \in Fd, ReadEof(i) \/ Answer(i) PROVE SelectInv'
  BY <1>3, ReadEofKeeps, AnswerKeeps
<1>4. CASE Ends
  <2>1. CloseAll
    BY <1>4
    DEF Ends, GreetingFails, AcceptFails, AcceptRefused, PromptFails, Timeout, ReadFails,
        AnswerFails, Crash, Down
  <2> QED
    BY <2>1, CloseAllKeeps
<1>5. CASE UNCHANGED selectVars
  BY <1>5
  DEF selectVars, SelectInv, SelectType, WatchesAll, Ended, Usable, OnePlace, NeverBlocks,
      HasInput, Polite, PoliteClient
<1> QED
  BY <1>1, <1>2, <1>3, <1>4, <1>5 DEF SelectNext, ServerStep, Ends

\* The fd_set and max_fd agree with the open descriptors, whatever number of
\* clients comes and goes and however their descriptors are reused.
THEOREM AllWatched == SelectSpec => []WatchesAll
<1>1. SelectInv => WatchesAll
  BY DEF SelectInv
<1> QED
  BY SelectStarts, SelectStep, <1>1, PTL DEF SelectSpec

\* Every descriptor of the copy is still readable when the loop gets to it.
THEOREM LoopNeverBlocks == SelectSpec => []NeverBlocks
<1>1. SelectInv => NeverBlocks
  BY DEF SelectInv
<1> QED
  BY SelectStarts, SelectStep, <1>1, PTL DEF SelectSpec

\* Clients that leave between their exchanges never end the server, however
\* many there are and however often they come back, as long as there is a
\* descriptor for the next one; when there is none, that is what ends it.
THEOREM StopsTask18 == SelectSpec => StopsOnlyOnFaultOrLimit
<1>1. SelectInv /\ [SelectNext]_selectVars
        => [~Ended /\ Ended' /\ rude = {} /\ ~refused' => server = "select" \/ AtLimit]_selectVars
  <2> SUFFICES ASSUME SelectInv, [SelectNext]_selectVars, ~Ended, Ended', rude = {}, ~refused'
               PROVE  server = "select" \/ AtLimit
    OBVIOUS
  <2> USE DEF SelectInv
  <2>1. \A c \in Client : PoliteClient(c)
    BY DEF Polite
  <2>2. ~GreetingFails
    <3> SUFFICES ASSUME GreetingFails PROVE FALSE
      OBVIOUS
    <3>1. backlog # <<>> /\ ~CanWrite(Head(backlog))
      BY DEF GreetingFails, Incoming
    <3>2. Head(backlog) = backlog[1] /\ 1 \in 1 .. Len(backlog) /\ backlog[1] \in Client
      BY <3>1 DEF SelectType
    <3> QED
      BY <2>1, <3>1, <3>2 DEF PoliteClient, CanWrite
  <2>3. ~PromptFails
    <3> SUFFICES ASSUME PromptFails PROVE FALSE
      OBVIOUS
    <3>1. server = "prompt" /\ ~CanWrite(conn[cur]) /\ conn[cur] \in Client
      BY DEF PromptFails, NeverBlocks, SelectType
    <3> QED
      BY <2>1, <3>1 DEF PoliteClient, CanWrite
  <2>4. ASSUME NEW i \in Fd, ReadFails(i) \/ AnswerFails(i) \/ Crash(i) PROVE FALSE
    <3>1. conn[i] \in Client /\ PoliteClient(conn[i])
      BY <2>1, <2>4 DEF ReadFails, AnswerFails, Crash, Takes, SelectType
    <3>2. ~ReadFails(i) /\ ~AnswerFails(i)
      BY <3>1 DEF ReadFails, AnswerFails, Takes, PoliteClient, CanWrite
    <3>3. inbuf[conn[i]] # <<>> /\ Head(inbuf[conn[i]]) = "odd"
      BY <2>4, <3>2 DEF Crash, Takes
    <3>4. inbuf[conn[i]] \in Seq({"line"})
      BY <3>1 DEF PoliteClient
    <3>5. Head(inbuf[conn[i]]) = "line"
      BY <3>3, <3>4
    <3> QED
      BY <3>3, <3>5
  <2>5. AcceptFails \/ AcceptBeyond => AtLimit
    <3> SUFFICES ASSUME AcceptFails \/ AcceptBeyond PROVE AtLimit
      OBVIOUS
    <3>1. PICK fd \in Fd : Lowest(fd) /\ (fd >= nofile \/ fd >= FD_SETSIZE)
      BY DEF AcceptFails, AcceptBeyond
    <3>2. \A j \in Fd : conn[j] = None => ~Usable(j)
      BY <3>1, FdFacts DEF Lowest, Usable, SelectType
    <3> QED
      BY <3>2 DEF AcceptFails, AcceptBeyond, Incoming, AtLimit
  <2>6. ~AcceptRefused
    BY DEF AcceptRefused
  <2>7. Timeout => server = "select"
    BY DEF Timeout
  <2>8. ASSUME \/ \E c \in Client : Connect(c) \/ SendLine(c) \/ Leave(c) \/ RstArrives(c)
               \/ Select \/ Accept \/ Prompt \/ UNCHANGED selectVars
               \/ \E i \in Fd : ReadEof(i) \/ Answer(i)
        PROVE  FALSE
    BY <2>8
    DEF Ended, Connect, SendLine, Leave, RstArrives, Select, Accept, Incoming, At, AfterScan,
        ReadEof, Answer, Prompt, selectVars
  <2> QED
    BY <2>2, <2>3, <2>4, <2>5, <2>6, <2>7, <2>8 DEF SelectNext, ServerStep
<1> QED
  BY SelectStarts, SelectStep, <1>1, PTL DEF SelectSpec, StopsOnlyOnFaultOrLimit
=============================================================================
