-------------------------- MODULE NumberLogProofs ---------------------------
(***************************************************************************)
(* What the proofs that the number.txt programs (Module 3, Tasks 5, 9, 10  *)
(* and 11) implement NumberLog have in common: how a number goes from a    *)
(* child through the pipe and the parent's hands to the file.  Each        *)
(* program's own proof module instantiates this one.                       *)
(***************************************************************************)
EXTENDS NumberLog, TLAPS

VARIABLES
    pipe, got,   \* as in the programs
    parent       \* what the parent does next; "dead" once it has ended

-----------------------------------------------------------------------------
(* What the log itself says.                                               *)

\* The k-th number of the file is the k-th that was produced, so none is lost,
\* doubled or moved on its way; what goes beyond the produced ones, an end of
\* file taken for a number, comes only after the last producer.
InOrder ==
    /\ produced \in Seq(Number) /\ file \in Seq(Number)
    /\ \A k \in 1 .. Len(file) : k <= Len(produced) => file[k] = produced[k]
    /\ ~closed => Len(file) <= Len(produced)

\* A record appends the next number produced, junk comes behind all of them.
LEMMA InOrderStep == InOrder /\ [Next]_logVars => InOrder'
<1> SUFFICES ASSUME InOrder, [Next]_logVars PROVE InOrder'
  OBVIOUS
<1>1. /\ produced \in Seq(Number) /\ file \in Seq(Number)
      /\ Len(produced) \in Nat /\ Len(file) \in Nat
      /\ ~closed => Len(file) <= Len(produced)
  BY DEF InOrder
<1>2. \A k \in 1 .. Len(file) : k <= Len(produced) => file[k] = produced[k]
  BY DEF InOrder
<1>3. CASE Produce
  <2>1. PICK n \in Number : produced' = Append(produced, n)
    BY <1>3 DEF Produce
  <2>2. file' = file /\ closed' = closed /\ ~closed
    BY <1>3 DEF Produce
  <2>3. /\ produced' \in Seq(Number) /\ Len(produced') = Len(produced) + 1
        /\ \A k \in 1 .. Len(produced) : produced'[k] = produced[k]
    BY <1>1, <2>1
  <2> QED
    BY <1>1, <1>2, <2>2, <2>3 DEF InOrder
<1>4. CASE Record
  <2>1. /\ Len(file) < Len(produced) /\ produced' = produced /\ closed' = closed
        /\ file' = Append(file, produced[Len(file) + 1])
    BY <1>4 DEF Record
  <2>2. produced[Len(file) + 1] \in Number
    BY <1>1, <2>1
  <2>3. /\ file' \in Seq(Number) /\ Len(file') = Len(file) + 1
        /\ \A k \in 1 .. Len(file) : file'[k] = file[k]
        /\ file'[Len(file) + 1] = produced[Len(file) + 1]
    BY <1>1, <2>1, <2>2
  <2> QED
    BY <1>1, <1>2, <2>1, <2>3 DEF InOrder
<1>5. CASE Junk
  <2>1. PICK n \in Number : file' = Append(file, n)
    BY <1>5 DEF Junk
  <2>2. closed /\ Len(file) >= Len(produced) /\ produced' = produced /\ closed' = closed
    BY <1>5 DEF Junk
  <2>3. /\ file' \in Seq(Number) /\ Len(file') = Len(file) + 1
        /\ \A k \in 1 .. Len(file) : file'[k] = file[k]
    BY <1>1, <2>1
  <2> QED
    BY <1>1, <1>2, <2>2, <2>3 DEF InOrder
<1>6. CASE Close \/ UNCHANGED logVars
  BY <1>1, <1>2, <1>6 DEF InOrder, Close, logVars
<1>7. CASE Rerun
  BY <1>7 DEF InOrder, Rerun
<1> QED
  BY <1>3, <1>4, <1>5, <1>6, <1>7 DEF Next

\* A log that is only produced, recorded, closed, filled with junk after its
\* end, and begun anew, holds each number once and in order.
THEOREM LogInOrder == Spec => []InOrder
<1>1. Init => InOrder
  BY DEF Init, InOrder
<1> QED
  BY <1>1, InOrderStep, PTL DEF Spec

-----------------------------------------------------------------------------
(* The way of a number: produced, in the pipe, in got, in the file.        *)

DataType ==
    /\ pipe \in Seq(Number) /\ produced \in Seq(Number) /\ file \in Seq(Number)
    /\ got \in Number

\* The pipe holds, in order, all that was produced after the first n numbers.
Unread(n) ==
    /\ Len(produced) = n + Len(pipe)
    /\ \A k \in 1 .. Len(pipe) : pipe[k] = produced[n + k]

\* What was read is in the file, but for the number in the parent's hands.
Between == Unread(Len(file))
Holding == Unread(Len(file) + 1) /\ got = produced[Len(file) + 1]

\* Nothing is left to read: an end of file may be taken for a number.
Drained == pipe = <<>> /\ Len(file) >= Len(produced)

\* A write to the pipe.
LEMMA Written ==
    ASSUME DataType, NEW n \in Number,
           pipe' = Append(pipe, n), produced' = Append(produced, n), UNCHANGED <<file, got>>
    PROVE  DataType' /\ (Between => Between') /\ (Holding => Holding')
<1>1. DataType'
  BY DEF DataType
<1>2. /\ Len(pipe) \in Nat /\ Len(file) \in Nat /\ Len(produced) \in Nat
      /\ Len(pipe') = Len(pipe) + 1 /\ Len(produced') = Len(produced) + 1
      /\ pipe'[Len(pipe) + 1] = n /\ produced'[Len(produced) + 1] = n
      /\ \A k \in 1 .. Len(pipe) : pipe'[k] = pipe[k]
      /\ \A k \in 1 .. Len(produced) : produced'[k] = produced[k]
  BY DEF DataType
<1>3. ASSUME NEW m \in Nat, Unread(m)
      PROVE  /\ Len(produced') = m + Len(pipe')
             /\ \A k \in 1 .. Len(pipe') : pipe'[k] = produced'[m + k]
  <2>1. Len(produced') = m + Len(pipe')
    BY <1>2, <1>3 DEF Unread
  <2>2. ASSUME NEW k \in 1 .. Len(pipe) + 1 PROVE pipe'[k] = produced'[m + k]
    <3>1. CASE k = Len(pipe) + 1
      <4>1. m + k = Len(produced) + 1
        BY <1>2, <1>3, <3>1 DEF Unread
      <4> QED
        BY <1>2, <3>1, <4>1
    <3>2. CASE k \in 1 .. Len(pipe)
      <4>1. pipe[k] = produced[m + k] /\ m + k \in 1 .. Len(produced)
        BY <1>2, <1>3, <3>2 DEF Unread
      <4> QED
        BY <1>2, <3>2, <4>1
    <3>3. k = Len(pipe) + 1 \/ k \in 1 .. Len(pipe)
      <4>1. Len(pipe) \in Nat
        BY <1>2
      <4> QED
        BY <4>1
    <3> QED
      BY <3>1, <3>2, <3>3
  <2> QED
    BY <1>2, <2>1, <2>2
<1>4. Between => Between'
  BY <1>2, <1>3 DEF Between, Unread
<1>5. ASSUME Holding PROVE Holding'
  <2>1. /\ Len(produced') = (Len(file) + 1) + Len(pipe')
        /\ \A k \in 1 .. Len(pipe') : pipe'[k] = produced'[(Len(file) + 1) + k]
    <3>1. Len(file) + 1 \in Nat /\ Unread(Len(file) + 1)
      BY <1>2, <1>5 DEF Holding
    <3> QED
      BY <1>3, <3>1
  <2>2. Len(file) + 1 \in 1 .. Len(produced)
    BY <1>2, <1>5 DEF Holding, Unread
  <2> QED
    BY <1>2, <1>5, <2>1, <2>2 DEF Holding, Unread
<1> QED
  BY <1>1, <1>4, <1>5

\* A read from the pipe.
LEMMA Taken ==
    ASSUME DataType, pipe # <<>>, got' = Head(pipe), pipe' = Tail(pipe),
           UNCHANGED <<produced, file>>
    PROVE  DataType' /\ (Between => Holding')
<1>1. DataType'
  BY DEF DataType
<1>2. /\ Len(pipe) \in Nat \ {0} /\ Len(file) \in Nat
      /\ Len(pipe') = Len(pipe) - 1 /\ got' = pipe[1]
      /\ \A k \in 1 .. Len(pipe) - 1 : pipe'[k] = pipe[k + 1]
  BY DEF DataType
<1>3. ASSUME Between PROVE Holding'
  <2>1. Len(produced) = Len(file) + 1 + (Len(pipe) - 1) /\ got' = produced[Len(file) + 1]
    BY <1>2, <1>3 DEF Between, Unread
  <2>2. ASSUME NEW k \in 1 .. Len(pipe) - 1 PROVE pipe'[k] = produced[(Len(file) + 1) + k]
    <3>1. k + 1 \in 1 .. Len(pipe) /\ Len(file) + (k + 1) = (Len(file) + 1) + k
      BY <1>2
    <3> QED
      BY <1>2, <1>3, <3>1 DEF Between, Unread
  <2> QED
    BY <1>2, <2>1, <2>2 DEF Holding, Unread
<1> QED
  BY <1>1, <1>3

\* A number read earlier is appended; so is what an end of file left in got.
LEMMA Recorded ==
    ASSUME DataType, file' = Append(file, got), UNCHANGED <<pipe, produced, got>>
    PROVE  /\ DataType'
           /\ Holding => /\ Between'
                         /\ Len(file) < Len(produced)
                         /\ file' = Append(file, produced[Len(file) + 1])
           /\ Drained => Drained' /\ Len(file) >= Len(produced)
<1>1. DataType'
  BY DEF DataType
<1>2. Len(pipe) \in Nat /\ Len(file) \in Nat /\ Len(produced) \in Nat /\ Len(file') = Len(file) + 1
  BY DEF DataType
<1>3. Holding => Between' /\ Len(file) < Len(produced) /\ got = produced[Len(file) + 1]
  BY <1>2 DEF Holding, Between, Unread
<1>4. Drained => Drained' /\ Len(file) >= Len(produced)
  BY <1>2 DEF Drained
<1> QED
  BY <1>1, <1>3, <1>4

\* The other steps leave the numbers where they are.
LEMMA Untouched ==
    ASSUME DataType, UNCHANGED <<pipe, produced, file, got>>
    PROVE  DataType' /\ (Between <=> Between') /\ (Holding <=> Holding') /\ (Drained <=> Drained')
BY DEF DataType, Between, Holding, Drained, Unread

\* Nothing was produced yet: the state in which a run begins.
LEMMA Begins ==
    ASSUME pipe' = <<>>, produced' = <<>>, file' = <<>>, got' \in Number
    PROVE  DataType' /\ Between'
BY DEF DataType, Between, Unread

-----------------------------------------------------------------------------
(* The steps of a program as far as they touch the numbers.  Free and Hold *)
(* are the places of the parent without and with a number in its hands; it *)
(* reads at "read".  A parent that was killed after it had read a number   *)
(* loses it, and writes nothing more.                                      *)

OnTheWay(Free, Hold) ==
    /\ DataType
    /\ \/ parent = "dead"
       \/ parent \in Free /\ Between
       \/ parent \in Hold /\ Holding
       \/ closed /\ Drained

\* A child does something else than write, or ends.
ChildMoves == closed = FALSE /\ closed' \in BOOLEAN /\ UNCHANGED <<pipe, produced, file, got, parent>>

ChildWrites ==
    /\ ~closed /\ parent # "dead"
    /\ \E n \in Number : pipe' = Append(pipe, n) /\ produced' = Append(produced, n)
    /\ UNCHANGED <<file, got, parent, closed>>

ParentMoves(Free, Hold) ==
    /\ \/ parent' = "dead"
       \/ parent \in Free /\ parent' \in Free
       \/ parent \in Hold /\ parent' \in Hold
    /\ UNCHANGED <<pipe, produced, file, got, closed>>

ParentReads(Hold) ==
    /\ parent = "read" /\ pipe # <<>> /\ parent' \in Hold
    /\ got' = Head(pipe) /\ pipe' = Tail(pipe)
    /\ UNCHANGED <<produced, file, closed>>

ParentReadsEof ==
    /\ parent = "read" /\ pipe = <<>> /\ closed
    /\ got' \in Number
    /\ UNCHANGED <<pipe, produced, file, closed>>

ParentRecords(Free, Hold) ==
    /\ parent \in Hold /\ parent' \in Free
    /\ file' = Append(file, got)
    /\ UNCHANGED <<pipe, produced, got, closed>>

Restarts(Free) ==
    /\ parent' \in Free /\ closed' = FALSE
    /\ pipe' = <<>> /\ produced' = <<>> /\ file' = <<>> /\ got' \in Number

WayStep(Free, Hold) ==
    \/ ChildMoves \/ ChildWrites
    \/ ParentMoves(Free, Hold) \/ ParentReads(Hold) \/ ParentReadsEof
    \/ ParentRecords(Free, Hold) \/ Restarts(Free)
    \/ UNCHANGED <<pipe, produced, file, got, closed, parent>>

\* Each of these steps keeps the numbers where the parent's place says, and is
\* a step of the log or none.
LEMMA WayKept ==
    ASSUME NEW Free, NEW Hold, "read" \in Free, Free \cap Hold = {}, "dead" \notin Free \cup Hold,
           OnTheWay(Free, Hold), WayStep(Free, Hold)
    PROVE  OnTheWay(Free, Hold)' /\ [Next]_(logVars)
<1>1. CASE ChildMoves
  <2>1. DataType' /\ (Between <=> Between') /\ (Holding <=> Holding') /\ (Drained <=> Drained')
    BY <1>1, Untouched DEF OnTheWay, ChildMoves
  <2>2. OnTheWay(Free, Hold)'
    BY <1>1, <2>1 DEF OnTheWay, ChildMoves
  <2>3. CASE closed' = TRUE
    BY <1>1, <2>2, <2>3 DEF ChildMoves, Next, Close
  <2>4. CASE closed' = FALSE
    BY <1>1, <2>2, <2>4 DEF ChildMoves, logVars
  <2> QED
    BY <1>1, <2>3, <2>4 DEF ChildMoves
<1>2. CASE ChildWrites
  <2> PICK n \in Number : pipe' = Append(pipe, n) /\ produced' = Append(produced, n)
    BY <1>2 DEF ChildWrites
  <2>1. DataType' /\ (Between => Between') /\ (Holding => Holding')
    BY <1>2, Written DEF OnTheWay, ChildWrites
  <2>2. Produce
    BY <1>2 DEF Produce, ChildWrites
  <2> QED
    BY <1>2, <2>1, <2>2 DEF OnTheWay, ChildWrites, Next
<1>3. CASE ParentMoves(Free, Hold) \/ UNCHANGED <<pipe, produced, file, got, closed, parent>>
  <2>1. DataType' /\ (Between <=> Between') /\ (Holding <=> Holding') /\ (Drained <=> Drained')
    BY <1>3, Untouched DEF OnTheWay, ParentMoves
  <2> QED
    BY <1>3, <2>1 DEF OnTheWay, ParentMoves, logVars
<1>4. CASE ParentReads(Hold)
  <2>1. DataType' /\ (Between => Holding') /\ ~Drained
    BY <1>4, Taken DEF ParentReads, OnTheWay, Drained
  <2> QED
    BY <1>4, <2>1 DEF OnTheWay, logVars, ParentReads
<1>5. CASE ParentReadsEof
  <2>1. Between => Drained
    BY <1>5 DEF ParentReadsEof, OnTheWay, DataType, Between, Unread, Drained
  <2>2. DataType' /\ Drained'
    BY <1>5, <2>1 DEF ParentReadsEof, OnTheWay, DataType, Drained
  <2> QED
    BY <1>5, <2>2 DEF ParentReadsEof, OnTheWay, logVars
<1>6. CASE ParentRecords(Free, Hold)
  <2>1. /\ DataType'
        /\ Holding => /\ Between'
                      /\ Len(file) < Len(produced)
                      /\ file' = Append(file, produced[Len(file) + 1])
        /\ Drained => Drained' /\ Len(file) >= Len(produced)
    BY <1>6, Recorded DEF OnTheWay, ParentRecords
  <2>2. CASE Holding
    BY <1>6, <2>1, <2>2 DEF OnTheWay, ParentRecords, Next, Record
  <2>3. CASE closed /\ Drained
    BY <1>6, <2>1, <2>3 DEF OnTheWay, ParentRecords, DataType, Next, Junk
  <2> QED
    BY <1>6, <2>2, <2>3 DEF OnTheWay, ParentRecords
<1>7. CASE Restarts(Free)
  <2>1. DataType' /\ Between'
    BY <1>7, Begins DEF Restarts
  <2> QED
    BY <1>7, <2>1 DEF OnTheWay, Restarts, Next, Rerun
<1> QED
  BY <1>1, <1>2, <1>3, <1>4, <1>5, <1>6, <1>7 DEF WayStep
=============================================================================
