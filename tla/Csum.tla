-------------------------------- MODULE Csum --------------------------------
(***************************************************************************)
(* The checksum of "Additional Tasks/Task 1": csum adds 16-bit words and   *)
(* folds the carry back after each one, udp_checksum runs it over the      *)
(* pseudo header, the UDP header and the data.  For an odd number of bytes *)
(* the last word takes one byte from behind the malloc'ed buffer: pad is   *)
(* whatever lies there.                                                    *)
(***************************************************************************)
EXTENDS Integers

CONSTANTS
    Word,      \* 16-bit words of the buffer
    Byte,      \* last bytes of an odd buffer
    Pad,       \* bytes that may lie behind it
    MaxWords   \* bound: length of the buffer

UChar  == {n \in Nat : n <= 255}     \* unsigned char
UShort == {n \in Nat : n <= 65535}   \* unsigned short

ASSUME CsumAssumption ==
    /\ Word \subseteq UShort
    /\ Byte \subseteq UChar
    /\ Pad \subseteq UChar
    /\ MaxWords \in Nat

VARIABLES
    sum,      \* unsigned long sum
    nwords,   \* words added so far
    pc,       \* "loop", "end" after an odd byte, "done"
    check,    \* the result, put into the header
    total,    \* history: the plain sum of the bytes that are sent
    pad       \* history: the byte taken from behind the buffer, 0 if none

sumVars == <<sum, nwords, pc, check, total, pad>>

SumInit ==
    /\ sum = 0 /\ nwords = 0 /\ pc = "loop" /\ check = 0
    /\ total = 0 /\ pad = 0

\* sum = (sum >> 16) + (sum & 0xffff)
Fold(s) == (s \div 65536) + (s % 65536)

\* One round of the loop.
AddWord(w) ==
    /\ pc = "loop" /\ nwords < MaxWords
    /\ sum' = Fold(sum + w)
    /\ total' = total + w
    /\ nwords' = nwords + 1
    /\ UNCHANGED <<pc, check, pad>>

\* The last round for an odd total_len, on a little-endian machine.
AddOddByte(b, p) ==
    /\ pc = "loop" /\ nwords < MaxWords
    /\ sum' = Fold(sum + b + 256 * p)
    /\ total' = total + b
    /\ pad' = p
    /\ nwords' = nwords + 1
    /\ pc' = "end"
    /\ UNCHANGED check

\* return (unsigned short)(~sum).  Mutant: the complement is forgotten.
NotComplemented(s) == s
Complement(s) == 65535 - (s % 65536)

Finish ==
    /\ pc \in {"loop", "end"}
    /\ check' = Complement(sum)
    /\ pc' = "done"
    /\ UNCHANGED <<sum, nwords, total, pad>>

\* malloc fails: 0, which in UDP says that there is no checksum.
MallocFails ==
    /\ pc = "loop" /\ nwords = 0
    /\ check' = 0
    /\ pc' = "done"
    /\ UNCHANGED <<sum, nwords, total, pad>>

SumNext ==
    \/ \E w \in Word : AddWord(w)
    \/ \E b \in Byte, p \in Pad : AddOddByte(b, p)
    \/ Finish \/ MallocFails

SumSpec == SumInit /\ [][SumNext]_sumVars

-----------------------------------------------------------------------------
\* The types of the variables.
SumTypeOK ==
    /\ sum \in UShort
    /\ nwords \in 0 .. MaxWords
    /\ pc \in {"loop", "end", "done"}
    /\ check \in UShort
    /\ total \in Nat
    /\ pad \in UChar

\* s is the ones' complement sum of n words whose plain sum is t: 65535 less for
\* every carry, and 0 only if all words are 0.
IsOnesSum(s, t, n) ==
    /\ \E carries \in 0 .. n : t = s + 65535 * carries
    /\ s = 0 <=> t = 0

\* Folding after every word (server.c:62-65) computes the ones' complement sum in
\* 16 bits, so the cast to unsigned short loses nothing.
FoldIsOnes == sum \in UShort /\ IsOnesSum(sum, total + 256 * pad, nwords)

\* The ones' complement sum of words whose plain sum is t is 0xffff.
AllOnes(t) == \E k \in 1 .. nwords + 1 : t = 65535 * k

\* A receiver that checks finds the packet good exactly when the byte behind an
\* odd buffer happened to be 0 (server.c:84-95): then all words with the check
\* field add up to 0xffff.  A field of 0 is not checked by anybody.
Verifies ==
    pc = "done" /\ check # 0 => (AllOnes(total + check) <=> pad = 0)
=============================================================================
