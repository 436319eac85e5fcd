----------------------------- MODULE PhoneBook ------------------------------
(***************************************************************************)
(* "Module 3/Task 3": people in an array, loaded from phonebook.txt when   *)
(* the program starts and written back, record by record, on command.  The *)
(* file is a sequence of characters, which fscanf cuts up with its own     *)
(* idea of where a text ends.                                              *)
(* An answer to the menu that is no number runs the last command again     *)
(* with an indeterminate id, which is one of the commands below.           *)
(***************************************************************************)
EXTENDS Integers, Sequences

CONSTANTS
    Char,                \* the characters of a text
    Person,              \* what users type: id, name, surname
    PEOPLE,              \* elements of people (MAX_LENGHT)
    MAX_LENGHT_STRUCT,   \* records that loadFromFile takes
    WIDTH                \* characters of a text (MAX_LENGHT - 1, and %29)

\* A character is a string of its own; white space as isspace has it.
Bar == "|"
Newline == "newline"
White == {" ", "tab", Newline}
Sign == {"+", "-"}
Digit == {"0", "1", "2", "3", "4", "5", "6", "7", "8", "9"}

\* The decimal digits d without leading zeros.
Canon(d) ==
    LET first == CHOOSE k \in 1 .. Len(d) :
                   /\ d[k] # "0" \/ k = Len(d)
                   /\ \A j \in 1 .. k - 1 : d[j] = "0"
    IN  SubSeq(d, first, Len(d))

\* printf %d of the number that scanf %d, or atoi, reads from text t.
DigitsOf(t) == IF t[1] \in Sign THEN Tail(t) ELSE t
Printed(t) ==
    IF t[1] = "-" /\ Canon(DigitsOf(t)) # <<"0">> THEN <<"-">> \o Canon(DigitsOf(t))
    ELSE Canon(DigitsOf(t))

\* An id is kept as it is printed.
IsNumber(t) ==
    /\ t \in Seq(Char) /\ t # <<>>
    /\ DigitsOf(t) # <<>> /\ \A i \in 1 .. Len(DigitsOf(t)) : DigitsOf(t)[i] \in Digit
IsId(t) == IsNumber(t) /\ Printed(t) = t

Has(t, c) == \E i \in 1 .. Len(t) : t[i] = c
TypedText == {t \in Seq(Char) : Len(t) <= WIDTH /\ ~Has(t, Newline)}

ASSUME PhoneBookAssumption ==
    /\ {Bar} \cup White \cup Sign \cup Digit \subseteq Char
    /\ \A r \in Person : IsId(r.id) /\ r = [id |-> r.id, name |-> r.name, surname |-> r.surname]
    /\ \A r \in Person : r.name \in TypedText /\ r.surname \in TypedText
    /\ PEOPLE \in Nat /\ MAX_LENGHT_STRUCT \in 1 .. PEOPLE
    /\ WIDTH \in Nat

VARIABLES
    book,      \* "off", "loading", "menu", "saving", "undefined" after a write
               \* behind people
    user,      \* the first userCount elements of people
    phonebook, \* the characters of phonebook.txt
    nread,     \* characters that loadFromFile has read
    saved,     \* history: the records written since the file was truncated
    ends       \* history: where in the file each of them ends

bookVars == <<book, user, phonebook, nread, saved, ends>>
fileVars == <<phonebook, nread, saved, ends>>

BookInit ==
    /\ book = "off" /\ user = <<>>
    /\ phonebook = <<>> /\ nread = 0
    /\ saved = <<>> /\ ends = <<>>

-----------------------------------------------------------------------------
(* loadFromFile: fscanf "%d|%29[^|]|%29[^\n]\n" until it does not return 3. *)

\* From character p + 1, at most w characters of C, up to and with character q.
Run(p, C, w, q) ==
    /\ q \in p .. Len(phonebook) /\ q - p <= w
    /\ \A i \in p + 1 .. q : phonebook[i] \in C
    /\ q - p = w \/ q = Len(phonebook) \/ phonebook[q + 1] \notin C
Stop(p, C, w) == CHOOSE q \in p .. Len(phonebook) : Run(p, C, w, q)
ToEnd(p, C) == Stop(p, C, Len(phonebook))
AtChar(p, C) == p < Len(phonebook) /\ phonebook[p + 1] \in C

\* Where the parts of a record that starts behind character p begin and end.
IdBegins(p) == ToEnd(p, White)
DigitsBegin(p) == IF AtChar(IdBegins(p), Sign) THEN IdBegins(p) + 1 ELSE IdBegins(p)
IdEnds(p) == ToEnd(DigitsBegin(p), Digit)
NameEnds(p) == Stop(IdEnds(p) + 1, Char \ {Bar}, WIDTH)
SurnameEnds(p) == Stop(NameEnds(p) + 1, Char \ {Newline}, WIDTH)
RecordEnds(p) == ToEnd(SurnameEnds(p), White)

\* fscanf returns 3: there is a number, and neither text is empty.
Matches(p) ==
    /\ IdEnds(p) > DigitsBegin(p) /\ AtChar(IdEnds(p), {Bar})
    /\ NameEnds(p) > IdEnds(p) + 1 /\ AtChar(NameEnds(p), {Bar})
    /\ SurnameEnds(p) > NameEnds(p) + 1

Scanned(p) ==
    [id      |-> Printed(SubSeq(phonebook, IdBegins(p) + 1, IdEnds(p))),
     name    |-> SubSeq(phonebook, IdEnds(p) + 2, NameEnds(p)),
     surname |-> SubSeq(phonebook, NameEnds(p) + 2, SurnameEnds(p))]

BookStart ==
    /\ book = "off"
    /\ book' = "loading" /\ nread' = 0
    /\ UNCHANGED <<user, phonebook, saved, ends>>

LoadRecord ==
    /\ book = "loading" /\ Len(user) < MAX_LENGHT_STRUCT /\ Matches(nread)
    /\ user' = Append(user, Scanned(nread))
    /\ nread' = RecordEnds(nread)
    /\ UNCHANGED <<book, phonebook, saved, ends>>

LoadEnds ==
    /\ book = "loading"
    /\ Len(user) = MAX_LENGHT_STRUCT \/ ~Matches(nread)
    /\ book' = "menu" /\ nread' = 0
    /\ UNCHANGED <<user, phonebook, saved, ends>>

-----------------------------------------------------------------------------
AddPerson(r) ==
    /\ book = "menu" /\ Len(user) < PEOPLE
    /\ user' = Append(user, r)
    /\ UNCHANGED <<book, fileVars>>

\* There is no test for a full array.
AddBehind ==
    /\ book = "menu" /\ Len(user) = PEOPLE
    /\ book' = "undefined" /\ user' = <<>>
    /\ UNCHANGED fileVars

\* The first record with the typed id; with none the text "not found".
FirstWith(id, i) == user[i].id = id /\ \A j \in 1 .. i - 1 : user[j].id # id

DeletePerson(id) ==
    /\ book = "menu"
    /\ \E i \in DOMAIN user :
         /\ FirstWith(id, i)
         /\ user' = SubSeq(user, 1, i - 1) \o SubSeq(user, i + 1, Len(user))
    /\ UNCHANGED <<book, fileVars>>

EditPerson(r) ==
    /\ book = "menu"
    /\ \E i \in DOMAIN user : FirstWith(r.id, i) /\ user' = [user EXCEPT ![i] = r]
    /\ UNCHANGED <<book, fileVars>>

-----------------------------------------------------------------------------
(* saveToFile *)

\* open with O_TRUNC.  Mutant: with O_APPEND.
OpenAppends ==
    /\ book = "menu"
    /\ book' = "saving" /\ saved' = <<>> /\ ends' = <<>>
    /\ UNCHANGED <<user, phonebook, nread>>
OpenTruncates ==
    /\ book = "menu"
    /\ book' = "saving" /\ phonebook' = <<>> /\ saved' = <<>> /\ ends' = <<>>
    /\ UNCHANGED <<user, nread>>

\* snprintf "%d|%s|%s\n" of the record that is written next.
Line(r) == r.id \o <<Bar>> \o r.name \o <<Bar>> \o r.surname \o <<Newline>>
NextRecord == user[Len(saved) + 1]

\* n characters of it reach the file.
Written(n) ==
    /\ phonebook' = phonebook \o SubSeq(Line(NextRecord), 1, n)
    /\ saved' = Append(saved, NextRecord)
    /\ ends' = Append(ends, Len(phonebook) + n)

WriteRecord ==
    /\ book = "saving" /\ Len(saved) < Len(user)
    /\ Written(Len(Line(NextRecord)))
    /\ UNCHANGED <<book, user, nread>>

\* The disk is full: nothing of the record is written, or a part, which is not
\* noticed before the next write.
WriteFails ==
    /\ book = "saving" /\ Len(saved) < Len(user)
    /\ book' = "menu"
    /\ \/ UNCHANGED <<phonebook, saved, ends>>
       \/ \E n \in 1 .. Len(Line(NextRecord)) - 1 : Written(n)
    /\ UNCHANGED <<user, nread>>

SaveEnds ==
    /\ book = "saving" /\ Len(saved) = Len(user)
    /\ book' = "menu"
    /\ UNCHANGED <<user, fileVars>>

\* Exit, without saving, or a kill at any point.
BookEnds ==
    /\ book # "off"
    /\ book' = "off" /\ user' = <<>> /\ nread' = 0
    /\ UNCHANGED <<phonebook, saved, ends>>

BookNext ==
    \/ BookStart \/ LoadRecord \/ LoadEnds
    \/ AddBehind \/ OpenTruncates \/ WriteRecord \/ WriteFails \/ SaveEnds \/ BookEnds
    \/ \E r \in Person : AddPerson(r) \/ EditPerson(r)
    \/ \E id \in {r.id : r \in Person} : DeletePerson(id)

BookSpec == BookInit /\ [][BookNext]_bookVars

-----------------------------------------------------------------------------
\* The i-th record lies behind End(i - 1), and all of it was written.
End(i) == IF i = 0 THEN 0 ELSE ends[i]
Complete(i) == End(i) = End(i - 1) + Len(Line(saved[i]))

\* A record that comes back as it was: no bar in the name, no empty text.
Plain(r) == ~Has(r.name, Bar) /\ r.name # <<>> /\ r.surname # <<>>

\* The first bar of the name ends it for fscanf: what is behind it must still
\* be short enough for the surname.
Fits(r) ==
    \A k \in 1 .. Len(r.name) :
        r.name[k] = Bar /\ (\A j \in 1 .. k - 1 : r.name[j] # Bar)
            => Len(r.name) - k + 1 + Len(r.surname) <= WIDTH

\* A run starts with what was last written, up to MAX_LENGHT_STRUCT records or
\* the first one that is not plain or was cut short by a kill or a full disk; and
\* with no more records than were written, unless one of them has a bar in a
\* name too long for it (Task 3/main.c:18-63).  The records that were not read
\* are lost with the next save.
StartsFromSaved ==
    [][LoadEnds =>
        /\ \A i \in DOMAIN saved :
             i <= MAX_LENGHT_STRUCT /\ (\A j \in 1 .. i : Plain(saved[j]) /\ Complete(j))
                => i \in DOMAIN user /\ user[i] = saved[i]
        /\ (\A i \in DOMAIN saved : Fits(saved[i])) => Len(user) <= Len(saved)]_bookVars
=============================================================================
