# EltexTasks: a verification development in TLA+

The repository collects course work in C: small programs of one to four
processes that talk over System V and POSIX queues, semaphores, pipes, signals,
raw and TCP sockets, a few kernel modules, and sequential exercises. It has no
common library. The programs with state that several actors share are the ones
modelled here; each is specified, model-checked with TLC, and the central
results are proved with TLAPS.

## Inventory

| Part | State | Operations | What is hard | Modules |
|---|---|---|---|---|
| Taxi manager, `Additional Tasks/Task 2` | table of drivers in the CLI; per driver: busy, remaining, a timerfd; one queue for the CLI, one per driver | commands `create_driver`, `send_task`, `get_status`, `get_drivers`; messages REGISTER, TASK, STATUS_UPDATE, BUSY_RESP; timer | queues that outlive processes, blocking `msgsnd`, epoll on a queue identifier, timers of 0 or less | `Taxi` |
| Raw UDP echo, `Additional Tasks/Task 1` | table of clients with counts; sockets' queues | send a line, reply, close, signals | a raw socket sees every packet, its own included; all clients share one address | `RawEcho` |
| Its checksums | sum over 16-bit words | `csum`, `udp_checksum` | carries, the byte behind an odd buffer | `Csum` |
| number.txt with System V semaphores, `Module 3/Task 9` | two semaphores with undo values, a pipe, the file | `startRead`, `endRead`, `startWrite`, `endWrite`, read, append | kills inside the section, read under the mutex | `SemReaders` |
| ... POSIX semaphore, `Task 10` | a named semaphore that outlives the run | the same for one child | kills and reruns | `PosixLog` |
| ... readers count, `Task 11` | two named semaphores, a count | the same | count against mutex, full pipe | `ReadersCount` |
| ... signals, `Task 5` | a flag, pending signals, a pipe | handlers, pause, read, append | a wake-up lost between test and pause | `SignalPipe` |
| Calculator with select, `Task 18` | `fd_set`, `max_fd`, the copy being scanned | accept, read, answer, prompt, time out | a stale copy, one client's failure ends all, limits on descriptors | `SelectServer` |
| Shared memory, `Tasks 12, 13` | a segment, stop flags, loop variables | generate, print, find minimum and maximum, SIGINT | nothing but sleeps orders the accesses; a killed run leaves the segment | `SharedMinMax` |
| Chat over a System V queue, `Task 6` | a queue, what each program has read | send, receive, end, remove the queue | untested results, a queue removed under the partner, restarts | `SysvChat` |
| Chat over a POSIX queue, `Task 7` | one queue for both directions, whose turn it is | send, receive, exit, unlink | priorities, programs that take their own line, queues that lost their name | `PosixChat` |
| Phone book, `Module 3/Task 3` | an array, phonebook.txt | load, add, edit, delete, save | the only copy is truncated first; formats and a width that do not round-trip | `PhoneBook` |
| Keyboard LED module, `Module 5/Lab 3` | mask, status, a timer, a sysfs directory | load, store, timer callback, unload | the callback on another CPU against the unload | `LedTimer` |
| Character device module, `Module 5/Lab 4` | an open flag, a message, a reference count | open, read, release, rmmod | references taken inside `device_open` | `CharDevice` |
| TCP calculator with fork, `Task 15` | one connection, one child | accept, fork, answer | the parent ends after the first client | not modelled |
| Kernel modules, `Module 5/Lab 1, 2, 5` | Lab 2: a buffer with two counters | read, write, netlink answer | | not modelled |
| Contact list, `Module 2/Task 4.1, 6.1, 6.2` | a doubly linked list on the heap, a counter of ids | add, edit, delete, list | links at head, middle and end, freed addresses that come back | `ContactList` |
| Contact tree, `Module 2/Task 4.3` | a binary search tree on the heap | add, edit, delete, list | a node with two children, ids typed by the user | `ContactTree` |
| Contact array, priority queue, `Module 2/Task 2.1, 4.2` | arrays | add, edit, delete, take | sequential; the priority queue is undefined from its first insert | not modelled |
| `Task 8`, `Task 14`, `Task 16`, `Task 17` | | | their servers (Task 8: the program) do not compile | not modelled |
| Other exercises, `Module 1`, `Module 4` | none beyond one input, or data | | | not modelled |

The programs do not call one another. Their common ground is the pattern of the
number.txt programs, which is why they share the abstract specification
`NumberLog`.

## Modules

`NumberLog` is the promise: children produce numbers, the parent appends each
one to the file once and in order; values that nobody produced may appear only
when all producers are gone and everything they produced is in the file.
`SemReaders`, `PosixLog`, `ReadersCount` and `SignalPipe` each instantiate it
(`Log`) with a refinement mapping that takes "no producer is left" from the
children's states, and check `RecordsInOrder == Log!Spec`.

**Taxi.** `drivers` is the CLI's array, `cliQ` and `drvQ` are the queues,
`out` and `cliOut` hold a message while its sender is inside `msgsnd`, which
blocks while the queue is full. Every message type and every command is an
action. A queue identifier is not a descriptor, so a message wakes nobody; the
terminal does when the number of the identifier happens to be one of its
descriptors. The kernel chooses that number, hence `cliFd` is chosen in `Init`
and `drvFd` in `CreateDriver`. `RestartCli` and `KillDriver` are crashes.
`remaining` in the code is never counted down, and neither is it here.

**RawEcho.** `Deliver` puts a packet into the queue of every open socket that
has room. Each action of the server is one round of its loop: `Ignore`,
`Remove`, `Reply`, `TooManyClients`. A signal only clears the flag, because
`signal()` restarts the interrupted calls. `sent`, `by`, `k` and `leaked` are
history.

**Csum.** One action per word, one for the last odd byte with the byte behind
it, and the complement. The buffer's words are chosen step by step, so a
behaviour is a buffer.

**SemReaders.** `Semop` is the atomic operation on the set with its undo values,
`Exit` applies them. Kills happen at every point. **PosixLog** and
**ReadersCount** model a sequence of runs on semaphores that nobody removes;
`orphaned` records that a process ended while it held one. **SignalPipe** lets
handlers run between any two steps of the child; the test of `access_flag`
(`TestFlag`) and the entry into `pause` (`EnterPause`) are two of them, so a SIGUSR1
handled in between leaves the child asleep with the flag set. The other way to lose
the wake-up is a SIGUSR2 that is handled after a SIGUSR1 before the flag is tested.

**SelectServer.** `fds`, `max_fd` and `read_fds` are the server's, `conn`,
`backlog`, `peer` and `inbuf` the kernel's view. The second between answer and
prompt is a state, so clients act in it. The values of `peer` distinguish an
orderly end, a reset, and a write after the end. A client whose connection is closed
may connect again, and sends as long as the socket buffers take its lines, so the
clients never run out of things to do. `accept` takes the lowest free descriptor; it
fails when that is at the limit the server was started under (`AcceptFails`, EMFILE)
or for a reason outside the server (`AcceptRefused`: ENFILE, ENOBUFS, an error of the
network), and either ends the server for everyone. A descriptor below the limit but
beyond `FD_SETSIZE` is written behind `fds` (`AcceptBeyond`): nothing is said of the
program from there on. An unknown operator reads an indeterminate `result` and an
element behind the table: it may be answered or crash the server. `rude` and
`refused` are history: the connected clients whose exchange was cut short or made no
sense, and whether an accept failed for a reason outside.

**ContactList** and **ContactTree.** Both model the heap: fields are functions
from addresses, `alloc` is what `malloc` gave and `free` did not take back. Every
round of a loop (`current` moves) and every level of a recursion (`link`, the
pointer whose value the recursion returns, moves) is a step, so the properties
hold in the middle of an operation too. A command is answered when it returns;
then its local variables are gone. `ContactBook` is the promise of the list:
contacts found by id exactly when they are in use, ids given once, and listings
that show every contact once with its newest text; `ContactList` instantiates it
with a mapping in which a node that `insert` still works on is not yet a contact.
In the tree the user types the ids: one that is in use is dropped although "User
added" is printed, and editing one that is not in use crashes or is reported as
an update.

**LedTimer.** `led` says where `exit_module` is and `my_timer` where the callback
is; the two run on different CPUs, so each access to a shared variable is a step.
`value` is read twice by the callback. A load that fails in `sysfs_create_file`
leaves its directory, and no later load succeeds. `stale` is the timer of a module
that has been freed.

**CharDevice.** `file` is where each process is inside `device_open`,
`device_read` and `device_release`. The table of operations has no owner, so the
kernel takes no reference of its own: between the call of `device_open` and
`try_module_get`, and between `module_put` and the return, rmmod may free the
code; such a process is `dangling`, and its next step is an oops. What `got`
records is the message as seen through any sequence of short reads.

**SharedMinMax.** Every access of `generateNumbers`, the printing loop and
`findMinMax` to the segment is a step of its own, since a second of sleep orders
nothing. `fresh` is history: it tells reports whose numbers a whole pass has seen.
The parent's lines are mapped to Task 12, the child's to Task 13.

**PhoneBook.** `phonebook` is the sequence of characters of the file, and
`loadFromFile` cuts it up as `fscanf` does: white space, a sign, digits, a bar, at most
29 characters up to a bar, a bar, at most 29 up to a newline, white space. Each part
is an operator that says where it ends (`Stop`). What comes back is not always what
was saved. An empty text ends the loading. A bar in a name ends it early, and what
is left goes to the surname, as far as 29 characters go; the rest is the beginning of
the next record for `fscanf`. The record with id 1, name `a|` followed by 20 times
`b`, and surname `cccccccc7|x|y` is read as two: the second has id 7. `Plain` and
`Fits` say which records are safe from the one and the other, `Complete` which were
not cut short. A save is a truncation and one step per record; kills and a full disk,
which may leave a part of a record, fall between them. `saved` and `ends` are history:
the records behind the truncation and where each ends. An id is kept as its printed
digits.

**SysvChat** and **PosixChat.** Each start of a program gets the queue that has
the key or the name then; a removed System V queue makes calls fail that nobody
tests, an unlinked POSIX queue goes on for those who have it open. In Task 6 the
type 255 that says good-bye is asked for by nobody. In Task 7 prog2 says it with a
priority and prog1 looks for a text. End of file leaves the old text in the
buffer, and it is sent again.

`MCPrograms` puts these six and `Csum` side by side under one next-state relation;
`program`, chosen in `Init`, says which one a behaviour is about. The variables of
the others keep their initial values, so a property of one program is checked as
if it were alone.

Operators named as mutants in comments are deliberately wrong versions of the
definition below them; each property of each run is violated when its mutant
takes the place of the original.

## Runs

| Run | Instance | Shows |
|---|---|---|
| `taxi_two_drivers` | 2 drivers, table of 1, queues of 1, 1 restart | `NoDuplicateRegistration`, `HangsOnlyInMsgsnd`, `ForgottenForever` |
| `taxi_driver` | 1 driver, timers -1, 0, 2, queues of 2, 1 restart | `Coherent`, `TimerMatchesTask`, `TimerFrees`, `TypingDrains` |
| `raw_echo` | 1 client, 2 foreign senders, table of 2, 4 packets in total | `UniqueEntries`, `EntriesIsolated`, `ReplyIsLate` |
| `raw_echo_live` | 2 clients at a table of 1, 2 packets in total | `EntryFreed` |
| `sem_readers` | 3 readers, pipe of 2, 4 numbers | `MutualExclusion`, `PollNeverSpins`, `StopsOnlyOnPipe`, `RecordsInOrder`, `SectionEnds` |
| `posix_log` | 3 runs, pipe of 2, 4 numbers | `StopsOnlyOnPipe`, `LostForever`, `RecordsInOrder` |
| `readers_count` | 2 runs, pipe of 2, 4 numbers | `MutualExclusion`, `StopsOnlyOnFullPipe`, `EventuallyRecorded`, `RecordsInOrder` |
| `signal_pipe` | pipe of 2, 4 numbers | `StopsOnlyOnLostWakeup`, `RecordsInOrder` |
| `select_server` | 3 clients, backlog of 1, 1 line per socket, limits of 5 and 7 descriptors, an `fd_set` of 6 | `WatchesAll`, `NeverBlocks`, `StopsOnlyOnFaultOrLimit`, `Served` |
| `contact_list` | 3 addresses, 4 contacts, 2 texts | `WellLinked`, `ImplementsBook` |
| `contact_tree` | 5 addresses, 5 ids, 2 texts | `SearchTree`, `OnlyTypedId` |
| `programs` | one of seven programs, see Bounds | `CleanUnload`, `SessionIntact`, `ReportRight`, `StartsFromSaved`, `LinesHeard`, `TurnTaking`, `Verifies` |

All runs pass. Several properties describe limits of the programs rather than
their absence: `ForgottenForever`, `LostForever`, `ReplyIsLate` and the `Stops...`
and `Hangs...` properties say exactly when a program gets stuck and that it does
so in no other way. `CleanUnload`, `ReportRight`, `LinesHeard` and `SessionIntact`
name the one condition under which the code keeps its promise: `del_timer` meets
no running callback; the child sleeps when the numbers are complete and passes
over them once; second is started once on a queue; the reference was obtained.
Without the condition TLC refutes each of them: the race of `del_timer`, the pass
that overlaps the generation and the file without a reference do go wrong in the
code, and no property here says that they do not. The number in `shm[count]` that no
round generates counts as printed in `ReportRight`, as it does in the program.
`StopsOnlyOnFaultOrLimit` likewise lists what ends the select server: a fault of a
client, an accept that is refused or at the limit, and the idle timeout.

The `Stops...` and `Hangs...` properties are about states in which no process can
move, hence the runs do not ask TLC for deadlocks as such. `Step` is what the
processes do by themselves (in `Taxi` with typing and time), without kills, restarts
and reruns, so a state that only a crash can change counts as a stop. `Stopped` spells
out, place by place, what each process waits for. Each property has two parts:
`~ENABLED Step => Stopped`, that nothing else makes a process wait, and
`Only...Stops`, that of all the combinations of waits only the named ones occur.

**Bounds.** A pipe and a queue of one or two already are empty, partly full and full.
More numbers than the pipe holds make it fill, drain and fill again. Two runs show
what a first one leaves to a second; the third of `posix_log` shows that the loss is
permanent. Two addresses and a table of one or two reach "too many clients" and the
reuse of an entry. In `taxi_two_drivers` the table of one is what the second
registration finds full; `NoDuplicateRegistration` is violated there as soon as a
listed driver has a second REGISTER on its way, which every double listing passes
through, and `NeverListedTwice` proves it for tables and queues of any size. Three
clients at the select server give a ready connection during an accept, two that are
connected while a third waits, and descriptors freed and reused. They connect, send
and leave without end: `INBUF` bounds the lines of one client that wait in the socket
buffers, as the window of TCP does, and not the lines it sends, so that a server which
forgot a ready descriptor would be caught by `Served`. A limit of 5 lets one of the
three connect and the accept of a second one fail; with 7 two connect and the third
gets descriptor 6, for which an `fd_set` of 6 has no bit (the defaults, 1024 of each,
make the two limits meet). Nothing is modelled after the server's end. Three addresses
for four contacts give removals in the middle and the reuse of an address behind each
of them; five ids give every shape of tree in which the successor of a deleted node
lies deep or has a child of its own. In `programs` two openers and three messages give
a refused open, a reopened device and an unload between; counts of 2 and 3 put the
results of one round into the cells of the next, and two numbers give a minimum that
differs from the maximum; three elements exceed by one the two records that the phone
book (`MAX_LENGHT_STRUCT`) loads, and the people typed are plain, have no surname, or
have a bar in a name that is too long for it, and what is over of the last one is a
plain record with another id. There a text has 6 characters in place of 29, so that a
record can be cut into two as in the example above, and a save can be cut short at
every character; two starts of each chat program give a partner that outlives the
queue and one that joins an old queue; four words around the carry give several
carries and an odd byte. `MaxNumbers`, `MaxPackets`, `MaxRuns`, `MaxRestarts`,
`MaxOpens`, `MaxJoins`, `MaxWords` and `MaxContacts` bound otherwise endless programs
and occur in guards only; where reaching such a bound looks like a stop, the property
names it (`AtBound`). Timers of -1, 0 and 2 are the three cases of `timerfd_settime`
with a tick before expiry. Symmetry is used in runs without liveness only, over
drivers, foreign senders and the addresses of tree nodes, which the specifications do
not tell apart.

**Fairness.** Weak fairness of the steps of each process: the scheduler runs what can
run. Nothing is assumed of users, killers, signals, or clients, with one exception:
`Taxi` assumes an operator who keeps typing, because only the terminal can wake its
processes. `TimerExpires` is strongly fair: `epoll_wait` asks for two events, and only
the queue and the timer are registered, so an expired timer is part of the next batch
however busy the queue is. The idle timeout of the select server is not fair: sixty
seconds may always be cut short. In `SysvChat` only the calls that need no user are
fair: nobody has to type, so `LinesHeard` cannot rest on an answer.

## Proofs

The theorems hold for every value of the constants that meets the named
assumptions. An invariant that a run checks is seldom inductive; the definition
named here is the one that is, and the text says what it adds.

**`TaxiProofs`**

* `TypeCorrect`, `NeverListedTwice`. A duplicate would come from a second REGISTER:
  `RegInv` adds that a driver has at most one REGISTER in the queue or in its
  mailbox, never together with an entry, that a mailbox holds only its owner's
  messages, and that a process that was not forked has left no trace.
* `NeverListedAgain` (`ForgottenForever`, an action property) follows from `RegInv`:
  only the one REGISTER of a driver creates its entry.
* `TableCoherent`. `TableInv` adds that a driver whose registration is on its way is
  idle: only then is the entry `Register` creates, with remaining time 0, right.
* `TimerAlwaysMatches`. `TimerInv` says it from before the fork on, and adds that an
  armed timer stops at 0; a task of 0 or less never arms one.
* `OnlyMsgsndStopsTaxi`, `StoppedForGoodTaxi`, see below. `TargetForked` adds to
  `RegInv` that the CLI sends only to drivers it has forked.

**`NumberLogProofs`** holds what the four refinements of `NumberLog` share. A number
is produced, in the pipe, in the parent's hands, in the file: `OnTheWay` says that
`produced` is these three laid end to end, where the places of the parent in which
it holds a number (`Hold`) and those in which it does not (`Free`) differ from
program to program. `WayStep` lists what a step may do to this state, `WayKept`
shows that such a step keeps `OnTheWay` and is a step or a stutter of `NumberLog`.
`LogInOrder` says what the promise amounts to: the k-th entry of the file is the k-th
number produced, and the file is not longer than what was produced while a producer is
left. Each program's module instantiates all this as `Way`, has only to show that its
actions are such steps, and gets `...File`, the same of its own pipe and file:

* `SemReadersProofs`: `SemReadersInOrder`; `Exclusion`, `NeverLost`, `NeverSpins`.
  `LockInv` ties the undo value of each process to its place in the program and the
  semaphores to the existence of a process inside. From it
  `OnlyThePipeStopsTask9` has that a mutex at 0 is held by somebody alive inside, who
  can only be at the pipe; `Amounts` says what the pipe may hold.
* `PosixLogProofs`: `PosixLogInOrder`; `TokenLostForever` (`LostForever`). `Token`
  says that the semaphore and the processes in their sections make at most one, and
  none once somebody has ended inside; later runs find 0 and never get further.
  `OnlyThePipeStopsTask10` adds `TokenHeld`, the converse: a token that is gone is
  held by a process inside, or went with one.
* `ReadersCountProofs`: `ReadersCountInOrder`; `CountExclusion`. `CountInv` says
  which places of the child go with which count and with `readers_mutex` taken, also
  on semaphores that an earlier run left at 0. `OnlyAFullPipeStopsTask11` adds `Held`:
  a semaphore at 0 has a holder, or was orphaned.
* `SignalPipeProofs`: `SignalPipeInOrder`, whatever signals are lost or merged;
  `OnlyALostWakeupStopsTask5`. `Course` adds that the parent has closed its own
  write end before it looks for a second number, so that a child that is gone leaves
  end of file from then on.

**Stops.** `ENABLED` is beyond the prover, `Stopped` is not. For the five programs
`Only...Stops...` proves the second part of each property above for every value of the
constants: no number of processes, no capacity and no sequence of kills adds another
deadlock. `StoppedForGood...` proves that `Stopped` admits no step of any process, so
`Stopped` says no less than that nothing can move. That it says no more, the first
part, is left to TLC; each guard is in `Stopped` word for word.

**`MainLoopProofs`**, the two programs that are one loop around a table or a list:

* `AlwaysWellLinked`, `AlwaysAppends`. `ListInv` adds that a node that is being
  inserted is not linked and has an id greater than all others. When the head is
  removed and has no successor the list must be empty: the node with the smallest id
  among the others would have a predecessor with a smaller one (`OnlyNode`, from the
  well-foundedness of the naturals). Ids only grow, so the branches of `insert` for
  the head and the middle are dead code.
* `ListImplementsBook`, the refinement of `ContactBook`. The invariant adds that a
  search has passed only ids that are not the one it looks for, and that a listing
  has shown exactly the contacts with smaller ids. A step along `next` passes one
  contact only, because no id lies between two neighbours (`NoGap`, again from
  well-foundedness).
* `AllWatched`, `LoopNeverBlocks`, `StopsTask18`. `SelectInv` adds that a
  client is in one place only, a descriptor or the backlog, so a descriptor that is
  closed and reused within a scan is not in the rest of the copy; and that a client
  outside `rude` is not reset, sends only lines that can be calculated and is still
  there when it is written to (`Polite`). Since `accept` takes the lowest free
  descriptor, it fails for want of one only when all usable ones are taken.

**`ProgramsProofs`**, the programs whose state is small:

* `FoldCorrect`, `ChecksumGood`. `CsumInv` says that the folded sum differs from the
  plain sum by one 65535 per carry and is 0 only for a buffer of zeros, from which
  the complement verifies if and only if the stray byte is 0.
* `UnloadsCleanly`. `LedInv` adds that from `del_timer` on the timer is idle unless it
  raced, which `CleanUnload` says only once the LEDs are restored.
* `SessionsIntact`. `DevInv` adds that the flag has one owner, that `refcnt` is the
  number of files that took a reference, which are all open ones until rmmod begins,
  and that nobody is inside a module that is gone.
* `TurnsKept`. The users at the prompt are counted as a sum (`Turn`); a send gives the
  turn to the queue, a receive takes it back.
* `SysvChatTurns`, the invariant inside `LinesHeard`. `Conversation` counts the lines in
  the queue together with the programs at their prompts: none before second is started
  on the queue (`Silence`), then one at most (`OneLine`). Good-byes do not count, and a
  program whose queue was removed is at no prompt of the new one; that first never
  outlives its queue, since only first removes it, is part of `SysvTypes`.
* `ReportAlwaysRight`. `ShmInv` follows the child through its pass: once the numbers
  are complete, `cmin` and `cmax` are those of the cells it has passed (`Folded`), and
  no write of the parent falls into these cells before the report.
* `SavesReload` (`StartsFromSaved`). `InFile` says that the file is the lines of the
  records written since it was truncated, one behind the other, the last one perhaps
  cut short (`FileHolds`). `Shape` says how `fscanf` takes apart a line whose texts fit
  (`WholeLine`), and `Cut` and `NextRead` that a part of one yields one record at
  most. `InStep` follows the loading: as long as the records fit, one line was read
  for each element of the array and the next read begins at the next line;
  `SameSoFar` says that the plain ones came back as they were.
* `EntriesUnique`, `EntriesUndisturbed`, `ReplyAlwaysLate`. `EchoInv` adds that what a
  waiting client finds first in its socket's queue is a packet to the server or an
  answer to an earlier line (`StaleFirst`): its own packet came in before any reply.
* `AlwaysSearchTree`, `OnlyTypedIdTouched`. An induction on trees is not to be had;
  `Subtree` is the least set that is closed under children, and the lemmas on it (a
  subtree unfolds, has no way back to its node, gains a leaf, loses a node) use only
  that. `TreeInv` adds to `SearchTree` that ids are unique but for the minimum that is
  being deleted, that a node with the id looked for is below the recursion
  (`Searched`, `Target`), that the place of a new node is on the right side of every
  node above (`Path`), and that `findMin` has passed greater ids only (`Least`).

The assumptions are on types and ranges: capacities of at least one message, at least
one reader and one text, `"writer"` is no reader and no foreign address is the
server's, people are records of a number and two texts of at most `WIDTH` characters, the
characters are at least those that the formats name, the limits on descriptors leave
room for the listening socket, the counts of Task 12 are at
least 2 and bounded. The code justifies each: arrays, pipes and `2 + rand() % 5`
have these ranges. Fairness is not used; the theorems are about the safety part of
each specification.

Only model-checked, since the prover handles neither `ENABLED` nor fairness:

* that a program which cannot move is `Stopped`, the first part of
  `HangsOnlyInMsgsnd`, `StopsOnlyOnPipe` (twice), `StopsOnlyOnFullPipe` and
  `StopsOnlyOnLostWakeup`;
* liveness: `TimerFrees`, `TypingDrains`, `SectionEnds`, `EventuallyRecorded`,
  `EntryFreed`, `Served`, and the leads-to in `LinesHeard`.

Everything else that a run checks is a theorem. `TypeOK` of `Taxi`, `MutexNotLost` of
`SemReaders`, `FoldIsOnes` of `Csum` and the statement of `AlwaysAppends` are proved
and, being lemmas of what the runs check, not repeated there. No module uses
`RECURSIVE`, so all can be proved about.

## Not modelled

Text and its layout; the values the calculators print; header bytes of raw packets;
`fgets` on lines of more than 49 characters and on piped input; reuse of process ids;
several instances of Task 9 at a time; failing `fork`, `pipe` and `socket` calls at
start-up, which end the program before it has state; limits of the queues of Tasks 6
and 7, which a chat does not come near; the count of rounds of Tasks 12 and 13; a new
run of these while the child of an old one is alive. For the phone book: a full disk
on which there is room again for the next record of the same save; ids beyond the
range of `int`; white space other than blank, tab and newline. For the select server:
what it does after it has written behind `fds`. A failing `fopen` for appending in
Tasks 5 and 9 is the same step as a kill there. The components table of `PROJECT.json`
lists every other part with its reason.

## Plan

Done: `Taxi`, `NumberLog` with its four implementations, `RawEcho`, `Csum`,
`SelectServer`, `ContactBook` with `ContactList`, `ContactTree`, the six programs of
`MCPrograms`, and a proof of every safety property, of which only the part that speaks
of `ENABLED` is left to TLC. What could be added is small: the fork of Task 15, the
array of Task 2.1 and the buffer of Lab 2.
