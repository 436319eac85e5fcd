---------------------------- MODULE SelectServer ----------------------------
(***************************************************************************)
(* "Module 3/Task 18": a calculator for many TCP clients in one thread.    *)
(* The server keeps the descriptors it watches in an fd_set, copies it     *)
(* before every select and then walks through the copy.  After an answer   *)
(* it sleeps for a second and writes the prompt, and in that second the    *)
(* clients go on.  Every failure of an accept, a read or a write ends the  *)
(* server for all clients.                                                 *)
(***************************************************************************)
EXTENDS Integers, Sequences, FiniteSets

CONSTANTS
    Client,
    BACKLOG,    \* connections that wait for accept; listen(sockfd, 5)
    INBUF,      \* lines of a client that fit the socket buffers
    NOFILE,     \* limits on descriptors the server may be started under
    FD_SETSIZE  \* descriptors an fd_set has room for

sockfd == 3
None == "none"

ASSUME SelectServerAssumption ==
    /\ IsFiniteSet(Client) /\ "none" \notin Client
    /\ BACKLOG \in Nat \ {0} /\ INBUF \in Nat \ {0}
    /\ NOFILE \subseteq {n \in Nat : n > sockfd}
    /\ FD_SETSIZE \in {n \in Nat : n > sockfd}

\* As many descriptors as connections can be accepted at one time.
Fd == sockfd + 1 .. sockfd + Cardinality(Client)

VARIABLES
    server,     \* "select", "scan", "prompt" (in sleep), "down", or "undefined":
                \* it has written behind fds
    nofile,     \* RLIMIT_NOFILE
    fds, max_fd,
    read_fds,   \* descriptors of the copy that the for loop has not reached
    cur,        \* i, the descriptor whose prompt is due while it sleeps
    conn,       \* kernel: the client connected at each descriptor
    backlog,    \* kernel: connections not yet accepted
    peer,       \* kernel: the client's end of its connection
    inbuf,      \* kernel: lines the server has not read
    rude,       \* history: clients whose connection was left, or wrote
                \* nonsense, in mid-exchange
    refused     \* history: accept failed for no fault of the descriptors

selectVars == <<server, nofile, fds, max_fd, read_fds, cur, conn, backlog, peer,
                inbuf, rude, refused>>
netVars == <<backlog, inbuf, rude>>
setVars == <<fds, max_fd, conn>>
envVars == <<nofile, refused>>

\* The server has ended, or nothing can be said of it any more.
Ended == server \in {"down", "undefined"}

SelectInit ==
    /\ server = "select" /\ nofile \in NOFILE
    /\ fds = {sockfd} /\ max_fd = sockfd
    /\ read_fds = {} /\ cur = sockfd
    /\ conn = [i \in Fd |-> None]
    /\ backlog = <<>>
    /\ peer = [c \in Client |-> "off"]
    /\ inbuf = [c \in Client |-> <<>>]
    /\ rude = {} /\ refused = FALSE

-----------------------------------------------------------------------------
(* The clients and the network.                                            *)
(*   "open"    the client is there;                                        *)
(*   "closed"  its FIN has arrived;                                        *)
(*   "doomed"  the server has written since, which the other side answers  *)
(*             with RST;                                                   *)
(*   "broken"  that RST has arrived: a write fails, a read still ends;     *)
(*   "reset"   an RST came without FIN: read and write fail.               *)

Connect(c) ==
    /\ peer[c] = "off" /\ ~Ended /\ Len(backlog) < BACKLOG
    /\ peer' = [peer EXCEPT ![c] = "open"]
    /\ backlog' = Append(backlog, c)
    /\ UNCHANGED <<server, setVars, read_fds, cur, inbuf, rude, envVars>>

\* A line is sent; "odd" is one whose operator is not one of + / * -.
SendLine(c) ==
    /\ peer[c] = "open" /\ ~Ended /\ Len(inbuf[c]) < INBUF
    /\ \E text \in {"line", "odd"} :
         /\ inbuf' = [inbuf EXCEPT ![c] = Append(@, text)]
         /\ rude' = IF text = "odd" THEN rude \cup {c} ELSE rude
    /\ UNCHANGED <<server, setVars, read_fds, cur, backlog, peer, envVars>>

\* The client has had the greeting and the prompt after its last line.
Idle(c) ==
    /\ \E i \in Fd : conn[i] = c /\ ~(server = "prompt" /\ cur = i)
    /\ inbuf[c] = <<>>

\* The client's process ends; with unread data its kernel sends RST.
Leave(c) ==
    /\ peer[c] = "open" /\ ~Ended
    /\ \/ /\ peer' = [peer EXCEPT ![c] = "closed"]
          /\ rude' = IF Idle(c) THEN rude ELSE rude \cup {c}
       \/ peer' = [peer EXCEPT ![c] = "reset"] /\ rude' = rude \cup {c}
    /\ UNCHANGED <<server, setVars, read_fds, cur, backlog, inbuf, envVars>>

RstArrives(c) ==
    /\ peer[c] = "doomed" /\ ~Ended
    /\ peer' = [peer EXCEPT ![c] = "broken"]
    /\ UNCHANGED <<server, setVars, read_fds, cur, netVars, envVars>>

-----------------------------------------------------------------------------
(* The server. *)

HasInput(i) ==
    IF i = sockfd THEN backlog # <<>>
    ELSE conn[i] # None /\ (inbuf[conn[i]] # <<>> \/ peer[conn[i]] # "open")

\* What select(max_fd + 1, ..) finds readable.
Ready == {i \in fds : i <= max_fd /\ HasInput(i)}

\* write to client c: refused after RST; after FIN it provokes RST.
CanWrite(c) == peer[c] \in {"open", "closed", "doomed"}
Written(c) == [peer EXCEPT ![c] = IF @ = "closed" THEN "doomed" ELSE @]

\* exit, or a fatal signal: the kernel closes every descriptor.
CloseAll ==
    /\ server' = "down"
    /\ conn' = [i \in Fd |-> None]
    /\ fds' = {} /\ read_fds' = {} /\ backlog' = <<>>
    /\ UNCHANGED <<max_fd, cur, peer, inbuf, rude, nofile>>
Down == CloseAll /\ UNCHANGED refused

\* Mutant: the for loop tests fds and not its copy.
SelectAll ==
    /\ server = "select" /\ Ready # {}
    /\ read_fds' = fds
    /\ server' = "scan"
    /\ UNCHANGED <<setVars, cur, peer, netVars, envVars>>

Select ==
    /\ server = "select" /\ Ready # {}
    /\ read_fds' = Ready
    /\ server' = "scan"
    /\ UNCHANGED <<setVars, cur, peer, netVars, envVars>>

\* Sixty seconds without input.
Timeout == server = "select" /\ Ready = {} /\ Down

\* The for loop reaches descriptor i of the copy.
At(i) == server = "scan" /\ i \in read_fds /\ \A j \in read_fds : i <= j

\* Mutant: only the first ready descriptor is served.
RestNone(i) == {}
Rest(i) == read_fds \ {i}
AfterScan(i) == IF Rest(i) = {} THEN "select" ELSE "scan"

\* The new max_fd and the new fd_set.
MaxFd(fd) == IF fd > max_fd THEN fd ELSE max_fd
FdSet(fd) == fds \cup {fd}

\* accept would return fd, the lowest descriptor that is free.
Lowest(fd) == conn[fd] = None /\ \A j \in Fd : conn[j] = None => fd <= j

\* A descriptor the kernel may hand out and fds has a bit for.
Usable(fd) == fd < nofile /\ fd < FD_SETSIZE

Incoming == At(sockfd) /\ backlog # <<>>

\* accept, FD_SET, then the greeting.
Accept ==
    /\ Incoming /\ CanWrite(Head(backlog))
    /\ \E fd \in Fd :
         /\ Lowest(fd) /\ Usable(fd)
         /\ conn' = [conn EXCEPT ![fd] = Head(backlog)]
         /\ fds' = FdSet(fd)
         /\ max_fd' = MaxFd(fd)
    /\ peer' = Written(Head(backlog))
    /\ backlog' = Tail(backlog)
    /\ read_fds' = Rest(sockfd)
    /\ server' = AfterScan(sockfd)
    /\ UNCHANGED <<cur, inbuf, rude, envVars>>

GreetingFails ==
    /\ Incoming /\ ~CanWrite(Head(backlog))
    /\ \E fd \in Fd : Lowest(fd) /\ Usable(fd)
    /\ Down

\* EMFILE: accept has no descriptor left to return.
AcceptFails ==
    /\ Incoming
    /\ \E fd \in Fd : Lowest(fd) /\ fd >= nofile
    /\ Down

\* ENFILE, ENOBUFS or an error of the network, whatever the server holds.
AcceptRefused == Incoming /\ CloseAll /\ refused' = TRUE

\* FD_SET of a descriptor fds has no bit for writes behind it.
AcceptBeyond ==
    /\ Incoming
    /\ \E fd \in Fd : Lowest(fd) /\ fd < nofile /\ fd >= FD_SETSIZE
    /\ server' = "undefined"
    /\ UNCHANGED <<setVars, read_fds, cur, peer, netVars, envVars>>

\* read returns 0.  Mutant: the bit stays in fds.
ReadEofKeepsBit(i) ==
    /\ At(i) /\ i # sockfd /\ conn[i] # None
    /\ inbuf[conn[i]] = <<>> /\ peer[conn[i]] \in {"closed", "doomed", "broken"}
    /\ conn' = [conn EXCEPT ![i] = None]
    /\ read_fds' = Rest(i)
    /\ server' = AfterScan(i)
    /\ peer' = [peer EXCEPT ![conn[i]] = "off"]
    /\ rude' = rude \ {conn[i]}
    /\ UNCHANGED <<fds, max_fd, cur, backlog, inbuf, envVars>>

\* The connection is closed on both sides; the client may connect again.
ReadEof(i) ==
    /\ At(i) /\ i # sockfd /\ conn[i] # None
    /\ inbuf[conn[i]] = <<>> /\ peer[conn[i]] \in {"closed", "doomed", "broken"}
    /\ fds' = fds \ {i}
    /\ conn' = [conn EXCEPT ![i] = None]
    /\ read_fds' = Rest(i)
    /\ server' = AfterScan(i)
    /\ peer' = [peer EXCEPT ![conn[i]] = "off"]
    /\ rude' = rude \ {conn[i]}
    /\ UNCHANGED <<max_fd, cur, backlog, inbuf, envVars>>

\* Mutant: 0 is taken for an error.
ReadFailsOnEof(i) ==
    /\ At(i) /\ i # sockfd /\ conn[i] # None
    /\ inbuf[conn[i]] = <<>> /\ peer[conn[i]] # "open"
    /\ Down

\* read returns -1: the connection was reset.
ReadFails(i) ==
    /\ At(i) /\ i # sockfd /\ conn[i] # None
    /\ inbuf[conn[i]] = <<>> /\ peer[conn[i]] = "reset"
    /\ Down

\* read returns all that has arrived; sscanf looks at the first line only,
\* and lines read together with it are lost.
Takes(i) == At(i) /\ i # sockfd /\ conn[i] # None /\ inbuf[conn[i]] # <<>>

\* calculate: whatever the line says, one answer is written.
Answer(i) ==
    /\ Takes(i) /\ CanWrite(conn[i])
    /\ inbuf' = [inbuf EXCEPT ![conn[i]] = <<>>]
    /\ peer' = Written(conn[i])
    /\ read_fds' = Rest(i)
    /\ cur' = i
    /\ server' = "prompt"
    /\ UNCHANGED <<setVars, backlog, rude, envVars>>

AnswerFails(i) == Takes(i) /\ ~CanWrite(conn[i]) /\ Down

\* An unknown operator: result is indeterminate and operation[4] is read
\* behind the table.  The program may answer anything, or crash.
Crash(i) == Takes(i) /\ Head(inbuf[conn[i]]) = "odd" /\ Down

\* sleep(1) is over.
Prompt ==
    /\ server = "prompt" /\ CanWrite(conn[cur])
    /\ peer' = Written(conn[cur])
    /\ server' = IF read_fds = {} THEN "select" ELSE "scan"
    /\ cur' = sockfd
    /\ UNCHANGED <<setVars, read_fds, netVars, envVars>>

PromptFails == server = "prompt" /\ ~CanWrite(conn[cur]) /\ Down

-----------------------------------------------------------------------------
ServerStep ==
    \/ Select \/ Accept \/ GreetingFails \/ AcceptFails \/ AcceptRefused \/ AcceptBeyond
    \/ Prompt \/ PromptFails
    \/ \E i \in Fd : ReadEof(i) \/ ReadFails(i) \/ Answer(i) \/ AnswerFails(i) \/ Crash(i)

SelectNext ==
    \/ \E c \in Client : Connect(c) \/ SendLine(c) \/ Leave(c) \/ RstArrives(c)
    \/ ServerStep \/ Timeout

SelectSpec == SelectInit /\ [][SelectNext]_selectVars

\* The server is scheduled while select finds something.  Nobody has to
\* connect, send or leave, and the sixty seconds may never be over.
FairSelectSpec == SelectSpec /\ WF_selectVars(ServerStep)

-----------------------------------------------------------------------------
\* The fd_set agrees with the kernel's descriptors, through closes and reuse of
\* their numbers: a closed one would make select fail (EBADF) and end the
\* server, one above max_fd would never be heard, and one above FD_SETSIZE lies
\* outside the set (server.c:88, 105-106, 117).
WatchesAll ==
    ~Ended =>
        /\ fds = {sockfd} \cup {i \in Fd : conn[i] # None}
        /\ \A i \in fds : i <= max_fd /\ Usable(i)

\* The copy that select filled is still right when the loop gets to it, after
\* an accept, closes and seconds of sleep: neither accept nor read can block
\* the only thread (server.c:97-115).
NeverBlocks ==
    /\ server \in {"scan", "prompt"} => \A i \in read_fds : HasInput(i)
    /\ server = "prompt" => cur \in Fd /\ conn[cur] # None /\ cur \notin read_fds

\* accept is due, and every descriptor that can be used is taken.
AtLimit == At(sockfd) /\ \A fd \in Fd : Usable(fd) => conn[fd] # None

\* Clients that leave between their exchanges never stop the server, however
\* often they come back: but for the idle timeout and an accept the kernel
\* refuses, it ends only while a client that was reset, left in mid-exchange or
\* sent an undefined operator is still connected, or when one more connection
\* comes than it has descriptors for (server.c:93-138).
StopsOnlyOnFaultOrLimit ==
    [][~Ended /\ Ended' /\ rude = {} /\ ~refused' => server = "select" \/ AtLimit]_selectVars

\* Every line is read, and every waiting connection accepted, unless the
\* server ends: clients that send and come back without end do not starve
\* another one (server.c:97-138).
Served ==
    \A c \in Client :
        (inbuf[c] # <<>> \/ \E k \in 1 .. Len(backlog) : backlog[k] = c)
            ~> (Ended \/ (\E i \in Fd : conn[i] = c /\ inbuf[c] = <<>>))
=============================================================================
