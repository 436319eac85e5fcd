------------------------------- MODULE RawEcho ------------------------------
(***************************************************************************)
(* "Additional Tasks/Task 1": an echo server and its clients on raw UDP    *)
(* sockets.  A raw socket receives a copy of EVERY UDP packet that arrives *)
(* at the host, the packets its own process sends over loopback included,  *)
(* and each side filters by destination port.  All clients of the program  *)
(* use one source address, 127.0.0.1:54321, so they share one entry of the *)
(* server's table.  Header layout and checksums are left out (see Csum).   *)
(***************************************************************************)
EXTENDS Integers, Sequences

CONSTANTS
    Client,        \* client processes
    Foreign,       \* addresses of other UDP senders on the host
    MAX_CLIENTS,   \* entries of the server's table
    RCVBUF,        \* packets a socket queues before the kernel drops them
    MaxPackets     \* bound: packets with a line, sent by clients and foreigners

ASSUME RawEchoAssumption ==
    /\ MAX_CLIENTS \in Nat
    /\ RCVBUF \in Nat
    /\ MaxPackets \in Nat
    /\ "server" \notin Client
    /\ {"server", "client", "none"} \cap Foreign = {}

Server == "server"     \* the server's address and its socket
Own    == "client"     \* the address of every client
Empty  == "none"       \* ip 0, port 0: an unused entry
Socket == Client \cup {Server}

VARIABLES
    clients,         \* the server's table
    server,          \* "up" or "stopped"
    server_running,  \* 0 once a signal has been handled
    rcv,             \* packets queued at each socket
    client,          \* "off", "fgets", "recv", "close" or "stopped"
    client_running,  \* 0 once a signal has been handled
    sent,            \* history: the number of each client's newest message
    packets,         \* history: lines sent to the server
    leaked           \* history: a packet for the server was not delivered

vars == <<clients, server, server_running, rcv, client, client_running, sent, packets, leaked>>

Slot == 1 .. MAX_CLIENTS

\* by and k tag a message (by = sender, k = its number) and the reply to it;
\* they are history, the code has no such field.
Packet(from, to, text, n, by, k) ==
    [from |-> from, to |-> to, text |-> text, n |-> n, by |-> by, k |-> k]

Init ==
    /\ clients = [i \in Slot |-> [addr |-> Empty, count |-> 0]]
    /\ server = "up"
    /\ server_running = 1
    /\ rcv = [s \in Socket |-> <<>>]
    /\ client = [c \in Client |-> "off"]
    /\ client_running = [c \in Client |-> 1]
    /\ sent = [c \in Client |-> 0]
    /\ packets = 0
    /\ leaked = FALSE

\* The socket exists.
Open(s) == IF s = Server THEN server = "up" ELSE client[s] \in {"fgets", "recv", "close"}

\* sendto: the packet reaches every open raw socket that has room in queue q.
Deliver(p, q) ==
    /\ rcv' = [s \in Socket |->
                 IF Open(s) /\ Len(q[s]) < RCVBUF THEN Append(q[s], p) ELSE q[s]]
    /\ leaked' = (leaked \/ (p.to = Server /\ Len(q[Server]) >= RCVBUF))

\* sendto fails: perror, and the program goes on.
NotSent(p, q) == rcv' = q /\ leaked' = (leaked \/ p.to = Server)

-----------------------------------------------------------------------------
(* A client. *)

StartClient(c) ==
    /\ client[c] = "off"
    /\ client' = [client EXCEPT ![c] = "fgets"]
    /\ UNCHANGED <<clients, server, server_running, rcv, client_running, sent, packets, leaked>>

\* while (client_running)
LoopTest(c) == IF client_running[c] = 1 THEN "fgets" ELSE "close"

\* A line is read and sent.  A user may type the text CLOSE_CONNECTION.
SendLine(c) ==
    /\ client[c] = "fgets" /\ packets < MaxPackets
    /\ packets' = packets + 1
    /\ sent' = [sent EXCEPT ![c] = packets + 1]
    /\ \E text \in {"text", "CLOSE_CONNECTION"} :
         Deliver(Packet(Own, Server, text, 0, c, packets + 1), rcv)
    /\ client' = [client EXCEPT ![c] = "recv"]
    /\ UNCHANGED <<clients, server, server_running, client_running>>

\* An empty line, or a sendto that fails: back to the test of the loop.
NothingSent(c) ==
    /\ client[c] = "fgets"
    /\ client' = [client EXCEPT ![c] = LoopTest(c)]
    /\ UNCHANGED <<clients, server, server_running, rcv, client_running, sent, packets, leaked>>

\* recvfrom returns the oldest packet, whosever it is, and prints it if it is
\* for the client's port.
Prints(c) == client[c] = "recv" /\ rcv[c] # <<>> /\ Head(rcv[c]).to = Own

\* Mutant: the client goes on receiving until it has printed something.
ReceiveUntilPrinted(c) ==
    /\ client[c] = "recv" /\ rcv[c] # <<>>
    /\ rcv' = [rcv EXCEPT ![c] = Tail(@)]
    /\ client' = [client EXCEPT ![c] = IF Prints(c) THEN LoopTest(c) ELSE "recv"]
    /\ UNCHANGED <<clients, server, server_running, client_running, sent, packets, leaked>>

Receive(c) ==
    /\ client[c] = "recv" /\ rcv[c] # <<>>
    /\ rcv' = [rcv EXCEPT ![c] = Tail(@)]
    /\ client' = [client EXCEPT ![c] = LoopTest(c)]
    /\ UNCHANGED <<clients, server, server_running, client_running, sent, packets, leaked>>

\* Mutant: the client ends without a word.
CloseSilently(c) ==
    /\ client[c] = "close"
    /\ client' = [client EXCEPT ![c] = "stopped"]
    /\ UNCHANGED <<clients, server, server_running, rcv, client_running, sent, packets, leaked>>

\* send_close_message, then the socket is closed.
CloseClient(c) ==
    /\ client[c] = "close"
    /\ LET p == Packet(Own, Server, "CLOSE_CONNECTION", 0, c, 0) IN
         Deliver(p, rcv) \/ NotSent(p, rcv)
    /\ client' = [client EXCEPT ![c] = "stopped"]
    /\ UNCHANGED <<clients, server, server_running, client_running, sent, packets>>

\* SIGINT or SIGTERM: signal() restarts fgets and recvfrom, so only the flag
\* changes.
SignalClient(c) ==
    /\ client_running[c] = 1 /\ client[c] # "off"
    /\ client_running' = [client_running EXCEPT ![c] = 0]
    /\ UNCHANGED <<clients, server, server_running, rcv, client, sent, packets, leaked>>

-----------------------------------------------------------------------------
(* Another sender on the host sends to the server's port. *)
ForeignSend(a) ==
    /\ packets < MaxPackets
    /\ packets' = packets + 1
    /\ \E text \in {"text", "CLOSE_CONNECTION"} :
         Deliver(Packet(a, Server, text, 0, a, 0), rcv)
    /\ UNCHANGED <<clients, server, server_running, client, client_running, sent>>

-----------------------------------------------------------------------------
(* The server: each action is one round of its loop. *)

Known(a) == {i \in Slot : clients[i].addr = a}
First(S, i) == i \in S /\ \A j \in S : i <= j

\* The entry for a packet of address a: the one find_client_index returns, or
\* the one add_client fills.  Mutants: the search is left out; a full table
\* gives up its first entry.
EntryAlwaysNew(a, i) == First(Known(Empty), i)
EntryEvicts(a, i) ==
    \/ First(Known(a), i)
    \/ Known(a) = {} /\ First(Known(Empty), i)
    \/ Known(a) = {} /\ Known(Empty) = {} /\ i = 1
Entry(a, i) == IF Known(a) # {} THEN First(Known(a), i) ELSE First(Known(Empty), i)

\* recvfrom returned a packet; afterwards while (server_running) is tested.
Round ==
    /\ server = "up" /\ rcv[Server] # <<>>
    /\ server' = IF server_running = 1 THEN "up" ELSE "stopped"
    /\ UNCHANGED <<server_running, client, client_running, sent, packets>>

Rest == [rcv EXCEPT ![Server] = Tail(@)]
Arrived == Head(rcv[Server])

\* A packet for another port: the copy of a reply.
Ignore ==
    /\ Round /\ Arrived.to # Server
    /\ rcv' = Rest
    /\ UNCHANGED <<clients, leaked>>

\* remove_client
Remove ==
    /\ Round /\ Arrived.to = Server /\ Arrived.text = "CLOSE_CONNECTION"
    /\ rcv' = Rest
    /\ \/ Known(Arrived.from) = {} /\ UNCHANGED clients
       \/ \E i \in Slot : /\ First(Known(Arrived.from), i)
                          /\ clients' = [clients EXCEPT ![i] = [addr |-> Empty, count |-> 0]]
    /\ UNCHANGED leaked

\* find_client_index or add_client, count++, and the reply with the count.
Reply ==
    /\ Round /\ Arrived.to = Server /\ Arrived.text # "CLOSE_CONNECTION"
    /\ \E i \in Slot :
         /\ Entry(Arrived.from, i)
         /\ LET n == (IF clients[i].addr = Arrived.from THEN clients[i].count ELSE 0) + 1
                p == Packet(Server, Arrived.from, Arrived.text, n, Arrived.by, Arrived.k)
            IN  /\ clients' = [clients EXCEPT ![i] = [addr |-> Arrived.from, count |-> n]]
                /\ Deliver(p, Rest) \/ NotSent(p, Rest)

\* "Too many clients"
TooManyClients ==
    /\ Round /\ Arrived.to = Server /\ Arrived.text # "CLOSE_CONNECTION"
    /\ Known(Arrived.from) = {} /\ Known(Empty) = {}
    /\ rcv' = Rest
    /\ UNCHANGED <<clients, leaked>>

ServerStep == Ignore \/ Remove \/ Reply \/ TooManyClients

SignalServer ==
    /\ server_running = 1 /\ server = "up"
    /\ server_running' = 0
    /\ UNCHANGED <<clients, server, rcv, client, client_running, sent, packets, leaked>>

Next ==
    \/ \E c \in Client : \/ StartClient(c) \/ SendLine(c) \/ NothingSent(c) \/ Receive(c)
                         \/ CloseClient(c) \/ SignalClient(c)
    \/ \E a \in Foreign : ForeignSend(a)
    \/ ServerStep \/ SignalServer

Spec == Init /\ [][Next]_vars

\* The server is scheduled, and a client that has a packet or has to close
\* goes on; nobody has to type, to start or to send signals.
FairSpec ==
    /\ Spec /\ WF_vars(ServerStep)
    /\ \A c \in Client : WF_vars(Receive(c)) /\ WF_vars(CloseClient(c))

-----------------------------------------------------------------------------
\* No address has two entries: a second one would keep its old count, and
\* remove_client frees only the first (server.c:41-58, 151-158).
UniqueEntries ==
    \A i, j \in Slot : clients[i].addr = clients[j].addr /\ clients[i].addr # Empty => i = j

\* The entry of an address changes only when the server handles a packet of
\* that very address: a full table, a close or a newcomer never disturbs it.
EntriesIsolated ==
    [][\A i \in Slot : clients[i].addr # Empty /\ clients'[i] # clients[i]
                          => rcv[Server] # <<>> /\ Arrived.from = clients[i].addr]_vars

\* A client never prints the reply to the line it has just sent: its own
\* packet, or a packet queued before it, comes first (client.c:190-206).
ReplyIsLate ==
    [][\A c \in Client : Prints(c) /\ Receive(c) /\ Head(rcv[c]).by = c
                            => Head(rcv[c]).k < sent[c]]_vars

\* Once every client has stopped, their entry is freed and stays so, although
\* each close frees the entry that all of them share; unless a signal stops
\* the server or a packet for it is not delivered (client.c:209, server.c:145-149).
EntryFreed ==
    (\A c \in Client : client[c] = "stopped")
        ~> [](Known(Own) = {} \/ server = "stopped" \/ leaked)
=============================================================================
