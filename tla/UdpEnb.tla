------------------------------- MODULE UdpEnb -------------------------------
(***************************************************************************)
(* The eNB's UDP task                                                      *)
(* (src/openairinterface5g/openair3/UDP/udp_eNB_task.c), the leg of the    *)
(* user plane between GTP-U and the packet terminal.  A client task opens  *)
(* a socket with UDP_INIT and hands over packets with UDP_DATA_REQ; what   *)
(* the sockets receive goes to their owners as UDP_DATA_IND.               *)
(*                                                                         *)
(* One thread serves the message queue and all sockets.  It calls          *)
(* itti_receive_msg() and itti_get_events() in turn, and each of the two   *)
(* may sleep in epoll_wait() on the eventfd and the sockets together.  A   *)
(* message is put into the queue with its token in one step: module Itti   *)
(* has the finer steps of the senders.  The handler of TERMINATE_MESSAGE   *)
(* is left out: itti_send_terminate_message() is empty and nobody else     *)
(* sends that message.                                                     *)
(***************************************************************************)
EXTENDS Integers, Sequences, Functions

CONSTANTS
    Client,      \* tasks that use the UDP task; TASK_GTPV1_U in the eNB
    Port,        \* local ports named in UDP_INIT
    SPGW,        \* the peer GTP-U names in a UDP_DATA_REQ
    PT,          \* the packet terminal's uplink address, 192.168.178.41:2150
    None,        \* the NULL message
    MaxSend,     \* bound: messages sent to the task
    MaxDatagram  \* bound: datagrams that arrive at all sockets

Message ==
    [id : {"UDP_INIT"}, origin : Client, port : Port]
    \cup [id : {"UDP_DATA_REQ"}, origin : Client, buffer : 1..MaxSend, peer : {SPGW}]

ASSUME UdpAssumption ==
    /\ PT # SPGW /\ None \notin Message
    /\ MaxSend \in Nat /\ MaxDatagram \in Nat

Sd == 1..MaxSend     \* socket descriptors, in the order of creation
SEM_FD == 0          \* the descriptor of the task's eventfd

VARIABLES
    message_queue,    \* TASK_UDP's queue, oldest message first
    sem_fd,           \* tokens in its eventfd
    epoll,            \* sockets subscribed with itti_subscribe_event_fd()
    events,           \* descriptors of the last epoll_wait() not yet handled
    udp_socket_list,  \* sequence of [sd, task_id, port]
    pc,               \* where the task's thread is
    msg,              \* received_message_p
    inbox,            \* sd -> what the kernel holds for recvfrom()
    nsent, nreq,      \* messages and, of these, requests sent so far
    initSent,         \* clients that have sent UDP_INIT
    arrived,          \* history: sd -> the datagrams with data that came in
    opened,           \* history: request -> its client had sent UDP_INIT before
    freed,            \* history: request -> how often its buffer was freed
    dropped,          \* history: requests given up for want of a socket
    wire,             \* history: what sendto() was called with
    indicated         \* history: client -> its UDP_DATA_IND messages

ittiVars == <<message_queue, sem_fd>>
clientVars == <<nsent, nreq, initSent, opened>>
kernelVars == <<inbox, arrived>>
outVars == <<freed, dropped, wire>>
vars == <<ittiVars, epoll, events, udp_socket_list, pc, msg, kernelVars,
          clientVars, outVars, indicated>>

Init ==
    /\ message_queue = <<>> /\ sem_fd = 0
    /\ epoll = {} /\ events = {}
    /\ udp_socket_list = <<>>
    /\ pc = "receive" /\ msg = None
    /\ inbox = [s \in Sd |-> <<>>] /\ arrived = [s \in Sd |-> <<>>]
    /\ nsent = 0 /\ nreq = 0 /\ initSent = {}
    /\ opened = [b \in 1..MaxSend |-> FALSE]
    /\ freed = [b \in 1..MaxSend |-> 0]
    /\ dropped = {} /\ wire = <<>>
    /\ indicated = [t \in Client |-> <<>>]
-----------------------------------------------------------------------------
(***************************************************************************)
(* The environment: client tasks send messages, the kernel receives.       *)
(***************************************************************************)
Send(m) ==
    /\ nsent < MaxSend /\ nsent' = nsent + 1
    /\ message_queue' = Append(message_queue, m)
    /\ sem_fd' = sem_fd + 1
    /\ UNCHANGED <<epoll, events, udp_socket_list, pc, msg, kernelVars, outVars, indicated>>

SendInit(t, p) ==
    /\ initSent' = initSent \cup {t}
    /\ Send([id |-> "UDP_INIT", origin |-> t, port |-> p])
    /\ UNCHANGED <<nreq, opened>>

SendReq(t) ==
    /\ Send([id |-> "UDP_DATA_REQ", origin |-> t, buffer |-> nreq + 1, peer |-> SPGW])
    /\ nreq' = nreq + 1
    /\ opened' = [opened EXCEPT ![nreq + 1] = t \in initSent]
    /\ UNCHANGED initSent

\* Datagrams come in; recvfrom() returns the length of one with data, and 0 or
\* an error for the others.
Arrivals == FoldFunction(LAMBDA q, k : Len(q) + k, 0, arrived)

Datagram(s, kind) ==
    /\ s \in DOMAIN udp_socket_list /\ Arrivals < MaxDatagram
    /\ LET d == [kind |-> kind, n |-> Len(arrived[s]) + 1] IN
           /\ inbox' = [inbox EXCEPT ![s] = Append(@, d)]
           /\ arrived' = [arrived EXCEPT ![s] = Append(@, d)]
    /\ UNCHANGED <<ittiVars, epoll, events, udp_socket_list, pc, msg, clientVars, outVars, indicated>>
-----------------------------------------------------------------------------
(***************************************************************************)
(* itti_receive_msg() and itti_get_events() as the task calls them.        *)
(***************************************************************************)
taskVars == <<kernelVars, clientVars, outVars, indicated, udp_socket_list, epoll>>

\* Mutant of Take: the newest message is taken.
BugTakeNewest ==
    /\ pc \in {"receive", "relock"}
    /\ message_queue # <<>>
    /\ msg' = message_queue[Len(message_queue)]
    /\ message_queue' = SubSeq(message_queue, 1, Len(message_queue) - 1)
    /\ pc' = "handle"
    /\ UNCHANGED <<sem_fd, events, taskVars>>

\* The queue is not empty: take the oldest message and leave its token.
Take ==
    /\ pc \in {"receive", "relock"}
    /\ message_queue # <<>>
    /\ msg' = Head(message_queue)
    /\ message_queue' = Tail(message_queue)
    /\ pc' = "handle"
    /\ UNCHANGED <<sem_fd, events, taskVars>>

ReceiveSleep ==
    /\ pc = "receive" /\ message_queue = <<>>
    /\ pc' = "wait"
    /\ UNCHANGED <<ittiVars, msg, events, taskVars>>

\* No message after a wake-up.  Without a socket the loop of
\* itti_receive_msg() sleeps again; with one it returns NULL.
RelockEmpty ==
    /\ pc = "relock" /\ message_queue = <<>>
    /\ pc' = IF epoll = {} THEN "wait" ELSE "eventsWait"
    /\ msg' = None
    /\ UNCHANGED <<ittiVars, events, taskVars>>

Ready == {s \in epoll : inbox[s] # <<>>} \cup (IF sem_fd > 0 THEN {SEM_FD} ELSE {})

\* Mutant of Wake: the eventfd is no semaphore, a read takes all its tokens.
BugWake ==
    /\ pc \in {"wait", "eventsWait"}
    /\ Ready # {}
    /\ sem_fd' = 0
    /\ pc' = IF pc = "wait" THEN "relock" ELSE "fds"
    /\ events' = IF pc = "wait" THEN {} ELSE Ready \ {SEM_FD}
    /\ UNCHANGED <<message_queue, msg, taskVars>>

\* Mutant of Wake: the eventfd is read whether it was reported or not.
BugReadAlways ==
    /\ pc \in {"wait", "eventsWait"}
    /\ Ready # {}
    /\ sem_fd' = sem_fd - 1
    /\ pc' = IF pc = "wait" THEN "relock" ELSE "fds"
    /\ events' = IF pc = "wait" THEN {} ELSE Ready \ {SEM_FD}
    /\ UNCHANGED <<message_queue, msg, taskVars>>

\* epoll_wait() has room for all descriptors and reports those that are ready;
\* one token is read if the eventfd is among them.  The sockets reported to
\* itti_receive_msg() are not used, and no socket has the eventfd's descriptor.
Wake ==
    /\ pc \in {"wait", "eventsWait"}
    /\ Ready # {}
    /\ sem_fd' = IF SEM_FD \in Ready THEN sem_fd - 1 ELSE sem_fd
    /\ pc' = IF pc = "wait" THEN "relock" ELSE "fds"
    /\ events' = IF pc = "wait" THEN {} ELSE Ready \ {SEM_FD}
    /\ UNCHANGED <<message_queue, msg, taskVars>>
-----------------------------------------------------------------------------
(***************************************************************************)
(* udp_eNB_task(): the messages.                                           *)
(***************************************************************************)
Handling(id) == pc = "handle" /\ msg.id = id

\* The message is freed and forgotten; itti_get_events() is next.
Done == pc' = "eventsWait" /\ msg' = None

\* udp_eNB_create_socket(): a port that is in use fails bind() and with it an
\* assertion that ends the eNB.
Bind(p) == \A i \in DOMAIN udp_socket_list : udp_socket_list[i].port # p

\* Mutant of NewSocket: the owner is a fixed client, not the message's origin.
BugOwner(t, p) ==
    LET s == Len(udp_socket_list) + 1 IN
        /\ udp_socket_list' = Append(udp_socket_list,
                [sd |-> s, task_id |-> CHOOSE u \in Client : TRUE, port |-> p])
        /\ epoll' = epoll \cup {s}

\* Mutant of NewSocket: the socket is not subscribed.
BugNoSubscribe(t, p) ==
    LET s == Len(udp_socket_list) + 1 IN
        /\ udp_socket_list' = Append(udp_socket_list, [sd |-> s, task_id |-> t, port |-> p])
        /\ UNCHANGED epoll

NewSocket(t, p) ==
    LET s == Len(udp_socket_list) + 1 IN
        /\ udp_socket_list' = Append(udp_socket_list, [sd |-> s, task_id |-> t, port |-> p])
        /\ epoll' = epoll \cup {s}

UdpInit ==
    /\ Handling("UDP_INIT")
    /\ \/ /\ Bind(msg.port)
          /\ NewSocket(msg.origin, msg.port)
          /\ Done
       \/ /\ ~Bind(msg.port)
          /\ pc' = "aborted"
          /\ UNCHANGED <<msg, udp_socket_list, epoll>>
    /\ UNCHANGED <<ittiVars, events, kernelVars, clientVars, outVars, indicated>>

\* udp_eNB_get_socket_desc(): the sockets of a task; the first is used.
SocketsOf(t) == {i \in DOMAIN udp_socket_list : udp_socket_list[i].task_id = t}
First(S) == CHOOSE i \in S : \A j \in S : i <= j

Free(b) == freed' = [freed EXCEPT ![b] = @ + 1]

\* Mutant of UdpDataReqFails: the early exit forgets the buffer.
BugKeepBuffer ==
    /\ Handling("UDP_DATA_REQ")
    /\ SocketsOf(msg.origin) = {}
    /\ dropped' = dropped \cup {msg.buffer}
    /\ Done
    /\ UNCHANGED <<ittiVars, events, kernelVars, clientVars, freed, wire, indicated, udp_socket_list, epoll>>

\* No socket belongs to the client: free the buffer, give the request up.
UdpDataReqFails ==
    /\ Handling("UDP_DATA_REQ")
    /\ SocketsOf(msg.origin) = {}
    /\ dropped' = dropped \cup {msg.buffer}
    /\ Free(msg.buffer)
    /\ Done
    /\ UNCHANGED <<ittiVars, events, kernelVars, clientVars, wire, indicated, udp_socket_list, epoll>>

\* The peer of the request is overwritten by the packet terminal.
PeerAddr(m) == PT

\* A short or failed write is logged and the buffer freed all the same.
UdpDataReq ==
    /\ Handling("UDP_DATA_REQ")
    /\ SocketsOf(msg.origin) # {}
    /\ wire' = Append(wire, [sd |-> First(SocketsOf(msg.origin)),
                             peer |-> PeerAddr(msg), buffer |-> msg.buffer])
    /\ Free(msg.buffer)
    /\ Done
    /\ UNCHANGED <<ittiVars, events, kernelVars, clientVars, dropped, indicated, udp_socket_list, epoll>>
-----------------------------------------------------------------------------
(***************************************************************************)
(* udp_eNB_process_file_descriptors(): one datagram for each descriptor    *)
(* that was reported, in any order.                                        *)
(***************************************************************************)
\* Mutant of Owner: the client of the first socket gets all datagrams.
BugOwnerOf(s) == udp_socket_list[1].task_id

Owner(s) == udp_socket_list[s].task_id

\* udp_eNB_receiver(): an error or an empty datagram is only logged.
Receiver(s) ==
    /\ pc = "fds" /\ s \in events
    /\ events' = events \ {s}
    /\ inbox[s] # <<>>      \* otherwise recvfrom() would block
    /\ inbox' = [inbox EXCEPT ![s] = Tail(@)]
    /\ indicated' = IF Head(inbox[s]).kind = "data"
                    THEN [indicated EXCEPT ![Owner(s)] = Append(@, [sd |-> s, n |-> Head(inbox[s]).n])]
                    ELSE indicated
    /\ UNCHANGED <<ittiVars, msg, pc, epoll, udp_socket_list, arrived, clientVars, outVars>>

EndOfEvents ==
    /\ pc = "fds" /\ events = {}
    /\ pc' = "receive"
    /\ UNCHANGED <<ittiVars, msg, events, taskVars>>
-----------------------------------------------------------------------------
TaskStep ==
    \/ Take \/ ReceiveSleep \/ RelockEmpty \/ Wake
    \/ UdpInit \/ UdpDataReqFails \/ UdpDataReq
    \/ EndOfEvents \/ \E s \in Sd : Receiver(s)

Running == pc # "aborted"

Next ==
    \/ TaskStep
    \/ /\ Running
       /\ \/ \E t \in Client : SendReq(t) \/ \E p \in Port : SendInit(t, p)
          \/ \E s \in Sd, k \in {"data", "none"} : Datagram(s, k)

Spec == Init /\ [][Next]_vars

\* The thread of the UDP task runs whenever it can go on.
FairSpec == Spec /\ WF_vars(TaskStep)
-----------------------------------------------------------------------------
(***************************************************************************)
(* Properties.                                                             *)
(***************************************************************************)
MessagesType ==
    /\ message_queue \in Seq(Message) /\ sem_fd \in Nat
    /\ nsent \in 0..MaxSend /\ nreq \in 0..nsent
    /\ initSent \subseteq Client /\ opened \in [1..MaxSend -> BOOLEAN]

\* The task holds a message exactly while it handles it or has stopped on it.
TaskType ==
    /\ pc \in {"receive", "wait", "relock", "handle", "eventsWait", "fds", "aborted"}
    /\ msg \in Message \cup {None}
    /\ msg # None <=> pc \in {"handle", "aborted"}

SocketsType ==
    /\ epoll \subseteq Sd /\ events \subseteq Sd
    /\ udp_socket_list \in Seq([sd : Sd, task_id : Client, port : Port])
    /\ inbox \in [Sd -> Seq([kind : {"data", "none"}, n : Nat])]
    /\ arrived \in [Sd -> Seq([kind : {"data", "none"}, n : Nat])]
    /\ indicated \in [Client -> Seq([sd : Sd, n : Nat])]

BuffersType ==
    /\ freed \in [1..MaxSend -> Nat] /\ dropped \subseteq 1..MaxSend
    /\ wire \in Seq([sd : Sd, peer : {PT, SPGW}, buffer : 1..MaxSend])

\* Every variable has its type.
TypeOK == MessagesType /\ TaskType /\ SocketsType /\ BuffersType

\* The buffer of a request is freed once, when the request leaves the task,
\* and not before, on every path through the handler
\* (udp_eNB_task.c:402-414, 426-441).
BuffersFreedOnce ==
    LET held == {b \in 1..nreq :
                    \/ msg # None /\ msg.id = "UDP_DATA_REQ" /\ msg.buffer = b
                    \/ \E i \in DOMAIN message_queue :
                           message_queue[i].id = "UDP_DATA_REQ" /\ message_queue[i].buffer = b}
    IN  \A b \in 1..nreq : freed[b] = IF b \in held THEN 0 ELSE 1

\* Uplink packets leave for the packet terminal, in the order in which GTP-U
\* and the other clients sent the requests and each one once
\* (udp_eNB_task.c:389-396, 426-432).
UplinkToTerminal ==
    /\ \A i \in DOMAIN wire : wire[i].peer = PT
    /\ \A i, j \in DOMAIN wire : i < j => wire[i].buffer < wire[j].buffer

\* A client need not wait for its socket: a request sent after its UDP_INIT is
\* never given up for want of a socket (udp_eNB_task.c:351-360, 399-414).
OpenedIsServed == \A b \in dropped : ~opened[b]

DataOf(q) == {q[i].n : i \in {j \in DOMAIN q : q[j].kind = "data"}}

\* Each datagram with data goes once to the client that opened the socket and to
\* no other, in the order of arrival, whatever else the task did in between
\* (udp_eNB_task.c:125-145, 237-310).
IndicatedInOrder ==
    \A s \in DOMAIN udp_socket_list :
        LET Got(c) == {i \in DOMAIN indicated[c] : indicated[c][i].sd = s}
            owner == udp_socket_list[s].task_id
            n(i) == indicated[owner][i].n
        IN  /\ {n(i) : i \in Got(owner)} = DataOf(arrived[s]) \ DataOf(inbox[s])
            /\ \A i, j \in Got(owner) : i < j => n(i) < n(j)
            /\ \A c \in Client \ {owner} : Got(c) = {}

Stopped == pc = "aborted"

\* The sockets' datagrams are read although the thread also sleeps in
\* itti_receive_msg() (udp_eNB_task.c:338, 467-475).
DatagramsRead == \A s \in Sd : inbox[s] # <<>> ~> inbox[s] = <<>> \/ Stopped

\* The messages are served although the thread also sleeps in
\* itti_get_events(), after every message (udp_eNB_task.c:338, 467).
MessagesServed == message_queue # <<>> ~> message_queue = <<>> \/ Stopped
=============================================================================
