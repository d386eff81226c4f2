---------------------------- MODULE UdpEnbProofs ----------------------------
(***************************************************************************)
(* Proofs about UdpEnb, for any clients and ports and any number of        *)
(* messages and datagrams.                                                 *)
(***************************************************************************)
EXTENDS UdpEnb, WellFoundedInduction, TLAPS

USE UdpAssumption
-----------------------------------------------------------------------------
(***************************************************************************)
(* Facts about sequences and smallest elements.                            *)
(***************************************************************************)
LEMMA AppendFacts ==
  ASSUME NEW S, NEW q \in Seq(S), NEW x \in S
  PROVE  /\ Append(q, x) \in Seq(S) /\ Len(Append(q, x)) = Len(q) + 1
         /\ DOMAIN Append(q, x) = 1..(Len(q) + 1)
         /\ \A i \in 1..Len(q) : Append(q, x)[i] = q[i]
         /\ Append(q, x)[Len(q) + 1] = x
  OBVIOUS

LEMMA TailFacts ==
  ASSUME NEW S, NEW q \in Seq(S), q # <<>>
  PROVE  /\ Head(q) \in S /\ Head(q) = q[1] /\ Tail(q) \in Seq(S)
         /\ Len(q) \in Nat \ {0} /\ Len(Tail(q)) = Len(q) - 1
         /\ DOMAIN Tail(q) = 1..(Len(q) - 1)
         /\ \A i \in 1..(Len(q) - 1) : Tail(q)[i] = q[i + 1]
  OBVIOUS

\* First() picks a member of its set: a set of natural numbers has a smallest one.
LEMMA FirstFacts ==
  ASSUME NEW S \in SUBSET Nat, S # {}
  PROVE  First(S) \in S
  <1>1. PICK i \in S : \A j \in S : ~ (<<j, i>> \in OpToRel(<, Nat))
    BY WFMin, NatLessThanWellFounded, Zenon
  <1>2. ASSUME NEW j \in S, j < i PROVE FALSE
    <2>1. <<j, i>> \in Nat \X Nat /\ <<j, i>>[1] < <<j, i>>[2]
      BY <1>2
    <2>2. <<j, i>> \in OpToRel(<, Nat)
      BY <2>1, Zenon DEF OpToRel
    <2> QED
      BY <1>1, <2>2, Zenon
  <1>3. \A j \in S : i <= j
    BY <1>2
  <1> QED
    BY <1>1, <1>3, Zenon DEF First
-----------------------------------------------------------------------------
(***************************************************************************)
(* Types.  There is a descriptor for every socket because sockets and the  *)
(* messages that are queued or handled never outnumber the messages sent.  *)
(***************************************************************************)
Held == IF msg = None THEN 0 ELSE 1

Room == Len(udp_socket_list) + Len(message_queue) + Held <= nsent

TypeInv == TypeOK /\ Room

LEMMA TypeInit == Init => TypeInv
  BY DEF Init, TypeOK, MessagesType, TaskType, SocketsType, BuffersType, TypeInv, Room, Held, Sd

\* What the parts of TypeInv depend on.
LEMMA Frame ==
  /\ MessagesType /\ UNCHANGED <<message_queue, sem_fd, nsent, nreq, initSent, opened>>
        => MessagesType'
  /\ TaskType /\ UNCHANGED <<pc, msg>> => TaskType'
  /\ SocketsType /\ UNCHANGED <<epoll, events, udp_socket_list, inbox, arrived, indicated>>
        => SocketsType'
  /\ BuffersType /\ UNCHANGED <<freed, dropped, wire>> => BuffersType'
  /\ Room /\ UNCHANGED <<udp_socket_list, message_queue, msg, nsent>> => Room'
  BY Zenon DEF MessagesType, TaskType, SocketsType, BuffersType, Room, Held

LEMMA SendType ==
  ASSUME TypeInv, NEW m \in Message, Send(m)
  PROVE  /\ message_queue' \in Seq(Message) /\ sem_fd' \in Nat
         /\ nsent' \in 0..MaxSend /\ nsent' = nsent + 1
         /\ TaskType' /\ SocketsType' /\ BuffersType' /\ Room'
  <1>1. /\ message_queue' \in Seq(Message) /\ Len(message_queue') = Len(message_queue) + 1
        /\ sem_fd' \in Nat /\ nsent' \in 0..MaxSend /\ nsent' = nsent + 1
    BY AppendFacts DEF TypeInv, TypeOK, MessagesType, Send
  <1>2. TaskType' /\ SocketsType' /\ BuffersType'
    BY Frame DEF TypeInv, TypeOK, Send, kernelVars, outVars
  <1>3. Room'
    BY <1>1 DEF TypeInv, TypeOK, MessagesType, SocketsType, Room, Held, Send
  <1> QED
    BY <1>1, <1>2, <1>3

LEMMA TypeStep == TypeInv /\ [Next]_vars => TypeInv'
  <1> SUFFICES ASSUME TypeInv, [Next]_vars PROVE TypeInv'
    OBVIOUS
  <1> USE DEF ittiVars, clientVars, kernelVars, outVars, taskVars
  <1>a. MessagesType /\ TaskType /\ SocketsType /\ BuffersType /\ Room
    BY DEF TypeInv, TypeOK
  <1>b. Len(udp_socket_list) \in Nat /\ Len(message_queue) \in Nat
    BY <1>a DEF SocketsType, MessagesType
  <1>1. ASSUME NEW t \in Client, NEW p \in Port, SendInit(t, p) PROVE TypeInv'
    <2> DEFINE m == [id |-> "UDP_INIT", origin |-> t, port |-> p]
    <2>1. m \in Message /\ Send(m)
      BY <1>1 DEF Message, SendInit
    <2>2. MessagesType'
      BY <1>1, <1>a, <2>1, SendType DEF SendInit, MessagesType
    <2> QED
      BY <2>1, <2>2, SendType DEF TypeInv, TypeOK
  <1>2. ASSUME NEW t \in Client, SendReq(t) PROVE TypeInv'
    <2> DEFINE m == [id |-> "UDP_DATA_REQ", origin |-> t, buffer |-> nreq + 1, peer |-> SPGW]
    <2>1. Send(m) /\ nreq + 1 \in 1..MaxSend /\ nreq' = nreq + 1
      BY <1>2, <1>a DEF SendReq, Send, MessagesType
    <2>2. m \in Message
      BY <2>1 DEF Message
    <2>3. opened' \in [1..MaxSend -> BOOLEAN] /\ initSent' = initSent
      BY <1>2, <1>a, <2>1 DEF SendReq, MessagesType
    <2>4. MessagesType'
      BY <1>a, <2>1, <2>2, <2>3, SendType DEF MessagesType
    <2> QED
      BY <2>1, <2>2, <2>4, SendType DEF TypeInv, TypeOK
  <1>4. ASSUME NEW s \in Sd, NEW k \in {"data", "none"}, Datagram(s, k) PROVE TypeInv'
    <2> DEFINE d == [kind |-> k, n |-> Len(arrived[s]) + 1]
    <2>1. d \in [kind : {"data", "none"}, n : Nat]
      BY <1>a DEF SocketsType
    <2>2. inbox' = [inbox EXCEPT ![s] = Append(@, d)] /\ arrived' = [arrived EXCEPT ![s] = Append(@, d)]
      BY <1>4 DEF Datagram
    <2> HIDE DEF d
    <2> DEFINE D == [kind : {"data", "none"}, n : Nat]
    <2>3. ASSUME NEW f \in [Sd -> Seq(D)] PROVE [f EXCEPT ![s] = Append(@, d)] \in [Sd -> Seq(D)]
      <3> HIDE DEF D
      <3>1. Append(f[s], d) \in Seq(D)
        BY <1>4, <2>1, AppendFacts DEF D
      <3> QED
        BY <3>1
    <2>4. inbox' \in [Sd -> Seq(D)] /\ arrived' \in [Sd -> Seq(D)]
      BY <1>a, <2>2, <2>3, Zenon DEF SocketsType
    <2>5. UNCHANGED <<epoll, events, udp_socket_list, indicated>>
      BY <1>4 DEF Datagram
    <2>6. SocketsType'
      BY <1>a, <2>4, <2>5, Zenon DEF SocketsType
    <2> QED
      BY <1>4, <1>a, <2>6, Frame DEF Datagram, TypeInv, TypeOK
  <1>5. CASE Take
    <2>1. /\ msg' \in Message /\ msg' # None /\ msg = None
          /\ message_queue' \in Seq(Message) /\ Len(message_queue') = Len(message_queue) - 1
      BY <1>5, <1>a, TailFacts DEF Take, TaskType, MessagesType
    <2>2. MessagesType' /\ TaskType'
      BY <1>5, <1>a, <2>1 DEF Take, MessagesType, TaskType
    <2>3. Room'
      BY <1>5, <1>a, <1>b, <2>1 DEF Take, Room, Held
    <2> QED
      BY <1>5, <1>a, <2>2, <2>3, Frame DEF Take, TypeInv, TypeOK
  <1>6. CASE ReceiveSleep \/ RelockEmpty \/ EndOfEvents
    <2>1. TaskType' /\ msg' = msg
      BY <1>6, <1>a DEF ReceiveSleep, RelockEmpty, EndOfEvents, TaskType
    <2> QED
      BY <1>6, <1>a, <2>1, Frame DEF ReceiveSleep, RelockEmpty, EndOfEvents, TypeInv, TypeOK
  <1>7. CASE Wake
    <2>1. sem_fd' \in Nat
      <3>1. SEM_FD \in Ready => sem_fd > 0
        BY <1>a DEF Ready, SEM_FD, SocketsType, Sd
      <3> QED
        BY <1>7, <1>a, <3>1 DEF Wake, MessagesType
    <2>2. SocketsType'
      BY <1>7, <1>a, Zenon DEF Wake, Ready, SEM_FD, SocketsType
    <2>3. MessagesType' /\ TaskType'
      BY <1>7, <1>a, <2>1 DEF Wake, MessagesType, TaskType
    <2> QED
      BY <1>7, <1>a, <2>2, <2>3, Frame DEF Wake, TypeInv, TypeOK
  <1>8. CASE UdpInit
    <2>1. msg \in [id : {"UDP_INIT"}, origin : Client, port : Port] /\ msg # None /\ pc = "handle"
      BY <1>8, <1>a DEF UdpInit, Handling, TaskType, Message
    <2>2. CASE Bind(msg.port) /\ NewSocket(msg.origin, msg.port) /\ Done
      <3> DEFINE s == [sd |-> Len(udp_socket_list) + 1, task_id |-> msg.origin, port |-> msg.port]
      <3>1. Len(udp_socket_list) + 1 \in Sd
        BY <1>a, <1>b, <2>1 DEF MessagesType, Room, Held, Sd
      <3>2. s \in [sd : Sd, task_id : Client, port : Port]
        BY <2>1, <3>1
      <3>3. udp_socket_list' = Append(udp_socket_list, s)
        BY <2>2 DEF NewSocket
      <3>4. /\ udp_socket_list' \in Seq([sd : Sd, task_id : Client, port : Port])
            /\ Len(udp_socket_list') = Len(udp_socket_list) + 1
        BY <1>a, <3>2, <3>3, AppendFacts DEF SocketsType
      <3>5. SocketsType'
        BY <1>8, <1>a, <2>2, <3>1, <3>4, Zenon DEF UdpInit, NewSocket, SocketsType
      <3>6. TaskType' /\ msg' = None
        BY <2>2 DEF Done, TaskType
      <3>7. Room'
        BY <1>8, <1>a, <1>b, <2>1, <3>4, <3>6 DEF UdpInit, Room, Held, MessagesType
      <3> QED
        BY <1>8, <1>a, <3>5, <3>6, <3>7, Frame DEF UdpInit, TypeInv, TypeOK
    <2>3. CASE pc' = "aborted" /\ UNCHANGED <<msg, udp_socket_list, epoll>>
      <3>1. TaskType'
        BY <1>a, <2>1, <2>3 DEF TaskType
      <3> QED
        BY <1>8, <1>a, <2>3, <3>1, Frame DEF UdpInit, TypeInv, TypeOK
    <2> QED
      BY <1>8, <2>2, <2>3 DEF UdpInit
  <1>9. CASE UdpDataReqFails \/ UdpDataReq
    <2>1. /\ msg \in [id : {"UDP_DATA_REQ"}, origin : Client, buffer : 1..MaxSend, peer : {SPGW}]
          /\ msg # None
      BY <1>9, <1>a DEF UdpDataReqFails, UdpDataReq, Handling, TaskType, Message
    <2>2. freed' \in [1..MaxSend -> Nat]
      <3>1. freed' = [freed EXCEPT ![msg.buffer] = @ + 1]
        BY <1>9 DEF UdpDataReqFails, UdpDataReq, Free
      <3> QED
        BY <1>a, <2>1, <3>1 DEF BuffersType
    <2>3. TaskType' /\ msg' = None
      BY <1>9 DEF UdpDataReqFails, UdpDataReq, Done, TaskType
    <2>4. MessagesType' /\ SocketsType' /\ Room'
      <3>1. UNCHANGED <<message_queue, sem_fd, nsent, nreq, initSent, opened, epoll, events,
                        udp_socket_list, inbox, arrived, indicated>>
        BY <1>9 DEF UdpDataReqFails, UdpDataReq
      <3>2. Room'
        BY <1>a, <1>b, <2>1, <2>3, <3>1 DEF Room, Held, MessagesType
      <3> QED
        BY <1>a, <3>1, <3>2, Frame, Zenon
    <2>5. BuffersType'
      <3>1. CASE UdpDataReqFails
        BY <1>a, <2>1, <2>2, <3>1, Zenon DEF UdpDataReqFails, BuffersType
      <3>2. CASE UdpDataReq
        <4> DEFINE x == [sd |-> First(SocketsOf(msg.origin)), peer |-> PeerAddr(msg),
                         buffer |-> msg.buffer]
        <4>1. DOMAIN udp_socket_list = 1..Len(udp_socket_list) /\ Len(udp_socket_list) <= MaxSend
          BY <1>a, <1>b DEF SocketsType, MessagesType, Room, Held
        <4>2. SocketsOf(msg.origin) \in SUBSET Nat /\ SocketsOf(msg.origin) \subseteq Sd
          BY <1>b, <4>1 DEF SocketsOf, Sd
        <4>3. First(SocketsOf(msg.origin)) \in Sd
          BY <3>2, <4>2, FirstFacts DEF UdpDataReq
        <4>4. x \in [sd : Sd, peer : {PT, SPGW}, buffer : 1..MaxSend]
          BY <2>1, <4>3 DEF PeerAddr
        <4>5. wire' = Append(wire, x)
          BY <3>2 DEF UdpDataReq
        <4>6. wire' \in Seq([sd : Sd, peer : {PT, SPGW}, buffer : 1..MaxSend])
          BY <1>a, <4>4, <4>5, AppendFacts DEF BuffersType
        <4> QED
          BY <1>a, <2>2, <3>2, <4>6, Zenon DEF UdpDataReq, BuffersType
      <3> QED
        BY <1>9, <3>1, <3>2
    <2> QED
      BY <2>3, <2>4, <2>5, Zenon DEF TypeInv, TypeOK
  <1>11. ASSUME NEW s \in Sd, Receiver(s) PROVE TypeInv'
    <2> DEFINE D == [kind : {"data", "none"}, n : Nat]
    <2>1. inbox[s] \in Seq(D) /\ inbox[s] # <<>>
      BY <1>11, <1>a DEF Receiver, SocketsType
    <2>2. Tail(inbox[s]) \in Seq(D) /\ Head(inbox[s]) \in D
      <3> HIDE DEF D
      <3> QED
        BY <2>1, TailFacts, Zenon
    <2>3. inbox' \in [Sd -> Seq(D)]
      BY <1>11, <1>a, <2>2 DEF Receiver, SocketsType
    <2>4. indicated' \in [Client -> Seq([sd : Sd, n : Nat])]
      <3> DEFINE d == [sd |-> s, n |-> Head(inbox[s]).n]
      <3>1. d \in [sd : Sd, n : Nat]
        BY <2>2
      <3>2. \/ indicated' = indicated
            \/ indicated' = [indicated EXCEPT ![Owner(s)] = Append(@, d)]
        BY <1>11 DEF Receiver
      <3> HIDE DEF d
      <3>3. \A t \in Client : Append(indicated[t], d) \in Seq([sd : Sd, n : Nat])
        BY <1>a, <3>1, AppendFacts, Zenon DEF SocketsType
      <3> QED
        BY <1>a, <3>2, <3>3, Zenon DEF SocketsType
    <2>5. SocketsType'
      BY <1>11, <1>a, <2>3, <2>4, Zenon DEF Receiver, SocketsType
    <2> QED
      BY <1>11, <1>a, <2>5, Frame, Zenon DEF Receiver, TypeInv, TypeOK
  <1>12. CASE UNCHANGED vars
    BY <1>12, <1>a, Frame DEF vars, TypeInv, TypeOK
  <1> QED
    BY <1>1, <1>2, <1>4, <1>5, <1>6, <1>7, <1>8, <1>9, <1>11, <1>12
    DEF Next, TaskStep

\* Every variable of the UDP task keeps its type: the descriptors in its list are
\* those of sockets, and it holds a message exactly while it handles one or has
\* stopped on one.
THEOREM TypeCorrect == Spec => []TypeOK
  <1>1. TypeInv => TypeOK
    BY DEF TypeInv
  <1> QED
    BY TypeInit, TypeStep, <1>1, PTL DEF Spec
-----------------------------------------------------------------------------
(***************************************************************************)
(* Buffers and the order of the uplink.  BuffersFreedOnce is kept by a     *)
(* handler only if no other message holds the buffer it frees.  Requests   *)
(* are numbered as they are sent, so what is inductive is that the numbers *)
(* of the requests sent on the wire, of the one handled and of those in    *)
(* the queue increase in this order.                                       *)
(***************************************************************************)
Req(m) == m.id = "UDP_DATA_REQ"
Handled(b) == msg # None /\ Req(msg) /\ msg.buffer = b
Queued(b) == \E i \in DOMAIN message_queue : Req(message_queue[i]) /\ message_queue[i].buffer = b

QueueOrder ==
  \A i \in DOMAIN message_queue :
      Req(message_queue[i]) =>
          /\ message_queue[i].buffer \in 1..nreq
          /\ \A j \in DOMAIN message_queue :
                i < j /\ Req(message_queue[j]) => message_queue[i].buffer < message_queue[j].buffer

HandledFirst == \A b, c \in 1..MaxSend : Handled(b) /\ Queued(c) => b < c

WireFirst ==
  /\ UplinkToTerminal
  /\ \A k \in DOMAIN wire :
        /\ wire[k].buffer \in 1..nreq
        /\ \A b \in 1..MaxSend : Handled(b) \/ Queued(b) => wire[k].buffer < b

Freed ==
  \A b \in 1..MaxSend : freed[b] = IF b > nreq \/ Handled(b) \/ Queued(b) THEN 0 ELSE 1

BufferInv ==
  /\ QueueOrder /\ HandledFirst /\ WireFirst /\ Freed
  /\ \A b \in 1..MaxSend : Handled(b) => b <= nreq

LEMMA FreedOnce == TypeInv /\ Freed => BuffersFreedOnce
  <1> SUFFICES ASSUME TypeInv, Freed, NEW b \in 1..nreq
               PROVE  freed[b] = IF Handled(b) \/ Queued(b) THEN 0 ELSE 1
    BY DEF BuffersFreedOnce, Handled, Queued, Req
  <1>1. b \in 1..MaxSend /\ ~(b > nreq)
    BY DEF TypeInv, TypeOK, MessagesType
  <1> QED
    BY <1>1 DEF Freed

LEMMA BufferInit == Init => BufferInv
  <1> SUFFICES ASSUME Init PROVE BufferInv
    OBVIOUS
  <1>1. DOMAIN message_queue = {} /\ DOMAIN wire = {} /\ msg = None /\ nreq = 0
    BY DEF Init
  <1>2. \A b : ~Handled(b) /\ ~Queued(b)
    BY <1>1 DEF Handled, Queued
  <1> QED
    BY <1>1, <1>2 DEF Init, BufferInv, QueueOrder, HandledFirst, WireFirst, UplinkToTerminal, Freed

\* A step that leaves the requests alone.
LEMMA BufferFrame ==
  ASSUME BufferInv, QueueOrder', UNCHANGED <<nreq, freed, wire>>,
         \A b : Handled(b)' <=> Handled(b), \A b : Queued(b)' <=> Queued(b)
  PROVE  BufferInv'
  BY DEF BufferInv, HandledFirst, WireFirst, UplinkToTerminal, Freed

\* A message that is no request is sent.
LEMMA BufferSend ==
  ASSUME TypeInv, BufferInv, NEW m \in Message, ~Req(m), Send(m), nreq' = nreq
  PROVE  BufferInv'
  <1> DEFINE q == message_queue
  <1>1. /\ q \in Seq(Message) /\ q' = Append(q, m) /\ Len(q) \in Nat
        /\ DOMAIN q = 1..Len(q) /\ UNCHANGED <<msg, freed, wire>>
    BY DEF TypeInv, TypeOK, MessagesType, Send, outVars
  <1>2. /\ DOMAIN q' = 1..(Len(q) + 1) /\ q'[Len(q) + 1] = m
        /\ \A i \in DOMAIN q : q'[i] = q[i]
    BY <1>1, AppendFacts
  <1>3. \A b : Queued(b)' <=> Queued(b)
    BY <1>1, <1>2 DEF Queued, Req
  <1>4. \A b : Handled(b)' <=> Handled(b)
    BY <1>1 DEF Handled
  <1>5. QueueOrder'
    BY <1>1, <1>2 DEF BufferInv, QueueOrder, Req
  <1> QED
    BY <1>1, <1>3, <1>4, <1>5, BufferFrame

\* A request is sent: its number is larger than all others.
LEMMA BufferSendReq ==
  ASSUME TypeInv, BufferInv, NEW t \in Client, SendReq(t)
  PROVE  BufferInv'
  <1> DEFINE q == message_queue
             m == [id |-> "UDP_DATA_REQ", origin |-> t, buffer |-> nreq + 1, peer |-> SPGW]
  <1>1. /\ q \in Seq(Message) /\ q' = Append(q, m) /\ Len(q) \in Nat
        /\ DOMAIN q = 1..Len(q) /\ UNCHANGED <<msg, freed, wire>>
        /\ nreq \in Nat /\ nreq' = nreq + 1 /\ nreq + 1 \in 1..MaxSend
    BY SMTT(60) DEF TypeInv, TypeOK, MessagesType, SendReq, Send, outVars
  <1>2. m \in Message /\ Req(m) /\ m.buffer = nreq + 1
    BY <1>1, Zenon DEF Message, Req
  <1> HIDE DEF m
  <1>3. /\ DOMAIN q' = 1..(Len(q) + 1) /\ q'[Len(q) + 1] = m
        /\ \A i \in DOMAIN q : q'[i] = q[i]
    BY <1>1, <1>2, AppendFacts
  <1>4. \A b : Queued(b)' <=> Queued(b) \/ b = nreq + 1
    BY <1>1, <1>2, <1>3 DEF Queued, Req
  <1>5. \A b : Handled(b)' <=> Handled(b)
    BY <1>1, Zenon DEF Handled
  <1>6. QueueOrder'
    <2> SUFFICES ASSUME NEW i \in DOMAIN q', Req(q'[i])
                 PROVE  /\ q'[i].buffer \in 1..nreq'
                        /\ \A j \in DOMAIN q' : i < j /\ Req(q'[j]) => q'[i].buffer < q'[j].buffer
      BY Zenon DEF QueueOrder, Req
    <2>1. CASE i \in DOMAIN q
      <3>1. q[i].buffer \in 1..nreq /\ q'[i] = q[i]
        BY <1>3, <2>1 DEF BufferInv, QueueOrder
      <3>2. ASSUME NEW j \in DOMAIN q', i < j, Req(q'[j]) PROVE q'[i].buffer < q'[j].buffer
        <4>1. CASE j \in DOMAIN q
          BY <1>3, <2>1, <3>1, <3>2, <4>1, Zenon DEF BufferInv, QueueOrder
        <4>2. CASE j = Len(q) + 1
          BY <1>1, <1>2, <1>3, <3>1, <4>2, SMTT(60)
        <4> QED
          BY <1>1, <1>3, <4>1, <4>2
      <3> QED
        BY <1>1, <3>1, <3>2, SMTT(60)
    <2>2. CASE i = Len(q) + 1
      BY <1>1, <1>2, <1>3, <2>2
    <2> QED
      BY <1>1, <1>3, <2>1, <2>2
  <1>7. \A b \in 1..MaxSend : Handled(b) => b <= nreq
    BY DEF BufferInv
  <1>8. HandledFirst'
    BY <1>1, <1>4, <1>5, <1>7, SMTT(60) DEF BufferInv, HandledFirst
  <1>9. WireFirst'
    BY <1>1, <1>4, <1>5, SMTT(60) DEF BufferInv, WireFirst, UplinkToTerminal
  <1>10. \A b \in 1..MaxSend : Queued(b) => b <= nreq
    BY <1>1 DEF BufferInv, QueueOrder, Queued
  <1>11. Freed'
    BY <1>1, <1>4, <1>5, SMTT(60) DEF BufferInv, Freed
  <1> QED
    BY <1>1, <1>5, <1>6, <1>7, <1>8, <1>9, <1>11 DEF BufferInv

\* A message is taken: the request among the first becomes the one handled.
LEMMA BufferTake ==
  ASSUME TypeInv, BufferInv, Take
  PROVE  BufferInv'
  <1> DEFINE q == message_queue
  <1>1. /\ q \in Seq(Message) /\ q # <<>> /\ q' = Tail(q) /\ msg' = Head(q)
        /\ msg = None /\ DOMAIN q = 1..Len(q)
        /\ UNCHANGED <<freed, wire, nreq>>
    BY DEF TypeInv, TypeOK, MessagesType, TaskType, Take, taskVars, clientVars, outVars
  <1>2. /\ Len(q) \in Nat \ {0} /\ DOMAIN q' = 1..(Len(q) - 1) /\ msg' = q[1] /\ msg' # None
        /\ \A i \in DOMAIN q' : q'[i] = q[i + 1] /\ i + 1 \in DOMAIN q
    BY <1>1, TailFacts
  <1>3. \A b : ~Handled(b)
    BY <1>1 DEF Handled
  <1>4. \A b : Handled(b)' <=> Req(q[1]) /\ q[1].buffer = b
    BY <1>2 DEF Handled, Req
  <1>5. \A b : Queued(b) <=> Handled(b)' \/ Queued(b)'
    <2> TAKE b
    <2>1. Queued(b) => Handled(b)' \/ Queued(b)'
      <3> SUFFICES ASSUME NEW i \in DOMAIN q, Req(q[i]), q[i].buffer = b
                   PROVE  Handled(b)' \/ Queued(b)'
        BY DEF Queued
      <3>1. CASE i = 1
        BY <1>4, <3>1
      <3>2. CASE i # 1
        <4>1. i - 1 \in DOMAIN q' /\ q'[i - 1] = q[i]
          BY <1>1, <1>2, <3>2
        <4> QED
          BY <4>1 DEF Queued, Req
      <3> QED
        BY <3>1, <3>2
    <2>2. Handled(b)' => Queued(b)
      BY <1>1, <1>2, <1>4 DEF Queued
    <2>3. Queued(b)' => Queued(b)
      BY <1>2, Zenon DEF Queued, Req
    <2> QED
      BY <2>1, <2>2, <2>3
  <1>6. QueueOrder'
    BY <1>1, <1>2, SMTT(60) DEF BufferInv, QueueOrder, Req
  <1>7. HandledFirst'
    <2> SUFFICES ASSUME NEW b \in 1..MaxSend, NEW c \in 1..MaxSend, Handled(b)', Queued(c)'
                 PROVE  b < c
      BY DEF HandledFirst
    <2>1. PICK i \in DOMAIN q' : Req(q'[i]) /\ q'[i].buffer = c
      BY DEF Queued, Req
    <2>2. 1 \in DOMAIN q /\ i + 1 \in DOMAIN q /\ 1 < i + 1
      BY <1>1, <1>2, SMTT(60)
    <2> QED
      BY <1>2, <1>4, <2>1, <2>2, SMTT(60) DEF BufferInv, QueueOrder
  <1>8. WireFirst'
    BY <1>1, <1>5 DEF BufferInv, WireFirst, UplinkToTerminal
  <1>9. Freed'
    BY <1>1, <1>3, <1>5 DEF BufferInv, Freed
  <1>10. \A b \in 1..MaxSend : Handled(b)' => b <= nreq'
    BY <1>1, <1>2, <1>4 DEF BufferInv, QueueOrder
  <1> QED
    BY <1>6, <1>7, <1>8, <1>9, <1>10 DEF BufferInv

\* A request leaves the task: its buffer, which is in no other message, is freed.
LEMMA BufferDone ==
  ASSUME TypeInv, BufferInv, UdpDataReqFails \/ UdpDataReq
  PROVE  BufferInv'
  <1> DEFINE b0 == msg.buffer
  <1>1. /\ msg # None /\ Req(msg) /\ b0 \in 1..MaxSend /\ msg' = None
        /\ UNCHANGED <<message_queue, nreq>>
        /\ freed' = [freed EXCEPT ![b0] = @ + 1]
    <2>1. msg # None /\ Req(msg)
      BY Zenon DEF UdpDataReqFails, UdpDataReq, Handling, Req, TypeInv, TypeOK, TaskType
    <2>2. b0 \in 1..MaxSend
      BY <2>1 DEF TypeInv, TypeOK, TaskType, Message, Req
    <2> QED
      BY <2>1, <2>2, Zenon DEF UdpDataReqFails, UdpDataReq, Done, Free, ittiVars, clientVars
  <1>2. Handled(b0) /\ ~Queued(b0) /\ b0 \in 1..nreq
    <2>1. Handled(b0)
      BY <1>1 DEF Handled
    <2> QED
      BY <1>1, <2>1 DEF BufferInv, HandledFirst
  <1>3. \A b : (Handled(b) <=> b = b0) /\ ~Handled(b)' /\ (Queued(b)' <=> Queued(b))
    BY <1>1, Zenon DEF Handled, Queued
  <1>4. QueueOrder' /\ HandledFirst' /\ \A b \in 1..MaxSend : Handled(b)' => b <= nreq'
    BY <1>1, <1>3, Zenon DEF BufferInv, QueueOrder, HandledFirst
  <1>5. Freed'
    <2>1. freed \in [1..MaxSend -> Nat] /\ nreq \in Nat
      BY DEF TypeInv, TypeOK, BuffersType, MessagesType
    <2> SUFFICES ASSUME NEW b \in 1..MaxSend
                 PROVE  freed'[b] = IF b > nreq \/ Queued(b) THEN 0 ELSE 1
      BY <1>1, <1>3 DEF Freed
    <2>2. CASE b = b0
      <3>1. freed[b] = 0 /\ ~(b > nreq) /\ ~Queued(b)
        BY <1>2, <2>1, <2>2 DEF BufferInv, Freed
      <3> QED
        BY <1>1, <2>1, <2>2, <3>1
    <2>3. CASE b # b0
      BY <1>1, <1>3, <2>1, <2>3, Zenon DEF BufferInv, Freed
    <2> QED
      BY <2>2, <2>3
  <1>6. WireFirst'
    <2>1. CASE UdpDataReqFails
      BY <1>1, <1>3, <2>1, Zenon DEF UdpDataReqFails, BufferInv, WireFirst, UplinkToTerminal
    <2>2. CASE UdpDataReq
      <3> DEFINE x == [sd |-> First(SocketsOf(msg.origin)), peer |-> PeerAddr(msg),
                       buffer |-> msg.buffer]
      <3>1. wire' = Append(wire, x) /\ x.buffer = b0 /\ x.peer = PT
        BY <2>2 DEF UdpDataReq, PeerAddr
      <3> HIDE DEF x
      <3>2. /\ Len(wire) \in Nat /\ DOMAIN wire = 1..Len(wire)
            /\ DOMAIN wire' = 1..(Len(wire) + 1) /\ wire'[Len(wire) + 1] = x
            /\ \A k \in DOMAIN wire : wire'[k] = wire[k]
        BY <3>1, SMTT(60) DEF TypeInv, TypeOK, BuffersType
      <3>3. \A k \in DOMAIN wire : wire[k].buffer \in 1..nreq /\ wire[k].buffer < b0
        BY <1>1, <1>2 DEF BufferInv, WireFirst
      <3>4. \A k \in DOMAIN wire' : wire'[k].peer = PT
        BY <3>1, <3>2, SMTT(60) DEF BufferInv, WireFirst, UplinkToTerminal
      <3>5. \A k, l \in DOMAIN wire' : k < l => wire'[k].buffer < wire'[l].buffer
        BY <3>1, <3>2, <3>3, SMTT(60) DEF BufferInv, WireFirst, UplinkToTerminal
      <3>6. \A k \in DOMAIN wire' :
                /\ wire'[k].buffer \in 1..nreq'
                /\ \A b \in 1..MaxSend : Queued(b) => wire'[k].buffer < b
        BY <1>1, <1>2, <3>1, <3>2, <3>3, SMTT(60) DEF BufferInv, WireFirst, HandledFirst
      <3> QED
        BY <1>3, <3>4, <3>5, <3>6, Zenon DEF WireFirst, UplinkToTerminal
    <2> QED
      BY <2>1, <2>2, SMTT(60)
  <1> QED
    BY <1>4, <1>5, <1>6, Zenon DEF BufferInv

LEMMA BufferStep == TypeInv /\ BufferInv /\ [Next]_vars => BufferInv'
  <1> SUFFICES ASSUME TypeInv, BufferInv, [Next]_vars PROVE BufferInv'
    OBVIOUS
  <1> USE DEF ittiVars, clientVars, kernelVars, outVars, taskVars
  <1>1. ASSUME NEW t \in Client, \E p \in Port : SendInit(t, p)
        PROVE  BufferInv'
    <2>1. PICK m \in Message : ~Req(m) /\ Send(m)
      BY <1>1, Zenon DEF SendInit, Message, Req
    <2>2. nreq' = nreq
      BY <1>1, ZenonT(60) DEF SendInit
    <2> QED
      BY <2>1, <2>2, BufferSend, SMTT(60)
  <1>2. CASE UdpInit
    <2>1. /\ UNCHANGED <<message_queue, nreq, freed, wire>>
          /\ ~Req(msg) /\ (msg' = msg \/ msg' = None)
      BY <1>2 DEF UdpInit, Handling, Done, Req
    <2>2. \A b : ~Handled(b) /\ ~Handled(b)' /\ (Queued(b)' <=> Queued(b))
      BY <2>1, Zenon DEF Handled, Queued, Req
    <2>3. QueueOrder'
      BY <2>1 DEF BufferInv, QueueOrder
    <2> QED
      BY <2>1, <2>2, <2>3, BufferFrame, Zenon
  <1>3. CASE UNCHANGED <<message_queue, msg, nreq, freed, wire>>
    <2>1. QueueOrder' /\ \A b : (Handled(b)' <=> Handled(b)) /\ (Queued(b)' <=> Queued(b))
      BY <1>3, Zenon DEF BufferInv, QueueOrder, Handled, Queued
    <2> QED
      BY <1>3, <2>1, BufferFrame, Zenon
  <1>4. ASSUME NEW s \in Sd, Receiver(s) \/ \E k \in {"data", "none"} : Datagram(s, k)
        PROVE  BufferInv'
    BY <1>3, <1>4, Zenon DEF Receiver, Datagram
  <1>5. CASE ReceiveSleep \/ RelockEmpty \/ EndOfEvents \/ Wake
    <2>1. msg' = msg
      BY <1>5, SMTT(60) DEF ReceiveSleep, RelockEmpty, EndOfEvents, Wake, TypeInv, TypeOK, TaskType
    <2> QED
      BY <1>3, <1>5, <2>1, Zenon DEF ReceiveSleep, RelockEmpty, EndOfEvents, Wake
  <1>6. CASE UNCHANGED vars
    BY <1>3, <1>6 DEF vars
  <1> QED
    BY <1>1, <1>2, <1>4, <1>5, <1>6, BufferSendReq, BufferTake, BufferDone DEF Next, TaskStep

\* The buffer of every request is freed exactly once, when the request leaves the
\* task (udp_eNB_task.c:402-414, 426-441).
THEOREM BuffersCorrect == Spec => []BuffersFreedOnce
  <1>1. TypeInv /\ BufferInv => BuffersFreedOnce
    BY FreedOnce DEF BufferInv
  <1> QED
    BY TypeInit, TypeStep, BufferInit, BufferStep, <1>1, PTL DEF Spec

\* The requests go to the packet terminal in the order in which they were sent,
\* each once (udp_eNB_task.c:389-396, 426-432).
THEOREM UplinkCorrect == Spec => []UplinkToTerminal
  <1>1. BufferInv => UplinkToTerminal
    BY DEF BufferInv, WireFirst
  <1> QED
    BY TypeInit, TypeStep, BufferInit, BufferStep, <1>1, PTL DEF Spec
-----------------------------------------------------------------------------
(***************************************************************************)
(* A request never overtakes the UDP_INIT sent before it.  OpenedIsServed  *)
(* speaks of requests that are given up; what is inductive is about the    *)
(* ones that wait: before each request sent after an UDP_INIT of its       *)
(* client there is a socket of the client or an UDP_INIT that is handled   *)
(* or in front of it in the queue.                                         *)
(***************************************************************************)
\* A request of t at place i of the queue will find a socket.
Promised(t, i) ==
  \/ SocketsOf(t) # {}
  \/ msg # None /\ msg.id = "UDP_INIT" /\ msg.origin = t
  \/ \E j \in DOMAIN message_queue :
        j < i /\ message_queue[j].id = "UDP_INIT" /\ message_queue[j].origin = t

\* The message at place i, the one handled, is a request of t sent after an UDP_INIT.
LateAt(i, t) ==
  /\ Req(message_queue[i]) /\ opened[message_queue[i].buffer]
  /\ message_queue[i].origin = t
LateHandled(t) == msg # None /\ Req(msg) /\ opened[msg.buffer] /\ msg.origin = t

OpenInv ==
  /\ \A t \in Client : t \in initSent => \A i \in Nat : i > Len(message_queue) => Promised(t, i)
  /\ \A t \in Client : \A i \in 1..Len(message_queue) : LateAt(i, t) => Promised(t, i)
  /\ \A t \in Client : LateHandled(t) => SocketsOf(t) # {}
  /\ dropped \subseteq 1..nreq /\ OpenedIsServed

LEMMA OpenInit == Init => OpenInv
  <1> SUFFICES ASSUME Init PROVE OpenInv
    OBVIOUS
  <1>1. Len(message_queue) = 0 /\ initSent = {} /\ msg = None /\ dropped = {}
    BY Zenon DEF Init
  <1> QED
    BY <1>1 DEF OpenInv, OpenedIsServed, LateHandled

\* A step that leaves the queue alone and removes nothing a promise rests on.
LEMMA OpenFrame ==
  ASSUME OpenInv, UNCHANGED <<message_queue, initSent, opened, nreq, dropped>>,
         \A t \in Client : SocketsOf(t) # {} => SocketsOf(t)' # {},
         \/ msg' = msg
         \/ /\ msg' = None
            /\ \A t \in Client : msg.id = "UDP_INIT" /\ msg.origin = t => SocketsOf(t)' # {}
  PROVE  OpenInv'
  <1>1. \A t \in Client : \A i \in Nat : Promised(t, i) => Promised(t, i)'
    BY Zenon DEF Promised
  <1>2. \A t \in Client : \A i : LateAt(i, t)' <=> LateAt(i, t)
    BY SMTT(60) DEF LateAt, Req
  <1>3. \A t \in Client : LateHandled(t)' => LateHandled(t)
    BY Zenon DEF LateHandled, Req
  <1> QED
    BY <1>1, <1>2, <1>3, SMTT(60) DEF OpenInv, OpenedIsServed

LEMMA OpenSend ==
  ASSUME TypeInv, OpenInv, NEW m \in Message, Send(m),
         initSent' \subseteq initSent \cup (IF m.id = "UDP_INIT" THEN {m.origin} ELSE {}),
         \A b \in 1..nreq : opened'[b] = opened[b],
         nreq' \in Nat, nreq' >= nreq, BufferInv,
         Req(m) => opened'[m.buffer] = (m.origin \in initSent)
  PROVE  OpenInv'
  <1> DEFINE q == message_queue
  <1>1. /\ q \in Seq(Message) /\ q' = Append(q, m) /\ Len(q) \in Nat
        /\ DOMAIN q = 1..Len(q) /\ UNCHANGED <<msg, udp_socket_list, dropped>>
    BY SMTT(60) DEF TypeInv, TypeOK, MessagesType, Send, outVars
  <1>2. /\ Len(q') = Len(q) + 1 /\ DOMAIN q' = 1..(Len(q) + 1) /\ q'[Len(q) + 1] = m
        /\ \A i \in DOMAIN q : q'[i] = q[i]
    BY <1>1, AppendFacts, SMTT(60)
  <1>3. \A t \in Client : SocketsOf(t)' = SocketsOf(t)
    BY <1>1, Zenon DEF SocketsOf
  <1>4. \A t \in Client : \A i \in Nat : Promised(t, i) => Promised(t, i)'
    BY <1>1, <1>2, <1>3, SMTT(60) DEF Promised
  <1>5. ASSUME NEW t \in Client, t \in initSent', NEW i \in Nat, i > Len(q') PROVE Promised(t, i)'
    <2>1. CASE t \in initSent
      <3>1. i > Len(q)
        BY <1>1, <1>2, <1>5, SMTT(60)
      <3>2. Promised(t, i)
        BY <2>1, <3>1, Zenon DEF OpenInv
      <3> QED
        BY <1>4, <3>2, SMTT(60)
    <2>2. CASE m.id = "UDP_INIT" /\ m.origin = t
      <3>1. Len(q) + 1 \in DOMAIN q' /\ Len(q) + 1 < i
        BY <1>1, <1>2, <1>5
      <3> QED
        BY <1>2, <2>2, <3>1, Zenon DEF Promised
    <2> QED
      BY <1>5, <2>1, <2>2, SMTT(60)
  <1>6. ASSUME NEW t \in Client, NEW i \in 1..Len(q'), LateAt(i, t)' PROVE Promised(t, i)'
    <2>1. CASE i = Len(q) + 1
      <3>1. t \in initSent
        BY <1>2, <1>6, <2>1, Zenon DEF LateAt, Req
      <3> QED
        BY <1>1, <1>4, <2>1, <3>1, SMTT(60) DEF OpenInv
    <2>2. CASE i \in 1..Len(q)
      <3>1. Req(q[i]) /\ q[i].buffer \in 1..nreq
        BY <1>1, <1>2, <1>6, <2>2, Zenon DEF LateAt, Req, BufferInv, QueueOrder
      <3>2. LateAt(i, t)
        BY <1>1, <1>2, <1>6, <2>2, <3>1, Zenon DEF LateAt, Req
      <3> QED
        BY <1>4, <2>2, <3>2 DEF OpenInv
    <2> QED
      BY <1>1, <1>2, <2>1, <2>2, SMTT(60)
  <1>7. ASSUME NEW t \in Client, LateHandled(t)' PROVE SocketsOf(t)' # {}
    <2>1. msg # None /\ Req(msg) /\ msg.buffer \in 1..MaxSend
      BY <1>1, <1>7, SMTT(60) DEF LateHandled, Req, TypeInv, TypeOK, TaskType, Message
    <2>2. msg.buffer \in 1..nreq
      BY <2>1, SMTT(60) DEF BufferInv, Handled, TypeInv, TypeOK, MessagesType
    <2>3. LateHandled(t)
      BY <1>1, <1>7, <2>2, SMTT(60) DEF LateHandled, Req
    <2> QED
      BY <1>3, <2>3, Zenon DEF OpenInv
  <1>8. dropped' \subseteq 1..nreq' /\ OpenedIsServed'
    BY <1>1, SMTT(60) DEF OpenInv, OpenedIsServed, TypeInv, TypeOK, MessagesType
  <1> QED
    BY <1>5, <1>6, <1>7, <1>8, Zenon DEF OpenInv

\* What was in front of a request in the queue is now in front or handled.
LEMMA OpenTake ==
  ASSUME TypeInv, OpenInv, Take
  PROVE  OpenInv'
  <1> DEFINE q == message_queue
  <1>1. /\ q \in Seq(Message) /\ q # <<>> /\ q' = Tail(q) /\ msg' = Head(q)
        /\ msg = None /\ DOMAIN q = 1..Len(q)
        /\ UNCHANGED <<udp_socket_list, initSent, opened, nreq, dropped>>
    BY DEF TypeInv, TypeOK, MessagesType, TaskType, Take, taskVars, clientVars, outVars
  <1>2. /\ Len(q) \in Nat \ {0} /\ Len(q') = Len(q) - 1 /\ DOMAIN q' = 1..(Len(q) - 1)
        /\ msg' = q[1] /\ msg' # None
        /\ \A i \in 1..(Len(q) - 1) : q'[i] = q[i + 1] /\ i + 1 \in DOMAIN q
    BY <1>1, TailFacts
  <1>3. \A t \in Client : SocketsOf(t)' = SocketsOf(t)
    BY <1>1, Zenon DEF SocketsOf
  <1>4. ASSUME NEW t \in Client, NEW i \in Nat, Promised(t, i + 1) PROVE Promised(t, i)'
    <2>1. CASE SocketsOf(t) # {}
      BY <1>3, <2>1 DEF Promised
    <2>2. ASSUME NEW j \in DOMAIN q, j < i + 1, q[j].id = "UDP_INIT", q[j].origin = t
          PROVE  Promised(t, i)'
      <3>1. CASE j = 1
        BY <1>2, <2>2, <3>1, Zenon DEF Promised
      <3>2. CASE j # 1
        <4>1. j - 1 \in DOMAIN q' /\ q'[j - 1] = q[j] /\ j - 1 < i
          BY <1>1, <1>2, <2>2, <3>2, SMTT(60)
        <4> QED
          BY <2>2, <4>1, SMTT(60) DEF Promised
      <3> QED
        BY <3>1, <3>2, SMTT(60)
    <2> QED
      BY <1>1, <1>4, <2>1, <2>2, Zenon DEF Promised
  <1>5. \A t \in Client : t \in initSent' => \A i \in Nat : i > Len(q') => Promised(t, i)'
    BY <1>1, <1>2, <1>4, SMTT(60) DEF OpenInv
  <1>6. ASSUME NEW t \in Client, NEW i \in 1..Len(q'), LateAt(i, t)' PROVE Promised(t, i)'
    <2>1. i + 1 \in 1..Len(q) /\ LateAt(i + 1, t)
      BY <1>1, <1>2, <1>6, SMTT(60) DEF LateAt, Req
    <2> QED
      BY <1>2, <1>4, <2>1, SMTT(60) DEF OpenInv
  <1>7. ASSUME NEW t \in Client, LateHandled(t)' PROVE SocketsOf(t)' # {}
    <2>1. LateAt(1, t) /\ 1 \in 1..Len(q)
      BY <1>1, <1>2, <1>7 DEF LateHandled, LateAt, Req
    <2>2. Promised(t, 1)
      BY <2>1, SMTT(60) DEF OpenInv
    <2> QED
      BY <1>1, <1>3, <2>2, SMTT(60) DEF Promised
  <1> QED
    BY <1>1, <1>5, <1>6, <1>7, SMTT(60) DEF OpenInv, OpenedIsServed

LEMMA OpenStep == TypeInv /\ BufferInv /\ OpenInv /\ [Next]_vars => OpenInv'
  <1> SUFFICES ASSUME TypeInv, BufferInv, OpenInv, [Next]_vars PROVE OpenInv'
    OBVIOUS
  <1> USE DEF ittiVars, clientVars, kernelVars, outVars, taskVars
  <1>a. nreq \in Nat /\ nreq + 1 \in Nat /\ Len(udp_socket_list) \in Nat
        /\ DOMAIN udp_socket_list = 1..Len(udp_socket_list)
    BY SMTT(60) DEF TypeInv, TypeOK, MessagesType, SocketsType
  <1>1. ASSUME NEW t \in Client, NEW p \in Port, SendInit(t, p) PROVE OpenInv'
    <2> DEFINE m == [id |-> "UDP_INIT", origin |-> t, port |-> p]
    <2>1. m \in Message /\ Send(m) /\ ~Req(m) /\ m.id = "UDP_INIT" /\ m.origin = t
      BY <1>1, SMTT(60) DEF SendInit, Message, Req
    <2> HIDE DEF m
    <2>2. initSent' = initSent \cup {t} /\ nreq' = nreq /\ opened' = opened
      BY <1>1, SMTT(60) DEF SendInit
    <2> QED
      BY <1>a, <2>1, <2>2, OpenSend, SMTT(60)
  <1>3. ASSUME NEW t \in Client, SendReq(t) PROVE OpenInv'
    <2> DEFINE m == [id |-> "UDP_DATA_REQ", origin |-> t, buffer |-> nreq + 1, peer |-> SPGW]
    <2>1. nreq + 1 \in 1..MaxSend /\ Send(m)
      BY <1>3, SMTT(60) DEF SendReq, Send, TypeInv, TypeOK, MessagesType
    <2>2. m \in Message /\ Req(m) /\ m.buffer = nreq + 1 /\ m.origin = t
      BY <2>1, SMTT(60) DEF Message, Req
    <2> HIDE DEF m
    <2>3. /\ initSent' = initSent /\ nreq' = nreq + 1
          /\ opened'[nreq + 1] = (t \in initSent) /\ \A b \in 1..nreq : opened'[b] = opened[b]
      BY <1>3, <1>a, <2>1, SMTT(60) DEF SendReq, TypeInv, TypeOK, MessagesType
    <2> QED
      BY <1>a, <2>1, <2>2, <2>3, OpenSend, SMTT(60)
  <1>4. CASE UdpInit
    <2>1. /\ UNCHANGED <<message_queue, initSent, opened, nreq, dropped>>
          /\ msg # None /\ msg.id = "UDP_INIT"
      BY <1>4, SMTT(60) DEF UdpInit, Handling, TypeInv, TypeOK, TaskType
    <2>2. CASE NewSocket(msg.origin, msg.port) /\ Done
      <3> DEFINE s == [sd |-> Len(udp_socket_list) + 1, task_id |-> msg.origin, port |-> msg.port]
      <3>1. udp_socket_list' = Append(udp_socket_list, s) /\ s.task_id = msg.origin /\ msg' = None
        BY <2>2, SMTT(60) DEF NewSocket, Done
      <3> HIDE DEF s
      <3>2. /\ DOMAIN udp_socket_list' = 1..(Len(udp_socket_list) + 1)
            /\ udp_socket_list'[Len(udp_socket_list) + 1] = s
            /\ \A i \in DOMAIN udp_socket_list : udp_socket_list'[i] = udp_socket_list[i]
        BY <1>a, <3>1, SMTT(60) DEF TypeInv, TypeOK, SocketsType
      <3>3. \A t \in Client : SocketsOf(t) # {} => SocketsOf(t)' # {}
        BY <1>a, <3>2, SMTT(60) DEF SocketsOf
      <3>4. \A t \in Client : msg.origin = t => SocketsOf(t)' # {}
        BY <1>a, <3>1, <3>2, SMTT(60) DEF SocketsOf
      <3> QED
        BY <2>1, <3>1, <3>3, <3>4, OpenFrame, SMTT(60)
    <2>3. CASE UNCHANGED <<msg, udp_socket_list, epoll>>
      BY <2>1, <2>3, OpenFrame, Zenon DEF SocketsOf
    <2> QED
      BY <1>4, <2>2, <2>3, SMTT(60) DEF UdpInit
  <1>5. CASE UdpDataReq
    BY <1>5, OpenFrame, SMTT(60) DEF UdpDataReq, Handling, Done, SocketsOf
  <1>6. CASE UdpDataReqFails
    <2>1. /\ UNCHANGED <<message_queue, initSent, opened, nreq, udp_socket_list>> /\ msg' = None
          /\ msg # None /\ Req(msg) /\ SocketsOf(msg.origin) = {}
          /\ dropped' = dropped \cup {msg.buffer}
      BY <1>6, SMTT(60) DEF UdpDataReqFails, Handling, Done, Req, TypeInv, TypeOK, TaskType
    <2>2. msg.origin \in Client /\ msg.buffer \in 1..MaxSend
      BY <2>1, SMTT(60) DEF TypeInv, TypeOK, TaskType, Message, Req
    <2>3. msg.buffer \in 1..nreq
      BY <1>a, <2>1, <2>2, SMTT(60) DEF BufferInv, Handled
    <2>4. ~opened[msg.buffer]
      BY <2>1, <2>2, SMTT(60) DEF OpenInv, LateHandled
    <2>5. \A t \in Client : SocketsOf(t)' = SocketsOf(t)
      BY <2>1, Zenon DEF SocketsOf
    <2>6. \A t \in Client : \A i \in Nat : Promised(t, i) => Promised(t, i)'
      BY <2>1, <2>5, SMTT(60) DEF Promised, Req
    <2>7. \A t \in Client : \A i : LateAt(i, t)' <=> LateAt(i, t)
      BY <2>1, SMTT(60) DEF LateAt, Req
    <2>8. \A t \in Client : ~LateHandled(t)'
      BY <2>1, SMTT(60) DEF LateHandled
    <2>9. \A t \in Client : t \in initSent' =>
              \A i \in Nat : i > Len(message_queue') => Promised(t, i)'
      BY <2>1, <2>6, SMTT(60) DEF OpenInv
    <2>10. \A t \in Client : \A i \in 1..Len(message_queue') : LateAt(i, t)' => Promised(t, i)'
      BY <2>1, <2>6, <2>7, SMTT(60) DEF OpenInv
    <2>11. dropped' \subseteq 1..nreq' /\ OpenedIsServed'
      BY <2>1, <2>3, <2>4, ZenonT(60) DEF OpenInv, OpenedIsServed
    <2> QED
      BY <2>8, <2>9, <2>10, <2>11, SMTT(60) DEF OpenInv
  <1>7. CASE UNCHANGED <<message_queue, initSent, opened, nreq, dropped, msg, udp_socket_list>>
    BY <1>7, OpenFrame, Zenon DEF SocketsOf
  <1>8. ASSUME NEW s \in Sd, Receiver(s) \/ \E k \in {"data", "none"} : Datagram(s, k)
        PROVE  OpenInv'
    BY <1>7, <1>8 DEF Receiver, Datagram
  <1>9. CASE ReceiveSleep \/ RelockEmpty \/ EndOfEvents \/ Wake
    <2>1. msg' = msg
      BY <1>9, SMTT(60) DEF ReceiveSleep, RelockEmpty, EndOfEvents, Wake, TypeInv, TypeOK, TaskType
    <2> QED
      BY <1>7, <1>9, <2>1, SMTT(60) DEF ReceiveSleep, RelockEmpty, EndOfEvents, Wake
  <1>10. CASE UNCHANGED vars
    BY <1>7, <1>10 DEF vars
  <1> QED
    BY <1>1, <1>3, <1>4, <1>5, <1>6, <1>8, <1>9, <1>10, OpenTake, SMTT(60) DEF Next, TaskStep

\* A request that was sent after the UDP_INIT of its client is never given up for
\* want of a socket, however the messages of the clients interleave
\* (udp_eNB_task.c:351-360, 399-414).
THEOREM RequestsServed == Spec => []OpenedIsServed
  <1>1. OpenInv => OpenedIsServed
    BY DEF OpenInv
  <1> QED
    BY TypeInit, TypeStep, BufferInit, BufferStep, OpenInit, OpenStep, <1>1, PTL DEF Spec
-----------------------------------------------------------------------------
(***************************************************************************)
(* Downlink order.  A socket's datagrams are numbered as they arrive; what *)
(* the kernel still holds is the end of what arrived, so that Read(s), the *)
(* number of datagrams read, is also the number of the last of them.  The  *)
(* indications of a socket are those of the first Read(s) datagrams that   *)
(* have data.  No socket is closed, and no descriptor is reported that is  *)
(* not a socket of the list.                                               *)
(***************************************************************************)
Read(s) == Len(arrived[s]) - Len(inbox[s])

\* Descriptors that are subscribed, reported or have datagrams are in the list.
Listed ==
  /\ epoll \subseteq DOMAIN udp_socket_list
  /\ events \subseteq DOMAIN udp_socket_list
  /\ \A s \in Sd \ DOMAIN udp_socket_list : arrived[s] = <<>> /\ inbox[s] = <<>>

\* The kernel holds the last of the datagrams that arrived.
InKernel ==
  \A s \in Sd :
      /\ Len(inbox[s]) <= Len(arrived[s])
      /\ \A i \in 1..Len(arrived[s]) : arrived[s][i].n = i
      /\ \A i \in 1..Len(inbox[s]) : inbox[s][i] = arrived[s][Read(s) + i]

\* An indication is of a datagram with data that was read from a socket of its client.
ReadFor(c, s, n) ==
  /\ s \in DOMAIN udp_socket_list /\ Owner(s) = c
  /\ n \in 1..Read(s) /\ arrived[s][n].kind = "data"

IndicatedRead ==
  \A c \in Client : \A i \in 1..Len(indicated[c]) : ReadFor(c, indicated[c][i].sd, indicated[c][i].n)

\* Every datagram with data that was read was indicated.
Indicated(s, k) ==
  \E i \in 1..Len(indicated[Owner(s)]) : indicated[Owner(s)][i] = [sd |-> s, n |-> k]

ReadIndicated ==
  \A s \in DOMAIN udp_socket_list : \A k \in 1..Read(s) : arrived[s][k].kind = "data" => Indicated(s, k)

\* The indications of a socket come in the order of arrival.
InOrder ==
  \A c \in Client : \A i, j \in 1..Len(indicated[c]) :
      i < j /\ indicated[c][i].sd = indicated[c][j].sd => indicated[c][i].n < indicated[c][j].n

DownlinkInv == Listed /\ InKernel /\ IndicatedRead /\ ReadIndicated /\ InOrder

LEMMA DownlinkInit == Init => DownlinkInv
  BY DEF Init, DownlinkInv, Listed, InKernel, IndicatedRead, ReadIndicated, InOrder, Read

\* Steps that neither read nor receive a datagram nor open a socket.
LEMMA DownlinkSame ==
  ASSUME DownlinkInv,
         UNCHANGED <<inbox, arrived, indicated, udp_socket_list, epoll>>,
         events' \subseteq events \cup epoll
  PROVE  DownlinkInv'
  <1>1. Listed'
    BY Zenon DEF DownlinkInv, Listed
  <1>2. InKernel' /\ InOrder'
    BY Zenon DEF DownlinkInv, InKernel, InOrder, Read
  <1>3. IndicatedRead'
    <2>1. \A c, u, n : ReadFor(c, u, n)' <=> ReadFor(c, u, n)
      BY Zenon DEF ReadFor, Read, Owner
    <2> QED
      BY <2>1, Zenon DEF DownlinkInv, IndicatedRead
  <1>4. ReadIndicated'
    <2>1. \A s, k : Indicated(s, k)' <=> Indicated(s, k)
      BY Zenon DEF Indicated, Owner
    <2> QED
      BY <2>1, Zenon DEF DownlinkInv, ReadIndicated, Read
  <1> QED
    BY <1>1, <1>2, <1>3, <1>4, Zenon DEF DownlinkInv

\* Every socket has a descriptor, its place in the list.
LEMMA SocketsAreSd ==
  TypeInv =>
         /\ udp_socket_list \in Seq([sd : Sd, task_id : Client, port : Port])
         /\ Len(udp_socket_list) \in Nat
         /\ DOMAIN udp_socket_list = 1..Len(udp_socket_list)
         /\ DOMAIN udp_socket_list \subseteq Sd
         /\ \A s \in DOMAIN udp_socket_list : Owner(s) \in Client
  <1> SUFFICES ASSUME TypeInv
               PROVE  /\ udp_socket_list \in Seq([sd : Sd, task_id : Client, port : Port])
                      /\ Len(udp_socket_list) \in Nat
                      /\ DOMAIN udp_socket_list = 1..Len(udp_socket_list)
                      /\ DOMAIN udp_socket_list \subseteq Sd
                      /\ \A s \in DOMAIN udp_socket_list : Owner(s) \in Client
    BY Zenon
  <1>1. /\ udp_socket_list \in Seq([sd : Sd, task_id : Client, port : Port])
        /\ message_queue \in Seq(Message) /\ nsent \in 0..MaxSend /\ Room /\ MaxSend \in Nat
    BY Zenon DEF TypeInv, TypeOK, SocketsType, MessagesType
  <1>2. /\ Len(udp_socket_list) \in Nat /\ Len(message_queue) \in Nat
        /\ DOMAIN udp_socket_list = 1..Len(udp_socket_list)
    BY <1>1
  <1>3. Len(udp_socket_list) <= MaxSend
    BY <1>1, <1>2 DEF Room, Held
  <1>4. DOMAIN udp_socket_list \subseteq Sd
    BY <1>1, <1>2, <1>3 DEF Sd
  <1>5. \A s \in DOMAIN udp_socket_list : Owner(s) \in Client
    <2>1. \A S : \A q \in Seq(S) : \A i \in DOMAIN q : q[i] \in S
      OBVIOUS
    <2>2. \A s \in DOMAIN udp_socket_list : udp_socket_list[s] \in [sd : Sd, task_id : Client, port : Port]
      BY <1>1, <2>1, Zenon
    <2> QED
      BY <2>2, Zenon DEF Owner
  <1> QED
    BY <1>1, <1>2, <1>4, <1>5, Zenon

LEMMA SocketsAreSdNext ==
  TypeInv' => (DOMAIN udp_socket_list = 1..Len(udp_socket_list) /\ DOMAIN udp_socket_list \subseteq Sd)'
  BY SocketsAreSd, PTL

\* Lengths of the kernel's sequences.
LEMMA ReadType ==
  ASSUME TypeInv, InKernel, NEW s \in Sd
  PROVE  /\ arrived[s] \in Seq([kind : {"data", "none"}, n : Nat])
         /\ inbox[s] \in Seq([kind : {"data", "none"}, n : Nat])
         /\ Len(arrived[s]) \in Nat /\ Len(inbox[s]) \in Nat
         /\ Read(s) \in Nat /\ Read(s) + Len(inbox[s]) = Len(arrived[s])
  <1>1. /\ arrived[s] \in Seq([kind : {"data", "none"}, n : Nat])
        /\ inbox[s] \in Seq([kind : {"data", "none"}, n : Nat])
    BY Zenon DEF TypeInv, TypeOK, SocketsType
  <1>2. Len(arrived[s]) \in Nat /\ Len(inbox[s]) \in Nat
    BY <1>1
  <1>3. Len(inbox[s]) <= Len(arrived[s])
    BY Zenon DEF InKernel
  <1> QED
    BY <1>1, <1>2, <1>3 DEF Read

\* A datagram arrives: nothing is read, and the numbers stay.
LEMMA DownlinkDatagram ==
  ASSUME TypeInv, DownlinkInv, NEW s \in Sd, NEW kind \in {"data", "none"}, Datagram(s, kind)
  PROVE  DownlinkInv'
  <1> DEFINE D == [kind : {"data", "none"}, n : Nat]
             d == [kind |-> kind, n |-> Len(arrived[s]) + 1]
  <1>1. s \in DOMAIN udp_socket_list /\ InKernel
    BY Zenon DEF Datagram, DownlinkInv
  <1>2. /\ inbox' = [inbox EXCEPT ![s] = Append(inbox[s], d)]
        /\ arrived' = [arrived EXCEPT ![s] = Append(arrived[s], d)]
    BY Zenon DEF Datagram
  <1>3. UNCHANGED <<indicated, udp_socket_list, epoll, events>>
    BY Zenon DEF Datagram
  <1>4. inbox \in [Sd -> Seq(D)] /\ arrived \in [Sd -> Seq(D)]
    BY Zenon DEF TypeInv, TypeOK, SocketsType
  <1>5. \A u \in Sd : u # s => inbox'[u] = inbox[u] /\ arrived'[u] = arrived[u]
    BY <1>2, <1>4, Zenon
  <1>6. inbox'[s] = Append(inbox[s], d) /\ arrived'[s] = Append(arrived[s], d)
    BY <1>2, <1>4, Zenon
  <1>7. /\ inbox[s] \in Seq(D) /\ arrived[s] \in Seq(D)
        /\ Len(arrived[s]) \in Nat /\ Len(inbox[s]) \in Nat
        /\ Read(s) \in Nat /\ Read(s) + Len(inbox[s]) = Len(arrived[s])
    BY <1>1, ReadType, Zenon
  <1>8. d \in D /\ d.n = Len(arrived[s]) + 1
    BY <1>7
  <1> HIDE DEF d, D
  <1>9. /\ Len(inbox'[s]) = Len(inbox[s]) + 1 /\ Len(arrived'[s]) = Len(arrived[s]) + 1
        /\ \A i \in 1..Len(inbox[s]) : inbox'[s][i] = inbox[s][i]
        /\ \A i \in 1..Len(arrived[s]) : arrived'[s][i] = arrived[s][i]
        /\ inbox'[s][Len(inbox[s]) + 1] = d /\ arrived'[s][Len(arrived[s]) + 1] = d
    <2>1. /\ Len(inbox'[s]) = Len(inbox[s]) + 1 /\ inbox'[s][Len(inbox[s]) + 1] = d
          /\ \A i \in 1..Len(inbox[s]) : inbox'[s][i] = inbox[s][i]
      BY <1>6, <1>7, <1>8, AppendFacts, SMTT(60)
    <2>2. /\ Len(arrived'[s]) = Len(arrived[s]) + 1 /\ arrived'[s][Len(arrived[s]) + 1] = d
          /\ \A i \in 1..Len(arrived[s]) : arrived'[s][i] = arrived[s][i]
      BY <1>6, <1>7, <1>8, AppendFacts, SMTT(60)
    <2> QED
      BY <2>1, <2>2, Zenon
  <1>10. Read(s)' = Read(s)
    BY <1>7, <1>9 DEF Read
  <1>11. \A u \in Sd : Read(u)' = Read(u)
    BY <1>5, <1>10, Zenon DEF Read
  <1>12. \A u \in Sd : \A k \in 1..Read(u) : arrived'[u][k] = arrived[u][k]
    <2>1. 1..Read(s) \subseteq 1..Len(arrived[s])
      BY <1>7
    <2> QED
      BY <2>1, <1>5, <1>9, Zenon
  <1>13. Listed'
    BY <1>1, <1>3, <1>5, Zenon DEF DownlinkInv, Listed
  <1>14. InKernel'
    <2>1. ASSUME NEW u \in Sd, u # s
          PROVE  /\ Len(inbox'[u]) <= Len(arrived'[u])
                 /\ \A i \in 1..Len(arrived'[u]) : arrived'[u][i].n = i
                 /\ \A i \in 1..Len(inbox'[u]) : inbox'[u][i] = arrived'[u][Read(u)' + i]
      BY <1>1, <1>5, <1>11, <2>1, Zenon DEF InKernel
    <2>2. Len(inbox'[s]) <= Len(arrived'[s])
      BY <1>7, <1>9
    <2>3. \A i \in 1..Len(arrived'[s]) : arrived'[s][i].n = i
      <3>1. \A i \in 1..Len(arrived[s]) : arrived[s][i].n = i
        BY <1>1, Zenon DEF InKernel
      <3>2. \A i \in 1..(Len(arrived[s]) + 1) : i \in 1..Len(arrived[s]) \/ i = Len(arrived[s]) + 1
        BY <1>7
      <3> QED
        BY <1>8, <1>9, <3>1, <3>2, Zenon
    <2>4. \A i \in 1..Len(inbox'[s]) : inbox'[s][i] = arrived'[s][Read(s)' + i]
      <3>1. \A i \in 1..Len(inbox[s]) : inbox[s][i] = arrived[s][Read(s) + i]
        BY <1>1, Zenon DEF InKernel
      <3>2. \A i \in 1..Len(inbox[s]) : Read(s) + i \in 1..Len(arrived[s])
        BY <1>7
      <3>3. \A i \in 1..Len(inbox[s]) : inbox'[s][i] = arrived'[s][Read(s) + i]
        BY <1>9, <3>1, <3>2, Zenon
      <3>4. inbox'[s][Len(inbox[s]) + 1] = arrived'[s][Read(s) + (Len(inbox[s]) + 1)]
        <4>1. Read(s) + (Len(inbox[s]) + 1) = Len(arrived[s]) + 1
          <5>1. Read(s) \in Nat /\ Len(inbox[s]) \in Nat /\ Len(arrived[s]) \in Nat
            BY <1>7, Zenon
          <5>2. Read(s) + Len(inbox[s]) = Len(arrived[s])
            BY <1>7, Zenon
          <5> QED
            BY <5>1, <5>2
        <4> QED
          BY <1>9, <4>1, Zenon
      <3>5. \A i \in 1..(Len(inbox[s]) + 1) : i \in 1..Len(inbox[s]) \/ i = Len(inbox[s]) + 1
        BY <1>7
      <3> QED
        BY <1>9, <1>10, <3>3, <3>4, <3>5, Zenon
    <2> QED
      BY <2>1, <2>2, <2>3, <2>4, Zenon DEF InKernel
  <1>15. \A u \in DOMAIN udp_socket_list : u \in Sd
    BY SocketsAreSd, Zenon
  <1>16. IndicatedRead'
    <2>1. ASSUME NEW c \in Client, NEW u, NEW n, ReadFor(c, u, n) PROVE ReadFor(c, u, n)'
      BY <1>3, <1>11, <1>12, <1>15, <2>1, Zenon DEF ReadFor, Owner
    <2> QED
      BY <1>3, <2>1, Zenon DEF DownlinkInv, IndicatedRead
  <1>17. ReadIndicated'
    <2>1. \A u, k : Indicated(u, k)' <=> Indicated(u, k)
      BY <1>3, Zenon DEF Indicated, Owner
    <2> QED
      BY <1>3, <1>11, <1>12, <1>15, <2>1, ZenonT(60) DEF DownlinkInv, ReadIndicated
  <1>18. InOrder'
    BY <1>3, Zenon DEF DownlinkInv, InOrder
  <1> QED
    BY <1>13, <1>14, <1>16, <1>17, <1>18, Zenon DEF DownlinkInv

\* A new socket has received nothing yet.
LEMMA DownlinkOpen ==
  ASSUME TypeInv, TypeInv', DownlinkInv, NEW c, NEW p, NewSocket(c, p),
         UNCHANGED <<inbox, arrived, indicated, events>>
  PROVE  DownlinkInv'
  <1> DEFINE s == Len(udp_socket_list) + 1
  <1>1. /\ udp_socket_list' = Append(udp_socket_list, [sd |-> s, task_id |-> c, port |-> p])
        /\ epoll' = epoll \cup {s}
    BY Zenon DEF NewSocket
  <1>2. /\ Len(udp_socket_list) \in Nat
        /\ DOMAIN udp_socket_list = 1..Len(udp_socket_list)
        /\ DOMAIN udp_socket_list' = 1..Len(udp_socket_list') /\ DOMAIN udp_socket_list' \subseteq Sd
        /\ udp_socket_list \in Seq([sd : Sd, task_id : Client, port : Port])
    BY SocketsAreSd, SocketsAreSdNext, Zenon
  <1>3. /\ Len(udp_socket_list') = s
        /\ \A u \in DOMAIN udp_socket_list : udp_socket_list'[u] = udp_socket_list[u]
    BY <1>1, <1>2
  <1>4. DOMAIN udp_socket_list' = DOMAIN udp_socket_list \cup {s} /\ s \notin DOMAIN udp_socket_list
    BY <1>2, <1>3
  <1> HIDE DEF s
  <1>5. Read(s) = 0 /\ s \in Sd
    <2>1. s \in Sd
      BY <1>2, <1>4, Zenon
    <2>2. arrived[s] = <<>> /\ inbox[s] = <<>>
      BY <1>4, <2>1, Zenon DEF DownlinkInv, Listed
    <2> QED
      BY <2>1, <2>2 DEF Read
  <1>6. \A u \in DOMAIN udp_socket_list : Owner(u)' = Owner(u)
    BY <1>3, Zenon DEF Owner
  <1>7. \A u : Read(u)' = Read(u)
    BY Zenon DEF Read
  <1>8. Listed'
    BY <1>1, <1>4, Zenon DEF DownlinkInv, Listed
  <1>9. InKernel' /\ InOrder'
    BY Zenon DEF DownlinkInv, InKernel, InOrder, Read
  <1>10. IndicatedRead'
    <2>1. ASSUME NEW d \in Client, NEW u, NEW n, ReadFor(d, u, n) PROVE ReadFor(d, u, n)'
      BY <1>4, <1>6, <1>7, <2>1, Zenon DEF ReadFor
    <2> QED
      BY <2>1, Zenon DEF DownlinkInv, IndicatedRead
  <1>11. ReadIndicated'
    <2>1. ASSUME NEW u \in DOMAIN udp_socket_list, NEW k, Indicated(u, k) PROVE Indicated(u, k)'
      <3>1. Owner(u)' = Owner(u)
        BY <1>6, Zenon
      <3> QED
        BY <2>1, <3>1, Zenon DEF Indicated
    <2>2. ASSUME NEW u \in DOMAIN udp_socket_list', NEW k \in 1..Read(u), arrived[u][k].kind = "data"
          PROVE  Indicated(u, k)'
      <3>1. u # s
        BY <1>5, <2>2
      <3> QED
        BY <1>4, <2>1, <2>2, <3>1, Zenon DEF DownlinkInv, ReadIndicated
    <2> QED
      BY <1>7, <2>2, Zenon DEF ReadIndicated
  <1> QED
    BY <1>8, <1>9, <1>10, <1>11, Zenon DEF DownlinkInv

\* recvfrom() takes the datagram that follows those that were read.
LEMMA DownlinkReceiver ==
  ASSUME TypeInv, DownlinkInv, NEW s \in Sd, Receiver(s)
  PROVE  DownlinkInv'
  <1> DEFINE D == [kind : {"data", "none"}, n : Nat]
             I == [sd : Sd, n : Nat]
  <1>1. s \in DOMAIN udp_socket_list /\ InKernel
    BY Zenon DEF Receiver, DownlinkInv, Listed
  <1>2. UNCHANGED <<arrived, udp_socket_list, epoll>> /\ events' \subseteq events
    BY Zenon DEF Receiver
  <1>3. inbox \in [Sd -> Seq(D)] /\ indicated \in [Client -> Seq(I)]
    BY Zenon DEF TypeInv, TypeOK, SocketsType
  <1>4. inbox[s] # <<>> /\ inbox' = [inbox EXCEPT ![s] = Tail(inbox[s])]
    BY Zenon DEF Receiver
  <1>5. inbox'[s] = Tail(inbox[s]) /\ \A u \in Sd : u # s => inbox'[u] = inbox[u]
    BY <1>3, <1>4, Zenon
  <1>6. /\ Len(arrived[s]) \in Nat /\ Len(inbox[s]) \in Nat /\ inbox[s] \in Seq(D)
        /\ Read(s) \in Nat /\ Read(s) + Len(inbox[s]) = Len(arrived[s])
    BY <1>1, ReadType, Zenon
  <1> HIDE DEF D, I
  <1>7. /\ Head(inbox[s]) = inbox[s][1] /\ Len(inbox[s]) # 0
        /\ Len(inbox'[s]) = Len(inbox[s]) - 1
        /\ \A i \in 1..(Len(inbox[s]) - 1) : inbox'[s][i] = inbox[s][i + 1]
    <2>1. /\ Head(inbox[s]) = inbox[s][1] /\ Len(inbox[s]) \in Nat \ {0}
          /\ Len(Tail(inbox[s])) = Len(inbox[s]) - 1
          /\ \A i \in 1..(Len(inbox[s]) - 1) : Tail(inbox[s])[i] = inbox[s][i + 1]
      BY <1>4, <1>6, TailFacts, Zenon
    <2> QED
      BY <1>5, <2>1, Zenon
  <1>m. PICK m : m = Read(s) + 1
    OBVIOUS
  <1>8. m \in Nat /\ m \in 1..Len(arrived[s])
    <2>1. /\ Len(arrived[s]) \in Nat /\ Len(inbox[s]) \in Nat /\ Len(inbox[s]) # 0
          /\ Read(s) \in Nat /\ Read(s) + Len(inbox[s]) = Len(arrived[s])
      BY <1>6, <1>7, Zenon
    <2> QED
      BY <1>m, <2>1
  <1>9. Head(inbox[s]) = arrived[s][m] /\ Head(inbox[s]).n = m
    <2>1. 1 \in 1..Len(inbox[s])
      BY <1>6, <1>7
    <2>2. \A i \in 1..Len(inbox[s]) : inbox[s][i] = arrived[s][Read(s) + i]
      BY <1>1, Zenon DEF InKernel
    <2>3. \A i \in 1..Len(arrived[s]) : arrived[s][i].n = i
      BY <1>1, Zenon DEF InKernel
    <2> QED
      BY <1>m, <1>7, <1>8, <2>1, <2>2, <2>3, Zenon
  <1>10. Read(s)' = m
    <2>1. /\ Len(arrived[s]) \in Nat /\ Len(inbox[s]) \in Nat
          /\ Len(inbox'[s]) = Len(inbox[s]) - 1
      BY <1>6, <1>7, Zenon
    <2>2. Len(arrived'[s]) = Len(arrived[s])
      BY <1>2, Zenon
    <2> QED
      BY <1>m, <2>1, <2>2 DEF Read
  <1>11. \A u \in Sd : u # s => Read(u)' = Read(u)
    BY <1>2, <1>5, Zenon DEF Read
  <1>12. Owner(s) \in Client /\ \A u \in DOMAIN udp_socket_list : u \in Sd
    BY <1>1, SocketsAreSd, Zenon
  <1>13. \A u : Owner(u)' = Owner(u)
    BY <1>2, Zenon DEF Owner
  <1>14. Listed'
    BY <1>1, <1>2, <1>5, Zenon DEF DownlinkInv, Listed
  <1>15. InKernel'
    <2>1. ASSUME NEW u \in Sd, u # s
          PROVE  /\ Len(inbox'[u]) <= Len(arrived'[u])
                 /\ \A i \in 1..Len(inbox'[u]) : inbox'[u][i] = arrived'[u][Read(u)' + i]
      BY <1>1, <1>2, <1>5, <1>11, <2>1, Zenon DEF InKernel
    <2>2. Len(inbox'[s]) <= Len(arrived'[s])
      <3>1. /\ Len(arrived[s]) \in Nat /\ Len(inbox[s]) \in Nat
            /\ Len(inbox'[s]) = Len(inbox[s]) - 1 /\ Len(inbox[s]) <= Len(arrived[s])
        BY <1>1, <1>6, <1>7, Zenon DEF InKernel
      <3> QED
        BY <1>2, <3>1
    <2>3. ASSUME NEW i \in 1..Len(inbox'[s]) PROVE inbox'[s][i] = arrived'[s][Read(s)' + i]
      <3>1. i \in 1..(Len(inbox[s]) - 1) /\ i + 1 \in 1..Len(inbox[s])
        BY <1>6, <1>7
      <3>2. inbox[s][i + 1] = arrived[s][Read(s) + (i + 1)]
        BY <1>1, <3>1, Zenon DEF InKernel
      <3>3. Read(s) + (i + 1) = m + i
        BY <1>m, <1>6
      <3> QED
        BY <1>2, <1>7, <1>10, <3>1, <3>2, <3>3, Zenon
    <2>4. \A u \in Sd : \A i \in 1..Len(arrived'[u]) : arrived'[u][i].n = i
      BY <1>1, <1>2, Zenon DEF InKernel
    <2> QED
      BY <2>1, <2>2, <2>3, <2>4, Zenon DEF InKernel
  <1>16. \A c \in Client : \A u, n : ReadFor(c, u, n) => ReadFor(c, u, n)'
    <2>1. 1..Read(s) \subseteq 1..m
      BY <1>m, <1>6
    <2> QED
      BY <1>2, <1>10, <1>11, <1>12, <1>13, <2>1, Zenon DEF ReadFor
  <1>17. ASSUME indicated' = indicated, arrived[s][m].kind # "data"
         PROVE  IndicatedRead' /\ ReadIndicated' /\ InOrder'
    <2>1. IndicatedRead'
      BY <1>16, <1>17, Zenon DEF DownlinkInv, IndicatedRead
    <2>2. \A u, k : Indicated(u, k)' <=> Indicated(u, k)
      BY <1>13, <1>17, Zenon DEF Indicated
    <2>3. \A k \in 1..m : k \in 1..Read(s) \/ k = m
      BY <1>m, <1>6
    <2>4. ReadIndicated'
      BY <1>2, <1>10, <1>11, <1>12, <1>17, <2>2, <2>3, Zenon DEF DownlinkInv, ReadIndicated
    <2>5. InOrder'
      BY <1>17, Zenon DEF DownlinkInv, InOrder
    <2> QED
      BY <2>1, <2>4, <2>5
  <1>18. ASSUME arrived[s][m].kind = "data",
                indicated' = [indicated EXCEPT ![Owner(s)] = Append(indicated[Owner(s)], [sd |-> s, n |-> m])]
         PROVE  IndicatedRead' /\ ReadIndicated' /\ InOrder'
    <2>o. PICK o \in Client : o = Owner(s)
      BY <1>12
    <2>l. PICK l : l = Len(indicated[o])
      OBVIOUS
    <2>d. PICK d : d = [sd |-> s, n |-> m]
      OBVIOUS
    <2>1. d \in I /\ d.sd = s /\ d.n = m
      BY <1>8, <2>d DEF I
    <2>2. indicated'[o] = Append(indicated[o], d) /\ indicated[o] \in Seq(I)
      BY <1>3, <1>18, <2>o, <2>d, Zenon
    <2>3. \A c \in Client : c # o => indicated'[c] = indicated[c]
      BY <1>3, <1>18, <2>o, Zenon
    <2>4. /\ l \in Nat /\ Len(indicated'[o]) = l + 1 /\ indicated'[o][l + 1] = d
          /\ \A i \in 1..l : indicated'[o][i] = indicated[o][i]
      BY <2>l, <2>1, <2>2, AppendFacts
    <2>5. \A i \in 1..(l + 1) : i \in 1..l \/ i = l + 1
      BY <2>4
    <2>6. ReadFor(o, s, m)'
      <3>1. m \in 1..m
        BY <1>8
      <3>2. Owner(s)' = o
        BY <1>13, <2>o, Zenon
      <3> QED
        BY <1>1, <1>2, <1>10, <1>18, <3>1, <3>2, Zenon DEF ReadFor
    <2>8. IndicatedRead'
      <3> SUFFICES ASSUME NEW c \in Client, NEW i \in 1..Len(indicated'[c]), NEW u, NEW n,
                          u = indicated'[c][i].sd, n = indicated'[c][i].n
                   PROVE  ReadFor(c, u, n)'
        BY Zenon DEF IndicatedRead
      <3>1. CASE c # o
        <4>1. indicated'[c] = indicated[c]
          BY <2>3, <3>1, Zenon
        <4>2. ReadFor(c, u, n)
          BY <4>1, Zenon DEF DownlinkInv, IndicatedRead
        <4> QED
          BY <1>16, <4>2, Zenon
      <3>2. CASE c = o /\ i \in 1..l
        <4>1. ReadFor(c, u, n)
          BY <2>4, <2>l, <3>2, Zenon DEF DownlinkInv, IndicatedRead
        <4> QED
          BY <1>16, <4>1, Zenon
      <3>3. CASE c = o /\ i = l + 1
        BY <2>1, <2>4, <2>6, <3>3, Zenon
      <3> QED
        BY <2>4, <2>5, <3>1, <3>2, <3>3, Zenon
    <2>9. ReadIndicated'
      <3> SUFFICES ASSUME NEW u \in DOMAIN udp_socket_list, NEW k \in 1..(Read(u)'), arrived[u][k].kind = "data"
                   PROVE  Indicated(u, k)'
        BY <1>2, Zenon DEF ReadIndicated
      <3>c. PICK c \in Client : c = Owner(u)
        BY SocketsAreSd, Zenon
      <3>1. Owner(u)' = c
        BY <1>13, <3>c, Zenon
      <3>2. CASE u = s /\ k = m
        <4>1. c = o
          BY <2>o, <3>c, <3>2, Zenon
        <4>2. l + 1 \in 1..(l + 1)
          BY <2>4
        <4> QED
          BY <2>4, <2>d, <3>1, <3>2, <4>1, <4>2, Zenon DEF Indicated
      <3>3. CASE u # s \/ k # m
        <4>1. k \in 1..Read(u)
          <5>1. \A j \in 1..m : j \in 1..Read(s) \/ j = m
            BY <1>m, <1>6
          <5> QED
            BY <1>10, <1>11, <1>12, <3>3, <5>1, Zenon
        <4>2. Indicated(u, k)
          BY <4>1, Zenon DEF DownlinkInv, ReadIndicated
        <4>3. PICK i \in 1..Len(indicated[c]) : indicated[c][i] = [sd |-> u, n |-> k]
          BY <3>c, <4>2, Zenon DEF Indicated
        <4>4. i \in 1..Len(indicated'[c]) /\ indicated'[c][i] = indicated[c][i]
          <5>1. CASE c # o
            BY <2>3, <5>1, Zenon
          <5>2. CASE c = o
            <6>1. 1..l \subseteq 1..(l + 1)
              BY <2>4
            <6> QED
              BY <2>l, <2>4, <5>2, <6>1, Zenon
          <5> QED
            BY <5>1, <5>2
        <4> QED
          BY <3>1, <4>3, <4>4, Zenon DEF Indicated
      <3> QED
        BY <3>2, <3>3
    <2>10. InOrder'
      <3> SUFFICES ASSUME NEW c \in Client, NEW i \in 1..Len(indicated'[c]), NEW j \in 1..Len(indicated'[c]),
                          i < j, indicated'[c][i].sd = indicated'[c][j].sd
                   PROVE  indicated'[c][i].n < indicated'[c][j].n
        BY Zenon DEF InOrder
      <3>1. CASE c # o
        BY <2>3, <3>1, Zenon DEF DownlinkInv, InOrder
      <3>2. CASE c = o /\ j \in 1..l
        <4>1. i \in 1..l
          BY <2>4, <3>2
        <4> QED
          BY <2>4, <2>l, <3>2, <4>1, Zenon DEF DownlinkInv, InOrder
      <3>3. CASE c = o /\ j = l + 1
        <4>1. i \in 1..l
          BY <2>4, <3>3
        <4>2. indicated[o][i].sd = s
          BY <2>1, <2>4, <3>3, <4>1, Zenon
        <4>3. ReadFor(o, s, indicated[o][i].n)
          BY <2>l, <4>1, <4>2, Zenon DEF DownlinkInv, IndicatedRead
        <4>4. indicated[o][i].n \in 1..Read(s)
          BY <4>3, Zenon DEF ReadFor
        <4>5. indicated[o][i].n < m
          BY <1>m, <1>6, <4>4
        <4> QED
          BY <2>1, <2>4, <3>3, <4>1, <4>5, Zenon
      <3> QED
        BY <2>4, <2>5, <3>1, <3>2, <3>3, Zenon
    <2> QED
      BY <2>8, <2>9, <2>10
  <1>19. \/ indicated' = indicated /\ arrived[s][m].kind # "data"
         \/ /\ arrived[s][m].kind = "data"
            /\ indicated' = [indicated EXCEPT ![Owner(s)] = Append(indicated[Owner(s)], [sd |-> s, n |-> m])]
    BY <1>9, Zenon DEF Receiver
  <1> QED
    BY <1>14, <1>15, <1>17, <1>18, <1>19, Zenon DEF DownlinkInv

LEMMA DownlinkStep ==
  TypeInv /\ TypeInv' /\ DownlinkInv /\ [Next]_vars => DownlinkInv'
  <1> SUFFICES ASSUME TypeInv, TypeInv', DownlinkInv, [Next]_vars PROVE DownlinkInv'
    BY Zenon
  <1>1. ASSUME NEW c \in Client, SendReq(c) \/ \E p \in Port : SendInit(c, p)
        PROVE  DownlinkInv'
    BY <1>1, DownlinkSame, Zenon DEF SendReq, SendInit, Send, kernelVars
  <1>2. ASSUME NEW s \in Sd, NEW k \in {"data", "none"}, Datagram(s, k) PROVE DownlinkInv'
    BY <1>2, DownlinkDatagram, Zenon
  <1>3. CASE Take \/ ReceiveSleep \/ RelockEmpty \/ EndOfEvents
    BY <1>3, DownlinkSame, Zenon
       DEF Take, ReceiveSleep, RelockEmpty, EndOfEvents, taskVars, kernelVars
  <1>4. CASE Wake
    <2>1. events' \subseteq epoll
      BY <1>4, Zenon DEF Wake, Ready
    <2> QED
      BY <1>4, <2>1, DownlinkSame, Zenon DEF Wake, taskVars, kernelVars
  <1>5. CASE UdpInit
    <2>1. UNCHANGED <<inbox, arrived, indicated, events>>
      BY <1>5, Zenon DEF UdpInit, kernelVars
    <2>2. CASE NewSocket(msg.origin, msg.port)
      BY <2>1, <2>2, DownlinkOpen, Zenon
    <2>3. CASE UNCHANGED <<udp_socket_list, epoll>>
      BY <2>1, <2>3, DownlinkSame, Zenon
    <2> QED
      BY <1>5, <2>2, <2>3, Zenon DEF UdpInit
  <1>6. CASE UdpDataReqFails \/ UdpDataReq
    BY <1>6, DownlinkSame, Zenon DEF UdpDataReqFails, UdpDataReq, kernelVars
  <1>7. ASSUME NEW s \in Sd, Receiver(s) PROVE DownlinkInv'
    BY <1>7, DownlinkReceiver, Zenon
  <1>8. CASE UNCHANGED vars
    BY <1>8, DownlinkSame, Zenon DEF vars, kernelVars
  <1> QED
    BY <1>1, <1>2, <1>3, <1>4, <1>5, <1>6, <1>7, <1>8, Zenon DEF Next, TaskStep

LEMMA DownlinkOrder == TypeInv /\ DownlinkInv => IndicatedInOrder
  <1> SUFFICES ASSUME TypeInv, DownlinkInv, NEW s \in DOMAIN udp_socket_list
               PROVE  LET Got(c) == {i \in DOMAIN indicated[c] : indicated[c][i].sd = s}
                          owner == udp_socket_list[s].task_id
                          n(i) == indicated[owner][i].n
                      IN  /\ {n(i) : i \in Got(owner)} = DataOf(arrived[s]) \ DataOf(inbox[s])
                          /\ \A i, j \in Got(owner) : i < j => n(i) < n(j)
                          /\ \A c \in Client \ {owner} : Got(c) = {}
    BY Zenon DEF IndicatedInOrder
  <1> DEFINE Got(c) == {i \in DOMAIN indicated[c] : indicated[c][i].sd = s}
             owner == udp_socket_list[s].task_id
             n(i) == indicated[owner][i].n
             D == [kind : {"data", "none"}, n : Nat]
  <1>1. owner \in Client /\ owner = Owner(s) /\ s \in Sd
    BY SocketsAreSd, Zenon DEF Owner
  <1>2. \A c \in Client : indicated[c] \in Seq([sd : Sd, n : Nat])
    BY Zenon DEF TypeInv, TypeOK, SocketsType
  <1>3. \A c \in Client : DOMAIN indicated[c] = 1..Len(indicated[c])
    BY <1>2
  <1>4. \A c \in Client : \A i \in Got(c) : ReadFor(c, s, indicated[c][i].n)
    BY <1>3, Zenon DEF DownlinkInv, IndicatedRead
  <1>5. \A c \in Client \ {owner} : Got(c) = {}
    BY <1>1, <1>4, Zenon DEF ReadFor
  <1>6. \A i, j \in Got(owner) : i < j => n(i) < n(j)
    BY <1>1, <1>3, Zenon DEF DownlinkInv, InOrder
  <1>7. /\ arrived[s] \in Seq(D) /\ inbox[s] \in Seq(D)
        /\ Len(arrived[s]) \in Nat /\ Len(inbox[s]) \in Nat
        /\ Read(s) \in Nat /\ Read(s) + Len(inbox[s]) = Len(arrived[s])
    BY <1>1, ReadType, Zenon DEF DownlinkInv
  <1>8. DOMAIN arrived[s] = 1..Len(arrived[s]) /\ DOMAIN inbox[s] = 1..Len(inbox[s])
    BY <1>7
  <1>9. /\ \A i \in 1..Len(arrived[s]) : arrived[s][i].n = i
        /\ \A i \in 1..Len(inbox[s]) : inbox[s][i] = arrived[s][Read(s) + i]
    BY <1>1, Zenon DEF DownlinkInv, InKernel
  <1>n. /\ Len(arrived[s]) \in Nat /\ Len(inbox[s]) \in Nat
        /\ Read(s) \in Nat /\ Read(s) + Len(inbox[s]) = Len(arrived[s])
    BY <1>7, Zenon
  <1> HIDE DEF D
  <1>10. DataOf(arrived[s]) = {k \in 1..Len(arrived[s]) : arrived[s][k].kind = "data"}
    BY <1>8, <1>9, Zenon DEF DataOf
  <1>11. DataOf(inbox[s]) = {k \in 1..Len(arrived[s]) : k > Read(s) /\ arrived[s][k].kind = "data"}
    <2>1. \A i \in 1..Len(inbox[s]) : /\ Read(s) + i \in 1..Len(arrived[s]) /\ Read(s) + i > Read(s)
                                      /\ inbox[s][i] = arrived[s][Read(s) + i]
                                      /\ inbox[s][i].n = Read(s) + i
      <3>1. \A i \in 1..Len(inbox[s]) : Read(s) + i \in 1..Len(arrived[s]) /\ Read(s) + i > Read(s)
        BY <1>n
      <3> QED
        BY <1>9, <3>1, Zenon
    <2>2. \A k \in 1..Len(arrived[s]) : k > Read(s) => \E i \in 1..Len(inbox[s]) : k = Read(s) + i
      <3> TAKE k \in 1..Len(arrived[s])
      <3>1. k > Read(s) => k - Read(s) \in 1..Len(inbox[s]) /\ k = Read(s) + (k - Read(s))
        BY <1>n
      <3> QED
        BY <3>1, Zenon
    <2>3. DataOf(inbox[s]) \subseteq {k \in 1..Len(arrived[s]) : k > Read(s) /\ arrived[s][k].kind = "data"}
      BY <1>8, <2>1, ZenonT(60) DEF DataOf
    <2>4. ASSUME NEW k \in 1..Len(arrived[s]), k > Read(s), arrived[s][k].kind = "data"
          PROVE  k \in DataOf(inbox[s])
      <3>1. PICK i \in 1..Len(inbox[s]) : k = Read(s) + i
        BY <2>2, <2>4, Zenon
      <3>2. inbox[s][i].kind = "data" /\ inbox[s][i].n = k
        BY <2>1, <2>4, <3>1, Zenon
      <3> QED
        BY <1>8, <3>2, Zenon DEF DataOf
    <2> QED
      BY <2>3, <2>4, Zenon
  <1>12. DataOf(arrived[s]) \ DataOf(inbox[s]) = {k \in 1..Read(s) : arrived[s][k].kind = "data"}
    <2>1. \A k \in 1..Len(arrived[s]) : k > Read(s) \/ k \in 1..Read(s)
      BY <1>n
    <2>2. \A k \in 1..Read(s) : k \in 1..Len(arrived[s]) /\ ~(k > Read(s))
      BY <1>n
    <2> QED
      BY <1>10, <1>11, <2>1, <2>2, Zenon
  <1>13. {n(i) : i \in Got(owner)} \subseteq {k \in 1..Read(s) : arrived[s][k].kind = "data"}
    BY <1>1, <1>4, Zenon DEF ReadFor
  <1>14. ASSUME NEW k \in 1..Read(s), arrived[s][k].kind = "data"
         PROVE  k \in {n(i) : i \in Got(owner)}
    <2>1. Indicated(s, k)
      BY <1>14, Zenon DEF DownlinkInv, ReadIndicated
    <2>2. PICK i \in 1..Len(indicated[owner]) : indicated[owner][i] = [sd |-> s, n |-> k]
      BY <1>1, <2>1, Zenon DEF Indicated
    <2>3. indicated[owner][i].sd = s /\ indicated[owner][i].n = k
      BY <2>2
    <2> QED
      BY <1>1, <1>3, <2>3, Zenon
  <1> QED
    BY <1>5, <1>6, <1>12, <1>13, <1>14, Zenon

\* For any clients, sockets and number of datagrams: what arrives at a socket goes to
\* the client that opened it and to no other, each datagram with data once and in
\* the order of arrival (udp_eNB_task.c:125-145, 237-310).
THEOREM DownlinkCorrect == Spec => []IndicatedInOrder
  BY TypeInit, TypeStep, DownlinkInit, DownlinkStep, DownlinkOrder, PTL DEF Spec
=============================================================================
