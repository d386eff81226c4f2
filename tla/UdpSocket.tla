------------------------------ MODULE UdpSocket ------------------------------
(***************************************************************************)
(* The datagram sockets the programs of this repository talk through, as   *)
(* far as the programs can tell: a socket has a receive buffer of bounded  *)
(* size, sendto() to it queues a datagram at the end of the buffer, a      *)
(* datagram that finds the buffer full is dropped by the kernel without    *)
(* the sender noticing, and recvfrom() takes the oldest one.               *)
(***************************************************************************)
EXTENDS Naturals, Sequences

CONSTANT SockCap    \* datagrams a receive buffer holds

ASSUME SockCapAssumption == SockCap \in Nat \ {0}

\* The receive buffer after datagram d was sent to it.
Deliver(rcvbuf, d) ==
    IF Len(rcvbuf) < SockCap THEN Append(rcvbuf, d) ELSE rcvbuf
=============================================================================
