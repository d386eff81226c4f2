--------------------------------- MODULE Icm ---------------------------------
(***************************************************************************)
(* The ICM task of the eNB (src/openairinterface5g/openair3/ICM/icm.c): it *)
(* takes the copies of ITTI messages from its queue and tells the packet   *)
(* terminal the TEID of a bearer that was set up.  Its other duty, to end  *)
(* the terminal on TERMINATE_MESSAGE, never arises: the function that      *)
(* would send that message, itti_send_terminate_message(), is empty.       *)
(***************************************************************************)
EXTENDS Integers, Sequences, UdpSocket

VARIABLES
    queue,      \* the ICM task's ITTI queue, oldest message first
    wire        \* receive buffer of the terminal's socket on port 2152

\* ITTI messages as far as icm_process_itti_msg() tells them apart: a setup
\* response has the number of bearers that came up and, in e_rabs[0], a TEID,
\* or with no bearer whatever the memory of the message held before.
SetupResp(nb, teid) == [id |-> "S1AP_E_RAB_SETUP_RESP", nb_of_e_rabs |-> nb, e_rab0 |-> teid]
OtherMessage == [id |-> "OTHER", nb_of_e_rabs |-> 0, e_rab0 |-> 0]

\* The four bytes the terminal takes for a control datagram.
Dgram(teid) == [from |-> "icm", port |-> 0, teid |-> teid, n |-> 0]

IcmInit == queue = <<>>

\* sendto() to the terminal: a failure is only logged.
SendTo(d) ==
    \/ wire' = Deliver(wire, d)
    \/ UNCHANGED wire

\* Mutant of Process: the message stays in the queue.
BugProcess(id) ==
    /\ queue # <<>> /\ Head(queue).id = id
    /\ UNCHANGED queue

\* One turn of icm_task()'s loop with a message of the given id.
Process(id) ==
    /\ queue # <<>> /\ Head(queue).id = id
    /\ queue' = Tail(queue)

\* Only e_rabs[0] is looked at, and nb_of_e_rabs is not.
ProcessSetupResp ==
    /\ Process("S1AP_E_RAB_SETUP_RESP")
    /\ SendTo(Dgram(Head(queue).e_rab0))

ProcessOther ==
    /\ Process("OTHER")
    /\ UNCHANGED wire

IcmStep == ProcessSetupResp \/ ProcessOther
=============================================================================
