------------------------------ MODULE TeidChain ------------------------------
(***************************************************************************)
(* How the TEIDs of dedicated bearers get from the eNB's RRC task to the   *)
(* packet terminal: RRC sends S1AP_E_RAB_SETUP_RESP through ITTI, which    *)
(* queues a copy for ICM (in the order in which RRC sends, Itti!           *)
(* SenderOrder), ICM sends the TEID as a datagram to the terminal, whose   *)
(* down thread stores it and rewrites user packets accordingly.  User      *)
(* packets share the socket with the control datagrams.  The terminal's    *)
(* other threads are left out: with the down thread they share only the    *)
(* log queue and the flag that ends it (module PacketTerminal has them).   *)
(*                                                                         *)
(* The DRB starter asks for three bearers per UE, one request each, and    *)
(* the eNB answers in that order.  TEIDs are numbered in the order of the  *)
(* answers, so that TEID t belongs to bearer (t - 1) % 3 of its UE, the    *)
(* one meant for UDP port 6001 + (t - 1) % 3.  The answer for a bearer     *)
(* that did not come up has no TEID; ICM sends on what the memory of the   *)
(* message holds, zero or the value that -t stands for.                    *)
(***************************************************************************)
EXTENDS PacketTerminal

CONSTANTS
    MaxOther,   \* bound: other ITTI messages
    MaxBearer,  \* bound: answers to requests for a bearer
    MaxFailed   \* bound: answers for a bearer that did not come up

ASSUME ChainAssumption == MaxOther \in Nat /\ MaxBearer \in Nat /\ MaxFailed \in Nat

VARIABLES queue,
    nBearer,    \* answers to requests for a bearer
    nFailed,    \* those without a bearer
    nOther,     \* other messages sent
    lost        \* history: whether a datagram of ICM was not delivered, or
                \* an answer had zero in place of a TEID

Icm == INSTANCE Icm WITH wire <- rxEpc

rrcVars == <<nBearer, nFailed, nOther>>
chainVars == <<vars, queue, rrcVars, lost>>

ChainInit == Init /\ Icm!IcmInit /\ nBearer = 0 /\ nFailed = 0 /\ nOther = 0 /\ lost = FALSE

\* A copy of message m is queued for ICM.
Copied(m) == queue' = Append(queue, m) /\ UNCHANGED vars

BearerComesUp ==
    /\ nBearer < MaxBearer
    /\ nBearer' = nBearer + 1
    /\ Copied(Icm!SetupResp(1, nBearer'))
    /\ UNCHANGED <<nFailed, nOther, lost>>

\* The bearer did not come up: e_rabs[0] is memory from malloc().
BearerFails ==
    /\ nBearer < MaxBearer /\ nFailed < MaxFailed
    /\ nBearer' = nBearer + 1 /\ nFailed' = nFailed + 1
    /\ \E v \in {0, -nBearer'} : Copied(Icm!SetupResp(0, v)) /\ lost' = (lost \/ v = 0)
    /\ UNCHANGED nOther

OtherMessageSent ==
    /\ nOther < MaxOther
    /\ nOther' = nOther + 1
    /\ Copied(Icm!OtherMessage)
    /\ UNCHANGED <<nBearer, nFailed, lost>>

\* ICM's step takes a message for which it sends a datagram.
Sends == queue # queue' /\ Head(queue).id # "OTHER"

IcmSide ==
    /\ Icm!IcmStep
    /\ lost' = (lost \/ (Sends /\ rxEpc' = rxEpc))
    /\ UNCHANGED <<rrcVars, run, pc, buf, numb_read, rxEnb, closed, teid_array, index_drb,
                   anchor, next, queue_mutex, arrived, teids, sent, late>>

TerminalStep == DownStep /\ UNCHANGED <<queue, rrcVars, lost>>

EpcSide == (\E p \in UserPort : EpcSends(p)) /\ UNCHANGED <<queue, rrcVars, lost>>

ChainNext ==
    BearerComesUp \/ BearerFails \/ OtherMessageSent \/ IcmSide \/ TerminalStep \/ EpcSide

ChainSpec == ChainInit /\ [][ChainNext]_chainVars
-----------------------------------------------------------------------------
\* README.md, of the packet terminal: packets "are mapped to different Radio
\* Bearers in the eNB. The mapping depends on the UDP port of the sender."
\* After the first three TEIDs, a packet of port 6001 + i that the terminal
\* rewrote carries the TEID of the i-th bearer of a UE.
PortGetsItsBearer ==
    \A o \in sent : o.cfg >= MAX_DRB /\ o.port \in DrbPort /\ o.teid # Orig =>
        \E t \in 1..MaxBearer : o.teid = Net(t) /\ (t - 1) % MAX_DRB = o.port - PORT1

\* As long as no TEID is lost on its way the mapping is right, also after a
\* bearer failed: a packet of its port then carries what ICM read from the
\* answer without a bearer (icm.c:163-165), and the other ports keep theirs.
MappedUnlessLost ==
    \/ lost
    \/ \A o \in sent : o.cfg >= MAX_DRB /\ o.port \in DrbPort /\ o.teid # Orig =>
           \E t \in 1..MaxBearer : /\ o.teid \in {Net(t), Net(-t)}
                                  /\ (t - 1) % MAX_DRB = o.port - PORT1

\* Whatever gets lost between ICM (icm.c:179) and the terminal, and whatever ICM
\* reads from answers without a bearer, each answer leaves at most one entry
\* in the terminal's table, and the entries are in the order of the answers.
Ordinal(t) == IF t < 0 THEN -t ELSE t
TeidsInOrder ==
    /\ \A i \in 1..Len(teids) : Ordinal(teids[i]) \in 1..nBearer
    /\ \A i, j \in 1..Len(teids) : i < j => Ordinal(teids[i]) < Ordinal(teids[j])
=============================================================================
