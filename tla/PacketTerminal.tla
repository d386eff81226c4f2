--------------------------- MODULE PacketTerminal ---------------------------
(***************************************************************************)
(* src/packet_terminal: a relay between the eNB and the EPC on the S1-U    *)
(* path.  Four threads run: udp_handler_up forwards uplink datagrams,      *)
(* udp_handler_down forwards downlink datagrams and writes the TEID of a   *)
(* dedicated bearer into the GTP header of the ones that come from a known *)
(* UDP port, handler_print empties the log queue both fill, and main       *)
(* sleeps for an hour and then shuts the process down.                     *)
(*                                                                         *)
(* The handler of the eNB's control messages (ICM) is the down thread too: *)
(* a datagram from the eNB's address and port 6000 carries a TEID.         *)
(***************************************************************************)
EXTENDS Integers, Sequences, UdpSocket

CONSTANTS
    Orig,       \* the TEID the SPGW writes into a downlink GTP header
    Garbage,    \* what uninitialised memory holds
    UserPort,   \* bound: inner UDP source ports of downlink user packets
    MaxUp,      \* bound: uplink datagrams that arrive
    MaxDown,    \* bound: downlink user datagrams that arrive
    MaxCtl      \* bound: control datagrams that arrive

ASSUME BoundsAssumption == MaxUp \in Nat /\ MaxDown \in Nat /\ MaxCtl \in Nat

MAX_DRB == 3
PORT1 == 6001
PORT2 == 6002
PORT3 == 6003
DrbPort == {PORT1, PORT2, PORT3}
OtherPort == 0
Port == DrbPort \cup {OtherPort}

ASSUME PortAssumption == UserPort \subseteq Port

Relay == {"up", "down"}
Thread == Relay \cup {"print", "main"}

\* htonl(): the header bytes for TEID t. Fields of GTP headers are in this form.
Net(t) == <<"net", t>>
HeaderTeid == {Orig, Garbage} \cup ({"net"} \X (Int \cup {Garbage}))

\* A datagram as a relay thread holds it: who sent it, the UDP source port of
\* the packet inside, the TEID (host order in a control datagram, a header
\* field otherwise) and a number that tells user datagrams apart.
Control(t) == [from |-> "icm", port |-> OtherPort, teid |-> t, n |-> 0]
Downlink(p, k) == [from |-> "epc", port |-> p, teid |-> Orig, n |-> k]
Uplink(k) == [from |-> "enb", port |-> OtherPort, teid |-> Orig, n |-> k]
ControlDgram == [from : {"icm"}, port : {OtherPort}, teid : Int, n : {0}]
DownlinkDgram == [from : {"epc"}, port : Port, teid : {Orig}, n : 1..MaxDown]
UplinkDgram == [from : {"enb"}, port : {OtherPort}, teid : {Orig}, n : 1..MaxUp]

\* The receive buffer of a relay thread before its first recvfrom().
Uninit(f) == [from |-> f, port |-> OtherPort, teid |-> Garbage, n |-> 0]

\* An item of the log queue: its direction and the datagram it is about.
LogItem == Relay \X (0..MaxUp + MaxDown)

VARIABLES
    run,          \* int run: the flag all threads but main poll
    pc,           \* where each thread is
    buf,          \* buffer and sender address of each relay thread
    numb_read,    \* result of each relay thread's last recvfrom(): 1 or -1
    rxEnb,        \* receive buffer of the socket towards the eNB (port 2150)
    rxEpc,        \* receive buffer of the socket towards the EPC (port 2152)
    closed,       \* the sockets main has closed
    teid_array,   \* TEID of each dedicated bearer, in header form
    index_drb,    \* slot of teid_array the next TEID goes to
    anchor,       \* the log queue read from its last item to anchor
    next,         \* new->next of the item a relay thread is adding
    queue_mutex,  \* the thread that holds queue_mutex, or "free"
    arrived,      \* datagrams that have arrived, by sender
    teids,        \* history: the TEIDs stored in teid_array, oldest first
    sent,         \* history: what was sent to the eNB
    late          \* history: datagrams forwarded after run became 0

envVars == <<arrived>>
sockVars == <<rxEnb, rxEpc, closed>>
tableVars == <<teid_array, index_drb, teids>>
logVars == <<anchor, next, queue_mutex>>
outVars == <<sent, late>>
vars == <<run, pc, buf, numb_read, rxEnb, rxEpc, closed, teid_array, index_drb,
          anchor, next, queue_mutex, arrived, teids, sent, late>>

Init ==
    /\ run = 1
    /\ pc = [t \in Thread |-> IF t = "main" THEN "sleep" ELSE "loop"]
    /\ buf \in [Relay -> {Uninit("epc"), Uninit("icm")}]
    /\ buf["up"] = Uninit("epc")
    /\ numb_read = [t \in Relay |-> -1]
    /\ rxEnb = <<>> /\ rxEpc = <<>> /\ closed = {}
    /\ teid_array = [i \in 0..MAX_DRB-1 |-> Garbage] /\ index_drb = 0
    /\ anchor = <<>> /\ next = [t \in Relay |-> <<>>] /\ queue_mutex = "free"
    /\ arrived = [s \in {"enb", "epc", "icm"} |-> 0]
    /\ teids = <<>> /\ sent = {} /\ late = [t \in Relay |-> 0]
-----------------------------------------------------------------------------
(***************************************************************************)
(* The peers.  A datagram arrives at a socket of the terminal.             *)
(***************************************************************************)
Arrives(s, max) ==
    /\ pc["main"] # "exited"
    /\ arrived[s] < max
    /\ arrived' = [arrived EXCEPT ![s] = @ + 1]
    /\ UNCHANGED <<run, pc, buf, numb_read, closed, tableVars, logVars, outVars>>

\* The eNB's UDP task sends an uplink packet.
EnbSends ==
    /\ Arrives("enb", MaxUp)
    /\ rxEnb' = Deliver(rxEnb, Uplink(arrived'["enb"]))
    /\ UNCHANGED rxEpc

\* The SPGW sends a downlink packet whose inner UDP source port is p.
EpcSends(p) ==
    /\ Arrives("epc", MaxDown)
    /\ rxEpc' = Deliver(rxEpc, Downlink(p, arrived'["epc"]))
    /\ UNCHANGED rxEnb

\* ICM sends the TEID t; zero ends the terminal.
IcmSends(t) ==
    /\ Arrives("icm", MaxCtl)
    /\ rxEpc' = Deliver(rxEpc, Control(t))
    /\ UNCHANGED rxEnb
-----------------------------------------------------------------------------
(***************************************************************************)
(* Steps of the threads.  Returning from main ends every thread.           *)
(***************************************************************************)
Step(t, from, to) ==
    /\ pc["main"] # "exited"
    /\ pc[t] = from
    /\ pc' = [pc EXCEPT ![t] = to]

\* Mutant of LoopTest: the thread does not look at run.
BugLoopTest(t) ==
    /\ Step(t, "loop", IF t \in Relay THEN "recv" ELSE "lock")
    /\ UNCHANGED <<run, buf, numb_read, sockVars, tableVars, logVars, envVars, outVars>>

\* while(run): enter the loop body or leave the thread.
LoopTest(t) ==
    /\ Step(t, "loop", IF run = 0 THEN "done"
                       ELSE IF t \in Relay THEN "recv" ELSE "lock")
    /\ UNCHANGED <<run, buf, numb_read, sockVars, tableVars, logVars, envVars, outVars>>

\* The branch a received datagram takes: only the down thread looks at the sender.
Branch(t, d) == IF t = "down" /\ d.from = "icm" THEN "control" ELSE "lock"

\* recvfrom() on a socket that is open returns its oldest datagram.
RecvUp ==
    /\ Step("up", "recv", "lock")
    /\ "enb" \notin closed /\ rxEnb # <<>>
    /\ buf' = [buf EXCEPT !["up"] = Head(rxEnb)]
    /\ rxEnb' = Tail(rxEnb)
    /\ numb_read' = [numb_read EXCEPT !["up"] = 1]
    /\ UNCHANGED <<run, rxEpc, closed, tableVars, logVars, envVars, outVars>>

RecvDown ==
    /\ "epc" \notin closed /\ rxEpc # <<>>
    /\ Step("down", "recv", Branch("down", Head(rxEpc)))
    /\ buf' = [buf EXCEPT !["down"] = Head(rxEpc)]
    /\ rxEpc' = Tail(rxEpc)
    /\ numb_read' = [numb_read EXCEPT !["down"] = 1]
    /\ UNCHANGED <<run, rxEnb, closed, tableVars, logVars, envVars, outVars>>

\* recvfrom() on a closed socket fails. Nobody looks at the result: the thread
\* goes on with the address and the contents its buffer has from before.
RecvError(t) ==
    /\ (IF t = "up" THEN "enb" ELSE "epc") \in closed
    /\ Step(t, "recv", Branch(t, buf[t]))
    /\ numb_read' = [numb_read EXCEPT ![t] = -1]
    /\ UNCHANGED <<run, buf, sockVars, tableVars, logVars, envVars, outVars>>

\* A zero TEID: end the terminal.
ControlStop ==
    /\ Step("down", "control", "loop")
    /\ buf["down"].teid = 0
    /\ run' = 0
    /\ UNCHANGED <<buf, numb_read, sockVars, tableVars, logVars, envVars, outVars>>

\* Mutant of ControlTeid: the index does not wrap around.
BugControlTeid ==
    /\ Step("down", "control", "loop")
    /\ buf["down"].teid # 0
    /\ teid_array' = [teid_array EXCEPT ![index_drb] = Net(buf["down"].teid)]
    /\ index_drb' = index_drb + 1
    /\ teids' = Append(teids, buf["down"].teid)
    /\ UNCHANGED <<run, buf, numb_read, sockVars, logVars, envVars, outVars>>

\* A non-zero TEID: it goes to the next slot of the table.
ControlTeid ==
    /\ Step("down", "control", "loop")
    /\ buf["down"].teid # 0
    /\ teid_array' = [teid_array EXCEPT ![index_drb] = Net(buf["down"].teid)]
    /\ index_drb' = (index_drb + 1) % MAX_DRB
    /\ teids' = Append(teids, buf["down"].teid)
    /\ UNCHANGED <<run, buf, numb_read, sockVars, logVars, envVars, outVars>>

\* Mutant of AddLink: the mutex is not taken.
BugAddLink(t) ==
    /\ Step(t, "lock", "publish")
    /\ next' = [next EXCEPT ![t] = anchor]
    /\ UNCHANGED <<run, buf, numb_read, sockVars, tableVars, anchor, queue_mutex, envVars,
                   outVars>>

\* add_queue_item(): take the mutex and link the new item to the queue ...
AddLink(t) ==
    /\ Step(t, "lock", "publish")
    /\ queue_mutex = "free"
    /\ queue_mutex' = t
    /\ next' = [next EXCEPT ![t] = anchor]
    /\ UNCHANGED <<run, buf, numb_read, sockVars, tableVars, anchor, envVars, outVars>>

\* Mutant of AddPublish: the mutex is not released.
BugAddPublish(t) ==
    /\ Step(t, "publish", "send")
    /\ anchor' = Append(next[t], <<t, buf[t].n>>)
    /\ next' = [next EXCEPT ![t] = <<>>]
    /\ UNCHANGED <<run, buf, numb_read, sockVars, tableVars, queue_mutex, envVars, outVars>>

\* ... then make it the first one and release the mutex.
AddPublish(t) ==
    /\ Step(t, "publish", "send")
    /\ anchor' = Append(next[t], <<t, buf[t].n>>)
    /\ next' = [next EXCEPT ![t] = <<>>]
    /\ queue_mutex' = "free"
    /\ UNCHANGED <<run, buf, numb_read, sockVars, tableVars, envVars, outVars>>

\* sendto() succeeds on an open socket, for a length that is not -1.
SendOk(t, s) == s \notin closed /\ numb_read[t] = 1
CountLate(t, s) ==
    late' = [late EXCEPT ![t] = IF run = 0 /\ SendOk(t, s) THEN @ + 1 ELSE @]

SendUp ==
    /\ Step("up", "send", "loop")
    /\ CountLate("up", "epc")
    /\ UNCHANGED <<run, buf, numb_read, sockVars, tableVars, logVars, envVars, sent>>

\* Mutant of Rewritten: a configuration under way does not stop the rewriting.
BugRewritten(d) == IF d.port \in DrbPort THEN teid_array[d.port - PORT1] ELSE d.teid

\* Mutant of Rewritten: the slots are counted from 1.
BugRewrittenSlot(d) ==
    IF index_drb = 0 /\ d.port \in DrbPort
    THEN teid_array[(d.port - PORT1 + 1) % MAX_DRB] ELSE d.teid

\* The TEID in the header of downlink packet d when it leaves: rewritten only
\* while no configuration is under way.
Rewritten(d) ==
    IF index_drb = 0 /\ d.port \in DrbPort THEN teid_array[d.port - PORT1] ELSE d.teid

SendDown ==
    /\ Step("down", "send", "loop")
    /\ CountLate("down", "enb")
    /\ sent' = IF SendOk("down", "enb")
               THEN sent \cup {[n |-> buf["down"].n, port |-> buf["down"].port,
                                teid |-> Rewritten(buf["down"]), cfg |-> Len(teids)]}
               ELSE sent
    /\ UNCHANGED <<run, buf, numb_read, sockVars, tableVars, logVars, envVars>>

\* handler_print(): take the mutex ...
PrintLock ==
    /\ Step("print", "lock", "print")
    /\ queue_mutex = "free"
    /\ queue_mutex' = "print"
    /\ UNCHANGED <<run, buf, numb_read, sockVars, tableVars, anchor, next, envVars, outVars>>

\* Mutant of PrintItem: the only item of the queue is never removed.
BugPrintItem ==
    /\ Step("print", "print", "loop")
    /\ anchor' = IF Len(anchor) <= 1 THEN anchor ELSE Tail(anchor)
    /\ queue_mutex' = "free"
    /\ UNCHANGED <<run, buf, numb_read, sockVars, tableVars, next, envVars, outVars>>

\* ... print and free the last item if there is one, release the mutex.
PrintItem ==
    /\ Step("print", "print", "loop")
    /\ anchor' = IF anchor = <<>> THEN anchor ELSE Tail(anchor)
    /\ queue_mutex' = "free"
    /\ UNCHANGED <<run, buf, numb_read, sockVars, tableVars, next, envVars, outVars>>

\* main: sleep(3600) is over, stop the threads.
MainWake ==
    /\ Step("main", "sleep", "closeEnb")
    /\ run' = 0
    /\ UNCHANGED <<buf, numb_read, sockVars, tableVars, logVars, envVars, outVars>>

MainClose(s) ==
    /\ Step("main", IF s = "enb" THEN "closeEnb" ELSE "closeEpc",
                    IF s = "enb" THEN "closeEpc" ELSE "return")
    /\ closed' = closed \cup {s}
    /\ UNCHANGED <<run, buf, numb_read, rxEnb, rxEpc, tableVars, logVars, envVars, outVars>>

MainReturn ==
    /\ Step("main", "return", "exited")
    /\ UNCHANGED <<run, buf, numb_read, sockVars, tableVars, logVars, envVars, outVars>>
-----------------------------------------------------------------------------
Environment ==
    \/ EnbSends
    \/ \E p \in UserPort : EpcSends(p)
    \/ IcmSends(0)
    \/ IcmSends(arrived["icm"] + 1)     \* a TEID no bearer had before

RelayStep(t) ==
    \/ LoopTest(t) \/ RecvError(t) \/ AddLink(t) \/ AddPublish(t)

UpStep == RelayStep("up") \/ RecvUp \/ SendUp
DownStep == RelayStep("down") \/ RecvDown \/ ControlStop \/ ControlTeid \/ SendDown
PrintStep == LoopTest("print") \/ PrintLock \/ PrintItem
MainStep == MainWake \/ (\E s \in {"enb", "epc"} : MainClose(s)) \/ MainReturn

System == UpStep \/ DownStep \/ PrintStep \/ MainStep

\* The process has ended and stays so.
Exited == pc["main"] = "exited" /\ UNCHANGED vars

Next == System \/ Environment \/ Exited

Spec == Init /\ [][Next]_vars

(***************************************************************************)
(* Each thread keeps running when it can.  Nothing is assumed about who    *)
(* gets the mutex: handler_print takes and releases it for ever while run  *)
(* is 1, POSIX promises no order among those who wait for it, and a relay  *)
(* thread may wait as long as handler_print runs.                          *)
(***************************************************************************)
Fairness == WF_vars(UpStep) /\ WF_vars(DownStep) /\ WF_vars(PrintStep)

FairSpec == Spec /\ Fairness
-----------------------------------------------------------------------------
(***************************************************************************)
(* Properties.                                                             *)
(***************************************************************************)
Stale == {Uninit("epc"), Uninit("icm")}
Label == {"loop", "recv", "control", "lock", "publish", "send", "print", "done"}
MainLabel == {"sleep", "closeEnb", "closeEpc", "return", "exited"}
SentPacket == [n : 1..MaxDown, port : Port, teid : HeaderTeid, cfg : Nat]

ThreadsType == run \in {0, 1} /\ pc \in [Thread -> Label \cup MainLabel]
BufsType ==
    /\ buf["up"] \in UplinkDgram \cup Stale
    /\ buf["down"] \in DownlinkDgram \cup ControlDgram \cup Stale
    /\ DOMAIN buf = Relay
    /\ numb_read \in [Relay -> {-1, 1}]
SocketsType ==
    /\ rxEnb \in Seq(UplinkDgram) /\ rxEpc \in Seq(DownlinkDgram \cup ControlDgram)
    /\ closed \subseteq {"enb", "epc"}
TableType ==
    /\ teid_array \in [0..MAX_DRB-1 -> HeaderTeid] /\ index_drb \in 0..MAX_DRB-1
    /\ teids \in Seq(Int \cup {Garbage})
LogType ==
    /\ anchor \in Seq(LogItem) /\ next \in [Relay -> Seq(LogItem)]
    /\ queue_mutex \in {"up", "down", "print", "free"}
OutType == sent \subseteq SentPacket /\ late \in [Relay -> Nat]

\* Every variable has its type; in particular the two indices into
\* teid_array (packet_terminal.h:128 and 150-160) stay inside it.
TypeOK ==
    /\ ThreadsType /\ BufsType /\ SocketsType /\ TableType /\ LogType /\ OutType
    /\ arrived \in [{"enb", "epc", "icm"} -> Nat]

\* What a relay thread holds in its buffer at each point: at "control" a
\* control datagram, between recvfrom() and sendto() of user data never one.
BufferOK ==
    /\ pc["down"] = "control" => buf["down"].from = "icm"
    /\ pc["down"] \in {"lock", "publish", "send"} => buf["down"].from # "icm"
    /\ pc["down"] \in {"lock", "publish", "send"} /\ numb_read["down"] = 1 =>
           buf["down"] \in DownlinkDgram

\* Who holds the mutex is inside a critical section and the other way round,
\* and the queue a new item was linked to is still the queue.
MutexOK ==
    /\ \A t \in Relay : (pc[t] = "publish") <=> (queue_mutex = t)
    /\ (pc["print"] = "print") <=> (queue_mutex = "print")
    /\ \A t \in Relay : pc[t] = "publish" => next[t] = anchor

\* A relay thread has forwarded nothing after run became 0, or one datagram
\* and is back at the test of run.
LateOK ==
    \A t \in Relay :
        late[t] = 0 \/ (late[t] = 1 /\ run = 0 /\ pc[t] \in {"loop", "done"})

\* Slot i of teid_array holds the latest TEID stored at a position that is i
\* modulo MAX_DRB.
LatestAt(i) == Len(teids) - ((Len(teids) - 1 - i) % MAX_DRB)
TableOK ==
    /\ index_drb = Len(teids) % MAX_DRB
    /\ \A i \in 0..MAX_DRB-1 : Len(teids) > i => teid_array[i] = Net(teids[LatestAt(i)])

\* The log queue that the two relay threads fill and handler_print empties
\* (packet_terminal.h:179-238) is a FIFO: no item is lost, printed twice or
\* reachable again after print_last_item() freed it, however the threads
\* interleave.
LogQueue == INSTANCE LogFifo WITH Item <- LogItem, pending <- anchor
LogIsFifo == LogQueue!Spec

\* Once a full set of TEIDs was stored, a downlink packet of port 6001 + i
\* that leaves between two configurations carries the i-th TEID of the latest
\* full set, and one that leaves in the middle of a configuration carries the
\* TEID it came with: never one of a set that is only partly stored
\* (packet_terminal.h:128-166).
RewriteUsesFullSet ==
    \A o \in sent : o.cfg >= MAX_DRB /\ o.port \in DrbPort =>
        o.teid = IF o.cfg % MAX_DRB = 0
                 THEN Net(teids[o.cfg - MAX_DRB + (o.port - PORT1) + 1])
                 ELSE Orig

\* What was sent was sent at an earlier or the present length of teids.
SentOK == (\A o \in sent : o.cfg <= Len(teids)) /\ RewriteUsesFullSet

\* After run became 0, by a zero TEID or because main woke up, each relay
\* thread forwards at most the one datagram it was working on or blocked for
\* in recvfrom() (packet_terminal.h:69-77, 107-169).
AtMostOneLate == \A t \in Relay : late[t] <= 1

\* Once run is 0 a relay thread finishes what it has in hand (sends it on, or
\* sendto() fails on a closed socket) unless the process ends first: the threads
\* that leave their loop let go of the mutex and nobody goes on taking it
\* (packet_terminal.h:69-77, 107-169, 228-238).
Working(t) == pc[t] \in {"control", "lock", "publish", "send"}
WorkIsFinished ==
    \A t \in Relay :
        (run = 0 /\ Working(t)) ~> (~Working(t) \/ pc["main"] = "exited")

\* While the terminal runs, handler_print empties the log queue
\* (packet_terminal.h:228-238); what is in it when run becomes 0 may stay.
LogDrains == (anchor # <<>>) ~> (anchor = <<>> \/ run = 0)
=============================================================================
