------------------------ MODULE PacketTerminalProofs ------------------------
(***************************************************************************)
(* Proofs about PacketTerminal, for any number of datagrams and any size   *)
(* of the socket buffers.                                                  *)
(***************************************************************************)
EXTENDS PacketTerminal, TLAPS

USE DEF MAX_DRB, PORT1, PORT2, PORT3, DrbPort, OtherPort, Port, Relay, Thread

\* The invariant under which every step keeps the types.
TypeInv == TypeOK /\ BufferOK

LEMMA InitTypeInv == Init => TypeInv
  <1> SUFFICES ASSUME Init PROVE TypeInv
    OBVIOUS
  <1> USE DEF Init
  <1>1. ThreadsType /\ SocketsType
    BY DEF ThreadsType, SocketsType, Label, MainLabel
  <1>2. BufsType
    BY DEF BufsType, Stale
  <1>3. TableType
    BY DEF TableType, HeaderTeid
  <1>4. LogType /\ OutType
    BY DEF LogType, OutType
  <1>5. BufferOK
    BY DEF BufferOK
  <1> QED
    BY <1>1, <1>2, <1>3, <1>4, <1>5 DEF TypeInv, TypeOK

\* Each part of the type invariant depends on some variables only.
LEMMA Frames ==
  /\ BufsType /\ UNCHANGED <<buf, numb_read>> => BufsType'
  /\ SocketsType /\ UNCHANGED <<rxEnb, rxEpc, closed>> => SocketsType'
  /\ TableType /\ UNCHANGED <<teid_array, index_drb, teids>> => TableType'
  /\ LogType /\ UNCHANGED <<anchor, next, queue_mutex>> => LogType'
  /\ OutType /\ UNCHANGED <<sent, late>> => OutType'
  <1>1. BufsType /\ UNCHANGED <<buf, numb_read>> => BufsType'
    BY DEF BufsType
  <1>2. SocketsType /\ UNCHANGED <<rxEnb, rxEpc, closed>> => SocketsType'
    BY DEF SocketsType
  <1>3. TableType /\ UNCHANGED <<teid_array, index_drb, teids>> => TableType'
    BY DEF TableType
  <1>4. LogType /\ UNCHANGED <<anchor, next, queue_mutex>> => LogType'
    BY DEF LogType
  <1>5. OutType /\ UNCHANGED <<sent, late>> => OutType'
    BY DEF OutType
  <1> QED
    BY <1>1, <1>2, <1>3, <1>4, <1>5

\* What arrives at a socket has the type of the socket's datagrams
\* (Deliver appends it or drops it).
LEMMA DeliverType ==
  ASSUME NEW S, NEW q \in Seq(S), NEW d \in S
  PROVE  Deliver(q, d) \in Seq(S)
  BY DEF Deliver

\* The number of a datagram that arrives is within its bound.
LEMMA ArrivesType ==
  ASSUME TypeOK, NEW s \in {"enb", "epc", "icm"}, NEW max \in Nat, Arrives(s, max)
  PROVE  arrived'[s] \in 1..max /\ arrived' \in [{"enb", "epc", "icm"} -> Nat]
  <1>1. arrived \in [{"enb", "epc", "icm"} -> Nat]
    BY DEF TypeOK
  <1>2. arrived[s] < max /\ arrived' = [arrived EXCEPT ![s] = @ + 1]
    BY DEF Arrives
  <1> QED
    BY <1>1, <1>2

\* An arrival changes only the receive buffers and the count.
LEMMA ArrivesInv ==
  ASSUME TypeInv, NEW s \in {"enb", "epc", "icm"}, NEW max \in Nat, Arrives(s, max),
         rxEnb' \in Seq(UplinkDgram), rxEpc' \in Seq(DownlinkDgram \cup ControlDgram)
  PROVE  TypeInv'
  <1>1. arrived' \in [{"enb", "epc", "icm"} -> Nat]
    BY ArrivesType DEF TypeInv
  <1>2. UNCHANGED <<run, pc, buf, numb_read, closed, teid_array, index_drb, teids, anchor, next,
                    queue_mutex, sent, late>>
    BY DEF Arrives, tableVars, logVars, outVars
  <1>3. SocketsType'
    BY <1>2 DEF TypeInv, TypeOK, SocketsType
  <1>4. ThreadsType' /\ BufferOK'
    BY <1>2 DEF TypeInv, TypeOK, ThreadsType, BufferOK
  <1> QED
    BY <1>1, <1>2, <1>3, <1>4, Frames DEF TypeInv, TypeOK

LEMMA EnvironmentType == TypeInv /\ Environment => TypeInv'
  <1> SUFFICES ASSUME TypeInv, Environment PROVE TypeInv'
    OBVIOUS
  <1>0. /\ TypeOK /\ arrived \in [{"enb", "epc", "icm"} -> Nat]
        /\ rxEnb \in Seq(UplinkDgram) /\ rxEpc \in Seq(DownlinkDgram \cup ControlDgram)
    BY DEF TypeInv, TypeOK, SocketsType
  <1>1. CASE EnbSends
    <2>1. Arrives("enb", MaxUp) /\ rxEpc' = rxEpc
          /\ rxEnb' = Deliver(rxEnb, Uplink(arrived'["enb"]))
      BY <1>1 DEF EnbSends
    <2>2. arrived'["enb"] \in 1..MaxUp
      BY <1>0, <2>1, BoundsAssumption, ArrivesType
    <2>3. Uplink(arrived'["enb"]) \in UplinkDgram
      BY <2>2 DEF Uplink, UplinkDgram
    <2> QED
      BY <1>0, <2>1, <2>3, DeliverType, ArrivesInv, BoundsAssumption
  <1>2. ASSUME NEW p \in UserPort, EpcSends(p) PROVE TypeInv'
    <2>1. Arrives("epc", MaxDown) /\ rxEnb' = rxEnb
          /\ rxEpc' = Deliver(rxEpc, Downlink(p, arrived'["epc"]))
      BY <1>2 DEF EpcSends
    <2>2. arrived'["epc"] \in 1..MaxDown
      BY <1>0, <2>1, BoundsAssumption, ArrivesType
    <2>3. Downlink(p, arrived'["epc"]) \in DownlinkDgram \cup ControlDgram
      BY <2>2, PortAssumption DEF Downlink, DownlinkDgram
    <2>4. rxEpc' \in Seq(DownlinkDgram \cup ControlDgram)
      BY <1>0, <2>1, <2>3, DeliverType
    <2> QED
      BY <1>0, <2>1, <2>4, ArrivesInv, BoundsAssumption
  <1>3. ASSUME NEW t \in Nat, IcmSends(t) PROVE TypeInv'
    <2>1. Arrives("icm", MaxCtl) /\ rxEnb' = rxEnb /\ rxEpc' = Deliver(rxEpc, Control(t))
      BY <1>3 DEF IcmSends
    <2>2. Control(t) \in DownlinkDgram \cup ControlDgram
      BY DEF Control, ControlDgram
    <2> QED
      BY <1>0, <2>1, <2>2, DeliverType, ArrivesInv, BoundsAssumption, Zenon
  <1>4. arrived["icm"] + 1 \in Nat
    BY <1>0
  <1> QED
    BY <1>1, <1>2, <1>3, <1>4 DEF Environment

\* A thread's program counter keeps its type when the thread moves.
LEMMA StepType ==
  ASSUME TypeOK, NEW t \in Thread, NEW a, NEW b \in Label \cup MainLabel, Step(t, a, b)
  PROVE  pc' \in [Thread -> Label \cup MainLabel] /\ pc[t] = a /\ pc'[t] = b
         /\ \A u \in Thread \ {t} : pc'[u] = pc[u]
  BY DEF TypeOK, ThreadsType, Step

\* The points of the down thread at which its buffer matters.
Holding == {"control", "lock", "publish", "send"}

\* A thread moves and no buffer changes; the down thread does not enter the
\* points at which its buffer matters.
LEMMA StepInv ==
  ASSUME TypeInv, NEW t \in Thread, NEW a, NEW b \in Label \cup MainLabel, Step(t, a, b),
         run' \in {0, 1}, UNCHANGED <<buf, numb_read>>,
         t = "down" => b \notin Holding \/ (a # "control" /\ a \in Holding /\ b # "control")
  PROVE  ThreadsType' /\ BufsType' /\ BufferOK'
  <1>1. TypeOK
    BY DEF TypeInv
  <1>2. pc' \in [Thread -> Label \cup MainLabel] /\ pc[t] = a /\ pc'[t] = b
        /\ \A u \in Thread \ {t} : pc'[u] = pc[u]
    BY <1>1, StepType
  <1>3. ThreadsType'
    BY <1>2 DEF ThreadsType
  <1>4. BufsType'
    BY <1>1, Frames DEF TypeOK
  <1>5. BufferOK'
    <2>1. CASE t = "down"
      BY <1>2, <2>1 DEF TypeInv, BufferOK, Holding
    <2>2. CASE t # "down"
      BY <1>2, <2>2 DEF TypeInv, BufferOK
    <2> QED
      BY <2>1, <2>2
  <1> QED
    BY <1>3, <1>4, <1>5

LEMMA SystemType == TypeInv /\ System => TypeInv'
  <1> SUFFICES ASSUME TypeInv, System PROVE TypeInv'
    OBVIOUS
  <1> USE DEF sockVars, tableVars, logVars, envVars, outVars
  <1>0. /\ TypeOK /\ BufferOK /\ ThreadsType /\ BufsType /\ SocketsType /\ TableType /\ LogType
        /\ OutType /\ arrived \in [{"enb", "epc", "icm"} -> Nat] /\ run \in {0, 1}
    BY DEF TypeInv, TypeOK, ThreadsType
  <1>q. ASSUME ThreadsType', BufsType', BufferOK', SocketsType', TableType', LogType', OutType',
               UNCHANGED arrived
        PROVE  TypeInv'
    BY <1>q, <1>0 DEF TypeInv, TypeOK
  <1>1. ASSUME NEW t \in Thread, LoopTest(t) PROVE TypeInv'
    <2> DEFINE b == IF run = 0 THEN "done" ELSE IF t \in Relay THEN "recv" ELSE "lock"
    <2>1. b \in Label \cup MainLabel /\ (t = "down" => b \notin Holding)
      BY DEF Label, Holding
    <2>2. Step(t, "loop", b)
      BY <1>1 DEF LoopTest
    <2>3. UNCHANGED <<run, buf, numb_read, sockVars, tableVars, logVars, envVars, outVars>>
      BY <1>1 DEF LoopTest
    <2> HIDE DEF b
    <2>4. ThreadsType' /\ BufsType' /\ BufferOK'
      BY <1>0, <2>1, <2>2, <2>3, StepInv
    <2> QED
      BY <1>0, <1>q, <2>3, <2>4, Frames
  <1>2. ASSUME NEW t \in Relay, RecvError(t) PROVE TypeInv'
    <2>0. Branch(t, buf[t]) \in {"control", "lock"} /\ {"control", "lock"} \subseteq Label
      BY DEF Branch, Label
    <2>1. pc' \in [Thread -> Label \cup MainLabel] /\ pc'[t] = Branch(t, buf[t])
          /\ \A u \in Thread \ {t} : pc'[u] = pc[u]
      BY <1>0, <1>2, <2>0, StepType DEF RecvError
    <2>2. UNCHANGED <<run, buf, sockVars, tableVars, logVars, envVars, outVars>>
      BY <1>2 DEF RecvError
    <2>3. numb_read' \in [Relay -> {-1, 1}] /\ numb_read'[t] = -1
      BY <1>0, <1>2 DEF RecvError, BufsType
    <2>4. ThreadsType'
      BY <1>0, <2>1, <2>2 DEF ThreadsType
    <2>5. BufsType'
      BY <1>0, <2>2, <2>3 DEF BufsType
    <2>6. BufferOK'
      <3>1. CASE t = "down"
        BY <2>1, <2>2, <2>3, <3>1 DEF BufferOK, Branch
      <3>2. CASE t = "up"
        <4>1. pc'["down"] = pc["down"] /\ numb_read'["down"] = numb_read["down"]
          BY <1>0, <1>2, <2>1, <3>2 DEF RecvError, BufsType
        <4> QED
          BY <1>0, <2>2, <4>1 DEF BufferOK
      <3> QED
        BY <3>1, <3>2
    <2> QED
      BY <1>0, <1>q, <2>2, <2>4, <2>5, <2>6, Frames
  <1>3. ASSUME NEW t \in Relay, AddLink(t) PROVE TypeInv'
    <2>1. ThreadsType' /\ BufsType' /\ BufferOK'
      BY <1>0, <1>3, StepInv DEF AddLink, Label, Holding
    <2>2. LogType'
      BY <1>0, <1>3 DEF AddLink, LogType
    <2> QED
      BY <1>0, <1>3, <1>q, <2>1, <2>2, Frames DEF AddLink
  <1>4. ASSUME NEW t \in Relay, AddPublish(t) PROVE TypeInv'
    <2>1. ThreadsType' /\ BufsType' /\ BufferOK'
      BY <1>0, <1>4, StepInv DEF AddPublish, Label, Holding
    <2>2. buf[t].n \in 0..MaxUp + MaxDown
      <3>1. \A d \in UplinkDgram \cup DownlinkDgram \cup ControlDgram \cup Stale :
                d.n \in 0..MaxUp \/ d.n \in 0..MaxDown
        BY BoundsAssumption DEF UplinkDgram, DownlinkDgram, ControlDgram, Stale, Uninit
      <3>2. buf[t] \in UplinkDgram \cup DownlinkDgram \cup ControlDgram \cup Stale
        BY <1>0 DEF BufsType
      <3>3. buf[t].n \in 0..MaxUp \/ buf[t].n \in 0..MaxDown
        BY <3>1, <3>2
      <3> QED
        BY <3>3, BoundsAssumption
    <2>3. <<t, buf[t].n>> \in LogItem
      BY <2>2 DEF LogItem
    <2>4. LogType'
      BY <1>0, <1>4, <2>3 DEF AddPublish, LogType
    <2> QED
      BY <1>0, <1>4, <1>q, <2>1, <2>4, Frames DEF AddPublish
  <1>5. CASE RecvUp
    <2>1. Head(rxEnb) \in UplinkDgram /\ Tail(rxEnb) \in Seq(UplinkDgram)
      BY <1>0, <1>5 DEF RecvUp, SocketsType
    <2>2. pc' \in [Thread -> Label \cup MainLabel] /\ pc'["down"] = pc["down"]
      BY <1>0, <1>5, StepType DEF RecvUp, Label
    <2>3. BufsType' /\ buf'["down"] = buf["down"] /\ numb_read'["down"] = numb_read["down"]
      BY <1>0, <1>5, <2>1 DEF RecvUp, BufsType
    <2>4. SocketsType'
      BY <1>0, <1>5, <2>1 DEF RecvUp, SocketsType
    <2>5. ThreadsType'
      BY <1>0, <1>5, <2>2 DEF RecvUp, ThreadsType
    <2>6. BufferOK'
      BY <1>0, <2>2, <2>3 DEF BufferOK
    <2> QED
      BY <1>0, <1>5, <1>q, <2>3, <2>4, <2>5, <2>6, Frames DEF RecvUp
  <1>6. CASE SendUp
    <2>1. ThreadsType' /\ BufsType' /\ BufferOK'
      BY <1>0, <1>6, StepInv DEF SendUp, Label
    <2>2. OutType'
      BY <1>0, <1>6 DEF SendUp, CountLate, OutType
    <2> QED
      BY <1>0, <1>6, <1>q, <2>1, <2>2, Frames DEF SendUp
  <1>7. CASE RecvDown
    <2> DEFINE d == Head(rxEpc)
    <2>1. d \in DownlinkDgram \cup ControlDgram
          /\ Tail(rxEpc) \in Seq(DownlinkDgram \cup ControlDgram)
      BY <1>0, <1>7 DEF RecvDown, SocketsType
    <2>2. Branch("down", d) \in {"control", "lock"} /\ {"control", "lock"} \subseteq Label
      BY DEF Branch, Label
    <2>3. pc' \in [Thread -> Label \cup MainLabel] /\ pc'["down"] = Branch("down", d)
      BY <1>0, <1>7, <2>2, StepType DEF RecvDown
    <2>4. buf'["down"] = d /\ BufsType'
      BY <1>0, <1>7, <2>1 DEF RecvDown, BufsType
    <2>5. SocketsType'
      BY <1>0, <1>7, <2>1 DEF RecvDown, SocketsType
    <2>6. ThreadsType'
      BY <1>0, <1>7, <2>3 DEF RecvDown, ThreadsType
    <2>7. d.from # "icm" => d \in DownlinkDgram
      BY <2>1 DEF ControlDgram
    <2>8. BufferOK'
      BY <2>3, <2>4, <2>7, Zenon DEF BufferOK, Branch
    <2> QED
      BY <1>0, <1>7, <1>q, <2>4, <2>5, <2>6, <2>8, Frames DEF RecvDown
  <1>8. CASE ControlStop
    <2>1. ThreadsType' /\ BufsType' /\ BufferOK'
      BY <1>8, StepInv, Zenon DEF ControlStop, Label, Holding
    <2> QED
      BY <1>0, <1>8, <1>q, <2>1, Frames, Zenon DEF ControlStop
  <1>9. CASE ControlTeid
    <2>1. ThreadsType' /\ BufsType' /\ BufferOK'
      BY <1>0, <1>9, StepInv DEF ControlTeid, Label, Holding
    <2>2. buf["down"].teid \in Int \cup {Garbage}
      <3>1. buf["down"] \in DownlinkDgram \cup ControlDgram \cup Stale /\ buf["down"].from = "icm"
        BY <1>0, <1>9 DEF ControlTeid, Step, BufsType, BufferOK
      <3>2. buf["down"] \in ControlDgram \cup Stale
        BY <3>1 DEF DownlinkDgram
      <3> QED
        BY <3>2 DEF ControlDgram, Stale, Uninit
    <2>3. Net(buf["down"].teid) \in HeaderTeid
      BY <2>2 DEF Net, HeaderTeid
    <2>4. TableType'
      <3>1. teid_array' \in [0..MAX_DRB-1 -> HeaderTeid]
        BY <1>0, <1>9, <2>3 DEF ControlTeid, TableType
      <3>2. index_drb' \in 0..MAX_DRB-1
        BY <1>0, <1>9 DEF ControlTeid, TableType
      <3>3. teids' \in Seq(Int \cup {Garbage})
        BY <1>0, <1>9, <2>2 DEF ControlTeid, TableType
      <3> QED
        BY <3>1, <3>2, <3>3, Zenon DEF TableType
    <2> QED
      BY <1>0, <1>9, <1>q, <2>1, <2>4, Frames, Zenon DEF ControlTeid
  <1>10. CASE SendDown
    <2>1. pc["down"] = "send"
      BY <1>10, Zenon DEF SendDown, Step
    <2> DEFINE o == [n |-> buf["down"].n, port |-> buf["down"].port,
                     teid |-> Rewritten(buf["down"]), cfg |-> Len(teids)]
    <2>2. SendOk("down", "enb") => o \in SentPacket
      <3> SUFFICES ASSUME SendOk("down", "enb") PROVE o \in SentPacket
        OBVIOUS
      <3>1. buf["down"] \in DownlinkDgram
        BY <1>0, <2>1 DEF SendOk, BufferOK
      <3>2. buf["down"].n \in 1..MaxDown /\ buf["down"].port \in Port
            /\ buf["down"].teid = Orig
        BY <3>1 DEF DownlinkDgram
      <3>3. Rewritten(buf["down"]) \in HeaderTeid
        <4>1. Orig \in HeaderTeid
          BY DEF HeaderTeid
        <4>2. buf["down"].port \in DrbPort => buf["down"].port - PORT1 \in 0..MAX_DRB-1
          OBVIOUS
        <4>3. teid_array \in [0..MAX_DRB-1 -> HeaderTeid]
          BY <1>0 DEF TableType
        <4>4. CASE index_drb = 0 /\ buf["down"].port \in DrbPort
          BY <4>2, <4>3, <4>4 DEF Rewritten
        <4>5. CASE ~(index_drb = 0 /\ buf["down"].port \in DrbPort)
          BY <3>2, <4>1, <4>5 DEF Rewritten
        <4> QED
          BY <4>4, <4>5
      <3>4. Len(teids) \in Nat
        BY <1>0 DEF TableType
      <3> QED
        BY <3>2, <3>3, <3>4 DEF SentPacket
    <2>3. OutType'
      <3> HIDE DEF o
      <3>1. sent' = sent \/ (SendOk("down", "enb") /\ sent' = sent \cup {o})
        BY <1>10 DEF SendDown, o
      <3>2. late' \in [Relay -> Nat]
        BY <1>0, <1>10 DEF SendDown, CountLate, OutType
      <3> QED
        BY <1>0, <2>2, <3>1, <3>2, Zenon DEF OutType
    <2>4. ThreadsType' /\ BufsType' /\ BufferOK'
      BY <1>0, <1>10, StepInv DEF SendDown, Label, Holding
    <2> QED
      BY <1>0, <1>10, <1>q, <2>3, <2>4, Frames DEF SendDown
  <1>11. CASE PrintLock
    <2>1. ThreadsType' /\ BufsType' /\ BufferOK'
      BY <1>0, <1>11, StepInv DEF PrintLock, Label
    <2>2. LogType'
      BY <1>0, <1>11 DEF PrintLock, LogType
    <2> QED
      BY <1>0, <1>11, <1>q, <2>1, <2>2, Frames DEF PrintLock
  <1>12. CASE PrintItem
    <2>1. ThreadsType' /\ BufsType' /\ BufferOK'
      BY <1>0, <1>12, StepInv DEF PrintItem, Label
    <2>2. LogType'
      BY <1>0, <1>12 DEF PrintItem, LogType
    <2> QED
      BY <1>0, <1>12, <1>q, <2>1, <2>2, Frames DEF PrintItem
  <1>13. CASE MainWake
    <2>1. ThreadsType' /\ BufsType' /\ BufferOK'
      BY <1>0, <1>13, StepInv DEF MainWake, MainLabel
    <2> QED
      BY <1>0, <1>13, <1>q, <2>1, Frames DEF MainWake
  <1>14. ASSUME NEW s \in {"enb", "epc"}, MainClose(s) PROVE TypeInv'
    <2> DEFINE a == IF s = "enb" THEN "closeEnb" ELSE "closeEpc"
               b == IF s = "enb" THEN "closeEpc" ELSE "return"
    <2>1. b \in Label \cup MainLabel /\ Step("main", a, b)
      BY <1>14 DEF MainClose, MainLabel
    <2> HIDE DEF a, b
    <2>2. ThreadsType' /\ BufsType' /\ BufferOK'
      BY <1>0, <1>14, <2>1, StepInv DEF MainClose
    <2>3. SocketsType'
      BY <1>0, <1>14 DEF MainClose, SocketsType
    <2> QED
      BY <1>0, <1>14, <1>q, <2>2, <2>3, Frames DEF MainClose
  <1>15. CASE MainReturn
    <2>1. ThreadsType' /\ BufsType' /\ BufferOK'
      BY <1>0, <1>15, StepInv DEF MainReturn, MainLabel
    <2> QED
      BY <1>0, <1>15, <1>q, <2>1, Frames DEF MainReturn
  <1> QED
    BY <1>1, <1>2, <1>3, <1>4, <1>5, <1>6, <1>7, <1>8, <1>9, <1>10, <1>11, <1>12, <1>13,
       <1>14, <1>15 DEF System, UpStep, DownStep, PrintStep, MainStep, RelayStep

LEMMA StutterType == TypeInv /\ UNCHANGED vars => TypeInv'
  BY Frames DEF TypeInv, TypeOK, ThreadsType, BufferOK, vars

\* The types of PacketTerminal are invariant, for every bound on the traffic.
THEOREM TypeCorrect == Spec => []TypeOK
  <1>1. TypeInv /\ [Next]_vars => TypeInv'
    BY EnvironmentType, SystemType, StutterType DEF Next, Exited
  <1>2. TypeInv => TypeOK
    BY DEF TypeInv
  <1> QED
    BY InitTypeInv, <1>1, <1>2, PTL DEF Spec
-----------------------------------------------------------------------------
(***************************************************************************)
(* The log queue.  MutexOK is what makes the two steps of add_queue_item() *)
(* one step of a FIFO: between them nobody else changes the queue.         *)
(***************************************************************************)
LEMMA MutexInit == Init => MutexOK
  BY DEF Init, MutexOK

\* A step of a thread outside the critical sections.
LEMMA MutexFrame ==
  ASSUME TypeOK, MutexOK, NEW t \in Thread, NEW a, NEW b \in Label \cup MainLabel,
         Step(t, a, b), {a, b} \cap {"publish", "print"} = {},
         UNCHANGED <<anchor, next, queue_mutex>>
  PROVE  MutexOK'
  <1>1. pc[t] = a /\ pc'[t] = b /\ \A u \in Thread \ {t} : pc'[u] = pc[u]
    BY StepType
  <1>2. \A u \in Thread : /\ (pc'[u] = "publish") <=> (pc[u] = "publish")
                          /\ (pc'[u] = "print") <=> (pc[u] = "print")
    BY <1>1, Zenon
  <1> QED
    BY <1>2 DEF MutexOK

LEMMA MutexStep == TypeInv /\ MutexOK /\ [Next]_vars => MutexOK'
  <1> SUFFICES ASSUME TypeInv, MutexOK, [Next]_vars PROVE MutexOK'
    OBVIOUS
  <1> USE DEF sockVars, tableVars, logVars, envVars, outVars, Label, MainLabel
  <1>0. TypeOK
    BY Zenon DEF TypeInv
  <1>1. CASE Environment
    BY <1>1 DEF Environment, EnbSends, EpcSends, IcmSends, Arrives, MutexOK
  <1>2. ASSUME NEW t \in Thread, LoopTest(t) PROVE MutexOK'
    <2> DEFINE b == IF run = 0 THEN "done" ELSE IF t \in Relay THEN "recv" ELSE "lock"
    <2>1. b \in {"done", "recv", "lock"} /\ Step(t, "loop", b)
      BY <1>2 DEF LoopTest
    <2>2. UNCHANGED <<anchor, next, queue_mutex>>
      BY <1>2 DEF LoopTest
    <2> HIDE DEF b
    <2> QED
      BY <1>0, <2>1, <2>2, MutexFrame
  <1>3. ASSUME NEW t \in Relay, RecvError(t) PROVE MutexOK'
    <2>1. Branch(t, buf[t]) \in {"control", "lock"}
      BY DEF Branch
    <2> QED
      BY <1>0, <1>3, <2>1, MutexFrame DEF RecvError
  <1>4. ASSUME NEW t \in Relay, AddLink(t) PROVE MutexOK'
    <2>1. pc[t] = "lock" /\ pc'[t] = "publish" /\ \A u \in Thread \ {t} : pc'[u] = pc[u]
      BY <1>0, <1>4, StepType, Zenon DEF AddLink
    <2>2. next'[t] = anchor' /\ queue_mutex' = t /\ queue_mutex = "free"
      BY <1>0, <1>4 DEF AddLink, TypeOK, LogType
    <2> QED
      BY <2>1, <2>2, Zenon DEF MutexOK
  <1>5. ASSUME NEW t \in Relay, AddPublish(t) PROVE MutexOK'
    <2>1. pc[t] = "publish" /\ pc'[t] = "send" /\ \A u \in Thread \ {t} : pc'[u] = pc[u]
      BY <1>0, <1>5, StepType, Zenon DEF AddPublish
    <2>2. queue_mutex = t /\ queue_mutex' = "free"
      BY <1>5, <2>1 DEF AddPublish, MutexOK
    <2> QED
      BY <2>1, <2>2, Zenon DEF MutexOK
  <1>6. CASE RecvUp
    BY <1>0, <1>6, MutexFrame DEF RecvUp
  <1>7. CASE SendUp
    BY <1>0, <1>7, MutexFrame DEF SendUp
  <1>8. CASE RecvDown
    <2>1. Branch("down", Head(rxEpc)) \in {"control", "lock"}
      BY DEF Branch
    <2> QED
      BY <1>0, <1>8, <2>1, MutexFrame DEF RecvDown
  <1>9. CASE ControlStop
    BY <1>0, <1>9, MutexFrame DEF ControlStop
  <1>10. CASE ControlTeid
    BY <1>0, <1>10, MutexFrame, Zenon DEF ControlTeid
  <1>11. CASE SendDown
    BY <1>0, <1>11, MutexFrame DEF SendDown
  <1>12. CASE PrintLock
    <2>1. pc["print"] = "lock" /\ pc'["print"] = "print"
          /\ \A u \in Thread \ {"print"} : pc'[u] = pc[u]
      BY <1>0, <1>12, StepType, Zenon DEF PrintLock
    <2>2. queue_mutex = "free" /\ queue_mutex' = "print" /\ UNCHANGED <<anchor, next>>
      BY <1>12 DEF PrintLock
    <2> QED
      BY <2>1, <2>2, Zenon DEF MutexOK
  <1>13. CASE PrintItem
    <2>1. pc["print"] = "print" /\ pc'["print"] = "loop"
          /\ \A u \in Thread \ {"print"} : pc'[u] = pc[u]
      BY <1>0, <1>13, StepType, Zenon DEF PrintItem
    <2>2. queue_mutex = "print" /\ queue_mutex' = "free"
      BY <1>13, <2>1 DEF PrintItem, MutexOK
    <2> QED
      BY <2>1, <2>2, Zenon DEF MutexOK
  <1>14. CASE MainWake
    BY <1>0, <1>14, MutexFrame DEF MainWake
  <1>15. ASSUME NEW s \in {"enb", "epc"}, MainClose(s) PROVE MutexOK'
    BY <1>0, <1>15, MutexFrame DEF MainClose
  <1>16. CASE MainReturn
    BY <1>0, <1>16, MutexFrame DEF MainReturn
  <1>17. CASE UNCHANGED vars
    BY <1>17 DEF vars, MutexOK
  <1> QED
    BY <1>1, <1>2, <1>3, <1>4, <1>5, <1>6, <1>7, <1>8, <1>9, <1>10, <1>11, <1>12, <1>13,
       <1>14, <1>15, <1>16, <1>17
    DEF Next, Exited, System, UpStep, DownStep, PrintStep, MainStep, RelayStep

\* A step of the terminal adds one item to the log queue, takes the oldest
\* one, or leaves the queue alone.
LEMMA LogStep == TypeInv /\ TypeInv' /\ MutexOK /\ [Next]_vars => [LogQueue!Next]_anchor
  <1> SUFFICES ASSUME TypeInv, TypeInv', MutexOK, [Next]_vars
               PROVE  LogQueue!Next \/ UNCHANGED anchor
    OBVIOUS
  <1> USE DEF sockVars, tableVars, logVars, envVars, outVars
  <1>1. ASSUME NEW t \in Relay, AddPublish(t) PROVE LogQueue!Next
    <2> DEFINE i == <<t, buf[t].n>>
    <2>1. pc[t] = "publish"
      BY <1>1 DEF AddPublish, Step
    <2>2. anchor' = Append(anchor, i)
      BY <1>1, <2>1 DEF AddPublish, MutexOK
    <2>3. i \in LogItem
      <3>1. anchor \in Seq(LogItem) /\ anchor' \in Seq(LogItem)
        BY DEF TypeInv, TypeOK, LogType
      <3>2. Len(anchor') = Len(anchor) + 1 /\ anchor'[Len(anchor) + 1] = i
        BY <2>2, <3>1
      <3> QED
        BY <3>1, <3>2, SMTT(60)
    <2> QED
      BY <2>2, <2>3 DEF LogQueue!Next, LogQueue!Put
  <1>2. CASE PrintItem
    BY <1>2 DEF PrintItem, LogQueue!Next, LogQueue!Take
  <1>3. CASE Environment
    BY <1>3 DEF Environment, EnbSends, EpcSends, IcmSends, Arrives
  <1>4. CASE UpStep /\ ~AddPublish("up")
    BY <1>4, Zenon DEF UpStep, RelayStep, LoopTest, RecvError, AddLink, RecvUp, SendUp
  <1>5. CASE DownStep /\ ~AddPublish("down")
    BY <1>5, Zenon DEF DownStep, RelayStep, LoopTest, RecvError, AddLink, RecvDown, ControlStop,
       ControlTeid, SendDown
  <1>6. CASE PrintStep /\ ~PrintItem
    BY <1>6, Zenon DEF PrintStep, LoopTest, PrintLock
  <1>7. CASE MainStep
    BY <1>7 DEF MainStep, MainWake, MainClose, MainReturn
  <1>8. CASE UNCHANGED vars
    BY <1>8 DEF vars
  <1> QED
    BY <1>1, <1>2, <1>3, <1>4, <1>5, <1>6, <1>7, <1>8 DEF Next, Exited, System

\* The log queue of the packet terminal implements a FIFO, however many
\* datagrams the relay threads log.
THEOREM LogRefinesFifo == Spec => LogIsFifo
  <1>1. Init => LogQueue!Init
    BY Zenon DEF Init, LogQueue!Init
  <1>2. TypeInv /\ [Next]_vars => TypeInv'
    BY EnvironmentType, SystemType, StutterType DEF Next, Exited
  <1> QED
    BY <1>1, <1>2, InitTypeInv, MutexInit, MutexStep, LogStep, PTL
    DEF Spec, LogIsFifo, LogQueue!Spec
-----------------------------------------------------------------------------
(***************************************************************************)
(* The rewriting of TEIDs.                                                 *)
(***************************************************************************)
\* Storing a TEID when n are stored: the slot that is written is n modulo
\* MAX_DRB, and for the other slots the latest position stays the same.
LEMMA LatestPosition ==
  ASSUME NEW n \in Nat, NEW i \in 0..MAX_DRB-1
  PROVE  /\ (n + 1) % MAX_DRB = ((n % MAX_DRB) + 1) % MAX_DRB
         /\ i = n % MAX_DRB => (n - i) % MAX_DRB = 0
         /\ i # n % MAX_DRB /\ n + 1 > i =>
               /\ n > i
               /\ (n - i) % MAX_DRB = ((n - 1 - i) % MAX_DRB) + 1
         /\ n > i => n - ((n - 1 - i) % MAX_DRB) \in 1..n
         /\ n >= MAX_DRB /\ n % MAX_DRB = 0 => (n - 1 - i) % MAX_DRB = MAX_DRB - 1 - i
  <1>1. CASE i = 0
    BY <1>1
  <1>2. CASE i = 1
    BY <1>2
  <1>3. CASE i = 2
    BY <1>3
  <1> QED
    BY <1>1, <1>2, <1>3

LEMMA TableInit == Init => TableOK /\ SentOK
  BY DEF Init, TableOK, SentOK, RewriteUsesFullSet

LEMMA TableControl == TypeInv /\ TableOK /\ SentOK /\ ControlTeid => TableOK' /\ SentOK'
  <1> SUFFICES ASSUME TypeInv, TableOK, SentOK, ControlTeid PROVE TableOK' /\ SentOK'
    OBVIOUS
  <1> DEFINE n == Len(teids)
             t == buf["down"].teid
  <1>1. n \in Nat /\ teids \in Seq(Int \cup {Garbage}) /\ index_drb = n % MAX_DRB
    BY DEF TypeInv, TypeOK, TableType, TableOK
  <1>2. teids' = Append(teids, t)
    BY Zenon DEF ControlTeid
  <1>3. t \in Int \cup {Garbage}
    <2>1. buf["down"] \in DownlinkDgram \cup ControlDgram \cup Stale /\ buf["down"].from = "icm"
      BY DEF ControlTeid, Step, TypeInv, TypeOK, BufsType, BufferOK
    <2>2. buf["down"] \in ControlDgram \cup Stale
      BY <2>1 DEF DownlinkDgram
    <2> QED
      BY <2>2, SMTT(60) DEF ControlDgram, Stale, Uninit
  <1>4. Len(teids') = n + 1 /\ teids'[n + 1] = t /\ \A k \in 1..n : teids'[k] = teids[k]
    BY <1>1, <1>2, <1>3, SMTT(60)
  <1>5. index_drb' = Len(teids') % MAX_DRB
    BY <1>1, <1>4, LatestPosition, SMTT(60) DEF ControlTeid
  <1>6. ASSUME NEW i \in 0..MAX_DRB-1, Len(teids') > i
        PROVE  teid_array'[i] = Net(teids'[LatestAt(i)'])
    <2>0. LatestAt(i)' = n + 1 - ((n - i) % MAX_DRB)
      BY <1>1, <1>4 DEF LatestAt
    <2>1. CASE i = index_drb
      <3>1. LatestAt(i)' = n + 1
        BY <1>1, <2>0, <2>1, LatestPosition, SMTT(60)
      <3>2. teid_array'[i] = Net(t)
        BY <2>1, Zenon DEF ControlTeid, TypeInv, TypeOK, TableType
      <3> QED
        BY <1>4, <3>1, <3>2, Zenon
    <2>2. CASE i # index_drb
      <3>1. n > i /\ LatestAt(i)' = LatestAt(i) /\ LatestAt(i) \in 1..n
        <4>1. n > i /\ (n - i) % MAX_DRB = ((n - 1 - i) % MAX_DRB) + 1
          BY <1>1, <1>4, <1>6, <2>2, LatestPosition, Zenon
        <4>2. LatestAt(i) = n - ((n - 1 - i) % MAX_DRB)
          BY DEF LatestAt
        <4>3. LatestAt(i) \in 1..n
          BY <1>1, <4>1, <4>2, LatestPosition, ZenonT(60)
        <4>4. (n - 1 - i) % MAX_DRB \in Int
          BY <1>1
        <4> HIDE DEF n
        <4> QED
          BY <1>1, <2>0, <4>1, <4>2, <4>3, <4>4, SMTT(60)
      <3>2. teid_array'[i] = teid_array[i]
        BY <2>2, Zenon DEF ControlTeid, TypeInv, TypeOK, TableType
      <3> QED
        BY <1>4, <3>1, <3>2 DEF TableOK
    <2> QED
      BY <2>1, <2>2
  <1>7. SentOK'
    <2>1. sent' = sent
      BY SMTT(60) DEF ControlTeid, outVars
    <2>2. ASSUME NEW o \in sent
          PROVE  o.cfg <= n + 1 /\ (o.cfg >= MAX_DRB /\ o.port \in DrbPort =>
                    o.teid = IF o.cfg % MAX_DRB = 0
                             THEN Net(teids'[o.cfg - MAX_DRB + (o.port - PORT1) + 1])
                             ELSE Orig)
      <3>1. o.cfg \in Nat /\ o.cfg <= n
        BY DEF TypeInv, TypeOK, OutType, SentPacket, SentOK
      <3>2. o.cfg >= MAX_DRB /\ o.port \in DrbPort =>
                o.cfg - MAX_DRB + (o.port - PORT1) + 1 \in 1..n
        <4> HIDE DEF n
        <4> SUFFICES ASSUME o.cfg >= MAX_DRB, o.port \in DrbPort
                     PROVE  o.cfg - MAX_DRB + (o.port - PORT1) + 1 \in 1..n
          OBVIOUS
        <4>1. o.port - PORT1 \in 0..2
          OBVIOUS
        <4> DEFINE k == o.port - PORT1
              c == o.cfg
        <4>2. k \in 0..2 /\ c \in Nat /\ c >= 3 /\ c <= n /\ n \in Nat
          BY <1>1, <3>1, <4>1
        <4> HIDE DEF k, c
        <4>3. c - 3 + k + 1 \in 1..n
          BY <4>2
        <4> QED
          BY <4>3 DEF k, c
      <3>3. o.cfg >= MAX_DRB /\ o.port \in DrbPort =>
                o.teid = IF o.cfg % MAX_DRB = 0
                         THEN Net(teids[o.cfg - MAX_DRB + (o.port - PORT1) + 1])
                         ELSE Orig
        BY DEF SentOK, RewriteUsesFullSet
      <3>4. o.cfg <= n + 1
        BY <1>1, <3>1, SMTT(60)
      <3> HIDE DEF n
      <3> QED
        BY <1>4, <3>2, <3>3, <3>4
    <2> QED
      BY <1>4, <2>1, <2>2, SMTT(60) DEF SentOK, RewriteUsesFullSet
  <1> QED
    BY <1>5, <1>6, <1>7 DEF TableOK

LEMMA TableSend == TypeInv /\ TableOK /\ SentOK /\ SendDown => SentOK'
  <1> SUFFICES ASSUME TypeInv, TableOK, SentOK, SendDown, SendOk("down", "enb")
               PROVE  SentOK'
    <2>1. TypeInv /\ TableOK /\ SentOK /\ SendDown /\ ~SendOk("down", "enb") =>
              UNCHANGED <<sent, teids>>
      BY SMTT(60) DEF SendDown, tableVars
    <2>2. SentOK /\ UNCHANGED <<sent, teids>> => SentOK'
      BY SMTT(60) DEF SentOK, RewriteUsesFullSet
    <2> QED
      BY <2>1, <2>2, Zenon
  <1> DEFINE d == buf["down"]
             n == Len(teids)
             o == [n |-> d.n, port |-> d.port, teid |-> Rewritten(d), cfg |-> n]
  <1>1. sent' = sent \cup {o} /\ teids' = teids /\ n \in Nat
    <2>1. n \in Nat
      BY DEF TypeInv, TypeOK, TableType
    <2> QED
      BY <2>1 DEF SendDown, tableVars
  <1>2. d.teid = Orig
    <2>1. d \in DownlinkDgram
      BY SMTT(60) DEF SendDown, Step, SendOk, TypeInv, BufferOK
    <2> QED
      BY <2>1, SMTT(60) DEF DownlinkDgram
  <1>3. ASSUME n >= MAX_DRB, d.port \in DrbPort
        PROVE  Rewritten(d) = IF n % MAX_DRB = 0
                              THEN Net(teids[n - MAX_DRB + (d.port - PORT1) + 1])
                              ELSE Orig
    <2> DEFINE i == d.port - PORT1
    <2>1. i \in 0..MAX_DRB-1 /\ n > i
      <3>1. d.port - PORT1 \in 0..2
        BY <1>3, SMTT(60)
      <3> HIDE DEF n, d
      <3> QED
        BY <1>1, <1>3, <3>1
    <2>2. CASE n % MAX_DRB = 0
      <3>1. LatestAt(i) = n - MAX_DRB + i + 1
        <4>1. LatestAt(i) = n - ((n - 1 - i) % MAX_DRB)
          BY DEF LatestAt
        <4> HIDE DEF n, i
        <4>2. (n - 1 - i) % MAX_DRB = 2 - i
          BY <1>1, <2>1, <2>2, SMTT(60)
        <4> QED
          BY <1>1, <2>1, <4>1, <4>2
      <3>2. Rewritten(d) = teid_array[i]
        BY <1>3, <2>2, SMTT(60) DEF Rewritten, TableOK
      <3>3. teid_array[i] = Net(teids[LatestAt(i)])
        BY <2>1 DEF TableOK
      <3> QED
        BY <2>2, <3>1, <3>2, <3>3, SMTT(60)
    <2>3. CASE n % MAX_DRB # 0
      BY <1>2, <2>3 DEF Rewritten, TableOK
    <2> QED
      BY <2>2, <2>3
  <1>4. o.cfg >= MAX_DRB /\ o.port \in DrbPort =>
            o.teid = IF o.cfg % MAX_DRB = 0
                     THEN Net(teids[o.cfg - MAX_DRB + (o.port - PORT1) + 1])
                     ELSE Orig
    <2>1. o.cfg = n /\ o.port = d.port /\ o.teid = Rewritten(d)
      OBVIOUS
    <2> HIDE DEF n, d, o
    <2> QED
      BY <1>3, <2>1, SMTT(60)
  <1>5. o.cfg <= Len(teids)
    BY <1>1
  <1> HIDE DEF n, o
  <1> QED
    BY <1>1, <1>4, <1>5 DEF SentOK, RewriteUsesFullSet

\* Only the down thread's control branch and its sendto() touch the table and
\* what was sent.
LEMMA TableStep == TypeInv /\ TableOK /\ SentOK /\ [Next]_vars => TableOK' /\ SentOK'
  <1> SUFFICES ASSUME TypeInv, TableOK, SentOK, [Next]_vars
               PROVE  TableOK' /\ SentOK'
    OBVIOUS
  <1>1. CASE ControlTeid
    BY <1>1, TableControl, Zenon
  <1>2. CASE SendDown
    BY <1>2, TableSend, Zenon DEF SendDown, TableOK, LatestAt, tableVars
  <1>3. CASE [Next]_vars /\ ~ControlTeid /\ ~SendDown
    <2>1. UNCHANGED <<teid_array, index_drb, teids, sent>>
      <3> USE DEF tableVars, outVars
      <3>1. CASE UNCHANGED vars \/ Exited
        BY <3>1, Zenon DEF Exited, vars
      <3>2. CASE Environment
        BY <3>2, SMTT(60) DEF Environment, EnbSends, EpcSends, IcmSends, Arrives
      <3>3. ASSUME NEW t \in Relay, RelayStep(t)
            PROVE  UNCHANGED <<teid_array, index_drb, teids, sent>>
        BY <3>3, SMTT(60) DEF RelayStep, LoopTest, RecvError, AddLink, AddPublish
      <3>4. CASE RecvUp \/ SendUp \/ RecvDown \/ ControlStop
        BY <3>4, Zenon DEF RecvUp, SendUp, RecvDown, ControlStop
      <3>5. CASE PrintStep \/ MainStep
        BY <3>5 DEF PrintStep, LoopTest, PrintLock, PrintItem, MainStep, MainWake, MainClose,
           MainReturn
      <3> QED
        BY <1>3, <3>1, <3>2, <3>3, <3>4, <3>5 DEF Next, System, UpStep, DownStep
    <2>2. TableOK'
      BY <2>1 DEF TableOK, LatestAt
    <2>3. SentOK'
      BY <2>1 DEF SentOK, RewriteUsesFullSet
    <2> QED
      BY <2>2, <2>3
  <1> QED
    BY <1>1, <1>2, <1>3

\* After the first full set of TEIDs, no downlink packet leaves with a TEID of
\* a set that is partly stored or of an older set.
THEOREM RewriteCorrect == Spec => []RewriteUsesFullSet
  <1> DEFINE Inv == TypeInv /\ TableOK /\ SentOK
  <1>1. Init => Inv
    BY InitTypeInv, TableInit
  <1>2. TypeInv /\ [Next]_vars => TypeInv'
    BY EnvironmentType, SystemType, StutterType DEF Next, Exited
  <1>3. Inv => RewriteUsesFullSet
    BY DEF SentOK
  <1> QED
    BY <1>1, <1>2, <1>3, TableStep, PTL DEF Spec
-----------------------------------------------------------------------------
(***************************************************************************)
(* Stopping.                                                               *)
(***************************************************************************)
\* A step that forwards nothing: no relay thread leaves the test of run but to
\* end, unless run is set.
LEMMA LateFrame ==
  ASSUME TypeOK, LateOK, NEW t \in Thread, NEW a, NEW b \in Label \cup MainLabel, Step(t, a, b),
         run' = run \/ run' = 0, UNCHANGED late,
         t \in Relay => (a = "loop" => run # 0 \/ b = "done") /\ a # "done"
  PROVE  LateOK'
  <1>1. pc[t] = a /\ pc'[t] = b /\ \A u \in Thread \ {t} : pc'[u] = pc[u]
    BY StepType
  <1>2. ASSUME NEW u \in Relay
        PROVE  late'[u] = 0 \/ (late'[u] = 1 /\ run' = 0 /\ pc'[u] \in {"loop", "done"})
    <2>1. late[u] = 0 \/ (late[u] = 1 /\ run = 0 /\ pc[u] \in {"loop", "done"})
      BY DEF LateOK
    <2>2. CASE u = t
      BY <1>1, <2>1, <2>2
    <2>3. CASE u # t
      BY <1>1, <2>1, <2>3
    <2> QED
      BY <2>2, <2>3
  <1> QED
    BY <1>2 DEF LateOK

LEMMA LateSend ==
  ASSUME TypeOK, LateOK, NEW t \in Relay, NEW s, Step(t, "send", "loop"), CountLate(t, s),
         run' = run
  PROVE  LateOK'
  <1>1. late[t] = 0 /\ pc'[t] = "loop"
    BY StepType DEF LateOK, Label
  <1>2. late'[t] = (IF run = 0 /\ SendOk(t, s) THEN 1 ELSE 0)
    BY <1>1, SMTT(60) DEF CountLate, TypeOK, OutType
  <1>3. \A u \in Relay \ {t} : late'[u] = late[u] /\ pc'[u] = pc[u]
    BY StepType DEF CountLate, TypeOK, OutType, Label
  <1> QED
    BY <1>1, <1>2, <1>3 DEF LateOK

\* After run became 0 a relay thread forwards at most one more datagram.
THEOREM LateBound == Spec => []AtMostOneLate
  <1>1. Init => LateOK
    BY DEF Init, LateOK
  <1>2. TypeInv /\ [Next]_vars => TypeInv'
    BY EnvironmentType, SystemType, StutterType DEF Next, Exited
  <1>3. TypeInv /\ LateOK /\ [Next]_vars => LateOK'
    <2> SUFFICES ASSUME TypeInv, TypeOK, LateOK, [Next]_vars PROVE LateOK'
      BY DEF TypeInv
    <2> USE DEF Label, MainLabel, sockVars, tableVars, logVars, envVars, outVars
    <2>1. CASE SendUp
      BY <2>1, LateSend, SMTT(60) DEF SendUp
    <2>2. CASE SendDown
      BY <2>2, LateSend DEF SendDown
    <2>3. CASE Environment \/ UNCHANGED vars
      <3>1. UNCHANGED <<run, pc, late>>
        BY <2>3 DEF Environment, EnbSends, EpcSends, IcmSends, Arrives, vars
      <3> QED
        BY <3>1, Zenon DEF LateOK
    <2>4. ASSUME NEW t \in Thread, LoopTest(t) PROVE LateOK'
      <3> DEFINE b == IF run = 0 THEN "done" ELSE IF t \in Relay THEN "recv" ELSE "lock"
      <3>1. b \in Label /\ Step(t, "loop", b) /\ (run # 0 \/ b = "done")
        BY <2>4 DEF LoopTest
      <3>2. UNCHANGED <<run, late>>
        BY <2>4, SMTT(60) DEF LoopTest
      <3> HIDE DEF b
      <3> QED
        BY <3>1, <3>2, LateFrame, SMTT(60)
    <2>5. ASSUME NEW t \in Relay, RecvError(t) PROVE LateOK'
      <3>1. Branch(t, buf[t]) \in {"control", "lock"}
        BY SMTT(60) DEF Branch
      <3> QED
        BY <2>5, <3>1, LateFrame DEF RecvError
    <2>6. ASSUME NEW t \in Relay, AddLink(t) \/ AddPublish(t) PROVE LateOK'
      BY <2>6, LateFrame, SMTT(60) DEF AddLink, AddPublish
    <2>7. CASE RecvUp
      BY <2>7, LateFrame, SMTT(60) DEF RecvUp
    <2>8. CASE RecvDown
      <3>1. Branch("down", Head(rxEpc)) \in {"control", "lock"}
        BY Zenon DEF Branch
      <3> QED
        BY <2>8, <3>1, LateFrame DEF RecvDown
    <2>9. CASE ControlStop \/ ControlTeid
      BY <2>9, LateFrame, SMTT(60) DEF ControlStop, ControlTeid
    <2>10. CASE PrintLock \/ PrintItem
      BY <2>10, LateFrame, SMTT(60) DEF PrintLock, PrintItem
    <2>11. CASE MainStep
      BY <2>11, LateFrame DEF MainStep, MainWake, MainClose, MainReturn
    <2> QED
      BY <2>1, <2>2, <2>3, <2>4, <2>5, <2>6, <2>7, <2>8, <2>9, <2>10, <2>11
      DEF Next, Exited, System, UpStep, DownStep, PrintStep, RelayStep
  <1>4. LateOK => AtMostOneLate
    BY DEF LateOK, AtMostOneLate
  <1> QED
    BY <1>1, <1>2, <1>3, <1>4, InitTypeInv, PTL DEF Spec
=============================================================================
