----------------------------- MODULE DrbStarter -----------------------------
(***************************************************************************)
(* The DRB starter of the MME (src/openair-cn/src/drb_starter).  Its ITTI  *)
(* task keeps one context for all UEs: the eNB id of the last initial UE   *)
(* message, the bearers of the last attach, and a count of attaches.  For  *)
(* an attach it sends three E-RAB setup requests to the eNB and creates a  *)
(* setup thread, which waits some seconds for a newer attach to supersede  *)
(* it, binds four UDP ports and then serves triggers of the UE: for each   *)
(* it starts three threads that send test packets.                         *)
(*                                                                         *)
(* A UE stands for its eNB UE id too.  The messages are what NAS, S1AP and *)
(* the eNB send: a UE sends initial messages and attach completes again,   *)
(* and S1AP forwards every E-RAB setup success, also one that answers no   *)
(* request of the DRB starter.  One that comes before the first attach     *)
(* ends the process.                                                       *)
(***************************************************************************)
EXTENDS Naturals, Sequences, FiniteSets

CONSTANTS
    UE,             \* the UEs
    NoUE,           \* "no UE": enb_id 0, emm_data NULL
    MaxInitial,     \* bound: initial UE messages
    MaxAttach,      \* bound: attach completes
    MaxSuccess,     \* bound: E-RAB setup successes
    WAIT,           \* turns of the loop of one-second sleeps (15 in the code)
    NUM_PACKETS     \* packets each flush thread sends (400 in the code)

ASSUME UEAssumption == NoUE \notin UE /\ IsFiniteSet(UE)
ASSUME BoundAssumption == MaxInitial \in Nat /\ MaxAttach \in Nat /\ MaxSuccess \in Nat
ASSUME LoopAssumption == WAIT \in Nat \ {0} /\ NUM_PACKETS \in Nat \ {0}

Ports == 0..3           \* PORT0 (7007, triggers), PORT1, PORT2, PORT3
Bearers == 1..3
Threads == 1..MaxAttach
NoThread == 0

VARIABLES
    queue,          \* the DRB task's ITTI queue
    started,        \* the UEs that have sent an initial message
    nInitial, nAttach, nSuccess,    \* messages queued so far
    enb_id,         \* ue_context_data_t
    emm_data,
    counter_UE,
    exit_drb,
    freed,          \* drb_task() has freed the context
    status,         \* UE -> bearer -> ESM status in the DRB starter's copy
    requests,       \* E-RAB setup requests sent: [ue, mme_ue_s1ap_id, enb_id, nas]
    crashed,        \* the process has died
    thr,            \* setup thread -> [pc, counter, index], in order of creation
    owner,          \* port -> the setup thread whose socket is bound to it
    flushed         \* setup thread -> packets each of its flush threads sent

envVars == <<started, nInitial, nAttach, nSuccess>>
ctxVars == <<enb_id, emm_data, counter_UE, exit_drb, freed, status, requests, crashed>>
thrVars == <<thr, owner, flushed>>
vars == <<queue, envVars, ctxVars, thrVars>>

NoFlush == [i \in Bearers |-> 0]

Init ==
    /\ queue = <<>> /\ started = {} /\ nInitial = 0 /\ nAttach = 0 /\ nSuccess = 0
    /\ enb_id = NoUE /\ emm_data = NoUE /\ counter_UE = 0
    /\ exit_drb = FALSE /\ freed = FALSE /\ crashed = FALSE
    /\ status = [u \in UE |-> [b \in Bearers |-> "INACTIVE"]]
    /\ requests = <<>>
    /\ thr = [k \in Threads |-> [pc |-> "none", counter |-> 0, index |-> 0]]
    /\ owner = [p \in Ports |-> NoThread]
    /\ flushed = [k \in Threads |-> NoFlush]
-----------------------------------------------------------------------------
(***************************************************************************)
(* The rest of the MME and the eNB.                                        *)
(***************************************************************************)
Queued(id, u) == queue' = Append(queue, [id |-> id, ue |-> u])

\* S1AP forwards an initial UE message of u.
InitialUeMessage(u) ==
    /\ nInitial < MaxInitial /\ nInitial' = nInitial + 1
    /\ started' = started \cup {u}
    /\ Queued("MME_APP_INITIAL_UE_MESSAGE", u)
    /\ UNCHANGED <<nAttach, nSuccess, ctxVars, thrVars>>

\* NAS has got attach complete from u, perhaps not for the first time.
AttachComplete(u) ==
    /\ u \in started
    /\ nAttach < MaxAttach /\ nAttach' = nAttach + 1
    /\ Queued("ATTACH_FORWARD_DRB", u)
    /\ UNCHANGED <<started, nInitial, nSuccess, ctxVars, thrVars>>

\* An eNB reports a successful setup; S1AP tells the DRB starter.
ErabSetupSuccess ==
    /\ nSuccess < MaxSuccess /\ nSuccess' = nSuccess + 1
    /\ Queued("S1AP_NAS_DL_DATA_REQ", NoUE)
    /\ UNCHANGED <<started, nInitial, nAttach, ctxVars, thrVars>>

Terminate ==
    /\ ~exit_drb /\ \A i \in 1..Len(queue) : queue[i].id # "TERMINATE_MESSAGE"
    /\ Queued("TERMINATE_MESSAGE", NoUE)
    /\ UNCHANGED <<envVars, ctxVars, thrVars>>
-----------------------------------------------------------------------------
(***************************************************************************)
(* drb_task(): one message per turn while exit_drb is not set.             *)
(***************************************************************************)
Handle(id) ==
    /\ ~exit_drb
    /\ queue # <<>> /\ Head(queue).id = id
    /\ queue' = Tail(queue)
    /\ UNCHANGED <<envVars, freed, owner, flushed>>

HandleInitial ==
    /\ Handle("MME_APP_INITIAL_UE_MESSAGE")
    /\ enb_id' = Head(queue).ue
    /\ UNCHANGED <<emm_data, counter_UE, exit_drb, status, requests, thr, crashed>>

\* The encrypted NAS message of bearer b: its EPS bearer id and the remote port
\* of its packet filter.
Message(b) == [ebi |-> 5 + b, singleremoteport |-> 6000 + b]

\* Three requests for u. Their MME UE id is always the same one, and their eNB
\* UE id the remembered one.
MmeUeS1apId == 2
Request(u) ==
    [b \in Bearers |-> [ue |-> u, mme_ue_s1ap_id |-> MmeUeS1apId, enb_id |-> enb_id,
                        nas |-> Message(b)]]

\* Mutant of HandleAttach: only the first attach gets a setup thread.
BugHandleAttach ==
    /\ Handle("ATTACH_FORWARD_DRB")
    /\ LET u == Head(queue).ue IN
           /\ emm_data' = u
           /\ requests' = requests \o Request(u)
           /\ status' = [status EXCEPT ![u] = [b \in Bearers |-> "ACTIVE_PENDING"]]
    /\ counter_UE' = counter_UE + 1
    /\ thr' = IF emm_data = NoUE THEN [thr EXCEPT ![counter_UE'].pc = "created"] ELSE thr
    /\ UNCHANGED <<enb_id, exit_drb, crashed>>

HandleAttach ==
    /\ Handle("ATTACH_FORWARD_DRB")
    /\ LET u == Head(queue).ue IN
           /\ emm_data' = u
           /\ requests' = requests \o Request(u)
           /\ status' = [status EXCEPT ![u] = [b \in Bearers |-> "ACTIVE_PENDING"]]
    /\ counter_UE' = counter_UE + 1
    /\ thr' = [thr EXCEPT ![counter_UE'].pc = "created"]
    /\ UNCHANGED <<enb_id, exit_drb, crashed>>

\* Any successful setup makes all three bearers of the last attach active. If
\* there was none, ebi holds NULL pointers.
HandleSetupSuccess ==
    /\ Handle("S1AP_NAS_DL_DATA_REQ")
    /\ crashed' = (emm_data = NoUE)
    /\ status' = [u \in UE |-> IF u = emm_data THEN [b \in Bearers |-> "ACTIVE"] ELSE status[u]]
    /\ UNCHANGED <<enb_id, emm_data, counter_UE, exit_drb, requests, thr>>

HandleTerminate ==
    /\ Handle("TERMINATE_MESSAGE")
    /\ exit_drb' = TRUE
    /\ UNCHANGED <<enb_id, emm_data, counter_UE, status, requests, thr, crashed>>

\* The loop ends: free(ue_ctx), whether setup threads still use it or not.
TaskEnds ==
    /\ exit_drb /\ ~freed
    /\ freed' = TRUE
    /\ UNCHANGED <<queue, envVars, enb_id, emm_data, counter_UE, exit_drb, status, requests,
                   crashed, thrVars>>
-----------------------------------------------------------------------------
(***************************************************************************)
(* sockets_setup(), thread k.                                              *)
(***************************************************************************)
Move(k, from, to) ==
    /\ thr[k].pc = from
    /\ thr' = [thr EXCEPT ![k].pc = to]
    /\ UNCHANGED <<queue, envVars, ctxVars>>

\* Closing the four sockets releases the ports that were bound.
CloseAll(k) == owner' = [p \in Ports |-> IF owner[p] = k THEN NoThread ELSE owner[p]]

\* Mutant of ThreadStarts: the counter is the one before its own attach.
BugThreadStarts(k) ==
    /\ thr[k].pc = "created"
    /\ thr' = [thr EXCEPT ![k] = [pc |-> "wait", counter |-> k - 1, index |-> 0]]
    /\ UNCHANGED <<queue, envVars, ctxVars, owner, flushed>>

\* The thread runs for the first time and reads the counter (what it reads
\* when the context is already freed is not defined).
ThreadStarts(k) ==
    /\ thr[k].pc = "created"
    /\ \E c \in (IF freed THEN 0..MaxAttach ELSE {counter_UE}) :
           thr' = [thr EXCEPT ![k] = [pc |-> "wait", counter |-> c, index |-> 0]]
    /\ UNCHANGED <<queue, envVars, ctxVars, owner, flushed>>

\* socket() fails: return without closing the sockets opened before.
ThreadFails(k) ==
    /\ Move(k, "created", "failed")
    /\ UNCHANGED <<owner, flushed>>

\* One turn of sleep(1) and the look at the counter.
Superseded(k) ==
    /\ Move(k, "wait", "ended")
    /\ freed \/ thr[k].counter # counter_UE
    /\ CloseAll(k)
    /\ UNCHANGED flushed

StillLatest(k) ==
    /\ thr[k].pc = "wait"
    /\ freed \/ thr[k].counter = counter_UE
    /\ thr' = [thr EXCEPT ![k] = [pc |-> IF @.index + 1 < WAIT THEN "wait" ELSE "bind",
                                  counter |-> @.counter,
                                  index |-> IF @.index + 1 < WAIT THEN @.index + 1 ELSE 0]]
    /\ UNCHANGED <<queue, envVars, ctxVars, owner, flushed>>

\* bind() of the next port: PORT0 first.
BindOk(k) ==
    /\ thr[k].pc = "bind"
    /\ owner[thr[k].index] = NoThread
    /\ owner' = [owner EXCEPT ![thr[k].index] = k]
    /\ thr' = [thr EXCEPT ![k] = [pc |-> IF @.index = 3 THEN "loop" ELSE "bind",
                                  counter |-> @.counter, index |-> @.index + 1]]
    /\ UNCHANGED <<queue, envVars, ctxVars, flushed>>

\* Mutant of BindFails: the error is only logged.
BugBindFails(k) ==
    /\ thr[k].pc = "bind"
    /\ owner[thr[k].index] # NoThread
    /\ thr' = [thr EXCEPT ![k] = [pc |-> IF @.index = 3 THEN "loop" ELSE "bind",
                                  counter |-> @.counter, index |-> @.index + 1]]
    /\ UNCHANGED <<queue, envVars, ctxVars, owner, flushed>>

BindFails(k) ==
    /\ Move(k, "bind", "ended")
    /\ owner[thr[k].index] # NoThread
    /\ CloseAll(k)
    /\ UNCHANGED flushed

\* while(!exit_drb): wait for a trigger, or close the sockets.
LoopAgain(k) ==
    /\ ~exit_drb /\ Move(k, "loop", "trigger")
    /\ UNCHANGED <<owner, flushed>>

LoopEnds(k) ==
    /\ exit_drb /\ Move(k, "loop", "ended")
    /\ CloseAll(k)
    /\ UNCHANGED flushed

\* A trigger with an experiment number starts the flush threads, one with
\* number 0 ends the thread. Datagrams of other senders are ignored.
TriggerFlush(k) ==
    /\ Move(k, "trigger", "flush")
    /\ flushed' = [flushed EXCEPT ![k] = NoFlush]
    /\ UNCHANGED owner

TriggerZero(k) ==
    /\ Move(k, "trigger", "ended")
    /\ CloseAll(k)
    /\ UNCHANGED flushed

\* udp_flush_enb(): flush thread i sends a packet.
FlushSend(k, i) ==
    /\ thr[k].pc = "flush"
    /\ flushed[k][i] < NUM_PACKETS
    /\ flushed' = [flushed EXCEPT ![k][i] = @ + 1]
    /\ UNCHANGED <<queue, envVars, ctxVars, thr, owner>>

\* The flush threads have returned and are joined.
FlushJoin(k) ==
    /\ \A i \in Bearers : flushed[k][i] = NUM_PACKETS
    /\ Move(k, "flush", "loop")
    /\ UNCHANGED <<owner, flushed>>
-----------------------------------------------------------------------------
\* Nothing more happens in a process that has died.
Environment ==
    /\ ~crashed
    /\ \/ \E u \in UE : InitialUeMessage(u) \/ AttachComplete(u)
       \/ ErabSetupSuccess \/ Terminate

TaskStep ==
    /\ ~crashed
    /\ \/ HandleInitial \/ HandleAttach \/ HandleSetupSuccess \/ HandleTerminate \/ TaskEnds

\* Steps of a setup thread and its flush threads that wait for nobody.
ThreadStep(k) ==
    /\ ~crashed
    /\ \/ ThreadStarts(k) \/ ThreadFails(k) \/ Superseded(k) \/ StillLatest(k)
       \/ BindOk(k) \/ BindFails(k) \/ LoopAgain(k) \/ LoopEnds(k)
       \/ (\E i \in Bearers : FlushSend(k, i)) \/ FlushJoin(k)

Triggers(k) == ~crashed /\ (TriggerFlush(k) \/ TriggerZero(k))

Next == Environment \/ TaskStep \/ \E k \in Threads : ThreadStep(k) \/ Triggers(k)

Spec == Init /\ [][Next]_vars

\* The DRB task and the setup threads keep running.
FairSpec == Spec /\ WF_vars(TaskStep) /\ \A k \in Threads : WF_vars(ThreadStep(k))
-----------------------------------------------------------------------------
(***************************************************************************)
(* Properties.                                                             *)
(***************************************************************************)
MessagesIds == {"MME_APP_INITIAL_UE_MESSAGE", "ATTACH_FORWARD_DRB", "S1AP_NAS_DL_DATA_REQ",
                "TERMINATE_MESSAGE"}

EnvType ==
    /\ queue \in Seq([id : MessagesIds, ue : UE \cup {NoUE}])
    /\ started \subseteq UE /\ nInitial \in Nat /\ nAttach \in Nat /\ nSuccess \in Nat

CtxType ==
    /\ enb_id \in UE \cup {NoUE} /\ emm_data \in UE \cup {NoUE}
    /\ counter_UE \in Nat
    /\ exit_drb \in BOOLEAN /\ freed \in BOOLEAN /\ crashed \in BOOLEAN
    /\ status \in [UE -> [Bearers -> {"INACTIVE", "ACTIVE_PENDING", "ACTIVE"}]]
    /\ requests \in Seq([ue : UE, mme_ue_s1ap_id : {MmeUeS1apId}, enb_id : UE \cup {NoUE},
                        nas : {Message(b) : b \in Bearers}])

ThrType ==
    /\ thr \in [Threads -> [pc : {"none", "created", "wait", "bind", "loop", "trigger",
                                 "flush", "ended", "failed"},
                           counter : Nat, index : Nat]]
    /\ owner \in [Ports -> Threads \cup {NoThread}]
    /\ flushed \in [Threads -> [Bearers -> 0..NUM_PACKETS]]

\* Every variable has its type, and there is a setup thread for every attach that
\* was handled (drb.c:309-691).
TypeOK ==
    /\ EnvType /\ CtxType /\ ThrType
    /\ \A k \in Threads : thr[k].pc = "none" <=> k > counter_UE

\* README.md: the DRB starter "initializes a configuration procedure for
\* several data radio bearers in the eNB, after the UE has atteched
\* successfully": the requests sent for the attach of a UE name that UE.
RequestsNameTheUe == \A i \in 1..Len(requests) : requests[i].enb_id = requests[i].ue

\* A setup thread that waits for triggers or sends test packets has all four
\* ports, so that at most one does; a thread that has ended has none
\* (drb.c:76-205).
ServerHasThePorts ==
    \A k \in Threads :
        /\ thr[k].pc \in {"loop", "trigger", "flush"} => \A p \in Ports : owner[p] = k
        /\ thr[k].pc = "ended" => \A p \in Ports : owner[p] # k

\* When a setup thread has been created, some setup thread comes to serve
\* triggers, although each one gives up for a newer attach (drb.c:77-87) or
\* when the ports are taken (drb.c:94-141): they never all give up for each
\* other (unless the process ends or one could not open its sockets).
Ending == crashed \/ exit_drb \/ \E i \in 1..Len(queue) : queue[i].id = "TERMINATE_MESSAGE"
SomeThreadServes ==
    (\E k \in Threads : thr[k].pc = "created")
        ~> (Ending \/ \E k \in Threads : thr[k].pc \in {"trigger", "flush", "failed"})
=============================================================================
