# Verification of the 5G/TSN convergence code

TLA+ models of the programs under `src/`: what they do, model-checked with TLC
on small instances, and theorems about them proved with TLAPS. The models are
written from the C and C++ sources; `PROJECT.json` names, for every definition
that models code, the lines it stands for.

## The system

The repository adds *dynamic logical channel prioritisation* to an
OpenAirInterface LTE network: a UE gets three dedicated radio bearers beside
its default one, downlink packets are put on one of them by the UDP port they
come from, and the MAC scheduler of the eNB serves the bearers in an order of
its own. The path of the control information is

    UE attaches -> MME/NAS (Attach.c) -> DRB starter (drb.c) -> E-RAB setup
    requests -> eNB (RRC) -> S1AP_E_RAB_SETUP_RESP -> ITTI -> ICM (icm.c)
    -> TEID in a UDP datagram -> packet terminal

and the path of user data is

    downlink:  SPGW -> packet terminal (TEID rewritten) -> eNB UDP task
               -> GTP-U -> PDCP/RLC -> MAC downlink scheduler -> UE
    uplink:    UE -> eNB -> UDP task (peer hard-wired) -> packet terminal -> SPGW

### Inventory

| component | state it keeps | operations | correct when |
|---|---|---|---|
| packet terminal, `packet_terminal/src` | `run`, `teid_array`, `index_drb`, linked list `anchor` under `queue_mutex`, two sockets | relay up, relay down with control messages, print thread, main's shutdown | a packet gets the TEID of its port and of a complete set; the list is a FIFO; shutdown forwards at most what is under way, and that is finished |
| ITTI of the eNB, `ocp_itti` | per task: queue, eventfd, mutex, epoll set, timers | send (with a copy to ICM), receive, poll, get events, subscribe, timers | no lost wake-up, order per sender, every copy arrives, every queued message is received; no sleep past a timer the last loop came to, no expiry early, twice or after removal |
| ICM task, `openair3/ICM` | a socket | forward a TEID, ignore the rest | the terminal learns TEIDs in order and at most once |
| UDP task of the eNB, `openair3/UDP` | list of sockets by task, under a mutex | UDP_INIT, UDP_DATA_REQ, receive | every datagram goes to the task that asked for the socket, every buffer is freed once |
| DRB starter, `drb_starter` | one context for all UEs, `exit_drb`, setup threads, four ports | initial UE message, attach, setup success, terminate; thread: wait, bind, serve, flush | requests name the UE that attached; one thread serves and has all ports |
| EMM attach procedure, `nas/emm/Attach.c` | per UE: FSM state, T3450, retransmission data, identities, counters | attach request, identify, security, attach, accept, retransmit, complete, reject, release, abort | no way out of the procedure leaves the timer without its data; at most four retransmissions and an end to them; a repeated request is answered |
| S1AP decoder of the MME | none | decode, dispatch, notify the DRB starter | each kind of PDU reaches its decoder |
| MAC downlink scheduler | per UE: the bearer whose packet was cut, an RLC number, HARQ rounds; the RLC header under construction | one subframe: order of channels, polling, choice of resource blocks and MCS, merging into channel 3, header generation; retransmission | the UE puts the packets together whole and in order, the merged header says what the data fields are, the transport block holds them, a bearer goes out of turn only to finish a packet |
| LCP receiver, `LCP Receiver` | counters of one experiment | trigger, 350 receives, evaluation | - |
| MME main, eNB task creation | none | start-up | every task exists before it is used |

What is hard in this code: four processes that talk over UDP without
acknowledgement; threads that share flags, a linked list and a context without
or with little locking; a message bus whose wake-up tokens and messages run
apart; one context for all UEs; timers that outlive what they point to; and
header bytes built in place. `PROJECT.json` lists these under `hazards`, each at
its line, with the properties that cover it.

## Modules

| module | models | composes |
|---|---|---|
| `UdpSocket` | a datagram socket's bounded receive buffer (external) | - |
| `LogFifo` | abstract: an unbounded FIFO | - |
| `PacketTerminal` | the packet terminal, all four threads | `UdpSocket`; implements `LogFifo` |
| `PacketTerminalProofs` | theorems about it | extends `PacketTerminal` |
| `Itti` | the eNB's ITTI: send, copy, eventfd, receive, poll, get events | - |
| `IttiProofs` | theorems about it | extends `Itti` |
| `IttiTimers` | timers, time-outs and run-time subscription of one task | - |
| `IttiTimersProofs` | theorems about it | extends `IttiTimers` |
| `Icm` | the ICM task | `UdpSocket` |
| `TeidChain` | RRC -> ICM -> socket -> down thread of the terminal | `Icm`, `PacketTerminal` |
| `TeidChainProofs` | theorems about it | extends `TeidChain`, `PacketTerminalProofs` |
| `DrbStarter` | the DRB starter's task, setup threads and flush threads | - |
| `DrbStarterProofs` | theorems about it | extends `DrbStarter` |
| `EmmAttach` | the attach procedure of the MME and its timer T3450 | - |
| `EmmAttachProofs` | theorems about it | extends `EmmAttach` |
| `UdpEnb` | the eNB's UDP task | - |
| `UdpEnbProofs` | theorems about it | extends `UdpEnb` |
| `Dlsch` | the MAC downlink scheduler for one UE | - |
| `DlschProofs` | theorems about it | extends `Dlsch` |
| `MCDlsch` | a small table of block sizes, packets and grants | extends `Dlsch` |

### Packet terminal

The variables are the globals and the locals the threads keep: `run`, the
program counters, each relay thread's buffer and `numb_read`, the two receive
buffers, `teid_array`, `index_drb`, the log list. The list is a sequence from
its last item to `anchor`, because items are added at `anchor` and taken at the
other end. `add_queue_item()` is two steps, `AddLink` (take the mutex, read
`anchor` into `new->next`) and `AddPublish` (write `anchor`, release), so that
what the mutex is for can go wrong. A datagram is its sender, the UDP port
inside, a TEID and a number. `htonl()` is the constructor `Net`: a TEID in
host order and one in a header are different values. `teid_array` is not
initialised in the code; its slots start as `Garbage`, and so do the buffers,
whose stale address may happen to look like ICM's. `recvfrom()` and `sendto()`
fail on a closed socket, and since nobody looks at the result the thread goes
on with its old buffer (`RecvError`). Returning from `main` ends all threads.

### ITTI

A task's queue, the tokens in its eventfd, and its mutex. A sender's two
critical sections are two steps each (insert, then write the token and
release); a receiver's sections do not block and are one step each, enabled
while no sender holds the mutex. `epoll_wait()` happens without the mutex, and
so does the read of the token. Tasks in `FdTask` have descriptors besides the
eventfd: `itti_receive_msg()` may return without a message, and they call
`itti_get_events()` after it, which sleeps whatever the queue holds. Timers
and subscription at run time have a module of their own.

### ITTI timers

`IttiTimers` has one task and other threads that call `timer_setup()`,
`timer_remove()` and send messages. A section under the mutex is one step.
`timer_setup()` is two: it looks for a free id without the mutex
(`SetupBegin`) and inserts the timer under it (`SetupInsert`), so that two
threads may choose the same id. The task looks at its timers only when it is
about to sleep, in `itti_receive_msg()` or in `itti_get_events()`: it delivers
what is due, and `deadline` is when its `epoll_wait()` gives up. Time passes in
milliseconds. An expired one-shot timer is erased in the loop over `timer_map`,
whose iterator the loop goes on with. What follows is undefined: the model lets
the loop skip any of the remaining timers (`Seen`), come back to timers it has
seen (`Again`), or kill the process (`Crash`). A timer that was skipped does not
count for `next_timer` and may be slept past; `skipped` records which ones the
last loop left out, until the next one.

### ICM and the chain of TEIDs

`TeidChain` takes ICM's actions from `Icm` and the down thread's from
`PacketTerminal`; the socket they share also carries user packets. A send may
fail, and a datagram that finds the socket's buffer full is dropped. The other
threads of the terminal are left out there: they share only the log list and
`run` with the down thread. The history variable `lost` records a datagram of
ICM that was not delivered. The answer for a bearer that did not come up has no
TEID; ICM reads `e_rabs[0]` all the same (`BearerFails`), and what it reads may
be zero, which ends the terminal, or anything else. `TERMINATE_MESSAGE` is not
part of the models of ICM and of the UDP task: the only function of the eNB that
would send it, `itti_send_terminate_message()`, is empty
(`intertask_interface.cpp:456`).

### DRB starter

The task takes one message per step from its queue; the whole handler of an
attach, with its three requests, is one action. The 300 ms sleeps between the
requests allow nothing else: the task is the only one to change the context,
and the answers of the eNB wait in the queue. A setup thread reads
`counter_UE` when it first runs, then once per turn of its loop; it binds its
four sockets one by one. Once the context is freed, what a thread reads from
it is arbitrary. The four `close()` calls at the end of a thread are one step
(`CloseAll`): the model does not show a thread that binds between two of them,
finds a later port still taken and ends. A UE sends its initial message before
its attach complete, and either may come again; a setup success may come at any
time, since the decoder forwards every one of them, and before the first attach
it kills the process (`crashed`). The S1AP and NAS bytes of a request are
abstracted to what tells the bearers and UEs apart: the eNB's id of the UE and
the MME's, which is always 2 (`Request`; `drb.c:361`), and the bearer id and
port inside the NAS message (`Message`). Since the MME's id is a constant, it is
right for one UE at most; `RequestsNameTheUe` asks for the eNB's id.

### Attach procedure

A connection (`ue_id`) has a context or none (`ctx`), the data registered for
retransmission (`args`) and the timer (`T3450`); `imsiIdx` is the table that
finds a context by its IMSI. A context records what the branches of
`emm_proc_attach_request()` ask: the FSM state, which procedure runs, whether
the accept was sent, the capabilities and whether it has a GUTI. There is one
action per branch of the request (new IMSI, GUTI, common procedure running,
registered, after the accept, under way, same connection, emergency) and one
per handler and callback after it: `Identified`, `EmmAttachSecurity`,
`EmmAttach`, `EmmAttachAccept`, `T3450Handler`, `EmmProcAttachComplete`,
`AttachReject`, and the failures of the common procedures, which are external.
Where the code reads a context it has just deleted, or goes on with a NULL
pointer, the model takes any outcome the build can have, the end of the
process (`crashed`) included. The NAS task runs one handler at a time, so a
handler is one step. A request without a context comes on a new connection, and
a context that is gone is not created again on the same one.

Detach and S1 release are not in this file, but they delete contexts while an
attach is under way. `ContextDeleted` does this at any time, with the attach
aborted first or with its data and T3450 left alone ("timer not stopped when
deleted context", `Attach.c:1410`); `outside` remembers it. A timer that runs on
finds no context when it expires, sends nothing and is not started again. An
ATTACH COMPLETE that comes late (`CompleteWithoutContext`, `late`) frees the
data and leaves the timer running, whose handler is then given freed memory
(`ExpireFreed`). The fifth expiry of an attach that still has its context frees
the data without taking it out of the registry (`Freed`). When
`_emm_attach_release()` has something to abort, the callback deletes the context
that it goes on to use, which may end the process (`Release`).

### UDP task

One thread with two places to sleep: `itti_receive_msg()` and, after every
message or wake-up, `itti_get_events()`. `epoll_wait()` reports the eventfd and
all readable sockets together; the sockets reported to the first call are not
used, since the second reports them again. `Take`, `Wake`, `RelockEmpty` are
the ITTI functions as this task meets them, with a message and its token put in
place in one step (`Itti` has the finer steps). A bind to a port that is in use
ends the eNB (`AssertFatal`); a failed `sendto()` is only logged. What a socket
holds is a sequence of datagrams, some of which `recvfrom()` answers with 0 or
an error.

### Downlink scheduler

`Dlsch` is `schedule_ue_spec()` for one UE. A subframe is one step:
`NewData` polls the signalling bearers and then the data bearers in the order
of the gate list, a cut packet's bearer first (`Poll`), chooses resource
blocks and MCS (`Transport`), takes the RLC PDUs apart and packs the header of the
merged PDU bit by bit (`rlc_header`), computes padding and MAC header, and
sends. The other steps are a subframe that is not scheduled, a retransmission,
a subframe without data, HARQ feedback and arrivals. What a block contains is
kept only as a set of facts about it (`tb`), and what the UE made of it in `ue`
and `delivered`. A data field knows which bytes of which packet it is, so that
a packet put together from wrong pieces is told from one that arrived.

Some things are as narrow as in the code. The number of the merged PDU is a
counter without end whose upper bits are ORed onto the header's E and FI
(`FirstByte`), so from the 1024th PDU on the header may be wrong. The padding is
passed as an unsigned char (`ShortPadding`), and the bytes of the signalling
bearers are subtracted twice before: a padding of -254 becomes two padding
subheaders. Two calls of the merge are undefined, a `memcpy()` within one buffer
and a `memset()` beyond an array (`Spoilt`): the block is what was meant, or
nothing is known of it. What else the `memset()` may hit is not followed.

Six circumstances make the merge go wrong (`Harms`): a merged PDU without a
length (the finding below), a cut packet of the default bearer followed by
another bearer's, data on the signalling bearers, an RLC entity that gives an
empty PDU, a number of more than ten bits that changes the header, and a spoilt
block. They are recorded in `harmed`, and `PacketsIntact` is about behaviours
without them: it says that these are all.

## Runs

| run | instance | distinct states | shows |
|---|---|---|---|
| `terminal` | 2 up, 1 down, 1 control datagram, buffers of 1 | 543,455 | `LogIsFifo`, `AtMostOneLate`, `WorkIsFinished`, `LogDrains` |
| `itti` | 2 senders with 2 messages, a task with descriptors, ICM | 1,058,088 | `TypeOK`, `NoLostWakeup`, `SenderOrder`, `CopiedToIcm`, `Delivered` |
| `itti_timers` | 2 ids, 2 timers of 1 or 2 ms, 1 message, 3 ms | 1,024,817 | `TypeOK`, `NoOversleep`, `NotEarly`, `OneShot`, `TimerFires` |
| `chain` | 6 answers, 1 of them without a bearer, 1 other message, 1 packet of any port, buffers of 2 | 951,955 | `TypeOK`, `RewriteUsesFullSet`, `TeidsInOrder`, `MappedUnlessLost` |
| `chain_loss` | 4 bearers, buffers of 1 | - | finding: `PortGetsItsBearer` is violated |
| `drb` | 2 UEs, 2 initial messages, 2 attaches, 1 setup success, 2 turns of waiting, 1 packet per flush thread | 360,035 | `TypeOK`, `ServerHasThePorts`, `SomeThreadServes` |
| `drb_overlap` | the same | - | finding: `RequestsNameTheUe` is violated |
| `attach` | 2 subscribers, 2 connections, 2 sets of capabilities | 118,469 | `TypeOK`, `TimerHasItsAttach`, `FourRetransmissions`, `TimerEnds` |
| `attach_repeat` | the same | - | finding: `RepeatedRequestResendsAccept` is violated |
| `udp` | 2 clients, 3 messages, 2 datagrams, 2 ports | 87,127 | `TypeOK`, `BuffersFreedOnce`, `UplinkToTerminal`, `OpenedIsServed`, `IndicatedInOrder`, `DatagramsRead`, `MessagesServed` |
| `dlsch` | 2 packets arriving or 5 small ones waiting, 4 grants, 1 HARQ process, 1 lost block, numbers from 1 and from 1022 | 356,164 | `TypeOK`, `CutIsRemembered`, `GateKept`, `PacketsIntact`, `BlockHolds`, `HeaderReads` |
| `dlsch_length` | 2 packets, 2 grants, 8 HARQ processes, no loss | - | finding: `UeFindsTheLength` is violated |

Why the bounds are enough. Two uplink datagrams let a relay thread finish one
and start another after `run` was cleared, which is what `AtMostOneLate` is
about; one item of each direction beside the print thread is every race on the
list, since the mutex admits one thread. In the chain six TEIDs are two full
sets: the index wraps round twice and a packet can leave before, in, between
and after configurations. A socket buffer of one datagram is the smallest that
can be full. In ITTI two messages per sender let tokens and messages run apart
in both directions (a message taken without its token, a token with no
message). Two timers are one that is due and one that is not, one set up while
the task sleeps for the other, or two with the same id; three milliseconds let
a periodic timer of one expire twice. For the DRB starter two UEs are two
competing setup threads, and the two attaches may also be one UE's, repeated;
the 15 turns of the wait loop are 2 and the 400 packets 1: only whether a turn
is left matters. In the attach procedure two
connections are an attach and the one that supersedes it, for the same
subscriber or another; the count of five expiries is the code's own. In the
UDP task three messages are two sockets and a request, or a socket and two requests, or a
request before its socket; two datagrams come to one socket or to both.

In the scheduler a packet of 10 bytes does not fit into a block of the smaller
grant and is cut, one of 4 fits beside a piece of another, and of the backlog
several packets of two bearers fit into one block. One grant has 254 bytes of
signalling: in a full block the padding is then -254. Numbers start at 0 or
1021, where 1024 is reached in three blocks, and one block may be lost: with
fewer losses than numbers the UE notices every loss. The code has eight HARQ
processes in FDD; one is enough for a subframe that finds its process busy.
Time is kept modulo the cycle of the gate list times the number of processes, so
that any number of them goes with it. The packing of length
fields depends on the parity of their number and on lengths up to 2047, which
no state of this instance has: `HeaderAlgorithm` in `MCDlsch` checks it against
a reference definition for up to four fields of lengths 1, 15, 16, 255, 256
and 2047, whenever the module is run, and for the first numbers of
eleven, twelve and thirteen bits whether the header is still right.

Each property of a passing run has a mutant: a plausible slip in a mapped
definition under which TLC finds the property violated.

## Fairness

Weak fairness for each thread or task: the operating system schedules it. New
messages, triggers and datagrams are never assumed. In the packet terminal this
is weak fairness of the two relay threads and of the print thread. A relay
thread that waits for `queue_mutex` is not assumed to get it: POSIX promises no
order among waiters, and `handler_print` takes and releases the mutex in a busy
loop, so that nothing guarantees progress of a relay thread while `run` is set.
`WorkIsFinished` is therefore about the time after `run` became 0, when that
loop ends. `LogDrains` is about a bounded number of datagrams; it does not say
that the log stays short under load.

For the attach procedure only T3450 is assumed to expire while it runs; nothing
is assumed of the UE or of the common procedures. In the UDP task it is the
thread that is fair, and nothing else. In ITTI no more is needed: each section
ends by itself and the number of messages is bounded. With timers, time passes
too and a call of `timer_setup()` under way ends; nothing is assumed of signals
and other descriptors.

`TimerFires` is about timers that stay, are not replaced by one with the same
id, and are not skipped by every loop from some time on; the process may also
have died (`Crash`).

Of the scheduler no liveness is claimed. A dedicated bearer whose backlog is cut
in every block stays in `fi_ind` and is polled before the other dedicated
bearers in every subframe (`eNB_scheduler_dlsch.c:1312-1316`); it may starve
them, and the pre-processor may give a UE nothing. `GateKept` says how much of the gate list is kept: a bearer goes
out of turn only while a packet of its own is unfinished.

## Theorems

`PacketTerminalProofs`, for every `SockCap`, `MaxUp`, `MaxDown`, `MaxCtl`:

* `TypeCorrect`: `Spec => []TypeOK`.
* `LogRefinesFifo`: the locked list implements `LogFifo`.
* `RewriteCorrect`: `Spec => []RewriteUsesFullSet`.
* `LateBound`: `Spec => []AtMostOneLate`.

None but the first is inductive. What is added: `BufferOK` (what a thread holds
at each point, so that only a downlink packet reaches `SendDown`), `MutexOK`
(who holds the mutex is in its section, and the anchor read is still the
anchor; from this the publish step is an abstract `Put`), `TableOK` (slot `i`
holds the latest TEID stored at a position equal to `i` modulo 3, so that at
index 0 the table is the last full set), `SentOK` (what was sent refers to an
earlier length of `teids`), `LateOK` (a thread that forwarded something late is
back at its loop test). The proof has one step per action and part; `Frames`
and the `...Frame` lemmas discharge the actions that leave a part alone.

`IttiProofs`, for all sets of tasks and senders and every `MaxSend`:

* `TypeCorrect`: `Spec => []TypeOK`.
* `WakeupCorrect`: `Spec => []NoLostWakeup`.
* `OrderCorrect`: `Spec => []SenderOrder`.
* `CopiesCorrect`: `Spec => []CopiedToIcm`.

`NoLostWakeup` says nothing of tasks that are awake, and a task may read the
token of a message it has not taken yet. Inductive is `TokensCover`: the messages
of a queue never outnumber its tokens, the one a sender inside the mutex is
about to write, and one more if the task has read a token since it last looked
at its queue; with `LockHeld`, a sender holds the mutex exactly between
insertion and token. For the order, a task's log (what it received, then what
is queued) only grows at its end. `Numbered` bounds the numbers of a sender's
messages in all logs by what it has sent, and strictly in ICM's while its copy
is still to come; `Copied` says that a message not in ICM's log is the one its
sender is just sending.

`IttiTimersProofs`, for all ids and durations and any number of timers:

* `TypeCorrect`: `Spec => []TypeOK`.
* `SleepCorrect`: `Spec => []NoOversleep`.
* `NotEarlyCorrect`: `Spec => []NotEarly`.
* `OneShotCorrect`: `Spec => []OneShot`.

Inductive with `NoOversleep` is `NextIsFirst`: `next_timer`, from which the
time-out is computed, is not after any timer that the last loop did not skip; a
timer that is set up while the task sleeps leaves a token. For the other two, a timer may have several
messages in the queue, and a message does not say when its timer was due.
`HistoryInv` therefore asks for a sequence of such times beside the queue
(`DueInv`): a timer's messages were due at least a duration apart, the first a
duration after what the messages received account for, the timer itself, while
it is set, a duration after the last of them, and none of the messages is ahead
of the clock. Each step shows how the sequence changes with the queue: the loop
over `timer_map` appends the times of the timers that expire and a receive takes
the first; a removal leaves the queue alone. Of a one-shot timer the same
invariant allows one message in all, queued or received, and none once it was
removed from `timer_map`.

`TeidChainProofs`, for any number of bearers, messages and packets and every
`SockCap`:

* `TeidOrderCorrect`: `ChainSpec => []TeidsInOrder`.
* `MappingCorrect`: `ChainSpec => []MappedUnlessLost`.

A TEID on its way is in one of four places: ICM's queue, the terminal's receive
buffer, the hands of the down thread, the table. `OrderInv` says that the TEIDs
rise within each place and from each place to the one before it, whatever is
dropped on the way (the value ICM reads for a failed bearer stands in its
place). `CompleteInv` says that, unless one was lost, the table holds exactly the first TEIDs and every other one is somewhere: so the TEID
stored next is the next one, since a smaller one would be nowhere. With
`TableOK` and `SentOK` of the terminal, whose steps are shown to keep them
behind ICM too, the `i`-th TEID of a full set is that of the `i`-th bearer.
Each step of the chain is a lemma about the four places as sequences of
numbers.

`DrbStarterProofs`, for any finite set of UEs and any number of turns and
packets:

* `TypeCorrect`: `Spec => []TypeOK`.
* `PortsCorrect`: `Spec => []ServerHasThePorts`.

That an attach finds a setup thread of its own needs `HasThread`: the threads
that exist are those up to `counter_UE`. `PortInv` says which ports a thread has
bound at each place of its code.

`UdpEnbProofs`, for any clients, ports, messages and datagrams:

* `TypeCorrect`: `Spec => []TypeOK`.
* `BuffersCorrect`: `Spec => []BuffersFreedOnce`.
* `UplinkCorrect`: `Spec => []UplinkToTerminal`.
* `RequestsServed`: `Spec => []OpenedIsServed`.
* `DownlinkCorrect`: `Spec => []IndicatedInOrder`.

`TypeCorrect` needs `Room`: sockets and messages queued or handled never
outnumber the messages sent. `BufferInv` orders the requests from the wire over
the one being handled to the queue. `OpenInv` follows a client's `UDP_INIT`: of
a request sent after it, either the socket is in the list or the `UDP_INIT`
comes before the request in the queue. `DownlinkInv` is about the datagrams:
what the kernel still holds is the end of what arrived at a socket
(`InKernel`), the indications of a socket are those of the datagrams read that
have data, at its owner only (`IndicatedRead`, `ReadIndicated`, `InOrder`), and
every descriptor reported is a socket of the list (`Listed`), so that the
lookup by descriptor finds the owner.

`EmmAttachProofs`, for all subscribers and capabilities and every number of
connections:

* `AttachTypes`: `Spec => []TypeOK`.
* `TimerSafe`: `Spec => []TimerHasItsAttach`.
* `RetransmissionsBounded`: `Spec => []FourRetransmissions`.

Inductive is `ConnOK` of every connection: an unused connection has nothing
(`UnusedOK`), a context deleted from outside does not come back (`OutsideOK`),
data belongs to a context that waits for the complete, unless it was deleted
from outside (`DataOK`), a running timer has its data unless a late complete
freed it (`TimerOK`), a context in an earlier procedure has no timer
(`WaitingOK`), and the retransmissions so far are at most the count in the data
(`CountOK`). A request touches the contexts of two connections, the new and the
old; `ProcessKeeps` handles both and the lemma `OthersKeep` the rest.

`DlschProofs`, for every table of block sizes, all grants and packets, any
number of HARQ processes and up to 1022 losses:

* `TypeCorrect`: `Spec => []TypeOK`.
* `CutCorrect`: `Spec => []CutIsRemembered`.
* `GateCorrect`: `Spec => []GateKept`.

The assumptions are that block sizes are natural numbers, packets have at least
one byte, and the 1024 sequence numbers outnumber the losses. Each of the last
two is inductive together with `TypeOK`; the work is in the operators. `RlcPdu`
takes as many whole packets as fit and a part of the next one: `RlcPduFacts`
shows that what is left is well-formed and that FI says whether its first packet is cut. The polls of a
subframe are recursive functions; what they do is shown by induction over the
place in `prio2lcid_array`, in the form of a least counterexample, since the
library's induction theorems cannot be instantiated here (`Induction`,
`Recursion`). The loop invariant `PollInv` says that as long as no PDU is
empty at most one bearer, the one polled last, has a packet that the subframe
has cut: a cut leaves no room for another poll. `OrderFacts` says that the
bearer in `fi_ind` is polled before the other dedicated bearers, so that its
packet is finished first or is the one cut again. For `GateKept` the loop
invariant is `CutIsLeft`: if the last PDU ends within a packet, the rest of that
packet is first in its queue.

Only model-checked: all liveness properties (fairness is out of reach of the
prover), and of `Dlsch` the invariants `PacketsIntact`, `BlockHolds` and
`HeaderReads`. These three rest on `ReadLengths` reading back what `RlcHeader`
and `rlc_header` write. That is not so for every value of the constants: a
length field has 11 bits and the code's array for the merged header 100 bytes
(`eNB_scheduler_dlsch.c:1546`), so a theorem needs bounds on packets and blocks
that no line of the code states, and an induction over the packing of nibbles
into bytes. TLC checks the packing against a reference definition over bounded
inputs (`HeaderAlgorithm`).

## Findings

Four of the runs show the code at odds with what the repository says of it;
`PROJECT.json` quotes the lines.

1. One lost TEID shifts all later ones to the wrong port
   (`packet_terminal.h:128`).
2. The DRB starter's requests carry the eNB id of the UE that last sent an
   initial message, not of the one that attached (`drb.c:721`).
3. An attach request repeated while the MME waits for the complete is never
   answered by the accept: the comparison takes the missing GUTI of a request
   by IMSI for a change (`Attach.c:1755`).
4. When PDUs of several bearers are merged, the padding is computed as if each
   still had its MAC subheader; the last subheader then has no length, and the
   one the UE computes is too long (`eNB_scheduler_dlsch.c:1719`).

## Not modelled

* The handlers of `TERMINATE_MESSAGE` in ICM and in the UDP task, which nothing
  sends.
* What undefined behaviour destroys beyond what a module's variables show: the
  scheduler's `memset()` beyond `sdu_lcids` and the write before `rlc_header`
  when all PDUs are empty.
* ITTI: creation of tasks and messages, and the functions kept for
  compatibility, which are empty. `create_tasks.c` is a list of asserted calls.
* The MAC scheduler beyond one UE: the pre-processor that shares resource
  blocks among UEs is an arbitrary grant; eMTC UEs (`schedule_ue_spec_br()`),
  paging, slices, power control and the contents of the DCI are left out.
* The S1AP decoder of the MME is a dispatch without state; its two
  notifications to the DRB starter are the environment's actions
  `InitialUeMessage` and `ErabSetupSuccess` of `DrbStarter`.
* The LCP receiver sends one trigger and then makes 350 blocking receives. The
  trigger is the environment's `TriggerFlush` or `TriggerZero` of `DrbStarter`.
  The receives share no state with anything; a lost packet leaves the program
  waiting, which no step of its own could change.
* `EmmAttach` and `DrbStarter` together: the context pointer an attach complete
  hands to the DRB starter may outlive the context (`Attach.c:714`), but the
  two state spaces multiply to more than TLC can explore, and the pointer is
  not what either module's properties are about.
* `oai_mme.c` and the CMake files: start-up and build configuration.
* GTP-U, RRC, ESM, the common EMM procedures, the RLC entities, HARQ feedback,
  the UE and the kernel's sockets: not under `src/`; they appear as
  nondeterministic environments, marked external.

## Plan

What is left to do, in this order:

1. Abstract specifications: `TeidChain` implements a FIFO from bearers to table
   slots as long as nothing is lost; `UdpEnb` implements one FIFO per socket.
2. Theorems: `BlockHolds` and `HeaderReads` of `Dlsch` under bounds on the
   number and the lengths of data fields, by induction over the fields; a mask
   of the number in the code would remove the exception of the latter.
3. The DRB starter with the four `close()` calls of a setup thread as separate
   steps, once its run has room for them.
4. The scheduler with two UEs and the pre-processor between them.
