-------------------------------- MODULE Itti --------------------------------
(***************************************************************************)
(* The eNB's inter-task interface                                          *)
(* (src/openairinterface5g/common/utils/ocp_itti), with the repository's   *)
(* extension that sends a copy of every message to the ICM task.           *)
(*                                                                         *)
(* A task has a message queue under a mutex and an eventfd in semaphore    *)
(* mode that counts one token per message sent.  The task sleeps in        *)
(* epoll_wait() with the mutex released, and the token is read without it; *)
(* a message is taken from a queue that is not empty without reading the   *)
(* token that came with it.  Tokens and messages therefore run apart, and  *)
(* the question is whether a task can sleep on a queue that is not empty.  *)
(*                                                                         *)
(* Tasks of the first kind only call itti_receive_msg().  Tasks in FdTask  *)
(* have subscribed other file descriptors (udp_eNB_task does) and call     *)
(* itti_get_events() after every itti_receive_msg().  No task of this      *)
(* module uses ITTI timers (next_timer stays UINT64_MAX), and none sends a *)
(* message to the ICM task itself.                                         *)
(***************************************************************************)
EXTENDS Integers, Sequences, FiniteSets

CONSTANTS
    Task,       \* the tasks that receive messages
    TASK_ICM,   \* the task that gets the copies
    FdTask,     \* tasks with file descriptors besides the eventfd
    Sender,     \* threads that send messages
    Free,       \* "no thread holds the mutex"
    MaxSend     \* bound: messages each sender sends

ASSUME TaskAssumption == TASK_ICM \in Task /\ FdTask \subseteq Task \ {TASK_ICM}
ASSUME SenderAssumption == Free \notin Sender /\ MaxSend \in Nat

MessagesIds == {"RRC_SUBFRAME_PROCESS", "S1AP_E_RAB_SETUP_RESP"}
Message == [origin : Sender, n : 1..MaxSend, id : MessagesIds]

VARIABLES
    message_queue,    \* task -> its queue, oldest message first
    sem_fd,           \* task -> tokens in its eventfd
    queue_cond_lock,  \* task -> the sender that holds its mutex, or Free
    spc,              \* sender -> where in itti_send_msg_to_task() it is
    sending,          \* sender -> [dest, msg] of its current or last call
    nsent,            \* sender -> messages it has begun to send
    rpc,              \* task -> where in its receive loop it is
    received          \* history: task -> the messages it has taken

vars == <<message_queue, sem_fd, queue_cond_lock, spc, sending, nsent, rpc, received>>
sendVars == <<queue_cond_lock, spc, sending, nsent>>

Init ==
    /\ message_queue = [t \in Task |-> <<>>]
    /\ sem_fd = [t \in Task |-> 0]
    /\ queue_cond_lock = [t \in Task |-> Free]
    /\ spc = [s \in Sender |-> "idle"]
    /\ sending \in [Sender -> [dest : {TASK_ICM}, msg : {<<>>}]]
    /\ nsent = [s \in Sender |-> 0]
    /\ rpc = [t \in Task |-> "call"]
    /\ received = [t \in Task |-> <<>>]
-----------------------------------------------------------------------------
(***************************************************************************)
(* itti_send_msg_to_task(): insert under the destination's mutex, write a  *)
(* token, release; then the same with the copy and the ICM task's queue.   *)
(***************************************************************************)
\* Mutant of Insert: at the end of the vector the receiver takes from.
BugInsert(s, t, m) ==
    /\ queue_cond_lock[t] = Free
    /\ queue_cond_lock' = [queue_cond_lock EXCEPT ![t] = s]
    /\ message_queue' = [message_queue EXCEPT ![t] = <<m>> \o @]

Insert(s, t, m) ==
    /\ queue_cond_lock[t] = Free
    /\ queue_cond_lock' = [queue_cond_lock EXCEPT ![t] = s]
    /\ message_queue' = [message_queue EXCEPT ![t] = Append(@, m)]

\* Mutant of Post: no token is written.
BugPost(t) ==
    /\ UNCHANGED sem_fd
    /\ queue_cond_lock' = [queue_cond_lock EXCEPT ![t] = Free]

Post(t) ==
    /\ sem_fd' = [sem_fd EXCEPT ![t] = @ + 1]
    /\ queue_cond_lock' = [queue_cond_lock EXCEPT ![t] = Free]

SendInsert(s, t, id) ==
    /\ spc[s] = "idle" /\ nsent[s] < MaxSend
    /\ nsent' = [nsent EXCEPT ![s] = @ + 1]
    /\ LET m == [origin |-> s, n |-> nsent[s] + 1, id |-> id] IN
           /\ sending' = [sending EXCEPT ![s] = [dest |-> t, msg |-> m]]
           /\ Insert(s, t, m)
    /\ spc' = [spc EXCEPT ![s] = "post"]
    /\ UNCHANGED <<sem_fd, rpc, received>>

\* Mutant of SendPost: the test of the message id is the wrong way round.
BugSendPost(s) ==
    /\ spc[s] = "post"
    /\ Post(sending[s].dest)
    /\ spc' = [spc EXCEPT ![s] =
                  IF sending[s].msg.id # "RRC_SUBFRAME_PROCESS" THEN "idle" ELSE "copy"]
    /\ UNCHANGED <<message_queue, sending, nsent, rpc, received>>

\* The copy of a RRC_SUBFRAME_PROCESS message is not sent (and not freed).
SendPost(s) ==
    /\ spc[s] = "post"
    /\ Post(sending[s].dest)
    /\ spc' = [spc EXCEPT ![s] =
                  IF sending[s].msg.id = "RRC_SUBFRAME_PROCESS" THEN "idle" ELSE "copy"]
    /\ UNCHANGED <<message_queue, sending, nsent, rpc, received>>

CopyInsert(s) ==
    /\ spc[s] = "copy"
    /\ Insert(s, TASK_ICM, sending[s].msg)
    /\ spc' = [spc EXCEPT ![s] = "copyPost"]
    /\ UNCHANGED <<sem_fd, sending, nsent, rpc, received>>

CopyPost(s) ==
    /\ spc[s] = "copyPost"
    /\ Post(TASK_ICM)
    /\ spc' = [spc EXCEPT ![s] = "idle"]
    /\ UNCHANGED <<message_queue, sending, nsent, rpc, received>>
-----------------------------------------------------------------------------
(***************************************************************************)
(* itti_receive_msg().  Between taking and releasing the mutex a receiver  *)
(* does not block, so each such section is one step, enabled while no      *)
(* sender is inside the section of the same queue.                         *)
(***************************************************************************)
\* Where a task goes on when itti_receive_msg() has returned.
AfterReceive(t) == IF t \in FdTask THEN "events" ELSE "call"

\* The queue is not empty: take the oldest message. No token is read.
Take(t) ==
    /\ queue_cond_lock[t] = Free
    /\ message_queue[t] # <<>>
    /\ message_queue' = [message_queue EXCEPT ![t] = Tail(@)]
    /\ received' = [received EXCEPT ![t] = Append(@, Head(message_queue[t]))]
    /\ rpc' = [rpc EXCEPT ![t] = AfterReceive(t)]
    /\ UNCHANGED <<sem_fd, sendVars>>

ReceiveTake(t) == rpc[t] = "call" /\ Take(t)

\* The queue is empty: release the mutex and sleep in epoll_wait().
ReceiveSleep(t) ==
    /\ rpc[t] = "call"
    /\ queue_cond_lock[t] = Free
    /\ message_queue[t] = <<>>
    /\ rpc' = [rpc EXCEPT ![t] = "wait"]
    /\ UNCHANGED <<message_queue, sem_fd, received, sendVars>>

\* Mutant of WaitToken: the eventfd is read whether it has a token or not.
BugWaitRead(t) ==
    /\ rpc[t] \in {"wait", "eventsWait"}
    /\ sem_fd' = [sem_fd EXCEPT ![t] = @ - 1]
    /\ rpc' = [rpc EXCEPT ![t] = IF @ = "wait" THEN "relock" ELSE "call"]
    /\ UNCHANGED <<message_queue, received, sendVars>>

\* Mutant of WaitToken: the eventfd was made without EFD_SEMAPHORE, so that a
\* read takes all tokens.
BugWaitDrain(t) ==
    /\ rpc[t] \in {"wait", "eventsWait"}
    /\ sem_fd[t] > 0
    /\ sem_fd' = [sem_fd EXCEPT ![t] = 0]
    /\ rpc' = [rpc EXCEPT ![t] = IF @ = "wait" THEN "relock" ELSE "call"]
    /\ UNCHANGED <<message_queue, received, sendVars>>

\* epoll_wait() reports the eventfd: read one token from it, without the mutex.
WaitToken(t) ==
    /\ rpc[t] \in {"wait", "eventsWait"}
    /\ sem_fd[t] > 0
    /\ sem_fd' = [sem_fd EXCEPT ![t] = @ - 1]
    /\ rpc' = [rpc EXCEPT ![t] = IF @ = "wait" THEN "relock" ELSE "call"]
    /\ UNCHANGED <<message_queue, received, sendVars>>

\* epoll_wait() reports other descriptors only.
WaitOther(t) ==
    /\ t \in FdTask
    /\ rpc[t] \in {"wait", "eventsWait"}
    /\ rpc' = [rpc EXCEPT ![t] = IF @ = "wait" THEN "relock" ELSE "call"]
    /\ UNCHANGED <<message_queue, sem_fd, received, sendVars>>

RelockTake(t) == rpc[t] = "relock" /\ Take(t)

\* Woken up and the queue is empty: a task with no other descriptor goes back
\* to sleep, one that has others returns with no message.
RelockEmpty(t) ==
    /\ rpc[t] = "relock"
    /\ queue_cond_lock[t] = Free
    /\ message_queue[t] = <<>>
    /\ rpc' = [rpc EXCEPT ![t] = IF t \in FdTask THEN AfterReceive(t) ELSE "wait"]
    /\ UNCHANGED <<message_queue, sem_fd, received, sendVars>>

\* itti_get_events(): takes the mutex, releases it and sleeps, whatever the
\* queue holds.
GetEvents(t) ==
    /\ rpc[t] = "events"
    /\ queue_cond_lock[t] = Free
    /\ rpc' = [rpc EXCEPT ![t] = "eventsWait"]
    /\ UNCHANGED <<message_queue, sem_fd, received, sendVars>>

\* itti_poll_msg(): take the oldest message if there is one, do not sleep.
PollMsg(t) ==
    /\ rpc[t] = "call"
    /\ queue_cond_lock[t] = Free
    /\ message_queue[t] # <<>>
    /\ message_queue' = [message_queue EXCEPT ![t] = Tail(@)]
    /\ received' = [received EXCEPT ![t] = Append(@, Head(message_queue[t]))]
    /\ UNCHANGED <<sem_fd, rpc, sendVars>>
-----------------------------------------------------------------------------
SenderStep(s) == SendPost(s) \/ CopyInsert(s) \/ CopyPost(s)

TaskStep(t) ==
    \/ ReceiveTake(t) \/ ReceiveSleep(t) \/ WaitToken(t)
    \/ RelockTake(t) \/ RelockEmpty(t) \/ GetEvents(t)

Next ==
    \/ \E s \in Sender : \/ SenderStep(s)
                         \/ \E t \in Task \ {TASK_ICM}, id \in MessagesIds : SendInsert(s, t, id)
    \/ \E t \in Task : TaskStep(t) \/ WaitOther(t) \/ PollMsg(t)

Spec == Init /\ [][Next]_vars

(***************************************************************************)
(* A sender that has begun a call finishes it and a task whose next step   *)
(* is possible takes it.  Nothing is assumed of new messages, of the other *)
(* file descriptors or of the mutex: each of its sections is finite.       *)
(***************************************************************************)
Fairness ==
    /\ \A s \in Sender : WF_vars(SenderStep(s))
    /\ \A t \in Task : WF_vars(TaskStep(t))

FairSpec == Spec /\ Fairness
-----------------------------------------------------------------------------
(***************************************************************************)
(* Properties.                                                             *)
(***************************************************************************)
Asleep(t) == rpc[t] \in {"wait", "eventsWait"}

\* Every variable has its type.
TypeOK ==
    /\ message_queue \in [Task -> Seq(Message)]
    /\ sem_fd \in [Task -> Nat]
    /\ queue_cond_lock \in [Task -> Sender \cup {Free}]
    /\ spc \in [Sender -> {"idle", "post", "copy", "copyPost"}]
    /\ sending \in [Sender -> [dest : Task, msg : Message \cup {<<>>}]]
    /\ \A s \in Sender : spc[s] # "idle" => sending[s].msg # <<>>
    /\ nsent \in [Sender -> 0..MaxSend]
    /\ rpc \in [Task -> {"call", "wait", "relock", "events", "eventsWait"}]
    /\ received \in [Task -> Seq(Message)]

\* A task that sleeps in epoll_wait() while its queue is not empty has a token
\* to wake it, or a sender is about to write one: no wake-up is lost although
\* messages are taken without reading their token, and tokens are read
\* outside the mutex (intertask_interface.cpp:93-134, 209-321).
NoLostWakeup ==
    \A t \in Task : Asleep(t) /\ message_queue[t] # <<>> =>
        sem_fd[t] > 0 \/ queue_cond_lock[t] # Free

\* All messages ever put into t's queue, in the order in which t gets them.
Log(t) == received[t] \o message_queue[t]

\* A task gets the messages of one sender in the order of the calls and each
\* one once, and so does the ICM task with the copies, although the mutexes
\* are free between an original and its copy (:136-185).
SenderOrder ==
    \A t \in Task : \A i, j \in 1..Len(Log(t)) :
        i < j /\ Log(t)[i].origin = Log(t)[j].origin => Log(t)[i].n < Log(t)[j].n

\* When a call of itti_send_msg_to_task() has returned, the ICM task gets or
\* has got the message, unless it is a RRC_SUBFRAME_PROCESS (:163-179).
CopiedToIcm ==
    \A t \in Task : \A i \in 1..Len(Log(t)) : LET m == Log(t)[i] IN
        spc[m.origin] = "idle" /\ m.id # "RRC_SUBFRAME_PROCESS" =>
            \E j \in 1..Len(Log(TASK_ICM)) : Log(TASK_ICM)[j] = m

\* A message in a queue is received: the task that owns the queue never stops
\* taking messages from it.
Delivered == \A t \in Task : message_queue[t] # <<>> ~> message_queue[t] = <<>>
=============================================================================
