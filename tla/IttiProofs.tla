----------------------------- MODULE IttiProofs -----------------------------
(***************************************************************************)
(* Proofs about Itti, for any number of tasks, senders and messages.       *)
(***************************************************************************)
EXTENDS Itti, TLAPS

LEMMA TypeInit == Init => TypeOK
  BY TaskAssumption, SenderAssumption DEF Init, TypeOK

\* Putting a message into a queue keeps the types of the queue and the mutex.
LEMMA InsertType ==
  ASSUME TypeOK, NEW s \in Sender, NEW t \in Task, NEW m \in Message, Insert(s, t, m)
  PROVE  /\ message_queue' \in [Task -> Seq(Message)]
         /\ queue_cond_lock' \in [Task -> Sender \cup {Free}]
  BY DEF TypeOK, Insert

LEMMA PostType ==
  ASSUME TypeOK, NEW t \in Task, Post(t)
  PROVE  sem_fd' \in [Task -> Nat] /\ queue_cond_lock' \in [Task -> Sender \cup {Free}]
  BY DEF TypeOK, Post

LEMMA TakeType ==
  ASSUME TypeOK, NEW t \in Task, message_queue[t] # <<>>,
         message_queue' = [message_queue EXCEPT ![t] = Tail(@)],
         received' = [received EXCEPT ![t] = Append(@, Head(message_queue[t]))]
  PROVE  message_queue' \in [Task -> Seq(Message)] /\ received' \in [Task -> Seq(Message)]
  <1>1. message_queue[t] \in Seq(Message) /\ received[t] \in Seq(Message)
    BY DEF TypeOK
  <1>2. Head(message_queue[t]) \in Message /\ Tail(message_queue[t]) \in Seq(Message)
    BY <1>1
  <1> QED
    BY <1>1, <1>2 DEF TypeOK

LEMMA TypeStep == TypeOK /\ [Next]_vars => TypeOK'
  <1> SUFFICES ASSUME TypeOK, [Next]_vars PROVE TypeOK'
    OBVIOUS
  <1> USE TaskAssumption, SenderAssumption DEF sendVars
  <1>1. ASSUME NEW s \in Sender, NEW t \in Task, NEW id \in MessagesIds, SendInsert(s, t, id)
        PROVE  TypeOK'
    <2> DEFINE m == [origin |-> s, n |-> nsent[s] + 1, id |-> id]
    <2>1. nsent[s] + 1 \in 1..MaxSend
      BY <1>1, SMTT(60) DEF SendInsert, TypeOK
    <2>2. m \in Message /\ m # <<>>
      BY <2>1 DEF Message
    <2>3. Insert(s, t, m) /\ sending' = [sending EXCEPT ![s] = [dest |-> t, msg |-> m]]
      BY <1>1 DEF SendInsert
    <2>4. sending' \in [Sender -> [dest : Task, msg : Message \cup {<<>>}]]
      BY <2>2, <2>3 DEF TypeOK
    <2>5. \A u \in Sender : spc'[u] # "idle" => sending'[u].msg # <<>>
      BY <1>1, <2>2, <2>3 DEF SendInsert, TypeOK
    <2>6. /\ message_queue' \in [Task -> Seq(Message)]
          /\ queue_cond_lock' \in [Task -> Sender \cup {Free}]
      BY <2>2, <2>3, InsertType
    <2>7. nsent' \in [Sender -> 0..MaxSend]
          /\ spc' \in [Sender -> {"idle", "post", "copy", "copyPost"}]
      BY <1>1, <2>1, SMTT(60) DEF SendInsert, TypeOK
    <2> QED
      BY <1>1, <2>4, <2>5, <2>6, <2>7, Zenon DEF SendInsert, TypeOK
  <1>2. ASSUME NEW s \in Sender, SendPost(s) PROVE TypeOK'
    <2>1. sending[s].dest \in Task
      BY DEF TypeOK
    <2>2. sem_fd' \in [Task -> Nat] /\ queue_cond_lock' \in [Task -> Sender \cup {Free}]
      BY <1>2, <2>1, PostType DEF SendPost
    <2> QED
      BY <1>2, <2>2, Zenon DEF SendPost, TypeOK
  <1>3. ASSUME NEW s \in Sender, CopyInsert(s) PROVE TypeOK'
    <2>1. sending[s].msg \in Message
      BY <1>3 DEF CopyInsert, TypeOK
    <2>2. /\ message_queue' \in [Task -> Seq(Message)]
          /\ queue_cond_lock' \in [Task -> Sender \cup {Free}]
      BY <1>3, <2>1, InsertType DEF CopyInsert
    <2> QED
      BY <1>3, <2>2, Zenon DEF CopyInsert, TypeOK
  <1>4. ASSUME NEW s \in Sender, CopyPost(s) PROVE TypeOK'
    <2>1. sem_fd' \in [Task -> Nat] /\ queue_cond_lock' \in [Task -> Sender \cup {Free}]
      BY <1>4, PostType DEF CopyPost
    <2> QED
      BY <1>4, <2>1, Zenon DEF CopyPost, TypeOK
  <1>5. ASSUME NEW t \in Task, ReceiveTake(t) \/ RelockTake(t) \/ PollMsg(t) PROVE TypeOK'
    <2>1. message_queue' \in [Task -> Seq(Message)] /\ received' \in [Task -> Seq(Message)]
      BY <1>5, TakeType DEF ReceiveTake, RelockTake, PollMsg, Take
    <2>2. rpc' \in [Task -> {"call", "wait", "relock", "events", "eventsWait"}]
      BY <1>5, SMTT(60) DEF ReceiveTake, RelockTake, PollMsg, Take, AfterReceive, TypeOK
    <2>3. UNCHANGED <<sem_fd, sendVars>>
      BY <1>5 DEF ReceiveTake, RelockTake, PollMsg, Take
    <2> QED
      BY <2>1, <2>2, <2>3, Zenon DEF TypeOK
  <1>6. ASSUME NEW t \in Task, ReceiveSleep(t) \/ RelockEmpty(t) \/ GetEvents(t) PROVE TypeOK'
    BY <1>6, Zenon DEF ReceiveSleep, RelockEmpty, GetEvents, AfterReceive, TypeOK
  <1>7. ASSUME NEW t \in Task, WaitToken(t) \/ WaitOther(t) PROVE TypeOK'
    <2>1. CASE WaitToken(t)
      <3>1. sem_fd[t] - 1 \in Nat
        BY <2>1 DEF WaitToken, TypeOK
      <3>2. sem_fd' \in [Task -> Nat]
        BY <2>1, <3>1 DEF WaitToken, TypeOK
      <3> QED
        BY <2>1, <3>2, Zenon DEF WaitToken, TypeOK
    <2>2. CASE WaitOther(t)
      BY <2>2, Zenon DEF WaitOther, TypeOK
    <2> QED
      BY <1>7, <2>1, <2>2
  <1>8. CASE UNCHANGED vars
    BY <1>8, Zenon DEF vars, TypeOK
  <1> QED
    BY <1>1, <1>2, <1>3, <1>4, <1>5, <1>6, <1>7, <1>8 DEF Next, SenderStep, TaskStep

\* The types of Itti are invariant.
THEOREM TypeCorrect == Spec => []TypeOK
  BY TypeInit, TypeStep, PTL DEF Spec
-----------------------------------------------------------------------------
(***************************************************************************)
(* No lost wake-up.  NoLostWakeup is not inductive: it says nothing of the *)
(* tasks that are awake, and a task may take the tokens of messages it has *)
(* not taken yet.  What is: the messages of a queue never outnumber the    *)
(* tokens, the one a sender inside the mutex is about to write, and one    *)
(* more that the task has read since it last looked at its queue.          *)
(***************************************************************************)
\* The token a sender that holds t's mutex still has to write.
Coming(t) == IF queue_cond_lock[t] = Free THEN 0 ELSE 1

\* The token a task that is awake may have read before it took a message.
ReadAhead(t) == IF rpc[t] \in {"call", "relock"} THEN 1 ELSE 0

TokensCover ==
    \A t \in Task : Len(message_queue[t]) <= sem_fd[t] + Coming(t) + ReadAhead(t)

\* A sender holds a mutex exactly between insertion and token.
Holds(s, t) == \/ spc[s] = "post" /\ sending[s].dest = t
               \/ spc[s] = "copyPost" /\ t = TASK_ICM
LockHeld == \A s \in Sender, t \in Task : Holds(s, t) => queue_cond_lock[t] = s

WakeInv == TokensCover /\ LockHeld

LEMMA WakeInit == Init => WakeInv
  BY TaskAssumption DEF Init, WakeInv, TokensCover, LockHeld, Holds, Coming, ReadAhead

LEMMA WakeInsert ==
  ASSUME TypeOK, TokensCover, NEW s \in Sender, NEW t \in Task, NEW m \in Message,
         Insert(s, t, m), UNCHANGED <<sem_fd, rpc>>
  PROVE  TokensCover'
  <1> SUFFICES ASSUME NEW u \in Task
               PROVE  (Len(message_queue[u]) <= sem_fd[u] + Coming(u) + ReadAhead(u))'
    BY DEF TokensCover
  <1>1. Len(message_queue[u]) <= sem_fd[u] + Coming(u) + ReadAhead(u)
        /\ Len(message_queue[u]) \in Nat /\ sem_fd[u] \in Nat
    BY DEF TokensCover, TypeOK
  <1>2. CASE u = t
    <2>1. Len(message_queue'[t]) = Len(message_queue[t]) + 1
      BY DEF Insert, TypeOK
    <2>2. Coming(t) = 0 /\ Coming(t)' = 1
      BY SenderAssumption DEF Insert, Coming, TypeOK
    <2> QED
      BY <1>1, <1>2, <2>1, <2>2 DEF ReadAhead
  <1>3. CASE u # t
    BY <1>1, <1>3 DEF Insert, Coming, ReadAhead, TypeOK
  <1> QED
    BY <1>2, <1>3

LEMMA WakePost ==
  ASSUME TypeOK, TokensCover, NEW t \in Task, Post(t), queue_cond_lock[t] # Free,
         UNCHANGED <<message_queue, rpc>>
  PROVE  TokensCover'
  BY SMTT(60) DEF TypeOK, TokensCover, Post, Coming, ReadAhead

\* Taking a message pays back the token that was read ahead.
LEMMA WakeTake ==
  ASSUME TypeOK, TokensCover, NEW t \in Task, message_queue[t] # <<>>,
         message_queue' = [message_queue EXCEPT ![t] = Tail(@)],
         rpc[t] \in {"call", "relock"},
         \A u \in Task \ {t} : rpc'[u] = rpc[u],
         UNCHANGED <<sem_fd, queue_cond_lock>>
  PROVE  TokensCover'
  <1> SUFFICES ASSUME NEW u \in Task
               PROVE  (Len(message_queue[u]) <= sem_fd[u] + Coming(u) + ReadAhead(u))'
    BY DEF TokensCover
  <1>1. Len(message_queue[u]) <= sem_fd[u] + Coming(u) + ReadAhead(u)
        /\ Len(message_queue[u]) \in Nat /\ sem_fd[u] \in Nat
    BY DEF TokensCover, TypeOK
  <1>2. CASE u = t
    <2>1. Len(message_queue'[t]) = Len(message_queue[t]) - 1
      BY DEF TypeOK
    <2> QED
      BY <1>1, <1>2, <2>1 DEF Coming, ReadAhead
  <1>3. CASE u # t
    BY <1>1, <1>3 DEF Coming, ReadAhead, TypeOK
  <1> QED
    BY <1>2, <1>3

\* A step of task t that leaves all queues alone has to answer for t only.
LEMMA WakeMove ==
  ASSUME TypeOK, TokensCover, NEW t \in Task,
         \A u \in Task \ {t} : rpc'[u] = rpc[u] /\ sem_fd'[u] = sem_fd[u],
         UNCHANGED <<message_queue, queue_cond_lock>>,
         \/ Len(message_queue[t]) = 0 /\ sem_fd'[t] \in Nat
         \/ Len(message_queue[t]) <= sem_fd'[t] + Coming(t) + ReadAhead(t)'
  PROVE  TokensCover'
  <1> SUFFICES ASSUME NEW u \in Task
               PROVE  (Len(message_queue[u]) <= sem_fd[u] + Coming(u) + ReadAhead(u))'
    BY DEF TokensCover
  <1>1. CASE u = t
    BY <1>1 DEF Coming, ReadAhead
  <1>2. CASE u # t
    BY <1>2 DEF TokensCover, Coming, ReadAhead
  <1> QED
    BY <1>1, <1>2

LEMMA WakeStep == TypeOK /\ WakeInv /\ [Next]_vars => WakeInv'
  <1> SUFFICES ASSUME TypeOK, WakeInv, [Next]_vars PROVE WakeInv'
    OBVIOUS
  <1> USE TaskAssumption, SenderAssumption DEF WakeInv, sendVars
  <1>1. ASSUME NEW s \in Sender, NEW t \in Task, NEW id \in MessagesIds, SendInsert(s, t, id)
        PROVE  WakeInv'
    <2> DEFINE m == [origin |-> s, n |-> nsent[s] + 1, id |-> id]
    <2>1. m \in Message
      BY <1>1 DEF SendInsert, TypeOK, Message
    <2>2. TokensCover'
      BY <1>1, <2>1, WakeInsert DEF SendInsert
    <2>3. ASSUME NEW u \in Sender, NEW v \in Task, Holds(u, v)'
          PROVE  queue_cond_lock'[v] = u
      <3>1. queue_cond_lock' = [queue_cond_lock EXCEPT ![t] = s]
            /\ queue_cond_lock \in [Task -> Sender \cup {Free}]
            /\ queue_cond_lock[t] = Free
        BY <1>1 DEF SendInsert, Insert, TypeOK
      <3>2. CASE u = s
        <4>1. spc'[s] = "post" /\ sending'[s].dest = t
          BY <1>1 DEF SendInsert, TypeOK
        <4> QED
          BY <2>3, <3>1, <3>2, <4>1 DEF Holds
      <3>3. CASE u # s
        <4>1. Holds(u, v)
          BY <1>1, <2>3, <3>3 DEF SendInsert, Holds, TypeOK
        <4> QED
          BY <3>1, <4>1 DEF LockHeld
      <3> QED
        BY <3>2, <3>3
    <2>4. LockHeld'
      BY <2>3 DEF LockHeld
    <2> QED
      BY <2>2, <2>4
  <1>2. ASSUME NEW s \in Sender, SendPost(s) PROVE WakeInv'
    <2>1. sending[s].dest \in Task /\ queue_cond_lock[sending[s].dest] = s
      BY <1>2 DEF SendPost, TypeOK, LockHeld, Holds
    <2>2. TokensCover'
      BY <1>2, <2>1, WakePost DEF SendPost
    <2>3. LockHeld'
      BY <1>2, <2>1, SMTT(60) DEF SendPost, Post, LockHeld, Holds, TypeOK
    <2> QED
      BY <2>2, <2>3
  <1>3. ASSUME NEW s \in Sender, CopyInsert(s) PROVE WakeInv'
    <2>1. sending[s].msg \in Message
      BY <1>3 DEF CopyInsert, TypeOK
    <2>2. TokensCover'
      BY <1>3, <2>1, WakeInsert DEF CopyInsert
    <2>3. LockHeld'
      BY <1>3, SMTT(60) DEF CopyInsert, Insert, LockHeld, Holds, TypeOK
    <2> QED
      BY <2>2, <2>3
  <1>4. ASSUME NEW s \in Sender, CopyPost(s) PROVE WakeInv'
    <2>1. queue_cond_lock[TASK_ICM] = s
      BY <1>4 DEF CopyPost, LockHeld, Holds
    <2>2. TokensCover'
      BY <1>4, <2>1, WakePost DEF CopyPost
    <2>3. LockHeld'
      BY <1>4, <2>1 DEF CopyPost, Post, LockHeld, Holds, TypeOK
    <2> QED
      BY <2>2, <2>3
  <1>5. ASSUME NEW t \in Task, ReceiveTake(t) \/ RelockTake(t) \/ PollMsg(t) PROVE WakeInv'
    <2>1. TokensCover'
      BY <1>5, WakeTake, Zenon DEF ReceiveTake, RelockTake, PollMsg, Take, TypeOK
    <2>2. LockHeld'
      BY <1>5 DEF ReceiveTake, RelockTake, PollMsg, Take, LockHeld, Holds
    <2> QED
      BY <2>1, <2>2
  <1>6. ASSUME NEW t \in Task, ReceiveSleep(t) \/ RelockEmpty(t) PROVE WakeInv'
    <2>1. Len(message_queue[t]) = 0
      BY <1>6 DEF ReceiveSleep, RelockEmpty
    <2>2. TokensCover'
      BY <1>6, <2>1, WakeMove, Zenon DEF ReceiveSleep, RelockEmpty, TypeOK
    <2> QED
      BY <1>6, <2>2 DEF ReceiveSleep, RelockEmpty, LockHeld, Holds
  <1>7. ASSUME NEW t \in Task, WaitToken(t) PROVE WakeInv'
    <2>0. ReadAhead(t) = 0 /\ rpc'[t] \in {"call", "relock"}
      BY <1>7 DEF WaitToken, ReadAhead, TypeOK
    <2>1. Len(message_queue[t]) <= sem_fd[t] + Coming(t) + 0
      BY <2>0 DEF TokensCover
    <2>2. sem_fd'[t] = sem_fd[t] - 1 /\ \A u \in Task \ {t} : sem_fd'[u] = sem_fd[u]
      BY <1>7 DEF WaitToken, TypeOK
    <2>3. Len(message_queue[t]) \in Nat /\ sem_fd[t] \in Nat /\ Coming(t) \in {0, 1}
      BY DEF TypeOK, Coming
    <2>4. Len(message_queue[t]) <= sem_fd'[t] + Coming(t) + ReadAhead(t)'
      BY <2>0, <2>1, <2>2, <2>3 DEF ReadAhead
    <2>5. TokensCover'
      BY <1>7, <2>2, <2>4, WakeMove, Zenon DEF WaitToken, TypeOK
    <2> QED
      BY <1>7, <2>5 DEF WaitToken, LockHeld, Holds
  <1>9. ASSUME NEW t \in Task, WaitOther(t) \/ GetEvents(t) PROVE WakeInv'
    <2>0. ReadAhead(t) = 0
      BY <1>9 DEF WaitOther, GetEvents, ReadAhead
    <2>1. Len(message_queue[t]) <= sem_fd[t] + Coming(t) + 0
      BY <2>0 DEF TokensCover
    <2>2. Len(message_queue[t]) \in Nat /\ sem_fd[t] \in Nat /\ Coming(t) \in {0, 1}
      BY DEF TypeOK, Coming
    <2>3. Len(message_queue[t]) <= sem_fd'[t] + Coming(t) + ReadAhead(t)'
      BY <1>9, <2>1, <2>2 DEF WaitOther, GetEvents, ReadAhead
    <2>4. TokensCover'
      BY <1>9, <2>3, WakeMove, Zenon DEF WaitOther, GetEvents, TypeOK
    <2> QED
      BY <1>9, <2>4 DEF WaitOther, GetEvents, LockHeld, Holds
  <1>8. CASE UNCHANGED vars
    BY <1>8 DEF vars, TokensCover, LockHeld, Holds, Coming, ReadAhead
  <1> QED
    BY <1>1, <1>2, <1>3, <1>4, <1>5, <1>6, <1>7, <1>8, <1>9 DEF Next, SenderStep, TaskStep

\* No task sleeps on a queue that holds a message unless a token wakes it or
\* the sender inside the mutex is about to write one.
THEOREM WakeupCorrect == Spec => []NoLostWakeup
  <1>1. TypeOK /\ WakeInv => NoLostWakeup
    <2> SUFFICES ASSUME TypeOK, TokensCover, NEW t \in Task, Asleep(t),
                        message_queue[t] # <<>>, queue_cond_lock[t] = Free
                 PROVE  sem_fd[t] > 0
      BY DEF NoLostWakeup, WakeInv
    <2>1. Len(message_queue[t]) > 0 /\ sem_fd[t] \in Nat
      BY DEF TypeOK
    <2> QED
      BY <2>1 DEF TokensCover, Coming, ReadAhead, Asleep
  <1> QED
    BY <1>1, TypeInit, TypeStep, WakeInit, WakeStep, PTL DEF Spec
-----------------------------------------------------------------------------
(***************************************************************************)
(* Order and copies.  Log(t) only ever grows at its end, by the message of *)
(* the sender that holds t's mutex.  The order is inductive with a bound   *)
(* on the numbers in the logs: those of a sender are at most its count,    *)
(* and below it in ICM's log while the copy is still to come.  A message   *)
(* that is not in ICM's log yet is the one its sender is just sending.     *)
(***************************************************************************)
InIcm(log, m) == \E j \in 1..Len(log) : log[j] = m
CopyToCome(place) == place \in {"post", "copy"}

Numbered ==
  /\ \A s \in Sender : spc[s] # "idle" => sending[s].msg.origin = s /\ sending[s].msg.n = nsent[s]
  /\ \A t \in Task : \A i \in 1..Len(Log(t)) : Log(t)[i].n <= nsent[Log(t)[i].origin]
  /\ \A i \in 1..Len(Log(TASK_ICM)) :
        CopyToCome(spc[Log(TASK_ICM)[i].origin]) => Log(TASK_ICM)[i].n < nsent[Log(TASK_ICM)[i].origin]

Copied ==
  \A t \in Task : \A i \in 1..Len(Log(t)) :
      \/ Log(t)[i].id = "RRC_SUBFRAME_PROCESS"
      \/ InIcm(Log(TASK_ICM), Log(t)[i])
      \/ CopyToCome(spc[Log(t)[i].origin]) /\ sending[Log(t)[i].origin].msg = Log(t)[i]

OrderInv == Numbered /\ Copied /\ SenderOrder

LEMMA TakeLogSame ==
  ASSUME NEW S, NEW r \in Seq(S), NEW q \in Seq(S), q # <<>>
  PROVE  Append(r, Head(q)) \o Tail(q) = r \o q
  OBVIOUS

LEMMA InsertLogGrows ==
  \A S : \A r, q \in Seq(S) : \A m \in S : r \o Append(q, m) = Append(r \o q, m)
  OBVIOUS

LEMMA AppendFacts ==
  ASSUME NEW S, NEW q \in Seq(S), NEW x \in S
  PROVE  /\ Len(q) \in Nat /\ Len(Append(q, x)) = Len(q) + 1
         /\ \A i \in 1..Len(q) : Append(q, x)[i] = q[i]
         /\ Append(q, x)[Len(q) + 1] = x
  OBVIOUS

LEMMA LogType == ASSUME TypeOK PROVE \A t \in Task : Log(t) \in Seq(Message)
  BY DEF TypeOK, Log

\* A message is taken: no log changes.
LEMMA LogTake ==
  ASSUME TypeOK, NEW t \in Task, message_queue[t] # <<>>,
         message_queue' = [message_queue EXCEPT ![t] = Tail(@)],
         received' = [received EXCEPT ![t] = Append(@, Head(message_queue[t]))]
  PROVE  \A u \in Task : Log(u)' = Log(u)
  <1> SUFFICES ASSUME NEW u \in Task PROVE Log(u)' = Log(u)
    OBVIOUS
  <1>1. message_queue[t] \in Seq(Message) /\ received[t] \in Seq(Message)
    BY DEF TypeOK
  <1>2. CASE u = t
    <2>1. /\ message_queue'[t] = Tail(message_queue[t])
          /\ received'[t] = Append(received[t], Head(message_queue[t]))
      BY DEF TypeOK
    <2>2. Append(received[t], Head(message_queue[t])) \o Tail(message_queue[t])
              = received[t] \o message_queue[t]
      BY <1>1, TakeLogSame, Zenon
    <2> QED
      BY <1>2, <2>1, <2>2, Zenon DEF Log
  <1>3. CASE u # t
    BY <1>3, Zenon DEF TypeOK, Log
  <1> QED
    BY <1>2, <1>3

\* A message is put into t's queue: t's log grows by it.
LEMMA LogInsert ==
  ASSUME TypeOK, NEW s \in Sender, NEW t \in Task, NEW m \in Message, Insert(s, t, m),
         received' = received
  PROVE  /\ Len(Log(t)) \in Nat /\ Len(Log(t)') = Len(Log(t)) + 1 /\ Log(t)'[Len(Log(t)) + 1] = m
         /\ \A i \in 1..Len(Log(t)) : Log(t)'[i] = Log(t)[i]
         /\ \A u \in Task \ {t} : Log(u)' = Log(u)
  <1>1. message_queue[t] \in Seq(Message) /\ received[t] \in Seq(Message) /\ Log(t) \in Seq(Message)
    BY LogType, Zenon DEF TypeOK
  <1>2. message_queue'[t] = Append(message_queue[t], m)
    BY DEF TypeOK, Insert
  <1>3. received[t] \o Append(message_queue[t], m) = Append(received[t] \o message_queue[t], m)
    <2> DEFINE r == received[t]  q == message_queue[t]
    <2>1. r \in Seq(Message) /\ q \in Seq(Message) /\ m \in Message
      BY <1>1
    <2> HIDE DEF r, q
    <2>2. r \o Append(q, m) = Append(r \o q, m)
      BY <2>1, InsertLogGrows
    <2> QED
      BY <2>2 DEF r, q
  <1>4. Log(t)' = Append(Log(t), m)
    BY <1>2, <1>3, Zenon DEF Log
  <1>5. \A u \in Task \ {t} : Log(u)' = Log(u)
    BY Zenon DEF TypeOK, Insert, Log
  <1>6. /\ Len(Log(t)) \in Nat /\ Len(Append(Log(t), m)) = Len(Log(t)) + 1
        /\ Append(Log(t), m)[Len(Log(t)) + 1] = m
        /\ \A i \in 1..Len(Log(t)) : Append(Log(t), m)[i] = Log(t)[i]
    BY <1>1, AppendFacts
  <1> QED
    BY <1>4, <1>5, <1>6, Zenon

\* The entries of a log are messages, of senders.
LEMMA Entries ==
  ASSUME TypeOK, NEW t \in Task, NEW i \in 1..Len(Log(t))
  PROVE  /\ Log(t)[i] \in Message /\ Log(t)[i].origin \in Sender /\ Log(t)[i].n \in Nat
         /\ nsent[Log(t)[i].origin] \in Nat
  <1>1. Log(t)[i] \in Message
    BY LogType
  <1> QED
    BY <1>1, SenderAssumption, SMTT(60) DEF Message, TypeOK

LEMMA OrderInit == Init => OrderInv
  <1> SUFFICES ASSUME Init PROVE OrderInv
    OBVIOUS
  <1>1. \A t \in Task : Len(Log(t)) = 0
    BY SMTT(60) DEF Init, Log
  <1> QED
    BY <1>1, TaskAssumption DEF Init, OrderInv, Numbered, Copied, SenderOrder

\* A step that leaves the logs alone, and ends a call before its copy only if
\* there is none to make.
LEMMA OrderSame ==
  ASSUME TypeOK, OrderInv, \A t \in Task : Log(t)' = Log(t), UNCHANGED <<sending, nsent>>,
         \A s \in Sender : /\ spc'[s] # "idle" => spc[s] # "idle"
                           /\ CopyToCome(spc'[s]) => CopyToCome(spc[s])
                           /\ CopyToCome(spc[s]) /\ sending[s].msg.id # "RRC_SUBFRAME_PROCESS"
                                 => CopyToCome(spc'[s])
  PROVE  OrderInv'
  <1> USE TaskAssumption
  <1>1. Numbered'
    BY Entries, Zenon DEF OrderInv, Numbered
  <1>2. \A m : InIcm(Log(TASK_ICM)', m) <=> InIcm(Log(TASK_ICM), m)
    BY DEF InIcm
  <1>3. Copied'
    BY <1>2, Entries, SMTT(60) DEF OrderInv, Copied
  <1>4. SenderOrder'
    BY DEF OrderInv, SenderOrder
  <1> QED
    BY <1>1, <1>3, <1>4 DEF OrderInv

\* A step that adds m to the log of t, with a number above those of its sender.
LEMMA OrderGrows ==
  ASSUME TypeOK, OrderInv, NEW s \in Sender, NEW t \in Task, NEW m \in Message, Insert(s, t, m),
         received' = received, m.origin = s,
         \A i \in 1..Len(Log(t)) : Log(t)[i].origin = s => Log(t)[i].n < m.n
  PROVE  SenderOrder'
  <1> SUFFICES ASSUME NEW u \in Task, NEW i \in 1..Len(Log(u)'), NEW j \in 1..Len(Log(u)'),
                      i < j, Log(u)'[i].origin = Log(u)'[j].origin
               PROVE  Log(u)'[i].n < Log(u)'[j].n
    BY DEF SenderOrder
  <1>1. CASE u # t
    BY <1>1, LogInsert DEF OrderInv, SenderOrder
  <1>2. CASE u = t
    <2> DEFINE n == Len(Log(t))
    <2>1. /\ n \in Nat /\ i \in 1..(n + 1) /\ j \in 1..(n + 1) /\ Log(t)'[n + 1] = m
          /\ \A k \in 1..n : Log(t)'[k] = Log(t)[k]
      BY <1>2, LogInsert
    <2>2. i \in 1..n
      BY <2>1
    <2>3. CASE j = n + 1
      BY <1>2, <2>1, <2>2, <2>3
    <2>4. CASE j \in 1..n
      BY <1>2, <2>1, <2>2, <2>4 DEF OrderInv, SenderOrder
    <2> QED
      BY <2>1, <2>3, <2>4
  <1> QED
    BY <1>1, <1>2

LEMMA OrderStep == TypeOK /\ OrderInv /\ [Next]_vars => OrderInv'
  <1> SUFFICES ASSUME TypeOK, OrderInv, [Next]_vars PROVE OrderInv'
    OBVIOUS
  <1> USE TaskAssumption, SenderAssumption DEF sendVars
  <1>1. ASSUME NEW s \in Sender, NEW t \in Task \ {TASK_ICM}, NEW id \in MessagesIds,
               SendInsert(s, t, id)
        PROVE  OrderInv'
    <2> DEFINE m == [origin |-> s, n |-> nsent[s] + 1, id |-> id]
               n == Len(Log(t))
    <2>1. nsent[s] \in Nat /\ m \in Message
      <3>1. nsent[s] \in 0..MaxSend /\ nsent[s] < MaxSend
        BY <1>1, Zenon DEF SendInsert, TypeOK
      <3>2. MaxSend \in Nat
        BY SenderAssumption
      <3>3. nsent[s] \in Nat /\ nsent[s] + 1 \in 1..MaxSend
        BY <3>1, <3>2
      <3> QED
        BY <1>1, <3>3 DEF Message
    <2>2. m.origin = s /\ m.n = nsent[s] + 1
      OBVIOUS
    <2>3. /\ Insert(s, t, m) /\ received' = received /\ spc[s] = "idle"
          /\ spc' = [spc EXCEPT ![s] = "post"] /\ nsent' = [nsent EXCEPT ![s] = nsent[s] + 1]
          /\ sending' = [sending EXCEPT ![s] = [dest |-> t, msg |-> m]]
      BY <1>1, Zenon DEF SendInsert
    <2>4. /\ \A u \in Sender \ {s} : spc'[u] = spc[u] /\ nsent'[u] = nsent[u] /\ sending'[u] = sending[u]
          /\ spc'[s] = "post" /\ nsent'[s] = nsent[s] + 1 /\ sending'[s].msg = m
      BY <2>3 DEF TypeOK
    <2> HIDE DEF m
    <2>5. /\ n \in Nat /\ Len(Log(t)') = n + 1 /\ Log(t)'[n + 1] = m
          /\ \A i \in 1..n : Log(t)'[i] = Log(t)[i]
          /\ \A u \in Task \ {t} : Log(u)' = Log(u)
      BY <2>1, <2>3, LogInsert
    <2> HIDE DEF n
    \* every entry of a log is an old one or the new one
    <2>6. ASSUME NEW u \in Task, NEW i \in 1..Len(Log(u)')
          PROVE  \/ u = t /\ Log(u)'[i] = m
                 \/ i \in 1..Len(Log(u)) /\ Log(u)'[i] = Log(u)[i]
      BY <2>5, SMTT(60) DEF n
    <2>7. Numbered'
      <3>1. \A u \in Sender : spc'[u] # "idle" => sending'[u].msg.origin = u /\ sending'[u].msg.n = nsent'[u]
        BY <2>2, <2>4, SMTT(60) DEF OrderInv, Numbered
      <3>2. ASSUME NEW u \in Task, NEW i \in 1..Len(Log(u)')
            PROVE  Log(u)'[i].n <= nsent'[Log(u)'[i].origin]
        <4>1. CASE Log(u)'[i] = m
          BY <2>1, <2>2, <2>4, <4>1
        <4>2. CASE i \in 1..Len(Log(u)) /\ Log(u)'[i] = Log(u)[i]
          <5>1. Log(u)[i].n <= nsent[Log(u)[i].origin] /\ Log(u)[i].n \in Nat
                /\ Log(u)[i].origin \in Sender
            BY <4>2, Entries, Zenon DEF OrderInv, Numbered
          <5> QED
            BY <2>1, <2>4, <4>2, <5>1, SMTT(60)
        <4> QED
          BY <2>6, <4>1, <4>2
      <3>3. ASSUME NEW i \in 1..Len(Log(TASK_ICM)'), CopyToCome(spc'[Log(TASK_ICM)'[i].origin])
            PROVE  Log(TASK_ICM)'[i].n < nsent'[Log(TASK_ICM)'[i].origin]
        <4> DEFINE e == Log(TASK_ICM)[i]
        <4>1. i \in 1..Len(Log(TASK_ICM)) /\ Log(TASK_ICM)'[i] = e
          BY <2>5
        <4>2. e.n <= nsent[e.origin] /\ e.n \in Nat /\ e.origin \in Sender
          BY <4>1, Entries, Zenon DEF OrderInv, Numbered
        <4>3. CASE e.origin = s
          BY <2>1, <2>4, <4>1, <4>2, <4>3, SMTT(60)
        <4>4. CASE e.origin # s
          <5>1. CopyToCome(spc[e.origin])
            BY <2>4, <3>3, <4>1, <4>2, <4>4, Zenon DEF CopyToCome
          <5> QED
            BY <2>4, <4>1, <4>2, <4>4, <5>1, Zenon DEF OrderInv, Numbered
        <4> QED
          BY <4>3, <4>4
      <3> QED
        BY <3>1, <3>2, <3>3 DEF Numbered
    <2>8. Copied'
      <3> SUFFICES ASSUME NEW u \in Task, NEW i \in 1..Len(Log(u)')
                   PROVE  \/ Log(u)'[i].id = "RRC_SUBFRAME_PROCESS"
                          \/ InIcm(Log(TASK_ICM)', Log(u)'[i])
                          \/ /\ CopyToCome(spc'[Log(u)'[i].origin])
                             /\ sending'[Log(u)'[i].origin].msg = Log(u)'[i]
        BY DEF Copied
      <3>1. CASE Log(u)'[i] = m
        BY <2>2, <2>4, <3>1, Zenon DEF CopyToCome
      <3>2. CASE i \in 1..Len(Log(u)) /\ Log(u)'[i] = Log(u)[i]
        <4> DEFINE e == Log(u)[i]
        <4>1. e.origin \in Sender
          BY <3>2, Entries
        <4>2. InIcm(Log(TASK_ICM)', e) <=> InIcm(Log(TASK_ICM), e)
          BY <2>5 DEF InIcm
        <4>3. CopyToCome(spc[e.origin]) => e.origin # s
          BY <2>3, Zenon DEF CopyToCome
        <4> QED
          BY <2>4, <3>2, <4>1, <4>2, <4>3, SMTT(60) DEF OrderInv, Copied, CopyToCome
      <3> QED
        BY <2>6, <3>1, <3>2, SMTT(60)
    <2>9. SenderOrder'
      <3>1. \A i \in 1..Len(Log(t)) : Log(t)[i].origin = s => Log(t)[i].n < m.n
        BY <2>1, <2>2, Entries DEF OrderInv, Numbered
      <3> QED
        BY <2>1, <2>2, <2>3, <3>1, OrderGrows, Zenon
    <2> QED
      BY <2>7, <2>8, <2>9, Zenon DEF OrderInv
  <1>2. ASSUME NEW s \in Sender, CopyInsert(s) PROVE OrderInv'
    <2> DEFINE m == sending[s].msg
               n == Len(Log(TASK_ICM))
    <2>1. m \in Message /\ m.origin = s /\ m.n = nsent[s] /\ nsent[s] \in Nat
      BY <1>2 DEF CopyInsert, TypeOK, OrderInv, Numbered
    <2>2. /\ Insert(s, TASK_ICM, m) /\ received' = received /\ spc[s] = "copy"
          /\ spc' = [spc EXCEPT ![s] = "copyPost"] /\ nsent' = nsent /\ sending' = sending
      BY <1>2 DEF CopyInsert
    <2>3. spc'[s] = "copyPost" /\ \A u \in Sender \ {s} : spc'[u] = spc[u]
      BY <2>2, Zenon DEF TypeOK
    <2> HIDE DEF m
    <2>4. /\ n \in Nat /\ Len(Log(TASK_ICM)') = n + 1 /\ Log(TASK_ICM)'[n + 1] = m
          /\ \A i \in 1..n : Log(TASK_ICM)'[i] = Log(TASK_ICM)[i]
          /\ \A u \in Task \ {TASK_ICM} : Log(u)' = Log(u)
      BY <2>1, <2>2, LogInsert
    <2> HIDE DEF n
    <2>5. ASSUME NEW u \in Task, NEW i \in 1..Len(Log(u)')
          PROVE  \/ Log(u)'[i] = m
                 \/ i \in 1..Len(Log(u)) /\ Log(u)'[i] = Log(u)[i]
      BY <2>4 DEF n
    <2>6. Numbered'
      <3>1. \A u \in Sender : spc'[u] # "idle" => sending'[u].msg.origin = u /\ sending'[u].msg.n = nsent'[u]
        BY <2>1, <2>2, <2>3, Zenon DEF OrderInv, Numbered, m
      <3>2. ASSUME NEW u \in Task, NEW i \in 1..Len(Log(u)')
            PROVE  Log(u)'[i].n <= nsent'[Log(u)'[i].origin]
        <4>1. CASE Log(u)'[i] = m
          <5>1. Log(u)'[i].n = nsent'[Log(u)'[i].origin]
            BY <2>1, <2>2, <4>1, Zenon
          <5>2. nsent'[Log(u)'[i].origin] \in Nat
            BY <2>1, <2>2, <4>1, Zenon
          <5> QED
            BY <5>1, <5>2
        <4>2. CASE i \in 1..Len(Log(u)) /\ Log(u)'[i] = Log(u)[i]
          BY <2>2, <4>2, Zenon DEF OrderInv, Numbered
        <4> QED
          BY <2>5, <4>1, <4>2, Zenon
      <3>3. ASSUME NEW i \in 1..Len(Log(TASK_ICM)'), CopyToCome(spc'[Log(TASK_ICM)'[i].origin])
            PROVE  Log(TASK_ICM)'[i].n < nsent'[Log(TASK_ICM)'[i].origin]
        <4>1. Log(TASK_ICM)'[i] # m
          BY <2>1, <2>3, <3>3 DEF CopyToCome
        <4>2. i \in 1..Len(Log(TASK_ICM)) /\ Log(TASK_ICM)'[i] = Log(TASK_ICM)[i]
          BY <2>5, <4>1, Zenon
        <4>3. CopyToCome(spc[Log(TASK_ICM)[i].origin])
          BY <2>3, <3>3, <4>2, Entries DEF CopyToCome
        <4> QED
          BY <2>2, <4>2, <4>3, Zenon DEF OrderInv, Numbered
      <3> QED
        BY <3>1, <3>2, <3>3, Zenon DEF Numbered
    <2>7. \A e : InIcm(Log(TASK_ICM), e) \/ e = m => InIcm(Log(TASK_ICM)', e)
      <3>1. /\ n + 1 \in 1..Len(Log(TASK_ICM)')
            /\ \A j \in 1..n : j \in 1..Len(Log(TASK_ICM)')
        BY <2>4, SMTT(60)
      <3> QED
        BY <2>4, <3>1 DEF InIcm, n
    <2>8. Copied'
      <3> SUFFICES ASSUME NEW u \in Task, NEW i \in 1..Len(Log(u)')
                   PROVE  \/ Log(u)'[i].id = "RRC_SUBFRAME_PROCESS"
                          \/ InIcm(Log(TASK_ICM)', Log(u)'[i])
                          \/ /\ CopyToCome(spc'[Log(u)'[i].origin])
                             /\ sending'[Log(u)'[i].origin].msg = Log(u)'[i]
        BY DEF Copied
      <3>1. CASE Log(u)'[i] = m
        BY <2>7, <3>1, Zenon
      <3>2. CASE i \in 1..Len(Log(u)) /\ Log(u)'[i] = Log(u)[i]
        <4> DEFINE e == Log(u)[i]
        <4>1. e.origin \in Sender
          BY <3>2, Entries, Zenon
        <4>2. CASE e.origin = s
          BY <2>7, <3>2, <4>2, Zenon DEF OrderInv, Copied, m
        <4>3. CASE e.origin # s
          BY <2>2, <2>3, <2>7, <3>2, <4>1, <4>3, SMTT(60) DEF OrderInv, Copied, CopyToCome
        <4> QED
          BY <4>2, <4>3
      <3> QED
        BY <2>5, <3>1, <3>2, Zenon
    <2>9. SenderOrder'
      <3>1. \A i \in 1..n : Log(TASK_ICM)[i].origin = s => Log(TASK_ICM)[i].n < m.n
        BY <2>1, <2>2, SMTT(60) DEF OrderInv, Numbered, CopyToCome, n
      <3> QED
        BY <2>1, <2>2, <3>1, OrderGrows, Zenon DEF n
    <2> QED
      BY <2>6, <2>8, <2>9, Zenon DEF OrderInv
  <1>3. ASSUME NEW s \in Sender, SendPost(s) \/ CopyPost(s) PROVE OrderInv'
    <2>1. /\ UNCHANGED <<message_queue, received, sending, nsent>>
          /\ \A u \in Sender \ {s} : spc'[u] = spc[u]
          /\ \/ spc[s] = "post" /\ spc'[s] = "copy"
             \/ spc[s] = "post" /\ spc'[s] = "idle" /\ sending[s].msg.id = "RRC_SUBFRAME_PROCESS"
             \/ spc[s] = "copyPost" /\ spc'[s] = "idle"
      BY <1>3, Zenon DEF SendPost, CopyPost, TypeOK
    <2>2. \A t \in Task : Log(t)' = Log(t)
      BY <2>1, Zenon DEF Log
    <2> QED
      BY <2>1, <2>2, OrderSame, Zenon DEF CopyToCome
  <1>4. ASSUME NEW t \in Task, ReceiveTake(t) \/ RelockTake(t) \/ PollMsg(t) PROVE OrderInv'
    <2>1. /\ message_queue[t] # <<>> /\ message_queue' = [message_queue EXCEPT ![t] = Tail(@)]
          /\ received' = [received EXCEPT ![t] = Append(@, Head(message_queue[t]))]
          /\ UNCHANGED <<spc, sending, nsent>>
      BY <1>4 DEF ReceiveTake, RelockTake, PollMsg, Take
    <2>2. \A u \in Task : Log(u)' = Log(u)
      BY <2>1, LogTake, Zenon
    <2> QED
      BY <2>1, <2>2, OrderSame, Zenon DEF CopyToCome
  <1>5. CASE UNCHANGED <<message_queue, received, spc, sending, nsent>>
    <2>1. \A t \in Task : Log(t)' = Log(t)
      BY <1>5, Zenon DEF Log
    <2> QED
      BY <1>5, <2>1, OrderSame DEF CopyToCome
  <1>6. ASSUME NEW t \in Task,
               ReceiveSleep(t) \/ RelockEmpty(t) \/ GetEvents(t) \/ WaitToken(t) \/ WaitOther(t)
        PROVE  OrderInv'
    BY <1>5, <1>6 DEF ReceiveSleep, RelockEmpty, GetEvents, WaitToken, WaitOther
  <1>7. CASE UNCHANGED vars
    BY <1>5, <1>7 DEF vars
  <1> QED
    BY <1>1, <1>2, <1>3, <1>4, <1>6, <1>7 DEF Next, SenderStep, TaskStep

\* For any tasks, senders and messages: every task gets the messages of a sender in
\* the order of the calls and each once, originals and copies alike (:136-185).
THEOREM OrderCorrect == Spec => []SenderOrder
  <1>1. OrderInv => SenderOrder
    BY DEF OrderInv
  <1> QED
    BY <1>1, TypeInit, TypeStep, OrderInit, OrderStep, PTL DEF Spec

\* No copy to the ICM task is missing once a call of itti_send_msg_to_task() has
\* returned, whatever other senders do between the original and the copy (:163-179).
THEOREM CopiesCorrect == Spec => []CopiedToIcm
  <1>1. OrderInv => CopiedToIcm
    BY DEF OrderInv, Copied, CopyToCome, CopiedToIcm, InIcm
  <1> QED
    BY <1>1, TypeInit, TypeStep, OrderInit, OrderStep, PTL DEF Spec
=============================================================================
