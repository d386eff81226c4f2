-------------------------- MODULE IttiTimersProofs --------------------------
(***************************************************************************)
(* Theorems about IttiTimers, for every finite set of timer ids and every  *)
(* bound.                                                                  *)
(***************************************************************************)
EXTENDS IttiTimers, TLAPS, FiniteSetTheorems, SequenceTheorems

USE DEF TIMER_PERIODIC, TIMER_ONE_SHOT

\* Dealing with timers that are set yields timers that are set or none.
LEMMA ExpiredType ==
    ASSUME NEW map \in [TimerId -> Timer \cup {NoTimer}], NEW ids \in SUBSET Active(map)
    PROVE  Expired(map, ids) \in [TimerId -> Timer \cup {NoTimer}]
  <1>1. ASSUME NEW timer \in Timer PROVE AfterExpiry(timer) \in Timer \cup {NoTimer}
    <2>1. timer.timeout + timer.duration \in Nat
      <3>1. timer.timeout \in Nat /\ timer.duration \in Duration
        BY Zenon DEF Timer
      <3>2. timer.duration \in Nat
        BY <3>1, TimerAssumption, Zenon
      <3> QED BY <3>1, <3>2
    <2> QED BY <2>1, Zenon DEF Timer, AfterExpiry
  <1>2. \A id \in ids : map[id] \in Timer
    BY DEF Active
  <1> QED BY <1>1, <1>2 DEF Expired

LEMMA DueIsActive ==
    ASSUME NEW map PROVE DueIn(map) \in SUBSET Active(map)
  BY DEF DueIn, Active, IsDue

\* What the loop may come back to was set, and is still.
LEMMA AgainWasActive ==
    ASSUME NEW map, NEW ids, NEW again \in Again(map, ids)
    PROVE  again \in SUBSET DueIn(Expired(map, ids)) /\ again \in SUBSET ids
  BY Zenon DEF Again

\* The loop over timer_map, taken apart.
LoopStep(seen, due, map, again, q, r) ==
    /\ due = seen \cap DueIn(timer_map) /\ map = Expired(timer_map, due)
    /\ q \in Orders(due) /\ again \in Again(timer_map, due) /\ r \in Orders(again)
    /\ timer_map' = Expired(map, again) /\ next_timer' \in Earliest(map, seen)
    /\ message_queue' = message_queue \o Messages(q) \o Messages(r)
    /\ sem_fd' = sem_fd + Cardinality(due) + Cardinality(again)
    /\ skipped' = {timer_map[id].arg : id \in Active(timer_map) \ seen}

LoopSets(seen, due, map, again) ==
    /\ seen \in SUBSET Active(timer_map) /\ due \in SUBSET Active(timer_map)
    /\ again \in SUBSET Active(timer_map) /\ again \in SUBSET Active(map)

LEMMA LoopFacts ==
    ASSUME ExpireTimers
    PROVE  \E seen \in Seen(timer_map) : \E due, map, again, q, r :
              LoopStep(seen, due, map, again, q, r) /\ LoopSets(seen, due, map, again)
  <1>1. PICK seen \in Seen(timer_map) : \E due, map, again, q, r : LoopStep(seen, due, map, again, q, r)
    BY Zenon DEF ExpireTimers, LoopStep
  <1>2. PICK due, map, again, q, r : LoopStep(seen, due, map, again, q, r)
    BY <1>1, Zenon
  <1>3. seen \in SUBSET Active(timer_map)
    BY DEF Seen
  <1>4. due \in SUBSET Active(timer_map)
    BY <1>2, <1>3, Zenon DEF LoopStep
  <1>5. again \in SUBSET DueIn(map) /\ again \in SUBSET due
    <2>1. again \in Again(timer_map, due) /\ map = Expired(timer_map, due)
      BY <1>2, Zenon DEF LoopStep
    <2> QED BY <2>1, AgainWasActive, SMT
  <1>6. LoopSets(seen, due, map, again)
    BY <1>3, <1>4, <1>5, DueIsActive, Zenon DEF LoopSets
  <1> QED BY <1>2, <1>6, Zenon

LEMMA MessagesType ==
    ASSUME TypeOK, NEW ids \in SUBSET Active(timer_map), NEW q \in Orders(ids)
    PROVE  Messages(q) \in Seq(0..MaxTimer)
  <1>1. IsFiniteSet(ids)
    BY TimerAssumption, FS_Subset DEF Active
  <1>2. Cardinality(ids) \in Nat
    BY <1>1, FS_CardinalityType
  <1>3. q \in [1..Cardinality(ids) -> ids]
    BY DEF Orders
  <1>4. \A id \in ids : timer_map[id].arg \in 0..MaxTimer
    <2>1. \A id \in ids : timer_map[id] \in Timer
      BY DEF TypeOK, Active
    <2>2. \A timer \in Timer : timer.arg \in 1..MaxTimer
      BY Zenon DEF Timer
    <2> QED BY <2>1, <2>2, TimerAssumption
  <1>5. Messages(q) \in [1..Cardinality(ids) -> 0..MaxTimer]
    BY <1>3, <1>4 DEF Messages
  <1>6. \A n \in Nat : \A f \in [1..n -> 0..MaxTimer] : f \in Seq(0..MaxTimer)
    BY SeqDef, ZenonT(60)
  <1> QED BY <1>2, <1>5, <1>6, Zenon

\* The loop over the timers keeps the types.
LEMMA ExpireTypes ==
    ASSUME TypeOK, ExpireTimers
    PROVE  /\ timer_map' \in [TimerId -> Timer \cup {NoTimer}]
           /\ next_timer' \in Nat /\ sem_fd' \in Nat
           /\ message_queue' \in Seq(0..MaxTimer) /\ skipped' \subseteq 1..MaxTimer
  <1>1. PICK seen \in Seen(timer_map) : \E due, map, again, q, r :
           LoopStep(seen, due, map, again, q, r) /\ LoopSets(seen, due, map, again)
    BY LoopFacts
  <1>2. PICK due, map, again, q, r :
           LoopStep(seen, due, map, again, q, r) /\ LoopSets(seen, due, map, again)
    BY <1>1, Zenon
  <1>5. timer_map \in [TimerId -> Timer \cup {NoTimer}]
    BY DEF TypeOK
  <1>6. map \in [TimerId -> Timer \cup {NoTimer}]
    BY <1>2, <1>5, ExpiredType, Zenon DEF LoopStep, LoopSets
  <1>7. timer_map' \in [TimerId -> Timer \cup {NoTimer}]
    BY <1>2, <1>6, ExpiredType, Zenon DEF LoopStep, LoopSets
  <1>8. next_timer' \in Nat
    BY <1>2, <1>6, TimerAssumption, Zenon DEF Earliest, Active, Timer, LoopStep
  <1>9. Cardinality(due) \in Nat /\ Cardinality(again) \in Nat
    BY <1>2, TimerAssumption, FS_Subset, FS_CardinalityType, Zenon DEF Active, LoopSets
  <1>10. sem_fd' \in Nat
    BY <1>2, <1>9 DEF TypeOK, LoopStep
  <1>11. Messages(q) \in Seq(0..MaxTimer) /\ Messages(r) \in Seq(0..MaxTimer)
    BY <1>2, MessagesType, Zenon DEF LoopStep, LoopSets
  <1>12. message_queue' \in Seq(0..MaxTimer)
    <2>1. message_queue' = message_queue \o Messages(q) \o Messages(r)
      BY <1>2, Zenon DEF LoopStep
    <2> QED BY <1>11, <2>1 DEF TypeOK
  <1>13. skipped' \subseteq 1..MaxTimer
    <2>1. \A id \in Active(timer_map) : timer_map[id].arg \in 1..MaxTimer
      BY <1>5, Zenon DEF Active, Timer
    <2> QED BY <1>2, <2>1, Zenon DEF LoopStep
  <1> QED BY <1>7, <1>8, <1>10, <1>12, <1>13

LEMMA GetEventsTypes ==
    ASSUME TypeOK, NEW label \in {"wait", "eventsWait"}, GetEvents(label)
    PROVE  TypeOK'
  <1>1. CASE Sleep(label)
    <2>1. /\ timer_map' \in [TimerId -> Timer \cup {NoTimer}]
          /\ next_timer' \in Nat /\ sem_fd' \in Nat
          /\ message_queue' \in Seq(0..MaxTimer) /\ skipped' \subseteq 1..MaxTimer
      BY <1>1, ExpireTypes DEF Sleep, TypeOK
    <2>2. deadline' \in Nat
      BY <1>1, <2>1, TimerAssumption DEF Sleep
    <2> QED BY <1>1, <2>1, <2>2, Zenon DEF Sleep, TypeOK
  <1>2. CASE Crash
    BY <1>2 DEF Crash, TypeOK
  <1> QED BY <1>1, <1>2, Zenon DEF GetEvents

\* The variables of the history and the callers keep their types.
LEMMA HistoryType ==
    ASSUME NEW h \in Seq(History), NEW n, NEW st \in {"set", "removed", "replaced"}
    PROVE  [h EXCEPT ![n].state = st] \in Seq(History)
  <1>1. h \in [1..Len(h) -> History] /\ Len(h) \in Nat
    OBVIOUS
  <1>2. \A x \in History : [x EXCEPT !.state = st] \in History
    BY Zenon DEF History
  <1>3. [h EXCEPT ![n].state = st] \in [1..Len(h) -> History]
    BY <1>1, <1>2, Zenon
  <1> QED BY <1>1, <1>3, SeqDef

\* Numbers.
LEMMA Successor ==
    /\ \A n, m \in Nat : n < m => n + 1 \in 1..m
    /\ \A n, m \in Nat : n + m \in Nat
  OBVIOUS

\* A call of timer_setup() with a timer of the right type.
LEMMA CallType ==
    ASSUME NEW id \in TimerId, NEW timer \in Timer
    PROVE  [id |-> id, timer |-> timer] \in [id : TimerId, timer : Timer]
  OBVIOUS

LEMMA TypesKept ==
    ASSUME TypeOK, [Next]_vars
    PROVE  TypeOK'
  <1>1. ASSUME NEW id \in TimerId, NEW d \in Duration,
               NEW type \in {TIMER_PERIODIC, TIMER_ONE_SHOT}, SetupBegin(id, d, type)
        PROVE  TypeOK'
    <2>1. Len(timers) + 1 \in 1..MaxTimer /\ now + d \in Nat
      <3>0. timers \in Seq(History)
        BY Zenon DEF TypeOK
      <3>1. Len(timers) \in Nat /\ Len(timers) < MaxTimer
        BY <1>1, <3>0, LenProperties, Zenon DEF SetupBegin
      <3>2. d \in Nat /\ now \in Nat
        BY TimerAssumption, Zenon DEF TypeOK
      <3>3. MaxTimer \in Nat
        BY TimerAssumption, Zenon
      <3>4. Len(timers) + 1 \in 1..MaxTimer
        BY <3>1, <3>3, Successor, Zenon
      <3> QED BY <3>2, <3>4, Successor, Zenon
    <2>2. calls' \subseteq [id : TimerId, timer : Timer]
      <3>1. [arg |-> Len(timers) + 1, timeout |-> now + d, duration |-> d, type |-> type] \in Timer
        BY <2>1, Zenon DEF Timer
      <3>2. calls \subseteq [id : TimerId, timer : Timer]
        BY Zenon DEF TypeOK
      <3>3. calls' = calls \cup {[id |-> id, timer |-> [arg |-> Len(timers) + 1,
                                  timeout |-> now + d, duration |-> d, type |-> type]]}
        BY <1>1, Zenon DEF SetupBegin
      <3> QED BY <3>1, <3>2, <3>3, CallType, Zenon
    <2>3. timers' \in Seq(History)
      <3>1. [start |-> now, duration |-> d, type |-> type, got |-> 0, state |-> "new"] \in History
        BY Zenon DEF TypeOK, History
      <3>2. timers \in Seq(History)
        BY Zenon DEF TypeOK
      <3>3. \A x \in History : Append(timers, x) \in Seq(History)
        BY <3>2, AppendProperties, Zenon
      <3> QED BY <1>1, <3>1, <3>3, Zenon DEF SetupBegin
    <2> QED BY <1>1, <2>2, <2>3, Zenon DEF SetupBegin, TypeOK, taskVars
  <1>2. ASSUME NEW c \in calls, SetupInsert(c) PROVE TypeOK'
    <2>1. c.id \in TimerId /\ c.timer \in Timer /\ c.timer.timeout \in Nat
      BY Zenon DEF TypeOK, Timer
    <2>2. Replaced(c.id) \in Seq(History)
      BY HistoryType, Zenon DEF Replaced, TypeOK
    <2>3. timers' \in Seq(History)
      BY <1>2, <2>2, HistoryType, Zenon DEF SetupInsert
    <2>4. timer_map' \in [TimerId -> Timer \cup {NoTimer}]
      BY <1>2, <2>1, Zenon DEF SetupInsert, TypeOK
    <2>5. next_timer' \in Nat /\ sem_fd' \in Nat
      BY <1>2, <2>1 DEF SetupInsert, TypeOK
    <2> QED BY <1>2, <2>3, <2>4, <2>5, Zenon DEF SetupInsert, TypeOK, taskVars
  <1>3. ASSUME NEW id \in TimerId, TimerRemove(id) PROVE TypeOK'
    <2>1. timers' \in Seq(History)
      BY <1>3, HistoryType, Zenon DEF TimerRemove, TypeOK
    <2> QED BY <1>3, <2>1 DEF TimerRemove, TypeOK, taskVars
  <1>4. CASE Send
    <2>1. message_queue' \in Seq(0..MaxTimer)
      BY <1>4, TimerAssumption DEF Send, TypeOK
    <2> QED BY <1>4, <2>1 DEF Send, TypeOK, taskVars
  <1>5. CASE Take
    <2>1. message_queue' \in Seq(0..MaxTimer)
      BY <1>5 DEF Take, TypeOK
    <2>2. timers' \in Seq(History)
      <3> DEFINE n == Head(message_queue)
      <3>1. timers \in [1..Len(timers) -> History] /\ Len(timers) \in Nat
        BY DEF TypeOK
      <3>2. \A x \in History : [x EXCEPT !.got = @ + 1] \in History
        <4> TAKE x \in History
        <4>1. x.got \in Nat
          BY Zenon DEF History
        <4>2. x.got + 1 \in Nat
          BY <4>1
        <4> QED BY <4>2, Zenon DEF History
      <3>3. [timers EXCEPT ![n].got = @ + 1] \in [1..Len(timers) -> History]
        BY <3>1, <3>2, Zenon
      <3>4. [timers EXCEPT ![n].got = @ + 1] \in Seq(History)
        BY <3>1, <3>3, SeqDef
      <3> QED BY <1>5, <3>4 DEF Take, TypeOK
    <2> QED BY <1>5, <2>1, <2>2, Zenon DEF Take, TypeOK
  <1>6. CASE Receive \/ CallGetEvents \/ Interrupted
    BY <1>6, GetEventsTypes DEF Receive, CallGetEvents, Interrupted
  <1>7. CASE ReturnNull
    BY <1>7 DEF ReturnNull, TypeOK
  <1>8. CASE WakeToken \/ WakeTimeout \/ WakeOther
    <2>1. sem_fd' \in Nat
      BY <1>8 DEF WakeToken, WakeTimeout, WakeOther, TypeOK
    <2>2. /\ UNCHANGED <<now, timer_map, next_timer, message_queue, nb_fd_epoll, calls, nmsg, timers,
                         skipped>>
          /\ rpc' \in {"relock", "call"} /\ deadline' = 0
      BY <1>8, Zenon DEF WakeToken, WakeTimeout, WakeOther, Wakes
    <2> QED BY <2>1, <2>2, SMT DEF TypeOK
  <1>9. CASE SubscribeEventFd
    BY <1>9 DEF SubscribeEventFd, TypeOK
  <1>10. CASE Tick
    BY <1>10 DEF Tick, TypeOK, taskVars
  <1>11. CASE UNCHANGED vars
    BY <1>11 DEF vars, TypeOK, taskVars
  <1> QED BY <1>1, <1>2, <1>3, <1>4, <1>5, <1>6, <1>7, <1>8, <1>9, <1>10, <1>11, Zenon DEF Next, Running, TaskStep

(***************************************************************************)
(* The history and every variable of the task keep their types             *)
(* (intertask_interface.cpp:209-321, 391-445).                             *)
(***************************************************************************)
THEOREM TypeCorrect == Spec => []TypeOK
  <1>1. Init => TypeOK
    BY TimerAssumption DEF Init, TypeOK
  <1> QED BY <1>1, TypesKept, PTL DEF Spec
-----------------------------------------------------------------------------
\* Timeouts are numbers.
LEMMA TimeoutType ==
    ASSUME NEW map \in [TimerId -> Timer \cup {NoTimer}], NEW id \in Active(map)
    PROVE  map[id].timeout \in Nat
  BY Zenon DEF Active, Timer

MapType == [TimerId -> Timer \cup {NoTimer}]

\* The timer's numbers are those of the history.
LEMMA ActiveTypes ==
    ASSUME NEW map \in MapType, NEW id \in Active(map)
    PROVE  /\ id \in TimerId /\ map[id] \in Timer /\ map[id].timeout \in Nat
           /\ map[id].arg \in 1..MaxTimer /\ map[id].duration \in Nat
  <1>1. id \in TimerId /\ map[id] \in Timer
    BY Zenon DEF MapType, Active
  <1>2. map[id].timeout \in Nat /\ map[id].arg \in 1..MaxTimer /\ map[id].duration \in Duration
    BY <1>1, Zenon DEF Timer
  <1> QED BY <1>1, <1>2, TimerAssumption, Zenon

\* A timer after its message was sent: it is gone, or due a duration later.
LEMMA ExpiredFacts ==
    ASSUME NEW map \in MapType, NEW ids \in SUBSET Active(map), NEW id \in Active(Expired(map, ids))
    PROVE  /\ id \in Active(map)
           /\ id \notin ids => Expired(map, ids)[id] = map[id]
           /\ id \in ids => /\ map[id].type = TIMER_PERIODIC
                            /\ Expired(map, ids)[id].timeout = map[id].timeout + map[id].duration
           /\ Expired(map, ids)[id].arg = map[id].arg
           /\ Expired(map, ids)[id].duration = map[id].duration
           /\ Expired(map, ids)[id].type = map[id].type
  <1>1. /\ id \in TimerId /\ Expired(map, ids)[id] # NoTimer
        /\ Expired(map, ids)[id] = IF id \in ids THEN AfterExpiry(map[id]) ELSE map[id]
    BY Zenon DEF Active, Expired
  <1>2. CASE id \notin ids
    BY <1>1, <1>2, Zenon DEF Active
  <1>3. CASE id \in ids
    <2>1. id \in Active(map) /\ map[id] \in Timer
      BY <1>3, ActiveTypes, Zenon
    <2>2. map[id].type = TIMER_PERIODIC
          /\ Expired(map, ids)[id] = [map[id] EXCEPT !.timeout = map[id].timeout + map[id].duration]
      BY <1>1, <1>3, Zenon DEF AfterExpiry
    <2>3. ASSUME NEW x \in Timer, NEW v, NEW y, y = [x EXCEPT !.timeout = v]
          PROVE  y.timeout = v /\ y.arg = x.arg /\ y.duration = x.duration /\ y.type = x.type
      BY <2>3 DEF Timer
    <2>4. PICK y : y = Expired(map, ids)[id]
      OBVIOUS
    <2>5. PICK v : v = map[id].timeout + map[id].duration
      OBVIOUS
    <2>6. y.timeout = v /\ y.arg = map[id].arg /\ y.duration = map[id].duration /\ y.type = map[id].type
      <3>1. y = [map[id] EXCEPT !.timeout = v]
        BY <2>2, <2>4, <2>5, Zenon
      <3> QED BY <2>1, <2>3, <3>1
    <2> QED BY <1>3, <2>1, <2>2, <2>4, <2>5, <2>6, Zenon
  <1> QED BY <1>2, <1>3

\* After the loop next_timer is the time of the first timer the loop came to. If
\* no token was written, no timer was due and none has changed.
LEMMA ExpireFirst ==
    ASSUME TypeOK, ExpireTimers
    PROVE  /\ NextIsFirst'
           /\ sem_fd' = 0 => /\ DueIn(timer_map) = {} /\ timer_map' = timer_map
                             /\ \/ next_timer' = UINT64_MAX
                                \/ \E id \in Active(timer_map) : next_timer' = timer_map[id].timeout
  <1>1. PICK seen \in Seen(timer_map) : \E due, map, again, q, r :
           LoopStep(seen, due, map, again, q, r) /\ LoopSets(seen, due, map, again)
    BY LoopFacts
  <1>2. PICK due, map, again, q, r :
           LoopStep(seen, due, map, again, q, r) /\ LoopSets(seen, due, map, again)
    BY <1>1, Zenon
  <1>t. timer_map \in MapType /\ map \in MapType
    BY <1>2, ExpiredType, Zenon DEF TypeOK, LoopStep, LoopSets, MapType
  <1>3. ASSUME NEW id \in Active(timer_map'), timer_map'[id].arg \notin skipped'
        PROVE  next_timer' <= timer_map'[id].timeout
    <2>1. /\ id \in Active(map) /\ timer_map'[id].arg = map[id].arg
          /\ timer_map'[id] = map[id] \/ timer_map'[id].timeout = map[id].timeout + map[id].duration
      <3>1. timer_map' = Expired(map, again) /\ again \in SUBSET Active(map)
        BY <1>2, Zenon DEF LoopStep, LoopSets
      <3>2. id \in Active(Expired(map, again))
        BY <1>3, <3>1, Zenon
      <3>3. Expired(map, again)[id].timeout = map[id].timeout + map[id].duration
            \/ Expired(map, again)[id] = map[id]
        BY <1>t, <3>1, <3>2, ExpiredFacts, Zenon
      <3>4. id \in Active(map) /\ Expired(map, again)[id].arg = map[id].arg
        BY <1>t, <3>1, <3>2, ExpiredFacts, Zenon
      <3> QED BY <3>1, <3>3, <3>4, Zenon
    <2>2. id \in Active(timer_map) /\ map[id].arg = timer_map[id].arg
      BY <1>2, <1>t, <2>1, ExpiredFacts, Zenon DEF LoopStep, LoopSets
    <2>3. id \in seen
      BY <1>2, <1>3, <2>1, <2>2, Zenon DEF LoopStep
    <2>4. next_timer' <= map[id].timeout
      BY <1>2, <2>1, <2>3, Zenon DEF LoopStep, Earliest
    <2>5. map[id].timeout \in Nat /\ map[id].duration \in Nat
      <3>1. map[id] \in Timer
        BY <1>t, <2>1, ActiveTypes, Zenon
      <3> QED BY <3>1, TimerAssumption, Zenon DEF Timer
    <2>6. next_timer' \in Nat
      BY ExpireTypes, Zenon
    <2> QED BY <2>1, <2>4, <2>5, <2>6
  <1>4. ASSUME sem_fd' = 0
        PROVE  /\ DueIn(timer_map) = {} /\ timer_map' = timer_map
               /\ \/ next_timer' = UINT64_MAX
                  \/ \E id \in Active(timer_map) : next_timer' = timer_map[id].timeout
    <2>1. IsFiniteSet(due) /\ IsFiniteSet(again)
      BY <1>2, TimerAssumption, FS_Subset, Zenon DEF Active, LoopSets
    <2>2. Cardinality(due) \in Nat /\ Cardinality(again) \in Nat /\ sem_fd \in Nat
      BY <2>1, FS_CardinalityType, Zenon DEF TypeOK
    <2>3. Cardinality(due) = 0 /\ Cardinality(again) = 0
      BY <1>2, <1>4, <2>2 DEF LoopStep
    <2>4. due = {} /\ again = {}
      BY <2>1, <2>3, FS_EmptySet, Zenon
    <2>5. \A m \in MapType : Expired(m, {}) = m
      BY DEF Expired, MapType
    <2>6. map = timer_map /\ timer_map' = timer_map
      BY <1>2, <1>t, <2>4, <2>5, Zenon DEF LoopStep
    <2>7. seen = Active(timer_map)
      <3>1. seen \cap OneShotDue(timer_map) = {}
        BY <1>2, <2>4, Zenon DEF LoopStep, OneShotDue
      <3> QED BY <3>1, Zenon DEF Seen
    <2>8. DueIn(timer_map) = {}
      BY <1>2, <2>4, <2>7, DueIsActive, Zenon DEF LoopStep
    <2>9. \/ next_timer' = UINT64_MAX
          \/ \E id \in Active(timer_map) : next_timer' = timer_map[id].timeout
      BY <1>2, <2>6, Zenon DEF LoopStep, Earliest
    <2> QED BY <2>6, <2>8, <2>9, Zenon
  <1> QED BY <1>3, <1>4, Zenon DEF NextIsFirst

\* Going to sleep keeps both invariants.
LEMMA SleepSafe ==
    ASSUME TypeOK, NextIsFirst, NEW label, GetEvents(label), TypeOK'
    PROVE  NextIsFirst' /\ NoOversleep'
  <1>1. CASE Sleep(label) /\ ~(next_timer < now)
    <2>1. /\ timer_map' = timer_map /\ next_timer' = next_timer /\ deadline' = next_timer
          /\ skipped' = skipped
      BY <1>1 DEF Sleep
    <2> QED BY <2>1 DEF NextIsFirst, NoOversleep
  <1>2. CASE Sleep(label) /\ next_timer < now
    <2>1. ExpireTimers
      BY <1>2 DEF Sleep
    <2>2. NextIsFirst'
      BY <2>1, ExpireFirst
    <2>3. ASSUME sem_fd' = 0, NEW id \in Active(timer_map'), timer_map'[id].arg \notin skipped'
          PROVE  deadline' <= timer_map'[id].timeout
      <3>1. next_timer' <= timer_map'[id].timeout
        BY <2>2, <2>3 DEF NextIsFirst
      <3>2. CASE ~(next_timer' < now)
        BY <1>2, <3>1, <3>2 DEF Sleep
      <3>3. CASE next_timer' < now /\ next_timer' = UINT64_MAX
        BY <1>2, <3>1, <3>3 DEF Sleep
      <3>4. CASE next_timer' < now /\ next_timer' # UINT64_MAX
        <4>1. PICK k \in Active(timer_map) : next_timer' = timer_map[k].timeout
          BY <2>1, <2>3, <3>4, ExpireFirst, Zenon
        <4>2. DueIn(timer_map) = {}
          BY <2>1, <2>3, ExpireFirst, Zenon
        <4>3. k \in DueIn(timer_map)
          BY <3>4, <4>1, Zenon DEF DueIn, IsDue, Active
        <4> QED BY <4>2, <4>3
      <3> QED BY <3>2, <3>3, <3>4, Zenon
    <2>4. NoOversleep'
      BY <2>3 DEF NoOversleep
    <2> QED BY <2>2, <2>4
  <1>3. CASE Crash
    BY <1>3 DEF Crash, NextIsFirst, NoOversleep
  <1> QED BY <1>1, <1>2, <1>3, Zenon DEF GetEvents

LEMMA WakeupKept ==
    ASSUME TypeOK, NextIsFirst, NoOversleep, [Next]_vars, TypeOK'
    PROVE  NextIsFirst' /\ NoOversleep'
  <1>1. ASSUME NEW id \in TimerId, NEW d \in Duration,
               NEW type \in {TIMER_PERIODIC, TIMER_ONE_SHOT}, SetupBegin(id, d, type)
        PROVE  NextIsFirst' /\ NoOversleep'
    BY <1>1, Zenon DEF SetupBegin, NextIsFirst, NoOversleep, taskVars
  <1>2. ASSUME NEW c \in calls, SetupInsert(c) PROVE NextIsFirst' /\ NoOversleep'
    <2>1. sem_fd' # 0
      BY <1>2 DEF SetupInsert, TypeOK
    <2>2. /\ timer_map' = [timer_map EXCEPT ![c.id] = c.timer]
          /\ next_timer' = IF c.timer.timeout < next_timer THEN c.timer.timeout ELSE next_timer
          /\ skipped' = skipped
      BY <1>2, Zenon DEF SetupInsert
    <2>3. ASSUME NEW id \in Active(timer_map'), timer_map'[id].arg \notin skipped'
          PROVE  next_timer' <= timer_map'[id].timeout
      <3>1. c.id \in TimerId /\ c.timer.timeout \in Nat /\ next_timer \in Nat
        BY Zenon DEF TypeOK, Timer
      <3>2. CASE id = c.id
        <4>1. timer_map'[id] = c.timer
          BY <2>2, <3>1, <3>2, Zenon DEF TypeOK
        <4>2. next_timer' <= c.timer.timeout
          BY <2>2, <3>1
        <4> QED BY <4>1, <4>2, Zenon
      <3>3. CASE id # c.id
        <4>1. timer_map'[id] = timer_map[id] /\ id \in Active(timer_map)
          BY <2>2, <2>3, <3>3, Zenon DEF TypeOK, Active
        <4>2. next_timer <= timer_map[id].timeout /\ timer_map[id].timeout \in Nat
          <5>1. timer_map[id].arg \notin skipped
            <6>1. skipped' = skipped /\ timer_map'[id] = timer_map[id]
              BY <2>2, <4>1, Zenon
            <6> QED BY <2>3, <6>1, SMT
          <5>2. timer_map[id].timeout \in Nat
            BY <4>1, TimeoutType, Zenon DEF TypeOK
          <5> QED BY <4>1, <5>1, <5>2, Zenon DEF NextIsFirst
        <4>3. next_timer' <= timer_map[id].timeout
          BY <2>2, <3>1, <4>2
        <4> QED BY <4>1, <4>3, Zenon
      <3> QED BY <3>2, <3>3
    <2> QED BY <2>1, <2>3, Zenon DEF NextIsFirst, NoOversleep
  <1>3. ASSUME NEW id \in TimerId, TimerRemove(id) PROVE NextIsFirst' /\ NoOversleep'
    <2>1. \A k \in Active(timer_map') : k \in Active(timer_map) /\ timer_map'[k] = timer_map[k]
      BY <1>3 DEF TimerRemove, Active, TypeOK
    <2>2. UNCHANGED <<next_timer, sem_fd, rpc, deadline, skipped>>
      BY <1>3, Zenon DEF TimerRemove, taskVars
    <2>3. ASSUME NEW k \in Active(timer_map'), timer_map'[k].arg \notin skipped'
          PROVE  /\ k \in Active(timer_map) /\ timer_map'[k] = timer_map[k]
                 /\ timer_map[k].arg \notin skipped
      BY <2>1, <2>2, <2>3, Zenon
    <2>4. NextIsFirst'
      BY <2>2, <2>3, Zenon DEF NextIsFirst
    <2>5. NoOversleep'
      BY <2>2, <2>3, Zenon DEF NoOversleep
    <2> QED BY <2>4, <2>5
  <1>4. CASE Send
    <2>1. sem_fd' # 0
      BY <1>4 DEF Send, TypeOK
    <2> QED BY <1>4, <2>1 DEF Send, NextIsFirst, NoOversleep
  <1>5. CASE Take
    BY <1>5 DEF Take, NextIsFirst, NoOversleep
  <1>6. CASE Receive \/ CallGetEvents \/ Interrupted
    BY <1>6, SleepSafe, SMTT(60) DEF Receive, CallGetEvents, Interrupted
  <1>7. CASE ReturnNull
    BY <1>7 DEF ReturnNull, NextIsFirst, NoOversleep
  <1>8. CASE WakeToken \/ WakeTimeout \/ WakeOther
    <2>1. rpc' \in {"relock", "call"} /\ timer_map' = timer_map /\ next_timer' = next_timer
          /\ skipped' = skipped
      BY <1>8 DEF WakeToken, WakeTimeout, WakeOther, Wakes
    <2> QED BY <2>1 DEF NextIsFirst, NoOversleep
  <1>9. CASE SubscribeEventFd
    BY <1>9 DEF SubscribeEventFd, NextIsFirst, NoOversleep
  <1>10. CASE Tick
    BY <1>10 DEF Tick, NextIsFirst, NoOversleep, taskVars
  <1>11. CASE UNCHANGED vars
    BY <1>11 DEF vars, NextIsFirst, NoOversleep, taskVars
  <1> QED BY <1>1, <1>2, <1>3, <1>4, <1>5, <1>6, <1>7, <1>8, <1>9, <1>10, <1>11, ZenonT(60) DEF Next, Running, TaskStep

(***************************************************************************)
(* However timers are set up, removed and late, a sleeping task without a  *)
(* token wakes up no later than its first timer is due                     *)
(* (intertask_interface.cpp:213-255, 405-428).                             *)
(***************************************************************************)
THEOREM SleepCorrect == Spec => []NoOversleep
  <1>1. Init => NextIsFirst /\ NoOversleep
    BY DEF Init, NextIsFirst, NoOversleep, Active
  <1>2. NextIsFirst /\ NoOversleep /\ TypeOK /\ TypeOK' /\ [Next]_vars => (NextIsFirst /\ NoOversleep)'
    BY WakeupKept
  <1> QED BY <1>1, <1>2, TypeCorrect, PTL DEF Spec
-----------------------------------------------------------------------------
(***************************************************************************)
(* When messages come.  A message in the queue does not say when its timer *)
(* was due, so the invariant asks for a sequence due of such times, a      *)
(* history of the queue: a timer's messages were due at least a duration   *)
(* apart, the first of them a duration after what the messages received    *)
(* account for (Reached), and the timer itself, while it is set, is due a  *)
(* duration after the last of them.  h stands for timers.                  *)
(***************************************************************************)
Reached(h, n) == h[n].start + h[n].got * h[n].duration

\* A timer between timer_setup()'s two parts has no message yet.
NewTimer(h, timer) ==
    /\ timer.arg \in 1..Len(h) /\ h[timer.arg].state = "new" /\ h[timer.arg].got = 0
    /\ timer.duration = h[timer.arg].duration /\ timer.type = h[timer.arg].type
    /\ timer.timeout = h[timer.arg].start + h[timer.arg].duration

CallInv(h, waiting) ==
    /\ \A c \in waiting : NewTimer(h, c.timer)
    /\ \A c, d \in waiting : c.timer.arg = d.timer.arg => c = d

\* A timer in timer_map: its time is after that of every message received.
SetTimer(h, timer) ==
    /\ timer.arg \in 1..Len(h) /\ h[timer.arg].state = "set"
    /\ timer.duration = h[timer.arg].duration /\ timer.type = h[timer.arg].type
    /\ timer.timeout >= Reached(h, timer.arg) + timer.duration
    /\ timer.type = TIMER_ONE_SHOT => h[timer.arg].got = 0

MapInv(h, map) ==
    /\ \A id \in Active(map) : SetTimer(h, map[id])
    /\ \A id, k \in Active(map) : map[id].arg = map[k].arg => id = k

\* A message of timer n that was due at time d.
Waiting(h, time, n, d) ==
    /\ n \in 1..Len(h) /\ h[n].state # "new"
    /\ d < time /\ d >= Reached(h, n) + h[n].duration
    /\ h[n].type = TIMER_ONE_SHOT => h[n].got = 0 /\ h[n].state = "set"

\* Messages of the same timer, due at d and then at e.
Apart(h, n, d, e) == e >= d + h[n].duration /\ h[n].type = TIMER_PERIODIC

QueueInv(h, time, queue, due) ==
    /\ \A i \in 1..Len(queue) : queue[i] # 0 => Waiting(h, time, queue[i], due[i])
    /\ \A i, j \in 1..Len(queue) :
          i < j /\ queue[i] = queue[j] /\ queue[i] # 0 => Apart(h, queue[i], due[i], due[j])

\* A timer that is set is due again after its messages.
SetLater(h, map, queue, due) ==
    \A id \in Active(map) : \A i \in 1..Len(queue) :
        queue[i] = map[id].arg => Apart(h, queue[i], due[i], map[id].timeout)

\* What the task has received.
GotInv(h, time) ==
    \A n \in 1..Len(h) :
        /\ h[n].got > 0 => time > Reached(h, n)
        /\ h[n].type = TIMER_ONE_SHOT => h[n].got = 0 \/ (h[n].got = 1 /\ h[n].state = "set")

DueInv(h, time, map, queue, due) ==
    /\ due \in Seq(Nat) /\ Len(due) = Len(queue)
    /\ MapInv(h, map) /\ QueueInv(h, time, queue, due) /\ SetLater(h, map, queue, due)

HistoryInv ==
    /\ CallInv(timers, calls) /\ GotInv(timers, now)
    /\ \E due : DueInv(timers, now, timer_map, message_queue, due)

LEMMA HistoryTypes ==
    ASSUME NEW h \in Seq(History), NEW n \in 1..Len(h)
    PROVE  /\ h[n] \in History /\ h[n].start \in Nat /\ h[n].duration \in Nat /\ h[n].got \in Nat
           /\ Reached(h, n) \in Nat
  <1>1. h[n] \in History
    OBVIOUS
  <1>2. h[n].start \in Nat /\ h[n].duration \in Duration /\ h[n].got \in Nat
    BY <1>1, Zenon DEF History
  <1>3. h[n].duration \in Nat
    BY <1>2, TimerAssumption, Zenon
  <1>4. \A a, b, c \in Nat : a + b * c \in Nat
    OBVIOUS
  <1> QED BY <1>1, <1>2, <1>3, <1>4, Zenon DEF Reached

\* A history in which nothing changes that the invariants speak of.
LEMMA SameHistory ==
    ASSUME NEW h, NEW g, NEW n, g[n] = h[n]
    PROVE  Reached(g, n) = Reached(h, n)
  BY Zenon DEF Reached

LEMMA SetTimerSame ==
    ASSUME NEW h, NEW g, NEW timer, SetTimer(h, timer), g[timer.arg] = h[timer.arg],
           1..Len(h) \subseteq 1..Len(g)
    PROVE  SetTimer(g, timer)
  BY SameHistory, ZenonT(60) DEF SetTimer

LEMMA WaitingSame ==
    ASSUME NEW h, NEW g, NEW time, NEW n, NEW d, Waiting(h, time, n, d), g[n] = h[n],
           1..Len(h) \subseteq 1..Len(g)
    PROVE  Waiting(g, time, n, d)
  BY SameHistory, Zenon DEF Waiting

\* Later times and longer histories.
LEMMA DueExtended ==
    ASSUME NEW h, NEW g, NEW time, NEW map, NEW queue, NEW due,
           DueInv(h, time, map, queue, due),
           1..Len(h) \subseteq 1..Len(g), \A n \in 1..Len(h) : g[n] = h[n]
    PROVE  DueInv(g, time, map, queue, due)
  <1>1. MapInv(g, map)
    <2>1. ASSUME NEW id \in Active(map) PROVE SetTimer(g, map[id])
      <3>1. SetTimer(h, map[id])
        BY Zenon DEF DueInv, MapInv
      <3>2. g[map[id].arg] = h[map[id].arg]
        BY <3>1, Zenon DEF SetTimer
      <3> QED BY <3>1, <3>2, SetTimerSame, Zenon
    <2> QED BY <2>1, Zenon DEF DueInv, MapInv
  <1>2. QueueInv(g, time, queue, due)
    <2>1. ASSUME NEW i \in 1..Len(queue), queue[i] # 0
          PROVE  /\ Waiting(g, time, queue[i], due[i]) /\ g[queue[i]] = h[queue[i]]
      <3>1. Waiting(h, time, queue[i], due[i])
        BY <2>1, Zenon DEF DueInv, QueueInv
      <3>2. g[queue[i]] = h[queue[i]]
        BY <3>1, Zenon DEF Waiting
      <3> QED BY <3>1, <3>2, WaitingSame, Zenon
    <2> QED BY <2>1, Zenon DEF DueInv, QueueInv, Apart
  <1>3. SetLater(g, map, queue, due)
    <2>1. \A id \in Active(map) : g[map[id].arg] = h[map[id].arg]
      BY Zenon DEF DueInv, MapInv, SetTimer
    <2> QED BY <2>1, Zenon DEF DueInv, SetLater, Apart
  <1> QED BY <1>1, <1>2, <1>3, Zenon DEF DueInv

\* timer_setup() begins: the history grows.
LEMMA BeginKept ==
    ASSUME NEW h \in Seq(History), NEW waiting, NEW time \in Nat, NEW map, NEW queue, NEW due,
           NEW d \in Duration, NEW type, NEW id,
           NEW x, x = [start |-> time, duration |-> d, type |-> type, got |-> 0, state |-> "new"],
           NEW timer,
           timer = [arg |-> Len(h) + 1, timeout |-> time + d, duration |-> d, type |-> type],
           CallInv(h, waiting), GotInv(h, time), DueInv(h, time, map, queue, due)
    PROVE  /\ CallInv(Append(h, x), waiting \cup {[id |-> id, timer |-> timer]})
           /\ GotInv(Append(h, x), time) /\ DueInv(Append(h, x), time, map, queue, due)
  <1> DEFINE g == Append(h, x)
  <1>1. /\ Len(h) \in Nat /\ Len(g) = Len(h) + 1 /\ g[Len(h) + 1] = x
        /\ \A n \in 1..Len(h) : g[n] = h[n]
    OBVIOUS
  <1> HIDE DEF g
  <1>2. 1..Len(h) \subseteq 1..Len(g) /\ Len(h) + 1 \in 1..Len(g) /\ Len(h) + 1 \notin 1..Len(h)
    BY <1>1
  <1>3. \A n \in 1..Len(g) : n \in 1..Len(h) \/ n = Len(h) + 1
    BY <1>1
  <1>4. /\ x.start = time /\ x.duration = d /\ x.type = type /\ x.got = 0 /\ x.state = "new"
        /\ timer.arg = Len(h) + 1 /\ timer.timeout = time + d /\ timer.duration = d /\ timer.type = type
    OBVIOUS
  <1>5. DueInv(g, time, map, queue, due)
    BY <1>1, <1>2, DueExtended, Zenon
  <1>6. CallInv(g, waiting \cup {[id |-> id, timer |-> timer]})
    <2>1. \A c \in waiting : NewTimer(g, c.timer) /\ c.timer.arg # timer.arg
      BY <1>1, <1>2, <1>4, Zenon DEF CallInv, NewTimer
    <2>2. NewTimer(g, timer)
      BY <1>1, <1>2, <1>4, Zenon DEF NewTimer
    <2>3. [id |-> id, timer |-> timer].timer = timer
      OBVIOUS
    <2> QED BY <2>1, <2>2, <2>3, Zenon DEF CallInv
  <1>7. GotInv(g, time)
    <2>1. ASSUME NEW n \in 1..Len(h)
          PROVE  /\ g[n].got > 0 => time > Reached(g, n)
                 /\ g[n].type = TIMER_ONE_SHOT => g[n].got = 0 \/ (g[n].got = 1 /\ g[n].state = "set")
      BY <1>1, SameHistory, Zenon DEF GotInv
    <2>2. ~(g[Len(h) + 1].got > 0) /\ g[Len(h) + 1].got = 0
      BY <1>1, <1>4
    <2> QED BY <1>3, <2>1, <2>2, Zenon DEF GotInv
  <1> QED BY <1>5, <1>6, <1>7, Zenon DEF g

\* What writing the state of one timer changes.
Written(h, g, m, st) ==
    /\ Len(g) = Len(h) /\ g[m].state = st
    /\ \A n \in 1..Len(h) : n # m => g[n] = h[n]
    /\ \A n \in 1..Len(h) : /\ g[n].start = h[n].start /\ g[n].duration = h[n].duration
                            /\ g[n].type = h[n].type /\ g[n].got = h[n].got
                            /\ Reached(g, n) = Reached(h, n)

StateSet(h, m, st) == [h EXCEPT ![m].state = st]

MapSet(map, id, timer) == [map EXCEPT ![id] = timer]

LEMMA StateWritten ==
    ASSUME NEW h \in Seq(History), NEW m \in 1..Len(h), NEW st \in {"set", "removed", "replaced"}
    PROVE  Written(h, StateSet(h, m, st), m, st)
  <1>f. PICK g : g = StateSet(h, m, st)
    OBVIOUS
  <1>g. g = [h EXCEPT ![m].state = st]
    BY <1>f, Zenon DEF StateSet
  <1>1. h \in [1..Len(h) -> History] /\ Len(h) \in Nat
    OBVIOUS
  <1>2. DOMAIN g = 1..Len(h) /\ \A n \in 1..Len(h) : n # m => g[n] = h[n]
    BY <1>g, <1>1, Zenon
  <1>3. g[m] = [h[m] EXCEPT !.state = st] /\ h[m] \in History
    BY <1>g, <1>1, Zenon
  <1>4. g[m].state = st /\ g[m].start = h[m].start /\ g[m].duration = h[m].duration
        /\ g[m].type = h[m].type /\ g[m].got = h[m].got
    BY <1>3 DEF History
  <1>5. \A n \in 1..Len(h) : /\ g[n].start = h[n].start /\ g[n].duration = h[n].duration
                             /\ g[n].type = h[n].type /\ g[n].got = h[n].got
    BY <1>2, <1>4, Zenon
  <1>6. \A n \in 1..Len(h) : Reached(g, n) = Reached(h, n)
    BY <1>5, Zenon DEF Reached
  <1>7. Len(g) = Len(h)
    <2>1. g \in Seq(History)
      BY <1>g, HistoryType, Zenon
    <2>2. DOMAIN g = 1..Len(g) /\ Len(g) \in Nat
      BY <2>1
    <2> QED BY <1>1, <1>2, <2>2
  <1> QED BY <1>f, <1>2, <1>4, <1>5, <1>6, <1>7, Zenon DEF Written

\* A timer leaves timer_map before it was due: timer_remove(), or another timer
\* takes its id.
LEMMA DropKept ==
    ASSUME NEW h \in Seq(History), NEW waiting, NEW time \in Nat, NEW map \in MapType, NEW queue, NEW due,
           CallInv(h, waiting), GotInv(h, time), DueInv(h, time, map, queue, due),
           NEW id \in Active(map), NEW st \in {"removed", "replaced"},
           NEW g, g = StateSet(h, map[id].arg, st),
           NEW map2, map2 = MapSet(map, id, NoTimer)
    PROVE  CallInv(g, waiting) /\ GotInv(g, time) /\ DueInv(g, time, map2, queue, due)
  <1>m. PICK m : m = map[id].arg
    OBVIOUS
  <1>1. SetTimer(h, map[id])
    BY Zenon DEF DueInv, MapInv
  <1>2. /\ m \in 1..Len(h) /\ h[m].state = "set"
        /\ h[m].type = TIMER_ONE_SHOT => h[m].got = 0
    BY <1>m, <1>1, Zenon DEF SetTimer
  <1>3. /\ Len(g) = Len(h) /\ g[m].state = st
        /\ \A n \in 1..Len(h) : n # m => g[n] = h[n]
        /\ \A n \in 1..Len(h) : /\ g[n].start = h[n].start /\ g[n].duration = h[n].duration
                                /\ g[n].type = h[n].type /\ g[n].got = h[n].got
                                /\ Reached(g, n) = Reached(h, n)
    <2>1. Written(h, StateSet(h, m, st), m, st)
      BY <1>2, StateWritten, Zenon
    <2> QED BY <1>m, <2>1, Zenon DEF Written
  <1>4. CallInv(g, waiting)
    <2>1. \A c \in waiting : c.timer.arg # m /\ c.timer.arg \in 1..Len(h)
      BY <1>2, Zenon DEF CallInv, NewTimer
    <2>2. \A c \in waiting : NewTimer(h, c.timer) /\ g[c.timer.arg] = h[c.timer.arg]
      BY <1>3, <2>1, Zenon DEF CallInv
    <2>3. \A c \in waiting : NewTimer(g, c.timer)
      BY <1>3, <2>2, Zenon DEF NewTimer
    <2> QED BY <2>3, Zenon DEF CallInv
  <1>5. GotInv(g, time)
    <2>1. ASSUME NEW n \in 1..Len(h), n # m
          PROVE  /\ g[n].got > 0 => time > Reached(g, n)
                 /\ g[n].type = TIMER_ONE_SHOT => g[n].got = 0 \/ (g[n].got = 1 /\ g[n].state = "set")
      BY <1>3, <2>1, Zenon DEF GotInv
    <2>2. g[m].got > 0 => time > Reached(g, m)
      BY <1>2, <1>3, Zenon DEF GotInv
    <2>3. g[m].type = TIMER_ONE_SHOT => g[m].got = 0
      BY <1>2, <1>3, Zenon
    <2> QED BY <1>3, <2>1, <2>2, <2>3, Zenon DEF GotInv
  <1>6. \A k \in Active(map2) : k \in Active(map) /\ map2[k] = map[k] /\ map[k].arg # m
    <2>1. \A k \in TimerId : map2[k] = IF k = id THEN NoTimer ELSE map[k]
      BY Zenon DEF MapType, MapSet
    <2>2. \A k \in Active(map2) : k # id /\ k \in Active(map) /\ map2[k] = map[k]
      BY <2>1, Zenon DEF Active
    <2> QED BY <1>m, <2>2, Zenon DEF DueInv, MapInv
  <1>7. MapInv(g, map2)
    <2>1. ASSUME NEW k \in Active(map2) PROVE SetTimer(g, map2[k])
      <3>1. SetTimer(h, map[k])
        BY <1>6, Zenon DEF DueInv, MapInv
      <3>2. g[map[k].arg] = h[map[k].arg]
        BY <1>3, <1>6, <3>1, Zenon DEF SetTimer
      <3>3. SetTimer(g, map[k])
        <4>1. 1..Len(h) \subseteq 1..Len(g)
          BY <1>3, Zenon
        <4> QED BY <3>1, <3>2, <4>1, SetTimerSame, Zenon
      <3> QED BY <1>6, <3>3, Zenon
    <2>2. \A j, k \in Active(map2) : map2[j].arg = map2[k].arg => j = k
      <3>1. \A j, k \in Active(map) : map[j].arg = map[k].arg => j = k
        BY Zenon DEF DueInv, MapInv
      <3> QED BY <1>6, <3>1, Zenon
    <2> QED BY <2>1, <2>2, Zenon DEF MapInv
  <1>8. SetLater(g, map2, queue, due)
    <2>1. \A k \in Active(map2) : map[k].arg \in 1..Len(h)
      BY <1>6, Zenon DEF DueInv, MapInv, SetTimer
    <2>2. \A n \in 1..Len(h) : \A d, e : Apart(h, n, d, e) => Apart(g, n, d, e)
      BY <1>3, Zenon DEF Apart
    <2>3. ASSUME NEW k \in Active(map2), NEW i \in 1..Len(queue), queue[i] = map2[k].arg
          PROVE  Apart(g, queue[i], due[i], map2[k].timeout)
      <3>1. Apart(h, queue[i], due[i], map[k].timeout)
        BY <1>6, <2>3, Zenon DEF DueInv, SetLater
      <3> QED BY <1>6, <2>1, <2>2, <2>3, <3>1, Zenon
    <2> QED BY <2>3, Zenon DEF SetLater
  <1>9. QueueInv(g, time, queue, due)
    <2>1. ASSUME NEW i \in 1..Len(queue), queue[i] # 0
          PROVE  Waiting(g, time, queue[i], due[i]) /\ queue[i] \in 1..Len(h)
      <3>1. Waiting(h, time, queue[i], due[i])
        BY <2>1, Zenon DEF DueInv, QueueInv
      <3>2. CASE queue[i] # m
        BY <1>3, <3>1, <3>2, WaitingSame, Zenon DEF Waiting
      <3>3. CASE queue[i] = m
        <4>1. h[m].type = TIMER_PERIODIC
          BY <1>m, <3>3, Zenon DEF DueInv, SetLater, Apart
        <4> QED BY <1>3, <3>1, <3>3, <4>1 DEF Waiting
      <3> QED BY <3>2, <3>3
    <2> QED BY <1>3, <2>1, Zenon DEF DueInv, QueueInv, Apart
  <1> QED BY <1>4, <1>5, <1>7, <1>8, <1>9, Zenon DEF DueInv

\* timer_setup() puts the timer at an id that is not in use.
LEMMA InsertKept ==
    ASSUME NEW h \in Seq(History), NEW waiting, NEW time \in Nat, NEW map \in MapType,
           NEW queue, NEW due,
           CallInv(h, waiting), GotInv(h, time), DueInv(h, time, map, queue, due),
           NEW c \in waiting, c.id \in TimerId, map[c.id] = NoTimer,
           NEW g, g = StateSet(h, c.timer.arg, "set"),
           NEW map2, map2 = MapSet(map, c.id, c.timer), NEW left, left = waiting \ {c}
    PROVE  CallInv(g, left) /\ GotInv(g, time) /\ DueInv(g, time, map2, queue, due)
  <1>m. PICK m : m = c.timer.arg
    OBVIOUS
  <1>1. NewTimer(h, c.timer)
    BY Zenon DEF CallInv
  <1>2. m \in 1..Len(h) /\ h[m].state = "new" /\ h[m].got = 0
    BY <1>m, <1>1, Zenon DEF NewTimer
  <1>3. Written(h, g, m, "set")
    <2>1. Written(h, StateSet(h, m, "set"), m, "set")
      BY <1>2, StateWritten, Zenon
    <2> QED BY <1>m, <2>1, Zenon
  <1>4. /\ Len(g) = Len(h) /\ g[m].state = "set"
        /\ \A n \in 1..Len(h) : n # m => g[n] = h[n]
        /\ \A n \in 1..Len(h) : /\ g[n].start = h[n].start /\ g[n].duration = h[n].duration
                                /\ g[n].type = h[n].type /\ g[n].got = h[n].got
                                /\ Reached(g, n) = Reached(h, n)
    BY <1>3, Zenon DEF Written
  <1>5. CallInv(g, left)
    <2>1. ASSUME NEW d \in waiting, d # c PROVE NewTimer(g, d.timer)
      <3>1. NewTimer(h, d.timer) /\ d.timer.arg # m
        BY <1>m, <2>1, Zenon DEF CallInv
      <3>2. g[d.timer.arg] = h[d.timer.arg]
        BY <1>4, <3>1, Zenon DEF NewTimer
      <3> QED BY <1>4, <3>1, <3>2, Zenon DEF NewTimer
    <2> QED BY <2>1, Zenon DEF CallInv
  <1>6. GotInv(g, time)
    <2>1. ASSUME NEW n \in 1..Len(h)
          PROVE  /\ g[n].got > 0 => time > Reached(g, n)
                 /\ g[n].type = TIMER_ONE_SHOT => g[n].got = 0 \/ (g[n].got = 1 /\ g[n].state = "set")
      BY <1>2, <1>4, Zenon DEF GotInv
    <2> QED BY <1>4, <2>1, Zenon DEF GotInv
  <1>7. SetTimer(g, c.timer)
    <2>1. Reached(h, m) = h[m].start
      <3>1. \A a, b \in Nat : a + 0 * b = a
        OBVIOUS
      <3> QED BY <1>2, <3>1, HistoryTypes, Zenon DEF Reached
    <2>2. c.timer.timeout = h[m].start + h[m].duration /\ c.timer.duration = h[m].duration
          /\ c.timer.type = h[m].type
      BY <1>m, <1>1, Zenon DEF NewTimer
    <2>3. h[m].start \in Nat /\ h[m].duration \in Nat
      BY <1>2, HistoryTypes, Zenon
    <2>4. c.timer.timeout >= Reached(g, m) + c.timer.duration
      <3>1. Reached(g, m) = h[m].start
        BY <1>2, <1>4, <2>1, Zenon
      <3> QED BY <2>2, <2>3, <3>1
    <2> QED BY <1>m, <1>2, <1>4, <2>2, <2>4, Zenon DEF SetTimer
  <1>8. \A k \in Active(map2) : \/ k = c.id /\ map2[k] = c.timer
                                \/ /\ k # c.id /\ k \in Active(map) /\ map2[k] = map[k]
                                   /\ map[k].arg # m
    <2>1. \A k \in TimerId : map2[k] = IF k = c.id THEN c.timer ELSE map[k]
      BY Zenon DEF MapType, MapSet
    <2>2. \A k \in Active(map) : h[map[k].arg].state = "set"
      BY Zenon DEF DueInv, MapInv, SetTimer
    <2>3. \A k \in Active(map) : map[k].arg # m
      BY <1>2, <2>2
    <2> QED BY <2>1, <2>3, Zenon DEF Active
  <1>9. MapInv(g, map2)
    <2>1. ASSUME NEW k \in Active(map2) PROVE SetTimer(g, map2[k])
      <3>1. CASE map2[k] = c.timer
        BY <1>7, <3>1, Zenon
      <3>2. CASE k \in Active(map) /\ map2[k] = map[k] /\ map[k].arg # m
        <4>1. SetTimer(h, map[k])
          BY <3>2, Zenon DEF DueInv, MapInv
        <4>2. g[map[k].arg] = h[map[k].arg] /\ 1..Len(h) \subseteq 1..Len(g)
          BY <1>4, <3>2, <4>1, Zenon DEF SetTimer
        <4> QED BY <3>2, <4>1, <4>2, SetTimerSame, Zenon
      <3> QED BY <1>8, <3>1, <3>2, Zenon
    <2>2. \A j, k \in Active(map2) : map2[j].arg = map2[k].arg => j = k
      <3>1. \A j, k \in Active(map) : map[j].arg = map[k].arg => j = k
        BY Zenon DEF DueInv, MapInv
      <3> SUFFICES ASSUME NEW j \in Active(map2), NEW k \in Active(map2), map2[j].arg = map2[k].arg
                   PROVE  j = k
        BY Zenon
      <3>2. CASE map2[j].arg = m
        BY <1>8, <3>2, Zenon
      <3>3. CASE map2[j].arg # m
        <4>1. j \in Active(map) /\ map2[j] = map[j]
          BY <1>m, <1>8, <3>3, Zenon
        <4>2. k \in Active(map) /\ map2[k] = map[k]
          BY <1>m, <1>8, <3>3, Zenon
        <4> QED BY <3>1, <4>1, <4>2, Zenon
      <3> QED BY <3>2, <3>3
    <2> QED BY <2>1, <2>2, Zenon DEF MapInv
  <1>10. \A n \in 1..Len(h) : \A d, e : Apart(h, n, d, e) => Apart(g, n, d, e)
    BY <1>4, Zenon DEF Apart
  <1>11. ASSUME NEW i \in 1..Len(queue), queue[i] # 0
         PROVE  queue[i] # m /\ queue[i] \in 1..Len(h) /\ Waiting(g, time, queue[i], due[i])
    <2>1. Waiting(h, time, queue[i], due[i])
      BY <1>11, Zenon DEF DueInv, QueueInv
    <2>2. queue[i] # m /\ queue[i] \in 1..Len(h)
      BY <1>2, <2>1, Zenon DEF Waiting
    <2>3. g[queue[i]] = h[queue[i]] /\ 1..Len(h) \subseteq 1..Len(g)
      BY <1>4, <2>2, Zenon
    <2> QED BY <2>1, <2>2, <2>3, WaitingSame, Zenon
  <1>12. QueueInv(g, time, queue, due)
    BY <1>10, <1>11, Zenon DEF DueInv, QueueInv
  <1>13. SetLater(g, map2, queue, due)
    <2>1. ASSUME NEW k \in Active(map2), NEW i \in 1..Len(queue), queue[i] = map2[k].arg
          PROVE  Apart(g, queue[i], due[i], map2[k].timeout)
      <3>0. queue[i] # 0
        <4>1. map2[k].arg \in 1..Len(g)
          BY <1>9, Zenon DEF MapInv, SetTimer
        <4> QED BY <2>1, <4>1
      <3>1. k \in Active(map) /\ map2[k] = map[k]
        BY <1>m, <1>8, <1>11, <2>1, <3>0, Zenon
      <3>2. Apart(h, queue[i], due[i], map[k].timeout)
        BY <2>1, <3>1, Zenon DEF DueInv, SetLater
      <3> QED BY <1>10, <1>11, <3>0, <3>1, <3>2, Zenon
    <2> QED BY <2>1, Zenon DEF SetLater
  <1> QED BY <1>5, <1>6, <1>9, <1>12, <1>13, Zenon DEF DueInv

\* The clock goes on.
LEMMA TickKept ==
    ASSUME NEW h \in Seq(History), NEW time \in Nat, NEW map, NEW queue, NEW due,
           GotInv(h, time), DueInv(h, time, map, queue, due)
    PROVE  GotInv(h, time + 1) /\ DueInv(h, time + 1, map, queue, due)
  <1>1. GotInv(h, time + 1)
    <2>1. ASSUME NEW n \in 1..Len(h), h[n].got > 0 PROVE time + 1 > Reached(h, n)
      <3>1. Reached(h, n) \in Nat /\ time > Reached(h, n)
        BY <2>1, HistoryTypes, Zenon DEF GotInv
      <3> QED BY <3>1
    <2> QED BY <2>1, Zenon DEF GotInv
  <1>2. ASSUME NEW n, NEW i \in 1..Len(queue), Waiting(h, time, n, due[i]) PROVE Waiting(h, time + 1, n, due[i])
    <2>1. due[i] \in Nat
      BY DEF DueInv
    <2>2. due[i] < time + 1
      <3>1. due[i] < time
        BY <1>2, Zenon DEF Waiting
      <3> QED BY <2>1, <3>1
    <2> QED BY <1>2, <2>2, Zenon DEF Waiting
  <1>3. QueueInv(h, time + 1, queue, due)
    BY <1>2, Zenon DEF DueInv, QueueInv
  <1> QED BY <1>1, <1>3, Zenon DEF DueInv

\* Another message.
LEMMA SendKept ==
    ASSUME NEW h, NEW time, NEW map, NEW queue \in Seq(0..MaxTimer), NEW due,
           DueInv(h, time, map, queue, due)
    PROVE  \E due2 : DueInv(h, time, map, Append(queue, 0), due2)
  <1>q. PICK queue2 : queue2 = Append(queue, 0)
    OBVIOUS
  <1>d. PICK due2 : due2 = Append(due, 0)
    OBVIOUS
  <1>1. due \in Seq(Nat) /\ Len(due) = Len(queue) /\ Len(queue) \in Nat
    BY DEF DueInv
  <1>2. /\ Len(queue2) = Len(queue) + 1 /\ queue2[Len(queue) + 1] = 0
        /\ \A i \in 1..Len(queue) : queue2[i] = queue[i]
    BY <1>q, <1>1
  <1>3. /\ due2 \in Seq(Nat) /\ Len(due2) = Len(queue) + 1
        /\ \A i \in 1..Len(queue) : due2[i] = due[i]
    BY <1>d, <1>1
  <1>4. \A i \in 1..Len(queue2) : queue2[i] # 0 => i \in 1..Len(queue)
    BY <1>1, <1>2
  <1>5. QueueInv(h, time, queue2, due2)
    <2>1. \A i \in 1..Len(queue2) : queue2[i] # 0 => Waiting(h, time, queue2[i], due2[i])
      BY <1>2, <1>3, <1>4, Zenon DEF DueInv, QueueInv
    <2>2. ASSUME NEW i \in 1..Len(queue2), NEW j \in 1..Len(queue2),
                 i < j, queue2[i] = queue2[j], queue2[i] # 0
          PROVE  Apart(h, queue2[i], due2[i], due2[j])
      <3>1. i \in 1..Len(queue) /\ j \in 1..Len(queue)
        BY <1>4, <2>2, Zenon
      <3> QED BY <1>2, <1>3, <2>2, <3>1, Zenon DEF DueInv, QueueInv
    <2> QED BY <2>1, <2>2, Zenon DEF QueueInv
  <1>6. SetLater(h, map, queue2, due2)
    <2>1. \A id \in Active(map) : map[id].arg # 0
      <3>1. \A id \in Active(map) : map[id].arg \in 1..Len(h)
        BY Zenon DEF DueInv, MapInv, SetTimer
      <3> QED BY <3>1
    <2>2. ASSUME NEW id \in Active(map), NEW i \in 1..Len(queue2), queue2[i] = map[id].arg
          PROVE  Apart(h, queue2[i], due2[i], map[id].timeout)
      <3>1. i \in 1..Len(queue)
        BY <1>4, <2>1, <2>2, Zenon
      <3> QED BY <1>2, <1>3, <2>2, <3>1, Zenon DEF DueInv, SetLater
    <2> QED BY <2>2, Zenon DEF SetLater
  <1>7. DueInv(h, time, map, queue2, due2)
    BY <1>2, <1>3, <1>5, <1>6, Zenon DEF DueInv
  <1> QED BY <1>q, <1>7, Zenon

\* What counting a message received changes.
Counted(h, g, m) ==
    /\ Len(g) = Len(h) /\ g[m].got = h[m].got + 1
    /\ \A n \in 1..Len(h) : n # m => g[n] = h[n]
    /\ \A n \in 1..Len(h) : /\ g[n].start = h[n].start /\ g[n].duration = h[n].duration
                            /\ g[n].type = h[n].type /\ g[n].state = h[n].state
    /\ Reached(g, m) = Reached(h, m) + h[m].duration

LEMMA GotWritten ==
    ASSUME NEW h \in Seq(History), NEW m \in 1..Len(h)
    PROVE  Counted(h, [h EXCEPT ![m].got = @ + 1], m)
  <1>g. PICK g : g = [h EXCEPT ![m].got = h[m].got + 1]
    OBVIOUS
  <1>1. h \in [1..Len(h) -> History] /\ Len(h) \in Nat
    OBVIOUS
  <1>2. DOMAIN g = 1..Len(h) /\ \A n \in 1..Len(h) : n # m => g[n] = h[n]
    BY <1>g, <1>1, Zenon
  <1>3. g[m] = [h[m] EXCEPT !.got = h[m].got + 1] /\ h[m] \in History
    BY <1>g, <1>1, Zenon
  <1>4. g[m].got = h[m].got + 1 /\ g[m].start = h[m].start /\ g[m].duration = h[m].duration
        /\ g[m].type = h[m].type /\ g[m].state = h[m].state
    BY <1>3 DEF History
  <1>5. \A n \in 1..Len(h) : /\ g[n].start = h[n].start /\ g[n].duration = h[n].duration
                             /\ g[n].type = h[n].type /\ g[n].state = h[n].state
    BY <1>2, <1>4, Zenon
  <1>6. Reached(g, m) = Reached(h, m) + h[m].duration
    <2>1. \A a, b, c \in Nat : a + (b + 1) * c = (a + b * c) + c
      OBVIOUS
    <2>2. h[m].start \in Nat /\ h[m].got \in Nat /\ h[m].duration \in Nat
      BY HistoryTypes, Zenon
    <2>3. PICK a, b, c \in Nat : a = h[m].start /\ b = h[m].got /\ c = h[m].duration
      BY <2>2, Zenon
    <2>4. Reached(h, m) = a + b * c
      BY <2>3, Zenon DEF Reached
    <2>5. Reached(g, m) = a + (b + 1) * c
      BY <1>4, <2>3, Zenon DEF Reached
    <2>6. a + (b + 1) * c = (a + b * c) + c
      BY <2>1, Zenon
    <2>7. Reached(g, m) = Reached(h, m) + c
      BY <2>4, <2>5, <2>6
    <2> QED BY <2>3, <2>7, Zenon
  <1>7. Len(g) = Len(h)
    <2>1. \A n \in Nat : \A f : DOMAIN f = 1..n /\ f = [i \in 1..n |-> f[i]] => Len(f) = n
      OBVIOUS
    <2>2. g = [i \in 1..Len(h) |-> g[i]]
      BY <1>g, <1>1, Zenon
    <2> QED BY <1>1, <1>2, <2>1, <2>2, Zenon
  <1> QED BY <1>g, <1>2, <1>4, <1>5, <1>6, <1>7, Zenon DEF Counted

\* The task takes a message: its time was after all that was received so far.
LEMMA TakeKept ==
    ASSUME NEW h \in Seq(History), NEW waiting, NEW time \in Nat, NEW map \in MapType,
           NEW queue \in Seq(0..MaxTimer), queue # <<>>, NEW due,
           CallInv(h, waiting), GotInv(h, time), DueInv(h, time, map, queue, due),
           NEW g, Head(queue) = 0 => g = h,
           Head(queue) # 0 => g = [h EXCEPT ![Head(queue)].got = @ + 1]
    PROVE  CallInv(g, waiting) /\ GotInv(g, time) /\ \E due2 : DueInv(g, time, map, Tail(queue), due2)
  <1>q. PICK queue2 : queue2 = Tail(queue)
    OBVIOUS
  <1>d. PICK due2 : due2 = Tail(due)
    OBVIOUS
  <1>m. PICK m : m = Head(queue)
    OBVIOUS
  <1>1. due \in Seq(Nat) /\ Len(due) = Len(queue) /\ Len(queue) \in Nat \ {0} /\ m = queue[1]
    BY <1>m DEF DueInv
  <1>2. /\ Len(queue2) = Len(queue) - 1 /\ \A i \in 1..Len(queue2) : queue2[i] = queue[i + 1]
    BY <1>q, <1>1
  <1>3. /\ due2 \in Seq(Nat) /\ Len(due2) = Len(queue) - 1
        /\ \A i \in 1..Len(queue2) : due2[i] = due[i + 1]
    BY <1>d, <1>1, <1>2
  <1>4. \A i \in 1..Len(queue2) : i + 1 \in 1..Len(queue) /\ 1 < i + 1
    BY <1>1, <1>2
  <1>5. \A i, j \in 1..Len(queue2) : i < j => i + 1 < j + 1
    OBVIOUS
  <1>6. DueInv(h, time, map, queue2, due2)
    <2>1. ASSUME NEW i \in 1..Len(queue2), queue2[i] # 0 PROVE Waiting(h, time, queue2[i], due2[i])
      BY <1>2, <1>3, <1>4, <2>1, Zenon DEF DueInv, QueueInv
    <2>2. ASSUME NEW i \in 1..Len(queue2), NEW j \in 1..Len(queue2),
                 i < j, queue2[i] = queue2[j], queue2[i] # 0
          PROVE  Apart(h, queue2[i], due2[i], due2[j])
      <3>1. i + 1 < j + 1 /\ queue[i + 1] = queue[j + 1] /\ queue[i + 1] # 0
        BY <1>2, <1>5, <2>2, Zenon
      <3>2. Apart(h, queue[i + 1], due[i + 1], due[j + 1])
        BY <1>4, <3>1, Zenon DEF DueInv, QueueInv
      <3> QED BY <1>2, <1>3, <3>2, Zenon
    <2>3. SetLater(h, map, queue2, due2)
      <3>1. ASSUME NEW id \in Active(map), NEW i \in 1..Len(queue2), queue2[i] = map[id].arg
            PROVE  Apart(h, queue2[i], due2[i], map[id].timeout)
        <4>1. i + 1 \in 1..Len(queue) /\ queue[i + 1] = map[id].arg
          BY <1>2, <1>4, <3>1, Zenon
        <4>2. Apart(h, queue[i + 1], due[i + 1], map[id].timeout)
          BY <4>1, Zenon DEF DueInv, SetLater
        <4> QED BY <1>2, <1>3, <4>2, Zenon
      <3> QED BY <3>1, Zenon DEF SetLater
    <2>4. QueueInv(h, time, queue2, due2)
      BY <2>1, <2>2, Zenon DEF QueueInv
    <2> QED BY <1>2, <1>3, <2>3, <2>4, Zenon DEF DueInv
  <1>7. CASE m = 0
    BY <1>q, <1>m, <1>6, <1>7, Zenon
  <1>8. CASE m # 0
    <2>1. 1 \in 1..Len(queue)
      BY <1>1
    <2>2. Waiting(h, time, m, due[1])
      BY <1>1, <1>8, <2>1, Zenon DEF DueInv, QueueInv
    <2>3. Counted(h, g, m) /\ m \in 1..Len(h)
      <3>1. m \in 1..Len(h)
        BY <2>2, Zenon DEF Waiting
      <3>2. Counted(h, [h EXCEPT ![m].got = @ + 1], m)
        BY <3>1, GotWritten, Zenon
      <3>3. g = [h EXCEPT ![m].got = @ + 1]
        BY <1>m, <1>8, Zenon
      <3> QED BY <3>1, <3>2, <3>3, Zenon
    <2>4. /\ Len(g) = Len(h) /\ g[m].got = h[m].got + 1
          /\ \A n \in 1..Len(h) : n # m => g[n] = h[n] /\ Reached(g, n) = Reached(h, n)
          /\ \A n \in 1..Len(h) : /\ g[n].start = h[n].start /\ g[n].duration = h[n].duration
                                  /\ g[n].type = h[n].type /\ g[n].state = h[n].state
          /\ Reached(g, m) = Reached(h, m) + h[m].duration
      BY <2>3, Zenon DEF Counted, Reached
    <2>5. due[1] \in Nat /\ h[m].duration \in Nat /\ h[m].got \in Nat /\ Reached(h, m) \in Nat
      BY <1>1, <2>1, <2>3, HistoryTypes
    <2>6. /\ due[1] < time /\ due[1] >= Reached(h, m) + h[m].duration
          /\ h[m].type = TIMER_ONE_SHOT => h[m].got = 0 /\ h[m].state = "set"
          /\ h[m].state # "new"
      BY <2>2, Zenon DEF Waiting
    <2>7. time > Reached(g, m) /\ Reached(g, m) \in Nat /\ due[1] >= Reached(g, m)
      <3>1. /\ Reached(g, m) = Reached(h, m) + h[m].duration
            /\ due[1] < time /\ due[1] >= Reached(h, m) + h[m].duration
        BY <2>4, <2>6, Zenon
      <3>2. time \in Nat
        OBVIOUS
      <3>3. ASSUME NEW a \in Nat, NEW c \in Nat, NEW d \in Nat, NEW e \in Nat, NEW x,
                   x = a + c, d < e, d >= a + c
            PROVE  e > x /\ x \in Nat /\ d >= x
        BY <3>3
      <3> QED BY <2>5, <3>1, <3>2, <3>3, Zenon
    <2>8. CallInv(g, waiting)
      <3>1. ASSUME NEW c \in waiting PROVE NewTimer(g, c.timer)
        <4>1. NewTimer(h, c.timer)
          BY Zenon DEF CallInv
        <4>2. g[c.timer.arg] = h[c.timer.arg]
          BY <2>4, <2>6, <4>1, Zenon DEF NewTimer
        <4> QED BY <2>4, <4>1, <4>2, Zenon DEF NewTimer
      <3> QED BY <3>1, Zenon DEF CallInv
    <2>9. GotInv(g, time)
      <3>1. ASSUME NEW n \in 1..Len(h), n # m
            PROVE  /\ g[n].got > 0 => time > Reached(g, n)
                   /\ g[n].type = TIMER_ONE_SHOT => g[n].got = 0 \/ (g[n].got = 1 /\ g[n].state = "set")
        BY <2>4, <3>1, Zenon DEF GotInv
      <3>2. g[m].type = TIMER_ONE_SHOT => g[m].got = 1 /\ g[m].state = "set"
        <4>1. h[m].got = 0 => h[m].got + 1 = 1
          OBVIOUS
        <4> QED BY <2>3, <2>4, <2>6, <4>1, Zenon
      <3> QED BY <2>4, <2>7, <3>1, <3>2, Zenon DEF GotInv
    <2>10. MapInv(g, map)
      <3>1. ASSUME NEW id \in Active(map) PROVE SetTimer(g, map[id])
        <4>1. SetTimer(h, map[id])
          BY Zenon DEF DueInv, MapInv
        <4>2. CASE map[id].arg # m
          <5>1. g[map[id].arg] = h[map[id].arg] /\ 1..Len(h) \subseteq 1..Len(g)
            BY <2>4, <4>1, <4>2, Zenon DEF SetTimer
          <5> QED BY <4>1, <5>1, SetTimerSame, Zenon
        <4>3. CASE map[id].arg = m
          <5>1. Apart(h, m, due[1], map[id].timeout)
            BY <1>1, <2>1, <4>3, Zenon DEF DueInv, SetLater
          <5>2. map[id].timeout >= due[1] + h[m].duration /\ h[m].type = TIMER_PERIODIC
            BY <5>1, Zenon DEF Apart
          <5>3. map[id].timeout \in Nat /\ map[id].duration = h[m].duration
            BY <4>1, <4>3, ActiveTypes, Zenon DEF SetTimer
          <5>4. map[id].timeout >= Reached(g, m) + map[id].duration
            <6>1. ASSUME NEW a \in Nat, NEW c \in Nat, NEW d \in Nat, NEW e \in Nat, a >= d + c, d >= e
                  PROVE  a >= e + c
              BY <6>1
            <6> QED BY <2>5, <2>7, <5>2, <5>3, <6>1, Zenon
          <5>5. map[id].type # TIMER_ONE_SHOT
            <6>1. map[id].type = TIMER_PERIODIC
              BY <4>1, <4>3, <5>2, Zenon DEF SetTimer
            <6> QED BY <6>1
          <5> QED BY <2>4, <4>1, <4>3, <5>4, <5>5, Zenon DEF SetTimer
        <4> QED BY <4>2, <4>3
      <3> QED BY <3>1, Zenon DEF DueInv, MapInv
    <2>11. \A n \in 1..Len(h) : \A d, e : Apart(h, n, d, e) => Apart(g, n, d, e)
      BY <2>4, Zenon DEF Apart
    <2>12. ASSUME NEW i \in 1..Len(queue2), queue2[i] # 0
           PROVE  Waiting(g, time, queue2[i], due2[i]) /\ queue2[i] \in 1..Len(h)
      <3>1. Waiting(h, time, queue2[i], due2[i])
        BY <1>6, <2>12, Zenon DEF DueInv, QueueInv
      <3>2. CASE queue2[i] # m
        <4>1. g[queue2[i]] = h[queue2[i]] /\ 1..Len(h) \subseteq 1..Len(g)
          BY <2>4, <3>1, <3>2, Zenon DEF Waiting
        <4> QED BY <3>1, <4>1, WaitingSame, Zenon DEF Waiting
      <3>3. CASE queue2[i] = m
        <4>1. Apart(h, m, due[1], due2[i])
          <5>1. i + 1 \in 1..Len(queue) /\ 1 < i + 1 /\ queue[i + 1] = m /\ due2[i] = due[i + 1]
            BY <1>2, <1>3, <1>4, <3>3, Zenon
          <5> QED BY <1>1, <1>8, <2>1, <5>1, Zenon DEF DueInv, QueueInv
        <4>2. due2[i] >= due[1] + h[m].duration /\ h[m].type = TIMER_PERIODIC
          BY <4>1, Zenon DEF Apart
        <4>3. due2[i] \in Nat
          <5>1. i \in 1..Len(due2) /\ due2 \in Seq(Nat)
            BY <1>2, <1>3, Zenon
          <5> QED BY <5>1
        <4>4. due2[i] >= Reached(g, m) + h[m].duration
          <5>1. ASSUME NEW a \in Nat, NEW c \in Nat, NEW d \in Nat, NEW e \in Nat, a >= d + c, d >= e
                PROVE  a >= e + c
            BY <5>1
          <5> QED BY <2>5, <2>7, <4>2, <4>3, <5>1, Zenon
        <4>5. g[m].type # TIMER_ONE_SHOT
          <5>1. g[m].type = TIMER_PERIODIC
            BY <2>3, <2>4, <4>2, Zenon
          <5> QED BY <5>1
        <4>6. g[m].duration = h[m].duration /\ g[m].state # "new"
          BY <2>3, <2>4, <2>6, Zenon
        <4> QED BY <2>3, <2>4, <3>1, <3>3, <4>4, <4>5, <4>6, Zenon DEF Waiting
      <3> QED BY <3>2, <3>3
    <2>13. QueueInv(g, time, queue2, due2)
      BY <1>6, <2>11, <2>12, Zenon DEF DueInv, QueueInv
    <2>14. SetLater(g, map, queue2, due2)
      <3>1. ASSUME NEW id \in Active(map), NEW i \in 1..Len(queue2), queue2[i] = map[id].arg
            PROVE  Apart(g, queue2[i], due2[i], map[id].timeout)
        <4>1. Apart(h, queue2[i], due2[i], map[id].timeout)
          BY <1>6, <3>1, Zenon DEF DueInv, SetLater
        <4>2. queue2[i] \in 1..Len(h)
          BY <3>1, Zenon DEF DueInv, MapInv, SetTimer
        <4> QED BY <2>11, <4>1, <4>2, Zenon
      <3> QED BY <3>1, Zenon DEF SetLater
    <2>15. DueInv(g, time, map, queue2, due2)
      BY <1>6, <2>10, <2>13, <2>14, Zenon DEF DueInv
    <2> QED BY <1>q, <2>8, <2>9, <2>15, Zenon
  <1> QED BY <1>7, <1>8

LEMMA SeqMono ==
    ASSUME NEW S, NEW T, S \subseteq T, NEW s \in Seq(S)
    PROVE  s \in Seq(T)
  OBVIOUS

LEMMA ConcatFacts ==
    ASSUME NEW S, NEW s \in Seq(S), NEW t \in Seq(S),
           NEW l \in Nat, NEW k \in Nat, l = Len(s), k = Len(t),
           NEW st, st = s \o t
    PROVE  /\ st \in Seq(S) /\ Len(st) = l + k
           /\ \A i \in 1..l : st[i] = s[i]
           /\ \A i \in 1..k : st[l + i] = t[i]
  OBVIOUS

\* A part of the loop over timer_map: messages for timers that are due.
LEMMA ExpireKept ==
    ASSUME NEW h \in Seq(History), NEW time \in Nat, NEW map \in MapType,
           NEW queue \in Seq(0..MaxTimer), NEW due, DueInv(h, time, map, queue, due),
           NEW ids \in SUBSET Active(map), \A id \in ids : map[id].timeout < time,
           NEW q \in Orders(ids), NEW msgs, msgs = [i \in DOMAIN q |-> map[q[i]].arg]
    PROVE  \E due2 : DueInv(h, time, Expired(map, ids), queue \o msgs, due2)
  <1>m. PICK map2 : map2 = Expired(map, ids)
    OBVIOUS
  <1>q. PICK queue2 : queue2 = queue \o msgs
    OBVIOUS
  <1>t. PICK times : times = [i \in DOMAIN q |-> map[q[i]].timeout]
    OBVIOUS
  <1>d. PICK due2 : due2 = due \o times
    OBVIOUS
  <1>1. PICK k \in Nat : q \in [1..k -> ids]
    <2>1. Cardinality(ids) \in Nat
      BY TimerAssumption, FS_Subset, FS_CardinalityType, Zenon DEF Active
    <2>2. q \in [1..Cardinality(ids) -> ids]
      BY Zenon DEF Orders
    <2> QED BY <2>1, <2>2, Zenon
  <1>2. \A i, j \in 1..k : q[i] = q[j] => i = j
    BY <1>1, Zenon DEF Orders
  <1>3. \A i \in 1..k : /\ q[i] \in ids /\ q[i] \in Active(map) /\ msgs[i] = map[q[i]].arg
                        /\ times[i] = map[q[i]].timeout /\ times[i] \in Nat
                        /\ msgs[i] \in 1..MaxTimer /\ times[i] < time
    <2>1. \A i \in 1..k : q[i] \in ids /\ q[i] \in Active(map)
      BY <1>1, Zenon
    <2>2. \A i \in 1..k : msgs[i] = map[q[i]].arg /\ times[i] = map[q[i]].timeout
      BY <1>1, <1>t, Zenon
    <2> QED BY <2>1, <2>2, ActiveTypes, Zenon
  <1>4. msgs \in Seq(1..MaxTimer) /\ Len(msgs) = k /\ times \in Seq(Nat) /\ Len(times) = k
    <2>1. msgs \in [1..k -> 1..MaxTimer] /\ times \in [1..k -> Nat]
      BY <1>1, <1>t, <1>3, Zenon
    <2>2. \A S : \A f \in [1..k -> S] : f \in Seq(S) /\ Len(f) = k
      BY <1>1, SeqDef, LenProperties
    <2> QED BY <2>1, <2>2, Zenon
  <1>5. due \in Seq(Nat) /\ Len(due) = Len(queue) /\ Len(queue) \in Nat
    BY DEF DueInv
  <1>l. PICK l \in Nat : l = Len(queue)
    BY <1>5
  <1>6. /\ Len(queue2) = l + k
        /\ \A i \in 1..l : queue2[i] = queue[i]
        /\ \A i \in 1..k : queue2[l + i] = msgs[i]
    <2>1. msgs \in Seq(0..MaxTimer)
      <3>1. 1..MaxTimer \subseteq 0..MaxTimer
        OBVIOUS
      <3> QED BY <1>4, <3>1, SeqMono, Zenon
    <2> QED BY <1>q, <1>l, <1>4, <2>1, ConcatFacts
  <1>7. /\ due2 \in Seq(Nat) /\ Len(due2) = l + k
        /\ \A i \in 1..l : due2[i] = due[i]
        /\ \A i \in 1..k : due2[l + i] = times[i]
    <2>1. l = Len(due) /\ k = Len(times)
      BY <1>l, <1>4, <1>5, Zenon
    <2>2. due \in Seq(Nat) /\ times \in Seq(Nat)
      BY <1>4, <1>5, Zenon
    <2> QED BY <1>d, <2>1, <2>2, ConcatFacts
  <1>8. ASSUME NEW i \in 1..(l + k) PROVE i \in 1..l \/ \E j \in 1..k : i = l + j
    <2>1. i \in 1..l \/ (i - l \in 1..k /\ i = l + (i - l))
      OBVIOUS
    <2> QED BY <2>1, Zenon
  <1>9. \A id \in Active(map) : SetTimer(h, map[id])
    BY Zenon DEF DueInv, MapInv
  <1>10. \A id, j \in Active(map) : map[id].arg = map[j].arg => id = j
    BY Zenon DEF DueInv, MapInv
  <1>11. \A id \in Active(map2) : /\ id \in Active(map)
                                  /\ id \notin ids => map2[id] = map[id]
                                  /\ id \in ids => /\ map[id].type = TIMER_PERIODIC
                                                   /\ map2[id].timeout = map[id].timeout + map[id].duration
                                  /\ map2[id].arg = map[id].arg
                                  /\ map2[id].duration = map[id].duration
                                  /\ map2[id].type = map[id].type
    BY <1>m, ExpiredFacts, Zenon
  <1>12. MapInv(h, map2)
    <2>1. ASSUME NEW id \in Active(map2) PROVE SetTimer(h, map2[id])
      <3>1. SetTimer(h, map[id]) /\ id \in Active(map)
        BY <1>9, <1>11, Zenon
      <3>2. CASE id \notin ids
        BY <1>11, <3>1, <3>2, Zenon
      <3>3. CASE id \in ids
        <4>1. /\ map[id].timeout >= Reached(h, map[id].arg) + map[id].duration
              /\ map[id].arg \in 1..Len(h)
          BY <3>1, Zenon DEF SetTimer
        <4>2. map[id].timeout \in Nat /\ map[id].duration \in Nat /\ Reached(h, map[id].arg) \in Nat
          BY <3>1, <4>1, ActiveTypes, HistoryTypes, Zenon
        <4>3. map[id].timeout + map[id].duration >= Reached(h, map[id].arg) + map[id].duration
          BY <4>1, <4>2
        <4> QED BY <1>11, <3>1, <3>3, <4>3, Zenon DEF SetTimer
      <3> QED BY <3>2, <3>3
    <2>2. \A id, j \in Active(map2) : map2[id].arg = map2[j].arg => id = j
      BY <1>10, <1>11, Zenon
    <2> QED BY <2>1, <2>2, Zenon DEF MapInv
  <1>13. ASSUME NEW i \in 1..(l + k), queue2[i] # 0 PROVE Waiting(h, time, queue2[i], due2[i])
    <2>1. CASE i \in 1..l
      BY <1>l, <1>6, <1>7, <1>13, <2>1, Zenon DEF DueInv, QueueInv
    <2>2. ASSUME NEW j \in 1..k, i = l + j PROVE Waiting(h, time, queue2[i], due2[i])
      <3>1. SetTimer(h, map[q[j]])
        BY <1>3, <1>9, Zenon
      <3>2. Waiting(h, time, map[q[j]].arg, map[q[j]].timeout)
        <4>1. h[map[q[j]].arg].state # "new"
          <5>1. h[map[q[j]].arg].state = "set"
            BY <3>1, Zenon DEF SetTimer
          <5> QED BY <5>1
        <4> QED BY <1>3, <3>1, <4>1, Zenon DEF SetTimer, Waiting
      <3> QED BY <1>3, <1>6, <1>7, <2>2, <3>2, Zenon
    <2> QED BY <1>8, <2>1, <2>2, Zenon
  <1>14. ASSUME NEW i \in 1..(l + k), NEW j \in 1..(l + k),
                i < j, queue2[i] = queue2[j], queue2[i] # 0
         PROVE  Apart(h, queue2[i], due2[i], due2[j])
    <2>1. CASE j \in 1..l
      <3>1. i \in 1..l
        BY <1>14, <2>1
      <3> QED BY <1>l, <1>6, <1>7, <1>14, <2>1, <3>1, Zenon DEF DueInv, QueueInv
    <2>2. ASSUME NEW b \in 1..k, j = l + b PROVE Apart(h, queue2[i], due2[i], due2[j])
      <3>1. queue2[j] = map[q[b]].arg /\ due2[j] = map[q[b]].timeout /\ q[b] \in Active(map)
        BY <1>3, <1>6, <1>7, <2>2, Zenon
      <3>2. CASE i \in 1..l
        <4>1. queue[i] = map[q[b]].arg
          BY <1>6, <1>14, <3>1, <3>2, Zenon
        <4>2. Apart(h, queue[i], due[i], map[q[b]].timeout)
          BY <1>l, <3>1, <3>2, <4>1, Zenon DEF DueInv, SetLater
        <4> QED BY <1>6, <1>7, <3>1, <3>2, <4>2, Zenon
      <3>3. ASSUME NEW a \in 1..k, i = l + a PROVE FALSE
        <4>1. map[q[a]].arg = map[q[b]].arg /\ q[a] \in Active(map)
          BY <1>3, <1>6, <1>14, <3>1, <3>3, Zenon
        <4>2. a = b
          BY <1>2, <1>10, <3>1, <4>1, Zenon
        <4> QED BY <1>14, <2>2, <3>3, <4>2
      <3> QED BY <1>8, <3>2, <3>3, Zenon
    <2> QED BY <1>8, <2>1, <2>2, Zenon
  <1>15. QueueInv(h, time, queue2, due2)
    BY <1>6, <1>13, <1>14, Zenon DEF QueueInv
  <1>16. ASSUME NEW id \in Active(map2), NEW i \in 1..(l + k), queue2[i] = map2[id].arg
         PROVE  Apart(h, queue2[i], due2[i], map2[id].timeout)
    <2>1. /\ id \in Active(map) /\ queue2[i] = map[id].arg
          /\ map[id].timeout \in Nat /\ map[id].duration \in Nat
          /\ h[map[id].arg].duration = map[id].duration /\ h[map[id].arg].type = map[id].type
      BY <1>9, <1>11, <1>16, ActiveTypes, Zenon DEF SetTimer
    <2>2. CASE i \in 1..l
      <3>1. Apart(h, queue2[i], due2[i], map[id].timeout)
        BY <1>l, <1>6, <1>7, <2>1, <2>2, Zenon DEF DueInv, SetLater
      <3>2. CASE id \notin ids
        BY <1>11, <3>1, <3>2, Zenon
      <3>3. CASE id \in ids
        <4>1. due2[i] \in Nat
          <5>1. i \in 1..Len(due2)
            BY <1>7, Zenon
          <5> QED BY <1>7, <5>1
        <4>2. map[id].timeout >= due2[i] + map[id].duration /\ h[map[id].arg].type = TIMER_PERIODIC
          BY <2>1, <3>1, Zenon DEF Apart
        <4>3. map[id].timeout + map[id].duration >= due2[i] + map[id].duration
          BY <2>1, <4>1, <4>2
        <4> QED BY <1>11, <2>1, <3>3, <4>2, <4>3, Zenon DEF Apart
      <3> QED BY <3>2, <3>3
    <2>3. ASSUME NEW j \in 1..k, i = l + j PROVE Apart(h, queue2[i], due2[i], map2[id].timeout)
      <3>0. q[j] \in ids /\ map[q[j]].arg = map[id].arg /\ due2[i] = map[q[j]].timeout
        <4>1. queue2[i] = msgs[j] /\ due2[i] = times[j]
          BY <1>6, <1>7, <2>3, Zenon
        <4> QED BY <1>3, <2>1, <4>1, Zenon
      <3>1. q[j] = id /\ due2[i] = map[id].timeout /\ id \in ids
        BY <1>10, <2>1, <3>0, Zenon
      <3>2. map2[id].timeout = map[id].timeout + map[id].duration /\ map[id].type = TIMER_PERIODIC
        BY <1>11, <3>1, Zenon
      <3>3. map2[id].timeout >= map[id].timeout + map[id].duration
        BY <2>1, <3>2
      <3> QED BY <2>1, <3>1, <3>2, <3>3, Zenon DEF Apart
    <2> QED BY <1>8, <2>2, <2>3, Zenon
  <1>17. SetLater(h, map2, queue2, due2)
    BY <1>6, <1>16, Zenon DEF SetLater
  <1>18. DueInv(h, time, map2, queue2, due2)
    BY <1>6, <1>7, <1>12, <1>15, <1>17, Zenon DEF DueInv
  <1> QED BY <1>m, <1>q, <1>18, Zenon

LEMMA ExpireTimersKept ==
    ASSUME TypeOK, ExpireTimers, NEW due, DueInv(timers, now, timer_map, message_queue, due)
    PROVE  \E due2 : DueInv(timers, now, timer_map', message_queue', due2)
  <1>t. PICK h, time, map, queue : h = timers /\ time = now /\ map = timer_map /\ queue = message_queue
    OBVIOUS
  <1>1. h \in Seq(History) /\ time \in Nat /\ map \in MapType /\ queue \in Seq(0..MaxTimer)
    BY <1>t, Zenon DEF TypeOK, MapType
  <1>2. PICK seen \in Seen(timer_map) : \E ids, map2, again, q, r :
           LoopStep(seen, ids, map2, again, q, r) /\ LoopSets(seen, ids, map2, again)
    BY LoopFacts
  <1>3. PICK ids, map2, again, q, r :
           LoopStep(seen, ids, map2, again, q, r) /\ LoopSets(seen, ids, map2, again)
    BY <1>2, Zenon
  <1>m. map2 = Expired(map, ids) /\ r \in Orders(again)
    BY <1>t, <1>3, Zenon DEF LoopStep
  <1>a. PICK first : first = Messages(q)
    OBVIOUS
  <1>b. PICK second : second = Messages(r)
    OBVIOUS
  <1>q. PICK queue2 : queue2 = queue \o first
    OBVIOUS
  <1>4. /\ ids \in SUBSET Active(map) /\ again \in SUBSET Active(map2)
        /\ q \in Orders(ids)
        /\ \A id \in ids : map[id].timeout < time
        /\ \A id \in again : map2[id].timeout < time
    <2>1. \A id \in ids : map[id].timeout < time
      BY <1>t, <1>3, Zenon DEF LoopStep, DueIn, IsDue
    <2>2. again \in SUBSET DueIn(map2)
      <3>1. again \in Again(timer_map, ids) /\ map2 = Expired(timer_map, ids)
        BY <1>3, Zenon DEF LoopStep
      <3> QED BY <3>1, AgainWasActive, SMT
    <2>3. \A id \in again : map2[id].timeout < time
      BY <1>t, <2>2, Zenon DEF DueIn, IsDue
    <2> QED BY <1>t, <1>3, <2>1, <2>3, Zenon DEF LoopStep, LoopSets
  <1>5. map2 \in MapType
    BY <1>1, <1>4, <1>m, ExpiredType, Zenon DEF MapType
  <1>6. first = [i \in DOMAIN q |-> map[q[i]].arg]
    BY <1>t, <1>a, Zenon DEF Messages
  <1>7. second = [i \in DOMAIN r |-> map2[r[i]].arg]
    <2>1. second = [i \in DOMAIN r |-> map[r[i]].arg]
      BY <1>t, <1>b, Zenon DEF Messages
    <2>2. ASSUME NEW i \in DOMAIN r PROVE map2[r[i]].arg = map[r[i]].arg
      <3>1. r[i] \in again
        BY <1>m, <2>2, Zenon DEF Orders
      <3> QED BY <1>1, <1>4, <1>m, <3>1, ExpiredFacts, Zenon
    <2> QED BY <2>1, <2>2, Zenon
  <1>8. queue2 \in Seq(0..MaxTimer)
    <2>1. first \in Seq(0..MaxTimer)
      BY <1>a, <1>t, <1>4, MessagesType, Zenon
    <2> QED BY <1>1, <1>q, <2>1
  <1>9. DueInv(h, time, map, queue, due)
    BY <1>t, Zenon
  <1>10. PICK due1 : DueInv(h, time, map2, queue2, due1)
    BY <1>1, <1>4, <1>6, <1>9, <1>m, <1>q, ExpireKept, Zenon
  <1>11. \E due2 : DueInv(h, time, Expired(map2, again), queue2 \o second, due2)
    BY <1>1, <1>4, <1>5, <1>7, <1>8, <1>10, <1>m, ExpireKept, Zenon
  <1> QED BY <1>3, <1>11, <1>t, <1>a, <1>b, <1>q, Zenon DEF LoopStep

LEMMA GetEventsKept ==
    ASSUME TypeOK, HistoryInv, NEW label, GetEvents(label)
    PROVE  HistoryInv'
  <1>1. timers' = timers /\ calls' = calls /\ now' = now
    BY Zenon DEF GetEvents, Sleep, Crash
  <1>2. PICK due : DueInv(timers, now, timer_map, message_queue, due)
    BY Zenon DEF HistoryInv
  <1>3. \E due2 : DueInv(timers, now, timer_map', message_queue', due2)
    <2>1. CASE Sleep(label) /\ next_timer < now
      BY <1>2, <2>1, ExpireTimersKept, Zenon DEF Sleep
    <2>2. CASE Sleep(label) /\ ~(next_timer < now)
      BY <1>2, <2>2, Zenon DEF Sleep
    <2>3. CASE Crash
      BY <1>2, <2>3, Zenon DEF Crash
    <2> QED BY <2>1, <2>2, <2>3, Zenon DEF GetEvents
  <1> QED BY <1>1, <1>3, Zenon DEF HistoryInv

\* timer_setup()'s second part: what was at the id goes, the new timer is set.
LEMMA SetupInsertKept ==
    ASSUME TypeOK, HistoryInv, NEW c \in calls, SetupInsert(c)
    PROVE  HistoryInv'
  <1>t. PICK h, time, map, queue, waiting :
           h = timers /\ time = now /\ map = timer_map /\ queue = message_queue /\ waiting = calls
    OBVIOUS
  <1>1. h \in Seq(History) /\ time \in Nat /\ map \in MapType /\ c \in waiting /\ c.id \in TimerId
    <2>1. c \in [id : TimerId, timer : Timer]
      BY Zenon DEF TypeOK
    <2>2. c.id \in TimerId
      BY <2>1, Zenon
    <2> QED BY <1>t, <2>2, Zenon DEF TypeOK, MapType
  <1>2. PICK due : CallInv(h, waiting) /\ GotInv(h, time) /\ DueInv(h, time, map, queue, due)
    BY <1>t, Zenon DEF HistoryInv
  <1>g. PICK g : g = Replaced(c.id)
    OBVIOUS
  <1>h. PICK h2 : h2 = timers'
    OBVIOUS
  <1>l. PICK left : left = calls \ {c}
    OBVIOUS
  <1>m. PICK map2 : map2 = timer_map'
    OBVIOUS
  <1>3. /\ map2 = MapSet(map, c.id, c.timer) /\ h2 = StateSet(g, c.timer.arg, "set")
        /\ left = waiting \ {c} /\ calls' = left /\ now' = time /\ message_queue' = queue
    BY <1>t, <1>g, <1>h, <1>m, <1>l, Zenon DEF SetupInsert, StateSet, MapSet
  <1>4. CallInv(h2, left) /\ GotInv(h2, time) /\ DueInv(h2, time, map2, queue, due)
    <2>1. CASE map[c.id] = NoTimer
      <3>1. g = h
        BY <1>t, <1>g, <2>1, Zenon DEF Replaced
      <3>2. CallInv(g, waiting) /\ GotInv(g, time) /\ DueInv(g, time, map, queue, due)
        BY <1>2, <3>1, Zenon
      <3>3. g \in Seq(History) /\ map \in MapType /\ time \in Nat
        BY <1>1, <3>1, Zenon
      <3>4. /\ map2 = MapSet(map, c.id, c.timer) /\ h2 = StateSet(g, c.timer.arg, "set")
            /\ left = waiting \ {c}
        BY <1>3, Zenon
      <3>5. c \in waiting /\ c.id \in TimerId /\ map[c.id] = NoTimer
        BY <1>1, <2>1, Zenon
      <3> QED BY <3>2, <3>3, <3>4, <3>5, InsertKept
    <2>2. CASE map[c.id] # NoTimer
      <3>m. PICK map1 : map1 = MapSet(map, c.id, NoTimer)
        OBVIOUS
      <3>1. g = StateSet(h, map[c.id].arg, "replaced")
        BY <1>t, <1>g, <2>2, Zenon DEF Replaced, StateSet
      <3>2. c.id \in Active(map)
        BY <1>1, <2>2, Zenon DEF Active
      <3>3. CallInv(g, waiting) /\ GotInv(g, time) /\ DueInv(g, time, map1, queue, due)
        BY <1>1, <1>2, <3>m, <3>1, <3>2, DropKept
      <3>4. g \in Seq(History)
        BY <1>1, <3>1, HistoryType, Zenon DEF StateSet
      <3>5. map1 \in MapType /\ map1[c.id] = NoTimer /\ map2 = MapSet(map1, c.id, c.timer)
        <4>1. map1 \in MapType
          BY <1>1, <3>m, Zenon DEF MapType, MapSet
        <4>2. map1[c.id] = NoTimer
          BY <1>1, <3>m, Zenon DEF MapType, MapSet
        <4>3. map2 = MapSet(map1, c.id, c.timer)
          BY <1>1, <1>3, <3>m, Zenon DEF MapType, MapSet
        <4> QED BY <4>1, <4>2, <4>3
      <3> QED BY <1>1, <1>3, <3>3, <3>4, <3>5, InsertKept
    <2> QED BY <2>1, <2>2
  <1> QED BY <1>3, <1>4, <1>h, <1>m, Zenon DEF HistoryInv

LEMMA HistoryStep ==
    ASSUME TypeOK, HistoryInv, [Next]_vars
    PROVE  HistoryInv'
  <1>t. PICK h, time, map, queue, waiting :
           h = timers /\ time = now /\ map = timer_map /\ queue = message_queue /\ waiting = calls
    OBVIOUS
  <1>0. /\ h \in Seq(History) /\ time \in Nat /\ map \in MapType /\ queue \in Seq(0..MaxTimer)
    BY <1>t, Zenon DEF TypeOK, MapType
  <1>d. PICK due : CallInv(h, waiting) /\ GotInv(h, time) /\ DueInv(h, time, map, queue, due)
    BY <1>t, Zenon DEF HistoryInv
  <1>1. ASSUME NEW id \in TimerId, NEW d \in Duration,
               NEW type \in {TIMER_PERIODIC, TIMER_ONE_SHOT}, SetupBegin(id, d, type)
        PROVE  HistoryInv'
    <2>x. PICK x : x = [start |-> time, duration |-> d, type |-> type, got |-> 0, state |-> "new"]
      OBVIOUS
    <2>y. PICK y : y = [arg |-> Len(h) + 1, timeout |-> time + d, duration |-> d, type |-> type]
      OBVIOUS
    <2>1. /\ timers' = Append(h, x) /\ calls' = waiting \cup {[id |-> id, timer |-> y]}
          /\ now' = time /\ timer_map' = map /\ message_queue' = queue
      BY <1>t, <1>1, <2>x, <2>y, Zenon DEF SetupBegin
    <2>2. /\ CallInv(Append(h, x), waiting \cup {[id |-> id, timer |-> y]})
          /\ GotInv(Append(h, x), time) /\ DueInv(Append(h, x), time, map, queue, due)
      BY <1>0, <1>d, <2>x, <2>y, BeginKept, Zenon
    <2> QED BY <2>1, <2>2, Zenon DEF HistoryInv
  <1>2. ASSUME NEW c \in calls, SetupInsert(c) PROVE HistoryInv'
    BY <1>2, SetupInsertKept, Zenon
  <1>3. ASSUME NEW id \in TimerId, TimerRemove(id) PROVE HistoryInv'
    <2>1. id \in Active(map)
      BY <1>t, <1>3, Zenon DEF TimerRemove, Active
    <2>g. PICK g : g = StateSet(h, map[id].arg, "removed")
      OBVIOUS
    <2>m. PICK map2 : map2 = MapSet(map, id, NoTimer)
      OBVIOUS
    <2>2. /\ timers' = g /\ timer_map' = map2 /\ calls' = waiting /\ now' = time
          /\ message_queue' = queue
      BY <1>t, <1>3, <2>g, <2>m, Zenon DEF TimerRemove, taskVars, StateSet, MapSet
    <2>3. CallInv(g, waiting) /\ GotInv(g, time) /\ DueInv(g, time, map2, queue, due)
      BY <1>0, <1>d, <2>1, <2>g, <2>m, DropKept
    <2> QED BY <2>2, <2>3, Zenon DEF HistoryInv
  <1>4. CASE Send
    <2>1. /\ timers' = h /\ timer_map' = map /\ calls' = waiting /\ now' = time
          /\ message_queue' = Append(queue, 0)
      BY <1>t, <1>4, Zenon DEF Send
    <2>2. \E due2 : DueInv(h, time, map, Append(queue, 0), due2)
      BY <1>0, <1>d, SendKept, Zenon
    <2> QED BY <1>d, <2>1, <2>2, Zenon DEF HistoryInv
  <1>5. CASE Take
    <2>g. PICK g : g = timers'
      OBVIOUS
    <2>1. /\ timer_map' = map /\ calls' = waiting /\ now' = time
          /\ queue # <<>> /\ message_queue' = Tail(queue)
      BY <1>t, <1>5, Zenon DEF Take
    <2>2. /\ Head(queue) = 0 => g = h
          /\ Head(queue) # 0 => g = [h EXCEPT ![Head(queue)].got = @ + 1]
      BY <1>t, <1>5, <2>g, Zenon DEF Take
    <2>3. CallInv(g, waiting) /\ GotInv(g, time) /\ \E due2 : DueInv(g, time, map, Tail(queue), due2)
      BY <1>0, <1>d, <2>1, <2>2, TakeKept, Zenon
    <2> QED BY <2>1, <2>3, <2>g, Zenon DEF HistoryInv
  <1>6. CASE Receive \/ CallGetEvents \/ Interrupted
    BY <1>6, GetEventsKept, Zenon DEF Receive, CallGetEvents, Interrupted
  <1>7. CASE ReturnNull \/ WakeToken \/ WakeTimeout \/ WakeOther \/ SubscribeEventFd
             \/ UNCHANGED vars
    <2>1. /\ timers' = timers /\ timer_map' = timer_map /\ calls' = calls /\ now' = now
          /\ message_queue' = message_queue
      BY <1>7, Zenon DEF ReturnNull, WakeToken, WakeTimeout, WakeOther, SubscribeEventFd, vars
    <2> QED BY <2>1, Zenon DEF HistoryInv
  <1>8. CASE Tick
    <2>1. /\ timers' = h /\ timer_map' = map /\ calls' = waiting /\ now' = time + 1
          /\ message_queue' = queue
      BY <1>t, <1>8, Zenon DEF Tick
    <2>2. GotInv(h, time + 1) /\ DueInv(h, time + 1, map, queue, due)
      BY <1>0, <1>d, TickKept, Zenon
    <2> QED BY <1>d, <2>1, <2>2, Zenon DEF HistoryInv
  <1> QED BY <1>1, <1>2, <1>3, <1>4, <1>5, <1>6, <1>7, <1>8, Zenon DEF Next, Running, TaskStep

LEMMA HistoryInit == Init => HistoryInv
  <1> SUFFICES ASSUME Init PROVE HistoryInv
    OBVIOUS
  <1>1. CallInv(timers, calls)
    BY Zenon DEF Init, CallInv
  <1>2. timers = <<>> /\ message_queue = <<>> /\ Active(timer_map) = {}
    BY Zenon DEF Init, Active
  <1>3. GotInv(timers, now)
    <2>1. 1..Len(timers) = {}
      BY <1>2
    <2> QED BY <2>1, Zenon DEF GotInv
  <1>4. DueInv(timers, now, timer_map, message_queue, <<>>)
    <2>1. <<>> \in Seq(Nat) /\ Len(<<>>) = Len(message_queue) /\ 1..Len(message_queue) = {}
      BY <1>2
    <2> QED BY <1>2, <2>1, Zenon DEF DueInv, MapInv, QueueInv, SetLater
  <1> QED BY <1>1, <1>3, <1>4, Zenon DEF HistoryInv

\* HistoryInv holds in every state.
LEMMA HistoryCorrect == Spec => [](TypeOK /\ HistoryInv)
  <1>1. TypeOK /\ HistoryInv /\ [Next]_vars => HistoryInv'
    BY HistoryStep
  <1> QED BY <1>1, HistoryInit, TypeCorrect, PTL DEF Spec

\* A TIMER_HAS_EXPIRED message is never early, for any number of timers,
\* durations and calls: a task that has received k of a timer's messages has
\* done so more than k durations after timer_setup() read the clock, whatever
\* the callers and the task's wake-ups do in between (:220-247).
THEOREM NotEarlyCorrect == Spec => []NotEarly
  <1>1. TypeOK /\ HistoryInv => NotEarly
    <2> SUFFICES ASSUME TypeOK, HistoryInv PROVE NotEarly
      OBVIOUS
    <2>1. DOMAIN timers = 1..Len(timers)
      BY DEF TypeOK
    <2> QED BY <2>1, Zenon DEF HistoryInv, GotInv, Reached, NotEarly
  <1> QED BY <1>1, HistoryCorrect, PTL

\* A one-shot timer's message comes at most once, and never if timer_remove()
\* found the timer (:239-243, 432-440).
THEOREM OneShotCorrect == Spec => []OneShot
  <1>1. TypeOK /\ HistoryInv => OneShot
    <2> SUFFICES ASSUME TypeOK, HistoryInv PROVE OneShot
      OBVIOUS
    <2>1. DOMAIN timers = 1..Len(timers)
      BY DEF TypeOK
    <2>2. ASSUME NEW n \in DOMAIN timers, timers[n].type = TIMER_ONE_SHOT
          PROVE  timers[n].got <= 1 /\ (timers[n].state = "removed" => timers[n].got = 0)
      <3>1. timers[n].got = 0 \/ (timers[n].got = 1 /\ timers[n].state = "set")
        BY <2>1, <2>2, Zenon DEF HistoryInv, GotInv
      <3> QED BY <3>1
    <2> QED BY <2>2, Zenon DEF OneShot
  <1> QED BY <1>1, HistoryCorrect, PTL
=============================================================================
