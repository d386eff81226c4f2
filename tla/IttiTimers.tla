----------------------------- MODULE IttiTimers -----------------------------
(***************************************************************************)
(* The timers of the eNB's inter-task interface                            *)
(* (src/openairinterface5g/common/utils/ocp_itti), for one task.           *)
(*                                                                         *)
(* Any thread sets up and removes timers of the task under its mutex.  The *)
(* task itself looks at them only when it is about to sleep: it puts a     *)
(* TIMER_HAS_EXPIRED into its own queue for each timer that is due and     *)
(* sleeps until the next one is, or until there is a token in its eventfd. *)
(* timer_setup() writes a token without a message, so that a sleeping task *)
(* learns of the new timer.                                                *)
(*                                                                         *)
(* Every section under the mutex is one step (module Itti has the finer    *)
(* steps of sending).  The task subscribes and unsubscribes one descriptor *)
(* besides its eventfd, as the UDP task does for its sockets, and calls    *)
(* itti_get_events() after itti_receive_msg() or not.                      *)
(*                                                                         *)
(* After erasing an expired one-shot timer the loop over timer_map goes on *)
(* with the erased iterator.  This is undefined: in the build the freed    *)
(* tree node mostly has its pointers still, but erasing may have moved     *)
(* others.  The loop then misses timers (insert 2, 1, 4, 3: after erasing  *)
(* 2 it goes on to 4), comes back to some (insert 2, 1, 3: to 1), goes on  *)
(* as intended, or the process crashes.                                    *)
(***************************************************************************)
EXTENDS Integers, Sequences, FiniteSets

CONSTANTS
    TimerId,        \* timer ids, of which timer_setup() takes one at random
    Duration,       \* durations in ms
    UINT64_MAX,
    NoTimer,        \* for an id that is not in timer_map
    MaxTimer,       \* bound: timers set up
    MaxMsg,         \* bound: other messages
    MaxTime         \* bound: ms that pass; timers are due before

ASSUME TimerAssumption ==
    /\ IsFiniteSet(TimerId) /\ Duration \subseteq Nat \ {0} /\ UINT64_MAX \in Nat
    /\ MaxTimer \in Nat /\ MaxMsg \in Nat /\ MaxTime \in Nat

TIMER_PERIODIC == "periodic"
TIMER_ONE_SHOT == "one shot"

VARIABLES
    now,            \* CLOCK_MONOTONIC in ms
    timer_map,      \* id -> [arg, timeout, duration, type] or NoTimer
    next_timer,
    message_queue,  \* args of TIMER_HAS_EXPIRED messages, 0 for other messages
    sem_fd,         \* tokens in the eventfd
    rpc,            \* where in its receive loop the task is
    nb_fd_epoll,    \* descriptors in the epoll set, the eventfd included
    deadline,       \* when epoll_wait() gives up, 0 while the task is awake
    calls,          \* calls of timer_setup() between the search of an id and the
                    \* mutex: [id, timer]
    nmsg,           \* other messages sent so far
    timers,         \* history: the timers set up, numbered by their arg:
                    \* [start, duration, type, got, state]
    skipped         \* history: the timers, by arg, that the last loop over
                    \* timer_map did not come to

taskVars == <<rpc, nb_fd_epoll, deadline>>
vars == <<now, timer_map, next_timer, message_queue, sem_fd, taskVars, calls, nmsg, timers,
          skipped>>

Init ==
    /\ now = 0
    /\ timer_map = [id \in TimerId |-> NoTimer] /\ next_timer = UINT64_MAX
    /\ message_queue = <<>> /\ sem_fd = 0
    /\ rpc = "call" /\ nb_fd_epoll = 1 /\ deadline = 0
    /\ calls = {} /\ nmsg = 0 /\ timers = <<>> /\ skipped = {}

Active(map) == {id \in TimerId : map[id] # NoTimer}
-----------------------------------------------------------------------------
(***************************************************************************)
(* The callers.                                                            *)
(***************************************************************************)
\* timer_setup() up to the mutex: find an id that is not in use, read the clock.
SetupBegin(id, d, type) ==
    /\ Len(timers) < MaxTimer /\ now + d < MaxTime
    /\ timer_map[id] = NoTimer
    /\ calls' = calls \cup {[id |-> id, timer |-> [arg |-> Len(timers) + 1, timeout |-> now + d,
                                                  duration |-> d, type |-> type]]}
    /\ timers' = Append(timers, [start |-> now, duration |-> d, type |-> type,
                                 got |-> 0, state |-> "new"])
    /\ UNCHANGED <<now, timer_map, next_timer, message_queue, sem_fd, taskVars, nmsg, skipped>>

\* What becomes of the history when a timer is put at id: the one that was there
\* is gone.
Replaced(id) ==
    IF timer_map[id] = NoTimer THEN timers
    ELSE [timers EXCEPT ![timer_map[id].arg].state = "replaced"]

\* Mutant of SetupInsert: no token is written.
BugSetupInsert(c) ==
    /\ c \in calls
    /\ LET id == c.id  timer == c.timer IN
       /\ timer_map' = [timer_map EXCEPT ![id] = timer]
       /\ next_timer' = IF timer.timeout < next_timer THEN timer.timeout ELSE next_timer
       /\ timers' = [Replaced(id) EXCEPT ![timer.arg].state = "set"]
    /\ calls' = calls \ {c}
    /\ UNCHANGED <<now, message_queue, sem_fd, taskVars, nmsg, skipped>>

\* ... and under the mutex: insert it, or replace a timer that got the same id
\* in between.
SetupInsert(c) ==
    /\ c \in calls
    /\ LET id == c.id  timer == c.timer IN
       /\ timer_map' = [timer_map EXCEPT ![id] = timer]
       /\ next_timer' = IF timer.timeout < next_timer THEN timer.timeout ELSE next_timer
       /\ timers' = [Replaced(id) EXCEPT ![timer.arg].state = "set"]
    /\ sem_fd' = sem_fd + 1
    /\ calls' = calls \ {c}
    /\ UNCHANGED <<now, message_queue, taskVars, nmsg, skipped>>

\* timer_remove() that finds the timer. next_timer stays.
TimerRemove(id) ==
    /\ timer_map[id] # NoTimer
    /\ timer_map' = [timer_map EXCEPT ![id] = NoTimer]
    /\ timers' = [timers EXCEPT ![timer_map[id].arg].state = "removed"]
    /\ UNCHANGED <<now, next_timer, message_queue, sem_fd, taskVars, calls, nmsg, skipped>>

\* itti_send_msg_to_task(), see module Itti.
Send ==
    /\ nmsg < MaxMsg
    /\ nmsg' = nmsg + 1
    /\ message_queue' = Append(message_queue, 0)
    /\ sem_fd' = sem_fd + 1
    /\ UNCHANGED <<now, timer_map, next_timer, taskVars, calls, timers, skipped>>
-----------------------------------------------------------------------------
(***************************************************************************)
(* itti_get_events_locked().                                               *)
(***************************************************************************)
\* Mutant of IsDue: a timer is due when its time has come.
BugIsDue(timer) == timer # NoTimer /\ timer.timeout <= now

IsDue(timer) == timer # NoTimer /\ timer.timeout < now

\* Mutant of AfterExpiry: a one-shot timer stays.
BugAfterExpiry(timer) == [timer EXCEPT !.timeout = @ + timer.duration]

\* A timer after its message was sent.
AfterExpiry(timer) ==
    IF timer.type = TIMER_PERIODIC THEN [timer EXCEPT !.timeout = @ + timer.duration]
                                   ELSE NoTimer

\* timer_map after the timers in ids, all due, were dealt with.
Expired(map, ids) == [id \in TimerId |-> IF id \in ids THEN AfterExpiry(map[id]) ELSE map[id]]

DueIn(map) == {id \in TimerId : IsDue(map[id])}

\* The timers that the loop erases when it comes to them.
OneShotDue(map) == {id \in DueIn(map) : map[id].type = TIMER_ONE_SHOT}

\* What the loop may come to: every timer, unless it erases one ...
Seen(map) ==
    {seen \in SUBSET Active(map) :
        seen = Active(map) \/ seen \cap OneShotDue(map) # {}}

\* ... and what it may deal with once more, of those in ids, after them.
Again(map, ids) ==
    IF ids \cap OneShotDue(map) = {} THEN {{}} ELSE SUBSET (ids \cap DueIn(Expired(map, ids)))

\* The time of the timer in ids that is due first. A timer that the loop comes
\* back to does not raise it.
Earliest(map, ids) ==
    LET times == {map[id].timeout : id \in ids \cap Active(map)} \cup {UINT64_MAX}
    IN  {x \in times : \A y \in times : x <= y}

\* The orders in which the loop may come to the timers in ids: ids are random.
Orders(ids) ==
    {q \in [1..Cardinality(ids) -> ids] : \A i, j \in DOMAIN q : q[i] = q[j] => i = j}

\* Mutant of Messages: the timer's argument is not filled in.
BugMessages(q) == [i \in DOMAIN q |-> 0]

\* TIMER_HAS_EXPIRED messages of the timers in q.
Messages(q) == [i \in DOMAIN q |-> timer_map[q[i]].arg]

\* The loop over timer_map: a message for every timer it comes to that is due.
ExpireTimers ==
    \E seen \in Seen(timer_map) :
        LET due == seen \cap DueIn(timer_map)  map == Expired(timer_map, due) IN
        \E q \in Orders(due), again \in Again(timer_map, due) : \E r \in Orders(again) :
            /\ timer_map' = Expired(map, again)
            /\ next_timer' \in Earliest(map, seen)
            /\ message_queue' = message_queue \o Messages(q) \o Messages(r)
            /\ sem_fd' = sem_fd + Cardinality(due) + Cardinality(again)
            /\ skipped' = {timer_map[id].arg : id \in Active(timer_map) \ seen}

\* Up to epoll_wait(): deal with the timers that are due, sleep until the next
\* one is. A time that has passed already becomes a negative number of
\* milliseconds: epoll_wait() then has no time-out.
Sleep(label) ==
    /\ rpc' = label
    /\ IF next_timer < now THEN ExpireTimers
       ELSE UNCHANGED <<timer_map, next_timer, message_queue, sem_fd, skipped>>
    /\ deadline' = IF next_timer' < now THEN UINT64_MAX ELSE next_timer'
    /\ UNCHANGED <<now, nb_fd_epoll, calls, nmsg, timers>>

\* The loop goes on from an erased timer to no timer at all: the process dies.
Crash ==
    /\ next_timer < now /\ OneShotDue(timer_map) # {}
    /\ rpc' = "crashed" /\ deadline' = 0
    /\ UNCHANGED <<now, timer_map, next_timer, message_queue, sem_fd, nb_fd_epoll, calls, nmsg,
                   timers, skipped>>

GetEvents(label) == Sleep(label) \/ Crash
-----------------------------------------------------------------------------
(***************************************************************************)
(* itti_receive_msg() and the task's loop.                                 *)
(***************************************************************************)
Take ==
    /\ rpc \in {"call", "relock"} /\ message_queue # <<>>
    /\ message_queue' = Tail(message_queue)
    /\ timers' = IF Head(message_queue) = 0 THEN timers
                 ELSE [timers EXCEPT ![Head(message_queue)].got = @ + 1]
    /\ rpc' \in {"call", "events"}
    /\ UNCHANGED <<now, timer_map, next_timer, sem_fd, nb_fd_epoll, deadline, calls, nmsg, skipped>>

\* The queue is empty. After a wake-up only a task without other descriptors
\* tries again; one with others returns without a message.
Receive ==
    /\ message_queue = <<>>
    /\ rpc = "call" \/ (rpc = "relock" /\ nb_fd_epoll = 1)
    /\ GetEvents("wait")

ReturnNull ==
    /\ rpc = "relock" /\ nb_fd_epoll # 1 /\ message_queue = <<>>
    /\ rpc' \in {"call", "events"}
    /\ UNCHANGED <<now, timer_map, next_timer, message_queue, sem_fd, nb_fd_epoll, deadline, calls,
                   nmsg, timers, skipped>>

CallGetEvents == rpc = "events" /\ GetEvents("eventsWait")

Wakes == rpc' = (IF rpc = "wait" THEN "relock" ELSE "call") /\ deadline' = 0

\* Mutant of WakeToken: the eventfd is read after every wake-up.
BugWakeToken ==
    /\ rpc \in {"wait", "eventsWait"} /\ (sem_fd > 0 \/ deadline <= now)
    /\ Wakes /\ sem_fd' = sem_fd - 1
    /\ UNCHANGED <<now, timer_map, next_timer, message_queue, nb_fd_epoll, calls, nmsg, timers,
                   skipped>>

\* epoll_wait() reports the eventfd: read a token.
WakeToken ==
    /\ rpc \in {"wait", "eventsWait"} /\ sem_fd > 0
    /\ Wakes /\ sem_fd' = sem_fd - 1
    /\ UNCHANGED <<now, timer_map, next_timer, message_queue, nb_fd_epoll, calls, nmsg, timers,
                   skipped>>

\* epoll_wait() times out ...
WakeTimeout ==
    /\ rpc \in {"wait", "eventsWait"} /\ sem_fd = 0 /\ deadline <= now
    /\ Wakes
    /\ UNCHANGED <<now, timer_map, next_timer, message_queue, sem_fd, nb_fd_epoll, calls,
                   nmsg, timers, skipped>>

\* ... or reports another descriptor ...
WakeOther ==
    /\ rpc \in {"wait", "eventsWait"} /\ nb_fd_epoll > 1
    /\ Wakes
    /\ UNCHANGED <<now, timer_map, next_timer, message_queue, sem_fd, nb_fd_epoll, calls,
                   nmsg, timers, skipped>>

\* ... or is interrupted by a signal: take the mutex and start again.
Interrupted == rpc \in {"wait", "eventsWait"} /\ GetEvents(rpc)

\* The task adds a descriptor to its epoll set or removes it.
SubscribeEventFd ==
    /\ rpc = "call"
    /\ nb_fd_epoll' = 3 - nb_fd_epoll
    /\ UNCHANGED <<now, timer_map, next_timer, message_queue, sem_fd, rpc, deadline, calls,
                   nmsg, timers, skipped>>

\* External: the clock.
Tick ==
    /\ now < MaxTime /\ now' = now + 1
    /\ UNCHANGED <<timer_map, next_timer, message_queue, sem_fd, taskVars, calls, nmsg, timers,
                   skipped>>
-----------------------------------------------------------------------------
TaskStep == Take \/ Receive \/ ReturnNull \/ CallGetEvents \/ WakeToken \/ WakeTimeout

Running ==
    \/ \E id \in TimerId, d \in Duration, type \in {TIMER_PERIODIC, TIMER_ONE_SHOT} :
          SetupBegin(id, d, type)
    \/ \E c \in calls : SetupInsert(c)
    \/ \E id \in TimerId : TimerRemove(id)
    \/ Send \/ TaskStep \/ WakeOther \/ Interrupted \/ SubscribeEventFd \/ Tick

\* Nothing more happens in a process that has died.
Next ==
    \/ rpc # "crashed" /\ Running
    \/ rpc = "crashed" /\ UNCHANGED vars

Spec == Init /\ [][Next]_vars

\* Time passes, a call of timer_setup() ends, and the task takes its next step
\* if it can. Nothing is assumed of signals and other descriptors.
Fairness ==
    /\ WF_vars(rpc # "crashed" /\ Tick) /\ WF_vars(TaskStep)
    /\ WF_vars(rpc # "crashed" /\ \E c \in calls : SetupInsert(c))

FairSpec == Spec /\ Fairness
-----------------------------------------------------------------------------
(***************************************************************************)
(* Properties.                                                             *)
(***************************************************************************)
Timer == [arg : 1..MaxTimer, timeout : Nat, duration : Duration,
          type : {TIMER_PERIODIC, TIMER_ONE_SHOT}]

History == [start : Nat, duration : Duration, type : {TIMER_PERIODIC, TIMER_ONE_SHOT},
            got : Nat, state : {"new", "set", "removed", "replaced"}]

\* Every variable has its type.
TypeOK ==
    /\ now \in Nat /\ next_timer \in Nat /\ deadline \in Nat /\ sem_fd \in Nat /\ nmsg \in Nat
    /\ timer_map \in [TimerId -> Timer \cup {NoTimer}]
    /\ calls \subseteq [id : TimerId, timer : Timer]
    /\ message_queue \in Seq(0..MaxTimer) /\ timers \in Seq(History)
    /\ rpc \in {"call", "wait", "relock", "events", "eventsWait", "crashed"}
    /\ nb_fd_epoll \in {1, 2} /\ skipped \subseteq 1..MaxTimer

\* next_timer is not after any timer that the last loop came to.
NextIsFirst ==
    \A id \in Active(timer_map) :
        timer_map[id].arg \notin skipped => next_timer <= timer_map[id].timeout

\* A task that sleeps in epoll_wait() with no token to wake it gives up no later
\* than its next timer is due, although timers are set up while it sleeps and a
\* timer that is late makes its time-out infinite. Only a timer that the last
\* loop did not come to, because it erased one, may be forgotten (:213-255,
\* 405-428).
NoOversleep ==
    rpc \in {"wait", "eventsWait"} /\ sem_fd = 0 =>
        \A id \in Active(timer_map) :
            timer_map[id].arg \notin skipped => deadline <= timer_map[id].timeout

\* A TIMER_HAS_EXPIRED is never early: a task that has received k of a timer's
\* messages has done so more than k durations after timer_setup() (:220-247).
NotEarly ==
    \A n \in DOMAIN timers :
        timers[n].got > 0 => now > timers[n].start + timers[n].got * timers[n].duration

\* A one-shot timer's message comes at most once, and not at all if
\* timer_remove() found the timer (:239-243, 432-440).
OneShot ==
    \A n \in DOMAIN timers : timers[n].type = TIMER_ONE_SHOT =>
        /\ timers[n].got <= 1
        /\ timers[n].state = "removed" => timers[n].got = 0

\* A timer that was set up and whose message has not been received.
Pending(n) ==
    /\ n \in DOMAIN timers
    /\ timers[n].got = 0 /\ timers[n].state \in {"new", "set"}

\* A timer's message is received, unless the timer is removed before or another
\* thread's timer_setup() took the same id at the same time. A timer waits for
\* ever only if no loop after some time came to it, or the process has died, both
\* of which take an erased one-shot timer (:213-247, 405-428).
TimerFires ==
    \A n \in 1..MaxTimer :
        <>[]Pending(n) => <>[](n \in skipped \/ rpc = "crashed")
=============================================================================
