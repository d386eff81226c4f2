-------------------------- MODULE DrbStarterProofs --------------------------
(***************************************************************************)
(* Proofs about DrbStarter, for any number of UEs, attaches, turns of the  *)
(* waiting loop and test packets.                                          *)
(***************************************************************************)
EXTENDS DrbStarter, FiniteSetTheorems, TLAPS

USE UEAssumption, BoundAssumption, LoopAssumption

Q == [id : MessagesIds, ue : UE \cup {NoUE}]
R == [ue : UE, mme_ue_s1ap_id : {MmeUeS1apId}, enb_id : UE \cup {NoUE},
      nas : {Message(b) : b \in Bearers}]

LEMMA AppendFacts ==
  ASSUME NEW S, NEW q \in Seq(S), NEW x \in S
  PROVE  /\ Append(q, x) \in Seq(S) /\ Len(q) \in Nat
         /\ DOMAIN q = 1..Len(q) /\ DOMAIN Append(q, x) = 1..(Len(q) + 1)
         /\ \A i \in 1..Len(q) : Append(q, x)[i] = q[i]
         /\ Append(q, x)[Len(q) + 1] = x
  OBVIOUS

LEMMA TailFacts ==
  ASSUME NEW S, NEW q \in Seq(S), q # <<>>
  PROVE  /\ Head(q) \in S /\ Head(q) = q[1] /\ Tail(q) \in Seq(S) /\ 1 \in DOMAIN q
         /\ \A i \in DOMAIN Tail(q) : Tail(q)[i] = q[i + 1] /\ i + 1 \in DOMAIN q
  OBVIOUS
-----------------------------------------------------------------------------
(***************************************************************************)
(* Types.  An initial message and an attach message name a UE.             *)
(***************************************************************************)
NamesUe(m) ==
  m.id \in {"MME_APP_INITIAL_UE_MESSAGE", "ATTACH_FORWARD_DRB"} => m.ue \in UE

QueueInv == \A i \in DOMAIN queue : NamesUe(queue[i])

HasThread == \A k \in Threads : thr[k].pc = "none" <=> k > counter_UE

TypeInv == EnvType /\ CtxType /\ ThrType /\ HasThread /\ QueueInv

LEMMA TypeInit == Init => TypeInv
  <1> SUFFICES ASSUME Init PROVE TypeInv
    OBVIOUS
  <1>1. EnvType /\ QueueInv
    BY DEF Init, EnvType, QueueInv
  <1>2. requests \in Seq(R) /\ counter_UE \in Nat
    BY DEF Init
  <1>3. CtxType
    BY <1>2, Zenon DEF Init, CtxType, R
  <1>4. ThrType
    BY DEF Init, ThrType, Ports, Threads, NoThread, NoFlush, Bearers
  <1>5. HasThread
    BY DEF Init, HasThread, Threads
  <1> QED
    BY <1>1, <1>3, <1>4, <1>5 DEF TypeInv

\* What the parts of the invariant depend on.
LEMMA Frame ==
  /\ EnvType /\ UNCHANGED <<queue, envVars>> => EnvType'
  /\ CtxType /\ UNCHANGED ctxVars => CtxType'
  /\ ThrType /\ UNCHANGED thrVars => ThrType'
  /\ HasThread /\ UNCHANGED <<thr, counter_UE>> => HasThread'
  /\ QueueInv /\ UNCHANGED queue => QueueInv'
  BY Zenon DEF EnvType, CtxType, ThrType, HasThread, QueueInv, envVars, ctxVars, thrVars

\* A message is queued.
LEMMA QueueMessage ==
  ASSUME TypeInv, NEW m \in Q, queue' = Append(queue, m), NamesUe(m),
         started' \subseteq UE, nInitial' \in Nat, nAttach' \in Nat, nSuccess' \in Nat,
         UNCHANGED <<ctxVars, thrVars>>
  PROVE  TypeInv'
  <1>1. queue \in Seq(Q)
    BY DEF TypeInv, EnvType, Q
  <1>2. /\ queue' \in Seq(Q) /\ Len(queue) \in Nat /\ DOMAIN queue = 1..Len(queue)
        /\ DOMAIN queue' = 1..(Len(queue) + 1)
        /\ queue'[Len(queue) + 1] = m /\ \A i \in 1..Len(queue) : queue'[i] = queue[i]
    BY <1>1, AppendFacts
  <1>3. EnvType'
    BY <1>2, Zenon DEF EnvType, Q
  <1>4. QueueInv'
    <2>1. ASSUME NEW i \in 1..(Len(queue) + 1) PROVE i \in 1..Len(queue) \/ i = Len(queue) + 1
      BY <1>2
    <2> QED
      BY <1>2, <2>1, Zenon DEF TypeInv, QueueInv
  <1>5. UNCHANGED ctxVars /\ UNCHANGED thrVars /\ UNCHANGED <<thr, counter_UE>>
    BY DEF ctxVars, thrVars
  <1> QED
    BY <1>3, <1>4, <1>5, Frame, Zenon DEF TypeInv

\* The first message is handled: what the rest of the queue keeps.
LEMMA HandleFacts ==
  ASSUME TypeInv, queue # <<>>, queue' = Tail(queue), UNCHANGED envVars
  PROVE  EnvType' /\ QueueInv' /\ Head(queue) \in Q /\ NamesUe(Head(queue))
  <1>1. queue \in Seq(Q)
    BY DEF TypeInv, EnvType, Q
  <1>2. /\ Head(queue) \in Q /\ Head(queue) = queue[1] /\ 1 \in DOMAIN queue /\ queue' \in Seq(Q)
        /\ \A i \in DOMAIN queue' : queue'[i] = queue[i + 1] /\ i + 1 \in DOMAIN queue
    BY <1>1, TailFacts
  <1>3. EnvType'
    BY <1>2, Zenon DEF TypeInv, EnvType, Q, envVars
  <1>4. QueueInv' /\ NamesUe(Head(queue))
    BY <1>2, Zenon DEF TypeInv, QueueInv
  <1> QED
    BY <1>2, <1>3, <1>4

\* An attach is handled, and there is a thread for it.
LEMMA AttachType ==
  ASSUME TypeInv, HandleAttach
  PROVE  TypeInv'
  <1> DEFINE u == Head(queue).ue
  <1>1. /\ queue # <<>> /\ queue' = Tail(queue) /\ Head(queue).id = "ATTACH_FORWARD_DRB"
        /\ UNCHANGED <<envVars, freed, owner, flushed, enb_id, exit_drb, crashed>>
        /\ emm_data' = u /\ requests' = requests \o Request(u)
        /\ status' = [status EXCEPT ![u] = [b \in Bearers |-> "ACTIVE_PENDING"]]
        /\ counter_UE' = counter_UE + 1 /\ thr' = [thr EXCEPT ![counter_UE'].pc = "created"]
    BY Zenon DEF HandleAttach, Handle
  <1>2. EnvType' /\ QueueInv' /\ u \in UE
    BY <1>1, HandleFacts, Zenon DEF NamesUe, envVars
  <1>3. status' \in [UE -> [Bearers -> {"INACTIVE", "ACTIVE_PENDING", "ACTIVE"}]]
    BY <1>1, <1>2 DEF TypeInv, CtxType
  <1>4. requests' \in Seq(R)
    <2>1. requests \in Seq(R)
      BY DEF TypeInv, CtxType, R
    <2>2. \A b \in Bearers : [ue |-> u, mme_ue_s1ap_id |-> MmeUeS1apId, enb_id |-> enb_id,
                               nas |-> Message(b)] \in R
      BY <1>2 DEF TypeInv, CtxType, R
    <2>3. Request(u) \in Seq(R)
      BY <2>2 DEF Request, Bearers
    <2> QED
      BY <1>1, <2>1, <2>3
  <1>5. counter_UE' \in Nat /\ counter_UE \in Nat
    BY <1>1 DEF TypeInv, CtxType
  <1>6. CtxType'
    BY <1>1, <1>2, <1>3, <1>4, <1>5, Zenon DEF TypeInv, CtxType, R
  <1>7. ThrType'
    <2> DEFINE Pc == {"none", "created", "wait", "bind", "loop", "trigger", "flush", "ended", "failed"}
               T == [pc : Pc, counter : Nat, index : Nat]
    <2>1. ASSUME NEW f \in [Threads -> T], NEW c
          PROVE  [f EXCEPT ![c].pc = "created"] \in [Threads -> T]
      BY Zenon
    <2>2. thr' \in [Threads -> T]
      BY <1>1, <2>1, Zenon DEF TypeInv, ThrType
    <2> QED
      BY <1>1, <2>2, Zenon DEF TypeInv, ThrType
  <1>8. HasThread'
    <2>1. ASSUME NEW k \in Threads PROVE thr'[k].pc = "none" <=> k > counter_UE'
      <3>1. CASE k = counter_UE + 1
        BY <1>1, <1>5, <3>1 DEF TypeInv, ThrType
      <3>2. CASE k # counter_UE + 1
        BY <1>1, <1>5, <3>2 DEF TypeInv, ThrType, HasThread, Threads
      <3> QED
        BY <3>1, <3>2
    <2> QED
      BY <2>1, Zenon DEF HasThread
  <1> QED
    BY <1>2, <1>6, <1>7, <1>8, Zenon DEF TypeInv

\* A step of a setup thread leaves everything else alone; its own state keeps its
\* type.
LEMMA ThreadType ==
  ASSUME TypeInv, NEW k \in Threads, ThreadStep(k) \/ Triggers(k)
  PROVE  ThrType' /\ UNCHANGED <<queue, envVars, ctxVars>>
  <1> DEFINE T == [pc : {"none", "created", "wait", "bind", "loop", "trigger",
                         "flush", "ended", "failed"},
                   counter : Nat, index : Nat]
             Flush == [Threads -> [Bearers -> 0..NUM_PACKETS]]
  <1>1. thr[k] \in T /\ thr \in [Threads -> T] /\ owner \in [Ports -> Threads \cup {NoThread}]
        /\ flushed \in Flush
    BY DEF TypeInv, ThrType
  <1>2. CloseAll(k) => owner' \in [Ports -> Threads \cup {NoThread}]
    BY <1>1 DEF CloseAll
  <1>3. ASSUME NEW from, NEW to \in {"wait", "bind", "loop", "trigger", "flush", "ended", "failed"},
               Move(k, from, to)
        PROVE  thr' \in [Threads -> T] /\ UNCHANGED <<queue, envVars, ctxVars>>
    BY <1>1, <1>3, Zenon DEF Move
  <1>4. CASE ThreadStarts(k)
    <2>1. PICK c \in Nat :
              thr' = [thr EXCEPT ![k] = [pc |-> "wait", counter |-> c, index |-> 0]]
      <3>1. counter_UE \in Nat /\ 0..MaxAttach \subseteq Nat
        BY DEF TypeInv, CtxType
      <3> QED BY <1>4, <3>1, Zenon DEF ThreadStarts
    <2> QED
      BY <1>1, <1>4, <2>1 DEF ThreadStarts, ThrType
  <1>5. CASE ThreadFails(k) \/ LoopAgain(k) \/ FlushJoin(k)
    BY <1>1, <1>3, <1>5, Zenon DEF ThreadFails, LoopAgain, FlushJoin, ThrType
  <1>6. CASE Superseded(k) \/ BindFails(k) \/ LoopEnds(k) \/ TriggerZero(k)
    BY <1>1, <1>2, <1>3, <1>6, Zenon DEF Superseded, BindFails, LoopEnds, TriggerZero, ThrType
  <1>7. CASE StillLatest(k)
    <2> DEFINE r == [pc |-> IF thr[k].index + 1 < WAIT THEN "wait" ELSE "bind",
                     counter |-> thr[k].counter,
                     index |-> IF thr[k].index + 1 < WAIT THEN thr[k].index + 1 ELSE 0]
    <2>a. r \in T
      BY <1>1
    <2>b. thr' = [thr EXCEPT ![k] = r]
      BY <1>1, <1>7 DEF StillLatest
    <2>1. thr' \in [Threads -> T]
      BY <1>1, <2>a, <2>b, Zenon
    <2> QED
      BY <1>1, <1>7, <2>1 DEF StillLatest, ThrType
  <1>8. CASE BindOk(k)
    <2> DEFINE r == [pc |-> IF thr[k].index = 3 THEN "loop" ELSE "bind",
                     counter |-> thr[k].counter, index |-> thr[k].index + 1]
    <2>a. r \in T
      BY <1>1
    <2>b. thr' = [thr EXCEPT ![k] = r]
      BY <1>1, <1>8, Zenon DEF BindOk
    <2>1. thr' \in [Threads -> T]
      BY <1>1, <2>a, <2>b
    <2>2. owner' \in [Ports -> Threads \cup {NoThread}]
      BY <1>1, <1>8, ZenonT(60) DEF BindOk
    <2> QED
      BY <1>1, <1>8, <2>1, <2>2, Zenon DEF BindOk, ThrType
  <1>9. CASE TriggerFlush(k)
    <2>1. NoFlush \in [Bearers -> 0..NUM_PACKETS]
      BY DEF NoFlush
    <2>2. flushed' \in Flush
      BY <1>1, <1>9, <2>1 DEF TriggerFlush
    <2> QED
      BY <1>1, <1>3, <1>9, <2>2 DEF TriggerFlush, ThrType
  <1>10. ASSUME NEW i \in Bearers, FlushSend(k, i)
         PROVE  ThrType' /\ UNCHANGED <<queue, envVars, ctxVars>>
    <2>1. flushed[k] \in [Bearers -> 0..NUM_PACKETS] /\ flushed[k][i] + 1 \in 0..NUM_PACKETS
      BY <1>1, <1>10 DEF FlushSend
    <2>2. flushed' \in Flush
      BY <1>1, <1>10, <2>1 DEF FlushSend
    <2> QED
      BY <1>1, <1>10, <2>2, Zenon DEF FlushSend, ThrType
  <1> QED
    BY <1>4, <1>5, <1>6, <1>7, <1>8, <1>9, <1>10, Zenon DEF ThreadStep, Triggers

\* ... and it is still a thread.
LEMMA ThreadStays ==
  ASSUME TypeInv, NEW k \in Threads, ThreadStep(k) \/ Triggers(k)
  PROVE  HasThread'
  <1>1. thr \in [Threads -> [pc : {"none", "created", "wait", "bind", "loop", "trigger",
                         "flush", "ended", "failed"}, counter : Nat, index : Nat]]
    BY DEF TypeInv, ThrType
  <1>2. thr[k].pc # "none" /\ thr'[k].pc # "none" /\ \A l \in Threads : l # k => thr'[l] = thr[l]
    <2>1. ASSUME NEW from, NEW to \in {"wait", "bind", "loop", "trigger", "flush", "ended", "failed"},
                 Move(k, from, to), from # "none"
          PROVE  thr[k].pc # "none" /\ thr'[k].pc # "none" /\ \A l \in Threads : l # k => thr'[l] = thr[l]
      BY <1>1, <2>1 DEF Move
    <2>2. CASE ThreadFails(k) \/ LoopAgain(k) \/ FlushJoin(k) \/ TriggerFlush(k)
               \/ Superseded(k) \/ BindFails(k) \/ LoopEnds(k) \/ TriggerZero(k)
      BY <2>1, <2>2 DEF ThreadFails, LoopAgain, FlushJoin, TriggerFlush, Superseded, BindFails,
                        LoopEnds, TriggerZero
    <2>3. CASE ThreadStarts(k)
      BY <1>1, <2>3 DEF ThreadStarts
    <2>4. CASE StillLatest(k)
      BY <1>1, <2>4 DEF StillLatest
    <2>5. CASE BindOk(k)
      BY <1>1, <2>5 DEF BindOk
    <2>6. CASE \E i \in Bearers : FlushSend(k, i)
      BY <1>1, <2>6 DEF FlushSend
    <2> QED
      BY <2>2, <2>3, <2>4, <2>5, <2>6, Zenon DEF ThreadStep, Triggers
  <1>3. counter_UE' = counter_UE
    BY ThreadType, Zenon DEF ctxVars
  <1> QED
    BY <1>2, <1>3, Zenon DEF TypeInv, HasThread

LEMMA TypeStep == TypeInv /\ [Next]_vars => TypeInv'
  <1> SUFFICES ASSUME TypeInv, [Next]_vars PROVE TypeInv'
    OBVIOUS
  <1>a. EnvType /\ CtxType /\ ThrType /\ HasThread /\ QueueInv /\ queue \in Seq(Q)
    BY DEF TypeInv, EnvType, Q
  <1>b. started \subseteq UE /\ nInitial \in Nat /\ nAttach \in Nat /\ nSuccess \in Nat
    BY DEF TypeInv, EnvType
  <1>1. ASSUME NEW u \in UE, InitialUeMessage(u) \/ AttachComplete(u) PROVE TypeInv'
    <2>1. PICK id \in {"MME_APP_INITIAL_UE_MESSAGE", "ATTACH_FORWARD_DRB"} : Queued(id, u)
      BY <1>1 DEF InitialUeMessage, AttachComplete
    <2> DEFINE m == [id |-> id, ue |-> u]
    <2>2. m \in Q /\ queue' = Append(queue, m) /\ NamesUe(m)
      BY <2>1 DEF Queued, Q, MessagesIds, NamesUe
    <2>3. /\ started' \subseteq UE /\ nInitial' \in Nat /\ nAttach' \in Nat /\ nSuccess' \in Nat
          /\ UNCHANGED <<ctxVars, thrVars>>
      BY <1>1, <1>b DEF InitialUeMessage, AttachComplete
    <2> HIDE DEF m
    <2> QED
      BY <2>2, <2>3, QueueMessage
  <1>2. CASE ErabSetupSuccess \/ Terminate
    <2>1. PICK id \in {"S1AP_NAS_DL_DATA_REQ", "TERMINATE_MESSAGE"} : Queued(id, NoUE)
      BY <1>2 DEF ErabSetupSuccess, Terminate
    <2> DEFINE m == [id |-> id, ue |-> NoUE]
    <2>2. m \in Q /\ queue' = Append(queue, m) /\ NamesUe(m)
      BY <2>1 DEF Queued, Q, MessagesIds, NamesUe
    <2>3. /\ started' \subseteq UE /\ nInitial' \in Nat /\ nAttach' \in Nat /\ nSuccess' \in Nat
          /\ UNCHANGED <<ctxVars, thrVars>>
      BY <1>2, <1>b DEF ErabSetupSuccess, Terminate, envVars
    <2> HIDE DEF m
    <2> QED
      BY <2>2, <2>3, QueueMessage
  <1>3. CASE HandleInitial \/ HandleSetupSuccess \/ HandleTerminate
    <2>1. /\ queue # <<>> /\ queue' = Tail(queue)
          /\ UNCHANGED <<envVars, freed, thr, owner, flushed, emm_data, counter_UE, requests>>
      BY <1>3, Zenon DEF HandleInitial, HandleSetupSuccess, HandleTerminate, Handle
    <2>2. EnvType' /\ QueueInv' /\ Head(queue) \in Q
      BY <2>1, HandleFacts, Zenon DEF envVars
    <2>3. ThrType' /\ HasThread'
      BY <1>a, <2>1, Frame, Zenon DEF thrVars
    <2>4. /\ enb_id' \in UE \cup {NoUE} /\ exit_drb' \in BOOLEAN /\ crashed' \in BOOLEAN
          /\ status' \in [UE -> [Bearers -> {"INACTIVE", "ACTIVE_PENDING", "ACTIVE"}]]
      <3>1. CASE HandleInitial
        BY <1>a, <2>2, <3>1, Zenon DEF HandleInitial, CtxType, Q
      <3>2. CASE HandleSetupSuccess
        BY <1>a, <3>2 DEF HandleSetupSuccess, CtxType
      <3>3. CASE HandleTerminate
        BY <1>a, <3>3, Zenon DEF HandleTerminate, CtxType
      <3> QED
        BY <1>3, <3>1, <3>2, <3>3
    <2>5. CtxType'
      BY <1>a, <2>1, <2>4, Zenon DEF CtxType
    <2> QED
      BY <2>2, <2>3, <2>5, Zenon DEF TypeInv
  <1>4. CASE TaskEnds
    <2>1. CtxType'
      BY <1>4, <1>a, Zenon DEF TaskEnds, CtxType
    <2>2. UNCHANGED <<queue, envVars, thrVars>> /\ UNCHANGED <<thr, counter_UE>>
      BY <1>4, Zenon DEF TaskEnds, thrVars
    <2> QED
      BY <1>a, <2>1, <2>2, Frame, Zenon DEF TypeInv
  <1>5. ASSUME NEW k \in Threads, ThreadStep(k) \/ Triggers(k) PROVE TypeInv'
    <2>1. ThrType' /\ UNCHANGED <<queue, envVars, ctxVars>>
      BY <1>5, ThreadType, Zenon
    <2>2. HasThread'
      BY <1>5, ThreadStays, Zenon
    <2> QED
      BY <1>a, <2>1, <2>2, Frame, Zenon DEF TypeInv
  <1>6. CASE UNCHANGED vars
    <2>1. UNCHANGED <<queue, envVars, ctxVars, thrVars>> /\ UNCHANGED <<thr, counter_UE>>
      BY <1>6, Zenon DEF vars, ctxVars, thrVars
    <2> QED
      BY <1>a, <2>1, Frame, Zenon DEF TypeInv
  <1> QED
    BY <1>1, <1>2, <1>3, <1>4, <1>5, <1>6, AttachType, Zenon DEF Next, Environment, TaskStep

\* Every variable of the DRB starter keeps its type, and there is a setup thread
\* for every attach that was handled, whatever messages come in which order
\* (drb.c:309-691).
THEOREM TypeCorrect == Spec => []TypeOK
  <1>1. TypeInv => TypeOK
    BY DEF TypeInv, TypeOK, HasThread
  <1> QED
    BY TypeInit, TypeStep, <1>1, PTL DEF Spec
-----------------------------------------------------------------------------
(***************************************************************************)
(* Ports.  ServerHasThePorts follows from what a thread has bound at every *)
(* place of its code: none before the loop of bind() calls, those below    *)
(* index in it, all of them after it.                                      *)
(***************************************************************************)
PortInv ==
  \A k \in Threads :
      /\ thr[k].pc \in {"loop", "trigger", "flush"} => \A p \in Ports : owner[p] = k
      /\ thr[k].pc = "bind" =>
            thr[k].index \in Ports /\ \A p \in Ports : owner[p] = k <=> p < thr[k].index
      /\ thr[k].pc \in {"none", "created", "wait", "ended", "failed"} => \A p \in Ports : owner[p] # k
      /\ k > counter_UE => thr[k].pc = "none"

LEMMA PortInit == Init => PortInv
  <1> SUFFICES ASSUME Init, NEW k \in Threads
               PROVE  thr[k].pc = "none" /\ \A p \in Ports : owner[p] # k
    BY DEF PortInv
  <1>1. k # NoThread
    BY DEF Threads, NoThread
  <1> QED
    BY <1>1, Zenon DEF Init

LEMMA PortStep == TypeInv /\ PortInv /\ [Next]_vars => PortInv'
  <1> SUFFICES ASSUME TypeInv, PortInv, [Next]_vars PROVE PortInv'
    BY SMTT(60)
  <1> USE DEF envVars, ctxVars, thrVars
  <1>a. ThrType /\ counter_UE \in Nat /\ Threads \subseteq Nat \ {0}
    BY DEF TypeInv, CtxType, Threads
  <1>1. CASE UNCHANGED <<thr, owner, counter_UE>>
    BY <1>1, Zenon DEF PortInv
  <1>2. CASE HandleAttach
    <2>1. /\ thr' = [thr EXCEPT ![counter_UE + 1].pc = "created"] /\ owner' = owner
          /\ counter_UE' = counter_UE + 1
      BY <1>2 DEF HandleAttach, Handle
    <2>2. ASSUME NEW k \in Threads
          PROVE  \/ thr'[k] = thr[k] /\ (k > counter_UE' => k > counter_UE)
                 \/ thr[k].pc = "none" /\ thr'[k].pc = "created" /\ ~(k > counter_UE')
      <3>1. CASE k = counter_UE + 1
        BY <1>a, <2>1, <3>1 DEF PortInv, ThrType
      <3>2. CASE k # counter_UE + 1
        BY <1>a, <2>1, <3>2 DEF ThrType
      <3> QED
        BY <3>1, <3>2
    <2>3. owner' = owner
      BY <2>1
    <2> QED
      BY <2>2, <2>3 DEF PortInv
  <1>3. ASSUME NEW k \in Threads, ThreadStep(k) \/ Triggers(k) PROVE PortInv'
    <2>1. counter_UE' = counter_UE /\ thr[k].pc # "none"
      BY <1>3, ThreadType, ZenonT(60)
      DEF ThreadStep, Triggers, ThreadStarts, ThreadFails, Superseded, StillLatest,
         BindOk, BindFails, LoopAgain, LoopEnds, FlushSend, FlushJoin, TriggerFlush, TriggerZero, Move
    <2>2. ~(k > counter_UE)
      BY <2>1, Zenon DEF PortInv
    \* it is enough to look at k and at the ports the others have
    <2> DEFINE Mine == /\ thr'[k].pc \in {"loop", "trigger", "flush"} => \A p \in Ports : owner'[p] = k
                       /\ thr'[k].pc = "bind" =>
                             thr'[k].index \in Ports /\ \A p \in Ports : owner'[p] = k <=> p < thr'[k].index
                       /\ thr'[k].pc \in {"none", "created", "wait", "ended", "failed"}
                             => \A p \in Ports : owner'[p] # k
               Others == \A l \in Threads : l # k => /\ thr'[l] = thr[l]
                                                     /\ \A p \in Ports : owner'[p] = l <=> owner[p] = l
    <2>3. ASSUME Mine, Others PROVE PortInv'
      <3> SUFFICES ASSUME NEW l \in Threads
                   PROVE  /\ thr'[l].pc \in {"loop", "trigger", "flush"} => \A p \in Ports : owner'[p] = l
                          /\ thr'[l].pc = "bind" =>
                                /\ thr'[l].index \in Ports
                                /\ \A p \in Ports : owner'[p] = l <=> p < thr'[l].index
                          /\ thr'[l].pc \in {"none", "created", "wait", "ended", "failed"}
                                => \A p \in Ports : owner'[p] # l
                          /\ l > counter_UE' => thr'[l].pc = "none"
        BY SMTT(60) DEF PortInv
      <3>1. CASE l = k
        BY <2>1, <2>2, <2>3, <3>1, Zenon
      <3>2. CASE l # k
        BY <2>1, <2>3, <3>2, SMTT(60) DEF PortInv
      <3> QED
        BY <3>1, <3>2, Zenon
    <2>4. CASE ThreadStarts(k)
      <3>1. PICK c : thr' = [thr EXCEPT ![k] = [pc |-> "wait", counter |-> c, index |-> 0]]
        BY <2>4, Zenon DEF ThreadStarts
      <3>2. owner' = owner /\ thr[k].pc = "created"
        BY <2>4 DEF ThreadStarts
      <3>3. Mine /\ Others
        BY <1>a, <3>1, <3>2 DEF PortInv, ThrType
      <3> QED
        BY <2>3, <3>3
    <2>5. CASE ThreadFails(k) \/ LoopAgain(k) \/ FlushJoin(k) \/ TriggerFlush(k)
      <3>1. owner' = owner
        BY <2>5 DEF ThreadFails, LoopAgain, FlushJoin, TriggerFlush
      <3>2. \/ thr[k].pc = "created" /\ thr' = [thr EXCEPT ![k].pc = "failed"]
            \/ thr[k].pc = "loop" /\ thr' = [thr EXCEPT ![k].pc = "trigger"]
            \/ thr[k].pc = "flush" /\ thr' = [thr EXCEPT ![k].pc = "loop"]
            \/ thr[k].pc = "trigger" /\ thr' = [thr EXCEPT ![k].pc = "flush"]
        BY <2>5 DEF ThreadFails, LoopAgain, FlushJoin, TriggerFlush, Move
      <3>3. Mine /\ Others
        BY <1>a, <3>1, <3>2 DEF PortInv, ThrType
      <3> QED
        BY <2>3, <3>3
    <2>6. CASE Superseded(k) \/ BindFails(k) \/ LoopEnds(k) \/ TriggerZero(k)
      <3>1. /\ owner' = [p \in Ports |-> IF owner[p] = k THEN NoThread ELSE owner[p]]
            /\ thr' = [thr EXCEPT ![k].pc = "ended"]
        BY <2>6 DEF Superseded, BindFails, LoopEnds, TriggerZero, Move, CloseAll
      <3>2. \A l \in Threads : l # NoThread
        BY <1>a DEF NoThread
      <3>3. Mine /\ Others
        BY <1>a, <3>1, <3>2, SMTT(60) DEF ThrType
      <3> QED
        BY <2>3, <3>3
    <2>7. CASE StillLatest(k)
      <3>1. /\ owner' = owner /\ thr[k].pc = "wait"
            /\ thr'[k].pc \in {"wait", "bind"} /\ (thr'[k].pc = "bind" => thr'[k].index = 0)
            /\ \A l \in Threads : l # k => thr'[l] = thr[l]
        BY <1>a, <2>7, SMTT(60) DEF StillLatest, ThrType
      <3>2. Mine /\ Others
        BY <3>1, SMTT(60) DEF PortInv, Ports
      <3> QED
        BY <2>3, <3>2
    <2>8. CASE BindOk(k)
      <3> DEFINE i == thr[k].index
      <3>1. /\ thr[k].pc = "bind" /\ owner[i] = NoThread /\ owner' = [owner EXCEPT ![i] = k]
            /\ thr'[k].pc = (IF i = 3 THEN "loop" ELSE "bind") /\ thr'[k].index = i + 1
            /\ \A l \in Threads : l # k => thr'[l] = thr[l]
        BY <1>a, <2>8, Zenon DEF BindOk, ThrType
      <3>2. i \in 0..3 /\ \A p \in 0..3 : owner[p] = k <=> p < i
        BY <3>1, SMTT(60) DEF PortInv, Ports
      <3>3. \A p \in 0..3 : owner'[p] = IF p = i THEN k ELSE owner[p]
        BY <1>a, <3>1, <3>2, Zenon DEF ThrType, Ports
      <3>4. Mine
        BY <3>1, <3>2, <3>3 DEF Ports
      <3>5. Others
        <4> SUFFICES ASSUME NEW l \in Threads, l # k, NEW p \in 0..3
                     PROVE  owner'[p] = l <=> owner[p] = l
          BY <3>1, Zenon DEF Ports
        <4>1. l # NoThread
          BY <1>a DEF NoThread
        <4> QED
          BY <3>1, <3>3, <4>1, Zenon
      <3> QED
        BY <2>3, <3>4, <3>5, Zenon
    <2>9. CASE \E j \in Bearers : FlushSend(k, j)
      BY <1>1, <2>1, <2>9, SMTT(60) DEF FlushSend
    <2> QED
      BY <1>3, <2>4, <2>5, <2>6, <2>7, <2>8, <2>9, Zenon DEF ThreadStep, Triggers
  <1>4. CASE HandleInitial \/ HandleSetupSuccess \/ HandleTerminate \/ TaskEnds
    BY <1>1, <1>4, SMTT(60) DEF HandleInitial, HandleSetupSuccess, HandleTerminate, TaskEnds, Handle
  <1>5. CASE Environment
    BY <1>1, <1>5 DEF Environment, InitialUeMessage, AttachComplete, ErabSetupSuccess, Terminate
  <1>6. CASE UNCHANGED vars
    BY <1>1, <1>6 DEF vars
  <1> QED
    BY <1>2, <1>3, <1>4, <1>5, <1>6, Zenon DEF Next, TaskStep

\* For any number of UEs and attaches, a setup thread that serves triggers has all four ports
\* and one that has ended has none, so that at most one serves (drb.c:76-205).
THEOREM PortsCorrect == Spec => []ServerHasThePorts
  <1>1. PortInv => ServerHasThePorts
    BY DEF PortInv, ServerHasThePorts
  <1> QED
    BY TypeInit, TypeStep, PortInit, PortStep, <1>1, PTL DEF Spec
=============================================================================
