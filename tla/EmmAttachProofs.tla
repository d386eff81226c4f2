--------------------------- MODULE EmmAttachProofs ---------------------------
(***************************************************************************)
(* Proofs about EmmAttach, for every set of subscribers and every number   *)
(* of connections.                                                         *)
(***************************************************************************)
EXTENDS EmmAttach, TLAPS

(***************************************************************************)
(* The inductive invariant: what is true of each connection u.             *)
(***************************************************************************)
\* A connection without a request has nothing.
UnusedOK(u) == ue[u] = None =>
    /\ ctx[u] = None /\ args[u] = None /\ T3450[u] = "off" /\ retx[u] = 0
    /\ u \notin forwarded /\ u \notin accepted /\ u \notin outside

\* A context that another procedure deleted does not come back.
OutsideOK(u) == u \in outside => ctx[u] = None

\* Retransmission data belongs to an attach that is not complete, unless
\* another procedure deleted the context.
DataOK(u) == args[u] \in Nat /\ u \notin outside =>
    /\ ctx[u] # None /\ ctx[u].fsm # "REGISTERED" /\ ctx[u].guti # "valid"
    /\ u \notin forwarded /\ args[u] < ATTACH_COUNTER_MAX

\* While T3450 runs its data is there, unless an ATTACH COMPLETE came after
\* the context was deleted.
TimerOK(u) == T3450[u] = "on" => args[u] \in Nat \/ (u \in outside /\ u \in late)

\* An attach that waits for a procedure has not come to the accept.
WaitingOK(u) == (ctx[u] # None /\ ctx[u].proc # "none") =>
    /\ T3450[u] = "off" /\ retx[u] = 0 /\ u \notin forwarded /\ u \notin accepted
    /\ ctx[u].fsm # "REGISTERED" /\ ctx[u].guti = "none"
    /\ ctx[u].proc = "ESM" => args[u] \in Nat

\* The retransmissions are counted.
CountOK(u) ==
    /\ retx[u] < ATTACH_COUNTER_MAX
    /\ args[u] \in Nat => retx[u] <= args[u]

ConnOK(u) == UnusedOK(u) /\ OutsideOK(u) /\ DataOK(u) /\ TimerOK(u) /\ WaitingOK(u) /\ CountOK(u)

Inv == TypeOK /\ \A u \in Conn : ConnOK(u)

\* None is no count.
LEMMA NoneFacts == None \notin Nat /\ None # Freed /\ Freed \notin Nat /\ 0 \in Nat
BY NoneAssumption DEF Freed
-----------------------------------------------------------------------------
(***************************************************************************)
(* The parts the handlers share.                                           *)
(***************************************************************************)
\* Deleting contexts leaves the tables well typed, and none of D.
LEMMA DetachedType ==
    ASSUME TypeOK, NEW D \in SUBSET Conn
    PROVE  /\ Detached(D) \in [Conn -> Context \cup {None}]
           /\ Unindexed(D) \in [Imsi -> Conn \cup {None}]
           /\ \A v \in Conn : Detached(D)[v] = IF v \in D THEN None ELSE ctx[v]
BY DEF TypeOK, Detached, Unindexed

\* What _emm_attach_abort() does to the timer and data of each connection.
LEMMA AbortType ==
    ASSUME TypeOK, NEW D \in SUBSET Conn, Abort(D)
    PROVE  /\ args' \in [Conn -> Nat \cup {None, Freed}]
           /\ T3450' \in [Conn -> {"on", "off"}]
           /\ \A v \in Conn :
                 /\ args'[v] = IF v \in Aborting(D) THEN None ELSE args[v]
                 /\ T3450'[v] = IF v \in Aborting(D) THEN "off" ELSE T3450[v]
                 /\ args'[v] \in Nat => args'[v] = args[v]
<1>1. args \in [Conn -> Nat \cup {None, Freed}] /\ T3450 \in [Conn -> {"on", "off"}]
  BY DEF TypeOK
<1> QED
  BY <1>1, NoneFacts DEF Abort

\* Deleting the contexts D keeps the invariant if the attaches among them that
\* have data are aborted and only deleted ones are.
LEMMA DeleteKeeps ==
    ASSUME Inv, NEW D \in SUBSET Conn, NEW A \in SUBSET D,
           \A w \in D : args[w] \in Nat /\ w \notin outside => w \in A,
           Abort(A), UNCHANGED past,
           NEW v \in Conn, ctx'[v] = Detached(D)[v], ue'[v] = ue[v] \/ ue'[v] # None
    PROVE  ConnOK(v)'
<1>1. TypeOK /\ ConnOK(v)
  BY DEF Inv
<1>2. A \in SUBSET Conn
  OBVIOUS
<1>3. ctx'[v] = IF v \in D THEN None ELSE ctx[v]
  BY <1>1, DetachedType
<1>4. /\ args'[v] = IF v \in Aborting(A) THEN None ELSE args[v]
      /\ T3450'[v] = IF v \in Aborting(A) THEN "off" ELSE T3450[v]
  BY <1>1, <1>2, AbortType
<1>5. T3450[v] \in {"on", "off"}
  BY <1>1 DEF TypeOK
<1>6. v \in Aborting(A) => v \in D
  BY DEF Aborting
<1>7. v \in D /\ args[v] \in Nat /\ v \notin outside => v \in Aborting(A)
  BY <1>1, NoneFacts DEF ConnOK, DataOK, Aborting
<1>8. /\ retx'[v] = retx[v] /\ forwarded' = forwarded /\ accepted' = accepted
      /\ outside' = outside /\ late' = late
  BY DEF past
<1>9. UnusedOK(v)'
  BY <1>1, <1>3, <1>4, <1>5, <1>8 DEF ConnOK, UnusedOK
<1>10. OutsideOK(v)'
  BY <1>1, <1>3, <1>8 DEF ConnOK, OutsideOK
<1>11. DataOK(v)'
  BY <1>1, <1>3, <1>4, <1>7, <1>8, NoneFacts DEF ConnOK, DataOK
<1>12. TimerOK(v)'
  BY <1>1, <1>4, <1>5, <1>8 DEF ConnOK, TimerOK
<1>13. WaitingOK(v)'
  BY <1>1, <1>3, <1>4, <1>5, <1>6, <1>8 DEF ConnOK, WaitingOK
<1>14. CountOK(v)'
  BY <1>1, <1>3, <1>4, <1>8, NoneFacts DEF ConnOK, CountOK
<1> QED
  BY <1>9, <1>10, <1>11, <1>12, <1>13, <1>14 DEF ConnOK

\* A crash changes nothing else.
LEMMA CrashKeeps ==
    ASSUME Inv, Crash, unanswered' \in BOOLEAN
    PROVE  Inv'
<1>1. TypeOK'
  BY DEF Inv, TypeOK, Crash, emmVars, past
<1>2. ASSUME NEW v \in Conn PROVE ConnOK(v)'
  BY DEF Inv, Crash, emmVars, past, ConnOK, UnusedOK, OutsideOK, DataOK, TimerOK, WaitingOK, CountOK
<1> QED
  BY <1>1, <1>2 DEF Inv

\* _emm_attach_release() keeps the invariant.
LEMMA ReleaseKeeps ==
    ASSUME Inv, NEW u \in Conn, Release(u)
    PROVE  Inv'
<1>1. TypeOK /\ {u} \in SUBSET Conn
  BY DEF Inv
<1>2. CASE Aborting({u}) # {} /\ Crash /\ UNCHANGED unanswered
  BY <1>1, <1>2, CrashKeeps DEF TypeOK
<1>3. CASE /\ Abort({u})
           /\ ctx' = Detached({u}) /\ imsiIdx' = Unindexed({u})
           /\ UNCHANGED <<ue, crashed, history>>
  <2>1. UNCHANGED <<ue, crashed, past, unanswered>>
    BY <1>3 DEF history
  <2>2. TypeOK'
    BY <1>1, <1>3, <2>1, DetachedType, AbortType DEF TypeOK, past
  <2>3. ASSUME NEW v \in Conn PROVE ConnOK(v)'
    <3>1. \A w \in {u} : args[w] \in Nat /\ w \notin outside => w \in {u}
      OBVIOUS
    <3> QED
      BY <1>1, <1>3, <2>1, <3>1, DeleteKeeps
  <2> QED
    BY <2>2, <2>3 DEF Inv
<1> QED
  BY <1>2, <1>3 DEF Release

\* A dropped request keeps the invariant.
LEMMA DropKeeps ==
    ASSUME Inv, NEW u \in Conn, NEW i \in Imsi,
           NEW D \in SUBSET Conn, NEW A \in SUBSET D,
           \A w \in D : args[w] \in Nat /\ w \notin outside => w \in A,
           Drop(u, i, D, A), unanswered' \in BOOLEAN
    PROVE  Inv'
<1>1. TypeOK
  BY DEF Inv
<1>2. A \in SUBSET Conn
  OBVIOUS
<1>3. TypeOK'
  BY <1>1, <1>2, DetachedType, AbortType DEF Drop, TypeOK, past
<1>4. ASSUME NEW v \in Conn PROVE ConnOK(v)'
  <2>1. Abort(A) /\ ctx' = Detached(D) /\ UNCHANGED past
    BY DEF Drop
  <2>2. ue'[v] = ue[v] \/ ue'[v] # None
    BY <1>1, NoneAssumption DEF Drop, TypeOK
  <2> QED
    BY <2>1, <2>2, DeleteKeeps
<1> QED
  BY <1>3, <1>4 DEF Inv

\* A request processed as a fresh one keeps the invariant.
LEMMA ProcessKeeps ==
    ASSUME Inv, NEW u \in Conn, NEW i \in Imsi, NEW imsi \in Imsi \cup {None}, NEW c \in Caps,
           NEW D \in SUBSET Conn, NEW A \in SUBSET D,
           \A w \in D : args[w] \in Nat /\ w \notin outside => w \in A,
           Fresh(u), Process(u, i, imsi, c, D, A), unanswered' \in BOOLEAN
    PROVE  Inv'
<1>1. TypeOK
  BY DEF Inv
<1>2. A \in SUBSET Conn
  OBVIOUS
<1>3. NewContext(imsi, c) \in Context
  BY DEF NewContext, AttachIdentify, Context
<1>4. CASE ctx' = Detached(D) /\ imsiIdx' = Unindexed(D)
  <2>1. Drop(u, i, D, A)
    BY <1>4 DEF Process, Drop
  <2> QED
    BY <2>1, DropKeeps
<1>5. CASE /\ ctx' = [Detached(D) EXCEPT ![u] = NewContext(imsi, c)]
           /\ imsiIdx' = IF imsi = None THEN Unindexed(D) ELSE [Unindexed(D) EXCEPT ![imsi] = u]
  <2>1. TypeOK'
    BY <1>1, <1>2, <1>3, <1>5, DetachedType, AbortType DEF Process, TypeOK, past
  <2>2. ue[u] = None /\ ConnOK(u)
    BY DEF Fresh, Inv
  <2>3. ASSUME NEW v \in Conn PROVE ConnOK(v)'
    <3>1. CASE v = u
      <4>1. /\ ctx[u] = None /\ args[u] = None /\ T3450[u] = "off" /\ retx[u] = 0
            /\ u \notin forwarded /\ u \notin accepted /\ u \notin outside
        BY <2>2 DEF ConnOK, UnusedOK
      <4>2. ue'[u] = i /\ i # None
        BY <1>1, NoneAssumption DEF Process, TypeOK
      <4>3. ctx'[u] = NewContext(imsi, c)
        BY <1>1, <1>5, DetachedType
      <4>4. args'[u] = None /\ T3450'[u] = "off"
        BY <1>1, <1>2, <4>1, AbortType DEF Process
      <4>5. /\ retx'[u] = 0 /\ u \notin forwarded'
            /\ u \notin accepted' /\ u \notin outside'
        BY <4>1, Zenon DEF Process, past
      <4>6. /\ ctx'[u].proc \in {"IDENT", "AUTH"} /\ ctx'[u].fsm = "DEREGISTERED"
            /\ ~ctx'[u].accept_sent /\ ctx'[u].guti = "none"
        BY <4>3 DEF NewContext, AttachIdentify
      <4> QED
        BY <3>1, <4>2, <4>4, <4>5, <4>6, NoneFacts
        DEF ConnOK, UnusedOK, OutsideOK, DataOK, TimerOK, WaitingOK, CountOK, ATTACH_COUNTER_MAX
    <3>2. CASE v # u
      <4>1. ctx'[v] = Detached(D)[v]
        BY <1>1, <1>5, <3>2, DetachedType
      <4>2. ue'[v] = ue[v]
        BY <1>1, <3>2 DEF Process, TypeOK
      <4>3. Abort(A) /\ UNCHANGED past
        BY DEF Process
      <4> QED
        BY <4>1, <4>2, <4>3, DeleteKeeps
    <3> QED
      BY <3>1, <3>2
  <2> QED
    BY <2>1, <2>3, Zenon DEF Inv
<1> QED
  BY <1>4, <1>5 DEF Process
-----------------------------------------------------------------------------
(***************************************************************************)
(* The actions.                                                            *)
(***************************************************************************)
\* Init establishes the invariant.
LEMMA InitInv == ASSUME Init PROVE Inv
<1>1. TypeOK
  BY NoneFacts DEF Init, TypeOK
<1>2. ASSUME NEW u \in Conn PROVE ConnOK(u)
  <2>1. /\ ctx[u] = None /\ args[u] = None /\ T3450[u] = "off" /\ retx[u] = 0
        /\ u \notin forwarded /\ u \notin accepted /\ u \notin outside
    BY DEF Init
  <2> QED
    BY <2>1, NoneFacts
    DEF ConnOK, UnusedOK, OutsideOK, DataOK, TimerOK, WaitingOK, CountOK, ATTACH_COUNTER_MAX
<1> QED
  BY <1>1, <1>2 DEF Inv

\* The context, data, timer and history of one connection change, those of the
\* others do not: the invariant of the others is kept.
LEMMA OthersKeep ==
    ASSUME Inv, NEW u \in Conn, NEW v \in Conn, v # u, ue' = ue,
           ctx'[v] = ctx[v], args'[v] = args[v], T3450'[v] = T3450[v], retx'[v] = retx[v],
           v \in forwarded' <=> v \in forwarded, v \in accepted' <=> v \in accepted,
           v \in outside' <=> v \in outside, v \in late' <=> v \in late
    PROVE  ConnOK(v)'
BY DEF Inv, ConnOK, UnusedOK, OutsideOK, DataOK, TimerOK, WaitingOK, CountOK

\* Every branch of emm_proc_attach_request() keeps the invariant.
LEMMA RequestKeeps ==
    ASSUME Inv, NEW u \in Conn, NEW i \in Imsi, NEW c \in Caps, AttachRequest(u, i, c)
    PROVE  Inv'
<1>1. unanswered \in BOOLEAN /\ None \in Imsi \cup {None} /\ i \in Imsi \cup {None}
  BY DEF Inv, TypeOK
<1>2. CASE RequestByGuti(u, i, c)
  <2>1. PICK g \in Conn :
          Process(u, i, None, c, IF ctx[g] # None /\ ctx[g].guti = "valid" THEN {g} ELSE {}, {})
    BY <1>2, Zenon DEF RequestByGuti
  <2> DEFINE D == IF ctx[g] # None /\ ctx[g].guti = "valid" THEN {g} ELSE {}
  <2>2. D \in SUBSET Conn /\ {} \in SUBSET D
    OBVIOUS
  <2>3. \A v \in D : args[v] \in Nat /\ v \notin outside => v \in {}
    BY DEF Inv, ConnOK, DataOK
  <2>4. Fresh(u) /\ unanswered' \in BOOLEAN
    BY <1>1, <1>2 DEF RequestByGuti
  <2>5. Process(u, i, None, c, D, {})
    BY <2>1
  <2> HIDE DEF D
  <2> QED
    BY <1>1, <2>2, <2>3, <2>4, <2>5, ProcessKeeps
<1>3. CASE RequestOfNewImsi(u, i, c)
  <2>1. /\ Fresh(u) /\ unanswered' \in BOOLEAN
        /\ Process(u, i, i, c, {}, {})
    BY <1>1, <1>3 DEF RequestOfNewImsi
  <2>2. {} \in SUBSET Conn /\ {} \in SUBSET {} /\ \A v \in {} : args[v] \in Nat /\ v \notin outside => v \in {}
    OBVIOUS
  <2> QED
    BY <1>1, <2>1, <2>2, ProcessKeeps
<1>4. CASE RequestInCommonProcedure(u, i, c)
  <2>1. PICK o \in Conn :
          /\ Fresh(u)
          /\ Process(u, i, i, c, {o}, {o}) \/ Drop(u, i, {o}, {o}) \/ Crash
    BY <1>4 DEF RequestInCommonProcedure, Found
  <2>2. /\ {o} \in SUBSET Conn /\ {o} \in SUBSET {o}
        /\ \A v \in {o} : args[v] \in Nat /\ v \notin outside => v \in {o}
    OBVIOUS
  <2>3. unanswered' \in BOOLEAN
    BY <1>1, <1>4 DEF RequestInCommonProcedure
  <2>4. CASE Process(u, i, i, c, {o}, {o})
    BY <1>1, <2>1, <2>2, <2>3, <2>4, ProcessKeeps
  <2>5. CASE Drop(u, i, {o}, {o})
    BY <2>2, <2>3, <2>5, DropKeeps
  <2>6. CASE Crash
    BY <2>3, <2>6, CrashKeeps
  <2> QED
    BY <2>1, <2>4, <2>5, <2>6
<1>5. CASE RequestOfRegistered(u, i, c)
  <2>1. PICK o \in Conn :
          Found(u, i, o) /\ ctx[o].fsm = "REGISTERED" /\ Process(u, i, i, c, {o}, {})
    BY <1>5 DEF RequestOfRegistered
  <2>2. Fresh(u) /\ unanswered' \in BOOLEAN
    BY <1>1, <1>5, <2>1 DEF RequestOfRegistered, Found
  <2>3. {o} \in SUBSET Conn /\ {} \in SUBSET {o}
    BY Zenon
  <2>4. \A v \in {o} : args[v] \in Nat /\ v \notin outside => v \in {}
    BY <2>1 DEF Inv, ConnOK, DataOK
  <2> QED
    BY <1>1, <2>1, <2>2, <2>3, <2>4, ProcessKeeps
<1>6. CASE RequestAfterAccept(u, i, c)
  <2>1. PICK o \in Conn :
          /\ Fresh(u)
          /\ unanswered' = (unanswered \/ (c = ctx[o].caps /\ T3450[o] = "on"))
          /\ Process(u, i, i, c, {o}, {o}) \/ Crash
    BY <1>6, Zenon DEF RequestAfterAccept, Found
  <2>2. /\ {o} \in SUBSET Conn /\ {o} \in SUBSET {o}
        /\ \A v \in {o} : args[v] \in Nat /\ v \notin outside => v \in {o}
    OBVIOUS
  <2>3. unanswered' \in BOOLEAN
    BY <1>1, <2>1
  <2>4. CASE Process(u, i, i, c, {o}, {o})
    BY <1>1, <2>1, <2>2, <2>3, <2>4, ProcessKeeps
  <2>5. CASE Crash
    BY <2>3, <2>5, CrashKeeps
  <2> QED
    BY <2>1, <2>4, <2>5
<1>7. CASE RequestUnderWay(u, i, c)
  <2>1. PICK o \in Conn :
          Fresh(u) /\ (Process(u, i, i, c, {o}, {o}) \/ Drop(u, i, {}, {}))
    BY <1>7 DEF RequestUnderWay, Found
  <2>2. /\ {o} \in SUBSET Conn /\ {o} \in SUBSET {o}
        /\ \A v \in {o} : args[v] \in Nat /\ v \notin outside => v \in {o}
    OBVIOUS
  <2>3. unanswered' \in BOOLEAN
    BY <1>1, <1>7 DEF RequestUnderWay
  <2>4. CASE Process(u, i, i, c, {o}, {o})
    BY <1>1, <2>1, <2>2, <2>3, <2>4, ProcessKeeps
  <2>5. CASE Drop(u, i, {}, {})
    <3>1. {} \in SUBSET Conn /\ {} \in SUBSET {} /\ \A v \in {} : args[v] \in Nat /\ v \notin outside => v \in {}
      OBVIOUS
    <3> QED
      BY <2>3, <2>5, <3>1, DropKeeps
  <2> QED
    BY <2>1, <2>4, <2>5, Zenon
<1> QED
  BY <1>2, <1>3, <1>4, <1>5, <1>6, <1>7 DEF AttachRequest

\* The steps of the procedures that only change what u waits for.
LEMMA WaitForKeeps ==
    ASSUME Inv, NEW u \in Conn, NEW p \in {"SMC", "none"},
           ctx[u] # None, ctx[u].proc \in {"AUTH", "SMC"}, WaitFor(u, p),
           UNCHANGED <<ue, imsiIdx, args, T3450, crashed, history>>
    PROVE  Inv'
<1>1. TypeOK /\ ConnOK(u) /\ ctx[u] \in Context
  BY DEF Inv, TypeOK
<1>2. /\ ctx'[u] = [ctx[u] EXCEPT !.proc = p]
      /\ \A v \in Conn : v # u => ctx'[v] = ctx[v]
      /\ ctx' \in [Conn -> Context \cup {None}]
  BY <1>1 DEF WaitFor, TypeOK, Context
<1>3. ctx'[u] # None /\ ctx'[u].proc = p /\ ctx'[u].fsm = ctx[u].fsm
      /\ ctx'[u].accept_sent = ctx[u].accept_sent /\ ctx'[u].guti = ctx[u].guti
  BY <1>1, <1>2, NoneAssumption DEF Context
<1>4. TypeOK'
  BY <1>1, <1>2, Zenon DEF TypeOK, history, past
<1>5. ConnOK(u)'
  BY <1>1, <1>3 DEF ConnOK, UnusedOK, OutsideOK, DataOK, TimerOK, WaitingOK, CountOK, history, past
<1>6. ASSUME NEW v \in Conn, v # u PROVE ConnOK(v)'
  BY <1>2, <1>6, OthersKeep DEF history, past
<1> QED
  BY <1>4, <1>5, <1>6 DEF Inv

\* Identification keeps the invariant.
LEMMA IdentifiedKeeps ==
    ASSUME Inv, NEW u \in Conn, Identified(u)
    PROVE  Inv'
<1>1. TypeOK /\ ConnOK(u) /\ ctx[u] # None /\ ctx[u] \in Context /\ ctx[u].proc = "IDENT"
  BY DEF Inv, TypeOK, Identified, Waits
<1>2. /\ ctx'[u] = [ctx[u] EXCEPT !.imsi = ue[u], !.proc = "AUTH"]
      /\ \A v \in Conn : v # u => ctx'[v] = ctx[v]
      /\ ctx' \in [Conn -> Context \cup {None}]
  BY <1>1 DEF Identified, TypeOK, Context
<1>3. ctx'[u] # None /\ ctx'[u].proc = "AUTH" /\ ctx'[u].fsm = ctx[u].fsm
      /\ ctx'[u].accept_sent = ctx[u].accept_sent /\ ctx'[u].guti = ctx[u].guti
  <2>1. ue[u] \in Imsi \cup {None}
    BY <1>1 DEF TypeOK
  <2>2. [ctx[u] EXCEPT !.imsi = ue[u], !.proc = "AUTH"] \in Context
    BY <1>1, <2>1, Zenon DEF Context
  <2>3. ctx'[u] # None
    BY <1>2, <2>2, NoneAssumption
  <2>4. ctx'[u].proc = "AUTH" /\ ctx'[u].fsm = ctx[u].fsm
        /\ ctx'[u].accept_sent = ctx[u].accept_sent /\ ctx'[u].guti = ctx[u].guti
    BY <1>1, <1>2 DEF Context
  <2> QED
    BY <2>3, <2>4
<1>4. TypeOK'
  BY <1>1, <1>2, Zenon DEF TypeOK, history, past, Identified
<1>5. ConnOK(u)'
  BY <1>1, <1>3 DEF ConnOK, UnusedOK, OutsideOK, DataOK, TimerOK, WaitingOK, CountOK, history, past, Identified
<1>6. ASSUME NEW v \in Conn, v # u PROVE ConnOK(v)'
  BY <1>2, <1>6, OthersKeep DEF history, past, Identified
<1> QED
  BY <1>4, <1>5, <1>6 DEF Inv

\* _emm_attach() keeps the invariant.
LEMMA EmmAttachKeeps ==
    ASSUME Inv, NEW u \in Conn, EmmAttach(u)
    PROVE  Inv'
<1>1. TypeOK /\ ConnOK(u) /\ ctx[u] # None /\ ctx[u] \in Context /\ ctx[u].proc = "SMC"
  BY DEF Inv, TypeOK, EmmAttach, Waits
<1>2. CASE /\ WaitFor(u, "ESM") /\ args' = [args EXCEPT ![u] = 0]
           /\ UNCHANGED <<ue, imsiIdx, T3450, crashed, history>>
  <2>1. /\ ctx'[u] = [ctx[u] EXCEPT !.proc = "ESM"]
        /\ \A v \in Conn : v # u => ctx'[v] = ctx[v]
        /\ ctx' \in [Conn -> Context \cup {None}]
    BY <1>1, <1>2 DEF WaitFor, TypeOK, Context
  <2>2. /\ args'[u] = 0
        /\ \A v \in Conn : v # u => args'[v] = args[v]
        /\ args' \in [Conn -> Nat \cup {None, Freed}]
        /\ \A v \in Conn : args'[v] \in Nat /\ v \notin outside => args'[v] < ATTACH_COUNTER_MAX
    BY <1>1, <1>2 DEF TypeOK, ATTACH_COUNTER_MAX
  <2>3. ctx'[u] # None /\ ctx'[u].proc = "ESM" /\ ctx'[u].fsm = ctx[u].fsm
        /\ ctx'[u].accept_sent = ctx[u].accept_sent /\ ctx'[u].guti = ctx[u].guti
    BY <1>1, <2>1, NoneAssumption DEF Context
  <2>4. TypeOK'
    BY <1>1, <1>2, <2>1, <2>2, Zenon DEF TypeOK, history, past
  <2>5. ConnOK(u)'
    BY <1>1, <1>2, <2>2, <2>3, NoneFacts
    DEF ConnOK, UnusedOK, OutsideOK, DataOK, TimerOK, WaitingOK, CountOK, ATTACH_COUNTER_MAX, history, past
  <2>6. ASSUME NEW v \in Conn, v # u PROVE ConnOK(v)'
    BY <1>2, <2>1, <2>2, <2>6, OthersKeep DEF history, past
  <2> QED
    BY <2>4, <2>5, <2>6 DEF Inv
<1>3. CASE WaitFor(u, "none") /\ UNCHANGED <<ue, imsiIdx, args, T3450, crashed, history>>
  BY <1>1, <1>3, WaitForKeeps
<1>4. CASE Release(u)
  BY <1>4, ReleaseKeeps
<1>5. CASE Crash /\ UNCHANGED unanswered
  BY <1>1, <1>5, CrashKeeps DEF TypeOK
<1> QED
  BY <1>2, <1>3, <1>4, <1>5 DEF EmmAttach

\* _emm_attach_accept() keeps the invariant.
LEMMA EmmAttachAcceptKeeps ==
    ASSUME Inv, NEW u \in Conn, EmmAttachAccept(u)
    PROVE  Inv'
<1>1. TypeOK /\ ConnOK(u) /\ ctx[u] # None /\ ctx[u] \in Context /\ ctx[u].proc = "ESM"
  BY SMTT(60) DEF Inv, TypeOK, EmmAttachAccept, Waits
<1>2. PICK g \in {"none", "present"}, a \in BOOLEAN :
        /\ ctx' = [ctx EXCEPT ![u] = [@ EXCEPT !.guti = g, !.proc = "none",
                                              !.accept_sent = a \/ ctx[u].accept_sent]]
        /\ T3450' = [T3450 EXCEPT ![u] = IF a THEN "on" ELSE @]
        /\ accepted' = IF a THEN accepted \cup {u} ELSE accepted
  <2>1. CASE /\ ctx' = [ctx EXCEPT ![u].guti = "present", ![u].accept_sent = TRUE, ![u].proc = "none"]
             /\ T3450' = [T3450 EXCEPT ![u] = "on"]
             /\ accepted' = accepted \cup {u}
    <3>1. ctx' = [ctx EXCEPT ![u] = [@ EXCEPT !.guti = "present", !.proc = "none",
                                             !.accept_sent = TRUE \/ ctx[u].accept_sent]]
      BY <1>1, <2>1 DEF TypeOK, Context
    <3> QED
      BY <2>1, <3>1, Zenon
  <2>2. ASSUME NEW g \in {"none", "present"},
               ctx' = [ctx EXCEPT ![u].guti = g, ![u].proc = "none"] /\ UNCHANGED <<T3450, accepted>>
        PROVE  /\ ctx' = [ctx EXCEPT ![u] = [@ EXCEPT !.guti = g, !.proc = "none",
                                             !.accept_sent = FALSE \/ ctx[u].accept_sent]]
               /\ T3450' = [T3450 EXCEPT ![u] = IF FALSE THEN "on" ELSE @]
               /\ accepted' = IF FALSE THEN accepted \cup {u} ELSE accepted
    BY <1>1, <2>2 DEF TypeOK, Context
  <2> QED
    BY <2>1, <2>2, Zenon DEF EmmAttachAccept
<1>3. TypeOK'
  <2>1. UNCHANGED <<ue, imsiIdx, args, crashed, retx, forwarded, outside, late, unanswered>>
    BY Zenon DEF EmmAttachAccept
  <2>2. ctx' \in [Conn -> Context \cup {None}] /\ T3450' \in [Conn -> {"on", "off"}]
    BY <1>1, <1>2, Zenon DEF TypeOK, Context
  <2>3. accepted' \in SUBSET Conn
    BY <1>1, <1>2 DEF TypeOK
  <2> QED
    BY <1>1, <2>1, <2>2, <2>3, Zenon DEF TypeOK
<1>4. /\ ctx'[u] # None /\ ctx'[u].proc = "none" /\ ctx'[u].fsm = ctx[u].fsm
      /\ ctx'[u].guti = g /\ ctx'[u].accept_sent = (a \/ ctx[u].accept_sent)
  <2> DEFINE new == [ctx[u] EXCEPT !.guti = g, !.proc = "none",
                                  !.accept_sent = a \/ ctx[u].accept_sent]
  <2>1. ctx'[u] = new
    BY <1>1, <1>2 DEF TypeOK
  <2>2. ctx[u].accept_sent \in BOOLEAN
    BY <1>1 DEF Context
  <2>3. new \in Context
    BY <1>1, <1>2, <2>2, Zenon DEF Context
  <2>4. ctx'[u] # None
    BY <2>1, <2>3, NoneAssumption
  <2>5. /\ new.proc = "none" /\ new.fsm = ctx[u].fsm /\ new.guti = g
        /\ new.accept_sent = (a \/ ctx[u].accept_sent)
    BY <1>1 DEF Context
  <2> HIDE DEF new
  <2> QED
    BY <2>1, <2>4, <2>5
<1>5. T3450'[u] = IF a THEN "on" ELSE T3450[u]
  BY <1>1, <1>2 DEF TypeOK
<1>6. ConnOK(u)'
  <2>1. UNCHANGED <<ue, args, retx, forwarded, outside, late>>
    BY Zenon DEF EmmAttachAccept
  <2>2. ue[u] # None /\ u \notin outside /\ args[u] \in Nat
    BY <1>1 DEF ConnOK, UnusedOK, OutsideOK, WaitingOK
  <2> QED
    BY <1>1, <1>4, <1>5, <2>1, <2>2 DEF ConnOK, UnusedOK, OutsideOK, DataOK, TimerOK, WaitingOK, CountOK
<1>7. ASSUME NEW v \in Conn, v # u PROVE ConnOK(v)'
  <2>1. ctx'[v] = ctx[v] /\ T3450'[v] = T3450[v] /\ (v \in accepted' <=> v \in accepted)
    BY <1>1, <1>2, <1>7 DEF TypeOK
  <2> QED
    BY <1>7, <2>1, OthersKeep DEF EmmAttachAccept
<1> QED
  BY <1>3, <1>6, <1>7 DEF Inv

\* A retransmission with the data of v, after T3450 of u, keeps the invariant.
LEMMA RetransmitKeeps ==
    ASSUME Inv, NEW u \in Conn, NEW v \in Conn, T3450[u] = "on", args[v] \in Nat,
           u # v => u \in outside, args[v] + 1 < ATTACH_COUNTER_MAX, Retransmit(u, v)
    PROVE  Inv'
<1>1. TypeOK /\ ConnOK(v) /\ ConnOK(u)
  BY DEF Inv
<1>2. /\ args'[v] = args[v] + 1 /\ args'[v] \in Nat
      /\ \A w \in Conn : w # v => args'[w] = args[w]
      /\ args' \in [Conn -> Nat \cup {None, Freed}]
  BY <1>1 DEF TypeOK, Retransmit
<1>3. UNCHANGED <<ue, ctx, imsiIdx, crashed, forwarded, outside, late, unanswered>>
  BY DEF Retransmit
<1>4. /\ T3450' \in [Conn -> {"on", "off"}] /\ (u # v => T3450'[u] = "off")
      /\ \A w \in Conn : w # u => T3450'[w] = T3450[w]
  BY <1>1 DEF TypeOK, Retransmit, AcceptRetx
<1>5. \/ /\ ctx[v] # None /\ ctx[v].guti # "none"
         /\ retx' = [retx EXCEPT ![v] = @ + 1] /\ accepted' = accepted \cup {v}
      \/ UNCHANGED <<retx, accepted>>
  BY DEF Retransmit, AcceptRetx
<1>6. /\ retx' \in [Conn -> Nat] /\ accepted' \in SUBSET Conn
      /\ \A w \in Conn : w # v => retx'[w] = retx[w] /\ (w \in accepted' <=> w \in accepted)
      /\ retx'[v] <= retx[v] + 1
  BY <1>1, <1>5 DEF TypeOK
<1>7. TypeOK'
  <2>1. \A w \in Conn : args'[w] \in Nat /\ w \notin outside => args'[w] < ATTACH_COUNTER_MAX
    BY <1>1, <1>2 DEF TypeOK
  <2> QED
    BY <1>1, <1>2, <1>3, <1>4, <1>6, <2>1 DEF TypeOK
<1>8. ConnOK(v)'
  <2>1. ue[v] # None
    BY <1>1, NoneFacts DEF ConnOK, UnusedOK
  <2>2. retx'[v] <= args'[v] /\ retx'[v] < ATTACH_COUNTER_MAX
    BY <1>1, <1>2, <1>6 DEF TypeOK, ConnOK, CountOK, ATTACH_COUNTER_MAX
  <2>3. UnusedOK(v)' /\ OutsideOK(v)' /\ TimerOK(v)' /\ CountOK(v)'
    BY <1>1, <1>2, <1>3, <2>1, <2>2 DEF ConnOK, UnusedOK, OutsideOK, TimerOK, CountOK
  <2>4. DataOK(v)'
    BY <1>1, <1>2, <1>3 DEF ConnOK, DataOK
  <2>5. WaitingOK(v)'
    <3>1. CASE ctx[v] # None /\ ctx[v].proc # "none"
      <4>1. UNCHANGED <<retx, accepted>> /\ u # v
        BY <1>1, <1>5, <3>1 DEF ConnOK, WaitingOK
      <4> QED
        BY <1>1, <1>2, <1>3, <1>4, <3>1, <4>1 DEF ConnOK, WaitingOK
    <3>2. CASE ~(ctx[v] # None /\ ctx[v].proc # "none")
      BY <1>3, <3>2 DEF WaitingOK
    <3> QED
      BY <3>1, <3>2
  <2> QED
    BY <2>3, <2>4, <2>5 DEF ConnOK
<1>9. ASSUME NEW w \in Conn, w # v PROVE ConnOK(w)'
  <2>1. CASE w = u
    <3>1. T3450'[u] = "off" /\ u \in outside /\ ue[u] # None /\ ctx[u] = None
      BY <1>1, <1>4, <1>9, <2>1 DEF ConnOK, UnusedOK, OutsideOK
    <3> QED
      BY <1>1, <1>2, <1>3, <1>6, <1>9, <2>1, <3>1
      DEF ConnOK, UnusedOK, OutsideOK, DataOK, TimerOK, WaitingOK, CountOK
  <2>2. CASE w # u
    BY <1>2, <1>3, <1>4, <1>6, <1>9, <2>2, OthersKeep
  <2> QED
    BY <2>1, <2>2
<1> QED
  BY <1>7, <1>8, <1>9 DEF Inv

\* So does the abort at the fifth expiry.
LEMMA GiveUpKeeps ==
    ASSUME Inv, NEW u \in Conn, NEW v \in Conn, args[v] \in Nat,
           u # v => u \in outside, GiveUp(u, v)
    PROVE  Inv'
<1>1. TypeOK /\ ConnOK(v) /\ ConnOK(u) /\ {v} \in SUBSET Conn
  BY DEF Inv
<1>2. /\ args'[v] = IF ctx[v] # None THEN Freed ELSE args[v] + 1
      /\ \A w \in Conn : w # v => args'[w] = args[w]
      /\ args' \in [Conn -> Nat \cup {None, Freed}]
  BY <1>1 DEF TypeOK, GiveUp
<1>3. UNCHANGED <<ue, crashed, past, unanswered>>
  BY DEF GiveUp, history
<1>4. /\ T3450' \in [Conn -> {"on", "off"}] /\ T3450'[u] = "off"
      /\ ctx[v] # None => T3450'[v] = "off"
      /\ \A w \in Conn : w # u /\ ~(w = v /\ ctx[v] # None) => T3450'[w] = T3450[w]
  BY <1>1 DEF TypeOK, GiveUp
<1>5. /\ ctx' \in [Conn -> Context \cup {None}] /\ imsiIdx' \in [Imsi -> Conn \cup {None}]
      /\ ctx'[v] = None /\ \A w \in Conn : w # v => ctx'[w] = ctx[w]
  BY <1>1, DetachedType DEF GiveUp
<1>6. ctx[v] = None => v \in outside
  BY <1>1 DEF ConnOK, DataOK
<1>7. TypeOK'
  <2>1. \A w \in Conn : args'[w] \in Nat /\ w \notin outside => args'[w] < ATTACH_COUNTER_MAX
    BY <1>1, <1>2, <1>6, NoneFacts DEF TypeOK
  <2>2. UNCHANGED <<ue, crashed, retx, forwarded, accepted, outside, late, unanswered>>
    BY <1>3 DEF past
  <2> QED
    BY <1>1, <1>2, <1>4, <1>5, <2>1, <2>2 DEF TypeOK
<1>8. ConnOK(v)'
  <2>1. ue[v] # None
    BY <1>1, NoneFacts DEF ConnOK, UnusedOK
  <2>2. args[v] \in Nat /\ retx[v] \in Nat /\ T3450[v] \in {"on", "off"}
    BY <1>1 DEF TypeOK
  <2>3. UnusedOK(v)' /\ OutsideOK(v)' /\ WaitingOK(v)'
    BY <1>3, <1>5, <2>1 DEF UnusedOK, OutsideOK, WaitingOK
  <2>4. DataOK(v)' /\ CountOK(v)'
    BY <1>1, <1>2, <1>3, <1>6, <2>2, NoneFacts DEF ConnOK, DataOK, CountOK, past
  <2>5. TimerOK(v)'
    <3>1. CASE ctx[v] # None
      BY <1>4, <3>1 DEF TimerOK
    <3>2. CASE ctx[v] = None
      BY <1>2, <2>2, <3>2 DEF TimerOK
    <3> QED
      BY <3>1, <3>2
  <2> QED
    BY <2>3, <2>4, <2>5 DEF ConnOK
<1>9. ASSUME NEW w \in Conn, w # v PROVE ConnOK(w)'
  <2>1. CASE w = u
    <3>1. T3450'[u] = "off" /\ u \in outside /\ ue[u] # None /\ ctx[u] = None
      BY <1>1, <1>4, <1>9, <2>1 DEF ConnOK, UnusedOK, OutsideOK
    <3> QED
      BY <1>1, <1>2, <1>3, <1>5, <1>9, <2>1, <3>1
      DEF ConnOK, UnusedOK, OutsideOK, DataOK, TimerOK, WaitingOK, CountOK, past
  <2>2. CASE w # u
    BY <1>2, <1>3, <1>4, <1>5, <1>9, <2>2, OthersKeep DEF past
  <2> QED
    BY <2>1, <2>2
<1> QED
  BY <1>7, <1>8, <1>9 DEF Inv

\* An expiry of T3450 keeps the invariant.
LEMMA T3450HandlerKeeps ==
    ASSUME Inv, NEW u \in Conn, T3450Handler(u)
    PROVE  Inv'
<1>1. TypeOK /\ ConnOK(u) /\ T3450[u] = "on"
  BY DEF Inv, T3450Handler
<1>2. ASSUME NEW v \in Conn, args[v] \in Nat, u # v => u \in outside, Expire(u, v)
      PROVE  Inv'
  <2>1. CASE args[v] + 1 < ATTACH_COUNTER_MAX
    BY <1>1, <1>2, <2>1, RetransmitKeeps DEF Expire
  <2>2. CASE ~(args[v] + 1 < ATTACH_COUNTER_MAX)
    BY <1>1, <1>2, <2>2, GiveUpKeeps DEF Expire
  <2> QED
    BY <2>1, <2>2
<1>3. CASE args[u] \in Nat
  BY <1>2, <1>3 DEF T3450Handler
<1>4. CASE args[u] \notin Nat
  <2>1. u \in outside
    BY <1>1, <1>4 DEF ConnOK, TimerOK
  <2>2. CASE /\ T3450' = [T3450 EXCEPT ![u] = "off"]
             /\ UNCHANGED <<ue, ctx, imsiIdx, args, crashed, history>>
    <3>1. UNCHANGED <<retx, forwarded, accepted, outside, late, unanswered>>
      BY <2>2 DEF history, past
    <3>2. /\ T3450' \in [Conn -> {"on", "off"}] /\ T3450'[u] = "off"
          /\ \A w \in Conn : w # u => T3450'[w] = T3450[w]
      BY <1>1, <2>2 DEF TypeOK
    <3>3. TypeOK'
      BY <1>1, <2>2, <3>1, <3>2, Zenon DEF TypeOK
    <3>4. ConnOK(u)'
      BY <1>1, <2>2, <3>1, <3>2
      DEF ConnOK, UnusedOK, OutsideOK, DataOK, TimerOK, WaitingOK, CountOK
    <3>5. ASSUME NEW w \in Conn, w # u PROVE ConnOK(w)'
      BY <2>2, <3>1, <3>2, <3>5, OthersKeep
    <3> QED
      BY <3>3, <3>4, <3>5 DEF Inv
  <2>3. ASSUME NEW v \in Conn \ {u}, args[v] \in Nat /\ Expire(u, v) PROVE Inv'
    BY <1>2, <2>1, <2>3
  <2>4. CASE Crash /\ UNCHANGED unanswered
    BY <1>1, <2>4, CrashKeeps DEF TypeOK
  <2> QED
    BY <1>4, <2>2, <2>3, <2>4 DEF T3450Handler, ExpireFreed
<1> QED
  BY <1>3, <1>4

\* ATTACH COMPLETE keeps the invariant.
LEMMA CompleteKeeps ==
    ASSUME Inv, NEW u \in Conn, EmmProcAttachComplete(u)
    PROVE  Inv'
<1>1. TypeOK /\ ConnOK(u) /\ u \in accepted /\ unanswered' = unanswered /\ unanswered \in BOOLEAN
  BY DEF Inv, TypeOK, EmmProcAttachComplete
<1>2. ASSUME args' = [args EXCEPT ![u] = None]
      PROVE  /\ args'[u] = None
             /\ \A v \in Conn : v # u => args'[v] = args[v]
             /\ args' \in [Conn -> Nat \cup {None, Freed}]
             /\ \A v \in Conn : args'[v] \in Nat /\ v \notin outside => args'[v] < ATTACH_COUNTER_MAX
  BY <1>1, <1>2, NoneFacts DEF TypeOK
<1>3. ue[u] # None
  BY <1>1 DEF ConnOK, UnusedOK
<1>4. CASE ctx[u] = None
  <2>1. CASE Crash
    BY <1>1, <2>1, CrashKeeps
  <2>2. CASE /\ args' = [args EXCEPT ![u] = None]
             /\ late' = late \cup {u}
             /\ UNCHANGED <<ue, ctx, imsiIdx, T3450, crashed, retx, forwarded, accepted, outside>>
    <3>1. TypeOK'
      <4>1. late' \in SUBSET Conn
        BY <1>1, <2>2 DEF TypeOK
      <4> QED
        BY <1>1, <1>2, <2>2, <4>1, Zenon DEF TypeOK
    <3>2. ConnOK(u)'
      <4>1. T3450[u] = "on" => u \in outside
        BY <1>1, <1>4 DEF ConnOK, TimerOK, DataOK
      <4> QED
        BY <1>1, <1>2, <1>3, <1>4, <2>2, <4>1, NoneFacts DEF ConnOK, UnusedOK, OutsideOK,
           DataOK, TimerOK, WaitingOK, CountOK
    <3>3. ASSUME NEW v \in Conn, v # u PROVE ConnOK(v)'
      BY <1>2, <2>2, <3>3, OthersKeep
    <3> QED
      BY <3>1, <3>2, <3>3 DEF Inv
  <2> QED
    BY <1>4, <2>1, <2>2 DEF EmmProcAttachComplete, CompleteWithoutContext
<1>5. CASE ctx[u] # None
  <2>1. /\ args' = [args EXCEPT ![u] = None]
        /\ T3450' = [T3450 EXCEPT ![u] = "off"] /\ Complete(u)
        /\ UNCHANGED <<ue, imsiIdx, crashed, retx, accepted, outside, late>>
    BY <1>5 DEF EmmProcAttachComplete
  <2>2. PICK f \in {"DEREGISTERED", "REGISTERED"} :
          ctx' = [ctx EXCEPT ![u] = [@ EXCEPT !.guti = "valid", !.fsm = f]]
    <3>1. ctx[u] \in Context /\ ctx[u].fsm \in {"DEREGISTERED", "REGISTERED"}
      BY <1>1, <1>5 DEF TypeOK, Context
    <3>2. PICK f \in {"DEREGISTERED", "REGISTERED"} :
            ctx' = [ctx EXCEPT ![u].guti = "valid", ![u].fsm = f]
      BY <2>1, <3>1, Zenon DEF Complete
    <3>3. ctx' = [ctx EXCEPT ![u] = [@ EXCEPT !.guti = "valid", !.fsm = f]]
      BY <1>1, <3>1, <3>2, Zenon DEF TypeOK, Context
    <3> QED
      BY <3>3, Zenon
  <2>3. ctx[u] \in Context
    BY <1>1, <1>5 DEF TypeOK
  <2>4. /\ ctx' \in [Conn -> Context \cup {None}]
        /\ \A v \in Conn : v # u => ctx'[v] = ctx[v]
        /\ ctx'[u].proc = ctx[u].proc /\ ctx'[u].accept_sent = ctx[u].accept_sent
    BY <1>1, <2>2, <2>3, Zenon DEF TypeOK, Context
  <2>5. forwarded' \in SUBSET Conn /\ \A v \in Conn : v # u => (v \in forwarded' <=> v \in forwarded)
    BY <1>1, <2>1 DEF Complete, TypeOK
  <2>6. /\ T3450'[u] = "off" /\ T3450' \in [Conn -> {"on", "off"}]
        /\ \A v \in Conn : v # u => T3450'[v] = T3450[v]
    BY <1>1, <2>1 DEF TypeOK
  <2>7. TypeOK'
    BY <1>1, <1>2, <2>1, <2>4, <2>5, <2>6 DEF TypeOK
  <2>8. ctx[u].proc = "none" /\ u \notin outside
    BY <1>1, <1>5, Zenon DEF ConnOK, OutsideOK, WaitingOK
  <2>9. ConnOK(u)'
    <3>1. UNCHANGED <<ue, retx, outside>> /\ args'[u] \notin Nat
      BY <1>2, <2>1, NoneFacts
    <3> QED
      BY <1>1, <1>3, <2>4, <2>6, <2>8, <3>1, Zenon DEF ConnOK, UnusedOK, OutsideOK, DataOK, TimerOK, WaitingOK, CountOK
  <2>10. ASSUME NEW v \in Conn, v # u PROVE ConnOK(v)'
    BY <1>2, <2>1, <2>4, <2>5, <2>6, <2>10, OthersKeep
  <2> QED
    BY <2>7, <2>9, <2>10 DEF Inv
<1> QED
  BY <1>4, <1>5

\* A deletion by another procedure keeps the invariant.
LEMMA ContextDeletedKeeps ==
    ASSUME Inv, NEW u \in Conn, ContextDeleted(u)
    PROVE  Inv'
<1>1. TypeOK /\ ConnOK(u) /\ {u} \in SUBSET Conn /\ ctx[u] # None
  BY DEF Inv, ContextDeleted
<1>2. /\ outside' = outside \cup {u} /\ outside' \in SUBSET Conn
      /\ UNCHANGED <<ue, crashed, retx, forwarded, accepted, late, unanswered>>
  BY <1>1 DEF ContextDeleted, TypeOK
<1>3. /\ ctx' \in [Conn -> Context \cup {None}] /\ imsiIdx' \in [Imsi -> Conn \cup {None}]
      /\ ctx'[u] = None /\ \A w \in Conn : w # u => ctx'[w] = ctx[w]
  BY <1>1, DetachedType DEF ContextDeleted
<1>4. /\ args' \in [Conn -> Nat \cup {None, Freed}] /\ T3450' \in [Conn -> {"on", "off"}]
      /\ \A w \in Conn : w # u => args'[w] = args[w] /\ T3450'[w] = T3450[w]
      /\ \/ args'[u] = None /\ T3450'[u] = "off"
         \/ args'[u] = args[u] /\ T3450'[u] = T3450[u]
  <2>1. CASE Abort({u})
    BY <1>1, <2>1, AbortType DEF Aborting
  <2>2. CASE UNCHANGED <<args, T3450>>
    BY <1>1, <2>2 DEF TypeOK
  <2> QED
    BY <2>1, <2>2 DEF ContextDeleted
<1>5. TypeOK'
  <2>1. \A w \in Conn : args'[w] \in Nat /\ w \notin outside' => args'[w] < ATTACH_COUNTER_MAX
    BY <1>1, <1>2, <1>4 DEF TypeOK
  <2> QED
    BY <1>1, <1>2, <1>3, <1>4, <2>1 DEF TypeOK
<1>6. ConnOK(u)'
  <2>1. ue[u] # None /\ u \notin outside
    BY <1>1 DEF ConnOK, UnusedOK, OutsideOK
  <2>2. TimerOK(u)' /\ CountOK(u)'
    BY <1>1, <1>2, <1>4, <2>1, NoneFacts DEF ConnOK, TimerOK, CountOK
  <2> QED
    BY <1>2, <1>3, <2>1, <2>2 DEF ConnOK, UnusedOK, OutsideOK, DataOK, WaitingOK
<1>7. ASSUME NEW w \in Conn, w # u PROVE ConnOK(w)'
  <2>1. w \in outside' <=> w \in outside
    BY <1>2, <1>7
  <2> QED
    BY <1>2, <1>3, <1>4, <1>7, <2>1, OthersKeep
<1> QED
  BY <1>5, <1>6, <1>7 DEF Inv

\* Every step keeps the invariant.
LEMMA NextInv ==
    ASSUME Inv, [Next]_vars
    PROVE  Inv'
<1>1. CASE UNCHANGED vars
  <2>1. TypeOK'
    BY <1>1, Zenon DEF Inv, TypeOK, vars
  <2>2. ASSUME NEW v \in Conn PROVE ConnOK(v)'
    BY <1>1 DEF Inv, vars, ConnOK, UnusedOK, OutsideOK, DataOK, TimerOK, WaitingOK, CountOK
  <2> QED
    BY <2>1, <2>2 DEF Inv
<1>2. ASSUME NEW u \in Conn, Step(u) PROVE Inv'
  <2>1. CASE \E i \in Imsi, c \in Caps : AttachRequest(u, i, c)
    BY <2>1, RequestKeeps
  <2>2. ASSUME NEW i \in Imsi, RequestEmergency(u, i) PROVE Inv'
    <3>1. TypeOK'
      BY <2>2, Zenon DEF Inv, TypeOK, RequestEmergency, emmVars, history, past
    <3>2. ASSUME NEW v \in Conn PROVE ConnOK(v)'
      <4>1. ue'[v] = ue[v] \/ ue'[v] # None
        BY <2>2, NoneAssumption DEF Inv, TypeOK, RequestEmergency
      <4> QED
        BY <2>2, <4>1, Zenon
        DEF Inv, RequestEmergency, emmVars, history, past, ConnOK, UnusedOK, OutsideOK, DataOK,
            TimerOK, WaitingOK, CountOK
    <3> QED
      BY <3>1, <3>2 DEF Inv
  <2>3. CASE RequestOnKnownConnection(u)
    BY <2>3, ReleaseKeeps, SMTT(60) DEF RequestOnKnownConnection
  <2>4. CASE AttachReject(u)
    BY <2>4, ReleaseKeeps, CrashKeeps DEF AttachReject, Inv, TypeOK
  <2>5. CASE Identified(u)
    BY <2>5, IdentifiedKeeps
  <2>6. CASE EmmAttachSecurity(u)
    <3>1. CASE Release(u)
      BY <3>1, ReleaseKeeps
    <3>2. CASE ~Release(u)
      BY <2>6, <3>2, WaitForKeeps DEF EmmAttachSecurity, Waits
    <3> QED
      BY <3>1, <3>2
  <2>7. CASE AuthenticationFails(u)
    BY <2>7, WaitForKeeps DEF AuthenticationFails, Waits
  <2>8. CASE ProcedureFails(u)
    BY <2>8, ReleaseKeeps DEF ProcedureFails
  <2>9. CASE EmmAttach(u)
    BY <2>9, EmmAttachKeeps
  <2>10. CASE EmmAttachAccept(u)
    BY <2>10, EmmAttachAcceptKeeps
  <2>11. CASE T3450Handler(u)
    BY <2>11, T3450HandlerKeeps
  <2>12. CASE EmmProcAttachComplete(u)
    BY <2>12, CompleteKeeps
  <2>13. CASE ContextDeleted(u)
    BY <2>13, ContextDeletedKeeps
  <2> QED
    BY <1>2, <2>1, <2>2, <2>3, <2>4, <2>5, <2>6, <2>7, <2>8, <2>9, <2>10, <2>11, <2>12, <2>13
    DEF Step
<1> QED
  BY <1>1, <1>2 DEF Next
-----------------------------------------------------------------------------
\* The types, for every set of subscribers and number of connections.
THEOREM AttachTypes == Spec => []TypeOK
<1>1. Inv => TypeOK
  BY DEF Inv
<1> QED
  BY <1>1, InitInv, NextInv, PTL DEF Spec

\* T3450 outlives its attach only when another procedure deleted the context:
\* otherwise, whenever it runs, the data its handler dereferences and the
\* context exist and the UE is not attached; and even then the data is there
\* unless an ATTACH COMPLETE came late.
THEOREM TimerSafe == Spec => []TimerHasItsAttach
<1>1. Inv => TimerHasItsAttach
  BY DEF Inv, ConnOK, TimerOK, DataOK, TimerHasItsAttach
<1> QED
  BY <1>1, InitInv, NextInv, PTL DEF Spec

\* An attach has at most four retransmissions of ATTACH ACCEPT.
THEOREM RetransmissionsBounded == Spec => []FourRetransmissions
<1>1. Inv => FourRetransmissions
  BY DEF Inv, ConnOK, CountOK, FourRetransmissions
<1> QED
  BY <1>1, InitInv, NextInv, PTL DEF Spec
=============================================================================
