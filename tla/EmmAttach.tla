------------------------------ MODULE EmmAttach ------------------------------
(***************************************************************************)
(* The attach procedure of the MME (src/openair-cn/src/nas/emm/Attach.c).  *)
(* A UE's attach request arrives on an S1 connection with a UE id of its   *)
(* own.  The MME creates a context, identifies and authenticates the UE,   *)
(* sets up security, asks for a PDN connection, sends ATTACH ACCEPT and    *)
(* starts timer T3450; ATTACH COMPLETE ends the procedure and the DRB      *)
(* starter is told.  All handlers run in the NAS task, one at a time.      *)
(*                                                                         *)
(* Not in this repository, and modelled as the code uses it: the common    *)
(* procedures (identification, authentication, security mode control),     *)
(* which call back; ESM; the timers; EMMREG_PROC_ABORT, which calls the    *)
(* registered abort callback _emm_attach_abort(); EMMCN_IMPLICIT_DETACH_UE, *)
(* which deletes the context and does not touch T3450; and the procedures  *)
(* that delete a context while an attach is under way (detach, S1 release). *)
(* Memory used after it is freed is what was left there, what was put      *)
(* there since, or the end of the process.                                 *)
(***************************************************************************)
EXTENDS Integers

CONSTANTS
    Imsi,       \* the subscribers
    None,       \* no context, no subscriber, no connection, no data
    Caps,       \* values of what _emm_attach_have_changed() compares
    MaxConn     \* bound: S1 connections

ASSUME ConnAssumption == MaxConn \in Nat

Conn == 1..MaxConn      \* UE ids
ATTACH_COUNTER_MAX == 5
Freed == -1             \* the registered pointer to an attach_data_t is dangling

Context ==
    [imsi : Imsi \cup {None}, caps : Caps, guti : {"none", "present", "valid"},
     fsm : {"DEREGISTERED", "REGISTERED"}, accept_sent : BOOLEAN,
     proc : {"IDENT", "AUTH", "SMC", "ESM", "none"}]     \* what it waits for

ASSUME NoneAssumption == None \notin Imsi /\ None \notin Int /\ None \notin Context

VARIABLES
    ue,         \* connection -> the subscriber behind it, None before its first request
    ctx,        \* _emm_data: connection -> context or None
    imsiIdx,    \* _emm_data: IMSI -> connection of its context, or None
    args,       \* connection -> retransmission_count of its attach_data_t, None or Freed
    T3450,      \* connection -> "on" or "off"
    crashed,    \* a NULL or dangling pointer was dereferenced
    retx,       \* history: accepts the timer of a connection has sent again
    forwarded,  \* history: connections of which the DRB starter was told
    accepted,   \* history: connections that were sent ATTACH ACCEPT
    outside,    \* history: connections whose context another procedure deleted
    late,       \* history: connections whose ATTACH COMPLETE found no context
    unanswered  \* history: a repeated request after the accept got no accept

emmVars == <<ctx, imsiIdx, args, T3450>>
past == <<retx, forwarded, accepted, outside, late>>
history == <<past, unanswered>>
vars == <<ue, ctx, imsiIdx, args, T3450, crashed, retx, forwarded, accepted, outside, late,
          unanswered>>

Init ==
    /\ ue = [u \in Conn |-> None] /\ ctx = [u \in Conn |-> None]
    /\ imsiIdx = [i \in Imsi |-> None]
    /\ args = [u \in Conn |-> None] /\ T3450 = [u \in Conn |-> "off"]
    /\ crashed = FALSE
    /\ retx = [u \in Conn |-> 0] /\ forwarded = {} /\ accepted = {}
    /\ outside = {} /\ late = {} /\ unanswered = FALSE

Crash == crashed' = TRUE /\ UNCHANGED <<ue, emmVars, past>>
-----------------------------------------------------------------------------
(***************************************************************************)
(* Deleting contexts.                                                      *)
(***************************************************************************)
\* EMMCN_IMPLICIT_DETACH_UE for the contexts of D, or _clear_emm_ctxt(): the
\* tables without them.
Detached(D) == [u \in Conn |-> IF u \in D THEN None ELSE ctx[u]]
Unindexed(D) == [i \in Imsi |-> IF imsiIdx[i] \in D THEN None ELSE imsiIdx[i]]

\* Those of D for which EMMREG_PROC_ABORT finds a registered callback and
\* _emm_attach_abort() a context.
Aborting(D) == {u \in D : args[u] # None /\ ctx[u] # None}

\* Mutant of Abort: T3450 goes on.
BugAbort(D) ==
    /\ args' = [u \in Conn |-> IF u \in Aborting(D) THEN None ELSE args[u]]
    /\ UNCHANGED T3450

\* _emm_attach_abort(): stop T3450 and free the retransmission data.
Abort(D) ==
    /\ T3450' = [u \in Conn |-> IF u \in Aborting(D) THEN "off" ELSE T3450[u]]
    /\ args' = [u \in Conn |-> IF u \in Aborting(D) THEN None ELSE args[u]]

\* _emm_attach_release(), also at the end of _emm_attach_reject(): abort the
\* procedure and delete the context. If there is something to abort, the
\* callback has deleted the context already and it is used after that.
Release(u) ==
    \/ /\ Abort({u})
       /\ ctx' = Detached({u}) /\ imsiIdx' = Unindexed({u})
       /\ UNCHANGED <<ue, crashed, history>>
    \/ Aborting({u}) # {} /\ Crash /\ UNCHANGED unanswered

\* Another procedure deletes the context while the attach is under way. It
\* aborts the attach first, or leaves the data and T3450 alone ("timer not
\* stopped when deleted context", Attach.c:1410).
ContextDeleted(u) ==
    /\ ~crashed /\ ctx[u] # None
    /\ Abort({u}) \/ UNCHANGED <<args, T3450>>
    /\ ctx' = Detached({u}) /\ imsiIdx' = Unindexed({u})
    /\ outside' = outside \cup {u}
    /\ UNCHANGED <<ue, crashed, retx, forwarded, accepted, late, unanswered>>
-----------------------------------------------------------------------------
(***************************************************************************)
(* emm_proc_attach_request() on connection u, from a UE with subscriber i  *)
(* and parameters c, by IMSI or by the GUTI of an earlier attach.          *)
(***************************************************************************)
\* UE ids are given out in order.
Fresh(u) == ~crashed /\ ue[u] = None /\ \A v \in 1..(u - 1) : ue[v] # None

\* What _emm_attach_identify() starts: authentication vectors are asked for if
\* the IMSI is known, otherwise the identification procedure runs.
AttachIdentify(imsi) == IF imsi = None THEN "IDENT" ELSE "AUTH"

\* The context _emm_attach_update() fills in.
NewContext(imsi, c) ==
    [imsi |-> imsi, caps |-> c, guti |-> "none", fsm |-> "DEREGISTERED",
     accept_sent |-> FALSE, proc |-> AttachIdentify(imsi)]

\* Contexts D are deleted, the attaches of A before that aborted, and the
\* request is processed as a fresh one (or no context can be set up for it:
\* no memory, or identification cannot start, and it is rejected).
Process(u, i, imsi, c, D, A) ==
    /\ ue' = [ue EXCEPT ![u] = i]
    /\ Abort(A)
    /\ \/ /\ ctx' = [Detached(D) EXCEPT ![u] = NewContext(imsi, c)]
          /\ imsiIdx' = IF imsi = None THEN Unindexed(D) ELSE [Unindexed(D) EXCEPT ![imsi] = u]
       \/ ctx' = Detached(D) /\ imsiIdx' = Unindexed(D)
    /\ UNCHANGED <<crashed, past>>

\* The request is dropped and the connection cleaned up (nas_itti_detach_req).
Drop(u, i, D, A) ==
    /\ ue' = [ue EXCEPT ![u] = i]
    /\ Abort(A)
    /\ ctx' = Detached(D) /\ imsiIdx' = Unindexed(D)
    /\ UNCHANGED <<crashed, past>>

\* By GUTI: the context that has it, if any, is registered and deleted.
RequestByGuti(u, i, c) ==
    /\ Fresh(u)
    /\ \E g \in Conn :
           /\ ue[g] = i
           /\ LET D == IF ctx[g] # None /\ ctx[g].guti = "valid" THEN {g} ELSE {} IN
                  Process(u, i, None, c, D, {})
    /\ UNCHANGED unanswered

\* By IMSI, and no context has it.
RequestOfNewImsi(u, i, c) ==
    /\ Fresh(u) /\ imsiIdx[i] = None
    /\ Process(u, i, i, c, {}, {})
    /\ UNCHANGED unanswered

\* By IMSI, and the context o has it.
Found(u, i, o) == Fresh(u) /\ imsiIdx[i] = o /\ o # None

\* Security mode control is running (or identification, with nothing sent):
\* abort it and delete the context. The code then goes on to read the deleted
\* context: depending on what is there it processes the request, takes it for
\* a repeated one and drops it, or follows a NULL pointer.
RequestInCommonProcedure(u, i, c) ==
    /\ \E o \in Conn :
           /\ Found(u, i, o)
           /\ ctx[o].proc = "SMC" \/ (ctx[o].proc = "IDENT" /\ ~ctx[o].accept_sent)
           /\ \/ Process(u, i, i, c, {o}, {o})
              \/ Drop(u, i, {o}, {o})
              \/ Crash
    /\ UNCHANGED unanswered

\* The UE is registered: delete the old context.
RequestOfRegistered(u, i, c) ==
    /\ \E o \in Conn :
           /\ Found(u, i, o)
           /\ ctx[o].fsm = "REGISTERED"
           /\ Process(u, i, i, c, {o}, {})
    /\ UNCHANGED unanswered

\* _emm_attach_have_changed() for a request by IMSI: the capabilities, then
\* the identities. The request has no GUTI, so a context that has one differs.
\* (GUTI_ARG() of the NULL pointer is an argument of the log message at :1756.)
IdentityChanged(o) == ctx[o].guti # "none"
Changed(o, c) == c # ctx[o].caps \/ IdentityChanged(o)

\* ATTACH ACCEPT was sent: abort the old attach if the parameters differ. If
\* they do not, the data of the NEW connection, which has none, is fetched for
\* the retransmission.
RequestAfterAccept(u, i, c) ==
    \E o \in Conn :
        /\ Found(u, i, o)
        /\ ctx[o].fsm # "REGISTERED" /\ ctx[o].proc # "SMC" /\ ctx[o].accept_sent
        /\ unanswered' = (unanswered \/ (c = ctx[o].caps /\ T3450[o] = "on"))
        /\ \/ Changed(o, c) /\ Process(u, i, i, c, {o}, {o})
           \/ c = ctx[o].caps /\ Crash

\* The attach is under way (num_attach_request is 1 from the start): abort it
\* if the parameters differ, drop the request if not.
RequestUnderWay(u, i, c) ==
    /\ \E o \in Conn :
           /\ Found(u, i, o)
           /\ ctx[o].fsm # "REGISTERED" /\ ctx[o].proc # "SMC" /\ ~ctx[o].accept_sent
           /\ IF Changed(o, c) THEN Process(u, i, i, c, {o}, {o}) ELSE Drop(u, i, {}, {})
    /\ UNCHANGED unanswered

\* A request on a connection that has a context: reject it and delete that.
RequestOnKnownConnection(u) == ~crashed /\ ctx[u] # None /\ Release(u)

\* An emergency attach is not supported: reject it, keep nothing.
RequestEmergency(u, i) ==
    /\ Fresh(u)
    /\ ue' = [ue EXCEPT ![u] = i]
    /\ UNCHANGED <<emmVars, crashed, history>>

\* emm_proc_attach_reject(): the context is not looked for before its use.
AttachReject(u) ==
    /\ ~crashed /\ ue[u] # None
    /\ IF ctx[u] = None THEN Crash /\ UNCHANGED unanswered ELSE Release(u)
-----------------------------------------------------------------------------
(***************************************************************************)
(* The procedures the attach waits for.                                    *)
(***************************************************************************)
Waits(u, p) == ~crashed /\ ctx[u] # None /\ ctx[u].proc = p
WaitFor(u, p) == ctx' = [ctx EXCEPT ![u].proc = p]

\* Identification has found the IMSI; _emm_attach_identify() is called again
\* and asks for authentication vectors.
Identified(u) ==
    /\ Waits(u, "IDENT")
    /\ ctx' = [ctx EXCEPT ![u].imsi = ue[u], ![u].proc = "AUTH"]
    /\ imsiIdx' = [imsiIdx EXCEPT ![ue[u]] = u]
    /\ UNCHANGED <<ue, args, T3450, crashed, history>>

\* emm_attach_security(), when the UE is authenticated: start security mode
\* control, or reject if that cannot be started.
EmmAttachSecurity(u) ==
    /\ Waits(u, "AUTH")
    /\ \/ WaitFor(u, "SMC") /\ UNCHANGED <<ue, imsiIdx, args, T3450, crashed, history>>
       \/ Release(u)

\* Authentication has failed: no callback is registered for that.
AuthenticationFails(u) ==
    /\ Waits(u, "AUTH") /\ WaitFor(u, "none")
    /\ UNCHANGED <<ue, imsiIdx, args, T3450, crashed, history>>

\* Identification or security mode control has failed: _emm_attach_release().
ProcedureFails(u) == (Waits(u, "IDENT") \/ Waits(u, "SMC")) /\ Release(u)

\* _emm_attach(), when security is set up: ask ESM for a PDN connection. ESM
\* accepts, and the retransmission data is registered (or there is no memory
\* for it, which ends the procedure without an answer, as does a discarded
\* ESM message); or ESM refuses and the UE is rejected, with the ESM message
\* taken from retransmission data that does not exist yet.
EmmAttach(u) ==
    /\ Waits(u, "SMC")
    /\ \/ /\ WaitFor(u, "ESM") /\ args' = [args EXCEPT ![u] = 0]
          /\ UNCHANGED <<ue, imsiIdx, T3450, crashed, history>>
       \/ WaitFor(u, "none") /\ UNCHANGED <<ue, imsiIdx, args, T3450, crashed, history>>
       \/ Release(u)
       \/ Crash /\ UNCHANGED unanswered

\* _emm_attach_accept(), when the PDN connection is there: assign a GUTI, send
\* ATTACH ACCEPT and start T3450. Without a GUTI, or if the message cannot be
\* sent, there is no timer.
EmmAttachAccept(u) ==
    /\ Waits(u, "ESM")
    /\ \/ /\ ctx' = [ctx EXCEPT ![u].guti = "present", ![u].accept_sent = TRUE, ![u].proc = "none"]
          /\ T3450' = [T3450 EXCEPT ![u] = "on"]
          /\ accepted' = accepted \cup {u}
       \/ \E g \in {"none", "present"} :
             /\ ctx' = [ctx EXCEPT ![u].guti = g, ![u].proc = "none"]
             /\ UNCHANGED <<T3450, accepted>>
    /\ UNCHANGED <<ue, imsiIdx, args, crashed, retx, forwarded, outside, late, unanswered>>
-----------------------------------------------------------------------------
(***************************************************************************)
(* T3450 of connection u has expired, and its handler is given the data of *)
(* connection v: its own, unless that was freed.                           *)
(***************************************************************************)
\* _emm_attach_accept_retx(): the timer of v is started again only if there is
\* a context with a GUTI and the message could be sent.
AcceptRetx(u, v) ==
    \/ /\ ctx[v] # None /\ ctx[v].guti # "none"
       /\ retx' = [retx EXCEPT ![v] = @ + 1]
       /\ accepted' = accepted \cup {v}
       /\ T3450' = IF u = v THEN T3450 ELSE [T3450 EXCEPT ![u] = "off"]
    \/ T3450' = [T3450 EXCEPT ![u] = "off"] /\ UNCHANGED <<retx, accepted>>

Retransmit(u, v) ==
    /\ args' = [args EXCEPT ![v] = @ + 1]
    /\ AcceptRetx(u, v)
    /\ UNCHANGED <<ue, ctx, imsiIdx, crashed, forwarded, outside, late, unanswered>>

\* _emm_attach_abort(), called with the data and not through the registry,
\* which keeps the pointer. Without a context nothing is freed.
GiveUp(u, v) ==
    /\ T3450' = [w \in Conn |-> IF w = u \/ (w = v /\ ctx[v] # None) THEN "off" ELSE T3450[w]]
    /\ args' = [args EXCEPT ![v] = IF ctx[v] # None THEN Freed ELSE @ + 1]
    /\ ctx' = Detached({v}) /\ imsiIdx' = Unindexed({v})
    /\ UNCHANGED <<ue, crashed, history>>

\* Mutant of Expire: one retransmission too many.
BugOneMore(u, v) ==
    IF args[v] + 1 <= ATTACH_COUNTER_MAX THEN Retransmit(u, v) ELSE GiveUp(u, v)

\* Mutant of Expire: retransmissions are not counted.
BugNoCount(u, v) ==
    /\ retx[v] < 2 * ATTACH_COUNTER_MAX
    /\ AcceptRetx(u, v)
    /\ UNCHANGED <<ue, ctx, imsiIdx, args, crashed, forwarded, outside, late, unanswered>>

\* Mutant of Expire: the count starts again instead of ending the attach when
\* the message cannot be sent.
BugCountAgain(u, v) ==
    /\ args' = [args EXCEPT ![v] = (@ + 1) % ATTACH_COUNTER_MAX]
    /\ UNCHANGED <<ue, ctx, imsiIdx, T3450, crashed, history>>

\* _emm_attach_t3450_handler(): the fifth expiry aborts the attach.
Expire(u, v) ==
    IF args[v] + 1 < ATTACH_COUNTER_MAX THEN Retransmit(u, v) ELSE GiveUp(u, v)

\* The handler has been given freed data: it finds no context (the data is as
\* it was left), that of the attach whose data is there now, or the process
\* ends.
ExpireFreed(u) ==
    \/ /\ T3450' = [T3450 EXCEPT ![u] = "off"]
       /\ UNCHANGED <<ue, ctx, imsiIdx, args, crashed, history>>
    \/ \E v \in Conn \ {u} : args[v] \in Nat /\ Expire(u, v)
    \/ Crash /\ UNCHANGED unanswered

T3450Handler(u) ==
    /\ ~crashed /\ T3450[u] = "on"
    /\ IF args[u] \in Nat THEN Expire(u, u) ELSE ExpireFreed(u)
-----------------------------------------------------------------------------
\* What emm_proc_attach_complete() does with the context: the GUTI is valid
\* and, if ESM accepts, the UE is registered and the DRB starter told. If ESM
\* refuses, EMMREG_ATTACH_REJ may change the state; if it discards the message
\* nothing does.
Complete(u) ==
    \/ /\ ctx' = [ctx EXCEPT ![u].guti = "valid", ![u].fsm = "REGISTERED"]
       /\ forwarded' = forwarded \cup {u}
    \/ /\ \E f \in {"DEREGISTERED", ctx[u].fsm} :
              ctx' = [ctx EXCEPT ![u].guti = "valid", ![u].fsm = f]
       /\ UNCHANGED forwarded

\* There is no context: the data is freed (perhaps a second time), T3450 is
\* not stopped, and EMMREG_ATTACH_REJ is sent with a NULL context.
CompleteWithoutContext(u) ==
    \/ /\ args' = [args EXCEPT ![u] = None]
       /\ late' = late \cup {u}
       /\ UNCHANGED <<ue, ctx, imsiIdx, T3450, crashed, retx, forwarded, accepted, outside>>
    \/ Crash

\* emm_proc_attach_complete(): the UE has answered an ATTACH ACCEPT, perhaps
\* once more for a retransmission, perhaps after the context was deleted.
EmmProcAttachComplete(u) ==
    /\ ~crashed /\ u \in accepted
    /\ IF ctx[u] = None
       THEN CompleteWithoutContext(u)
       ELSE /\ args' = [args EXCEPT ![u] = None]
            /\ T3450' = [T3450 EXCEPT ![u] = "off"]
            /\ Complete(u)
            /\ UNCHANGED <<ue, imsiIdx, crashed, retx, accepted, outside, late>>
    /\ UNCHANGED unanswered

AttachRequest(u, i, c) ==
    \/ RequestByGuti(u, i, c)
    \/ RequestOfNewImsi(u, i, c)
    \/ RequestInCommonProcedure(u, i, c)
    \/ RequestOfRegistered(u, i, c)
    \/ RequestAfterAccept(u, i, c)
    \/ RequestUnderWay(u, i, c)

Step(u) ==
    \/ \E i \in Imsi, c \in Caps : AttachRequest(u, i, c)
    \/ \E i \in Imsi : RequestEmergency(u, i)
    \/ RequestOnKnownConnection(u)
    \/ AttachReject(u)
    \/ Identified(u)
    \/ EmmAttachSecurity(u)
    \/ AuthenticationFails(u)
    \/ ProcedureFails(u)
    \/ EmmAttach(u)
    \/ EmmAttachAccept(u)
    \/ T3450Handler(u)
    \/ EmmProcAttachComplete(u)
    \/ ContextDeleted(u)

Next == \E u \in Conn : Step(u)

\* A running timer expires. Nothing else is certain to happen.
Fairness == \A u \in Conn : WF_vars(T3450Handler(u))

Spec == Init /\ [][Next]_vars /\ Fairness
-----------------------------------------------------------------------------
(***************************************************************************)
(* Properties.                                                             *)
(***************************************************************************)
\* The types. The count of an attach whose context nobody else deletes never
\* reaches ATTACH_COUNTER_MAX between two handlers: the attach is aborted.
TypeOK ==
    /\ ue \in [Conn -> Imsi \cup {None}]
    /\ ctx \in [Conn -> Context \cup {None}]
    /\ imsiIdx \in [Imsi -> Conn \cup {None}]
    /\ args \in [Conn -> Nat \cup {None, Freed}]
    /\ \A u \in Conn : args[u] \in Nat /\ u \notin outside => args[u] < ATTACH_COUNTER_MAX
    /\ T3450 \in [Conn -> {"on", "off"}]
    /\ crashed \in BOOLEAN
    /\ retx \in [Conn -> Nat] /\ forwarded \in SUBSET Conn /\ accepted \in SUBSET Conn
    /\ outside \in SUBSET Conn /\ late \in SUBSET Conn /\ unanswered \in BOOLEAN

\* No way out of an attach that Attach.c takes itself (complete, abort, reject,
\* a new request of the same UE) leaves T3450 behind: while it runs, the data
\* its handler dereferences and the context exist and the UE has not answered
\* yet, although deleting a context does not stop the timer. If another
\* procedure deleted the context, T3450 may run on without it, which is the
\* case _emm_attach_accept_retx() guards against; its data is still there
\* unless an ATTACH COMPLETE came late and freed it.
TimerHasItsAttach ==
    \A u \in Conn : T3450[u] = "on" =>
        IF u \in outside
        THEN args[u] \in Nat \/ u \in late
        ELSE /\ args[u] \in Nat
             /\ ctx[u] # None
             /\ ctx[u].fsm # "REGISTERED" /\ u \notin forwarded

\* T3450 sends ATTACH ACCEPT again at most four times in an attach: the fifth
\* expiry aborts it (R10_5_5_1_2_7_c, _emm_attach_t3450_handler()).
FourRetransmissions == \A u \in Conn : retx[u] < ATTACH_COUNTER_MAX

\* A running T3450 ends: the UE is not sent ATTACH ACCEPT for ever.
TimerEnds == \A u \in Conn : T3450[u] = "on" ~> (T3450[u] = "off" \/ crashed)

\* "if the information elements do not differ, then the ATTACH ACCEPT message
\* shall be resent and the timer T3450 shall be restarted if an ATTACH COMPLETE
\* message is expected" (Attach.c:401): a repeated request while T3450 runs is
\* answered by the accept.
RepeatedRequestResendsAccept == ~unanswered
=============================================================================
