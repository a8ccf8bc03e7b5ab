--------------------------- MODULE SipTransaction ---------------------------
(***************************************************************************)
(* One SIP transaction of pjsip (pjsip/src/pjsip/sip_transaction.c), as it  *)
(* is driven by several worker threads that poll the same timer heap and    *)
(* the same sockets, and by application threads.                            *)
(*                                                                          *)
(* The struct pjsip_transaction is one record, tsx.  The functions of the   *)
(* file are operators on that record: one that always does the same thing   *)
(* maps a record to a record, one that sends maps it to the SET of its      *)
(* outcomes [tsx, ok], ok being "returned PJ_SUCCESS".                      *)
(*                                                                          *)
(* A function that runs under the group lock is one step.  pc[w] says where *)
(* worker w is at the places where it holds no lock although it is inside   *)
(* the transaction, and at the one place ("final") where it holds the group *)
(* lock but lets go of the timer lock in the middle of a handler.           *)
(***************************************************************************)
EXTENDS Integers, FiniteSets, Sequences

CONSTANTS Workers,   \* threads that poll the timer heap and the ioqueue
          Kinds,     \* the transactions to model: [role, invite] records
          Codes,     \* status codes a response may carry
          MaxAlt     \* bound: alternative addresses a request may fail over to

ASSUME WorkersAssumption == IsFiniteSet(Workers)
ASSUME KindsAssumption == Kinds \subseteq [role: {"UAC", "UAS"}, invite: BOOLEAN]
ASSUME CodesAssumption == Codes \subseteq 100..699
ASSUME BoundAssumption == MaxAlt \in Nat

VARIABLES tsx, pc

vars == <<tsx, pc>>
-----------------------------------------------------------------------------
(* pjsip_tsx_state_e *)
StNull == 0
Calling == 1
Trying == 2
Proceeding == 3
Completed == 4
Confirmed == 5
Terminated == 6
Destroyed == 7

(* The two timer entries, and the ids they are scheduled with. *)
RT == 1
TO == 2
Inactive == 0
RetransmitTimer == 1
TimeoutTimer == 2
TransportErrTimer == 3

(* The bits of transport_flag. *)
Flags == {"PENDING_TRANSPORT", "PENDING_RESCHED", "PENDING_SEND",
          "PENDING_DESTROY", "RESOLVED_SERVER"}

(* Messages: the request and the ACK; a response is named by its code. *)
None == 0
Request == 1
Ack == 2
Msgs == {Request, Ack} \cup Codes

TsxTimeout == 408
RequestTerminated == 487
TransportError == 503
-----------------------------------------------------------------------------
(* transport_flag *)
Has(s, f) == f \in s.flags
Raise(s, f) == [s EXCEPT !.flags = @ \cup {f}]
Lower(s, F) == [s EXCEPT !.flags = @ \ F]

AddRef(s) == [s EXCEPT !.ref = @ + 1]
DecRef(s) == [s EXCEPT !.ref = @ - 1]

(* Mutant: a reference is given back for an entry that was not in the heap. *)
CancelUncounted(s, e) ==
  [s EXCEPT !.tm[e] = [armed |-> FALSE, id |-> Inactive], !.ref = @ - 1]

(* pj_timer_heap_cancel_if_active: the id is cleared whether or not the     *)
(* entry was still in the heap.                                             *)
Cancel(s, e) ==
  [s EXCEPT !.tm[e] = [armed |-> FALSE, id |-> Inactive],
            !.ref = IF s.tm[e].armed THEN @ - 1 ELSE @]

(* pj_timer_heap_schedule_w_grp_lock: refuses an entry that is running. *)
Schedule(s, e, i) ==
  IF s.tm[e].armed
    THEN s
    ELSE [s EXCEPT !.tm[e] = [armed |-> TRUE, id |-> i], !.ref = @ + 1]

Restart(s, e, i) == Schedule(Cancel(s, e), e, i)

(* The retransmission timer is started now, or as soon as the transport is  *)
(* no longer pending.                                                       *)
StartRetransmission(s) ==
  IF Has(s, "PENDING_TRANSPORT") THEN Raise(s, "PENDING_RESCHED")
                                 ELSE Schedule(s, RT, RetransmitTimer)

(* What the transaction user hears: tsx->state, as on_tsx_state reads it.   *)
(* Only the last two states are kept, and only three calls (a bound).       *)
Tell(s) ==
  IF s.user /\ s.state >= Terminated /\ Len(s.heard) < 3
    THEN [s EXCEPT !.heard = Append(@, s.state)] ELSE s

(* Mutant: the reference of the table is never given back. *)
ShutdownKeepsRef(s) ==
  [Cancel(Cancel(s, TO), RT) EXCEPT !.transport = "none", !.lastTx = None,
                                    !.terminating = TRUE]

(* tsx_shutdown *)
Shutdown(s) ==
  LET bare == Cancel(Cancel([s EXCEPT !.transport = "none", !.lastTx = None],
                            TO), RT)
      late == Lower(bare, {"PENDING_RESCHED", "PENDING_SEND"})
      wait == Has(s, "PENDING_TRANSPORT")
  IN  [late EXCEPT !.flags = IF wait THEN @ \cup {"PENDING_DESTROY"} ELSE @,
                   !.user = @ /\ ~wait,
                   !.terminating = TRUE,
                   !.ref = IF s.terminating THEN @ ELSE @ - 1]

(* tsx_set_state detaches the outstanding message from its send callback. *)
Detach(s) ==
  IF Has(s, "PENDING_TRANSPORT")
    THEN Lower([s EXCEPT !.pendingTx = None], {"PENDING_TRANSPORT"}) ELSE s

(* What tsx_set_state does after it has informed the user. *)
Settle(s, st) ==
  CASE st = Terminated -> Restart(Detach(s), TO, TimeoutTimer)
    [] st = Destroyed  -> Shutdown([s EXCEPT !.registered = FALSE])
    [] OTHER           -> s

SetState(s, st) == Settle(Tell([s EXCEPT !.state = st]), st)

(* tsx_tp_state_callback, and the second half of transport_callback. *)
PostTransportError(s) ==
  LET e == [s EXCEPT !.err = TRUE]
  IN  IF s.state < Completed THEN Restart(e, TO, TransportErrTimer) ELSE e
-----------------------------------------------------------------------------
(* Sending.                                                                 *)
Ok(s) == [tsx |-> s, ok |-> TRUE]
Fail(s) == [tsx |-> s, ok |-> FALSE]

(* tdata->is_pending.  Bound: a message whose stateless send is still being *)
(* resolved counts as pending too.                                          *)
IsPending(s, m) == \E d \in s.sends : d.msg = m

InFlight(s, k, m) == AddRef([s EXCEPT !.sends = @ \cup {[kind |-> k, msg |-> m]}])

(* Mutant: the reference of a send that completes at once is kept. *)
AcceptedKeepsRef(s, m) ==
  IF s.transport = "up"
    THEN {Ok(AddRef(s)), Ok(InFlight(Raise(s, "PENDING_TRANSPORT"), "tp", m))}
    ELSE {}

(* pjsip_transport_send succeeds, or will call transport_callback. *)
Accepted(s, m) ==
  IF s.transport = "up"
    THEN {Ok(s), Ok(InFlight(Raise(s, "PENDING_TRANSPORT"), "tp", m))}
    ELSE {}

(* It fails: the transport is dropped to force a full resolution. *)
Dropped(s) ==
  IF s.transport = "none" THEN s
                          ELSE [s EXCEPT !.transport = "none", !.resTp = FALSE]

(* tsx_send_msg once the server has been resolved: a failure is permanent. *)
SendResolved(s, m) ==
  Accepted(s, m)
    \cup {Fail(SetState([Dropped(s) EXCEPT !.code = TransportError], Terminated))}

(* tsx_update_transport with the transport the message went out on: the     *)
(* same one, or a new one, which may already be shutting down.              *)
AdoptTransport(s) ==
  LET Kind == IF s.role = "UAC" THEN BOOLEAN ELSE {s.reliable}
  IN  (IF s.transport = "none" THEN {} ELSE {s})
        \cup {[s EXCEPT !.transport = "up", !.reliable = r] : r \in Kind}
        \cup {[PostTransportError(s) EXCEPT !.transport = "down", !.reliable = r] :
                r \in Kind}

(* A deferred message is sent now; last_tx may be gone. *)
SendDeferred(s) ==
  IF ~Has(s, "PENDING_SEND") THEN {s}
  ELSE LET c == Lower(s, {"PENDING_SEND"})
       IN  IF s.lastTx = None \/ IsPending(s, s.lastTx) THEN {c}
           ELSE {o.tsx : o \in SendResolved(c, s.lastTx)}

ReschedDeferred(s) ==
  IF Has(s, "PENDING_RESCHED") /\ ~Has(s, "PENDING_TRANSPORT")
    THEN LET c == Lower(s, {"PENDING_RESCHED"})
         IN  IF s.reliable THEN c ELSE Schedule(c, RT, RetransmitTimer)
    ELSE s

(* send_msg_callback with sent > 0, for the transaction still attached. *)
Delivered(s) ==
  LET Done(a) == Raise(Lower(a, {"PENDING_TRANSPORT"}), "RESOLVED_SERVER")
      After(a) == IF Has(a, "PENDING_DESTROY")
                    THEN {SetState(a, Destroyed)}
                    ELSE {ReschedDeferred(d) : d \in SendDeferred(a)}
  IN  UNION {After(Done(a)) : a \in AdoptTransport([DecRef(s) EXCEPT !.pendingTx = None])}

(* Mutant: whether it is already terminated is not looked at. *)
GiveUpAlways(s) ==
  SetState([Raise(Lower(s, {"PENDING_TRANSPORT"}), "RESOLVED_SERVER")
              EXCEPT !.err = TRUE, !.code = TransportError], Terminated)

(* send_msg_callback with sent < 0 and no other address to try. *)
GiveUp(s) ==
  LET g == [Raise(Lower(s, {"PENDING_TRANSPORT"}), "RESOLVED_SERVER")
              EXCEPT !.err = TRUE, !.code = TransportError]
  IN  CASE g.state < Terminated -> SetState(g, Terminated)
        [] g.state >= Terminated /\ Has(g, "PENDING_DESTROY") -> SetState(g, Destroyed)
        [] OTHER -> g

(* ... and with one: the send goes on with the next address. *)
NextAddress(s, m) ==
  LET a == [InFlight(s, "sl", m) EXCEPT !.pendingTx = m, !.alt = @ - 1]
  IN  IF s.tm[TO].id # Inactive THEN Restart(a, TO, TimeoutTimer) ELSE a

(* Mutant: the next address is tried although there may be none. *)
UndeliveredRetries(s, m) ==
  LET b == [DecRef(s) EXCEPT !.pendingTx = None]
      lost == {b, [b EXCEPT !.transport = "none"]}
  IN  {GiveUp(a) : a \in lost} \cup {NextAddress(a, m) : a \in lost}

Undelivered(s, m) ==
  LET b == [DecRef(s) EXCEPT !.pendingTx = None]
      lost == {b, [b EXCEPT !.transport = "none"]}
  IN  {GiveUp(a) : a \in lost}
        \cup (IF s.alt = 0 \/ Has(s, "PENDING_DESTROY") THEN {}
              ELSE {NextAddress(a, m) : a \in lost})

(* pjsip_endpt_send_request_stateless / pjsip_endpt_send_response: the      *)
(* callback comes later or before the call returns.  A response that has a  *)
(* transport to go out on (res_addr.transport) can also fail at once, with  *)
(* no callback: tsx_send_msg then keeps PENDING_TRANSPORT and the reference.*)
SendStateless(s, m) ==
  LET a == AddRef(Raise([s EXCEPT !.pendingTx = m], "PENDING_TRANSPORT"))
      inline == Delivered(a) \cup (IF s.resTp THEN {} ELSE Undelivered(a, m))
  IN  {Ok([a EXCEPT !.sends = @ \cup {[kind |-> "sl", msg |-> m]}])}
        \cup {IF d.state = Terminated /\ d.err THEN Fail(d) ELSE Ok(d) : d \in inline}
        \cup (IF s.resTp THEN {Fail([a EXCEPT !.pendingTx = None])} ELSE {})

(* tsx_send_msg *)
SendMsg(s, m) ==
  IF Has(s, "PENDING_TRANSPORT") THEN {Ok(Raise(s, "PENDING_SEND"))}
  ELSE IF IsPending(s, m) THEN {Ok(s)}
  ELSE IF Has(s, "RESOLVED_SERVER") THEN SendResolved(s, m)
  ELSE Accepted(s, m) \cup SendStateless(Dropped(s), m)

(* tsx_retransmit *)
Retransmit(s, resched) ==
  IF (resched /\ s.tm[RT].armed) \/ s.lastTx = None
    THEN {s}
    ELSE {o.tsx : o \in SendMsg(IF resched THEN StartRetransmission(s) ELSE s,
                                s.lastTx)}
-----------------------------------------------------------------------------
(* State handlers: reception of a message.                                  *)

(* Mutant: PENDING_RESCHED is not reset. *)
LeaveCallingResched(s, c) ==
  LET r == Cancel(s, RT)
  IN  CASE c >= 200 -> Cancel(r, TO)
        [] c < 200 /\ s.invite -> Cancel(r, TO)
        [] OTHER -> IF s.reliable THEN r ELSE Schedule(r, RT, RetransmitTimer)

(* What tsx_on_state_calling does with the timers before it goes on as      *)
(* tsx_on_state_proceeding_uac.                                             *)
LeaveCalling(s, c) ==
  LET r == Lower(Cancel(s, RT), {"PENDING_RESCHED"})
  IN  CASE c >= 200 -> IF r.tm[TO].id # Inactive THEN Cancel(r, TO) ELSE r
        [] c < 200 /\ s.invite -> Cancel(r, TO)
        [] OTHER -> IF s.reliable THEN r ELSE Schedule(r, RT, RetransmitTimer)

(* tsx_on_state_proceeding_uac up to the point where the timer lock is free *)
(* and the timeout timer stopped.  ok: the final response is still to be    *)
(* completed, by Complete below.                                            *)
OnResponse(s, c) ==
  LET r == [(IF s.state = Calling THEN LeaveCalling(s, c) ELSE s) EXCEPT !.code = c]
      quiet == Cancel(Cancel(r, RT), TO)
  IN  CASE c < 200 -> {Fail(SetState(r, Proceeding))}
        [] c \in 200..299 /\ s.invite -> {Fail(SetState(Cancel(r, TO), Terminated))}
        [] c \in 200..299 /\ ~s.invite -> {Ok(Cancel(r, TO))}
        [] c >= 300 /\ s.invite -> SendMsg(quiet, Ack)
        [] OTHER -> {Ok(quiet)}

(* The rest of it.  A 2xx starts the timer without cancelling it first, any *)
(* other final response cancels what set_timeout may have started.          *)
Complete(s, c) ==
  IF c < 300
    THEN SetState(Cancel(Schedule(s, TO, TimeoutTimer), RT), Completed)
    ELSE Restart([SetState(s, Completed) EXCEPT !.lastTx = IF s.invite THEN Ack ELSE @],
                 TO, TimeoutTimer)

(* A response for a UAC transaction that has none to complete. *)
OnLateResponse(s, c) ==
  IF s.state = Completed /\ s.invite /\ c >= 200 THEN Retransmit(s, FALSE) ELSE {s}

(* Mutant: timer H is stopped, timer I is not started. *)
OnAckNoTimer(s) ==
  SetState(Lower(Cancel(Cancel(s, RT), TO), {"PENDING_RESCHED"}), Confirmed)

(* The ACK of a final response to an INVITE, tsx_on_state_completed_uas. *)
OnAck(s) ==
  SetState(Restart(Lower(Cancel(s, RT), {"PENDING_RESCHED"}), TO, TimeoutTimer), Confirmed)

(* A request for a UAS transaction: tsx_on_state_null, _trying,             *)
(* _proceeding_uas, _completed_uas, _confirmed.                             *)
OnRequest(s, m) ==
  CASE s.state = StNull -> {SetState(s, Trying)}
    [] s.state = Proceeding /\ s.lastTx # None -> {o.tsx : o \in SendMsg(s, s.lastTx)}
    [] s.state = Completed /\ m = Request -> Retransmit(s, FALSE)
    [] s.state = Completed /\ m = Ack /\ s.invite -> {OnAck(s)}
    [] OTHER -> {s}

(* State handlers: transmission of a message by the user.                   *)

(* tsx_on_state_null, UAC *)
OnSendRequest(s) ==
  LET Start(t) == SetState(IF t.reliable THEN t ELSE StartRetransmission(t), Calling)
  IN  {IF o.ok THEN Start(Restart(o.tsx, TO, TimeoutTimer)) ELSE o.tsx :
         o \in SendMsg([s EXCEPT !.lastTx = Request], Request)}

(* tsx_on_state_trying and tsx_on_state_proceeding_uas *)
AfterProvisional(s, c) ==
  LET p == SetState([s EXCEPT !.lastTx = c], Proceeding)
  IN  IF s.invite /\ s.code > 100 THEN StartRetransmission(Cancel(p, RT)) ELSE p

AfterFinal(s, c) ==
  LET q == Cancel(s, RT)
      retransmits == s.invite /\ (s.code < 300 \/ ~s.reliable)
      saved == [(IF retransmits THEN StartRetransmission(q) ELSE q) EXCEPT !.lastTx = c]
  IN  IF s.code < 300 /\ s.invite /\ ~s.handle200
        THEN SetState(q, Terminated)
        ELSE SetState(Restart(saved, TO, TimeoutTimer), Completed)

OnSendResponse(s, c) ==
  LET d == [s EXCEPT !.code = c, !.lastTx = IF @ = c THEN c ELSE None]
  IN  {CASE ~o.ok -> o.tsx
         [] o.ok /\ o.tsx.code < 200 -> AfterProvisional(o.tsx, c)
         [] OTHER -> AfterFinal(o.tsx, c) : o \in SendMsg(d, c)}

(* Mutant: a server retransmits once only. *)
OnRetransmitTimerOnce(s) ==
  CASE s.state \in {Calling, Proceeding} -> Retransmit(s, TRUE)
    [] s.state = Completed /\ s.role = "UAS" -> Retransmit(s, FALSE)
    [] s.state = Terminated -> {SetState(s, Destroyed)}
    [] OTHER -> {s}

(* State handlers: the retransmission timer. *)
OnRetransmitTimer(s) ==
  CASE s.state \in {Calling, Proceeding} -> Retransmit(s, TRUE)
    [] s.state = Completed /\ s.role = "UAS" -> Retransmit(s, TRUE)
    [] s.state = Terminated -> {SetState(s, Destroyed)}
    [] OTHER -> {s}

(* Mutant: timer F is ignored in PROCEEDING. *)
OnTimeoutNotProceeding(s) ==
  CASE s.state \in {Calling, Completed, Confirmed} -> [s EXCEPT !.state = Terminated]
    [] s.state = Terminated -> [s EXCEPT !.state = Destroyed]
    [] OTHER -> s

(* State handlers: the timeout timer, up to the state change.  The record   *)
(* is unchanged when the event is ignored.                                  *)
OnTimeout(s) ==
  CASE s.state = Calling ->
         [Lower(Cancel(s, RT), {"PENDING_RESCHED"})
            EXCEPT !.code = TsxTimeout, !.state = Terminated]
    [] s.state = Proceeding \/ (s.state = Completed /\ s.role = "UAS" /\ s.invite) ->
         [s EXCEPT !.code = TsxTimeout, !.state = Terminated]
    [] s.state = Completed /\ ~(s.role = "UAS" /\ s.invite) ->
         [s EXCEPT !.state = Terminated]
    [] s.state = Confirmed -> [s EXCEPT !.state = Terminated]
    [] s.state = Terminated -> [s EXCEPT !.state = Destroyed]
    [] OTHER -> s
-----------------------------------------------------------------------------
(* The steps.                                                               *)

Idle == [at |-> "idle", arg |-> 0]
Go(w, place, x) == pc' = [pc EXCEPT ![w] = [at |-> place, arg |-> x]]

(* Worker w is done, and gives back the reference it held on the group lock.*)
Return(w, s) == tsx' = DecRef(s) /\ pc' = [pc EXCEPT ![w] = Idle]

LockFree == \A w \in Workers : pc[w].at # "final"

(* pj_timer_heap_poll takes an expired entry out of the heap; its reference *)
(* goes with the worker until the callback has returned.                    *)
PopTimer(w, e) ==
  /\ pc[w] = Idle
  /\ tsx.tm[e].armed
  /\ tsx' = [tsx EXCEPT !.tm[e].armed = FALSE]
  /\ Go(w, "timer", e)

(* tsx_timer_callback reads state and entry->id with no lock held. *)
StaleTimer(w) ==
  /\ pc[w].at = "timer"
  /\ tsx.state = Destroyed
  /\ Return(w, tsx)

TransportErrorTimer(w) ==
  /\ pc[w].at = "timer"
  /\ tsx.state < Destroyed
  /\ tsx.tm[pc[w].arg].id = TransportErrTimer
  /\ LET s == [tsx EXCEPT !.tm[pc[w].arg].id = Inactive]
     IN  IF tsx.state < Terminated THEN tsx' = s /\ Go(w, "terr", 0)
                                   ELSE Return(w, s)

TimerEvent(w) ==
  /\ pc[w].at = "timer"
  /\ tsx.state < Destroyed
  /\ tsx.tm[pc[w].arg].id # TransportErrTimer
  /\ tsx' = [tsx EXCEPT !.tm[pc[w].arg].id = Inactive]
  /\ Go(w, "event", pc[w].arg)

RetransmitEvent(w) ==
  /\ pc[w] = [at |-> "event", arg |-> RT]
  /\ LockFree
  /\ \E s \in OnRetransmitTimer(tsx) : Return(w, s)

(* For the timeout timer tsx_set_state lets go of the group lock around the *)
(* call to the user.                                                        *)
TimeoutEvent(w) ==
  /\ pc[w] = [at |-> "event", arg |-> TO]
  /\ LockFree
  /\ LET s == OnTimeout(tsx)
     IN  CASE s.state = tsx.state -> Return(w, s)
           [] s.state # tsx.state /\ s.user -> tsx' = s /\ Go(w, "tell", s.state)
           [] OTHER -> Return(w, Settle(s, s.state))

TellTimeout(w) ==
  /\ pc[w].at = "tell"
  /\ tsx' = Tell(tsx)
  /\ Go(w, "told", pc[w].arg)

AfterTimeout(w) ==
  /\ pc[w].at = "told"
  /\ LockFree
  /\ Return(w, Settle(tsx, pc[w].arg))

(* The transport error piggybacked on the timeout timer: the state is set   *)
(* quietly under the lock, the user informed without it, and only then the  *)
(* timer that destroys the transaction is started.                          *)
TransportErrorEvent(w) ==
  /\ pc[w].at = "terr"
  /\ LockFree
  /\ tsx' = Cancel(Detach([tsx EXCEPT !.transport = "none",
                                       !.code = IF @ < 200 THEN TransportError ELSE @,
                                       !.state = Terminated]), TO)
  /\ Go(w, "terrTell", 0)

TellTransportError(w) ==
  /\ pc[w].at = "terrTell"
  /\ tsx' = Tell(tsx)
  /\ Go(w, "terrSchedule", 0)

ScheduleHandler(w) ==
  /\ pc[w].at = "terrSchedule"
  /\ Return(w, Schedule(tsx, TO, TimeoutTimer))

(* Mutant: the transaction that was found is not referenced. *)
LookupWithoutRef(w, m) ==
  /\ pc[w] = Idle
  /\ tsx.registered /\ tsx.state # Terminated
  /\ tsx.role = "UAC" => m \in Codes /\ tsx.state # StNull
  /\ tsx.role = "UAS" => m \in {Request, Ack}
  /\ Go(w, "rx", m) /\ UNCHANGED tsx

(* mod_tsx_layer_on_rx_request, mod_tsx_layer_on_rx_response: the lookup    *)
(* takes a reference, and reads the state without the group lock.           *)
Lookup(w, m) ==
  /\ pc[w] = Idle
  /\ tsx.registered /\ tsx.state # Terminated
  /\ tsx.role = "UAC" => m \in Codes /\ tsx.state # StNull
  /\ tsx.role = "UAS" => m \in {Request, Ack}
  /\ tsx' = AddRef(tsx)
  /\ Go(w, "rx", m)

RecvResponse(w) ==
  /\ pc[w].at = "rx" /\ tsx.role = "UAC"
  /\ LockFree
  /\ IF tsx.state \in {Calling, Proceeding}
       THEN \E o \in OnResponse(tsx, pc[w].arg) :
              IF o.ok /\ pc[w].arg >= 200 THEN tsx' = o.tsx /\ Go(w, "final", pc[w].arg)
                                          ELSE Return(w, o.tsx)
       ELSE \E s \in OnLateResponse(tsx, pc[w].arg) : Return(w, s)

CompleteResponse(w) ==
  /\ pc[w].at = "final"
  /\ Return(w, Complete(tsx, pc[w].arg))

RecvRequest(w) ==
  /\ pc[w].at = "rx" /\ tsx.role = "UAS"
  /\ LockFree
  /\ \E s \in OnRequest(tsx, pc[w].arg) : Return(w, s)

(* send_msg_callback: whether the layer is still loaded, and the transaction*)
(* still attached to the message, is tested before the lock is taken.  When *)
(* the layer is gone not even the reference is given back.                  *)
SendCallback(w, m) ==
  LET done == [tsx EXCEPT !.sends = @ \ {[kind |-> "sl", msg |-> m]}]
  IN  /\ pc[w] = Idle
      /\ [kind |-> "sl", msg |-> m] \in tsx.sends
      /\ CASE ~tsx.loaded -> tsx' = done /\ UNCHANGED pc
           [] tsx.loaded /\ tsx.pendingTx = m -> tsx' = done /\ Go(w, "sent", m)
           [] OTHER -> Return(w, done)

SendCallbackLocked(w) ==
  /\ pc[w].at = "sent"
  /\ LockFree
  /\ tsx' \in Delivered(tsx) \cup Undelivered(tsx, pc[w].arg)
  /\ pc' = [pc EXCEPT ![w] = Idle]

(* transport_callback: the error is posted after the lock is let go. *)
TransportCallback(w, m) ==
  LET done == Lower([tsx EXCEPT !.sends = @ \ {[kind |-> "tp", msg |-> m]}],
                    {"PENDING_TRANSPORT"})
  IN  /\ pc[w] = Idle
      /\ [kind |-> "tp", msg |-> m] \in tsx.sends
      /\ LockFree
      /\ \/ Return(w, done)
         \/ tsx' = done /\ Go(w, "failed", 0)

TransportFailed(w) ==
  /\ pc[w].at = "failed"
  /\ Return(w, PostTransportError(tsx))

(* tsx_tp_state_callback: the transport is disconnected. *)
TransportDown ==
  /\ tsx.transport = "up"
  /\ tsx' = PostTransportError([tsx EXCEPT !.transport = "down"])
  /\ UNCHANGED pc

(* The user of the transaction uses it until it has heard that it is over.  *)
InUse == tsx.registered /\ tsx.heard = <<>>

SendRequest ==
  /\ InUse /\ LockFree
  /\ tsx.role = "UAC" /\ tsx.state = StNull
  /\ tsx' \in OnSendRequest(tsx)
  /\ UNCHANGED pc

(* Every response is a message of its own, pjsip_inv_answer clones the last *)
(* answer: not the one that was saved, nor one that is still on its way.    *)
SendResponse(c) ==
  /\ InUse /\ LockFree
  /\ tsx.role = "UAS" /\ tsx.state \in {Trying, Proceeding}
  /\ c # tsx.lastTx /\ ~IsPending(tsx, c)
  /\ tsx' \in OnSendResponse(tsx, c)
  /\ UNCHANGED pc

(* pjsip_tsx_retransmit_no_state, called by the retransmission timer of     *)
(* 100rel, hence by a worker: a 1xx, whatever state the transaction is in.  *)
RetransmitNoState(w, c) ==
  /\ InUse /\ LockFree /\ pc[w] = Idle
  /\ tsx.role = "UAS" /\ tsx.invite
  /\ c \in 101..199 /\ tsx.lastTx = c
  /\ \E o \in SendMsg(tsx, c) : tsx' = o.tsx
  /\ UNCHANGED pc

(* pjsip_tsx_terminate *)
Terminate ==
  /\ InUse /\ LockFree
  /\ tsx.state < Terminated
  /\ tsx' = SetState([tsx EXCEPT !.code = RequestTerminated], Terminated)
  /\ UNCHANGED pc

(* pjsip_tsx_stop_retransmit *)
StopRetransmit ==
  /\ InUse /\ LockFree
  /\ tsx.role = "UAC" /\ tsx.invite
  /\ tsx' = Cancel(tsx, RT)
  /\ UNCHANGED pc

(* pjsip_tsx_set_timeout takes the timer lock only, see #1121. *)
SetTimeout ==
  /\ InUse
  /\ tsx.role = "UAC" /\ tsx.invite /\ tsx.state # StNull
  /\ ~(tsx.code >= 200 /\ tsx.tm[TO].id # Inactive)
  /\ tsx' = Restart(tsx, TO, TimeoutTimer)
  /\ UNCHANGED pc

(* The endpoint stops and unloads the layer (mod.id = -1): mod_tsx_layer_stop*)
(* calls pjsip_tsx_terminate, then takes away the table entry and shuts the *)
(* transaction down.  The endpoint is destroyed when the workers have been  *)
(* joined (pjsua_destroy2), so none of them is inside.                      *)
LayerStop ==
  /\ tsx.registered /\ \A w \in Workers : pc[w] = Idle
  /\ LET t == IF tsx.state < Terminated
                THEN SetState([tsx EXCEPT !.code = TransportError], Terminated)
                ELSE tsx
     IN  tsx' = Shutdown([t EXCEPT !.registered = FALSE, !.loaded = FALSE])
  /\ UNCHANGED pc

(* Nothing is left to happen. *)
Over ==
  /\ tsx.terminating /\ tsx.sends = {}
  /\ \A e \in {RT, TO} : ~tsx.tm[e].armed
  /\ \A w \in Workers : pc[w] = Idle
  /\ UNCHANGED vars

TimerStep(w) ==
  \/ \E e \in {RT, TO} : PopTimer(w, e)
  \/ StaleTimer(w) \/ TransportErrorTimer(w) \/ TimerEvent(w)
  \/ RetransmitEvent(w)
  \/ TimeoutEvent(w) \/ TellTimeout(w) \/ AfterTimeout(w)
  \/ TransportErrorEvent(w) \/ TellTransportError(w) \/ ScheduleHandler(w)

RxStep(w) ==
  \/ \E m \in Msgs : Lookup(w, m)
  \/ RecvResponse(w) \/ CompleteResponse(w) \/ RecvRequest(w)

SendStep(w) ==
  \/ \E m \in Msgs : SendCallback(w, m) \/ TransportCallback(w, m)
  \/ SendCallbackLocked(w) \/ TransportFailed(w)

UserStep ==
  \/ SendRequest \/ (\E c \in Codes : SendResponse(c))
  \/ \E w \in Workers, c \in Codes : RetransmitNoState(w, c)
  \/ Terminate \/ StopRetransmit \/ SetTimeout

(* tsx_create, pjsip_tsx_create_uac2, pjsip_tsx_create_uas2.  A UAS keeps   *)
(* the transport of the request when the response is to go back on it,      *)
(* which is so on every reliable transport.                                 *)
Created(k, reliable, handle200, same, alt) ==
  [role |-> k.role, invite |-> k.invite, reliable |-> reliable,
   handle200 |-> handle200, state |-> StNull, code |-> 0, flags |-> {},
   transport |-> IF same THEN "up" ELSE "none", resTp |-> same, alt |-> alt,
   lastTx |-> IF k.role = "UAC" THEN Request ELSE None,
   pendingTx |-> None, sends |-> {}, err |-> FALSE,
   tm |-> [e \in {RT, TO} |-> [armed |-> FALSE, id |-> Inactive]],
   ref |-> 1, terminating |-> FALSE, user |-> TRUE, registered |-> TRUE,
   loaded |-> TRUE,
   heard |-> <<>>]

Init ==
  /\ pc = [w \in Workers |-> Idle]
  /\ \E k \in Kinds, reliable \in BOOLEAN, handle200 \in BOOLEAN,
        same \in BOOLEAN, alt \in 0..MaxAlt :
       /\ k.role = "UAC" => ~same
       /\ k.role = "UAS" => alt = 0 /\ (reliable => same)
       /\ k.role = "UAC" \/ ~k.invite => handle200
       /\ tsx = Created(k, reliable, handle200, same, alt)

Next ==
  \/ \E w \in Workers : TimerStep(w) \/ RxStep(w) \/ SendStep(w)
  \/ UserStep
  \/ TransportDown
  \/ LayerStop
  \/ Over

Spec == Init /\ [][Next]_vars

(* Worker w goes on with what it has begun. *)
Run(w) == pc[w] # Idle /\ (TimerStep(w) \/ RxStep(w) \/ SendStep(w))

(* Fairness.  A thread goes on with what it has begun.  The timer heap is   *)
(* ordered by expiry time and a poll takes whatever has expired, so an armed*)
(* timeout timer is taken out in the end, whatever else keeps the workers   *)
(* busy; a send that has been started is called back in the end.            *)
Fairness ==
  /\ \A w \in Workers : WF_vars(Run(w))
  /\ SF_vars(\E w \in Workers : PopTimer(w, TO))
  /\ \A m \in Msgs :
       SF_vars(\E w \in Workers : SendCallback(w, m) \/ TransportCallback(w, m))

FairSpec == Spec /\ Fairness
-----------------------------------------------------------------------------
(* Properties.                                                              *)

Places == {"idle", "timer", "event", "tell", "told", "terr", "terrTell",
           "terrSchedule", "rx", "final", "sent", "failed"}

MaybeMsg == Msgs \cup {None}
FlagSets == SUBSET Flags
SendSets == SUBSET [kind: {"tp", "sl"}, msg: Msgs]
Timers == [{RT, TO} -> [armed: BOOLEAN, id: Inactive..TransportErrTimer]]
FinalStates == Seq({Terminated, Destroyed})

TsxType ==
  [role: {"UAC", "UAS"}, invite: BOOLEAN, reliable: BOOLEAN, handle200: BOOLEAN,
   state: StNull..Destroyed, code: 0..699, flags: FlagSets,
   transport: {"none", "up", "down"}, resTp: BOOLEAN, alt: Nat,
   lastTx: MaybeMsg, pendingTx: MaybeMsg, sends: SendSets, err: BOOLEAN,
   tm: Timers, ref: Int, terminating: BOOLEAN, user: BOOLEAN,
   registered: BOOLEAN, loaded: BOOLEAN, heard: FinalStates]

(* What pc[w].arg is, where it is anything. *)
ArgOK(p) ==
  /\ p.at \in {"timer", "event"} => p.arg \in {RT, TO}
  /\ p.at \in {"tell", "told"} => p.arg \in {Terminated, Destroyed}
  /\ p.at \in {"rx", "sent"} => p.arg \in Msgs
  /\ p.at = "final" => p.arg \in Codes

(* The type invariant. *)
TypeOK ==
  /\ tsx \in TsxType
  /\ pc \in [Workers -> [at: Places, arg: Nat]]
  /\ \A w \in Workers : ArgOK(pc[w])

(* Who counts on the group lock not to reach zero: the hash table, the      *)
(* timer heap, the sends in flight, and the workers inside the transaction. *)
Armed(s, e) == IF s.tm[e].armed THEN 1 ELSE 0
Weight(s) ==
  (IF s.terminating THEN 0 ELSE 1) + Armed(s, RT) + Armed(s, TO) + Cardinality(s.sends)
Busy == {w \in Workers : pc[w] # Idle}

(* The reference count of the group lock is never smaller than the number   *)
(* of parties that rely on it: every pj_timer_heap_schedule_w_grp_lock,     *)
(* send and lookup took a reference and none was given back twice.          *)
RefCovers == tsx.ref >= Weight(tsx) + Cardinality(Busy)

(* ... and it counts nothing else: as long as the layer is loaded no path of*)
(* the file, whatever fails in it, keeps a reference that nobody gives back.*)
NoLeak == tsx.loaded => tsx.ref = Weight(tsx) + Cardinality(Busy)

(* tsx_on_destroy releases the memory of the transaction (the count is zero)*)
(* only when no thread is inside, and neither the timer heap, the hash table*)
(* nor a send in flight will lead one there.                                *)
NoUseAfterFree ==
  tsx.ref = 0 =>
    /\ ~tsx.registered /\ tsx.sends = {} /\ Busy = {}
    /\ \A e \in {RT, TO} : ~tsx.tm[e].armed

(* A transport keeps a reference to the transaction as a state listener; it *)
(* is gone when the transaction is released.                                *)
NoListenerAfterFree == tsx.ref = 0 => tsx.transport = "none"

(* A transaction that waits for nothing but time is never forgotten: in     *)
(* every state that a timer is to end, and while the table holds it, the    *)
(* timeout timer is in the heap or a worker is on its way with a timer that *)
(* will end it.                                                             *)
Driven ==
  \/ tsx.tm[TO].armed
  \/ \E w \in Workers : /\ pc[w].at \notin {"idle", "rx", "sent", "failed", "final"}
                         /\ (pc[w].arg # RT \/ tsx.state = Terminated)
Waiting ==
  \/ tsx.state \in {Calling, Completed, Confirmed, Terminated}
  \/ tsx.state = Proceeding /\ tsx.role = "UAC" /\ ~tsx.invite
NeverStranded == LockFree /\ tsx.registered /\ Waiting => Driven

(* The user hears that the transaction is TERMINATED before it hears that   *)
(* it is DESTROYED: on TERMINATED a dialog forgets the transaction, on      *)
(* DESTROYED its memory is about to go.                                     *)
TerminatedFirst == tsx.heard # <<>> => tsx.heard[1] = Terminated

(* A message that tsx_send_msg put off until the transport is no longer     *)
(* pending is not forgotten when it no longer is.                           *)
DeferredSend ==
  tsx.state < Terminated /\ Has(tsx, "PENDING_SEND") => Has(tsx, "PENDING_TRANSPORT")

(* An INVITE is not retransmitted any more after the final response that    *)
(* completes it, whatever send was pending when that came.                  *)
FinalStopsInvite ==
  tsx.role = "UAC" /\ tsx.invite /\ tsx.state = Completed => ~tsx.tm[RT].armed

(* An INVITE is not retransmitted any more after a provisional response.    *)
ProvisionalStopsInvite ==
  tsx.role = "UAC" /\ tsx.invite /\ tsx.state = Proceeding => ~tsx.tm[RT].armed

(* A server that waits for the ACK on an unreliable transport keeps on      *)
(* retransmitting its final response: the retransmission timer is in the    *)
(* heap, a worker has just taken it out, or its start is put off behind a   *)
(* send that is still pending.  The code does not keep to that ("For INVITE,*)
(* if unreliable transport is used, retransmission timer G will be scheduled*)
(* (retransmission)."): transport_callback forgets the start that was put   *)
(* off.                                                                     *)
UasRetransmits ==
  tsx.role = "UAS" /\ tsx.invite /\ tsx.state = Completed /\ ~tsx.reliable =>
    \/ tsx.tm[RT].armed
    \/ Has(tsx, "PENDING_RESCHED") /\ Has(tsx, "PENDING_TRANSPORT")
    \/ \E w \in Workers : pc[w].at \in {"timer", "event"} /\ pc[w].arg = RT

(* It falls silent nowhere else: no timer event, request, response of its   *)
(* user, callback or error, in any order on any workers, takes the          *)
(* retransmission away from it but transport_callback, and that only when a *)
(* start has been put off.                                                  *)
FallsSilentOnlyInCallback ==
  [][UasRetransmits /\ ~UasRetransmits' =>
       /\ Has(tsx, "PENDING_RESCHED")
       /\ \E w \in Workers, m \in Msgs : TransportCallback(w, m)]_vars

(* What the user of the transaction is promised. *)
Lifecycle ==
  INSTANCE TransactionLifecycle
    WITH kind <- [role |-> tsx.role, invite |-> tsx.invite], phase <- tsx.state,
         heard <- tsx.heard, released <- tsx.ref = 0

(* The transaction implements it: it passes its states in the order of      *)
(* RFC 3261, whatever timers, errors and retransmissions interfere, its user*)
(* hears that it is terminated before it is destroyed, and its memory goes  *)
(* after that.                                                              *)
ImplementsLifecycle == Lifecycle!Spec

(* A transaction that has terminated is released in the end, whatever it was*)
(* in the middle of: no pending send, timer or worker keeps it for ever.    *)
Released == (tsx.state = Terminated) ~> (tsx.ref = 0 \/ ~tsx.loaded)

(* Each state that RFC 3261 bounds by a timer is left in the end, although  *)
(* the peer never answers and every send may fail.  An INVITE client in     *)
(* PROCEEDING and a server in TRYING or PROCEEDING wait for their user.     *)
Ends ==
  (tsx.state \in {Calling, Completed, Confirmed})
    ~> (tsx.state >= Terminated \/ (tsx.invite /\ tsx.state = Proceeding))
=============================================================================
