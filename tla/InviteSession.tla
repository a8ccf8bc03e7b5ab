---------------------------- MODULE InviteSession ----------------------------
(***************************************************************************)
(* The INVITE session of pjsip-ua (sip_inv.c) at both ends of one call,    *)
(* with the part of the dialog it rests on (sip_dialog.c), the SDP         *)
(* negotiator, and a network that delays and reorders.  The caller sends   *)
(* the first INVITE; from then on either side may send re-INVITE, UPDATE,  *)
(* CANCEL and BYE as the code lets it.                                     *)
(*                                                                         *)
(* A session is a record and every function of the code an operator from   *)
(* the session, the transaction and the event to the session after it.     *)
(* What a function sends is collected in "out".  Calls of one session run  *)
(* under the lock of its dialog, so an operation, or the handling of one   *)
(* message or timer, is one step.                                          *)
(*                                                                         *)
(* The transaction layer is reduced to the states it reports to the        *)
(* session; module SipTransaction models it in full.                       *)
(***************************************************************************)
EXTENDS SdpNegotiator

CONSTANTS
    Ops,        \* the operations the two applications use
    MaxOps,     \* how many of them they may use between them
    Accept,     \* accept_multiple_sdp_answers of the endpoint
    Events      \* what may go wrong: see the actions that test for a member

Caller == "caller"
Callee == "callee"
Agents == {Caller, Callee}
Peer(a) == IF a = Caller THEN Callee ELSE Caller

Operations == {"offerless invite", "ring", "early media", "hangup",
               "reinvite", "empty reinvite", "update", "cancel reinvite"}

ASSUME OpsAssumption == Ops \subseteq Operations /\ MaxOps \in Nat /\ Accept \in BOOLEAN

Faults == {"timeout", "transport error", "retransmission", "no answer", "mismatch at answerer",
           "mismatch at offerer", "overlapping offers", "answer again"}

ASSUME EventsAssumption == Events \subseteq Faults

VARIABLES
    ses,        \* the session of each agent
    net         \* the messages in flight

vars == <<ses, net>>

-----------------------------------------------------------------------------
(* The session, its transactions and messages. *)

States == {"null", "calling", "incoming", "early", "connecting", "confirmed", "disconnected"}

NoTsx == <<"none", "none", 0>>
TsxId(role, m, c) == <<role, m, c>>
RoleOf(id)   == id[1]
MethodOf(id) == id[2]
CSeqOf(id)   == id[3]

(* A transaction of the dialog: the state it reports and its status code;  *)
(* the data the session attaches to it (data, and then has_sdp, sdp_done,  *)
(* done_early); the description its last message carries; and for a client *)
(* INVITE, whether a timeout was set for its final response.  resent       *)
(* bounds the retransmissions.                                             *)
NewTsx(state, data, sdp) ==
    [state |-> state, code |-> 0, data |-> data, has |-> data /\ sdp # NoSdp,
     done |-> FALSE, early |-> FALSE, sdp |-> Wire(sdp), limit |-> FALSE, resent |-> FALSE]

NewSession(a) ==
    [me |-> a, st |-> "null", neg |-> NoNeg, itsx |-> NoTsx, tsx |-> <<>>,
     cause |-> 0, pcancel |-> FALSE, pbye |-> FALSE, hang |-> FALSE,
     ackc |-> 0, acksdp |-> NoSdp, last |-> NoSdp,
     lcs |-> IF a = Caller THEN 1 ELSE 11, rcs |-> 0,
     bodies |-> 0, made |-> 0, out |-> {}]

Exists(s)  == s.st # "null"
Tsxs(s)    == DOMAIN s.tsx
T(s, id)   == s.tsx[id]
Role(s)    == IF s.me = Caller THEN "uac" ELSE "uas"
NegState(s) == s.neg.state

(* The dialog is destroyed when its session and its transactions are gone. *)
Gone(s) == s.st = "disconnected" /\ Tsxs(s) = {}

SetTsx(s, id, t) == [s EXCEPT !.tsx = [i \in Tsxs(s) \cup {id} |-> IF i = id THEN t ELSE T(s, i)]]

(* A transaction is over: the session forgets it. *)
Dropped(s, id) ==
    LET s1 == [s EXCEPT !.tsx = [i \in Tsxs(s) \ {id} |-> T(s, i)]]
    IN  IF s.itsx = id THEN [s1 EXCEPT !.itsx = NoTsx, !.last = NoSdp] ELSE s1

Send(s, kind, m, c, code, sdp) ==
    [s EXCEPT !.out = @ \cup {[kind |-> kind, to |-> Peer(s.me), m |-> m, c |-> c,
                               code |-> code, sdp |-> Wire(sdp)]}]

(* A description the application makes: no two of them are the same. *)
Fresh(s) == [mem |-> "inv", ver |-> 0, body |-> <<s.me, s.bodies + 1>>]
Used(s)  == [s EXCEPT !.bodies = @ + 1]

SetCause(s, code) ==
    IF code > s.cause \/ s.pbye THEN [s EXCEPT !.cause = code] ELSE s

Is2xx(code) == code \in 200..299
Is1xx(code) == code \in 100..199

-----------------------------------------------------------------------------
(* Sending requests. *)

SendRequest(s, m, sdp) ==
    LET c  == IF m = "CANCEL" THEN CSeqOf(s.itsx) ELSE s.lcs
        id == TsxId("uac", m, c)
        s1 == [SetTsx(s, id, NewTsx("calling", TRUE, sdp)) EXCEPT
                  !.lcs  = IF m = "CANCEL" THEN @ ELSE @ + 1,
                  !.itsx = IF m = "INVITE" THEN id ELSE @,
                  !.st   = IF m = "INVITE" /\ @ = "null" THEN "calling" ELSE @]
    IN  Send(s1, "req", m, c, 0, sdp)

(* Mutant: the BYE is never kept back. *)
SendByeAtOnce(s) == SendRequest(s, "BYE", NoSdp)

(* A callee that has not seen the ACK keeps its BYE back. *)
SendBye(s) ==
    IF Role(s) = "uas" /\ s.st = "connecting" /\ s.cause \notin {408, 503}
    THEN [s EXCEPT !.pbye = TRUE]
    ELSE SendRequest(s, "BYE", NoSdp)

PerformPendingBye(s) == IF s.pbye THEN SendBye([s EXCEPT !.pbye = FALSE]) ELSE s

SendCancel(s) == SendRequest(s, "CANCEL", NoSdp)

(* A session becomes confirmed only with its offer/answer done, if its     *)
(* INVITE transaction is still there to tell; otherwise it is ended.       *)
SetState(s, st) ==
    LET t == T(s, s.itsx) IN
    IF st = "confirmed" /\ s.itsx \in Tsxs(s) /\ t.data /\ ~t.done /\ NegState(s) # "DONE"
    THEN SendBye(SetCause(s, 406))
    ELSE [s EXCEPT !.st = st]

Disconnect(s, code) == SetState(SetCause(s, code), "disconnected")

-----------------------------------------------------------------------------
(* Offers and answers.  d is what the application and the matching of the  *)
(* two descriptions decide: whether the application gives an answer when it *)
(* is asked for one (gives) and a new offer when it is asked for that      *)
(* (new), and whether the negotiation succeeds, where this side made the   *)
(* offer (offerer) and where it answers (answerer).                        *)

Pair(s, ok) == [s |-> s, ok |-> ok]

InvNegotiate(s, d) ==
    LET matches == IF s.neg.ans THEN d.offerer ELSE d.answerer
        Kept(n) == IF s.st = "disconnected" THEN n ELSE IF matches THEN SwapPools(n) ELSE ResetPool(n)
    IN  Pair([s EXCEPT !.neg = Kept(Negotiate(@, matches, "prov"))], s.st # "disconnected" /\ matches)

SdpDone(s, id) ==
    IF id \in Tsxs(s) THEN SetTsx(s, id, [T(s, id) EXCEPT !.done = TRUE]) ELSE s

Attached(s, id, sdp) ==
    IF T(s, id).data THEN s
    ELSE SetTsx(s, id, [T(s, id) EXCEPT !.data = TRUE, !.has = sdp # NoSdp])

(* An answer to the offer this side has pending. *)
RemoteAnswer(s, id, sdp, code, d) ==
    LET Noted(s1) == SetTsx(s1, id, [T(s1, id) EXCEPT !.done = TRUE, !.early = Is1xx(code)])
    IN  Pair(Noted(InvNegotiate([s EXCEPT !.neg = SetRemoteAnswer(@, sdp, "prov")], d).s), TRUE)

(* An offer: the application is asked for its answer. *)
RemoteOffer(s, sdp, d) ==
    LET n == IF NegState(s) = "NULL" THEN CreateWithRemoteOffer(sdp, "inv")
                                     ELSE SetRemoteOffer(s.neg, sdp, "prov")
    IN  IF d.gives
        THEN Pair(Used([s EXCEPT !.neg = SetLocalAnswer(n, Fresh(s), "prov")]), TRUE)
        ELSE Pair([s EXCEPT !.neg = n], FALSE)

(* A second description in the responses to one INVITE: the offer of the   *)
(* INVITE is put to the negotiator again, to take the new answer.          *)
Reoffer(s, id) ==
    [s EXCEPT !.neg = ModifyLocalOffer(@, T(s, id).sdp, "prov")]

MayReoffer(s, id, code) ==
    /\ Accept /\ RoleOf(id) = "uac" /\ T(s, id).early
    /\ Is2xx(code) \/ code \in 180..189

(* The description of a message of transaction id is an offer or an answer *)
(* by the state of the negotiator, and ignored in other states.            *)
CheckSdp(s, id, sdp, code, d) ==
    LET Taken(s2) ==
            CASE NegState(s2) \in {"NULL", "DONE"} -> RemoteOffer(s2, sdp, d)
              [] NegState(s2) = "LOCAL_OFFER" -> RemoteAnswer(s2, id, sdp, code, d)
              [] OTHER -> Pair(s2, TRUE)
        Checked(s1) ==
            CASE T(s1, id).done /\ ~MayReoffer(s1, id, code) -> Pair(s1, TRUE)
              [] T(s1, id).done /\ MayReoffer(s1, id, code) /\ ~CanModifyLocalOffer(s1.neg) -> Pair(s1, FALSE)
              [] OTHER -> Taken(IF T(s1, id).done THEN Reoffer(s1, id) ELSE s1)
    IN  IF sdp = NoSdp THEN Pair(s, TRUE) ELSE Checked(Attached(s, id, sdp))

(* The answer that an ACK must carry, when the offer came in the 2xx. *)
PendingAnswer(s, d) ==
    LET Negotiated(r) == IF r.ok THEN [s |-> SdpDone(r.s, s.itsx), sdp |-> r.s.neg.al]
                                 ELSE [s |-> r.s, sdp |-> NoSdp]
    IN  IF HasLocalAnswer(s.neg) THEN Negotiated(InvNegotiate(s, d)) ELSE [s |-> s, sdp |-> NoSdp]

CreateAck(s, c, d) ==
    LET Made(p) == [p.s EXCEPT !.ackc = c, !.acksdp = Wire(p.sdp)] IN Made(PendingAnswer(s, d))

(* Mutant: an ACK confirms whatever session sends it. *)
SendAckConfirms(s, c, d) ==
    LET Sent(s1) == Send(s1, "req", "ACK", c, 0, s1.acksdp)
    IN  SetState(Sent(IF s.ackc = c THEN s ELSE CreateAck(s, c, d)), "confirmed")

SendAck(s, c, d) ==
    LET Sent(s1)      == Send(s1, "req", "ACK", c, 0, s1.acksdp)
        Confirmed(s2) == IF s.st \in {"confirmed", "disconnected"} THEN s2 ELSE SetState(s2, "confirmed")
    IN  Confirmed(Sent(IF s.ackc = c THEN s ELSE CreateAck(s, c, d)))

(* Mutant: an offer that failed stays pending. *)
CancelledNever(s) == s

Cancelled(s) == [s EXCEPT !.neg = CancelOffer(@)]
CancelledIf(s, states) == IF NegState(s) \in states THEN Cancelled(s) ELSE s

-----------------------------------------------------------------------------
(* Responding to requests. *)

(* What the session makes of its own answer to the INVITE that is pending. *)
AnswerSent(s, code) ==
    LET next == CASE code = 100   -> "incoming"
                  [] code \in 101..199 -> "early"
                  [] Is2xx(code)  -> "connecting"
                  [] OTHER        -> "disconnected"
    IN  IF s.st \notin {"null", "incoming", "early"} \/ (code = 100 /\ s.st # "null") THEN s
        ELSE SetState(IF code < 300 THEN s ELSE SetCause(s, code), next)

Respond(s, id, code, sdp) ==
    LET t  == [T(s, id) EXCEPT !.state = IF Is1xx(code) THEN "proceeding" ELSE "completed",
                               !.code = code, !.sdp = Wire(sdp)]
        Sent(s1) == IF id = s.itsx THEN AnswerSent(s1, code) ELSE s1
    IN  Sent(Send(SetTsx(s, id, t), "rsp", MethodOf(id), CSeqOf(id), code, sdp))

(* The description to send with an answer, after negotiating it if it is   *)
(* time to: with a 2xx, and with 183.                                      *)
ProcessAnswer(s, code, d) ==
    LET answering == Is2xx(code) \/ code = 183
        Negotiated(r) == IF r.ok THEN [s |-> SdpDone(r.s, s.itsx), ok |-> TRUE, sdp |-> r.s.neg.al]
                                 ELSE [s |-> r.s, ok |-> FALSE, sdp |-> NoSdp]
    IN  CASE answering /\ NegState(s) = "LOCAL_OFFER" -> [s |-> s, ok |-> TRUE, sdp |-> s.neg.nl]
          [] answering /\ HasLocalAnswer(s.neg) -> Negotiated(InvNegotiate(s, d))
          [] code >= 300 /\ s.st = "confirmed" ->
                 [s |-> CancelledIf(s, {"REMOTE_OFFER"}), ok |-> TRUE, sdp |-> NoSdp]
          [] OTHER -> [s |-> s, ok |-> TRUE, sdp |-> NoSdp]

(* The answer is the previous one with its status and, when there is a new *)
(* one, its description changed; a rejection has no description.           *)
Answer(s, code, d) ==
    LET Body(p) == IF code >= 300 THEN NoSdp ELSE IF p.sdp # NoSdp THEN Wire(p.sdp) ELSE s.last
        Reply(p, body) == IF p.ok THEN Respond([p.s EXCEPT !.last = body], s.itsx, code, body) ELSE p.s
        Processed(p) == Reply(p, Body(p))
    IN  Processed(ProcessAnswer(s, code, d))

(* Ending a session, by whichever message its state calls for. *)
EndSession(s, code, d) ==
    LET s1 == SetCause(s, code)
        t  == T(s, s.itsx)
    IN  CASE s.st \in {"calling", "early"} /\ Role(s) = "uac" ->
                 IF t.code < 100 THEN [s1 EXCEPT !.pcancel = TRUE]
                 ELSE SendCancel(SetTsx(s1, s.itsx, [t EXCEPT !.limit = TRUE]))
          [] s.st \in {"incoming", "early"} /\ Role(s) = "uas" -> Answer(s1, code, d)
          [] s.st \in {"connecting", "confirmed"} -> SendBye(s1)
          [] OTHER -> s1

(* Mutant: a session that is over answers no BYE. *)
RespondByeOnce(s, id) ==
    IF s.st = "disconnected" THEN s ELSE Disconnect(Respond(s, id, 200, NoSdp), 200)

(* Mutant: the BYE is answered and the session goes on. *)
RespondByeStays(s, id) == Respond(s, id, 200, NoSdp)

RespondBye(s, id) ==
    LET Ended(s1) == IF s.st = "disconnected" THEN s1 ELSE Disconnect(s1, 200)
    IN  Ended(Respond(s, id, 200, NoSdp))

(* A BYE before the INVITE was answered ends the INVITE as well. *)
RespondEarlyBye(s, id) ==
    LET t == T(s, s.itsx)
        Ended(s1) == CASE RoleOf(s.itsx) = "uac" -> SetTsx(s1, s.itsx, [t EXCEPT !.limit = TRUE])
                       [] RoleOf(s.itsx) = "uas" /\ t.code < 200 -> Respond(s1, s.itsx, 487, NoSdp)
                       [] OTHER -> s1
    IN  Ended(RespondBye(s, id))

RespondCancel(s, id) ==
    LET invite == TsxId("uas", "INVITE", CSeqOf(id))
        Ended(s1) == IF T(s, invite).code < 200 THEN Respond(s1, invite, 487, NoSdp) ELSE s1
    IN  Ended(Respond(s, id, 200, NoSdp))

RespondUpdate(s, id, sdp, d) ==
    LET Reply(n) == IF n.ok THEN Respond(n.s, id, 200, n.s.neg.al)
                        ELSE Respond(CancelledIf(n.s, {"LOCAL_OFFER", "REMOTE_OFFER"}), id, 488, NoSdp)
        Negotiated(s1) == IF NegState(s1) = "WAIT_NEGO" THEN InvNegotiate(s1, d) ELSE Pair(s1, FALSE)
    IN  CASE NegState(s) = "LOCAL_OFFER" -> Respond(s, id, 491, NoSdp)
          [] NegState(s) \in {"REMOTE_OFFER", "WAIT_NEGO"} -> Respond(s, id, 500, NoSdp)
          [] OTHER -> Reply(Negotiated(CheckSdp(s, id, sdp, 0, d).s))

(* A re-INVITE with an offer is answered at once; one without is answered  *)
(* with an offer, a new one or the active description.                     *)
ReinviteOffer(s, id, sdp, d) ==
    LET Reply(p) == Respond(p.s, id, IF p.ok THEN 200 ELSE 500, p.sdp)
        Checked(c) == IF c.ok THEN Reply(ProcessAnswer(c.s, 200, d))
                      ELSE Respond(CancelledIf(c.s, {"REMOTE_OFFER"}), id, 488, NoSdp)
    IN  Checked(CheckSdp(s, id, sdp, 0, d))

ReinviteNoOffer(s, id, d) ==
    LET n == IF d.new THEN ModifyLocalOffer(s.neg, Fresh(s), "prov") ELSE SendLocalOffer(s.neg, "prov")
        s1 == [s EXCEPT !.neg = n, !.bodies = IF d.new THEN @ + 1 ELSE @]
    IN  IF d.new \/ CanSendLocalOffer(s.neg) THEN Respond(s1, id, 200, n.nl) ELSE Respond(s, id, 500, NoSdp)

(* Mutant: a re-INVITE is taken while one is pending the other way. *)
RespondReinviteGlare(s, id, sdp, d) ==
    LET s1 == [s EXCEPT !.itsx = id]
    IN  IF NegState(s) # "DONE" THEN Respond(s1, id, 200, s.neg.al)
        ELSE IF sdp # NoSdp THEN ReinviteOffer(s1, id, sdp, d)
        ELSE ReinviteNoOffer(s1, id, d)

RespondReinvite(s, id, sdp, d) ==
    LET s1 == [s EXCEPT !.itsx = id]
    IN  CASE s.itsx # NoTsx -> Respond(s, id, IF RoleOf(s.itsx) = "uac" THEN 491 ELSE 500, NoSdp)
          [] s.itsx = NoTsx /\ NegState(s) # "DONE" -> Respond(s1, id, 491, NoSdp)
          [] OTHER -> IF sdp # NoSdp THEN ReinviteOffer(s1, id, sdp, d)
                                     ELSE ReinviteNoOffer(s1, id, d)

(* What each state makes of a request that starts transaction id.  The     *)
(* combinations that are missing are not answered by the session.          *)
OnRequest(s, id, sdp, d) ==
    LET m == MethodOf(id) IN
    CASE m = "BYE" /\ s.st = "early"                                     -> RespondEarlyBye(s, id)
      [] m = "BYE" /\ s.st \in {"connecting", "confirmed", "disconnected"} -> RespondBye(s, id)
      [] m = "CANCEL" /\ s.st \in {"incoming", "early", "connecting", "confirmed"} -> RespondCancel(s, id)
      [] m = "CANCEL" /\ s.st = "disconnected"                           -> Respond(s, id, 200, NoSdp)
      [] m = "INVITE" /\ s.st = "connecting"                             -> Respond(s, id, 491, NoSdp)
      [] m = "INVITE" /\ s.st = "confirmed"                              -> RespondReinvite(s, id, sdp, d)
      [] m = "UPDATE" /\ s.st \in {"calling", "early", "connecting", "confirmed"} -> RespondUpdate(s, id, sdp, d)
      [] OTHER -> s

(* The ACK of a 2xx ends the INVITE transaction that waits for it. *)
OnAck(s, c, sdp, d) ==
    LET id == s.itsx
        Settle(s1) == IF s.st = "confirmed" THEN CancelledIf(s1, {"LOCAL_OFFER"}) ELSE s1
        Ended(s2)  == IF s.st = "connecting" THEN PerformPendingBye(SetState(Dropped(s2, id), "confirmed"))
                                             ELSE Dropped(s2, id)
    IN  IF id = NoTsx \/ T(s, id).state # "completed" \/ CSeqOf(id) # c THEN s
        ELSE Ended(Settle(IF s.st = "disconnected" THEN s ELSE CheckSdp(s, id, sdp, 0, d).s))

-----------------------------------------------------------------------------
(* Responses and failures of the requests this side sent. *)

(* 481 and a timeout end the session, and a transport failure of a request *)
(* is left to the session timer.  "handled" keeps the caller from going on.*)
HandleUacTsx(s, id) ==
    LET t == T(s, id)
        fatal == t.code = 408 \/ (t.code = 481 /\ MethodOf(id) # "CANCEL")
    IN  CASE s.st # "disconnected" /\ fatal -> Pair(SendBye(Disconnect(s, t.code)), TRUE)
          [] t.state = "terminated" /\ t.code = 503 -> Pair(s, TRUE)
          [] OTHER -> Pair(s, FALSE)

(* The response of an UPDATE.  An offer that was not answered is given up, *)
(* once.                                                                   *)
HandleUpdateResponse(s, id, sdp, d) ==
    LET t  == T(s, id)
        answered == t.state = "completed" /\ Is2xx(t.code) /\ sdp # NoSdp /\ NegState(s) = "LOCAL_OFFER"
        GivenUp(s1) == IF NegState(s1) = "LOCAL_OFFER" /\ ~T(s1, id).done /\ T(s1, id).has
                       THEN SdpDone(Cancelled(s1), id) ELSE s1
    IN  Pair(GivenUp(IF answered THEN CheckSdp(s, id, sdp, t.code, d).s ELSE s),
             t.state = "completed" \/ t.code = 503)

(* Progress of the first INVITE, at the caller. *)
OnInviteProgress(s, id, sdp, d) ==
    LET t  == T(s, id)
        Proceeds(s1) == IF t.code = 100 THEN s1 ELSE CheckSdp(SetState(s1, "early"), id, sdp, t.code, d).s
    IN  CASE t.state = "proceeding" ->
                 Proceeds(IF s.pcancel /\ s.st = "calling"
                          THEN EndSession([s EXCEPT !.pcancel = FALSE], 487, d) ELSE s)
          [] t.state = "terminated" /\ Is2xx(t.code) ->
                 SendAck(CheckSdp(SetState(s, "connecting"), id, sdp, t.code, d).s, CSeqOf(id), d)
          [] OTHER -> Disconnect(s, t.code)

(* Progress of a re-INVITE, at the side that sent it.  prev is the state   *)
(* its transaction comes from.                                             *)
OnReinviteProgress(s, id, prev, sdp, d) ==
    LET t == T(s, id)
        Failed(h) == IF h.ok THEN h.s
                     ELSE IF prev = "completed" THEN s
                     ELSE [CancelledIf(s, {"LOCAL_OFFER"}) EXCEPT !.itsx = IF @ = id THEN NoTsx ELSE @]
        accepted == CancelledIf(CheckSdp(s, id, sdp, t.code, d).s, {"LOCAL_OFFER"})
    IN  CASE t.state = "proceeding" ->
                 IF s.pcancel THEN SendCancel([s EXCEPT !.pcancel = FALSE]) ELSE s
          [] t.state = "terminated" /\ Is2xx(t.code) -> SendAck(accepted, CSeqOf(id), d)
          [] OTHER -> Failed(HandleUacTsx(s, id))

(* What each state makes of a change of client transaction id.             *)
OnClientTsx(s, id, prev, sdp, d) ==
    LET m == MethodOf(id)
        t == T(s, id)
        final == t.state \in {"completed", "terminated"}
        Updated(u) == IF u.ok \/ s.st = "early" THEN u.s ELSE HandleUacTsx(u.s, id).s
    IN  CASE s.st \in {"calling", "early"} /\ id = s.itsx -> OnInviteProgress(s, id, sdp, d)
          [] s.st = "calling" /\ id # s.itsx ->
                 IF t.code = 408 \/ (t.code = 481 /\ m # "CANCEL") THEN Disconnect(s, t.code) ELSE s
          [] s.st = "early" /\ id # s.itsx ->
                 IF m = "UPDATE" /\ final THEN Updated(HandleUpdateResponse(s, id, sdp, d)) ELSE HandleUacTsx(s, id).s
          [] s.st = "connecting" /\ id = s.itsx ->
                 IF t.state = "terminated" /\ ~Is2xx(t.code) THEN Disconnect(s, t.code) ELSE s
          [] s.st \in {"connecting", "confirmed"} /\ id # s.itsx /\ m = "BYE" /\ final ->
                 Disconnect(s, 200)
          [] s.st \in {"connecting", "confirmed"} /\ id # s.itsx /\ m = "UPDATE" /\ final ->
                 Updated(HandleUpdateResponse(s, id, sdp, d))
          [] s.st = "confirmed" /\ m = "INVITE" -> OnReinviteProgress(s, id, prev, sdp, d)
          [] s.st \in {"connecting", "confirmed", "disconnected"} -> HandleUacTsx(s, id).s
          [] OTHER -> s

(* pjsua: a call that was hung up while its INVITE was still open, and was *)
(* answered all the same, is ended once more.                              *)
HangAgain(s, id, code, prev, d) ==
    IF s.hang /\ MethodOf(id) = "INVITE" /\ Is2xx(code) /\ prev \in {"calling", "proceeding"}
    THEN EndSession(s, 200, d) ELSE s

(* A client transaction changes state, and leaves when it is terminated. *)
ClientTsxState(s, id, state, code, sdp, d) ==
    LET prev == T(s, id).state
        s1 == SetTsx(s, id, [T(s, id) EXCEPT !.state = state, !.code = code])
        Left(s2) == IF state = "terminated" THEN Dropped(s2, id) ELSE s2
    IN  HangAgain(Left(OnClientTsx(s1, id, prev, sdp, d)), id, code, prev, d)

(* The 2xx of an INVITE that is over is acknowledged again. *)
OnStrayResponse(s, m, c, code, d) ==
    IF m = "INVITE" /\ Is2xx(code) /\ (s.itsx = NoTsx \/ s.st = "disconnected" \/ s.ackc = c)
    THEN SendAck(s, c, d) ELSE s

OnResponse(s, m, c, code, sdp, d) ==
    LET id == TsxId("uac", m, c)
        s1 == OnStrayResponse(s, m, c, code, d)
        state == IF Is1xx(code) THEN "proceeding"
                 ELSE IF m = "INVITE" /\ Is2xx(code) THEN "terminated" ELSE "completed"
    IN  IF id \notin Tsxs(s) THEN s1
        ELSE IF T(s, id).state = "completed" THEN s
        ELSE ClientTsxState(s1, id, state, code, sdp, d)

-----------------------------------------------------------------------------
(* The steps. *)

Init == /\ ses = [a \in Agents |-> NewSession(a)]
        /\ net = {}

(* Session a becomes s, and what s sent is on its way. *)
Becomes(a, s) == /\ ses' = [ses EXCEPT ![a] = [s EXCEPT !.out = {}]]
                 /\ net' = net \cup s.out

Decisions == [gives    : IF "no answer" \in Events THEN BOOLEAN ELSE {TRUE},
              new      : IF "empty reinvite" \in Ops THEN BOOLEAN ELSE {TRUE},
              offerer  : IF "mismatch at offerer" \in Events THEN BOOLEAN ELSE {TRUE},
              answerer : IF "mismatch at answerer" \in Events THEN BOOLEAN ELSE {TRUE}]

(* An operation of the application, counted.  A call that is hung up gets  *)
(* no other.                                                               *)
May(a, op) == op \in Ops /\ ses[Caller].made + ses[Callee].made < MaxOps /\ ~ses[a].hang
Counted(s) == [s EXCEPT !.made = @ + 1]

(* An application that waits for one exchange to end before it starts the  *)
(* next one.                                                               *)
Undisturbed(s) == "overlapping offers" \in Events \/ (s.itsx = NoTsx /\ NegState(s) = "DONE")

(* The caller starts the call, with an offer or without. *)
Invite ==
    LET s == ses[Caller]
        offer == CreateWithLocalOffer(Fresh(s), "inv")
    IN  /\ s.st = "null"
        /\ \/ Becomes(Caller, SendRequest(Used([s EXCEPT !.neg = offer]), "INVITE", offer.nl))
           \/ "offerless invite" \in Ops /\ Becomes(Caller, SendRequest(s, "INVITE", NoSdp))

(* The callee's application gives its description: an answer, or an offer  *)
(* if the INVITE had none.                                                 *)
SetLocalSdp ==
    LET s == ses[Callee] IN
    /\ s.st \in {"incoming", "early"}
    /\ \/ /\ NegState(s) = "NULL"
          /\ Becomes(Callee, Used([s EXCEPT !.neg = CreateWithLocalOffer(Fresh(s), "inv")]))
       \/ /\ \/ NegState(s) = "REMOTE_OFFER"
             \/ NegState(s) = "WAIT_NEGO" /\ "answer again" \in Events /\ s.bodies < 2
          /\ Becomes(Callee, Used([s EXCEPT !.neg = SetLocalAnswer(@, Fresh(s), "prov")]))

(* The callee answers: 180, 183 with a description, 200.  pjsua gives its  *)
(* description before it sends 183 or 200, and sends neither of them after *)
(* a negotiation that failed.                                              *)
AnswerCall ==
    LET s == ses[Callee] IN
    /\ s.st \in {"incoming", "early"} /\ s.itsx # NoTsx
    /\ \E code \in (IF "ring" \in Ops THEN {180} ELSE {})
                       \cup (IF "early media" \in Ops THEN {183} ELSE {}) \cup {200}, d \in Decisions :
          /\ code > T(s, s.itsx).code
          /\ code # 180 => /\ NegState(s) \notin {"NULL", "REMOTE_OFFER"}
                           /\ NegState(s) = "DONE" => s.neg.al # NoSdp
          /\ Becomes(Callee, Answer(s, code, d))

(* pjsua's codes: the callee declines, the caller cancels or says goodbye. *)
HangUp(a) ==
    LET s == ses[a]
        code == IF s.st = "confirmed" THEN 200 ELSE IF a = Callee THEN 603 ELSE 487
    IN  /\ May(a, "hangup") /\ s.st \in States \ {"null", "disconnected"}
        /\ \E d \in Decisions : Becomes(a, EndSession(Counted([s EXCEPT !.hang = TRUE]), code, d))

(* A re-INVITE: with a new offer, which is dropped if one is pending; or   *)
(* without a new offer, and then with none unless one is pending.  It is   *)
(* refused while an INVITE transaction is pending.                         *)
Reinvite(a) ==
    LET s == ses[a]
        n == CASE NegState(s) = "DONE" -> ModifyLocalOffer(s.neg, Fresh(s), "prov")
               [] NegState(s) = "REMOTE_OFFER" -> SetLocalAnswer(s.neg, Fresh(s), "prov")
               [] OTHER -> s.neg
        Offer(neg) == IF neg.state = "LOCAL_OFFER" \/ HasLocalAnswer(neg) THEN neg.nl ELSE NoSdp
    IN  /\ s.st = "confirmed" /\ s.itsx = NoTsx
        /\ Undisturbed(s)
        /\ \/ /\ May(a, "reinvite")
              /\ Becomes(a, SendRequest(Counted(Used([s EXCEPT !.neg = n])), "INVITE", Offer(n)))
           \/ /\ May(a, "empty reinvite")
              /\ Becomes(a, SendRequest(Counted(s), "INVITE", Offer(s.neg)))

(* An UPDATE with an offer, once the dialog is established. *)
Update(a) ==
    LET s == ses[a]
        n == ModifyLocalOffer(s.neg, Fresh(s), "prov")
    IN  /\ May(a, "update")
        /\ s.st \in {"early", "connecting", "confirmed"}
        /\ NegState(s) = "DONE"
        /\ Undisturbed(s)
        /\ Becomes(a, SendRequest(Counted(Used([s EXCEPT !.neg = n])), "UPDATE", n.nl))

(* The CANCEL of a re-INVITE waits for its first provisional response. *)
CancelReinvite(a) ==
    LET s == ses[a] IN
    /\ May(a, "cancel reinvite")
    /\ s.st = "confirmed" /\ s.itsx # NoTsx /\ RoleOf(s.itsx) = "uac"
    /\ Becomes(a, Counted(IF T(s, s.itsx).code < 100 THEN [s EXCEPT !.pcancel = TRUE] ELSE SendCancel(s)))

-----------------------------------------------------------------------------
(* Messages. *)

Take(m, a, s) == /\ ses' = [ses EXCEPT ![a] = [s EXCEPT !.out = {}]]
                 /\ net' = (net \ {m}) \cup s.out

(* A response outside any transaction, to a request nobody can take. *)
Stateless(s, m, code) == Send(s, "rsp", m.m, m.c, code, NoSdp)

(* The first INVITE makes dialog, session and transaction, and is answered *)
(* with 100 before the application hears of it.                            *)
CreateUas(s, m) ==
    LET id == TsxId("uas", "INVITE", m.c)
        t  == [NewTsx("trying", TRUE, NoSdp) EXCEPT !.has = m.sdp # NoSdp]
        s1 == [SetTsx(s, id, t) EXCEPT !.itsx = id, !.rcs = m.c,
                  !.neg = IF m.sdp # NoSdp THEN CreateWithRemoteOffer(m.sdp, "inv") ELSE NoNeg]
    IN  Respond(s1, id, 100, NoSdp)

(* A request inside the dialog.  The session claims INVITE, BYE and CANCEL *)
(* whether it answers them or not; the dialog answers an UPDATE it left.   *)
InDialog(s, m, d) ==
    LET id == TsxId("uas", m.m, m.c)
        s1 == [s EXCEPT !.rcs = m.c]
        Claimed(s2) == IF m.m = "UPDATE" /\ T(s2, id).code < 200 THEN Respond(s2, id, 500, NoSdp) ELSE s2
    IN  CASE m.m = "ACK" -> OnAck(s1, m.c, m.sdp, d)
          [] m.m \in {"INVITE", "BYE", "UPDATE"} /\ m.c <= s.rcs -> Stateless(s, m, 500)
          [] OTHER -> Claimed(OnRequest(SetTsx(s1, id, NewTsx("trying", FALSE, NoSdp)), id, m.sdp, d))

(* A CANCEL finds the dialog by the INVITE it cancels. *)
Addressed(s, m) ==
    /\ Exists(s) /\ ~Gone(s)
    /\ m.m = "CANCEL" => TsxId("uas", "INVITE", m.c) \in Tsxs(s)

DeliverRequest(m, d) ==
    LET a == m.to
        s == ses[a]
    IN  /\ m.kind = "req"
        /\ CASE a = Callee /\ ~Exists(s) /\ m.m = "INVITE" -> Take(m, a, CreateUas(s, m))
             [] Addressed(s, m) -> Take(m, a, InDialog(s, m, d))
             [] OTHER -> Take(m, a, IF m.m = "ACK" THEN s ELSE Stateless(s, m, 481))

DeliverResponse(m, d) ==
    LET s == ses[m.to]
    IN  /\ m.kind = "rsp"
        /\ Take(m, m.to, IF Gone(s) THEN s ELSE OnResponse(s, m.m, m.c, m.code, m.sdp, d))

Deliver(m) == \E d \in Decisions : DeliverRequest(m, d) \/ DeliverResponse(m, d)

-----------------------------------------------------------------------------
(* Timers and the transport. *)

(* The 2xx is sent again while its ACK is missing; here, once.             *)
Retransmit(a, id) ==
    LET s == ses[a]
        t == T(s, id)
    IN  /\ "retransmission" \in Events
        /\ RoleOf(id) = "uas" /\ MethodOf(id) = "INVITE" /\ t.state = "completed" /\ Is2xx(t.code)
        /\ ~t.resent
        /\ Becomes(a, Send(SetTsx(s, id, [t EXCEPT !.resent = TRUE]), "rsp", "INVITE", CSeqOf(id), t.code, t.sdp))

(* The timers of the transactions.  A request that got no final response   *)
(* in time; an INVITE that got a provisional response waits for ever,      *)
(* unless a limit was set.                                                 *)
TimeoutDue(a, id) ==
    LET t == T(ses[a], id) IN
    /\ "timeout" \in Events
    /\ RoleOf(id) = "uac"
    /\ t.state = "calling" \/ (t.state = "proceeding" /\ t.limit)

(* A 2xx whose ACK did not come.                                           *)
AckDue(a, id) ==
    LET t == T(ses[a], id) IN
    /\ "timeout" \in Events
    /\ RoleOf(id) = "uas" /\ MethodOf(id) = "INVITE" /\ t.state = "completed" /\ Is2xx(t.code)

(* A completed transaction: its own timer, or for a rejected INVITE at the *)
(* side that rejected it, the ACK.                                         *)
EndDue(a, id) ==
    LET t == T(ses[a], id) IN
    /\ t.state = "completed"
    /\ RoleOf(id) = "uac" \/ ~(MethodOf(id) = "INVITE" /\ Is2xx(t.code))

Timeout(a, id) ==
    /\ TimeoutDue(a, id)
    /\ \E d \in Decisions : Becomes(a, ClientTsxState(ses[a], id, "terminated", 408, NoSdp, d))

TransportError(a, id) ==
    /\ "transport error" \in Events
    /\ RoleOf(id) = "uac" /\ T(ses[a], id).state = "calling"
    /\ \E d \in Decisions : Becomes(a, ClientTsxState(ses[a], id, "terminated", 503, NoSdp, d))

(* Mutant: the session waits on for the ACK. *)
AckTimeoutQuiet(a, id) == AckDue(a, id) /\ Becomes(a, Dropped(ses[a], id))

(* It ends a session that still waits for the ACK. *)
AckTimeout(a, id) ==
    LET s == ses[a]
        s1 == [SendBye(SetCause(s, 408)) EXCEPT !.pbye = FALSE]
    IN  /\ AckDue(a, id)
        /\ Becomes(a, Dropped(IF s.st = "connecting" /\ id = s.itsx THEN s1 ELSE s, id))

EndTsx(a, id) ==
    LET s == ses[a] IN
    /\ EndDue(a, id)
    /\ \/ RoleOf(id) = "uac"
          /\ \E d \in Decisions : Becomes(a, ClientTsxState(s, id, "terminated", T(s, id).code, NoSdp, d))
       \/ RoleOf(id) = "uas" /\ Becomes(a, Dropped(s, id))

Next ==
    \/ Invite \/ SetLocalSdp \/ AnswerCall
    \/ \E a \in Agents : HangUp(a) \/ Reinvite(a) \/ Update(a) \/ CancelReinvite(a)
    \/ \E m \in net : Deliver(m)
    \/ \E a \in Agents : \E id \in Tsxs(ses[a]) :
          Retransmit(a, id) \/ Timeout(a, id) \/ TransportError(a, id) \/ AckTimeout(a, id) \/ EndTsx(a, id)

Spec == Init /\ [][Next]_vars

(* The network delivers what it has, and the timers of the transactions    *)
(* fire; the applications need not do anything.  This is weak fairness of  *)
(* Deliver, which alone takes a message from the network, and of the four  *)
(* actions above, which alone take a transaction away without a message,   *)
(* written so that TLC need not find out whether the actions are enabled.  *)
Due(a, id) == TimeoutDue(a, id) \/ AckDue(a, id) \/ EndDue(a, id)
TsxEnds == net \ net' = {} /\ \E a \in Agents : Tsxs(ses[a]) \ DOMAIN ses'[a].tsx # {}

Delivery == []<>(net = {}) \/ []<><<net \ net' # {}>>_vars
Timers   == []<>(\A a \in Agents : \A id \in Tsxs(ses[a]) : ~Due(a, id)) \/ []<><<TsxEnds>>_vars
FairSpec == Spec /\ Delivery /\ Timers

-----------------------------------------------------------------------------
(* Properties. *)

Sdps == [mem : Pools, ver : Nat, body : (Agents \cup {"none"}) \X Nat]
TsxStates == {"trying", "calling", "proceeding", "completed", "terminated"}

(* Every session and message is one the code can hold; a client INVITE that *)
(* the session works on is one of its transactions, or over.               *)
TypeOK ==
    /\ \A a \in Agents : LET s == ses[a] IN
          /\ s.me = a /\ s.st \in States /\ NegState(s) \in NegStates
          /\ Stored(s.neg) \cup {s.acksdp, s.last} \subseteq Sdps
          /\ s.itsx \in Tsxs(s) \cup {NoTsx}
          /\ \A id \in Tsxs(s) : T(s, id).state \in TsxStates /\ T(s, id).code \in 0 .. 699
          /\ s.out = {}
    /\ \A m \in net : /\ m.kind \in {"req", "rsp"} /\ m.to \in Agents
                       /\ m.sdp.mem \in {"wire", "none"}

(* The exchanges of offer and answer, and the end of the call, are over at  *)
(* both ends, and no message of one is on its way.                         *)
Busy(a) == \E id \in Tsxs(ses[a]) : MethodOf(id) \in {"INVITE", "UPDATE", "BYE"}
                                     /\ T(ses[a], id).state \in {"calling", "proceeding", "trying"}
AtRest ==
    /\ \A a \in Agents : ses[a].st = "confirmed" /\ ses[a].itsx = NoTsx /\ ~Busy(a)
    /\ \A m \in net : m.m \in {"INVITE", "UPDATE", "BYE", "ACK"} => m.kind = "rsp" /\ m.code >= 300

(* When nothing is under way the two ends have the same session: each has  *)
(* one, and what one takes for the other's description is what the other   *)
(* uses.  About the offer/answer of first INVITE, re-INVITE and UPDATE,    *)
(* which may cross, be refused, cancelled, or carry the offer either way.  *)
Agreement ==
    AtRest => \A a \in Agents :
        /\ NegState(ses[a]) = "DONE"
        /\ ses[a].neg.al # NoSdp
        /\ ses[a].neg.al.body = ses[Peer(a)].neg.ar.body

(* No description the negotiator holds lies in a pool that was reset: the  *)
(* flip-flop pools (inv_negotiate_sdp) against the copies sdp_neg.c makes. *)
SdpAlive == \A a \in Agents : \A sdp \in Stored(ses[a].neg) : sdp.mem # "freed"

(* A description that carries the version the receiver has active is that  *)
(* description: offers that are given up take their version with them.     *)
VersionTells ==
    \A m \in net : LET old == ses[m.to].neg.ar IN
        m.sdp # NoSdp /\ old # NoSdp /\ m.sdp.ver = old.ver => m.sdp.body = old.body

(* A request is answered in the step that takes it: each state handler has *)
(* to see to it, for the session claims the request whatever its state.    *)
(* Left out: an INVITE that reaches a session which is over and a BYE that *)
(* overtakes every response to the INVITE, which are claimed in vain.      *)
Answered ==
    [][\A a \in Agents : \A id \in DOMAIN ses'[a].tsx \ Tsxs(ses[a]) :
          RoleOf(id) = "uas" /\ <<MethodOf(id), ses[a].st>> \notin {<<"INVITE", "disconnected">>, <<"BYE", "calling">>}
            => ses'[a].tsx[id].state # "trying"]_vars

(* Of two re-INVITEs that cross, not both are accepted.                    *)
GlareRejected ==
    ~\A a \in Agents : \E id \in Tsxs(ses[a]) :
         /\ RoleOf(id) = "uas" /\ MethodOf(id) = "INVITE"
         /\ T(ses[a], id).state = "completed" /\ Is2xx(T(ses[a], id).code)

(* The callee says BYE to a caller that knows the call is established.     *)
ByeAfterAck ==
    \A m \in net : m.m = "BYE" /\ m.kind = "req" /\ m.to = Caller => ses[Caller].st \in {"confirmed", "disconnected"}

(* A session that is confirmed has its offer/answer done ("If state is     *)
(* confirmed, check that SDP negotiation is done, otherwise disconnect the *)
(* session").  About the first INVITE: no re-INVITE or UPDATE was sent.    *)
ConfirmedWithSdp ==
    \A a \in Agents : ses[a].st = "confirmed" => NegState(ses[a]) = "DONE"

(* The ACKs of one INVITE carry the same description (it is kept "for      *)
(* subsequent response retransmission").                                   *)
AckKept ==
    \A m1, m2 \in net : m1.m = "ACK" /\ m2.m = "ACK" /\ m1.to = m2.to /\ m1.c = m2.c => m1.sdp = m2.sdp

(* The states of the two sessions are what CallLifecycle promises: they go *)
(* forward, and an end does not take the other for further than it is.     *)
Lifecycle == INSTANCE CallLifecycle WITH st <- [a \in Agents |-> ses[a].st]
ImplementsLifecycle == Lifecycle!Spec

(* A call that is hung up ends, whatever was on its way.                   *)
HungUpEnds == \A a \in Agents : ses[a].hang ~> ses[a].st = "disconnected"

(* When the call is over at one end, the other does not stay in it.  (A    *)
(* callee may still ring for a caller that gave up without a CANCEL.)      *)
NoHalfCall == \A a \in Agents :
    ses[a].st = "disconnected" ~> ses[Peer(a)].st \notin {"calling", "connecting", "confirmed"}
===============================================================================
