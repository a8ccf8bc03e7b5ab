---------------------------- MODULE SdpNegotiator ----------------------------
(***************************************************************************)
(* The SDP offer/answer negotiator of pjmedia (sdp_neg.c), as operators on *)
(* a record: each takes the negotiator and returns it changed.  A session  *)
(* description is reduced to what the negotiator tells apart: the pool its *)
(* memory comes from, the version of its origin line, and an opaque body   *)
(* (media lines, formats, ports).                                          *)
(*                                                                         *)
(* The INVITE session keeps two pools and swaps them after a negotiation   *)
(* (the flip-flop pools of sip_inv.c), so the pool of a description decides *)
(* how long it may be used: "inv" lives as long as the dialog, "prov" and  *)
(* "active" are the two pools, "freed" is memory of a pool that was reset. *)
(***************************************************************************)
EXTENDS Naturals

Pools == {"inv", "prov", "active", "freed", "wire", "none"}

(* No description: a NULL pointer, or a message without a body. *)
NoSdp == [mem |-> "none", ver |-> 0, body |-> <<"none", 0>>]

Clone(sdp, pool) == IF sdp = NoSdp THEN NoSdp ELSE [sdp EXCEPT !.mem = pool]

(* What a message carries: a copy in the message's own memory. *)
Wire(sdp) == Clone(sdp, "wire")

(***************************************************************************)
(* The negotiator: its state, the initial and the previous initial         *)
(* description, the pair under negotiation, the active pair, and whether   *)
(* the remote description under negotiation is an answer.                  *)
(***************************************************************************)
NegStates == {"NULL", "LOCAL_OFFER", "REMOTE_OFFER", "WAIT_NEGO", "DONE"}

NoNeg == [state |-> "NULL", init |-> NoSdp, tmp |-> NoSdp, nl |-> NoSdp, nr |-> NoSdp,
          al |-> NoSdp, ar |-> NoSdp, ans |-> FALSE]

(* The descriptions a negotiator points at. *)
Stored(n) == {n.init, n.tmp, n.nl, n.nr, n.al, n.ar}

CreateWithLocalOffer(local, pool) ==
    [NoNeg EXCEPT !.state = "LOCAL_OFFER", !.init = Clone(local, pool), !.nl = Clone(local, pool)]

(* No initial description: neither the session nor pjsua gives one. *)
CreateWithRemoteOffer(remote, pool) ==
    [NoNeg EXCEPT !.state = "REMOTE_OFFER", !.nr = Clone(remote, pool)]

(* The forms that return an error instead leave the negotiator alone: the  *)
(* caller tests Can... first where the code looks at the status.           *)
CanModifyLocalOffer(n) == n.state = "DONE"

(* A new offer carries the origin of the active description, one version   *)
(* later.                                                                  *)
ModifyLocalOffer(n, local, pool) ==
    LET offer == [mem |-> pool, ver |-> n.al.ver + 1, body |-> local.body]
    IN  [n EXCEPT !.state = "LOCAL_OFFER", !.tmp = n.init, !.init = offer, !.nl = offer]

CanSendLocalOffer(n) == \/ n.state = "DONE" /\ n.al # NoSdp
                        \/ n.state = "LOCAL_OFFER"

(* Offer the active description once more, or the pending offer again. *)
SendLocalOffer(n, pool) ==
    IF n.state = "DONE"
    THEN [n EXCEPT !.state = "LOCAL_OFFER",
                   !.tmp = n.init, !.init = Clone(n.init, pool),
                   !.nl = Clone(n.al, pool)]
    ELSE n

SetRemoteAnswer(n, remote, pool) ==
    [n EXCEPT !.state = "WAIT_NEGO", !.ans = TRUE, !.nr = Clone(remote, pool)]

SetRemoteOffer(n, remote, pool) ==
    [n EXCEPT !.state = "REMOTE_OFFER", !.nr = Clone(remote, pool)]

SetLocalAnswer(n, local, pool) ==
    [n EXCEPT !.state = "WAIT_NEGO", !.nl = Clone(local, pool),
              !.tmp   = IF n.init # NoSdp THEN n.init ELSE @,
              !.init  = Clone(IF n.init # NoSdp THEN n.init ELSE local, pool)]

HasLocalAnswer(n) == n.state = "WAIT_NEGO" /\ ~n.ans

Settled(n) == [n EXCEPT !.state = "DONE", !.tmp = NoSdp, !.nl = NoSdp, !.nr = NoSdp, !.ans = FALSE]

(* A local offer that is given up takes its version number with it. *)
CancelOffer(n) ==
    IF n.state = "LOCAL_OFFER"
    THEN Settled([n EXCEPT !.al.ver = IF n.al # NoSdp THEN @ + 1 ELSE @, !.init = n.tmp])
    ELSE Settled(n)

(* Mutant: the initial description of a failed negotiation is kept. *)
NegotiateKeeps(n, matches, pool) ==
    LET base   == IF n.al # NoSdp THEN n.al.ver ELSE n.init.ver
        answer == [mem |-> pool, ver |-> base + 1, body |-> n.nl.body]
    IN  IF matches
        THEN Settled([n EXCEPT !.al = IF n.ans THEN Clone(n.nl, pool) ELSE answer, !.ar = n.nr])
        ELSE Settled(n)

(* Mutant: an answer keeps the version of the description it replaces. *)
NegotiateSameVersion(n, matches, pool) ==
    LET base   == IF n.al # NoSdp THEN n.al.ver ELSE n.init.ver
        answer == [mem |-> pool, ver |-> base, body |-> n.nl.body]
    IN  IF matches
        THEN Settled([n EXCEPT !.al = IF n.ans THEN Clone(n.nl, pool) ELSE answer, !.ar = n.nr])
        ELSE Settled([n EXCEPT !.init = n.tmp])

(* The negotiation, with the outcome of matching the two descriptions as a *)
(* parameter.  The state is DONE whatever the outcome.                     *)
Negotiate(n, matches, pool) ==
    LET base   == IF n.al # NoSdp THEN n.al.ver ELSE n.init.ver
        answer == [mem |-> pool, ver |-> base + 1, body |-> n.nl.body]
    IN  IF matches
        THEN Settled([n EXCEPT !.al = IF n.ans THEN Clone(n.nl, pool) ELSE answer, !.ar = n.nr])
        ELSE Settled([n EXCEPT !.init = n.tmp])

(***************************************************************************)
(* The flip-flop pools.  After a successful negotiation the pools swap and *)
(* the one that is now provisional is reset; after a failed one the        *)
(* provisional pool is reset.                                              *)
(***************************************************************************)
Aged(sdp, age) == IF sdp.mem \in DOMAIN age THEN [sdp EXCEPT !.mem = age[sdp.mem]] ELSE sdp

AgedNeg(n, age) ==
    [n EXCEPT !.init = Aged(@, age), !.tmp = Aged(@, age), !.nl = Aged(@, age),
              !.nr = Aged(@, age), !.al = Aged(@, age), !.ar = Aged(@, age)]

SwapPools(n)  == AgedNeg(n, [prov |-> "active", active |-> "freed"])
ResetPool(n)  == AgedNeg(n, [prov |-> "freed"])
===============================================================================
