---------------------------- MODULE CallLifecycle ----------------------------
(***************************************************************************)
(* What the two ends of a call promise each other: the states of           *)
(* pjsip_inv_state as an application sees them (sip_inv.h), which only go  *)
(* forward, and what one end may conclude about the other from its own.    *)
(* Module InviteSession implements this.                                   *)
(***************************************************************************)
EXTENDS Naturals

CONSTANTS Caller, Callee

VARIABLE st

Rank == [null |-> 0, calling |-> 1, incoming |-> 1, early |-> 2,
         connecting |-> 3, confirmed |-> 4, disconnected |-> 5]

Peer(a) == IF a = Caller THEN Callee ELSE Caller

(* What the other end has done when this one enters a state: an INVITE was *)
(* sent, it was answered, its answer has been seen.                        *)
Entitled(a, state, peer) ==
    CASE state = "calling"    -> a = Caller
      [] state = "incoming"   -> a = Callee /\ peer # "null"
      [] state = "early"      -> a = Caller => peer \notin {"null", "incoming"}
      [] state = "connecting" -> a = Caller => Rank[peer] >= Rank["connecting"]
      [] state = "confirmed"  -> Rank[peer] >= Rank["connecting"]
      [] OTHER                -> peer # "null" \/ a = Caller

Init == st = [a \in {Caller, Callee} |-> "null"]

Advance(a, state) ==
    /\ Rank[state] > Rank[st[a]]
    /\ Entitled(a, state, st[Peer(a)])
    /\ st' = [st EXCEPT ![a] = state]

Next == \E a \in {Caller, Callee} : \E state \in DOMAIN Rank : Advance(a, state)

Spec == Init /\ [][Next]_st
==============================================================================
