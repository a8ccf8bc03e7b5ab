-------------------------- MODULE MCSipTransaction --------------------------
(* The instances of SipTransaction that TLC checks. *)
EXTENDS SipTransaction, TLC

UacInvite == {[role |-> "UAC", invite |-> TRUE]}
UacOther == {[role |-> "UAC", invite |-> FALSE]}
UasInvite == {[role |-> "UAS", invite |-> TRUE]}
UasOther == {[role |-> "UAS", invite |-> FALSE]}

Uac == UacInvite \cup UacOther
Uas == UasInvite \cup UasOther
AnyKind == Uac \cup Uas

(* One response of each class the code tells apart: 100, other 1xx, 2xx,    *)
(* and the rest.                                                            *)
Responses == {100, 180, 200, 300}
FewResponses == {180, 200, 300}

(* Workers are interchangeable. *)
WorkerSymmetry == Permutations(Workers)
=============================================================================
