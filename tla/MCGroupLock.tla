---------------------------- MODULE MCGroupLock ----------------------------
(* The instance of GroupLock that TLC checks. *)
EXTENDS GroupLock, TLC

CONSTANTS t1, t2, t3, x, y

(* One lock comes before the group's own, the other after it. *)
Around == (x :> -1) @@ (y :> 1)

(* The threads but for the creator are interchangeable. *)
ThreadSymmetry == Permutations(Threads \ {Creator})
=============================================================================
