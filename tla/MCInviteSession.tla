--------------------------- MODULE MCInviteSession ---------------------------
(* The instances of InviteSession that TLC checks. *)
EXTENDS InviteSession

CallOps == Operations \ {"offerless invite"}
==============================================================================
