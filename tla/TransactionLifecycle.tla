------------------------ MODULE TransactionLifecycle ------------------------
(***************************************************************************)
(* What a transaction promises its user, whatever timers, transports and    *)
(* retransmissions it takes: the states of pjsip_tsx_state_e are passed in  *)
(* the order of RFC 3261, the user hears of the end before it is the end,   *)
(* and the memory goes last.  SipTransaction implements it when one thread  *)
(* polls (the default of pjsua).                                            *)
(***************************************************************************)
EXTENDS Integers, Sequences

CONSTANTS Kinds   \* the transactions there are: [role, invite] records

VARIABLES kind,      \* which of them this is
          phase,     \* pjsip_tsx_state_e, as the numbers of the enumeration
          heard,     \* the final states the user was told, in order
          released   \* the memory has been given back

vars == <<kind, phase, heard, released>>

Null == 0
Calling == 1
Trying == 2
Proceeding == 3
Completed == 4
Confirmed == 5
Terminated == 6
Destroyed == 7

(* The states that may follow a state.  Every live state may be cut short.  *)
Successors(k, p) ==
  LET Uac == CASE p = Null -> {Calling}
               [] p \in {Calling, Proceeding} -> {Proceeding, Completed}
               [] OTHER -> {}
      Uas == CASE p = Null -> {Trying}
               [] p \in {Trying, Proceeding} -> {Proceeding, Completed}
               [] p = Completed /\ k.invite -> {Confirmed}
               [] OTHER -> {}
  IN  (IF k.role = "UAC" THEN Uac ELSE Uas)
        \cup (IF p < Terminated THEN {Terminated} ELSE {})
        \cup (IF p = Terminated THEN {Destroyed} ELSE {})

Init ==
  /\ kind \in Kinds
  /\ phase = Null /\ heard = <<>> /\ released = FALSE

(* The transaction moves on, tells its user, is given back, or does several *)
(* of these at once.  Nothing is told before TERMINATED, and neither        *)
(* DESTROYED nor the release comes before the user has been told that.      *)
Advance == phase' = phase \/ phase' \in Successors(kind, phase)

Inform ==
  \/ heard' = heard
  \/ phase' = Terminated /\ heard' = Append(heard, Terminated)
  \/ phase' = Destroyed /\ heard # <<>> /\ heard' = Append(heard, Destroyed)

GiveBack == released' = released \/ (released' = TRUE /\ phase' >= Terminated)

Next ==
  /\ ~released
  /\ Advance /\ Inform /\ GiveBack
  /\ phase' = Destroyed \/ released' => heard' # <<>>
  /\ UNCHANGED kind

Spec == Init /\ [][Next]_vars
=============================================================================
