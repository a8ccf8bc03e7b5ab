---------------------------- MODULE MCIceSession ----------------------------
(* The instances of IceSession that TLC checks. *)
EXTENDS IceSession

(* Of component 1: one pair over IPv4, one over IPv6, and one from another *)
(* IPv4 address of A.  Which of the first two comes first depends on who   *)
(* is controlling.  Of component 2: one pair over IPv4.                    *)
AllPairs == {"v4", "v6", "other", "rtcp"}
Components == [v4 |-> 1, v6 |-> 1, other |-> 1, rtcp |-> 2]
Foundations == [A |-> [v4 |-> 1, v6 |-> 2, other |-> 3, rtcp |-> 1],
                B |-> [v4 |-> 1, v6 |-> 2, other |-> 1, rtcp |-> 1]]
Priorities == [A |-> [v4 |-> 4, v6 |-> 3, other |-> 2, rtcp |-> 1],
               B |-> [v4 |-> 3, v6 |-> 4, other |-> 2, rtcp |-> 1]]

Both(S) == [a \in Agents |-> S]
Base == [role |-> [A |-> "CONTROLLING", B |-> "CONTROLLED"], aggressive |-> Both(FALSE),
         known |-> Both({"v4"}), reach |-> Both({"v4"}),
         patient |-> FALSE, stops |-> FALSE, workers |-> {1}, losses |-> 0]
With(w, roles, options) ==
    {[w EXCEPT !.role = r, !.aggressive = o] : r \in roles, o \in options}

AnyRoles   == [Agents -> Roles]
AnyOptions == [Agents -> BOOLEAN]
OneOption  == {Both(b) : b \in BOOLEAN}
SomeRoles  == {Base.role, Both("CONTROLLING")}

OnePair    == With(Base, AnyRoles, AnyOptions) \cup With([Base EXCEPT !.patient = TRUE], AnyRoles, AnyOptions)
TwoThreads == With([Base EXCEPT !.workers = {1, 2}], AnyRoles, AnyOptions)
Lossy      == With([Base EXCEPT !.losses = 1, !.stops = TRUE], AnyRoles, OneOption)
Known(S)   == [Base EXCEPT !.known = Both(S), !.reach = Both(S), !.patient = TRUE]
TwoPaths   == With(Known({"v4", "v6"}), SomeRoles, OneOption)
TwoComps   == With(Known({"v4", "rtcp"}), AnyRoles, OneOption)
OnePath    == With([Known({"v4", "v6"}) EXCEPT !.reach = Both({"v6"}), !.patient = FALSE], AnyRoles, AnyOptions)
Learned    == With([Base EXCEPT !.known["A"] = {"v4", "other"}, !.reach = Both({"other"})], AnyRoles, AnyOptions)

AllWorlds == UNION {OnePair, TwoThreads, Lossy, TwoPaths, TwoComps, OnePath, Learned}
=============================================================================
