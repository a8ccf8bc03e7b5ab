----------------------- MODULE SipTransaction_proofs -----------------------
(***************************************************************************)
(* For any number of worker threads, any status codes and any number of    *)
(* alternative addresses: SipTransaction is type correct; the group lock    *)
(* counts everybody who relies on it, and so the memory of a transaction    *)
(* outlives all of them; no transaction that waits for nothing but time is  *)
(* forgotten, a server retransmits until its wait is over, and the client   *)
(* of an INVITE stops when a final response comes; with one worker thread   *)
(* it stops with the provisional response already.                          *)
(***************************************************************************)
EXTENDS SipTransaction, FiniteSetTheorems, TLAPS

(* The part of the invariant that is about the record alone. *)
Good(s) ==
  /\ s \in TsxType
  /\ IsFiniteSet(s.sends)
  /\ s.registered => ~s.terminating

(* The references that are left for the workers. *)
Held(s) == s.ref - Weight(s)

(* A step from s to t leaves the workers as many. *)
Safe(s, t) == Good(t) /\ Held(t) >= Held(s)

(* The same for every outcome of a step. *)
SafeAll(s, T) == \A t \in T : Safe(s, t)
SafeOuts(s, O) == \A o \in O : Safe(s, o.tsx)

(* What a step on the timers and the flags leaves alone. *)
Kept(s, t) ==
  t.state = s.state /\ t.terminating = s.terminating /\ t.registered = s.registered

(* ... and a change of what does not count leaves these alone. *)
Alike(s, t) ==
  /\ t.ref = s.ref /\ t.tm = s.tm /\ t.sends = s.sends
  /\ t.terminating = s.terminating /\ (t.registered => s.registered)
-----------------------------------------------------------------------------
(* Weight is an integer, and so is what is held. *)
LEMMA HeldInt ==
  ASSUME NEW s, Good(s)
  PROVE  Held(s) \in Int /\ Weight(s) \in Nat /\ Cardinality(s.sends) \in Nat
<1>1. Cardinality(s.sends) \in Nat
  BY FS_CardinalityType DEF Good
<1>2. s.ref \in Int
  BY DEF Good, TsxType
<1> QED
  BY <1>1, <1>2 DEF Held, Weight, Armed

LEMMA SafeRefl ==
  ASSUME NEW s, Good(s)
  PROVE  Safe(s, s)
BY HeldInt DEF Safe

LEMMA SafeTrans ==
  ASSUME NEW s, NEW t, NEW u, Good(s), Safe(s, t), Safe(t, u)
  PROVE  Safe(s, u)
BY HeldInt DEF Safe

LEMMA Neutral ==
  ASSUME NEW s, Good(s), NEW t \in TsxType, Alike(s, t)
  PROVE  Safe(s, t)
<1>1. Held(t) = Held(s)
  BY DEF Held, Weight, Armed, Alike
<1> QED
  BY <1>1, HeldInt DEF Safe, Good, Alike
-----------------------------------------------------------------------------
(* The operators on the record. *)
LEMMA AddRefHeld ==
  ASSUME NEW s, Good(s)
  PROVE  Good(AddRef(s)) /\ Held(AddRef(s)) = Held(s) + 1
<1>1. AddRef(s) \in TsxType
  BY DEF Good, TsxType, AddRef
<1>2. /\ AddRef(s).ref = s.ref + 1 /\ AddRef(s).tm = s.tm
      /\ AddRef(s).sends = s.sends /\ AddRef(s).terminating = s.terminating
      /\ AddRef(s).registered = s.registered
  BY DEF Good, TsxType, AddRef
<1>3. s.ref \in Int /\ Weight(s) \in Nat
  BY HeldInt DEF Good, TsxType
<1> QED
  BY <1>1, <1>2, <1>3 DEF Good, Held, Weight, Armed

LEMMA DecRefHeld ==
  ASSUME NEW s, Good(s)
  PROVE  Good(DecRef(s)) /\ Held(DecRef(s)) = Held(s) - 1
<1>1. DecRef(s) \in TsxType
  BY DEF Good, TsxType, DecRef
<1>2. /\ DecRef(s).ref = s.ref - 1 /\ DecRef(s).tm = s.tm
      /\ DecRef(s).sends = s.sends /\ DecRef(s).terminating = s.terminating
      /\ DecRef(s).registered = s.registered
  BY DEF Good, TsxType, DecRef
<1>3. s.ref \in Int /\ Weight(s) \in Nat
  BY HeldInt DEF Good, TsxType
<1> QED
  BY <1>1, <1>2, <1>3 DEF Good, Held, Weight, Armed

LEMMA RaiseSafe ==
  ASSUME NEW s, Good(s), NEW f \in Flags
  PROVE  Safe(s, Raise(s, f)) /\ Kept(s, Raise(s, f))
<1>1. s.flags \in FlagSets
  BY DEF Good, TsxType
<1>2. s.flags \cup {f} \in FlagSets
  BY <1>1 DEF FlagSets
<1>3. Raise(s, f) \in TsxType
  BY <1>2 DEF Good, TsxType, Raise
<1> QED
  BY <1>3, Neutral DEF Good, TsxType, Raise, Kept, Alike

LEMMA LowerSafe ==
  ASSUME NEW s, Good(s), NEW F
  PROVE  Safe(s, Lower(s, F)) /\ Kept(s, Lower(s, F))
<1>1. s.flags \in FlagSets
  BY DEF Good, TsxType
<1>2. s.flags \ F \in FlagSets
  BY <1>1 DEF FlagSets
<1>3. Lower(s, F) \in TsxType
  BY <1>2, ZenonT(40) DEF Good, TsxType, Lower
<1> QED
  BY <1>3, Neutral DEF Good, TsxType, Lower, Kept, Alike

(* What a step that touches the timers and the count has to show. *)
LEMMA TimersRef ==
  ASSUME NEW s, Good(s), NEW timers \in Timers, NEW n \in Int,
         NEW t, t = [s EXCEPT !.tm = timers, !.ref = n],
         n - s.ref = (Armed(t, RT) - Armed(s, RT)) + (Armed(t, TO) - Armed(s, TO))
  PROVE  Safe(s, t)
<1>1. s \in TsxType
  BY DEF Good
<1>2. [s EXCEPT !.tm = timers, !.ref = n] \in TsxType
  BY <1>1, ZenonT(40) DEF TsxType
<1>3. /\ t.ref = n /\ t.sends = s.sends
      /\ t.terminating = s.terminating /\ t.registered = s.registered
  BY <1>1 DEF TsxType
<1>4. /\ Armed(s, RT) \in Int /\ Armed(s, TO) \in Int
      /\ Armed(t, RT) \in Int /\ Armed(t, TO) \in Int
  BY DEF Armed
<1>5. s.ref \in Int /\ Cardinality(s.sends) \in Int /\ Held(s) \in Int
  BY <1>1, HeldInt DEF TsxType
<1>6. Held(t) = Held(s)
  BY <1>3, <1>4, <1>5 DEF Held, Weight
<1> QED
  BY <1>2, <1>3, <1>5, <1>6 DEF Safe, Good

(* An entry that leaves the heap takes its reference with it. *)
LEMMA CancelSafe ==
  ASSUME NEW s, Good(s), NEW e \in {RT, TO}
  PROVE  /\ Safe(s, Cancel(s, e)) /\ ~Cancel(s, e).tm[e].armed
         /\ Kept(s, Cancel(s, e))
<1> DEFINE timers == [s.tm EXCEPT ![e] = [armed |-> FALSE, id |-> Inactive]]
           n == IF s.tm[e].armed THEN s.ref - 1 ELSE s.ref
           t == [s EXCEPT !.tm = timers, !.ref = n]
<1>1. s \in TsxType /\ s.tm \in Timers /\ s.ref \in Int
  BY DEF Good, TsxType
<1>2. timers \in Timers /\ n \in Int
  BY <1>1 DEF Timers, Inactive, TransportErrTimer
<1>3. Cancel(s, e) = t
  BY <1>1 DEF TsxType, Cancel
<1>4. ~timers[e].armed /\ \A d \in {RT, TO} \ {e} : timers[d] = s.tm[d]
  BY <1>1 DEF timers, Timers
<1>5. n - s.ref = - Armed(s, e)
  BY <1>1 DEF Armed
<1> HIDE DEF timers, n
<1>6. t.tm = timers /\ Kept(s, t)
  BY <1>1 DEF TsxType, Kept
<1> HIDE DEF t
<1>7. Armed(t, e) = 0 /\ \A d \in {RT, TO} \ {e} : Armed(t, d) = Armed(s, d)
  BY <1>4, <1>6 DEF Armed
<1>8. n - s.ref = (Armed(t, RT) - Armed(s, RT)) + (Armed(t, TO) - Armed(s, TO))
  BY <1>5, <1>7 DEF Armed, RT, TO
<1>9. Safe(s, t)
  BY <1>2, <1>8, TimersRef DEF t
<1> QED
  BY <1>3, <1>4, <1>6, <1>9

(* An entry that is put into the heap brings one. *)
LEMMA ScheduleSafe ==
  ASSUME NEW s, Good(s), NEW e \in {RT, TO}, NEW i \in Inactive..TransportErrTimer
  PROVE  /\ Safe(s, Schedule(s, e, i)) /\ Schedule(s, e, i).tm[e].armed
         /\ Kept(s, Schedule(s, e, i))
<1> DEFINE timers == [s.tm EXCEPT ![e] = [armed |-> TRUE, id |-> i]]
           t == [s EXCEPT !.tm = timers, !.ref = s.ref + 1]
<1>1. s \in TsxType /\ s.tm \in Timers /\ s.ref \in Int
  BY DEF Good, TsxType
<1>a. CASE s.tm[e].armed
  BY <1>a, SafeRefl DEF Schedule, Kept
<1>b. CASE ~s.tm[e].armed
  <2>2. timers \in Timers /\ s.ref + 1 \in Int
    BY <1>1 DEF Timers, Inactive, TransportErrTimer
  <2>3. Schedule(s, e, i) = t
    BY <1>1, <1>b DEF TsxType, Schedule
  <2>4. timers[e].armed /\ \A d \in {RT, TO} \ {e} : timers[d] = s.tm[d]
    BY <1>1 DEF timers, Timers
  <2> HIDE DEF timers
  <2>6. t.tm = timers /\ Kept(s, t)
    BY <1>1 DEF TsxType, Kept
  <2> HIDE DEF t
  <2>7. /\ Armed(t, e) = 1 /\ Armed(s, e) = 0
        /\ \A d \in {RT, TO} \ {e} : Armed(t, d) = Armed(s, d)
    BY <1>b, <2>4, <2>6 DEF Armed
  <2>8. (s.ref + 1) - s.ref = (Armed(t, RT) - Armed(s, RT)) + (Armed(t, TO) - Armed(s, TO))
    BY <1>1, <2>7 DEF Armed, RT, TO
  <2>9. Safe(s, t)
    BY <2>2, <2>8, TimersRef DEF t
  <2> QED
    BY <2>3, <2>4, <2>6, <2>9
<1> QED
  BY <1>a, <1>b

LEMMA RestartSafe ==
  ASSUME NEW s, Good(s), NEW e \in {RT, TO}, NEW i \in Inactive..TransportErrTimer
  PROVE  Safe(s, Restart(s, e, i))
<1>1. Safe(s, Cancel(s, e))
  BY CancelSafe
<1>2. Safe(Cancel(s, e), Restart(s, e, i))
  BY <1>1, ScheduleSafe DEF Safe, Restart
<1> QED
  BY <1>1, <1>2, SafeTrans

LEMMA StartRetransmissionSafe ==
  ASSUME NEW s, Good(s)
  PROVE  Safe(s, StartRetransmission(s))
<1>1. RT \in {RT, TO} /\ RetransmitTimer \in Inactive..TransportErrTimer
  BY DEF RetransmitTimer, Inactive, TransportErrTimer
<1>2. "PENDING_RESCHED" \in Flags
  BY DEF Flags
<1> QED
  BY <1>1, <1>2, RaiseSafe, ScheduleSafe DEF StartRetransmission

LEMMA TellSafe ==
  ASSUME NEW s, Good(s)
  PROVE  Safe(s, Tell(s))
<1>1. s \in TsxType /\ s.heard \in FinalStates /\ s.state \in StNull..Destroyed
  BY DEF Good, TsxType
<1>a. CASE s.user /\ s.state >= Terminated /\ Len(s.heard) < 3
  <2>1. s.state \in {Terminated, Destroyed}
    BY <1>1, <1>a DEF StNull, Terminated, Destroyed
  <2>2. Append(s.heard, s.state) \in FinalStates
    BY <1>1, <2>1 DEF FinalStates
  <2> DEFINE t == [s EXCEPT !.heard = Append(s.heard, s.state)]
  <2>3. Tell(s) = t
    BY <1>1, <1>a DEF TsxType, Tell
  <2>4. t \in TsxType
    BY <1>1, <2>2, ZenonT(40) DEF TsxType
  <2>5. Alike(s, t)
    BY <1>1 DEF TsxType, Alike
  <2> QED
    BY <2>3, <2>4, <2>5, Neutral
<1>b. CASE ~(s.user /\ s.state >= Terminated /\ Len(s.heard) < 3)
  BY <1>b, SafeRefl DEF Tell
<1> QED
  BY <1>a, <1>b

(* tsx_shutdown gives back the reference of the table, once. *)
LEMMA ShutdownSafe ==
  ASSUME NEW s, Good(s), ~s.registered
  PROVE  Safe(s, Shutdown(s))
<1> DEFINE u == [s EXCEPT !.transport = "none", !.lastTx = None]
           v == Cancel(u, TO)
           bare == Cancel(v, RT)
           late == Lower(bare, {"PENDING_RESCHED", "PENDING_SEND"})
           wait == Has(s, "PENDING_TRANSPORT")
           flags == IF wait THEN late.flags \cup {"PENDING_DESTROY"} ELSE late.flags
           user == late.user /\ ~wait
           n == IF s.terminating THEN late.ref ELSE late.ref - 1
           t == [late EXCEPT !.flags = flags, !.user = user, !.terminating = TRUE, !.ref = n]
<1>1. s \in TsxType
  BY DEF Good
<1>2. Safe(s, u) /\ Kept(s, u)
  <2>1. None \in MaybeMsg
    BY DEF MaybeMsg
  <2>2. "none" \in {"none", "up", "down"}
    OBVIOUS
  <2>3. u \in TsxType
    BY <1>1, <2>1, <2>2, ZenonT(40) DEF TsxType
  <2>4. Alike(s, u) /\ Kept(s, u)
    BY <1>1 DEF TsxType, Alike, Kept
  <2> QED
    BY <2>3, <2>4, Neutral
<1> HIDE DEF u
<1>3. Safe(u, v) /\ Kept(u, v)
  BY <1>2, CancelSafe DEF Safe
<1>4. Safe(v, bare) /\ Kept(v, bare)
  BY <1>3, CancelSafe DEF Safe
<1>5. Safe(bare, late) /\ Kept(bare, late)
  BY <1>4, LowerSafe DEF Safe
<1> HIDE DEF v, bare
<1>6. Safe(s, late)
  <2>1. Good(s) /\ Good(u) /\ Good(v)
    BY <1>2, <1>3 DEF Safe
  <2>2. Safe(s, v)
    BY <1>2, <1>3, <2>1, SafeTrans
  <2>3. Safe(s, bare)
    BY <1>4, <2>1, <2>2, SafeTrans
  <2> QED
    BY <1>5, <2>1, <2>3, SafeTrans
<1>7. late.terminating = s.terminating /\ late.registered = s.registered
  BY <1>2, <1>3, <1>4, <1>5 DEF Kept
<1>8. Shutdown(s) = t
  BY DEF Shutdown, u, v, bare
<1> HIDE DEF late
<1>9. /\ late \in TsxType /\ late.flags \in FlagSets /\ late.ref \in Int
      /\ late.user \in BOOLEAN
  BY <1>6 DEF Safe, Good, TsxType
<1>10. flags \in FlagSets /\ user \in BOOLEAN /\ n \in Int /\ TRUE \in BOOLEAN
  BY <1>9 DEF FlagSets, Flags
<1>11. n = late.ref - (IF late.terminating THEN 0 ELSE 1)
  BY <1>7, <1>9
<1> HIDE DEF flags, user, n
<1>12. t \in TsxType
  BY <1>9, <1>10, ZenonT(40) DEF TsxType
<1>13. /\ t.ref = n /\ t.tm = late.tm /\ t.sends = late.sends
       /\ t.terminating = TRUE /\ t.registered = late.registered
  BY <1>9 DEF TsxType
<1>14. Held(t) = Held(late)
  <2>1. Armed(t, RT) = Armed(late, RT) /\ Armed(t, TO) = Armed(late, TO)
    BY <1>13 DEF Armed
  <2>2. Armed(late, RT) \in Int /\ Armed(late, TO) \in Int
    BY DEF Armed
  <2>3. Cardinality(late.sends) \in Int
    BY <1>6, HeldInt DEF Safe
  <2> QED
    BY <1>9, <1>10, <1>11, <1>13, <2>1, <2>2, <2>3 DEF Held, Weight
<1>15. Safe(late, t)
  BY <1>6, <1>7, <1>12, <1>13, <1>14, HeldInt DEF Safe, Good
<1> QED
  BY <1>6, <1>8, <1>15, SafeTrans

LEMMA DetachSafe ==
  ASSUME NEW s, Good(s)
  PROVE  Safe(s, Detach(s))
<1> DEFINE t == [s EXCEPT !.pendingTx = None]
<1>1. s \in TsxType
  BY DEF Good
<1>2. None \in MaybeMsg
  BY DEF MaybeMsg
<1>3. t \in TsxType
  BY <1>1, <1>2, ZenonT(40) DEF TsxType
<1>4. Alike(s, t)
  BY <1>1 DEF TsxType, Alike
<1>5. Safe(s, t)
  BY <1>3, <1>4, Neutral
<1> HIDE DEF t
<1>6. Safe(t, Lower(t, {"PENDING_TRANSPORT"}))
  BY <1>5, LowerSafe DEF Safe
<1>7. Safe(s, Lower(t, {"PENDING_TRANSPORT"}))
  BY <1>5, <1>6, SafeTrans
<1> QED
  BY <1>7, SafeRefl DEF Detach, t

LEMMA SettleSafe ==
  ASSUME NEW s, Good(s), NEW st
  PROVE  Safe(s, Settle(s, st))
<1> DEFINE t == [s EXCEPT !.registered = FALSE]
<1>1. s \in TsxType
  BY DEF Good
<1>2. Safe(s, Restart(Detach(s), TO, TimeoutTimer))
  <2>1. Safe(s, Detach(s))
    BY DetachSafe
  <2>2. TO \in {RT, TO} /\ TimeoutTimer \in Inactive..TransportErrTimer
    BY DEF TimeoutTimer, Inactive, TransportErrTimer
  <2>3. Safe(Detach(s), Restart(Detach(s), TO, TimeoutTimer))
    BY <2>1, <2>2, RestartSafe DEF Safe
  <2> QED
    BY <2>1, <2>3, SafeTrans
<1>3. Safe(s, Shutdown(t))
  <2>1. FALSE \in BOOLEAN
    OBVIOUS
  <2>2. t \in TsxType
    BY <1>1, <2>1, ZenonT(40) DEF TsxType
  <2>3. Alike(s, t) /\ ~t.registered
    BY <1>1 DEF TsxType, Alike
  <2>4. Safe(s, t)
    BY <2>2, <2>3, Neutral
  <2> HIDE DEF t
  <2>5. Safe(t, Shutdown(t))
    BY <2>3, <2>4, ShutdownSafe DEF Safe
  <2> QED
    BY <2>4, <2>5, SafeTrans
<1>4. \/ Settle(s, st) = Restart(Detach(s), TO, TimeoutTimer)
      \/ Settle(s, st) = Shutdown(t)
      \/ Settle(s, st) = s
  BY DEF Settle, Terminated, Destroyed
<1> HIDE DEF t
<1> QED
  BY <1>2, <1>3, <1>4, SafeRefl

LEMMA SetStateSafe ==
  ASSUME NEW s, Good(s), NEW st \in StNull..Destroyed
  PROVE  Safe(s, SetState(s, st))
<1> DEFINE t == [s EXCEPT !.state = st]
<1>1. s \in TsxType
  BY DEF Good
<1>2. t \in TsxType
  BY <1>1, ZenonT(40) DEF TsxType
<1>3. Alike(s, t)
  BY <1>1 DEF TsxType, Alike
<1>4. Safe(s, t)
  BY <1>2, <1>3, Neutral
<1>5. SetState(s, st) = Settle(Tell(t), st)
  BY DEF SetState
<1> HIDE DEF t
<1>6. Safe(t, Tell(t))
  BY <1>4, TellSafe DEF Safe
<1>7. Safe(s, Tell(t))
  BY <1>4, <1>6, SafeTrans
<1>8. Safe(Tell(t), Settle(Tell(t), st))
  BY <1>7, SettleSafe DEF Safe
<1> QED
  BY <1>5, <1>7, <1>8, SafeTrans

LEMMA PostTransportErrorSafe ==
  ASSUME NEW s, Good(s)
  PROVE  Safe(s, PostTransportError(s))
<1> DEFINE t == [s EXCEPT !.err = TRUE]
<1>1. s \in TsxType /\ TRUE \in BOOLEAN
  BY DEF Good
<1>2. t \in TsxType
  BY <1>1, ZenonT(40) DEF TsxType
<1>3. Alike(s, t)
  BY <1>1 DEF TsxType, Alike
<1>4. Safe(s, t)
  BY <1>2, <1>3, Neutral
<1>5. PostTransportError(s) \in {t, Restart(t, TO, TransportErrTimer)}
  BY DEF PostTransportError
<1> HIDE DEF t
<1>6. TO \in {RT, TO} /\ TransportErrTimer \in Inactive..TransportErrTimer
  BY DEF Inactive, TransportErrTimer
<1>7. Safe(t, Restart(t, TO, TransportErrTimer))
  BY <1>4, <1>6, RestartSafe DEF Safe
<1>8. Safe(s, Restart(t, TO, TransportErrTimer))
  BY <1>4, <1>7, SafeTrans
<1> QED
  BY <1>4, <1>5, <1>8
-----------------------------------------------------------------------------
(* Sending. *)

(* A send in flight has a reference of its own. *)
LEMMA InFlightSafe ==
  ASSUME NEW s, Good(s), NEW k \in {"tp", "sl"}, NEW m \in Msgs
  PROVE  Safe(s, InFlight(s, k, m))
<1> DEFINE sends == s.sends \cup {[kind |-> k, msg |-> m]}
           t == [s EXCEPT !.sends = sends]
<1>1. s \in TsxType /\ s.sends \in SendSets /\ IsFiniteSet(s.sends) /\ s.ref \in Int
  BY DEF Good, TsxType
<1>2. sends \in SendSets
  BY <1>1 DEF SendSets
<1>3. /\ IsFiniteSet(sends)
      /\ Cardinality(sends) \in {Cardinality(s.sends), Cardinality(s.sends) + 1}
  BY <1>1, FS_AddElement
<1> HIDE DEF sends
<1>4. t \in TsxType
  BY <1>1, <1>2, ZenonT(40) DEF TsxType
<1>5. /\ t.ref = s.ref /\ t.tm = s.tm /\ t.sends = sends
      /\ t.terminating = s.terminating /\ t.registered = s.registered
  BY <1>1 DEF TsxType
<1>6. Good(t)
  BY <1>3, <1>4, <1>5 DEF Good
<1>7. Held(t) >= Held(s) - 1
  <2>1. Armed(t, RT) = Armed(s, RT) /\ Armed(t, TO) = Armed(s, TO)
    BY <1>5 DEF Armed
  <2>2. Armed(s, RT) \in Int /\ Armed(s, TO) \in Int
    BY DEF Armed
  <2>3. Cardinality(s.sends) \in Int
    BY HeldInt
  <2> QED
    BY <1>1, <1>3, <1>5, <2>1, <2>2, <2>3 DEF Held, Weight
<1>8. InFlight(s, k, m) = AddRef(t)
  BY DEF InFlight, sends
<1> HIDE DEF t
<1>9. Good(AddRef(t)) /\ Held(AddRef(t)) = Held(t) + 1 /\ Held(t) \in Int /\ Held(s) \in Int
  BY <1>6, AddRefHeld, HeldInt
<1> QED
  BY <1>7, <1>8, <1>9 DEF Safe

(* Sets of outcomes are safe after a safe step. *)
LEMMA SafeAllTrans ==
  ASSUME NEW s, NEW t, NEW T, Good(s), Safe(s, t), SafeAll(t, T)
  PROVE  SafeAll(s, T)
BY SafeTrans DEF SafeAll

LEMMA SafeOutsTrans ==
  ASSUME NEW s, NEW t, NEW O, Good(s), Safe(s, t), SafeOuts(t, O)
  PROVE  SafeOuts(s, O)
BY SafeTrans DEF SafeOuts

LEMMA AcceptedSafe ==
  ASSUME NEW s, Good(s), NEW m \in Msgs
  PROVE  SafeOuts(s, Accepted(s, m))
<1> DEFINE t == Raise(s, "PENDING_TRANSPORT")
<1>1. "PENDING_TRANSPORT" \in Flags
  BY DEF Flags
<1>2. Safe(s, t)
  BY <1>1, RaiseSafe
<1> HIDE DEF t
<1>3. Safe(t, InFlight(t, "tp", m))
  BY <1>2, InFlightSafe DEF Safe
<1>4. Safe(s, InFlight(t, "tp", m)) /\ Safe(s, s)
  BY <1>2, <1>3, SafeTrans, SafeRefl
<1>5. \A o \in Accepted(s, m) : o.tsx \in {s, InFlight(t, "tp", m)}
  BY DEF Accepted, Ok, t
<1> QED
  BY <1>4, <1>5 DEF SafeOuts

LEMMA DroppedSafe ==
  ASSUME NEW s, Good(s)
  PROVE  Safe(s, Dropped(s))
<1> DEFINE t == [s EXCEPT !.transport = "none", !.resTp = FALSE]
<1>1. s \in TsxType /\ "none" \in {"none", "up", "down"} /\ FALSE \in BOOLEAN
  BY DEF Good
<1>2. t \in TsxType
  BY <1>1, ZenonT(40) DEF TsxType
<1>3. Alike(s, t)
  BY <1>1 DEF TsxType, Alike
<1>4. Safe(s, t)
  BY <1>2, <1>3, Neutral
<1>5. Dropped(s) \in {s, t}
  BY DEF Dropped
<1> QED
  BY <1>4, <1>5, SafeRefl

LEMMA SendResolvedSafe ==
  ASSUME NEW s, Good(s), NEW m \in Msgs
  PROVE  SafeOuts(s, SendResolved(s, m))
<1> DEFINE d == Dropped(s)
           t == [d EXCEPT !.code = TransportError]
<1>1. Safe(s, d)
  BY DroppedSafe
<1> HIDE DEF d
<1>2. d \in TsxType /\ TransportError \in 0..699
  BY <1>1 DEF Safe, Good, TransportError
<1>3. t \in TsxType
  BY <1>2, ZenonT(40) DEF TsxType
<1>4. Alike(d, t)
  BY <1>2 DEF TsxType, Alike
<1>5. Safe(d, t)
  BY <1>1, <1>3, <1>4, Neutral DEF Safe
<1> HIDE DEF t
<1>6. Safe(s, t)
  BY <1>1, <1>5, SafeTrans
<1>7. Terminated \in StNull..Destroyed
  BY DEF Terminated, StNull, Destroyed
<1>8. Safe(t, SetState(t, Terminated))
  BY <1>6, <1>7, SetStateSafe DEF Safe
<1>9. Safe(s, SetState(t, Terminated))
  BY <1>6, <1>8, SafeTrans
<1>10. SafeOuts(s, Accepted(s, m))
  BY AcceptedSafe
<1>11. SendResolved(s, m) = Accepted(s, m) \cup {Fail(SetState(t, Terminated))}
  BY DEF SendResolved, t, d
<1>12. Fail(SetState(t, Terminated)).tsx = SetState(t, Terminated)
  BY DEF Fail
<1> QED
  BY <1>9, <1>10, <1>11, <1>12 DEF SafeOuts

LEMMA AdoptTransportSafe ==
  ASSUME NEW s, Good(s)
  PROVE  SafeAll(s, AdoptTransport(s))
<1>1. s \in TsxType /\ s.reliable \in BOOLEAN
  BY DEF Good, TsxType
<1> DEFINE Kind == IF s.role = "UAC" THEN BOOLEAN ELSE {s.reliable}
           up(r) == [s EXCEPT !.transport = "up", !.reliable = r]
           p == PostTransportError(s)
           down(r) == [p EXCEPT !.transport = "down", !.reliable = r]
<1>2. Kind \subseteq BOOLEAN
  BY <1>1
<1> HIDE DEF Kind
<1>3. \A r \in BOOLEAN : Safe(s, up(r))
  <2> TAKE r \in BOOLEAN
  <2>1. "up" \in {"none", "up", "down"}
    OBVIOUS
  <2>2. up(r) \in TsxType
    BY <1>1, <2>1, ZenonT(40) DEF TsxType
  <2>3. Alike(s, up(r))
    BY <1>1 DEF TsxType, Alike
  <2> QED
    BY <2>2, <2>3, Neutral
<1>4. Safe(s, p)
  BY PostTransportErrorSafe
<1>5. \A r \in BOOLEAN : Safe(s, down(r))
  <2> HIDE DEF p
  <2> TAKE r \in BOOLEAN
  <2>1. "down" \in {"none", "up", "down"} /\ p \in TsxType
    BY <1>4 DEF Safe, Good
  <2>2. down(r) \in TsxType
    BY <2>1, ZenonT(40) DEF TsxType
  <2>3. Alike(p, down(r))
    BY <2>1 DEF TsxType, Alike
  <2>4. Safe(p, down(r))
    BY <1>4, <2>2, <2>3, Neutral DEF Safe
  <2> QED
    BY <1>4, <2>4, SafeTrans
<1>6. AdoptTransport(s) = (IF s.transport = "none" THEN {} ELSE {s})
         \cup {up(r) : r \in Kind} \cup {down(r) : r \in Kind}
  BY DEF AdoptTransport, Kind
<1> HIDE DEF up, down
<1>7. Safe(s, s)
  BY SafeRefl
<1> QED
  BY <1>2, <1>3, <1>5, <1>6, <1>7 DEF SafeAll

LEMMA SendDeferredSafe ==
  ASSUME NEW s, Good(s)
  PROVE  SafeAll(s, SendDeferred(s))
<1> DEFINE c == Lower(s, {"PENDING_SEND"})
<1>1. Safe(s, c) /\ Safe(s, s)
  BY LowerSafe, SafeRefl
<1>2. CASE ~Has(s, "PENDING_SEND")
  BY <1>1, <1>2 DEF SendDeferred, SafeAll
<1>3. CASE Has(s, "PENDING_SEND") /\ (s.lastTx = None \/ IsPending(s, s.lastTx))
  BY <1>1, <1>3 DEF SendDeferred, SafeAll
<1>4. CASE Has(s, "PENDING_SEND") /\ ~(s.lastTx = None \/ IsPending(s, s.lastTx))
  <2>1. s.lastTx \in Msgs
    BY <1>4 DEF Good, TsxType, MaybeMsg
  <2>2. SendDeferred(s) = {o.tsx : o \in SendResolved(c, s.lastTx)}
    BY <1>4 DEF SendDeferred
  <2> HIDE DEF c
  <2>3. SafeOuts(c, SendResolved(c, s.lastTx))
    BY <1>1, <2>1, SendResolvedSafe DEF Safe
  <2>4. SafeOuts(s, SendResolved(c, s.lastTx))
    BY <1>1, <2>3, SafeOutsTrans
  <2> QED
    BY <2>2, <2>4 DEF SafeAll, SafeOuts
<1> QED
  BY <1>2, <1>3, <1>4

LEMMA ReschedDeferredSafe ==
  ASSUME NEW s, Good(s)
  PROVE  Safe(s, ReschedDeferred(s))
<1> DEFINE c == Lower(s, {"PENDING_RESCHED"})
<1>1. Safe(s, c) /\ Safe(s, s)
  BY LowerSafe, SafeRefl
<1>2. ReschedDeferred(s) \in {s, c, Schedule(c, RT, RetransmitTimer)}
  BY DEF ReschedDeferred
<1>3. RT \in {RT, TO} /\ RetransmitTimer \in Inactive..TransportErrTimer
  BY DEF RetransmitTimer, Inactive, TransportErrTimer
<1> HIDE DEF c
<1>4. Safe(c, Schedule(c, RT, RetransmitTimer))
  BY <1>1, <1>3, ScheduleSafe DEF Safe
<1>5. Safe(s, Schedule(c, RT, RetransmitTimer))
  BY <1>1, <1>4, SafeTrans
<1> QED
  BY <1>1, <1>2, <1>5

(* send_msg_callback gives back the reference of the send. *)
LEMMA DeliveredSafe ==
  ASSUME NEW s, Good(s)
  PROVE  SafeAll(DecRef(s), Delivered(s))
<1> DEFINE d == DecRef(s)
           b == [d EXCEPT !.pendingTx = None]
           Done(a) == Raise(Lower(a, {"PENDING_TRANSPORT"}), "RESOLVED_SERVER")
           After(a) == IF Has(a, "PENDING_DESTROY")
                         THEN {SetState(a, Destroyed)}
                         ELSE {ReschedDeferred(e) : e \in SendDeferred(a)}
<1>1. Good(d)
  BY DecRefHeld
<1>2. Delivered(s) = UNION {After(Done(a)) : a \in AdoptTransport(b)}
  BY DEF Delivered
<1> HIDE DEF d
<1>3. Safe(d, b)
  <2>1. d \in TsxType /\ None \in MaybeMsg
    BY <1>1 DEF Good, MaybeMsg
  <2>2. b \in TsxType
    BY <2>1, ZenonT(40) DEF TsxType
  <2>3. Alike(d, b)
    BY <2>1 DEF TsxType, Alike
  <2> QED
    BY <1>1, <2>2, <2>3, Neutral
<1> HIDE DEF b
<1>4. SafeAll(d, AdoptTransport(b))
  BY <1>1, <1>3, AdoptTransportSafe, SafeAllTrans DEF Safe
<1>5. ASSUME NEW a, Good(a) PROVE Safe(a, Done(a))
  <2>1. Safe(a, Lower(a, {"PENDING_TRANSPORT"}))
    BY <1>5, LowerSafe
  <2>2. "RESOLVED_SERVER" \in Flags
    BY DEF Flags
  <2>3. Safe(Lower(a, {"PENDING_TRANSPORT"}), Done(a))
    BY <2>1, <2>2, RaiseSafe DEF Safe
  <2> QED
    BY <1>5, <2>1, <2>3, SafeTrans
<1>6. ASSUME NEW a, Good(a) PROVE SafeAll(a, After(a))
  <2>1. Destroyed \in StNull..Destroyed
    BY DEF StNull, Destroyed
  <2>2. Safe(a, SetState(a, Destroyed))
    BY <1>6, <2>1, SetStateSafe
  <2>3. SafeAll(a, SendDeferred(a))
    BY <1>6, SendDeferredSafe
  <2>4. \A e \in SendDeferred(a) : Safe(a, ReschedDeferred(e))
    <3> TAKE e \in SendDeferred(a)
    <3>1. Safe(a, e)
      BY <2>3 DEF SafeAll
    <3>2. Safe(e, ReschedDeferred(e))
      BY <3>1, ReschedDeferredSafe DEF Safe
    <3> QED
      BY <1>6, <3>1, <3>2, SafeTrans
  <2> QED
    BY <2>2, <2>4 DEF SafeAll
<1> HIDE DEF Done, After
<1>7. ASSUME NEW a \in AdoptTransport(b) PROVE SafeAll(d, After(Done(a)))
  <2>1. Safe(d, a)
    BY <1>4, <1>7 DEF SafeAll
  <2>2. Safe(a, Done(a))
    BY <2>1, <1>5 DEF Safe
  <2>3. Safe(d, Done(a))
    BY <1>1, <2>1, <2>2, SafeTrans
  <2>4. SafeAll(Done(a), After(Done(a)))
    BY <2>3, <1>6 DEF Safe
  <2> QED
    BY <1>1, <2>3, <2>4, SafeAllTrans
<1> QED
  BY <1>2, <1>7 DEF SafeAll, d

LEMMA GiveUpSafe ==
  ASSUME NEW s, Good(s)
  PROVE  Safe(s, GiveUp(s))
<1> DEFINE r == Raise(Lower(s, {"PENDING_TRANSPORT"}), "RESOLVED_SERVER")
           g == [r EXCEPT !.err = TRUE, !.code = TransportError]
<1>1. Safe(s, r)
  <2>1. Safe(s, Lower(s, {"PENDING_TRANSPORT"})) /\ "RESOLVED_SERVER" \in Flags
    BY LowerSafe DEF Flags
  <2>2. Safe(Lower(s, {"PENDING_TRANSPORT"}), r)
    BY <2>1, RaiseSafe DEF Safe
  <2> QED
    BY <2>1, <2>2, SafeTrans
<1> HIDE DEF r
<1>2. r \in TsxType /\ TransportError \in 0..699 /\ TRUE \in BOOLEAN
  BY <1>1 DEF Safe, Good, TransportError
<1>3. g \in TsxType
  BY <1>2, ZenonT(40) DEF TsxType
<1>4. Alike(r, g)
  BY <1>2 DEF TsxType, Alike
<1>5. Safe(r, g)
  BY <1>1, <1>3, <1>4, Neutral DEF Safe
<1>6. Safe(s, g)
  BY <1>1, <1>5, SafeTrans
<1>7. GiveUp(s) \in {g, SetState(g, Terminated), SetState(g, Destroyed)}
  BY DEF GiveUp, r
<1> HIDE DEF g
<1>8. Terminated \in StNull..Destroyed /\ Destroyed \in StNull..Destroyed
  BY DEF Terminated, StNull, Destroyed
<1>9. Safe(g, SetState(g, Terminated)) /\ Safe(g, SetState(g, Destroyed))
  BY <1>6, <1>8, SetStateSafe DEF Safe
<1>10. Safe(s, SetState(g, Terminated)) /\ Safe(s, SetState(g, Destroyed))
  BY <1>6, <1>9, SafeTrans
<1> QED
  BY <1>6, <1>7, <1>10

LEMMA NextAddressSafe ==
  ASSUME NEW s, Good(s), NEW m \in Msgs, s.alt # 0
  PROVE  Safe(s, NextAddress(s, m))
<1> DEFINE f == InFlight(s, "sl", m)
           a == [f EXCEPT !.pendingTx = m, !.alt = f.alt - 1]
<1>1. Safe(s, f)
  BY InFlightSafe
<1>2. f.alt = s.alt
  BY DEF InFlight, AddRef, Good, TsxType
<1> HIDE DEF f
<1>3. f \in TsxType /\ m \in MaybeMsg /\ f.alt - 1 \in Nat
  BY <1>1, <1>2 DEF Safe, Good, TsxType, MaybeMsg
<1>4. a \in TsxType
  BY <1>3, ZenonT(40) DEF TsxType
<1>5. Alike(f, a)
  BY <1>3 DEF TsxType, Alike
<1>6. Safe(f, a)
  BY <1>1, <1>4, <1>5, Neutral DEF Safe
<1>7. Safe(s, a)
  BY <1>1, <1>6, SafeTrans
<1>8. NextAddress(s, m) \in {a, Restart(a, TO, TimeoutTimer)}
  BY DEF NextAddress, f
<1> HIDE DEF a
<1>9. TO \in {RT, TO} /\ TimeoutTimer \in Inactive..TransportErrTimer
  BY DEF TimeoutTimer, Inactive, TransportErrTimer
<1>10. Safe(a, Restart(a, TO, TimeoutTimer))
  BY <1>7, <1>9, RestartSafe DEF Safe
<1>11. Safe(s, Restart(a, TO, TimeoutTimer))
  BY <1>7, <1>10, SafeTrans
<1> QED
  BY <1>7, <1>8, <1>11

LEMMA UndeliveredSafe ==
  ASSUME NEW s, Good(s), NEW m \in Msgs
  PROVE  SafeAll(DecRef(s), Undelivered(s, m))
<1> DEFINE d == DecRef(s)
           b == [d EXCEPT !.pendingTx = None]
           c == [b EXCEPT !.transport = "none"]
<1>1. Good(d) /\ d.alt = s.alt
  BY DecRefHeld, ZenonT(40) DEF DecRef, Good, TsxType
<1>2. Undelivered(s, m) =
        {GiveUp(a) : a \in {b, c}}
          \cup (IF s.alt = 0 \/ Has(s, "PENDING_DESTROY") THEN {}
                ELSE {NextAddress(a, m) : a \in {b, c}})
  BY DEF Undelivered
<1> HIDE DEF d
<1>3. d \in TsxType /\ None \in MaybeMsg /\ "none" \in {"none", "up", "down"}
  BY <1>1 DEF Good, MaybeMsg
<1>4. b \in TsxType /\ b.alt = d.alt /\ Alike(d, b)
  <2>1. b \in TsxType
    BY <1>3, ZenonT(40) DEF TsxType
  <2>2. b.alt = d.alt /\ Alike(d, b)
    BY <1>3 DEF TsxType, Alike
  <2> QED
    BY <2>1, <2>2
<1>5. Safe(d, b)
  BY <1>1, <1>4, Neutral
<1> HIDE DEF b
<1>6. c \in TsxType /\ c.alt = d.alt /\ Alike(b, c)
  <2>1. c \in TsxType
    BY <1>3, <1>4, ZenonT(40) DEF TsxType
  <2>2. c.alt = b.alt /\ Alike(b, c)
    BY <1>4 DEF TsxType, Alike
  <2> QED
    BY <1>4, <2>1, <2>2
<1>7. Safe(d, c)
  <2>1. Safe(b, c)
    BY <1>5, <1>6, Neutral DEF Safe
  <2> QED
    BY <1>1, <1>5, <2>1, SafeTrans
<1> HIDE DEF c
<1>8. \A a \in {b, c} : Safe(d, GiveUp(a))
  <2> TAKE a \in {b, c}
  <2>1. Safe(d, a)
    BY <1>5, <1>7
  <2>2. Safe(a, GiveUp(a))
    BY <2>1, GiveUpSafe DEF Safe
  <2> QED
    BY <1>1, <2>1, <2>2, SafeTrans
<1>9. ASSUME s.alt # 0 PROVE \A a \in {b, c} : Safe(d, NextAddress(a, m))
  <2> TAKE a \in {b, c}
  <2>1. Safe(d, a) /\ a.alt # 0
    BY <1>1, <1>4, <1>5, <1>6, <1>7, <1>9
  <2>2. Safe(a, NextAddress(a, m))
    BY <2>1, NextAddressSafe DEF Safe
  <2> QED
    BY <1>1, <2>1, <2>2, SafeTrans
<1> QED
  BY <1>2, <1>8, <1>9 DEF SafeAll, d

LEMMA SendStatelessSafe ==
  ASSUME NEW s, Good(s), NEW m \in Msgs
  PROVE  SafeOuts(s, SendStateless(s, m))
<1> DEFINE p == [s EXCEPT !.pendingTx = m]
           r == Raise(p, "PENDING_TRANSPORT")
           a == AddRef(r)
           i == InFlight(r, "sl", m)
           inline == Delivered(a) \cup (IF s.resTp THEN {} ELSE Undelivered(a, m))
           n == [a EXCEPT !.pendingTx = None]
<1>1. s \in TsxType /\ m \in MaybeMsg /\ None \in MaybeMsg
  BY DEF Good, MaybeMsg
<1>2. Safe(s, p)
  <2>1. p \in TsxType
    BY <1>1, ZenonT(40) DEF TsxType
  <2>2. Alike(s, p)
    BY <1>1 DEF TsxType, Alike
  <2> QED
    BY <2>1, <2>2, Neutral
<1>3. SendStateless(s, m) =
        {Ok([a EXCEPT !.sends = @ \cup {[kind |-> "sl", msg |-> m]}])}
          \cup {IF e.state = Terminated /\ e.err THEN Fail(e) ELSE Ok(e) : e \in inline}
          \cup (IF s.resTp THEN {Fail(n)} ELSE {})
  BY DEF SendStateless
<1> HIDE DEF p
<1>4. Safe(s, r)
  <2>1. "PENDING_TRANSPORT" \in Flags
    BY DEF Flags
  <2>2. Safe(p, r)
    BY <1>2, <2>1, RaiseSafe DEF Safe
  <2> QED
    BY <1>2, <2>2, SafeTrans
<1> HIDE DEF r
<1>5. [a EXCEPT !.sends = @ \cup {[kind |-> "sl", msg |-> m]}] = i
  BY <1>4, ZenonT(40) DEF InFlight, AddRef, Safe, Good, TsxType
<1>6. Safe(s, i)
  <2>1. Safe(r, i)
    BY <1>4, InFlightSafe DEF Safe
  <2> QED
    BY <1>4, <2>1, SafeTrans
<1> HIDE DEF i
<1>7. Good(a) /\ Held(a) = Held(r) + 1 /\ Held(r) \in Int /\ Held(s) \in Int
      /\ Held(r) >= Held(s)
  BY <1>4, AddRefHeld, HeldInt DEF Safe
<1> HIDE DEF a
<1>8. Safe(s, DecRef(a))
  BY <1>7, DecRefHeld DEF Safe
<1>9. SafeAll(s, inline)
  <2>1. SafeAll(s, Delivered(a))
    BY <1>7, <1>8, DeliveredSafe, SafeAllTrans
  <2>2. SafeAll(s, Undelivered(a, m))
    BY <1>7, <1>8, UndeliveredSafe, SafeAllTrans
  <2> QED
    BY <2>1, <2>2 DEF SafeAll
<1> HIDE DEF inline
<1>10. Safe(s, n)
  <2>1. a \in TsxType
    BY <1>7 DEF Good
  <2>2. n \in TsxType
    BY <1>1, <2>1, ZenonT(40) DEF TsxType
  <2>3. Alike(a, n)
    BY <2>1 DEF TsxType, Alike
  <2>4. Safe(a, n)
    BY <1>7, <2>2, <2>3, Neutral
  <2> QED
    BY <1>7, <2>4, HeldInt DEF Safe
<1> HIDE DEF n
<1>11. \A o \in SendStateless(s, m) : o.tsx = i \/ o.tsx \in inline \/ o.tsx = n
  BY <1>3, <1>5 DEF Ok, Fail
<1> QED
  BY <1>6, <1>9, <1>10, <1>11 DEF SafeOuts, SafeAll

LEMMA SendMsgSafe ==
  ASSUME NEW s, Good(s), NEW m \in Msgs
  PROVE  SafeOuts(s, SendMsg(s, m))
<1>1. Safe(s, s) /\ Safe(s, Raise(s, "PENDING_SEND"))
  BY SafeRefl, RaiseSafe DEF Flags
<1>2. SafeOuts(s, SendResolved(s, m)) /\ SafeOuts(s, Accepted(s, m))
  BY SendResolvedSafe, AcceptedSafe
<1>3. SafeOuts(s, SendStateless(Dropped(s), m))
  <2>1. Safe(s, Dropped(s))
    BY DroppedSafe
  <2>2. SafeOuts(Dropped(s), SendStateless(Dropped(s), m))
    BY <2>1, SendStatelessSafe DEF Safe
  <2> QED
    BY <2>1, <2>2, SafeOutsTrans
<1> QED
  BY <1>1, <1>2, <1>3 DEF SendMsg, SafeOuts, Ok

LEMMA RetransmitSafe ==
  ASSUME NEW s, Good(s), NEW resched \in BOOLEAN
  PROVE  SafeAll(s, Retransmit(s, resched))
<1> DEFINE t == IF resched THEN StartRetransmission(s) ELSE s
<1>1. Safe(s, s) /\ Safe(s, t)
  BY SafeRefl, StartRetransmissionSafe
<1>2. CASE (resched /\ s.tm[RT].armed) \/ s.lastTx = None
  BY <1>1, <1>2 DEF Retransmit, SafeAll
<1>3. CASE ~((resched /\ s.tm[RT].armed) \/ s.lastTx = None)
  <2>1. s.lastTx \in Msgs
    BY <1>3 DEF Good, TsxType, MaybeMsg
  <2>2. Retransmit(s, resched) = {o.tsx : o \in SendMsg(t, s.lastTx)}
    BY <1>3 DEF Retransmit
  <2> HIDE DEF t
  <2>3. SafeOuts(t, SendMsg(t, s.lastTx))
    BY <1>1, <2>1, SendMsgSafe DEF Safe
  <2>4. SafeOuts(s, SendMsg(t, s.lastTx))
    BY <1>1, <2>3, SafeOutsTrans
  <2> QED
    BY <2>2, <2>4 DEF SafeAll, SafeOuts
<1> QED
  BY <1>2, <1>3

-----------------------------------------------------------------------------
(* State handlers.  They are chains of the operators above. *)
LEMMA Ids ==
  /\ RT \in {RT, TO} /\ TO \in {RT, TO}
  /\ RetransmitTimer \in Inactive..TransportErrTimer
  /\ TimeoutTimer \in Inactive..TransportErrTimer
BY DEF RetransmitTimer, TimeoutTimer, Inactive, TransportErrTimer

LEMMA States ==
  {StNull, Calling, Trying, Proceeding, Completed, Confirmed, Terminated, Destroyed}
    \subseteq StNull..Destroyed
BY DEF StNull, Calling, Trying, Proceeding, Completed, Confirmed, Terminated, Destroyed

(* One more link of a chain. *)
LEMMA Then ==
  ASSUME NEW s, Good(s), NEW t, Safe(s, t)
  PROVE  /\ \A e \in {RT, TO} : Safe(s, Cancel(t, e))
         /\ \A e \in {RT, TO}, i \in Inactive..TransportErrTimer :
              Safe(s, Schedule(t, e, i)) /\ Safe(s, Restart(t, e, i))
         /\ \A F : Safe(s, Lower(t, F))
         /\ Safe(s, StartRetransmission(t))
         /\ \A st \in StNull..Destroyed : Safe(s, SetState(t, st))
         /\ \A st \in StNull..Destroyed : Safe(s, [t EXCEPT !.state = st])
         /\ \A c \in 0..699 : Safe(s, [t EXCEPT !.code = c])
         /\ \A m \in MaybeMsg : Safe(s, [t EXCEPT !.lastTx = m])
<1>1. Good(t) /\ t \in TsxType
  BY DEF Safe, Good
<1>2. \A e \in {RT, TO} : Safe(s, Cancel(t, e))
  BY <1>1, CancelSafe, SafeTrans
<1>3. \A e \in {RT, TO}, i \in Inactive..TransportErrTimer :
        Safe(s, Schedule(t, e, i)) /\ Safe(s, Restart(t, e, i))
  BY <1>1, ScheduleSafe, RestartSafe, SafeTrans
<1>4. \A F : Safe(s, Lower(t, F))
  BY <1>1, LowerSafe, SafeTrans
<1>5. Safe(s, StartRetransmission(t))
  BY <1>1, StartRetransmissionSafe, SafeTrans
<1>6. \A st \in StNull..Destroyed : Safe(s, SetState(t, st))
  BY <1>1, SetStateSafe, SafeTrans
<1>7. ASSUME NEW st \in StNull..Destroyed PROVE Safe(s, [t EXCEPT !.state = st])
  <2>1. [t EXCEPT !.state = st] \in TsxType
    BY <1>1, ZenonT(40) DEF TsxType
  <2>2. Alike(t, [t EXCEPT !.state = st])
    BY <1>1 DEF TsxType, Alike
  <2> QED
    BY <1>1, <2>1, <2>2, Neutral, SafeTrans
<1>8. ASSUME NEW c \in 0..699 PROVE Safe(s, [t EXCEPT !.code = c])
  <2>1. [t EXCEPT !.code = c] \in TsxType
    BY <1>1, ZenonT(40) DEF TsxType
  <2>2. Alike(t, [t EXCEPT !.code = c])
    BY <1>1 DEF TsxType, Alike
  <2> QED
    BY <1>1, <2>1, <2>2, Neutral, SafeTrans
<1>9. ASSUME NEW m \in MaybeMsg PROVE Safe(s, [t EXCEPT !.lastTx = m])
  <2>1. [t EXCEPT !.lastTx = m] \in TsxType
    BY <1>1, ZenonT(40) DEF TsxType
  <2>2. Alike(t, [t EXCEPT !.lastTx = m])
    BY <1>1 DEF TsxType, Alike
  <2> QED
    BY <1>1, <2>1, <2>2, Neutral, SafeTrans
<1> QED
  BY <1>2, <1>3, <1>4, <1>5, <1>6, <1>7, <1>8, <1>9

LEMMA CodeRange == ASSUME NEW c \in Codes PROVE c \in 100..699 /\ c \in Msgs /\ c \in MaybeMsg
BY CodesAssumption DEF Msgs, MaybeMsg

LEMMA LeaveCallingSafe ==
  ASSUME NEW s, Good(s), NEW c
  PROVE  Safe(s, LeaveCalling(s, c))
<1> DEFINE r == Lower(Cancel(s, RT), {"PENDING_RESCHED"})
<1>1. Safe(s, r)
  <2>1. Safe(s, Cancel(s, RT))
    BY Ids, CancelSafe
  <2> QED
    BY <2>1, Then
<1>2. LeaveCalling(s, c) \in {r, Cancel(r, TO), Schedule(r, RT, RetransmitTimer)}
  BY DEF LeaveCalling
<1> HIDE DEF r
<1>3. Safe(s, Cancel(r, TO)) /\ Safe(s, Schedule(r, RT, RetransmitTimer))
  BY <1>1, Ids, Then, ZenonT(40)
<1> QED
  BY <1>1, <1>2, <1>3

LEMMA OnResponseSafe ==
  ASSUME NEW s, Good(s), NEW c \in Msgs
  PROVE  SafeOuts(s, OnResponse(s, c))
<1> DEFINE l == IF s.state = Calling THEN LeaveCalling(s, c) ELSE s
           r == [l EXCEPT !.code = c]
           quiet == Cancel(Cancel(r, RT), TO)
<1>1. Safe(s, l)
  BY LeaveCallingSafe, SafeRefl
<1>2. c \in 0..699
  BY CodesAssumption DEF Msgs, Request, Ack
<1>3. \/ OnResponse(s, c) = {Fail(SetState(r, Proceeding))}
      \/ OnResponse(s, c) = {Fail(SetState(Cancel(r, TO), Terminated))}
      \/ OnResponse(s, c) = {Ok(Cancel(r, TO))}
      \/ OnResponse(s, c) = {Ok(quiet)}
      \/ OnResponse(s, c) = SendMsg(quiet, Ack)
  BY DEF OnResponse
<1> HIDE DEF l
<1>4. Safe(s, r)
  BY <1>1, <1>2, Then, ZenonT(40)
<1> HIDE DEF r
<1>5. Safe(s, SetState(r, Proceeding)) /\ Safe(s, Cancel(r, TO)) /\ Safe(s, Cancel(r, RT))
  <2>1. Safe(s, SetState(r, Proceeding))
    BY <1>4, States, Then
  <2>2. Safe(s, Cancel(r, TO)) /\ Safe(s, Cancel(r, RT))
    BY <1>4, Ids, Then, ZenonT(40)
  <2> QED
    BY <2>1, <2>2
<1>6. Safe(s, quiet) /\ Safe(s, SetState(Cancel(r, TO), Terminated))
  BY <1>5, Ids, States, Then, ZenonT(40)
<1> HIDE DEF quiet
<1>7. SafeOuts(s, SendMsg(quiet, Ack))
  <2>1. Ack \in Msgs
    BY DEF Msgs
  <2>2. SafeOuts(quiet, SendMsg(quiet, Ack))
    BY <1>6, <2>1, SendMsgSafe DEF Safe
  <2> QED
    BY <1>6, <2>2, SafeOutsTrans
<1> QED
  BY <1>3, <1>5, <1>6, <1>7 DEF SafeOuts, Ok, Fail

LEMMA CompleteSafe ==
  ASSUME NEW s, Good(s), NEW c
  PROVE  Safe(s, Complete(s, c))
<1> DEFINE q == SetState(s, Completed)
           m == IF s.invite THEN Ack ELSE q.lastTx
           a == [q EXCEPT !.lastTx = m]
           b == Schedule(s, TO, TimeoutTimer)
<1>1. Safe(s, s)
  BY SafeRefl
<1>2. Safe(s, q) /\ Safe(s, b)
  BY <1>1, Ids, States, Then, ZenonT(40)
<1>3. m \in MaybeMsg
  BY <1>2 DEF Safe, Good, TsxType, MaybeMsg, Msgs
<1>4. Safe(s, a)
  BY <1>2, <1>3, Then, ZenonT(40)
<1>5. Safe(s, Restart(a, TO, TimeoutTimer)) /\ Safe(s, Cancel(b, RT))
  BY <1>2, <1>4, Ids, Then, ZenonT(40)
<1>6. Safe(s, SetState(Cancel(b, RT), Completed))
  BY <1>5, States, Then
<1>7. Complete(s, c) \in {SetState(Cancel(b, RT), Completed), Restart(a, TO, TimeoutTimer)}
  BY DEF Complete
<1> QED
  BY <1>5, <1>6, <1>7

LEMMA OnLateResponseSafe ==
  ASSUME NEW s, Good(s), NEW c
  PROVE  SafeAll(s, OnLateResponse(s, c))
<1>1. SafeAll(s, Retransmit(s, FALSE)) /\ SafeAll(s, {s})
  BY RetransmitSafe, SafeRefl DEF SafeAll
<1> QED
  BY <1>1 DEF OnLateResponse

LEMMA OnRequestSafe ==
  ASSUME NEW s, Good(s), NEW m
  PROVE  SafeAll(s, OnRequest(s, m))
<1> DEFINE a == Lower(Cancel(s, RT), {"PENDING_RESCHED"})
<1>1. Safe(s, s)
  BY SafeRefl
<1>2. Safe(s, SetState(s, Trying)) /\ Safe(s, Cancel(s, RT))
  BY <1>1, Ids, States, Then, ZenonT(40)
<1>3. Safe(s, a)
  BY <1>2, Then
<1>4. Safe(s, Restart(a, TO, TimeoutTimer))
  BY <1>3, Ids, Then, ZenonT(40)
<1>5. Safe(s, OnAck(s))
  BY <1>4, States, Then DEF OnAck
<1>6. SafeAll(s, Retransmit(s, FALSE))
  BY RetransmitSafe
<1>7. ASSUME s.lastTx # None PROVE SafeAll(s, {o.tsx : o \in SendMsg(s, s.lastTx)})
  <2>1. s.lastTx \in Msgs
    BY <1>7 DEF Good, TsxType, MaybeMsg
  <2> QED
    BY <2>1, SendMsgSafe DEF SafeAll, SafeOuts
<1> DEFINE T == OnRequest(s, m)
           Stay == {s}
           Try == {SetState(s, Trying)}
           Answer == {o.tsx : o \in SendMsg(s, s.lastTx)}
           Again == Retransmit(s, FALSE)
           Confirm == {OnAck(s)}
<1>8. T = CASE s.state = StNull -> Try
            [] s.state = Proceeding /\ s.lastTx # None -> Answer
            [] s.state = Completed /\ m = Request -> Again
            [] s.state = Completed /\ m = Ack /\ s.invite -> Confirm
            [] OTHER -> Stay
  BY Zenon DEF OnRequest
<1>9. /\ SafeAll(s, Stay) /\ SafeAll(s, Try) /\ SafeAll(s, Again) /\ SafeAll(s, Confirm)
      /\ s.lastTx # None => SafeAll(s, Answer)
  BY <1>1, <1>2, <1>5, <1>6, <1>7 DEF SafeAll
<1> HIDE DEF T, Stay, Try, Answer, Again, Confirm
<1>10. T \in {Stay, Try, Again, Confirm} \/ (s.lastTx # None /\ T = Answer)
  BY <1>8
<1>11. SafeAll(s, T)
  BY <1>9, <1>10
<1> QED
  BY <1>11 DEF T

LEMMA OnSendRequestSafe ==
  ASSUME NEW s, Good(s)
  PROVE  SafeAll(s, OnSendRequest(s))
<1> DEFINE q == [s EXCEPT !.lastTx = Request]
           t(o) == Restart(o.tsx, TO, TimeoutTimer)
           u(o) == IF t(o).reliable THEN t(o) ELSE StartRetransmission(t(o))
<1>1. Safe(s, s) /\ Request \in Msgs /\ Request \in MaybeMsg
  BY SafeRefl DEF Msgs, MaybeMsg
<1>2. Safe(s, q)
  BY <1>1, Then
<1>3. OnSendRequest(s) =
        {IF o.ok THEN SetState(u(o), Calling) ELSE o.tsx : o \in SendMsg(q, Request)}
  BY DEF OnSendRequest
<1> HIDE DEF q
<1>4. SafeOuts(s, SendMsg(q, Request))
  <2>1. SafeOuts(q, SendMsg(q, Request))
    BY <1>1, <1>2, SendMsgSafe DEF Safe
  <2> QED
    BY <1>2, <2>1, SafeOutsTrans
<1>5. ASSUME NEW o \in SendMsg(q, Request)
      PROVE  Safe(s, SetState(u(o), Calling)) /\ Safe(s, o.tsx)
  <2>1. Safe(s, o.tsx)
    BY <1>4 DEF SafeOuts
  <2>2. Safe(s, t(o))
    BY <2>1, Ids, Then
  <2> HIDE DEF t
  <2>3. Safe(s, u(o))
    BY <2>2, Then
  <2> HIDE DEF u
  <2> QED
    BY <2>1, <2>3, States, Then
<1> QED
  BY <1>3, <1>5 DEF SafeAll

LEMMA AfterProvisionalSafe ==
  ASSUME NEW s, Good(s), NEW c \in Codes
  PROVE  Safe(s, AfterProvisional(s, c))
<1> DEFINE l == [s EXCEPT !.lastTx = c]
           p == SetState(l, Proceeding)
<1>1. Safe(s, s) /\ c \in MaybeMsg
  BY SafeRefl, CodeRange
<1>2. Safe(s, l)
  BY <1>1, Then
<1>3. AfterProvisional(s, c) \in {p, StartRetransmission(Cancel(p, RT))}
  BY DEF AfterProvisional
<1> HIDE DEF l
<1>4. Safe(s, p)
  BY <1>2, States, Then
<1> HIDE DEF p
<1>5. Safe(s, Cancel(p, RT))
  BY <1>4, Ids, Then
<1>6. Safe(s, StartRetransmission(Cancel(p, RT)))
  BY <1>5, Then
<1> QED
  BY <1>3, <1>4, <1>6

LEMMA AfterFinalSafe ==
  ASSUME NEW s, Good(s), NEW c \in Codes
  PROVE  Safe(s, AfterFinal(s, c))
<1> DEFINE q == Cancel(s, RT)
           retransmits == s.invite /\ (s.code < 300 \/ ~s.reliable)
           r == IF retransmits THEN StartRetransmission(q) ELSE q
           saved == [r EXCEPT !.lastTx = c]
<1>1. Safe(s, s) /\ c \in MaybeMsg
  BY SafeRefl, CodeRange
<1>2. Safe(s, q)
  BY <1>1, Ids, Then
<1>3. AfterFinal(s, c) \in
        {SetState(q, Terminated), SetState(Restart(saved, TO, TimeoutTimer), Completed)}
  BY DEF AfterFinal
<1> HIDE DEF q, retransmits
<1>4. Safe(s, r) /\ Safe(s, SetState(q, Terminated))
  BY <1>2, States, Then, ZenonT(40)
<1> HIDE DEF r
<1>5. Safe(s, saved)
  BY <1>1, <1>4, Then
<1> HIDE DEF saved
<1>6. Safe(s, Restart(saved, TO, TimeoutTimer))
  BY <1>5, Ids, Then
<1>7. Safe(s, SetState(Restart(saved, TO, TimeoutTimer), Completed))
  BY <1>6, States, Then
<1> QED
  BY <1>3, <1>4, <1>7

LEMMA OnSendResponseSafe ==
  ASSUME NEW s, Good(s), NEW c \in Codes
  PROVE  SafeAll(s, OnSendResponse(s, c))
<1> DEFINE m == IF s.lastTx = c THEN c ELSE None
           k == [s EXCEPT !.code = c]
           d == [s EXCEPT !.code = c, !.lastTx = m]
           e == [k EXCEPT !.lastTx = m]
<1>1. Safe(s, s) /\ m \in MaybeMsg /\ c \in 0..699 /\ c \in Msgs
  BY SafeRefl, CodeRange DEF MaybeMsg
<1>2. OnSendResponse(s, c) =
        {CASE ~o.ok -> o.tsx
           [] o.ok /\ o.tsx.code < 200 -> AfterProvisional(o.tsx, c)
           [] OTHER -> AfterFinal(o.tsx, c) : o \in SendMsg(d, c)}
  BY DEF OnSendResponse
<1> HIDE DEF m
<1>3. d = e
  BY DEF Good, TsxType
<1>4. Safe(s, k)
  BY <1>1, Then, ZenonT(40)
<1> HIDE DEF k
<1>5. Safe(s, e)
  BY <1>1, <1>4, Then, ZenonT(40)
<1> HIDE DEF d, e
<1>6. SafeOuts(s, SendMsg(d, c))
  <2>1. SafeOuts(d, SendMsg(d, c))
    BY <1>1, <1>3, <1>5, SendMsgSafe DEF Safe
  <2> QED
    BY <1>3, <1>5, <2>1, SafeOutsTrans
<1>7. ASSUME NEW o \in SendMsg(d, c)
      PROVE  Safe(s, o.tsx) /\ Safe(s, AfterProvisional(o.tsx, c)) /\ Safe(s, AfterFinal(o.tsx, c))
  <2>1. Safe(s, o.tsx)
    BY <1>6 DEF SafeOuts
  <2> QED
    BY <2>1, AfterProvisionalSafe, AfterFinalSafe, SafeTrans DEF Safe
<1> QED
  BY <1>2, <1>7 DEF SafeAll

LEMMA OnRetransmitTimerSafe ==
  ASSUME NEW s, Good(s)
  PROVE  SafeAll(s, OnRetransmitTimer(s))
<1>1. Safe(s, s)
  BY SafeRefl
<1>2. Safe(s, SetState(s, Destroyed))
  BY <1>1, States, Then
<1>3. SafeAll(s, Retransmit(s, TRUE))
  BY RetransmitSafe
<1>4. OnRetransmitTimer(s) \in {Retransmit(s, TRUE), {SetState(s, Destroyed)}, {s}}
  BY DEF OnRetransmitTimer
<1> QED
  BY <1>1, <1>2, <1>3, <1>4 DEF SafeAll

LEMMA OnTimeoutSafe ==
  ASSUME NEW s, Good(s)
  PROVE  Safe(s, OnTimeout(s))
<1> DEFINE q == Lower(Cancel(s, RT), {"PENDING_RESCHED"})
           k == [q EXCEPT !.code = TsxTimeout]
           l == [s EXCEPT !.code = TsxTimeout]
<1>1. Safe(s, s) /\ TsxTimeout \in 0..699
  BY SafeRefl DEF TsxTimeout
<1>2. Safe(s, Cancel(s, RT))
  BY <1>1, Ids, Then
<1>3. Safe(s, q)
  BY <1>2, Then
<1>4. \/ OnTimeout(s) = [q EXCEPT !.code = TsxTimeout, !.state = Terminated]
      \/ OnTimeout(s) = [s EXCEPT !.code = TsxTimeout, !.state = Terminated]
      \/ OnTimeout(s) = [s EXCEPT !.state = Terminated]
      \/ OnTimeout(s) = [s EXCEPT !.state = Destroyed]
      \/ OnTimeout(s) = s
  BY DEF OnTimeout
<1> HIDE DEF q
<1>5. Safe(s, k) /\ Safe(s, l)
  BY <1>1, <1>3, Then, ZenonT(40)
<1>6. /\ [q EXCEPT !.code = TsxTimeout, !.state = Terminated] = [k EXCEPT !.state = Terminated]
      /\ [s EXCEPT !.code = TsxTimeout, !.state = Terminated] = [l EXCEPT !.state = Terminated]
  BY <1>3 DEF Safe, Good, TsxType
<1> HIDE DEF k, l
<1>7. ASSUME NEW t \in {k, l, s}, NEW st \in {Terminated, Destroyed}
      PROVE  Safe(s, [t EXCEPT !.state = st])
  <2>1. Safe(s, t) /\ st \in StNull..Destroyed
    BY <1>1, <1>5, States
  <2> QED
    BY <2>1, Then, ZenonT(40)
<1> QED
  BY <1>1, <1>4, <1>6, <1>7

-----------------------------------------------------------------------------
(* What the steps themselves do to the record. *)

(* The reference of an entry goes with the worker that takes it out. *)
LEMMA PopHeld ==
  ASSUME NEW s, Good(s), NEW e \in {RT, TO}, s.tm[e].armed,
         NEW t, t = [s EXCEPT !.tm[e].armed = FALSE]
  PROVE  Good(t) /\ Held(t) = Held(s) + 1
<1> DEFINE timers == [s.tm EXCEPT ![e].armed = FALSE]
           u == [s EXCEPT !.tm = timers]
<1>1. s \in TsxType /\ s.tm \in Timers /\ s.ref \in Int
  BY DEF Good, TsxType
<1>2. timers \in Timers
  BY <1>1 DEF Timers
<1>3. t = u
  BY <1>1 DEF TsxType
<1>4. ~timers[e].armed /\ \A d \in {RT, TO} \ {e} : timers[d] = s.tm[d]
  BY <1>1 DEF Timers
<1> HIDE DEF timers
<1>5. u \in TsxType
  BY <1>1, <1>2, ZenonT(40) DEF TsxType
<1>6. /\ u.tm = timers /\ u.ref = s.ref /\ u.sends = s.sends
      /\ u.terminating = s.terminating /\ u.registered = s.registered
  BY <1>1 DEF TsxType
<1> HIDE DEF u
<1>7. /\ Armed(u, e) = 0 /\ Armed(s, e) = 1
      /\ \A d \in {RT, TO} \ {e} : Armed(u, d) = Armed(s, d)
  BY <1>4, <1>6 DEF Armed
<1>8. Armed(s, RT) \in Int /\ Armed(s, TO) \in Int /\ Cardinality(s.sends) \in Int
  BY HeldInt DEF Armed
<1>9. Held(u) = Held(s) + 1
  BY <1>1, <1>6, <1>7, <1>8 DEF Held, Weight, RT, TO
<1> QED
  BY <1>3, <1>5, <1>6, <1>9 DEF Good

LEMMA ClearIdSafe ==
  ASSUME NEW s, Good(s), NEW e \in {RT, TO},
         NEW t, t = [s EXCEPT !.tm[e].id = Inactive]
  PROVE  Safe(s, t)
<1> DEFINE timers == [s.tm EXCEPT ![e].id = Inactive]
           u == [s EXCEPT !.tm = timers]
<1>1. s \in TsxType /\ s.tm \in Timers /\ s.ref \in Int
  BY DEF Good, TsxType
<1>2. timers \in Timers
  BY <1>1 DEF Timers, Inactive, TransportErrTimer
<1>3. t = u
  BY <1>1 DEF TsxType
<1>4. \A d \in {RT, TO} : timers[d].armed = s.tm[d].armed
  BY <1>1 DEF Timers
<1> HIDE DEF timers
<1>5. u \in TsxType
  BY <1>1, <1>2, ZenonT(40) DEF TsxType
<1>6. /\ u.tm = timers /\ u.ref = s.ref /\ u.sends = s.sends
      /\ u.terminating = s.terminating /\ u.registered = s.registered
  BY <1>1 DEF TsxType
<1> HIDE DEF u
<1>7. Armed(u, RT) = Armed(s, RT) /\ Armed(u, TO) = Armed(s, TO)
  BY <1>4, <1>6 DEF Armed
<1>8. Held(u) = Held(s)
  BY <1>6, <1>7 DEF Held, Weight
<1> QED
  BY <1>3, <1>5, <1>6, <1>8, HeldInt DEF Good, Safe

(* The reference of a send goes with the worker that calls back. *)
LEMMA DoneHeld ==
  ASSUME NEW s, Good(s), NEW x, x \in s.sends,
         NEW t, t = [s EXCEPT !.sends = s.sends \ {x}]
  PROVE  Good(t) /\ Held(t) = Held(s) + 1
<1> DEFINE sends == s.sends \ {x}
           u == [s EXCEPT !.sends = sends]
<1>1. s \in TsxType /\ s.sends \in SendSets /\ IsFiniteSet(s.sends) /\ s.ref \in Int
  BY DEF Good, TsxType
<1>2. sends \in SendSets
  BY <1>1 DEF SendSets
<1>3. IsFiniteSet(sends) /\ Cardinality(sends) = Cardinality(s.sends) - 1
  BY <1>1, FS_RemoveElement
<1>4. t = u
  OBVIOUS
<1> HIDE DEF sends
<1>5. u \in TsxType
  BY <1>1, <1>2, ZenonT(40) DEF TsxType
<1>6. /\ u.ref = s.ref /\ u.tm = s.tm /\ u.sends = sends
      /\ u.terminating = s.terminating /\ u.registered = s.registered
  BY <1>1 DEF TsxType
<1> HIDE DEF u
<1>7. Armed(u, RT) = Armed(s, RT) /\ Armed(u, TO) = Armed(s, TO)
  BY <1>6 DEF Armed
<1>8. Armed(s, RT) \in Int /\ Armed(s, TO) \in Int /\ Cardinality(s.sends) \in Int
  BY HeldInt DEF Armed
<1>9. Held(u) = Held(s) + 1
  BY <1>1, <1>3, <1>6, <1>7, <1>8 DEF Held, Weight
<1> QED
  BY <1>3, <1>4, <1>5, <1>6, <1>9 DEF Good
-----------------------------------------------------------------------------
(* The inductive invariant: the references that are left for the workers    *)
(* are at least as many as the workers inside the transaction.  RefCovers   *)
(* alone is not inductive: tsx_shutdown must not find the reference of the  *)
(* table already given back (Good), and Weight is a number only if the sends*)
(* in flight are finitely many.                                             *)
IInv ==
  /\ Good(tsx)
  /\ pc \in [Workers -> [at: Places, arg: Nat]]
  /\ \A w \in Workers : ArgOK(pc[w])
  /\ Held(tsx) >= Cardinality(Busy)

(* The workers inside, for a given pc. *)
Inside(p) == {w \in Workers : p[w] # Idle}

LEMMA InsideMoves ==
  ASSUME NEW p, p \in [Workers -> [at: Places, arg: Nat]], NEW w \in Workers, NEW q
  PROVE  LET r == [p EXCEPT ![w] = q]
         IN  /\ Cardinality(Inside(p)) \in Nat
             /\ p[w] = Idle /\ q # Idle => Cardinality(Inside(r)) = Cardinality(Inside(p)) + 1
             /\ p[w] # Idle /\ q # Idle => Inside(r) = Inside(p)
             /\ p[w] # Idle /\ q = Idle => Cardinality(Inside(r)) = Cardinality(Inside(p)) - 1
<1> DEFINE r == [p EXCEPT ![w] = q]
<1>1. IsFiniteSet(Inside(p))
  BY WorkersAssumption, FS_Subset DEF Inside
<1>2. p[w] = Idle /\ q # Idle => Inside(r) = Inside(p) \cup {w} /\ w \notin Inside(p)
  BY DEF Inside
<1>3. p[w] # Idle /\ q # Idle => Inside(r) = Inside(p)
  BY DEF Inside
<1>4. p[w] # Idle /\ q = Idle => Inside(r) = Inside(p) \ {w} /\ w \in Inside(p)
  BY DEF Inside
<1>6. Cardinality(Inside(p)) \in Nat
  BY <1>1, FS_CardinalityType
<1>7. p[w] = Idle /\ q # Idle => Cardinality(Inside(r)) = Cardinality(Inside(p)) + 1
  BY <1>1, <1>2, FS_AddElement
<1>8. p[w] # Idle /\ q = Idle => Cardinality(Inside(r)) = Cardinality(Inside(p)) - 1
  BY <1>1, <1>4, FS_RemoveElement
<1> QED
  BY <1>3, <1>6, <1>7, <1>8

(* The worker places a step leads to. *)
LEMMA PlaceKept ==
  ASSUME IInv, NEW w \in Workers, NEW q \in [at: Places, arg: Nat], ArgOK(q),
         pc' = [pc EXCEPT ![w] = q]
  PROVE  pc' \in [Workers -> [at: Places, arg: Nat]] /\ \A v \in Workers : ArgOK(pc'[v])
BY DEF IInv

(* A worker comes in with a reference of its own, *)
LEMMA ComesIn ==
  ASSUME IInv, NEW w \in Workers, pc[w] = Idle,
         NEW q \in [at: Places, arg: Nat], ArgOK(q), q # Idle,
         pc' = [pc EXCEPT ![w] = q],
         Good(tsx'), Held(tsx') >= Held(tsx) + 1
  PROVE  IInv'
<1>1. pc' \in [Workers -> [at: Places, arg: Nat]] /\ \A v \in Workers : ArgOK(pc'[v])
  BY PlaceKept
<1>2. Cardinality(Inside(pc)) \in Nat /\ Cardinality(Inside(pc')) = Cardinality(Inside(pc)) + 1
  <2>1. pc \in [Workers -> [at: Places, arg: Nat]]
    BY DEF IInv
  <2> QED
    BY <2>1, InsideMoves
<1>3. Busy = Inside(pc) /\ Busy' = Inside(pc')
  BY DEF Busy, Inside
<1>4. Held(tsx) \in Int /\ Held(tsx') \in Int
  BY HeldInt DEF IInv
<1> QED
  BY <1>1, <1>2, <1>3, <1>4 DEF IInv

(* stays inside, *)
LEMMA StaysInside ==
  ASSUME IInv, NEW w \in Workers, pc[w] # Idle,
         NEW q \in [at: Places, arg: Nat], ArgOK(q), q # Idle,
         pc' = [pc EXCEPT ![w] = q],
         Safe(tsx, tsx')
  PROVE  IInv'
<1>1. pc' \in [Workers -> [at: Places, arg: Nat]] /\ \A v \in Workers : ArgOK(pc'[v])
  BY PlaceKept
<1>2. Cardinality(Inside(pc)) \in Nat /\ Inside(pc') = Inside(pc)
  <2>1. pc \in [Workers -> [at: Places, arg: Nat]]
    BY DEF IInv
  <2> QED
    BY <2>1, InsideMoves
<1>3. Busy = Inside(pc) /\ Busy' = Inside(pc')
  BY DEF Busy, Inside
<1>4. Held(tsx) \in Int /\ Held(tsx') \in Int
  BY HeldInt DEF IInv, Safe
<1> QED
  BY <1>1, <1>2, <1>3, <1>4 DEF IInv, Safe

(* or leaves and gives it back. *)
LEMMA GoesOut ==
  ASSUME IInv, NEW w \in Workers, pc[w] # Idle, pc' = [pc EXCEPT ![w] = Idle],
         Good(tsx'), Held(tsx') >= Held(tsx) - 1
  PROVE  IInv'
<1>1. Idle \in [at: Places, arg: Nat] /\ ArgOK(Idle)
  BY DEF Idle, Places, ArgOK
<1>2. pc' \in [Workers -> [at: Places, arg: Nat]] /\ \A v \in Workers : ArgOK(pc'[v])
  BY <1>1, PlaceKept
<1>3. Cardinality(Inside(pc)) \in Nat /\ Cardinality(Inside(pc')) = Cardinality(Inside(pc)) - 1
  <2>1. pc \in [Workers -> [at: Places, arg: Nat]]
    BY DEF IInv
  <2> QED
    BY <2>1, InsideMoves
<1>4. Busy = Inside(pc) /\ Busy' = Inside(pc')
  BY DEF Busy, Inside
<1>5. Held(tsx) \in Int /\ Held(tsx') \in Int
  BY HeldInt DEF IInv
<1> QED
  BY <1>2, <1>3, <1>4, <1>5 DEF IInv

LEMMA Leaves ==
  ASSUME IInv, NEW w \in Workers, pc[w] # Idle, NEW s, Safe(tsx, s), Return(w, s)
  PROVE  IInv'
<1>1. /\ Good(tsx') /\ Held(tsx') = Held(s) - 1
      /\ Held(tsx) \in Int /\ Held(s) \in Int /\ Held(s) >= Held(tsx)
  BY HeldInt, DecRefHeld DEF IInv, Safe, Return
<1>2. pc' = [pc EXCEPT ![w] = Idle] /\ Held(tsx') >= Held(tsx) - 1
  BY <1>1 DEF Return
<1> QED
  BY <1>1, <1>2, GoesOut

(* What others do leaves the workers what they hold. *)
LEMMA Outside ==
  ASSUME IInv, UNCHANGED pc, Safe(tsx, tsx')
  PROVE  IInv'
<1>1. Busy' = Busy
  BY DEF Busy
<1>2. Held(tsx) \in Int /\ Held(tsx') \in Int
  BY HeldInt DEF IInv, Safe
<1>3. Cardinality(Busy) \in Nat
  BY WorkersAssumption, FS_Subset, FS_CardinalityType DEF Busy
<1> QED
  BY <1>1, <1>2, <1>3 DEF IInv, Safe

(* A worker that calls back and is done at once was never counted. *)
LEMMA NotInside ==
  ASSUME IInv, NEW w \in Workers, pc[w] = Idle, NEW s, Safe(tsx, DecRef(s)), Return(w, s)
  PROVE  IInv'
<1>1. pc' = pc /\ Safe(tsx, tsx')
  BY DEF Return, IInv
<1> QED
  BY <1>1, Outside

(* The same, for the places the actions name. *)
LEMMA GoesIn ==
  ASSUME IInv, NEW w \in Workers, pc[w] = Idle,
         NEW place \in Places \ {"idle"}, NEW x \in Nat,
         ArgOK([at |-> place, arg |-> x]), Go(w, place, x),
         Good(tsx'), Held(tsx') >= Held(tsx) + 1
  PROVE  IInv'
<1> DEFINE q == [at |-> place, arg |-> x]
<1>1. q \in [at: Places, arg: Nat] /\ q # Idle /\ pc' = [pc EXCEPT ![w] = q] /\ ArgOK(q)
  BY DEF Idle, Go
<1> HIDE DEF q
<1> QED
  BY <1>1, ComesIn

LEMMA GoesOn ==
  ASSUME IInv, NEW w \in Workers, pc[w] # Idle,
         NEW place \in Places \ {"idle"}, NEW x \in Nat,
         ArgOK([at |-> place, arg |-> x]), Go(w, place, x),
         Safe(tsx, tsx')
  PROVE  IInv'
<1> DEFINE q == [at |-> place, arg |-> x]
<1>1. q \in [at: Places, arg: Nat] /\ q # Idle /\ pc' = [pc EXCEPT ![w] = q] /\ ArgOK(q)
  BY DEF Idle, Go
<1> HIDE DEF q
<1> QED
  BY <1>1, StaysInside

(* What every step starts from. *)
LEMMA Facts ==
  ASSUME IInv
  PROVE  /\ Good(tsx) /\ Safe(tsx, tsx) /\ tsx \in TsxType
         /\ \A w \in Workers : ArgOK(pc[w]) /\ (pc[w].at # "idle" => pc[w] # Idle)
BY SafeRefl DEF IInv, Idle, Good

LEMMA TimerSteps ==
  ASSUME IInv, NEW w \in Workers, TimerStep(w)
  PROVE  IInv'
<1>1. ASSUME NEW e \in {RT, TO}, PopTimer(w, e) PROVE IInv'
  <2>1. Good(tsx') /\ Held(tsx') >= Held(tsx) + 1
    BY <1>1, Facts, PopHeld, HeldInt DEF PopTimer
  <2>2. "timer" \in Places \ {"idle"} /\ e \in Nat /\ ArgOK([at |-> "timer", arg |-> e])
    BY DEF Places, RT, TO, ArgOK
  <2>3. pc[w] = Idle /\ Go(w, "timer", e)
    BY <1>1 DEF PopTimer
  <2> QED
    BY <2>1, <2>2, <2>3, GoesIn
<1>2. CASE StaleTimer(w)
  BY <1>2, Facts, Leaves DEF StaleTimer
<1>3. CASE TransportErrorTimer(w)
  <2> DEFINE s == [tsx EXCEPT !.tm[pc[w].arg].id = Inactive]
  <2>1. pc[w].arg \in {RT, TO} /\ pc[w] # Idle
    BY <1>3, Facts DEF TransportErrorTimer, ArgOK
  <2>2. Safe(tsx, s)
    BY <2>1, Facts, ClearIdSafe
  <2>3. "terr" \in Places \ {"idle"} /\ 0 \in Nat /\ ArgOK([at |-> "terr", arg |-> 0])
    BY DEF Places, ArgOK
  <2>4. (tsx' = s /\ Go(w, "terr", 0)) \/ Return(w, s)
    BY <1>3 DEF TransportErrorTimer
  <2> HIDE DEF s
  <2> QED
    BY <2>1, <2>2, <2>3, <2>4, GoesOn, Leaves
<1>4. CASE TimerEvent(w)
  <2>1. pc[w].arg \in {RT, TO} /\ pc[w] # Idle
    BY <1>4, Facts DEF TimerEvent, ArgOK
  <2>2. Safe(tsx, tsx')
    BY <1>4, <2>1, Facts, ClearIdSafe DEF TimerEvent
  <2>3. /\ "event" \in Places \ {"idle"} /\ pc[w].arg \in Nat
        /\ ArgOK([at |-> "event", arg |-> pc[w].arg])
    BY <2>1 DEF Places, RT, TO, ArgOK
  <2> QED
    BY <1>4, <2>1, <2>2, <2>3, GoesOn DEF TimerEvent
<1>5. CASE RetransmitEvent(w)
  <2>1. PICK s \in OnRetransmitTimer(tsx) : Return(w, s)
    BY <1>5 DEF RetransmitEvent
  <2>2. Safe(tsx, s)
    BY Facts, OnRetransmitTimerSafe DEF SafeAll
  <2>3. pc[w] # Idle
    BY <1>5 DEF RetransmitEvent, Idle
  <2> QED
    BY <2>1, <2>2, <2>3, Leaves
<1>6. CASE TimeoutEvent(w)
  <2> DEFINE s == OnTimeout(tsx)
  <2>1. Safe(tsx, s)
    BY Facts, OnTimeoutSafe
  <2>2. pc[w] # Idle
    BY <1>6 DEF TimeoutEvent, Idle
  <2>3. Safe(tsx, Settle(s, s.state))
    BY <2>1, Facts, SettleSafe, SafeTrans DEF Safe
  <2>4. s.state # tsx.state => s.state \in {Terminated, Destroyed}
    <3>1. Lower(Cancel(tsx, RT), {"PENDING_RESCHED"}) \in TsxType
      <4>1. Safe(tsx, Cancel(tsx, RT))
        BY Facts, Ids, CancelSafe
      <4>2. Safe(tsx, Lower(Cancel(tsx, RT), {"PENDING_RESCHED"}))
        BY <4>1, Facts, Then
      <4> QED
        BY <4>2 DEF Safe, Good
    <3> QED
      BY <3>1, Facts DEF OnTimeout, TsxType
  <2>5. \/ Return(w, s)
        \/ s.state # tsx.state /\ tsx' = s /\ Go(w, "tell", s.state)
        \/ Return(w, Settle(s, s.state))
    BY <1>6 DEF TimeoutEvent
  <2> HIDE DEF s
  <2>6. CASE s.state # tsx.state /\ tsx' = s /\ Go(w, "tell", s.state)
    <3>1. /\ "tell" \in Places \ {"idle"} /\ s.state \in Nat
          /\ ArgOK([at |-> "tell", arg |-> s.state])
      BY <2>4, <2>6 DEF Places, Terminated, Destroyed, ArgOK
    <3> QED
      BY <2>1, <2>2, <2>6, <3>1, GoesOn
  <2> QED
    BY <2>1, <2>2, <2>3, <2>5, <2>6, Leaves
<1>7. CASE TellTimeout(w)
  <2>1. pc[w].arg \in {Terminated, Destroyed} /\ pc[w] # Idle
    BY <1>7, Facts DEF TellTimeout, ArgOK
  <2>2. Safe(tsx, tsx')
    BY <1>7, Facts, TellSafe DEF TellTimeout
  <2>3. /\ "told" \in Places \ {"idle"} /\ pc[w].arg \in Nat
        /\ ArgOK([at |-> "told", arg |-> pc[w].arg])
    BY <2>1 DEF Places, Terminated, Destroyed, ArgOK
  <2> QED
    BY <1>7, <2>1, <2>2, <2>3, GoesOn DEF TellTimeout
<1>8. CASE AfterTimeout(w)
  <2>1. pc[w] # Idle
    BY <1>8, Facts DEF AfterTimeout
  <2>2. Safe(tsx, Settle(tsx, pc[w].arg))
    BY Facts, SettleSafe
  <2> QED
    BY <1>8, <2>1, <2>2, Leaves DEF AfterTimeout
<1>9. CASE TransportErrorEvent(w)
  <2> DEFINE code == IF tsx.code < 200 THEN TransportError ELSE tsx.code
             q == [tsx EXCEPT !.transport = "none", !.code = code, !.state = Terminated]
  <2>1. pc[w] # Idle
    BY <1>9, Facts DEF TransportErrorEvent
  <2>2. /\ tsx \in TsxType /\ code \in 0..699 /\ Terminated \in StNull..Destroyed
        /\ "none" \in {"none", "up", "down"}
    BY Facts DEF TsxType, TransportError, Terminated, StNull, Destroyed
  <2>3. tsx' = Cancel(Detach(q), TO)
    BY <1>9, <2>2 DEF TransportErrorEvent
  <2> HIDE DEF code
  <2>4. q \in TsxType
    BY <2>2, ZenonT(40) DEF TsxType
  <2>5. Alike(tsx, q)
    BY <2>2 DEF TsxType, Alike
  <2>6. Safe(tsx, q)
    BY <2>4, <2>5, Facts, Neutral
  <2> HIDE DEF q
  <2>7. Safe(tsx, Detach(q))
    BY <2>6, Facts, DetachSafe, SafeTrans DEF Safe
  <2>8. Safe(tsx, tsx')
    BY <2>3, <2>7, Facts, Ids, Then
  <2>9. "terrTell" \in Places \ {"idle"} /\ 0 \in Nat /\ ArgOK([at |-> "terrTell", arg |-> 0])
    BY DEF Places, ArgOK
  <2> QED
    BY <1>9, <2>1, <2>8, <2>9, GoesOn DEF TransportErrorEvent
<1>10. CASE TellTransportError(w)
  <2>1. pc[w] # Idle
    BY <1>10, Facts DEF TellTransportError
  <2>2. Safe(tsx, tsx')
    BY <1>10, Facts, TellSafe DEF TellTransportError
  <2>3. /\ "terrSchedule" \in Places \ {"idle"} /\ 0 \in Nat
        /\ ArgOK([at |-> "terrSchedule", arg |-> 0])
    BY DEF Places, ArgOK
  <2> QED
    BY <1>10, <2>1, <2>2, <2>3, GoesOn DEF TellTransportError
<1>11. CASE ScheduleHandler(w)
  <2>1. pc[w] # Idle
    BY <1>11, Facts DEF ScheduleHandler
  <2>2. Safe(tsx, Schedule(tsx, TO, TimeoutTimer))
    BY Facts, Ids, ScheduleSafe
  <2> QED
    BY <1>11, <2>1, <2>2, Leaves DEF ScheduleHandler
<1> QED
  BY <1>1, <1>2, <1>3, <1>4, <1>5, <1>6, <1>7, <1>8, <1>9, <1>10, <1>11 DEF TimerStep

LEMMA RxSteps ==
  ASSUME IInv, NEW w \in Workers, RxStep(w)
  PROVE  IInv'
<1>1. ASSUME NEW m \in Msgs, Lookup(w, m) PROVE IInv'
  <2>1. Good(tsx') /\ Held(tsx') = Held(tsx) + 1 /\ Held(tsx) \in Int
    BY <1>1, Facts, AddRefHeld, HeldInt DEF Lookup
  <2>2. "rx" \in Places \ {"idle"} /\ m \in Nat /\ ArgOK([at |-> "rx", arg |-> m])
    BY CodesAssumption DEF Places, Msgs, Request, Ack, ArgOK
  <2> QED
    BY <1>1, <2>1, <2>2, GoesIn DEF Lookup
<1>2. CASE RecvResponse(w)
  <2> DEFINE c == pc[w].arg
  <2>1. pc[w] # Idle /\ c \in Msgs
    BY <1>2, Facts DEF RecvResponse, ArgOK
  <2>2. \/ \E s \in OnLateResponse(tsx, c) : Return(w, s)
        \/ \E o \in OnResponse(tsx, c) :
             (c >= 200 /\ tsx' = o.tsx /\ Go(w, "final", c)) \/ Return(w, o.tsx)
    BY <1>2 DEF RecvResponse
  <2>3. ASSUME NEW s \in OnLateResponse(tsx, c), Return(w, s) PROVE IInv'
    <3>1. Safe(tsx, s)
      BY Facts, OnLateResponseSafe DEF SafeAll
    <3> QED
      BY <2>1, <2>3, <3>1, Leaves
  <2>5. ASSUME NEW o \in OnResponse(tsx, c), c >= 200, tsx' = o.tsx, Go(w, "final", c)
        PROVE  IInv'
    <3>1. Safe(tsx, o.tsx)
      BY <2>1, Facts, OnResponseSafe DEF SafeOuts
    <3>2. c \in Codes
      BY <2>1, <2>5 DEF Msgs, Request, Ack
    <3> HIDE DEF c
    <3>3. c \in Nat
      BY <3>2, CodesAssumption
    <3>4. "final" \in Places \ {"idle"} /\ ArgOK([at |-> "final", arg |-> c])
      BY <3>2 DEF Places, ArgOK
    <3> QED
      BY <2>1, <2>5, <3>1, <3>3, <3>4, GoesOn
  <2>6. ASSUME NEW o \in OnResponse(tsx, c), Return(w, o.tsx) PROVE IInv'
    <3>1. Safe(tsx, o.tsx)
      BY <2>1, Facts, OnResponseSafe DEF SafeOuts
    <3> QED
      BY <2>1, <2>6, <3>1, Leaves
  <2> QED
    BY <2>2, <2>3, <2>5, <2>6
<1>3. CASE CompleteResponse(w)
  <2>1. pc[w] # Idle
    BY <1>3, Facts DEF CompleteResponse
  <2>2. Safe(tsx, Complete(tsx, pc[w].arg))
    BY Facts, CompleteSafe
  <2> QED
    BY <1>3, <2>1, <2>2, Leaves DEF CompleteResponse
<1>4. CASE RecvRequest(w)
  <2>1. pc[w] # Idle
    BY <1>4, Facts DEF RecvRequest
  <2>2. PICK s \in OnRequest(tsx, pc[w].arg) : Return(w, s)
    BY <1>4 DEF RecvRequest
  <2>3. Safe(tsx, s)
    BY Facts, OnRequestSafe DEF SafeAll
  <2> QED
    BY <2>1, <2>2, <2>3, Leaves
<1> QED
  BY <1>1, <1>2, <1>3, <1>4 DEF RxStep

LEMMA SendSteps ==
  ASSUME IInv, NEW w \in Workers, SendStep(w)
  PROVE  IInv'
<1>1. ASSUME NEW m \in Msgs, SendCallback(w, m) PROVE IInv'
  <2> DEFINE x == [kind |-> "sl", msg |-> m]
             done == [tsx EXCEPT !.sends = tsx.sends \ {x}]
  <2>1. /\ x \in tsx.sends /\ pc[w] = Idle
        /\ \/ tsx' = done /\ UNCHANGED pc
           \/ tsx' = done /\ Go(w, "sent", m)
           \/ Return(w, done)
    BY <1>1 DEF SendCallback
  <2> HIDE DEF x
  <2>2. Good(done) /\ Held(done) = Held(tsx) + 1 /\ Held(tsx) \in Int
    BY <2>1, Facts, DoneHeld, HeldInt
  <2>3. Safe(tsx, done) /\ Safe(tsx, DecRef(done))
    BY <2>2, DecRefHeld DEF Safe
  <2> HIDE DEF done
  <2>4. "sent" \in Places \ {"idle"} /\ m \in Nat /\ ArgOK([at |-> "sent", arg |-> m])
    BY CodesAssumption DEF Places, Msgs, Request, Ack, ArgOK
  <2>5. CASE tsx' = done /\ UNCHANGED pc
    BY <2>3, <2>5, Outside
  <2>6. CASE tsx' = done /\ Go(w, "sent", m)
    <3>1. Good(tsx') /\ Held(tsx') >= Held(tsx) + 1
      BY <2>2, <2>6
    <3> QED
      BY <2>1, <2>4, <2>6, <3>1, GoesIn
  <2>7. CASE Return(w, done)
    BY <2>1, <2>3, <2>7, NotInside
  <2> QED
    BY <2>1, <2>5, <2>6, <2>7
<1>2. ASSUME NEW m \in Msgs, TransportCallback(w, m) PROVE IInv'
  <2> DEFINE x == [kind |-> "tp", msg |-> m]
             sent == [tsx EXCEPT !.sends = tsx.sends \ {x}]
             done == Lower(sent, {"PENDING_TRANSPORT"})
  <2>1. /\ x \in tsx.sends /\ pc[w] = Idle
        /\ Return(w, done) \/ (tsx' = done /\ Go(w, "failed", 0))
    BY <1>2 DEF TransportCallback
  <2> HIDE DEF x
  <2>2. Good(sent) /\ Held(sent) = Held(tsx) + 1 /\ Held(tsx) \in Int
    BY <2>1, Facts, DoneHeld, HeldInt
  <2> HIDE DEF sent
  <2>3. Safe(sent, done)
    BY <2>2, LowerSafe
  <2> HIDE DEF done
  <2>4. Good(done) /\ Held(done) >= Held(tsx) + 1 /\ Held(done) \in Int
    BY <2>2, <2>3, HeldInt DEF Safe
  <2>5. Safe(tsx, DecRef(done))
    BY <2>2, <2>4, DecRefHeld DEF Safe
  <2>6. "failed" \in Places \ {"idle"} /\ 0 \in Nat /\ ArgOK([at |-> "failed", arg |-> 0])
    BY DEF Places, ArgOK
  <2>7. CASE Return(w, done)
    BY <2>1, <2>5, <2>7, NotInside
  <2>8. CASE tsx' = done /\ Go(w, "failed", 0)
    <3>1. Good(tsx') /\ Held(tsx') >= Held(tsx) + 1
      BY <2>4, <2>8
    <3> QED
      BY <2>1, <2>6, <2>8, <3>1, GoesIn
  <2> QED
    BY <2>1, <2>7, <2>8
<1>3. CASE SendCallbackLocked(w)
  <2>1. pc[w].arg \in Msgs /\ pc[w] # Idle
    BY <1>3, Facts DEF SendCallbackLocked, ArgOK
  <2>2. SafeAll(DecRef(tsx), Delivered(tsx) \cup Undelivered(tsx, pc[w].arg))
    BY <2>1, Facts, DeliveredSafe, UndeliveredSafe DEF SafeAll
  <2>3. Safe(DecRef(tsx), tsx')
    BY <1>3, <2>2 DEF SendCallbackLocked, SafeAll
  <2>4. pc' = [pc EXCEPT ![w] = Idle]
    BY <1>3 DEF SendCallbackLocked
  <2>5. Good(tsx') /\ Held(tsx') >= Held(tsx) - 1
    BY <2>3, Facts, DecRefHeld DEF Safe
  <2> QED
    BY <2>1, <2>4, <2>5, GoesOut
<1>4. CASE TransportFailed(w)
  <2>1. pc[w] # Idle
    BY <1>4, Facts DEF TransportFailed
  <2>2. Safe(tsx, PostTransportError(tsx))
    BY Facts, PostTransportErrorSafe
  <2> QED
    BY <1>4, <2>1, <2>2, Leaves DEF TransportFailed
<1> QED
  BY <1>1, <1>2, <1>3, <1>4 DEF SendStep

LEMMA UserSteps ==
  ASSUME IInv, UserStep
  PROVE  IInv'
<1>1. CASE SendRequest
  BY <1>1, Facts, OnSendRequestSafe, Outside DEF SendRequest, SafeAll
<1>2. ASSUME NEW c \in Codes, SendResponse(c) PROVE IInv'
  <2>1. tsx' \in OnSendResponse(tsx, c) /\ UNCHANGED pc
    BY <1>2 DEF SendResponse
  <2>2. Safe(tsx, tsx')
    BY <2>1, Facts, OnSendResponseSafe DEF SafeAll
  <2> QED
    BY <2>1, <2>2, Outside
<1>3. ASSUME NEW w \in Workers, NEW c \in Codes, RetransmitNoState(w, c) PROVE IInv'
  <2>1. UNCHANGED pc /\ \E o \in SendMsg(tsx, c) : tsx' = o.tsx
    BY <1>3 DEF RetransmitNoState
  <2>2. Safe(tsx, tsx')
    BY <2>1, Facts, CodeRange, SendMsgSafe DEF SafeOuts
  <2> QED
    BY <2>1, <2>2, Outside
<1>4. CASE Terminate
  <2> DEFINE q == [tsx EXCEPT !.code = RequestTerminated]
  <2>1. tsx' = SetState(q, Terminated) /\ UNCHANGED pc
    BY <1>4 DEF Terminate
  <2>2. RequestTerminated \in 0..699
    BY DEF RequestTerminated
  <2>3. Safe(tsx, q)
    BY <2>2, Facts, Then, ZenonT(40)
  <2> HIDE DEF q
  <2>4. Safe(tsx, tsx')
    BY <2>1, <2>3, Facts, States, Then
  <2> QED
    BY <2>1, <2>4, Outside
<1>5. CASE StopRetransmit
  <2>1. Safe(tsx, Cancel(tsx, RT))
    BY Facts, Ids, CancelSafe
  <2> QED
    BY <1>5, <2>1, Outside DEF StopRetransmit
<1>6. CASE SetTimeout
  <2>1. Safe(tsx, Restart(tsx, TO, TimeoutTimer))
    BY Facts, Ids, RestartSafe
  <2> QED
    BY <1>6, <2>1, Outside DEF SetTimeout
<1> QED
  BY <1>1, <1>2, <1>3, <1>4, <1>5, <1>6 DEF UserStep

LEMMA TransportDownStep ==
  ASSUME IInv, TransportDown
  PROVE  IInv'
<1> DEFINE q == [tsx EXCEPT !.transport = "down"]
<1>1. tsx' = PostTransportError(q) /\ UNCHANGED pc
  BY DEF TransportDown
<1>2. tsx \in TsxType /\ "down" \in {"none", "up", "down"}
  BY Facts
<1>3. q \in TsxType
  BY <1>2, ZenonT(40) DEF TsxType
<1>4. Alike(tsx, q)
  BY <1>2 DEF TsxType, Alike
<1>5. Safe(tsx, q)
  BY <1>3, <1>4, Facts, Neutral
<1> HIDE DEF q
<1>6. Safe(tsx, tsx')
  BY <1>1, <1>5, Facts, PostTransportErrorSafe, SafeTrans DEF Safe
<1> QED
  BY <1>1, <1>6, Outside

LEMMA LayerStopStep ==
  ASSUME IInv, LayerStop
  PROVE  IInv'
<1> DEFINE q == [tsx EXCEPT !.code = TransportError]
           t == IF tsx.state < Terminated THEN SetState(q, Terminated) ELSE tsx
           u == [t EXCEPT !.registered = FALSE, !.loaded = FALSE]
<1>1. tsx' = Shutdown(u) /\ UNCHANGED pc
  BY DEF LayerStop
<1>2. TransportError \in 0..699
  BY DEF TransportError
<1>3. Safe(tsx, q)
  BY <1>2, Facts, Then, ZenonT(40)
<1> HIDE DEF q
<1>4. Safe(tsx, t)
  BY <1>3, Facts, States, Then
<1> HIDE DEF t
<1>5. t \in TsxType /\ FALSE \in BOOLEAN
  BY <1>4 DEF Safe, Good
<1>6. u \in TsxType
  BY <1>5, ZenonT(40) DEF TsxType
<1>7. Alike(t, u) /\ ~u.registered
  BY <1>5 DEF TsxType, Alike
<1>8. Safe(t, u)
  BY <1>4, <1>6, <1>7, Neutral DEF Safe
<1>9. Safe(tsx, u)
  BY <1>4, <1>8, Facts, SafeTrans
<1> HIDE DEF u
<1>10. Safe(u, Shutdown(u))
  BY <1>7, <1>9, ShutdownSafe DEF Safe
<1>11. Safe(tsx, tsx')
  BY <1>1, <1>9, <1>10, Facts, SafeTrans
<1> QED
  BY <1>1, <1>11, Outside
-----------------------------------------------------------------------------
LEMMA InitIInv == Init => IInv
<1> SUFFICES ASSUME Init PROVE IInv
  OBVIOUS
<1>1. PICK k \in Kinds, reliable \in BOOLEAN, handle200 \in BOOLEAN,
           same \in BOOLEAN, alt \in 0..MaxAlt :
        tsx = Created(k, reliable, handle200, same, alt)
  BY DEF Init
<1>2. k \in [role: {"UAC", "UAS"}, invite: BOOLEAN] /\ alt \in Nat
  BY KindsAssumption, BoundAssumption
<1>3. tsx \in TsxType
  <2> DEFINE timers == [e \in {RT, TO} |-> [armed |-> FALSE, id |-> Inactive]]
             last == IF k.role = "UAC" THEN Request ELSE None
             tp == IF same THEN "up" ELSE "none"
  <2>1. /\ timers \in Timers /\ last \in MaybeMsg /\ tp \in {"none", "up", "down"}
        /\ None \in MaybeMsg /\ {} \in FlagSets /\ {} \in SendSets
        /\ StNull \in StNull..Destroyed /\ 0 \in 0..699
    BY DEF Timers, Inactive, TransportErrTimer, MaybeMsg, Msgs, FlagSets, SendSets,
           StNull, Destroyed
  <2>2. << >> \in FinalStates
    BY DEF FinalStates
  <2>3. tsx = [role |-> k.role, invite |-> k.invite, reliable |-> reliable,
               handle200 |-> handle200, state |-> StNull, code |-> 0, flags |-> {},
               transport |-> tp, resTp |-> same, alt |-> alt, lastTx |-> last,
               pendingTx |-> None, sends |-> {}, err |-> FALSE, tm |-> timers,
               ref |-> 1, terminating |-> FALSE, user |-> TRUE, registered |-> TRUE,
               loaded |-> TRUE, heard |-> << >>]
    BY <1>1 DEF Created
  <2> HIDE DEF timers, last, tp
  <2>4. k.role \in {"UAC", "UAS"} /\ k.invite \in BOOLEAN
    BY <1>2
  <2> QED
    BY <1>1, <1>2, <2>1, <2>2, <2>3, <2>4 DEF TsxType
<1>4. /\ tsx.ref = 1 /\ ~tsx.terminating /\ tsx.registered /\ tsx.sends = {}
      /\ tsx.tm = [e \in {RT, TO} |-> [armed |-> FALSE, id |-> Inactive]]
  BY <1>1 DEF Created
<1>5. Good(tsx)
  BY <1>3, <1>4, FS_EmptySet DEF Good
<1>6. Held(tsx) = 0
  <2>1. Armed(tsx, RT) = 0 /\ Armed(tsx, TO) = 0
    BY <1>4 DEF Armed
  <2>2. Cardinality(tsx.sends) = 0
    BY <1>4, FS_EmptySet
  <2> QED
    BY <1>4, <2>1, <2>2 DEF Held, Weight
<1>7. pc = [w \in Workers |-> Idle]
  BY DEF Init
<1>8. Busy = {}
  BY <1>7 DEF Busy
<1>9. Cardinality(Busy) = 0
  BY <1>8, FS_EmptySet
<1>10. pc \in [Workers -> [at: Places, arg: Nat]] /\ \A w \in Workers : ArgOK(pc[w])
  BY <1>7 DEF Idle, Places, ArgOK
<1> QED
  BY <1>5, <1>6, <1>9, <1>10 DEF IInv

LEMMA NextIInv == IInv /\ [Next]_vars => IInv'
<1> SUFFICES ASSUME IInv, [Next]_vars PROVE IInv'
  OBVIOUS
<1>1. ASSUME NEW w \in Workers, TimerStep(w) PROVE IInv'
  BY <1>1, TimerSteps
<1>2. ASSUME NEW w \in Workers, RxStep(w) PROVE IInv'
  BY <1>2, RxSteps
<1>3. ASSUME NEW w \in Workers, SendStep(w) PROVE IInv'
  BY <1>3, SendSteps
<1>4. CASE UserStep
  BY <1>4, UserSteps
<1>5. CASE TransportDown
  BY <1>5, TransportDownStep
<1>6. CASE LayerStop
  BY <1>6, LayerStopStep
<1>7. CASE UNCHANGED vars
  BY <1>7, Facts, Outside DEF vars
<1>8. CASE Over
  BY <1>7, <1>8 DEF Over
<1> QED
  BY <1>1, <1>2, <1>3, <1>4, <1>5, <1>6, <1>7, <1>8 DEF Next

THEOREM Invariance == Spec => []IInv
BY InitIInv, NextIInv, PTL DEF Spec

(* The record and the places of the workers stay within their types.        *)
THEOREM TypeCorrect == Spec => []TypeOK
<1>1. IInv => TypeOK
  BY DEF IInv, Good, TypeOK
<1> QED
  BY <1>1, Invariance, PTL

(* The group lock counts everybody who relies on it, for any number of      *)
(* polling threads.                                                         *)
THEOREM RefCounted == Spec => []RefCovers
<1>1. IInv => RefCovers
  <2> SUFFICES ASSUME IInv PROVE RefCovers
    OBVIOUS
  <2>1. Held(tsx) >= Cardinality(Busy) /\ tsx.ref \in Int /\ Weight(tsx) \in Nat
    BY HeldInt DEF IInv, Good, TsxType
  <2>2. Cardinality(Busy) \in Nat
    BY WorkersAssumption, FS_Subset, FS_CardinalityType DEF Busy
  <2> QED
    BY <2>1, <2>2 DEF Held, RefCovers
<1> QED
  BY <1>1, Invariance, PTL

(* So when the count is zero and tsx_on_destroy releases the memory, nobody *)
(* is inside and nothing will lead anybody there.                           *)
THEOREM MemorySafe == Spec => []NoUseAfterFree
<1>1. IInv => NoUseAfterFree
  <2> SUFFICES ASSUME IInv, tsx.ref = 0
               PROVE  /\ ~tsx.registered /\ tsx.sends = {} /\ Busy = {}
                      /\ \A e \in {RT, TO} : ~tsx.tm[e].armed
    BY DEF NoUseAfterFree
  <2>1. IsFiniteSet(Busy) /\ Cardinality(Busy) \in Nat
    BY WorkersAssumption, FS_Subset, FS_CardinalityType DEF Busy
  <2>2. /\ Good(tsx) /\ Weight(tsx) \in Nat /\ Cardinality(tsx.sends) \in Nat
        /\ 0 - Weight(tsx) >= Cardinality(Busy)
    BY HeldInt DEF IInv, Held
  <2>3. Weight(tsx) = 0 /\ Cardinality(Busy) = 0
    BY <2>1, <2>2
  <2>4. /\ Armed(tsx, RT) \in {0, 1} /\ Armed(tsx, TO) \in {0, 1}
        /\ Armed(tsx, RT) = 0 => ~tsx.tm[RT].armed
        /\ Armed(tsx, TO) = 0 => ~tsx.tm[TO].armed
    BY DEF Armed
  <2>5. /\ tsx.terminating /\ Armed(tsx, RT) = 0 /\ Armed(tsx, TO) = 0
        /\ Cardinality(tsx.sends) = 0
    BY <2>2, <2>3, <2>4 DEF Weight
  <2>6. tsx.sends = {} /\ Busy = {}
    BY <2>1, <2>2, <2>3, <2>5, FS_EmptySet DEF Good
  <2> QED
    BY <2>2, <2>4, <2>5, <2>6 DEF Good
<1> QED
  BY <1>1, Invariance, PTL
-----------------------------------------------------------------------------
(* Timers that are never forgotten.  NeverStranded speaks of the record in a*)
(* few of its fields only, and so does what is proved of a server that      *)
(* retransmits; these are what they read.                                   *)

(* The timeout timer will run, or the table has let go of the transaction. *)
Timed(s) == s.tm[TO].armed \/ ~s.registered

(* Waiting, of a record. *)
Waits(s) ==
  \/ s.state \in {Calling, Completed, Confirmed, Terminated}
  \/ s.state = Proceeding /\ s.role = "UAC" /\ ~s.invite

(* What the timeout timer is armed for has been overtaken: it was to report *)
(* a transport error, and the transaction has terminated meanwhile.         *)
Erring(s) == s.registered /\ s.state = Terminated /\ s.tm[TO].id = TransportErrTimer

(* A server waits for the ACK, *)
Awaits(s) == s.role = "UAS" /\ s.invite /\ s.state = Completed /\ ~s.reliable

(* and the retransmission timer will run, or its start has been put off. *)
Rings(s) == s.tm[RT].armed \/ Has(s, "PENDING_RESCHED")

(* What every operator keeps from s to t: *)
Akin(s, t) ==
  /\ t.role = s.role /\ t.invite = s.invite
  /\ s.role = "UAS" => t.reliable = s.reliable
  /\ t.registered => s.registered
  /\ t.resTp => s.resTp
  /\ t.tm[RT].id = TransportErrTimer => s.tm[RT].id = TransportErrTimer

(* every step also this, *)
Kin(s, t) ==
  /\ Akin(s, t)
  /\ s.role = "UAS" /\ s.state >= Terminated => t.state >= Terminated
  /\ Awaits(t) /\ t.lastTx = None => Awaits(s) /\ s.lastTx = None

(* a transaction that waits and was timed still is, *)
Endures(s, t) ==
  \/ Timed(t) \/ ~Waits(t)
  \/ /\ Waits(s)
     /\ Timed(s) => Timed(t)
     /\ t.state = Terminated <=> s.state = Terminated

(* a server that has just begun to wait for the ACK retransmits, and it does*)
(* not stop while it waits,                                                 *)
Repeats(s, t) == Awaits(t) => Rings(t) \/ (Awaits(s) /\ ~Rings(s))

(* and most steps do not silence it: the start of its retransmission is put *)
(* off, but nothing is pending any more that would make up for it.          *)
Silent(s) ==
  /\ Awaits(s) /\ ~s.tm[RT].armed
  /\ Has(s, "PENDING_RESCHED") /\ ~Has(s, "PENDING_TRANSPORT")

Lasts(s, t) == Silent(t) => Silent(s)

Tends(s, t) == Kin(s, t) /\ (Erring(t) => Erring(s)) /\ Endures(s, t) /\ Repeats(s, t)
Calm(s, t) == Tends(s, t) /\ Lasts(s, t)

(* The same for every outcome of a step. *)
CalmAll(s, T) == \A t \in T : Calm(s, t)
CalmOuts(s, O) == \A o \in O : Calm(s, o.tsx)

(* What a step on the timers and the flags leaves alone, *)
Beside(s, t) ==
  /\ t.role = s.role /\ t.invite = s.invite
  /\ s.role = "UAS" => t.reliable = s.reliable
  /\ t.state = s.state /\ t.registered = s.registered
  /\ t.resTp => s.resTp
  /\ t.lastTx = s.lastTx

(* and a step on the rest. *)
Aside(s, t) ==
  /\ Beside(s, t)
  /\ t.tm = s.tm
  /\ Has(t, "PENDING_RESCHED") <=> Has(s, "PENDING_RESCHED")
  /\ Has(s, "PENDING_TRANSPORT") => Has(t, "PENDING_TRANSPORT")

LEMMA AsideCalm ==
  ASSUME NEW s, NEW t, Aside(s, t)
  PROVE  Calm(s, t)
BY DEF Aside, Beside, Calm, Tends, Akin, Kin, Endures, Repeats, Lasts, Silent, Timed, Waits, Erring,
       Awaits, Rings

LEMMA CalmRefl == ASSUME NEW s PROVE Calm(s, s)
BY DEF Calm, Tends, Akin, Kin, Endures, Repeats, Lasts, Silent

LEMMA KinTrans ==
  ASSUME NEW s, NEW t, NEW u, Kin(s, t), Kin(t, u)
  PROVE  Kin(s, u)
BY DEF Akin, Kin

LEMMA TendsTrans ==
  ASSUME NEW s, NEW t, NEW u, Tends(s, t), Tends(t, u)
  PROVE  Tends(s, u)
<1>1. Kin(s, u)
  BY KinTrans DEF Tends
<1>2. Endures(s, u)
  BY DEF Tends, Endures
<1>3. Repeats(s, u)
  BY DEF Tends, Repeats
<1> QED
  BY <1>1, <1>2, <1>3 DEF Tends

LEMMA CalmTrans ==
  ASSUME NEW s, NEW t, NEW u, Calm(s, t), Calm(t, u)
  PROVE  Calm(s, u)
BY TendsTrans DEF Calm, Lasts

LEMMA CalmAllTrans ==
  ASSUME NEW s, NEW t, NEW T, Calm(s, t), CalmAll(t, T)
  PROVE  CalmAll(s, T)
BY CalmTrans DEF CalmAll

LEMMA CalmOutsTrans ==
  ASSUME NEW s, NEW t, NEW O, Calm(s, t), CalmOuts(t, O)
  PROVE  CalmOuts(s, O)
BY CalmTrans DEF CalmOuts

(* What the timer operators do to the entries. *)
LEMMA CancelDoes ==
  ASSUME NEW s, Good(s), NEW e \in {RT, TO}
  PROVE  /\ Beside(s, Cancel(s, e)) /\ Cancel(s, e).flags = s.flags
         /\ Cancel(s, e).reliable = s.reliable
         /\ Cancel(s, e).tm[e] = [armed |-> FALSE, id |-> Inactive]
         /\ \A d \in {RT, TO} \ {e} : Cancel(s, e).tm[d] = s.tm[d]
BY DEF Good, TsxType, Timers, Cancel, Beside

LEMMA ScheduleDoes ==
  ASSUME NEW s, Good(s), NEW e \in {RT, TO}, NEW i
  PROVE  /\ Beside(s, Schedule(s, e, i)) /\ Schedule(s, e, i).flags = s.flags
         /\ Schedule(s, e, i).reliable = s.reliable
         /\ Schedule(s, e, i).tm[e].armed
         /\ Schedule(s, e, i).tm[e] \in {s.tm[e], [armed |-> TRUE, id |-> i]}
         /\ ~s.tm[e].armed => Schedule(s, e, i).tm[e].id = i
         /\ \A d \in {RT, TO} \ {e} : Schedule(s, e, i).tm[d] = s.tm[d]
BY DEF Good, TsxType, Timers, Schedule, Beside

LEMMA RestartDoes ==
  ASSUME NEW s, Good(s), NEW e \in {RT, TO}, NEW i \in Inactive..TransportErrTimer
  PROVE  /\ Beside(s, Restart(s, e, i)) /\ Restart(s, e, i).flags = s.flags
         /\ Restart(s, e, i).reliable = s.reliable
         /\ Restart(s, e, i).tm[e].armed /\ Restart(s, e, i).tm[e].id = i
         /\ \A d \in {RT, TO} \ {e} : Restart(s, e, i).tm[d] = s.tm[d]
<1> DEFINE c == Cancel(s, e)
<1>1. Good(c)
  BY CancelSafe DEF Safe
<1>2. /\ Beside(s, c) /\ c.flags = s.flags /\ c.reliable = s.reliable
      /\ ~c.tm[e].armed
      /\ \A d \in {RT, TO} \ {e} : c.tm[d] = s.tm[d]
  BY CancelDoes
<1> HIDE DEF c
<1>3. /\ Beside(c, Schedule(c, e, i)) /\ Schedule(c, e, i).flags = c.flags
      /\ Schedule(c, e, i).reliable = c.reliable
      /\ Schedule(c, e, i).tm[e].armed /\ Schedule(c, e, i).tm[e].id = i
      /\ \A d \in {RT, TO} \ {e} : Schedule(c, e, i).tm[d] = c.tm[d]
  BY <1>1, <1>2, ScheduleDoes
<1>4. Restart(s, e, i) = Schedule(c, e, i)
  BY DEF Restart, c
<1> QED
  BY <1>2, <1>3, <1>4 DEF Beside

LEMMA RestartTimed ==
  ASSUME NEW s, Good(s)
  PROVE  LET t == Restart(s, TO, TimeoutTimer)
         IN  /\ Good(t) /\ Beside(s, t) /\ t.flags = s.flags /\ t.reliable = s.reliable
             /\ t.tm[TO].armed /\ t.tm[TO].id = TimeoutTimer /\ t.tm[RT] = s.tm[RT]
<1>1. RT \in {RT, TO} \ {TO}
  BY DEF RT, TO
<1>2. Good(Restart(s, TO, TimeoutTimer))
  BY Ids, RestartSafe DEF Safe
<1> QED
  BY <1>1, <1>2, Ids, RestartDoes

(* The timeout timer may be restarted for anything but a transport error,   *)
(* and for that as long as the transaction has not terminated.              *)
LEMMA RestartCalm ==
  ASSUME NEW s, Good(s), NEW i \in Inactive..TransportErrTimer,
         i # TransportErrTimer \/ s.state # Terminated
  PROVE  Calm(s, Restart(s, TO, i))
<1> DEFINE t == Restart(s, TO, i)
<1>1. /\ Beside(s, t) /\ t.flags = s.flags /\ t.tm[TO].armed /\ t.tm[TO].id = i
      /\ t.tm[RT] = s.tm[RT]
  BY RestartDoes DEF RT, TO
<1> HIDE DEF t
<1>2. Calm(s, t)
  BY <1>1 DEF Beside, Calm, Tends, Akin, Kin, Endures, Repeats, Lasts, Silent, Timed, Waits, Erring,
              Awaits, Rings, Has
<1> QED
  BY <1>2 DEF t

(* The retransmission timer may be cancelled unless a server waits. *)
LEMMA CancelCalm ==
  ASSUME NEW s, Good(s), ~Awaits(s)
  PROVE  Calm(s, Cancel(s, RT))
<1> DEFINE t == Cancel(s, RT)
<1>1. /\ Beside(s, t) /\ t.flags = s.flags /\ ~t.tm[RT].armed /\ t.tm[RT].id = Inactive
      /\ t.tm[TO] = s.tm[TO]
  BY CancelDoes DEF RT, TO
<1> HIDE DEF t
<1>2. Calm(s, t)
  BY <1>1 DEF Beside, Calm, Tends, Akin, Kin, Endures, Repeats, Lasts, Silent, Timed, Waits, Erring,
              Awaits, Rings, Has, Inactive, TransportErrTimer
<1> QED
  BY <1>2 DEF t

LEMMA RaiseCalm ==
  ASSUME NEW s, Good(s), NEW f, f # "PENDING_RESCHED"
  PROVE  Calm(s, Raise(s, f))
<1>1. Aside(s, Raise(s, f))
  BY DEF Good, TsxType, Raise, Aside, Beside, Has
<1> QED
  BY <1>1, AsideCalm

LEMMA LowerCalm ==
  ASSUME NEW s, Good(s), NEW F, "PENDING_RESCHED" \notin F, "PENDING_TRANSPORT" \notin F
  PROVE  Calm(s, Lower(s, F))
<1>1. Aside(s, Lower(s, F))
  BY DEF Good, TsxType, Lower, Aside, Beside, Has
<1> QED
  BY <1>1, AsideCalm

(* A send that is no longer pending may leave a server silent. *)
LEMMA LowerTends ==
  ASSUME NEW s, Good(s)
  PROVE  LET t == Lower(s, {"PENDING_TRANSPORT"})
         IN  /\ Tends(s, t) /\ t.state = s.state
             /\ Has(t, "PENDING_RESCHED") <=> Has(s, "PENDING_RESCHED")
<1> DEFINE t == Lower(s, {"PENDING_TRANSPORT"})
<1>1. /\ Beside(s, t) /\ t.tm = s.tm
      /\ Has(t, "PENDING_RESCHED") <=> Has(s, "PENDING_RESCHED")
  BY DEF Good, TsxType, Lower, Beside, Has
<1> HIDE DEF t
<1>2. Tends(s, t) /\ t.state = s.state
  BY <1>1 DEF Beside, Tends, Akin, Kin, Endures, Repeats, Timed, Waits, Erring, Awaits, Rings
<1> QED
  BY <1>1, <1>2 DEF t

LEMMA LowerReschedCalm ==
  ASSUME NEW s, Good(s), ~Awaits(s)
  PROVE  Calm(s, Lower(s, {"PENDING_RESCHED"}))
<1> DEFINE t == Lower(s, {"PENDING_RESCHED"})
<1>1. Beside(s, t) /\ t.tm = s.tm /\ ~Has(t, "PENDING_RESCHED")
  BY DEF Good, TsxType, Lower, Beside, Has
<1> HIDE DEF t
<1>2. Calm(s, t)
  BY <1>1 DEF Beside, Calm, Tends, Akin, Kin, Endures, Repeats, Lasts, Silent, Timed, Waits, Erring,
              Awaits, Rings
<1> QED
  BY <1>2 DEF t

LEMMA TellAside ==
  ASSUME NEW s, Good(s)
  PROVE  Aside(s, Tell(s)) /\ Tell(s).reliable = s.reliable
BY DEF Good, TsxType, Tell, Aside, Beside, Has

LEMMA DetachDoes ==
  ASSUME NEW s, Good(s)
  PROVE  /\ Beside(s, Detach(s)) /\ Detach(s).tm = s.tm /\ Detach(s).reliable = s.reliable
         /\ Has(Detach(s), "PENDING_RESCHED") <=> Has(s, "PENDING_RESCHED")
BY DEF Good, TsxType, Detach, Lower, Beside, Has

(* tsx_set_state with TERMINATED leaves the timeout timer running, *)
LEMMA SettleTimed ==
  ASSUME NEW s, Good(s)
  PROVE  LET t == Settle(s, Terminated)
         IN  /\ Beside(s, t) /\ t.tm[RT] = s.tm[RT]
             /\ Has(t, "PENDING_RESCHED") <=> Has(s, "PENDING_RESCHED")
             /\ t.tm[TO].armed /\ t.tm[TO].id = TimeoutTimer
<1> DEFINE d == Detach(s)
<1>1. /\ Beside(s, d) /\ d.tm = s.tm /\ Good(d)
      /\ Has(d, "PENDING_RESCHED") <=> Has(s, "PENDING_RESCHED")
  BY DetachDoes, DetachSafe DEF Safe
<1> HIDE DEF d
<1>2. /\ Beside(d, Restart(d, TO, TimeoutTimer)) /\ Restart(d, TO, TimeoutTimer).flags = d.flags
      /\ Restart(d, TO, TimeoutTimer).tm[TO].armed
      /\ Restart(d, TO, TimeoutTimer).tm[TO].id = TimeoutTimer
      /\ Restart(d, TO, TimeoutTimer).tm[RT] = d.tm[RT]
  BY <1>1, Ids, RestartDoes DEF RT, TO
<1>3. Settle(s, Terminated) = Restart(d, TO, TimeoutTimer)
  BY DEF Settle, d, Terminated, Destroyed
<1> QED
  BY <1>1, <1>2, <1>3 DEF Aside, Beside, Has

(* ... and with DESTROYED takes the transaction out of the table. *)
LEMMA ShutdownDoes ==
  ASSUME NEW s, Good(s)
  PROVE  LET t == Shutdown(s)
         IN  /\ t.role = s.role /\ t.invite = s.invite /\ t.reliable = s.reliable
             /\ t.state = s.state /\ t.registered = s.registered /\ t.resTp = s.resTp
             /\ ~Rings(t) /\ t.tm[RT].id = Inactive /\ t.tm[TO].id = Inactive
<1> DEFINE u == [s EXCEPT !.transport = "none", !.lastTx = None]
           v == Cancel(u, TO)
           bare == Cancel(v, RT)
           late == Lower(bare, {"PENDING_RESCHED", "PENDING_SEND"})
           wait == Has(s, "PENDING_TRANSPORT")
           t == [late EXCEPT !.flags = IF wait THEN @ \cup {"PENDING_DESTROY"} ELSE @,
                             !.user = @ /\ ~wait,
                             !.terminating = TRUE,
                             !.ref = IF s.terminating THEN @ ELSE @ - 1]
<1>1. s \in TsxType
  BY DEF Good
<1>2. Good(u)
  <2>1. None \in MaybeMsg /\ "none" \in {"none", "up", "down"}
    BY DEF MaybeMsg
  <2>2. u \in TsxType
    BY <1>1, <2>1, ZenonT(40) DEF TsxType
  <2>3. Alike(s, u)
    BY <1>1 DEF TsxType, Alike
  <2> QED
    BY <2>2, <2>3, Neutral DEF Safe
<1>3. /\ u.role = s.role /\ u.invite = s.invite /\ u.reliable = s.reliable
      /\ u.state = s.state /\ u.registered = s.registered /\ u.resTp = s.resTp
  BY <1>1 DEF TsxType
<1>4. Good(v) /\ Good(bare)
  BY <1>2, CancelSafe DEF Safe
<1>5. /\ v.role = u.role /\ v.invite = u.invite /\ v.reliable = u.reliable
      /\ v.state = u.state /\ v.registered = u.registered /\ v.resTp = u.resTp
      /\ v.tm[TO] = [armed |-> FALSE, id |-> Inactive]
  BY <1>2 DEF Good, TsxType, Timers, Cancel
<1> HIDE DEF u, v
<1>6. /\ bare.role = v.role /\ bare.invite = v.invite /\ bare.reliable = v.reliable
      /\ bare.state = v.state /\ bare.registered = v.registered /\ bare.resTp = v.resTp
      /\ bare.tm[RT] = [armed |-> FALSE, id |-> Inactive] /\ bare.tm[TO] = v.tm[TO]
  <2>1. /\ bare.role = v.role /\ bare.invite = v.invite /\ bare.reliable = v.reliable
        /\ bare.state = v.state /\ bare.registered = v.registered /\ bare.resTp = v.resTp
    <3>1. bare.resTp = v.resTp
      <4>1. v \in TsxType
        BY <1>4 DEF Good
      <4> QED
        BY <4>1 DEF TsxType, Cancel
    <3> QED
      BY <1>4, <3>1, Ids, CancelDoes DEF Beside
  <2>2. bare.tm[RT] = [armed |-> FALSE, id |-> Inactive] /\ bare.tm[TO] = v.tm[TO]
    <3>1. RT \in {RT, TO} /\ TO \in {RT, TO} \ {RT}
      BY DEF RT, TO
    <3> QED
      BY <1>4, <3>1, CancelDoes
  <2> QED
    BY <2>1, <2>2
<1>7. /\ late \in TsxType
      /\ late.role = bare.role /\ late.invite = bare.invite /\ late.reliable = bare.reliable
      /\ late.state = bare.state /\ late.registered = bare.registered
      /\ late.resTp = bare.resTp /\ late.tm = bare.tm /\ "PENDING_RESCHED" \notin late.flags
  <2>1. bare \in TsxType
    BY <1>4 DEF Good
  <2>2. late \in TsxType
    BY <1>4, LowerSafe DEF Safe, Good
  <2> HIDE DEF bare
  <2> QED
    BY <2>1, <2>2 DEF TsxType, Lower
<1> HIDE DEF bare
<1>8. Shutdown(s) = t
  BY DEF Shutdown, u, v, bare
<1> HIDE DEF late
<1>9. /\ t.role = late.role /\ t.invite = late.invite /\ t.reliable = late.reliable
      /\ t.state = late.state /\ t.registered = late.registered
      /\ t.resTp = late.resTp /\ t.tm = late.tm
      /\ t.flags \in {late.flags, late.flags \cup {"PENDING_DESTROY"}}
  BY <1>7 DEF TsxType
<1> HIDE DEF t
<1> QED
  BY <1>3, <1>5, <1>6, <1>7, <1>8, <1>9 DEF Rings, Has

LEMMA SettleGone ==
  ASSUME NEW s, Good(s)
  PROVE  LET t == Settle(s, Destroyed)
         IN  /\ t.role = s.role /\ t.invite = s.invite /\ t.reliable = s.reliable
             /\ t.state = s.state /\ ~t.registered /\ t.resTp = s.resTp
             /\ ~Rings(t) /\ t.tm[RT].id = Inactive
<1> DEFINE u == [s EXCEPT !.registered = FALSE]
<1>1. s \in TsxType /\ FALSE \in BOOLEAN
  BY DEF Good
<1>2. u \in TsxType
  BY <1>1, ZenonT(40) DEF TsxType
<1>3. /\ u.role = s.role /\ u.invite = s.invite /\ u.reliable = s.reliable
      /\ u.state = s.state /\ ~u.registered /\ u.resTp = s.resTp /\ Alike(s, u)
  BY <1>1 DEF TsxType, Alike
<1>4. Good(u)
  BY <1>2, <1>3, Neutral DEF Safe
<1>5. Settle(s, Destroyed) = Shutdown(u)
  BY DEF Settle, Terminated, Destroyed
<1> HIDE DEF u
<1> QED
  BY <1>3, <1>4, <1>5, ShutdownDoes

(* The three kinds of state changes. *)
LEMMA StateDoes ==
  ASSUME NEW s, Good(s), NEW st \in StNull..Destroyed
  PROVE  LET t == Tell([s EXCEPT !.state = st])
         IN  /\ Good(t) /\ t.state = st
             /\ t.role = s.role /\ t.invite = s.invite /\ t.reliable = s.reliable
             /\ t.registered = s.registered /\ t.resTp = s.resTp /\ t.lastTx = s.lastTx
             /\ t.tm = s.tm /\ t.flags = s.flags
<1> DEFINE u == [s EXCEPT !.state = st]
<1>1. s \in TsxType
  BY DEF Good
<1>2. u \in TsxType
  BY <1>1, ZenonT(40) DEF TsxType
<1>3. /\ u.role = s.role /\ u.invite = s.invite /\ u.reliable = s.reliable
      /\ u.state = st /\ u.registered = s.registered /\ u.resTp = s.resTp
      /\ u.lastTx = s.lastTx /\ u.tm = s.tm /\ u.flags = s.flags /\ Alike(s, u)
  BY <1>1 DEF TsxType, Alike
<1>4. Good(u)
  BY <1>2, <1>3, Neutral DEF Safe
<1> HIDE DEF u
<1>5. Good(Tell(u))
  BY <1>4, TellSafe DEF Safe
<1>6. /\ Tell(u).role = u.role /\ Tell(u).invite = u.invite
      /\ Tell(u).reliable = u.reliable /\ Tell(u).state = u.state
      /\ Tell(u).registered = u.registered /\ Tell(u).resTp = u.resTp
      /\ Tell(u).lastTx = u.lastTx /\ Tell(u).tm = u.tm /\ Tell(u).flags = u.flags
  BY <1>4 DEF Good, TsxType, Tell
<1>7. Good(Tell(u)) /\ Tell(u).state = st
      /\ Tell(u).role = s.role /\ Tell(u).invite = s.invite /\ Tell(u).reliable = s.reliable
      /\ Tell(u).registered = s.registered /\ Tell(u).resTp = s.resTp
      /\ Tell(u).lastTx = s.lastTx /\ Tell(u).tm = s.tm /\ Tell(u).flags = s.flags
  BY <1>3, <1>5, <1>6
<1> QED
  BY <1>7 DEF u

LEMMA TerminateCalm ==
  ASSUME NEW s, Good(s)
  PROVE  /\ Calm(s, SetState(s, Terminated))
         /\ SetState(s, Terminated).state = Terminated
<1> DEFINE u == Tell([s EXCEPT !.state = Terminated])
           t == Settle(u, Terminated)
<1>1. /\ Good(u) /\ u.state = Terminated
      /\ u.role = s.role /\ u.invite = s.invite /\ u.reliable = s.reliable
      /\ u.registered = s.registered /\ u.resTp = s.resTp /\ u.lastTx = s.lastTx
      /\ u.tm = s.tm /\ u.flags = s.flags
  BY StateDoes, States
<1>2. SetState(s, Terminated) = t
  BY DEF SetState
<1> HIDE DEF u
<1>3. /\ Beside(u, t) /\ t.tm[RT] = u.tm[RT]
      /\ Has(t, "PENDING_RESCHED") <=> Has(u, "PENDING_RESCHED")
      /\ t.tm[TO].armed /\ t.tm[TO].id = TimeoutTimer
  BY <1>1, SettleTimed
<1> HIDE DEF t
<1>4. Calm(s, t) /\ t.state = Terminated
  BY <1>1, <1>3 DEF Beside, Calm, Tends, Akin, Kin, Endures, Repeats, Lasts, Silent, Timed, Erring,
                    Awaits, Rings, Has, TimeoutTimer, TransportErrTimer, Terminated, Completed
<1> QED
  BY <1>2, <1>4

LEMMA DestroyCalm ==
  ASSUME NEW s, Good(s)
  PROVE  Calm(s, SetState(s, Destroyed)) /\ ~Silent(SetState(s, Destroyed))
<1> DEFINE u == Tell([s EXCEPT !.state = Destroyed])
           t == Settle(u, Destroyed)
<1>1. /\ Good(u) /\ u.state = Destroyed
      /\ u.role = s.role /\ u.invite = s.invite /\ u.reliable = s.reliable
      /\ u.registered = s.registered /\ u.resTp = s.resTp /\ u.lastTx = s.lastTx
      /\ u.tm = s.tm /\ u.flags = s.flags
  BY StateDoes, States
<1>2. SetState(s, Destroyed) = t
  BY DEF SetState
<1> HIDE DEF u
<1>3. /\ t.role = u.role /\ t.invite = u.invite /\ t.reliable = u.reliable
      /\ t.state = u.state /\ ~t.registered /\ t.resTp = u.resTp
      /\ ~Rings(t) /\ t.tm[RT].id = Inactive
  BY <1>1, SettleGone
<1> HIDE DEF t
<1>4. Calm(s, t) /\ ~Silent(t)
  BY <1>1, <1>3 DEF Calm, Tends, Akin, Kin, Endures, Repeats, Lasts, Silent, Timed, Erring,
                    Awaits, Inactive, TransportErrTimer, Terminated, Completed, Destroyed
<1> QED
  BY <1>2, <1>4

LEMMA StateOnly ==
  ASSUME NEW s, Good(s), NEW st \in {Calling, Trying, Proceeding, Completed, Confirmed}
  PROVE  LET t == SetState(s, st)
         IN  /\ t.role = s.role /\ t.invite = s.invite /\ t.reliable = s.reliable
             /\ t.state = st /\ t.registered = s.registered /\ t.resTp = s.resTp
             /\ t.lastTx = s.lastTx /\ t.tm = s.tm /\ t.flags = s.flags
<1>1. st \in StNull..Destroyed
  BY States
<1>2. st # Terminated /\ st # Destroyed
  BY DEF Calling, Trying, Proceeding, Completed, Confirmed, Terminated, Destroyed
<1>3. SetState(s, st) = Tell([s EXCEPT !.state = st])
  BY <1>2 DEF SetState, Settle
<1> QED
  BY <1>1, <1>3, StateDoes

(* What is not about the timers. *)
LEMMA SmallAsides ==
  ASSUME NEW s, Good(s)
  PROVE  /\ Aside(s, AddRef(s)) /\ Aside(s, DecRef(s))
         /\ Aside(s, [s EXCEPT !.err = TRUE])
         /\ \A c : Aside(s, [s EXCEPT !.code = c])
         /\ \A m : Aside(s, [s EXCEPT !.pendingTx = m])
         /\ \A x : Aside(s, [s EXCEPT !.sends = x])
         /\ \A x : Aside(s, [s EXCEPT !.transport = x])
         /\ Aside(s, [s EXCEPT !.err = TRUE, !.code = TransportError])
BY DEF Good, TsxType, AddRef, DecRef, Aside, Beside, Has

LEMMA PostTransportErrorCalm ==
  ASSUME NEW s, Good(s)
  PROVE  Calm(s, PostTransportError(s))
<1> DEFINE t == [s EXCEPT !.err = TRUE]
<1>1. s \in TsxType /\ TRUE \in BOOLEAN
  BY DEF Good
<1>2. t \in TsxType
  BY <1>1, ZenonT(40) DEF TsxType
<1>3. Alike(s, t) /\ t.state = s.state
  BY <1>1 DEF TsxType, Alike
<1>4. Good(t)
  BY <1>2, <1>3, Neutral DEF Safe
<1>5. Calm(s, t)
  BY SmallAsides, AsideCalm
<1>6. \/ PostTransportError(s) = t
      \/ s.state < Completed /\ PostTransportError(s) = Restart(t, TO, TransportErrTimer)
  BY DEF PostTransportError
<1> HIDE DEF t
<1>7. ASSUME s.state < Completed PROVE Calm(s, Restart(t, TO, TransportErrTimer))
  <2>1. t.state # Terminated /\ TransportErrTimer \in Inactive..TransportErrTimer
    BY <1>1, <1>3, <1>7 DEF TsxType, StNull, Completed, Terminated, Destroyed,
                            Inactive, TransportErrTimer
  <2>2. Calm(t, Restart(t, TO, TransportErrTimer))
    BY <1>4, <2>1, RestartCalm
  <2> QED
    BY <1>5, <2>2, CalmTrans
<1> QED
  BY <1>5, <1>6, <1>7

LEMMA InFlightCalm ==
  ASSUME NEW s, Good(s), NEW k \in {"tp", "sl"}, NEW m \in Msgs
  PROVE  Calm(s, InFlight(s, k, m))
<1>1. Aside(s, InFlight(s, k, m))
  BY DEF Good, TsxType, InFlight, AddRef, Aside, Beside, Has
<1> QED
  BY <1>1, AsideCalm

LEMMA AcceptedCalm ==
  ASSUME NEW s, Good(s), NEW m \in Msgs
  PROVE  CalmOuts(s, Accepted(s, m)) /\ \A o \in Accepted(s, m) : o.ok
<1> DEFINE t == Raise(s, "PENDING_TRANSPORT")
<1>1. Good(t) /\ Calm(s, t)
  BY RaiseSafe, RaiseCalm DEF Safe, Flags
<1> HIDE DEF t
<1>2. Calm(s, InFlight(t, "tp", m)) /\ Calm(s, s)
  BY <1>1, InFlightCalm, CalmTrans, CalmRefl
<1>3. \A o \in Accepted(s, m) : o.tsx \in {s, InFlight(t, "tp", m)} /\ o.ok
  BY DEF Accepted, Ok, t
<1> QED
  BY <1>2, <1>3 DEF CalmOuts

LEMMA DroppedCalm ==
  ASSUME NEW s, Good(s)
  PROVE  Calm(s, Dropped(s)) /\ (Dropped(s).resTp => s.resTp)
<1>1. Aside(s, Dropped(s))
  BY DEF Good, TsxType, Dropped, Aside, Beside, Has
<1> QED
  BY <1>1, AsideCalm DEF Aside, Beside

(* A send that fails for good terminates the transaction. *)
LEMMA SendResolvedCalm ==
  ASSUME NEW s, Good(s), NEW m \in Msgs
  PROVE  /\ CalmOuts(s, SendResolved(s, m))
         /\ \A o \in SendResolved(s, m) : o.ok \/ o.tsx.state = Terminated
<1> DEFINE d == Dropped(s)
           t == [d EXCEPT !.code = TransportError]
           u == SetState(t, Terminated)
<1>1. Safe(s, d) /\ Calm(s, d) /\ Good(d)
  BY DroppedSafe, DroppedCalm DEF Safe
<1> HIDE DEF d
<1>2. TransportError \in 0..699
  BY DEF TransportError
<1>3. Good(t)
  BY <1>1, <1>2, Then, ZenonT(40) DEF Safe
<1>4. Calm(d, t)
  BY <1>1, SmallAsides, AsideCalm
<1> HIDE DEF t
<1>5. Calm(t, u) /\ u.state = Terminated
  BY <1>3, TerminateCalm
<1>6. Calm(s, u)
  BY <1>1, <1>4, <1>5, CalmTrans
<1>7. SendResolved(s, m) = Accepted(s, m) \cup {Fail(u)}
  BY DEF SendResolved, t, d
<1>8. Fail(u).tsx = u
  BY DEF Fail
<1> HIDE DEF u
<1> QED
  BY <1>5, <1>6, <1>7, <1>8, AcceptedCalm DEF CalmOuts

LEMMA AdoptTransportCalm ==
  ASSUME NEW s, Good(s)
  PROVE  CalmAll(s, AdoptTransport(s))
<1> DEFINE Kind == IF s.role = "UAC" THEN BOOLEAN ELSE {s.reliable}
           up(r) == [s EXCEPT !.transport = "up", !.reliable = r]
           p == PostTransportError(s)
           down(r) == [p EXCEPT !.transport = "down", !.reliable = r]
<1>1. Good(p) /\ Calm(s, p)
  BY PostTransportErrorSafe, PostTransportErrorCalm DEF Safe
<1>2. p.role = s.role /\ (s.role = "UAS" => p.reliable = s.reliable)
  BY <1>1 DEF Calm, Tends, Akin, Kin
<1>3. AdoptTransport(s) = (IF s.transport = "none" THEN {} ELSE {s})
         \cup {up(r) : r \in Kind} \cup {down(r) : r \in Kind}
  BY DEF AdoptTransport
<1>4. \A r \in Kind : Calm(s, up(r))
  <2>1. \A r \in Kind : Aside(s, up(r))
    BY DEF Good, TsxType, Aside, Beside, Has
  <2> QED
    BY <2>1, AsideCalm
<1>5. s.role = "UAS" => \A r \in Kind : r = s.reliable
  OBVIOUS
<1> HIDE DEF p, Kind
<1>6. \A r \in Kind : Calm(s, down(r))
  <2>1. \A r \in Kind : Aside(p, down(r))
    BY <1>1, <1>2, <1>5 DEF Good, TsxType, Aside, Beside, Has
  <2> QED
    BY <1>1, <2>1, AsideCalm, CalmTrans
<1> HIDE DEF up, down
<1> QED
  BY <1>3, <1>4, <1>6, CalmRefl DEF CalmAll

LEMMA SendDeferredCalm ==
  ASSUME NEW s, Good(s)
  PROVE  CalmAll(s, SendDeferred(s))
<1> DEFINE c == Lower(s, {"PENDING_SEND"})
<1>1. Calm(s, c) /\ Calm(s, s) /\ Good(c)
  BY LowerCalm, LowerSafe, CalmRefl DEF Safe
<1>2. CASE ~Has(s, "PENDING_SEND")
  BY <1>1, <1>2 DEF SendDeferred, CalmAll
<1>3. CASE Has(s, "PENDING_SEND") /\ (s.lastTx = None \/ IsPending(s, s.lastTx))
  BY <1>1, <1>3 DEF SendDeferred, CalmAll
<1>4. CASE Has(s, "PENDING_SEND") /\ ~(s.lastTx = None \/ IsPending(s, s.lastTx))
  <2>1. s.lastTx \in Msgs
    BY <1>4 DEF Good, TsxType, MaybeMsg
  <2>2. SendDeferred(s) = {o.tsx : o \in SendResolved(c, s.lastTx)}
    BY <1>4 DEF SendDeferred
  <2> HIDE DEF c
  <2>3. CalmOuts(s, SendResolved(c, s.lastTx))
    BY <1>1, <2>1, SendResolvedCalm, CalmOutsTrans
  <2> QED
    BY <2>2, <2>3 DEF CalmAll, CalmOuts
<1> QED
  BY <1>2, <1>3, <1>4

(* A retransmission that had been put off is started, unless it is no longer*)
(* needed.                                                                  *)
LEMMA ReschedDeferredCalm ==
  ASSUME NEW s, Good(s)
  PROVE  Calm(s, ReschedDeferred(s)) /\ ~Silent(ReschedDeferred(s))
<1> DEFINE c == Lower(s, {"PENDING_RESCHED"})
           t == IF s.reliable THEN c ELSE Schedule(c, RT, RetransmitTimer)
<1>1. CASE ~(Has(s, "PENDING_RESCHED") /\ ~Has(s, "PENDING_TRANSPORT"))
  BY <1>1, CalmRefl DEF ReschedDeferred, Silent
<1>2. CASE Has(s, "PENDING_RESCHED") /\ ~Has(s, "PENDING_TRANSPORT")
  <2>1. ReschedDeferred(s) = t
    BY <1>2 DEF ReschedDeferred
  <2>2. /\ Good(c) /\ Beside(s, c) /\ c.reliable = s.reliable /\ c.tm = s.tm
        /\ ~Has(c, "PENDING_RESCHED")
    <3>1. Good(c)
      BY LowerSafe DEF Safe
    <3> QED
      BY <3>1 DEF Good, TsxType, Lower, Beside, Has
  <2> HIDE DEF c
  <2>3. /\ Beside(c, Schedule(c, RT, RetransmitTimer))
        /\ Schedule(c, RT, RetransmitTimer).tm[RT].armed
        /\ Schedule(c, RT, RetransmitTimer).tm[RT].id \in {c.tm[RT].id, RetransmitTimer}
        /\ Schedule(c, RT, RetransmitTimer).tm[TO] = c.tm[TO]
        /\ Schedule(c, RT, RetransmitTimer).flags = c.flags
    <3>1. RT \in {RT, TO} /\ TO \in {RT, TO} \ {RT}
      BY DEF RT, TO
    <3> QED
      BY <2>2, <3>1, ScheduleDoes
  <2>4. /\ Beside(s, t) /\ t.tm[TO] = s.tm[TO]
        /\ t.tm[RT].id \in {s.tm[RT].id, RetransmitTimer}
        /\ s.reliable \/ t.tm[RT].armed
        /\ ~Has(t, "PENDING_RESCHED")
    BY <2>2, <2>3 DEF Beside, Has
  <2>5. Rings(s)
    BY <1>2 DEF Rings
  <2> HIDE DEF t
  <2>6. Calm(s, t) /\ ~Silent(t)
    BY <2>4, <2>5 DEF Beside, Calm, Tends, Akin, Kin, Endures, Repeats, Lasts, Silent, Timed, Waits,
                      Erring, Awaits, Rings, RetransmitTimer, TransportErrTimer
  <2> QED
    BY <2>1, <2>6
<1> QED
  BY <1>1, <1>2

(* The callback of send_msg makes up for what was put off. *)
LEMMA DeliveredCalm ==
  ASSUME NEW s, Good(s)
  PROVE  CalmAll(s, Delivered(s))
<1> DEFINE d == DecRef(s)
           b == [d EXCEPT !.pendingTx = None]
           Lowered(a) == Lower(a, {"PENDING_TRANSPORT"})
           Done(a) == Raise(Lowered(a), "RESOLVED_SERVER")
           After(a) == IF Has(a, "PENDING_DESTROY")
                         THEN {SetState(a, Destroyed)}
                         ELSE {ReschedDeferred(e) : e \in SendDeferred(a)}
<1>1. Good(d) /\ Calm(s, d)
  BY DecRefHeld, SmallAsides, AsideCalm
<1>2. Delivered(s) = UNION {After(Done(a)) : a \in AdoptTransport(b)}
  BY DEF Delivered
<1> HIDE DEF d
<1>3. Good(b)
  <2>1. d \in TsxType /\ None \in MaybeMsg
    BY <1>1 DEF Good, MaybeMsg
  <2>2. b \in TsxType
    BY <2>1, ZenonT(40) DEF TsxType
  <2>3. Alike(d, b)
    BY <2>1 DEF TsxType, Alike
  <2> QED
    BY <1>1, <2>2, <2>3, Neutral DEF Safe
<1>4. Calm(s, b)
  BY <1>1, SmallAsides, AsideCalm, CalmTrans
<1> HIDE DEF b
<1>5. CalmAll(s, AdoptTransport(b)) /\ SafeAll(b, AdoptTransport(b))
  BY <1>3, <1>4, AdoptTransportCalm, AdoptTransportSafe, CalmAllTrans
<1>6. ASSUME NEW a, Good(a) PROVE Tends(a, Done(a)) /\ Good(Done(a))
  <2>1. Good(Lowered(a)) /\ Tends(a, Lowered(a))
    BY <1>6, LowerSafe, LowerTends DEF Safe
  <2> HIDE DEF Lowered
  <2>2. "RESOLVED_SERVER" \in Flags
    BY DEF Flags
  <2>3. Good(Done(a)) /\ Tends(Lowered(a), Done(a))
    BY <2>1, <2>2, RaiseSafe, RaiseCalm DEF Safe, Calm
  <2> QED
    BY <2>1, <2>3, TendsTrans
<1>7. ASSUME NEW a, Good(a), NEW t \in After(a) PROVE Tends(a, t) /\ ~Silent(t)
  <2>1. Calm(a, SetState(a, Destroyed)) /\ ~Silent(SetState(a, Destroyed))
    BY <1>7, DestroyCalm
  <2>2. ASSUME NEW e \in SendDeferred(a)
        PROVE  Calm(a, ReschedDeferred(e)) /\ ~Silent(ReschedDeferred(e))
    <3>1. Calm(a, e) /\ Good(e)
      BY <1>7, <2>2, SendDeferredCalm, SendDeferredSafe DEF CalmAll, SafeAll, Safe
    <3>2. Calm(e, ReschedDeferred(e)) /\ ~Silent(ReschedDeferred(e))
      BY <3>1, ReschedDeferredCalm
    <3> QED
      BY <3>1, <3>2, CalmTrans
  <2> QED
    BY <1>7, <2>1, <2>2 DEF Calm
<1> HIDE DEF Done, After
<1>8. ASSUME NEW a \in AdoptTransport(b), NEW t \in After(Done(a)) PROVE Calm(s, t)
  <2>1. Tends(s, a) /\ Good(a)
    BY <1>5 DEF CalmAll, Calm, SafeAll, Safe
  <2>2. Tends(s, Done(a)) /\ Good(Done(a))
    BY <2>1, <1>6, TendsTrans
  <2>3. Tends(s, t) /\ ~Silent(t)
    BY <2>2, <1>7, TendsTrans
  <2> QED
    BY <2>3 DEF Calm, Lasts
<1> QED
  BY <1>2, <1>8 DEF CalmAll

LEMMA GiveUpCalm ==
  ASSUME NEW s, Good(s)
  PROVE  Calm(s, GiveUp(s))
<1> DEFINE l == Lower(s, {"PENDING_TRANSPORT"})
           r == Raise(l, "RESOLVED_SERVER")
           g == [r EXCEPT !.err = TRUE, !.code = TransportError]
<1>1. Good(l) /\ Tends(s, l)
  BY LowerSafe, LowerTends DEF Safe
<1> HIDE DEF l
<1>2. Good(r) /\ Tends(s, r)
  <2>1. "RESOLVED_SERVER" \in Flags
    BY DEF Flags
  <2>2. Good(r) /\ Tends(l, r)
    BY <1>1, <2>1, RaiseSafe, RaiseCalm DEF Safe, Calm
  <2> QED
    BY <1>1, <2>2, TendsTrans
<1> HIDE DEF r
<1>3. Good(g)
  <2>1. r \in TsxType /\ TransportError \in 0..699 /\ TRUE \in BOOLEAN
    BY <1>2 DEF Good, TransportError
  <2>2. g \in TsxType
    BY <2>1, ZenonT(40) DEF TsxType
  <2>3. Alike(r, g)
    BY <2>1 DEF TsxType, Alike
  <2> QED
    BY <1>2, <2>2, <2>3, Neutral DEF Safe
<1>4. Tends(s, g)
  BY <1>2, SmallAsides, AsideCalm, TendsTrans DEF Calm
<1>5. \/ GiveUp(s) = g /\ ~(g.state < Terminated)
      \/ GiveUp(s) \in {SetState(g, Terminated), SetState(g, Destroyed)}
  BY DEF GiveUp, r, l
<1> HIDE DEF g
<1>6. ASSUME NEW t \in {SetState(g, Terminated), SetState(g, Destroyed)}
      PROVE  Tends(s, t) /\ ~Silent(t)
  <2>1. Calm(g, t) /\ ~Silent(t)
    BY <1>3, TerminateCalm, DestroyCalm
       DEF Silent, Awaits, Completed, Terminated
  <2> QED
    BY <1>4, <2>1, TendsTrans DEF Calm
<1>7. ~(g.state < Terminated) => ~Silent(g)
  BY DEF Silent, Awaits, Completed, Terminated
<1> QED
  BY <1>4, <1>5, <1>6, <1>7 DEF Calm, Lasts

LEMMA NextAddressCalm ==
  ASSUME NEW s, Good(s), NEW m \in Msgs, s.alt # 0
  PROVE  Calm(s, NextAddress(s, m))
<1> DEFINE f == InFlight(s, "sl", m)
           a == [f EXCEPT !.pendingTx = m, !.alt = f.alt - 1]
<1>1. Good(f) /\ Calm(s, f)
  BY InFlightSafe, InFlightCalm DEF Safe
<1>2. f.alt = s.alt
  BY DEF InFlight, AddRef, Good, TsxType
<1> HIDE DEF f
<1>3. Good(a)
  <2>1. f \in TsxType /\ m \in MaybeMsg /\ f.alt - 1 \in Nat
    BY <1>1, <1>2 DEF Good, TsxType, MaybeMsg
  <2>2. a \in TsxType
    BY <2>1, ZenonT(40) DEF TsxType
  <2>3. Alike(f, a)
    BY <2>1 DEF TsxType, Alike
  <2> QED
    BY <1>1, <2>2, <2>3, Neutral DEF Safe
<1>4. Calm(s, a)
  <2>1. Aside(f, a)
    BY <1>1 DEF Good, TsxType, Aside, Beside, Has
  <2> QED
    BY <1>1, <2>1, AsideCalm, CalmTrans
<1>5. NextAddress(s, m) \in {a, Restart(a, TO, TimeoutTimer)}
  BY DEF NextAddress, f
<1> HIDE DEF a
<1>6. Calm(a, Restart(a, TO, TimeoutTimer))
  BY <1>3, Ids, RestartCalm DEF TimeoutTimer, TransportErrTimer
<1> QED
  BY <1>4, <1>5, <1>6, CalmTrans

LEMMA UndeliveredCalm ==
  ASSUME NEW s, Good(s), NEW m \in Msgs
  PROVE  CalmAll(s, Undelivered(s, m))
<1> DEFINE d == DecRef(s)
           b == [d EXCEPT !.pendingTx = None]
           c == [b EXCEPT !.transport = "none"]
<1>1. Good(d) /\ Calm(s, d) /\ d.alt = s.alt
  <2>1. d.alt = s.alt
    BY DEF DecRef, Good, TsxType
  <2> QED
    BY <2>1, DecRefHeld, SmallAsides, AsideCalm
<1>2. Undelivered(s, m) =
        {GiveUp(a) : a \in {b, c}}
          \cup (IF s.alt = 0 \/ Has(s, "PENDING_DESTROY") THEN {}
                ELSE {NextAddress(a, m) : a \in {b, c}})
  BY DEF Undelivered
<1> HIDE DEF d
<1>3. d \in TsxType /\ None \in MaybeMsg /\ "none" \in {"none", "up", "down"}
  BY <1>1 DEF Good, MaybeMsg
<1>4. Good(b) /\ Calm(s, b) /\ b.alt = s.alt
  <2>1. b \in TsxType
    BY <1>3, ZenonT(40) DEF TsxType
  <2>2. b.alt = d.alt /\ Alike(d, b)
    BY <1>3 DEF TsxType, Alike
  <2>3. Calm(s, b)
    BY <1>1, SmallAsides, AsideCalm, CalmTrans
  <2> QED
    BY <1>1, <2>1, <2>2, <2>3, Neutral DEF Safe
<1> HIDE DEF b
<1>5. Good(c) /\ Calm(s, c) /\ c.alt = s.alt
  <2>1. b \in TsxType
    BY <1>4 DEF Good
  <2>2. c \in TsxType
    BY <1>3, <2>1, ZenonT(40) DEF TsxType
  <2>3. c.alt = b.alt /\ Alike(b, c)
    BY <2>1 DEF TsxType, Alike
  <2>4. Calm(s, c)
    BY <1>4, SmallAsides, AsideCalm, CalmTrans, ZenonT(40)
  <2> QED
    BY <1>4, <2>2, <2>3, <2>4, Neutral DEF Safe
<1> HIDE DEF c
<1>6. ASSUME NEW a \in {b, c}
      PROVE  Calm(s, GiveUp(a)) /\ (s.alt # 0 => Calm(s, NextAddress(a, m)))
  <2>1. Good(a) /\ Calm(s, a) /\ a.alt = s.alt
    BY <1>4, <1>5
  <2> QED
    BY <2>1, GiveUpCalm, NextAddressCalm, CalmTrans
<1> QED
  BY <1>2, <1>6 DEF CalmAll

(* A stateless send that fails without having terminated the transaction is *)
(* one of a response whose transport is known.                              *)
LEMMA SendStatelessCalm ==
  ASSUME NEW s, Good(s), NEW m \in Msgs
  PROVE  /\ CalmOuts(s, SendStateless(s, m))
         /\ \A o \in SendStateless(s, m) : o.ok \/ o.tsx.state = Terminated \/ s.resTp
<1> DEFINE p == [s EXCEPT !.pendingTx = m]
           r == Raise(p, "PENDING_TRANSPORT")
           a == AddRef(r)
           i == [a EXCEPT !.sends = a.sends \cup {[kind |-> "sl", msg |-> m]}]
           inline == Delivered(a) \cup (IF s.resTp THEN {} ELSE Undelivered(a, m))
           n == [a EXCEPT !.pendingTx = None]
<1>1. Good(p) /\ Calm(s, p)
  <2>1. s \in TsxType /\ m \in MaybeMsg
    BY DEF Good, MaybeMsg
  <2>2. p \in TsxType
    BY <2>1, ZenonT(40) DEF TsxType
  <2>3. Alike(s, p)
    BY <2>1 DEF TsxType, Alike
  <2> QED
    BY <2>2, <2>3, Neutral, SmallAsides, AsideCalm DEF Safe
<1>2. SendStateless(s, m) =
        {Ok(i)}
          \cup {IF e.state = Terminated /\ e.err THEN Fail(e) ELSE Ok(e) : e \in inline}
          \cup (IF s.resTp THEN {Fail(n)} ELSE {})
  BY DEF SendStateless
<1> HIDE DEF p
<1>3. Good(r) /\ Calm(s, r)
  <2>1. "PENDING_TRANSPORT" \in Flags
    BY DEF Flags
  <2>2. Good(r) /\ Calm(p, r)
    BY <1>1, <2>1, RaiseSafe, RaiseCalm DEF Safe
  <2> QED
    BY <1>1, <2>2, CalmTrans
<1> HIDE DEF r
<1>4. Good(a) /\ Calm(s, a)
  BY <1>3, AddRefHeld, SmallAsides, AsideCalm, CalmTrans
<1> HIDE DEF a
<1>5. Calm(s, i) /\ Calm(s, n)
  <2>1. Aside(a, i) /\ Aside(a, n)
    BY <1>4, SmallAsides
  <2> HIDE DEF i, n
  <2> QED
    BY <1>4, <2>1, AsideCalm, CalmTrans
<1>6. CalmAll(s, inline)
  <2>1. CalmAll(s, Delivered(a)) /\ CalmAll(s, Undelivered(a, m))
    BY <1>4, DeliveredCalm, UndeliveredCalm, CalmAllTrans
  <2> QED
    BY <2>1 DEF CalmAll
<1> HIDE DEF i, inline, n
<1>7. \A o \in SendStateless(s, m) :
         /\ o.tsx = i \/ o.tsx \in inline \/ o.tsx = n
         /\ o.ok \/ o.tsx.state = Terminated \/ s.resTp
  BY <1>2 DEF Ok, Fail
<1> QED
  BY <1>5, <1>6, <1>7 DEF CalmOuts, CalmAll

LEMMA SendMsgCalm ==
  ASSUME NEW s, Good(s), NEW m \in Msgs
  PROVE  /\ CalmOuts(s, SendMsg(s, m))
         /\ \A o \in SendMsg(s, m) : o.ok \/ o.tsx.state = Terminated \/ s.resTp
<1> DEFINE d == Dropped(s)
           Stateless == SendStateless(d, m)
           Resolved == SendResolved(s, m)
           Now == Accepted(s, m)
           p == Raise(s, "PENDING_SEND")
<1>1. SendMsg(s, m) \in {{Ok(p)}, {Ok(s)}, Resolved, Now \cup Stateless}
  BY DEF SendMsg
<1>2. Calm(s, p) /\ Calm(s, s)
  BY RaiseCalm, CalmRefl
<1>3. /\ CalmOuts(s, Resolved) /\ \A o \in Resolved : o.ok \/ o.tsx.state = Terminated
      /\ CalmOuts(s, Now) /\ \A o \in Now : o.ok
  BY SendResolvedCalm, AcceptedCalm
<1>4. CalmOuts(s, Stateless) /\ \A o \in Stateless : o.ok \/ o.tsx.state = Terminated \/ s.resTp
  <2>1. Good(d) /\ Calm(s, d) /\ (d.resTp => s.resTp)
    BY DroppedSafe, DroppedCalm DEF Safe
  <2> HIDE DEF d
  <2>2. CalmOuts(d, Stateless) /\ \A o \in Stateless : o.ok \/ o.tsx.state = Terminated \/ d.resTp
    BY <2>1, SendStatelessCalm
  <2> HIDE DEF Stateless
  <2> QED
    BY <2>1, <2>2, CalmOutsTrans
<1> HIDE DEF Stateless, Resolved, Now, p
<1>5. CalmOuts(s, {Ok(p)}) /\ CalmOuts(s, {Ok(s)}) /\ Ok(p).ok /\ Ok(s).ok
  BY <1>2 DEF CalmOuts, Ok
<1>6. CASE SendMsg(s, m) \in {{Ok(p)}, {Ok(s)}}
  BY <1>5, <1>6
<1>7. CASE SendMsg(s, m) = Resolved
  BY <1>3, <1>7
<1>8. CASE SendMsg(s, m) = Now \cup Stateless
  BY <1>3, <1>4, <1>8 DEF CalmOuts
<1> QED
  BY <1>1, <1>6, <1>7, <1>8

LEMMA RingingDoes ==
  ASSUME NEW s, Good(s)
  PROVE  LET t == StartRetransmission(s)
         IN  /\ Beside(s, t) /\ t.reliable = s.reliable /\ t.tm[TO] = s.tm[TO]
             /\ Rings(t) /\ (t.tm[RT].armed \/ Has(t, "PENDING_TRANSPORT"))
             /\ t.tm[RT].id \in {s.tm[RT].id, RetransmitTimer}
<1>1. RT \in {RT, TO} /\ TO \in {RT, TO} \ {RT}
  BY DEF RT, TO
<1>2. CASE Has(s, "PENDING_TRANSPORT")
  <2>1. StartRetransmission(s) = Raise(s, "PENDING_RESCHED")
    BY <1>2 DEF StartRetransmission
  <2>2. LET t == Raise(s, "PENDING_RESCHED")
        IN  /\ Beside(s, t) /\ t.reliable = s.reliable /\ t.tm = s.tm /\ Rings(t)
            /\ Has(s, "PENDING_TRANSPORT") => Has(t, "PENDING_TRANSPORT")
    BY DEF Good, TsxType, Raise, Beside, Rings, Has
  <2> QED
    BY <1>2, <2>1, <2>2
<1>3. CASE ~Has(s, "PENDING_TRANSPORT")
  <2>1. StartRetransmission(s) = Schedule(s, RT, RetransmitTimer)
    BY <1>3 DEF StartRetransmission
  <2>2. LET t == Schedule(s, RT, RetransmitTimer)
        IN  Beside(s, t) /\ t.reliable = s.reliable /\ t.tm[TO] = s.tm[TO] /\ t.tm[RT].armed
            /\ t.tm[RT].id \in {s.tm[RT].id, RetransmitTimer}
    BY <1>1, ScheduleDoes
  <2> QED
    BY <2>1, <2>2 DEF Rings
<1> QED
  BY <1>2, <1>3

(* A retransmission keeps the retransmission timer going. *)
LEMMA RetransmitTends ==
  ASSUME NEW s, Good(s), NEW resched \in BOOLEAN, NEW t \in Retransmit(s, resched)
  PROVE  /\ Tends(s, t) /\ (~resched => Calm(s, t))
         /\ resched /\ s.lastTx # None => (Awaits(t) => Rings(t)) /\ ~Silent(t)
<1> DEFINE u == StartRetransmission(s)
           v == IF resched THEN u ELSE s
<1>1. CASE (resched /\ s.tm[RT].armed) \/ s.lastTx = None
  <2>1. t = s
    BY <1>1 DEF Retransmit
  <2> QED
    BY <1>1, <2>1, CalmRefl DEF Calm, Rings, Silent
<1>2. CASE ~((resched /\ s.tm[RT].armed) \/ s.lastTx = None)
  <2>1. s.lastTx \in Msgs
    BY <1>2 DEF Good, TsxType, MaybeMsg
  <2>2. PICK o \in SendMsg(v, s.lastTx) : t = o.tsx
    BY <1>2 DEF Retransmit
  <2>3. Good(u) /\ Tends(s, u) /\ Rings(u) /\ ~Silent(u)
    <3>1. Good(u)
      BY StartRetransmissionSafe DEF Safe
    <3>2. /\ Beside(s, u) /\ u.tm[TO] = s.tm[TO]
          /\ Rings(u) /\ (u.tm[RT].armed \/ Has(u, "PENDING_TRANSPORT"))
          /\ u.tm[RT].id \in {s.tm[RT].id, RetransmitTimer}
      BY RingingDoes
    <3> HIDE DEF u
    <3> QED
      BY <3>1, <3>2 DEF Beside, Tends, Akin, Kin, Endures, Repeats, Timed, Waits, Erring, Awaits,
                        Silent, RetransmitTimer, TransportErrTimer
  <2> HIDE DEF u
  <2>4. /\ Good(v) /\ Tends(s, v)
        /\ ~resched => v = s
        /\ resched => Rings(v) /\ ~Silent(v)
    BY <2>3, CalmRefl DEF Calm
  <2> HIDE DEF v
  <2>5. Calm(v, t)
    BY <2>1, <2>2, <2>4, SendMsgCalm DEF CalmOuts
  <2>6. Tends(s, t)
    BY <2>4, <2>5, TendsTrans DEF Calm
  <2>7. resched => (Awaits(t) => Rings(t)) /\ ~Silent(t)
    BY <2>4, <2>5 DEF Calm, Lasts, Tends, Repeats
  <2> QED
    BY <2>4, <2>5, <2>6, <2>7
<1> QED
  BY <1>1, <1>2
-----------------------------------------------------------------------------
(* The state handlers. *)
LEMMA AkinTrans ==
  ASSUME NEW s, NEW t, NEW u, Akin(s, t), Akin(t, u)
  PROVE  Akin(s, u)
BY DEF Akin

LEMMA BesideAkin ==
  ASSUME NEW s, NEW t, Beside(s, t), t.tm[RT].id \in {s.tm[RT].id, Inactive, RetransmitTimer}
  PROVE  Akin(s, t)
BY DEF Beside, Akin, Inactive, RetransmitTimer, TransportErrTimer

(* For a client it is all that matters besides the timeout timer. *)
LEMMA ClientKin ==
  ASSUME NEW s, NEW t, s.role = "UAC", Akin(s, t)
  PROVE  Kin(s, t) /\ Repeats(s, t)
BY DEF Akin, Kin, Repeats, Awaits

(* A calm step that terminates a transaction starts the timeout timer. *)
LEMMA CalmEnd ==
  ASSUME NEW s, NEW t, Calm(s, t), s.state # Terminated
  PROVE  ~Erring(t) /\ (t.state = Terminated => Timed(t))
BY DEF Calm, Tends, Endures, Erring, Waits

LEMMA CancelAkin ==
  ASSUME NEW s, Good(s), NEW e \in {RT, TO}
  PROVE  Akin(s, Cancel(s, e)) /\ Cancel(s, e).state = s.state /\ Good(Cancel(s, e))
<1>1. Good(Cancel(s, e))
  BY CancelSafe DEF Safe
<1>2. Cancel(s, e).tm[RT].id \in {s.tm[RT].id, Inactive}
  BY CancelDoes DEF RT, TO
<1> QED
  BY <1>1, <1>2, CancelDoes, BesideAkin DEF Beside

LEMMA CodeAkin ==
  ASSUME NEW s, Good(s), NEW c \in 0..699
  PROVE  LET t == [s EXCEPT !.code = c]
         IN  Good(t) /\ Akin(s, t) /\ t.state = s.state /\ t.tm = s.tm
<1>1. Good([s EXCEPT !.code = c])
  BY SafeRefl, Then DEF Safe
<1>2. Aside(s, [s EXCEPT !.code = c])
  BY SmallAsides
<1> QED
  BY <1>1, <1>2, BesideAkin DEF Aside, Beside

(* CALLING is left with the retransmission timer stopped; a provisional     *)
(* response to another request than an INVITE leaves the timeout timer.     *)
LEMMA LeaveCallingAkin ==
  ASSUME NEW s, Good(s), NEW c \in Int
  PROVE  LET t == LeaveCalling(s, c)
         IN  /\ Good(t) /\ Akin(s, t) /\ t.state = s.state
             /\ c < 200 /\ ~s.invite => t.tm[TO] = s.tm[TO]
<1> DEFINE k == Cancel(s, RT)
           r == Lower(k, {"PENDING_RESCHED"})
           u == Schedule(r, RT, RetransmitTimer)
<1>0. RT \in {RT, TO} /\ TO \in {RT, TO} \ {RT}
  BY DEF RT, TO
<1>1. Good(k) /\ Akin(s, k) /\ k.state = s.state /\ k.tm[TO] = s.tm[TO]
  BY <1>0, CancelAkin, CancelDoes
<1> HIDE DEF k
<1>2. Good(r) /\ Akin(k, r) /\ r.state = k.state /\ r.tm = k.tm
  <2>1. Good(r)
    BY <1>1, LowerSafe DEF Safe
  <2>2. Beside(k, r) /\ r.tm = k.tm
    BY <1>1 DEF Good, TsxType, Lower, Beside
  <2> HIDE DEF r
  <2> QED
    BY <2>1, <2>2, BesideAkin DEF Beside
<1>3. LeaveCalling(s, c) = CASE c >= 200 -> IF r.tm[TO].id # Inactive THEN Cancel(r, TO) ELSE r
                             [] c < 200 /\ s.invite -> Cancel(r, TO)
                             [] OTHER -> IF s.reliable THEN r ELSE u
  BY DEF LeaveCalling, k
<1> HIDE DEF r
<1>4. Good(Cancel(r, TO)) /\ Akin(r, Cancel(r, TO)) /\ Cancel(r, TO).state = r.state
  BY <1>0, <1>2, CancelAkin
<1>5. Good(u) /\ Akin(r, u) /\ u.state = r.state /\ u.tm[TO] = r.tm[TO]
  <2>1. Good(u)
    BY <1>2, Ids, ScheduleSafe DEF Safe
  <2>2. Beside(r, u) /\ u.tm[RT].id \in {r.tm[RT].id, RetransmitTimer} /\ u.tm[TO] = r.tm[TO]
    BY <1>0, <1>2, ScheduleDoes
  <2> HIDE DEF u
  <2> QED
    BY <2>1, <2>2, BesideAkin DEF Beside
<1> HIDE DEF u
<1>6. Akin(s, r) /\ Akin(s, Cancel(r, TO)) /\ Akin(s, u)
  BY <1>1, <1>2, <1>4, <1>5, AkinTrans
<1>7. LeaveCalling(s, c) \in {r, Cancel(r, TO), u}
      /\ (c < 200 /\ ~s.invite => LeaveCalling(s, c) \in {r, u})
  BY <1>3
<1> QED
  BY <1>1, <1>2, <1>4, <1>5, <1>6, <1>7

(* A response that leads to no final step leaves a client that waits with a *)
(* timer.                                                                   *)
LEMMA OnResponseTends ==
  ASSUME NEW s, Good(s), NEW c \in Msgs, s.role = "UAC", ~s.resTp,
         s.state \in {Calling, Proceeding}, NEW o \in OnResponse(s, c)
  PROVE  /\ Kin(s, o.tsx) /\ Repeats(s, o.tsx) /\ ~Erring(o.tsx)
         /\ (o.ok /\ c >= 200) \/ Endures(s, o.tsx)
<1> DEFINE l == IF s.state = Calling THEN LeaveCalling(s, c) ELSE s
           r == [l EXCEPT !.code = c]
           k == Cancel(r, TO)
           q == Cancel(r, RT)
           quiet == Cancel(q, TO)
<1>0. c \in 0..699 /\ c \in Int
  BY CodesAssumption DEF Msgs, Request, Ack
<1>1. Good(l) /\ Akin(s, l) /\ l.state = s.state /\ (c < 200 /\ ~s.invite => l.tm[TO] = s.tm[TO])
  BY <1>0, LeaveCallingAkin DEF Akin
<1> HIDE DEF l
<1>2. Good(r) /\ Akin(s, r) /\ r.state = s.state /\ (c < 200 /\ ~s.invite => r.tm[TO] = s.tm[TO])
  <2>1. Good(r) /\ Akin(l, r) /\ r.state = l.state /\ r.tm = l.tm
    BY <1>0, <1>1, CodeAkin, ZenonT(40)
  <2> HIDE DEF r
  <2> QED
    BY <1>1, <2>1, AkinTrans
<1>3. s.state # Terminated
  BY DEF Calling, Proceeding, Terminated
<1>4. OnResponse(s, c) =
        CASE c < 200 -> {Fail(SetState(r, Proceeding))}
          [] c \in 200..299 /\ s.invite -> {Fail(SetState(k, Terminated))}
          [] c \in 200..299 /\ ~s.invite -> {Ok(k)}
          [] c >= 300 /\ s.invite -> SendMsg(quiet, Ack)
          [] OTHER -> {Ok(quiet)}
  BY DEF OnResponse, l
<1> HIDE DEF r
<1>5. Good(k) /\ Akin(s, k) /\ k.state = s.state
  BY <1>2, Ids, CancelAkin, AkinTrans
<1>6. Good(quiet) /\ Akin(s, quiet) /\ quiet.state = s.state
  <2>1. Good(q) /\ Akin(s, q) /\ q.state = s.state
    BY <1>2, Ids, CancelAkin, AkinTrans
  <2> HIDE DEF q
  <2> QED
    BY <2>1, Ids, CancelAkin, AkinTrans
<1> HIDE DEF k, q, quiet
<1>7. CASE c < 200 /\ o = Fail(SetState(r, Proceeding))
  <2> DEFINE t == SetState(r, Proceeding)
  <2>1. /\ t.role = r.role /\ t.invite = r.invite /\ t.reliable = r.reliable
        /\ t.state = Proceeding /\ t.registered = r.registered /\ t.resTp = r.resTp
        /\ t.tm = r.tm
    BY <1>2, StateOnly
  <2>2. o.tsx = t
    BY <1>7 DEF Fail
  <2> HIDE DEF t
  <2>3. Akin(s, t) /\ t.state # Terminated
    BY <1>2, <2>1 DEF Akin, Proceeding, Terminated
  <2>4. Endures(s, t)
    BY <1>2, <1>3, <1>7, <2>1, <2>3 DEF Akin, Endures, Waits, Timed, Calling, Proceeding, Completed,
       Confirmed, Terminated
  <2> QED
    BY <2>2, <2>3, <2>4, ClientKin DEF Erring
<1>8. CASE o = Fail(SetState(k, Terminated))
  <2>1. Calm(k, SetState(k, Terminated)) /\ SetState(k, Terminated).state = Terminated
    BY <1>5, TerminateCalm
  <2>2. o.tsx = SetState(k, Terminated)
    BY <1>8 DEF Fail
  <2>3. Akin(s, o.tsx) /\ ~Erring(o.tsx) /\ Timed(o.tsx)
    BY <1>3, <1>5, <2>1, <2>2, CalmEnd, AkinTrans DEF Calm, Tends, Kin
  <2> QED
    BY <2>3, ClientKin DEF Endures
<1>9. CASE c >= 200 /\ o \in {Ok(k), Ok(quiet)}
  <2>1. o.ok /\ Akin(s, o.tsx) /\ o.tsx.state = s.state
    BY <1>5, <1>6, <1>9 DEF Ok
  <2> QED
    BY <1>3, <1>9, <2>1, ClientKin DEF Erring
<1>10. CASE c >= 200 /\ o \in SendMsg(quiet, Ack)
  <2>1. Ack \in Msgs
    BY DEF Msgs
  <2>2. Calm(quiet, o.tsx) /\ (o.ok \/ o.tsx.state = Terminated)
    BY <1>6, <1>10, <2>1, SendMsgCalm DEF CalmOuts, Akin
  <2>3. Akin(s, o.tsx) /\ ~Erring(o.tsx) /\ (o.ok \/ Timed(o.tsx))
    BY <1>3, <1>6, <2>2, CalmEnd, AkinTrans DEF Calm, Tends, Kin
  <2> QED
    BY <1>10, <2>3, ClientKin DEF Endures
<1>11. \/ c < 200 /\ o = Fail(SetState(r, Proceeding))
       \/ o = Fail(SetState(k, Terminated))
       \/ c >= 200 /\ o \in {Ok(k), Ok(quiet)}
       \/ c >= 200 /\ o \in SendMsg(quiet, Ack)
  <2> DEFINE C1 == {Fail(SetState(r, Proceeding))}
             C2 == {Fail(SetState(k, Terminated))}
             C5 == SendMsg(quiet, Ack)
  <2>1. OnResponse(s, c) =
        CASE c < 200 -> C1
          [] c \in 200..299 /\ s.invite -> C2
          [] c \in 200..299 /\ ~s.invite -> {Ok(k)}
          [] c >= 300 /\ s.invite -> C5
          [] OTHER -> {Ok(quiet)}
    BY <1>4
  <2> HIDE DEF C1, C2, C5
  <2>2. \/ c < 200 /\ OnResponse(s, c) = C1
        \/ OnResponse(s, c) = C2
        \/ c >= 200 /\ OnResponse(s, c) \in {{Ok(k)}, {Ok(quiet)}}
        \/ c >= 200 /\ OnResponse(s, c) = C5
    BY <1>0, <2>1
  <2> QED
    BY <2>2 DEF C1, C2, C5
<1> QED
  BY <1>7, <1>8, <1>9, <1>10, <1>11

(* The final step starts the timeout timer. *)
LEMMA CompleteTends ==
  ASSUME NEW s, Good(s), NEW c, s.role = "UAC"
  PROVE  Tends(s, Complete(s, c)) /\ Timed(Complete(s, c))
<1> DEFINE q == SetState(s, Completed)
           m == IF s.invite THEN Ack ELSE q.lastTx
           a == [q EXCEPT !.lastTx = m]
           t == Restart(a, TO, TimeoutTimer)
           b == Schedule(s, TO, TimeoutTimer)
           d == Cancel(b, RT)
           u == SetState(d, Completed)
<1>0. /\ RT \in {RT, TO} /\ TO \in {RT, TO} /\ RT # TO
      /\ Completed \in StNull..Destroyed /\ Completed # Terminated
  BY DEF RT, TO, StNull, Completed, Terminated, Destroyed
<1>1. Complete(s, c) \in {t, u}
  BY DEF Complete
<1>2. Akin(s, t) /\ t.state = Completed /\ t.tm[TO].armed
  <2>1. Good(q)
    BY <1>0, SetStateSafe DEF Safe
  <2>2. /\ q.role = s.role /\ q.invite = s.invite /\ q.reliable = s.reliable
        /\ q.state = Completed /\ q.registered = s.registered /\ q.resTp = s.resTp
        /\ q.tm = s.tm
    BY StateOnly
  <2> HIDE DEF q
  <2>3. m \in MaybeMsg
    BY <2>1 DEF Good, TsxType, MaybeMsg, Msgs
  <2> HIDE DEF m
  <2>4. Good(a)
    BY <2>1, <2>3, SafeRefl, Then DEF Safe
  <2>5. /\ a.role = q.role /\ a.invite = q.invite /\ a.reliable = q.reliable
        /\ a.state = q.state /\ a.registered = q.registered /\ a.resTp = q.resTp
        /\ a.tm = q.tm
    BY <2>1 DEF Good, TsxType
  <2> HIDE DEF a
  <2>6. /\ Beside(a, t) /\ t.tm[TO].armed /\ t.tm[RT] = a.tm[RT]
    BY <1>0, <2>4, Ids, RestartDoes
  <2> HIDE DEF t
  <2> QED
    BY <2>2, <2>5, <2>6 DEF Akin, Beside
<1>3. Akin(s, u) /\ u.state = Completed /\ u.tm[TO].armed
  <2>1. Good(b) /\ Beside(s, b) /\ b.tm[TO].armed /\ b.tm[RT] = s.tm[RT]
    BY <1>0, Ids, ScheduleSafe, ScheduleDoes DEF Safe
  <2> HIDE DEF b
  <2>2. Good(d) /\ Akin(b, d) /\ d.tm[TO] = b.tm[TO]
    BY <1>0, <2>1, CancelAkin, CancelDoes
  <2>3. Akin(s, b)
    BY <2>1, BesideAkin
  <2> HIDE DEF d
  <2>4. /\ u.role = d.role /\ u.invite = d.invite /\ u.reliable = d.reliable
        /\ u.state = Completed /\ u.registered = d.registered /\ u.resTp = d.resTp
        /\ u.tm = d.tm
    BY <2>2, StateOnly
  <2> HIDE DEF u
  <2> QED
    BY <2>1, <2>2, <2>3, <2>4 DEF Akin
<1> HIDE DEF t, u
<1> QED
  BY <1>0, <1>1, <1>2, <1>3, ClientKin DEF Tends, Endures, Timed, Erring

LEMMA OnLateResponseCalm ==
  ASSUME NEW s, Good(s), NEW c
  PROVE  CalmAll(s, OnLateResponse(s, c))
<1>1. CalmAll(s, Retransmit(s, FALSE)) /\ CalmAll(s, {s})
  BY RetransmitTends, CalmRefl DEF CalmAll
<1> QED
  BY <1>1 DEF OnLateResponse

(* The ACK stops the retransmission, and starts the timer that ends it all. *)
LEMMA OnAckCalm ==
  ASSUME NEW s, Good(s), s.state = Completed
  PROVE  Calm(s, OnAck(s))
<1> DEFINE k == Cancel(s, RT)
           a == Lower(k, {"PENDING_RESCHED"})
           b == Restart(a, TO, TimeoutTimer)
           t == SetState(b, Confirmed)
<1>0. /\ RT \in {RT, TO} /\ TO \in {RT, TO} \ {RT} /\ RT \in {RT, TO} \ {TO}
      /\ Confirmed \in {Calling, Trying, Proceeding, Completed, Confirmed}
      /\ Confirmed # Completed /\ Confirmed # Terminated /\ ~(Completed >= Terminated)
  BY DEF RT, TO, Calling, Trying, Proceeding, Completed, Confirmed, Terminated
<1>1. Good(k) /\ Akin(s, k) /\ k.tm[RT] = [armed |-> FALSE, id |-> Inactive]
  BY <1>0, CancelAkin, CancelDoes
<1> HIDE DEF k
<1>2. Good(a) /\ Akin(k, a) /\ a.tm = k.tm /\ ~Has(a, "PENDING_RESCHED")
  <2>1. Good(a)
    BY <1>1, LowerSafe DEF Safe
  <2>2. Beside(k, a) /\ a.tm = k.tm /\ ~Has(a, "PENDING_RESCHED")
    BY <1>1 DEF Good, TsxType, Lower, Beside, Has
  <2> HIDE DEF a
  <2> QED
    BY <2>1, <2>2, BesideAkin
<1> HIDE DEF a
<1>3. Good(b) /\ Beside(a, b) /\ b.flags = a.flags /\ b.tm[TO].armed /\ b.tm[RT] = a.tm[RT]
  BY <1>2, RestartTimed
<1> HIDE DEF b
<1>4. /\ t.role = b.role /\ t.invite = b.invite /\ t.reliable = b.reliable
      /\ t.state = Confirmed /\ t.registered = b.registered /\ t.resTp = b.resTp
      /\ t.tm = b.tm /\ t.flags = b.flags
  BY <1>0, <1>3, StateOnly
<1>5. OnAck(s) = t
  BY DEF OnAck, k, a, b
<1> HIDE DEF t
<1>6. Akin(s, t) /\ ~Rings(t) /\ t.tm[TO].armed
  BY <1>1, <1>2, <1>3, <1>4 DEF Akin, Beside, Rings, Has
<1>7. Calm(s, t)
  BY <1>0, <1>4, <1>6 DEF Calm, Tends, Kin, Endures, Repeats, Lasts, Silent, Timed, Erring, Awaits
<1> QED
  BY <1>5, <1>7

LEMMA TryingCalm ==
  ASSUME NEW s, Good(s), s.state = StNull
  PROVE  Calm(s, SetState(s, Trying))
<1> DEFINE t == SetState(s, Trying)
<1>1. /\ t.role = s.role /\ t.invite = s.invite /\ t.reliable = s.reliable
      /\ t.state = Trying /\ t.registered = s.registered /\ t.resTp = s.resTp
      /\ t.tm = s.tm /\ t.flags = s.flags
  BY StateOnly
<1> HIDE DEF t
<1>2. Calm(s, t)
  BY <1>1 DEF Calm, Tends, Akin, Kin, Endures, Repeats, Lasts, Silent, Timed, Erring, Awaits, Waits,
              Rings, Has, StNull, Calling, Trying, Proceeding, Completed, Confirmed, Terminated
<1> QED
  BY <1>2 DEF t

LEMMA OnRequestCalm ==
  ASSUME NEW s, Good(s), NEW m
  PROVE  CalmAll(s, OnRequest(s, m))
<1> DEFINE T == OnRequest(s, m)
           Stay == {s}
           Try == {SetState(s, Trying)}
           Answer == {o.tsx : o \in SendMsg(s, s.lastTx)}
           Again == Retransmit(s, FALSE)
           Confirm == {OnAck(s)}
<1>1. CalmAll(s, Stay) /\ CalmAll(s, Again)
  BY RetransmitTends, CalmRefl DEF CalmAll
<1>2. s.state = StNull => CalmAll(s, Try)
  BY TryingCalm DEF CalmAll
<1>3. s.state = Completed => CalmAll(s, Confirm)
  BY OnAckCalm DEF CalmAll
<1>4. s.lastTx # None => CalmAll(s, Answer)
  <2> SUFFICES ASSUME s.lastTx # None PROVE CalmAll(s, Answer)
    OBVIOUS
  <2>1. s.lastTx \in Msgs
    BY DEF Good, TsxType, MaybeMsg
  <2> QED
    BY <2>1, SendMsgCalm DEF CalmAll, CalmOuts
<1>5. T = CASE s.state = StNull -> Try
            [] s.state = Proceeding /\ s.lastTx # None -> Answer
            [] s.state = Completed /\ m = Request -> Again
            [] s.state = Completed /\ m = Ack /\ s.invite -> Confirm
            [] OTHER -> Stay
  BY Zenon DEF OnRequest
<1> HIDE DEF T, Stay, Try, Answer, Again, Confirm
<1>6. \/ s.state = StNull /\ T = Try
      \/ s.lastTx # None /\ T = Answer
      \/ s.state = Completed /\ T = Confirm
      \/ T = Again \/ T = Stay
  BY <1>5
<1>7. CalmAll(s, T)
  BY <1>1, <1>2, <1>3, <1>4, <1>6
<1> QED
  BY <1>7 DEF T

(* A request that is sent is timed. *)
LEMMA OnSendRequestTends ==
  ASSUME NEW s, Good(s), s.role = "UAC", NEW t \in OnSendRequest(s)
  PROVE  Tends(s, t)
<1> DEFINE q == [s EXCEPT !.lastTx = Request]
           r(o) == Restart(o.tsx, TO, TimeoutTimer)
           u(o) == IF r(o).reliable THEN r(o) ELSE StartRetransmission(r(o))
<1>0. /\ RT \in {RT, TO} /\ TO \in {RT, TO} \ {RT} /\ RT \in {RT, TO} \ {TO}
      /\ Request \in Msgs /\ Request \in MaybeMsg
      /\ Calling \in {Calling, Trying, Proceeding, Completed, Confirmed}
      /\ Calling # Terminated
  BY DEF RT, TO, Calling, Trying, Proceeding, Completed, Confirmed, Terminated, Msgs, MaybeMsg
<1>1. Good(q)
  BY <1>0, SafeRefl, Then DEF Safe
<1>2. Tends(s, q)
  BY DEF Good, TsxType, Tends, Akin, Kin, Endures, Repeats, Timed, Waits, Erring, Awaits,
         Rings, Has
<1>3. PICK o \in SendMsg(q, Request) :
        t = IF o.ok THEN SetState(u(o), Calling) ELSE o.tsx
  BY DEF OnSendRequest
<1> HIDE DEF q
<1>4. Good(o.tsx) /\ Tends(s, o.tsx)
  <2>1. Good(o.tsx) /\ Calm(q, o.tsx)
    BY <1>0, <1>1, SendMsgSafe, SendMsgCalm DEF SafeOuts, Safe, CalmOuts
  <2> QED
    BY <1>2, <2>1, TendsTrans DEF Calm
<1>5. CASE o.ok
  <2> DEFINE v == r(o)
             x == IF v.reliable THEN v ELSE StartRetransmission(v)
  <2>1. t = SetState(x, Calling)
    BY <1>3, <1>5
  <2>2. Good(v) /\ Beside(o.tsx, v) /\ v.tm[TO].armed /\ v.tm[RT] = o.tsx.tm[RT]
    BY <1>4, RestartTimed
  <2>3. Akin(o.tsx, v)
    BY <2>2, BesideAkin
  <2> HIDE DEF v
  <2>4. Good(StartRetransmission(v)) /\ Beside(v, StartRetransmission(v))
        /\ StartRetransmission(v).tm[TO] = v.tm[TO]
        /\ StartRetransmission(v).tm[RT].id \in {v.tm[RT].id, RetransmitTimer}
    BY <2>2, StartRetransmissionSafe, RingingDoes DEF Safe
  <2>5. Akin(v, StartRetransmission(v)) /\ Akin(v, v)
    BY <2>4, BesideAkin DEF Akin
  <2>6. Good(x) /\ Akin(v, x) /\ x.tm[TO].armed
    BY <2>2, <2>4, <2>5
  <2> HIDE DEF x
  <2>7. /\ t.role = x.role /\ t.invite = x.invite /\ t.reliable = x.reliable
        /\ t.state = Calling /\ t.registered = x.registered /\ t.resTp = x.resTp
        /\ t.tm = x.tm
    BY <1>0, <2>1, <2>6, StateOnly
  <2>8. Akin(s, o.tsx)
    BY <1>4 DEF Tends, Kin
  <2>9. Akin(s, t)
    BY <2>3, <2>6, <2>7, <2>8 DEF Akin
  <2> QED
    BY <1>0, <2>6, <2>7, <2>9, ClientKin DEF Tends, Endures, Timed, Erring
<1> QED
  BY <1>3, <1>4, <1>5

(* A provisional response: the server does not wait yet. *)
LEMMA AfterProvisionalAkin ==
  ASSUME NEW s, Good(s), NEW c \in Codes
  PROVE  Akin(s, AfterProvisional(s, c)) /\ AfterProvisional(s, c).state = Proceeding
<1> DEFINE l == [s EXCEPT !.lastTx = c]
           p == SetState(l, Proceeding)
           k == Cancel(p, RT)
           t == StartRetransmission(k)
<1>0. /\ Proceeding \in {Calling, Trying, Proceeding, Completed, Confirmed}
      /\ Proceeding \in StNull..Destroyed
  BY DEF StNull, Calling, Trying, Proceeding, Completed, Confirmed, Destroyed
<1>1. Good(l)
  BY SafeRefl, CodeRange, Then DEF Safe
<1>2. /\ l.role = s.role /\ l.invite = s.invite /\ l.reliable = s.reliable
      /\ l.registered = s.registered /\ l.resTp = s.resTp /\ l.tm = s.tm
  BY DEF Good, TsxType
<1>3. AfterProvisional(s, c) \in {p, t}
  BY DEF AfterProvisional
<1> HIDE DEF l
<1>4. Good(p)
  BY <1>0, <1>1, SetStateSafe DEF Safe
<1>5. /\ p.role = l.role /\ p.invite = l.invite /\ p.reliable = l.reliable
      /\ p.state = Proceeding /\ p.registered = l.registered /\ p.resTp = l.resTp
      /\ p.tm = l.tm
  BY <1>0, <1>1, StateOnly
<1> HIDE DEF p
<1>6. Good(k) /\ Akin(p, k) /\ k.state = p.state
  BY <1>4, Ids, CancelAkin
<1> HIDE DEF k
<1>7. Beside(k, t) /\ t.tm[RT].id \in {k.tm[RT].id, RetransmitTimer}
  BY <1>6, RingingDoes
<1> HIDE DEF t
<1>8. Akin(s, p)
  BY <1>2, <1>5 DEF Akin
<1>9. Akin(s, t) /\ t.state = Proceeding
  BY <1>5, <1>6, <1>7, <1>8, BesideAkin, AkinTrans DEF Beside
<1> QED
  BY <1>3, <1>5, <1>8, <1>9

(* A final response: either the transaction is over, or the server waits    *)
(* with both timers running, as far as they are needed.                     *)
LEMMA AfterFinalAkin ==
  ASSUME NEW s, Good(s), NEW c \in Codes
  PROVE  LET t == AfterFinal(s, c)
         IN  /\ Akin(s, t) /\ Timed(t) /\ ~Erring(t) /\ t.state \in {Completed, Terminated}
             /\ Awaits(t) => Rings(t) /\ t.lastTx # None
             /\ ~Silent(t)
<1> DEFINE q == Cancel(s, RT)
           retransmits == s.invite /\ (s.code < 300 \/ ~s.reliable)
           r == IF retransmits THEN StartRetransmission(q) ELSE q
           saved == [r EXCEPT !.lastTx = c]
           b == Restart(saved, TO, TimeoutTimer)
           u == SetState(q, Terminated)
           t == SetState(b, Completed)
<1>0. /\ Completed \in {Calling, Trying, Proceeding, Completed, Confirmed}
      /\ Completed # Terminated /\ c # None
  BY CodesAssumption DEF Calling, Trying, Proceeding, Completed, Confirmed, Terminated, None
<1>1. Good(q) /\ Akin(s, q) /\ q.state = s.state /\ q.reliable = s.reliable
  BY Ids, CancelAkin, CancelDoes
<1>2. AfterFinal(s, c) \in {u, t}
  BY DEF AfterFinal
<1> HIDE DEF q
<1>3. Calm(q, u) /\ u.state = Terminated /\ Timed(u) /\ ~Erring(u)
  <2> DEFINE x == Tell([q EXCEPT !.state = Terminated])
             y == Settle(x, Terminated)
  <2>1. Calm(q, u) /\ u.state = Terminated
    BY <1>1, TerminateCalm
  <2>2. Good(x)
    BY <1>1, States, StateDoes
  <2>3. u = y
    BY DEF SetState
  <2> HIDE DEF x
  <2>4. y.tm[TO].armed /\ y.tm[TO].id = TimeoutTimer
    BY <2>2, SettleTimed
  <2> HIDE DEF y, u
  <2> QED
    BY <2>1, <2>3, <2>4 DEF Timed, Erring, TimeoutTimer, TransportErrTimer
<1>4. /\ Good(r) /\ Beside(q, r) /\ r.reliable = q.reliable
      /\ r.tm[RT].id \in {q.tm[RT].id, RetransmitTimer}
      /\ s.invite /\ ~s.reliable => Rings(r) /\ (r.tm[RT].armed \/ Has(r, "PENDING_TRANSPORT"))
  <2>1. LET x == StartRetransmission(q)
        IN  /\ Good(x) /\ Beside(q, x) /\ x.reliable = q.reliable
            /\ Rings(x) /\ (x.tm[RT].armed \/ Has(x, "PENDING_TRANSPORT"))
            /\ x.tm[RT].id \in {q.tm[RT].id, RetransmitTimer}
    BY <1>1, StartRetransmissionSafe, RingingDoes DEF Safe
  <2>2. Beside(q, q)
    BY DEF Beside
  <2> QED
    BY <1>1, <2>1, <2>2
<1> HIDE DEF r
<1>5. Good(saved)
  BY <1>4, SafeRefl, CodeRange, Then DEF Safe
<1>6. /\ saved.role = r.role /\ saved.invite = r.invite /\ saved.reliable = r.reliable
      /\ saved.registered = r.registered /\ saved.resTp = r.resTp /\ saved.tm = r.tm
      /\ saved.flags = r.flags /\ saved.lastTx = c
  BY <1>4 DEF Good, TsxType
<1> HIDE DEF saved
<1>7. /\ Good(b) /\ Beside(saved, b) /\ b.flags = saved.flags /\ b.reliable = saved.reliable
      /\ b.tm[TO].armed /\ b.tm[RT] = saved.tm[RT]
  BY <1>5, RestartTimed
<1> HIDE DEF b
<1>8. /\ t.role = b.role /\ t.invite = b.invite /\ t.reliable = b.reliable
      /\ t.state = Completed /\ t.registered = b.registered /\ t.resTp = b.resTp
      /\ t.lastTx = b.lastTx /\ t.tm = b.tm /\ t.flags = b.flags
  BY <1>0, <1>7, StateOnly
<1> HIDE DEF t, u
<1>9. Akin(q, r)
  BY <1>4, BesideAkin
<1>10. /\ Akin(r, t) /\ t.tm[TO].armed /\ t.lastTx = c /\ (Rings(r) => Rings(t))
       /\ t.tm[RT] = r.tm[RT] /\ (Has(r, "PENDING_TRANSPORT") => Has(t, "PENDING_TRANSPORT"))
  BY <1>6, <1>7, <1>8 DEF Akin, Beside, Rings, Has
<1>11. Akin(s, t) /\ Akin(s, u)
  BY <1>1, <1>3, <1>9, <1>10, AkinTrans DEF Calm, Tends, Kin
<1>12. (Awaits(t) => Rings(t)) /\ ~Silent(t)
  <2>1. t.invite = s.invite /\ t.reliable = s.reliable
    BY <1>1, <1>4, <1>6, <1>7, <1>8 DEF Akin, Beside
  <2> QED
    BY <1>4, <1>10, <2>1 DEF Awaits, Silent
<1>13. Timed(t) /\ ~Erring(t) /\ ~Awaits(u) /\ ~Silent(u)
  BY <1>0, <1>3, <1>8, <1>10 DEF Timed, Erring, Awaits, Silent
<1> QED
  BY <1>0, <1>2, <1>3, <1>8, <1>10, <1>11, <1>12, <1>13

LEMMA OnSendResponseCalm ==
  ASSUME NEW s, Good(s), s.role = "UAS", s.state \in {Trying, Proceeding},
         NEW c \in Codes, NEW t \in OnSendResponse(s, c)
  PROVE  Calm(s, t)
<1> DEFINE m == IF s.lastTx = c THEN c ELSE None
           k == [s EXCEPT !.code = c]
           d == [s EXCEPT !.code = c, !.lastTx = m]
           e == [k EXCEPT !.lastTx = m]
<1>0. /\ m \in MaybeMsg /\ c \in 0..699 /\ c \in Msgs
      /\ s.state # Completed /\ s.state # Terminated /\ ~(s.state >= Terminated)
      /\ Proceeding # Completed /\ Proceeding # Terminated
  BY CodeRange DEF MaybeMsg, Trying, Proceeding, Completed, Terminated
<1>1. PICK o \in SendMsg(d, c) :
        t = CASE ~o.ok -> o.tsx
              [] o.ok /\ o.tsx.code < 200 -> AfterProvisional(o.tsx, c)
              [] OTHER -> AfterFinal(o.tsx, c)
  BY DEF OnSendResponse
<1>2. Calm(s, d)
  BY <1>0 DEF Good, TsxType, Calm, Tends, Akin, Kin, Endures, Repeats, Lasts, Silent, Timed, Waits,
              Erring, Awaits, Rings, Has
<1>3. d = e
  BY DEF Good, TsxType
<1> HIDE DEF m
<1>4. Good(k)
  BY <1>0, SafeRefl, Then DEF Safe
<1> HIDE DEF k
<1>5. Good(e)
  BY <1>0, <1>4, SafeRefl, Then DEF Safe
<1> HIDE DEF d, e
<1>6. Good(o.tsx) /\ Calm(s, o.tsx)
  <2>1. Good(o.tsx) /\ Calm(d, o.tsx)
    BY <1>0, <1>1, <1>3, <1>5, SendMsgSafe, SendMsgCalm DEF SafeOuts, Safe, CalmOuts
  <2> QED
    BY <1>2, <2>1, CalmTrans
<1>7. Akin(s, o.tsx) /\ Calm(s, o.tsx)
  BY <1>6 DEF Calm, Tends, Kin
<1>8. CASE t = AfterProvisional(o.tsx, c)
  <2>1. Akin(s, t) /\ t.state = Proceeding
    BY <1>6, <1>7, <1>8, AfterProvisionalAkin, AkinTrans
  <2>2. ~Waits(t) /\ ~Awaits(t) /\ ~Erring(t)
    BY <1>0, <2>1 DEF Akin, Waits, Awaits, Erring, Calling, Proceeding, Completed, Confirmed,
       Terminated
  <2> QED
    BY <1>0, <2>1, <2>2 DEF Calm, Tends, Kin, Endures, Repeats, Lasts, Silent
<1>9. CASE t = AfterFinal(o.tsx, c)
  <2>1. /\ Akin(s, t) /\ Timed(t) /\ ~Erring(t) /\ ~Silent(t)
        /\ Awaits(t) => Rings(t) /\ t.lastTx # None
    BY <1>6, <1>7, <1>9, AfterFinalAkin, AkinTrans
  <2> QED
    BY <1>0, <2>1 DEF Calm, Tends, Kin, Endures, Repeats, Lasts
<1> QED
  BY <1>1, <1>7, <1>8, <1>9

(* The retransmission timer: a transaction that has terminated is gone, a   *)
(* server that waits goes on retransmitting.                                *)
LEMMA OnRetransmitTimerTends ==
  ASSUME NEW s, Good(s), Awaits(s) => s.lastTx # None, NEW t \in OnRetransmitTimer(s)
  PROVE  /\ Tends(s, t)
         /\ Awaits(t) => Rings(t)
         /\ ~Silent(t)
         /\ s.state = Terminated => Timed(t)
<1> DEFINE Again == Retransmit(s, TRUE)
           Gone == {SetState(s, Destroyed)}
<1>1. OnRetransmitTimer(s) =
        CASE s.state \in {Calling, Proceeding} -> Again
          [] s.state = Completed /\ s.role = "UAS" -> Again
          [] s.state = Terminated -> Gone
          [] OTHER -> {s}
  BY Zenon DEF OnRetransmitTimer
<1> HIDE DEF Again, Gone
<1>2. \/ s.state # Terminated /\ t \in Again
      \/ t \in Gone
      \/ s.state # Terminated /\ ~Awaits(s) /\ t = s
  BY <1>1 DEF Awaits, Calling, Proceeding, Completed, Terminated
<1>3. ASSUME s.state # Terminated, t \in Again
      PROVE  Tends(s, t) /\ (Awaits(t) => Rings(t)) /\ ~Silent(t)
  <2>1. Tends(s, t) /\ (s.lastTx # None => (Awaits(t) => Rings(t)) /\ ~Silent(t))
    BY <1>3, RetransmitTends DEF Again
  <2>2. s.lastTx = None => t = s
    BY <1>3 DEF Again, Retransmit
  <2> QED
    BY <2>1, <2>2 DEF Silent
<1>4. ASSUME t \in Gone PROVE Tends(s, t) /\ ~Awaits(t) /\ Timed(t)
  <2> DEFINE u == Tell([s EXCEPT !.state = Destroyed])
  <2>1. t = Settle(u, Destroyed) /\ Calm(s, t)
    BY <1>4, DestroyCalm DEF Gone, SetState
  <2>2. Good(u) /\ u.state = Destroyed
    BY States, StateDoes
  <2> HIDE DEF u
  <2>3. ~t.registered /\ t.state = Destroyed
    BY <2>1, <2>2, SettleGone
  <2> QED
    BY <2>1, <2>3 DEF Calm, Timed, Awaits, Completed, Destroyed
<1> QED
  BY <1>2, <1>3, <1>4, CalmRefl DEF Calm, Silent

(* The timeout timer ends every state in which a transaction waits. *)
LEMMA OnTimeoutDoes ==
  ASSUME NEW s, Good(s)
  PROVE  LET t == OnTimeout(s)
         IN  /\ Akin(s, t)
             /\ t.state = s.state => t = s /\ ~Waits(s)
             /\ t.state # s.state => t.state \in {Terminated, Destroyed}
<1> DEFINE k == Cancel(s, RT)
           q == Lower(k, {"PENDING_RESCHED"})
           a == [q EXCEPT !.code = TsxTimeout, !.state = Terminated]
           b == [s EXCEPT !.code = TsxTimeout, !.state = Terminated]
           c == [s EXCEPT !.state = Terminated]
           d == [s EXCEPT !.state = Destroyed]
           t == OnTimeout(s)
<1>1. /\ s.state = Calling => t = a
      /\ s.state = Proceeding => t = b
      /\ s.state = Completed => t \in {b, c}
      /\ s.state = Confirmed => t = c
      /\ s.state = Terminated => t = d
      /\ s.state \notin {Calling, Proceeding, Completed, Confirmed, Terminated} => t = s
  BY DEF OnTimeout, Calling, Proceeding, Completed, Confirmed, Terminated
<1>2. Good(k) /\ Akin(s, k)
  BY Ids, CancelAkin
<1> HIDE DEF k
<1>3. Good(q) /\ Akin(k, q)
  <2>1. Good(q)
    BY <1>2, LowerSafe DEF Safe
  <2>2. Beside(k, q) /\ q.tm = k.tm
    BY <1>2 DEF Good, TsxType, Lower, Beside
  <2> HIDE DEF q
  <2> QED
    BY <2>1, <2>2, BesideAkin
<1> HIDE DEF q
<1>4. Akin(q, a) /\ a.state = Terminated
  BY <1>3 DEF Good, TsxType, Akin
<1>5. Akin(s, b) /\ b.state = Terminated
  BY DEF Good, TsxType, Akin
<1>6. Akin(s, c) /\ c.state = Terminated /\ Akin(s, d) /\ d.state = Destroyed
  BY DEF Good, TsxType, Akin
<1>7. Akin(s, a)
  BY <1>2, <1>3, <1>4, AkinTrans
<1>8. Akin(s, s)
  BY DEF Akin
<1> HIDE DEF a, b, c, d, t
<1>9. Akin(s, t) /\ (t.state = s.state => t = s /\ ~Waits(s))
      /\ (t.state # s.state => t.state \in {Terminated, Destroyed})
  <2>1. CASE s.state = Terminated
    BY <1>1, <1>6, <2>1 DEF Terminated, Destroyed
  <2>2. CASE s.state \in {Calling, Proceeding, Completed, Confirmed}
    BY <1>1, <1>4, <1>5, <1>6, <1>7, <2>2
       DEF Calling, Proceeding, Completed, Confirmed, Terminated
  <2>3. CASE s.state \notin {Calling, Proceeding, Completed, Confirmed, Terminated}
    BY <1>1, <1>8, <2>3 DEF Waits
  <2> QED
    BY <2>1, <2>2, <2>3
<1> QED
  BY <1>9 DEF t
-----------------------------------------------------------------------------
(* The steps.  What a worker does that stands in p: it is about to inform   *)
(* the user that the transaction has terminated, and will then restart the  *)
(* timeout timer;                                                           *)
Warns(p) == p.at \in {"tell", "told"} /\ p.arg = Terminated

(* it is on its way with a timer that ends the wait, or restarts the        *)
(* timeout timer;                                                           *)
Drives(p, s) ==
  /\ p.at \notin {"idle", "rx", "sent", "failed", "final"}
  /\ p.arg # RT \/ s.state = Terminated

(* or it has taken out the retransmission timer.                            *)
Calls(p) == p.at \in {"timer", "event"} /\ p.arg = RT

(* A server that waits retransmits, if the starts that are put off are taken*)
(* for retransmissions: what UasRetransmits is but for transport_callback.  *)
Retransmits ==
  Awaits(tsx) => Rings(tsx) \/ \E w \in Workers : Calls(pc[w])

(* What NeverStranded and Retransmits need besides each other.  Only a      *)
(* server has a transport to answer on; a response is saved before the      *)
(* server waits for its ACK; the retransmission timer never stands for a    *)
(* transport error; a worker that completes a response has a client in hand,*)
(* one that informs the user of a server has already changed its state; and *)
(* a timer that was overtaken will be replaced.                             *)
WInv ==
  /\ tsx.role = "UAC" => ~tsx.resTp
  /\ tsx.tm[RT].id # TransportErrTimer
  /\ Awaits(tsx) => tsx.lastTx # None
  /\ \A w \in Workers : pc[w].at = "final" => tsx.role = "UAC"
  /\ \A w \in Workers :
       tsx.role = "UAS" /\ pc[w].at \in {"tell", "told"} => tsx.state >= Terminated
  /\ Erring(tsx) => \E w \in Workers : Warns(pc[w])

Timely == WInv /\ NeverStranded /\ Retransmits

LEMMA StrandedIs ==
  NeverStranded
    <=> (LockFree /\ Waits(tsx) => Timed(tsx) \/ \E w \in Workers : Drives(pc[w], tsx))
BY DEF NeverStranded, Driven, Waiting, Waits, Timed, Drives

(* When no worker moves.  (Kin, in these lemmas, says that it stays the     *)
(* transaction it is.)                                                      *)
LEMMA Passive ==
  ASSUME Timely, UNCHANGED pc, Tends(tsx, tsx')
  PROVE  Timely' /\ Kin(tsx, tsx')
<1>1. WInv'
  BY DEF Timely, WInv, Tends, Kin, Akin
<1>2. NeverStranded'
  <2>1. LockFree' /\ Waits(tsx') => Timed(tsx') \/ \E w \in Workers : Drives(pc'[w], tsx')
    BY StrandedIs DEF Timely, Tends, Endures, LockFree, Drives
  <2> QED
    BY <2>1 DEF NeverStranded, Driven, Waiting, Waits, Timed, Drives
<1>3. Retransmits'
  <2>1. Awaits(tsx') => Rings(tsx') \/ \E w \in Workers : Calls(pc'[w])
    BY DEF Timely, Retransmits, Tends, Repeats
  <2> QED
    BY <2>1 DEF Retransmits
<1> QED
  BY <1>1, <1>2, <1>3 DEF Timely, Tends

(* When one does. *)
LEMMA Moved ==
  ASSUME IInv, NEW w \in Workers, NEW q, pc' = [pc EXCEPT ![w] = q]
  PROVE  pc'[w] = q /\ \A v \in Workers : v # w => pc'[v] = pc[v]
BY DEF IInv

LEMMA MoveWInv ==
  ASSUME IInv, WInv, NEW w \in Workers, NEW q, pc' = [pc EXCEPT ![w] = q],
         Kin(tsx, tsx'),
         Erring(tsx') => Erring(tsx) \/ Warns(q),
         Warns(pc[w]) => Warns(q) \/ ~Erring(tsx'),
         q.at = "final" => tsx.role = "UAC",
         tsx.role = "UAS" /\ q.at \in {"tell", "told"} => tsx'.state >= Terminated
  PROVE  WInv'
<1>1. pc'[w] = q /\ \A v \in Workers : v # w => pc'[v] = pc[v]
  BY Moved
<1>2. /\ tsx'.role = "UAC" => ~tsx'.resTp
      /\ tsx'.tm[RT].id # TransportErrTimer
      /\ Awaits(tsx') => tsx'.lastTx # None
  BY DEF WInv, Kin, Akin
<1>3. \A v \in Workers : pc'[v].at = "final" => tsx'.role = "UAC"
  BY <1>1 DEF WInv, Kin, Akin
<1>4. \A v \in Workers :
        tsx'.role = "UAS" /\ pc'[v].at \in {"tell", "told"} => tsx'.state >= Terminated
  BY <1>1 DEF WInv, Kin, Akin
<1>5. Erring(tsx') => \E v \in Workers : Warns(pc'[v])
  BY <1>1 DEF WInv
<1> QED
  BY <1>2, <1>3, <1>4, <1>5 DEF WInv

LEMMA MoveStranded ==
  ASSUME IInv, NeverStranded, NEW w \in Workers, NEW q, pc' = [pc EXCEPT ![w] = q],
         pc[w].at # "final",
         Endures(tsx, tsx'),
         Drives(pc[w], tsx) => Drives(q, tsx') \/ Timed(tsx') \/ ~Waits(tsx')
  PROVE  NeverStranded'
<1>1. pc'[w] = q /\ \A v \in Workers : v # w => pc'[v] = pc[v]
  BY Moved
<1>2. LockFree' => LockFree
  BY <1>1 DEF LockFree
<1>3. ASSUME LockFree', Waits(tsx'), ~Timed(tsx')
      PROVE  \E v \in Workers : Drives(pc'[v], tsx')
  <2>1. /\ Waits(tsx) /\ ~Timed(tsx)
        /\ tsx'.state = Terminated <=> tsx.state = Terminated
    BY <1>3 DEF Endures
  <2>2. PICK v \in Workers : Drives(pc[v], tsx)
    BY <1>2, <1>3, <2>1, StrandedIs
  <2>3. v # w => Drives(pc'[v], tsx')
    BY <1>1, <2>1, <2>2 DEF Drives
  <2> QED
    BY <1>1, <1>3, <2>2, <2>3
<1> QED
  BY <1>3 DEF NeverStranded, Driven, Waiting, Waits, Timed, Drives

LEMMA MoveDriven ==
  ASSUME IInv, NEW w \in Workers, NEW q, pc' = [pc EXCEPT ![w] = q],
         Drives(q, tsx') \/ Timed(tsx') \/ q.at = "final"
  PROVE  NeverStranded'
<1>1. pc'[w] = q
  BY Moved
<1> QED
  BY <1>1 DEF NeverStranded, Driven, Waiting, Timed, Drives, LockFree

LEMMA MoveRetransmits ==
  ASSUME IInv, Retransmits, NEW w \in Workers, NEW q, pc' = [pc EXCEPT ![w] = q],
         Repeats(tsx, tsx') \/ Calls(q),
         Calls(pc[w]) => Calls(q) \/ (Awaits(tsx') => Rings(tsx'))
  PROVE  Retransmits'
<1>1. pc'[w] = q /\ \A v \in Workers : v # w => pc'[v] = pc[v]
  BY Moved
<1>2. ASSUME Awaits(tsx'), ~Rings(tsx') PROVE \E v \in Workers : Calls(pc'[v])
  <2>1. CASE Calls(q)
    BY <1>1, <2>1
  <2>2. CASE ~Calls(q)
    <3>1. Awaits(tsx) /\ ~Rings(tsx)
      BY <1>2, <2>2 DEF Repeats
    <3>2. PICK v \in Workers : Calls(pc[v])
      BY <3>1 DEF Retransmits
    <3> QED
      BY <1>1, <1>2, <2>2, <3>2
  <2> QED
    BY <2>1, <2>2
<1> QED
  BY <1>2 DEF Retransmits

(* Taken together, for a worker that holds no timer, neither before nor     *)
(* after the step.                                                          *)
Bare == {"idle", "rx", "sent", "failed"}

LEMMA Simply ==
  ASSUME IInv, Timely, NEW w \in Workers, NEW q, pc' = [pc EXCEPT ![w] = q],
         pc[w].at \in Bare, q.at \in Bare, Tends(tsx, tsx')
  PROVE  Timely' /\ Kin(tsx, tsx')
<1>1. /\ ~Warns(pc[w]) /\ ~Drives(pc[w], tsx) /\ ~Calls(pc[w]) /\ pc[w].at # "final"
      /\ q.at \notin {"final", "tell", "told"}
  BY DEF Bare, Warns, Drives, Calls
<1>2. /\ WInv /\ NeverStranded /\ Retransmits
      /\ Kin(tsx, tsx') /\ (Erring(tsx') => Erring(tsx))
      /\ Endures(tsx, tsx') /\ Repeats(tsx, tsx')
  BY DEF Timely, Tends
<1>3. WInv'
  BY <1>1, <1>2, MoveWInv
<1>4. NeverStranded'
  BY <1>1, <1>2, MoveStranded
<1>5. Retransmits'
  BY <1>1, <1>2, MoveRetransmits
<1> QED
  BY <1>3, <1>4, <1>5, <1>2 DEF Timely, Tends

(* For a worker that is done with its timer. *)
LEMMA TimerDone ==
  ASSUME IInv, Timely, NEW w \in Workers, pc' = [pc EXCEPT ![w] = Idle],
         pc[w].at # "final",
         Tends(tsx, tsx'),
         Warns(pc[w]) => ~Erring(tsx'),
         Drives(pc[w], tsx) => Timed(tsx') \/ ~Waits(tsx'),
         Calls(pc[w]) => (Awaits(tsx') => Rings(tsx'))
  PROVE  Timely' /\ Kin(tsx, tsx')
<1>1. Idle.at \notin {"final", "tell", "told"}
  BY DEF Idle
<1>2. /\ WInv /\ NeverStranded /\ Retransmits
      /\ Kin(tsx, tsx') /\ (Erring(tsx') => Erring(tsx))
      /\ Endures(tsx, tsx') /\ Repeats(tsx, tsx')
  BY DEF Timely, Tends
<1>3. WInv'
  BY <1>1, <1>2, MoveWInv
<1>4. NeverStranded'
  BY <1>2, MoveStranded
<1>5. Retransmits'
  BY <1>2, MoveRetransmits
<1> QED
  BY <1>3, <1>4, <1>5, <1>2 DEF Timely, Tends

(* The reference a worker gives back counts for none of this. *)
LEMMA DecRefTends ==
  ASSUME NEW s, NEW t, Good(t)
  PROVE  /\ Tends(s, t) => Tends(s, DecRef(t))
         /\ Kin(s, t) => Kin(s, DecRef(t))
         /\ Repeats(s, t) => Repeats(s, DecRef(t))
         /\ Erring(DecRef(t)) <=> Erring(t)
         /\ Timed(DecRef(t)) <=> Timed(t)
         /\ Waits(DecRef(t)) <=> Waits(t)
         /\ Awaits(DecRef(t)) <=> Awaits(t)
         /\ Rings(DecRef(t)) <=> Rings(t)
<1> DEFINE u == DecRef(t)
<1>1. Tends(t, u)
  BY SmallAsides, AsideCalm DEF Calm
<1>2. /\ u.tm = t.tm /\ u.flags = t.flags /\ u.role = t.role /\ u.invite = t.invite
      /\ u.state = t.state /\ u.registered = t.registered /\ u.reliable = t.reliable
  BY DEF DecRef, Good, TsxType
<1> HIDE DEF u
<1>3. /\ Erring(u) <=> Erring(t)
      /\ Timed(u) <=> Timed(t)
      /\ Waits(u) <=> Waits(t)
      /\ Awaits(u) <=> Awaits(t)
      /\ Rings(u) <=> Rings(t)
  BY <1>2 DEF Erring, Timed, Waits, Awaits, Rings, Has
<1>4. /\ Tends(s, t) => Tends(s, u)
      /\ Kin(s, t) => Kin(s, u)
      /\ Repeats(s, t) => Repeats(s, u)
  BY <1>1, <1>3, TendsTrans, KinTrans DEF Tends, Repeats
<1> QED
  BY <1>3, <1>4 DEF u

(* An entry that leaves the heap, or loses its id. *)
LEMMA EntryDoes ==
  ASSUME NEW s, Good(s), NEW e \in {RT, TO}
  PROVE  /\ LET t == [s EXCEPT !.tm[e].armed = FALSE]
             IN  /\ Beside(s, t) /\ t.flags = s.flags
                 /\ t.tm[RT].id = s.tm[RT].id /\ t.tm[TO].id = s.tm[TO].id
                 /\ \A d \in {RT, TO} \ {e} : t.tm[d] = s.tm[d]
         /\ LET t == [s EXCEPT !.tm[e].id = Inactive]
             IN  /\ Beside(s, t) /\ t.flags = s.flags /\ t.tm[e].id = Inactive
                 /\ t.tm[RT].armed = s.tm[RT].armed /\ t.tm[TO].armed = s.tm[TO].armed
                 /\ \A d \in {RT, TO} \ {e} : t.tm[d] = s.tm[d]
<1> DEFINE t == [s EXCEPT !.tm[e].armed = FALSE]
           u == [s EXCEPT !.tm[e].id = Inactive]
<1>1. Beside(s, t) /\ t.flags = s.flags /\ Beside(s, u) /\ u.flags = s.flags
  BY DEF Good, TsxType, Beside
<1>2. s.tm \in Timers /\ t.tm = [s.tm EXCEPT ![e].armed = FALSE]
      /\ u.tm = [s.tm EXCEPT ![e].id = Inactive]
  BY DEF Good, TsxType
<1>3. /\ t.tm[RT].id = s.tm[RT].id /\ t.tm[TO].id = s.tm[TO].id
      /\ \A d \in {RT, TO} \ {e} : t.tm[d] = s.tm[d]
  BY <1>2 DEF Timers
<1>4. /\ u.tm[e].id = Inactive
      /\ u.tm[RT].armed = s.tm[RT].armed /\ u.tm[TO].armed = s.tm[TO].armed
      /\ \A d \in {RT, TO} \ {e} : u.tm[d] = s.tm[d]
  BY <1>2 DEF Timers
<1> QED
  BY <1>1, <1>3, <1>4

LEMMA ClearIdTends ==
  ASSUME NEW s, Good(s), NEW e \in {RT, TO}
  PROVE  LET t == [s EXCEPT !.tm[e].id = Inactive]
         IN  Tends(s, t) /\ t.state = s.state /\ (e = TO => ~Erring(t))
<1> DEFINE t == [s EXCEPT !.tm[e].id = Inactive]
<1>1. /\ Beside(s, t) /\ t.flags = s.flags /\ t.tm[e].id = Inactive
      /\ t.tm[RT].armed = s.tm[RT].armed /\ t.tm[TO].armed = s.tm[TO].armed
      /\ \A d \in {RT, TO} \ {e} : t.tm[d] = s.tm[d]
  BY EntryDoes
<1> HIDE DEF t
<1>2. /\ t.tm[RT].id \in {s.tm[RT].id, Inactive} /\ t.tm[TO].id \in {s.tm[TO].id, Inactive}
      /\ (e = TO => t.tm[TO].id = Inactive)
  BY <1>1 DEF RT, TO
<1>3. Tends(s, t) /\ t.state = s.state /\ (e = TO => ~Erring(t))
  BY <1>1, <1>2 DEF Beside, Tends, Akin, Kin, Endures, Repeats, Timed, Waits, Erring, Awaits,
                    Rings, Has, Inactive, TransportErrTimer
<1> QED
  BY <1>3 DEF t

LEMMA PopTimerTimely ==
  ASSUME IInv, Timely, NEW w \in Workers, NEW e \in {RT, TO}, PopTimer(w, e)
  PROVE  Timely' /\ Kin(tsx, tsx')
<1> DEFINE q == [at |-> "timer", arg |-> e]
<1>1. /\ pc[w] = Idle /\ pc' = [pc EXCEPT ![w] = q]
      /\ tsx' = [tsx EXCEPT !.tm[e].armed = FALSE]
  BY DEF PopTimer, Go
<1>2. /\ Beside(tsx, tsx') /\ tsx'.flags = tsx.flags
      /\ tsx'.tm[RT].id = tsx.tm[RT].id /\ tsx'.tm[TO].id = tsx.tm[TO].id
      /\ \A d \in {RT, TO} \ {e} : tsx'.tm[d] = tsx.tm[d]
  BY <1>1, Facts, EntryDoes
<1>3. Kin(tsx, tsx') /\ (Erring(tsx') => Erring(tsx))
  BY <1>2 DEF Beside, Kin, Akin, Erring, Awaits
<1>4. /\ ~Warns(pc[w]) /\ ~Drives(pc[w], tsx) /\ ~Calls(pc[w]) /\ pc[w].at # "final"
      /\ q.at \notin {"final", "tell", "told"}
      /\ (e = RT => Calls(q)) /\ (e = TO => Drives(q, tsx'))
  BY <1>1 DEF Idle, Warns, Drives, Calls, RT, TO
<1> HIDE DEF q
<1>5. WInv'
  BY <1>1, <1>3, <1>4, MoveWInv DEF Timely
<1>6. e = RT => tsx'.tm[TO] = tsx.tm[TO] /\ RT # TO
  BY <1>2 DEF RT, TO
<1>7. e = TO => tsx'.tm[RT] = tsx.tm[RT]
  BY <1>2 DEF RT, TO
<1>8. NeverStranded'
  <2>1. CASE e = RT
    <3>1. Endures(tsx, tsx')
      BY <1>2, <1>6, <2>1 DEF Beside, Endures, Timed, Waits
    <3> QED
      BY <1>1, <1>4, <3>1, MoveStranded DEF Timely
  <2>2. CASE e = TO
    BY <1>1, <1>4, <2>2, MoveDriven
  <2> QED
    BY <2>1, <2>2
<1>9. Retransmits'
  <2>1. CASE e = RT
    BY <1>1, <1>4, <2>1, MoveRetransmits DEF Timely
  <2>2. CASE e = TO
    <3>1. Repeats(tsx, tsx')
      BY <1>2, <1>7, <2>2 DEF Beside, Repeats, Awaits, Rings, Has
    <3> QED
      BY <1>1, <1>4, <3>1, MoveRetransmits DEF Timely
  <2> QED
    BY <2>1, <2>2
<1> QED
  BY <1>5, <1>8, <1>9, <1>3 DEF Timely, Tends

LEMMA StaleTimerTimely ==
  ASSUME IInv, Timely, NEW w \in Workers, StaleTimer(w)
  PROVE  Timely' /\ Kin(tsx, tsx')
<1>1. pc' = [pc EXCEPT ![w] = Idle] /\ pc[w].at = "timer" /\ tsx' = DecRef(tsx)
      /\ tsx.state = Destroyed
  BY DEF StaleTimer, Return
<1>2. /\ Tends(tsx, tsx')
      /\ Waits(tsx') <=> Waits(tsx)
      /\ Awaits(tsx') <=> Awaits(tsx)
  BY <1>1, Facts, DecRefTends, CalmRefl DEF Calm
<1>3. ~Waits(tsx) /\ ~Awaits(tsx)
  BY <1>1 DEF Waits, Awaits, Calling, Proceeding, Completed, Confirmed, Terminated, Destroyed
<1>4. ~Warns(pc[w]) /\ pc[w].at # "final"
  BY <1>1 DEF Warns
<1> QED
  BY <1>1, <1>2, <1>3, <1>4, TimerDone

(* A transport error that was overtaken is dropped: another worker is about *)
(* to restart the timeout timer.                                            *)
LEMMA TransportErrorTimerTimely ==
  ASSUME IInv, Timely, NEW w \in Workers, TransportErrorTimer(w)
  PROVE  Timely' /\ Kin(tsx, tsx')
<1> DEFINE e == pc[w].arg
           s == [tsx EXCEPT !.tm[e].id = Inactive]
<1>1. /\ pc[w].at = "timer" /\ tsx.state < Destroyed /\ tsx.tm[e].id = TransportErrTimer
      /\ IF tsx.state < Terminated THEN tsx' = s /\ Go(w, "terr", 0) ELSE Return(w, s)
  BY DEF TransportErrorTimer
<1>2. e \in {RT, TO}
  BY <1>1, Facts DEF ArgOK
<1>3. e = TO
  BY <1>1, <1>2 DEF Timely, WInv
<1>4. Good(s) /\ Tends(tsx, s) /\ s.state = tsx.state /\ ~Erring(s)
  <2>1. Good(s)
    BY <1>2, Facts, ClearIdSafe DEF Safe
  <2> QED
    BY <1>2, <1>3, <2>1, Facts, ClearIdTends
<1> HIDE DEF s
<1>5. ~Calls(pc[w]) /\ ~Warns(pc[w]) /\ pc[w].at # "final"
  BY <1>1, <1>3 DEF Calls, Warns, RT, TO
<1> HIDE DEF e
<1>6. CASE tsx.state < Terminated
  <2> DEFINE q == [at |-> "terr", arg |-> 0]
  <2>1. tsx' = s /\ pc' = [pc EXCEPT ![w] = q]
    BY <1>1, <1>6 DEF Go
  <2>2. q.at \notin {"final", "tell", "told"} /\ Drives(q, tsx')
    BY DEF Drives, RT
  <2> HIDE DEF q
  <2>3. WInv'
    BY <1>4, <1>5, <2>1, <2>2, MoveWInv DEF Timely, Tends
  <2>4. NeverStranded'
    BY <2>1, <2>2, MoveDriven
  <2>5. Retransmits'
    BY <1>4, <1>5, <2>1, MoveRetransmits DEF Timely, Tends
  <2> QED
    BY <2>3, <2>4, <2>5, <1>4, <2>1 DEF Timely, Tends
<1>7. CASE ~(tsx.state < Terminated)
  <2>1. tsx' = DecRef(s) /\ pc' = [pc EXCEPT ![w] = Idle]
    BY <1>1, <1>7 DEF Return
  <2>2. tsx.state = Terminated
    <3>1. tsx.state \in StNull..Destroyed
      BY Facts DEF TsxType
    <3> QED
      BY <1>1, <1>7, <3>1 DEF StNull, Terminated, Destroyed
  <2>3. Tends(tsx, tsx') /\ ~Erring(tsx')
    BY <1>4, <2>1, DecRefTends
  <2>4. Idle.at \notin {"final", "tell", "told"}
    BY DEF Idle
  <2>5. WInv'
    BY <1>5, <2>1, <2>3, <2>4, MoveWInv DEF Timely, Tends
  <2>6. Retransmits'
    BY <1>5, <2>1, <2>3, MoveRetransmits DEF Timely, Tends
  <2>7. NeverStranded'
    <3>1. tsx'.state = tsx.state /\ tsx'.registered = tsx.registered
      <4>1. tsx'.state = s.state /\ tsx'.registered = s.registered
        BY <1>4, <2>1 DEF DecRef, Good, TsxType
      <4>2. s.registered = tsx.registered
        BY Facts DEF s, TsxType
      <4> QED
        BY <1>4, <4>1, <4>2
    <3>2. CASE tsx.registered
      <4>1. Erring(tsx)
        BY <1>1, <1>3, <2>2, <3>2 DEF Erring
      <4>2. PICK v \in Workers : Warns(pc[v])
        BY <4>1 DEF Timely, WInv
      <4>3. pc'[v] = pc[v]
        BY <1>5, <2>1, <4>2, Moved
      <4>4. Drives(pc'[v], tsx')
        BY <4>2, <4>3 DEF Warns, Drives, RT, Terminated
      <4> QED
        BY <4>4 DEF NeverStranded, Driven, Drives
    <3>3. CASE ~tsx.registered
      BY <3>1, <3>3 DEF NeverStranded
    <3> QED
      BY <3>2, <3>3
  <2> QED
    BY <2>5, <2>6, <2>7, <2>3 DEF Timely, Tends
<1> QED
  BY <1>6, <1>7

LEMMA TimerEventTimely ==
  ASSUME IInv, Timely, NEW w \in Workers, TimerEvent(w)
  PROVE  Timely' /\ Kin(tsx, tsx')
<1> DEFINE e == pc[w].arg
           q == [at |-> "event", arg |-> e]
<1>1. /\ pc[w].at = "timer" /\ tsx' = [tsx EXCEPT !.tm[e].id = Inactive]
      /\ pc' = [pc EXCEPT ![w] = q]
  BY DEF TimerEvent, Go
<1>2. e \in {RT, TO}
  BY <1>1, Facts DEF ArgOK
<1>3. Tends(tsx, tsx') /\ tsx'.state = tsx.state
  BY <1>1, <1>2, Facts, ClearIdTends
<1>4. /\ ~Warns(pc[w]) /\ pc[w].at # "final" /\ q.at \notin {"final", "tell", "told"}
      /\ Drives(pc[w], tsx) => Drives(q, tsx')
      /\ Calls(pc[w]) => Calls(q)
  BY <1>1, <1>3 DEF Warns, Drives, Calls
<1> HIDE DEF e, q
<1>5. WInv'
  BY <1>1, <1>3, <1>4, MoveWInv DEF Timely, Tends
<1>6. NeverStranded'
  BY <1>1, <1>3, <1>4, MoveStranded DEF Timely, Tends
<1>7. Retransmits'
  BY <1>1, <1>3, <1>4, MoveRetransmits DEF Timely, Tends
<1> QED
  BY <1>5, <1>6, <1>7, <1>3 DEF Timely, Tends

LEMMA RetransmitEventTimely ==
  ASSUME IInv, Timely, NEW w \in Workers, RetransmitEvent(w)
  PROVE  Timely' /\ Kin(tsx, tsx')
<1>1. pc[w] = [at |-> "event", arg |-> RT]
  BY DEF RetransmitEvent
<1>2. PICK s \in OnRetransmitTimer(tsx) : Return(w, s)
  BY DEF RetransmitEvent
<1>3. /\ Tends(tsx, s)
      /\ Awaits(s) => Rings(s)
      /\ tsx.state = Terminated => Timed(s)
  BY Facts, OnRetransmitTimerTends DEF Timely, WInv
<1>4. Good(s)
  BY Facts, OnRetransmitTimerSafe DEF SafeAll, Safe
<1>5. tsx' = DecRef(s) /\ pc' = [pc EXCEPT ![w] = Idle]
  BY <1>2 DEF Return
<1>6. /\ Tends(tsx, tsx')
      /\ Awaits(tsx') => Rings(tsx')
      /\ tsx.state = Terminated => Timed(tsx')
  BY <1>3, <1>4, <1>5, DecRefTends
<1>7. /\ ~Warns(pc[w]) /\ pc[w].at # "final"
      /\ Drives(pc[w], tsx) => tsx.state = Terminated
  BY <1>1 DEF Warns, Drives
<1> QED
  BY <1>5, <1>6, <1>7, TimerDone

(* What tsx_set_state does once the user has been told: whoever is about to *)
(* forget the transaction restarts its timeout timer.                       *)
LEMMA SettleEnds ==
  ASSUME NEW s, Good(s), NEW st \in {Terminated, Destroyed},
         s.role = "UAS" => s.state >= Terminated
  PROVE  LET t == Settle(s, st)
         IN  /\ Good(t) /\ Akin(s, t) /\ t.state = s.state
             /\ Tends(s, t) /\ Timed(t) /\ ~Erring(t) /\ ~Awaits(t)
<1> DEFINE t == Settle(s, st)
<1>1. Good(t)
  BY SettleSafe DEF Safe
<1>2. /\ Akin(s, t) /\ t.state = s.state /\ t.role = s.role /\ Timed(t) /\ ~Erring(t)
  <2>1. CASE st = Terminated
    <3>1. Beside(s, t) /\ t.tm[RT] = s.tm[RT] /\ t.tm[TO].armed /\ t.tm[TO].id = TimeoutTimer
      BY <2>1, SettleTimed
    <3> HIDE DEF t
    <3> QED
      BY <3>1 DEF Beside, Akin, Timed, Erring, TimeoutTimer, TransportErrTimer
  <2>2. CASE st = Destroyed
    <3>1. /\ t.role = s.role /\ t.invite = s.invite /\ t.reliable = s.reliable
          /\ t.state = s.state /\ ~t.registered /\ t.resTp = s.resTp
          /\ t.tm[RT].id = Inactive
      BY <2>2, SettleGone
    <3> HIDE DEF t
    <3> QED
      BY <3>1 DEF Akin, Timed, Erring, Inactive, TransportErrTimer
  <2> QED
    BY <2>1, <2>2
<1> HIDE DEF t
<1>3. ~Awaits(t)
  BY <1>2 DEF Awaits, Completed, Terminated
<1>4. Tends(s, t)
  BY <1>2, <1>3 DEF Tends, Kin, Endures, Repeats
<1> QED
  BY <1>1, <1>2, <1>3, <1>4 DEF t

LEMMA TimeoutEventTimely ==
  ASSUME IInv, Timely, NEW w \in Workers, TimeoutEvent(w)
  PROVE  Timely' /\ Kin(tsx, tsx')
<1> DEFINE s == OnTimeout(tsx)
<1>1. pc[w] = [at |-> "event", arg |-> TO]
  BY DEF TimeoutEvent
<1>2. \/ s.state = tsx.state /\ Return(w, s)
      \/ s.state # tsx.state /\ tsx' = s /\ Go(w, "tell", s.state)
      \/ s.state # tsx.state /\ Return(w, Settle(s, s.state))
  BY DEF TimeoutEvent
<1>3. /\ Good(s) /\ Akin(tsx, s)
      /\ s.state = tsx.state => s = tsx /\ ~Waits(tsx)
      /\ s.state # tsx.state => s.state \in {Terminated, Destroyed}
  BY Facts, OnTimeoutSafe, OnTimeoutDoes DEF Safe
<1> HIDE DEF s
<1>4. /\ ~Warns(pc[w]) /\ ~Calls(pc[w]) /\ pc[w].at # "final"
  BY <1>1 DEF Warns, Calls, RT, TO
<1>5. ASSUME s.state # tsx.state
      PROVE  /\ s.state >= Terminated /\ ~Awaits(s) /\ Kin(tsx, s)
             /\ s.state \in {Terminated, Destroyed}
  <2>1. s.state >= Terminated /\ ~Awaits(s)
    BY <1>3, <1>5 DEF Terminated, Destroyed, Awaits, Completed
  <2> QED
    BY <1>3, <1>5, <2>1 DEF Kin
<1>6. CASE s.state = tsx.state /\ Return(w, s)
  <2>1. tsx' = DecRef(tsx) /\ pc' = [pc EXCEPT ![w] = Idle]
    BY <1>3, <1>6 DEF Return
  <2>2. Tends(tsx, tsx') /\ ~Waits(tsx')
    BY <1>3, <1>6, <2>1, Facts, DecRefTends, CalmRefl DEF Calm
  <2> QED
    BY <1>4, <2>1, <2>2, TimerDone
<1>7. CASE s.state # tsx.state /\ tsx' = s /\ Go(w, "tell", s.state)
  <2> DEFINE q == [at |-> "tell", arg |-> s.state]
  <2>1. pc' = [pc EXCEPT ![w] = q]
    BY <1>7 DEF Go
  <2>2. /\ q.at # "final" /\ Drives(q, tsx')
        /\ Erring(tsx') => Warns(q)
    BY <1>5, <1>7 DEF Drives, Erring, Warns, RT, Terminated, Destroyed
  <2> HIDE DEF q
  <2>3. WInv'
    BY <1>4, <1>5, <1>7, <2>1, <2>2, MoveWInv DEF Timely
  <2>4. NeverStranded'
    BY <2>1, <2>2, MoveDriven
  <2>5. Retransmits'
    BY <1>4, <1>5, <1>7, <2>1, MoveRetransmits DEF Timely, Repeats
  <2> QED
    BY <2>3, <2>4, <2>5, <1>5, <1>7 DEF Timely, Tends
<1>8. CASE s.state # tsx.state /\ Return(w, Settle(s, s.state))
  <2> DEFINE t == Settle(s, s.state)
  <2>1. tsx' = DecRef(t) /\ pc' = [pc EXCEPT ![w] = Idle]
    BY <1>8 DEF Return
  <2>2. /\ Good(t) /\ Akin(s, t) /\ t.state = s.state
        /\ Timed(t) /\ ~Erring(t) /\ ~Awaits(t)
    BY <1>3, <1>5, <1>8, SettleEnds
  <2> HIDE DEF t
  <2>3. Tends(tsx, t)
    <3>1. Akin(tsx, t)
      BY <1>3, <2>2, AkinTrans
    <3> QED
      BY <1>5, <1>8, <2>2, <3>1 DEF Tends, Kin, Endures, Repeats
  <2>4. Tends(tsx, tsx') /\ Timed(tsx')
    BY <2>1, <2>2, <2>3, DecRefTends
  <2> QED
    BY <1>4, <2>1, <2>4, TimerDone
<1> QED
  BY <1>2, <1>6, <1>7, <1>8

LEMMA TellTimeoutTimely ==
  ASSUME IInv, Timely, NEW w \in Workers, TellTimeout(w)
  PROVE  Timely' /\ Kin(tsx, tsx')
<1> DEFINE q == [at |-> "told", arg |-> pc[w].arg]
<1>1. pc[w].at = "tell" /\ pc' = [pc EXCEPT ![w] = q] /\ tsx' = Tell(tsx)
  BY DEF TellTimeout, Go
<1>2. pc[w].arg \in {Terminated, Destroyed}
  BY <1>1, Facts DEF ArgOK
<1>3. /\ pc[w].at # "final" /\ ~Calls(pc[w]) /\ q.at = "told"
      /\ Warns(pc[w]) => Warns(q)
      /\ Drives(q, tsx')
  BY <1>1, <1>2 DEF Warns, Calls, Drives, RT, Terminated, Destroyed
<1> HIDE DEF q
<1>4. Aside(tsx, tsx')
  BY <1>1, Facts, TellAside
<1>5. Tends(tsx, tsx') /\ tsx'.state = tsx.state /\ tsx'.role = tsx.role
  BY <1>4, AsideCalm DEF Calm, Aside, Beside
<1>6. tsx.role = "UAS" => tsx'.state >= Terminated
  BY <1>1, <1>5 DEF Timely, WInv
<1>7. WInv'
  BY <1>1, <1>3, <1>5, <1>6, MoveWInv DEF Timely, Tends
<1>8. NeverStranded'
  BY <1>1, <1>3, MoveDriven
<1>9. Retransmits'
  BY <1>1, <1>3, <1>5, MoveRetransmits DEF Timely, Tends
<1> QED
  BY <1>7, <1>8, <1>9, <1>5 DEF Timely, Tends

LEMMA AfterTimeoutTimely ==
  ASSUME IInv, Timely, NEW w \in Workers, AfterTimeout(w)
  PROVE  Timely' /\ Kin(tsx, tsx')
<1> DEFINE t == Settle(tsx, pc[w].arg)
<1>1. pc[w].at = "told" /\ pc' = [pc EXCEPT ![w] = Idle] /\ tsx' = DecRef(t)
  BY DEF AfterTimeout, Return
<1>2. pc[w].arg \in {Terminated, Destroyed}
  BY <1>1, Facts DEF ArgOK
<1>3. tsx.role = "UAS" => tsx.state >= Terminated
  BY <1>1 DEF Timely, WInv
<1>4. Good(t) /\ Tends(tsx, t) /\ Timed(t) /\ ~Erring(t)
  BY <1>2, <1>3, Facts, SettleEnds
<1> HIDE DEF t
<1>5. Tends(tsx, tsx') /\ Timed(tsx') /\ ~Erring(tsx')
  BY <1>1, <1>4, DecRefTends
<1>6. pc[w].at # "final" /\ ~Calls(pc[w])
  BY <1>1 DEF Calls
<1> QED
  BY <1>1, <1>5, <1>6, TimerDone

(* A transport error terminates the transaction and leaves it without the   *)
(* timeout timer until the user has been told.                              *)
LEMMA TransportErrorEventTimely ==
  ASSUME IInv, Timely, NEW w \in Workers, TransportErrorEvent(w)
  PROVE  Timely' /\ Kin(tsx, tsx')
<1> DEFINE code == IF tsx.code < 200 THEN TransportError ELSE tsx.code
           u == [tsx EXCEPT !.transport = "none", !.code = code, !.state = Terminated]
           d == Detach(u)
           q == [at |-> "terrTell", arg |-> 0]
<1>1. /\ tsx \in TsxType /\ code \in 0..699 /\ Terminated \in StNull..Destroyed
      /\ "none" \in {"none", "up", "down"}
  BY Facts DEF TsxType, TransportError, Terminated, StNull, Destroyed
<1>2. pc[w].at = "terr" /\ tsx' = Cancel(d, TO) /\ pc' = [pc EXCEPT ![w] = q]
  BY <1>1 DEF TransportErrorEvent, Go
<1> HIDE DEF code
<1>3. Good(u) /\ u.state = Terminated /\ Akin(tsx, u)
  <2>1. u \in TsxType
    BY <1>1, ZenonT(40) DEF TsxType
  <2>2. Alike(tsx, u)
    BY <1>1 DEF TsxType, Alike
  <2>3. Good(u)
    BY <2>1, <2>2, Facts, Neutral DEF Safe
  <2>4. /\ u.role = tsx.role /\ u.invite = tsx.invite /\ u.reliable = tsx.reliable
        /\ u.registered = tsx.registered /\ u.resTp = tsx.resTp /\ u.tm = tsx.tm
        /\ u.state = Terminated
    BY <1>1 DEF TsxType
  <2> HIDE DEF u
  <2> QED
    BY <2>3, <2>4 DEF Akin
<1> HIDE DEF u
<1>4. Good(d) /\ d.state = Terminated /\ Akin(u, d)
  <2>1. Beside(u, d) /\ d.tm = u.tm /\ Good(d)
    BY <1>3, DetachDoes, DetachSafe DEF Safe
  <2> QED
    BY <1>3, <2>1, BesideAkin DEF Beside
<1> HIDE DEF d
<1>5. /\ Akin(d, tsx') /\ tsx'.state = Terminated
      /\ tsx'.tm[TO].id = Inactive
  <2>1. Cancel(d, TO).tm[TO] = [armed |-> FALSE, id |-> Inactive]
    BY <1>4, Ids, CancelDoes
  <2> QED
    BY <1>2, <1>4, <2>1, Ids, CancelAkin
<1>6. ~Erring(tsx') /\ ~Awaits(tsx') /\ Kin(tsx, tsx')
  <2>1. Akin(tsx, tsx')
    BY <1>3, <1>4, <1>5, AkinTrans
  <2>2. ~Erring(tsx') /\ ~Awaits(tsx')
    BY <1>5 DEF Erring, Awaits, Inactive, TransportErrTimer, Completed, Terminated
  <2> QED
    BY <1>5, <2>1, <2>2 DEF Kin, Terminated
<1>7. /\ ~Calls(pc[w]) /\ ~Warns(pc[w]) /\ q.at \notin {"final", "tell", "told"}
      /\ Drives(q, tsx')
  BY <1>2 DEF Calls, Warns, Drives, RT
<1> HIDE DEF q
<1>8. WInv'
  BY <1>2, <1>6, <1>7, MoveWInv DEF Timely
<1>9. NeverStranded'
  BY <1>2, <1>7, MoveDriven
<1>10. Retransmits'
  BY <1>2, <1>6, <1>7, MoveRetransmits DEF Timely, Repeats
<1> QED
  BY <1>8, <1>9, <1>10, <1>6 DEF Timely, Tends

LEMMA TellTransportErrorTimely ==
  ASSUME IInv, Timely, NEW w \in Workers, TellTransportError(w)
  PROVE  Timely' /\ Kin(tsx, tsx')
<1> DEFINE q == [at |-> "terrSchedule", arg |-> 0]
<1>1. pc[w].at = "terrTell" /\ pc' = [pc EXCEPT ![w] = q] /\ tsx' = Tell(tsx)
  BY DEF TellTransportError, Go
<1>2. /\ ~Calls(pc[w]) /\ ~Warns(pc[w]) /\ q.at \notin {"final", "tell", "told"}
      /\ Drives(q, tsx')
  BY <1>1 DEF Calls, Warns, Drives, RT
<1> HIDE DEF q
<1>3. Tends(tsx, tsx')
  BY <1>1, Facts, TellAside, AsideCalm DEF Calm
<1>4. WInv'
  BY <1>1, <1>2, <1>3, MoveWInv DEF Timely, Tends
<1>5. NeverStranded'
  BY <1>1, <1>2, MoveDriven
<1>6. Retransmits'
  BY <1>1, <1>2, <1>3, MoveRetransmits DEF Timely, Tends
<1> QED
  BY <1>4, <1>5, <1>6, <1>3 DEF Timely, Tends

LEMMA ScheduleHandlerTimely ==
  ASSUME IInv, Timely, NEW w \in Workers, ScheduleHandler(w)
  PROVE  Timely' /\ Kin(tsx, tsx')
<1> DEFINE t == Schedule(tsx, TO, TimeoutTimer)
<1>1. pc[w].at = "terrSchedule" /\ pc' = [pc EXCEPT ![w] = Idle] /\ tsx' = DecRef(t)
  BY DEF ScheduleHandler, Return
<1>2. Good(t)
  BY Facts, Ids, ScheduleSafe DEF Safe
<1>3. /\ Beside(tsx, t) /\ t.flags = tsx.flags /\ t.tm[RT] = tsx.tm[RT] /\ t.tm[TO].armed
      /\ t.tm[TO].id \in {tsx.tm[TO].id, TimeoutTimer}
  <2>1. RT \in {RT, TO} \ {TO}
    BY DEF RT, TO
  <2> QED
    BY <2>1, Facts, Ids, ScheduleDoes
<1> HIDE DEF t
<1>4. Tends(tsx, t) /\ Timed(t)
  BY <1>3 DEF Beside, Tends, Akin, Kin, Endures, Repeats, Timed, Erring, Awaits, Rings, Has,
              TimeoutTimer, TransportErrTimer
<1>5. Tends(tsx, tsx') /\ Timed(tsx')
  BY <1>1, <1>2, <1>4, DecRefTends
<1>6. pc[w].at # "final" /\ ~Calls(pc[w]) /\ ~Warns(pc[w])
  BY <1>1 DEF Calls, Warns
<1> QED
  BY <1>1, <1>5, <1>6, TimerDone

LEMMA TimerStepTimely ==
  ASSUME IInv, Timely, NEW w \in Workers, TimerStep(w)
  PROVE  Timely' /\ Kin(tsx, tsx')
BY PopTimerTimely, StaleTimerTimely, TransportErrorTimerTimely, TimerEventTimely,
   RetransmitEventTimely, TimeoutEventTimely, TellTimeoutTimely, AfterTimeoutTimely,
   TransportErrorEventTimely, TellTransportErrorTimely, ScheduleHandlerTimely DEF TimerStep

LEMMA LookupTimely ==
  ASSUME IInv, Timely, NEW w \in Workers, NEW m \in Msgs, Lookup(w, m)
  PROVE  Timely' /\ Kin(tsx, tsx')
<1> DEFINE q == [at |-> "rx", arg |-> m]
<1>1. pc[w] = Idle /\ pc' = [pc EXCEPT ![w] = q] /\ tsx' = AddRef(tsx)
  BY DEF Lookup, Go
<1>2. pc[w].at \in Bare /\ q.at \in Bare
  BY <1>1 DEF Bare, Idle
<1>3. Tends(tsx, tsx')
  BY <1>1, Facts, SmallAsides, AsideCalm DEF Calm
<1> HIDE DEF q
<1> QED
  BY <1>1, <1>2, <1>3, Simply

(* A worker that stands in a bare place is done. *)
LEMMA SimplyDone ==
  ASSUME IInv, Timely, NEW w \in Workers, pc[w].at \in Bare, NEW s, Good(s), Tends(tsx, s),
         Return(w, s)
  PROVE  Timely' /\ Kin(tsx, tsx')
<1>1. pc' = [pc EXCEPT ![w] = Idle] /\ tsx' = DecRef(s) /\ Idle.at \in Bare
  BY DEF Return, Idle, Bare
<1>2. Tends(tsx, tsx')
  BY <1>1, DecRefTends
<1> QED
  BY <1>1, <1>2, Simply

(* A final response leaves the client without a timer until the worker that *)
(* brought it completes it; nobody else holds the lock meanwhile.           *)
LEMMA RecvResponseTimely ==
  ASSUME IInv, Timely, NEW w \in Workers, RecvResponse(w)
  PROVE  Timely' /\ Kin(tsx, tsx')
<1> DEFINE c == pc[w].arg
<1>1. /\ pc[w].at = "rx" /\ tsx.role = "UAC"
      /\ \/ \E s \in OnLateResponse(tsx, c) : Return(w, s)
         \/ /\ tsx.state \in {Calling, Proceeding}
            /\ \E o \in OnResponse(tsx, c) :
                 \/ o.ok /\ c >= 200 /\ tsx' = o.tsx /\ Go(w, "final", c)
                 \/ ~(o.ok /\ c >= 200) /\ Return(w, o.tsx)
  BY DEF RecvResponse
<1>2. c \in Msgs /\ pc[w].at \in Bare /\ ~tsx.resTp
  BY <1>1, Facts DEF ArgOK, Bare, Timely, WInv
<1> HIDE DEF c
<1>3. ASSUME NEW s \in OnLateResponse(tsx, c), Return(w, s) PROVE Timely' /\ Kin(tsx, tsx')
  <2>1. Good(s) /\ Tends(tsx, s)
    BY Facts, OnLateResponseSafe, OnLateResponseCalm DEF SafeAll, Safe, CalmAll, Calm
  <2> QED
    BY <1>2, <1>3, <2>1, SimplyDone
<1>4. ASSUME tsx.state \in {Calling, Proceeding}, NEW o \in OnResponse(tsx, c),
             ~(o.ok /\ c >= 200), Return(w, o.tsx)
      PROVE  Timely' /\ Kin(tsx, tsx')
  <2>1. Good(o.tsx)
    BY <1>2, Facts, OnResponseSafe DEF SafeOuts, Safe
  <2>2. Tends(tsx, o.tsx)
    BY <1>1, <1>2, <1>4, Facts, OnResponseTends DEF Tends
  <2> QED
    BY <1>2, <1>4, <2>1, <2>2, SimplyDone
<1>5. ASSUME tsx.state \in {Calling, Proceeding}, NEW o \in OnResponse(tsx, c),
             tsx' = o.tsx, Go(w, "final", c)
      PROVE  Timely' /\ Kin(tsx, tsx')
  <2> DEFINE q == [at |-> "final", arg |-> c]
  <2>1. Kin(tsx, tsx') /\ Repeats(tsx, tsx') /\ ~Erring(tsx')
    BY <1>1, <1>2, <1>5, Facts, OnResponseTends
  <2>2. pc' = [pc EXCEPT ![w] = q] /\ ~Calls(pc[w]) /\ q.at = "final"
    BY <1>1, <1>5 DEF Go, Calls
  <2> HIDE DEF q
  <2>3. WInv'
    BY <1>1, <2>1, <2>2, MoveWInv DEF Timely
  <2>4. NeverStranded'
    BY <2>2, MoveDriven
  <2>5. Retransmits'
    BY <2>1, <2>2, MoveRetransmits DEF Timely
  <2> QED
    BY <2>3, <2>4, <2>5, <2>1 DEF Timely, Tends
<1> QED
  BY <1>1, <1>3, <1>4, <1>5

LEMMA CompleteResponseTimely ==
  ASSUME IInv, Timely, NEW w \in Workers, CompleteResponse(w)
  PROVE  Timely' /\ Kin(tsx, tsx')
<1> DEFINE t == Complete(tsx, pc[w].arg)
<1>1. pc[w].at = "final" /\ pc' = [pc EXCEPT ![w] = Idle] /\ tsx' = DecRef(t)
  BY DEF CompleteResponse, Return
<1>2. tsx.role = "UAC"
  BY <1>1 DEF Timely, WInv
<1>3. Good(t) /\ Tends(tsx, t) /\ Timed(t)
  BY <1>2, Facts, CompleteSafe, CompleteTends DEF Safe
<1> HIDE DEF t
<1>4. Tends(tsx, tsx') /\ Timed(tsx')
  BY <1>1, <1>3, DecRefTends
<1>5. ~Calls(pc[w]) /\ ~Warns(pc[w]) /\ Idle.at \notin {"final", "tell", "told"}
  BY <1>1 DEF Calls, Warns, Idle
<1>6. WInv'
  BY <1>1, <1>4, <1>5, MoveWInv DEF Timely, Tends
<1>7. NeverStranded'
  BY <1>1, <1>4, MoveDriven
<1>8. Retransmits'
  BY <1>1, <1>4, <1>5, MoveRetransmits DEF Timely, Tends
<1> QED
  BY <1>6, <1>7, <1>8, <1>4 DEF Timely, Tends

LEMMA RecvRequestTimely ==
  ASSUME IInv, Timely, NEW w \in Workers, RecvRequest(w)
  PROVE  Timely' /\ Kin(tsx, tsx')
<1>1. pc[w].at \in Bare
  BY DEF RecvRequest, Bare
<1>2. PICK s \in OnRequest(tsx, pc[w].arg) : Return(w, s)
  BY DEF RecvRequest
<1>3. Good(s) /\ Tends(tsx, s)
  BY Facts, OnRequestSafe, OnRequestCalm DEF SafeAll, Safe, CalmAll, Calm
<1> QED
  BY <1>1, <1>2, <1>3, SimplyDone

LEMMA RxStepTimely ==
  ASSUME IInv, Timely, NEW w \in Workers, RxStep(w)
  PROVE  Timely' /\ Kin(tsx, tsx')
BY LookupTimely, RecvResponseTimely, CompleteResponseTimely, RecvRequestTimely DEF RxStep

LEMMA SendCallbackTimely ==
  ASSUME IInv, Timely, NEW w \in Workers, NEW m \in Msgs, SendCallback(w, m)
  PROVE  Timely' /\ Kin(tsx, tsx')
<1> DEFINE x == [kind |-> "sl", msg |-> m]
           rest == tsx.sends \ {x}
           done == [tsx EXCEPT !.sends = rest]
           q == [at |-> "sent", arg |-> m]
<1>1. /\ x \in tsx.sends /\ pc[w] = Idle
      /\ \/ tsx' = done /\ UNCHANGED pc
         \/ tsx' = done /\ pc' = [pc EXCEPT ![w] = q]
         \/ Return(w, done)
  BY DEF SendCallback, Go
<1>2. pc[w].at \in Bare /\ q.at \in Bare
  BY <1>1 DEF Bare, Idle
<1> HIDE DEF x, q
<1>3. Good(done)
  BY <1>1, Facts, DoneHeld
<1> HIDE DEF rest
<1>4. Tends(tsx, done)
  BY Facts, SmallAsides, AsideCalm DEF Calm
<1> HIDE DEF done
<1> QED
  BY <1>1, <1>2, <1>3, <1>4, Passive, Simply, SimplyDone

LEMMA TransportCallbackTimely ==
  ASSUME IInv, Timely, NEW w \in Workers, NEW m \in Msgs, TransportCallback(w, m)
  PROVE  Timely' /\ Kin(tsx, tsx')
<1> DEFINE x == [kind |-> "tp", msg |-> m]
           rest == tsx.sends \ {x}
           sent == [tsx EXCEPT !.sends = rest]
           done == Lower(sent, {"PENDING_TRANSPORT"})
           q == [at |-> "failed", arg |-> 0]
<1>1. /\ x \in tsx.sends /\ pc[w] = Idle
      /\ Return(w, done) \/ (tsx' = done /\ pc' = [pc EXCEPT ![w] = q])
  BY DEF TransportCallback, Go
<1>2. pc[w].at \in Bare /\ q.at \in Bare
  BY <1>1 DEF Bare, Idle
<1> HIDE DEF x, q
<1>3. Good(sent)
  BY <1>1, Facts, DoneHeld
<1> HIDE DEF rest
<1>4. Calm(tsx, sent)
  BY Facts, SmallAsides, AsideCalm
<1> HIDE DEF sent
<1>5. Good(done) /\ Tends(sent, done)
  BY <1>3, LowerSafe, LowerTends DEF Safe
<1> HIDE DEF done
<1>6. Tends(tsx, done)
  BY <1>4, <1>5, TendsTrans DEF Calm
<1> QED
  BY <1>1, <1>2, <1>5, <1>6, Simply, SimplyDone

LEMMA SendCallbackLockedTimely ==
  ASSUME IInv, Timely, NEW w \in Workers, SendCallbackLocked(w)
  PROVE  Timely' /\ Kin(tsx, tsx')
<1>1. /\ pc[w].at = "sent" /\ pc' = [pc EXCEPT ![w] = Idle]
      /\ tsx' \in Delivered(tsx) \cup Undelivered(tsx, pc[w].arg)
  BY DEF SendCallbackLocked
<1>2. pc[w].arg \in Msgs /\ pc[w].at \in Bare /\ Idle.at \in Bare
  BY <1>1, Facts DEF ArgOK, Bare, Idle
<1>3. Tends(tsx, tsx')
  BY <1>1, <1>2, Facts, DeliveredCalm, UndeliveredCalm DEF CalmAll, Calm
<1> QED
  BY <1>1, <1>2, <1>3, Simply

LEMMA TransportFailedTimely ==
  ASSUME IInv, Timely, NEW w \in Workers, TransportFailed(w)
  PROVE  Timely' /\ Kin(tsx, tsx')
<1>1. pc[w].at \in Bare /\ Return(w, PostTransportError(tsx))
  BY DEF TransportFailed, Bare
<1>2. Good(PostTransportError(tsx)) /\ Tends(tsx, PostTransportError(tsx))
  BY Facts, PostTransportErrorSafe, PostTransportErrorCalm DEF Safe, Calm
<1> QED
  BY <1>1, <1>2, SimplyDone

LEMMA SendStepTimely ==
  ASSUME IInv, Timely, NEW w \in Workers, SendStep(w)
  PROVE  Timely' /\ Kin(tsx, tsx')
BY SendCallbackTimely, TransportCallbackTimely, SendCallbackLockedTimely, TransportFailedTimely
   DEF SendStep

LEMMA UserStepTimely ==
  ASSUME IInv, Timely, UserStep
  PROVE  Timely' /\ Kin(tsx, tsx')
<1>1. CASE SendRequest
  <2>1. Tends(tsx, tsx') /\ UNCHANGED pc
    BY <1>1, Facts, OnSendRequestTends DEF SendRequest
  <2> QED
    BY <2>1, Passive
<1>2. ASSUME NEW c \in Codes, SendResponse(c) PROVE Timely' /\ Kin(tsx, tsx')
  <2>1. /\ tsx.role = "UAS" /\ tsx.state \in {Trying, Proceeding}
        /\ tsx' \in OnSendResponse(tsx, c) /\ UNCHANGED pc
    BY <1>2 DEF SendResponse
  <2>2. Tends(tsx, tsx')
    BY <2>1, Facts, OnSendResponseCalm DEF Calm
  <2> QED
    BY <2>1, <2>2, Passive
<1>3. ASSUME NEW w \in Workers, NEW c \in Codes, RetransmitNoState(w, c) PROVE Timely' /\ Kin(tsx, tsx')
  <2>1. UNCHANGED pc /\ \E o \in SendMsg(tsx, c) : tsx' = o.tsx
    BY <1>3 DEF RetransmitNoState
  <2>2. Tends(tsx, tsx')
    BY <2>1, Facts, CodeRange, SendMsgCalm DEF CalmOuts, Calm
  <2> QED
    BY <2>1, <2>2, Passive
<1>4. CASE Terminate
  <2> DEFINE q == [tsx EXCEPT !.code = RequestTerminated]
  <2>1. tsx' = SetState(q, Terminated) /\ UNCHANGED pc
    BY <1>4 DEF Terminate
  <2>2. Good(q)
    <3>1. RequestTerminated \in 0..699
      BY DEF RequestTerminated
    <3> QED
      BY <3>1, Facts, CodeAkin
  <2>3. Calm(tsx, q)
    BY Facts, SmallAsides, AsideCalm
  <2> HIDE DEF q
  <2>4. Tends(tsx, tsx')
    BY <2>1, <2>2, <2>3, TerminateCalm, CalmTrans DEF Calm
  <2> QED
    BY <2>1, <2>4, Passive
<1>5. CASE StopRetransmit
  <2>1. tsx' = Cancel(tsx, RT) /\ UNCHANGED pc /\ ~Awaits(tsx)
    BY <1>5 DEF StopRetransmit, Awaits
  <2>2. Tends(tsx, tsx')
    BY <2>1, Facts, CancelCalm DEF Calm
  <2> QED
    BY <2>1, <2>2, Passive
<1>6. CASE SetTimeout
  <2>1. tsx' = Restart(tsx, TO, TimeoutTimer) /\ UNCHANGED pc
    BY <1>6 DEF SetTimeout
  <2>2. TimeoutTimer # TransportErrTimer
    BY DEF TimeoutTimer, TransportErrTimer
  <2>3. Tends(tsx, tsx')
    BY <2>1, <2>2, Facts, Ids, RestartCalm DEF Calm
  <2> QED
    BY <2>1, <2>3, Passive
<1> QED
  BY <1>1, <1>2, <1>3, <1>4, <1>5, <1>6 DEF UserStep

LEMMA TransportDownTimely ==
  ASSUME IInv, Timely, TransportDown
  PROVE  Timely' /\ Kin(tsx, tsx')
<1> DEFINE q == [tsx EXCEPT !.transport = "down"]
<1>1. tsx' = PostTransportError(q) /\ UNCHANGED pc
  BY DEF TransportDown
<1>2. tsx \in TsxType /\ "down" \in {"none", "up", "down"}
  BY Facts
<1>3. q \in TsxType
  BY <1>2, ZenonT(40) DEF TsxType
<1>4. Alike(tsx, q)
  BY <1>2 DEF TsxType, Alike
<1>5. Good(q) /\ Calm(tsx, q)
  BY <1>3, <1>4, Facts, Neutral, SmallAsides, AsideCalm DEF Safe
<1> HIDE DEF q
<1>6. Tends(tsx, tsx')
  BY <1>1, <1>5, PostTransportErrorCalm, CalmTrans DEF Calm
<1> QED
  BY <1>1, <1>6, Passive

LEMMA LayerStopTimely ==
  ASSUME IInv, Timely, LayerStop
  PROVE  Timely' /\ Kin(tsx, tsx')
<1> DEFINE q == [tsx EXCEPT !.code = TransportError]
           t == IF tsx.state < Terminated THEN SetState(q, Terminated) ELSE tsx
           u == [t EXCEPT !.registered = FALSE, !.loaded = FALSE]
<1>1. tsx' = Shutdown(u) /\ UNCHANGED pc
  BY DEF LayerStop
<1>2. Good(q) /\ Calm(tsx, q) /\ tsx.state \in StNull..Destroyed
  <2>1. TransportError \in 0..699
    BY DEF TransportError
  <2>2. Good(q)
    BY <2>1, Facts, CodeAkin
  <2>3. Calm(tsx, q) /\ tsx.state \in StNull..Destroyed
    BY Facts, SmallAsides, AsideCalm DEF TsxType
  <2> QED
    BY <2>2, <2>3
<1> HIDE DEF q
<1>3. Good(t) /\ Akin(tsx, t) /\ t.state >= Terminated
  <2>1. CASE tsx.state < Terminated
    <3>1. Calm(tsx, t) /\ t.state = Terminated
      BY <1>2, <2>1, TerminateCalm, CalmTrans
    <3>2. Good(t)
      BY <1>2, <2>1, States, Then, SafeRefl DEF Safe
    <3> HIDE DEF t
    <3> QED
      BY <3>1, <3>2 DEF Calm, Tends, Kin, Terminated
  <2>2. CASE ~(tsx.state < Terminated)
    <3>1. t = tsx
      BY <2>2
    <3> HIDE DEF t
    <3> QED
      BY <1>2, <2>2, <3>1, Facts DEF Akin, StNull, Terminated, Destroyed
  <2> QED
    BY <2>1, <2>2
<1> HIDE DEF t
<1>4. Good(u) /\ Akin(t, u) /\ u.state = t.state /\ ~u.registered
  <2>1. t \in TsxType /\ FALSE \in BOOLEAN
    BY <1>3 DEF Good
  <2>2. u \in TsxType
    BY <2>1, ZenonT(40) DEF TsxType
  <2>3. Alike(t, u) /\ ~u.registered
    BY <2>1 DEF TsxType, Alike
  <2>4. Good(u)
    BY <1>3, <2>2, <2>3, Neutral DEF Safe
  <2>5. /\ u.role = t.role /\ u.invite = t.invite /\ u.reliable = t.reliable
        /\ u.resTp = t.resTp /\ u.tm = t.tm /\ u.state = t.state
    BY <2>1 DEF TsxType
  <2> HIDE DEF u
  <2> QED
    BY <2>3, <2>4, <2>5 DEF Akin
<1> HIDE DEF u
<1>5. /\ tsx'.role = u.role /\ tsx'.invite = u.invite /\ tsx'.reliable = u.reliable
      /\ tsx'.state = u.state /\ tsx'.registered = u.registered /\ tsx'.resTp = u.resTp
      /\ tsx'.tm[RT].id = Inactive
  BY <1>1, <1>4, ShutdownDoes
<1>6. Akin(tsx, tsx') /\ tsx'.state >= Terminated /\ ~tsx'.registered
  <2>1. Akin(u, tsx')
    BY <1>5 DEF Akin, Inactive, TransportErrTimer
  <2> QED
    BY <1>3, <1>4, <1>5, <2>1, AkinTrans
<1>7. Tends(tsx, tsx')
  BY <1>6 DEF Tends, Kin, Endures, Repeats, Timed, Erring, Awaits, Completed, Terminated
<1> QED
  BY <1>1, <1>7, Passive

LEMMA InitTimely == ASSUME Init PROVE Timely
<1>1. PICK k \in Kinds, reliable \in BOOLEAN, handle200 \in BOOLEAN,
           same \in BOOLEAN, alt \in 0..MaxAlt :
        /\ k.role = "UAC" => ~same
        /\ tsx = Created(k, reliable, handle200, same, alt)
  BY DEF Init
<1>2. /\ tsx.role = k.role /\ tsx.resTp = same /\ tsx.state = StNull
      /\ tsx.tm = [e \in {RT, TO} |-> [armed |-> FALSE, id |-> Inactive]]
  BY <1>1 DEF Created
<1>3. tsx.tm[RT].id = Inactive
  BY <1>2
<1>4. \A w \in Workers : pc[w].at = "idle"
  BY DEF Init, Idle
<1>5. ~Waits(tsx) /\ ~Awaits(tsx) /\ ~Erring(tsx)
  BY <1>2 DEF Waits, Awaits, Erring, StNull, Calling, Proceeding, Completed, Confirmed,
              Terminated
<1>6. WInv
  BY <1>1, <1>2, <1>3, <1>4, <1>5 DEF WInv, Inactive, TransportErrTimer
<1>7. NeverStranded /\ Retransmits
  BY <1>5, StrandedIs DEF Retransmits
<1> QED
  BY <1>6, <1>7 DEF Timely

LEMMA NextTimely == IInv /\ Timely /\ [Next]_vars => Timely' /\ Kin(tsx, tsx')
<1> SUFFICES ASSUME IInv, Timely, [Next]_vars PROVE Timely' /\ Kin(tsx, tsx')
  OBVIOUS
<1>1. CASE UNCHANGED vars
  BY <1>1, Passive, CalmRefl DEF vars, Calm
<1> QED
  BY <1>1, TimerStepTimely, RxStepTimely, SendStepTimely, UserStepTimely, TransportDownTimely,
     LayerStopTimely DEF Next, Over

LEMMA AlwaysTimely == Spec => []Timely
BY Invariance, InitTimely, NextTimely, PTL DEF Spec

(* A transaction that waits for nothing but time is never forgotten, for any*)
(* number of polling threads and however a timer that runs, a message that  *)
(* arrives, a send that is called back and the user overtake each other.    *)
THEOREM NeverForgotten == Spec => []NeverStranded
<1>1. Timely => NeverStranded
  BY DEF Timely
<1> QED
  BY <1>1, AlwaysTimely, PTL

(* Which steps may silence a server.  A worker that has taken out the       *)
(* retransmission timer speaks for it until the timer is handled; any other *)
(* step leaves a server silent only if it was, except that a send pending in*)
(* the transport ends without a look at what was put off behind it.         *)
Speaks(w) == Silent(tsx') => Calls(pc'[w]) \/ (Silent(tsx) /\ ~Calls(pc[w]))

LEMMA UasIs ==
  UasRetransmits <=> Retransmits /\ (Silent(tsx) => \E w \in Workers : Calls(pc[w]))
BY DEF UasRetransmits, Retransmits, Silent, Awaits, Rings, Calls

LEMMA ClientSpeaks ==
  ASSUME Kin(tsx, tsx'), tsx.role = "UAC", NEW w
  PROVE  Speaks(w) /\ Lasts(tsx, tsx')
BY DEF Kin, Akin, Speaks, Lasts, Silent, Awaits

LEMMA OverSpeaks ==
  ASSUME tsx'.state >= Terminated, NEW w
  PROVE  Speaks(w)
BY DEF Speaks, Silent, Awaits, Completed, Terminated

LEMMA CalmSpeaks ==
  ASSUME Lasts(tsx, tsx'), NEW w, ~Calls(pc[w])
  PROVE  Speaks(w)
BY DEF Speaks, Lasts

LEMMA SameSilent ==
  ASSUME NEW s, NEW t, Beside(s, t), t.flags = s.flags, t.tm[RT].armed = s.tm[RT].armed
  PROVE  Silent(t) => Silent(s)
BY DEF Beside, Silent, Awaits, Has

LEMMA DecRefSilent == ASSUME NEW s, Good(s) PROVE Silent(DecRef(s)) => Silent(s)
<1>1. Aside(s, DecRef(s))
  BY SmallAsides
<1> QED
  BY <1>1, AsideCalm DEF Calm, Lasts

LEMMA ClearIdSilent ==
  ASSUME NEW s, Good(s), NEW e \in {RT, TO}
  PROVE  LET t == [s EXCEPT !.tm[e].id = Inactive]
         IN  Good(t) /\ t.state = s.state /\ (Silent(t) => Silent(s))
<1> DEFINE t == [s EXCEPT !.tm[e].id = Inactive]
<1>1. Good(t)
  BY ClearIdSafe DEF Safe
<1>2. Beside(s, t) /\ t.flags = s.flags /\ t.tm[RT].armed = s.tm[RT].armed
  BY EntryDoes
<1> HIDE DEF t
<1>3. Good(t) /\ t.state = s.state /\ (Silent(t) => Silent(s))
  BY <1>1, <1>2, SameSilent DEF Beside
<1> QED
  BY <1>3 DEF t

LEMMA PopTimerSpeaks ==
  ASSUME IInv, NEW w \in Workers, NEW e \in {RT, TO}, PopTimer(w, e)
  PROVE  Speaks(w)
<1> DEFINE q == [at |-> "timer", arg |-> e]
<1>1. /\ pc[w] = Idle /\ pc' = [pc EXCEPT ![w] = q] /\ pc'[w] = q
      /\ tsx' = [tsx EXCEPT !.tm[e].armed = FALSE]
  BY Moved DEF PopTimer, Go
<1>2. CASE e = RT
  BY <1>1, <1>2 DEF Speaks, Calls
<1>3. CASE e = TO
  <2>1. RT \in {RT, TO} \ {e}
    BY <1>3 DEF RT, TO
  <2>2. Beside(tsx, tsx') /\ tsx'.flags = tsx.flags /\ tsx'.tm[RT] = tsx.tm[RT]
    BY <1>1, <2>1, Facts, EntryDoes
  <2>3. Lasts(tsx, tsx')
    BY <2>2, SameSilent DEF Lasts
  <2> QED
    BY <1>1, <2>3, CalmSpeaks DEF Idle, Calls
<1> QED
  BY <1>2, <1>3

LEMMA StaleTimerSpeaks ==
  ASSUME IInv, NEW w \in Workers, StaleTimer(w)
  PROVE  Speaks(w)
<1>1. tsx' = DecRef(tsx) /\ tsx.state = Destroyed
  BY DEF StaleTimer, Return
<1>2. tsx'.state = Destroyed
  BY <1>1, Facts DEF DecRef, TsxType
<1> QED
  BY <1>2, OverSpeaks DEF Terminated, Destroyed

LEMMA TransportErrorTimerSpeaks ==
  ASSUME IInv, Timely, NEW w \in Workers, TransportErrorTimer(w)
  PROVE  Speaks(w)
<1> DEFINE e == pc[w].arg
           s == [tsx EXCEPT !.tm[e].id = Inactive]
<1>1. /\ pc[w].at = "timer" /\ tsx.tm[e].id = TransportErrTimer
      /\ tsx' = s \/ tsx' = DecRef(s)
  BY DEF TransportErrorTimer, Return
<1>2. e \in {RT, TO}
  BY <1>1, Facts DEF ArgOK
<1>3. e = TO
  BY <1>1, <1>2 DEF Timely, WInv
<1>4. Good(s) /\ (Silent(s) => Silent(tsx))
  BY <1>2, Facts, ClearIdSilent
<1>5. ~Calls(pc[w])
  BY <1>3 DEF Calls, RT, TO
<1> HIDE DEF s, e
<1>6. Lasts(tsx, tsx')
  BY <1>1, <1>4, DecRefSilent DEF Lasts
<1> QED
  BY <1>5, <1>6, CalmSpeaks

LEMMA TimerEventSpeaks ==
  ASSUME IInv, NEW w \in Workers, TimerEvent(w)
  PROVE  Speaks(w)
<1> DEFINE e == pc[w].arg
           q == [at |-> "event", arg |-> e]
<1>1. /\ pc[w].at = "timer" /\ tsx' = [tsx EXCEPT !.tm[e].id = Inactive]
      /\ pc' = [pc EXCEPT ![w] = q] /\ pc'[w] = q
  BY Moved DEF TimerEvent, Go
<1>2. e \in {RT, TO}
  BY <1>1, Facts DEF ArgOK
<1>3. Lasts(tsx, tsx')
  BY <1>1, <1>2, Facts, ClearIdSilent DEF Lasts
<1>4. CASE e = RT
  BY <1>1, <1>4 DEF Speaks, Calls
<1>5. CASE e # RT
  BY <1>3, <1>5, CalmSpeaks DEF Calls
<1> QED
  BY <1>4, <1>5

(* The retransmission timer that is handled is set again, or its start is   *)
(* put off behind a send that is pending.                                   *)
LEMMA RetransmitEventSpeaks ==
  ASSUME IInv, Timely, NEW w \in Workers, RetransmitEvent(w)
  PROVE  Speaks(w)
<1>1. PICK s \in OnRetransmitTimer(tsx) : Return(w, s)
  BY DEF RetransmitEvent
<1>2. Good(s) /\ ~Silent(s)
  BY Facts, OnRetransmitTimerSafe, OnRetransmitTimerTends DEF SafeAll, Safe, Timely, WInv
<1>3. ~Silent(tsx')
  BY <1>1, <1>2, DecRefSilent DEF Return
<1> QED
  BY <1>3 DEF Speaks

LEMMA TimeoutEventSpeaks ==
  ASSUME IInv, NEW w \in Workers, TimeoutEvent(w)
  PROVE  Speaks(w)
<1> DEFINE s == OnTimeout(tsx)
<1>1. pc[w] = [at |-> "event", arg |-> TO]
  BY DEF TimeoutEvent
<1>2. \/ s.state = tsx.state /\ tsx' = DecRef(s)
      \/ s.state # tsx.state /\ tsx' = s
      \/ s.state # tsx.state /\ tsx' = DecRef(Settle(s, s.state))
  BY DEF TimeoutEvent, Return
<1>3. /\ Good(s)
      /\ s.state = tsx.state => s = tsx
      /\ s.state # tsx.state => s.state \in {Terminated, Destroyed}
  BY Facts, OnTimeoutSafe, OnTimeoutDoes DEF Safe
<1> HIDE DEF s
<1>4. CASE s.state = tsx.state
  <2>1. Lasts(tsx, tsx')
    BY <1>2, <1>3, <1>4, DecRefSilent DEF Lasts
  <2> QED
    BY <1>1, <2>1, CalmSpeaks DEF Calls, RT, TO
<1>5. CASE s.state # tsx.state
  <2>1. s.state >= Terminated /\ s.state \in {Terminated, Destroyed}
    BY <1>3, <1>5 DEF Terminated, Destroyed
  <2>2. Good(Settle(s, s.state)) /\ ~Awaits(Settle(s, s.state)) /\ ~Awaits(s)
    BY <1>3, <2>1, SettleEnds DEF Awaits, Completed, Terminated
  <2>3. ~Silent(tsx')
    BY <1>2, <1>5, <2>2, DecRefSilent DEF Silent
  <2> QED
    BY <2>3 DEF Speaks
<1> QED
  BY <1>4, <1>5

LEMMA TellTimeoutSpeaks ==
  ASSUME IInv, Timely, NEW w \in Workers, TellTimeout(w)
  PROVE  Speaks(w)
<1>1. pc[w].at = "tell" /\ tsx' = Tell(tsx)
  BY DEF TellTimeout
<1>2. Lasts(tsx, tsx')
  BY <1>1, Facts, TellAside, AsideCalm DEF Calm
<1> QED
  BY <1>1, <1>2, CalmSpeaks DEF Calls

LEMMA AfterTimeoutSpeaks ==
  ASSUME IInv, Timely, NEW w \in Workers, AfterTimeout(w)
  PROVE  Speaks(w)
<1> DEFINE t == Settle(tsx, pc[w].arg)
<1>1. pc[w].at = "told" /\ tsx' = DecRef(t)
  BY DEF AfterTimeout, Return
<1>2. pc[w].arg \in {Terminated, Destroyed}
  BY <1>1, Facts DEF ArgOK
<1>3. tsx.role = "UAS" => tsx.state >= Terminated
  BY <1>1 DEF Timely, WInv
<1>4. Good(t) /\ ~Awaits(t)
  BY <1>2, <1>3, Facts, SettleEnds
<1> HIDE DEF t
<1>5. ~Silent(tsx')
  BY <1>1, <1>4, DecRefSilent DEF Silent
<1> QED
  BY <1>5 DEF Speaks

LEMMA TransportErrorEventSpeaks ==
  ASSUME IInv, Timely, NEW w \in Workers, TransportErrorEvent(w)
  PROVE  Speaks(w)
<1> DEFINE code == IF tsx.code < 200 THEN TransportError ELSE tsx.code
           u == [tsx EXCEPT !.transport = "none", !.code = code, !.state = Terminated]
<1>1. tsx' = Cancel(Detach(u), TO)
  BY DEF TransportErrorEvent
<1>2. tsx'.state = Terminated
  <2>1. u.state = Terminated
    BY Facts DEF TsxType
  <2> HIDE DEF u
  <2> QED
    BY <1>1, <2>1 DEF Cancel, Detach, Lower
<1> QED
  BY <1>2, OverSpeaks DEF Terminated

LEMMA TellTransportErrorSpeaks ==
  ASSUME IInv, NEW w \in Workers, TellTransportError(w)
  PROVE  Speaks(w)
<1>1. pc[w].at = "terrTell" /\ tsx' = Tell(tsx)
  BY DEF TellTransportError
<1>2. Lasts(tsx, tsx')
  BY <1>1, Facts, TellAside, AsideCalm DEF Calm
<1> QED
  BY <1>1, <1>2, CalmSpeaks DEF Calls

LEMMA ScheduleHandlerSpeaks ==
  ASSUME IInv, NEW w \in Workers, ScheduleHandler(w)
  PROVE  Speaks(w)
<1> DEFINE t == Schedule(tsx, TO, TimeoutTimer)
<1>1. pc[w].at = "terrSchedule" /\ tsx' = DecRef(t)
  BY DEF ScheduleHandler, Return
<1>2. Good(t)
  BY Facts, Ids, ScheduleSafe DEF Safe
<1>3. Beside(tsx, t) /\ t.flags = tsx.flags /\ t.tm[RT] = tsx.tm[RT]
  <2>1. RT \in {RT, TO} \ {TO}
    BY DEF RT, TO
  <2> QED
    BY <2>1, Facts, Ids, ScheduleDoes
<1> HIDE DEF t
<1>4. Lasts(tsx, tsx')
  BY <1>1, <1>2, <1>3, SameSilent, DecRefSilent DEF Lasts
<1> QED
  BY <1>1, <1>4, CalmSpeaks DEF Calls

LEMMA TimerStepSpeaks ==
  ASSUME IInv, Timely, NEW w \in Workers, TimerStep(w)
  PROVE  Speaks(w)
BY PopTimerSpeaks, StaleTimerSpeaks, TransportErrorTimerSpeaks, TimerEventSpeaks,
   RetransmitEventSpeaks, TimeoutEventSpeaks, TellTimeoutSpeaks, AfterTimeoutSpeaks,
   TransportErrorEventSpeaks, TellTransportErrorSpeaks, ScheduleHandlerSpeaks DEF TimerStep

LEMMA RxStepSpeaks ==
  ASSUME IInv, Timely, NEW w \in Workers, RxStep(w)
  PROVE  Speaks(w)
<1>1. Kin(tsx, tsx')
  BY RxStepTimely
<1>2. ASSUME NEW m \in Msgs, Lookup(w, m) PROVE Speaks(w)
  <2>1. pc[w] = Idle /\ tsx' = AddRef(tsx)
    BY <1>2 DEF Lookup
  <2>2. Lasts(tsx, tsx')
    BY <2>1, Facts, SmallAsides, AsideCalm DEF Calm
  <2> QED
    BY <2>1, <2>2, CalmSpeaks DEF Idle, Calls
<1>3. CASE RecvResponse(w) \/ CompleteResponse(w)
  <2>1. tsx.role = "UAC"
    BY <1>3 DEF RecvResponse, CompleteResponse, Timely, WInv
  <2> QED
    BY <1>1, <2>1, ClientSpeaks
<1>4. CASE RecvRequest(w)
  <2>1. PICK s \in OnRequest(tsx, pc[w].arg) : Return(w, s)
    BY <1>4 DEF RecvRequest
  <2>2. Good(s) /\ Lasts(tsx, s)
    BY Facts, OnRequestSafe, OnRequestCalm DEF SafeAll, Safe, CalmAll, Calm
  <2>3. Lasts(tsx, tsx')
    BY <2>1, <2>2, DecRefSilent DEF Return, Lasts
  <2>4. ~Calls(pc[w])
    BY <1>4 DEF RecvRequest, Calls
  <2> QED
    BY <2>3, <2>4, CalmSpeaks
<1> QED
  BY <1>2, <1>3, <1>4 DEF RxStep

LEMMA SendCallbackSpeaks ==
  ASSUME IInv, NEW w \in Workers, NEW m \in Msgs, SendCallback(w, m)
  PROVE  Speaks(w)
<1> DEFINE x == [kind |-> "sl", msg |-> m]
           rest == tsx.sends \ {x}
           done == [tsx EXCEPT !.sends = rest]
<1>1. /\ x \in tsx.sends /\ pc[w] = Idle
      /\ tsx' = done \/ tsx' = DecRef(done)
  BY DEF SendCallback, Return
<1>2. Good(done)
  BY <1>1, Facts, DoneHeld
<1> HIDE DEF x, rest
<1>3. Lasts(tsx, done)
  BY Facts, SmallAsides, AsideCalm DEF Calm
<1> HIDE DEF done
<1>4. Lasts(tsx, tsx')
  BY <1>1, <1>2, <1>3, DecRefSilent DEF Lasts
<1> QED
  BY <1>1, <1>4, CalmSpeaks DEF Idle, Calls

(* The callback of a send that is pending in the transport. *)
LEMMA TransportCallbackSpeaks ==
  ASSUME IInv, NEW w \in Workers, NEW m \in Msgs, TransportCallback(w, m)
  PROVE  Speaks(w) \/ Has(tsx, "PENDING_RESCHED")
<1> DEFINE x == [kind |-> "tp", msg |-> m]
           rest == tsx.sends \ {x}
           sent == [tsx EXCEPT !.sends = rest]
           done == Lower(sent, {"PENDING_TRANSPORT"})
<1>1. x \in tsx.sends /\ (tsx' = done \/ tsx' = DecRef(done))
  BY DEF TransportCallback, Return
<1>2. Good(sent)
  BY <1>1, Facts, DoneHeld
<1> HIDE DEF x, rest
<1>3. Aside(tsx, sent)
  BY Facts, SmallAsides
<1> HIDE DEF sent
<1>4. Good(done) /\ (Has(done, "PENDING_RESCHED") <=> Has(sent, "PENDING_RESCHED"))
  BY <1>2, LowerSafe, LowerTends DEF Safe
<1> HIDE DEF done
<1>5. Silent(tsx') => Has(tsx, "PENDING_RESCHED")
  BY <1>1, <1>3, <1>4, DecRefSilent DEF Aside, Silent
<1> QED
  BY <1>5 DEF Speaks

LEMMA SendStepSpeaks ==
  ASSUME IInv, NEW w \in Workers, SendStep(w)
  PROVE  \/ Speaks(w)
         \/ Has(tsx, "PENDING_RESCHED") /\ \E m \in Msgs : TransportCallback(w, m)
<1>1. CASE SendCallbackLocked(w)
  <2>1. /\ pc[w].at = "sent" /\ tsx' \in Delivered(tsx) \cup Undelivered(tsx, pc[w].arg)
    BY <1>1 DEF SendCallbackLocked
  <2>2. pc[w].arg \in Msgs
    BY <2>1, Facts DEF ArgOK
  <2>3. Lasts(tsx, tsx')
    BY <2>1, <2>2, Facts, DeliveredCalm, UndeliveredCalm DEF CalmAll, Calm
  <2> QED
    BY <2>1, <2>3, CalmSpeaks DEF Calls
<1>2. CASE TransportFailed(w)
  <2>1. pc[w].at = "failed" /\ tsx' = DecRef(PostTransportError(tsx))
    BY <1>2 DEF TransportFailed, Return
  <2>2. Good(PostTransportError(tsx)) /\ Lasts(tsx, PostTransportError(tsx))
    BY Facts, PostTransportErrorSafe, PostTransportErrorCalm DEF Safe, Calm
  <2>3. Lasts(tsx, tsx')
    BY <2>1, <2>2, DecRefSilent DEF Lasts
  <2> QED
    BY <2>1, <2>3, CalmSpeaks DEF Calls
<1> QED
  BY <1>1, <1>2, SendCallbackSpeaks, TransportCallbackSpeaks DEF SendStep

LEMMA UserStepLasts ==
  ASSUME IInv, Timely, UserStep
  PROVE  UNCHANGED pc /\ Lasts(tsx, tsx')
<1>0. UNCHANGED pc
  BY DEF UserStep, SendRequest, SendResponse, RetransmitNoState, Terminate, StopRetransmit,
         SetTimeout
<1>1. CASE SendRequest
  BY <1>1, Facts, UserStepTimely, ClientSpeaks DEF SendRequest
<1>2. ASSUME NEW c \in Codes, SendResponse(c) PROVE Lasts(tsx, tsx')
  BY <1>2, Facts, OnSendResponseCalm DEF SendResponse, Calm
<1>3. ASSUME NEW w \in Workers, NEW c \in Codes, RetransmitNoState(w, c) PROVE Lasts(tsx, tsx')
  <2>1. \E o \in SendMsg(tsx, c) : tsx' = o.tsx
    BY <1>3 DEF RetransmitNoState
  <2> QED
    BY <2>1, Facts, CodeRange, SendMsgCalm DEF CalmOuts, Calm
<1>4. CASE Terminate
  <2> DEFINE q == [tsx EXCEPT !.code = RequestTerminated]
  <2>1. tsx' = SetState(q, Terminated)
    BY <1>4 DEF Terminate
  <2>2. Good(q)
    <3>1. RequestTerminated \in 0..699
      BY DEF RequestTerminated
    <3> QED
      BY <3>1, Facts, CodeAkin
  <2> HIDE DEF q
  <2> QED
    BY <1>0, <2>1, <2>2, TerminateCalm DEF Lasts, Silent, Awaits, Terminated, Completed
<1>5. CASE StopRetransmit
  <2>1. tsx' = Cancel(tsx, RT) /\ ~Awaits(tsx)
    BY <1>5 DEF StopRetransmit, Awaits
  <2> QED
    BY <1>0, <2>1, Facts, CancelCalm DEF Calm
<1>6. CASE SetTimeout
  <2>1. tsx' = Restart(tsx, TO, TimeoutTimer) /\ TimeoutTimer # TransportErrTimer
    BY <1>6 DEF SetTimeout, TimeoutTimer, TransportErrTimer
  <2> QED
    BY <1>0, <2>1, Facts, Ids, RestartCalm DEF Calm
<1> QED
  BY <1>0, <1>1, <1>2, <1>3, <1>4, <1>5, <1>6 DEF UserStep

LEMMA EnvStepLasts ==
  ASSUME IInv, Timely, TransportDown \/ LayerStop
  PROVE  UNCHANGED pc /\ Lasts(tsx, tsx')
<1>1. CASE TransportDown
  <2> DEFINE q == [tsx EXCEPT !.transport = "down"]
  <2>1. tsx' = PostTransportError(q) /\ UNCHANGED pc
    BY <1>1 DEF TransportDown
  <2>2. tsx \in TsxType /\ "down" \in {"none", "up", "down"}
    BY Facts
  <2>3. q \in TsxType
    BY <2>2, ZenonT(40) DEF TsxType
  <2>4. Alike(tsx, q)
    BY <2>2 DEF TsxType, Alike
  <2>5. Good(q) /\ Calm(tsx, q)
    BY <2>3, <2>4, Facts, Neutral, SmallAsides, AsideCalm DEF Safe
  <2> HIDE DEF q
  <2> QED
    BY <2>1, <2>5, PostTransportErrorCalm, CalmTrans DEF Calm
<1>2. CASE LayerStop
  <2> DEFINE q == [tsx EXCEPT !.code = TransportError]
             t == IF tsx.state < Terminated THEN SetState(q, Terminated) ELSE tsx
             u == [t EXCEPT !.registered = FALSE, !.loaded = FALSE]
  <2>1. tsx' = Shutdown(u) /\ UNCHANGED pc
    BY <1>2 DEF LayerStop
  <2>2. Good(q)
    <3>1. TransportError \in 0..699
      BY DEF TransportError
    <3> QED
      BY <3>1, Facts, CodeAkin
  <2> HIDE DEF q
  <2>3. Good(t)
    BY <2>2, Facts, States, Then, SafeRefl DEF Safe
  <2> HIDE DEF t
  <2>4. Good(u)
    <3>1. t \in TsxType /\ FALSE \in BOOLEAN
      BY <2>3 DEF Good
    <3>2. u \in TsxType
      BY <3>1, ZenonT(40) DEF TsxType
    <3>3. Alike(t, u)
      BY <3>1 DEF TsxType, Alike
    <3> QED
      BY <2>3, <3>2, <3>3, Neutral DEF Safe
  <2> HIDE DEF u
  <2>5. ~Rings(tsx')
    BY <2>1, <2>4, ShutdownDoes
  <2> QED
    BY <2>1, <2>5 DEF Lasts, Silent, Rings
<1> QED
  BY <1>1, <1>2

LEMMA StepMoves ==
  ASSUME IInv, NEW w \in Workers, TimerStep(w) \/ RxStep(w) \/ SendStep(w)
  PROVE  \A v \in Workers : v # w => pc'[v] = pc[v]
<1>1. UNCHANGED pc \/ \E q : pc' = [pc EXCEPT ![w] = q]
  <2>1. CASE TimerStep(w)
    BY <2>1 DEF TimerStep, PopTimer, StaleTimer, TransportErrorTimer, TimerEvent,
       RetransmitEvent, TimeoutEvent, TellTimeout, AfterTimeout, TransportErrorEvent,
       TellTransportError, ScheduleHandler, Go, Return
  <2>2. CASE RxStep(w)
    BY <2>2 DEF RxStep, Lookup, RecvResponse, CompleteResponse, RecvRequest, Go, Return
  <2>3. CASE SendStep(w)
    BY <2>3 DEF SendStep, SendCallback, TransportCallback, SendCallbackLocked,
       TransportFailed, Go, Return
  <2> QED
    BY <2>1, <2>2, <2>3
<1> QED
  BY <1>1, Moved

(* When nobody moves, and when a worker does. *)
LEMMA PassiveRetransmits ==
  ASSUME UasRetransmits, Timely', UNCHANGED pc, Lasts(tsx, tsx')
  PROVE  UasRetransmits'
<1>1. Retransmits' /\ (Silent(tsx') => \E v \in Workers : Calls(pc'[v]))
  BY UasIs DEF Timely, Lasts
<1> QED
  BY <1>1 DEF UasRetransmits, Retransmits, Silent, Awaits, Rings, Calls

LEMMA WorkerRetransmits ==
  ASSUME UasRetransmits, Timely', NEW w \in Workers, Speaks(w),
         \A v \in Workers : v # w => pc'[v] = pc[v]
  PROVE  UasRetransmits'
<1>1. Retransmits'
  BY DEF Timely
<1>2. Silent(tsx') => \E v \in Workers : Calls(pc'[v])
  BY UasIs DEF Speaks
<1> QED
  BY <1>1, <1>2 DEF UasRetransmits, Retransmits, Silent, Awaits, Rings, Calls

LEMMA NextRetransmits ==
  ASSUME IInv, Timely, [Next]_vars, UasRetransmits
  PROVE  \/ UasRetransmits'
         \/ /\ Has(tsx, "PENDING_RESCHED")
            /\ \E w \in Workers, m \in Msgs : TransportCallback(w, m)
<1>1. Timely'
  BY NextTimely
<1>2. CASE UNCHANGED vars
  BY <1>1, <1>2, PassiveRetransmits DEF vars, Lasts
<1>3. ASSUME NEW w \in Workers, TimerStep(w) \/ RxStep(w) \/ SendStep(w)
      PROVE  \/ UasRetransmits'
             \/ /\ Has(tsx, "PENDING_RESCHED")
                /\ \E v \in Workers, m \in Msgs : TransportCallback(v, m)
  <2>1. \/ Speaks(w)
        \/ Has(tsx, "PENDING_RESCHED") /\ \E m \in Msgs : TransportCallback(w, m)
    BY <1>3, TimerStepSpeaks, RxStepSpeaks, SendStepSpeaks
  <2>2. \A v \in Workers : v # w => pc'[v] = pc[v]
    BY <1>3, StepMoves
  <2> QED
    BY <1>1, <2>1, <2>2, WorkerRetransmits
<1>4. CASE UserStep \/ TransportDown \/ LayerStop
  BY <1>1, <1>4, UserStepLasts, EnvStepLasts, PassiveRetransmits
<1> QED
  BY <1>2, <1>3, <1>4 DEF Next, Over

(* A server that waits for the ACK on an unreliable transport retransmits   *)
(* its final response, or has put the next start off behind a send that is  *)
(* pending, as long as no such send ends: the only step after which it does *)
(* so no more is transport_callback with a start put off, for any number of *)
(* polling threads.                                                         *)
THEOREM UasKeepsRetransmitting == Spec => FallsSilentOnlyInCallback
<1>1. IInv /\ Timely /\ [Next]_vars =>
        [UasRetransmits /\ ~UasRetransmits' =>
           /\ Has(tsx, "PENDING_RESCHED")
           /\ \E w \in Workers, m \in Msgs : TransportCallback(w, m)]_vars
  BY NextRetransmits
<1> QED
  BY <1>1, Invariance, AlwaysTimely, PTL DEF Spec, FallsSilentOnlyInCallback
-----------------------------------------------------------------------------
(* The client of an INVITE stops retransmitting.  What matters is how far   *)
(* the request has got.  The address of the server is known once a send has *)
(* been called back,                                                        *)
Known(s) == Has(s, "RESOLVED_SERVER")

(* and before that nothing goes out by itself: no retransmission, no send on*)
(* a transport, and everything sent meanwhile is put off.                   *)
Reach(s) ==
  /\ s.tm[RT].armed \/ s.transport # "none" \/ (\E d \in s.sends : d.kind = "tp") => Known(s)
  /\ Known(s) => s.pendingTx = None
  /\ Has(s, "PENDING_TRANSPORT") \/ Known(s)

(* The first send has come back to a worker that has not the lock yet.      *)
Hangs(s) == ~Known(s) /\ [kind |-> "sl", msg |-> s.pendingTx] \notin s.sends

(* No callback that is still to come will start a retransmission.           *)
Still(s) == Has(s, "PENDING_RESCHED") => Known(s)

Gone(s) == s.state \in {Terminated, Destroyed}

(* A step from s to t sends nothing and starts no retransmission, *)
Below(s, t) ==
  /\ t.state = s.state /\ t.pendingTx = s.pendingTx /\ t.sends \subseteq s.sends
  /\ t.transport # "none" => s.transport # "none"
  /\ t.tm[RT].armed => s.tm[RT].armed
  /\ Has(t, "PENDING_RESCHED") => Has(s, "PENDING_RESCHED")
  /\ \A f \in {"PENDING_TRANSPORT", "RESOLVED_SERVER"} : Has(t, f) <=> Has(s, f)

(* it goes on as far, *)
Sits(s, t) == t.state = s.state /\ (Reach(s) => Reach(t) /\ (Known(s) => Known(t)))

(* and quietly, *)
Quietly(s, t) == Reach(s) /\ Still(s) => Still(t) /\ (t.tm[RT].armed => s.tm[RT].armed)

(* or the transaction is over. *)
Leads(s, t) ==
  Gone(t) \/ (Sits(s, t) /\ Quietly(s, t) /\ (Reach(s) /\ Hangs(s) => Hangs(t)))

LeadsOuts(s, O) == \A o \in O : Leads(s, o.tsx)

LEMMA LeadsRefl == ASSUME NEW s PROVE Leads(s, s)
BY DEF Leads, Sits, Quietly

LEMMA LeadsTrans ==
  ASSUME NEW s, NEW t, NEW u, Leads(s, t), Leads(t, u)
  PROVE  Leads(s, u)
BY DEF Leads, Sits, Quietly, Gone

LEMMA BelowLeads ==
  ASSUME NEW s, NEW t, Below(s, t)
  PROVE  Leads(s, t)
BY DEF Below, Leads, Sits, Quietly, Reach, Known, Hangs, Still

LEMMA BelowTrans ==
  ASSUME NEW s, NEW t, NEW u, Below(s, t), Below(t, u)
  PROVE  Below(s, u)
BY DEF Below

LEMMA GoneIs ==
  ASSUME NEW s, Good(s)
  PROVE  /\ Gone(s) <=> s.state >= Terminated
         /\ Gone(s) <=> ~(s.state < Terminated)
BY DEF Good, TsxType, Gone, StNull, Terminated, Destroyed

(* What is below. *)
LEMMA SmallBelows ==
  ASSUME NEW s, Good(s)
  PROVE  /\ Below(s, AddRef(s)) /\ Below(s, DecRef(s)) /\ Below(s, Tell(s))
         /\ Below(s, [s EXCEPT !.err = TRUE])
         /\ \A c : Below(s, [s EXCEPT !.code = c])
         /\ \A m : Below(s, [s EXCEPT !.lastTx = m])
         /\ Below(s, [s EXCEPT !.transport = "none"])
         /\ s.transport = "up" => Below(s, [s EXCEPT !.transport = "down"])
         /\ \A x \in SUBSET s.sends : Below(s, [s EXCEPT !.sends = x])
         /\ Below(s, Raise(s, "PENDING_SEND"))
         /\ Below(s, Lower(s, {"PENDING_SEND"}))
         /\ Below(s, Lower(s, {"PENDING_RESCHED"}))
         /\ Below(s, Dropped(s))
<1>1. /\ Below(s, AddRef(s)) /\ Below(s, DecRef(s)) /\ Below(s, Tell(s))
      /\ Below(s, [s EXCEPT !.err = TRUE])
      /\ \A c : Below(s, [s EXCEPT !.code = c])
      /\ \A m : Below(s, [s EXCEPT !.lastTx = m])
  BY DEF Good, TsxType, AddRef, DecRef, Tell, Below, Has
<1>2. /\ Below(s, [s EXCEPT !.transport = "none"])
      /\ s.transport = "up" => Below(s, [s EXCEPT !.transport = "down"])
      /\ \A x \in SUBSET s.sends : Below(s, [s EXCEPT !.sends = x])
      /\ Below(s, Dropped(s))
  BY DEF Good, TsxType, Dropped, Below, Has
<1>3. /\ Below(s, Raise(s, "PENDING_SEND"))
      /\ Below(s, Lower(s, {"PENDING_SEND"}))
      /\ Below(s, Lower(s, {"PENDING_RESCHED"}))
  BY DEF Good, TsxType, Raise, Lower, Below, Has
<1> QED
  BY <1>1, <1>2, <1>3

(* The timers, but for starting the retransmission. *)
LEMMA TimerBelows ==
  ASSUME NEW s, Good(s)
  PROVE  /\ \A e \in {RT, TO} : Below(s, Cancel(s, e))
         /\ \A e \in {RT, TO} : Below(s, [s EXCEPT !.tm[e].armed = FALSE])
         /\ \A e \in {RT, TO} : Below(s, [s EXCEPT !.tm[e].id = Inactive])
         /\ \A i : Below(s, Schedule(s, TO, i))
<1>1. s \in TsxType /\ s.tm \in Timers /\ RT # TO
  BY DEF Good, TsxType, RT, TO
<1>2. ASSUME NEW e \in {RT, TO} PROVE Below(s, Cancel(s, e)) /\ ~Cancel(s, e).tm[e].armed
  BY <1>1, <1>2 DEF TsxType, Timers, Cancel, Below, Has
<1>3. ASSUME NEW e \in {RT, TO}
      PROVE  Below(s, [s EXCEPT !.tm[e].armed = FALSE]) /\ Below(s, [s EXCEPT !.tm[e].id = Inactive])
  BY <1>1, <1>3 DEF TsxType, Timers, Below, Has
<1>4. ASSUME NEW i PROVE Below(s, Schedule(s, TO, i))
  BY <1>1 DEF TsxType, Timers, Schedule, Below, Has
<1> QED
  BY <1>2, <1>3, <1>4

LEMMA RestartBelow ==
  ASSUME NEW s, Good(s), NEW i \in Inactive..TransportErrTimer
  PROVE  Below(s, Restart(s, TO, i)) /\ Good(Restart(s, TO, i))
<1> DEFINE c == Cancel(s, TO)
<1>1. Good(c) /\ Below(s, c)
  BY Ids, CancelSafe, TimerBelows DEF Safe
<1>2. Restart(s, TO, i) = Schedule(c, TO, i)
  BY DEF Restart
<1> HIDE DEF c
<1>3. Below(c, Schedule(c, TO, i))
  BY <1>1, TimerBelows
<1>4. Good(Restart(s, TO, i))
  BY Ids, RestartSafe DEF Safe
<1> QED
  BY <1>1, <1>2, <1>3, <1>4, BelowTrans

LEMMA PostTransportErrorBelow ==
  ASSUME NEW s, Good(s)
  PROVE  Below(s, PostTransportError(s))
<1> DEFINE t == [s EXCEPT !.err = TRUE]
<1>1. s \in TsxType /\ TRUE \in BOOLEAN
  BY DEF Good
<1>2. t \in TsxType
  BY <1>1, ZenonT(40) DEF TsxType
<1>3. Alike(s, t)
  BY <1>1 DEF TsxType, Alike
<1>4. Good(t) /\ Below(s, t)
  BY <1>2, <1>3, Neutral, SmallBelows DEF Safe
<1>5. PostTransportError(s) \in {t, Restart(t, TO, TransportErrTimer)}
  BY DEF PostTransportError
<1> HIDE DEF t
<1>6. TransportErrTimer \in Inactive..TransportErrTimer
  BY DEF Inactive, TransportErrTimer
<1>7. Below(t, Restart(t, TO, TransportErrTimer))
  BY <1>4, <1>6, RestartBelow
<1> QED
  BY <1>4, <1>5, <1>7, BelowTrans

(* State changes. *)
LEMMA StateBelow ==
  ASSUME NEW s, Good(s), NEW st \in {Calling, Trying, Proceeding, Completed, Confirmed}
  PROVE  LET t == SetState(s, st)
         IN  /\ Good(t) /\ t.state = st /\ t.sends = s.sends /\ t.pendingTx = s.pendingTx
             /\ t.transport = s.transport /\ t.tm = s.tm /\ t.flags = s.flags
<1>1. st # Terminated /\ st # Destroyed
  BY DEF Calling, Trying, Proceeding, Completed, Confirmed, Terminated, Destroyed
<1>2. SetState(s, st) = Tell([s EXCEPT !.state = st])
  BY <1>1 DEF SetState, Settle
<1>3. Good(SetState(s, st))
  BY <1>2, States, StateDoes
<1> QED
  BY <1>2, <1>3 DEF Good, TsxType, Tell

LEMMA GoneStates ==
  ASSUME NEW s, Good(s)
  PROVE  /\ Gone(SetState(s, Terminated))
         /\ Gone(SetState(s, Destroyed))
         /\ SetState(s, Terminated).err = s.err
<1>1. SetState(s, Terminated).state = Terminated
  BY TerminateCalm
<1>2. SetState(s, Destroyed).state = Destroyed
  <2> DEFINE u == Tell([s EXCEPT !.state = Destroyed])
  <2>1. Good(u) /\ u.state = Destroyed
    BY StateDoes, States
  <2>2. SetState(s, Destroyed) = Settle(u, Destroyed)
    BY DEF SetState
  <2> HIDE DEF u
  <2> QED
    BY <2>1, <2>2, SettleGone
<1>3. SetState(s, Terminated).err = s.err
  <2> DEFINE u == Tell([s EXCEPT !.state = Terminated])
             d == Detach(u)
  <2>1. Good(u)
    BY StateDoes, States
  <2>2. u.err = s.err
    BY DEF Good, TsxType, Tell
  <2>3. SetState(s, Terminated) = Restart(d, TO, TimeoutTimer)
    BY DEF SetState, Settle, Terminated, Destroyed
  <2> HIDE DEF u
  <2>4. Good(d) /\ d.err = u.err
    <3>1. Good(d)
      BY <2>1, DetachSafe DEF Safe
    <3> QED
      BY <2>1, <3>1 DEF Good, TsxType, Detach, Lower
  <2> HIDE DEF d
  <2>5. Restart(d, TO, TimeoutTimer).err = d.err
    BY <2>4 DEF Good, TsxType, Restart, Cancel, Schedule
  <2> QED
    BY <2>2, <2>3, <2>4, <2>5
<1> QED
  BY <1>1, <1>2, <1>3 DEF Gone

(* Sending. *)
LEMMA GoneLeads == ASSUME NEW s, NEW t, Gone(t) PROVE Leads(s, t)
BY DEF Leads

LEMMA AcceptedLeads ==
  ASSUME NEW s, Good(s), NEW m \in Msgs
  PROVE  LeadsOuts(s, Accepted(s, m)) /\ \A o \in Accepted(s, m) : o.ok /\ o.tsx.state = s.state
<1> DEFINE r == Raise(s, "PENDING_TRANSPORT")
           t == InFlight(r, "tp", m)
<1>1. /\ t.state = s.state /\ t.pendingTx = s.pendingTx /\ t.tm = s.tm
      /\ Has(t, "PENDING_TRANSPORT")
      /\ \A f \in {"PENDING_RESCHED", "RESOLVED_SERVER"} : Has(t, f) <=> Has(s, f)
  BY DEF Good, TsxType, Raise, InFlight, AddRef, Has
<1>2. ASSUME s.transport = "up" PROVE Leads(s, t)
  <2> HIDE DEF t
  <2>1. Reach(s) => Known(s)
    BY <1>2 DEF Reach
  <2> QED
    BY <1>1, <2>1 DEF Leads, Sits, Quietly, Reach, Known, Still, Hangs
<1>3. \A o \in Accepted(s, m) : o.tsx \in {s, t} /\ o.ok /\ s.transport = "up"
  BY DEF Accepted, Ok
<1> HIDE DEF t
<1> QED
  BY <1>1, <1>2, <1>3, LeadsRefl DEF LeadsOuts

LEMMA SendResolvedLeads ==
  ASSUME NEW s, Good(s), NEW m \in Msgs
  PROVE  /\ LeadsOuts(s, SendResolved(s, m))
         /\ \A o \in SendResolved(s, m) : IF o.ok THEN o.tsx.state = s.state ELSE Gone(o.tsx)
<1> DEFINE d == Dropped(s)
           t == [d EXCEPT !.code = TransportError]
           u == SetState(t, Terminated)
<1>1. Good(d)
  BY DroppedSafe DEF Safe
<1> HIDE DEF d
<1>2. TransportError \in 0..699
  BY DEF TransportError
<1>3. Good(t)
  BY <1>1, <1>2, CodeAkin
<1> HIDE DEF t
<1>4. Gone(u)
  BY <1>3, GoneStates
<1>5. SendResolved(s, m) = Accepted(s, m) \cup {Fail(u)}
  BY DEF SendResolved, t, d
<1>6. Fail(u).tsx = u /\ ~Fail(u).ok
  BY DEF Fail
<1> HIDE DEF u
<1> QED
  BY <1>4, <1>5, <1>6, AcceptedLeads, GoneLeads DEF LeadsOuts

(* Once the request has been sent, tsx_send_msg does not look for the server*)
(* again.                                                                   *)
LEMMA SendMsgLeads ==
  ASSUME NEW s, Good(s), NEW m \in Msgs, Reach(s)
  PROVE  /\ LeadsOuts(s, SendMsg(s, m))
         /\ \A o \in SendMsg(s, m) : IF o.ok THEN o.tsx.state = s.state ELSE Gone(o.tsx)
<1> DEFINE p == Raise(s, "PENDING_SEND")
           Resolved == SendResolved(s, m)
<1>1. SendMsg(s, m) \in {{Ok(p)}, {Ok(s)}, Resolved}
  BY DEF SendMsg, Reach, Known
<1>2. Leads(s, p) /\ p.state = s.state
  <2>1. Below(s, p)
    BY SmallBelows
  <2> QED
    BY <2>1, BelowLeads DEF Below
<1>3. /\ LeadsOuts(s, Resolved)
      /\ \A o \in Resolved : IF o.ok THEN o.tsx.state = s.state ELSE Gone(o.tsx)
  BY SendResolvedLeads
<1> HIDE DEF p, Resolved
<1>4. Ok(p).tsx = p /\ Ok(p).ok /\ Ok(s).tsx = s /\ Ok(s).ok
  BY DEF Ok
<1> QED
  BY <1>1, <1>2, <1>3, <1>4, LeadsRefl DEF LeadsOuts

(* Where a send that is called back leaves it: the server is known. *)
Found(s, t) == t.state = s.state /\ Known(t) /\ t.pendingTx = None

LEMMA FoundReach ==
  ASSUME NEW s, NEW t, Found(s, t)
  PROVE  Reach(t) /\ Known(t) /\ Still(t)
BY DEF Found, Reach, Still

LEMMA AdoptTransportFinds ==
  ASSUME NEW s, Good(s), NEW t \in AdoptTransport(s)
  PROVE  /\ Good(t) /\ t.state = s.state /\ t.pendingTx = s.pendingTx /\ t.flags = s.flags
         /\ t.tm[RT] = s.tm[RT]
<1> DEFINE p == PostTransportError(s)
           n == [s EXCEPT !.err = TRUE]
<1>1. Good(t)
  BY AdoptTransportSafe DEF SafeAll, Safe
<1>2. Good(p)
  BY PostTransportErrorSafe DEF Safe
<1>3. /\ p.state = s.state /\ p.pendingTx = s.pendingTx /\ p.flags = s.flags
      /\ p.tm[RT] = s.tm[RT]
  <2>1. s \in TsxType /\ TRUE \in BOOLEAN
    BY DEF Good
  <2>2. n \in TsxType
    BY <2>1, ZenonT(40) DEF TsxType
  <2>3. Alike(s, n)
    BY <2>1 DEF TsxType, Alike
  <2>4. Good(n)
    BY <2>2, <2>3, Neutral DEF Safe
  <2>5. /\ n.state = s.state /\ n.pendingTx = s.pendingTx /\ n.flags = s.flags /\ n.tm = s.tm
    BY <2>1 DEF TsxType
  <2>6. p \in {n, Restart(n, TO, TransportErrTimer)}
    BY DEF PostTransportError
  <2> HIDE DEF n, p
  <2>7. TransportErrTimer \in Inactive..TransportErrTimer /\ RT # TO
    BY DEF Inactive, TransportErrTimer, RT, TO
  <2>8. Restart(n, TO, TransportErrTimer).tm[RT] = n.tm[RT]
    BY <2>4, <2>7, Ids, RestartDoes
  <2>9. Below(n, Restart(n, TO, TransportErrTimer)) /\ Restart(n, TO, TransportErrTimer).flags = n.flags
    BY <2>4, <2>7, Ids, RestartBelow, RestartDoes
  <2> QED
    BY <2>5, <2>6, <2>8, <2>9 DEF Below
<1>4. \/ t = s
      \/ \E r \in BOOLEAN : t = [s EXCEPT !.transport = "up", !.reliable = r]
      \/ \E r \in BOOLEAN : t = [p EXCEPT !.transport = "down", !.reliable = r]
  <2>1. s.reliable \in BOOLEAN
    BY DEF Good, TsxType
  <2> QED
    BY <2>1 DEF AdoptTransport
<1> HIDE DEF p
<1>5. ASSUME NEW r \in BOOLEAN, NEW q, Good(q), NEW x,
             t = [q EXCEPT !.transport = x, !.reliable = r]
      PROVE  /\ t.state = q.state /\ t.pendingTx = q.pendingTx /\ t.flags = q.flags
             /\ t.tm = q.tm
  BY <1>5 DEF Good, TsxType
<1>6. ASSUME NEW r \in BOOLEAN, t = [s EXCEPT !.transport = "up", !.reliable = r]
      PROVE  /\ t.state = s.state /\ t.pendingTx = s.pendingTx /\ t.flags = s.flags
             /\ t.tm[RT] = s.tm[RT]
  BY <1>5, <1>6
<1>7. ASSUME NEW r \in BOOLEAN, t = [p EXCEPT !.transport = "down", !.reliable = r]
      PROVE  /\ t.state = s.state /\ t.pendingTx = s.pendingTx /\ t.flags = s.flags
             /\ t.tm[RT] = s.tm[RT]
  <2>1. t.state = p.state /\ t.pendingTx = p.pendingTx /\ t.flags = p.flags /\ t.tm = p.tm
    BY <1>2, <1>5, <1>7
  <2> QED
    BY <1>3, <2>1
<1> QED
  BY <1>1, <1>4, <1>6, <1>7

LEMMA SendDeferredFinds ==
  ASSUME NEW s, Good(s), Known(s), s.pendingTx = None, NEW t \in SendDeferred(s)
  PROVE  /\ Good(t)
         /\ Gone(t) \/ (Found(s, t) /\ (Has(t, "PENDING_RESCHED") => Has(s, "PENDING_RESCHED"))
                                   /\ t.tm[RT] = s.tm[RT])
         /\ ~Has(s, "PENDING_SEND") => t = s
<1> DEFINE c == Lower(s, {"PENDING_SEND"})
<1>1. Good(t)
  BY SendDeferredSafe DEF SafeAll, Safe
<1>2. Good(c)
  BY LowerSafe DEF Safe
<1>3. /\ c.state = s.state /\ c.pendingTx = s.pendingTx /\ c.tm = s.tm
      /\ \A f \in Flags \ {"PENDING_SEND"} : Has(c, f) <=> Has(s, f)
  BY DEF Good, TsxType, Lower, Has
<1>4. Found(s, c) /\ (Has(c, "PENDING_RESCHED") <=> Has(s, "PENDING_RESCHED"))
  BY <1>3 DEF Found, Known, Flags
<1>5. ASSUME NEW m \in Msgs, NEW o \in Accepted(c, m)
      PROVE  /\ o.tsx.state = c.state /\ o.tsx.pendingTx = c.pendingTx /\ o.tsx.tm = c.tm
             /\ \A f \in Flags \ {"PENDING_TRANSPORT"} : Has(o.tsx, f) <=> Has(c, f)
  <2> DEFINE r == Raise(c, "PENDING_TRANSPORT")
             i == InFlight(r, "tp", m)
  <2>1. /\ i.state = c.state /\ i.pendingTx = c.pendingTx /\ i.tm = c.tm
        /\ \A f \in Flags \ {"PENDING_TRANSPORT"} : Has(i, f) <=> Has(c, f)
    BY <1>2 DEF Good, TsxType, Raise, InFlight, AddRef, Has
  <2>2. o.tsx \in {c, i}
    BY <1>5 DEF Accepted, Ok
  <2> HIDE DEF i, c
  <2> QED
    BY <2>1, <2>2
<1>6. \/ t = s /\ ~Has(s, "PENDING_SEND")
      \/ t = c /\ Has(s, "PENDING_SEND")
      \/ \E m \in Msgs : \E o \in SendResolved(c, m) : t = o.tsx /\ Has(s, "PENDING_SEND")
  BY DEF SendDeferred, Good, TsxType, MaybeMsg
<1> HIDE DEF c
<1>7. ASSUME NEW m \in Msgs, NEW o \in SendResolved(c, m), t = o.tsx
      PROVE  Gone(t) \/ o \in Accepted(c, m)
  <2>1. o.ok => o \in Accepted(c, m)
    BY <1>7 DEF SendResolved, Fail
  <2> QED
    BY <1>2, <1>7, <2>1, SendResolvedLeads
<1>8. Gone(t) \/ (Found(s, t) /\ (Has(t, "PENDING_RESCHED") => Has(s, "PENDING_RESCHED"))
                             /\ t.tm[RT] = s.tm[RT])
  <2>1. CASE t = s
    BY <2>1 DEF Found
  <2>2. CASE t = c
    BY <1>3, <1>4, <2>2
  <2>3. ASSUME NEW m \in Msgs, NEW o \in Accepted(c, m), t = o.tsx
        PROVE  Found(s, t) /\ (Has(t, "PENDING_RESCHED") => Has(s, "PENDING_RESCHED"))
               /\ t.tm[RT] = s.tm[RT]
    BY <1>3, <1>4, <1>5, <2>3 DEF Found, Known, Flags
  <2> QED
    BY <1>6, <1>7, <2>1, <2>2, <2>3
<1> QED
  BY <1>1, <1>6, <1>8

(* A retransmission that was put off is started, *)
LEMMA ReschedDeferredFinds ==
  ASSUME NEW s, Good(s), Known(s), s.pendingTx = None
  PROVE  LET t == ReschedDeferred(s)
         IN  /\ Found(s, t)
             /\ t.tm[RT].armed => s.tm[RT].armed \/ Has(s, "PENDING_RESCHED")
<1> DEFINE c == Lower(s, {"PENDING_RESCHED"})
           u == Schedule(c, RT, RetransmitTimer)
           t == ReschedDeferred(s)
<1>1. Good(c)
  BY LowerSafe DEF Safe
<1>2. c.state = s.state /\ c.pendingTx = s.pendingTx /\ c.tm = s.tm /\ Known(c)
  BY DEF Good, TsxType, Lower, Known, Has
<1>3. t = s \/ (t \in {c, u} /\ Has(s, "PENDING_RESCHED"))
  BY DEF ReschedDeferred
<1> HIDE DEF c, t
<1>4. u.state = c.state /\ u.pendingTx = c.pendingTx /\ u.flags = c.flags
  BY <1>1 DEF Good, TsxType, Schedule
<1> HIDE DEF u
<1>5. Found(s, t) /\ (t.tm[RT].armed => s.tm[RT].armed \/ Has(s, "PENDING_RESCHED"))
  BY <1>2, <1>3, <1>4 DEF Found, Known, Has
<1> QED
  BY <1>5 DEF t

(* by the send that is called back and by nothing else. *)
LEMMA DeliveredFinds ==
  ASSUME NEW s, Good(s), NEW t \in Delivered(s)
  PROVE  /\ Gone(t) \/ Found(s, t)
         /\ Gone(t) \/ (t.tm[RT].armed => s.tm[RT].armed \/ Has(s, "PENDING_RESCHED"))
         /\ ~Has(s, "PENDING_SEND") /\ ~Has(s, "PENDING_DESTROY") => Found(s, t)
<1> DEFINE d == DecRef(s)
           b == [d EXCEPT !.pendingTx = None]
           Lowered(a) == Lower(a, {"PENDING_TRANSPORT"})
           Done(a) == Raise(Lowered(a), "RESOLVED_SERVER")
           After(a) == IF Has(a, "PENDING_DESTROY")
                         THEN {SetState(a, Destroyed)}
                         ELSE {ReschedDeferred(e) : e \in SendDeferred(a)}
<1>1. Good(d) /\ d.state = s.state /\ d.flags = s.flags /\ d.tm = s.tm
  <2>1. Good(d)
    BY DecRefHeld
  <2> QED
    BY <2>1 DEF Good, TsxType, DecRef
<1>2. PICK a \in AdoptTransport(b) : t \in After(Done(a))
  BY DEF Delivered
<1> HIDE DEF d
<1>3. Good(b) /\ b.state = s.state /\ b.flags = s.flags /\ b.tm = s.tm /\ b.pendingTx = None
  <2>1. d \in TsxType /\ None \in MaybeMsg
    BY <1>1 DEF Good, MaybeMsg
  <2>2. b \in TsxType
    BY <2>1, ZenonT(40) DEF TsxType
  <2>3. Alike(d, b) /\ b.state = d.state /\ b.flags = d.flags /\ b.tm = d.tm
        /\ b.pendingTx = None
    BY <2>1 DEF TsxType, Alike
  <2> QED
    BY <1>1, <2>2, <2>3, Neutral DEF Safe
<1> HIDE DEF b
<1>4. /\ Good(a) /\ a.state = s.state /\ a.flags = s.flags /\ a.tm[RT] = s.tm[RT]
      /\ a.pendingTx = None
  BY <1>3, AdoptTransportFinds
<1>5. Good(Lowered(a)) /\ Lowered(a).state = a.state /\ Lowered(a).tm = a.tm
      /\ Lowered(a).pendingTx = a.pendingTx
      /\ \A f \in Flags \ {"PENDING_TRANSPORT"} : Has(Lowered(a), f) <=> Has(a, f)
  <2>1. Good(Lowered(a))
    BY <1>4, LowerSafe DEF Safe
  <2> QED
    BY <1>4, <2>1 DEF Good, TsxType, Lower, Has
<1> DEFINE l == Lowered(a)
           e == Done(a)
<1>6. e = Raise(l, "RESOLVED_SERVER") /\ "RESOLVED_SERVER" \in Flags
  BY DEF Flags
<1> HIDE DEF l, Lowered
<1>7. Good(l) /\ l.state = s.state /\ l.tm[RT] = s.tm[RT] /\ l.pendingTx = None
      /\ \A f \in Flags \ {"PENDING_TRANSPORT"} : Has(l, f) <=> Has(s, f)
  BY <1>4, <1>5 DEF l, Has
<1> HIDE DEF e, Done
<1>8. Good(e) /\ e.state = s.state /\ e.tm[RT] = s.tm[RT] /\ e.pendingTx = None /\ Known(e)
      /\ \A f \in {"PENDING_RESCHED", "PENDING_SEND", "PENDING_DESTROY"} : Has(e, f) <=> Has(s, f)
  <2>1. Good(e)
    BY <1>6, <1>7, RaiseSafe DEF Safe
  <2> QED
    BY <1>6, <1>7, <2>1 DEF Good, TsxType, Raise, Has, Known, Flags
<1>9. \/ Has(s, "PENDING_DESTROY") /\ t = SetState(e, Destroyed)
      \/ \E f \in SendDeferred(e) : t = ReschedDeferred(f)
  BY <1>2, <1>8 DEF e
<1>10. ASSUME t = SetState(e, Destroyed) PROVE Gone(t)
  BY <1>8, <1>10, GoneStates
<1>11. ASSUME NEW f \in SendDeferred(e), t = ReschedDeferred(f), ~Gone(f)
       PROVE  Found(s, t) /\ (t.tm[RT].armed => s.tm[RT].armed \/ Has(s, "PENDING_RESCHED"))
  <2>1. Good(f) /\ Found(e, f) /\ (Has(f, "PENDING_RESCHED") => Has(e, "PENDING_RESCHED"))
        /\ f.tm[RT] = e.tm[RT]
    BY <1>8, <1>11, SendDeferredFinds
  <2>2. Found(f, t) /\ (t.tm[RT].armed => f.tm[RT].armed \/ Has(f, "PENDING_RESCHED"))
    BY <1>11, <2>1, ReschedDeferredFinds DEF Found
  <2> QED
    BY <1>8, <2>1, <2>2 DEF Found
<1>12. ASSUME NEW f \in SendDeferred(e), t = ReschedDeferred(f), Gone(f)
       PROVE  Gone(t)
  <2>1. Good(f)
    BY <1>8, <1>12, SendDeferredFinds
  <2>2. Below(f, Lower(f, {"PENDING_RESCHED"})) /\ Good(Lower(f, {"PENDING_RESCHED"}))
    BY <2>1, SmallBelows, LowerSafe DEF Safe
  <2> DEFINE c == Lower(f, {"PENDING_RESCHED"})
  <2>3. t \in {f, c, Schedule(c, RT, RetransmitTimer)}
    BY <1>12 DEF ReschedDeferred
  <2>4. Good(c) /\ c.state = f.state
    BY <2>2 DEF Below
  <2> HIDE DEF c
  <2>5. Schedule(c, RT, RetransmitTimer).state = c.state
    BY <2>4, Ids, ScheduleDoes DEF Beside
  <2> QED
    BY <1>12, <2>3, <2>4, <2>5 DEF Gone
<1>13. ASSUME ~Has(s, "PENDING_SEND"), ~Has(s, "PENDING_DESTROY") PROVE Found(s, t)
  <2>1. SendDeferred(e) = {e}
    BY <1>8, <1>13 DEF SendDeferred
  <2>2. t = ReschedDeferred(e)
    BY <1>9, <1>13, <2>1
  <2>3. Found(e, t)
    BY <1>8, <2>2, ReschedDeferredFinds
  <2> QED
    BY <1>8, <2>3 DEF Found
<1> QED
  BY <1>9, <1>10, <1>11, <1>12, <1>13

(* A send that fails ends the transaction, *)
LEMMA GiveUpGone ==
  ASSUME NEW s, Good(s)
  PROVE  /\ Gone(GiveUp(s))
         /\ ~Gone(s) => GiveUp(s).state = Terminated /\ GiveUp(s).err
<1> DEFINE l == Lower(s, {"PENDING_TRANSPORT"})
           r == Raise(l, "RESOLVED_SERVER")
           g == [r EXCEPT !.err = TRUE, !.code = TransportError]
<1>1. Good(l) /\ l.state = s.state
  <2>1. Good(l)
    BY LowerSafe DEF Safe
  <2> QED
    BY <2>1 DEF Good, TsxType, Lower
<1> HIDE DEF l
<1>2. Good(r) /\ r.state = s.state
  <2>1. Good(r)
    BY <1>1, RaiseSafe DEF Safe, Flags
  <2> QED
    BY <1>1, <2>1 DEF Good, TsxType, Raise
<1> HIDE DEF r
<1>3. Good(g) /\ g.state = s.state /\ g.err
  <2>1. r \in TsxType /\ TransportError \in 0..699 /\ TRUE \in BOOLEAN
    BY <1>2 DEF Good, TransportError
  <2>2. g \in TsxType
    BY <2>1, ZenonT(40) DEF TsxType
  <2>3. Alike(r, g) /\ g.state = r.state /\ g.err
    BY <2>1 DEF TsxType, Alike
  <2> QED
    BY <1>2, <2>2, <2>3, Neutral DEF Safe
<1>4. /\ g.state < Terminated => GiveUp(s) = SetState(g, Terminated)
      /\ ~(g.state < Terminated) => GiveUp(s) \in {g, SetState(g, Destroyed)}
  <2>1. g.state \in StNull..Destroyed
    BY <1>3 DEF Good, TsxType
  <2>2. GiveUp(s) = CASE g.state < Terminated -> SetState(g, Terminated)
                      [] g.state >= Terminated /\ Has(g, "PENDING_DESTROY") -> SetState(g, Destroyed)
                      [] OTHER -> g
    BY DEF GiveUp, r, l
  <2> HIDE DEF g
  <2> QED
    BY <2>1, <2>2 DEF StNull, Terminated, Destroyed
<1> HIDE DEF g
<1>5. SetState(g, Terminated).state = Terminated /\ SetState(g, Terminated).err
      /\ Gone(SetState(g, Destroyed))
  BY <1>3, TerminateCalm, GoneStates
<1>6. CASE g.state < Terminated
  BY <1>4, <1>5, <1>6 DEF Gone
<1>7. CASE ~(g.state < Terminated)
  BY <1>3, <1>4, <1>5, <1>7, GoneIs DEF Gone
<1> QED
  BY <1>6, <1>7

(* or goes on with the next address, and the server is still not known. *)
LEMMA NextAddressGoesOn ==
  ASSUME NEW s, Good(s), NEW m \in Msgs, s.alt # 0
  PROVE  LET t == NextAddress(s, m)
         IN  t.state = s.state /\ (~Known(s) => Sits(s, t) /\ Quietly(s, t))
<1> DEFINE f == InFlight(s, "sl", m)
           a == [f EXCEPT !.pendingTx = m, !.alt = f.alt - 1]
           t == NextAddress(s, m)
<1>1. Good(f) /\ f.alt = s.alt
  <2>1. Good(f)
    BY InFlightSafe DEF Safe
  <2> QED
    BY <2>1 DEF Good, TsxType, InFlight, AddRef
<1>2. /\ f.state = s.state /\ f.flags = s.flags /\ f.transport = s.transport /\ f.tm = s.tm
      /\ f.sends = s.sends \cup {[kind |-> "sl", msg |-> m]}
  BY DEF Good, TsxType, InFlight, AddRef
<1>3. t \in {a, Restart(a, TO, TimeoutTimer)}
  BY DEF NextAddress
<1> HIDE DEF f, t
<1>4. Good(a)
  <2>1. f \in TsxType /\ m \in MaybeMsg /\ f.alt - 1 \in Nat
    BY <1>1 DEF Good, TsxType, MaybeMsg
  <2>2. a \in TsxType
    BY <2>1, ZenonT(40) DEF TsxType
  <2>3. Alike(f, a)
    BY <2>1 DEF TsxType, Alike
  <2> QED
    BY <1>1, <2>2, <2>3, Neutral DEF Safe
<1>5. /\ a.state = f.state /\ a.flags = f.flags /\ a.transport = f.transport /\ a.tm = f.tm
      /\ a.sends = f.sends
  BY <1>1 DEF Good, TsxType
<1> HIDE DEF a
<1>6. Below(a, a) /\ Below(a, Restart(a, TO, TimeoutTimer))
  BY <1>4, Ids, RestartBelow DEF Below
<1>7. Below(a, t)
  BY <1>3, <1>6
<1>8. t.state = s.state /\ (~Known(s) => Sits(s, t) /\ Quietly(s, t))
  BY <1>2, <1>5, <1>7 DEF Below, Sits, Quietly, Reach, Known, Still, Has
<1> QED
  BY <1>8 DEF t

LEMMA UndeliveredGoesOn ==
  ASSUME NEW s, Good(s), NEW m \in Msgs, NEW t \in Undelivered(s, m)
  PROVE  /\ Gone(t) \/ (t.state = s.state /\ (~Known(s) => Sits(s, t) /\ Quietly(s, t)))
         /\ ~Gone(s) => (t.state = Terminated /\ t.err) \/ t.state = s.state
<1> DEFINE d == DecRef(s)
           b == [d EXCEPT !.pendingTx = None]
           c == [b EXCEPT !.transport = "none"]
<1>1. Good(d) /\ d.alt = s.alt
  <2>1. d.alt = s.alt
    BY DEF DecRef, Good, TsxType
  <2> QED
    BY <2>1, DecRefHeld
<1>2. d.state = s.state /\ d.flags = s.flags /\ d.transport = s.transport /\ d.tm = s.tm
      /\ d.sends = s.sends
  BY DEF Good, TsxType, DecRef
<1>3. PICK a \in {b, c} : t = GiveUp(a) \/ (s.alt # 0 /\ t = NextAddress(a, m))
  BY DEF Undelivered
<1> HIDE DEF d
<1>4. d \in TsxType /\ None \in MaybeMsg /\ "none" \in {"none", "up", "down"}
  BY <1>1 DEF Good, MaybeMsg
<1>5. Good(b) /\ b.alt = s.alt /\ b.state = s.state /\ b.flags = s.flags
      /\ b.transport = s.transport /\ b.tm = s.tm /\ b.sends = s.sends
  <2>1. b \in TsxType
    BY <1>4, ZenonT(40) DEF TsxType
  <2>2. Alike(d, b) /\ b.alt = d.alt /\ b.state = d.state /\ b.flags = d.flags
        /\ b.transport = d.transport /\ b.tm = d.tm /\ b.sends = d.sends
    BY <1>4 DEF TsxType, Alike
  <2> QED
    BY <1>1, <1>2, <2>1, <2>2, Neutral DEF Safe
<1> HIDE DEF b
<1>6. Good(c) /\ c.alt = s.alt /\ c.state = s.state /\ c.flags = s.flags
      /\ c.transport = "none" /\ c.tm = s.tm /\ c.sends = s.sends
  <2>1. b \in TsxType
    BY <1>5 DEF Good
  <2>2. c \in TsxType
    BY <1>4, <2>1, ZenonT(40) DEF TsxType
  <2>3. Alike(b, c) /\ c.alt = b.alt /\ c.state = b.state /\ c.flags = b.flags
        /\ c.transport = "none" /\ c.tm = b.tm /\ c.sends = b.sends
    BY <2>1 DEF TsxType, Alike
  <2> QED
    BY <1>5, <2>2, <2>3, Neutral DEF Safe
<1> HIDE DEF c
<1>7. Good(a) /\ a.alt = s.alt /\ a.state = s.state /\ a.flags = s.flags
      /\ a.transport \in {"none", s.transport} /\ a.tm = s.tm /\ a.sends = s.sends
  BY <1>5, <1>6
<1>8. /\ a.state = s.state /\ (Known(a) => Known(s)) /\ (Gone(a) <=> Gone(s))
      /\ ~Known(s) => Sits(s, a) /\ Quietly(s, a)
  BY <1>7 DEF Reach, Known, Has, Sits, Quietly, Still, Gone
<1>9. CASE t = GiveUp(a)
  BY <1>7, <1>8, <1>9, GiveUpGone
<1>10. CASE s.alt # 0 /\ t = NextAddress(a, m)
  <2>1. t.state = a.state /\ (~Known(a) => Sits(a, t) /\ Quietly(a, t))
    BY <1>7, <1>10, NextAddressGoesOn
  <2> QED
    BY <1>8, <2>1 DEF Sits, Quietly
<1> QED
  BY <1>3, <1>9, <1>10
-----------------------------------------------------------------------------
(* The state handlers.  The first send of a client: it is on its way, or the*)
(* server has been found, or all is over.                                   *)
Unsent(s) ==
  /\ s.sends = {} /\ s.flags = {} /\ s.transport = "none"
  /\ ~s.tm[RT].armed /\ ~s.tm[TO].armed

LEMMA SendStatelessFirst ==
  ASSUME NEW s, Good(s), NEW m \in Msgs, Unsent(s), ~Gone(s), ~s.resTp,
         NEW o \in SendStateless(s, m)
  PROVE  IF o.ok THEN o.tsx.state = s.state /\ Reach(o.tsx) ELSE Gone(o.tsx)
<1> DEFINE p == [s EXCEPT !.pendingTx = m]
           r == Raise(p, "PENDING_TRANSPORT")
           a == AddRef(r)
           i == [a EXCEPT !.sends = a.sends \cup {[kind |-> "sl", msg |-> m]}]
<1>1. Good(p) /\ p.state = s.state /\ p.flags = {} /\ p.sends = {} /\ p.transport = "none"
      /\ p.tm = s.tm
  <2>1. s \in TsxType /\ m \in MaybeMsg
    BY DEF Good, MaybeMsg
  <2>2. p \in TsxType
    BY <2>1, ZenonT(40) DEF TsxType
  <2>3. Alike(s, p) /\ p.state = s.state /\ p.flags = s.flags /\ p.sends = s.sends
        /\ p.transport = s.transport /\ p.tm = s.tm
    BY <2>1 DEF TsxType, Alike
  <2> QED
    BY <2>2, <2>3, Neutral DEF Safe, Unsent
<1>2. \/ o = Ok(i)
      \/ \E e \in Delivered(a) \cup Undelivered(a, m) :
           o = IF e.state = Terminated /\ e.err THEN Fail(e) ELSE Ok(e)
  BY DEF SendStateless
<1> HIDE DEF p
<1>3. Good(r) /\ r.state = s.state /\ r.flags = {"PENDING_TRANSPORT"} /\ r.sends = {}
      /\ r.transport = "none" /\ r.tm = s.tm
  <2>1. Good(r)
    BY <1>1, RaiseSafe DEF Safe, Flags
  <2> QED
    BY <1>1, <2>1 DEF Good, TsxType, Raise
<1> HIDE DEF r
<1>4. Good(a) /\ a.state = s.state /\ a.flags = {"PENDING_TRANSPORT"} /\ a.sends = {}
      /\ a.transport = "none" /\ a.tm = s.tm
  <2>1. Good(a)
    BY <1>3, AddRefHeld
  <2> QED
    BY <1>3, <2>1 DEF Good, TsxType, AddRef
<1> HIDE DEF a
<1>5. Reach(a) /\ ~Known(a) /\ ~Gone(a)
  BY <1>4 DEF Reach, Known, Has, Gone, Unsent
<1>6. i.state = s.state /\ Reach(i)
  <2>1. /\ i.state = a.state /\ i.flags = a.flags /\ i.transport = a.transport /\ i.tm = a.tm
        /\ i.sends = {[kind |-> "sl", msg |-> m]}
    BY <1>4 DEF Good, TsxType
  <2> HIDE DEF i
  <2> QED
    BY <1>4, <2>1 DEF Reach, Known, Has, Unsent
<1> HIDE DEF i
<1>7. ASSUME NEW e \in Delivered(a) PROVE e.state = s.state /\ Reach(e)
  <2>1. ~Has(a, "PENDING_SEND") /\ ~Has(a, "PENDING_DESTROY")
    BY <1>4 DEF Has
  <2> QED
    BY <1>4, <1>7, <2>1, DeliveredFinds, FoundReach DEF Found
<1>8. ASSUME NEW e \in Undelivered(a, m)
      PROVE  (e.state = Terminated /\ e.err) \/ (e.state = s.state /\ Reach(e))
  BY <1>4, <1>5, <1>8, UndeliveredGoesOn DEF Sits, Gone
<1>9. s.state # Terminated
  BY DEF Gone
<1> QED
  BY <1>2, <1>6, <1>7, <1>8, <1>9 DEF Ok, Fail, Gone

(* Sending for the first time: the address of the server is looked up. *)
LEMMA SendMsgFirst ==
  ASSUME NEW s, Good(s), NEW m \in Msgs, Unsent(s), ~Gone(s), ~s.resTp, NEW o \in SendMsg(s, m)
  PROVE  IF o.ok THEN o.tsx.state = s.state /\ Reach(o.tsx) ELSE Gone(o.tsx)
<1>1. /\ ~Has(s, "PENDING_TRANSPORT") /\ ~IsPending(s, m) /\ ~Has(s, "RESOLVED_SERVER")
      /\ Accepted(s, m) = {} /\ Dropped(s) = s
  BY DEF Unsent, Has, IsPending, Accepted, Dropped
<1>2. o \in SendStateless(s, m)
  BY <1>1 DEF SendMsg
<1> QED
  BY <1>2, SendStatelessFirst

LEMMA StartRetransmissionSits ==
  ASSUME NEW s, Good(s), Reach(s)
  PROVE  LET t == StartRetransmission(s) IN Sits(s, t)
<1>1. RT \in {RT, TO}
  OBVIOUS
<1>2. CASE Has(s, "PENDING_TRANSPORT")
  <2> DEFINE t == Raise(s, "PENDING_RESCHED")
  <2>1. StartRetransmission(s) = t
    BY <1>2 DEF StartRetransmission
  <2>2. /\ t.state = s.state /\ t.tm = s.tm /\ t.transport = s.transport /\ t.sends = s.sends
        /\ t.pendingTx = s.pendingTx
        /\ \A f \in {"PENDING_TRANSPORT", "RESOLVED_SERVER"} : Has(t, f) <=> Has(s, f)
    BY DEF Good, TsxType, Raise, Has
  <2> HIDE DEF t
  <2> QED
    BY <2>1, <2>2 DEF Sits, Reach, Known
<1>3. CASE ~Has(s, "PENDING_TRANSPORT")
  <2> DEFINE t == Schedule(s, RT, RetransmitTimer)
  <2>1. StartRetransmission(s) = t
    BY <1>3 DEF StartRetransmission
  <2>2. /\ t.state = s.state /\ t.flags = s.flags /\ t.transport = s.transport
        /\ t.sends = s.sends /\ t.pendingTx = s.pendingTx
    BY DEF Good, TsxType, Schedule
  <2> HIDE DEF t
  <2> QED
    BY <1>3, <2>1, <2>2 DEF Sits, Reach, Known, Has
<1> QED
  BY <1>2, <1>3

(* The request goes out, and its retransmission with it or after it. *)
LEMMA OnSendRequestFirst ==
  ASSUME NEW s, Good(s), Unsent(s), ~Gone(s), ~s.resTp, NEW t \in OnSendRequest(s)
  PROVE  Gone(t) \/ (t.state = Calling /\ Reach(t))
<1> DEFINE q == [s EXCEPT !.lastTx = Request]
           Start(v) == SetState(IF v.reliable THEN v ELSE StartRetransmission(v), Calling)
<1>1. Request \in Msgs /\ Request \in MaybeMsg
      /\ Calling \in {Calling, Trying, Proceeding, Completed, Confirmed}
  BY DEF Msgs, MaybeMsg
<1>2. Good(q)
  BY <1>1, SafeRefl, Then DEF Safe
<1>3. Unsent(q) /\ ~Gone(q) /\ ~q.resTp
  BY DEF Good, TsxType, Unsent, Gone
<1>4. PICK o \in SendMsg(q, Request) :
        t = IF o.ok THEN Start(Restart(o.tsx, TO, TimeoutTimer)) ELSE o.tsx
  BY DEF OnSendRequest
<1> HIDE DEF q
<1>5. Good(o.tsx) /\ IF o.ok THEN Reach(o.tsx) ELSE Gone(o.tsx)
  <2>1. Good(o.tsx)
    BY <1>1, <1>2, SendMsgSafe DEF SafeOuts, Safe
  <2> QED
    BY <1>1, <1>2, <1>3, <2>1, SendMsgFirst
<1>6. CASE o.ok
  <2> DEFINE v == Restart(o.tsx, TO, TimeoutTimer)
             x == IF v.reliable THEN v ELSE StartRetransmission(v)
  <2>1. t = SetState(x, Calling)
    BY <1>4, <1>6
  <2>2. Good(v) /\ Reach(v)
    BY <1>5, <1>6, Ids, RestartBelow, BelowLeads DEF Below, Reach, Known
  <2> HIDE DEF v
  <2>3. Good(x) /\ Reach(x)
    BY <2>2, StartRetransmissionSafe, StartRetransmissionSits DEF Safe, Sits
  <2> HIDE DEF x
  <2>4. /\ t.state = Calling /\ t.sends = x.sends /\ t.pendingTx = x.pendingTx
        /\ t.transport = x.transport /\ t.tm = x.tm /\ t.flags = x.flags
    BY <1>1, <2>1, <2>3, StateBelow
  <2> QED
    BY <2>3, <2>4 DEF Reach, Known, Has
<1> QED
  BY <1>4, <1>5, <1>6

(* A response stops the retransmission, or its deferral. *)
LEMMA LeaveCallingQuiet ==
  ASSUME NEW s, Good(s), s.invite, NEW c \in Int
  PROVE  LET t == LeaveCalling(s, c)
         IN  Good(t) /\ Below(s, t) /\ ~Has(t, "PENDING_RESCHED") /\ ~t.tm[RT].armed
<1> DEFINE k == Cancel(s, RT)
           r == Lower(k, {"PENDING_RESCHED"})
           t == LeaveCalling(s, c)
<1>1. Good(k) /\ Below(s, k) /\ ~k.tm[RT].armed
  BY Ids, CancelSafe, CancelDoes, TimerBelows DEF Safe
<1>2. t \in {r, Cancel(r, TO)}
  BY DEF LeaveCalling
<1> HIDE DEF k, t
<1>3. Good(r) /\ Below(k, r) /\ ~Has(r, "PENDING_RESCHED") /\ r.tm = k.tm
  <2>1. Good(r) /\ Below(k, r)
    BY <1>1, LowerSafe, SmallBelows DEF Safe
  <2> QED
    BY <1>1, <2>1 DEF Good, TsxType, Lower, Has
<1> HIDE DEF r
<1>4. Good(Cancel(r, TO)) /\ Below(r, Cancel(r, TO))
  BY <1>3, Ids, CancelSafe, TimerBelows DEF Safe
<1>5. Good(t) /\ Below(s, t) /\ ~Has(t, "PENDING_RESCHED") /\ ~t.tm[RT].armed
  BY <1>1, <1>2, <1>3, <1>4, BelowTrans DEF Below
<1> QED
  BY <1>5 DEF t

(* A response leaves nothing behind that could start it again. *)
Onward(s, t) == Reach(t) /\ Still(t) /\ (Known(s) => Known(t)) /\ (Hangs(s) => Hangs(t))

LEMMA BelowOnward ==
  ASSUME NEW s, NEW t, Below(s, t), Reach(s), Still(t)
  PROVE  Onward(s, t)
BY BelowLeads DEF Below, Onward, Leads, Sits, Reach, Known, Hangs

LEMMA OnResponseQuiet ==
  ASSUME NEW s, Good(s), s.invite, s.state \in {Calling, Proceeding}, Reach(s),
         s.state = Proceeding => Still(s), NEW c \in Msgs, NEW o \in OnResponse(s, c)
  PROVE  \/ ~o.ok /\ Gone(o.tsx)
         \/ /\ Onward(s, o.tsx)
            /\ o.tsx.state = IF o.ok /\ c >= 200 THEN s.state ELSE Proceeding
            /\ o.tsx.tm[RT].armed => s.state = Proceeding /\ s.tm[RT].armed
            /\ o.ok /\ c >= 200 => ~o.tsx.tm[RT].armed
<1> DEFINE l == IF s.state = Calling THEN LeaveCalling(s, c) ELSE s
           r == [l EXCEPT !.code = c]
           k == Cancel(r, TO)
           q == Cancel(r, RT)
           quiet == Cancel(q, TO)
           t == o.tsx
<1>0. c \in 0..699 /\ c \in Int /\ Ack \in Msgs
  BY CodesAssumption DEF Msgs, Request, Ack
<1>1. Good(l) /\ Below(s, l) /\ Still(l) /\ (l.tm[RT].armed => s.state = Proceeding /\ s.tm[RT].armed)
  <2>1. CASE s.state = Calling
    BY <1>0, <2>1, LeaveCallingQuiet DEF Still
  <2>2. CASE s.state # Calling
    BY <2>2 DEF Below
  <2> QED
    BY <2>1, <2>2
<1>2. \/ c < 200 /\ o = Fail(SetState(r, Proceeding))
      \/ c \in 200..299 /\ o = Fail(SetState(k, Terminated))
      \/ c >= 300 /\ o \in SendMsg(quiet, Ack)
  <2>1. c < 200 \/ c \in 200..299 \/ c >= 300
    BY <1>0
  <2> QED
    BY <1>0, <2>1 DEF OnResponse
<1> HIDE DEF l
<1>3. Good(r) /\ Below(l, r) /\ r.flags = l.flags /\ r.tm = l.tm
  <2>1. Good(r) /\ Below(l, r)
    BY <1>0, <1>1, CodeAkin, SmallBelows
  <2> QED
    BY <1>1, <2>1 DEF Good, TsxType
<1> HIDE DEF r
<1>4. /\ Good(r) /\ Below(s, r) /\ Still(r)
      /\ r.tm[RT].armed => s.state = Proceeding /\ s.tm[RT].armed
  BY <1>1, <1>3, BelowTrans DEF Still, Known, Has
<1>5. Good(k)
  BY <1>4, Ids, CancelSafe DEF Safe
<1>6. Good(q) /\ Below(r, q) /\ ~q.tm[RT].armed /\ q.flags = r.flags
  BY <1>4, Ids, CancelSafe, TimerBelows, CancelDoes DEF Safe
<1> HIDE DEF k, q
<1>7. Good(quiet) /\ Below(q, quiet) /\ ~quiet.tm[RT].armed /\ quiet.flags = q.flags
  <2>1. Good(quiet) /\ Below(q, quiet) /\ quiet.flags = q.flags
    BY <1>6, Ids, CancelSafe, TimerBelows, CancelDoes DEF Safe
  <2> QED
    BY <1>6, <2>1 DEF Below
<1> HIDE DEF quiet
<1>8. CASE c < 200 /\ o = Fail(SetState(r, Proceeding))
  <2>1. t = SetState(r, Proceeding) /\ ~o.ok
    BY <1>8 DEF Fail
  <2>2. /\ t.state = Proceeding /\ t.sends = r.sends /\ t.pendingTx = r.pendingTx
        /\ t.transport = r.transport /\ t.tm = r.tm /\ t.flags = r.flags
    BY <1>4, <2>1, StateBelow
  <2>3. Onward(s, r) /\ Reach(r)
    BY <1>4, BelowOnward DEF Onward
  <2>4. Onward(s, t)
    BY <2>2, <2>3 DEF Onward, Reach, Known, Has, Still, Hangs
  <2> QED
    BY <1>4, <2>1, <2>2, <2>4
<1>9. CASE c \in 200..299 /\ o = Fail(SetState(k, Terminated))
  BY <1>5, <1>9, GoneStates DEF Fail
<1>10. CASE c >= 300 /\ o \in SendMsg(quiet, Ack)
  <2>1. Below(s, quiet) /\ Still(quiet)
    <3>1. Below(s, quiet)
      BY <1>4, <1>6, <1>7, BelowTrans
    <3> QED
      BY <1>4, <1>6, <1>7, <3>1 DEF Still, Known, Has
  <2>2. Onward(s, quiet) /\ Reach(quiet)
    BY <2>1, BelowOnward DEF Onward
  <2>3. Leads(quiet, t) /\ IF o.ok THEN t.state = quiet.state ELSE Gone(t)
    BY <1>0, <1>7, <1>10, <2>2, SendMsgLeads DEF LeadsOuts
  <2>4. CASE ~Gone(t)
    <3>1. o.ok /\ t.state = s.state /\ c >= 200
      BY <1>0, <1>10, <2>1, <2>3, <2>4 DEF Below
    <3>2. Sits(quiet, t) /\ Quietly(quiet, t) /\ (Hangs(quiet) => Hangs(t))
      BY <2>2, <2>3, <2>4 DEF Leads
    <3>3. Onward(s, t) /\ ~t.tm[RT].armed
      BY <1>7, <2>1, <2>2, <3>2 DEF Onward, Sits, Quietly
    <3> QED
      BY <3>1, <3>3
  <2>5. CASE Gone(t)
    <3>1. ~Gone(quiet)
      BY <2>1 DEF Below, Gone, Calling, Proceeding, Terminated, Destroyed
    <3> QED
      BY <2>3, <2>5, <3>1 DEF Gone
  <2> QED
    BY <2>4, <2>5
<1> QED
  BY <1>2, <1>8, <1>9, <1>10

(* The worker that brought the final response completes it. *)
LEMMA CompleteQuiet ==
  ASSUME NEW s, Good(s), Reach(s), Still(s), ~s.tm[RT].armed, NEW c \in Codes
  PROVE  LET t == Complete(s, c)
         IN  Good(t) /\ t.state = Completed /\ Onward(s, t) /\ ~t.tm[RT].armed
<1> DEFINE a == Schedule(s, TO, TimeoutTimer)
           b == Cancel(a, RT)
           u == SetState(s, Completed)
           v == [u EXCEPT !.lastTx = IF s.invite THEN Ack ELSE u.lastTx]
           t == Complete(s, c)
<1>0. Completed \in {Calling, Trying, Proceeding, Completed, Confirmed}
  OBVIOUS
<1>1. Good(t)
  BY CompleteSafe DEF Safe
<1>2. t = SetState(b, Completed) \/ t = Restart(v, TO, TimeoutTimer)
  BY DEF Complete
<1> HIDE DEF t
<1>3. Good(a) /\ Below(s, a)
  BY Ids, ScheduleSafe, TimerBelows DEF Safe
<1> HIDE DEF a
<1>4. Good(b) /\ Below(s, b) /\ ~b.tm[RT].armed
  BY <1>3, Ids, CancelSafe, CancelDoes, TimerBelows, BelowTrans DEF Safe
<1> HIDE DEF b
<1>5. ASSUME t = SetState(b, Completed)
      PROVE  Good(t) /\ t.state = Completed /\ Onward(s, t) /\ ~t.tm[RT].armed
  <2>1. /\ t.state = Completed /\ t.sends = b.sends /\ t.pendingTx = b.pendingTx
        /\ t.transport = b.transport /\ t.tm = b.tm /\ t.flags = b.flags
    BY <1>0, <1>4, <1>5, StateBelow
  <2>2. Still(b)
    BY <1>4 DEF Below, Still, Known
  <2>3. Onward(s, b)
    BY <1>4, <2>2, BelowOnward
  <2>4. Onward(s, t)
    BY <2>1, <2>3 DEF Onward, Reach, Known, Has, Still, Hangs
  <2> QED
    BY <1>1, <1>4, <2>1, <2>4
<1>6. ASSUME t = Restart(v, TO, TimeoutTimer)
      PROVE  Good(t) /\ t.state = Completed /\ Onward(s, t) /\ ~t.tm[RT].armed
  <2>1. /\ Good(u) /\ u.state = Completed /\ u.sends = s.sends /\ u.pendingTx = s.pendingTx
        /\ u.transport = s.transport /\ u.tm = s.tm /\ u.flags = s.flags
    BY <1>0, StateBelow
  <2> DEFINE m == IF s.invite THEN Ack ELSE u.lastTx
  <2>2. m \in MaybeMsg /\ v = [u EXCEPT !.lastTx = m]
    BY <2>1 DEF Good, TsxType, MaybeMsg, Msgs
  <2> HIDE DEF u, v, m
  <2>3. Good(v) /\ Below(u, v)
    BY <2>1, <2>2, SafeRefl, Then, SmallBelows DEF Safe
  <2>4. Below(u, t)
    BY <1>6, <2>3, Ids, RestartBelow, BelowTrans
  <2>5. Onward(s, t)
    <3>1. Reach(u) /\ Still(u) /\ (Known(s) => Known(u)) /\ (Hangs(s) => Hangs(u))
      BY <2>1 DEF Reach, Known, Has, Still, Hangs
    <3>2. Still(t)
      BY <2>4, <3>1 DEF Below, Still, Known
    <3>3. Onward(u, t)
      BY <2>4, <3>1, <3>2, BelowOnward
    <3> QED
      BY <3>1, <3>3 DEF Onward
  <2> QED
    BY <1>1, <2>1, <2>4, <2>5 DEF Below
<1>7. Good(t) /\ t.state = Completed /\ Onward(s, t) /\ ~t.tm[RT].armed
  BY <1>2, <1>5, <1>6
<1> QED
  BY <1>7 DEF t

LEMMA OnLateResponseLeads ==
  ASSUME NEW s, Good(s), Gone(s) \/ Reach(s), NEW c, NEW t \in OnLateResponse(s, c)
  PROVE  Good(t) /\ Leads(s, t)
<1>1. Good(t)
  BY OnLateResponseSafe DEF SafeAll, Safe
<1>2. \/ t = s
      \/ /\ s.state = Completed /\ s.lastTx \in Msgs
         /\ \E o \in SendMsg(s, s.lastTx) : t = o.tsx
  BY DEF OnLateResponse, Retransmit, Good, TsxType, MaybeMsg
<1>3. s.state = Completed => ~Gone(s)
  BY DEF Gone, Completed, Terminated, Destroyed
<1> QED
  BY <1>1, <1>2, <1>3, LeadsRefl, SendMsgLeads DEF LeadsOuts

(* The request is sent again only when the server is known. *)
LEMMA OnRetransmitTimerSits ==
  ASSUME NEW s, Good(s), s.role = "UAC", Gone(s) \/ (Reach(s) /\ Known(s)),
         NEW t \in OnRetransmitTimer(s)
  PROVE  /\ Good(t)
         /\ Gone(t) \/ (~Gone(s) /\ Sits(s, t))
         /\ s.state \in {Calling, Proceeding} \/ Gone(t) \/ t = s
<1>1. Good(t)
  BY OnRetransmitTimerSafe DEF SafeAll, Safe
<1> DEFINE u == StartRetransmission(s)
<1>2. \/ s.state \in {Calling, Proceeding} /\ (t = s \/ (s.lastTx \in Msgs /\ \E o \in SendMsg(u, s.lastTx) : t = o.tsx))
      \/ t = SetState(s, Destroyed)
      \/ s.state \notin {Calling, Proceeding, Terminated} /\ t = s
  BY DEF OnRetransmitTimer, Retransmit, Good, TsxType, MaybeMsg
<1> HIDE DEF u
<1>3. s.state \in {Calling, Proceeding} => ~Gone(s)
  BY DEF Gone, Calling, Proceeding, Terminated, Destroyed
<1>4. Gone(SetState(s, Destroyed))
  BY GoneStates
<1>5. ASSUME s.state \in {Calling, Proceeding}, s.lastTx \in Msgs,
             NEW o \in SendMsg(u, s.lastTx), t = o.tsx
      PROVE  Gone(t) \/ Sits(s, t)
  <2>1. Reach(s) /\ Good(u) /\ Sits(s, u) /\ Reach(u)
    BY <1>3, <1>5, StartRetransmissionSafe, StartRetransmissionSits DEF Safe, u, Sits
  <2>2. Leads(u, t)
    BY <1>5, <2>1, SendMsgLeads DEF LeadsOuts
  <2> QED
    BY <2>1, <2>2 DEF Leads, Sits
<1>6. Sits(s, s)
  BY DEF Sits
<1> QED
  BY <1>1, <1>2, <1>3, <1>4, <1>5, <1>6
-----------------------------------------------------------------------------
(* The steps. *)
Client == tsx.role = "UAC" /\ tsx.invite

(* The record of a client that is not over, *)
Fit(s) ==
  /\ s.state \in {StNull, Calling, Proceeding, Completed}
  /\ s.state = StNull => Unsent(s)
  /\ s.state # StNull => Reach(s)
  /\ s.state \in {Proceeding, Completed} => Still(s)
  /\ s.state = Completed => ~s.tm[RT].armed

(* where a worker may stand that has it in hand, *)
Stands(p, s) ==
  /\ s.state = StNull => p = Idle
  /\ Calls(p) => Known(s)
  /\ p.at = "sent" => Hangs(s)
  /\ p.at = "final" => s.state \in {Calling, Proceeding} /\ Still(s) /\ ~s.tm[RT].armed
  /\ p.at \notin {"tell", "told", "terrTell", "terrSchedule"}

(* and not two of them with a send that was called back, nor with a final   *)
(* response.  Nobody completes what is over.                                *)
Once == \A v, w \in Workers : pc[v].at \in {"sent", "final"} /\ pc[w].at = pc[v].at => v = w

ClientInv ==
  Client =>
    /\ Gone(tsx) => \A w \in Workers : pc[w].at # "final"
    /\ ~Gone(tsx) => Fit(tsx) /\ (\A w \in Workers : Stands(pc[w], tsx)) /\ Once

(* How a step comes to leave the transaction in PROCEEDING: it was there,   *)
(* and no retransmission starts unless one has already begun; or a worker   *)
(* has brought the provisional response.                                    *)
Turns ==
  Client /\ tsx'.state = Proceeding =>
    \/ /\ tsx.state = Proceeding
       /\ tsx'.tm[RT].armed => tsx.tm[RT].armed
       /\ \A v \in Workers : Calls(pc'[v]) => Calls(pc[v]) \/ tsx.tm[RT].armed
    \/ tsx.state = Proceeding /\ \E v \in Workers : Calls(pc[v])
    \/ ~tsx'.tm[RT].armed /\ \E w \in Workers : pc' = [pc EXCEPT ![w] = Idle]

LEMMA ClientOver ==
  ASSUME ClientInv, Gone(tsx'), \A w \in Workers : pc'[w].at # "final"
  PROVE  ClientInv' /\ Turns
<1>1. tsx'.state # Proceeding
  BY DEF Gone, Proceeding, Terminated, Destroyed
<1>2. Turns
  BY <1>1 DEF Turns
<1>3. ClientInv'
  BY DEF ClientInv, Gone
<1> QED
  BY <1>2, <1>3

LEMMA ClientStep ==
  ASSUME IInv, ClientInv, Client, ~Gone(tsx), Kin(tsx, tsx'),
         NEW w \in Workers, NEW q, pc' = [pc EXCEPT ![w] = q],
         ~Gone(tsx'), Fit(tsx'), Stands(q, tsx'),
         \A v \in Workers \ {w} : Stands(pc[v], tsx'),
         q.at \in {"sent", "final"} => \A v \in Workers \ {w} : pc[v].at # q.at
  PROVE  ClientInv'
<1>1. pc'[w] = q /\ \A v \in Workers : v # w => pc'[v] = pc[v]
  BY Moved
<1>2. Fit(tsx)' /\ ~Gone(tsx)' /\ (\A v \in Workers : Stands(pc'[v], tsx'))
  BY <1>1 DEF Fit, Gone
<1>3. Once'
  BY <1>1 DEF Once, ClientInv
<1> QED
  BY <1>2, <1>3 DEF ClientInv, Stands

(* A worker that moves, and leads the transaction on. *)
LEMMA ClientMove ==
  ASSUME IInv, ClientInv, Client, Kin(tsx, tsx'),
         NEW w \in Workers, NEW q, pc' = [pc EXCEPT ![w] = q],
         Leads(tsx, tsx'), LockFree \/ tsx'.state = tsx.state,
         ~Gone(tsx) => tsx.state # StNull,
         q.at # "final",
         Calls(q) => Calls(pc[w]) \/ tsx.tm[RT].armed,
         q.at = "sent" /\ ~Gone(tsx) => Hangs(tsx') /\ \A v \in Workers \ {w} : pc[v].at # "sent",
         q.at \notin {"tell", "told", "terrTell", "terrSchedule"} \/ Gone(tsx')
  PROVE  ClientInv' /\ Turns
<1>1. pc'[w] = q /\ \A v \in Workers : v # w => pc'[v] = pc[v]
  BY Moved
<1>2. CASE Gone(tsx')
  <2>1. \A v \in Workers : pc[v].at # "final"
    BY <1>2 DEF LockFree, ClientInv, Gone
  <2>2. \A v \in Workers : pc'[v].at # "final"
    BY <1>1, <2>1
  <2> QED
    BY <1>2, <2>2, ClientOver
<1>3. CASE ~Gone(tsx')
  <2>1. tsx'.state = tsx.state /\ ~Gone(tsx)
    BY <1>3 DEF Leads, Sits, Gone
  <2>2. Fit(tsx) /\ Reach(tsx) /\ Once /\ \A v \in Workers : Stands(pc[v], tsx)
    BY <2>1 DEF ClientInv, Fit
  <2>3. /\ Reach(tsx') /\ (Known(tsx) => Known(tsx')) /\ (Hangs(tsx) => Hangs(tsx'))
        /\ Still(tsx) => Still(tsx') /\ (tsx'.tm[RT].armed => tsx.tm[RT].armed)
    BY <1>3, <2>2 DEF Leads, Sits, Quietly
  <2>4. Fit(tsx')
    BY <2>1, <2>2, <2>3 DEF Fit, Completed, Proceeding
  <2>5. ASSUME NEW v \in Workers PROVE Stands(pc[v], tsx')
    BY <2>1, <2>2, <2>3 DEF Stands
  <2>6. Stands(q, tsx')
    <3>1. Calls(q) => Known(tsx')
      BY <2>2, <2>3 DEF Stands, Reach
    <3> QED
      BY <1>3, <2>1, <3>1 DEF Stands
  <2>7. ClientInv'
    BY <1>3, <2>1, <2>4, <2>5, <2>6, ClientStep
  <2>8. Turns
    <3>1. CASE tsx.state = Proceeding
      <4>1. tsx'.tm[RT].armed => tsx.tm[RT].armed
        BY <2>2, <2>3, <3>1 DEF Fit
      <4>2. (\A v \in Workers : Calls(pc'[v]) => Calls(pc[v]) \/ tsx.tm[RT].armed)
        BY <1>1
      <4> QED
        BY <3>1, <4>1, <4>2 DEF Turns
    <3>2. CASE tsx.state # Proceeding
      BY <2>1, <3>2 DEF Turns
    <3> QED
      BY <3>1, <3>2
  <2> QED
    BY <2>7, <2>8
<1> QED
  BY <1>2, <1>3

(* Nobody moves. *)
LEMMA ClientRests ==
  ASSUME IInv, ClientInv, Client, Kin(tsx, tsx'), UNCHANGED pc,
         Leads(tsx, tsx'), LockFree \/ tsx'.state = tsx.state,
         tsx.state = StNull => Gone(tsx') \/ Unsent(tsx')
  PROVE  ClientInv' /\ Turns
<1>1. CASE Gone(tsx')
  BY <1>1, ClientOver DEF LockFree, ClientInv, Gone
<1>2. CASE ~Gone(tsx')
  <2>1. tsx'.state = tsx.state /\ ~Gone(tsx)
    BY <1>2 DEF Leads, Sits, Gone
  <2>2. Fit(tsx) /\ Once /\ \A v \in Workers : Stands(pc[v], tsx)
    BY <2>1 DEF ClientInv
  <2>3. CASE tsx.state = StNull
    <3>1. Fit(tsx')
      BY <1>2, <2>1, <2>3 DEF Fit, StNull, Completed, Proceeding
    <3>2. \A v \in Workers : Stands(pc[v], tsx')
      BY <2>1, <2>2, <2>3 DEF Stands, Calls, Idle
    <3>3. ClientInv'
      BY <1>2, <2>2, <3>1, <3>2 DEF ClientInv, Once, Fit, Stands, Gone
    <3>4. Turns
      BY <2>1, <2>3 DEF Turns, StNull, Proceeding
    <3> QED
      BY <3>3, <3>4
  <2>4. CASE tsx.state # StNull
    <3>0. Reach(tsx)
      BY <2>2, <2>4 DEF Fit
    <3>1. /\ Reach(tsx') /\ (Known(tsx) => Known(tsx')) /\ (Hangs(tsx) => Hangs(tsx'))
          /\ Still(tsx) => Still(tsx') /\ (tsx'.tm[RT].armed => tsx.tm[RT].armed)
      BY <1>2, <3>0 DEF Leads, Sits, Quietly
    <3>2. Fit(tsx')
      BY <2>1, <2>2, <2>4, <3>1 DEF Fit, Completed, Proceeding
    <3>3. \A v \in Workers : Stands(pc[v], tsx')
      BY <2>1, <2>2, <2>4, <3>1 DEF Stands
    <3>4. ClientInv'
      BY <1>2, <2>2, <3>2, <3>3 DEF ClientInv, Once, Fit, Stands, Gone
    <3>5. Turns
      BY <2>1, <2>2, <3>1 DEF Turns, Fit
    <3> QED
      BY <3>4, <3>5
  <2> QED
    BY <2>3, <2>4
<1> QED
  BY <1>1, <1>2

(* A worker that has begun something has not found an unsent request. *)
LEMMA BegunSent ==
  ASSUME ClientInv, Client, ~Gone(tsx), NEW w \in Workers, pc[w] # Idle
  PROVE  tsx.state # StNull
BY DEF ClientInv, Stands

(* A worker that is done. *)
LEMMA ClientDone ==
  ASSUME IInv, ClientInv, Client, Kin(tsx, tsx'), NEW w \in Workers, pc[w] # Idle, LockFree,
         NEW s, Good(s), Leads(tsx, s), Return(w, s)
  PROVE  ClientInv' /\ Turns
<1>1. tsx' = DecRef(s) /\ pc' = [pc EXCEPT ![w] = Idle]
  BY DEF Return
<1>2. Leads(tsx, tsx')
  BY <1>1, SmallBelows, BelowLeads, LeadsTrans
<1>3. ~Calls(Idle) /\ Idle.at = "idle"
  BY DEF Calls, Idle
<1> QED
  BY <1>1, <1>2, <1>3, BegunSent, ClientMove

(* ... without the lock, when it has not changed the state. *)
LEMMA ClientDoneBelow ==
  ASSUME IInv, ClientInv, Client, Kin(tsx, tsx'), NEW w \in Workers, pc[w] # Idle,
         NEW s, Good(s), Below(tsx, s), Return(w, s)
  PROVE  ClientInv' /\ Turns
<1>1. tsx' = DecRef(s) /\ pc' = [pc EXCEPT ![w] = Idle]
  BY DEF Return
<1>2. Below(tsx, tsx')
  BY <1>1, SmallBelows, BelowTrans
<1>3. ~Calls(Idle) /\ Idle.at = "idle"
  BY DEF Calls, Idle
<1> QED
  BY <1>1, <1>2, <1>3, BegunSent, BelowLeads, ClientMove DEF Below

LEMMA PopTimerClient ==
  ASSUME IInv, ClientInv, Client, Kin(tsx, tsx'), NEW w \in Workers, NEW e \in {RT, TO},
         PopTimer(w, e)
  PROVE  ClientInv' /\ Turns
<1> DEFINE q == [at |-> "timer", arg |-> e]
<1>1. /\ pc' = [pc EXCEPT ![w] = q] /\ tsx.tm[e].armed
      /\ tsx' = [tsx EXCEPT !.tm[e].armed = FALSE]
  BY DEF PopTimer, Go
<1>2. Below(tsx, tsx')
  BY <1>1, Facts, TimerBelows
<1>3. ~Gone(tsx) => tsx.state # StNull
  BY <1>1 DEF ClientInv, Fit, Unsent
<1>4. q.at = "timer" /\ (Calls(q) => tsx.tm[RT].armed)
  BY <1>1 DEF Calls
<1> HIDE DEF q
<1> QED
  BY <1>1, <1>2, <1>3, <1>4, BelowLeads, ClientMove DEF Below

LEMMA StaleTimerClient ==
  ASSUME IInv, ClientInv, Client, Kin(tsx, tsx'), NEW w \in Workers, StaleTimer(w)
  PROVE  ClientInv' /\ Turns
<1>1. pc[w] # Idle /\ Return(w, tsx) /\ Below(tsx, tsx)
  BY DEF StaleTimer, Idle, Below
<1> QED
  BY <1>1, Facts, ClientDoneBelow

LEMMA TransportErrorTimerClient ==
  ASSUME IInv, ClientInv, Client, Kin(tsx, tsx'), NEW w \in Workers, TransportErrorTimer(w)
  PROVE  ClientInv' /\ Turns
<1> DEFINE e == pc[w].arg
           s == [tsx EXCEPT !.tm[e].id = Inactive]
           q == [at |-> "terr", arg |-> 0]
<1>1. /\ pc[w].at = "timer" /\ pc[w] # Idle
      /\ (tsx' = s /\ pc' = [pc EXCEPT ![w] = q]) \/ Return(w, s)
  BY DEF TransportErrorTimer, Go, Idle
<1>2. e \in {RT, TO}
  BY <1>1, Facts DEF ArgOK
<1>3. Good(s) /\ Below(tsx, s)
  <2>1. Good(s)
    BY <1>2, Facts, ClearIdSafe DEF Safe
  <2> QED
    BY <1>2, <2>1, Facts, TimerBelows
<1> HIDE DEF s, e
<1>4. CASE Return(w, s)
  BY <1>1, <1>3, <1>4, ClientDoneBelow
<1>5. CASE tsx' = s /\ pc' = [pc EXCEPT ![w] = q]
  <2>1. q.at = "terr" /\ ~Calls(q)
    BY DEF Calls
  <2> HIDE DEF q
  <2> QED
    BY <1>1, <1>3, <1>5, <2>1, BegunSent, BelowLeads, ClientMove DEF Below
<1> QED
  BY <1>1, <1>4, <1>5

LEMMA TimerEventClient ==
  ASSUME IInv, ClientInv, Client, Kin(tsx, tsx'), NEW w \in Workers, TimerEvent(w)
  PROVE  ClientInv' /\ Turns
<1> DEFINE e == pc[w].arg
           q == [at |-> "event", arg |-> e]
<1>1. /\ pc[w].at = "timer" /\ pc[w] # Idle /\ tsx' = [tsx EXCEPT !.tm[e].id = Inactive]
      /\ pc' = [pc EXCEPT ![w] = q]
  BY DEF TimerEvent, Go, Idle
<1>2. e \in {RT, TO}
  BY <1>1, Facts DEF ArgOK
<1>3. Below(tsx, tsx')
  BY <1>1, <1>2, Facts, TimerBelows
<1>4. q.at = "event" /\ (Calls(q) => Calls(pc[w]))
  BY <1>1 DEF Calls
<1> HIDE DEF e, q
<1> QED
  BY <1>1, <1>3, <1>4, BegunSent, BelowLeads, ClientMove DEF Below

(* A retransmission, of a client that knows the server. *)
LEMMA RetransmitEventClient ==
  ASSUME IInv, ClientInv, Client, Kin(tsx, tsx'), NEW w \in Workers, RetransmitEvent(w)
  PROVE  ClientInv' /\ Turns
<1>1. pc[w] = [at |-> "event", arg |-> RT] /\ LockFree /\ pc[w] # Idle /\ Calls(pc[w])
  BY DEF RetransmitEvent, Calls, Idle
<1>2. PICK s \in OnRetransmitTimer(tsx) : Return(w, s)
  BY DEF RetransmitEvent
<1>3. tsx' = DecRef(s) /\ pc' = [pc EXCEPT ![w] = Idle]
  BY <1>2 DEF Return
<1>4. ~Gone(tsx) => Reach(tsx) /\ Known(tsx) /\ tsx.state # StNull
  BY <1>1 DEF ClientInv, Stands, Fit
<1>5. /\ Good(s)
      /\ Gone(s) \/ (~Gone(tsx) /\ Sits(tsx, s))
      /\ tsx.state \in {Calling, Proceeding} \/ Gone(s) \/ s = tsx
  <2>1. tsx.role = "UAC"
    BY DEF Client
  <2> QED
    BY <1>2, <1>4, <2>1, Facts, OnRetransmitTimerSits
<1>6. Below(s, tsx')
  <2>1. Below(s, DecRef(s))
    BY <1>5, SmallBelows
  <2> QED
    BY <1>3, <2>1
<1>7. pc'[w] = Idle /\ \A v \in Workers : v # w => pc'[v] = pc[v]
  BY <1>3, Moved
<1>8. CASE Gone(s)
  <2>1. Gone(tsx')
    BY <1>6, <1>8 DEF Below, Gone
  <2>2. \A v \in Workers : pc'[v].at # "final"
    BY <1>1, <1>7 DEF LockFree, Idle
  <2> QED
    BY <2>1, <2>2, ClientOver
<1>9. CASE ~Gone(s) /\ s = tsx
  <2>1. Below(tsx, tsx)
    BY DEF Below
  <2> QED
    BY <1>1, <1>2, <1>9, <2>1, Facts, ClientDoneBelow
<1>10. CASE ~Gone(s) /\ tsx.state \in {Calling, Proceeding}
  <2>1. ~Gone(tsx) /\ Sits(tsx, s) /\ Reach(tsx) /\ Known(tsx)
    BY <1>4, <1>5, <1>10
  <2>2. Leads(s, tsx')
    BY <1>6, BelowLeads
  <2>3. tsx'.state = tsx.state /\ Reach(tsx') /\ Known(tsx') /\ ~Gone(tsx')
    BY <1>6, <2>1, <2>2 DEF Below, Leads, Sits, Gone
  <2>4. Fit(tsx')
    BY <1>10, <2>3 DEF Fit, Still, StNull, Calling, Proceeding, Completed
  <2>5. ASSUME NEW v \in Workers PROVE Stands(pc[v], tsx')
    <3>1. Stands(pc[v], tsx) /\ pc[v].at # "final"
      BY <1>1, <2>1 DEF ClientInv, LockFree
    <3> QED
      BY <2>1, <2>3, <3>1 DEF Stands, Hangs
  <2>6. Stands(Idle, tsx')
    BY DEF Stands, Idle, Calls
  <2>7. ClientInv'
    BY <1>3, <2>1, <2>3, <2>4, <2>5, <2>6, ClientStep DEF Idle
  <2>8. Turns
    BY <1>1, <2>3 DEF Turns
  <2> QED
    BY <2>7, <2>8
<1> QED
  BY <1>5, <1>8, <1>9, <1>10

LEMMA TimeoutEventClient ==
  ASSUME IInv, ClientInv, Client, Kin(tsx, tsx'), NEW w \in Workers, TimeoutEvent(w)
  PROVE  ClientInv' /\ Turns
<1> DEFINE s == OnTimeout(tsx)
           q == [at |-> "tell", arg |-> s.state]
<1>1. pc[w] # Idle /\ LockFree
  BY DEF TimeoutEvent, Idle
<1>2. \/ s.state = tsx.state /\ Return(w, s)
      \/ s.state # tsx.state /\ tsx' = s /\ pc' = [pc EXCEPT ![w] = q]
      \/ s.state # tsx.state /\ Return(w, Settle(s, s.state))
  BY DEF TimeoutEvent, Go
<1>3. /\ Good(s)
      /\ s.state = tsx.state => s = tsx
      /\ s.state # tsx.state => s.state \in {Terminated, Destroyed}
  BY Facts, OnTimeoutSafe, OnTimeoutDoes DEF Safe
<1>4. q.at = "tell" /\ ~Calls(q)
  BY DEF Calls
<1> HIDE DEF s, q
<1>5. CASE s.state = tsx.state /\ Return(w, s)
  <2>1. Leads(tsx, s)
    BY <1>3, <1>5, LeadsRefl
  <2> QED
    BY <1>1, <1>3, <1>5, <2>1, ClientDone
<1>6. CASE s.state # tsx.state /\ tsx' = s /\ pc' = [pc EXCEPT ![w] = q]
  <2>1. Gone(tsx') /\ Leads(tsx, tsx')
    BY <1>3, <1>6 DEF Gone, Leads
  <2> QED
    BY <1>1, <1>4, <1>6, <2>1, BegunSent, ClientMove
<1>7. CASE s.state # tsx.state /\ Return(w, Settle(s, s.state))
  <2> DEFINE t == Settle(s, s.state)
  <2>1. Good(t) /\ t.state = s.state
    <3>1. s.role = "UAS" => s.state >= Terminated
      BY <1>3, <1>7 DEF Terminated, Destroyed
    <3> QED
      BY <1>3, <1>7, <3>1, SettleEnds
  <2>2. Return(w, t)
    BY <1>7
  <2> HIDE DEF t
  <2>3. Leads(tsx, t)
    BY <1>3, <1>7, <2>1 DEF Leads, Gone
  <2> QED
    BY <1>1, <2>1, <2>2, <2>3, ClientDone
<1> QED
  BY <1>2, <1>5, <1>6, <1>7

(* The user is told by a worker that has ended the transaction before. *)
LEMMA TellingGone ==
  ASSUME ClientInv, Client, NEW w \in Workers,
         pc[w].at \in {"tell", "told", "terrTell", "terrSchedule"}
  PROVE  Gone(tsx)
BY DEF ClientInv, Stands

LEMMA TellTimeoutClient ==
  ASSUME IInv, ClientInv, Client, Kin(tsx, tsx'), NEW w \in Workers, TellTimeout(w)
  PROVE  ClientInv' /\ Turns
<1> DEFINE q == [at |-> "told", arg |-> pc[w].arg]
<1>1. pc[w].at = "tell" /\ tsx' = Tell(tsx) /\ pc' = [pc EXCEPT ![w] = q]
  BY DEF TellTimeout, Go
<1>2. Gone(tsx) /\ Below(tsx, tsx')
  BY <1>1, Facts, TellingGone, SmallBelows
<1>3. q.at = "told" /\ ~Calls(q) /\ Gone(tsx')
  BY <1>2 DEF Calls, Below, Gone
<1> HIDE DEF q
<1> QED
  BY <1>1, <1>2, <1>3, BelowLeads, ClientMove DEF Below

LEMMA AfterTimeoutClient ==
  ASSUME IInv, ClientInv, Client, Kin(tsx, tsx'), NEW w \in Workers, AfterTimeout(w)
  PROVE  ClientInv' /\ Turns
<1> DEFINE t == Settle(tsx, pc[w].arg)
<1>1. pc[w].at = "told" /\ LockFree /\ Return(w, t) /\ pc[w] # Idle
  BY DEF AfterTimeout, Idle
<1>2. pc[w].arg \in {Terminated, Destroyed}
  BY <1>1, Facts DEF ArgOK
<1>3. Gone(tsx)
  BY <1>1, TellingGone
<1>4. Good(t) /\ t.state = tsx.state
  <2>1. tsx.role = "UAS" => tsx.state >= Terminated
    BY <1>3 DEF Gone, Terminated, Destroyed
  <2> QED
    BY <1>2, <2>1, Facts, SettleEnds
<1> HIDE DEF t
<1>5. Leads(tsx, t)
  BY <1>3, <1>4 DEF Leads, Gone
<1> QED
  BY <1>1, <1>4, <1>5, ClientDone

LEMMA TransportErrorEventClient ==
  ASSUME IInv, ClientInv, Client, Kin(tsx, tsx'), NEW w \in Workers, TransportErrorEvent(w)
  PROVE  ClientInv' /\ Turns
<1> DEFINE code == IF tsx.code < 200 THEN TransportError ELSE tsx.code
           u == [tsx EXCEPT !.transport = "none", !.code = code, !.state = Terminated]
           d == Detach(u)
           q == [at |-> "terrTell", arg |-> 0]
<1>1. /\ tsx \in TsxType /\ code \in 0..699 /\ Terminated \in StNull..Destroyed
      /\ "none" \in {"none", "up", "down"}
  BY Facts DEF TsxType, TransportError, Terminated, StNull, Destroyed
<1>2. /\ pc[w].at = "terr" /\ pc[w] # Idle /\ LockFree
      /\ tsx' = Cancel(d, TO) /\ pc' = [pc EXCEPT ![w] = q]
  BY <1>1 DEF TransportErrorEvent, Go, Idle
<1> HIDE DEF code
<1>3. Good(u) /\ u.state = Terminated
  <2>1. u \in TsxType
    BY <1>1, ZenonT(40) DEF TsxType
  <2>2. Alike(tsx, u) /\ u.state = Terminated
    BY <1>1 DEF TsxType, Alike
  <2> QED
    BY <2>1, <2>2, Facts, Neutral DEF Safe
<1> HIDE DEF u
<1>4. Good(d) /\ d.state = Terminated
  BY <1>3, DetachDoes, DetachSafe DEF Safe, Beside
<1> HIDE DEF d
<1>5. Gone(tsx') /\ Leads(tsx, tsx')
  BY <1>2, <1>4, Ids, CancelDoes DEF Beside, Gone, Leads
<1>6. q.at = "terrTell" /\ ~Calls(q)
  BY DEF Calls
<1> HIDE DEF q
<1> QED
  BY <1>2, <1>5, <1>6, BegunSent, ClientMove

LEMMA TellTransportErrorClient ==
  ASSUME IInv, ClientInv, Client, Kin(tsx, tsx'), NEW w \in Workers, TellTransportError(w)
  PROVE  ClientInv' /\ Turns
<1> DEFINE q == [at |-> "terrSchedule", arg |-> 0]
<1>1. pc[w].at = "terrTell" /\ tsx' = Tell(tsx) /\ pc' = [pc EXCEPT ![w] = q]
  BY DEF TellTransportError, Go
<1>2. Gone(tsx) /\ Below(tsx, tsx')
  BY <1>1, Facts, TellingGone, SmallBelows
<1>3. q.at = "terrSchedule" /\ ~Calls(q) /\ Gone(tsx')
  BY <1>2 DEF Calls, Below, Gone
<1> HIDE DEF q
<1> QED
  BY <1>1, <1>2, <1>3, BelowLeads, ClientMove DEF Below

LEMMA ScheduleHandlerClient ==
  ASSUME IInv, ClientInv, Client, Kin(tsx, tsx'), NEW w \in Workers, ScheduleHandler(w)
  PROVE  ClientInv' /\ Turns
<1>1. pc[w] # Idle /\ Return(w, Schedule(tsx, TO, TimeoutTimer))
  BY DEF ScheduleHandler, Idle
<1>2. Good(Schedule(tsx, TO, TimeoutTimer)) /\ Below(tsx, Schedule(tsx, TO, TimeoutTimer))
  BY Facts, Ids, ScheduleSafe, TimerBelows DEF Safe
<1> QED
  BY <1>1, <1>2, ClientDoneBelow

LEMMA TimerStepClient ==
  ASSUME IInv, ClientInv, Client, Kin(tsx, tsx'), NEW w \in Workers, TimerStep(w)
  PROVE  ClientInv' /\ Turns
BY PopTimerClient, StaleTimerClient, TransportErrorTimerClient, TimerEventClient,
   RetransmitEventClient, TimeoutEventClient, TellTimeoutClient, AfterTimeoutClient,
   TransportErrorEventClient, TellTransportErrorClient, ScheduleHandlerClient DEF TimerStep

LEMMA LookupClient ==
  ASSUME IInv, ClientInv, Client, Kin(tsx, tsx'), NEW w \in Workers, NEW m \in Msgs, Lookup(w, m)
  PROVE  ClientInv' /\ Turns
<1> DEFINE q == [at |-> "rx", arg |-> m]
<1>1. tsx.state # StNull /\ tsx' = AddRef(tsx) /\ pc' = [pc EXCEPT ![w] = q]
  BY DEF Lookup, Go, Client
<1>2. Below(tsx, tsx')
  BY <1>1, Facts, SmallBelows
<1>3. q.at = "rx" /\ ~Calls(q)
  BY DEF Calls
<1> HIDE DEF q
<1> QED
  BY <1>1, <1>2, <1>3, BelowLeads, ClientMove DEF Below

(* A response.  The worker goes on to complete a final one, and keeps the   *)
(* lock meanwhile.                                                          *)
LEMMA RecvResponseClient ==
  ASSUME IInv, ClientInv, Client, Kin(tsx, tsx'), NEW w \in Workers, RecvResponse(w)
  PROVE  ClientInv' /\ Turns
<1> DEFINE c == pc[w].arg
           q == [at |-> "final", arg |-> c]
<1>1. /\ pc[w].at = "rx" /\ pc[w] # Idle /\ LockFree
      /\ \/ \E s \in OnLateResponse(tsx, c) : Return(w, s)
         \/ /\ tsx.state \in {Calling, Proceeding}
            /\ \E o \in OnResponse(tsx, c) :
                 \/ o.ok /\ c >= 200 /\ tsx' = o.tsx /\ pc' = [pc EXCEPT ![w] = q]
                 \/ ~(o.ok /\ c >= 200) /\ Return(w, o.tsx)
  BY DEF RecvResponse, Go, Idle
<1>2. c \in Msgs
  BY <1>1, Facts DEF ArgOK
<1>3. q.at = "final" /\ ~Calls(q) /\ ~Calls(Idle) /\ Idle.at = "idle" /\ RT \in {RT, TO}
  BY DEF Calls, Idle
<1> HIDE DEF c, q
<1>4. tsx.state \in {Calling, Proceeding} => ~Gone(tsx)
  BY DEF Gone, Calling, Proceeding, Terminated, Destroyed
<1>5. ~Gone(tsx) => tsx.state # StNull /\ Reach(tsx) /\ (tsx.state = Proceeding => Still(tsx))
  BY <1>1 DEF ClientInv, Fit, Stands
<1>6. ASSUME NEW s \in OnLateResponse(tsx, c), Return(w, s)
      PROVE  ClientInv' /\ Turns
  <2>1. Good(s) /\ Leads(tsx, s)
    BY <1>5, Facts, OnLateResponseLeads
  <2> QED
    BY <1>1, <1>6, <2>1, ClientDone
<1>7. ASSUME tsx.state \in {Calling, Proceeding}, NEW o \in OnResponse(tsx, c),
             o.ok /\ c >= 200, tsx' = o.tsx, pc' = [pc EXCEPT ![w] = q]
      PROVE  ClientInv' /\ Turns
  <2>1. Onward(tsx, tsx') /\ tsx'.state = tsx.state /\ ~tsx'.tm[RT].armed /\ ~Gone(tsx')
    <3>1. tsx.invite
      BY DEF Client
    <3>2. Onward(tsx, tsx') /\ tsx'.state = tsx.state /\ ~tsx'.tm[RT].armed
      BY <1>2, <1>4, <1>5, <1>7, <3>1, Facts, OnResponseQuiet
    <3> QED
      BY <1>4, <1>7, <3>2 DEF Gone
  <2>2. Fit(tsx')
    BY <1>7, <2>1 DEF Fit, Onward, StNull, Calling, Proceeding, Completed
  <2>3. ASSUME NEW v \in Workers PROVE Stands(pc[v], tsx') /\ pc[v].at # "final"
    <3>1. Stands(pc[v], tsx) /\ pc[v].at # "final"
      BY <1>1, <1>4, <1>7 DEF ClientInv, LockFree
    <3> QED
      BY <2>1, <3>1 DEF Stands, Onward
  <2>4. Stands(q, tsx')
    BY <1>3, <1>7, <2>1 DEF Stands, Onward, StNull, Calling, Proceeding
  <2>5. ClientInv'
    BY <1>3, <1>4, <1>7, <2>1, <2>2, <2>3, <2>4, ClientStep
  <2>6. Turns
    <3>1. \A v \in Workers : Calls(pc'[v]) => Calls(pc[v])
      BY <1>3, <1>7, Moved
    <3> QED
      BY <2>1, <3>1 DEF Turns
  <2> QED
    BY <2>5, <2>6
<1>8. ASSUME tsx.state \in {Calling, Proceeding}, NEW o \in OnResponse(tsx, c),
             ~(o.ok /\ c >= 200), Return(w, o.tsx)
      PROVE  ClientInv' /\ Turns
  <2> DEFINE s == o.tsx
  <2>1. Good(s)
    BY <1>2, Facts, OnResponseSafe DEF SafeOuts, Safe
  <2>2. \/ Gone(s)
        \/ /\ Onward(tsx, s) /\ s.state = Proceeding
           /\ s.tm[RT].armed => tsx.state = Proceeding /\ tsx.tm[RT].armed
    <3>1. tsx.invite
      BY DEF Client
    <3> QED
      BY <1>2, <1>4, <1>5, <1>8, <3>1, Facts, OnResponseQuiet
  <2>3. tsx' = DecRef(s) /\ pc' = [pc EXCEPT ![w] = Idle] /\ Return(w, s)
    BY <1>8 DEF Return
  <2> HIDE DEF s
  <2>4. CASE Gone(s)
    BY <1>1, <2>1, <2>3, <2>4, ClientDone DEF Leads
  <2>5. CASE ~Gone(s)
    <3>1. Below(s, tsx')
      BY <2>1, <2>3, SmallBelows
    <3>2. Onward(s, tsx')
      <4>1. Reach(s) /\ Still(s)
        BY <2>2, <2>5 DEF Onward
      <4>2. Still(tsx')
        BY <3>1, <4>1 DEF Below, Still, Known
      <4> QED
        BY <3>1, <4>1, <4>2, BelowOnward
    <3>3. /\ Onward(tsx, tsx') /\ tsx'.state = Proceeding /\ ~Gone(tsx')
          /\ tsx'.tm[RT].armed => tsx.state = Proceeding /\ tsx.tm[RT].armed
      BY <2>2, <2>5, <3>1, <3>2 DEF Onward, Below, Gone
    <3>4. Fit(tsx')
      BY <3>3 DEF Fit, Onward, StNull, Proceeding, Completed
    <3>5. ASSUME NEW v \in Workers PROVE Stands(pc[v], tsx')
      <4>1. Stands(pc[v], tsx) /\ pc[v].at # "final"
        BY <1>1, <1>4, <1>8 DEF ClientInv, LockFree
      <4> QED
        BY <3>3, <4>1 DEF Stands, Onward, StNull, Proceeding
    <3>6. Stands(Idle, tsx')
      BY <1>3 DEF Stands
    <3>7. ClientInv'
      BY <1>3, <1>4, <1>8, <2>3, <3>3, <3>4, <3>5, <3>6, ClientStep
    <3>8. Turns
      <4>1. \A v \in Workers : Calls(pc'[v]) => Calls(pc[v])
        BY <1>3, <2>3, Moved
      <4> QED
        BY <2>3, <3>3, <4>1 DEF Turns
    <3> QED
      BY <3>7, <3>8
  <2> QED
    BY <2>4, <2>5
<1> QED
  BY <1>1, <1>6, <1>7, <1>8

LEMMA CompleteResponseClient ==
  ASSUME IInv, ClientInv, Client, Kin(tsx, tsx'), NEW w \in Workers, CompleteResponse(w)
  PROVE  ClientInv' /\ Turns
<1> DEFINE t == Complete(tsx, pc[w].arg)
<1>1. pc[w].at = "final" /\ pc' = [pc EXCEPT ![w] = Idle] /\ tsx' = DecRef(t)
  BY DEF CompleteResponse, Return
<1>2. pc[w].arg \in Codes
  BY <1>1, Facts DEF ArgOK
<1>3. ~Gone(tsx) /\ Reach(tsx) /\ Still(tsx) /\ ~tsx.tm[RT].armed
  BY <1>1 DEF ClientInv, Fit, Stands, Idle
<1>4. Good(t) /\ t.state = Completed /\ Onward(tsx, t) /\ ~t.tm[RT].armed
  BY <1>2, <1>3, Facts, CompleteQuiet
<1> HIDE DEF t
<1>5. Below(t, tsx')
  BY <1>1, <1>4, SmallBelows
<1>6. Onward(t, tsx')
  <2>1. Reach(t) /\ Still(t)
    BY <1>4 DEF Onward
  <2>2. Still(tsx')
    BY <1>5, <2>1 DEF Below, Still, Known
  <2> QED
    BY <1>5, <2>1, <2>2, BelowOnward
<1>7. Onward(tsx, tsx') /\ tsx'.state = Completed /\ ~tsx'.tm[RT].armed
  BY <1>4, <1>5, <1>6 DEF Onward, Below
<1>8. ~Gone(tsx') /\ tsx'.state # Proceeding /\ Fit(tsx')
  BY <1>7 DEF Gone, Fit, Onward, StNull, Calling, Proceeding, Completed, Terminated, Destroyed
<1>9. ASSUME NEW v \in Workers \ {w} PROVE Stands(pc[v], tsx')
  <2>1. Stands(pc[v], tsx) /\ pc[v].at # "final"
    BY <1>1, <1>3 DEF ClientInv, Once
  <2> QED
    BY <1>7, <2>1 DEF Stands, Onward, StNull, Completed
<1>10. Stands(Idle, tsx') /\ Idle.at = "idle"
  BY DEF Stands, Idle, Calls
<1>11. ClientInv'
  BY <1>1, <1>3, <1>8, <1>9, <1>10, ClientStep
<1>12. Turns
  BY <1>8 DEF Turns
<1> QED
  BY <1>11, <1>12

LEMMA RxStepClient ==
  ASSUME IInv, ClientInv, Client, Kin(tsx, tsx'), NEW w \in Workers, RxStep(w)
  PROVE  ClientInv' /\ Turns
BY LookupClient, RecvResponseClient, CompleteResponseClient DEF RxStep, RecvRequest, Client

(* The first send comes back: only one worker can have it. *)
LEMMA SendCallbackClient ==
  ASSUME IInv, ClientInv, Client, Kin(tsx, tsx'), NEW w \in Workers, NEW m \in Msgs,
         SendCallback(w, m)
  PROVE  ClientInv' /\ Turns
<1> DEFINE x == [kind |-> "sl", msg |-> m]
           rest == tsx.sends \ {x}
           done == [tsx EXCEPT !.sends = rest]
           q == [at |-> "sent", arg |-> m]
<1>1. /\ x \in tsx.sends /\ pc[w] = Idle
      /\ \/ tsx' = done /\ UNCHANGED pc
         \/ tsx.pendingTx = m /\ tsx' = done /\ pc' = [pc EXCEPT ![w] = q]
         \/ tsx' = DecRef(done) /\ pc' = [pc EXCEPT ![w] = Idle]
  BY DEF SendCallback, Go, Return
<1>2. Good(done)
  BY <1>1, Facts, DoneHeld
<1>3. Below(tsx, done) /\ done.sends = rest
  <2>1. rest \in SUBSET tsx.sends
    OBVIOUS
  <2> HIDE DEF rest
  <2> QED
    BY <2>1, Facts, SmallBelows DEF TsxType
<1> HIDE DEF done
<1>4. Below(done, DecRef(done))
  BY <1>2, SmallBelows
<1>5. Below(tsx, tsx')
  BY <1>1, <1>3, <1>4, BelowTrans
<1>6. Leads(tsx, tsx') /\ tsx'.state = tsx.state
  BY <1>5, BelowLeads DEF Below
<1>7. ~Gone(tsx) => tsx.state # StNull /\ Fit(tsx) /\ Reach(tsx)
  BY <1>1 DEF ClientInv, Fit, Unsent
<1>8. ~Calls(q) /\ ~Calls(Idle) /\ Idle.at = "idle" /\ q.at = "sent"
  BY DEF Calls, Idle
<1>9. CASE tsx' = done /\ UNCHANGED pc
  <2>1. tsx.state = StNull => Gone(tsx')
    BY <1>6, <1>7 DEF Gone
  <2> QED
    BY <1>6, <1>9, <2>1, ClientRests
<1>10. CASE pc' = [pc EXCEPT ![w] = Idle]
  BY <1>6, <1>7, <1>8, <1>10, ClientMove
<1>11. CASE tsx.pendingTx = m /\ tsx' = done /\ pc' = [pc EXCEPT ![w] = q]
  <2>1. ASSUME ~Gone(tsx)
        PROVE  Hangs(tsx') /\ \A v \in Workers \ {w} : pc[v].at # "sent"
    <3>1. m # None
      BY CodesAssumption DEF Msgs, Request, Ack, None
    <3>2. ~Known(tsx)
      BY <1>7, <1>11, <2>1, <3>1 DEF Reach
    <3>3. Hangs(tsx')
      BY <1>3, <1>5, <1>11, <3>2 DEF Hangs, Below, Known
    <3>4. \A v \in Workers : pc[v].at # "sent"
      BY <1>1, <1>11, <2>1 DEF ClientInv, Stands, Hangs
    <3> QED
      BY <3>3, <3>4
  <2> HIDE DEF q
  <2> QED
    BY <1>6, <1>7, <1>8, <1>11, <2>1, ClientMove
<1> QED
  BY <1>1, <1>9, <1>10, <1>11

(* ... and takes the lock. *)
LEMMA SendCallbackLockedClient ==
  ASSUME IInv, ClientInv, Client, Kin(tsx, tsx'), NEW w \in Workers, SendCallbackLocked(w)
  PROVE  ClientInv' /\ Turns
<1>1. /\ pc[w].at = "sent" /\ LockFree /\ pc' = [pc EXCEPT ![w] = Idle]
      /\ tsx' \in Delivered(tsx) \cup Undelivered(tsx, pc[w].arg)
  BY DEF SendCallbackLocked
<1>2. pc[w].arg \in Msgs /\ Idle.at = "idle"
  BY <1>1, Facts DEF ArgOK, Idle
<1>3. pc'[w] = Idle /\ \A v \in Workers : v # w => pc'[v] = pc[v]
  BY <1>1, Moved
<1>4. CASE Gone(tsx')
  <2>1. \A v \in Workers : pc'[v].at # "final"
    BY <1>1, <1>2, <1>3 DEF LockFree
  <2> QED
    BY <1>4, <2>1, ClientOver
<1>5. CASE ~Gone(tsx') /\ Gone(tsx)
  <2>1. tsx'.state = tsx.state
    BY <1>1, <1>2, <1>5, Facts, DeliveredFinds, UndeliveredGoesOn DEF Found
  <2> QED
    BY <1>5, <2>1 DEF Gone
<1>6. CASE ~Gone(tsx') /\ ~Gone(tsx)
  <2>1. /\ Fit(tsx) /\ Reach(tsx) /\ Hangs(tsx) /\ ~Known(tsx) /\ tsx.state # StNull
        /\ \A v \in Workers \ {w} : Stands(pc[v], tsx) /\ pc[v].at \notin {"sent", "final"}
    <3>1. Stands(pc[w], tsx)
      BY <1>6 DEF ClientInv
    <3>2. Fit(tsx) /\ Hangs(tsx) /\ tsx.state # StNull
      BY <1>1, <1>6, <3>1 DEF ClientInv, Stands, Idle
    <3>3. \A v \in Workers \ {w} : Stands(pc[v], tsx) /\ pc[v].at \notin {"sent", "final"}
      BY <1>1, <1>6 DEF ClientInv, Once, LockFree
    <3> QED
      BY <3>2, <3>3 DEF Fit, Hangs
  <2>2. /\ tsx'.state = tsx.state /\ Reach(tsx') /\ (Still(tsx) => Still(tsx'))
        /\ Still(tsx) /\ tsx'.tm[RT].armed => tsx.tm[RT].armed
    <3>1. CASE tsx' \in Delivered(tsx)
      BY <1>6, <2>1, <3>1, Facts, DeliveredFinds, FoundReach DEF Found, Still
    <3>2. CASE tsx' \in Undelivered(tsx, pc[w].arg)
      <4>1. Sits(tsx, tsx') /\ Quietly(tsx, tsx')
        BY <1>2, <1>6, <2>1, <3>2, Facts, UndeliveredGoesOn
      <4> QED
        BY <2>1, <4>1 DEF Sits, Quietly
    <3> QED
      BY <1>1, <3>1, <3>2
  <2>3. Fit(tsx')
    BY <2>1, <2>2 DEF Fit, Completed, Proceeding
  <2>4. ASSUME NEW v \in Workers \ {w} PROVE Stands(pc[v], tsx')
    BY <2>1, <2>2 DEF Stands
  <2>5. Stands(Idle, tsx')
    BY DEF Stands, Idle, Calls
  <2>6. ClientInv'
    BY <1>1, <1>2, <1>6, <2>3, <2>4, <2>5, ClientStep
  <2>7. Turns
    <3>1. \A v \in Workers : Calls(pc'[v]) => Calls(pc[v])
      BY <1>2, <1>3 DEF Calls
    <3> QED
      BY <2>1, <2>2, <3>1 DEF Turns, Fit
  <2> QED
    BY <2>6, <2>7
<1> QED
  BY <1>4, <1>5, <1>6

(* Only a client that knows the server sends on a transport. *)
LEMMA TransportCallbackClient ==
  ASSUME IInv, ClientInv, Client, Kin(tsx, tsx'), NEW w \in Workers, NEW m \in Msgs,
         TransportCallback(w, m)
  PROVE  ClientInv' /\ Turns
<1> DEFINE x == [kind |-> "tp", msg |-> m]
           rest == tsx.sends \ {x}
           sent == [tsx EXCEPT !.sends = rest]
           done == Lower(sent, {"PENDING_TRANSPORT"})
           q == [at |-> "failed", arg |-> 0]
<1>1. /\ x \in tsx.sends /\ x.kind = "tp" /\ LockFree
      /\ \/ tsx' = DecRef(done) /\ pc' = [pc EXCEPT ![w] = Idle]
         \/ tsx' = done /\ pc' = [pc EXCEPT ![w] = q]
  BY DEF TransportCallback, Go, Return
<1>2. Good(sent)
  BY <1>1, Facts, DoneHeld
<1>3. Below(tsx, sent)
  <2>1. rest \in SUBSET tsx.sends
    OBVIOUS
  <2> HIDE DEF rest
  <2> QED
    BY <2>1, Facts, SmallBelows
<1> HIDE DEF sent
<1>4. /\ Good(done)
      /\ done.state = sent.state /\ done.pendingTx = sent.pendingTx /\ done.sends = sent.sends
      /\ done.transport = sent.transport /\ done.tm = sent.tm
      /\ \A f \in {"PENDING_RESCHED", "RESOLVED_SERVER"} : Has(done, f) <=> Has(sent, f)
  <2>1. Good(done)
    BY <1>2, LowerSafe DEF Safe
  <2> QED
    BY <1>2, <2>1 DEF Good, TsxType, Lower, Has
<1> HIDE DEF done
<1>5. Below(done, DecRef(done))
  BY <1>4, SmallBelows
<1>6. Reach(tsx) => Known(tsx)
  BY <1>1 DEF Reach
<1>7. Leads(tsx, done) /\ done.state = tsx.state
  BY <1>3, <1>4, <1>6 DEF Below, Leads, Sits, Quietly, Reach, Known, Still, Hangs
<1>8. Leads(tsx, tsx')
  BY <1>1, <1>5, <1>7, BelowLeads, LeadsTrans
<1>9. ~Gone(tsx) => tsx.state # StNull
  BY <1>1 DEF ClientInv, Fit, Unsent
<1>10. ~Calls(q) /\ ~Calls(Idle) /\ Idle.at = "idle" /\ q.at = "failed"
  BY DEF Calls, Idle
<1> HIDE DEF q
<1>11. CASE pc' = [pc EXCEPT ![w] = Idle]
  BY <1>1, <1>8, <1>9, <1>10, <1>11, ClientMove
<1>12. CASE pc' = [pc EXCEPT ![w] = q]
  BY <1>1, <1>8, <1>9, <1>10, <1>12, ClientMove
<1> QED
  BY <1>1, <1>11, <1>12

LEMMA TransportFailedClient ==
  ASSUME IInv, ClientInv, Client, Kin(tsx, tsx'), NEW w \in Workers, TransportFailed(w)
  PROVE  ClientInv' /\ Turns
<1>1. pc[w] # Idle /\ Return(w, PostTransportError(tsx))
  BY DEF TransportFailed, Idle
<1>2. Good(PostTransportError(tsx)) /\ Below(tsx, PostTransportError(tsx))
  BY Facts, PostTransportErrorSafe, PostTransportErrorBelow DEF Safe
<1> QED
  BY <1>1, <1>2, ClientDoneBelow

LEMMA SendStepClient ==
  ASSUME IInv, ClientInv, Client, Kin(tsx, tsx'), NEW w \in Workers, SendStep(w)
  PROVE  ClientInv' /\ Turns
BY SendCallbackClient, TransportCallbackClient, SendCallbackLockedClient, TransportFailedClient
   DEF SendStep

(* The user sends the request, the first time and the only one. *)
LEMMA SendRequestClient ==
  ASSUME IInv, ClientInv, WInv, Client, Kin(tsx, tsx'), SendRequest
  PROVE  ClientInv' /\ Turns
<1>1. LockFree /\ tsx.state = StNull /\ tsx' \in OnSendRequest(tsx) /\ UNCHANGED pc
  BY DEF SendRequest
<1>2. ~Gone(tsx)
  BY <1>1 DEF Gone, StNull, Terminated, Destroyed
<1>3. Unsent(tsx) /\ Once /\ (\A w \in Workers : pc[w] = Idle) /\ ~tsx.resTp
  BY <1>1, <1>2 DEF ClientInv, Fit, Stands, WInv, Client
<1>4. Gone(tsx') \/ (tsx'.state = Calling /\ Reach(tsx'))
  BY <1>1, <1>2, <1>3, Facts, OnSendRequestFirst
<1>5. CASE Gone(tsx')
  <2>1. \A w \in Workers : pc'[w].at # "final"
    BY <1>1 DEF LockFree
  <2> QED
    BY <1>5, <2>1, ClientOver
<1>6. CASE ~Gone(tsx')
  <2>1. Fit(tsx')
    BY <1>4, <1>6 DEF Fit, StNull, Calling, Proceeding, Completed
  <2>2. \A w \in Workers : Stands(Idle, tsx')
    BY DEF Stands, Idle, Calls
  <2>3. ClientInv'
    BY <1>1, <1>3, <1>6, <2>1, <2>2 DEF ClientInv, Once, Fit, Stands, Gone
  <2>4. Turns
    BY <1>4, <1>6 DEF Turns, Calling, Proceeding
  <2> QED
    BY <2>3, <2>4
<1> QED
  BY <1>5, <1>6

LEMMA UserStepClient ==
  ASSUME IInv, ClientInv, WInv, Client, Kin(tsx, tsx'), UserStep
  PROVE  ClientInv' /\ Turns
<1>1. CASE Terminate
  <2> DEFINE q == [tsx EXCEPT !.code = RequestTerminated]
  <2>1. LockFree /\ tsx' = SetState(q, Terminated) /\ UNCHANGED pc
    BY <1>1 DEF Terminate
  <2>2. Good(q)
    <3>1. RequestTerminated \in 0..699
      BY DEF RequestTerminated
    <3> QED
      BY <3>1, Facts, CodeAkin
  <2> HIDE DEF q
  <2>3. Gone(tsx')
    BY <2>1, <2>2, GoneStates
  <2>4. \A w \in Workers : pc'[w].at # "final"
    BY <2>1 DEF LockFree
  <2> QED
    BY <2>3, <2>4, ClientOver
<1>2. CASE StopRetransmit
  <2>1. tsx' = Cancel(tsx, RT) /\ UNCHANGED pc
    BY <1>2 DEF StopRetransmit
  <2>2. Below(tsx, tsx')
    BY <2>1, Facts, TimerBelows
  <2>3. tsx.state = StNull => Unsent(tsx')
    <3>1. ASSUME tsx.state = StNull PROVE Unsent(tsx)
      <4>1. ~Gone(tsx)
        BY <3>1 DEF Gone, StNull, Terminated, Destroyed
      <4> QED
        BY <3>1, <4>1 DEF ClientInv, Fit
    <3>2. /\ tsx'.flags = tsx.flags /\ ~tsx'.tm[RT].armed /\ tsx'.tm[TO] = tsx.tm[TO]
          /\ tsx'.transport = tsx.transport /\ tsx'.sends = tsx.sends
      <4>1. tsx'.transport = tsx.transport /\ tsx'.sends = tsx.sends
        BY <2>1, Facts DEF TsxType, Cancel
      <4>2. RT # TO
        BY DEF RT, TO
      <4> QED
        BY <2>1, <4>1, <4>2, Facts, CancelDoes
    <3> QED
      BY <3>1, <3>2 DEF Unsent
  <2> QED
    BY <2>1, <2>2, <2>3, BelowLeads, ClientRests DEF Below
<1>3. CASE SetTimeout
  <2>1. tsx' = Restart(tsx, TO, TimeoutTimer) /\ UNCHANGED pc /\ tsx.state # StNull
    BY <1>3 DEF SetTimeout
  <2>2. Below(tsx, tsx')
    BY <2>1, Facts, Ids, RestartBelow
  <2> QED
    BY <2>1, <2>2, BelowLeads, ClientRests DEF Below
<1> QED
  BY <1>1, <1>2, <1>3, SendRequestClient
     DEF UserStep, SendResponse, RetransmitNoState, Client

LEMMA TransportDownClient ==
  ASSUME IInv, ClientInv, Client, Kin(tsx, tsx'), TransportDown
  PROVE  ClientInv' /\ Turns
<1> DEFINE q == [tsx EXCEPT !.transport = "down"]
<1>1. tsx.transport = "up" /\ tsx' = PostTransportError(q) /\ UNCHANGED pc
  BY DEF TransportDown
<1>2. tsx \in TsxType /\ "down" \in {"none", "up", "down"}
  BY Facts
<1>3. q \in TsxType
  BY <1>2, ZenonT(40) DEF TsxType
<1>4. Alike(tsx, q)
  BY <1>2 DEF TsxType, Alike
<1>5. Good(q) /\ Below(tsx, q)
  BY <1>1, <1>3, <1>4, Facts, Neutral, SmallBelows DEF Safe
<1> HIDE DEF q
<1>6. Below(tsx, tsx')
  BY <1>1, <1>5, PostTransportErrorBelow, BelowTrans
<1>7. tsx.state # StNull
  BY <1>1 DEF ClientInv, Fit, Unsent, Gone, StNull, Terminated, Destroyed
<1> QED
  BY <1>1, <1>6, <1>7, BelowLeads, ClientRests DEF Below

LEMMA LayerStopClient ==
  ASSUME IInv, ClientInv, Client, Kin(tsx, tsx'), LayerStop
  PROVE  ClientInv' /\ Turns
<1> DEFINE q == [tsx EXCEPT !.code = TransportError]
           t == IF tsx.state < Terminated THEN SetState(q, Terminated) ELSE tsx
           u == [t EXCEPT !.registered = FALSE, !.loaded = FALSE]
<1>1. /\ tsx' = Shutdown(u) /\ UNCHANGED pc
      /\ \A w \in Workers : pc[w] = Idle
  BY DEF LayerStop
<1>2. Good(q)
  <2>1. TransportError \in 0..699
    BY DEF TransportError
  <2> QED
    BY <2>1, Facts, CodeAkin
<1> HIDE DEF q
<1>3. Good(t) /\ Gone(t)
  <2>1. CASE tsx.state < Terminated
    <3>1. Good(SetState(q, Terminated)) /\ Gone(SetState(q, Terminated))
      BY <1>2, States, Then, SafeRefl, GoneStates DEF Safe
    <3> QED
      BY <2>1, <3>1
  <2>2. CASE ~(tsx.state < Terminated)
    BY <2>2, Facts, GoneIs
  <2> QED
    BY <2>1, <2>2
<1> HIDE DEF t
<1>4. Good(u) /\ u.state = t.state
  <2>1. t \in TsxType /\ FALSE \in BOOLEAN
    BY <1>3 DEF Good
  <2>2. u \in TsxType
    BY <2>1, ZenonT(40) DEF TsxType
  <2>3. Alike(t, u) /\ u.state = t.state
    BY <2>1 DEF TsxType, Alike
  <2>4. t.registered => ~t.terminating
    BY <1>3 DEF Good
  <2> QED
    BY <1>3, <2>2, <2>3, Neutral DEF Safe
<1> HIDE DEF u
<1>5. tsx'.state = u.state
  BY <1>1, <1>4, ShutdownDoes
<1>6. Gone(tsx') /\ \A w \in Workers : pc'[w].at # "final"
  BY <1>1, <1>3, <1>4, <1>5 DEF Gone, Idle
<1> QED
  BY <1>6, ClientOver

LEMMA InitClient == ASSUME Init PROVE ClientInv
<1>1. PICK k \in Kinds, reliable \in BOOLEAN, handle200 \in BOOLEAN,
           same \in BOOLEAN, alt \in 0..MaxAlt :
        /\ k.role = "UAC" => ~same
        /\ tsx = Created(k, reliable, handle200, same, alt)
  BY DEF Init
<1>2. /\ tsx.role = k.role /\ tsx.state = StNull /\ tsx.sends = {} /\ tsx.flags = {}
      /\ tsx.transport = IF same THEN "up" ELSE "none"
      /\ tsx.tm = [e \in {RT, TO} |-> [armed |-> FALSE, id |-> Inactive]]
  BY <1>1 DEF Created
<1>3. ~tsx.tm[RT].armed /\ ~tsx.tm[TO].armed
  BY <1>2
<1>4. \A w \in Workers : pc[w] = Idle
  BY DEF Init
<1>5. Client => Fit(tsx)
  BY <1>1, <1>2, <1>3 DEF Client, Fit, Unsent, StNull, Proceeding, Completed
<1>6. \A w \in Workers : Stands(pc[w], tsx) /\ pc[w].at = "idle"
  BY <1>4 DEF Stands, Idle, Calls
<1> QED
  BY <1>5, <1>6 DEF ClientInv, Once

LEMMA NextClient == IInv /\ Timely /\ ClientInv /\ [Next]_vars => ClientInv' /\ Turns
<1> SUFFICES ASSUME IInv, Timely, ClientInv, [Next]_vars PROVE ClientInv' /\ Turns
  OBVIOUS
<1>1. Kin(tsx, tsx') /\ WInv
  BY NextTimely DEF Timely
<1>2. Client' <=> Client
  BY <1>1 DEF Client, Kin, Akin
<1>3. CASE ~Client
  BY <1>2, <1>3 DEF ClientInv, Turns
<1>4. CASE Client /\ UNCHANGED vars
  <2>1. UNCHANGED pc /\ UNCHANGED tsx /\ tsx.state = StNull => Gone(tsx) \/ Unsent(tsx)
    BY <1>4 DEF vars, ClientInv, Fit
  <2> QED
    BY <1>1, <1>4, <2>1, LeadsRefl, ClientRests DEF vars
<1> QED
  BY <1>1, <1>3, <1>4, TimerStepClient, RxStepClient, SendStepClient, UserStepClient,
     TransportDownClient, LayerStopClient DEF Next, Over

LEMMA AlwaysClient == Spec => []ClientInv
BY Invariance, AlwaysTimely, InitClient, NextClient, PTL DEF Spec

(* An INVITE is not retransmitted any more after the final response that    *)
(* completes it: not by a timer that has run already, nor by a send that was*)
(* pending when the response came and is called back after it.              *)
THEOREM FinalStops == Spec => []FinalStopsInvite
<1>1. ClientInv => FinalStopsInvite
  BY DEF ClientInv, Client, Fit, FinalStopsInvite, Gone, Completed, Terminated, Destroyed
<1> QED
  BY <1>1, AlwaysClient, PTL

(* A client that has got a provisional response has no retransmission timer,*)
(* and nobody has taken one.                                                *)
Hushed ==
  Client /\ tsx.state = Proceeding =>
    ~tsx.tm[RT].armed /\ \A w \in Workers : ~Calls(pc[w])

(* With one polling thread an INVITE is not retransmitted after a           *)
(* provisional response either; a second thread may be on its way with the  *)
(* timer when the response comes.                                           *)
THEOREM ProvisionalStops ==
  ASSUME NEW CONSTANT w, Workers = {w}
  PROVE  Spec => []ProvisionalStopsInvite
<1>1. Init => Hushed
  BY DEF Init, Created, Hushed, StNull, Proceeding
<1>2. IInv /\ Timely /\ ClientInv /\ Hushed /\ [Next]_vars => Hushed'
  <2> SUFFICES ASSUME IInv, Timely, ClientInv, Hushed, [Next]_vars, Client', tsx'.state = Proceeding
               PROVE  ~tsx'.tm[RT].armed /\ \A v \in Workers : ~Calls(pc'[v])
    BY DEF Hushed
  <2>1. Turns /\ Client
    BY NextClient, NextTimely DEF Client, Kin, Akin
  <2>2. ASSUME NEW v \in Workers, pc' = [pc EXCEPT ![v] = Idle] PROVE \A u \in Workers : ~Calls(pc'[u])
    <3>1. \A u \in Workers : u = v
      OBVIOUS
    <3>2. pc'[v] = Idle
      BY <2>2, Moved DEF IInv
    <3>3. ~Calls(Idle)
      BY DEF Calls, Idle
    <3> QED
      BY <3>1, <3>2, <3>3
  <2> QED
    BY <2>1, <2>2 DEF Turns, Hushed
<1>3. Hushed => ProvisionalStopsInvite
  BY DEF Hushed, Client, ProvisionalStopsInvite
<1> QED
  BY <1>1, <1>2, <1>3, Invariance, AlwaysTimely, AlwaysClient, PTL DEF Spec
=============================================================================
