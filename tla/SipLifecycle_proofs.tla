------------------------ MODULE SipLifecycle_proofs ------------------------
(***************************************************************************)
(* SipTransaction implements TransactionLifecycle when one thread polls:    *)
(* whatever the status codes and however many addresses a request may fail  *)
(* over to, each step of the transaction is a step of its life cycle or     *)
(* leaves that as it is.  Nor does it then keep a reference that nobody     *)
(* gives back (the second half of the module).                              *)
(***************************************************************************)
EXTENDS SipTransaction_proofs

(* What holds of the record wherever the worker is: shut down, or no longer *)
(* with a user, only at the end; and a client whose server is not resolved  *)
(* has no transport, so that only a stateless send can make it wait.        *)
Unresolved(s) ==
  /\ s.transport # "up"
  /\ \A d \in s.sends : d.kind = "sl"
  /\ Has(s, "PENDING_SEND") /\ s.state < Terminated => Has(s, "PENDING_TRANSPORT")

Sound(s) ==
  /\ s.terminating => s.state >= Terminated
  /\ s.user \/ s.heard # <<>>
  /\ s.state = Destroyed => s.heard # <<>>
  /\ Has(s, "PENDING_DESTROY") => ~s.user /\ s.state >= Terminated
  /\ s.role = "UAC" /\ ~Has(s, "RESOLVED_SERVER") => Unresolved(s)

(* ... and what holds when the worker is not about to tell the user. *)
Lives(s) ==
  /\ Sound(s)
  /\ s.state >= Terminated => s.heard # <<>>
  /\ s.state = Destroyed => s.lastTx = None

(* Where the worker is, and what it knows there. *)
Place(p, s) ==
  CASE p.at = "tell" -> Sound(s) /\ s.state = p.arg
    [] p.at = "told" -> Sound(s) /\ s.state = p.arg /\ s.heard # <<>>
    [] p.at = "terr" -> Lives(s) /\ s.state <= Terminated
    [] p.at = "terrTell" -> Sound(s) /\ s.state = Terminated
    [] p.at = "final" -> Lives(s) /\ s.role = "UAC" /\ s.state \in {Calling, Proceeding}
    [] OTHER -> Lives(s)

(* The inductive invariant, next to IInv. *)
LInv == \A w \in Workers : Place(pc[w], tsx)

(* The same place in the life cycle. *)
Same(s, t) ==
  /\ t.role = s.role /\ t.invite = s.invite /\ t.state = s.state /\ t.heard = s.heard

(* A step on what does not matter here, *)
Near(s, t) ==
  /\ Same(s, t)
  /\ t.user = s.user /\ t.terminating = s.terminating /\ t.flags = s.flags
  /\ t.transport = s.transport /\ t.sends = s.sends /\ t.lastTx = s.lastTx

(* as one on the timers and the reference count. *)
Like(s, t) == Near(s, t) /\ t.err = s.err

(* A step of the life cycle. *)
Following(s) == Lifecycle!Successors([role |-> s.role, invite |-> s.invite], s.state)

Passes(s, t) ==
  /\ t.role = s.role /\ t.invite = s.invite
  /\ t.state = s.state \/ t.state \in Following(s)
  /\ \/ t.heard = s.heard
     \/ t.state = Terminated /\ t.heard = Append(s.heard, Terminated)
     \/ t.state = Destroyed /\ s.heard # <<>> /\ t.heard = Append(s.heard, Destroyed)
  /\ t.state = Destroyed => t.heard # <<>>

Stays(s, t) == Good(t) /\ Lives(t) /\ Same(s, t)
Fate(s, t)  == Good(t) /\ Lives(t) /\ Passes(s, t)
-----------------------------------------------------------------------------
LEMMA Ranks ==
  /\ StNull = 0 /\ Calling = 1 /\ Trying = 2 /\ Proceeding = 3 /\ Completed = 4
  /\ Confirmed = 5 /\ Terminated = 6 /\ Destroyed = 7
BY DEF StNull, Calling, Trying, Proceeding, Completed, Confirmed, Terminated, Destroyed

LEMMA StateIs == ASSUME NEW s, Good(s) PROVE s.state \in 0..7 /\ s.heard \in Seq({6, 7})
BY Ranks DEF Good, TsxType, FinalStates

LEMMA NearKeeps ==
  ASSUME NEW s, NEW t, Near(s, t)
  PROVE  /\ Same(s, t) /\ (Sound(s) => Sound(t)) /\ (Lives(s) => Lives(t))
BY DEF Near, Same, Sound, Lives, Unresolved, Has, IsPending

LEMMA LikeKeeps ==
  ASSUME NEW s, NEW t, Like(s, t)
  PROVE  /\ Same(s, t) /\ (Sound(s) => Sound(t)) /\ (Lives(s) => Lives(t))
BY NearKeeps DEF Like

LEMMA LikeTrans ==
  ASSUME NEW s, NEW t, NEW u, Like(s, t), Like(t, u) PROVE Like(s, u)
BY DEF Like, Near, Same

LEMMA SamePasses ==
  ASSUME NEW s, NEW t, NEW u, Same(s, t)
  PROVE  /\ Same(t, u) => Same(s, u)
         /\ Passes(t, u) => Passes(s, u)
BY DEF Same, Passes, Following

LEMMA PassesSame ==
  ASSUME NEW s, NEW t, NEW u, Passes(s, t), Same(t, u)
  PROVE  Passes(s, u)
BY DEF Same, Passes

LEMMA StaysFate ==
  ASSUME NEW s, NEW t, Stays(s, t)
  PROVE  Fate(s, t)
BY DEF Stays, Fate, Lives, Sound, Same, Passes

(* The timers. *)
LEMMA CancelLike ==
  ASSUME NEW s, Good(s), NEW e \in {RT, TO}
  PROVE  Good(Cancel(s, e)) /\ Like(s, Cancel(s, e))
<1>1. Good(Cancel(s, e))
  BY CancelSafe DEF Safe
<1>2. s \in TsxType
  BY DEF Good
<1> DEFINE timers == [s.tm EXCEPT ![e] = [armed |-> FALSE, id |-> Inactive]]
           n == IF s.tm[e].armed THEN s.ref - 1 ELSE s.ref
<1>3. Cancel(s, e) = [s EXCEPT !.tm = timers, !.ref = n]
  BY <1>2 DEF TsxType, Cancel
<1> HIDE DEF timers, n
<1>4. Like(s, Cancel(s, e))
  BY <1>2, <1>3 DEF TsxType, Like, Near, Same
<1> QED
  BY <1>1, <1>4

LEMMA ScheduleLike ==
  ASSUME NEW s, Good(s), NEW e \in {RT, TO}, NEW i \in Inactive..TransportErrTimer
  PROVE  Good(Schedule(s, e, i)) /\ Like(s, Schedule(s, e, i))
<1>1. Good(Schedule(s, e, i))
  BY ScheduleSafe DEF Safe
<1>2. s \in TsxType
  BY DEF Good
<1> DEFINE timers == [s.tm EXCEPT ![e] = [armed |-> TRUE, id |-> i]]
<1>3. Schedule(s, e, i) \in {s, [s EXCEPT !.tm = timers, !.ref = s.ref + 1]}
  BY <1>2 DEF TsxType, Schedule
<1> HIDE DEF timers
<1>4. Like(s, Schedule(s, e, i))
  BY <1>2, <1>3, ZenonT(40) DEF TsxType, Like, Near, Same
<1> QED
  BY <1>1, <1>4

LEMMA RestartLike ==
  ASSUME NEW s, Good(s), NEW e \in {RT, TO}, NEW i \in Inactive..TransportErrTimer
  PROVE  Good(Restart(s, e, i)) /\ Like(s, Restart(s, e, i))
<1>1. Good(Cancel(s, e)) /\ Like(s, Cancel(s, e))
  BY CancelLike
<1>2. Good(Restart(s, e, i)) /\ Like(Cancel(s, e), Restart(s, e, i))
  BY <1>1, ScheduleLike DEF Restart
<1> QED
  BY <1>1, <1>2, LikeTrans

(* tsx_shutdown, of a transaction that has come to its end. *)
LEMMA ShutdownEnds ==
  ASSUME NEW s, Good(s), ~s.registered, Sound(s), s.state >= Terminated, s.heard # <<>>
  PROVE  Stays(s, Shutdown(s))
<1> DEFINE u == [s EXCEPT !.transport = "none", !.lastTx = None]
           v == Cancel(u, TO)
           bare == Cancel(v, RT)
           F == {"PENDING_RESCHED", "PENDING_SEND"}
           late == Lower(bare, F)
           wait == Has(s, "PENDING_TRANSPORT")
           flags == IF wait THEN late.flags \cup {"PENDING_DESTROY"} ELSE late.flags
           user == late.user /\ ~wait
           n == IF s.terminating THEN late.ref ELSE late.ref - 1
           t == [late EXCEPT !.flags = flags, !.user = user, !.terminating = TRUE, !.ref = n]
<1>1. s \in TsxType
  BY DEF Good
<1>2. Good(Shutdown(s))
  BY ShutdownSafe DEF Safe
<1>3. u \in TsxType
  <2>1. None \in MaybeMsg /\ "none" \in {"none", "up", "down"}
    BY DEF MaybeMsg
  <2> QED
    BY <1>1, <2>1, ZenonT(40) DEF TsxType
<1>4. /\ Same(s, u) /\ u.user = s.user /\ u.flags = s.flags /\ u.sends = s.sends
      /\ u.transport = "none" /\ u.lastTx = None /\ u.terminating = s.terminating
      /\ u.registered = s.registered
  BY <1>1 DEF TsxType, Same
<1>5. Good(u)
  BY <1>1, <1>3, <1>4 DEF Good
<1>6. Shutdown(s) = t
  BY DEF Shutdown
<1> HIDE DEF u
<1>7. Good(v) /\ Like(u, v)
  BY <1>5, CancelLike
<1> HIDE DEF v
<1>8. Good(bare) /\ Like(v, bare)
  BY <1>7, CancelLike
<1>9. Like(u, bare)
  BY <1>7, <1>8, LikeTrans
<1> HIDE DEF bare
<1>10. /\ Same(s, late) /\ late.user = s.user /\ late.flags = s.flags \ F
       /\ late.transport = "none" /\ late.lastTx = None /\ late.sends = s.sends
       /\ late \in TsxType
  <2>1. late \in TsxType
    BY <1>8, LowerSafe DEF Safe, Good
  <2>2. bare \in TsxType
    BY <1>8 DEF Good
  <2>3. Like(bare, [late EXCEPT !.flags = bare.flags]) /\ late.flags = bare.flags \ F
        /\ late.user = bare.user /\ late.transport = bare.transport
        /\ late.lastTx = bare.lastTx /\ late.sends = bare.sends /\ Same(bare, late)
    BY <2>2 DEF Lower, TsxType, Like, Near, Same
  <2> QED
    BY <1>4, <1>9, <2>1, <2>3 DEF Like, Near, Same
<1> HIDE DEF late, F
<1>11. /\ Same(late, t) /\ t.user = user /\ t.flags = flags /\ t.transport = late.transport
       /\ t.lastTx = late.lastTx /\ t.sends = late.sends
  BY <1>10 DEF TsxType, Same
<1>12. Same(s, t)
  BY <1>10, <1>11 DEF Same
<1>13. /\ t.user => s.user
       /\ Has(t, "PENDING_DESTROY") => Has(s, "PENDING_DESTROY") \/ ~t.user
       /\ Has(s, "RESOLVED_SERVER") => Has(t, "RESOLVED_SERVER")
  <2>1. t.user => s.user /\ ~wait
    BY <1>10, <1>11, Zenon
  <2>2. flags \subseteq late.flags \cup {"PENDING_DESTROY"} /\ late.flags \subseteq flags
        /\ ("PENDING_DESTROY" \in flags => wait \/ "PENDING_DESTROY" \in late.flags)
    OBVIOUS
  <2> HIDE DEF flags, wait, user
  <2> QED
    BY <1>10, <1>11, <2>1, <2>2 DEF Has, F
<1> HIDE DEF t
<1>14. Unresolved(s) => Unresolved(t)
  BY <1>10, <1>11, <1>12, StateIs, Ranks DEF Unresolved, Same
<1>15. Lives(t)
  <2>1. t.state = s.state /\ t.heard = s.heard /\ t.role = s.role /\ t.lastTx = None
    BY <1>10, <1>11, <1>12 DEF Same
  <2> QED
    BY <1>13, <1>14, <2>1 DEF Lives, Sound
<1> QED
  BY <1>2, <1>6, <1>12, <1>15 DEF Stays

(* tsx_set_state lets go of a message that is still on its way. *)
LEMMA DetachKeeps ==
  ASSUME NEW s, Good(s), s.state >= Terminated
  PROVE  /\ Good(Detach(s)) /\ Same(s, Detach(s))
         /\ Detach(s).lastTx = s.lastTx /\ Detach(s).err = s.err
         /\ Sound(s) => Sound(Detach(s))
<1> DEFINE t == [s EXCEPT !.pendingTx = None]
           u == [t EXCEPT !.flags = t.flags \ {"PENDING_TRANSPORT"}]
<1>1. s \in TsxType
  BY DEF Good
<1>2. Good(Detach(s))
  BY DetachSafe DEF Safe
<1>3. Detach(s) \in {s, u}
  BY DEF Detach, Lower
<1>4. Like(s, t) /\ t.flags = s.flags
  BY <1>1 DEF TsxType, Like, Near, Same
<1>5. DOMAIN t = DOMAIN s
  OBVIOUS
<1>6. /\ Same(s, u) /\ u.user = s.user /\ u.terminating = s.terminating
      /\ u.transport = s.transport /\ u.sends = s.sends /\ u.lastTx = s.lastTx
      /\ u.flags = s.flags \ {"PENDING_TRANSPORT"} /\ u.err = s.err
  BY <1>1 DEF TsxType, Same
<1> HIDE DEF u
<1>7. Sound(s) => Sound(u)
  <2>1. /\ Has(u, "PENDING_DESTROY") <=> Has(s, "PENDING_DESTROY")
        /\ Has(u, "RESOLVED_SERVER") <=> Has(s, "RESOLVED_SERVER")
    BY <1>6 DEF Has
  <2>2. Unresolved(s) => Unresolved(u)
    BY <1>6, StateIs, Ranks DEF Unresolved, Same
  <2> QED
    BY <1>6, <2>1, <2>2 DEF Sound, Same
<1> QED
  BY <1>2, <1>3, <1>6, <1>7 DEF Same

(* What tsx_set_state does after the user has been told. *)
LEMMA SettleTerminated ==
  ASSUME NEW s, Good(s), Sound(s), s.state = Terminated
  PROVE  LET t == Settle(s, Terminated)
         IN  /\ Good(t) /\ Sound(t) /\ Same(s, t) /\ t.err = s.err
             /\ s.heard # <<>> => Lives(t)
<1> DEFINE d == Detach(s)
           t == Restart(d, TO, TimeoutTimer)
<1>1. Settle(s, Terminated) = t
  BY Ranks DEF Settle
<1>2. Good(d) /\ Same(s, d) /\ d.err = s.err /\ Sound(d)
  BY DetachKeeps, StateIs, Ranks
<1> HIDE DEF d
<1>3. Good(t) /\ Like(d, t)
  BY <1>2, Ids, RestartLike
<1> HIDE DEF t
<1>4. Same(s, t) /\ Sound(t) /\ t.err = s.err
  BY <1>2, <1>3, LikeKeeps, SamePasses DEF Like, Near
<1>5. s.heard # <<>> => Lives(t)
  BY <1>4, Ranks DEF Lives, Same
<1> QED
  BY <1>1, <1>3, <1>4, <1>5

LEMMA StateTyped ==
  ASSUME NEW s \in TsxType, NEW st \in StNull..Destroyed
  PROVE  [s EXCEPT !.state = st] \in TsxType
BY ZenonT(40) DEF TsxType

LEMMA Unlisted ==
  ASSUME NEW s \in TsxType PROVE [s EXCEPT !.registered = FALSE] \in TsxType
<1>1. FALSE \in BOOLEAN
  OBVIOUS
<1> QED
  BY <1>1, ZenonT(40) DEF TsxType

LEMMA SettleDestroyed ==
  ASSUME NEW s, Good(s), Sound(s), s.state = Destroyed
  PROVE  Stays(s, Settle(s, Destroyed))
<1> DEFINE t == [s EXCEPT !.registered = FALSE]
<1>1. Settle(s, Destroyed) = Shutdown(t)
  BY Ranks DEF Settle
<1>2. s \in TsxType
  BY DEF Good
<1>3. t \in TsxType
  BY <1>2, Unlisted
<1>4. Like(s, t) /\ ~t.registered
  BY <1>2 DEF TsxType, Like, Near, Same
<1>5. Good(t)
  BY <1>2, <1>3 DEF Good, TsxType
<1> HIDE DEF t
<1>6. Sound(t) /\ t.state >= Terminated /\ t.heard # <<>>
  BY <1>4, LikeKeeps, Ranks DEF Like, Near, Same, Sound
<1>7. Stays(t, Shutdown(t))
  BY <1>4, <1>5, <1>6, ShutdownEnds
<1> QED
  BY <1>1, <1>4, <1>7, LikeKeeps, SamePasses DEF Stays

(* The call to the user. *)
LEMMA TellTells ==
  ASSUME NEW s, Good(s)
  PROVE  LET t == Tell(s)
         IN  /\ Good(t) /\ Like([s EXCEPT !.heard = t.heard], t)
             /\ s.state < Terminated => t = s
             /\ t.heard = s.heard \/ t.heard = Append(s.heard, s.state)
             /\ s.state >= Terminated /\ (s.user \/ s.heard # <<>>) => t.heard # <<>>
             /\ Sound(s) /\ s.state >= Terminated => Sound(t)
<1> DEFINE t == Tell(s)
           h == Append(s.heard, s.state)
<1>1. Good(t)
  BY TellSafe DEF Safe
<1>2. s \in TsxType /\ s.heard \in Seq({6, 7}) /\ s.state \in 0..7
  BY StateIs DEF Good
<1>3. t \in {s, [s EXCEPT !.heard = h]}
  BY DEF Tell
<1>4. s.state < Terminated => t = s
  BY <1>2, Ranks DEF Tell
<1>5. h # <<>>
  <2>1. Len(h) = Len(s.heard) + 1 /\ Len(s.heard) \in Nat
    BY <1>2
  <2>2. Len(<<>>) = 0
    OBVIOUS
  <2> HIDE DEF h
  <2> QED
    BY <2>1, <2>2
<1>6. s.heard = <<>> /\ s.user /\ s.state >= Terminated => t = [s EXCEPT !.heard = h]
  BY DEF Tell
<1> HIDE DEF h
<1>7. t.heard \in {s.heard, h} /\ Like([s EXCEPT !.heard = t.heard], t)
  BY <1>2, <1>3 DEF TsxType, Like, Near, Same
<1>8. s.state >= Terminated /\ (s.user \/ s.heard # <<>>) => t.heard # <<>>
  BY <1>2, <1>3, <1>5, <1>6 DEF TsxType
<1>9. /\ t.state = s.state /\ t.role = s.role /\ t.user = s.user /\ t.flags = s.flags
      /\ t.terminating = s.terminating /\ t.transport = s.transport /\ t.sends = s.sends
  BY <1>2, <1>3 DEF TsxType
<1> HIDE DEF t
<1>10. Sound(s) /\ s.state >= Terminated => Sound(t)
  BY <1>8, <1>9 DEF Sound, Unresolved, Has
<1> QED
  BY <1>1, <1>4, <1>7, <1>8, <1>10 DEF h, t

(* tsx_set_state, to a state that is not the end, *)
LEMMA StateGoesOn ==
  ASSUME NEW s, Good(s), Lives(s), s.state < Terminated, NEW st \in StNull..Confirmed
  PROVE  LET t == SetState(s, st)
         IN  /\ Good(t) /\ Lives(t) /\ t = [s EXCEPT !.state = st]
             /\ t.state = st /\ t.role = s.role /\ t.invite = s.invite /\ t.heard = s.heard
             /\ t.lastTx = s.lastTx
<1> DEFINE t == [s EXCEPT !.state = st]
<1>1. s \in TsxType /\ s.state \in 0..7 /\ st \in 0..5
  BY StateIs, Ranks DEF Good
<1>2. st \in StNull..Destroyed
  BY <1>1, Ranks
<1>3. Good(SetState(s, st))
  BY <1>2, SetStateSafe DEF Safe
<1>4. t.state = st
  BY <1>1 DEF TsxType
<1>5. Tell(t) = t
  BY <1>1, <1>4, Ranks DEF Tell
<1>6. Settle(t, st) = t
  BY <1>1, Ranks DEF Settle
<1>7. SetState(s, st) = t
  BY <1>5, <1>6 DEF SetState
<1>8. Like([s EXCEPT !.state = st], t) /\ t.heard = s.heard /\ t.role = s.role
      /\ t.invite = s.invite /\ t.user = s.user /\ t.terminating = s.terminating
      /\ t.flags = s.flags /\ t.transport = s.transport /\ t.sends = s.sends
      /\ t.lastTx = s.lastTx
  BY <1>1 DEF TsxType, Like, Near, Same
<1> HIDE DEF t
<1>9. Lives(t)
  BY <1>1, <1>4, <1>8, Ranks DEF Lives, Sound, Unresolved, Has
<1> QED
  BY <1>3, <1>4, <1>7, <1>8, <1>9 DEF t

(* to TERMINATED, *)
LEMMA StateTerminated ==
  ASSUME NEW s, Good(s), Sound(s), s.state <= Terminated
  PROVE  LET t == SetState(s, Terminated)
         IN  /\ Fate(s, t) /\ t.state = Terminated /\ t.heard # <<>> /\ t.err = s.err
<1> DEFINE u == [s EXCEPT !.state = Terminated]
           v == Tell(u)
           t == Settle(v, Terminated)
<1>1. s \in TsxType /\ s.state \in 0..6 /\ Terminated \in StNull..Destroyed
  BY StateIs, Ranks DEF Good
<1>2. SetState(s, Terminated) = t
  BY DEF SetState
<1>3. Good(t)
  BY <1>1, <1>2, SetStateSafe DEF Safe
<1>4. u.state = Terminated /\ u.heard = s.heard /\ u.role = s.role
      /\ u.invite = s.invite /\ u.user = s.user /\ u.terminating = s.terminating
      /\ u.flags = s.flags /\ u.transport = s.transport /\ u.sends = s.sends
      /\ u.err = s.err /\ u.registered = s.registered
  BY <1>1 DEF TsxType
<1>5. Good(u)
  <2>1. u \in TsxType
    BY <1>1, StateTyped
  <2> QED
    BY <1>1, <1>4, <2>1 DEF Good, TsxType
<1> HIDE DEF u
<1>6. Sound(u)
  BY <1>1, <1>4, Ranks DEF Sound, Unresolved, Has
<1>7. /\ Good(v) /\ Sound(v) /\ v.heard # <<>> /\ Like([u EXCEPT !.heard = v.heard], v)
      /\ v.heard = s.heard \/ v.heard = Append(s.heard, Terminated)
  <2>1. u.state >= Terminated
    BY <1>4, Ranks
  <2>2. /\ Good(v) /\ Like([u EXCEPT !.heard = v.heard], v)
        /\ v.heard = u.heard \/ v.heard = Append(u.heard, u.state)
        /\ u.user \/ u.heard # <<>> => v.heard # <<>>
        /\ Sound(u) => Sound(v)
    BY <1>5, <2>1, TellTells
  <2> HIDE DEF v
  <2> QED
    BY <1>4, <1>6, <2>2 DEF Sound
<1> HIDE DEF v
<1>8. v.state = Terminated /\ v.role = s.role /\ v.invite = s.invite /\ v.err = s.err
  BY <1>4, <1>5, <1>7 DEF Like, Near, Same, Good, TsxType
<1>9. Sound(t) /\ Same(v, t) /\ t.err = v.err /\ Lives(t)
  BY <1>7, <1>8, SettleTerminated
<1> HIDE DEF t
<1>10. s.state = Terminated \/ Terminated \in Following(s)
  BY <1>1, Ranks DEF Following, Lifecycle!Successors, Lifecycle!Terminated
<1>11. Passes(s, t)
  BY <1>7, <1>8, <1>9, <1>10, Ranks DEF Passes, Same
<1> QED
  BY <1>2, <1>3, <1>7, <1>8, <1>9, <1>11 DEF Fate, Same

(* and to DESTROYED, which the user is told unless it no longer listens.    *)
LEMMA StateDestroyed ==
  ASSUME NEW s, Good(s), Lives(s), s.state >= Terminated, s.state = Destroyed => ~s.user
  PROVE  Fate(s, SetState(s, Destroyed))
<1> DEFINE u == [s EXCEPT !.state = Destroyed]
           v == Tell(u)
           t == Settle(v, Destroyed)
<1>1. s \in TsxType /\ s.state \in {6, 7} /\ Destroyed \in StNull..Destroyed
  BY StateIs, Ranks DEF Good
<1>2. SetState(s, Destroyed) = t
  BY DEF SetState
<1>3. Good(t)
  BY <1>1, <1>2, SetStateSafe DEF Safe
<1>4. u.state = Destroyed /\ u.heard = s.heard /\ u.role = s.role
      /\ u.invite = s.invite /\ u.user = s.user /\ u.terminating = s.terminating
      /\ u.flags = s.flags /\ u.transport = s.transport /\ u.sends = s.sends
      /\ u.registered = s.registered
  BY <1>1 DEF TsxType
<1>5. Good(u)
  <2>1. u \in TsxType
    BY <1>1, StateTyped
  <2> QED
    BY <1>1, <1>4, <2>1 DEF Good, TsxType
<1>6. ~u.user => v = u
  BY DEF Tell
<1> HIDE DEF u
<1>7. Sound(u) /\ s.heard # <<>>
  BY <1>1, <1>4, Ranks DEF Lives, Sound, Unresolved, Has
<1>8. /\ Good(v) /\ Sound(v) /\ v.heard # <<>> /\ Like([u EXCEPT !.heard = v.heard], v)
      /\ v.heard = s.heard \/ v.heard = Append(s.heard, Destroyed)
  <2>1. u.state >= Terminated
    BY <1>4, Ranks
  <2>2. /\ Good(v) /\ Like([u EXCEPT !.heard = v.heard], v)
        /\ v.heard = u.heard \/ v.heard = Append(u.heard, u.state)
        /\ u.user \/ u.heard # <<>> => v.heard # <<>>
        /\ Sound(u) => Sound(v)
    BY <1>5, <2>1, TellTells
  <2> HIDE DEF v
  <2> QED
    BY <1>4, <1>7, <2>2 DEF Sound
<1>9. ~s.user => v.heard = s.heard
  BY <1>4, <1>6
<1> HIDE DEF v
<1>10. v.state = Destroyed /\ v.role = s.role /\ v.invite = s.invite
  BY <1>4, <1>5, <1>8 DEF Like, Near, Same, Good, TsxType
<1>11. Stays(v, t)
  BY <1>8, <1>10, SettleDestroyed
<1> HIDE DEF t
<1>12. s.state = Destroyed \/ Destroyed \in Following(s)
  BY <1>1, Ranks DEF Following, Lifecycle!Successors, Lifecycle!Terminated, Lifecycle!Destroyed
<1>13. Passes(s, t)
  BY <1>7, <1>8, <1>10, <1>11, <1>12 DEF Passes, Same, Stays
<1> QED
  BY <1>2, <1>11, <1>13 DEF Fate, Stays

-----------------------------------------------------------------------------
(* Sending. *)
LEMMA NearTrans ==
  ASSUME NEW s, NEW t, NEW u, Near(s, t), Near(t, u) PROVE Near(s, u)
BY DEF Near, Same

LEMMA PostNear ==
  ASSUME NEW s, Good(s)
  PROVE  Good(PostTransportError(s)) /\ Near(s, PostTransportError(s))
<1> DEFINE t == [s EXCEPT !.err = TRUE]
<1>1. s \in TsxType
  BY DEF Good
<1>2. Near(s, t) /\ t.tm = s.tm /\ t.registered = s.registered
  BY <1>1 DEF TsxType, Near, Same
<1>3. t \in TsxType
  <2>1. TRUE \in BOOLEAN
    OBVIOUS
  <2> QED
    BY <1>1, <2>1, ZenonT(40) DEF TsxType
<1>4. Good(t)
  BY <1>2, <1>3 DEF Good, Near
<1>5. PostTransportError(s) \in {t, Restart(t, TO, TransportErrTimer)}
  BY DEF PostTransportError
<1> HIDE DEF t
<1>6. Near(t, Restart(t, TO, TransportErrTimer))
  BY <1>4, RestartLike DEF Like, Inactive, TransportErrTimer
<1>7. Good(PostTransportError(s))
  BY PostTransportErrorSafe DEF Safe
<1> QED
  BY <1>2, <1>5, <1>6, <1>7, NearTrans

(* The flags that come and go without any consequence for the life cycle. *)
LEMMA RaiseStays ==
  ASSUME NEW s, Good(s), Lives(s), NEW f \in {"PENDING_TRANSPORT", "PENDING_RESCHED", "RESOLVED_SERVER"}
  PROVE  /\ Stays(s, Raise(s, f))
         /\ Raise(s, f).flags = s.flags \cup {f} /\ Raise(s, f).lastTx = s.lastTx
<1>1. s \in TsxType /\ Good(Raise(s, f))
  BY RaiseSafe DEF Safe, Good, Flags
<1>2. LET t == Raise(s, f)
      IN  /\ Same(s, t) /\ t.user = s.user /\ t.terminating = s.terminating
          /\ t.flags = s.flags \cup {f} /\ t.transport = s.transport
          /\ t.sends = s.sends /\ t.lastTx = s.lastTx
  BY <1>1 DEF TsxType, Raise, Same
<1> DEFINE t == Raise(s, f)
<1> HIDE DEF t
<1>3. \A g : Has(s, g) => Has(t, g)
  BY <1>2 DEF Has, t
<1>4. Has(t, "PENDING_DESTROY") => Has(s, "PENDING_DESTROY")
  BY <1>2 DEF Has, t
<1>5. Has(t, "PENDING_SEND") => Has(s, "PENDING_SEND")
  BY <1>2 DEF Has, t
<1>6. Lives(t)
  BY <1>2, <1>3, <1>4, <1>5 DEF Lives, Sound, Unresolved, Same, t
<1> QED
  BY <1>1, <1>2, <1>6 DEF Stays, t

LEMMA LowerStays ==
  ASSUME NEW s, Good(s), Lives(s), NEW F,
         F \subseteq {"PENDING_RESCHED", "PENDING_SEND"}
           \/ (F = {"PENDING_TRANSPORT"} /\ (s.role = "UAC" => Has(s, "RESOLVED_SERVER")))
  PROVE  /\ Stays(s, Lower(s, F))
         /\ Lower(s, F).flags = s.flags \ F /\ Lower(s, F).lastTx = s.lastTx
<1>1. s \in TsxType /\ Good(Lower(s, F))
  BY LowerSafe DEF Safe, Good
<1>2. LET t == Lower(s, F)
      IN  /\ Same(s, t) /\ t.user = s.user /\ t.terminating = s.terminating
          /\ t.flags = s.flags \ F /\ t.transport = s.transport
          /\ t.sends = s.sends /\ t.lastTx = s.lastTx
  BY <1>1 DEF TsxType, Lower, Same
<1> DEFINE t == Lower(s, F)
<1> HIDE DEF t
<1>3. \A g : Has(t, g) => Has(s, g)
  BY <1>2 DEF Has, t
<1>4. Has(s, "RESOLVED_SERVER") => Has(t, "RESOLVED_SERVER")
  BY <1>2 DEF Has, t
<1>5. \/ Has(s, "PENDING_TRANSPORT") => Has(t, "PENDING_TRANSPORT")
      \/ s.role = "UAC" => Has(s, "RESOLVED_SERVER")
  BY <1>2 DEF Has, t
<1>6. Lives(t)
  BY <1>2, <1>3, <1>4, <1>5 DEF Lives, Sound, Unresolved, Same, t
<1> QED
  BY <1>1, <1>2, <1>6 DEF Stays, t

(* A message that goes on its way. *)
LEMMA InFlightStays ==
  ASSUME NEW s, Good(s), Lives(s), NEW k \in {"tp", "sl"}, NEW m \in Msgs,
         k = "tp" => (s.role = "UAC" => Has(s, "RESOLVED_SERVER"))
  PROVE  LET t == InFlight(s, k, m)
         IN  Stays(s, t) /\ t.flags = s.flags /\ t.lastTx = s.lastTx /\ t.err = s.err
<1> DEFINE t == InFlight(s, k, m)
           sends == s.sends \cup {[kind |-> k, msg |-> m]}
<1>1. s \in TsxType /\ Good(t)
  BY InFlightSafe DEF Safe, Good
<1>2. t = [s EXCEPT !.sends = sends, !.ref = s.ref + 1]
  BY <1>1 DEF InFlight, AddRef, TsxType
<1> HIDE DEF sends
<1>3. /\ Same(s, t) /\ t.user = s.user /\ t.terminating = s.terminating
      /\ t.flags = s.flags /\ t.transport = s.transport /\ t.sends = sends
      /\ t.lastTx = s.lastTx /\ t.err = s.err
  BY <1>1, <1>2 DEF TsxType, Same
<1> HIDE DEF t
<1>4. k = "sl" /\ (\A d \in s.sends : d.kind = "sl") => \A d \in sends : d.kind = "sl"
  BY DEF sends
<1>5. Lives(t)
  BY <1>3, <1>4 DEF Lives, Sound, Unresolved, Same, Has
<1> QED
  BY <1>1, <1>3, <1>5 DEF Stays, t

LEMMA StaysRefl == ASSUME NEW s, Good(s), Lives(s) PROVE Stays(s, s)
BY DEF Stays, Same

LEMMA StaysTrans ==
  ASSUME NEW s, NEW t, NEW u, Stays(s, t)
  PROVE  (Stays(t, u) => Stays(s, u)) /\ (Fate(t, u) => Fate(s, u))
BY SamePasses DEF Stays, Fate

LEMMA FateStays ==
  ASSUME NEW s, NEW t, NEW u, Fate(s, t), Stays(t, u)
  PROVE  Fate(s, u)
BY PassesSame DEF Stays, Fate

LEMMA NearStays ==
  ASSUME NEW s, NEW t, Good(t), Lives(s), Near(s, t)
  PROVE  Stays(s, t)
BY NearKeeps DEF Stays

LEMMA AcceptedStays ==
  ASSUME NEW s, Good(s), Lives(s), NEW m \in Msgs
  PROVE  \A o \in Accepted(s, m) : o.ok /\ Stays(s, o.tsx)
<1> DEFINE t == Raise(s, "PENDING_TRANSPORT")
<1>1. Stays(s, s)
  BY StaysRefl
<1>2. CASE s.transport = "up"
  <2>1. s.role = "UAC" => Has(s, "RESOLVED_SERVER")
    BY <1>2 DEF Lives, Sound, Unresolved
  <2>2. Stays(s, t) /\ t.flags = s.flags \cup {"PENDING_TRANSPORT"}
    BY RaiseStays
  <2> HIDE DEF t
  <2>3. t.role = "UAC" => Has(t, "RESOLVED_SERVER")
    BY <2>1, <2>2 DEF Has, Stays, Same
  <2>4. Stays(t, InFlight(t, "tp", m))
    BY <2>2, <2>3, InFlightStays DEF Stays
  <2>5. Stays(s, InFlight(t, "tp", m))
    BY <2>2, <2>4, StaysTrans
  <2>6. Accepted(s, m) = {Ok(s), Ok(InFlight(t, "tp", m))}
    BY <1>2 DEF Accepted, t
  <2> QED
    BY <1>1, <2>5, <2>6 DEF Ok
<1>3. CASE s.transport # "up"
  BY <1>3 DEF Accepted
<1> QED
  BY <1>2, <1>3

LEMMA DroppedStays ==
  ASSUME NEW s, Good(s), Lives(s)
  PROVE  LET t == Dropped(s)
         IN  Stays(s, t) /\ t.flags = s.flags /\ t.lastTx = s.lastTx
<1> DEFINE u == [s EXCEPT !.transport = "none", !.resTp = FALSE]
           t == Dropped(s)
<1>1. s \in TsxType /\ Good(t)
  BY DroppedSafe DEF Safe, Good
<1>2. t \in {s, u}
  BY DEF Dropped
<1>3. /\ Same(s, t) /\ t.user = s.user /\ t.terminating = s.terminating
      /\ t.flags = s.flags /\ t.sends = s.sends /\ t.lastTx = s.lastTx
      /\ t.transport # "up" \/ t.transport = s.transport
  BY <1>1, <1>2, ZenonT(40) DEF TsxType, Same
<1> HIDE DEF t
<1>4. Lives(t)
  BY <1>3 DEF Lives, Sound, Unresolved, Same, Has
<1> QED
  BY <1>1, <1>3, <1>4 DEF Stays, t

LEMMA CodeLike ==
  ASSUME NEW s, Good(s), NEW c \in 0..699
  PROVE  Good([s EXCEPT !.code = c]) /\ Like(s, [s EXCEPT !.code = c])
<1>1. Good([s EXCEPT !.code = c])
  BY SafeRefl, Then, ZenonT(40) DEF Safe
<1>2. Like(s, [s EXCEPT !.code = c])
  BY DEF Good, TsxType, Like, Near, Same
<1> QED
  BY <1>1, <1>2

LEMMA SendResolvedFate ==
  ASSUME NEW s, Good(s), Lives(s), s.state # Destroyed, NEW m \in Msgs
  PROVE  \A o \in SendResolved(s, m) : Fate(s, o.tsx) /\ (o.ok => Stays(s, o.tsx))
<1> DEFINE d == Dropped(s)
           t == [d EXCEPT !.code = TransportError]
<1>1. Stays(s, d)
  BY DroppedStays
<1>2. SendResolved(s, m) = Accepted(s, m) \cup {Fail(SetState(t, Terminated))}
  BY DEF SendResolved
<1> HIDE DEF d
<1>3. Good(t) /\ Like(d, t)
  <2>1. TransportError \in 0..699
    BY DEF TransportError
  <2> QED
    BY <1>1, <2>1, CodeLike, ZenonT(40) DEF Stays
<1> HIDE DEF t
<1>4. Stays(s, t)
  BY <1>1, <1>3, LikeKeeps, SamePasses DEF Stays
<1>5. t.state <= Terminated
  BY <1>4, StateIs, Ranks DEF Stays, Same
<1>6. Fate(s, SetState(t, Terminated))
  BY <1>4, <1>5, StateTerminated, StaysTrans DEF Stays, Lives
<1>7. \A o \in Accepted(s, m) : Stays(s, o.tsx) /\ Fate(s, o.tsx)
  BY AcceptedStays, StaysFate
<1> QED
  BY <1>2, <1>6, <1>7 DEF Fail

(* The transport the message went out on.  It counts as resolved next. *)
LEMMA AdoptTransportKeeps ==
  ASSUME NEW s, Good(s), Lives(s)
  PROVE  \A t \in AdoptTransport(s) :
           /\ Good(t) /\ Same(s, t) /\ t.user = s.user /\ t.terminating = s.terminating
           /\ t.flags = s.flags /\ t.sends = s.sends /\ t.lastTx = s.lastTx
<1> DEFINE Kind == IF s.role = "UAC" THEN BOOLEAN ELSE {s.reliable}
           p == PostTransportError(s)
           up(r) == [s EXCEPT !.transport = "up", !.reliable = r]
           down(r) == [p EXCEPT !.transport = "down", !.reliable = r]
<1>1. s \in TsxType
  BY DEF Good
<1>2. AdoptTransport(s) = (IF s.transport = "none" THEN {} ELSE {s})
         \cup {up(r) : r \in Kind} \cup {down(r) : r \in Kind}
  BY DEF AdoptTransport
<1>3. \A t \in AdoptTransport(s) : Good(t)
  BY AdoptTransportSafe DEF SafeAll, Safe
<1>4. Good(p) /\ Near(s, p) /\ p \in TsxType
  BY PostNear DEF Good
<1> HIDE DEF p, Kind
<1> DEFINE Rest(t) == /\ Same(s, t) /\ t.user = s.user /\ t.terminating = s.terminating
                      /\ t.flags = s.flags /\ t.sends = s.sends /\ t.lastTx = s.lastTx
<1>5. \A r : Rest(up(r))
  BY <1>1 DEF TsxType, Same
<1>6. \A r : Rest(down(r))
  BY <1>4 DEF TsxType, Same, Near
<1>7. Rest(s)
  BY DEF Same
<1> HIDE DEF up, down, Rest
<1>8. \A t \in AdoptTransport(s) : Rest(t)
  BY <1>2, <1>5, <1>6, <1>7
<1> QED
  BY <1>3, <1>8 DEF Rest

(* A message that was put off. *)
LEMMA SendDeferredFate ==
  ASSUME NEW s, Good(s), Lives(s)
  PROVE  \A t \in SendDeferred(s) :
           Fate(s, t) /\ (~Has(s, "PENDING_SEND") \/ s.lastTx = None => Stays(s, t))
<1> DEFINE c == Lower(s, {"PENDING_SEND"})
<1>1. Stays(s, s) /\ Stays(s, c) /\ c.lastTx = s.lastTx
  BY StaysRefl, LowerStays
<1>2. CASE ~Has(s, "PENDING_SEND")
  BY <1>1, <1>2, StaysFate DEF SendDeferred
<1>3. CASE Has(s, "PENDING_SEND") /\ (s.lastTx = None \/ IsPending(s, s.lastTx))
  <2>1. SendDeferred(s) = {c}
    BY <1>3 DEF SendDeferred
  <2> QED
    BY <1>1, <2>1, StaysFate
<1>4. CASE Has(s, "PENDING_SEND") /\ ~(s.lastTx = None \/ IsPending(s, s.lastTx))
  <2>1. s.lastTx \in Msgs /\ s.state # Destroyed
    BY <1>4 DEF Good, TsxType, MaybeMsg, Lives
  <2>2. SendDeferred(s) = {o.tsx : o \in SendResolved(c, s.lastTx)}
    BY <1>4 DEF SendDeferred
  <2> HIDE DEF c
  <2>3. \A o \in SendResolved(c, s.lastTx) : Fate(c, o.tsx)
    BY <1>1, <2>1, SendResolvedFate DEF Stays, Same
  <2>4. \A o \in SendResolved(c, s.lastTx) : Fate(s, o.tsx)
    BY <1>1, <2>3, StaysTrans
  <2> QED
    BY <1>4, <2>2, <2>4
<1> QED
  BY <1>2, <1>3, <1>4

LEMMA ReschedDeferredStays ==
  ASSUME NEW s, Good(s), Lives(s)
  PROVE  Stays(s, ReschedDeferred(s))
<1> DEFINE c == Lower(s, {"PENDING_RESCHED"})
<1>1. Stays(s, s) /\ Stays(s, c)
  BY StaysRefl, LowerStays
<1>2. ReschedDeferred(s) \in {s, c, Schedule(c, RT, RetransmitTimer)}
  BY DEF ReschedDeferred
<1> HIDE DEF c
<1>3. Good(Schedule(c, RT, RetransmitTimer)) /\ Like(c, Schedule(c, RT, RetransmitTimer))
  BY <1>1, Ids, ScheduleLike DEF Stays
<1>4. Stays(s, Schedule(c, RT, RetransmitTimer))
  BY <1>1, <1>3, LikeKeeps, SamePasses DEF Stays
<1> QED
  BY <1>1, <1>2, <1>4

(* send_msg_callback with sent > 0.  When nothing was put off, and nothing  *)
(* waits for the callback, it changes nothing the user can see.             *)
LEMMA DecRefLike ==
  ASSUME NEW s, Good(s)
  PROVE  Good(DecRef(s)) /\ Like(s, DecRef(s))
<1>1. s \in TsxType /\ Good(DecRef(s))
  BY DecRefHeld DEF Good
<1>2. Like(s, DecRef(s))
  BY <1>1 DEF DecRef, TsxType, Like, Near, Same
<1> QED
  BY <1>1, <1>2

LEMMA AddRefLike ==
  ASSUME NEW s, Good(s)
  PROVE  Good(AddRef(s)) /\ Like(s, AddRef(s))
<1>1. s \in TsxType /\ Good(AddRef(s))
  BY AddRefHeld DEF Good
<1>2. Like(s, AddRef(s))
  BY <1>1 DEF AddRef, TsxType, Like, Near, Same
<1> QED
  BY <1>1, <1>2

LEMMA PendingTxLike ==
  ASSUME NEW s, Good(s), NEW m \in MaybeMsg
  PROVE  Good([s EXCEPT !.pendingTx = m]) /\ Like(s, [s EXCEPT !.pendingTx = m])
<1> DEFINE t == [s EXCEPT !.pendingTx = m]
<1>1. s \in TsxType
  BY DEF Good
<1>2. t \in TsxType
  BY <1>1, ZenonT(40) DEF TsxType
<1>3. Like(s, t) /\ t.registered = s.registered
  BY <1>1 DEF TsxType, Like, Near, Same
<1> QED
  BY <1>2, <1>3 DEF Good, Like, Near

Quiet(s) ==
  ~Has(s, "PENDING_DESTROY") /\ (~Has(s, "PENDING_SEND") \/ s.lastTx = None)

LEMMA DeliveredFate ==
  ASSUME NEW s, Good(s), Lives(s)
  PROVE  \A t \in Delivered(s) : Fate(s, t) /\ (Quiet(s) => Stays(s, t))
<1> DEFINE d == DecRef(s)
           b == [d EXCEPT !.pendingTx = None]
           Done(a) == Raise(Lower(a, {"PENDING_TRANSPORT"}), "RESOLVED_SERVER")
           After(a) == IF Has(a, "PENDING_DESTROY")
                         THEN {SetState(a, Destroyed)}
                         ELSE {ReschedDeferred(e) : e \in SendDeferred(a)}
<1>1. Good(d) /\ Like(s, d)
  BY DecRefLike
<1>2. Delivered(s) = UNION {After(Done(a)) : a \in AdoptTransport(b)}
  BY DEF Delivered
<1> HIDE DEF d
<1>3. Good(b) /\ Like(d, b)
  BY <1>1, PendingTxLike DEF MaybeMsg
<1> HIDE DEF b
<1>4. Like(s, b) /\ Lives(b)
  BY <1>1, <1>3, LikeTrans, LikeKeeps
<1>5. ASSUME NEW a \in AdoptTransport(b)
      PROVE  /\ Stays(s, Done(a)) /\ Done(a).lastTx = s.lastTx /\ Done(a).user = s.user
             /\ Done(a).flags = (s.flags \ {"PENDING_TRANSPORT"}) \cup {"RESOLVED_SERVER"}
  <2>1. /\ Good(a) /\ Same(s, a) /\ a.user = s.user /\ a.terminating = s.terminating
        /\ a.flags = s.flags /\ a.sends = s.sends /\ a.lastTx = s.lastTx
    BY <1>3, <1>4, <1>5, AdoptTransportKeeps DEF Like, Near, Same
  <2>2. Good(Lower(a, {"PENDING_TRANSPORT"}))
    BY <2>1, LowerSafe DEF Safe
  <2>3. Good(Done(a))
    BY <2>2, RaiseSafe DEF Safe, Flags
  <2> DEFINE f == (a.flags \ {"PENDING_TRANSPORT"}) \cup {"RESOLVED_SERVER"}
  <2>4. Done(a) = [a EXCEPT !.flags = f]
    BY <2>1, ZenonT(40) DEF Raise, Lower, Good, TsxType
  <2>5. /\ Same(a, Done(a)) /\ Done(a).user = a.user /\ Done(a).terminating = a.terminating
        /\ Done(a).flags = f /\ Done(a).lastTx = a.lastTx
    BY <2>1, <2>4 DEF Good, TsxType, Same
  <2> DEFINE e == Done(a)
  <2> HIDE DEF e
  <2>6. Has(e, "RESOLVED_SERVER") /\ (Has(e, "PENDING_DESTROY") => Has(s, "PENDING_DESTROY"))
    BY <2>1, <2>5 DEF Has, e
  <2>7. Same(s, e) /\ e.user = s.user /\ e.terminating = s.terminating /\ e.lastTx = s.lastTx
    BY <2>1, <2>5 DEF Same, e
  <2>8. Lives(e)
    BY <2>6, <2>7 DEF Lives, Sound, Same
  <2> QED
    BY <2>1, <2>3, <2>5, <2>7, <2>8 DEF Stays, e
<1>6. ASSUME NEW a, Stays(s, a), a.user = s.user, a.lastTx = s.lastTx,
             a.flags = (s.flags \ {"PENDING_TRANSPORT"}) \cup {"RESOLVED_SERVER"}
      PROVE  \A t \in After(a) : Fate(s, t) /\ (Quiet(s) => Stays(s, t))
  <2>1. /\ Has(a, "PENDING_DESTROY") <=> Has(s, "PENDING_DESTROY")
        /\ Has(a, "PENDING_SEND") <=> Has(s, "PENDING_SEND")
    BY <1>6 DEF Has
  <2>2. CASE Has(a, "PENDING_DESTROY")
    <3>1. ~a.user /\ a.state >= Terminated
      BY <1>6, <2>2 DEF Stays, Lives, Sound
    <3>2. Fate(a, SetState(a, Destroyed))
      BY <1>6, <3>1, StateDestroyed DEF Stays
    <3>3. Fate(s, SetState(a, Destroyed))
      BY <1>6, <3>2, StaysTrans
    <3> QED
      BY <2>1, <2>2, <3>3 DEF Quiet
  <2>3. CASE ~Has(a, "PENDING_DESTROY")
    <3>1. ASSUME NEW e \in SendDeferred(a)
          PROVE  Fate(s, ReschedDeferred(e)) /\ (Quiet(s) => Stays(s, ReschedDeferred(e)))
      <4>1. Fate(a, e) /\ (Quiet(s) => Stays(a, e))
        BY <1>6, <2>1, <3>1, SendDeferredFate DEF Stays, Quiet
      <4>2. Stays(e, ReschedDeferred(e))
        BY <4>1, ReschedDeferredStays DEF Fate
      <4>3. Fate(a, ReschedDeferred(e)) /\ (Quiet(s) => Stays(a, ReschedDeferred(e)))
        BY <4>1, <4>2, FateStays, StaysTrans
      <4> QED
        BY <1>6, <4>3, StaysTrans
    <3>2. After(a) = {ReschedDeferred(e) : e \in SendDeferred(a)}
      BY <2>3
    <3> QED
      BY <3>1, <3>2
  <2> QED
    BY <2>2, <2>3
<1> HIDE DEF Done, After
<1>7. \A a \in AdoptTransport(b) : \A t \in After(Done(a)) : Fate(s, t) /\ (Quiet(s) => Stays(s, t))
  BY <1>5, <1>6
<1> QED
  BY <1>2, <1>7

(* send_msg_callback with sent < 0: a live transaction ends with an error,  *)
(* or goes on with the next address.                                        *)
LEMMA GiveUpFate ==
  ASSUME NEW s, Good(s), Lives(s)
  PROVE  LET t == GiveUp(s)
         IN  /\ Fate(s, t)
             /\ s.state < Terminated => t.state = Terminated /\ t.err
<1> DEFINE r == Raise(Lower(s, {"PENDING_TRANSPORT"}), "RESOLVED_SERVER")
           g == [r EXCEPT !.err = TRUE, !.code = TransportError]
           f == (s.flags \ {"PENDING_TRANSPORT"}) \cup {"RESOLVED_SERVER"}
           t == GiveUp(s)
<1>1. s \in TsxType /\ Good(r)
  <2>1. Good(Lower(s, {"PENDING_TRANSPORT"}))
    BY LowerSafe DEF Safe
  <2> QED
    BY <2>1, RaiseSafe DEF Safe, Flags, Good
<1>2. r = [s EXCEPT !.flags = f]
  BY <1>1 DEF Raise, Lower, TsxType
<1>3. t = CASE g.state < Terminated -> SetState(g, Terminated)
             [] g.state >= Terminated /\ Has(g, "PENDING_DESTROY") -> SetState(g, Destroyed)
             [] OTHER -> g
  BY DEF GiveUp
<1>4. /\ Same(s, g) /\ g.user = s.user /\ g.terminating = s.terminating /\ g.flags = f
      /\ g.lastTx = s.lastTx /\ g.err = TRUE
  BY <1>1, <1>2 DEF TsxType, Same
<1>5. Good(g)
  <2>1. TransportError \in 0..699 /\ TRUE \in BOOLEAN
    BY DEF TransportError
  <2> HIDE DEF r
  <2>2. r \in TsxType
    BY <1>1 DEF Good
  <2>3. g \in TsxType
    BY <2>1, <2>2, ZenonT(40) DEF TsxType
  <2> QED
    BY <1>1, <2>2, <2>3 DEF Good, TsxType
<1> HIDE DEF g, r
<1>6. /\ Has(g, "RESOLVED_SERVER")
      /\ Has(g, "PENDING_DESTROY") => Has(s, "PENDING_DESTROY")
  BY <1>4 DEF Has
<1>7. Stays(s, g)
  <2>1. Lives(g)
    BY <1>4, <1>6 DEF Lives, Sound, Same
  <2> QED
    BY <1>4, <1>5, <2>1 DEF Stays
<1>8. g.state \in 0..7 /\ g.state = s.state
  BY <1>4, <1>5, StateIs DEF Same
<1>9. CASE g.state < Terminated
  <2>1. t = SetState(g, Terminated)
    BY <1>3, <1>8, <1>9, Ranks
  <2>2. Fate(g, t) /\ t.state = Terminated /\ t.err = g.err
    BY <1>5, <1>7, <1>8, <1>9, <2>1, StateTerminated, Ranks DEF Stays, Lives
  <2> QED
    BY <1>4, <1>7, <2>2, StaysTrans
<1>10. CASE g.state >= Terminated /\ Has(g, "PENDING_DESTROY")
  <2>1. t = SetState(g, Destroyed)
    BY <1>3, <1>8, <1>10, Ranks
  <2>2. ~g.user
    BY <1>7, <1>10 DEF Stays, Lives, Sound
  <2>3. Fate(g, t)
    BY <1>5, <1>7, <1>10, <2>1, <2>2, StateDestroyed DEF Stays
  <2> QED
    BY <1>7, <1>8, <1>10, <2>3, StaysTrans, Ranks
<1>11. CASE g.state >= Terminated /\ ~Has(g, "PENDING_DESTROY")
  <2>1. t = g
    BY <1>3, <1>8, <1>11, Ranks
  <2> QED
    BY <1>7, <1>8, <1>11, <2>1, StaysFate, Ranks
<1> QED
  BY <1>8, <1>9, <1>10, <1>11, Ranks

LEMMA NextAddressStays ==
  ASSUME NEW s, Good(s), Lives(s), NEW m \in Msgs, s.alt # 0
  PROVE  Stays(s, NextAddress(s, m))
<1> DEFINE f == InFlight(s, "sl", m)
           a == [f EXCEPT !.pendingTx = m, !.alt = f.alt - 1]
<1>1. Stays(s, f)
  BY InFlightStays
<1>2. Good(NextAddress(s, m))
  BY NextAddressSafe DEF Safe
<1>3. f.alt = s.alt
  BY DEF InFlight, AddRef, Good, TsxType
<1>4. NextAddress(s, m) \in {a, Restart(a, TO, TimeoutTimer)}
  BY DEF NextAddress
<1> HIDE DEF f
<1>5. f \in TsxType /\ m \in MaybeMsg /\ f.alt - 1 \in Nat
  BY <1>1, <1>3 DEF Stays, Good, TsxType, MaybeMsg
<1>6. a \in TsxType
  BY <1>5, ZenonT(40) DEF TsxType
<1>7. Like(f, a) /\ a.registered = f.registered
  BY <1>5 DEF TsxType, Like, Near, Same
<1>8. Good(a)
  BY <1>1, <1>6, <1>7 DEF Good, Stays, Like, Near
<1> HIDE DEF a
<1>9. Like(f, NextAddress(s, m))
  BY <1>4, <1>7, <1>8, Ids, RestartLike, LikeTrans
<1> QED
  BY <1>1, <1>2, <1>9, LikeKeeps, SamePasses DEF Stays

LEMMA UndeliveredFate ==
  ASSUME NEW s, Good(s), Lives(s), NEW m \in Msgs
  PROVE  \A t \in Undelivered(s, m) :
           /\ Fate(s, t)
           /\ s.state < Terminated => Stays(s, t) \/ (t.state = Terminated /\ t.err)
<1> DEFINE d == DecRef(s)
           b == [d EXCEPT !.pendingTx = None]
           c == [b EXCEPT !.transport = "none"]
<1>1. Good(d) /\ Like(s, d) /\ d.alt = s.alt
  <2>1. d.alt = s.alt
    BY DEF DecRef, Good, TsxType
  <2> QED
    BY <2>1, DecRefLike
<1>2. Undelivered(s, m) =
        {GiveUp(a) : a \in {b, c}}
          \cup (IF s.alt = 0 \/ Has(s, "PENDING_DESTROY") THEN {}
                ELSE {NextAddress(a, m) : a \in {b, c}})
  BY DEF Undelivered
<1> HIDE DEF d
<1>3. Good(b) /\ Like(d, b)
  BY <1>1, PendingTxLike DEF MaybeMsg
<1>4. b.alt = d.alt
  BY <1>1 DEF Good, TsxType
<1> HIDE DEF b
<1>5. Stays(s, b)
  BY <1>1, <1>3, LikeTrans, LikeKeeps DEF Stays
<1>6. Stays(s, c) /\ c.alt = s.alt
  <2>1. b \in TsxType /\ "none" \in {"none", "up", "down"}
    BY <1>3 DEF Good
  <2>2. c \in TsxType
    BY <2>1, ZenonT(40) DEF TsxType
  <2>3. /\ Same(b, c) /\ c.user = b.user /\ c.terminating = b.terminating
        /\ c.flags = b.flags /\ c.sends = b.sends /\ c.lastTx = b.lastTx
        /\ c.transport = "none" /\ c.alt = b.alt /\ c.registered = b.registered
    BY <2>1 DEF TsxType, Same
  <2> HIDE DEF c
  <2>4. Lives(c)
    BY <1>5, <2>3 DEF Stays, Lives, Sound, Unresolved, Same, Has
  <2>5. Good(c)
    BY <1>3, <2>2, <2>3 DEF Good
  <2> QED
    BY <1>1, <1>4, <1>5, <2>3, <2>4, <2>5, SamePasses DEF Stays
<1> HIDE DEF c
<1>7. \A a \in {b, c} : Stays(s, a) /\ a.alt = s.alt
  BY <1>1, <1>4, <1>5, <1>6
<1>8. \A a \in {b, c} : /\ Fate(s, GiveUp(a))
                        /\ s.state < Terminated => GiveUp(a).state = Terminated /\ GiveUp(a).err
  <2> TAKE a \in {b, c}
  <2>1. Stays(s, a) /\ a.state = s.state
    BY <1>7 DEF Stays, Same
  <2>2. Fate(a, GiveUp(a)) /\ (a.state < Terminated => GiveUp(a).state = Terminated /\ GiveUp(a).err)
    BY <2>1, GiveUpFate DEF Stays
  <2> QED
    BY <2>1, <2>2, StaysTrans
<1>9. ASSUME s.alt # 0 PROVE \A a \in {b, c} : Stays(s, NextAddress(a, m))
  BY <1>7, <1>9, NextAddressStays, StaysTrans DEF Stays
<1> QED
  BY <1>2, <1>8, <1>9, StaysFate

LEMMA SendStatelessFate ==
  ASSUME NEW s, Good(s), Lives(s), s.state < Terminated, NEW m \in Msgs
  PROVE  \A o \in SendStateless(s, m) : Fate(s, o.tsx) /\ (o.ok /\ Quiet(s) => Stays(s, o.tsx))
<1> DEFINE p == [s EXCEPT !.pendingTx = m]
           r == Raise(p, "PENDING_TRANSPORT")
           a == AddRef(r)
           i == InFlight(r, "sl", m)
           inline == Delivered(a) \cup (IF s.resTp THEN {} ELSE Undelivered(a, m))
           n == [a EXCEPT !.pendingTx = None]
<1>1. Good(p) /\ Like(s, p) /\ Stays(s, p)
  <2>1. m \in MaybeMsg
    BY DEF MaybeMsg
  <2>2. Good(p) /\ Like(s, p)
    BY <2>1, PendingTxLike
  <2> QED
    BY <2>2, LikeKeeps DEF Stays
<1>2. SendStateless(s, m) =
        {Ok([a EXCEPT !.sends = @ \cup {[kind |-> "sl", msg |-> m]}])}
          \cup {IF e.state = Terminated /\ e.err THEN Fail(e) ELSE Ok(e) : e \in inline}
          \cup (IF s.resTp THEN {Fail(n)} ELSE {})
  BY DEF SendStateless
<1> HIDE DEF p
<1>3. Stays(p, r) /\ r.flags = p.flags \cup {"PENDING_TRANSPORT"} /\ r.lastTx = p.lastTx
  BY <1>1, RaiseStays DEF Stays
<1>4. Stays(s, r) /\ r.flags = s.flags \cup {"PENDING_TRANSPORT"} /\ r.lastTx = s.lastTx
  BY <1>1, <1>3, StaysTrans DEF Like, Near
<1> HIDE DEF r
<1>5. [a EXCEPT !.sends = @ \cup {[kind |-> "sl", msg |-> m]}] = i
  BY <1>4, ZenonT(40) DEF InFlight, AddRef, Stays, Good, TsxType
<1>6. Stays(s, i)
  BY <1>4, InFlightStays, StaysTrans DEF Stays
<1> HIDE DEF i
<1>7. Good(a) /\ Like(r, a) /\ Stays(s, a)
  <2>1. Good(a) /\ Like(r, a)
    BY <1>4, AddRefLike DEF Stays
  <2> QED
    BY <1>4, <2>1, LikeKeeps, SamePasses DEF Stays
<1> HIDE DEF a
<1>8. Quiet(s) => Quiet(a)
  BY <1>4, <1>7 DEF Quiet, Has, Like, Near
<1>9. Stays(s, n)
  <2>1. Good(n) /\ Like(a, n)
    BY <1>7, PendingTxLike DEF MaybeMsg
  <2> HIDE DEF n
  <2> QED
    BY <1>7, <2>1, LikeKeeps, SamePasses DEF Stays
<1> HIDE DEF n
<1>10. ASSUME NEW e \in inline
       PROVE  Fate(s, e) /\ (Quiet(s) => Stays(s, e) \/ (e.state = Terminated /\ e.err))
  <2>1. CASE e \in Delivered(a)
    <3>1. Fate(a, e) /\ (Quiet(a) => Stays(a, e))
      BY <1>7, <2>1, DeliveredFate DEF Stays
    <3> QED
      BY <1>7, <1>8, <3>1, StaysTrans
  <2>2. CASE e \in Undelivered(a, m)
    <3>1. a.state < Terminated
      BY <1>7 DEF Stays, Same
    <3>2. Fate(a, e) /\ (Stays(a, e) \/ (e.state = Terminated /\ e.err))
      BY <1>7, <2>2, <3>1, UndeliveredFate DEF Stays
    <3> QED
      BY <1>7, <3>2, StaysTrans
  <2> QED
    BY <1>10, <2>1, <2>2
<1> HIDE DEF inline
<1>11. Fate(s, i) /\ Fate(s, n)
  BY <1>6, <1>9, StaysFate
<1>12. ASSUME NEW o \in SendStateless(s, m)
       PROVE  Fate(s, o.tsx) /\ (o.ok /\ Quiet(s) => Stays(s, o.tsx))
  <2>1. CASE o = Ok(i)
    BY <1>6, <1>11, <2>1 DEF Ok
  <2>2. CASE o = Fail(n)
    BY <1>9, <1>11, <2>2 DEF Fail
  <2>3. ASSUME NEW e \in inline, o = IF e.state = Terminated /\ e.err THEN Fail(e) ELSE Ok(e)
        PROVE  Fate(s, o.tsx) /\ (o.ok /\ Quiet(s) => Stays(s, o.tsx))
    <3>1. o.tsx = e /\ (o.ok => ~(e.state = Terminated /\ e.err))
      BY <2>3 DEF Ok, Fail
    <3> QED
      BY <1>10, <2>3, <3>1
  <2> QED
    BY <1>2, <1>5, <1>12, <2>1, <2>2, <2>3
<1> QED
  BY <1>12

(* tsx_send_msg.  When it returns PJ_SUCCESS to a client, or to a server    *)
(* that has nothing saved, the state is what it was.                        *)
LEMMA SendMsgFate ==
  ASSUME NEW s, Good(s), Lives(s), s.state < Terminated, NEW m \in Msgs
  PROVE  \A o \in SendMsg(s, m) :
           /\ Fate(s, o.tsx)
           /\ o.ok /\ (s.role = "UAC" \/ s.lastTx = None) => Stays(s, o.tsx)
<1>1. Stays(s, s) /\ Fate(s, s)
  BY StaysRefl, StaysFate
<1>2. CASE Has(s, "PENDING_TRANSPORT")
  <2> DEFINE t == Raise(s, "PENDING_SEND")
  <2>1. Good(t)
    BY RaiseSafe DEF Safe, Flags
  <2>2. /\ Same(s, t) /\ t.user = s.user /\ t.terminating = s.terminating
        /\ t.flags = s.flags \cup {"PENDING_SEND"} /\ t.transport = s.transport
        /\ t.sends = s.sends /\ t.lastTx = s.lastTx
    BY DEF Good, TsxType, Raise, Same
  <2> HIDE DEF t
  <2>3. /\ Has(t, "PENDING_TRANSPORT")
        /\ Has(t, "PENDING_DESTROY") <=> Has(s, "PENDING_DESTROY")
        /\ Has(t, "RESOLVED_SERVER") <=> Has(s, "RESOLVED_SERVER")
    BY <1>2, <2>2 DEF Has
  <2>4. Lives(t)
    BY <2>2, <2>3 DEF Lives, Sound, Unresolved, Same
  <2>5. Stays(s, t) /\ Fate(s, t)
    BY <2>1, <2>2, <2>4, StaysFate DEF Stays
  <2>6. SendMsg(s, m) = {Ok(t)}
    BY <1>2 DEF SendMsg, t
  <2> QED
    BY <2>5, <2>6 DEF Ok
<1>3. CASE ~Has(s, "PENDING_TRANSPORT") /\ IsPending(s, m)
  BY <1>1, <1>3 DEF SendMsg, Ok
<1>4. CASE Has(s, "RESOLVED_SERVER") /\ ~Has(s, "PENDING_TRANSPORT") /\ ~IsPending(s, m)
  <2>1. SendMsg(s, m) = SendResolved(s, m)
    BY <1>4 DEF SendMsg
  <2>2. s.state # Destroyed
    BY Ranks
  <2> QED
    BY <2>1, <2>2, SendResolvedFate
<1>5. CASE ~Has(s, "RESOLVED_SERVER") /\ ~Has(s, "PENDING_TRANSPORT") /\ ~IsPending(s, m)
  <2> DEFINE d == Dropped(s)
  <2>1. SendMsg(s, m) = Accepted(s, m) \cup SendStateless(d, m)
    BY <1>5 DEF SendMsg
  <2>2. Stays(s, d) /\ d.flags = s.flags /\ d.lastTx = s.lastTx
    BY DroppedStays
  <2> HIDE DEF d
  <2>3. d.state < Terminated
    BY <2>2 DEF Stays, Same
  <2>4. \A o \in SendStateless(d, m) :
          Fate(s, o.tsx) /\ (o.ok /\ Quiet(d) => Stays(s, o.tsx))
    <3>1. \A o \in SendStateless(d, m) :
            Fate(d, o.tsx) /\ (o.ok /\ Quiet(d) => Stays(d, o.tsx))
      BY <2>2, <2>3, SendStatelessFate DEF Stays
    <3> QED
      BY <2>2, <3>1, StaysTrans
  <2>5. s.role = "UAC" \/ s.lastTx = None => Quiet(d)
    <3>1. ~Has(s, "PENDING_DESTROY")
      BY StateIs, Ranks DEF Lives, Sound
    <3>2. s.role = "UAC" => ~Has(s, "PENDING_SEND")
      BY <1>5 DEF Lives, Sound, Unresolved
    <3> QED
      BY <2>2, <3>1, <3>2 DEF Quiet, Has
  <2>6. \A o \in Accepted(s, m) : Stays(s, o.tsx) /\ Fate(s, o.tsx)
    BY AcceptedStays, StaysFate
  <2> QED
    BY <2>1, <2>4, <2>5, <2>6
<1> QED
  BY <1>2, <1>3, <1>4, <1>5

(* The same after steps that keep the state. *)
LEMMA Link ==
  ASSUME NEW s, NEW t, Stays(s, t)
  PROVE  /\ \A e \in {RT, TO} : Stays(s, Cancel(t, e)) /\ Cancel(t, e).flags = t.flags
                                /\ Cancel(t, e).lastTx = t.lastTx
         /\ \A e \in {RT, TO}, i \in Inactive..TransportErrTimer :
              /\ Stays(s, Schedule(t, e, i)) /\ Schedule(t, e, i).lastTx = t.lastTx
              /\ Stays(s, Restart(t, e, i)) /\ Restart(t, e, i).lastTx = t.lastTx
         /\ \A c \in 0..699 : Stays(s, [t EXCEPT !.code = c]) /\ [t EXCEPT !.code = c].lastTx = t.lastTx
         /\ Stays(s, Lower(t, {"PENDING_RESCHED"})) /\ Lower(t, {"PENDING_RESCHED"}).lastTx = t.lastTx
<1>1. Good(t) /\ Lives(t)
  BY DEF Stays
<1>2. ASSUME NEW u, Good(u), Like(t, u) PROVE Stays(s, u) /\ u.flags = t.flags /\ u.lastTx = t.lastTx
  BY <1>2, LikeKeeps, SamePasses DEF Stays, Like, Near
<1>3. \A e \in {RT, TO} : Stays(s, Cancel(t, e)) /\ Cancel(t, e).flags = t.flags
                          /\ Cancel(t, e).lastTx = t.lastTx
  BY <1>1, <1>2, CancelLike
<1>4. \A e \in {RT, TO}, i \in Inactive..TransportErrTimer :
         /\ Stays(s, Schedule(t, e, i)) /\ Schedule(t, e, i).lastTx = t.lastTx
         /\ Stays(s, Restart(t, e, i)) /\ Restart(t, e, i).lastTx = t.lastTx
  BY <1>1, <1>2, ScheduleLike, RestartLike
<1>5. \A c \in 0..699 : Stays(s, [t EXCEPT !.code = c]) /\ [t EXCEPT !.code = c].lastTx = t.lastTx
  BY <1>1, <1>2, CodeLike, ZenonT(40)
<1>6. /\ Stays(s, Lower(t, {"PENDING_RESCHED"}))
      /\ Lower(t, {"PENDING_RESCHED"}).lastTx = t.lastTx
  BY <1>1, LowerStays, StaysTrans
<1> QED
  BY <1>3, <1>4, <1>5, <1>6, ZenonT(40)

LEMMA StartRetransmissionStays ==
  ASSUME NEW s, NEW t, Stays(s, t)
  PROVE  Stays(s, StartRetransmission(t)) /\ StartRetransmission(t).lastTx = t.lastTx
<1>1. Good(t) /\ Lives(t)
  BY DEF Stays
<1>2. Stays(t, Raise(t, "PENDING_RESCHED")) /\ Raise(t, "PENDING_RESCHED").lastTx = t.lastTx
  BY <1>1, RaiseStays
<1>3. Stays(s, Raise(t, "PENDING_RESCHED"))
  BY <1>2, StaysTrans
<1>4. /\ Stays(s, Schedule(t, RT, RetransmitTimer))
      /\ Schedule(t, RT, RetransmitTimer).lastTx = t.lastTx
  <2>1. Good(Schedule(t, RT, RetransmitTimer)) /\ Like(t, Schedule(t, RT, RetransmitTimer))
    BY <1>1, Ids, ScheduleLike
  <2> QED
    BY <1>1, <2>1, LikeKeeps, SamePasses DEF Stays, Like, Near
<1> QED
  BY <1>2, <1>3, <1>4 DEF StartRetransmission

LEMMA RetransmitFate ==
  ASSUME NEW s, Good(s), Lives(s), s.state < Terminated, NEW resched \in BOOLEAN
  PROVE  \A t \in Retransmit(s, resched) : Fate(s, t)
<1> DEFINE t == IF resched THEN StartRetransmission(s) ELSE s
<1>1. Stays(s, s) /\ Fate(s, s)
  BY StaysRefl, StaysFate
<1>2. Stays(s, t)
  BY <1>1, StartRetransmissionStays
<1>3. CASE (resched /\ s.tm[RT].armed) \/ s.lastTx = None
  BY <1>1, <1>3 DEF Retransmit
<1>4. CASE ~((resched /\ s.tm[RT].armed) \/ s.lastTx = None)
  <2>1. s.lastTx \in Msgs
    BY <1>4 DEF Good, TsxType, MaybeMsg
  <2>2. Retransmit(s, resched) = {o.tsx : o \in SendMsg(t, s.lastTx)}
    BY <1>4 DEF Retransmit
  <2> HIDE DEF t
  <2>3. t.state < Terminated
    BY <1>2 DEF Stays, Same
  <2>4. \A o \in SendMsg(t, s.lastTx) : Fate(s, o.tsx)
    BY <1>2, <2>1, <2>3, SendMsgFate, StaysTrans DEF Stays
  <2> QED
    BY <2>2, <2>4
<1> QED
  BY <1>3, <1>4

-----------------------------------------------------------------------------
(* State handlers. *)
LEMMA LastTxStays ==
  ASSUME NEW s, Good(s), Lives(s), s.state < Terminated, NEW m \in MaybeMsg
  PROVE  LET t == [s EXCEPT !.lastTx = m] IN Stays(s, t) /\ t.lastTx = m
<1> DEFINE t == [s EXCEPT !.lastTx = m]
<1>1. Good(t)
  BY SafeRefl, Then, ZenonT(40) DEF Safe
<1>2. /\ Same(s, t) /\ t.user = s.user /\ t.terminating = s.terminating /\ t.lastTx = m
      /\ t.flags = s.flags /\ t.transport = s.transport /\ t.sends = s.sends
  BY DEF Good, TsxType, Same
<1> HIDE DEF t
<1>3. t.state # Destroyed
  BY <1>2, Ranks DEF Same
<1>4. Lives(t)
  BY <1>2, <1>3 DEF Lives, Sound, Unresolved, Same, Has
<1> QED
  BY <1>1, <1>2, <1>4 DEF Stays, t

LEMMA Follows ==
  ASSUME NEW s, s.role \in {"UAC", "UAS"}, s.invite \in BOOLEAN
  PROVE  /\ s.role = "UAC" /\ s.state = StNull => Calling \in Following(s)
         /\ s.role = "UAC" /\ s.state \in {Calling, Proceeding} =>
              {Proceeding, Completed} \subseteq Following(s)
         /\ s.role = "UAS" /\ s.state = StNull => Trying \in Following(s)
         /\ s.role = "UAS" /\ s.state \in {Trying, Proceeding} =>
              {Proceeding, Completed} \subseteq Following(s)
         /\ s.role = "UAS" /\ s.invite /\ s.state = Completed => Confirmed \in Following(s)
         /\ s.state \in 0..5 => Terminated \in Following(s)
         /\ s.state = Terminated => Destroyed \in Following(s)
BY DEF Following, Lifecycle!Successors, Lifecycle!Null, Lifecycle!Calling, Lifecycle!Trying,
  Lifecycle!Proceeding, Lifecycle!Completed, Lifecycle!Confirmed, Lifecycle!Terminated,
  Lifecycle!Destroyed, StNull, Calling, Trying, Proceeding, Completed, Confirmed, Terminated,
  Destroyed

LEMMA FollowsAck ==
  ASSUME NEW s, s.role = "UAS", s.invite, s.state = Completed
  PROVE  Confirmed \in Following(s)
BY Ranks DEF Following, Lifecycle!Successors, Lifecycle!Null, Lifecycle!Calling,
  Lifecycle!Trying, Lifecycle!Proceeding, Lifecycle!Completed, Lifecycle!Confirmed,
  Lifecycle!Terminated, Lifecycle!Destroyed

LEMMA StateFate ==
  ASSUME NEW s, NEW t, Stays(s, t), s.state < Terminated,
         NEW st \in StNull..Confirmed, st \in Following(s)
  PROVE  LET u == SetState(t, st)
         IN  Fate(s, u) /\ u.state = st /\ u.lastTx = t.lastTx
<1> DEFINE u == SetState(t, st)
<1>1. t.state < Terminated /\ Good(t) /\ Lives(t)
  BY DEF Stays, Same
<1>2. /\ Good(u) /\ Lives(u) /\ u.state = st /\ u.role = t.role /\ u.invite = t.invite
      /\ u.heard = t.heard /\ u.lastTx = t.lastTx
  BY <1>1, StateGoesOn
<1> HIDE DEF u
<1>3. st # Destroyed
  BY Ranks
<1>4. Passes(s, u)
  BY <1>2, <1>3 DEF Passes, Stays, Same
<1> QED
  BY <1>2, <1>4 DEF Fate, u

LEMMA EndFate ==
  ASSUME NEW s, NEW t, Stays(s, t), s.state <= Terminated
  PROVE  Fate(s, SetState(t, Terminated))
<1>1. t.state <= Terminated /\ Good(t) /\ Lives(t)
  BY DEF Stays, Same
<1>2. Fate(t, SetState(t, Terminated))
  BY <1>1, StateTerminated DEF Lives
<1> QED
  BY <1>2, StaysTrans

LEMMA LeaveCallingStays ==
  ASSUME NEW s, Good(s), Lives(s), NEW c
  PROVE  Stays(s, LeaveCalling(s, c))
<1> DEFINE r == Lower(Cancel(s, RT), {"PENDING_RESCHED"})
<1>1. Stays(s, s)
  BY StaysRefl
<1>2. Stays(s, Cancel(s, RT))
  BY <1>1, Ids, Link, ZenonT(40)
<1>3. Stays(s, r)
  BY <1>2, Link, ZenonT(40)
<1>4. LeaveCalling(s, c) \in {r, Cancel(r, TO), Schedule(r, RT, RetransmitTimer)}
  BY DEF LeaveCalling
<1> HIDE DEF r
<1>5. Stays(s, Cancel(r, TO)) /\ Stays(s, Schedule(r, RT, RetransmitTimer))
  BY <1>3, Ids, Link, ZenonT(40)
<1> QED
  BY <1>3, <1>4, <1>5

(* A response: what is left to be completed finds the state unchanged. *)
LEMMA OnResponseFate ==
  ASSUME NEW s, Good(s), Lives(s), s.role = "UAC", s.state \in {Calling, Proceeding},
         NEW c \in Msgs
  PROVE  \A o \in OnResponse(s, c) : Fate(s, o.tsx) /\ (o.ok => Stays(s, o.tsx))
<1> DEFINE l == IF s.state = Calling THEN LeaveCalling(s, c) ELSE s
           r == [l EXCEPT !.code = c]
           quiet == Cancel(Cancel(r, RT), TO)
<1>1. Stays(s, l)
  BY LeaveCallingStays, StaysRefl
<1>2. c \in 0..699
  BY CodesAssumption DEF Msgs, Request, Ack
<1>3. \/ OnResponse(s, c) = {Fail(SetState(r, Proceeding))}
      \/ OnResponse(s, c) = {Fail(SetState(Cancel(r, TO), Terminated))}
      \/ OnResponse(s, c) = {Ok(Cancel(r, TO))}
      \/ OnResponse(s, c) = {Ok(quiet)}
      \/ OnResponse(s, c) = SendMsg(quiet, Ack)
  BY DEF OnResponse
<1> HIDE DEF l
<1>4. Stays(s, r)
  BY <1>1, <1>2, Link, ZenonT(40)
<1> HIDE DEF r
<1>5. s.state < Terminated /\ Proceeding \in StNull..Confirmed /\ Proceeding \in Following(s)
  BY Follows, Ranks DEF Good, TsxType
<1>6. Fate(s, SetState(r, Proceeding))
  BY <1>4, <1>5, StateFate
<1>7. Stays(s, Cancel(r, TO)) /\ Stays(s, Cancel(r, RT))
  BY <1>4, Ids, Link, ZenonT(40)
<1>8. Stays(s, quiet)
  BY <1>7, Ids, Link, ZenonT(40)
<1> HIDE DEF quiet
<1>9. Fate(s, SetState(Cancel(r, TO), Terminated))
  BY <1>5, <1>7, EndFate, Ranks
<1>10. \A o \in SendMsg(quiet, Ack) : Fate(s, o.tsx) /\ (o.ok => Stays(s, o.tsx))
  <2>1. quiet.state < Terminated /\ quiet.role = "UAC" /\ Ack \in Msgs
    BY <1>5, <1>8 DEF Stays, Same, Msgs
  <2>2. \A o \in SendMsg(quiet, Ack) : Fate(quiet, o.tsx) /\ (o.ok => Stays(quiet, o.tsx))
    BY <1>8, <2>1, SendMsgFate DEF Stays
  <2> QED
    BY <1>8, <2>2, StaysTrans
<1>11. Fate(s, Cancel(r, TO)) /\ Fate(s, quiet)
  BY <1>7, <1>8, StaysFate
<1> QED
  BY <1>3, <1>6, <1>7, <1>8, <1>9, <1>10, <1>11 DEF Ok, Fail

LEMMA CompleteFate ==
  ASSUME NEW s, Good(s), Lives(s), s.role = "UAC", s.state \in {Calling, Proceeding}, NEW c
  PROVE  Fate(s, Complete(s, c))
<1> DEFINE q == SetState(s, Completed)
           m == IF s.invite THEN Ack ELSE q.lastTx
           a == [q EXCEPT !.lastTx = m]
           b == Schedule(s, TO, TimeoutTimer)
<1>1. Stays(s, s)
  BY StaysRefl
<1>2. s.state < Terminated /\ Completed \in StNull..Confirmed /\ Completed \in Following(s)
  BY Follows, Ranks DEF Good, TsxType
<1>3. Complete(s, c) \in {SetState(Cancel(b, RT), Completed), Restart(a, TO, TimeoutTimer)}
  BY DEF Complete
<1>4. Fate(s, q) /\ q.state = Completed
  BY <1>1, <1>2, StateFate
<1>5. Stays(s, b)
  BY <1>1, Ids, Link, ZenonT(40)
<1> HIDE DEF q, b
<1>6. Stays(s, Cancel(b, RT))
  BY <1>5, Ids, Link, ZenonT(40)
<1>7. Fate(s, SetState(Cancel(b, RT), Completed))
  BY <1>2, <1>6, StateFate
<1>8. m \in MaybeMsg
  BY <1>4 DEF Fate, Good, TsxType, MaybeMsg, Msgs
<1> HIDE DEF m
<1>9. Stays(q, a)
  BY <1>4, <1>8, LastTxStays, Ranks DEF Fate
<1> HIDE DEF a
<1>10. Stays(q, Restart(a, TO, TimeoutTimer))
  BY <1>9, Ids, Link, ZenonT(40)
<1> QED
  BY <1>3, <1>4, <1>7, <1>10, FateStays

LEMMA OnLateResponseFate ==
  ASSUME NEW s, Good(s), Lives(s), NEW c
  PROVE  \A t \in OnLateResponse(s, c) : Fate(s, t)
<1>1. CASE s.state = Completed /\ s.invite /\ c >= 200
  <2>1. OnLateResponse(s, c) = Retransmit(s, FALSE)
    BY <1>1 DEF OnLateResponse
  <2>2. s.state < Terminated
    BY <1>1, Ranks
  <2>3. FALSE \in BOOLEAN
    OBVIOUS
  <2> QED
    BY <2>1, <2>2, <2>3, RetransmitFate
<1>2. CASE ~(s.state = Completed /\ s.invite /\ c >= 200)
  BY <1>2, StaysRefl, StaysFate DEF OnLateResponse
<1> QED
  BY <1>1, <1>2

LEMMA OnRequestFate ==
  ASSUME NEW s, Good(s), Lives(s), s.role = "UAS", NEW m
  PROVE  \A t \in OnRequest(s, m) : Fate(s, t)
<1> DEFINE a == Lower(Cancel(s, RT), {"PENDING_RESCHED"})
<1>1. Stays(s, s) /\ Fate(s, s)
  BY StaysRefl, StaysFate
<1>2. s.role \in {"UAC", "UAS"} /\ s.invite \in BOOLEAN
  BY DEF Good, TsxType
<1>3. CASE s.state = StNull
  <2>1. OnRequest(s, m) = {SetState(s, Trying)}
    BY <1>3 DEF OnRequest, StNull, Proceeding, Completed
  <2>2. Trying \in Following(s) /\ Trying \in StNull..Confirmed /\ s.state < Terminated
    BY <1>2, <1>3, Follows, Ranks
  <2> QED
    BY <1>1, <2>1, <2>2, StateFate
<1>4. CASE s.state = Proceeding /\ s.lastTx # None
  <2>1. OnRequest(s, m) = {o.tsx : o \in SendMsg(s, s.lastTx)}
    BY <1>4 DEF OnRequest, StNull, Proceeding, Completed
  <2>2. s.lastTx \in Msgs /\ s.state < Terminated
    BY <1>4, Ranks DEF Good, TsxType, MaybeMsg
  <2> QED
    BY <2>1, <2>2, SendMsgFate
<1>5. CASE s.state = Completed /\ m = Request
  <2>1. OnRequest(s, m) = Retransmit(s, FALSE)
    BY <1>5 DEF OnRequest, StNull, Proceeding, Completed, Request, Ack
  <2>2. s.state < Terminated
    BY <1>5, Ranks
  <2>3. FALSE \in BOOLEAN
    OBVIOUS
  <2> QED
    BY <2>1, <2>2, <2>3, RetransmitFate
<1>6. CASE s.state = Completed /\ m = Ack /\ s.invite
  <2>1. OnRequest(s, m) = {OnAck(s)}
    BY <1>6 DEF OnRequest, StNull, Proceeding, Completed, Request, Ack
  <2>2. Stays(s, Cancel(s, RT))
    BY <1>1, Ids, Link, ZenonT(40)
  <2>3. Stays(s, a)
    BY <2>2, Link, ZenonT(40)
  <2> HIDE DEF a
  <2>4. Stays(s, Restart(a, TO, TimeoutTimer))
    BY <2>3, Ids, Link, ZenonT(40)
  <2>5. Confirmed \in StNull..Confirmed /\ s.state < Terminated
    BY <1>6, Ranks
  <2>7. Confirmed \in Following(s)
    BY <1>2, <1>6, FollowsAck
  <2>6. OnAck(s) = SetState(Restart(a, TO, TimeoutTimer), Confirmed)
    BY DEF OnAck, a
  <2> QED
    BY <2>1, <2>4, <2>5, <2>6, <2>7, StateFate
<1>7. CASE /\ s.state # StNull /\ ~(s.state = Proceeding /\ s.lastTx # None)
           /\ ~(s.state = Completed /\ m = Request)
           /\ ~(s.state = Completed /\ m = Ack /\ s.invite)
  BY <1>1, <1>7 DEF OnRequest
<1> QED
  BY <1>3, <1>4, <1>5, <1>6, <1>7

LEMMA OnSendRequestFate ==
  ASSUME NEW s, Good(s), Lives(s), s.role = "UAC", s.state = StNull
  PROVE  \A t \in OnSendRequest(s) : Fate(s, t)
<1> DEFINE q == [s EXCEPT !.lastTx = Request]
           r(o) == Restart(o.tsx, TO, TimeoutTimer)
           u(o) == IF r(o).reliable THEN r(o) ELSE StartRetransmission(r(o))
<1>1. s.state < Terminated /\ Calling \in StNull..Confirmed /\ Calling \in Following(s)
  BY Follows, Ranks DEF Good, TsxType
<1>2. Stays(s, q)
  BY <1>1, LastTxStays DEF MaybeMsg, Msgs
<1>3. OnSendRequest(s) =
        {IF o.ok THEN SetState(u(o), Calling) ELSE o.tsx : o \in SendMsg(q, Request)}
  BY DEF OnSendRequest
<1> HIDE DEF q
<1>4. \A o \in SendMsg(q, Request) : Fate(s, o.tsx) /\ (o.ok => Stays(s, o.tsx))
  <2>1. q.role = "UAC" /\ q.state < Terminated /\ Request \in Msgs
    BY <1>1, <1>2 DEF Stays, Same, Msgs
  <2> QED
    BY <1>2, <2>1, SendMsgFate, StaysTrans DEF Stays
<1>5. ASSUME NEW o \in SendMsg(q, Request), o.ok PROVE Fate(s, SetState(u(o), Calling))
  <2>1. Stays(s, o.tsx)
    BY <1>4, <1>5
  <2>2. Stays(s, r(o))
    BY <2>1, Ids, Link, ZenonT(40)
  <2> HIDE DEF r
  <2>3. Stays(s, u(o))
    BY <2>2, StartRetransmissionStays
  <2> HIDE DEF u
  <2> QED
    BY <1>1, <2>3, StateFate
<1> QED
  BY <1>3, <1>4, <1>5

LEMMA AfterProvisionalFate ==
  ASSUME NEW s, Good(s), Lives(s), s.role = "UAS", s.state \in {Trying, Proceeding},
         NEW c \in Codes
  PROVE  Fate(s, AfterProvisional(s, c))
<1> DEFINE l == [s EXCEPT !.lastTx = c]
           p == SetState(l, Proceeding)
<1>1. s.state < Terminated /\ Proceeding \in StNull..Confirmed /\ Proceeding \in Following(s)
  BY Follows, Ranks DEF Good, TsxType
<1>2. Stays(s, l)
  BY <1>1, LastTxStays, CodeRange
<1>3. AfterProvisional(s, c) \in {p, StartRetransmission(Cancel(p, RT))}
  BY DEF AfterProvisional
<1> HIDE DEF l
<1>4. Fate(s, p)
  BY <1>1, <1>2, StateFate
<1> HIDE DEF p
<1>5. Stays(p, p)
  BY <1>4, StaysRefl DEF Fate
<1>6. Stays(p, Cancel(p, RT))
  BY <1>5, Ids, Link, ZenonT(40)
<1>7. Stays(p, StartRetransmission(Cancel(p, RT)))
  BY <1>6, StartRetransmissionStays
<1> QED
  BY <1>3, <1>4, <1>7, FateStays

LEMMA AfterFinalFate ==
  ASSUME NEW s, Good(s), Lives(s), s.role = "UAS", s.state \in {Trying, Proceeding},
         NEW c \in Codes
  PROVE  Fate(s, AfterFinal(s, c))
<1> DEFINE q == Cancel(s, RT)
           retransmits == s.invite /\ (s.code < 300 \/ ~s.reliable)
           r == IF retransmits THEN StartRetransmission(q) ELSE q
           saved == [r EXCEPT !.lastTx = c]
<1>1. s.state < Terminated /\ Completed \in StNull..Confirmed /\ Completed \in Following(s)
  BY Follows, Ranks DEF Good, TsxType
<1>2. Stays(s, q)
  BY StaysRefl, Ids, Link, ZenonT(40)
<1>3. AfterFinal(s, c) \in
        {SetState(q, Terminated), SetState(Restart(saved, TO, TimeoutTimer), Completed)}
  BY DEF AfterFinal
<1> HIDE DEF q, retransmits
<1>4. Stays(s, r)
  BY <1>2, StartRetransmissionStays
<1> HIDE DEF r
<1>5. Stays(s, saved)
  <2>1. r.state < Terminated /\ c \in MaybeMsg
    BY <1>1, <1>4, CodeRange DEF Stays, Same
  <2> QED
    BY <1>4, <2>1, LastTxStays, StaysTrans DEF Stays
<1> HIDE DEF saved
<1>6. Stays(s, Restart(saved, TO, TimeoutTimer))
  BY <1>5, Ids, Link, ZenonT(40)
<1>7. Fate(s, SetState(Restart(saved, TO, TimeoutTimer), Completed))
  BY <1>1, <1>6, StateFate
<1>8. Fate(s, SetState(q, Terminated))
  BY <1>1, <1>2, EndFate, Ranks
<1> QED
  BY <1>3, <1>7, <1>8

LEMMA OnSendResponseFate ==
  ASSUME NEW s, Good(s), Lives(s), s.role = "UAS", s.state \in {Trying, Proceeding},
         NEW c \in Codes, c # s.lastTx
  PROVE  \A t \in OnSendResponse(s, c) : Fate(s, t)
<1> DEFINE k == [s EXCEPT !.code = c]
           d == [s EXCEPT !.code = c, !.lastTx = None]
           e == [k EXCEPT !.lastTx = None]
<1>1. c \in 0..699 /\ c \in Msgs /\ s.state < Terminated
  BY CodeRange, Ranks
<1>2. OnSendResponse(s, c) =
        {CASE ~o.ok -> o.tsx
           [] o.ok /\ o.tsx.code < 200 -> AfterProvisional(o.tsx, c)
           [] OTHER -> AfterFinal(o.tsx, c) : o \in SendMsg(d, c)}
  <2>1. [s EXCEPT !.code = c, !.lastTx = IF @ = c THEN c ELSE None] = d
    BY DEF Good, TsxType
  <2> QED
    BY <2>1 DEF OnSendResponse
<1>3. d = e
  BY DEF Good, TsxType
<1>4. Stays(s, k)
  BY <1>1, StaysRefl, Link, ZenonT(40)
<1> HIDE DEF k
<1>5. Stays(s, e) /\ e.lastTx = None
  <2>1. k.state < Terminated /\ Good(k) /\ Lives(k) /\ None \in MaybeMsg
    BY <1>1, <1>4 DEF Stays, Same, MaybeMsg
  <2> QED
    BY <1>4, <2>1, LastTxStays, StaysTrans
<1> HIDE DEF d, e
<1>6. \A o \in SendMsg(d, c) : Fate(s, o.tsx) /\ (o.ok => Stays(s, o.tsx))
  <2>1. d.state < Terminated
    BY <1>1, <1>3, <1>5 DEF Stays, Same
  <2>2. \A o \in SendMsg(d, c) : Fate(d, o.tsx) /\ (o.ok => Stays(d, o.tsx))
    BY <1>1, <1>3, <1>5, <2>1, SendMsgFate DEF Stays
  <2> QED
    BY <1>3, <1>5, <2>2, StaysTrans
<1>7. ASSUME NEW o \in SendMsg(d, c), o.ok
      PROVE  Fate(s, AfterProvisional(o.tsx, c)) /\ Fate(s, AfterFinal(o.tsx, c))
  <2>1. Stays(s, o.tsx)
    BY <1>6, <1>7
  <2>2. o.tsx.role = "UAS" /\ o.tsx.state \in {Trying, Proceeding}
    BY <2>1 DEF Stays, Same
  <2> QED
    BY <2>1, <2>2, AfterProvisionalFate, AfterFinalFate, StaysTrans DEF Stays
<1> QED
  BY <1>2, <1>6, <1>7

LEMMA OnRetransmitTimerFate ==
  ASSUME NEW s, Good(s), Lives(s)
  PROVE  \A t \in OnRetransmitTimer(s) : Fate(s, t)
<1>1. CASE s.state = Terminated
  <2>1. OnRetransmitTimer(s) = {SetState(s, Destroyed)}
    BY <1>1, Ranks DEF OnRetransmitTimer
  <2>2. Fate(s, SetState(s, Destroyed))
    BY <1>1, StateDestroyed, Ranks
  <2> QED
    BY <2>1, <2>2
<1>2. CASE s.state \in {Calling, Proceeding} \/ (s.state = Completed /\ s.role = "UAS")
  <2>1. OnRetransmitTimer(s) = Retransmit(s, TRUE)
    <3>1. s.state # Terminated
      BY <1>2, Ranks
    <3>2. s.state \in {Calling, Proceeding} => OnRetransmitTimer(s) = Retransmit(s, TRUE)
      BY <3>1, Ranks, Zenon DEF OnRetransmitTimer
    <3>3. s.state = Completed /\ s.role = "UAS" => OnRetransmitTimer(s) = Retransmit(s, TRUE)
      BY <3>1, Zenon DEF OnRetransmitTimer
    <3> QED
      BY <1>2, <3>2, <3>3
  <2>2. s.state < Terminated
    BY <1>2, Ranks
  <2>3. TRUE \in BOOLEAN
    OBVIOUS
  <2> QED
    BY <2>1, <2>2, <2>3, RetransmitFate
<1>3. CASE /\ s.state # Terminated /\ s.state \notin {Calling, Proceeding}
           /\ ~(s.state = Completed /\ s.role = "UAS")
  <2>1. OnRetransmitTimer(s) = {s}
    BY <1>3 DEF OnRetransmitTimer
  <2> QED
    BY <2>1, StaysRefl, StaysFate
<1> QED
  BY <1>1, <1>2, <1>3

(* The end of a state: the user has not been told yet. *)
LEMMA Ended ==
  ASSUME NEW s, NEW q, Stays(s, q), NEW st \in {Terminated, Destroyed}, st \in Following(s),
         NEW t, t = [q EXCEPT !.state = st]
  PROVE  Sound(t) /\ Passes(s, t) /\ t.state = st
<1>1. q \in TsxType /\ Lives(q) /\ Same(s, q)
  BY DEF Stays, Good
<1>2. /\ t.state = st /\ t.role = q.role /\ t.invite = q.invite /\ t.heard = q.heard
      /\ t.user = q.user /\ t.terminating = q.terminating /\ t.flags = q.flags
      /\ t.transport = q.transport /\ t.sends = q.sends
  BY <1>1 DEF TsxType
<1>3. ~(t.state < Terminated) /\ t.state >= Terminated
  BY <1>2, Ranks
<1>4. st = Destroyed => q.heard # <<>>
  <2>1. s.state = Terminated \/ st # Destroyed
    BY Ranks DEF Following, Lifecycle!Successors, Lifecycle!Null, Lifecycle!Calling,
      Lifecycle!Trying, Lifecycle!Proceeding, Lifecycle!Completed, Lifecycle!Confirmed,
      Lifecycle!Terminated, Lifecycle!Destroyed
  <2>2. s.state = Terminated => q.state >= Terminated
    BY <1>1, Ranks DEF Same
  <2> QED
    BY <1>1, <2>1, <2>2 DEF Lives
<1>5. Unresolved(q) => Unresolved(t)
  BY <1>2, <1>3 DEF Unresolved
<1>6. Sound(t)
  BY <1>1, <1>2, <1>3, <1>4, <1>5 DEF Lives, Sound, Has
<1>7. Passes(s, t)
  BY <1>1, <1>2, <1>4 DEF Passes, Same
<1> QED
  BY <1>2, <1>6, <1>7

LEMMA OnTimeoutEnds ==
  ASSUME NEW s, Good(s), Lives(s)
  PROVE  LET t == OnTimeout(s)
         IN  \/ t = s
             \/ /\ t.state \in {Terminated, Destroyed} /\ t.state # s.state
                /\ Good(t) /\ Sound(t) /\ Passes(s, t)
<1> DEFINE q == Lower(Cancel(s, RT), {"PENDING_RESCHED"})
           k == [q EXCEPT !.code = TsxTimeout]
           l == [s EXCEPT !.code = TsxTimeout]
           t == OnTimeout(s)
<1>1. Stays(s, s) /\ TsxTimeout \in 0..699 /\ Good(t)
  BY StaysRefl, OnTimeoutSafe DEF TsxTimeout, Safe
<1>2. Stays(s, Cancel(s, RT))
  BY <1>1, Ids, Link, ZenonT(40)
<1>3. Stays(s, q)
  BY <1>2, Link
<1>4. \/ t = s
      \/ /\ s.state \in 0..5
         /\ t \in {[q EXCEPT !.code = TsxTimeout, !.state = Terminated],
                   [s EXCEPT !.code = TsxTimeout, !.state = Terminated],
                   [s EXCEPT !.state = Terminated]}
      \/ s.state = Terminated /\ t = [s EXCEPT !.state = Destroyed]
  BY Ranks DEF OnTimeout
<1> HIDE DEF q, t
<1>5. Stays(s, k) /\ Stays(s, l)
  BY <1>1, <1>3, Link, ZenonT(40)
<1>6. /\ [q EXCEPT !.code = TsxTimeout, !.state = Terminated] = [k EXCEPT !.state = Terminated]
      /\ [s EXCEPT !.code = TsxTimeout, !.state = Terminated] = [l EXCEPT !.state = Terminated]
  BY <1>1, <1>3 DEF Stays, Good, TsxType
<1> HIDE DEF k, l
<1>7. s.role \in {"UAC", "UAS"} /\ s.invite \in BOOLEAN
  BY DEF Good, TsxType
<1>8. CASE s.state \in 0..5 /\ t \in {[k EXCEPT !.state = Terminated],
                 [l EXCEPT !.state = Terminated], [s EXCEPT !.state = Terminated]}
  <2>1. Terminated \in Following(s)
    BY <1>7, <1>8, Follows
  <2>2. PICK u \in {k, l, s} : t = [u EXCEPT !.state = Terminated]
    BY <1>8
  <2>3. Stays(s, u)
    BY <1>1, <1>5
  <2>4. Sound(t) /\ Passes(s, t) /\ t.state = Terminated
    BY <2>1, <2>2, <2>3, Ended
  <2>5. s.state # Terminated
    BY <1>8, Ranks
  <2> QED
    BY <1>1, <2>4, <2>5 DEF t
<1>9. CASE s.state = Terminated /\ t = [s EXCEPT !.state = Destroyed]
  <2>1. Destroyed \in Following(s)
    BY <1>7, <1>9, Follows
  <2>2. Sound(t) /\ Passes(s, t) /\ t.state = Destroyed
    BY <1>1, <1>9, <2>1, Ended
  <2>3. s.state # Destroyed
    BY <1>9, Ranks
  <2> QED
    BY <1>1, <2>2, <2>3 DEF t
<1> QED
  BY <1>4, <1>6, <1>8, <1>9 DEF t
-----------------------------------------------------------------------------
(* The steps.  A step on what does not matter keeps what the worker knows. *)
LEMMA PlaceStays ==
  ASSUME NEW p, NEW s, NEW t, Same(s, t), Sound(s) => Sound(t), Lives(s) => Lives(t)
  PROVE  Place(p, s) => Place(p, t)
BY DEF Place, Same

LEMMA LivesThere ==
  ASSUME NEW p, NEW s, Lives(s), p.at \notin {"tell", "told", "terr", "terrTell", "final"}
  PROVE  Place(p, s)
BY DEF Place

LEMMA PlaceSound ==
  ASSUME NEW p, NEW s, Place(p, s)
  PROVE  /\ Sound(s)
         /\ p.at \notin {"tell", "told", "terrTell"} => Lives(s)
BY DEF Place, Lives

LEMMA SameIsPassing ==
  ASSUME NEW s, NEW t, Same(s, t), Sound(s)
  PROVE  Passes(s, t)
BY DEF Sound, Same, Passes

(* The same for the timers, the count and what else makes no difference. *)
LEMMA LikeMoves ==
  ASSUME NEW p, NEW s, NEW t, Like(s, t), Place(p, s)
  PROVE  Place(p, t) /\ Passes(s, t)
BY LikeKeeps, PlaceStays, PlaceSound, SameIsPassing

(* What the steps of the worker start from: it is the only one. *)
Step(w) == IInv /\ IInv' /\ Place(pc[w], tsx)

LEMMA Start ==
  ASSUME NEW w \in Workers, Step(w)
  PROVE  Good(tsx) /\ Good(tsx') /\ Sound(tsx) /\ tsx \in TsxType /\ ArgOK(pc[w])
         /\ pc \in [Workers -> [at: Places, arg: Nat]] /\ Place(pc[w], tsx)
         /\ (pc[w].at \notin {"tell", "told", "terrTell"} => Lives(tsx))
BY PlaceSound DEF Step, IInv, Good

LEMMA GoIs ==
  ASSUME NEW w \in Workers, Step(w), NEW at, NEW x, Go(w, at, x)
  PROVE  pc'[w] = [at |-> at, arg |-> x]
BY Start DEF Go

(* The worker has done with what it found, *)
LEMMA Done ==
  ASSUME NEW w \in Workers, Step(w), NEW s, Fate(tsx, s), Return(w, s)
  PROVE  Place(pc'[w], tsx') /\ Passes(tsx, tsx')
<1>1. pc'[w] = Idle /\ tsx' = DecRef(s)
  BY Start DEF Return
<1>2. Like(s, DecRef(s)) /\ Lives(s) /\ Passes(tsx, s)
  BY DecRefLike DEF Fate
<1>3. Lives(DecRef(s)) /\ Passes(tsx, DecRef(s))
  BY <1>2, LikeKeeps, PassesSame
<1> QED
  BY <1>1, <1>3, LivesThere DEF Idle

(* or goes on to a place where it knows no more than this. *)
LEMMA GoesLike ==
  ASSUME NEW w \in Workers, Step(w), Like(tsx, tsx'), Lives(tsx),
         NEW at \in {"timer", "event", "rx"}, NEW x, Go(w, at, x)
  PROVE  Place(pc'[w], tsx') /\ Passes(tsx, tsx')
<1>1. pc'[w] = [at |-> at, arg |-> x]
  BY GoIs
<1>2. Lives(tsx') /\ Passes(tsx, tsx')
  BY LikeKeeps, SameIsPassing DEF Lives
<1> QED
  BY <1>1, <1>2, LivesThere

LEMMA ClearIdLike ==
  ASSUME NEW s, Good(s), NEW e \in {RT, TO},
         NEW t, t = [s EXCEPT !.tm[e].id = Inactive]
  PROVE  Good(t) /\ Like(s, t)
<1>1. Good(t)
  BY ClearIdSafe DEF Safe
<1> DEFINE timers == [s.tm EXCEPT ![e].id = Inactive]
<1>2. s \in TsxType
  BY DEF Good
<1>3. t = [s EXCEPT !.tm = timers]
  BY <1>2 DEF TsxType
<1> HIDE DEF timers
<1>4. Like(s, t)
  BY <1>2, <1>3 DEF TsxType, Like, Near, Same
<1> QED
  BY <1>1, <1>4

LEMMA PopTimerMoves ==
  ASSUME NEW w \in Workers, Step(w), NEW e \in {RT, TO}, PopTimer(w, e)
  PROVE  Place(pc'[w], tsx') /\ Passes(tsx, tsx')
<1> DEFINE timers == [tsx.tm EXCEPT ![e].armed = FALSE]
<1>1. pc[w] = Idle /\ Go(w, "timer", e) /\ tsx' = [tsx EXCEPT !.tm[e].armed = FALSE]
  BY DEF PopTimer
<1>2. tsx' = [tsx EXCEPT !.tm = timers]
  BY <1>1, Start DEF TsxType
<1> HIDE DEF timers
<1>3. Like(tsx, tsx')
  BY <1>2, Start DEF TsxType, Like, Near, Same
<1>4. Lives(tsx)
  BY <1>1, Start DEF Idle
<1> QED
  BY <1>1, <1>3, <1>4, GoesLike

LEMMA StaleTimerMoves ==
  ASSUME NEW w \in Workers, Step(w), StaleTimer(w)
  PROVE  Place(pc'[w], tsx') /\ Passes(tsx, tsx')
<1>1. pc[w].at = "timer" /\ Return(w, tsx)
  BY DEF StaleTimer
<1>2. Fate(tsx, tsx)
  BY <1>1, Start, StaysRefl, StaysFate
<1> QED
  BY <1>1, <1>2, Done

LEMMA TransportErrorTimerMoves ==
  ASSUME NEW w \in Workers, Step(w), TransportErrorTimer(w)
  PROVE  Place(pc'[w], tsx') /\ Passes(tsx, tsx')
<1> DEFINE s == [tsx EXCEPT !.tm[pc[w].arg].id = Inactive]
<1>1. /\ pc[w].at = "timer"
      /\ (tsx.state < Terminated /\ tsx' = s /\ Go(w, "terr", 0)) \/ Return(w, s)
  BY DEF TransportErrorTimer
<1>2. pc[w].arg \in {RT, TO} /\ Lives(tsx)
  BY <1>1, Start DEF ArgOK
<1>3. Good(s) /\ Like(tsx, s)
  BY <1>2, Start, ClearIdLike
<1> HIDE DEF s
<1>4. Stays(tsx, s)
  BY <1>2, <1>3, LikeKeeps DEF Stays
<1>5. CASE tsx.state < Terminated /\ tsx' = s /\ Go(w, "terr", 0)
  <2>1. pc'[w] = [at |-> "terr", arg |-> 0]
    BY <1>5, GoIs
  <2>2. Lives(s) /\ s.state = tsx.state /\ Passes(tsx, s)
    BY <1>4, StaysFate DEF Stays, Same, Fate
  <2>3. s.state <= Terminated
    BY <1>5, <2>2, Start, StateIs, Ranks
  <2> QED
    BY <1>5, <2>1, <2>2, <2>3 DEF Place
<1>6. CASE Return(w, s)
  BY <1>4, <1>6, StaysFate, Done
<1> QED
  BY <1>1, <1>5, <1>6

LEMMA TimerEventMoves ==
  ASSUME NEW w \in Workers, Step(w), TimerEvent(w)
  PROVE  Place(pc'[w], tsx') /\ Passes(tsx, tsx')
<1>1. /\ pc[w].at = "timer" /\ Go(w, "event", pc[w].arg)
      /\ tsx' = [tsx EXCEPT !.tm[pc[w].arg].id = Inactive]
  BY DEF TimerEvent
<1>2. pc[w].arg \in {RT, TO} /\ Lives(tsx)
  BY <1>1, Start DEF ArgOK
<1>3. Like(tsx, tsx')
  BY <1>1, <1>2, Start, ClearIdLike
<1> QED
  BY <1>1, <1>2, <1>3, GoesLike

LEMMA RetransmitEventMoves ==
  ASSUME NEW w \in Workers, Step(w), RetransmitEvent(w)
  PROVE  Place(pc'[w], tsx') /\ Passes(tsx, tsx')
<1>1. pc[w].at = "event" /\ \E s \in OnRetransmitTimer(tsx) : Return(w, s)
  BY DEF RetransmitEvent
<1>2. PICK s \in OnRetransmitTimer(tsx) : Return(w, s)
  BY <1>1
<1>3. Fate(tsx, s)
  BY <1>1, Start, OnRetransmitTimerFate
<1> QED
  BY <1>2, <1>3, Done

LEMMA TimeoutEventMoves ==
  ASSUME NEW w \in Workers, Step(w), TimeoutEvent(w)
  PROVE  Place(pc'[w], tsx') /\ Passes(tsx, tsx')
<1> DEFINE s == OnTimeout(tsx)
<1>1. /\ pc[w].at = "event"
      /\ \/ s.state = tsx.state /\ Return(w, s)
         \/ s.state # tsx.state /\ s.user /\ tsx' = s /\ Go(w, "tell", s.state)
         \/ s.state # tsx.state /\ ~s.user /\ Return(w, Settle(s, s.state))
  BY DEF TimeoutEvent
<1>2. Good(tsx) /\ Lives(tsx)
  BY <1>1, Start
<1>3. \/ s = tsx
      \/ /\ s.state \in {Terminated, Destroyed} /\ s.state # tsx.state
         /\ Good(s) /\ Sound(s) /\ Passes(tsx, s)
  BY <1>2, OnTimeoutEnds
<1> HIDE DEF s
<1>4. CASE s = tsx
  <2>1. Fate(tsx, s)
    BY <1>2, <1>4, StaysRefl, StaysFate
  <2> QED
    BY <1>1, <1>4, <2>1, Done
<1>5. CASE /\ s.state \in {Terminated, Destroyed} /\ s.state # tsx.state
           /\ Good(s) /\ Sound(s) /\ Passes(tsx, s)
  <2>1. CASE tsx' = s /\ Go(w, "tell", s.state)
    <3>1. pc'[w] = [at |-> "tell", arg |-> s.state]
      BY <2>1, GoIs
    <3> QED
      BY <1>5, <2>1, <3>1 DEF Place
  <2>2. CASE ~s.user /\ Return(w, Settle(s, s.state))
    <3>1. s.heard # <<>>
      BY <1>5, <2>2 DEF Sound
    <3>2. Stays(s, Settle(s, s.state))
      <4>1. CASE s.state = Terminated
        BY <1>5, <3>1, <4>1, SettleTerminated DEF Stays
      <4>2. CASE s.state = Destroyed
        BY <1>5, <4>2, SettleDestroyed
      <4> QED
        BY <1>5, <4>1, <4>2
    <3>3. Fate(tsx, Settle(s, s.state))
      BY <1>5, <3>2, PassesSame DEF Fate, Stays
    <3> QED
      BY <2>2, <3>3, Done
  <2> QED
    BY <1>1, <1>5, <2>1, <2>2
<1> QED
  BY <1>3, <1>4, <1>5

(* The user is told: now it knows that the transaction is over. *)
LEMMA TellMoves ==
  ASSUME Good(tsx), Sound(tsx), tsx.state >= Terminated, tsx' = Tell(tsx)
  PROVE  /\ Sound(tsx') /\ tsx'.state = tsx.state /\ tsx'.heard # <<>>
         /\ Passes(tsx, tsx') /\ (tsx.state = Terminated => Lives(tsx'))
<1> DEFINE t == Tell(tsx)
           u == [tsx EXCEPT !.heard = t.heard]
<1>1. /\ Like(u, t) /\ Sound(t) /\ t.heard # <<>>
      /\ t.heard = tsx.heard \/ t.heard = Append(tsx.heard, tsx.state)
  BY TellTells DEF Sound
<1> HIDE DEF t
<1>2. u.state = tsx.state /\ u.role = tsx.role /\ u.invite = tsx.invite
  BY DEF Good, TsxType
<1> HIDE DEF u
<1>3. t.state = tsx.state /\ t.role = tsx.role /\ t.invite = tsx.invite
  BY <1>1, <1>2 DEF Like, Near, Same
<1>4. tsx.state = Terminated \/ tsx.state = Destroyed
  BY StateIs, Ranks
<1>5. Passes(tsx, t)
  BY <1>1, <1>3, <1>4 DEF Passes, Sound
<1>6. tsx.state = Terminated => Lives(t)
  BY <1>1, <1>3, Ranks DEF Lives
<1> QED
  BY <1>1, <1>3, <1>5, <1>6 DEF t

LEMMA TellTimeoutMoves ==
  ASSUME NEW w \in Workers, Step(w), TellTimeout(w)
  PROVE  Place(pc'[w], tsx') /\ Passes(tsx, tsx')
<1>1. pc[w].at = "tell" /\ tsx' = Tell(tsx) /\ Go(w, "told", pc[w].arg)
  BY DEF TellTimeout
<1>2. /\ Good(tsx) /\ Sound(tsx) /\ tsx.state = pc[w].arg
      /\ pc[w].arg \in {Terminated, Destroyed}
  BY <1>1, Start DEF Place, ArgOK
<1>3. tsx.state >= Terminated
  BY <1>2, Ranks
<1>4. Sound(tsx') /\ tsx'.state = pc[w].arg /\ tsx'.heard # <<>> /\ Passes(tsx, tsx')
  BY <1>1, <1>2, <1>3, TellMoves
<1>5. pc'[w] = [at |-> "told", arg |-> pc[w].arg]
  BY <1>1, GoIs
<1> QED
  BY <1>4, <1>5 DEF Place

LEMMA AfterTimeoutMoves ==
  ASSUME NEW w \in Workers, Step(w), AfterTimeout(w)
  PROVE  Place(pc'[w], tsx') /\ Passes(tsx, tsx')
<1> DEFINE t == Settle(tsx, pc[w].arg)
<1>1. pc[w].at = "told" /\ Return(w, t)
  BY DEF AfterTimeout
<1>2. /\ Good(tsx) /\ Sound(tsx) /\ tsx.state = pc[w].arg /\ tsx.heard # <<>>
      /\ pc[w].arg \in {Terminated, Destroyed}
  BY <1>1, Start DEF Place, ArgOK
<1>3. Stays(tsx, t)
  <2>1. CASE tsx.state = Terminated
    BY <1>2, <2>1, SettleTerminated DEF Stays
  <2>2. CASE tsx.state = Destroyed
    BY <1>2, <2>2, SettleDestroyed
  <2> QED
    BY <1>2, <2>1, <2>2
<1> HIDE DEF t
<1> QED
  BY <1>1, <1>3, StaysFate, Done

LEMMA TransportErrorEventMoves ==
  ASSUME NEW w \in Workers, Step(w), TransportErrorEvent(w)
  PROVE  Place(pc'[w], tsx') /\ Passes(tsx, tsx')
<1> DEFINE code == IF tsx.code < 200 THEN TransportError ELSE tsx.code
           q == [tsx EXCEPT !.transport = "none", !.code = code, !.state = Terminated]
           d == Detach(q)
<1>1. pc[w].at = "terr" /\ Go(w, "terrTell", 0)
  BY DEF TransportErrorEvent
<1>2. tsx \in TsxType /\ Good(tsx) /\ Lives(tsx) /\ tsx.state <= Terminated
  BY <1>1, Start DEF Place
<1>3. tsx' = Cancel(d, TO)
  BY <1>2 DEF TransportErrorEvent, TsxType
<1>4. code \in 0..699 /\ Terminated \in StNull..Destroyed
  BY <1>2, Ranks DEF TransportError, TsxType
<1> HIDE DEF code
<1>5. q \in TsxType
  <2>1. "none" \in {"none", "up", "down"}
    OBVIOUS
  <2> QED
    BY <1>2, <1>4, <2>1, ZenonT(40) DEF TsxType
<1>6. /\ q.state = Terminated /\ q.role = tsx.role /\ q.invite = tsx.invite
      /\ q.heard = tsx.heard /\ q.user = tsx.user /\ q.terminating = tsx.terminating
      /\ q.flags = tsx.flags /\ q.transport = "none" /\ q.sends = tsx.sends
      /\ q.registered = tsx.registered
  BY <1>2 DEF TsxType
<1>7. Good(q)
  BY <1>2, <1>5, <1>6 DEF Good
<1> HIDE DEF q
<1>8. q.state >= Terminated /\ q.state # Destroyed /\ ~(q.state < Terminated)
  BY <1>6, Ranks
<1>9. Unresolved(tsx) => Unresolved(q)
  BY <1>6, <1>8 DEF Unresolved
<1>10. Sound(q)
  BY <1>2, <1>6, <1>8, <1>9 DEF Lives, Sound, Has
<1>11. Passes(tsx, q)
  <2>1. tsx.state = Terminated \/ Terminated \in Following(tsx)
    <3>1. tsx.state = Terminated \/ tsx.state \in 0..5
      BY <1>2, StateIs, Ranks
    <3>2. tsx.role \in {"UAC", "UAS"} /\ tsx.invite \in BOOLEAN
      BY <1>2 DEF TsxType
    <3> QED
      BY <3>1, <3>2, Follows
  <2> QED
    BY <1>6, <1>8, <2>1 DEF Passes
<1>12. Good(d) /\ Same(q, d) /\ Sound(d)
  BY <1>7, <1>8, <1>10, DetachKeeps
<1> HIDE DEF d
<1>13. Like(d, tsx')
  BY <1>3, <1>12, Ids, CancelLike
<1>14. Same(d, tsx') /\ Sound(tsx')
  BY <1>12, <1>13, LikeKeeps
<1>15. tsx'.state = Terminated /\ Passes(tsx, tsx')
  BY <1>6, <1>11, <1>12, <1>14, PassesSame DEF Same
<1>16. pc'[w] = [at |-> "terrTell", arg |-> 0]
  BY <1>1, GoIs
<1> QED
  BY <1>14, <1>15, <1>16 DEF Place

LEMMA TellTransportErrorMoves ==
  ASSUME NEW w \in Workers, Step(w), TellTransportError(w)
  PROVE  Place(pc'[w], tsx') /\ Passes(tsx, tsx')
<1>1. pc[w].at = "terrTell" /\ tsx' = Tell(tsx) /\ Go(w, "terrSchedule", 0)
  BY DEF TellTransportError
<1>2. Good(tsx) /\ Sound(tsx) /\ tsx.state = Terminated
  BY <1>1, Start DEF Place
<1>3. tsx.state >= Terminated
  BY <1>2, Ranks
<1>4. Lives(tsx') /\ Passes(tsx, tsx')
  BY <1>1, <1>2, <1>3, TellMoves
<1>5. pc'[w] = [at |-> "terrSchedule", arg |-> 0]
  BY <1>1, GoIs
<1> QED
  BY <1>4, <1>5, LivesThere

LEMMA ScheduleHandlerMoves ==
  ASSUME NEW w \in Workers, Step(w), ScheduleHandler(w)
  PROVE  Place(pc'[w], tsx') /\ Passes(tsx, tsx')
<1> DEFINE t == Schedule(tsx, TO, TimeoutTimer)
<1>1. pc[w].at = "terrSchedule" /\ Return(w, t)
  BY DEF ScheduleHandler
<1>2. Good(tsx) /\ Lives(tsx)
  BY <1>1, Start
<1>3. Stays(tsx, t)
  BY <1>2, StaysRefl, Ids, Link, ZenonT(40)
<1> HIDE DEF t
<1> QED
  BY <1>1, <1>3, StaysFate, Done
-----------------------------------------------------------------------------
(* Reception. *)
LEMMA LookupMoves ==
  ASSUME NEW w \in Workers, Step(w), NEW m \in Msgs, Lookup(w, m)
  PROVE  Place(pc'[w], tsx') /\ Passes(tsx, tsx')
<1>1. pc[w] = Idle /\ tsx' = AddRef(tsx) /\ Go(w, "rx", m)
  BY DEF Lookup
<1>2. Good(tsx) /\ Lives(tsx)
  BY <1>1, Start DEF Idle
<1>3. Like(tsx, tsx')
  BY <1>1, <1>2, AddRefLike
<1> QED
  BY <1>1, <1>2, <1>3, GoesLike

LEMMA RecvResponseMoves ==
  ASSUME NEW w \in Workers, Step(w), RecvResponse(w)
  PROVE  Place(pc'[w], tsx') /\ Passes(tsx, tsx')
<1> DEFINE c == pc[w].arg
<1>1. /\ pc[w].at = "rx" /\ tsx.role = "UAC"
      /\ \/ /\ tsx.state \in {Calling, Proceeding}
            /\ \E o \in OnResponse(tsx, c) :
                 (o.ok /\ tsx' = o.tsx /\ Go(w, "final", c)) \/ Return(w, o.tsx)
         \/ \E s \in OnLateResponse(tsx, c) : Return(w, s)
  BY DEF RecvResponse
<1>2. Good(tsx) /\ Lives(tsx) /\ c \in Msgs
  BY <1>1, Start DEF ArgOK
<1> HIDE DEF c
<1>3. ASSUME NEW s \in OnLateResponse(tsx, c), Return(w, s)
      PROVE  Place(pc'[w], tsx') /\ Passes(tsx, tsx')
  BY <1>2, <1>3, OnLateResponseFate, Done
<1>4. ASSUME tsx.state \in {Calling, Proceeding}, NEW o \in OnResponse(tsx, c)
      PROVE  Fate(tsx, o.tsx) /\ (o.ok => Stays(tsx, o.tsx))
  BY <1>1, <1>2, <1>4, OnResponseFate
<1>5. ASSUME tsx.state \in {Calling, Proceeding}, NEW o \in OnResponse(tsx, c),
             o.ok, tsx' = o.tsx, Go(w, "final", c)
      PROVE  Place(pc'[w], tsx') /\ Passes(tsx, tsx')
  <2>1. Stays(tsx, tsx')
    BY <1>4, <1>5
  <2>2. Lives(tsx') /\ tsx'.role = "UAC" /\ tsx'.state \in {Calling, Proceeding}
    BY <1>1, <1>5, <2>1 DEF Stays, Same
  <2>3. pc'[w] = [at |-> "final", arg |-> c]
    BY <1>5, GoIs
  <2>4. Passes(tsx, tsx')
    BY <2>1, StaysFate DEF Fate
  <2> QED
    BY <2>2, <2>3, <2>4 DEF Place
<1>6. ASSUME tsx.state \in {Calling, Proceeding}, NEW o \in OnResponse(tsx, c),
             Return(w, o.tsx)
      PROVE  Place(pc'[w], tsx') /\ Passes(tsx, tsx')
  BY <1>4, <1>6, Done
<1> QED
  BY <1>1, <1>3, <1>5, <1>6

LEMMA CompleteResponseMoves ==
  ASSUME NEW w \in Workers, Step(w), CompleteResponse(w)
  PROVE  Place(pc'[w], tsx') /\ Passes(tsx, tsx')
<1>1. pc[w].at = "final" /\ Return(w, Complete(tsx, pc[w].arg))
  BY DEF CompleteResponse
<1>2. Good(tsx) /\ Lives(tsx) /\ tsx.role = "UAC" /\ tsx.state \in {Calling, Proceeding}
  BY <1>1, Start DEF Place
<1>3. Fate(tsx, Complete(tsx, pc[w].arg))
  BY <1>2, CompleteFate
<1> QED
  BY <1>1, <1>3, Done

LEMMA RecvRequestMoves ==
  ASSUME NEW w \in Workers, Step(w), RecvRequest(w)
  PROVE  Place(pc'[w], tsx') /\ Passes(tsx, tsx')
<1>1. pc[w].at = "rx" /\ tsx.role = "UAS"
  BY DEF RecvRequest
<1>2. PICK s \in OnRequest(tsx, pc[w].arg) : Return(w, s)
  BY DEF RecvRequest
<1>3. Fate(tsx, s)
  BY <1>1, <1>2, Start, OnRequestFate
<1> QED
  BY <1>2, <1>3, Done

-----------------------------------------------------------------------------
(* Callbacks of a send: one less is in flight. *)
LEMMA SentStays ==
  ASSUME NEW s, Good(s), Lives(s), NEW x, x \in s.sends,
         NEW t, t = [s EXCEPT !.sends = s.sends \ {x}]
  PROVE  Stays(s, t) /\ t.flags = s.flags
<1>1. Good(t) /\ s \in TsxType
  BY DoneHeld DEF Good
<1>2. /\ Same(s, t) /\ t.user = s.user /\ t.terminating = s.terminating /\ t.flags = s.flags
      /\ t.transport = s.transport /\ t.sends = s.sends \ {x} /\ t.lastTx = s.lastTx
  BY <1>1 DEF TsxType, Same
<1>3. Lives(t)
  BY <1>2 DEF Lives, Sound, Unresolved, Same, Has
<1> QED
  BY <1>1, <1>2, <1>3 DEF Stays

LEMMA SendCallbackMoves ==
  ASSUME NEW w \in Workers, Step(w), NEW m \in Msgs, SendCallback(w, m)
  PROVE  Place(pc'[w], tsx') /\ Passes(tsx, tsx')
<1> DEFINE x == [kind |-> "sl", msg |-> m]
           done == [tsx EXCEPT !.sends = tsx.sends \ {x}]
<1>1. /\ x \in tsx.sends /\ pc[w] = Idle
      /\ \/ tsx' = done /\ UNCHANGED pc
         \/ tsx' = done /\ Go(w, "sent", m)
         \/ Return(w, done)
  BY DEF SendCallback
<1> HIDE DEF x
<1>2. Good(tsx) /\ Lives(tsx)
  BY <1>1, Start DEF Idle
<1>3. Stays(tsx, done)
  BY <1>1, <1>2, SentStays
<1> HIDE DEF done
<1>4. Fate(tsx, done) /\ Lives(done) /\ Passes(tsx, done)
  BY <1>3, StaysFate DEF Fate
<1>5. CASE tsx' = done /\ UNCHANGED pc
  <2>1. pc'[w] = Idle
    BY <1>1, <1>5
  <2> QED
    BY <1>4, <1>5, <2>1, LivesThere DEF Idle
<1>6. CASE tsx' = done /\ Go(w, "sent", m)
  <2>1. pc'[w] = [at |-> "sent", arg |-> m]
    BY <1>6, GoIs
  <2> QED
    BY <1>4, <1>6, <2>1, LivesThere
<1>7. CASE Return(w, done)
  BY <1>4, <1>7, Done
<1> QED
  BY <1>1, <1>5, <1>6, <1>7

LEMMA SendCallbackLockedMoves ==
  ASSUME NEW w \in Workers, Step(w), SendCallbackLocked(w)
  PROVE  Place(pc'[w], tsx') /\ Passes(tsx, tsx')
<1>1. /\ pc[w].at = "sent" /\ pc' = [pc EXCEPT ![w] = Idle]
      /\ tsx' \in Delivered(tsx) \/ tsx' \in Undelivered(tsx, pc[w].arg)
  BY DEF SendCallbackLocked
<1>2. Good(tsx) /\ Lives(tsx) /\ pc[w].arg \in Msgs
  BY <1>1, Start DEF ArgOK
<1>3. Fate(tsx, tsx')
  BY <1>1, <1>2, DeliveredFate, UndeliveredFate
<1>4. pc'[w] = Idle
  BY <1>1, Start
<1> QED
  BY <1>3, <1>4, LivesThere DEF Fate, Idle

LEMMA TransportCallbackMoves ==
  ASSUME NEW w \in Workers, Step(w), NEW m \in Msgs, TransportCallback(w, m)
  PROVE  Place(pc'[w], tsx') /\ Passes(tsx, tsx')
<1> DEFINE x == [kind |-> "tp", msg |-> m]
           sent == [tsx EXCEPT !.sends = tsx.sends \ {x}]
           done == Lower(sent, {"PENDING_TRANSPORT"})
<1>1. /\ x \in tsx.sends /\ pc[w] = Idle
      /\ Return(w, done) \/ (tsx' = done /\ Go(w, "failed", 0))
  BY DEF TransportCallback
<1>2. Good(tsx) /\ Lives(tsx)
  BY <1>1, Start DEF Idle
<1>3. tsx.role = "UAC" => Has(tsx, "RESOLVED_SERVER")
  BY <1>1, <1>2 DEF Lives, Sound, Unresolved
<1> HIDE DEF x
<1>4. Stays(tsx, sent) /\ sent.flags = tsx.flags
  BY <1>1, <1>2, SentStays
<1> HIDE DEF sent
<1>5. sent.role = "UAC" => Has(sent, "RESOLVED_SERVER")
  BY <1>3, <1>4 DEF Stays, Same, Has
<1>6. Stays(sent, done)
  BY <1>4, <1>5, LowerStays DEF Stays
<1> HIDE DEF done
<1>7. Fate(tsx, done) /\ Lives(done) /\ Passes(tsx, done)
  BY <1>4, <1>6, StaysTrans, StaysFate DEF Fate
<1>8. CASE tsx' = done /\ Go(w, "failed", 0)
  <2>1. pc'[w] = [at |-> "failed", arg |-> 0]
    BY <1>8, GoIs
  <2> QED
    BY <1>7, <1>8, <2>1, LivesThere
<1>9. CASE Return(w, done)
  BY <1>7, <1>9, Done
<1> QED
  BY <1>1, <1>8, <1>9

LEMMA TransportFailedMoves ==
  ASSUME NEW w \in Workers, Step(w), TransportFailed(w)
  PROVE  Place(pc'[w], tsx') /\ Passes(tsx, tsx')
<1> DEFINE t == PostTransportError(tsx)
<1>1. pc[w].at = "failed" /\ Return(w, t)
  BY DEF TransportFailed
<1>2. Good(tsx) /\ Lives(tsx)
  BY <1>1, Start
<1>3. Stays(tsx, t)
  BY <1>2, PostNear, NearStays
<1> HIDE DEF t
<1> QED
  BY <1>1, <1>3, StaysFate, Done
-----------------------------------------------------------------------------
(* The user, who has not heard of the end yet, finds the transaction alive; *)
(* and what it does leaves the worker with what it knew.                    *)
LEMMA PassesEnds ==
  ASSUME NEW s, NEW t, Good(s), Passes(s, t), s.state < Terminated
  PROVE  t.state <= Terminated
<1>1. s.state \in 0..5
  BY StateIs, Ranks
<1>2. t.state \in 0..5 \/ t.state = 6
  BY <1>1 DEF Passes, Following, Lifecycle!Successors, Lifecycle!Null, Lifecycle!Calling,
    Lifecycle!Trying, Lifecycle!Proceeding, Lifecycle!Completed, Lifecycle!Confirmed,
    Lifecycle!Terminated, Lifecycle!Destroyed
<1> QED
  BY <1>2, Ranks

LEMMA AliveHere ==
  ASSUME NEW w \in Workers, Step(w), LockFree, tsx.state < Terminated
  PROVE  /\ Good(tsx) /\ Lives(tsx)
         /\ pc[w].at \notin {"tell", "told", "terrTell", "final"}
<1>1. tsx.state \notin {Terminated, Destroyed} /\ Good(tsx)
  BY Start, Ranks
<1>2. pc[w].at \notin {"tell", "told"}
  BY <1>1, Start DEF Place, ArgOK
<1>3. pc[w].at # "terrTell"
  BY <1>1, Start DEF Place
<1>4. pc[w].at # "final"
  BY DEF LockFree
<1> QED
  BY <1>1, <1>2, <1>3, <1>4, Start

LEMMA UserFate ==
  ASSUME NEW w \in Workers, Step(w), LockFree, tsx.state < Terminated,
         UNCHANGED pc, Fate(tsx, tsx')
  PROVE  Place(pc'[w], tsx') /\ Passes(tsx, tsx')
<1>1. Lives(tsx') /\ Passes(tsx, tsx') /\ tsx'.state <= Terminated
  BY AliveHere, PassesEnds DEF Fate
<1>2. pc'[w] = pc[w] /\ pc[w].at \notin {"tell", "told", "terrTell", "final"}
  BY AliveHere
<1> QED
  BY <1>1, <1>2 DEF Place

LEMMA UserMoves ==
  ASSUME NEW w, Workers = {w}, Step(w), UserStep
  PROVE  Place(pc'[w], tsx') /\ Passes(tsx, tsx')
<1>1. CASE SendRequest
  <2>1. LockFree /\ UNCHANGED pc /\ tsx.role = "UAC" /\ tsx.state = StNull
        /\ tsx' \in OnSendRequest(tsx)
    BY <1>1 DEF SendRequest
  <2>2. tsx.state < Terminated
    BY <2>1, Ranks
  <2>3. Fate(tsx, tsx')
    BY <2>1, <2>2, AliveHere, OnSendRequestFate
  <2> QED
    BY <2>1, <2>2, <2>3, UserFate
<1>2. ASSUME NEW c \in Codes, SendResponse(c)
      PROVE  Place(pc'[w], tsx') /\ Passes(tsx, tsx')
  <2>1. LockFree /\ UNCHANGED pc /\ tsx.role = "UAS" /\ tsx.state \in {Trying, Proceeding}
        /\ c # tsx.lastTx /\ tsx' \in OnSendResponse(tsx, c)
    BY <1>2 DEF SendResponse
  <2>2. tsx.state < Terminated
    BY <2>1, Ranks
  <2>3. Fate(tsx, tsx')
    BY <2>1, <2>2, AliveHere, OnSendResponseFate
  <2> QED
    BY <2>1, <2>2, <2>3, UserFate
<1>3. ASSUME NEW v \in Workers, NEW c \in Codes, RetransmitNoState(v, c)
      PROVE  Place(pc'[w], tsx') /\ Passes(tsx, tsx')
  <2>1. /\ LockFree /\ UNCHANGED pc /\ pc[w] = Idle /\ tsx.heard = <<>>
        /\ \E o \in SendMsg(tsx, c) : tsx' = o.tsx
    BY <1>3 DEF RetransmitNoState, InUse
  <2>2. Good(tsx) /\ Lives(tsx)
    BY <2>1, Start DEF Idle
  <2>3. tsx.state < Terminated
    BY <2>1, <2>2, StateIs, Ranks DEF Lives
  <2>4. c \in Msgs
    BY CodeRange
  <2>5. Fate(tsx, tsx')
    BY <2>1, <2>2, <2>3, <2>4, SendMsgFate
  <2> QED
    BY <2>1, <2>3, <2>5, UserFate
<1>4. CASE Terminate
  <2> DEFINE q == [tsx EXCEPT !.code = RequestTerminated]
  <2>1. LockFree /\ UNCHANGED pc /\ tsx.state < Terminated /\ tsx' = SetState(q, Terminated)
    BY <1>4 DEF Terminate
  <2>2. RequestTerminated \in 0..699
    BY DEF RequestTerminated
  <2>3. Good(tsx) /\ Lives(tsx) /\ tsx.state <= Terminated
    BY <2>1, AliveHere, StateIs, Ranks
  <2>4. Stays(tsx, q)
    BY <2>2, <2>3, StaysRefl, Link, ZenonT(40)
  <2> HIDE DEF q
  <2>5. Fate(tsx, tsx')
    BY <2>1, <2>3, <2>4, EndFate
  <2> QED
    BY <2>1, <2>5, UserFate
<1>5. CASE StopRetransmit
  <2>1. tsx' = Cancel(tsx, RT) /\ pc' = pc
    BY <1>5 DEF StopRetransmit
  <2>2. Like(tsx, tsx')
    BY <2>1, Start, Ids, CancelLike
  <2> QED
    BY <2>1, <2>2, Start, LikeMoves
<1>6. CASE SetTimeout
  <2>1. tsx' = Restart(tsx, TO, TimeoutTimer) /\ pc' = pc
    BY <1>6 DEF SetTimeout
  <2>2. Like(tsx, tsx')
    BY <2>1, Start, Ids, RestartLike
  <2> QED
    BY <2>1, <2>2, Start, LikeMoves
<1> QED
  BY <1>1, <1>2, <1>3, <1>4, <1>5, <1>6 DEF UserStep
-----------------------------------------------------------------------------
(* The transport and the endpoint. *)
LEMMA TransportDownMoves ==
  ASSUME NEW w \in Workers, Step(w), TransportDown
  PROVE  Place(pc'[w], tsx') /\ Passes(tsx, tsx')
<1> DEFINE q == [tsx EXCEPT !.transport = "down"]
<1>1. tsx' = PostTransportError(q) /\ pc' = pc
  BY DEF TransportDown
<1>2. tsx \in TsxType /\ "down" \in {"none", "up", "down"}
  BY Start
<1>3. q \in TsxType
  BY <1>2, ZenonT(40) DEF TsxType
<1>4. /\ Same(tsx, q) /\ q.user = tsx.user /\ q.terminating = tsx.terminating
      /\ q.flags = tsx.flags /\ q.transport = "down" /\ q.sends = tsx.sends
      /\ q.lastTx = tsx.lastTx /\ q.registered = tsx.registered
  BY <1>2 DEF TsxType, Same
<1>5. Good(q)
  BY <1>3, <1>4, Start DEF Good
<1> HIDE DEF q
<1>6. (Sound(tsx) => Sound(q)) /\ (Lives(tsx) => Lives(q))
  BY <1>4 DEF Lives, Sound, Unresolved, Same, Has
<1>7. Near(q, tsx')
  BY <1>1, <1>5, PostNear
<1>8. Same(q, tsx') /\ (Sound(q) => Sound(tsx')) /\ (Lives(q) => Lives(tsx'))
  BY <1>7, NearKeeps
<1>9. Same(tsx, tsx')
  BY <1>4, <1>8, SamePasses
<1>10. Place(pc[w], tsx) => Place(pc[w], tsx')
  BY <1>6, <1>8, <1>9, PlaceStays
<1> QED
  BY <1>1, <1>9, <1>10, Start, SameIsPassing

LEMMA LayerStopMoves ==
  ASSUME NEW w \in Workers, Step(w), LayerStop
  PROVE  Place(pc'[w], tsx') /\ Passes(tsx, tsx')
<1> DEFINE q == [tsx EXCEPT !.code = TransportError]
           t == IF tsx.state < Terminated THEN SetState(q, Terminated) ELSE tsx
           u == [t EXCEPT !.registered = FALSE, !.loaded = FALSE]
<1>1. pc[w] = Idle /\ pc' = pc /\ tsx' = Shutdown(u)
  BY DEF LayerStop
<1>2. Good(tsx) /\ Lives(tsx)
  BY <1>1, Start DEF Idle
<1>3. TransportError \in 0..699
  BY DEF TransportError
<1>4. Stays(tsx, q)
  BY <1>2, <1>3, StaysRefl, Link, ZenonT(40)
<1> HIDE DEF q
<1>5. Fate(tsx, t) /\ t.state >= Terminated
  <2>1. CASE tsx.state < Terminated
    <3>1. tsx.state <= Terminated
      BY <1>2, <2>1, StateIs, Ranks
    <3>2. q.state <= Terminated /\ Good(q) /\ Sound(q)
      BY <1>4, <3>1 DEF Stays, Same, Lives
    <3>3. SetState(q, Terminated).state = Terminated
      BY <3>2, StateTerminated
    <3>4. Terminated >= Terminated
      BY Ranks
    <3> QED
      BY <1>4, <2>1, <3>1, <3>3, <3>4, EndFate
  <2>2. CASE ~(tsx.state < Terminated)
    BY <1>2, <2>2, StateIs, StaysRefl, StaysFate, Ranks
  <2> QED
    BY <2>1, <2>2
<1> HIDE DEF t
<1>6. t \in TsxType /\ FALSE \in BOOLEAN /\ Good(t) /\ Lives(t)
  BY <1>5 DEF Fate, Good
<1>7. u \in TsxType
  BY <1>6, ZenonT(40) DEF TsxType
<1>8. Like(t, u) /\ ~u.registered
  BY <1>6 DEF TsxType, Like, Near, Same
<1>9. Good(u)
  BY <1>6, <1>7, <1>8 DEF Good, Like, Near
<1> HIDE DEF u
<1>10. Stays(t, u) /\ Sound(u) /\ u.state >= Terminated /\ u.heard # <<>>
  BY <1>5, <1>6, <1>8, <1>9, LikeKeeps DEF Stays, Lives, Same
<1>11. Stays(u, tsx')
  BY <1>1, <1>8, <1>9, <1>10, ShutdownEnds
<1>12. Fate(tsx, tsx')
  BY <1>5, <1>10, <1>11, FateStays
<1> QED
  BY <1>1, <1>12, LivesThere DEF Fate, Idle
-----------------------------------------------------------------------------
LEMMA Moves ==
  ASSUME NEW w, Workers = {w}, Step(w), Next
  PROVE  Place(pc'[w], tsx') /\ Passes(tsx, tsx')
<1> w \in Workers
  OBVIOUS
<1>1. CASE TimerStep(w)
  BY <1>1, PopTimerMoves, StaleTimerMoves, TransportErrorTimerMoves, TimerEventMoves,
     RetransmitEventMoves, TimeoutEventMoves, TellTimeoutMoves, AfterTimeoutMoves,
     TransportErrorEventMoves, TellTransportErrorMoves, ScheduleHandlerMoves
     DEF TimerStep
<1>2. CASE RxStep(w)
  BY <1>2, LookupMoves, RecvResponseMoves, CompleteResponseMoves, RecvRequestMoves DEF RxStep
<1>3. CASE SendStep(w)
  BY <1>3, SendCallbackMoves, TransportCallbackMoves, SendCallbackLockedMoves,
     TransportFailedMoves DEF SendStep
<1>4. CASE UserStep
  BY <1>4, UserMoves
<1>5. CASE TransportDown
  BY <1>5, TransportDownMoves
<1>6. CASE LayerStop
  BY <1>6, LayerStopMoves
<1>7. CASE Over
  BY <1>7, Start, SameIsPassing DEF Over, vars, Same
<1> QED
  BY <1>1, <1>2, <1>3, <1>4, <1>5, <1>6, <1>7 DEF Next

LEMMA InitLInv == Init => LInv
<1> SUFFICES ASSUME Init PROVE LInv
  OBVIOUS
<1>1. PICK k \in Kinds, reliable \in BOOLEAN, handle200 \in BOOLEAN,
           same \in BOOLEAN, alt \in 0..MaxAlt :
        /\ k.role = "UAC" => ~same
        /\ tsx = Created(k, reliable, handle200, same, alt)
  BY DEF Init
<1>2. /\ tsx.terminating = FALSE /\ tsx.user = TRUE /\ tsx.state = 0 /\ tsx.flags = {}
      /\ tsx.sends = {} /\ tsx.role = k.role
      /\ tsx.transport = (IF same THEN "up" ELSE "none")
  BY <1>1, Ranks DEF Created
<1>3. Lives(tsx)
  BY <1>1, <1>2, Ranks DEF Lives, Sound, Unresolved, Has
<1>4. \A w \in Workers : pc[w] = Idle
  BY DEF Init
<1> QED
  BY <1>3, <1>4, LivesThere DEF LInv, Idle

-----------------------------------------------------------------------------
(* When the count is zero the transaction has been shut down. *)
LEMMA Spent ==
  ASSUME IInv, tsx.ref = 0
  PROVE  /\ tsx.terminating /\ ~tsx.registered /\ tsx.sends = {} /\ Busy = {}
         /\ \A e \in {RT, TO} : ~tsx.tm[e].armed
<1>1. IsFiniteSet(Busy) /\ Cardinality(Busy) \in Nat
  BY WorkersAssumption, FS_Subset, FS_CardinalityType DEF Busy
<1>2. /\ Good(tsx) /\ Weight(tsx) \in Nat /\ Cardinality(tsx.sends) \in Nat
      /\ 0 - Weight(tsx) >= Cardinality(Busy)
  BY HeldInt DEF IInv, Held
<1>3. Weight(tsx) = 0 /\ Cardinality(Busy) = 0
  BY <1>1, <1>2
<1>4. /\ Armed(tsx, RT) \in {0, 1} /\ Armed(tsx, TO) \in {0, 1}
      /\ Armed(tsx, RT) = 0 => ~tsx.tm[RT].armed
      /\ Armed(tsx, TO) = 0 => ~tsx.tm[TO].armed
  BY DEF Armed
<1>5. /\ tsx.terminating /\ Armed(tsx, RT) = 0 /\ Armed(tsx, TO) = 0
      /\ Cardinality(tsx.sends) = 0
  BY <1>2, <1>3, <1>4 DEF Weight
<1>6. tsx.sends = {} /\ Busy = {}
  BY <1>1, <1>2, <1>3, <1>5, FS_EmptySet DEF Good
<1> QED
  BY <1>2, <1>4, <1>5, <1>6 DEF Good

LEMMA SpentIsOver ==
  ASSUME IInv, LInv, NEW w \in Workers, tsx.ref = 0
  PROVE  pc[w] = Idle /\ Lives(tsx) /\ tsx.state >= Terminated /\ tsx.heard # <<>>
<1>1. pc[w] = Idle /\ tsx.terminating
  BY Spent DEF Busy
<1>2. Lives(tsx)
  BY <1>1, PlaceSound DEF LInv, Idle
<1> QED
  BY <1>1, <1>2 DEF Lives, Sound

(* Nothing comes after that, but that the transport may be reported down.   *)
LEMMA OnlyTransportDown ==
  ASSUME IInv, tsx.ref = 0, Next
  PROVE  TransportDown \/ UNCHANGED vars
<1>1. /\ ~tsx.registered /\ tsx.sends = {} /\ \A w \in Workers : pc[w] = Idle
      /\ \A e \in {RT, TO} : ~tsx.tm[e].armed
  BY Spent DEF Busy
<1>2. ASSUME NEW w \in Workers PROVE ~TimerStep(w)
  BY <1>1 DEF TimerStep, PopTimer, StaleTimer, TransportErrorTimer, TimerEvent,
    RetransmitEvent, TimeoutEvent, TellTimeout, AfterTimeout, TransportErrorEvent,
    TellTransportError, ScheduleHandler, Idle
<1>3. ASSUME NEW w \in Workers PROVE ~RxStep(w)
  BY <1>1 DEF RxStep, Lookup, RecvResponse, CompleteResponse, RecvRequest, Idle
<1>4. ASSUME NEW w \in Workers PROVE ~SendStep(w)
  BY <1>1 DEF SendStep, SendCallback, TransportCallback, SendCallbackLocked,
    TransportFailed, Idle
<1>5. ~UserStep
  BY <1>1 DEF UserStep, SendRequest, SendResponse, RetransmitNoState, Terminate,
    StopRetransmit, SetTimeout, InUse
<1>6. ~LayerStop
  BY <1>1 DEF LayerStop
<1> QED
  BY <1>2, <1>3, <1>4, <1>5, <1>6 DEF Next, Over

LEMMA SpentStays ==
  ASSUME IInv, LInv, NEW w \in Workers, tsx.ref = 0, Next
  PROVE  Same(tsx, tsx') /\ tsx'.ref = 0
<1>1. tsx \in TsxType /\ tsx.state >= Terminated
  BY SpentIsOver DEF IInv, Good
<1>2. CASE TransportDown
  <2> DEFINE q == [tsx EXCEPT !.transport = "down"]
             e == [q EXCEPT !.err = TRUE]
  <2>1. q.state = tsx.state
    BY <1>1 DEF TsxType
  <2>2. ~(q.state < Completed)
    BY <1>1, <2>1, Ranks DEF TsxType
  <2>3. tsx' = e
    BY <1>2, <2>2 DEF TransportDown, PostTransportError
  <2> QED
    BY <1>1, <2>3 DEF TsxType, Same
<1>3. CASE UNCHANGED vars
  BY <1>3 DEF vars, Same
<1> QED
  BY <1>2, <1>3, OnlyTransportDown

(* So the memory goes last. *)
MemoryLast == tsx.ref = 0 => tsx.state >= Terminated /\ tsx.heard # <<>>

LEMMA LastWord ==
  ASSUME IInv, LInv, NEW w \in Workers PROVE MemoryLast
BY SpentIsOver DEF MemoryLast

LEMMA StutterKeeps ==
  ASSUME NEW w \in Workers, Step(w), UNCHANGED vars
  PROVE  Place(pc'[w], tsx')
BY Start DEF vars

LEMMA NextLInv ==
  ASSUME NEW w, Workers = {w}, IInv, IInv', LInv, [Next]_vars
  PROVE  LInv'
<1>1. w \in Workers /\ Step(w)
  BY DEF LInv, Step
<1>2. Place(pc'[w], tsx')
  BY <1>1, Moves, StutterKeeps
<1> QED
  BY <1>2 DEF LInv

(* The steps of the life cycle. *)
LEMMA LifecycleNames ==
  Lifecycle!Terminated = Terminated /\ Lifecycle!Destroyed = Destroyed
BY Ranks DEF Lifecycle!Terminated, Lifecycle!Destroyed

LEMMA LifecycleStep ==
  ASSUME Passes(tsx, tsx'), MemoryLast', tsx.ref # 0
  PROVE  Lifecycle!Next
<1> DEFINE kind == [role |-> tsx.role, invite |-> tsx.invite]
<1>1. kind' = kind
  BY DEF Passes
<1>2. Lifecycle!Advance
  BY DEF Passes, Following, Lifecycle!Advance
<1>3. Lifecycle!Inform
  BY LifecycleNames DEF Passes, Lifecycle!Inform
<1>4. Lifecycle!GiveBack
  BY LifecycleNames DEF MemoryLast, Lifecycle!GiveBack
<1>5. tsx'.state = Lifecycle!Destroyed \/ tsx'.ref = 0 => tsx'.heard # <<>>
  BY LifecycleNames DEF Passes, MemoryLast
<1> QED
  BY <1>1, <1>2, <1>3, <1>4, <1>5 DEF Lifecycle!Next

LEMMA Implements ==
  ASSUME NEW w, Workers = {w}, IInv, IInv', LInv, MemoryLast', [Next]_vars
  PROVE  [Lifecycle!Next]_Lifecycle!vars
<1>1. w \in Workers /\ Step(w)
  BY DEF LInv, Step
<1>2. CASE UNCHANGED vars
  BY <1>2 DEF vars, Lifecycle!vars
<1>3. CASE Next /\ tsx.ref = 0
  <2>1. Same(tsx, tsx') /\ tsx'.ref = 0
    BY <1>1, <1>3, SpentStays
  <2> QED
    BY <1>3, <2>1 DEF Same, Lifecycle!vars
<1>4. CASE Next /\ tsx.ref # 0
  <2>1. Passes(tsx, tsx')
    BY <1>1, <1>4, Moves
  <2> QED
    BY <1>4, <2>1, LifecycleStep
<1> QED
  BY <1>2, <1>3, <1>4

LEMMA InitImplements ==
  ASSUME Init PROVE Lifecycle!Init
<1>1. PICK k \in Kinds, reliable \in BOOLEAN, handle200 \in BOOLEAN,
           same \in BOOLEAN, alt \in 0..MaxAlt :
        tsx = Created(k, reliable, handle200, same, alt)
  BY DEF Init
<1>2. /\ tsx.role = k.role /\ tsx.invite = k.invite /\ tsx.state = 0 /\ tsx.heard = <<>>
      /\ tsx.ref = 1
  BY <1>1, Ranks DEF Created
<1>3. [role |-> k.role, invite |-> k.invite] = k
  BY KindsAssumption
<1> QED
  BY <1>2, <1>3 DEF Lifecycle!Init, Lifecycle!Null

(* A transaction that one thread polls is a transaction of RFC 3261: it     *)
(* passes its states in their order, whatever timers, errors and            *)
(* retransmissions interfere, its user hears that it is terminated before it*)
(* is destroyed, and its memory goes after that.                            *)
THEOREM LifecycleImplemented ==
  ASSUME NEW CONSTANT w, Workers = {w}
  PROVE  Spec => ImplementsLifecycle
<1>1. IInv /\ LInv => MemoryLast
  BY LastWord
<1>2. LInv /\ IInv /\ IInv' /\ [Next]_vars => LInv'
  BY NextLInv
<1>3. IInv /\ IInv' /\ LInv /\ MemoryLast' /\ [Next]_vars => [Lifecycle!Next]_Lifecycle!vars
  BY Implements
<1>4. Init => LInv
  BY InitLInv
<1>5. Init => Lifecycle!Init
  BY InitImplements
<1>6. Spec => []IInv
  BY Invariance
<1>7. Spec => []LInv
  BY <1>2, <1>4, <1>6, PTL DEF Spec
<1>8. Spec => Lifecycle!Spec
  BY <1>1, <1>3, <1>5, <1>6, <1>7, PTL DEF Spec, Lifecycle!Spec
<1> QED
  BY <1>8 DEF ImplementsLifecycle
-----------------------------------------------------------------------------
(* With one polling thread no reference is kept that nobody gives back.     *)
(* What a step from s to t may do to the count besides: it leaves the worker*)
(* no more.  A server that would answer on a transport of its own loses that*)
(* only at its end (Backed).                                                *)
Even(s, t) ==
  /\ Good(t) /\ Held(t) <= Held(s)
  /\ t.role = s.role /\ t.loaded = s.loaded
  /\ Gone(s) => Gone(t)
  /\ s.alt = 0 => t.alt = 0
  /\ t.resTp => s.resTp /\ (t.transport = "none" => s.transport = "none" \/ Gone(t))

EvenAll(s, T) == \A t \in T : Even(s, t)
EvenOuts(s, O) == \A o \in O : Even(s, o.tsx)

Backed(s) == s.resTp => s.transport # "none" \/ Gone(s)

(* A step that keeps all these. *)
Tally(s, t) ==
  /\ t.ref = s.ref /\ t.tm = s.tm /\ t.sends = s.sends
  /\ t.terminating = s.terminating /\ (t.registered => s.registered)
  /\ t.role = s.role /\ t.loaded = s.loaded /\ t.state = s.state /\ t.alt = s.alt
  /\ t.resTp = s.resTp /\ t.transport = s.transport

(* A chain of steps before the state is set. *)
Par(s, t) == Even(s, t) /\ t.state = s.state /\ t.sends = s.sends /\ t.resTp = s.resTp

LEMMA EvenTrans ==
  ASSUME NEW s, NEW t, NEW u, Good(s), Even(s, t), Even(t, u)
  PROVE  Even(s, u)
<1>1. Held(s) \in Int /\ Held(t) \in Int /\ Held(u) \in Int
  BY HeldInt DEF Even
<1> QED
  BY <1>1 DEF Even

LEMMA EvenBacked ==
  ASSUME NEW s, NEW t, Even(s, t), Backed(s)
  PROVE  Backed(t)
BY DEF Even, Backed

LEMMA EvenAllTrans ==
  ASSUME NEW s, NEW t, NEW T, Good(s), Even(s, t), EvenAll(t, T)
  PROVE  EvenAll(s, T)
BY EvenTrans DEF EvenAll

LEMMA EvenOutsTrans ==
  ASSUME NEW s, NEW t, NEW O, Good(s), Even(s, t), EvenOuts(t, O)
  PROVE  EvenOuts(s, O)
BY EvenTrans DEF EvenOuts

LEMMA ParTrans ==
  ASSUME NEW s, NEW t, NEW u, Good(s), Par(s, t), Par(t, u)
  PROVE  Par(s, u)
BY EvenTrans DEF Par

LEMMA TallyPar ==
  ASSUME NEW s, Good(s), NEW t \in TsxType, Tally(s, t)
  PROVE  Par(s, t)
<1>1. Alike(s, t)
  BY DEF Tally, Alike
<1>2. Good(t) /\ Held(t) = Held(s)
  BY <1>1, Neutral DEF Safe, Held, Weight, Armed, Tally
<1>3. Held(t) <= Held(s)
  BY <1>2, HeldInt
<1> QED
  BY <1>2, <1>3 DEF Par, Even, Tally, Gone

LEMMA ParRefl ==
  ASSUME NEW s, Good(s)
  PROVE  Par(s, s)
BY TallyPar DEF Tally, Good
-----------------------------------------------------------------------------
(* The operators on the record. *)
LEMMA CancelPar ==
  ASSUME NEW s, Good(s), NEW e \in {RT, TO}
  PROVE  Par(s, Cancel(s, e))
<1> DEFINE timers == [s.tm EXCEPT ![e] = [armed |-> FALSE, id |-> Inactive]]
           n == IF s.tm[e].armed THEN s.ref - 1 ELSE s.ref
           t == Cancel(s, e)
<1>1. s \in TsxType /\ s.tm \in Timers /\ s.ref \in Int
  BY DEF Good, TsxType
<1>2. t = [s EXCEPT !.tm = timers, !.ref = n]
  BY <1>1 DEF TsxType, Cancel
<1>3. ~timers[e].armed /\ \A d \in {RT, TO} \ {e} : timers[d] = s.tm[d]
  BY <1>1 DEF timers, Timers
<1>4. n = s.ref - Armed(s, e)
  BY <1>1 DEF Armed
<1>5. Good(t)
  BY CancelSafe DEF Safe
<1> HIDE DEF timers, n
<1>6. /\ t.tm = timers /\ t.ref = n /\ t.sends = s.sends /\ t.terminating = s.terminating
      /\ t.role = s.role /\ t.loaded = s.loaded /\ t.state = s.state /\ t.alt = s.alt
      /\ t.resTp = s.resTp /\ t.transport = s.transport
  BY <1>1, <1>2 DEF TsxType
<1> HIDE DEF t
<1>7. Armed(t, e) = 0 /\ \A d \in {RT, TO} \ {e} : Armed(t, d) = Armed(s, d)
  BY <1>3, <1>6 DEF Armed
<1>8. Armed(s, RT) \in Int /\ Armed(s, TO) \in Int /\ Cardinality(s.sends) \in Int
  BY HeldInt DEF Armed
<1>9. Held(t) <= Held(s)
  BY <1>1, <1>4, <1>6, <1>7, <1>8 DEF Held, Weight, RT, TO
<1> QED
  BY <1>5, <1>6, <1>9 DEF Par, Even, Gone, t

LEMMA SchedulePar ==
  ASSUME NEW s, Good(s), NEW e \in {RT, TO}, NEW i \in Inactive..TransportErrTimer
  PROVE  Par(s, Schedule(s, e, i))
<1> DEFINE timers == [s.tm EXCEPT ![e] = [armed |-> TRUE, id |-> i]]
           t == Schedule(s, e, i)
<1>1. s \in TsxType /\ s.tm \in Timers /\ s.ref \in Int
  BY DEF Good, TsxType
<1>2. CASE s.tm[e].armed
  BY <1>2, ParRefl DEF Schedule
<1>3. CASE ~s.tm[e].armed
  <2>1. t = [s EXCEPT !.tm = timers, !.ref = s.ref + 1]
    BY <1>1, <1>3 DEF TsxType, Schedule
  <2>2. timers[e].armed /\ \A d \in {RT, TO} \ {e} : timers[d] = s.tm[d]
    BY <1>1 DEF timers, Timers
  <2>3. Good(t)
    BY ScheduleSafe DEF Safe
  <2> HIDE DEF timers
  <2>4. /\ t.tm = timers /\ t.ref = s.ref + 1 /\ t.sends = s.sends
        /\ t.terminating = s.terminating /\ t.role = s.role /\ t.loaded = s.loaded
        /\ t.state = s.state /\ t.alt = s.alt /\ t.resTp = s.resTp /\ t.transport = s.transport
    BY <1>1, <2>1 DEF TsxType
  <2> HIDE DEF t
  <2>5. /\ Armed(t, e) = 1 /\ Armed(s, e) = 0
        /\ \A d \in {RT, TO} \ {e} : Armed(t, d) = Armed(s, d)
    BY <1>3, <2>2, <2>4 DEF Armed
  <2>6. Armed(s, RT) \in Int /\ Armed(s, TO) \in Int /\ Cardinality(s.sends) \in Int
    BY HeldInt DEF Armed
  <2>7. Held(t) <= Held(s)
    BY <1>1, <2>4, <2>5, <2>6 DEF Held, Weight, RT, TO
  <2> QED
    BY <2>3, <2>4, <2>7 DEF Par, Even, Gone, t
<1> QED
  BY <1>2, <1>3

LEMMA RestartPar ==
  ASSUME NEW s, Good(s), NEW e \in {RT, TO}, NEW i \in Inactive..TransportErrTimer
  PROVE  Par(s, Restart(s, e, i))
<1>1. Par(s, Cancel(s, e)) /\ Good(Cancel(s, e))
  BY CancelPar DEF Par, Even
<1>2. Par(Cancel(s, e), Restart(s, e, i))
  BY <1>1, SchedulePar DEF Restart
<1> QED
  BY <1>1, <1>2, ParTrans

LEMMA RaisePar ==
  ASSUME NEW s, Good(s), NEW f \in Flags
  PROVE  Par(s, Raise(s, f))
<1>1. Raise(s, f) \in TsxType /\ s \in TsxType
  BY RaiseSafe DEF Safe, Good
<1>2. Tally(s, Raise(s, f))
  BY <1>1 DEF TsxType, Raise, Tally
<1> QED
  BY <1>1, <1>2, TallyPar

LEMMA LowerPar ==
  ASSUME NEW s, Good(s), NEW F
  PROVE  Par(s, Lower(s, F))
<1>1. Lower(s, F) \in TsxType /\ s \in TsxType
  BY LowerSafe DEF Safe, Good
<1>2. Tally(s, Lower(s, F))
  BY <1>1 DEF TsxType, Lower, Tally
<1> QED
  BY <1>1, <1>2, TallyPar

LEMMA FieldsPar ==
  ASSUME NEW s, Good(s)
  PROVE  /\ \A c \in 0..699 : Par(s, [s EXCEPT !.code = c])
         /\ \A m \in MaybeMsg : Par(s, [s EXCEPT !.lastTx = m])
         /\ \A m \in MaybeMsg : Par(s, [s EXCEPT !.pendingTx = m])
         /\ \A b \in BOOLEAN : Par(s, [s EXCEPT !.err = b])
         /\ Par(s, [s EXCEPT !.registered = FALSE])
<1>1. s \in TsxType
  BY DEF Good
<1>2. ASSUME NEW c \in 0..699 PROVE Par(s, [s EXCEPT !.code = c])
  <2>1. [s EXCEPT !.code = c] \in TsxType
    BY <1>1, ZenonT(40) DEF TsxType
  <2>2. Tally(s, [s EXCEPT !.code = c])
    BY <1>1 DEF TsxType, Tally
  <2> QED
    BY <2>1, <2>2, TallyPar
<1>3. ASSUME NEW m \in MaybeMsg PROVE Par(s, [s EXCEPT !.lastTx = m])
  <2>1. [s EXCEPT !.lastTx = m] \in TsxType
    BY <1>1, ZenonT(40) DEF TsxType
  <2>2. Tally(s, [s EXCEPT !.lastTx = m])
    BY <1>1 DEF TsxType, Tally
  <2> QED
    BY <2>1, <2>2, TallyPar
<1>4. ASSUME NEW m \in MaybeMsg PROVE Par(s, [s EXCEPT !.pendingTx = m])
  <2>1. [s EXCEPT !.pendingTx = m] \in TsxType
    BY <1>1, ZenonT(40) DEF TsxType
  <2>2. Tally(s, [s EXCEPT !.pendingTx = m])
    BY <1>1 DEF TsxType, Tally
  <2> QED
    BY <2>1, <2>2, TallyPar
<1>5. ASSUME NEW b \in BOOLEAN PROVE Par(s, [s EXCEPT !.err = b])
  <2>1. [s EXCEPT !.err = b] \in TsxType
    BY <1>1, ZenonT(40) DEF TsxType
  <2>2. Tally(s, [s EXCEPT !.err = b])
    BY <1>1 DEF TsxType, Tally
  <2> QED
    BY <2>1, <2>2, TallyPar
<1>6. Par(s, [s EXCEPT !.registered = FALSE])
  <2>1. FALSE \in BOOLEAN
    OBVIOUS
  <2>2. [s EXCEPT !.registered = FALSE] \in TsxType
    BY <1>1, <2>1, ZenonT(40) DEF TsxType
  <2>3. Tally(s, [s EXCEPT !.registered = FALSE])
    BY <1>1 DEF TsxType, Tally
  <2> QED
    BY <2>2, <2>3, TallyPar
<1> QED
  BY <1>2, <1>3, <1>4, <1>5, <1>6, ZenonT(40)

LEMMA StartRetransmissionPar ==
  ASSUME NEW s, Good(s)
  PROVE  Par(s, StartRetransmission(s))
BY Ids, RaisePar, SchedulePar DEF StartRetransmission, Flags

LEMMA TellPar ==
  ASSUME NEW s, Good(s)
  PROVE  Par(s, Tell(s))
<1>1. s \in TsxType /\ Tell(s) \in TsxType
  BY TellSafe DEF Safe, Good
<1>2. Tally(s, Tell(s))
  BY <1>1 DEF TsxType, Tell, Tally
<1> QED
  BY <1>1, <1>2, TallyPar

LEMMA DetachPar ==
  ASSUME NEW s, Good(s)
  PROVE  Par(s, Detach(s))
<1> DEFINE t == [s EXCEPT !.pendingTx = None]
<1>1. Par(s, t)
  BY FieldsPar, ZenonT(40) DEF MaybeMsg
<1> HIDE DEF t
<1>2. Par(t, Lower(t, {"PENDING_TRANSPORT"}))
  BY <1>1, LowerPar DEF Par, Even
<1>3. Par(s, Lower(t, {"PENDING_TRANSPORT"}))
  BY <1>1, <1>2, ParTrans
<1> QED
  BY <1>3, ParRefl DEF Detach, t
-----------------------------------------------------------------------------
(* State changes. *)
Level(s, t) ==
  /\ t.ref = s.ref /\ t.tm = s.tm /\ t.sends = s.sends
  /\ t.terminating = s.terminating /\ (t.registered => s.registered)
  /\ t.role = s.role /\ t.loaded = s.loaded
  /\ Gone(s) => Gone(t)
  /\ s.alt = 0 => t.alt = 0
  /\ t.resTp => s.resTp /\ (t.transport = "none" => s.transport = "none" \/ Gone(t))

LEMMA LevelEven ==
  ASSUME NEW s, Good(s), NEW t \in TsxType, Level(s, t)
  PROVE  Even(s, t)
<1>1. Alike(s, t)
  BY DEF Level, Alike
<1>2. Good(t) /\ Held(t) = Held(s)
  BY <1>1, Neutral DEF Safe, Held, Weight, Armed, Level
<1>3. Held(t) <= Held(s)
  BY <1>2, HeldInt
<1> QED
  BY <1>2, <1>3 DEF Even, Level

LEMMA EvenRefl ==
  ASSUME NEW s, Good(s)
  PROVE  Even(s, s)
BY ParRefl DEF Par

(* One more link of a chain. *)
LEMMA AlongPar ==
  ASSUME NEW s, Good(s), NEW t, Par(s, t)
  PROVE  /\ \A e \in {RT, TO} : Par(s, Cancel(t, e))
         /\ \A e \in {RT, TO}, i \in Inactive..TransportErrTimer :
              Par(s, Schedule(t, e, i)) /\ Par(s, Restart(t, e, i))
         /\ \A F : Par(s, Lower(t, F))
         /\ Par(s, StartRetransmission(t))
         /\ \A c \in 0..699 : Par(s, [t EXCEPT !.code = c])
         /\ \A m \in MaybeMsg : Par(s, [t EXCEPT !.lastTx = m])
<1>1. Good(t)
  BY DEF Par, Even
<1>2. \A e \in {RT, TO} : Par(s, Cancel(t, e))
  BY <1>1, CancelPar, ParTrans
<1>3. \A e \in {RT, TO}, i \in Inactive..TransportErrTimer :
        Par(s, Schedule(t, e, i)) /\ Par(s, Restart(t, e, i))
  BY <1>1, SchedulePar, RestartPar, ParTrans
<1>4. \A F : Par(s, Lower(t, F))
  BY <1>1, LowerPar, ParTrans
<1>5. Par(s, StartRetransmission(t))
  BY <1>1, StartRetransmissionPar, ParTrans
<1>6. \A c \in 0..699 : Par(s, [t EXCEPT !.code = c])
  BY <1>1, FieldsPar, ParTrans, ZenonT(40)
<1>7. \A m \in MaybeMsg : Par(s, [t EXCEPT !.lastTx = m])
  BY <1>1, FieldsPar, ParTrans, ZenonT(40)
<1> QED
  BY <1>2, <1>3, <1>4, <1>5, <1>6, <1>7, ZenonT(40)

LEMMA Along ==
  ASSUME NEW s, Good(s), NEW t, Even(s, t)
  PROVE  /\ \A e \in {RT, TO} : Even(s, Cancel(t, e))
         /\ \A e \in {RT, TO}, i \in Inactive..TransportErrTimer :
              Even(s, Schedule(t, e, i)) /\ Even(s, Restart(t, e, i))
         /\ \A F : Even(s, Lower(t, F))
         /\ Even(s, StartRetransmission(t))
         /\ \A c \in 0..699 : Even(s, [t EXCEPT !.code = c])
         /\ \A m \in MaybeMsg : Even(s, [t EXCEPT !.lastTx = m])
<1>1. Good(t) /\ Par(t, t)
  BY ParRefl DEF Even
<1>2. \A u : Par(t, u) => Even(s, u)
  BY EvenTrans DEF Par
<1>3. \A e \in {RT, TO} : Even(s, Cancel(t, e))
  <2>1. \A e \in {RT, TO} : Par(t, Cancel(t, e))
    BY <1>1, AlongPar, ZenonT(40)
  <2> QED
    BY <1>2, <2>1, Zenon
<1>4. \A e \in {RT, TO}, i \in Inactive..TransportErrTimer :
        Even(s, Schedule(t, e, i)) /\ Even(s, Restart(t, e, i))
  <2>1. \A e \in {RT, TO}, i \in Inactive..TransportErrTimer :
          Par(t, Schedule(t, e, i)) /\ Par(t, Restart(t, e, i))
    BY <1>1, AlongPar, ZenonT(40)
  <2> QED
    BY <1>2, <2>1, Zenon
<1>5. \A F : Even(s, Lower(t, F))
  BY <1>1, <1>2, AlongPar, ZenonT(40)
<1>6. Even(s, StartRetransmission(t))
  BY <1>1, <1>2, AlongPar, ZenonT(40)
<1>7. \A c \in 0..699 : Even(s, [t EXCEPT !.code = c])
  BY <1>1, <1>2, AlongPar, ZenonT(40)
<1>8. \A m \in MaybeMsg : Even(s, [t EXCEPT !.lastTx = m])
  BY <1>1, <1>2, AlongPar, ZenonT(40)
<1> QED
  BY <1>3, <1>4, <1>5, <1>6, <1>7, <1>8

(* tsx_shutdown gives back what the table held, and no more. *)
LEMMA ShutdownEven ==
  ASSUME NEW s, Good(s), ~s.registered, Gone(s)
  PROVE  Even(s, Shutdown(s))
<1> DEFINE u == [s EXCEPT !.transport = "none", !.lastTx = None]
           v == Cancel(u, TO)
           bare == Cancel(v, RT)
           late == Lower(bare, {"PENDING_RESCHED", "PENDING_SEND"})
           wait == Has(s, "PENDING_TRANSPORT")
           flags == IF wait THEN late.flags \cup {"PENDING_DESTROY"} ELSE late.flags
           user == late.user /\ ~wait
           n == IF s.terminating THEN late.ref ELSE late.ref - 1
           t == [late EXCEPT !.flags = flags, !.user = user, !.terminating = TRUE, !.ref = n]
<1>1. s \in TsxType
  BY DEF Good
<1>2. Even(s, u) /\ u.terminating = s.terminating
  <2>1. None \in MaybeMsg /\ "none" \in {"none", "up", "down"}
    BY DEF MaybeMsg
  <2>2. u \in TsxType
    BY <1>1, <2>1, ZenonT(40) DEF TsxType
  <2>3. Level(s, u) /\ u.terminating = s.terminating
    BY <1>1 DEF TsxType, Level, Gone
  <2> QED
    BY <2>2, <2>3, LevelEven
<1> HIDE DEF u
<1>3. Even(s, v) /\ Even(s, bare) /\ Even(s, late)
  <2>1. Even(s, v)
    BY <1>2, Ids, Along, ZenonT(40)
  <2> HIDE DEF v
  <2>2. Even(s, bare)
    BY <2>1, Ids, Along, ZenonT(40)
  <2> HIDE DEF bare
  <2>3. Even(s, late)
    BY <2>2, Along, ZenonT(40)
  <2> QED
    BY <2>1, <2>2, <2>3
<1>4. late.terminating = s.terminating
  <2>1. Good(u) /\ Good(v) /\ Good(bare)
    BY <1>2, <1>3 DEF Even
  <2>2. v.terminating = u.terminating /\ bare.terminating = v.terminating
    BY <2>1, Ids, CancelSafe DEF Kept
  <2>3. late.terminating = bare.terminating
    BY <2>1, LowerSafe DEF Kept
  <2> QED
    BY <1>2, <2>2, <2>3
<1>5. Shutdown(s) = t
  BY DEF Shutdown, u, v, bare
<1>6. Safe(s, t)
  BY <1>5, ShutdownSafe
<1> HIDE DEF late
<1>7. /\ late \in TsxType /\ late.ref \in Int /\ late.flags \in FlagSets
      /\ late.user \in BOOLEAN
  BY <1>3 DEF Even, Good, TsxType
<1>8. n = late.ref - (IF late.terminating THEN 0 ELSE 1)
  BY <1>4, <1>7
<1> HIDE DEF flags, user, n
<1>9. /\ t.ref = n /\ t.tm = late.tm /\ t.sends = late.sends /\ t.terminating = TRUE
      /\ t.role = late.role /\ t.loaded = late.loaded /\ t.state = late.state
      /\ t.alt = late.alt /\ t.resTp = late.resTp /\ t.transport = late.transport
  BY <1>7 DEF TsxType
<1> HIDE DEF t
<1>10. Held(t) <= Held(late)
  <2>1. Armed(t, RT) = Armed(late, RT) /\ Armed(t, TO) = Armed(late, TO)
    BY <1>9 DEF Armed
  <2>2. Armed(late, RT) \in Int /\ Armed(late, TO) \in Int
    BY DEF Armed
  <2>3. Cardinality(late.sends) \in Int
    BY <1>3, HeldInt DEF Even
  <2> QED
    BY <1>7, <1>8, <1>9, <2>1, <2>2, <2>3 DEF Held, Weight
<1>11. Even(late, t)
  BY <1>6, <1>9, <1>10 DEF Even, Safe, Gone
<1> QED
  BY <1>3, <1>5, <1>11, EvenTrans

(* What tsx_set_state does to the rest. *)
LEMMA ShutdownSends ==
  ASSUME NEW s, Good(s)
  PROVE  Shutdown(s).sends = s.sends /\ Shutdown(s).state = s.state
BY DEF Good, TsxType, Shutdown, Cancel, Lower

LEMMA SettleEven ==
  ASSUME NEW s, Good(s), NEW st, s.state = st
  PROVE  Even(s, Settle(s, st)) /\ Settle(s, st).sends = s.sends /\ Settle(s, st).state = st
<1> DEFINE t == [s EXCEPT !.registered = FALSE]
<1>1. Par(s, Restart(Detach(s), TO, TimeoutTimer))
  BY DetachPar, Ids, AlongPar, ZenonT(40)
<1>2. ASSUME st = Destroyed
      PROVE  Even(s, Shutdown(t)) /\ Shutdown(t).sends = s.sends /\ Shutdown(t).state = st
  <2>1. Par(s, t) /\ ~t.registered
    BY FieldsPar, ZenonT(40) DEF Good, TsxType
  <2> HIDE DEF t
  <2>2. Good(t) /\ Gone(t)
    BY <1>2, <2>1 DEF Par, Even, Gone
  <2>3. Even(t, Shutdown(t))
    BY <2>1, <2>2, ShutdownEven
  <2>4. Shutdown(t).sends = t.sends /\ Shutdown(t).state = t.state
    BY <2>2, ShutdownSends
  <2> QED
    BY <2>1, <2>3, <2>4, EvenTrans DEF Par
<1>3. \/ Settle(s, st) = Restart(Detach(s), TO, TimeoutTimer)
      \/ Settle(s, st) = Shutdown(t) /\ st = Destroyed
      \/ Settle(s, st) = s
  BY DEF Settle, Terminated, Destroyed
<1> HIDE DEF t
<1> QED
  BY <1>1, <1>2, <1>3, EvenRefl DEF Par

LEMMA SetStateEven ==
  ASSUME NEW s, Good(s), NEW st \in StNull..Destroyed,
         Gone(s) => st \in {Terminated, Destroyed}
  PROVE  /\ Even(s, SetState(s, st))
         /\ SetState(s, st).sends = s.sends /\ SetState(s, st).state = st
<1> DEFINE t == [s EXCEPT !.state = st]
<1>1. s \in TsxType
  BY DEF Good
<1>2. t \in TsxType
  BY <1>1, ZenonT(40) DEF TsxType
<1>3. Level(s, t) /\ t.state = st /\ t.sends = s.sends
  BY <1>1 DEF TsxType, Level, Gone
<1>4. Even(s, t)
  BY <1>2, <1>3, LevelEven
<1>5. SetState(s, st) = Settle(Tell(t), st)
  BY DEF SetState
<1> HIDE DEF t
<1>6. Par(t, Tell(t)) /\ Good(t)
  BY <1>4, TellPar DEF Even
<1>7. Even(s, Tell(t)) /\ Tell(t).state = st /\ Tell(t).sends = s.sends /\ Good(Tell(t))
  BY <1>3, <1>4, <1>6, EvenTrans DEF Par, Even
<1>8. /\ Even(Tell(t), Settle(Tell(t), st)) /\ Settle(Tell(t), st).sends = s.sends
      /\ Settle(Tell(t), st).state = st
  BY <1>7, SettleEven
<1> QED
  BY <1>5, <1>7, <1>8, EvenTrans

(* One that is over. *)
LEMMA EndEven ==
  ASSUME NEW s, Good(s), NEW t, Even(s, t), NEW st \in {Terminated, Destroyed}
  PROVE  Even(s, SetState(t, st)) /\ Gone(SetState(t, st))
<1>1. Good(t) /\ st \in StNull..Destroyed
  BY States DEF Even
<1>2. Even(t, SetState(t, st)) /\ SetState(t, st).state = st
  BY <1>1, SetStateEven
<1> QED
  BY <1>2, EvenTrans DEF Gone

LEMMA PostTransportErrorPar ==
  ASSUME NEW s, Good(s)
  PROVE  Par(s, PostTransportError(s))
<1> DEFINE t == [s EXCEPT !.err = TRUE]
<1>1. Par(s, t)
  BY FieldsPar, ZenonT(40)
<1>2. PostTransportError(s) \in {t, Restart(t, TO, TransportErrTimer)}
  BY DEF PostTransportError
<1> HIDE DEF t
<1>3. TransportErrTimer \in Inactive..TransportErrTimer
  BY DEF Inactive, TransportErrTimer
<1>4. Par(s, Restart(t, TO, TransportErrTimer))
  BY <1>1, <1>3, Ids, AlongPar, ZenonT(40)
<1> QED
  BY <1>1, <1>2, <1>4
-----------------------------------------------------------------------------
(* Sending. *)
LEMMA AddRefTally ==
  ASSUME NEW s, Good(s)
  PROVE  /\ Good(AddRef(s)) /\ Held(AddRef(s)) = Held(s) + 1
         /\ AddRef(s).sends = s.sends /\ AddRef(s).state = s.state /\ AddRef(s).role = s.role
         /\ AddRef(s).loaded = s.loaded /\ AddRef(s).alt = s.alt /\ AddRef(s).resTp = s.resTp
         /\ AddRef(s).transport = s.transport
<1>1. Good(AddRef(s)) /\ Held(AddRef(s)) = Held(s) + 1
  BY AddRefHeld
<1> QED
  BY <1>1 DEF Good, TsxType, AddRef

LEMMA DecRefTally ==
  ASSUME NEW s, Good(s)
  PROVE  /\ Good(DecRef(s)) /\ Held(DecRef(s)) = Held(s) - 1
         /\ DecRef(s).sends = s.sends /\ DecRef(s).state = s.state /\ DecRef(s).role = s.role
         /\ DecRef(s).loaded = s.loaded /\ DecRef(s).alt = s.alt /\ DecRef(s).resTp = s.resTp
         /\ DecRef(s).transport = s.transport
<1>1. Good(DecRef(s)) /\ Held(DecRef(s)) = Held(s) - 1
  BY DecRefHeld
<1> QED
  BY <1>1 DEF Good, TsxType, DecRef

(* A send that was not in flight counts one, and has one reference. *)
LEMMA InFlightEven ==
  ASSUME NEW s, Good(s), NEW k \in {"tp", "sl"}, NEW m \in Msgs,
         [kind |-> k, msg |-> m] \notin s.sends
  PROVE  LET t == InFlight(s, k, m)
         IN  Even(s, t) /\ t.state = s.state /\ t.resTp = s.resTp /\ t.alt = s.alt
<1> DEFINE x == [kind |-> k, msg |-> m]
           sends == s.sends \cup {x}
           t == [s EXCEPT !.sends = sends]
<1>1. s \in TsxType /\ s.sends \in SendSets /\ IsFiniteSet(s.sends) /\ s.ref \in Int
  BY DEF Good, TsxType
<1>2. sends \in SendSets
  BY <1>1 DEF SendSets
<1>3. IsFiniteSet(sends) /\ Cardinality(sends) = Cardinality(s.sends) + 1
  BY <1>1, FS_AddElement
<1>4. InFlight(s, k, m) = AddRef(t)
  BY DEF InFlight
<1> HIDE DEF sends, x
<1>5. t \in TsxType
  BY <1>1, <1>2, ZenonT(40) DEF TsxType
<1>6. /\ t.ref = s.ref /\ t.tm = s.tm /\ t.sends = sends /\ t.terminating = s.terminating
      /\ t.registered = s.registered /\ t.role = s.role /\ t.loaded = s.loaded
      /\ t.state = s.state /\ t.alt = s.alt /\ t.resTp = s.resTp /\ t.transport = s.transport
  BY <1>1 DEF TsxType
<1> HIDE DEF t
<1>7. Good(t)
  BY <1>3, <1>5, <1>6 DEF Good
<1>8. Held(t) = Held(s) - 1
  <2>1. Armed(t, RT) = Armed(s, RT) /\ Armed(t, TO) = Armed(s, TO)
    BY <1>6 DEF Armed
  <2>2. Armed(s, RT) \in Int /\ Armed(s, TO) \in Int /\ Cardinality(s.sends) \in Int
    BY HeldInt DEF Armed
  <2> QED
    BY <1>1, <1>3, <1>6, <2>1, <2>2 DEF Held, Weight
<1>9. /\ Good(AddRef(t)) /\ Held(AddRef(t)) = Held(t) + 1
      /\ AddRef(t).state = t.state /\ AddRef(t).role = t.role
      /\ AddRef(t).loaded = t.loaded /\ AddRef(t).alt = t.alt /\ AddRef(t).resTp = t.resTp
      /\ AddRef(t).transport = t.transport
  BY <1>7, AddRefTally
<1>10. Held(s) \in Int /\ Held(t) \in Int
  BY <1>7, HeldInt
<1>11. Held(AddRef(t)) <= Held(s)
  BY <1>8, <1>9, <1>10
<1> QED
  BY <1>4, <1>6, <1>9, <1>11 DEF Even, Gone

LEMMA NotPending ==
  ASSUME NEW s, NEW m, ~IsPending(s, m)
  PROVE  \A k : [kind |-> k, msg |-> m] \notin s.sends
BY DEF IsPending

LEMMA AcceptedEven ==
  ASSUME NEW s, Good(s), NEW m \in Msgs, [kind |-> "tp", msg |-> m] \notin s.sends
  PROVE  EvenOuts(s, Accepted(s, m))
<1> DEFINE t == Raise(s, "PENDING_TRANSPORT")
<1>1. Par(s, t)
  BY RaisePar DEF Flags
<1>2. \A o \in Accepted(s, m) : o.tsx \in {s, InFlight(t, "tp", m)}
  BY DEF Accepted, Ok
<1> HIDE DEF t
<1>3. Even(t, InFlight(t, "tp", m))
  BY <1>1, InFlightEven DEF Par, Even
<1>4. Even(s, InFlight(t, "tp", m)) /\ Even(s, s)
  BY <1>1, <1>3, EvenTrans, EvenRefl DEF Par
<1> QED
  BY <1>2, <1>4 DEF EvenOuts

LEMMA DroppedEven ==
  ASSUME NEW s, Good(s)
  PROVE  /\ Even(s, Dropped(s))
         /\ Dropped(s).sends = s.sends /\ Dropped(s).state = s.state
         /\ Backed(s) /\ ~Gone(s) => ~Dropped(s).resTp
<1> DEFINE t == [s EXCEPT !.transport = "none", !.resTp = FALSE]
<1>1. s \in TsxType /\ "none" \in {"none", "up", "down"} /\ FALSE \in BOOLEAN
  BY DEF Good
<1>2. t \in TsxType
  BY <1>1, ZenonT(40) DEF TsxType
<1>3. /\ Level(s, t) /\ t.sends = s.sends /\ t.state = s.state /\ ~t.resTp
  BY <1>1 DEF TsxType, Level, Gone
<1>4. Even(s, t)
  BY <1>2, <1>3, LevelEven
<1>5. Dropped(s) = IF s.transport = "none" THEN s ELSE t
  BY DEF Dropped
<1> HIDE DEF t
<1> QED
  BY <1>3, <1>4, <1>5, EvenRefl DEF Backed

LEMMA SendResolvedEven ==
  ASSUME NEW s, Good(s), NEW m \in Msgs, [kind |-> "tp", msg |-> m] \notin s.sends
  PROVE  EvenOuts(s, SendResolved(s, m))
<1> DEFINE d == Dropped(s)
           t == [d EXCEPT !.code = TransportError]
<1>1. Even(s, d)
  BY DroppedEven
<1> HIDE DEF d
<1>2. Even(s, t)
  <2>1. TransportError \in 0..699
    BY DEF TransportError
  <2> QED
    BY <1>1, <2>1, Along, ZenonT(40)
<1>3. SendResolved(s, m) = Accepted(s, m) \cup {Fail(SetState(t, Terminated))}
  BY DEF SendResolved, d
<1> HIDE DEF t
<1>4. Even(s, SetState(t, Terminated))
  BY <1>2, EndEven
<1>5. Fail(SetState(t, Terminated)).tsx = SetState(t, Terminated)
  BY DEF Fail
<1> QED
  BY <1>3, <1>4, <1>5, AcceptedEven DEF EvenOuts

LEMMA AdoptTransportPar ==
  ASSUME NEW s, Good(s)
  PROVE  \A t \in AdoptTransport(s) : Par(s, t)
<1>1. s \in TsxType /\ s.reliable \in BOOLEAN
  BY DEF Good, TsxType
<1> DEFINE Kind == IF s.role = "UAC" THEN BOOLEAN ELSE {s.reliable}
           up(r) == [s EXCEPT !.transport = "up", !.reliable = r]
           p == PostTransportError(s)
           down(r) == [p EXCEPT !.transport = "down", !.reliable = r]
<1>2. Kind \subseteq BOOLEAN
  BY <1>1
<1> HIDE DEF Kind
<1>3. ASSUME NEW r \in BOOLEAN PROVE Par(s, up(r))
  <2>1. "up" \in {"none", "up", "down"}
    OBVIOUS
  <2>2. up(r) \in TsxType
    BY <1>1, <2>1, ZenonT(40) DEF TsxType
  <2>3. /\ Level(s, up(r)) /\ up(r).state = s.state /\ up(r).sends = s.sends
        /\ up(r).resTp = s.resTp
    BY <1>1 DEF TsxType, Level, Gone
  <2> QED
    BY <2>2, <2>3, LevelEven DEF Par
<1>4. Par(s, p)
  BY PostTransportErrorPar
<1>5. ASSUME NEW r \in BOOLEAN PROVE Par(s, down(r))
  <2> HIDE DEF p
  <2>1. "down" \in {"none", "up", "down"} /\ p \in TsxType /\ Good(p)
    BY <1>4 DEF Par, Even, Good
  <2>2. down(r) \in TsxType
    BY <2>1, ZenonT(40) DEF TsxType
  <2>3. /\ Level(p, down(r)) /\ down(r).state = p.state /\ down(r).sends = p.sends
        /\ down(r).resTp = p.resTp
    BY <2>1 DEF TsxType, Level, Gone
  <2>4. Par(p, down(r))
    BY <2>1, <2>2, <2>3, LevelEven DEF Par
  <2> QED
    BY <1>4, <2>4, ParTrans
<1>6. AdoptTransport(s) = (IF s.transport = "none" THEN {} ELSE {s})
         \cup {up(r) : r \in Kind} \cup {down(r) : r \in Kind}
  BY DEF AdoptTransport, Kind
<1> HIDE DEF up, down
<1>7. Par(s, s)
  BY ParRefl
<1> QED
  BY <1>2, <1>3, <1>5, <1>6, <1>7

LEMMA SendDeferredEven ==
  ASSUME NEW s, Good(s)
  PROVE  EvenAll(s, SendDeferred(s))
<1> DEFINE c == Lower(s, {"PENDING_SEND"})
<1>1. Par(s, c) /\ Even(s, s)
  BY LowerPar, EvenRefl
<1>2. CASE ~Has(s, "PENDING_SEND")
  BY <1>1, <1>2 DEF SendDeferred, EvenAll
<1>3. CASE Has(s, "PENDING_SEND") /\ (s.lastTx = None \/ IsPending(s, s.lastTx))
  BY <1>1, <1>3 DEF SendDeferred, EvenAll, Par
<1>4. CASE Has(s, "PENDING_SEND") /\ ~(s.lastTx = None \/ IsPending(s, s.lastTx))
  <2>1. s.lastTx \in Msgs
    BY <1>4 DEF Good, TsxType, MaybeMsg
  <2>2. SendDeferred(s) = {o.tsx : o \in SendResolved(c, s.lastTx)}
    BY <1>4 DEF SendDeferred
  <2>3. [kind |-> "tp", msg |-> s.lastTx] \notin s.sends
    BY <1>4, NotPending
  <2> HIDE DEF c
  <2>4. EvenOuts(c, SendResolved(c, s.lastTx))
    BY <1>1, <2>1, <2>3, SendResolvedEven DEF Par, Even
  <2>5. EvenOuts(s, SendResolved(c, s.lastTx))
    BY <1>1, <2>4, EvenOutsTrans DEF Par
  <2> QED
    BY <2>2, <2>5 DEF EvenAll, EvenOuts
<1> QED
  BY <1>2, <1>3, <1>4

LEMMA ReschedDeferredEven ==
  ASSUME NEW s, Good(s)
  PROVE  Even(s, ReschedDeferred(s))
<1> DEFINE c == Lower(s, {"PENDING_RESCHED"})
<1>1. Even(s, c) /\ Even(s, s)
  BY LowerPar, EvenRefl DEF Par
<1>2. ReschedDeferred(s) \in {s, c, Schedule(c, RT, RetransmitTimer)}
  BY DEF ReschedDeferred
<1> HIDE DEF c
<1>3. Even(s, Schedule(c, RT, RetransmitTimer))
  BY <1>1, Ids, Along, ZenonT(40)
<1> QED
  BY <1>1, <1>2, <1>3

(* send_msg_callback gives back the reference of the send. *)
LEMMA DeliveredEven ==
  ASSUME NEW s, Good(s)
  PROVE  EvenAll(DecRef(s), Delivered(s))
<1> DEFINE d == DecRef(s)
           b == [d EXCEPT !.pendingTx = None]
           Settled(a) == Raise(Lower(a, {"PENDING_TRANSPORT"}), "RESOLVED_SERVER")
           After(a) == IF Has(a, "PENDING_DESTROY")
                         THEN {SetState(a, Destroyed)}
                         ELSE {ReschedDeferred(e) : e \in SendDeferred(a)}
<1>1. Good(d)
  BY DecRefHeld
<1>2. Delivered(s) = UNION {After(Settled(a)) : a \in AdoptTransport(b)}
  BY DEF Delivered
<1> HIDE DEF d
<1>3. Par(d, b)
  BY <1>1, FieldsPar, ZenonT(40) DEF MaybeMsg
<1> HIDE DEF b
<1>4. ASSUME NEW a \in AdoptTransport(b) PROVE Par(d, a)
  <2>1. Par(b, a)
    BY <1>3, AdoptTransportPar DEF Par, Even
  <2> QED
    BY <1>1, <1>3, <2>1, ParTrans
<1>5. ASSUME NEW a, Good(a) PROVE Par(a, Settled(a))
  <2>1. Par(a, Lower(a, {"PENDING_TRANSPORT"}))
    BY <1>5, LowerPar
  <2>2. Par(Lower(a, {"PENDING_TRANSPORT"}), Settled(a))
    BY <2>1, RaisePar DEF Par, Even, Flags
  <2> QED
    BY <1>5, <2>1, <2>2, ParTrans
<1>6. ASSUME NEW a, Good(a) PROVE EvenAll(a, After(a))
  <2>1. Even(a, SetState(a, Destroyed))
    BY <1>6, EvenRefl, EndEven
  <2>2. EvenAll(a, SendDeferred(a))
    BY <1>6, SendDeferredEven
  <2>3. \A e \in SendDeferred(a) : Even(a, ReschedDeferred(e))
    <3> TAKE e \in SendDeferred(a)
    <3>1. Even(a, e)
      BY <2>2 DEF EvenAll
    <3>2. Even(e, ReschedDeferred(e))
      BY <3>1, ReschedDeferredEven DEF Even
    <3> QED
      BY <1>6, <3>1, <3>2, EvenTrans
  <2> QED
    BY <2>1, <2>3 DEF EvenAll
<1> HIDE DEF Settled, After
<1>7. ASSUME NEW a \in AdoptTransport(b) PROVE EvenAll(d, After(Settled(a)))
  <2>1. Par(d, a)
    BY <1>4, <1>7
  <2>2. Par(a, Settled(a))
    BY <2>1, <1>5 DEF Par, Even
  <2>3. Par(d, Settled(a))
    BY <1>1, <2>1, <2>2, ParTrans
  <2>4. EvenAll(Settled(a), After(Settled(a)))
    BY <2>3, <1>6 DEF Par, Even
  <2> QED
    BY <1>1, <2>3, <2>4, EvenAllTrans DEF Par
<1> QED
  BY <1>2, <1>7 DEF EvenAll, d

LEMMA GiveUpEven ==
  ASSUME NEW s, Good(s)
  PROVE  Even(s, GiveUp(s)) /\ Gone(GiveUp(s))
<1> DEFINE r == Raise(Lower(s, {"PENDING_TRANSPORT"}), "RESOLVED_SERVER")
           k == [r EXCEPT !.err = TRUE]
           g == [r EXCEPT !.err = TRUE, !.code = TransportError]
<1>1. Par(s, r)
  <2>1. Par(s, Lower(s, {"PENDING_TRANSPORT"}))
    BY LowerPar
  <2>2. Par(Lower(s, {"PENDING_TRANSPORT"}), r)
    BY <2>1, RaisePar DEF Par, Even, Flags
  <2> QED
    BY <2>1, <2>2, ParTrans
<1> HIDE DEF r
<1>2. Par(s, k)
  <2>1. Good(r) /\ TRUE \in BOOLEAN
    BY <1>1 DEF Par, Even
  <2>2. Par(r, k)
    BY <2>1, FieldsPar, ZenonT(40)
  <2> QED
    BY <1>1, <2>2, ParTrans
<1>3. g = [k EXCEPT !.code = TransportError]
  BY <1>1 DEF Par, Even, Good, TsxType
<1> HIDE DEF k
<1>4. Par(s, g)
  <2>1. TransportError \in 0..699
    BY DEF TransportError
  <2> QED
    BY <1>2, <1>3, <2>1, AlongPar, ZenonT(40)
<1>5. GiveUp(s) \in {g, SetState(g, Terminated), SetState(g, Destroyed)}
  BY DEF GiveUp, r
<1> HIDE DEF g
<1>6. Even(s, SetState(g, Terminated)) /\ Even(s, SetState(g, Destroyed))
  BY <1>4, EndEven DEF Par
<1> QED
  BY <1>4, <1>5, <1>6, GiveUpGone DEF Par

LEMMA NextAddressEven ==
  ASSUME NEW s, Good(s), NEW m \in Msgs, s.alt # 0, [kind |-> "sl", msg |-> m] \notin s.sends
  PROVE  Even(s, NextAddress(s, m))
<1> DEFINE f == InFlight(s, "sl", m)
           a == [f EXCEPT !.pendingTx = m, !.alt = f.alt - 1]
<1>1. Even(s, f) /\ f.alt = s.alt
  BY InFlightEven
<1>2. NextAddress(s, m) \in {a, Restart(a, TO, TimeoutTimer)}
  BY DEF NextAddress
<1> HIDE DEF f
<1>3. f \in TsxType /\ m \in MaybeMsg /\ f.alt - 1 \in Nat
  BY <1>1 DEF Even, Good, TsxType, MaybeMsg
<1>4. a \in TsxType
  BY <1>3, ZenonT(40) DEF TsxType
<1>5. Level(f, a)
  BY <1>1, <1>3 DEF TsxType, Level, Gone
<1>6. Even(f, a)
  BY <1>1, <1>4, <1>5, LevelEven DEF Even
<1> HIDE DEF a
<1>7. Even(s, a)
  BY <1>1, <1>6, EvenTrans
<1>8. Even(s, Restart(a, TO, TimeoutTimer))
  BY <1>7, Ids, Along, ZenonT(40)
<1> QED
  BY <1>2, <1>7, <1>8

(* The next address is for a client, which has no transport of its own to   *)
(* answer on.                                                               *)
Retries(s, m) == s.alt = 0 \/ (~s.resTp /\ [kind |-> "sl", msg |-> m] \notin s.sends)

LEMMA UndeliveredEven ==
  ASSUME NEW s, Good(s), NEW m \in Msgs, Retries(s, m)
  PROVE  EvenAll(DecRef(s), Undelivered(s, m))
<1> DEFINE d == DecRef(s)
           b == [d EXCEPT !.pendingTx = None]
           c == [b EXCEPT !.transport = "none"]
<1>1. Good(d) /\ d.alt = s.alt /\ d.sends = s.sends /\ d.resTp = s.resTp
  BY DecRefTally
<1>2. Undelivered(s, m) =
        {GiveUp(a) : a \in {b, c}}
          \cup (IF s.alt = 0 \/ Has(s, "PENDING_DESTROY") THEN {}
                ELSE {NextAddress(a, m) : a \in {b, c}})
  BY DEF Undelivered
<1> HIDE DEF d
<1>3. Par(d, b)
  BY <1>1, FieldsPar, ZenonT(40) DEF MaybeMsg
<1>4. d \in TsxType /\ b \in TsxType /\ b.alt = d.alt /\ b.sends = d.sends
  <2>1. d \in TsxType /\ b \in TsxType
    BY <1>1, <1>3 DEF Par, Even, Good
  <2> QED
    BY <2>1 DEF TsxType
<1> HIDE DEF b
<1>5. c \in TsxType
  <2>1. "none" \in {"none", "up", "down"}
    OBVIOUS
  <2> QED
    BY <1>4, <2>1, ZenonT(40) DEF TsxType
<1>6. /\ Alike(b, c) /\ c.role = b.role /\ c.loaded = b.loaded /\ c.state = b.state
      /\ c.alt = b.alt /\ c.resTp = b.resTp
  BY <1>4 DEF TsxType, Alike
<1>7. Good(c) /\ Held(c) = Held(b)
  BY <1>3, <1>5, <1>6, Neutral DEF Par, Even, Safe, Held, Weight, Armed, Alike
<1>8. ~s.resTp => Level(b, c)
  BY <1>1, <1>3, <1>6 DEF Level, Alike, Par, Gone
<1> HIDE DEF c
<1>9. Even(d, GiveUp(b))
  BY <1>1, <1>3, GiveUpEven, EvenTrans DEF Par, Even
<1>10. Even(d, GiveUp(c))
  <2>1. Even(c, GiveUp(c)) /\ Gone(GiveUp(c))
    BY <1>7, GiveUpEven
  <2>2. Held(c) <= Held(d)
    BY <1>3, <1>7 DEF Par, Even
  <2>3. Held(GiveUp(c)) \in Int /\ Held(c) \in Int /\ Held(d) \in Int
    BY <1>1, <1>7, <2>1, HeldInt DEF Even
  <2>4. Held(GiveUp(c)) <= Held(d)
    BY <2>1, <2>2, <2>3 DEF Even
  <2> QED
    BY <1>3, <1>4, <1>6, <2>1, <2>4 DEF Par, Even
<1>11. ASSUME s.alt # 0
       PROVE  Even(d, NextAddress(b, m)) /\ Even(d, NextAddress(c, m))
  <2>1. ~s.resTp /\ [kind |-> "sl", msg |-> m] \notin s.sends
    BY <1>11 DEF Retries
  <2>2. Even(d, b) /\ Even(b, c)
    BY <1>3, <1>5, <1>8, <2>1, LevelEven DEF Par, Even
  <2>3. /\ b.alt # 0 /\ c.alt # 0 /\ [kind |-> "sl", msg |-> m] \notin b.sends
        /\ [kind |-> "sl", msg |-> m] \notin c.sends
    BY <1>1, <1>4, <1>6, <1>11, <2>1 DEF Alike
  <2>4. Even(b, NextAddress(b, m)) /\ Even(c, NextAddress(c, m))
    BY <2>2, <2>3, NextAddressEven DEF Even
  <2>5. Even(d, c)
    BY <1>1, <2>2, EvenTrans
  <2> QED
    BY <1>1, <2>2, <2>4, <2>5, EvenTrans
<1> QED
  BY <1>2, <1>9, <1>10, <1>11 DEF EvenAll, d

(* Without a transport of its own to answer on, a send that fails at once   *)
(* has been called back.                                                    *)
LEMMA SendStatelessEven ==
  ASSUME NEW s, Good(s), NEW m \in Msgs, ~s.resTp, [kind |-> "sl", msg |-> m] \notin s.sends
  PROVE  EvenOuts(s, SendStateless(s, m))
<1> DEFINE p == [s EXCEPT !.pendingTx = m]
           r == Raise(p, "PENDING_TRANSPORT")
           a == AddRef(r)
           i == InFlight(r, "sl", m)
           inline == Delivered(a) \cup Undelivered(a, m)
<1>1. SendStateless(s, m) =
        {Ok([a EXCEPT !.sends = @ \cup {[kind |-> "sl", msg |-> m]}])}
          \cup {IF e.state = Terminated /\ e.err THEN Fail(e) ELSE Ok(e) : e \in inline}
  BY DEF SendStateless
<1>2. Par(s, p)
  BY FieldsPar, ZenonT(40) DEF MaybeMsg
<1> HIDE DEF p
<1>3. Par(s, r)
  <2>1. Par(p, r)
    BY <1>2, RaisePar DEF Par, Even, Flags
  <2> QED
    BY <1>2, <2>1, ParTrans
<1> HIDE DEF r
<1>4. [a EXCEPT !.sends = @ \cup {[kind |-> "sl", msg |-> m]}] = i
  BY <1>3, ZenonT(40) DEF InFlight, AddRef, Par, Even, Good, TsxType
<1>5. Even(s, i)
  <2>1. Even(r, i)
    BY <1>3, InFlightEven DEF Par, Even
  <2> QED
    BY <1>3, <2>1, EvenTrans DEF Par
<1> HIDE DEF i
<1>6. /\ Good(a) /\ Held(a) = Held(r) + 1 /\ a.sends = r.sends /\ a.state = r.state
      /\ a.role = r.role /\ a.loaded = r.loaded /\ a.alt = r.alt /\ a.resTp = r.resTp
      /\ a.transport = r.transport
  BY <1>3, AddRefTally DEF Par, Even
<1> HIDE DEF a
<1>7. Even(s, DecRef(a))
  <2>1. /\ Good(DecRef(a)) /\ Held(DecRef(a)) = Held(a) - 1
        /\ DecRef(a).state = a.state /\ DecRef(a).role = a.role
        /\ DecRef(a).loaded = a.loaded /\ DecRef(a).alt = a.alt /\ DecRef(a).resTp = a.resTp
        /\ DecRef(a).transport = a.transport
    BY <1>6, DecRefTally
  <2>2. Held(r) \in Int
    BY <1>3, HeldInt DEF Par, Even
  <2>3. Held(DecRef(a)) = Held(r)
    BY <1>6, <2>1, <2>2
  <2>4. Held(DecRef(a)) <= Held(r)
    BY <2>2, <2>3
  <2>5. Even(r, DecRef(a))
    BY <1>6, <2>1, <2>4 DEF Even, Gone
  <2> QED
    BY <1>3, <2>5, EvenTrans DEF Par
<1>8. EvenAll(s, inline)
  <2>1. Retries(a, m)
    BY <1>3, <1>6 DEF Retries, Par
  <2>2. EvenAll(s, Delivered(a)) /\ EvenAll(s, Undelivered(a, m))
    BY <1>6, <1>7, <2>1, DeliveredEven, UndeliveredEven, EvenAllTrans
  <2> QED
    BY <2>2 DEF EvenAll
<1> HIDE DEF inline
<1>9. \A o \in SendStateless(s, m) : o.tsx = i \/ o.tsx \in inline
  <2>1. \A e : Ok(e).tsx = e /\ Fail(e).tsx = e
    BY DEF Ok, Fail
  <2>2. SendStateless(s, m) =
          {Ok(i)} \cup {IF e.state = Terminated /\ e.err THEN Fail(e) ELSE Ok(e) : e \in inline}
    BY <1>1, <1>4
  <2> QED
    BY <2>1, <2>2
<1> QED
  BY <1>5, <1>8, <1>9 DEF EvenOuts, EvenAll

LEMMA SendMsgEven ==
  ASSUME NEW s, Good(s), NEW m \in Msgs, Backed(s), ~Gone(s)
  PROVE  EvenOuts(s, SendMsg(s, m))
<1> DEFINE d == Dropped(s)
<1>1. Even(s, s) /\ Even(s, Raise(s, "PENDING_SEND"))
  BY EvenRefl, RaisePar DEF Flags, Par
<1>2. ASSUME ~IsPending(s, m)
      PROVE  EvenOuts(s, SendResolved(s, m)) /\ EvenOuts(s, Accepted(s, m))
             /\ EvenOuts(s, SendStateless(d, m))
  <2>1. \A k : [kind |-> k, msg |-> m] \notin s.sends
    BY <1>2, NotPending
  <2>2. EvenOuts(s, SendResolved(s, m)) /\ EvenOuts(s, Accepted(s, m))
    BY <2>1, SendResolvedEven, AcceptedEven
  <2>3. Even(s, d) /\ d.sends = s.sends /\ ~d.resTp
    BY DroppedEven
  <2> HIDE DEF d
  <2>4. EvenOuts(d, SendStateless(d, m))
    BY <2>1, <2>3, SendStatelessEven DEF Even
  <2> QED
    BY <2>2, <2>3, <2>4, EvenOutsTrans
<1> QED
  BY <1>1, <1>2 DEF SendMsg, EvenOuts, Ok

LEMMA RetransmitEven ==
  ASSUME NEW s, Good(s), NEW resched \in BOOLEAN, Backed(s), ~Gone(s)
  PROVE  EvenAll(s, Retransmit(s, resched))
<1> DEFINE t == IF resched THEN StartRetransmission(s) ELSE s
<1>1. Even(s, s) /\ Par(s, t)
  BY ParRefl, EvenRefl, StartRetransmissionPar
<1>2. CASE (resched /\ s.tm[RT].armed) \/ s.lastTx = None
  BY <1>1, <1>2 DEF Retransmit, EvenAll
<1>3. CASE ~((resched /\ s.tm[RT].armed) \/ s.lastTx = None)
  <2>1. s.lastTx \in Msgs
    BY <1>3 DEF Good, TsxType, MaybeMsg
  <2>2. Retransmit(s, resched) = {o.tsx : o \in SendMsg(t, s.lastTx)}
    BY <1>3 DEF Retransmit
  <2> HIDE DEF t
  <2>3. Good(t) /\ Backed(t) /\ ~Gone(t)
    BY <1>1, EvenBacked DEF Par, Even, Gone
  <2>4. EvenOuts(t, SendMsg(t, s.lastTx))
    BY <2>1, <2>3, SendMsgEven
  <2>5. EvenOuts(s, SendMsg(t, s.lastTx))
    BY <1>1, <2>4, EvenOutsTrans DEF Par
  <2> QED
    BY <2>2, <2>5 DEF EvenAll, EvenOuts
<1> QED
  BY <1>2, <1>3
-----------------------------------------------------------------------------
(* The handlers. *)
LEMMA GoesOnEven ==
  ASSUME NEW s, Good(s), NEW t, Even(s, t), ~Gone(t), NEW st \in StNull..Destroyed
  PROVE  Even(s, SetState(t, st)) /\ SetState(t, st).state = st
<1>1. Even(t, SetState(t, st)) /\ SetState(t, st).state = st
  BY SetStateEven DEF Even
<1> QED
  BY <1>1, EvenTrans

LEMMA LeaveCallingPar ==
  ASSUME NEW s, Good(s), NEW c
  PROVE  Par(s, LeaveCalling(s, c))
<1> DEFINE r == Lower(Cancel(s, RT), {"PENDING_RESCHED"})
<1>1. Par(s, Cancel(s, RT))
  BY Ids, CancelPar
<1>2. Par(s, r)
  BY <1>1, AlongPar, ZenonT(40)
<1>3. LeaveCalling(s, c) \in {r, Cancel(r, TO), Schedule(r, RT, RetransmitTimer)}
  BY DEF LeaveCalling
<1> HIDE DEF r
<1>4. Par(s, Cancel(r, TO)) /\ Par(s, Schedule(r, RT, RetransmitTimer))
  BY <1>2, Ids, AlongPar, ZenonT(40)
<1> QED
  BY <1>2, <1>3, <1>4

LEMMA OnResponseEven ==
  ASSUME NEW s, Good(s), Backed(s), s.state \in {Calling, Proceeding}, NEW c \in Msgs
  PROVE  EvenOuts(s, OnResponse(s, c))
<1> DEFINE l == IF s.state = Calling THEN LeaveCalling(s, c) ELSE s
           r == [l EXCEPT !.code = c]
           quiet == Cancel(Cancel(r, RT), TO)
<1>1. Par(s, l)
  BY LeaveCallingPar, ParRefl
<1>2. c \in 0..699
  BY CodesAssumption DEF Msgs, Request, Ack
<1>3. \/ OnResponse(s, c) = {Fail(SetState(r, Proceeding))}
      \/ OnResponse(s, c) = {Fail(SetState(Cancel(r, TO), Terminated))}
      \/ OnResponse(s, c) = {Ok(Cancel(r, TO))}
      \/ OnResponse(s, c) = {Ok(quiet)}
      \/ OnResponse(s, c) = SendMsg(quiet, Ack)
  BY DEF OnResponse
<1> HIDE DEF l
<1>4. Par(s, r)
  BY <1>1, <1>2, AlongPar, ZenonT(40)
<1> HIDE DEF r
<1>5. ~Gone(s)
  BY Ranks DEF Gone
<1>6. Par(s, Cancel(r, TO)) /\ Par(s, Cancel(r, RT))
  BY <1>4, Ids, AlongPar, ZenonT(40)
<1>7. Par(s, quiet)
  BY <1>6, Ids, AlongPar, ZenonT(40)
<1> HIDE DEF quiet
<1>8. Even(s, SetState(r, Proceeding))
  <2>1. Even(s, r) /\ ~Gone(r) /\ Proceeding \in StNull..Destroyed
    BY <1>4, <1>5, States DEF Par, Gone
  <2> QED
    BY <2>1, GoesOnEven
<1>9. Even(s, SetState(Cancel(r, TO), Terminated))
  BY <1>6, EndEven DEF Par
<1>10. EvenOuts(s, SendMsg(quiet, Ack))
  <2>1. Ack \in Msgs /\ Good(quiet) /\ Backed(quiet) /\ ~Gone(quiet)
    BY <1>5, <1>7, EvenBacked DEF Msgs, Par, Even, Gone
  <2>2. EvenOuts(quiet, SendMsg(quiet, Ack))
    BY <2>1, SendMsgEven
  <2> QED
    BY <1>7, <2>2, EvenOutsTrans DEF Par
<1> QED
  BY <1>3, <1>6, <1>7, <1>8, <1>9, <1>10 DEF EvenOuts, Ok, Fail, Par

LEMMA CompleteEven ==
  ASSUME NEW s, Good(s), ~Gone(s), NEW c
  PROVE  Even(s, Complete(s, c))
<1> DEFINE q == SetState(s, Completed)
           m == IF s.invite THEN Ack ELSE q.lastTx
           a == [q EXCEPT !.lastTx = m]
           b == Schedule(s, TO, TimeoutTimer)
<1>1. Even(s, q)
  BY EvenRefl, GoesOnEven, States
<1>2. m \in MaybeMsg
  BY <1>1 DEF Even, Good, TsxType, MaybeMsg, Msgs
<1>3. Complete(s, c) \in {SetState(Cancel(b, RT), Completed), Restart(a, TO, TimeoutTimer)}
  BY DEF Complete
<1> HIDE DEF q, m
<1>4. Even(s, a)
  BY <1>1, <1>2, Along, ZenonT(40)
<1> HIDE DEF a
<1>5. Even(s, Restart(a, TO, TimeoutTimer))
  BY <1>4, Ids, Along, ZenonT(40)
<1>6. Par(s, b)
  BY Ids, SchedulePar
<1> HIDE DEF b
<1>7. Par(s, Cancel(b, RT))
  BY <1>6, Ids, AlongPar, ZenonT(40)
<1>8. Even(s, SetState(Cancel(b, RT), Completed))
  <2>1. ~Gone(Cancel(b, RT))
    BY <1>7 DEF Par, Gone
  <2> QED
    BY <1>7, <2>1, States, GoesOnEven DEF Par
<1> QED
  BY <1>3, <1>5, <1>8

LEMMA AgainEven ==
  ASSUME NEW s, Good(s), Backed(s), s.state = Completed
  PROVE  EvenAll(s, Retransmit(s, FALSE))
<1>1. ~Gone(s) /\ FALSE \in BOOLEAN
  BY Ranks DEF Gone
<1> QED
  BY <1>1, RetransmitEven

LEMMA OnLateResponseEven ==
  ASSUME NEW s, Good(s), Backed(s), NEW c
  PROVE  EvenAll(s, OnLateResponse(s, c))
<1>1. s.state = Completed => EvenAll(s, Retransmit(s, FALSE))
  BY AgainEven
<1>2. EvenAll(s, {s})
  BY EvenRefl DEF EvenAll
<1> QED
  BY <1>1, <1>2 DEF OnLateResponse

LEMMA OnRequestEven ==
  ASSUME NEW s, Good(s), Backed(s), NEW m
  PROVE  EvenAll(s, OnRequest(s, m))
<1> DEFINE a == Lower(Cancel(s, RT), {"PENDING_RESCHED"})
<1>1. Even(s, s)
  BY EvenRefl
<1>2. s.state = StNull => Even(s, SetState(s, Trying))
  <2>1. s.state = StNull => ~Gone(s)
    BY Ranks DEF Gone
  <2> QED
    BY <1>1, <2>1, States, GoesOnEven
<1>3. s.state = Completed => Even(s, OnAck(s))
  <2>1. Par(s, Cancel(s, RT))
    BY Ids, CancelPar
  <2>2. Par(s, a)
    BY <2>1, AlongPar, ZenonT(40)
  <2>3. OnAck(s) = SetState(Restart(a, TO, TimeoutTimer), Confirmed)
    BY DEF OnAck
  <2> HIDE DEF a
  <2>4. Par(s, Restart(a, TO, TimeoutTimer))
    BY <2>2, Ids, AlongPar, ZenonT(40)
  <2>5. s.state = Completed => ~Gone(Restart(a, TO, TimeoutTimer))
    BY <2>4, Ranks DEF Par, Gone
  <2> QED
    BY <2>3, <2>4, <2>5, States, GoesOnEven DEF Par
<1>4. s.state = Completed => EvenAll(s, Retransmit(s, FALSE))
  BY AgainEven
<1>5. ASSUME s.state = Proceeding, s.lastTx # None
      PROVE  EvenAll(s, {o.tsx : o \in SendMsg(s, s.lastTx)})
  <2>1. s.lastTx \in Msgs /\ ~Gone(s)
    BY <1>5, Ranks DEF Good, TsxType, MaybeMsg, Gone
  <2> QED
    BY <2>1, SendMsgEven DEF EvenAll, EvenOuts
<1> DEFINE T == OnRequest(s, m)
           Stay == {s}
           Try == {SetState(s, Trying)}
           Answer == {o.tsx : o \in SendMsg(s, s.lastTx)}
           Again == Retransmit(s, FALSE)
           Confirm == {OnAck(s)}
<1>6. T = CASE s.state = StNull -> Try
            [] s.state = Proceeding /\ s.lastTx # None -> Answer
            [] s.state = Completed /\ m = Request -> Again
            [] s.state = Completed /\ m = Ack /\ s.invite -> Confirm
            [] OTHER -> Stay
  BY Zenon DEF OnRequest
<1>7. /\ EvenAll(s, Stay)
      /\ s.state = StNull => EvenAll(s, Try)
      /\ s.state = Proceeding /\ s.lastTx # None => EvenAll(s, Answer)
      /\ s.state = Completed => EvenAll(s, Again) /\ EvenAll(s, Confirm)
  BY <1>1, <1>2, <1>3, <1>4, <1>5 DEF EvenAll
<1> HIDE DEF T, Stay, Try, Answer, Again, Confirm
<1>8. EvenAll(s, T)
  BY <1>6, <1>7
<1> QED
  BY <1>8 DEF T

(* The message a user sends: what went out leaves the state to be set, and a*)
(* request that did not ends its transaction.                               *)
LEMMA OnSendRequestEven ==
  ASSUME NEW s, Good(s), Lives(s), s.role = "UAC", s.state = StNull, ~s.resTp
  PROVE  \A t \in OnSendRequest(s) : Even(s, t) /\ t.state # StNull
<1> DEFINE q == [s EXCEPT !.lastTx = Request]
           r(o) == Restart(o.tsx, TO, TimeoutTimer)
           u(o) == IF r(o).reliable THEN r(o) ELSE StartRetransmission(r(o))
<1>1. s.state < Terminated /\ ~Gone(s) /\ Request \in Msgs /\ Request \in MaybeMsg
  BY Ranks DEF Gone, Msgs, MaybeMsg
<1>2. Stays(s, q) /\ Par(s, q)
  BY <1>1, LastTxStays, FieldsPar, ZenonT(40)
<1>3. OnSendRequest(s) =
        {IF o.ok THEN SetState(u(o), Calling) ELSE o.tsx : o \in SendMsg(q, Request)}
  BY DEF OnSendRequest
<1> HIDE DEF q
<1>4. /\ EvenOuts(s, SendMsg(q, Request))
      /\ \A o \in SendMsg(q, Request) :
           (o.ok => o.tsx.state = s.state) /\ (o.ok \/ o.tsx.state = Terminated)
  <2>1. /\ q.role = "UAC" /\ q.state < Terminated /\ Lives(q) /\ Good(q)
        /\ ~Gone(q) /\ Backed(q) /\ ~q.resTp
    BY <1>1, <1>2 DEF Stays, Same, Par, Gone, Backed
  <2>2. EvenOuts(q, SendMsg(q, Request))
    BY <1>1, <2>1, SendMsgEven
  <2>3. \A o \in SendMsg(q, Request) : o.ok => Stays(q, o.tsx)
    BY <1>1, <2>1, SendMsgFate
  <2>4. \A o \in SendMsg(q, Request) : o.ok \/ o.tsx.state = Terminated
    BY <1>1, <2>1, SendMsgCalm
  <2> QED
    BY <1>2, <2>2, <2>3, <2>4, EvenOutsTrans DEF Par, Stays, Same
<1>5. ASSUME NEW o \in SendMsg(q, Request), o.ok
      PROVE  Even(s, SetState(u(o), Calling)) /\ SetState(u(o), Calling).state = Calling
  <2>1. Even(s, o.tsx) /\ o.tsx.state = s.state
    BY <1>4, <1>5 DEF EvenOuts
  <2>2. Par(o.tsx, r(o))
    BY <2>1, Ids, RestartPar DEF Even
  <2> HIDE DEF r
  <2>3. Par(o.tsx, u(o))
    BY <2>1, <2>2, AlongPar, ZenonT(40) DEF Even
  <2> HIDE DEF u
  <2>4. Even(s, u(o)) /\ ~Gone(u(o))
    BY <1>1, <2>1, <2>3, EvenTrans DEF Par, Gone
  <2> QED
    BY <2>4, States, GoesOnEven
<1>6. Calling # StNull /\ Terminated # StNull
  BY Ranks
<1> QED
  BY <1>3, <1>4, <1>5, <1>6 DEF EvenOuts

LEMMA AfterProvisionalEven ==
  ASSUME NEW s, Good(s), ~Gone(s), NEW c \in Codes
  PROVE  Even(s, AfterProvisional(s, c))
<1> DEFINE l == [s EXCEPT !.lastTx = c]
           p == SetState(l, Proceeding)
<1>1. Par(s, l)
  BY CodeRange, FieldsPar, ZenonT(40)
<1>2. AfterProvisional(s, c) \in {p, StartRetransmission(Cancel(p, RT))}
  BY DEF AfterProvisional
<1> HIDE DEF l
<1>3. Even(s, p)
  BY <1>1, States, GoesOnEven DEF Par, Gone
<1> HIDE DEF p
<1>4. Even(s, Cancel(p, RT))
  BY <1>3, Ids, Along, ZenonT(40)
<1>5. Even(s, StartRetransmission(Cancel(p, RT)))
  BY <1>4, Along, ZenonT(40)
<1> QED
  BY <1>2, <1>3, <1>5

LEMMA AfterFinalEven ==
  ASSUME NEW s, Good(s), ~Gone(s), NEW c \in Codes
  PROVE  Even(s, AfterFinal(s, c))
<1> DEFINE q == Cancel(s, RT)
           retransmits == s.invite /\ (s.code < 300 \/ ~s.reliable)
           r == IF retransmits THEN StartRetransmission(q) ELSE q
           saved == [r EXCEPT !.lastTx = c]
<1>1. Par(s, q)
  BY Ids, CancelPar
<1>2. AfterFinal(s, c) \in
        {SetState(q, Terminated), SetState(Restart(saved, TO, TimeoutTimer), Completed)}
  BY DEF AfterFinal
<1> HIDE DEF q, retransmits
<1>3. Par(s, r)
  BY <1>1, AlongPar, ZenonT(40)
<1> HIDE DEF r
<1>4. Par(s, saved)
  BY <1>3, CodeRange, AlongPar, ZenonT(40)
<1> HIDE DEF saved
<1>5. Par(s, Restart(saved, TO, TimeoutTimer))
  BY <1>4, Ids, AlongPar, ZenonT(40)
<1>6. Even(s, SetState(Restart(saved, TO, TimeoutTimer), Completed))
  BY <1>5, States, GoesOnEven DEF Par, Gone
<1>7. Even(s, SetState(q, Terminated))
  BY <1>1, EndEven DEF Par
<1> QED
  BY <1>2, <1>6, <1>7

LEMMA OnSendResponseEven ==
  ASSUME NEW s, Good(s), Lives(s), Backed(s), s.state \in {Trying, Proceeding},
         NEW c \in Codes, c # s.lastTx
  PROVE  EvenAll(s, OnSendResponse(s, c))
<1> DEFINE k == [s EXCEPT !.code = c]
           d == [s EXCEPT !.code = c, !.lastTx = None]
           e == [k EXCEPT !.lastTx = None]
<1>1. /\ c \in 0..699 /\ c \in Msgs /\ s.state < Terminated /\ ~Gone(s)
      /\ None \in MaybeMsg
  BY CodeRange, Ranks DEF Gone, MaybeMsg
<1>2. OnSendResponse(s, c) =
        {CASE ~o.ok -> o.tsx
           [] o.ok /\ o.tsx.code < 200 -> AfterProvisional(o.tsx, c)
           [] OTHER -> AfterFinal(o.tsx, c) : o \in SendMsg(d, c)}
  <2>1. [s EXCEPT !.code = c, !.lastTx = IF @ = c THEN c ELSE None] = d
    BY ZenonT(40) DEF Good, TsxType
  <2> QED
    BY <2>1 DEF OnSendResponse
<1>3. d = e
  BY DEF Good, TsxType
<1>4. Stays(s, k) /\ Par(s, k)
  BY <1>1, StaysRefl, Link, FieldsPar, ZenonT(40)
<1> HIDE DEF k
<1>5. Stays(s, e) /\ e.lastTx = None
  <2>1. k.state < Terminated /\ Good(k) /\ Lives(k)
    BY <1>1, <1>4 DEF Stays, Same
  <2> QED
    BY <1>1, <1>4, <2>1, LastTxStays, StaysTrans
<1>6. Par(s, e)
  BY <1>1, <1>4, AlongPar, ZenonT(40)
<1> HIDE DEF d, e
<1>7. /\ EvenOuts(s, SendMsg(d, c))
      /\ \A o \in SendMsg(d, c) : o.ok => o.tsx.state = s.state
  <2>1. d.state < Terminated /\ Good(d) /\ Backed(d) /\ ~Gone(d)
    BY <1>1, <1>3, <1>5, <1>6, EvenBacked DEF Stays, Same, Par, Gone
  <2>2. \A o \in SendMsg(d, c) : o.ok => Stays(d, o.tsx)
    BY <1>1, <1>3, <1>5, <2>1, SendMsgFate DEF Stays
  <2>3. EvenOuts(d, SendMsg(d, c))
    BY <1>1, <2>1, SendMsgEven
  <2> QED
    BY <1>3, <1>6, <2>2, <2>3, EvenOutsTrans DEF Par, Stays, Same
<1>8. ASSUME NEW o \in SendMsg(d, c), o.ok
      PROVE  Even(s, AfterProvisional(o.tsx, c)) /\ Even(s, AfterFinal(o.tsx, c))
  <2>1. Even(s, o.tsx) /\ o.tsx.state = s.state
    BY <1>7, <1>8 DEF EvenOuts
  <2>2. Good(o.tsx) /\ ~Gone(o.tsx)
    BY <1>1, <2>1 DEF Even, Gone
  <2>3. Even(o.tsx, AfterProvisional(o.tsx, c)) /\ Even(o.tsx, AfterFinal(o.tsx, c))
    BY <2>2, AfterProvisionalEven, AfterFinalEven
  <2> QED
    BY <2>1, <2>3, EvenTrans
<1> QED
  BY <1>2, <1>7, <1>8 DEF EvenAll, EvenOuts

LEMMA OnRetransmitTimerEven ==
  ASSUME NEW s, Good(s), Backed(s)
  PROVE  EvenAll(s, OnRetransmitTimer(s))
<1>1. OnRetransmitTimer(s) \in {Retransmit(s, TRUE), {SetState(s, Destroyed)}, {s}}
  BY DEF OnRetransmitTimer
<1>2. Even(s, s) /\ Even(s, SetState(s, Destroyed))
  BY EvenRefl, EndEven
<1>3. CASE Gone(s)
  <2>1. OnRetransmitTimer(s) \in {{SetState(s, Destroyed)}, {s}}
    <3>1. s.state \notin {Calling, Proceeding, Completed}
      BY <1>3, Ranks DEF Gone
    <3> QED
      BY <3>1 DEF OnRetransmitTimer
  <2> QED
    BY <1>2, <2>1 DEF EvenAll
<1>4. CASE ~Gone(s)
  <2>1. TRUE \in BOOLEAN
    OBVIOUS
  <2>2. EvenAll(s, Retransmit(s, TRUE))
    BY <1>4, <2>1, RetransmitEven
  <2> QED
    BY <1>1, <1>2, <2>2 DEF EvenAll
<1> QED
  BY <1>3, <1>4

(* The state of a transaction that ends is set before the rest is done. *)
LEMMA EndsEven ==
  ASSUME NEW s, Good(s), NEW t, Even(s, t), NEW st \in {Terminated, Destroyed}
  PROVE  Even(s, [t EXCEPT !.state = st])
<1> DEFINE u == [t EXCEPT !.state = st]
<1>1. Good(t) /\ t \in TsxType /\ st \in StNull..Destroyed
  BY States DEF Even, Good
<1>2. u \in TsxType
  BY <1>1, ZenonT(40) DEF TsxType
<1>3. Level(t, u)
  BY <1>1 DEF TsxType, Level, Gone
<1>4. Even(t, u)
  BY <1>1, <1>2, <1>3, LevelEven
<1> QED
  BY <1>4, EvenTrans

LEMMA OnTimeoutEven ==
  ASSUME NEW s, Good(s)
  PROVE  Even(s, OnTimeout(s))
<1> DEFINE q == Lower(Cancel(s, RT), {"PENDING_RESCHED"})
           k == [q EXCEPT !.code = TsxTimeout]
           l == [s EXCEPT !.code = TsxTimeout]
<1>1. Par(s, s) /\ TsxTimeout \in 0..699
  BY ParRefl DEF TsxTimeout
<1>2. Par(s, Cancel(s, RT))
  BY Ids, CancelPar
<1>3. Par(s, q)
  BY <1>2, AlongPar
<1>4. \/ OnTimeout(s) = [q EXCEPT !.code = TsxTimeout, !.state = Terminated]
      \/ OnTimeout(s) = [s EXCEPT !.code = TsxTimeout, !.state = Terminated]
      \/ OnTimeout(s) = [s EXCEPT !.state = Terminated]
      \/ OnTimeout(s) = [s EXCEPT !.state = Destroyed]
      \/ OnTimeout(s) = s
  BY DEF OnTimeout
<1> HIDE DEF q
<1>5. Par(s, k) /\ Par(s, l)
  BY <1>1, <1>3, AlongPar, ZenonT(40)
<1>6. /\ [q EXCEPT !.code = TsxTimeout, !.state = Terminated] = [k EXCEPT !.state = Terminated]
      /\ [s EXCEPT !.code = TsxTimeout, !.state = Terminated] = [l EXCEPT !.state = Terminated]
  BY <1>3 DEF Par, Even, Good, TsxType
<1> HIDE DEF k, l
<1>7. ASSUME NEW t \in {k, l, s}, NEW st \in {Terminated, Destroyed}
      PROVE  Even(s, [t EXCEPT !.state = st])
  BY <1>1, <1>5, EndsEven DEF Par
<1> QED
  BY <1>1, <1>4, <1>6, <1>7 DEF Par

-----------------------------------------------------------------------------
(* Between two addresses.  Before a client has sent its request nothing is  *)
(* in flight, and while a worker is in the callback of a message that is not*)
(* in flight again: what the callback sends is sent once.                   *)
SentPlace(p, s) ==
  p.at = "sent" => s.state # StNull /\ [kind |-> "sl", msg |-> p.arg] \notin s.sends

Unrepeated ==
  tsx.role = "UAC" =>
    /\ tsx.sends # {} => tsx.state # StNull
    /\ \A w \in Workers : SentPlace(pc[w], tsx)

(* No step leads back to the start, *)
LEMMA NoWayBack ==
  ASSUME NEW s, NEW t, Passes(s, t), t.state = StNull
  PROVE  s.state = StNull
<1>1. t.state = 0
  BY Ranks
<1> QED
  BY <1>1, Ranks DEF Passes, Following, Lifecycle!Successors, Lifecycle!Null, Lifecycle!Calling,
    Lifecycle!Trying, Lifecycle!Proceeding, Lifecycle!Completed, Lifecycle!Confirmed,
    Lifecycle!Terminated, Lifecycle!Destroyed

(* a step that stays there sends nothing, *)
LEMMA PopSends ==
  ASSUME NEW s, Good(s), NEW e \in {RT, TO},
         NEW t, t = [s EXCEPT !.tm[e].armed = FALSE] \/ t = [s EXCEPT !.tm[e].id = Inactive]
  PROVE  t.sends = s.sends
BY DEF Good, TsxType

LEMMA OnTimeoutAtNull ==
  ASSUME NEW s, s.state = StNull
  PROVE  OnTimeout(s) = s
<1>1. s.state \notin {Calling, Proceeding, Completed, Confirmed, Terminated}
  BY Ranks
<1> QED
  BY <1>1 DEF OnTimeout

LEMMA OnRetransmitTimerAtNull ==
  ASSUME NEW s, s.state = StNull
  PROVE  OnRetransmitTimer(s) = {s}
<1>1. s.state \notin {Calling, Proceeding, Completed, Terminated}
  BY Ranks
<1> QED
  BY <1>1 DEF OnRetransmitTimer

LEMMA TimerSendsNothing ==
  ASSUME NEW w \in Workers, Step(w), TimerStep(w), tsx.state = StNull, tsx'.state = StNull
  PROVE  tsx'.sends \subseteq tsx.sends
<1>1. Good(tsx) /\ ArgOK(pc[w])
  BY Start
<1>2. StNull # Terminated /\ StNull # Destroyed
  BY Ranks
<1>3. DecRef(tsx).sends = tsx.sends
  BY <1>1, DecRefTally
<1>4. ASSUME NEW e \in {RT, TO}, PopTimer(w, e) PROVE tsx'.sends = tsx.sends
  BY <1>1, <1>4, PopSends DEF PopTimer
<1>5. CASE StaleTimer(w)
  BY <1>2, <1>5 DEF StaleTimer
<1>6. CASE TransportErrorTimer(w)
  <2> DEFINE s == [tsx EXCEPT !.tm[pc[w].arg].id = Inactive]
  <2>1. pc[w].arg \in {RT, TO}
    BY <1>1, <1>6 DEF TransportErrorTimer, ArgOK
  <2>2. s.sends = tsx.sends /\ Good(s)
    BY <1>1, <2>1, PopSends, ClearIdSafe DEF Safe
  <2>3. tsx' = s \/ tsx' = DecRef(s)
    BY <1>6 DEF TransportErrorTimer, Return
  <2> QED
    BY <2>2, <2>3, DecRefTally
<1>7. CASE TimerEvent(w)
  <2>1. pc[w].arg \in {RT, TO}
    BY <1>1, <1>7 DEF TimerEvent, ArgOK
  <2> QED
    BY <1>1, <1>7, <2>1, PopSends DEF TimerEvent
<1>8. CASE RetransmitEvent(w)
  <2>1. PICK s \in OnRetransmitTimer(tsx) : Return(w, s)
    BY <1>8 DEF RetransmitEvent
  <2> QED
    BY <1>3, <2>1, OnRetransmitTimerAtNull DEF Return
<1>9. CASE TimeoutEvent(w)
  <2>1. Return(w, tsx)
    BY <1>9, OnTimeoutAtNull DEF TimeoutEvent
  <2> QED
    BY <1>3, <2>1 DEF Return
<1>10. CASE TellTimeout(w)
  BY <1>1, <1>10, TellPar DEF TellTimeout, Par
<1>11. CASE AfterTimeout(w)
  BY <1>1, <1>2, <1>11, Start DEF AfterTimeout, Place, ArgOK
<1>12. CASE TransportErrorEvent(w)
  <2>1. tsx'.state = Terminated
    BY <1>1, <1>12 DEF TransportErrorEvent, Cancel, Detach, Lower, Good, TsxType
  <2> QED
    BY <1>2, <2>1
<1>13. CASE TellTransportError(w)
  BY <1>1, <1>13, TellPar DEF TellTransportError, Par
<1>14. CASE ScheduleHandler(w)
  <2>1. Par(tsx, Schedule(tsx, TO, TimeoutTimer))
    BY <1>1, Ids, SchedulePar
  <2> QED
    BY <1>14, <2>1, DecRefTally DEF ScheduleHandler, Return, Par, Even
<1> QED
  BY <1>4, <1>5, <1>6, <1>7, <1>8, <1>9, <1>10, <1>11, <1>12, <1>13, <1>14 DEF TimerStep

LEMMA OthersSendNothing ==
  ASSUME NEW w \in Workers, Step(w), tsx.role = "UAC", ~tsx.resTp, Unrepeated,
         tsx.state = StNull, tsx'.state = StNull,
         RxStep(w) \/ SendStep(w) \/ UserStep \/ TransportDown \/ LayerStop,
         Workers = {w}
  PROVE  tsx'.sends \subseteq tsx.sends
<1>1. Good(tsx) /\ ArgOK(pc[w])
  BY Start
<1>2. StNull \notin {Calling, Proceeding, Completed, Terminated, Destroyed} /\ StNull < Terminated
  BY Ranks
<1>3. DecRef(tsx).sends = tsx.sends
  BY <1>1, DecRefTally
<1>4. CASE RxStep(w)
  <2>1. ASSUME NEW m \in Msgs, Lookup(w, m) PROVE FALSE
    BY <2>1 DEF Lookup
  <2>2. CASE RecvResponse(w)
    <3>1. \E s \in OnLateResponse(tsx, pc[w].arg) : Return(w, s)
      BY <1>2, <2>2 DEF RecvResponse
    <3>2. OnLateResponse(tsx, pc[w].arg) = {tsx}
      BY <1>2 DEF OnLateResponse
    <3> QED
      BY <1>3, <3>1, <3>2 DEF Return
  <2>3. CASE CompleteResponse(w)
    BY <1>2, <2>3, Start DEF CompleteResponse, Place
  <2>4. CASE RecvRequest(w)
    BY <2>4 DEF RecvRequest
  <2> QED
    BY <1>4, <2>1, <2>2, <2>3, <2>4 DEF RxStep
<1>5. CASE SendStep(w)
  <2>1. ASSUME NEW m \in Msgs, SendCallback(w, m) PROVE FALSE
    BY <2>1 DEF SendCallback, Unrepeated
  <2>2. ASSUME NEW m \in Msgs, TransportCallback(w, m) PROVE FALSE
    BY <2>2 DEF TransportCallback, Unrepeated
  <2>3. CASE SendCallbackLocked(w)
    BY <2>3 DEF SendCallbackLocked, Unrepeated, SentPlace
  <2>4. CASE TransportFailed(w)
    <3>1. Par(tsx, PostTransportError(tsx))
      BY <1>1, PostTransportErrorPar
    <3> QED
      BY <2>4, <3>1, DecRefTally DEF TransportFailed, Return, Par, Even
  <2> QED
    BY <1>5, <2>1, <2>2, <2>3, <2>4 DEF SendStep
<1>6. CASE UserStep
  <2>1. CASE SendRequest
    <3>1. LockFree /\ tsx' \in OnSendRequest(tsx) /\ tsx.state < Terminated
      BY <1>2, <2>1 DEF SendRequest
    <3>2. Lives(tsx)
      BY <3>1, AliveHere
    <3>3. tsx'.state # StNull
      BY <1>1, <3>1, <3>2, OnSendRequestEven
    <3> QED
      BY <3>3
  <2>2. ASSUME NEW c \in Codes, SendResponse(c) PROVE FALSE
    BY <2>2 DEF SendResponse
  <2>3. ASSUME NEW v \in Workers, NEW c \in Codes, RetransmitNoState(v, c) PROVE FALSE
    BY <2>3 DEF RetransmitNoState
  <2>4. CASE Terminate
    <3> DEFINE q == [tsx EXCEPT !.code = RequestTerminated]
    <3>1. Par(tsx, q)
      <4>1. RequestTerminated \in 0..699
        BY DEF RequestTerminated
      <4> QED
        BY <1>1, <4>1, FieldsPar, ZenonT(40)
    <3>2. tsx' = SetState(q, Terminated)
      BY <2>4 DEF Terminate
    <3> HIDE DEF q
    <3>3. tsx'.state = Terminated
      BY <3>1, <3>2, States, SetStateEven DEF Par, Even
    <3> QED
      BY <1>2, <3>3
  <2>5. CASE StopRetransmit
    BY <1>1, <2>5, Ids, CancelPar DEF StopRetransmit, Par
  <2>6. CASE SetTimeout
    BY <1>1, <2>6, Ids, RestartPar DEF SetTimeout, Par
  <2> QED
    BY <1>6, <2>1, <2>2, <2>3, <2>4, <2>5, <2>6 DEF UserStep
<1>7. CASE TransportDown
  <2> DEFINE q == [tsx EXCEPT !.transport = "down"]
  <2>1. tsx' = PostTransportError(q)
    BY <1>7 DEF TransportDown
  <2>2. tsx \in TsxType /\ "down" \in {"none", "up", "down"}
    BY Start
  <2>3. q \in TsxType
    BY <2>2, ZenonT(40) DEF TsxType
  <2>4. Level(tsx, q) /\ q.sends = tsx.sends
    BY <1>7, <2>2 DEF TsxType, Level, Gone
  <2>5. Good(q)
    BY <1>1, <2>3, <2>4, LevelEven DEF Even
  <2> HIDE DEF q
  <2> QED
    BY <2>1, <2>4, <2>5, PostTransportErrorPar DEF Par
<1>8. CASE LayerStop
  <2> DEFINE q == [tsx EXCEPT !.code = TransportError]
             t == SetState(q, Terminated)
             u == [t EXCEPT !.registered = FALSE, !.loaded = FALSE]
  <2>1. tsx' = Shutdown(u)
    BY <1>2, <1>8 DEF LayerStop
  <2>2. Par(tsx, q)
    <3>1. TransportError \in 0..699
      BY DEF TransportError
    <3> QED
      BY <1>1, <3>1, FieldsPar
  <2> HIDE DEF q
  <2>3. t.state = Terminated /\ Good(t)
    BY <2>2, States, SetStateEven DEF Par, Even
  <2> HIDE DEF t
  <2>4. tsx'.state = Terminated
    BY <2>1, <2>3 DEF Good, TsxType, Shutdown, Cancel, Lower
  <2> QED
    BY <1>2, <2>4
<1> QED
  BY <1>4, <1>5, <1>6, <1>7, <1>8

(* and nothing is sent while a worker is in the callback. *)
LEMMA CalledBack ==
  ASSUME NEW w, Workers = {w}, Step(w), tsx.role = "UAC", Unrepeated, Next,
         pc'[w].at = "sent"
  PROVE  \/ pc'[w] = pc[w] /\ tsx'.sends = tsx.sends
         \/ /\ [kind |-> "sl", msg |-> pc'[w].arg] \notin tsx'.sends
            /\ tsx.state # StNull
<1>1. w \in Workers /\ Good(tsx) /\ tsx \in TsxType /\ pc \in [Workers -> [at: Places, arg: Nat]]
  BY Start
<1>2. ASSUME NEW at, NEW x, Go(w, at, x) PROVE at = "sent" /\ x = pc'[w].arg
  <2>1. pc'[w] = [at |-> at, arg |-> x]
    BY <1>1, <1>2, GoIs
  <2> QED
    BY <2>1
<1>3. \A s : ~Return(w, s)
  BY <1>1 DEF Return, Idle
<1>4. ~TimerStep(w)
  <2>2. \A x : ~Go(w, "timer", x) /\ ~Go(w, "terr", x) /\ ~Go(w, "event", x) /\ ~Go(w, "tell", x)
    BY <1>2
  <2>3. \A x : ~Go(w, "told", x) /\ ~Go(w, "terrTell", x) /\ ~Go(w, "terrSchedule", x)
    BY <1>2
  <2>4. \A e \in {RT, TO} : ~PopTimer(w, e)
    BY <2>2 DEF PopTimer
  <2>5. ~StaleTimer(w) /\ ~RetransmitEvent(w) /\ ~AfterTimeout(w) /\ ~ScheduleHandler(w)
    BY <1>3 DEF StaleTimer, RetransmitEvent, AfterTimeout, ScheduleHandler
  <2>6. ~TransportErrorTimer(w) /\ ~TimerEvent(w)
    BY <1>3, <2>2 DEF TransportErrorTimer, TimerEvent
  <2>7. ~TimeoutEvent(w)
    BY <1>3, <2>2 DEF TimeoutEvent
  <2>8. ~TellTimeout(w) /\ ~TransportErrorEvent(w) /\ ~TellTransportError(w)
    BY <2>3 DEF TellTimeout, TransportErrorEvent, TellTransportError
  <2> QED
    BY <2>4, <2>5, <2>6, <2>7, <2>8 DEF TimerStep
<1>5. ~RxStep(w)
  <2>1. \A x : ~Go(w, "rx", x) /\ ~Go(w, "final", x)
    BY <1>2
  <2>2. \A m \in Msgs : ~Lookup(w, m)
    BY <2>1 DEF Lookup
  <2>3. ~RecvResponse(w) /\ ~CompleteResponse(w) /\ ~RecvRequest(w)
    BY <1>3, <2>1 DEF RecvResponse, CompleteResponse, RecvRequest
  <2> QED
    BY <2>2, <2>3 DEF RxStep
<1>6. CASE SendStep(w)
  <2>1. ASSUME NEW m \in Msgs, SendCallback(w, m)
        PROVE  pc'[w].arg = m /\ tsx'.sends = tsx.sends \ {[kind |-> "sl", msg |-> m]}
               /\ tsx.sends # {}
    <3> DEFINE x == [kind |-> "sl", msg |-> m]
               done == [tsx EXCEPT !.sends = tsx.sends \ {x}]
    <3>1. /\ x \in tsx.sends /\ pc[w] = Idle
          /\ \/ tsx' = done /\ UNCHANGED pc
             \/ tsx' = done /\ Go(w, "sent", m)
             \/ Return(w, done)
      BY <2>1 DEF SendCallback
    <3>2. tsx' = done /\ Go(w, "sent", m)
      BY <1>3, <3>1 DEF Idle
    <3>3. done.sends = tsx.sends \ {x}
      BY <1>1 DEF TsxType
    <3>4. pc'[w].arg = m
      BY <1>2, <3>2
    <3> QED
      BY <3>1, <3>2, <3>3, <3>4
  <2>2. ASSUME NEW m \in Msgs, TransportCallback(w, m) PROVE FALSE
    BY <1>2, <1>3, <2>2 DEF TransportCallback
  <2>3. ~SendCallbackLocked(w) /\ ~TransportFailed(w)
    BY <1>1, <1>3 DEF SendCallbackLocked, TransportFailed, Idle
  <2>4. PICK m \in Msgs : SendCallback(w, m)
    BY <1>6, <2>2, <2>3 DEF SendStep
  <2> QED
    BY <2>1, <2>4 DEF Unrepeated
<1>7. CASE UserStep
  <2>1. pc' = pc /\ pc[w] # Idle
    BY <1>1, <1>7 DEF UserStep, SendRequest, SendResponse, RetransmitNoState, Terminate,
                      StopRetransmit, SetTimeout, Idle
  <2>2. tsx.state # StNull
    BY <1>1, <2>1 DEF Unrepeated, SentPlace
  <2>3. CASE Terminate
    <3> DEFINE q == [tsx EXCEPT !.code = RequestTerminated]
    <3>1. Par(tsx, q)
      <4>1. RequestTerminated \in 0..699
        BY DEF RequestTerminated
      <4> QED
        BY <1>1, <4>1, FieldsPar, ZenonT(40)
    <3>2. tsx' = SetState(q, Terminated)
      BY <2>3 DEF Terminate
    <3> HIDE DEF q
    <3>3. tsx'.sends = q.sends
      BY <3>1, <3>2, States, SetStateEven DEF Par, Even
    <3> QED
      BY <2>1, <3>1, <3>3 DEF Par
  <2>4. CASE StopRetransmit
    BY <1>1, <2>1, <2>4, Ids, CancelPar DEF StopRetransmit, Par
  <2>5. CASE SetTimeout
    BY <1>1, <2>1, <2>5, Ids, RestartPar DEF SetTimeout, Par
  <2>6. ~SendRequest
    BY <2>2 DEF SendRequest
  <2>7. \A c \in Codes : ~SendResponse(c)
    BY DEF SendResponse
  <2>8. \A v \in Workers, c \in Codes : ~RetransmitNoState(v, c)
    BY DEF RetransmitNoState
  <2> QED
    BY <1>7, <2>3, <2>4, <2>5, <2>6, <2>7, <2>8 DEF UserStep
<1>8. CASE TransportDown
  <2> DEFINE q == [tsx EXCEPT !.transport = "down"]
  <2>1. tsx' = PostTransportError(q) /\ pc' = pc
    BY <1>8 DEF TransportDown
  <2>2. "down" \in {"none", "up", "down"}
    OBVIOUS
  <2>3. q \in TsxType
    BY <1>1, <2>2, ZenonT(40) DEF TsxType
  <2>4. Level(tsx, q) /\ q.sends = tsx.sends
    BY <1>1, <1>8 DEF TransportDown, TsxType, Level, Gone
  <2>5. Good(q)
    BY <1>1, <2>3, <2>4, LevelEven DEF Even
  <2> HIDE DEF q
  <2> QED
    BY <2>1, <2>4, <2>5, PostTransportErrorPar DEF Par
<1>9. ~LayerStop
  BY <1>1 DEF LayerStop, Idle
<1>10. ~Over
  BY <1>1 DEF Over, vars, Idle
<1> QED
  BY <1>1, <1>4, <1>5, <1>6, <1>7, <1>8, <1>9, <1>10 DEF Next

LEMMA InitUnrepeated == ASSUME Init PROVE Unrepeated
<1>1. tsx.sends = {}
  BY DEF Init, Created
<1>2. \A w \in Workers : pc[w].at = "idle"
  BY DEF Init, Idle
<1> QED
  BY <1>1, <1>2 DEF Unrepeated, SentPlace

LEMMA NextUnrepeated ==
  ASSUME NEW w, Workers = {w}, IInv, IInv', LInv, WInv, Unrepeated, [Next]_vars
  PROVE  Unrepeated'
<1>1. w \in Workers /\ Step(w)
  BY DEF LInv, Step
<1>2. CASE UNCHANGED vars
  BY <1>2 DEF vars, Unrepeated, SentPlace
<1>3. CASE Next
  <2> SUFFICES ASSUME tsx'.role = "UAC"
               PROVE  /\ tsx'.sends # {} => tsx'.state # StNull
                      /\ SentPlace(pc'[w], tsx')
    BY DEF Unrepeated
  <2>1. Passes(tsx, tsx')
    BY <1>1, <1>3, Moves
  <2>2. tsx.role = "UAC" /\ ~tsx.resTp
    BY <2>1 DEF Passes, WInv
  <2>3. tsx'.state = StNull => tsx.state = StNull
    BY <2>1, NoWayBack
  <2>4. tsx'.sends # {} => tsx'.state # StNull
    <3>1. ASSUME tsx.state = StNull, tsx'.state = StNull PROVE tsx'.sends \subseteq tsx.sends
      <4>1. CASE Over
        BY <4>1 DEF Over, vars
      <4> QED
        BY <1>1, <1>3, <2>2, <3>1, <4>1, TimerSendsNothing, OthersSendNothing DEF Next
    <3>2. tsx.state = StNull => tsx.sends = {}
      BY <2>2 DEF Unrepeated
    <3> QED
      BY <2>3, <3>1, <3>2
  <2>5. ASSUME pc'[w].at = "sent"
        PROVE  tsx'.state # StNull /\ [kind |-> "sl", msg |-> pc'[w].arg] \notin tsx'.sends
    <3>1. SentPlace(pc[w], tsx)
      BY <2>2 DEF Unrepeated
    <3>2. \/ pc'[w] = pc[w] /\ tsx'.sends = tsx.sends
          \/ /\ [kind |-> "sl", msg |-> pc'[w].arg] \notin tsx'.sends
             /\ tsx.state # StNull
      BY <1>1, <1>3, <2>2, <2>5, CalledBack
    <3> QED
      BY <2>3, <2>5, <3>1, <3>2 DEF SentPlace
  <2> QED
    BY <2>4, <2>5 DEF SentPlace
<1> QED
  BY <1>2, <1>3

-----------------------------------------------------------------------------
(* The steps.  The references that are left are no more than the workers    *)
(* inside; a server has no other address to try, and does not lose the      *)
(* transport it answers on before its end.                                  *)
Bounded ==
  /\ tsx.role = "UAS" => tsx.alt = 0
  /\ Backed(tsx)
  /\ tsx.loaded => Held(tsx) <= Cardinality(Busy)

(* What Even says besides the count. *)
Sort(s, t) ==
  /\ t.role = s.role /\ t.loaded = s.loaded
  /\ Gone(s) => Gone(t)
  /\ s.alt = 0 => t.alt = 0
  /\ t.resTp => s.resTp /\ (t.transport = "none" => s.transport = "none" \/ Gone(t))

LEMMA SortOf == ASSUME NEW s, NEW t, Even(s, t) PROVE Sort(s, t)
BY DEF Even, Sort

LEMMA PlainSort ==
  ASSUME NEW s, NEW t, t.role = s.role, t.loaded = s.loaded, t.state = s.state,
         t.alt = s.alt, t.resTp = s.resTp, t.transport = s.transport
  PROVE  Sort(s, t)
BY DEF Sort, Gone

LEMMA BoundKept ==
  ASSUME Bounded, Sort(tsx, tsx'),
         tsx.loaded => (Held(tsx) <= Cardinality(Busy) => Held(tsx') <= Cardinality(Busy'))
  PROVE  Bounded'
<1>1. tsx'.role = "UAS" => tsx'.alt = 0
  BY DEF Bounded, Sort
<1>2. Backed(tsx')
  BY DEF Bounded, Sort, Backed
<1>3. tsx'.loaded => Held(tsx') <= Cardinality(Busy')
  BY DEF Bounded, Sort
<1> QED
  BY <1>1, <1>2, <1>3 DEF Bounded

(* Numbers, and who is inside. *)
LEMMA Numbers ==
  ASSUME IInv, IInv'
  PROVE  /\ Good(tsx) /\ Good(tsx') /\ Held(tsx) \in Int /\ Held(tsx') \in Int
         /\ Cardinality(Busy) \in Int
<1>1. Cardinality(Busy) \in Nat
  BY WorkersAssumption, FS_Subset, FS_CardinalityType DEF Busy
<1> QED
  BY <1>1, HeldInt DEF IInv

LEMMA BusyMoves ==
  ASSUME IInv, NEW w \in Workers, NEW q, pc' = [pc EXCEPT ![w] = q]
  PROVE  /\ pc[w] = Idle /\ q # Idle => Cardinality(Busy') = Cardinality(Busy) + 1
         /\ pc[w] # Idle /\ q # Idle => Cardinality(Busy') = Cardinality(Busy)
         /\ pc[w] # Idle /\ q = Idle => Cardinality(Busy') = Cardinality(Busy) - 1
<1>1. Busy = Inside(pc) /\ Busy' = Inside(pc')
  BY DEF Busy, Inside
<1>2. pc \in [Workers -> [at: Places, arg: Nat]]
  BY DEF IInv
<1> QED
  BY <1>1, <1>2, InsideMoves

(* A worker comes in with one reference, *)
LEMMA BoundIn ==
  ASSUME IInv, IInv', Bounded, NEW w \in Workers, pc[w] = Idle,
         NEW place \in Places \ {"idle"}, NEW x, Go(w, place, x),
         Sort(tsx, tsx'), tsx.loaded => Held(tsx') <= Held(tsx) + 1
  PROVE  Bounded'
<1> DEFINE q == [at |-> place, arg |-> x]
<1>1. q # Idle /\ pc' = [pc EXCEPT ![w] = q]
  BY DEF Idle, Go
<1> HIDE DEF q
<1>2. Cardinality(Busy') = Cardinality(Busy) + 1
  BY <1>1, BusyMoves
<1> QED
  BY <1>2, Numbers, BoundKept

(* stays inside, *)
LEMMA BoundOn ==
  ASSUME IInv, IInv', Bounded, NEW w \in Workers, pc[w].at # "idle",
         NEW place \in Places \ {"idle"}, NEW x, Go(w, place, x), Even(tsx, tsx')
  PROVE  Bounded'
<1> DEFINE q == [at |-> place, arg |-> x]
<1>1. q # Idle /\ pc[w] # Idle /\ pc' = [pc EXCEPT ![w] = q]
  BY DEF Idle, Go
<1> HIDE DEF q
<1>2. Cardinality(Busy') = Cardinality(Busy)
  BY <1>1, BusyMoves
<1>3. Held(tsx') <= Held(tsx)
  BY DEF Even
<1> QED
  BY <1>2, <1>3, Numbers, SortOf, BoundKept

(* or leaves, and one is given back for it. *)
LEMMA BoundOut ==
  ASSUME IInv, IInv', Bounded, NEW w \in Workers, pc[w].at # "idle",
         pc' = [pc EXCEPT ![w] = Idle], Even(DecRef(tsx), tsx')
  PROVE  Bounded'
<1>1. pc[w] # Idle
  BY DEF Idle
<1>2. Cardinality(Busy') = Cardinality(Busy) - 1
  BY <1>1, BusyMoves
<1>3. /\ Held(DecRef(tsx)) = Held(tsx) - 1 /\ DecRef(tsx).state = tsx.state
      /\ DecRef(tsx).role = tsx.role /\ DecRef(tsx).loaded = tsx.loaded
      /\ DecRef(tsx).alt = tsx.alt /\ DecRef(tsx).resTp = tsx.resTp
      /\ DecRef(tsx).transport = tsx.transport
  BY Numbers, DecRefTally
<1>4. Held(tsx') <= Held(tsx) - 1
  BY <1>3 DEF Even
<1>5. Sort(tsx, tsx')
  BY <1>3 DEF Even, Sort, Gone
<1> QED
  BY <1>2, <1>4, <1>5, Numbers, BoundKept

LEMMA DecRefEven ==
  ASSUME NEW s, Good(s), NEW t, Even(s, t)
  PROVE  Even(DecRef(s), DecRef(t))
<1>1. Good(t) /\ Held(s) \in Int /\ Held(t) \in Int
  BY HeldInt DEF Even
<1>2. /\ Good(DecRef(s)) /\ Held(DecRef(s)) = Held(s) - 1
      /\ DecRef(s).state = s.state /\ DecRef(s).role = s.role /\ DecRef(s).loaded = s.loaded
      /\ DecRef(s).alt = s.alt /\ DecRef(s).resTp = s.resTp
      /\ DecRef(s).transport = s.transport
  BY DecRefTally
<1>3. /\ Good(DecRef(t)) /\ Held(DecRef(t)) = Held(t) - 1
      /\ DecRef(t).state = t.state /\ DecRef(t).role = t.role /\ DecRef(t).loaded = t.loaded
      /\ DecRef(t).alt = t.alt /\ DecRef(t).resTp = t.resTp
      /\ DecRef(t).transport = t.transport
  BY <1>1, DecRefTally
<1>4. Held(DecRef(t)) <= Held(DecRef(s))
  BY <1>1, <1>2, <1>3 DEF Even
<1> QED
  BY <1>2, <1>3, <1>4 DEF Even, Gone

LEMMA BoundLeaves ==
  ASSUME IInv, IInv', Bounded, NEW w \in Workers, pc[w].at # "idle",
         NEW s, Even(tsx, s), Return(w, s)
  PROVE  Bounded'
<1>1. Even(DecRef(tsx), tsx') /\ pc' = [pc EXCEPT ![w] = Idle]
  BY Numbers, DecRefEven DEF Return
<1> QED
  BY <1>1, BoundOut

(* What others do keeps no reference. *)
LEMMA BoundOutside ==
  ASSUME IInv, IInv', Bounded, pc' = pc, Even(tsx, tsx')
  PROVE  Bounded'
<1>1. Busy' = Busy /\ Held(tsx') <= Held(tsx)
  BY DEF Busy, Even
<1> QED
  BY <1>1, Numbers, SortOf, BoundKept

LEMMA ClearIdEven ==
  ASSUME NEW s, Good(s), NEW e \in {RT, TO},
         NEW t, t = [s EXCEPT !.tm[e].id = Inactive]
  PROVE  Even(s, t)
<1>1. Good(t)
  BY ClearIdSafe DEF Safe
<1>2. /\ t.ref = s.ref /\ t.sends = s.sends /\ t.terminating = s.terminating
      /\ t.role = s.role /\ t.loaded = s.loaded /\ t.state = s.state /\ t.alt = s.alt
      /\ t.resTp = s.resTp /\ t.transport = s.transport
      /\ \A d \in {RT, TO} : t.tm[d].armed = s.tm[d].armed
  BY DEF Good, TsxType, Timers
<1> HIDE DEF Good
<1>3. Held(t) = Held(s)
  BY <1>2 DEF Held, Weight, Armed, RT, TO
<1>4. Held(t) <= Held(s)
  BY <1>3, HeldInt
<1> QED
  BY <1>1, <1>2, <1>4 DEF Even, Gone

LEMMA PopTally ==
  ASSUME NEW s, Good(s), NEW e \in {RT, TO}, s.tm[e].armed,
         NEW t, t = [s EXCEPT !.tm[e].armed = FALSE]
  PROVE  Held(t) <= Held(s) + 1 /\ Sort(s, t)
<1>1. Held(t) = Held(s) + 1 /\ Held(s) \in Int
  BY PopHeld, HeldInt
<1>2. /\ t.role = s.role /\ t.loaded = s.loaded /\ t.state = s.state /\ t.alt = s.alt
      /\ t.resTp = s.resTp /\ t.transport = s.transport
  BY DEF Good, TsxType
<1>3. Held(t) <= Held(s) + 1
  BY <1>1
<1>4. Sort(s, t)
  BY <1>2 DEF Sort, Gone
<1> QED
  BY <1>3, <1>4

(* What the steps of the worker start from: it is the only one. *)
Bound(w) ==
  /\ Step(w) /\ Workers = {w} /\ Bounded /\ Unrepeated /\ WInv

LEMMA BoundStart ==
  ASSUME NEW w \in Workers, Bound(w)
  PROVE  /\ Step(w) /\ IInv /\ IInv' /\ Bounded /\ Good(tsx) /\ tsx \in TsxType /\ ArgOK(pc[w])
         /\ Backed(tsx) /\ pc \in [Workers -> [at: Places, arg: Nat]]
         /\ (pc[w].at \notin {"tell", "told", "terrTell"} => Lives(tsx))
BY Start DEF Bound, Step, Bounded

LEMMA TimerStepBound ==
  ASSUME NEW w \in Workers, Bound(w), TimerStep(w)
  PROVE  Bounded'
<1>1. /\ IInv /\ IInv' /\ Bounded /\ Good(tsx) /\ tsx \in TsxType /\ Step(w)
      /\ ArgOK(pc[w]) /\ Backed(tsx)
  BY BoundStart
<1>2. ASSUME NEW e \in {RT, TO}, PopTimer(w, e) PROVE Bounded'
  <2>1. Sort(tsx, tsx') /\ Held(tsx') <= Held(tsx) + 1
    BY <1>1, <1>2, PopTally DEF PopTimer
  <2>2. "timer" \in Places \ {"idle"}
    BY DEF Places
  <2> QED
    BY <1>1, <1>2, <2>1, <2>2, BoundIn DEF PopTimer
<1>3. CASE StaleTimer(w)
  BY <1>1, <1>3, EvenRefl, BoundLeaves DEF StaleTimer
<1>4. CASE TransportErrorTimer(w)
  <2> DEFINE s == [tsx EXCEPT !.tm[pc[w].arg].id = Inactive]
  <2>1. pc[w].arg \in {RT, TO} /\ pc[w].at # "idle"
    BY <1>1, <1>4 DEF TransportErrorTimer, ArgOK
  <2>2. Even(tsx, s)
    BY <1>1, <2>1, ClearIdEven
  <2>3. "terr" \in Places \ {"idle"}
    BY DEF Places
  <2>4. (tsx' = s /\ Go(w, "terr", 0)) \/ Return(w, s)
    BY <1>4 DEF TransportErrorTimer
  <2> HIDE DEF s
  <2> QED
    BY <1>1, <2>1, <2>2, <2>3, <2>4, BoundOn, BoundLeaves
<1>5. CASE TimerEvent(w)
  <2>1. pc[w].arg \in {RT, TO} /\ pc[w].at # "idle" /\ "event" \in Places \ {"idle"}
    BY <1>1, <1>5 DEF TimerEvent, ArgOK, Places
  <2>2. Even(tsx, tsx')
    BY <1>1, <1>5, <2>1, ClearIdEven DEF TimerEvent
  <2> QED
    BY <1>1, <1>5, <2>1, <2>2, BoundOn DEF TimerEvent
<1>6. CASE RetransmitEvent(w)
  <2>1. PICK s \in OnRetransmitTimer(tsx) : Return(w, s)
    BY <1>6 DEF RetransmitEvent
  <2>2. Even(tsx, s) /\ pc[w].at # "idle"
    BY <1>1, <1>6, OnRetransmitTimerEven DEF EvenAll, RetransmitEvent
  <2> QED
    BY <1>1, <2>1, <2>2, BoundLeaves
<1>7. CASE TimeoutEvent(w)
  <2> DEFINE s == OnTimeout(tsx)
  <2>1. Even(tsx, s)
    BY <1>1, OnTimeoutEven
  <2>2. pc[w].at # "idle" /\ "tell" \in Places \ {"idle"}
    BY <1>7 DEF TimeoutEvent, Places
  <2>3. \/ Return(w, s)
        \/ tsx' = s /\ Go(w, "tell", s.state)
        \/ Return(w, Settle(s, s.state))
    BY <1>7 DEF TimeoutEvent
  <2> HIDE DEF s
  <2>4. Even(tsx, Settle(s, s.state))
    <3>1. Even(s, Settle(s, s.state))
      BY <2>1, SettleEven DEF Even
    <3> QED
      BY <1>1, <2>1, <3>1, EvenTrans
  <2> QED
    BY <1>1, <2>1, <2>2, <2>3, <2>4, BoundOn, BoundLeaves
<1>8. CASE TellTimeout(w)
  <2>1. pc[w].at # "idle" /\ "told" \in Places \ {"idle"}
    BY <1>8 DEF TellTimeout, Places
  <2>2. Even(tsx, tsx')
    BY <1>1, <1>8, TellPar DEF TellTimeout, Par
  <2> QED
    BY <1>1, <1>8, <2>1, <2>2, BoundOn DEF TellTimeout
<1>9. CASE AfterTimeout(w)
  <2>1. pc[w].at # "idle" /\ tsx.state = pc[w].arg
    BY <1>1, <1>9, Start DEF AfterTimeout, Place
  <2>2. Even(tsx, Settle(tsx, pc[w].arg))
    BY <1>1, <2>1, SettleEven
  <2> QED
    BY <1>1, <1>9, <2>1, <2>2, BoundLeaves DEF AfterTimeout
<1>10. CASE TransportErrorEvent(w)
  <2> DEFINE code == IF tsx.code < 200 THEN TransportError ELSE tsx.code
             q == [tsx EXCEPT !.transport = "none", !.code = code, !.state = Terminated]
  <2>1. pc[w].at # "idle" /\ "terrTell" \in Places \ {"idle"}
    BY <1>10 DEF TransportErrorEvent, Places
  <2>2. code \in 0..699 /\ Terminated \in StNull..Destroyed /\ "none" \in {"none", "up", "down"}
    BY <1>1 DEF TsxType, TransportError, Terminated, StNull, Destroyed
  <2>3. tsx' = Cancel(Detach(q), TO)
    BY <1>1, <1>10, <2>2 DEF TransportErrorEvent
  <2> HIDE DEF code
  <2>4. q \in TsxType
    BY <1>1, <2>2, ZenonT(40) DEF TsxType
  <2>5. Level(tsx, q)
    BY <1>1 DEF TsxType, Level, Gone
  <2>6. Even(tsx, q)
    BY <1>1, <2>4, <2>5, LevelEven
  <2> HIDE DEF q
  <2>7. Even(q, Detach(q))
    BY <2>6, DetachPar DEF Par, Even
  <2>8. Even(tsx, Detach(q))
    BY <1>1, <2>6, <2>7, EvenTrans
  <2>9. Even(tsx, tsx')
    BY <1>1, <2>3, <2>8, Ids, Along, ZenonT(40)
  <2> QED
    BY <1>1, <1>10, <2>1, <2>9, BoundOn DEF TransportErrorEvent
<1>11. CASE TellTransportError(w)
  <2>1. pc[w].at # "idle" /\ "terrSchedule" \in Places \ {"idle"}
    BY <1>11 DEF TellTransportError, Places
  <2>2. Even(tsx, tsx')
    BY <1>1, <1>11, TellPar DEF TellTransportError, Par
  <2> QED
    BY <1>1, <1>11, <2>1, <2>2, BoundOn DEF TellTransportError
<1>12. CASE ScheduleHandler(w)
  <2>1. pc[w].at # "idle"
    BY <1>12 DEF ScheduleHandler
  <2>2. Even(tsx, Schedule(tsx, TO, TimeoutTimer))
    BY <1>1, Ids, SchedulePar DEF Par
  <2> QED
    BY <1>1, <1>12, <2>1, <2>2, BoundLeaves DEF ScheduleHandler
<1> QED
  BY <1>2, <1>3, <1>4, <1>5, <1>6, <1>7, <1>8, <1>9, <1>10, <1>11, <1>12 DEF TimerStep

LEMMA RxStepBound ==
  ASSUME NEW w \in Workers, Bound(w), RxStep(w)
  PROVE  Bounded'
<1>1. /\ IInv /\ IInv' /\ Bounded /\ Good(tsx) /\ Step(w) /\ ArgOK(pc[w]) /\ Backed(tsx)
  BY BoundStart
<1>2. ASSUME NEW m \in Msgs, Lookup(w, m) PROVE Bounded'
  <2>1. /\ Held(tsx') = Held(tsx) + 1 /\ tsx'.state = tsx.state /\ tsx'.role = tsx.role
        /\ tsx'.loaded = tsx.loaded /\ tsx'.alt = tsx.alt /\ tsx'.resTp = tsx.resTp
        /\ tsx'.transport = tsx.transport
    BY <1>1, <1>2, AddRefTally DEF Lookup
  <2>2. Sort(tsx, tsx') /\ "rx" \in Places \ {"idle"}
    BY <2>1, PlainSort DEF Places
  <2>3. Held(tsx') <= Held(tsx) + 1
    BY <1>1, <2>1, HeldInt
  <2> QED
    BY <1>1, <1>2, <2>2, <2>3, BoundIn DEF Lookup
<1>3. CASE RecvResponse(w)
  <2> DEFINE c == pc[w].arg
  <2>1. pc[w].at # "idle" /\ c \in Msgs /\ "final" \in Places \ {"idle"}
    BY <1>1, <1>3 DEF RecvResponse, ArgOK, Places
  <2>2. \/ \E s \in OnLateResponse(tsx, c) : Return(w, s)
        \/ /\ tsx.state \in {Calling, Proceeding}
           /\ \E o \in OnResponse(tsx, c) : (tsx' = o.tsx /\ Go(w, "final", c)) \/ Return(w, o.tsx)
    BY <1>3 DEF RecvResponse
  <2> HIDE DEF c
  <2>3. ASSUME NEW s \in OnLateResponse(tsx, c), Return(w, s) PROVE Bounded'
    <3>1. Even(tsx, s)
      BY <1>1, <2>3, OnLateResponseEven DEF EvenAll
    <3> QED
      BY <1>1, <2>1, <2>3, <3>1, BoundLeaves
  <2>4. ASSUME tsx.state \in {Calling, Proceeding}, NEW o \in OnResponse(tsx, c),
               (tsx' = o.tsx /\ Go(w, "final", c)) \/ Return(w, o.tsx)
        PROVE  Bounded'
    <3>1. Even(tsx, o.tsx)
      BY <1>1, <2>1, <2>4, OnResponseEven DEF EvenOuts
    <3> QED
      BY <1>1, <2>1, <2>4, <3>1, BoundOn, BoundLeaves
  <2> QED
    BY <2>2, <2>3, <2>4
<1>4. CASE CompleteResponse(w)
  <2>1. pc[w].at # "idle" /\ tsx.state \in {Calling, Proceeding}
    BY <1>1, <1>4, Start DEF CompleteResponse, Place
  <2>2. ~Gone(tsx)
    BY <2>1, Ranks DEF Gone
  <2>3. Even(tsx, Complete(tsx, pc[w].arg))
    BY <1>1, <2>2, CompleteEven
  <2> QED
    BY <1>1, <1>4, <2>1, <2>3, BoundLeaves DEF CompleteResponse
<1>5. CASE RecvRequest(w)
  <2>1. PICK s \in OnRequest(tsx, pc[w].arg) : Return(w, s)
    BY <1>5 DEF RecvRequest
  <2>2. Even(tsx, s) /\ pc[w].at # "idle"
    BY <1>1, <1>5, OnRequestEven DEF EvenAll, RecvRequest
  <2> QED
    BY <1>1, <2>1, <2>2, BoundLeaves
<1> QED
  BY <1>2, <1>3, <1>4, <1>5 DEF RxStep

LEMMA DoneTally ==
  ASSUME NEW s, Good(s), NEW x, x \in s.sends,
         NEW t, t = [s EXCEPT !.sends = s.sends \ {x}]
  PROVE  /\ Good(t) /\ Held(t) = Held(s) + 1 /\ Sort(s, t) /\ Even(s, DecRef(t))
<1>1. Good(t) /\ Held(t) = Held(s) + 1 /\ Held(s) \in Int
  BY DoneHeld, HeldInt
<1>2. /\ t.role = s.role /\ t.loaded = s.loaded /\ t.state = s.state /\ t.alt = s.alt
      /\ t.resTp = s.resTp /\ t.transport = s.transport
  BY DEF Good, TsxType
<1> HIDE DEF Good
<1>3. Sort(s, t)
  BY <1>2 DEF Sort, Gone
<1>4. /\ Good(DecRef(t)) /\ Held(DecRef(t)) = Held(t) - 1
      /\ DecRef(t).state = t.state /\ DecRef(t).role = t.role /\ DecRef(t).loaded = t.loaded
      /\ DecRef(t).alt = t.alt /\ DecRef(t).resTp = t.resTp
      /\ DecRef(t).transport = t.transport
  BY <1>1, DecRefTally
<1>5. Held(DecRef(t)) <= Held(s)
  <2>1. Held(t) - 1 = Held(s)
    BY <1>1
  <2> QED
    BY <1>1, <1>4, <2>1
<1>6. Even(s, DecRef(t))
  BY <1>2, <1>4, <1>5 DEF Even, Gone
<1> QED
  BY <1>1, <1>3, <1>6

LEMMA SendStepBound ==
  ASSUME NEW w \in Workers, Bound(w), SendStep(w)
  PROVE  Bounded'
<1>1. /\ IInv /\ IInv' /\ Bounded /\ Good(tsx) /\ Step(w) /\ ArgOK(pc[w]) /\ Backed(tsx)
      /\ pc \in [Workers -> [at: Places, arg: Nat]]
  BY BoundStart
<1>2. ASSUME NEW m \in Msgs, SendCallback(w, m) PROVE Bounded'
  <2> DEFINE x == [kind |-> "sl", msg |-> m]
             done == [tsx EXCEPT !.sends = tsx.sends \ {x}]
  <2>1. /\ x \in tsx.sends /\ pc[w] = Idle
        /\ \/ ~tsx.loaded /\ tsx' = done /\ UNCHANGED pc
           \/ tsx' = done /\ Go(w, "sent", m)
           \/ Return(w, done)
    BY <1>2 DEF SendCallback
  <2> HIDE DEF x
  <2>2. /\ Good(done) /\ Held(done) = Held(tsx) + 1 /\ Sort(tsx, done)
        /\ Even(tsx, DecRef(done)) /\ Held(tsx) \in Int
    BY <1>1, <2>1, DoneTally, HeldInt
  <2> HIDE DEF done
  <2>3. "sent" \in Places \ {"idle"} /\ Held(done) <= Held(tsx) + 1
    BY <2>2 DEF Places
  <2>4. CASE ~tsx.loaded /\ tsx' = done /\ UNCHANGED pc
    BY <1>1, <2>2, <2>4, BoundKept
  <2>5. CASE tsx' = done /\ Go(w, "sent", m)
    BY <1>1, <2>1, <2>2, <2>3, <2>5, BoundIn
  <2>6. CASE Return(w, done)
    <3>1. pc' = pc /\ tsx' = DecRef(done)
      BY <1>1, <2>1, <2>6 DEF Return
    <3> QED
      BY <1>1, <2>2, <3>1, BoundOutside
  <2> QED
    BY <2>1, <2>4, <2>5, <2>6
<1>3. ASSUME NEW m \in Msgs, TransportCallback(w, m) PROVE Bounded'
  <2> DEFINE x == [kind |-> "tp", msg |-> m]
             sent == [tsx EXCEPT !.sends = tsx.sends \ {x}]
             done == Lower(sent, {"PENDING_TRANSPORT"})
  <2>1. /\ x \in tsx.sends /\ pc[w] = Idle
        /\ Return(w, done) \/ (tsx' = done /\ Go(w, "failed", 0))
    BY <1>3 DEF TransportCallback
  <2> HIDE DEF x
  <2>2. /\ Good(sent) /\ Held(sent) = Held(tsx) + 1 /\ Sort(tsx, sent)
        /\ Even(tsx, DecRef(sent)) /\ Held(tsx) \in Int
    BY <1>1, <2>1, DoneTally, HeldInt
  <2> HIDE DEF sent
  <2>3. Even(sent, done)
    BY <2>2, LowerPar DEF Par
  <2> HIDE DEF done
  <2>4. Sort(tsx, done)
    BY <2>2, <2>3 DEF Sort, Even
  <2>5. "failed" \in Places \ {"idle"} /\ Held(done) <= Held(tsx) + 1
    BY <2>2, <2>3 DEF Places, Even
  <2>6. CASE tsx' = done /\ Go(w, "failed", 0)
    BY <1>1, <2>1, <2>4, <2>5, <2>6, BoundIn
  <2>7. CASE Return(w, done)
    <3>1. pc' = pc /\ tsx' = DecRef(done)
      BY <1>1, <2>1, <2>7 DEF Return
    <3>2. Even(tsx, DecRef(done))
      <4>1. Even(DecRef(sent), DecRef(done))
        BY <2>2, <2>3, DecRefEven
      <4> QED
        BY <1>1, <2>2, <4>1, EvenTrans
    <3> QED
      BY <1>1, <3>1, <3>2, BoundOutside
  <2> QED
    BY <2>1, <2>6, <2>7
<1>4. CASE SendCallbackLocked(w)
  <2>1. /\ pc[w].arg \in Msgs /\ pc[w].at # "idle" /\ pc[w].at = "sent"
        /\ pc' = [pc EXCEPT ![w] = Idle]
        /\ tsx' \in Delivered(tsx) \cup Undelivered(tsx, pc[w].arg)
    BY <1>1, <1>4 DEF SendCallbackLocked, ArgOK
  <2>2. Retries(tsx, pc[w].arg)
    <3>1. tsx.role = "UAS" => tsx.alt = 0
      BY <1>1 DEF Bounded
    <3>2. tsx.role = "UAC" => ~tsx.resTp /\ [kind |-> "sl", msg |-> pc[w].arg] \notin tsx.sends
      BY <2>1 DEF Bound, WInv, Unrepeated, SentPlace
    <3>3. tsx.role \in {"UAC", "UAS"}
      BY <1>1 DEF Good, TsxType
    <3> QED
      BY <3>1, <3>2, <3>3 DEF Retries
  <2>3. EvenAll(DecRef(tsx), Delivered(tsx)) /\ EvenAll(DecRef(tsx), Undelivered(tsx, pc[w].arg))
    BY <1>1, <2>1, <2>2, DeliveredEven, UndeliveredEven
  <2>4. Even(DecRef(tsx), tsx')
    BY <2>1, <2>3 DEF EvenAll
  <2> QED
    BY <1>1, <2>1, <2>4, BoundOut
<1>5. CASE TransportFailed(w)
  <2>1. pc[w].at # "idle"
    BY <1>5 DEF TransportFailed
  <2>2. Even(tsx, PostTransportError(tsx))
    BY <1>1, PostTransportErrorPar DEF Par
  <2> QED
    BY <1>1, <1>5, <2>1, <2>2, BoundLeaves DEF TransportFailed
<1> QED
  BY <1>2, <1>3, <1>4, <1>5 DEF SendStep

LEMMA UserStepBound ==
  ASSUME NEW w \in Workers, Bound(w), UserStep
  PROVE  Bounded'
<1>1. /\ IInv /\ IInv' /\ Bounded /\ Good(tsx) /\ Step(w) /\ Backed(tsx)
  BY BoundStart
<1>2. SUFFICES pc' = pc /\ Even(tsx, tsx')
  BY <1>1, BoundOutside
<1>3. CASE SendRequest
  <2>1. /\ LockFree /\ pc' = pc /\ tsx.role = "UAC" /\ tsx.state = StNull
        /\ tsx' \in OnSendRequest(tsx)
    BY <1>3 DEF SendRequest
  <2>2. tsx.state < Terminated
    BY <2>1, Ranks
  <2>3. Lives(tsx) /\ ~tsx.resTp
    BY <1>1, <2>1, <2>2, AliveHere DEF Bound, WInv
  <2> QED
    BY <1>1, <2>1, <2>3, OnSendRequestEven
<1>4. ASSUME NEW c \in Codes, SendResponse(c) PROVE pc' = pc /\ Even(tsx, tsx')
  <2>1. /\ LockFree /\ pc' = pc /\ tsx.state \in {Trying, Proceeding}
        /\ c # tsx.lastTx /\ tsx' \in OnSendResponse(tsx, c)
    BY <1>4 DEF SendResponse
  <2>2. tsx.state < Terminated
    BY <2>1, Ranks
  <2>3. Lives(tsx)
    BY <1>1, <2>1, <2>2, AliveHere
  <2> QED
    BY <1>1, <2>1, <2>3, OnSendResponseEven DEF EvenAll
<1>5. ASSUME NEW v \in Workers, NEW c \in Codes, RetransmitNoState(v, c)
      PROVE  pc' = pc /\ Even(tsx, tsx')
  <2>1. /\ pc' = pc /\ pc[w] = Idle /\ tsx.heard = <<>>
        /\ \E o \in SendMsg(tsx, c) : tsx' = o.tsx
    BY <1>5 DEF RetransmitNoState, InUse, Bound
  <2>2. Lives(tsx)
    BY <1>1, <2>1, Start DEF Idle
  <2>3. tsx.state < Terminated
    BY <1>1, <2>1, <2>2, StateIs, Ranks DEF Lives
  <2>4. c \in Msgs /\ ~Gone(tsx)
    BY <2>3, CodeRange, Ranks DEF Gone
  <2> QED
    BY <1>1, <2>1, <2>4, SendMsgEven DEF EvenOuts
<1>6. CASE Terminate
  <2> DEFINE q == [tsx EXCEPT !.code = RequestTerminated]
  <2>1. pc' = pc /\ tsx' = SetState(q, Terminated)
    BY <1>6 DEF Terminate
  <2>2. RequestTerminated \in 0..699
    BY DEF RequestTerminated
  <2>3. Even(tsx, q)
    BY <1>1, <2>2, FieldsPar, ZenonT(40) DEF Par
  <2> HIDE DEF q
  <2> QED
    BY <1>1, <2>1, <2>3, EndEven
<1>7. CASE StopRetransmit
  BY <1>1, <1>7, Ids, CancelPar DEF StopRetransmit, Par
<1>8. CASE SetTimeout
  BY <1>1, <1>8, Ids, RestartPar DEF SetTimeout, Par
<1> QED
  BY <1>3, <1>4, <1>5, <1>6, <1>7, <1>8 DEF UserStep

LEMMA TransportDownBound ==
  ASSUME NEW w \in Workers, Bound(w), TransportDown
  PROVE  Bounded'
<1> DEFINE q == [tsx EXCEPT !.transport = "down"]
<1>1. IInv /\ IInv' /\ Bounded /\ Good(tsx) /\ tsx \in TsxType
  BY BoundStart
<1>2. tsx' = PostTransportError(q) /\ pc' = pc /\ "down" \in {"none", "up", "down"}
  BY DEF TransportDown
<1>3. q \in TsxType
  BY <1>1, <1>2, ZenonT(40) DEF TsxType
<1>4. Level(tsx, q)
  BY <1>1 DEF TsxType, Level, Gone
<1>5. Even(tsx, q)
  BY <1>1, <1>3, <1>4, LevelEven
<1> HIDE DEF q
<1>6. Even(q, tsx')
  BY <1>2, <1>5, PostTransportErrorPar DEF Par, Even
<1>7. Even(tsx, tsx')
  BY <1>1, <1>5, <1>6, EvenTrans
<1> QED
  BY <1>1, <1>2, <1>7, BoundOutside

(* The layer takes the count with it. *)
LEMMA LayerStopBound ==
  ASSUME NEW w \in Workers, Bound(w), LayerStop
  PROVE  Bounded'
<1> DEFINE q == [tsx EXCEPT !.code = TransportError]
           t == IF tsx.state < Terminated THEN SetState(q, Terminated) ELSE tsx
           u == [t EXCEPT !.registered = FALSE, !.loaded = FALSE]
<1>1. IInv /\ IInv' /\ Bounded /\ Good(tsx)
  BY BoundStart
<1>2. tsx' = Shutdown(u)
  BY DEF LayerStop
<1>3. Even(tsx, q)
  <2>1. TransportError \in 0..699
    BY DEF TransportError
  <2> QED
    BY <1>1, <2>1, FieldsPar, ZenonT(40) DEF Par
<1> HIDE DEF q
<1>4. Even(tsx, t) /\ Gone(t)
  <2>1. tsx.state < Terminated \/ Gone(tsx)
    BY <1>1, StateIs, Ranks DEF Gone
  <2> QED
    BY <1>1, <1>3, <2>1, EndEven, EvenRefl
<1> HIDE DEF t
<1>5. t \in TsxType /\ Good(t) /\ FALSE \in BOOLEAN
  BY <1>4 DEF Even, Good
<1>6. u \in TsxType
  BY <1>5, ZenonT(40) DEF TsxType
<1>7. /\ Alike(t, u) /\ ~u.registered /\ ~u.loaded /\ u.state = t.state /\ u.role = t.role
      /\ u.alt = t.alt
  BY <1>5 DEF TsxType, Alike
<1>8. Good(u) /\ Gone(u)
  BY <1>4, <1>5, <1>6, <1>7, Neutral DEF Safe, Gone
<1> HIDE DEF u
<1>9. Even(u, tsx')
  BY <1>2, <1>7, <1>8, ShutdownEven
<1>10. Gone(tsx') /\ ~tsx'.loaded /\ (tsx.alt = 0 => tsx'.alt = 0) /\ tsx'.role = tsx.role
  BY <1>4, <1>7, <1>8, <1>9 DEF Even
<1> QED
  BY <1>1, <1>10 DEF Bounded, Backed

LEMMA InitBounded == ASSUME Init PROVE Bounded
<1>1. PICK k \in Kinds, reliable \in BOOLEAN, handle200 \in BOOLEAN,
           same \in BOOLEAN, alt \in 0..MaxAlt :
        /\ k.role = "UAC" => ~same
        /\ k.role = "UAS" => alt = 0 /\ (reliable => same)
        /\ tsx = Created(k, reliable, handle200, same, alt)
  BY DEF Init
<1>2. /\ tsx.role = k.role /\ tsx.alt = alt /\ tsx.resTp = same /\ tsx.ref = 1
      /\ tsx.transport = (IF same THEN "up" ELSE "none")
      /\ ~tsx.terminating /\ tsx.sends = {}
      /\ tsx.tm = [e \in {RT, TO} |-> [armed |-> FALSE, id |-> Inactive]]
  BY <1>1 DEF Created
<1>3. Held(tsx) = 0
  <2>1. Armed(tsx, RT) = 0 /\ Armed(tsx, TO) = 0
    BY <1>2 DEF Armed
  <2>2. Cardinality(tsx.sends) = 0
    BY <1>2, FS_EmptySet
  <2> QED
    BY <1>2, <2>1, <2>2 DEF Held, Weight
<1>4. Cardinality(Busy) \in Nat
  BY WorkersAssumption, FS_Subset, FS_CardinalityType DEF Busy
<1> QED
  BY <1>1, <1>2, <1>3, <1>4 DEF Bounded, Backed

LEMMA NextBounded ==
  ASSUME NEW w, Workers = {w}, IInv, IInv', LInv, WInv, Unrepeated, Bounded, [Next]_vars
  PROVE  Bounded'
<1>1. w \in Workers /\ Bound(w)
  BY DEF LInv, Step, Bound
<1>2. CASE UNCHANGED vars
  BY <1>2 DEF vars, Bounded, Backed, Held, Weight, Armed, Busy, Gone
<1> QED
  BY <1>1, <1>2, TimerStepBound, RxStepBound, SendStepBound, UserStepBound, TransportDownBound,
     LayerStopBound DEF Next, Over

(* The count says who is there and no more: as long as the layer is loaded  *)
(* and one thread polls, no path of the file, whatever fails in it, keeps a *)
(* reference that nobody gives back.  With a second thread a final response *)
(* that fails at once may leave the table's reference behind.               *)
THEOREM NoneKept ==
  ASSUME NEW CONSTANT w, Workers = {w}
  PROVE  Spec => []NoLeak
<1>1. IInv /\ Bounded => NoLeak
  <2> SUFFICES ASSUME IInv, Bounded, tsx.loaded
               PROVE  tsx.ref = Weight(tsx) + Cardinality(Busy)
    BY DEF NoLeak
  <2>1. Held(tsx) <= Cardinality(Busy) /\ Held(tsx) >= Cardinality(Busy)
    BY DEF IInv, Bounded
  <2>2. tsx.ref \in Int /\ Weight(tsx) \in Int /\ Held(tsx) \in Int
    BY HeldInt DEF IInv, Good, TsxType
  <2>3. Cardinality(Busy) \in Nat
    BY WorkersAssumption, FS_Subset, FS_CardinalityType DEF Busy
  <2> QED
    BY <2>1, <2>2, <2>3 DEF Held
<1>2. Init => LInv /\ Unrepeated /\ Bounded
  BY InitLInv, InitUnrepeated, InitBounded
<1>3. LInv /\ IInv /\ IInv' /\ [Next]_vars => LInv'
  BY NextLInv
<1>4. Timely => WInv
  BY DEF Timely
<1>5. Unrepeated /\ IInv /\ IInv' /\ LInv /\ WInv /\ [Next]_vars => Unrepeated'
  BY NextUnrepeated
<1>6. Bounded /\ Unrepeated /\ IInv /\ IInv' /\ LInv /\ WInv /\ [Next]_vars => Bounded'
  BY NextBounded
<1> QED
  BY <1>1, <1>2, <1>3, <1>4, <1>5, <1>6, Invariance, AlwaysTimely, PTL DEF Spec
===============================================================================
