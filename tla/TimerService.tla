---------------------------- MODULE TimerService ----------------------------
(***************************************************************************)
(* What the timer heap of pjlib promises those who schedule timers, without *)
(* saying how the timers are kept: a timer is called once for each time it  *)
(* was scheduled, not before its time, not before one that expires earlier, *)
(* and never after a cancellation that found it; while it is pending or     *)
(* being called it holds one reference to its group lock.                   *)
(***************************************************************************)
EXTENDS Naturals, FiniteSets

CONSTANTS Entries,   \* timer entries
          Threads,   \* threads that poll
          Groups,    \* group locks that timers are scheduled with
          NoGroup,   \* "scheduled without a group lock"
          NoCall,    \* "this thread is calling nobody"
          Times      \* times that timers may be scheduled for

(* What the theorem about references needs of the parameters.               *)
Parameters ==
  /\ IsFiniteSet(Entries) /\ IsFiniteSet(Threads)
  /\ \A e \in Entries, g \in Groups \cup {NoGroup} : NoCall # [entry |-> e, grp |-> g]

VARIABLES pending,   \* the timers scheduled, each with its time and group lock
          calls,     \* for each thread, the timer whose callback it runs
          refs,      \* for each group lock, the references timers hold on it
          now        \* the clock

vars == <<pending, calls, refs, now>>

Scheduled == DOMAIN pending

Init ==
  /\ pending = << >>
  /\ calls = [t \in Threads |-> NoCall]
  /\ refs = [g \in Groups |-> 0]
  /\ now = 0

AddRef(g) == refs' = [x \in Groups |-> IF x = g THEN refs[x] + 1 ELSE refs[x]]
DecRef(g) == refs' = [x \in Groups |-> IF x = g THEN refs[x] - 1 ELSE refs[x]]

Without(e) == [f \in Scheduled \ {e} |-> pending[f]]

Schedule(e, v, g) ==
  /\ e \notin Scheduled
  /\ pending' = [f \in Scheduled \cup {e} |->
                   IF f = e THEN [value |-> v, grp |-> g] ELSE pending[f]]
  /\ AddRef(g)
  /\ UNCHANGED <<calls, now>>

Cancel(e) ==
  /\ e \in Scheduled
  /\ pending' = Without(e)
  /\ DecRef(pending[e].grp)
  /\ UNCHANGED <<calls, now>>

(* The reference goes with the callback. *)
Expire(t, e) ==
  /\ calls[t] = NoCall
  /\ e \in Scheduled
  /\ pending[e].value <= now
  /\ \A f \in Scheduled : pending[e].value <= pending[f].value
  /\ pending' = Without(e)
  /\ calls' = [calls EXCEPT ![t] = [entry |-> e, grp |-> pending[e].grp]]
  /\ UNCHANGED <<refs, now>>

Return(t) ==
  /\ calls[t] # NoCall
  /\ calls' = [calls EXCEPT ![t] = NoCall]
  /\ DecRef(calls[t].grp)
  /\ UNCHANGED <<pending, now>>

(* The clock stays within the times there are. *)
Tick == now + 1 \in Times /\ now' = now + 1 /\ UNCHANGED <<pending, calls, refs>>

Next ==
  \/ \E e \in Entries, v \in Times, g \in Groups \cup {NoGroup} : Schedule(e, v, g)
  \/ \E e \in Entries : Cancel(e)
  \/ \E t \in Threads, e \in Entries : Expire(t, e)
  \/ \E t \in Threads : Return(t)
  \/ Tick

Spec == Init /\ [][Next]_vars
-----------------------------------------------------------------------------
PendingOn(g) == {e \in Scheduled : pending[e].grp = g}
CallsOn(g) == {t \in Threads : calls[t] # NoCall /\ calls[t].grp = g}

TypeOK ==
  /\ pending \in UNION {[S -> [value: Times, grp: Groups \cup {NoGroup}]] : S \in SUBSET Entries}
  /\ calls \in [Threads -> {NoCall} \cup [entry: Entries, grp: Groups \cup {NoGroup}]]
  /\ refs \in [Groups -> Nat]
  /\ now \in Nat

(* The references that timers hold on a group lock are those of its pending *)
(* timers and of its callbacks: pj_timer_heap_schedule_w_grp_lock takes one *)
(* reference, and cancel_timer or the poll gives it back, once.             *)
RefsExact == \A g \in Groups : refs[g] = Cardinality(PendingOn(g)) + Cardinality(CallsOn(g))
=============================================================================
