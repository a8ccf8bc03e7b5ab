------------------------ MODULE TimerService_proofs ------------------------
(***************************************************************************)
(* The references that timers hold are counted exactly, whatever the        *)
(* numbers of timers, of polling threads and of group locks.                *)
(***************************************************************************)
EXTENDS TimerService, FiniteSetTheorems, TLAPS

Inv == TypeOK /\ RefsExact

(* Both sets that RefsExact counts are finite. *)
LEMMA Finite ==
  ASSUME Parameters, TypeOK, NEW g \in Groups
  PROVE  /\ IsFiniteSet(PendingOn(g)) /\ Cardinality(PendingOn(g)) \in Nat
         /\ IsFiniteSet(CallsOn(g)) /\ Cardinality(CallsOn(g)) \in Nat
<1>1. Scheduled \subseteq Entries
  BY DEF TypeOK, Scheduled
<1>2. PendingOn(g) \subseteq Entries /\ CallsOn(g) \subseteq Threads
  BY <1>1 DEF PendingOn, CallsOn
<1> QED
  BY <1>2, FS_Subset, FS_CardinalityType DEF Parameters

LEMMA Initially == Init => Inv
<1> SUFFICES ASSUME Init PROVE Inv
  OBVIOUS
<1>1. pending = [f \in {} |-> f] /\ Scheduled = {}
  BY DEF Init, Scheduled
<1>2. pending \in [{} -> [value: Times, grp: Groups \cup {NoGroup}]]
  BY <1>1
<1>3. TypeOK
  BY <1>2 DEF Init, TypeOK
<1>4. ASSUME NEW g \in Groups PROVE PendingOn(g) = {} /\ CallsOn(g) = {}
  BY <1>1 DEF PendingOn, CallsOn, Init
<1>5. RefsExact
  <2>1. \A g \in Groups : refs[g] = 0
    BY DEF Init
  <2> QED
    BY <1>4, <2>1, FS_EmptySet DEF RefsExact
<1> QED
  BY <1>3, <1>5 DEF Inv

LEMMA ScheduleSafe ==
  ASSUME Parameters, Inv, NEW e \in Entries, NEW v \in Times, NEW h \in Groups \cup {NoGroup},
         Schedule(e, v, h)
  PROVE  Inv'
<1> USE DEF Inv
<1> DEFINE Timer == [value: Times, grp: Groups \cup {NoGroup}]
           new == [value |-> v, grp |-> h]
<1>1. e \notin Scheduled /\ Scheduled' = Scheduled \cup {e}
  BY DEF Schedule, Scheduled
<1>2. pending'[e] = new /\ \A f \in Scheduled : pending'[f] = pending[f]
  BY <1>1 DEF Schedule
<1>3. Scheduled \subseteq Entries /\ pending \in [Scheduled -> Timer]
  BY DEF TypeOK, Scheduled
<1>4. pending' \in [Scheduled' -> Timer] /\ Scheduled' \subseteq Entries
  BY <1>1, <1>2, <1>3 DEF Schedule
<1>5. TypeOK'
  <2>1. pending' \in UNION {[S -> Timer] : S \in SUBSET Entries}
    BY <1>4
  <2>2. refs' \in [Groups -> Nat]
    BY DEF Schedule, AddRef, TypeOK
  <2> QED
    BY <2>1, <2>2 DEF TypeOK, Schedule
<1>6. ASSUME NEW g \in Groups
      PROVE  refs'[g] = Cardinality(PendingOn(g)') + Cardinality(CallsOn(g)')
  <2>1. CallsOn(g)' = CallsOn(g)
    BY DEF Schedule, CallsOn
  <2>2. refs'[g] = IF g = h THEN refs[g] + 1 ELSE refs[g]
    BY DEF Schedule, AddRef
  <2>3. refs[g] = Cardinality(PendingOn(g)) + Cardinality(CallsOn(g))
    BY DEF RefsExact
  <2>4. CASE g = h
    <3>1. PendingOn(g)' = PendingOn(g) \cup {e} /\ e \notin PendingOn(g)
      BY <1>1, <1>2, <2>4 DEF PendingOn
    <3>2. Cardinality(PendingOn(g)') = Cardinality(PendingOn(g)) + 1
      BY <3>1, Finite, FS_AddElement
    <3> QED
      BY <2>1, <2>2, <2>3, <2>4, <3>2, Finite
  <2>5. CASE g # h
    <3>1. PendingOn(g)' = PendingOn(g)
      BY <1>1, <1>2, <2>5 DEF PendingOn
    <3> QED
      BY <2>1, <2>2, <2>3, <2>5, <3>1
  <2> QED
    BY <2>4, <2>5
<1> QED
  BY <1>5, <1>6 DEF RefsExact

(* Taking a timer out takes one from what its group lock counts as pending. *)
LEMMA TakenOut ==
  ASSUME Parameters, Inv, NEW e \in Scheduled, pending' = Without(e)
  PROVE  /\ pending' \in UNION {[S -> [value: Times, grp: Groups \cup {NoGroup}]]
                                 : S \in SUBSET Entries}
         /\ \A g \in Groups :
              Cardinality(PendingOn(g)') =
                IF g = pending[e].grp THEN Cardinality(PendingOn(g)) - 1
                                      ELSE Cardinality(PendingOn(g))
<1> USE DEF Inv
<1> DEFINE Timer == [value: Times, grp: Groups \cup {NoGroup}]
<1>1. Scheduled' = Scheduled \ {e} /\ \A f \in Scheduled' : pending'[f] = pending[f]
  BY DEF Without, Scheduled
<1>2. Scheduled \subseteq Entries /\ pending \in [Scheduled -> Timer]
  BY DEF TypeOK, Scheduled
<1>3. pending' \in [Scheduled \ {e} -> Timer]
  BY <1>2 DEF Without
<1>4. ASSUME NEW g \in Groups
      PROVE  Cardinality(PendingOn(g)') =
                IF g = pending[e].grp THEN Cardinality(PendingOn(g)) - 1
                                      ELSE Cardinality(PendingOn(g))
  <2>1. CASE g = pending[e].grp
    <3>1. e \in PendingOn(g) /\ PendingOn(g)' = PendingOn(g) \ {e}
      BY <1>1, <2>1 DEF PendingOn
    <3> QED
      BY <2>1, <3>1, Finite, FS_RemoveElement
  <2>2. CASE g # pending[e].grp
    <3>1. PendingOn(g)' = PendingOn(g)
      BY <1>1, <2>2 DEF PendingOn
    <3> QED
      BY <2>2, <3>1
  <2> QED
    BY <2>1, <2>2
<1> QED
  BY <1>2, <1>3, <1>4

(* There is a reference to give back while a timer is pending. *)
LEMMA PendingCounted ==
  ASSUME Parameters, Inv, NEW e \in Scheduled, pending[e].grp \in Groups
  PROVE  refs[pending[e].grp] > 0
<1> DEFINE g == pending[e].grp
<1>1. e \in PendingOn(g)
  BY DEF PendingOn
<1>2. Cardinality(PendingOn(g)) # 0
  BY <1>1, Finite, FS_EmptySet DEF Inv
<1> QED
  BY <1>2, Finite DEF Inv, RefsExact

LEMMA CancelSafe ==
  ASSUME Parameters, Inv, NEW e \in Entries, Cancel(e)
  PROVE  Inv'
<1> USE DEF Inv
<1> DEFINE h == pending[e].grp
<1>1. e \in Scheduled /\ pending' = Without(e)
  BY DEF Cancel
<1>2. \A g \in Groups : CallsOn(g)' = CallsOn(g)
  BY DEF Cancel, CallsOn
<1>3. refs' = [g \in Groups |-> IF g = h THEN refs[g] - 1 ELSE refs[g]]
  BY DEF Cancel, DecRef
<1>4. TypeOK'
  <2>1. ASSUME NEW g \in Groups PROVE refs'[g] \in Nat
    BY <1>1, <1>3, PendingCounted DEF TypeOK
  <2>2. refs' \in [Groups -> Nat]
    BY <1>3, <2>1
  <2> QED
    BY <1>1, <2>2, TakenOut DEF TypeOK, Cancel
<1>5. ASSUME NEW g \in Groups
      PROVE  refs'[g] = Cardinality(PendingOn(g)') + Cardinality(CallsOn(g)')
  BY <1>1, <1>2, <1>3, TakenOut, Finite DEF RefsExact
<1> QED
  BY <1>4, <1>5 DEF RefsExact

LEMMA ExpireSafe ==
  ASSUME Parameters, Inv, NEW t \in Threads, NEW e \in Entries, Expire(t, e)
  PROVE  Inv'
<1> USE DEF Inv
<1> DEFINE h == pending[e].grp
           call == [entry |-> e, grp |-> h]
<1>1. e \in Scheduled /\ pending' = Without(e) /\ calls[t] = NoCall
  BY DEF Expire
<1>2. calls' = [calls EXCEPT ![t] = call] /\ refs' = refs
  BY DEF Expire
<1>3. pending[e] \in [value: Times, grp: Groups \cup {NoGroup}]
  BY <1>1 DEF TypeOK, Scheduled
<1>4. call \in [entry: Entries, grp: Groups \cup {NoGroup}] /\ call # NoCall
  BY <1>3 DEF Parameters
<1>5. TypeOK'
  <2>1. calls' \in [Threads -> {NoCall} \cup [entry: Entries, grp: Groups \cup {NoGroup}]]
    BY <1>2, <1>4 DEF TypeOK
  <2> QED
    BY <1>1, <2>1, TakenOut DEF TypeOK, Expire
<1>6. ASSUME NEW g \in Groups
      PROVE  refs'[g] = Cardinality(PendingOn(g)') + Cardinality(CallsOn(g)')
  <2>1. calls'[t] = call /\ \A u \in Threads \ {t} : calls'[u] = calls[u]
    BY <1>2 DEF TypeOK
  <2>2. CASE g = h
    <3>1. CallsOn(g)' = CallsOn(g) \cup {t} /\ t \notin CallsOn(g)
      BY <1>1, <1>4, <2>1, <2>2 DEF CallsOn
    <3>2. Cardinality(CallsOn(g)') = Cardinality(CallsOn(g)) + 1
      BY <3>1, Finite, FS_AddElement
    <3>3. Cardinality(PendingOn(g)') = Cardinality(PendingOn(g)) - 1
      BY <1>1, <2>2, TakenOut
    <3> QED
      BY <1>2, <3>2, <3>3, Finite DEF RefsExact
  <2>3. CASE g # h
    <3>1. CallsOn(g)' = CallsOn(g)
      BY <1>1, <1>4, <2>1, <2>3 DEF CallsOn
    <3>2. Cardinality(PendingOn(g)') = Cardinality(PendingOn(g))
      BY <1>1, <2>3, TakenOut
    <3> QED
      BY <1>2, <3>1, <3>2 DEF RefsExact
  <2> QED
    BY <2>2, <2>3
<1> QED
  BY <1>5, <1>6 DEF RefsExact

LEMMA ReturnSafe ==
  ASSUME Parameters, Inv, NEW t \in Threads, Return(t)
  PROVE  Inv'
<1> USE DEF Inv
<1> DEFINE h == calls[t].grp
<1>1. calls[t] # NoCall /\ calls' = [calls EXCEPT ![t] = NoCall] /\ pending' = pending
  BY DEF Return
<1>2. refs' = [g \in Groups |-> IF g = h THEN refs[g] - 1 ELSE refs[g]]
  BY DEF Return, DecRef
<1>3. calls'[t] = NoCall /\ \A u \in Threads \ {t} : calls'[u] = calls[u]
  BY <1>1 DEF TypeOK
<1>4. \A g \in Groups : PendingOn(g)' = PendingOn(g)
  BY <1>1 DEF PendingOn, Scheduled
<1>5. ASSUME NEW g \in Groups
      PROVE  /\ Cardinality(CallsOn(g)') = IF g = h THEN Cardinality(CallsOn(g)) - 1
                                                    ELSE Cardinality(CallsOn(g))
             /\ g = h => Cardinality(CallsOn(g)) # 0
  <2>1. CASE g = h
    <3>1. t \in CallsOn(g) /\ CallsOn(g)' = CallsOn(g) \ {t}
      BY <1>1, <1>3, <2>1 DEF CallsOn
    <3> QED
      BY <2>1, <3>1, Finite, FS_RemoveElement, FS_EmptySet
  <2>2. CASE g # h
    <3>1. CallsOn(g)' = CallsOn(g)
      BY <1>1, <1>3, <2>2 DEF CallsOn
    <3> QED
      BY <2>2, <3>1
  <2> QED
    BY <2>1, <2>2
<1>6. ASSUME NEW g \in Groups
      PROVE  /\ refs'[g] \in Nat
             /\ refs'[g] = Cardinality(PendingOn(g)') + Cardinality(CallsOn(g)')
  <2>1. refs[g] = Cardinality(PendingOn(g)) + Cardinality(CallsOn(g))
    BY DEF RefsExact
  <2> QED
    BY <1>2, <1>4, <1>5, <2>1, Finite
<1>7. TypeOK'
  <2>1. refs' \in [Groups -> Nat]
    BY <1>2, <1>6
  <2> QED
    BY <1>1, <2>1 DEF TypeOK, Return
<1> QED
  BY <1>6, <1>7 DEF RefsExact

LEMMA Step ==
  ASSUME Parameters
  PROVE  Inv /\ [Next]_vars => Inv'
<1> SUFFICES ASSUME Inv, [Next]_vars PROVE Inv'
  OBVIOUS
<1>1. ASSUME NEW e \in Entries, NEW v \in Times, NEW g \in Groups \cup {NoGroup},
             Schedule(e, v, g)
      PROVE  Inv'
  BY <1>1, ScheduleSafe
<1>2. ASSUME NEW e \in Entries, Cancel(e) PROVE Inv'
  BY <1>2, CancelSafe
<1>3. ASSUME NEW t \in Threads, NEW e \in Entries, Expire(t, e) PROVE Inv'
  BY <1>3, ExpireSafe
<1>4. ASSUME NEW t \in Threads, Return(t) PROVE Inv'
  BY <1>4, ReturnSafe
<1>5. CASE Tick
  BY <1>5 DEF Tick, Inv, TypeOK, RefsExact, PendingOn, CallsOn, Scheduled
<1>6. CASE UNCHANGED vars
  BY <1>6 DEF vars, Inv, TypeOK, RefsExact, PendingOn, CallsOn, Scheduled
<1> QED
  BY <1>1, <1>2, <1>3, <1>4, <1>5, <1>6 DEF Next

(* pjlib's timers hold exactly one reference for each timer that is pending *)
(* or being called: the reference pj_timer_heap_schedule_w_grp_lock takes   *)
(* is given back once, by cancel_timer or after the callback.               *)
THEOREM RefsCounted ==
  ASSUME Parameters
  PROVE  Spec => []RefsExact
<1>1. Spec => []Inv
  BY Initially, Step, PTL DEF Spec
<1>2. Inv => RefsExact
  BY DEF Inv
<1> QED
  BY <1>1, <1>2, PTL
=============================================================================
