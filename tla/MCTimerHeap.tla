---------------------------- MODULE MCTimerHeap ----------------------------
(* The instances of TimerHeap that TLC checks. *)
EXTENDS TimerHeap

(* Seven timers, scheduled in an order that leaves each where it was        *)
(* inserted: every heap-ordered array of their times is a start.  With the  *)
(* clock at its bound none is scheduled any more; they expire and are       *)
(* cancelled.                                                               *)
SevenEntries == 1 .. 7
FullArrays == {v \in [SevenEntries -> 0 .. 1] : \A e \in 2 .. 7 : v[e \div 2] <= v[e]}

FullInit ==
  /\ \E v \in FullArrays :
       ht = [max |-> Size + 2, heap |-> [s \in 0 .. 6 |-> s + 1], free |-> 8,
             ids |-> [i \in 0 .. Size + 1 |-> IF i \in 1 .. 7 THEN i - 1 ELSE -(i + 1)],
             tid |-> [e \in Entries |-> e], value |-> v]
  /\ grpLock = [e \in Entries |-> NoGroup]
  /\ refs = [g \in Groups |-> 0]
  /\ overrun = FALSE /\ now = 0
  /\ pc = [t \in Threads |-> Idle]

FullSpec == FullInit /\ [][Next]_vars

ThreadSymmetry == Permutations(Entries) \cup Permutations(Threads)
=============================================================================
