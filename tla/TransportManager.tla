--------------------------- MODULE TransportManager ---------------------------
(***************************************************************************)
(* The transport manager (sip_transport.c) with the connections that the   *)
(* TCP transport (sip_transport_tcp.c) makes to one remote address: how    *)
(* they are found, shared, kept while idle, shut down and destroyed, and   *)
(* what becomes of the messages given to them.                             *)
(*                                                                         *)
(* A thread has a stack of calls that it is inside of.  A call says what   *)
(* is left to do; it takes one step for each stretch of code between two   *)
(* points at which another thread matters: a lock, an atomic counter, a    *)
(* flag that is read without a lock.  What runs under the manager's lock   *)
(* is one step; so is what runs under a transport's lock, except where the *)
(* code looks at a flag that changes without the lock (Enqueue, Push).     *)
(***************************************************************************)
EXTENDS Naturals, Sequences, FiniteSets

CONSTANTS
    Threads,        \* worker and application threads
    Users,          \* who holds transports: transactions and stateless sends
    MaxTransports,  \* how many connections are made
    MaxUses,        \* how often one user acquires a transport
    Nobody          \* no thread, no user

ASSUME BoundsAssumption == MaxTransports \in Nat /\ MaxUses \in Nat
ASSUME NobodyAssumption == Nobody \notin Threads \cup Users
ASSUME FiniteAssumption == IsFiniteSet(Threads) /\ IsFiniteSet(Users)

VARIABLES
    tp,         \* the transports
    table,      \* the transport found under the address, or NoTp
    listed,     \* those that another took the place of in the table
    stack,      \* what each thread is inside of, innermost first
    user,       \* each user, the transport it holds and its message
    lost        \* a transport went while it was in use: see Remove

vars == <<tp, table, listed, stack, user, lost>>

NoTp == 0
Transports == 1 .. MaxTransports

(***************************************************************************)
(* conn is the connection: it is read from while it is "open".  id is      *)
(* idle_timer.id, armed whether that timer is in the heap.  delayed holds  *)
(* the messages that wait for the connection, wire those that the socket   *)
(* keeps until it can send them.  raced is history, not in the code: the   *)
(* timer was set while a firing of it that was popped before had not begun *)
(* its callback.                                                           *)
(***************************************************************************)
NewTransport(st, ref) ==
    [st |-> st, ref |-> ref, id |-> FALSE, armed |-> FALSE, raced |-> FALSE, shut |-> FALSE,
     dying |-> FALSE, conn |-> "connecting", delayed |-> <<>>, wire |-> {}, lock |-> Nobody]

Live == {i \in Transports : tp[i].st = "live"}

Init ==
    /\ tp = [i \in Transports |-> NewTransport("unborn", 0)]
    /\ table = NoTp /\ listed = {}
    /\ stack = [t \in Threads |-> <<>>]
    /\ user = [u \in Users |-> [st |-> "out", tp |-> NoTp, uses |-> 0]]
    /\ lost = FALSE

-----------------------------------------------------------------------------
(* Calls: what is to be done, to which transport, and for which user.      *)

Call(op, i)       == <<op, i, Nobody>>
CallFor(op, i, u) == <<op, i, u>>

Idle(t)   == stack[t] = <<>>
At(t, op) == stack[t] # <<>> /\ Head(stack[t])[1] = op
TpOf(t)   == Head(stack[t])[2]
UserOf(t) == Head(stack[t])[3]
Calls(t)  == {stack[t][n] : n \in DOMAIN stack[t]}

(* The innermost call is replaced by what is left of it. *)
Goes(t, calls)  == stack' = [stack EXCEPT ![t] = calls \o Tail(@)]
Begin(t, calls) == Idle(t) /\ stack' = [stack EXCEPT ![t] = calls]

Unlocked(i) == tp[i].lock = Nobody
Valid(i)    == i = table \/ i \in listed

Sets(i, r)   == tp' = [tp EXCEPT ![i] = r]
Answered(u)  == user' = [user EXCEPT ![u].st = "sent"]
SamePlaces   == UNCHANGED <<table, listed, lost>>

-----------------------------------------------------------------------------
(* References and the idle timer.                                          *)

(* The heap is asked to cancel only if the id says that the timer is set.  *)
Cancelled(r) == [r EXCEPT !.armed = @ /\ ~r.id, !.id = FALSE]
Firing(i)    == \E t \in Threads : Call("fire", i) \in Calls(t)
Armed(i, r)  == [r EXCEPT !.armed = TRUE, !.id = TRUE, !.raced = Firing(i)]

(* A reference is counted first; whoever counts from 0 or to 0 then sees   *)
(* to the timer under the manager's lock.                                  *)
AddRef(r)       == [r EXCEPT !.ref = @ + 1]
Verifying(i, u) == IF tp[i].ref = 0 THEN <<CallFor("verify", i, u)>> ELSE <<>>

Verify(t) ==
    LET i == TpOf(t) IN
    /\ At(t, "verify")
    /\ Sets(i, IF Valid(i) /\ tp[i].ref = 1 THEN Cancelled(tp[i]) ELSE tp[i])
    /\ Goes(t, <<>>) /\ SamePlaces /\ UNCHANGED user

DecRef(t) ==
    LET i == TpOf(t) IN
    /\ At(t, "dec")
    /\ Sets(i, [tp[i] EXCEPT !.ref = @ - 1])
    /\ Goes(t, IF tp[i].ref = 1 THEN <<Call("idle", i)>> ELSE <<>>)
    /\ SamePlaces /\ UNCHANGED user

StartIdle(t) ==
    LET i == TpOf(t) IN
    /\ At(t, "idle")
    /\ Sets(i, IF Valid(i) /\ ~tp[i].dying /\ tp[i].ref = 0 THEN Armed(i, tp[i]) ELSE tp[i])
    /\ Goes(t, <<>>) /\ SamePlaces /\ UNCHANGED user

-----------------------------------------------------------------------------
(* Finding a transport, or making one.                                     *)

Takes(u, i) == user' = [user EXCEPT ![u].st = "held", ![u].tp = i]

MayAcquire(t, u) == Idle(t) /\ user[u].st = "out" /\ user[u].uses < MaxUses

(* A user goes on when the call that got it the transport has returned. *)
Has(u) == user[u].st \in {"held", "sent"} /\ \A t \in Threads : \A call \in Calls(t) : call[3] # u

(* All of it is under the manager's lock, but for the count: a message     *)
(* that arrives may raise it before it is looked at again.                 *)
Find(t, u) ==
    /\ MayAcquire(t, u)
    /\ table # NoTp /\ ~tp[table].shut
    /\ Sets(table, AddRef(tp[table]))
    /\ Takes(u, table)
    /\ Begin(t, Verifying(table, u)) /\ SamePlaces

(* Mutant: a transport that loses its place in the table is forgotten. *)
RegisterForgets(i) == table' = i /\ listed' = listed

Register(i) == table' = i /\ listed' = listed \cup ({table} \ {NoTp})

(* A connection is begun.  If that fails, the transport is destroyed, and  *)
(* nobody gets it; its register has taken the table from the one before it. *)
Create(t, u) ==
    /\ MayAcquire(t, u)
    /\ table # NoTp => tp[table].shut
    /\ \E i \in Transports :
          /\ tp[i].st = "unborn"
          /\ \A j \in 1 .. (i - 1) : tp[j].st # "unborn"
          /\ \/ Sets(i, NewTransport("live", 1)) /\ Register(i) /\ Takes(u, i)
             \/ /\ Sets(i, NewTransport("gone", 0))
                /\ table' = NoTp /\ listed' = listed \cup ({table} \ {NoTp})
                /\ user' = [user EXCEPT ![u].uses = @ + 1]
    /\ UNCHANGED <<stack, lost>>

(* A message arrives, and a server transaction takes a reference for it.   *)
Receive(t, u) ==
    \E i \in Live :
        /\ MayAcquire(t, u)
        /\ tp[i].conn = "open"
        /\ user' = [user EXCEPT ![u].st = "arriving"]
        /\ Begin(t, <<CallFor("receive", i, u)>>)
        /\ SamePlaces /\ UNCHANGED tp

Received(t) ==
    LET i == TpOf(t) IN
    /\ At(t, "receive")
    /\ Sets(i, AddRef(tp[i]))
    /\ Takes(UserOf(t), i)
    /\ Goes(t, Verifying(i, UserOf(t))) /\ SamePlaces

Release(t, u) ==
    /\ Has(u)
    /\ user' = [user EXCEPT ![u] = [st |-> "out", tp |-> NoTp, uses |-> @.uses + 1]]
    /\ Begin(t, <<Call("dec", user[u].tp)>>)
    /\ SamePlaces /\ UNCHANGED tp

-----------------------------------------------------------------------------
(* Sending.                                                                *)

(* Whether the connection is there is looked at without a lock. *)
Send(t, u) ==
    LET i  == user[u].tp
        to == IF tp[i].conn = "connecting" THEN "enqueue" ELSE "write"
    IN  /\ Has(u) /\ user[u].st = "held"
        /\ user' = [user EXCEPT ![u].st = "sending"]
        /\ Sets(i, AddRef(tp[i]))
        /\ Begin(t, <<CallFor(to, i, u), Call("dec", i)>>)
        /\ SamePlaces

(* It is looked at again under the transport's lock, and then the message  *)
(* joins those that wait.                                                  *)
Enqueue(t) ==
    LET i == TpOf(t) IN
    /\ At(t, "enqueue") /\ Unlocked(i)
    /\ \/ /\ tp[i].conn = "connecting"
          /\ Sets(i, [tp[i] EXCEPT !.lock = t])
          /\ Goes(t, <<CallFor("push", i, UserOf(t))>>)
       \/ /\ tp[i].conn # "connecting"
          /\ Goes(t, <<CallFor("write", i, UserOf(t))>>) /\ UNCHANGED tp
    /\ SamePlaces /\ UNCHANGED user

Push(t) ==
    LET i == TpOf(t) IN
    /\ At(t, "push")
    /\ Sets(i, [tp[i] EXCEPT !.delayed = Append(@, UserOf(t)), !.lock = Nobody])
    /\ Goes(t, <<>>) /\ SamePlaces /\ UNCHANGED user

(* The socket keeps the message for later, or takes it or fails at once.   *)
(* An immediate failure is told to the sender, but the transport goes on:  *)
(* the size is still that of the message, so it does not count as closed.  *)
Write(t) ==
    LET i == TpOf(t)
        u == UserOf(t)
    IN  /\ At(t, "write")
        /\ \/ /\ tp[i].conn # "failed"
              /\ Sets(i, [tp[i] EXCEPT !.wire = @ \cup {u}])
              /\ UNCHANGED user
           \/ Answered(u) /\ UNCHANGED tp
        /\ Goes(t, <<>>) /\ SamePlaces

(* What the socket kept is sent, or fails. *)
DataSent(t) ==
    \E i \in Live : \E u \in tp[i].wire :
        /\ Sets(i, [tp[i] EXCEPT !.wire = @ \ {u}])
        /\ Answered(u)
        /\ \E calls \in {<<>>, <<Call("disconnect", i)>>} : Begin(t, calls)
        /\ SamePlaces

-----------------------------------------------------------------------------
(* The connection.                                                         *)

(* connect() has completed: the socket works, or cannot be read from, or   *)
(* there is none.  If the transport is shut down by then, it has failed.   *)
ConnectComplete(t) ==
    \E i \in Live :
        /\ tp[i].conn = "connecting"
        /\ \/ /\ ~tp[i].shut /\ ~tp[i].dying
              /\ Sets(i, [tp[i] EXCEPT !.conn = "open"])
              /\ Begin(t, <<Call("flush", i)>>)
           \/ /\ ~tp[i].shut /\ ~tp[i].dying
              /\ Sets(i, [tp[i] EXCEPT !.conn = "closed"])
              /\ Begin(t, <<Call("disconnect", i)>>)
           \/ /\ Sets(i, [tp[i] EXCEPT !.conn = "failed"])
              /\ Begin(t, <<Call("drain", i)>>)
        /\ SamePlaces /\ UNCHANGED user

(* The messages that waited are sent, one at a time; one that has waited   *)
(* for too long is dropped.                                                *)
Flush(t) ==
    LET i == TpOf(t)
        u == Head(tp[i].delayed)
        rest == [tp[i] EXCEPT !.delayed = Tail(@)]
    IN  /\ At(t, "flush") /\ Unlocked(i)
        /\ \/ /\ tp[i].delayed = <<>>
              /\ Goes(t, <<>>) /\ UNCHANGED <<tp, user>>
           \/ /\ tp[i].delayed # <<>>
              /\ \/ Sets(i, rest) /\ Answered(u)
                 \/ Sets(i, [rest EXCEPT !.wire = @ \cup {u}]) /\ UNCHANGED user
                 \/ Sets(i, rest) /\ user' = [user EXCEPT ![u].st = "dropped"]
              /\ UNCHANGED stack
        /\ SamePlaces

(* Mutant: the messages that waited are forgotten. *)
DrainQuiet(t) ==
    LET i == TpOf(t) IN
    /\ At(t, "drain")
    /\ Sets(i, [tp[i] EXCEPT !.delayed = <<>>])
    /\ Goes(t, <<Call("disconnect", i)>>) /\ SamePlaces /\ UNCHANGED user

(* They are given back as failed, without a lock. *)
Drain(t) ==
    LET i == TpOf(t) IN
    /\ At(t, "drain")
    /\ \/ /\ tp[i].delayed = <<>>
          /\ Goes(t, <<Call("disconnect", i)>>) /\ UNCHANGED <<tp, user>>
       \/ /\ tp[i].delayed # <<>>
          /\ Sets(i, [tp[i] EXCEPT !.delayed = Tail(@)])
          /\ Answered(Head(tp[i].delayed))
          /\ Goes(t, <<Call("disconnect", i), Call("drain", i)>>)
    /\ SamePlaces

(* The peer has closed the connection. *)
Closed(t) ==
    \E i \in Live :
        /\ tp[i].conn = "open"
        /\ Sets(i, [tp[i] EXCEPT !.conn = "closed"])
        /\ Begin(t, <<Call("disconnect", i)>>) /\ SamePlaces /\ UNCHANGED user

-----------------------------------------------------------------------------
(* Shutting down: by a user, or because the connection is over.            *)

(* A transport that nobody uses gets its timer once more, with no delay.   *)
ShutDown(i) ==
    LET r == [tp[i] EXCEPT !.shut = TRUE] IN
    IF ~tp[i].shut /\ r.ref = 0 /\ Valid(i)
    THEN IF r.dying THEN Cancelled(r) ELSE Armed(i, Cancelled(r))
    ELSE r

Shutdown(t, u) ==
    LET i == user[u].tp IN
    /\ Has(u) /\ ~tp[i].shut
    /\ Begin(t, <<Call("shutdown", i)>>) /\ SamePlaces /\ UNCHANGED <<tp, user>>

ShutdownLocked(t) ==
    LET i == TpOf(t) IN
    /\ At(t, "shutdown") /\ Unlocked(i)
    /\ Sets(i, ShutDown(i))
    /\ Goes(t, <<>>) /\ SamePlaces /\ UNCHANGED user

(* Nothing to do if it is shut down; otherwise a reference for the time in *)
(* which the listeners are told.                                           *)
Disconnect(t) ==
    LET i == TpOf(t) IN
    /\ At(t, "disconnect")
    /\ \/ /\ tp[i].shut \/ tp[i].dying
          /\ Goes(t, <<>>) /\ UNCHANGED tp
       \/ /\ ~tp[i].shut /\ ~tp[i].dying
          /\ Sets(i, AddRef(tp[i]))
          /\ Goes(t, Verifying(i, Nobody) \o <<Call("told", i)>>)
    /\ SamePlaces /\ UNCHANGED user

(* Mutant: the reference is kept if another thread was faster. *)
ToldKeeps(t) ==
    LET i == TpOf(t)
        over == tp[i].shut \/ tp[i].dying
    IN  /\ At(t, "told") /\ Unlocked(i)
        /\ Sets(i, IF over THEN tp[i] ELSE ShutDown(i))
        /\ Goes(t, IF over THEN <<>> ELSE <<Call("dec", i)>>) /\ SamePlaces /\ UNCHANGED user

Told(t) ==
    LET i == TpOf(t)
        over == tp[i].shut \/ tp[i].dying
    IN  /\ At(t, "told") /\ Unlocked(i)
        /\ Sets(i, IF over THEN tp[i] ELSE ShutDown(i))
        /\ Goes(t, <<Call("dec", i)>>) /\ SamePlaces /\ UNCHANGED user

-----------------------------------------------------------------------------
(* The idle timer, and destruction.                                        *)

(* The timer is popped; its callback has not begun. *)
IdleTimer(t) ==
    \E i \in Transports :
        /\ tp[i].armed
        /\ Sets(i, [tp[i] EXCEPT !.armed = FALSE])
        /\ Begin(t, <<Call("fire", i)>>) /\ SamePlaces /\ UNCHANGED user

Destroy(t) ==
    LET i == TpOf(t) IN
    /\ At(t, "fire")
    /\ Sets(i, [tp[i] EXCEPT !.id = FALSE])
    /\ Goes(t, IF tp[i].ref = 0 THEN <<Call("doom", i)>> ELSE <<>>)
    /\ SamePlaces /\ UNCHANGED user

(* The listeners have been told. *)
Doom(t) ==
    LET i == TpOf(t) IN
    /\ At(t, "doom") /\ Unlocked(i)
    /\ Sets(i, [tp[i] EXCEPT !.dying = TRUE])
    /\ Goes(t, <<Call("remove", i)>>) /\ SamePlaces /\ UNCHANGED user

(* A thread works on a transport.  If it only waits to see to the timer it *)
(* finds out for itself that the transport is not there any more.          *)
WorksOn(t, i) == \E call \in Calls(t) : call[2] = i /\ call[1] \notin {"verify", "idle"}

(* Mutant: the timer is not looked at. *)
RemoveKeepsTimer(t) ==
    LET i == TpOf(t)
        r == tp[i]
    IN  /\ At(t, "remove") /\ Unlocked(i)
        /\ Sets(i, [NewTransport("gone", 0) EXCEPT !.armed = r.armed, !.raced = r.raced])
        /\ table' = IF table = i THEN NoTp ELSE table
        /\ listed' = IF table = i THEN listed ELSE listed \ {i}
        /\ lost' = (r.ref > 0 \/ r.armed \/ \E other \in Threads \ {t} : WorksOn(other, i))
        /\ Goes(t, <<>>) /\ UNCHANGED user

(* The transport leaves the manager, and its memory goes.  If somebody has *)
(* a reference then, is at work on it, or its timer stays in the heap,     *)
(* what the program does is undefined, and the model stops.                *)
Remove(t) ==
    LET i == TpOf(t)
        r == Cancelled(tp[i])
    IN  /\ At(t, "remove") /\ Unlocked(i)
        /\ Sets(i, [NewTransport("gone", 0) EXCEPT !.armed = r.armed, !.raced = r.raced])
        /\ table' = IF table = i THEN NoTp ELSE table
        /\ listed' = IF table = i THEN listed ELSE listed \ {i}
        /\ lost' = (r.ref > 0 \/ r.armed \/ \E other \in Threads \ {t} : WorksOn(other, i))
        /\ Goes(t, <<>>) /\ UNCHANGED user

-----------------------------------------------------------------------------
GoesOn(t) ==
    \/ Verify(t) \/ DecRef(t) \/ StartIdle(t) \/ Received(t)
    \/ Enqueue(t) \/ Push(t) \/ Write(t)
    \/ Flush(t) \/ Drain(t)
    \/ ShutdownLocked(t) \/ Disconnect(t) \/ Told(t)
    \/ Destroy(t) \/ Doom(t) \/ Remove(t)

Called(t) == DataSent(t) \/ ConnectComplete(t) \/ IdleTimer(t)

Next ==
    /\ ~lost
    /\ \E t \in Threads :
          \/ GoesOn(t) \/ Called(t) \/ Closed(t)
          \/ \E u \in Users : Find(t, u) \/ Create(t, u) \/ Receive(t, u) \/ Release(t, u)
                              \/ Send(t, u) \/ Shutdown(t, u)

Spec == Init /\ [][Next]_vars

(* Threads go on, connects and sends complete, timers fire, and users that *)
(* have their message back let go of the transport.  Everything else need  *)
(* not happen.  Since uses are bounded nothing goes on for ever, and one   *)
(* fairness condition is enough.                                           *)
Progress == ~lost /\ \E t \in Threads : GoesOn(t) \/ Called(t) \/ \E u \in Users : Release(t, u)
FairSpec == Spec /\ WF_vars(Progress)

-----------------------------------------------------------------------------
(* Properties. *)

Ops == {"verify", "dec", "idle", "receive", "enqueue", "push", "write", "flush", "drain",
        "disconnect", "told", "shutdown", "fire", "doom", "remove"}

(* References are counted: one for each user and for each thread that is   *)
(* to give one back.  A transport that nobody uses and nobody is about to  *)
(* use or destroy has its idle timer running; otherwise it would stay for  *)
(* ever (dec_ref, register, shutdown and the idle callback, in any order). *)
Holders(i)   == {u \in Users : user[u].tp = i}
Returning(i) == {t \in Threads : Calls(t) \cap {Call("dec", i), Call("told", i)} # {}}
UnusedEnds ==
    \A i \in Live :
        /\ tp[i].ref = Cardinality(Holders(i)) + Cardinality(Returning(i))
        /\ tp[i].ref = 0 /\ (\A t \in Threads : \A call \in Calls(t) : call[2] # i) => tp[i].armed

(* The timer in the heap of a transport that is gone is one whose id an     *)
(* earlier firing cleared: it was set again before the callback of that one *)
(* had begun.  Nothing else that the timer's users do in any order leaves a *)
(* timer behind ("Unregister timer, if any", "make sure transport is still  *)
(* valid (see #1883)"); without the exception it fails: see the README.     *)
TimerDies == \A i \in Transports : tp[i].st = "gone" /\ tp[i].armed => tp[i].raced

(* A transport is destroyed when it is not in use ("Must have no user").   *)
UnusedWhenDestroyed == ~lost

(* A message waits for a connection that is there already or never comes,  *)
(* or was dropped.                                                         *)
Stranded(i) ==
    /\ i \in Live /\ tp[i].delayed # <<>> /\ tp[i].conn # "connecting"
    /\ \A t \in Threads : Calls(t) \cap {Call("flush", i), Call("drain", i)} = {}
Unheard == \E i \in Transports : Stranded(i) \/ \E u \in Users : user[u].st = "dropped"

(* Every message comes back ("it is important to notify application via    *)
(* on_data_sent() as otherwise the transport reference counter may never   *)
(* reach zero (see #1898)").                                               *)
NoneUnheard == ~Unheard

(* Who sends a message hears what became of it, but for the two ways that  *)
(* NoneUnheard is about and for a transport that went too early.           *)
CalledBack == \A u \in Users : user[u].st = "sending" ~> user[u].st # "sending" \/ Unheard \/ lost

(* A transport that was shut down goes when its users have let go of it.   *)
ShutEnds == \A i \in Transports : tp[i].shut ~> tp[i].st = "gone" \/ Unheard \/ lost
===============================================================================
