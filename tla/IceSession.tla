------------------------------ MODULE IceSession -----------------------------
(***************************************************************************)
(* Two ICE sessions of pjnath (ice_session.c) that check the connectivity  *)
(* of their candidate pairs against each other, started by the two steps   *)
(* of pj_ice_strans_start_ice, over a network that reorders and loses.     *)
(*                                                                         *)
(* A session is a record, and a function of the code is an operator from   *)
(* the session to the session after it; "out" collects what it sends.      *)
(* All of them run under the group lock of the session.  What does not is  *)
(* modelled in steps of its own: an expired timer is taken out of the      *)
(* timer heap, and its callback waits for the lock.                        *)
(*                                                                         *)
(* The STUN layer is modelled from its use: a request reaches the session  *)
(* once, a response reaches the check whose transaction is pending, and a  *)
(* transaction that gets none fails.                                       *)
(***************************************************************************)
EXTENDS Naturals, FiniteSets, Sequences

CONSTANTS
    Pairs,      \* the candidate pairs
    Comp,       \* the component of a pair
    Foundation, \* the foundation of its candidate at each agent
    Prio,       \* its priority when that agent is controlling
    Worlds      \* the situations: roles, options, candidate pairs, threads, network

Agents  == {"A", "B"}
Peer(a) == IF a = "A" THEN "B" ELSE "A"
None == "none"
Roles   == {"CONTROLLING", "CONTROLLED"}
Other(role) == IF role = "CONTROLLING" THEN "CONTROLLED" ELSE "CONTROLLING"

ASSUME PairAssumption ==
    /\ IsFiniteSet(Pairs) /\ None \notin Pairs
    /\ Comp \in [Pairs -> Nat \ {0}]
    /\ DOMAIN Foundation = Agents /\ \A a \in Agents : DOMAIN Foundation[a] = Pairs
    /\ Prio \in [Agents -> [Pairs -> Nat]]

ASSUME WorldAssumption ==
    \A w \in Worlds :
        /\ w.role \in [Agents -> Roles] /\ w.aggressive \in [Agents -> BOOLEAN]
        /\ w.known \in [Agents -> (SUBSET Pairs) \ {{}}]     \* pairs of exchanged candidates
        /\ w.reach \in [Agents -> SUBSET Pairs]            \* what an agent sends arrives
        /\ w.patient \in BOOLEAN      \* a controlled agent waits for ever for a nomination
        /\ w.stops \in BOOLEAN        \* the application may stop ICE
        /\ IsFiniteSet(w.workers)     \* the threads that poll for each agent
        /\ w.losses \in Nat           \* bound: messages lost and sends refused by the system

VARIABLES
    world,      \* which of the Worlds this is
    ses,        \* the session of each agent
    net,        \* the messages in flight
    lost        \* how many messages and sends were lost

vars == <<world, ses, net, lost>>

-----------------------------------------------------------------------------
(* The session. *)

Idle == [kind |-> "idle", id |-> "NONE"]

(* list is the check list, valid the valid list by pair, vc and nc the     *)
(* valid_check and nominated_check of each component.  timer is the id of  *)
(* the entry and queued whether it is in the heap; tick whether the entry  *)
(* of the check list is.  work is the callback each worker is about to run.*)
NewSession(a, w) ==
    LET comps == {Comp[p] : p \in w.known[a]} IN
    [me |-> a, ph |-> "new", role |-> w.role[a], aggressive |-> w.aggressive[a],
     nominating |-> FALSE, list |-> <<>>, valid |-> <<>>,
     vc |-> [c \in comps |-> None], nc |-> [c \in comps |-> None],
     timer |-> "NONE", queued |-> FALSE, tick |-> FALSE,
     complete |-> "no", told |-> "no", early |-> <<>>,
     work |-> [k \in w.workers |-> Idle], out |-> {}]

Comps(s) == DOMAIN s.nc
Free(s)  == \E k \in world.workers : s.work[k] = Idle

Pending(c)   == c.st \in {"FROZEN", "WAITING"}
Completed(c) == c.st \in {"SUCCEEDED", "FAILED"}
AllCompleted(s) == \A i \in DOMAIN s.list : Completed(s.list[i])
AllValid(s)     == \A c \in Comps(s) : s.vc[c] # None
AllNominated(s) == \A c \in Comps(s) : s.nc[c] # None

SamePair(s, p) == {i \in DOMAIN s.list : s.list[i].pair = p}
SameLocal(s, p, q) == Comp[p] = Comp[q] /\ Foundation[s.me][p] = Foundation[s.me][q]

(* The priority of a pair depends on who is controlling. *)
CheckPrio(s, p) == Prio[IF s.role = "CONTROLLING" THEN s.me ELSE Peer(s.me)][p]

NewCheck(s, p, st, nominated) ==
    [pair |-> p, st |-> st, nominated |-> nominated, prio |-> CheckPrio(s, p)]

(* The timer entry: an entry in the heap cannot be scheduled again, and    *)
(* one that is not there keeps its id when it is cancelled.                *)
Schedule(s, id) == IF s.queued THEN s ELSE [s EXCEPT !.timer = id, !.queued = TRUE]
Cancel(s)       == IF s.queued THEN [s EXCEPT !.timer = "NONE", !.queued = FALSE] ELSE s

-----------------------------------------------------------------------------
(* Checks. *)

(* Mutant: the check is marked as nominated whatever the role. *)
PerformCheckMarked(s, i, nominate, sent) ==
    LET s1 == [s EXCEPT !.list[i].nominated = @ \/ nominate]
    IN  IF sent
        THEN [s1 EXCEPT !.list[i].st = "IN_PROGRESS",
                        !.out = @ \cup {[kind |-> "request", from |-> s.me, pair |-> s.list[i].pair,
                                         role |-> s.role, use |-> nominate /\ s.role = "CONTROLLING"]}]
        ELSE s1

(* Send the Binding request of check i.  Only a controlling agent sends    *)
(* USE-CANDIDATE.  "sent" is whether the system takes the packet.          *)
PerformCheck(s, i, nominate, sent) ==
    LET use == nominate /\ s.role = "CONTROLLING"
        s1  == [s EXCEPT !.list[i].nominated = @ \/ use]
    IN  IF sent
        THEN [s1 EXCEPT !.list[i].st = "IN_PROGRESS",
                        !.out = @ \cup {[kind |-> "request", from |-> s.me, pair |-> s.list[i].pair,
                                         role |-> s.role, use |-> use]}]
        ELSE s1

(* Mutant: the timer is not cancelled, and the callback not scheduled if it is in use. *)
OnIceCompleteBusy(s, status) ==
    IF s.complete # "no" THEN s
    ELSE Schedule([s EXCEPT !.complete = status], "COMPLETION_CALLBACK")

OnIceComplete(s, status) ==
    IF s.complete # "no" THEN s
    ELSE Schedule(Cancel([s EXCEPT !.complete = status]), "COMPLETION_CALLBACK")

(* Mutant: a component that has a valid check is left as it is. *)
UpdateCompCheckOnce(s, p) ==
    IF s.vc[Comp[p]] # None THEN s
    ELSE [s EXCEPT !.vc[Comp[p]] = p, !.nc[Comp[p]] = IF s.valid[p].nominated THEN p ELSE @]

(* Valid and nominated check of the component of p. *)
UpdateCompCheck(s, p) ==
    LET Better(old) == IF old = None THEN p
                       ELSE IF s.valid[old].prio < s.valid[p].prio THEN p ELSE old
    IN  [s EXCEPT !.vc[Comp[p]] = Better(@),
                  !.nc[Comp[p]] = IF s.valid[p].nominated THEN Better(@) ELSE @]

(* The controlling agent repeats the checks of the valid pairs, nominated. *)
StartNominatedCheck(s) ==
    LET s1 == IF s.timer = "START_NOMINATED_CHECK" THEN Cancel(s) ELSE s
        Chosen(c) == c.pair \in {s.vc[k] : k \in Comps(s)}
    IN  [s1 EXCEPT !.list = [i \in DOMAIN @ |-> IF Chosen(@[i]) THEN [@[i] EXCEPT !.st = "WAITING"] ELSE @[i]],
                   !.tick = TRUE,
                   !.nominating = TRUE]

(* All checks are over and a component has no nominated pair. *)
OnAllCompleted(s) ==
    IF s.role = "CONTROLLED"
    THEN IF ~AllValid(s) THEN OnIceComplete(s, "failed")
         ELSE IF s.timer = "NONE" /\ ~world.patient THEN Schedule(s, "CONTROLLED_WAIT_NOM")
         ELSE s
    ELSE IF s.nominating \/ ~AllValid(s) THEN OnIceComplete(s, "failed")
         ELSE StartNominatedCheck(s)

(* Check i is over.  A success thaws the checks of its foundation; if it   *)
(* is nominated, the other checks of its component are given up.           *)
OnCheckComplete(s, i) ==
    LET c  == s.list[i]
        ok == c.st = "SUCCEEDED"
        Thawed(d) == IF ok /\ d.st = "FROZEN" /\ Foundation[s.me][d.pair] = Foundation[s.me][c.pair]
                     THEN [d EXCEPT !.st = "WAITING"] ELSE d
        GivenUp(d) == IF ok /\ c.nominated /\ Comp[d.pair] = Comp[c.pair] /\ ~Completed(d)
                      THEN [d EXCEPT !.st = "FAILED"] ELSE d
        s1 == [s EXCEPT !.list = [j \in DOMAIN @ |-> GivenUp(Thawed(@[j]))]]
    IN  IF AllNominated(s1) THEN OnIceComplete(s1, "ok")
        ELSE IF AllCompleted(s1) THEN OnAllCompleted(s1)
        ELSE IF ok /\ s1.role = "CONTROLLING" /\ ~s1.nominating /\ s1.timer = "NONE" /\ AllValid(s1)
        THEN Schedule(Cancel(s1), "START_NOMINATED_CHECK")
        ELSE s1

SetFailed(s, i) == OnCheckComplete([s EXCEPT !.list[i].st = "FAILED"], i)

(* A Binding request of the peer on a pair: the pair is checked at once if *)
(* it was not, and is nominated if the request says so.                    *)
HandleIncomingCheck(s, r, sent) ==
    LET i  == IF SamePair(s, r.pair) = {} THEN Len(s.list) + 1 ELSE CHOOSE j \in SamePair(s, r.pair) : TRUE
        s1 == IF i > Len(s.list)
              THEN [s EXCEPT !.list = Append(@, NewCheck(s, r.pair, "WAITING", r.use))]
              ELSE [s EXCEPT !.list[i].nominated = @ \/ r.use]
        c  == s1.list[i]
        s2 == IF r.use /\ r.pair \in DOMAIN s1.valid
              THEN UpdateCompCheck([s1 EXCEPT !.valid[r.pair].nominated = TRUE], r.pair) ELSE s1
    IN  IF ~\E j \in DOMAIN s.list : SameLocal(s, s.list[j].pair, r.pair) THEN s
        ELSE IF Pending(c) THEN PerformCheck(s1, i, c.nominated \/ s1.nominating, sent)
        ELSE IF c.st = "SUCCEEDED" THEN OnCheckComplete(s2, i)
        ELSE s1

-----------------------------------------------------------------------------
(* Operations of the session. *)

(* The offer/answer exchange is over: the pairs of candidates, by priority.*)
CheckLists(s) ==
    LET pairs == world.known[s.me] IN
    {l \in [1 .. Cardinality(pairs) -> {NewCheck(s, p, "FROZEN", FALSE) : p \in pairs}] :
        /\ \A p \in pairs : \E i \in DOMAIN l : l[i].pair = p
        /\ \A i, j \in DOMAIN l : i < j => l[i].prio >= l[j].prio}

CreateCheckList(s, list) == [s EXCEPT !.ph = "listed", !.list = list]

Stopped(s) == [NewSession(s.me, world) EXCEPT !.ph = "stopped", !.role = s.role, !.work = s.work, !.out = s.out]

HandleEarly(s, early, sent) ==
    LET after[n \in 0 .. Len(early)] ==
            IF n = 0 THEN s ELSE HandleIncomingCheck(after[n - 1], early[n], sent)
    IN  after[Len(early)]

(* Of component 1, the first check of each foundation waits to be sent;    *)
(* then the requests that came early are handled, and the timer is set.    *)
(* It may be set already; then starting fails and ICE is stopped.          *)
StartCheck(s, sent) ==
    LET first(i) == /\ Comp[s.list[i].pair] = 1
                    /\ \A j \in 1 .. i - 1 : ~SameLocal(s, s.list[j].pair, s.list[i].pair)
        s1 == [s EXCEPT !.ph = "started",
                        !.nominating = @ \/ s.aggressive,
                        !.list = [i \in DOMAIN @ |-> IF first(i) /\ @[i].st = "FROZEN"
                                                     THEN [@[i] EXCEPT !.st = "WAITING"] ELSE @[i]],
                        !.early = <<>>]
        s2 == HandleEarly(s1, s.early, sent)
    IN  IF s2.tick THEN Stopped(s2) ELSE [s2 EXCEPT !.tick = TRUE]

(* Send the first check that waits, or else the first frozen one, and come *)
(* back after Ta.                                                          *)
InState(s, st) == {i \in DOMAIN s.list : s.list[i].st = st}
First(S) == CHOOSE i \in S : \A j \in S : i <= j

StartPeriodicCheck(s, sent) ==
    LET due == IF InState(s, "WAITING") # {} THEN InState(s, "WAITING") ELSE InState(s, "FROZEN")
        i   == First(due)
        s1  == PerformCheck(s, i, s.nominating, sent)
    IN  IF s.ph = "stopped" \/ due = {} THEN s
        ELSE [(IF sent THEN s1 ELSE SetFailed(s1, i)) EXCEPT !.tick = TRUE]

(* The timer callback; type is what it read as the id of its entry.        *)
OnTimer(s, type) ==
    LET s1 == [s EXCEPT !.timer = "NONE"] IN
    IF s.ph = "stopped" THEN s
    ELSE CASE type = "CONTROLLED_WAIT_NOM" -> OnIceComplete(s1, "timeout")
           [] type = "COMPLETION_CALLBACK" ->
                LET s2 == IF s.complete = "ok" THEN Schedule(s1, "KEEP_ALIVE") ELSE s1
                IN  [s2 EXCEPT !.told = s.complete]
           [] type = "START_NOMINATED_CHECK" -> StartNominatedCheck(s1)
           [] OTHER -> s1

(* Mutant: whoever receives the request switches. *)
MustSwitchAlways(s) == TRUE

(* A Binding request.  When both agents have the same role, the one with   *)
(* the lower tie-breaker, B, has to be controlled.                         *)
MustSwitch(s) == (s.me = "B") = (s.role = "CONTROLLING")

Respond(s, m, code) ==
    [s EXCEPT !.out = @ \cup {[kind |-> "response", from |-> s.me, pair |-> m.pair,
                               role |-> m.role, code |-> code]}]

OnRxRequest(s, m, sent) ==
    LET s1 == Respond(IF m.role = s.role THEN [s EXCEPT !.role = Other(@)] ELSE s, m, "ok") IN
    IF s.ph = "stopped" THEN s
    ELSE IF m.role = s.role /\ ~MustSwitch(s) THEN Respond(s, m, "role conflict")
    ELSE IF s.ph = "new" THEN [s1 EXCEPT !.early = Append(@, [pair |-> m.pair, use |-> m.use])]
    ELSE HandleIncomingCheck(s1, m, sent)

(* The request of check i was answered, or (code "timeout") was not. *)
OnRequestComplete(s, i, m, sent) ==
    LET c == s.list[i]
        p == c.pair
        valid == [nominated |-> c.nominated, prio |-> IF p \in DOMAIN s.valid THEN s.valid[p].prio ELSE CheckPrio(s, p)]
        s1 == [s EXCEPT !.valid = [q \in DOMAIN @ \cup {p} |-> IF q = p THEN valid ELSE @[q]],
                        !.list[i].st = "SUCCEEDED"]
    IN  CASE m.code = "ok"      -> OnCheckComplete(UpdateCompCheck(s1, p), i)
          [] m.code = "timeout" -> SetFailed(s, i)
          [] m.code = "role conflict" ->
                LET s2 == [s EXCEPT !.role = Other(m.role), !.list[i].st = "WAITING"]
                IN  PerformCheck(s2, i, c.nominated \/ s2.nominating, sent)

-----------------------------------------------------------------------------
(* Actions. *)

Init ==
    /\ world \in Worlds
    /\ ses = [a \in Agents |-> NewSession(a, world)]
    /\ net = {}
    /\ lost = 0

(* Agent a goes from its session to s; what s sends replaces "taken" in    *)
(* the network, unless there is no way for it.                             *)
Becomes(a, s, taken) ==
    /\ ses' = [ses EXCEPT ![a] = [s EXCEPT !.out = {}]]
    /\ net' = (net \ taken) \cup {m \in s.out : m.pair \in world.reach[a]}
    /\ UNCHANGED world

(* The system refuses some packets. *)
Sends(sent) == lost' = IF sent THEN lost ELSE lost + 1
MaySend == {TRUE} \cup {FALSE : n \in lost + 1 .. world.losses}

CreateList(a) ==
    /\ ses[a].ph = "new"
    /\ \E list \in CheckLists(ses[a]) : Becomes(a, CreateCheckList(ses[a], list), {})
    /\ UNCHANGED lost

Start(a) ==
    /\ ses[a].ph = "listed"
    /\ \E sent \in MaySend : Becomes(a, StartCheck(ses[a], sent), {}) /\ Sends(sent)

Stop(a) ==
    /\ world.stops /\ ses[a].ph = "started"
    /\ Becomes(a, Stopped(ses[a]), {})
    /\ UNCHANGED lost

(* Expired timers are taken out of the heap. *)
Polls(a, k, s, work) ==
    /\ s.work[k] = Idle
    /\ Becomes(a, [s EXCEPT !.work[k] = work], {})
    /\ UNCHANGED lost

PollTick(a, k) ==
    /\ ses[a].tick
    /\ Polls(a, k, [ses[a] EXCEPT !.tick = FALSE], [kind |-> "tick", id |-> "NONE"])

(* The long timers do not expire between the two steps of the start, and   *)
(* the keep-alive timer, which only sets itself again, is left alone.      *)
PollTimer(a, k) ==
    /\ ses[a].queued /\ ses[a].timer # "KEEP_ALIVE"
    /\ ses[a].ph = "started"
    /\ Polls(a, k, [ses[a] EXCEPT !.queued = FALSE], [kind |-> "timer", id |-> ses[a].timer])

TickCallback(a, k) ==
    /\ ses[a].work[k].kind = "tick"
    /\ \E sent \in MaySend :
          /\ Becomes(a, StartPeriodicCheck([ses[a] EXCEPT !.work[k] = Idle], sent), {})
          /\ Sends(sent)

(* The id is read before the lock is taken: at once, or any time until now.*)
TimerCallback(a, k) ==
    /\ ses[a].work[k].kind = "timer"
    /\ \E type \in {ses[a].work[k].id, ses[a].timer} :
          Becomes(a, OnTimer([ses[a] EXCEPT !.work[k] = Idle], type), {})
    /\ UNCHANGED lost

Receive(a, m) ==
    LET s == ses[a]
        waiting == {i \in SamePair(s, m.pair) : s.list[i].st = "IN_PROGRESS"}
    IN  /\ m.from = Peer(a) /\ Free(s)
        /\ \E sent \in MaySend :
              /\ \/ m.kind = "request" /\ Becomes(a, OnRxRequest(s, m, sent), {m})
                 \/ m.kind = "response" /\ \E i \in waiting : Becomes(a, OnRequestComplete(s, i, m, sent), {m})
                 \/ m.kind = "response" /\ waiting = {} /\ Becomes(a, s, {m})
              /\ Sends(sent)

(* No answer is on its way any more. *)
Timeout(a, i) ==
    LET s == ses[a] IN
    /\ s.list[i].st = "IN_PROGRESS" /\ Free(s)
    /\ ~\E m \in net : m.pair = s.list[i].pair /\ (m.kind = "request") = (m.from = a)
    /\ Becomes(a, OnRequestComplete(s, i, [code |-> "timeout"], TRUE), {})
    /\ UNCHANGED lost

Lose(m) ==
    /\ lost < world.losses
    /\ lost' = lost + 1
    /\ net' = net \ {m}
    /\ UNCHANGED <<world, ses>>

(* What happens without the applications, and without bad luck. *)
Progress ==
    \E a \in Agents :
        \/ Start(a)
        \/ \E k \in world.workers : PollTick(a, k) \/ PollTimer(a, k) \/ TickCallback(a, k) \/ TimerCallback(a, k)
        \/ \E m \in net : Receive(a, m)
        \/ \E i \in DOMAIN ses[a].list : Timeout(a, i)

Next ==
    \/ Progress
    \/ \E a \in Agents : CreateList(a) \/ Stop(a)
    \/ \E m \in net : Lose(m)

Spec == Init /\ [][Next]_vars

(* Weak fairness of Progress, written so that TLC need not find out whether*)
(* it is enabled: it is not when nothing is on its way, due or being run.  *)
Quiet ==
    /\ net = {}
    /\ \A a \in Agents : LET s == ses[a] IN
          /\ s.ph # "listed" /\ ~s.tick /\ \A k \in world.workers : s.work[k] = Idle
          /\ s.queued => s.timer = "KEEP_ALIVE"
          /\ \A i \in DOMAIN s.list : s.list[i].st # "IN_PROGRESS"
ProgressStep ==
    /\ \A a \in Agents : ses'[a].ph = ses[a].ph \/ ses[a].ph = "listed"
    /\ ses' = ses => lost' = lost
FairSpec == Spec /\ ([]<>Quiet \/ []<><<ProgressStep>>_vars)

-----------------------------------------------------------------------------
(* Properties. *)

(* Role conflicts are repaired: from the first successful check on, one    *)
(* agent is controlling and the other controlled, whatever both started    *)
(* with and in whatever order requests and 487 answers arrive.             *)
RolesDiffer ==
    (\E a \in Agents : DOMAIN ses[a].valid # {}) => ses["A"].role # ses["B"].role

(* The controlled agent takes a pair for nominated only if the controlling *)
(* agent nominated it.  (Not so after a role conflict: an agent that has   *)
(* nominated as the controlling one keeps the flag when it is controlled.) *)
NominatedByPeer ==
    world.role["A"] # world.role["B"] =>
        \A a \in Agents : \A c \in Comps(ses[a]) :
            LET peer == ses[Peer(a)] IN
            ses[a].nc[c] # None /\ ses[a].role = "CONTROLLED" /\ peer.ph # "stopped" =>
                \E i \in SamePair(peer, ses[a].nc[c]) : peer.list[i].nominated

(* The agents that both succeeded use the same pairs.  (With two paths they*)
(* need not, see README; checked by no run.)                               *)
SamePairs == (\A a \in Agents : ses[a].told = "ok") => ses["A"].nc = ses["B"].nc

(* What keeps an agent from being told: another thread ran its callback    *)
(* with the id of an earlier time (1135); it waits for a nomination without*)
(* a limit; or the system refused the retry of a check (2261) when nothing *)
(* would send it again.                                                    *)
Unsent(s) ==
    /\ ~s.tick /\ \A k \in world.workers : s.work[k].kind # "tick"
    /\ \E i \in DOMAIN s.list : Pending(s.list[i])
Untold(a) ==
    \/ Cardinality(world.workers) > 1
    \/ world.patient /\ ses[a].role = "CONTROLLED"
    \/ Unsent(ses[a])

(* "application will be notified about the connectivity check status in    *)
(* #pj_ice_sess_cb callback" (ice_session.h:912), whatever is lost.        *)
Notified ==
    \A a \in Agents :
        ses[a].ph = "started" ~> ses[a].told # "no" \/ ses[a].ph = "stopped" \/ Untold(a)

(* A request that comes between the two steps of the start is checked      *)
(* before start_check has set is_nominating and the first checks.          *)
EarlyCheck(s) == s.ph = "listed" /\ \E i \in DOMAIN s.list : s.list[i].st # "FROZEN"
Open ==
    /\ world.losses = 0 /\ Cardinality(world.workers) = 1
    /\ \A a \in Agents : world.known[a] \subseteq world.reach["A"] \cap world.reach["B"]

(* When all pairs work and nothing is lost, both agents succeed, whatever  *)
(* their roles and options: neither fails or waits for ever for the other. *)
(* Unless a check was early, or the limited wait for a nomination ended.   *)
Succeeds ==
    []~(\E a \in Agents : EarlyCheck(ses[a])) =>
        ((\A a \in Agents : ses[a].ph = "started") /\ Open ~>
            \/ \A a \in Agents : ses[a].told = "ok"
            \/ \E a \in Agents : ses[a].ph = "stopped" \/ ses[a].complete = "timeout")
=============================================================================
