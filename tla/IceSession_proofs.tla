-------------------------- MODULE IceSession_proofs --------------------------
(***************************************************************************)
(* Whatever the network loses and reorders, and however many threads poll, *)
(* two agents that have a valid pair have different roles, and (when they  *)
(* started with different ones) the controlled agent uses no pair that the *)
(* controlling one has not nominated: []RolesDiffer, []NominatedByPeer.    *)
(*                                                                         *)
(* Most functions of a session neither nominate nor change a role.  What   *)
(* they do to a session is stated once (Same, Advances) and proved of each.*)
(***************************************************************************)
EXTENDS IceSession, FiniteSetTheorems, SequenceTheorems, WellFoundedInduction, TLAPS

Fields == {"me", "ph", "role", "aggressive", "nominating", "list", "valid", "vc", "nc",
           "timer", "queued", "tick", "complete", "told", "early", "work", "out"}
Checks == [pair: Pairs, st: {"FROZEN", "WAITING", "IN_PROGRESS", "SUCCEEDED", "FAILED"},
           nominated: BOOLEAN, prio: Nat]
Requests  == [kind: {"request"}, from: Agents, pair: Pairs, role: Roles, use: BOOLEAN]
Responses == [kind: {"response"}, from: Agents, pair: Pairs, role: Roles,
              code: {"ok", "role conflict"}]
Early == [pair: Pairs, use: BOOLEAN]

Session(s) ==
  /\ DOMAIN s = Fields
  /\ s.me \in Agents /\ s.role \in Roles
  /\ s.list \in Seq(Checks) /\ s.early \in Seq(Early)
  /\ s.ph = "new" => s.list = << >>
  /\ s.out \subseteq Requests \cup Responses

(* The pairs that a session has nominated, and those it takes for          *)
(* nominated, or will.                                                     *)
Nominates(s, p) == \E i \in DOMAIN s.list : s.list[i].pair = p /\ s.list[i].nominated
Claims(s, p) ==
  \/ Nominates(s, p)
  \/ p \in DOMAIN s.valid /\ s.valid[p].nominated
  \/ p # None /\ \E c \in DOMAIN s.nc : s.nc[c] = p
  \/ \E i \in DOMAIN s.early : s.early[i].pair = p /\ s.early[i].use

(* Nothing of this changes from s to t.                                    *)
Same(s, t) ==
  /\ Session(t)
  /\ t.me = s.me /\ t.ph = s.ph /\ t.role = s.role
  /\ t.valid = s.valid /\ t.nc = s.nc /\ t.early = s.early /\ t.out = s.out
  /\ DOMAIN t.list = DOMAIN s.list
  /\ \A i \in DOMAIN s.list : t.list[i].pair = s.list[i].pair /\ t.list[i].nominated = s.list[i].nominated

(* A session nominates only when it is controlling, and says so to the     *)
(* peer; when it is controlled it takes no pairs for nominated but those   *)
(* of P.                                                                   *)
Says(s, m) == /\ m \in Requests /\ m.from = s.me /\ m.role = s.role
              /\ m.use => s.role = "CONTROLLING" /\ (s.ph = "stopped" \/ Nominates(s, m.pair))
Advances(s, t, P) ==
  /\ Session(t)
  /\ t.me = s.me /\ t.role = s.role
  /\ s.ph # "new" => t.ph # "new"
  /\ s.ph = "stopped" => t.ph = "stopped"
  /\ DOMAIN t.valid \subseteq DOMAIN s.valid
  /\ \A m \in t.out : m \in s.out \/ Says(t, m)
  /\ t.ph = "stopped" \/ \A p : Nominates(s, p) => Nominates(t, p)
  /\ s.role = "CONTROLLED" => \A p : Claims(t, p) => Claims(s, p) \/ p \in P

-----------------------------------------------------------------------------
LEMMA SameAdvances ==
  ASSUME NEW s, NEW t, Same(s, t)
  PROVE  Advances(s, t, {})
<1>1. \A p : Nominates(t, p) <=> Nominates(s, p)
  BY DEF Same, Nominates
<1>2. \A p : Claims(t, p) <=> Claims(s, p)
  BY <1>1 DEF Same, Claims
<1> QED
  BY <1>1, <1>2 DEF Same, Advances

LEMMA SameTrans ==
  ASSUME NEW s, NEW t, NEW u, Same(s, t), Same(t, u)
  PROVE  Same(s, u)
BY DEF Same

LEMMA AdvancesTrans ==
  ASSUME NEW s, NEW t, NEW u, NEW P, NEW Q, Advances(s, t, P), Advances(t, u, Q)
  PROVE  Advances(s, u, P \cup Q)
<1>1. ASSUME NEW m \in u.out PROVE m \in s.out \/ Says(u, m)
  <2>1. CASE Says(u, m)
    BY <2>1
  <2>2. CASE Says(t, m)
    BY <2>2 DEF Advances, Says
  <2> QED
    BY <2>1, <2>2 DEF Advances
<1>2. u.ph = "stopped" \/ \A p : Nominates(s, p) => Nominates(u, p)
  BY DEF Advances
<1>3. s.role = "CONTROLLED" => \A p : Claims(u, p) => Claims(s, p) \/ p \in P \cup Q
  BY DEF Advances
<1> QED
  BY <1>1, <1>2, <1>3 DEF Advances

LEMMA AdvancesThen ==
  ASSUME NEW s, NEW t, NEW u, NEW P, Advances(s, t, P), Advances(t, u, {})
  PROVE  Advances(s, u, P)
<1>1. P \cup {} = P
  OBVIOUS
<1>2. Advances(s, u, P \cup {})
  BY AdvancesTrans
<1> QED
  BY <1>1, <1>2

-----------------------------------------------------------------------------
(* Timers, and what follows a check.                                       *)
LEMMA SameItself ==
  ASSUME NEW s, Session(s) PROVE Same(s, s)
BY DEF Same

(* The fields that no part of Same is about.                               *)
LEMMA SameBut ==
  ASSUME NEW s, Session(s), NEW v
  PROVE  /\ Same(s, [s EXCEPT !.timer = v]) /\ Same(s, [s EXCEPT !.queued = v])
         /\ Same(s, [s EXCEPT !.tick = v]) /\ Same(s, [s EXCEPT !.complete = v])
         /\ Same(s, [s EXCEPT !.told = v]) /\ Same(s, [s EXCEPT !.work = v])
         /\ Same(s, [s EXCEPT !.nominating = v]) /\ Same(s, [s EXCEPT !.vc = v])
BY DEF Same, Session, Fields

LEMMA ScheduleSame ==
  ASSUME NEW s, Session(s), NEW id
  PROVE  Same(s, Schedule(s, id))
BY DEF Same, Session, Fields, Schedule

LEMMA CancelSame ==
  ASSUME NEW s, Session(s)
  PROVE  Same(s, Cancel(s))
BY DEF Same, Session, Fields, Cancel

LEMMA OnIceCompleteSame ==
  ASSUME NEW s, Session(s), NEW status
  PROVE  Same(s, OnIceComplete(s, status))
<1> DEFINE t == [s EXCEPT !.complete = status]
<1>1. Same(s, t)
  BY SameBut
<1>2. Same(t, Cancel(t))
  BY <1>1, CancelSame DEF Same
<1>3. Same(Cancel(t), Schedule(Cancel(t), "COMPLETION_CALLBACK"))
  BY <1>2, ScheduleSame DEF Same
<1> QED
  BY <1>1, <1>2, <1>3, SameTrans, SameItself DEF OnIceComplete

(* A list whose checks are changed, but not which they are or whether they *)
(* are nominated.                                                          *)
LEMMA ListSame ==
  ASSUME NEW s, Session(s), NEW list, DOMAIN list = DOMAIN s.list,
         list = [i \in DOMAIN list |-> list[i]],
         \A i \in DOMAIN s.list : /\ list[i] \in Checks /\ list[i].pair = s.list[i].pair
                                  /\ list[i].nominated = s.list[i].nominated
  PROVE  Same(s, [s EXCEPT !.list = list])
<1>1. DOMAIN s.list = 1 .. Len(s.list) /\ Len(s.list) \in Nat
  BY LenProperties DEF Session
<1>2. list \in Seq(Checks)
  BY <1>1, SeqDef
<1>3. s.ph = "new" => list = << >>
  <2> SUFFICES ASSUME s.ph = "new" PROVE list = << >>
    OBVIOUS
  <2>1. s.list = << >>
    BY DEF Session
  <2>2. DOMAIN list = 1 .. 0
    BY <1>1, <2>1
  <2> QED
    BY <1>2, <2>2, EmptySeq, LenProperties
<1> QED
  BY <1>2, <1>3 DEF Same, Session, Fields

LEMMA ChecksOf ==
  ASSUME NEW s, Session(s)
  PROVE  /\ DOMAIN s.list = 1 .. Len(s.list) /\ Len(s.list) \in Nat
         /\ s.list = [i \in DOMAIN s.list |-> s.list[i]]
         /\ \A i \in DOMAIN s.list : s.list[i] \in Checks
<1>1. s.list \in Seq(Checks)
  BY DEF Session
<1> QED
  BY <1>1, LenProperties, ElementOfSeq

(* A check goes to another state.                                          *)
LEMMA StateSame ==
  ASSUME NEW s, Session(s), NEW i,
         NEW st \in {"FROZEN", "WAITING", "IN_PROGRESS", "SUCCEEDED", "FAILED"}
  PROVE  Same(s, [s EXCEPT !.list[i].st = st])
<1> DEFINE list == [s.list EXCEPT ![i].st = st]
<1>1. \A c \in Checks : /\ [c EXCEPT !.st = st] \in Checks
                        /\ [c EXCEPT !.st = st].pair = c.pair
                        /\ [c EXCEPT !.st = st].nominated = c.nominated
  BY DEF Checks
<1>2. DOMAIN list = DOMAIN s.list
  OBVIOUS
<1>3. \A j \in DOMAIN s.list : list[j] = IF j = i THEN [s.list[j] EXCEPT !.st = st] ELSE s.list[j]
  OBVIOUS
<1>4. \A j \in DOMAIN s.list : /\ list[j] \in Checks /\ list[j].pair = s.list[j].pair
                               /\ list[j].nominated = s.list[j].nominated
  BY <1>1, <1>3, ChecksOf
<1>5. list = [j \in DOMAIN list |-> list[j]]
  OBVIOUS
<1>6. [s EXCEPT !.list[i].st = st] = [s EXCEPT !.list = list]
  BY DEF Session, Fields
<1> HIDE DEF list
<1> QED
  BY <1>2, <1>4, <1>5, <1>6, ListSame

LEMMA StartNominatedCheckSame ==
  ASSUME NEW s, Session(s)
  PROVE  Same(s, StartNominatedCheck(s))
<1> DEFINE s1 == IF s.timer = "START_NOMINATED_CHECK" THEN Cancel(s) ELSE s
           Chosen(c) == c.pair \in {s.vc[k] : k \in Comps(s)}
           list == [i \in DOMAIN s1.list |-> IF Chosen(s1.list[i]) THEN [s1.list[i] EXCEPT !.st = "WAITING"]
                                             ELSE s1.list[i]]
           s2 == [s1 EXCEPT !.list = list]
           s3 == [s2 EXCEPT !.tick = TRUE]
<1>1. Same(s, s1)
  BY CancelSame, SameItself
<1>2. Session(s1)
  BY <1>1 DEF Same
<1>3. Same(s1, s2)
  <2> HIDE DEF s1, Chosen
  <2>1. \A c \in Checks : /\ [c EXCEPT !.st = "WAITING"] \in Checks
                          /\ [c EXCEPT !.st = "WAITING"].pair = c.pair
                          /\ [c EXCEPT !.st = "WAITING"].nominated = c.nominated
    BY DEF Checks
  <2>2. DOMAIN list = DOMAIN s1.list /\ list = [i \in DOMAIN list |-> list[i]]
    OBVIOUS
  <2>3. \A j \in DOMAIN s1.list : /\ list[j] \in Checks /\ list[j].pair = s1.list[j].pair
                                  /\ list[j].nominated = s1.list[j].nominated
    BY <1>2, <2>1, ChecksOf
  <2> HIDE DEF list
  <2> QED
    BY <1>2, <2>2, <2>3, ListSame
<1>4. Same(s2, s3)
  <2>1. Session(s2)
    BY <1>3 DEF Same
  <2> HIDE DEF s2
  <2> QED
    BY <2>1, SameBut
<1>5. Same(s3, [s3 EXCEPT !.nominating = TRUE])
  <2>1. Session(s3)
    BY <1>4 DEF Same
  <2> HIDE DEF s3
  <2> QED
    BY <2>1, SameBut
<1>6. StartNominatedCheck(s) = [s3 EXCEPT !.nominating = TRUE]
  <2>1. StartNominatedCheck(s) = [s1 EXCEPT !.list = list, !.tick = TRUE, !.nominating = TRUE]
    BY DEF StartNominatedCheck
  <2>2. DOMAIN s1 = Fields
    BY <1>2 DEF Session
  <2> HIDE DEF s1, list
  <2> QED
    BY <2>1, <2>2 DEF Fields
<1> HIDE DEF s1, s2, s3
<1> QED
  BY <1>1, <1>3, <1>4, <1>5, <1>6, SameTrans

LEMMA OnAllCompletedSame ==
  ASSUME NEW s, Session(s)
  PROVE  Same(s, OnAllCompleted(s))
BY SameItself, OnIceCompleteSame, ScheduleSame, StartNominatedCheckSame DEF OnAllCompleted

LEMMA OnCheckCompleteSame ==
  ASSUME NEW s, Session(s), NEW i \in DOMAIN s.list
  PROVE  Same(s, OnCheckComplete(s, i))
<1> DEFINE c  == s.list[i]
           ok == c.st = "SUCCEEDED"
           Thawed(d) == IF ok /\ d.st = "FROZEN" /\ Foundation[s.me][d.pair] = Foundation[s.me][c.pair]
                        THEN [d EXCEPT !.st = "WAITING"] ELSE d
           GivenUp(d) == IF ok /\ c.nominated /\ Comp[d.pair] = Comp[c.pair] /\ ~Completed(d)
                         THEN [d EXCEPT !.st = "FAILED"] ELSE d
           list == [j \in DOMAIN s.list |-> GivenUp(Thawed(s.list[j]))]
           s1 == [s EXCEPT !.list = list]
<1>1. Same(s, s1)
  <2>1. ASSUME NEW d \in Checks
        PROVE  /\ Thawed(d) \in Checks /\ Thawed(d).pair = d.pair /\ Thawed(d).nominated = d.nominated
               /\ GivenUp(d) \in Checks /\ GivenUp(d).pair = d.pair /\ GivenUp(d).nominated = d.nominated
    <3>1. ASSUME NEW st \in {"WAITING", "FAILED"}
          PROVE  /\ [d EXCEPT !.st = st] \in Checks
                 /\ [d EXCEPT !.st = st].pair = d.pair
                 /\ [d EXCEPT !.st = st].nominated = d.nominated
      BY DEF Checks
    <3> QED
      BY <3>1
  <2> HIDE DEF Thawed, GivenUp
  <2>2. DOMAIN list = DOMAIN s.list /\ list = [j \in DOMAIN list |-> list[j]]
    OBVIOUS
  <2>3. \A j \in DOMAIN s.list : /\ list[j] \in Checks /\ list[j].pair = s.list[j].pair
                                 /\ list[j].nominated = s.list[j].nominated
    BY <2>1, ChecksOf
  <2> HIDE DEF list
  <2> QED
    BY <2>2, <2>3, ListSame
<1>2. Session(s1)
  BY <1>1 DEF Same
<1>3. OnCheckComplete(s, i) \in
        {OnIceComplete(s1, "ok"), OnAllCompleted(s1), Schedule(Cancel(s1), "START_NOMINATED_CHECK"), s1}
  BY DEF OnCheckComplete
<1> HIDE DEF s1
<1>4. Same(s1, Cancel(s1)) /\ Same(Cancel(s1), Schedule(Cancel(s1), "START_NOMINATED_CHECK"))
  BY <1>2, CancelSame, ScheduleSame DEF Same
<1>5. \A t \in {OnIceComplete(s1, "ok"), OnAllCompleted(s1), Schedule(Cancel(s1), "START_NOMINATED_CHECK"), s1} :
         Same(s1, t)
  BY <1>2, <1>4, SameTrans, SameItself, OnIceCompleteSame, OnAllCompletedSame
<1> QED
  BY <1>1, <1>3, <1>5, SameTrans

LEMMA SetFailedSame ==
  ASSUME NEW s, Session(s), NEW i \in DOMAIN s.list
  PROVE  Same(s, SetFailed(s, i))
<1> DEFINE t == [s EXCEPT !.list[i].st = "FAILED"]
<1>1. Same(s, t)
  BY StateSame
<1>2. Session(t) /\ i \in DOMAIN t.list
  BY <1>1 DEF Same
<1> HIDE DEF t
<1>3. Same(t, OnCheckComplete(t, i))
  BY <1>2, OnCheckCompleteSame
<1>4. SetFailed(s, i) = OnCheckComplete(t, i)
  BY DEF SetFailed, t
<1> QED
  BY <1>1, <1>3, <1>4, SameTrans

-----------------------------------------------------------------------------
(* What nominates.                                                         *)

(* The fields of a check that is marked, or sent, or both.                 *)
LEMMA CheckMarked ==
  ASSUME NEW c \in Checks, NEW use \in BOOLEAN
  PROVE  LET d == [c EXCEPT !.nominated = @ \/ use]
             e == [d EXCEPT !.st = "IN_PROGRESS"]
         IN  /\ d \in Checks /\ d.pair = c.pair /\ d.nominated = (c.nominated \/ use)
             /\ e \in Checks /\ e.pair = c.pair /\ e.nominated = (c.nominated \/ use)
BY DEF Checks

(* Another list, of the same pairs and possibly more.                      *)
LEMMA ListAdvances ==
  ASSUME NEW s, Session(s), NEW list \in Seq(Checks), s.ph = "new" => list = << >>,
         DOMAIN s.list \subseteq DOMAIN list,
         \A i \in DOMAIN s.list : list[i].pair = s.list[i].pair /\ (s.list[i].nominated => list[i].nominated),
         NEW P,
         \A i \in DOMAIN list : list[i].nominated =>
            \/ i \in DOMAIN s.list /\ s.list[i].nominated
            \/ s.role = "CONTROLLING"
            \/ list[i].pair \in P
  PROVE  Advances(s, [s EXCEPT !.list = list], P)
<1> DEFINE t == [s EXCEPT !.list = list]
<1>1. /\ DOMAIN t = Fields /\ t.list = list /\ t.me = s.me /\ t.role = s.role /\ t.ph = s.ph
      /\ t.valid = s.valid /\ t.nc = s.nc /\ t.early = s.early /\ t.out = s.out
  BY DEF Session, Fields
<1> HIDE DEF t
<1>2. Session(t)
  BY <1>1 DEF Session
<1>3. \A p : Nominates(s, p) => Nominates(t, p)
  BY <1>1 DEF Nominates
<1>4. s.role = "CONTROLLED" => \A p : Nominates(t, p) => Nominates(s, p) \/ p \in P
  BY <1>1 DEF Nominates
<1>5. s.role = "CONTROLLED" => \A p : Claims(t, p) => Claims(s, p) \/ p \in P
  BY <1>1, <1>4 DEF Claims
<1>6. Advances(s, t, P)
  BY <1>1, <1>2, <1>3, <1>5 DEF Advances
<1> QED
  BY <1>6 DEF t

LEMMA PerformCheckAdvances ==
  ASSUME NEW s, Session(s), NEW i \in DOMAIN s.list, NEW nominate, NEW sent
  PROVE  Advances(s, PerformCheck(s, i, nominate, sent), {})
<1> DEFINE use == nominate /\ s.role = "CONTROLLING"
           d == [s.list[i] EXCEPT !.nominated = @ \/ use]
           e == [d EXCEPT !.st = "IN_PROGRESS"]
           marked == [s.list EXCEPT ![i] = d]
           list == [s.list EXCEPT ![i] = e]
           t == [s EXCEPT !.list = list]
           m == [kind |-> "request", from |-> s.me, pair |-> s.list[i].pair, role |-> s.role, use |-> use]
<1>0. s.list[i] \in Checks /\ use \in BOOLEAN /\ DOMAIN s = Fields
  BY ChecksOf DEF Session
<1>1. /\ d \in Checks /\ d.pair = s.list[i].pair /\ d.nominated = (s.list[i].nominated \/ use)
      /\ e \in Checks /\ e.pair = s.list[i].pair /\ e.nominated = (s.list[i].nominated \/ use)
  <2> HIDE DEF use
  <2> QED
    BY <1>0, CheckMarked
<1>2. PerformCheck(s, i, nominate, sent) =
        IF sent THEN [t EXCEPT !.out = @ \cup {m}] ELSE [s EXCEPT !.list = marked]
  <2>1. [s EXCEPT !.list[i].nominated = @ \/ use] = [s EXCEPT !.list = marked]
    BY <1>0 DEF Fields
  <2>2. ASSUME NEW o
        PROVE  [[s EXCEPT !.list = marked] EXCEPT !.list[i].st = "IN_PROGRESS", !.out = @ \cup {o}]
                 = [t EXCEPT !.out = @ \cup {o}]
    <3>1. [marked EXCEPT ![i].st = "IN_PROGRESS"] = list
      <4> HIDE DEF d
      <4> QED
        OBVIOUS
    <3>2. [[s EXCEPT !.list = marked] EXCEPT !.list[i].st = "IN_PROGRESS", !.out = @ \cup {o}]
            = [s EXCEPT !.list = [marked EXCEPT ![i].st = "IN_PROGRESS"], !.out = @ \cup {o}]
      <4> HIDE DEF marked
      <4> QED
        BY <1>0 DEF Fields
    <3>3. [t EXCEPT !.out = @ \cup {o}] = [s EXCEPT !.list = list, !.out = @ \cup {o}]
      <4> HIDE DEF list
      <4> QED
        BY <1>0 DEF Fields
    <3> HIDE DEF t, list, marked
    <3> QED
      BY <3>1, <3>2, <3>3
  <2>3. PerformCheck(s, i, nominate, sent) =
          IF sent THEN [[s EXCEPT !.list = marked] EXCEPT !.list[i].st = "IN_PROGRESS", !.out = @ \cup {m}]
          ELSE [s EXCEPT !.list = marked]
    BY <2>1 DEF PerformCheck
  <2> HIDE DEF t, marked, m
  <2> QED
    BY <2>2, <2>3
<1>3. /\ DOMAIN list = DOMAIN s.list /\ DOMAIN marked = DOMAIN s.list
      /\ \A j \in DOMAIN s.list : /\ list[j] = (IF j = i THEN e ELSE s.list[j])
                                  /\ marked[j] = (IF j = i THEN d ELSE s.list[j])
  <2> HIDE DEF d, e
  <2> QED
    OBVIOUS
<1>4. list \in Seq(Checks) /\ marked \in Seq(Checks)
  <2>1. s.list \in Seq(Checks)
    BY DEF Session
  <2> HIDE DEF d, e
  <2> QED
    BY <1>1, <2>1, ExceptSeq, LenProperties
<1>5. ~(s.ph = "new")
  BY ChecksOf DEF Session
<1> HIDE DEF d, e, list, marked
<1>6. /\ \A j \in DOMAIN s.list : list[j].pair = s.list[j].pair /\ (s.list[j].nominated => list[j].nominated)
      /\ \A j \in DOMAIN list : list[j].nominated =>
            \/ j \in DOMAIN s.list /\ s.list[j].nominated
            \/ s.role = "CONTROLLING"
      /\ list[i].pair = s.list[i].pair /\ (use => list[i].nominated)
  BY <1>1, <1>3
<1>7. /\ \A j \in DOMAIN s.list : marked[j].pair = s.list[j].pair /\ (s.list[j].nominated => marked[j].nominated)
      /\ \A j \in DOMAIN marked : marked[j].nominated =>
            \/ j \in DOMAIN s.list /\ s.list[j].nominated
            \/ s.role = "CONTROLLING"
  BY <1>1, <1>3
<1>8. CASE ~sent
  <2>1. Advances(s, [s EXCEPT !.list = marked], {})
    BY <1>3, <1>4, <1>5, <1>7, ListAdvances
  <2> QED
    BY <1>2, <1>8, <2>1
<1>9. CASE sent
  <2> DEFINE u == [t EXCEPT !.out = @ \cup {m}]
  <2>1. Advances(s, t, {})
    BY <1>3, <1>4, <1>5, <1>6, ListAdvances
  <2>2. Session(t) /\ t.list = list /\ t.me = s.me /\ t.role = s.role /\ t.ph = s.ph
    BY <1>0, <2>1 DEF Advances, Fields
  <2>3. m \in Requests /\ m.from = s.me /\ m.role = s.role /\ m.use = use /\ m.pair = s.list[i].pair
    <3>1. s.list[i].pair \in Pairs
      BY <1>0 DEF Checks
    <3> HIDE DEF use
    <3> QED
      BY <1>0, <3>1 DEF Requests, Session
  <2> HIDE DEF t, m
  <2>4. /\ DOMAIN u = Fields /\ u.list = t.list /\ u.me = t.me /\ u.role = t.role /\ u.ph = t.ph
        /\ u.valid = t.valid /\ u.nc = t.nc /\ u.early = t.early /\ u.out = t.out \cup {m}
    BY <2>2 DEF Session, Fields
  <2> HIDE DEF u
  <2>5. \A p : (Nominates(u, p) <=> Nominates(t, p)) /\ (Claims(u, p) <=> Claims(t, p))
    BY <2>4 DEF Nominates, Claims
  <2>6. Session(u)
    BY <2>2, <2>3, <2>4 DEF Session
  <2>7. Says(u, m)
    <3>1. use => Nominates(u, s.list[i].pair)
      BY <1>3, <1>6, <2>2, <2>4 DEF Nominates
    <3> QED
      BY <2>2, <2>3, <2>4, <3>1 DEF Says
  <2>8. Advances(t, u, {})
    BY <2>4, <2>5, <2>6, <2>7 DEF Advances
  <2>9. Advances(s, u, {})
    BY <2>1, <2>8, AdvancesTrans
  <2> QED
    BY <1>2, <1>9, <2>9 DEF u
<1> QED
  BY <1>8, <1>9

(* The pair of a check that becomes the nominated one, if it is.           *)
Taken(s, p) == {q \in {p} : s.valid[p].nominated}

LEMMA UpdateCompCheckAdvances ==
  ASSUME NEW s, Session(s), NEW p \in Pairs
  PROVE  Advances(s, UpdateCompCheck(s, p), Taken(s, p))
<1> DEFINE Better(old) == IF old = None THEN p
                          ELSE IF s.valid[old].prio < s.valid[p].prio THEN p ELSE old
           vc == [s.vc EXCEPT ![Comp[p]] = Better(@)]
           nc == [s.nc EXCEPT ![Comp[p]] = IF s.valid[p].nominated THEN Better(@) ELSE @]
           t == UpdateCompCheck(s, p)
<1>1. t = [s EXCEPT !.vc = vc, !.nc = nc]
  BY DEF UpdateCompCheck, Session, Fields
<1>2. DOMAIN nc = DOMAIN s.nc /\ \A c \in DOMAIN s.nc : nc[c] = s.nc[c] \/ nc[c] \in Taken(s, p)
  BY DEF Taken
<1> HIDE DEF vc, nc, t
<1>3. /\ DOMAIN t = Fields /\ t.list = s.list /\ t.me = s.me /\ t.role = s.role /\ t.ph = s.ph
      /\ t.valid = s.valid /\ t.nc = nc /\ t.early = s.early /\ t.out = s.out
  BY <1>1 DEF Session, Fields
<1>4. \A q : Nominates(t, q) <=> Nominates(s, q)
  BY <1>3 DEF Nominates
<1>5. \A q : Claims(t, q) => Claims(s, q) \/ q \in Taken(s, p)
  BY <1>2, <1>3, <1>4 DEF Claims
<1>6. Session(t)
  BY <1>3 DEF Session
<1>7. Advances(s, t, Taken(s, p))
  BY <1>3, <1>4, <1>5, <1>6 DEF Advances
<1> QED
  BY <1>7 DEF t

LEMMA NewCheckType ==
  ASSUME NEW s, Session(s), NEW p \in Pairs, NEW nominated \in BOOLEAN,
         NEW st \in {"FROZEN", "WAITING"}
  PROVE  /\ NewCheck(s, p, st, nominated) \in Checks
         /\ NewCheck(s, p, st, nominated).pair = p
         /\ NewCheck(s, p, st, nominated).nominated = nominated
<1>1. CheckPrio(s, p) \in Nat
  BY PairAssumption DEF CheckPrio, Session, Peer, Agents
<1> QED
  BY <1>1 DEF NewCheck, Checks

(* The pairs that request r nominates.                                     *)
Nominated(r) == {p \in {r.pair} : r.use}

LEMMA HandleIncomingCheckAdvances ==
  ASSUME NEW s, Session(s), s.ph # "new", NEW r, r.pair \in Pairs, r.use \in BOOLEAN, NEW sent
  PROVE  Advances(s, HandleIncomingCheck(s, r, sent), Nominated(r))
<1> DEFINE i  == IF SamePair(s, r.pair) = {} THEN Len(s.list) + 1
                 ELSE CHOOSE j \in SamePair(s, r.pair) : TRUE
           new == NewCheck(s, r.pair, "WAITING", r.use)
           list == IF i > Len(s.list) THEN Append(s.list, new)
                   ELSE [s.list EXCEPT ![i].nominated = @ \/ r.use]
           s1 == IF i > Len(s.list) THEN [s EXCEPT !.list = Append(@, new)]
                 ELSE [s EXCEPT !.list[i].nominated = @ \/ r.use]
           c  == s1.list[i]
           v1 == [s1 EXCEPT !.valid[r.pair].nominated = TRUE]
           s2 == IF r.use /\ r.pair \in DOMAIN s1.valid THEN UpdateCompCheck(v1, r.pair) ELSE s1
           t == HandleIncomingCheck(s, r, sent)
<1>0. DOMAIN s = Fields /\ s.list \in Seq(Checks)
  BY DEF Session
<1>1. t \in {s, PerformCheck(s1, i, c.nominated \/ s1.nominating, sent), OnCheckComplete(s2, i), s1}
  BY Zenon DEF HandleIncomingCheck
<1>2. \/ i = Len(s.list) + 1 /\ i > Len(s.list)
      \/ i \in 1 .. Len(s.list) /\ ~(i > Len(s.list)) /\ s.list[i].pair = r.pair
  <2>1. CASE SamePair(s, r.pair) = {}
    BY <2>1, ChecksOf
  <2>2. CASE SamePair(s, r.pair) # {}
    <3>1. i \in SamePair(s, r.pair)
      BY <2>2
    <3> HIDE DEF i
    <3>2. i \in DOMAIN s.list /\ s.list[i].pair = r.pair
      BY <3>1 DEF SamePair
    <3> QED
      BY <3>2, ChecksOf
  <2> QED
    BY <2>1, <2>2
<1> HIDE DEF i
<1>3. new \in Checks /\ new.pair = r.pair /\ new.nominated = r.use
  BY NewCheckType
<1>4. /\ list \in Seq(Checks)
      /\ DOMAIN s.list \subseteq DOMAIN list
      /\ \A j \in DOMAIN s.list : list[j].pair = s.list[j].pair /\ (s.list[j].nominated => list[j].nominated)
      /\ \A j \in DOMAIN list : list[j].nominated =>
            (j \in DOMAIN s.list /\ s.list[j].nominated) \/ list[j].pair \in Nominated(r)
      /\ i \in DOMAIN list
  <2>1. CASE i = Len(s.list) + 1 /\ i > Len(s.list)
    <3> HIDE DEF new
    <3>1. list = Append(s.list, new)
      BY <2>1
    <3>2. /\ list \in Seq(Checks) /\ Len(list) = Len(s.list) + 1
          /\ \A j \in 1 .. Len(s.list) : list[j] = s.list[j]
          /\ list[Len(s.list) + 1] = new
      BY <1>0, <1>3, <3>1, AppendProperties
    <3>3. DOMAIN list = 1 .. Len(s.list) + 1 /\ DOMAIN s.list = 1 .. Len(s.list) /\ Len(s.list) \in Nat
      BY <3>2, ChecksOf, LenProperties
    <3> HIDE DEF list
    <3>4. \A j \in DOMAIN list : j \in DOMAIN s.list \/ j = Len(s.list) + 1
      BY <3>3
    <3> QED
      BY <1>3, <2>1, <3>2, <3>3, <3>4 DEF Nominated
  <2>2. CASE i \in 1 .. Len(s.list) /\ ~(i > Len(s.list)) /\ s.list[i].pair = r.pair
    <3> DEFINE d == [s.list[i] EXCEPT !.nominated = @ \/ r.use]
    <3>1. i \in DOMAIN s.list /\ s.list[i] \in Checks
      BY <2>2, ChecksOf
    <3>2. d \in Checks /\ d.pair = r.pair /\ d.nominated = (s.list[i].nominated \/ r.use)
      BY <2>2, <3>1, CheckMarked
    <3> HIDE DEF d
    <3>3. list = [s.list EXCEPT ![i] = d]
      BY <2>2 DEF d
    <3>4. DOMAIN list = DOMAIN s.list /\ \A j \in DOMAIN s.list : list[j] = IF j = i THEN d ELSE s.list[j]
      BY <3>3
    <3>5. list \in Seq(Checks)
      BY <1>0, <2>2, <3>2, <3>3, ExceptSeq
    <3> HIDE DEF list
    <3> QED
      BY <2>2, <3>1, <3>2, <3>4, <3>5 DEF Nominated
  <2> QED
    BY <1>2, <2>1, <2>2
<1> HIDE DEF new
<1>15. s1 = [s EXCEPT !.list = list]
  BY <1>0 DEF Fields
<1> HIDE DEF list, s1
<1>5. Advances(s, s1, Nominated(r))
  BY <1>0, <1>4, <1>15, ListAdvances
<1>6. Session(s1) /\ i \in DOMAIN s1.list
  BY <1>0, <1>4, <1>5, <1>15 DEF Advances, Fields
<1>7. Advances(s1, PerformCheck(s1, i, c.nominated \/ s1.nominating, sent), {})
  <2> HIDE DEF s1, c
  <2> QED
    BY <1>6, PerformCheckAdvances
<1>8. Advances(s1, s2, Nominated(r)) /\ s2.list = s1.list
  <2> HIDE DEF s1
  <2>1. CASE r.use /\ r.pair \in DOMAIN s1.valid
    <3>1. /\ DOMAIN v1 = Fields /\ v1.list = s1.list /\ v1.me = s1.me /\ v1.role = s1.role /\ v1.ph = s1.ph
          /\ v1.nc = s1.nc /\ v1.early = s1.early /\ v1.out = s1.out
          /\ DOMAIN v1.valid = DOMAIN s1.valid
          /\ \A q \in DOMAIN s1.valid : q # r.pair => v1.valid[q] = s1.valid[q]
      BY <1>6 DEF Session, Fields
    <3> HIDE DEF v1
    <3>2. Session(v1)
      BY <1>6, <3>1 DEF Session
    <3>3. \A q : Nominates(v1, q) <=> Nominates(s1, q)
      BY <3>1 DEF Nominates
    <3>4. \A q : Claims(v1, q) => Claims(s1, q) \/ q = r.pair
      BY <3>1, <3>3 DEF Claims
    <3>5. Advances(s1, v1, {r.pair})
      BY <3>1, <3>2, <3>3, <3>4 DEF Advances
    <3>6. Advances(v1, UpdateCompCheck(v1, r.pair), Taken(v1, r.pair))
      BY <3>2, UpdateCompCheckAdvances
    <3>7. Advances(s1, s2, {r.pair} \cup Taken(v1, r.pair))
      BY <2>1, <3>5, <3>6, AdvancesTrans
    <3>8. {r.pair} \cup Taken(v1, r.pair) = Nominated(r)
      BY <2>1 DEF Nominated, Taken
    <3>9. UpdateCompCheck(v1, r.pair).list = v1.list
      BY <3>2 DEF UpdateCompCheck, Session, Fields
    <3> QED
      BY <2>1, <3>1, <3>7, <3>8, <3>9
  <2>2. CASE ~(r.use /\ r.pair \in DOMAIN s1.valid)
    <3>1. Advances(s1, s1, {})
      BY <1>6, SameItself, SameAdvances
    <3> QED
      BY <2>2, <3>1 DEF Advances
  <2> QED
    BY <2>1, <2>2
<1> HIDE DEF s1
<1>9. Advances(s2, OnCheckComplete(s2, i), {})
  <2>1. Session(s2) /\ i \in DOMAIN s2.list
    BY <1>6, <1>8 DEF Advances
  <2> HIDE DEF s2
  <2> QED
    BY <2>1, OnCheckCompleteSame, SameAdvances
<1> HIDE DEF s2, c, t
<1>10. Advances(s, s, {})
  BY SameItself, SameAdvances
<1>11. CASE t = s
  BY <1>10, <1>11 DEF Advances, t
<1>12. CASE t = PerformCheck(s1, i, c.nominated \/ s1.nominating, sent)
  <2>1. Advances(s, t, Nominated(r) \cup {})
    BY <1>5, <1>7, <1>12, AdvancesTrans
  <2> QED
    BY <2>1 DEF t
<1>13. CASE t = OnCheckComplete(s2, i)
  <2>1. Advances(s, s2, Nominated(r) \cup Nominated(r))
    BY <1>5, <1>8, AdvancesTrans
  <2>2. Advances(s, t, (Nominated(r) \cup Nominated(r)) \cup {})
    BY <1>9, <1>13, <2>1, AdvancesTrans
  <2>3. (Nominated(r) \cup Nominated(r)) \cup {} = Nominated(r)
    OBVIOUS
  <2> QED
    BY <2>2, <2>3 DEF t
<1>14. CASE t = s1
  BY <1>5, <1>14 DEF t
<1> QED
  BY <1>1, <1>11, <1>12, <1>13, <1>14

-----------------------------------------------------------------------------
(* The requests that came early are handled one after another.             *)

(* A set of natural numbers has a least one.                              *)
LEMMA LeastNat ==
  ASSUME NEW T \in SUBSET Nat, T # {}
  PROVE  \E k \in T : \A m \in T : k <= m
<1>1. \E R : /\ IsWellFoundedOn(R, Nat)
             /\ \A y, x \in Nat : y < x => <<y, x>> \in R
  <2>1. \A y, x \in Nat : y < x => <<y, x>> \in OpToRel(<, Nat)
    BY DEF OpToRel
  <2> QED BY <2>1, NatLessThanWellFounded, Zenon
<1>2. PICK R : /\ IsWellFoundedOn(R, Nat)
               /\ \A y, x \in Nat : y < x => <<y, x>> \in R
  BY <1>1
<1>3. PICK x \in T : \A y \in T : ~(<<y, x>> \in R)
  <2>1. T \subseteq Nat OBVIOUS
  <2>2. IsWellFoundedOn(R, Nat) BY <1>2
  <2>3. T # {} OBVIOUS
  <2>4. ASSUME NEW RR, NEW SS, IsWellFoundedOn(RR, SS),
               NEW TT, TT \subseteq SS, TT # {}
        PROVE  \E x \in TT : \A y \in TT : ~(<<y, x>> \in RR)
    BY ONLY WFMin, <2>4
  <2> QED BY ONLY <2>1, <2>2, <2>3, <2>4
<1>4. ASSUME NEW y \in T PROVE x <= y
  <2>1. x \in Nat /\ y \in Nat OBVIOUS
  <2>2. ~(y < x) BY <1>2, <1>3, <2>1
  <2> QED BY <2>1, <2>2
<1> QED BY <1>3, <1>4

(* HandleEarly is a function by recursion.                                 *)
Handles(f, m, s, early, sent) ==
  f = [n \in 0 .. m |-> IF n = 0 THEN s ELSE HandleIncomingCheck(f[n - 1], early[n], sent)]

LEMMA Handled ==
  ASSUME NEW s, NEW early, NEW sent, NEW m \in Nat
  PROVE  \E f : Handles(f, m, s, early, sent)
<1> DEFINE T == {n \in Nat : ~\E f : Handles(f, n, s, early, sent)}
<1>1. CASE T = {}
  BY <1>1
<1>2. CASE T # {}
  <2>1. PICK k \in T : \A n \in T : k <= n
    <3>1. T \in SUBSET Nat
      OBVIOUS
    <3> HIDE DEF T
    <3> QED
      BY <1>2, <3>1, LeastNat
  <2>2. k # 0
    <3> SUFFICES ASSUME k = 0 PROVE FALSE
      OBVIOUS
    <3> DEFINE f == [n \in 0 .. 0 |-> s]
    <3>1. f = [n \in 0 .. 0 |-> IF n = 0 THEN s ELSE HandleIncomingCheck(f[n - 1], early[n], sent)]
      <4>1. \A n \in 0 .. 0 : n = 0
        OBVIOUS
      <4> QED
        BY <4>1
    <3> HIDE DEF f
    <3>2. Handles(f, 0, s, early, sent)
      BY <3>1 DEF Handles
    <3> QED
      BY <3>2
  <2>3. k - 1 \in Nat /\ k \in Nat /\ ~(k <= k - 1)
    BY <2>2
  <2>4. PICK g : Handles(g, k - 1, s, early, sent)
    BY <2>1, <2>3
  <2> DEFINE last == HandleIncomingCheck(g[k - 1], early[k], sent)
             f == [n \in 0 .. k |-> IF n = k THEN last ELSE g[n]]
  <2>5. ASSUME NEW n \in 0 .. k
        PROVE  f[n] = IF n = 0 THEN s ELSE HandleIncomingCheck(f[n - 1], early[n], sent)
    <3>1. CASE n = k
      <4>1. n # 0 /\ n - 1 \in 0 .. k /\ n - 1 # k
        BY <2>2, <3>1
      <4>2. f[n - 1] = g[k - 1] /\ f[n] = last
        BY <3>1, <4>1
      <4> QED
        BY <3>1, <4>1, <4>2
    <3>2. CASE n # k
      <4>1. n \in 0 .. k - 1
        BY <3>2
      <4>2. f[n] = g[n]
        BY <3>2
      <4>3. g[n] = IF n = 0 THEN s ELSE HandleIncomingCheck(g[n - 1], early[n], sent)
        BY <2>4, <4>1 DEF Handles
      <4>4. n # 0 => f[n - 1] = g[n - 1]
        BY <3>2, <4>1
      <4> QED
        BY <4>2, <4>3, <4>4
    <3> QED
      BY <3>1, <3>2
  <2>6. f = [n \in 0 .. k |-> f[n]]
    OBVIOUS
  <2> HIDE DEF f
  <2>7. Handles(f, k, s, early, sent)
    BY <2>5, <2>6, Zenon DEF Handles
  <2> QED
    BY <2>1, <2>7
<1> QED
  BY <1>1, <1>2

LEMMA HandleEarlyIs ==
  ASSUME NEW s, NEW early \in Seq(Early), NEW sent
  PROVE  \E f : Handles(f, Len(early), s, early, sent) /\ HandleEarly(s, early, sent) = f[Len(early)]
<1> DEFINE f == CHOOSE g : g = [n \in 0 .. Len(early) |->
                                  IF n = 0 THEN s ELSE HandleIncomingCheck(g[n - 1], early[n], sent)]
<1>1. Len(early) \in Nat
  OBVIOUS
<1>2. Handles(f, Len(early), s, early, sent)
  BY <1>1, Handled DEF Handles
<1>3. HandleEarly(s, early, sent) = f[Len(early)]
  BY DEF HandleEarly
<1> QED
  BY <1>2, <1>3

(* The pairs that requests of a sequence nominate.                         *)
NominatedOf(early) == {p \in Pairs : \E i \in DOMAIN early : early[i].pair = p /\ early[i].use}

LEMMA HandleEarlyAdvances ==
  ASSUME NEW s, Session(s), s.ph # "new", NEW early \in Seq(Early), NEW sent
  PROVE  Advances(s, HandleEarly(s, early, sent), NominatedOf(early))
<1> DEFINE E == NominatedOf(early)
           N == Len(early)
<1>1. PICK f : Handles(f, N, s, early, sent) /\ HandleEarly(s, early, sent) = f[N]
  BY HandleEarlyIs
<1>2. N \in Nat /\ DOMAIN early = 1 .. N
  BY LenProperties
<1> HIDE DEF N, E
<1> DEFINE T == {n \in Nat : n <= N /\ ~Advances(s, f[n], E)}
<1>3. CASE T = {}
  BY <1>1, <1>2, <1>3 DEF E
<1>4. CASE T # {}
  <2>1. PICK n \in T : \A k \in T : n <= k
    <3>1. T \in SUBSET Nat
      OBVIOUS
    <3> HIDE DEF T
    <3> QED
      BY <1>4, <3>1, LeastNat
  <2>2. n \in 0 .. N
    BY <1>2, <2>1
  <2>3. f[n] = IF n = 0 THEN s ELSE HandleIncomingCheck(f[n - 1], early[n], sent)
    BY <1>1, <2>2 DEF Handles
  <2>4. CASE n = 0
    <3>1. Advances(s, s, {})
      BY SameItself, SameAdvances
    <3>2. Advances(s, s, E)
      BY <3>1 DEF Advances
    <3> QED
      BY <2>1, <2>3, <2>4, <3>2
  <2>5. CASE n # 0
    <3>1. n - 1 \in Nat /\ n - 1 <= N /\ ~(n <= n - 1) /\ n \in 1 .. N
      BY <1>2, <2>2, <2>5
    <3>2. Advances(s, f[n - 1], E)
      BY <2>1, <3>1
    <3>3. early[n] \in Early
      BY <1>2, <3>1, ElementOfSeq
    <3>4. early[n].pair \in Pairs /\ early[n].use \in BOOLEAN
      BY <3>3 DEF Early
    <3>5. Advances(f[n - 1], HandleIncomingCheck(f[n - 1], early[n], sent), Nominated(early[n]))
      <4>1. Session(f[n - 1]) /\ f[n - 1].ph # "new"
        BY <3>2 DEF Advances
      <4> QED
        BY <3>4, <4>1, HandleIncomingCheckAdvances
    <3>6. Nominated(early[n]) \subseteq E
      BY <1>2, <3>1, <3>4 DEF Nominated, E, NominatedOf
    <3>7. E \cup Nominated(early[n]) = E
      BY <3>6
    <3>8. Advances(s, f[n], E \cup Nominated(early[n]))
      BY <2>3, <2>5, <3>2, <3>5, AdvancesTrans
    <3> QED
      BY <2>1, <3>7, <3>8
  <2> QED
    BY <2>4, <2>5
<1> QED
  BY <1>3, <1>4

LEMMA StoppedAdvances ==
  ASSUME NEW s, Session(s)
  PROVE  Advances(s, Stopped(s), {}) /\ Stopped(s).ph = "stopped"
<1> DEFINE t == Stopped(s)
<1>1. /\ DOMAIN t = Fields /\ t.me = s.me /\ t.role = s.role /\ t.ph = "stopped" /\ t.list = << >>
      /\ t.valid = << >> /\ t.early = << >> /\ t.out = s.out
      /\ \A c \in DOMAIN t.nc : t.nc[c] = None
  BY DEF Stopped, NewSession, Fields, Session
<1>2. DOMAIN << >> = {} /\ << >> \in Seq(Checks) /\ << >> \in Seq(Early)
  BY EmptySeq, LenProperties
<1> HIDE DEF t
<1>3. Session(t)
  BY <1>1, <1>2 DEF Session
<1>4. \A p : ~Nominates(t, p)
  BY <1>1, <1>2 DEF Nominates
<1>5. \A p : ~Claims(t, p)
  BY <1>1, <1>2, <1>4 DEF Claims
<1>6. Advances(s, t, {})
  BY <1>1, <1>2, <1>3, <1>5 DEF Advances
<1> QED
  BY <1>1, <1>6 DEF t

LEMMA StartCheckAdvances ==
  ASSUME NEW s, Session(s), s.ph = "listed", NEW sent
  PROVE  Advances(s, StartCheck(s, sent), {})
<1> DEFINE first(i) == /\ Comp[s.list[i].pair] = 1
                       /\ \A j \in 1 .. i - 1 : ~SameLocal(s, s.list[j].pair, s.list[i].pair)
           list == [i \in DOMAIN s.list |-> IF first(i) /\ s.list[i].st = "FROZEN"
                                            THEN [s.list[i] EXCEPT !.st = "WAITING"] ELSE s.list[i]]
           s0 == [s EXCEPT !.list = list]
           s1 == [s EXCEPT !.ph = "started", !.nominating = @ \/ s.aggressive, !.list = list, !.early = << >>]
           s2 == HandleEarly(s1, s.early, sent)
<1>1. Same(s, s0)
  <2>1. \A c \in Checks : /\ [c EXCEPT !.st = "WAITING"] \in Checks
                          /\ [c EXCEPT !.st = "WAITING"].pair = c.pair
                          /\ [c EXCEPT !.st = "WAITING"].nominated = c.nominated
    BY DEF Checks
  <2> HIDE DEF first
  <2>2. DOMAIN list = DOMAIN s.list /\ list = [i \in DOMAIN list |-> list[i]]
    OBVIOUS
  <2>3. \A j \in DOMAIN s.list : /\ list[j] \in Checks /\ list[j].pair = s.list[j].pair
                                 /\ list[j].nominated = s.list[j].nominated
    BY <2>1, ChecksOf
  <2> HIDE DEF list
  <2> QED
    BY <2>2, <2>3, ListSame
<1>2. StartCheck(s, sent) = IF s2.tick THEN Stopped(s2) ELSE [s2 EXCEPT !.tick = TRUE]
  BY Zenon DEF StartCheck
<1> HIDE DEF list
<1>3. /\ DOMAIN s1 = Fields /\ s1.me = s0.me /\ s1.role = s0.role /\ s1.ph = "started" /\ s1.list = s0.list
      /\ s1.valid = s0.valid /\ s1.nc = s0.nc /\ s1.early = << >> /\ s1.out = s0.out
  BY DEF Session, Fields
<1> HIDE DEF s0, s1
<1>4. DOMAIN << >> = {} /\ << >> \in Seq(Early)
  BY EmptySeq, LenProperties
<1>5. Session(s1)
  BY <1>1, <1>3, <1>4 DEF Same, Session
<1>6. Advances(s0, s1, {})
  <2>1. \A p : Nominates(s1, p) <=> Nominates(s0, p)
    BY <1>3 DEF Nominates
  <2>2. \A p : Claims(s1, p) => Claims(s0, p)
    BY <1>3, <1>4, <2>1 DEF Claims
  <2> QED
    BY <1>1, <1>3, <1>5, <2>1, <2>2 DEF Advances, Same
<1>7. Advances(s, s1, {})
  BY <1>1, <1>6, SameAdvances, AdvancesTrans
<1>8. s.early \in Seq(Early)
  BY DEF Session
<1>9. Advances(s1, s2, NominatedOf(s.early))
  BY <1>3, <1>5, <1>8, HandleEarlyAdvances
<1> HIDE DEF s2
<1>10. Advances(s, s2, {} \cup NominatedOf(s.early))
  BY <1>7, <1>9, AdvancesTrans
<1>11. Advances(s, s2, {})
  <2>1. \A p \in NominatedOf(s.early) : Claims(s, p)
    BY DEF NominatedOf, Claims
  <2> QED
    BY <1>10, <2>1 DEF Advances
<1>12. Session(s2)
  BY <1>11 DEF Advances
<1>13. Advances(s2, StartCheck(s, sent), {})
  BY <1>2, <1>12, StoppedAdvances, SameBut, SameAdvances
<1> QED
  BY <1>11, <1>13, AdvancesTrans

LEMMA FirstIn ==
  ASSUME NEW S \in SUBSET Nat, S # {}
  PROVE  First(S) \in S
BY LeastNat DEF First

LEMMA StartPeriodicCheckAdvances ==
  ASSUME NEW s, Session(s), NEW sent
  PROVE  Advances(s, StartPeriodicCheck(s, sent), {})
<1> DEFINE due == IF InState(s, "WAITING") # {} THEN InState(s, "WAITING") ELSE InState(s, "FROZEN")
           i   == First(due)
           s1  == PerformCheck(s, i, s.nominating, sent)
           s2  == IF sent THEN s1 ELSE SetFailed(s1, i)
<1>1. StartPeriodicCheck(s, sent) = IF s.ph = "stopped" \/ due = {} THEN s ELSE [s2 EXCEPT !.tick = TRUE]
  BY Zenon DEF StartPeriodicCheck
<1>2. due \subseteq DOMAIN s.list /\ DOMAIN s.list \subseteq Nat
  <2>1. due \subseteq DOMAIN s.list
    BY DEF InState
  <2>2. DOMAIN s.list \subseteq Nat
    <3>1. DOMAIN s.list = 1 .. Len(s.list) /\ Len(s.list) \in Nat
      BY ChecksOf
    <3> QED
      BY <3>1
  <2> QED
    BY <2>1, <2>2
<1> HIDE DEF due
<1>3. CASE due = {}
  BY <1>1, <1>3, SameItself, SameAdvances
<1>4. CASE due # {}
  <2>1. i \in DOMAIN s.list
    BY <1>2, <1>4, FirstIn
  <2> HIDE DEF i
  <2>2. Advances(s, s1, {})
    BY <2>1, PerformCheckAdvances
  <2>3. Session(s1) /\ i \in DOMAIN s1.list
    <3>1. DOMAIN s1.list = DOMAIN s.list
      BY DEF PerformCheck, Session, Fields
    <3> HIDE DEF s1
    <3> QED
      BY <2>1, <2>2, <3>1 DEF Advances
  <2> HIDE DEF s1
  <2>4. Same(s1, s2)
    BY <2>3, SetFailedSame, SameItself
  <2>5. Session(s2)
    BY <2>4 DEF Same
  <2> HIDE DEF s2
  <2>6. Advances(s, s2, {})
    BY <2>2, <2>4, SameAdvances, AdvancesTrans
  <2>7. Advances(s2, [s2 EXCEPT !.tick = TRUE], {})
    BY <2>5, SameBut, SameAdvances
  <2>8. Advances(s, [s2 EXCEPT !.tick = TRUE], {})
    BY <2>6, <2>7, AdvancesTrans
  <2> QED
    BY <1>1, <1>4, <2>8, SameItself, SameAdvances
<1> QED
  BY <1>3, <1>4

LEMMA OnTimerSame ==
  ASSUME NEW s, Session(s), NEW type
  PROVE  Same(s, OnTimer(s, type))
<1> DEFINE s1 == [s EXCEPT !.timer = "NONE"]
           s2 == IF s.complete = "ok" THEN Schedule(s1, "KEEP_ALIVE") ELSE s1
           s3 == [s2 EXCEPT !.told = s.complete]
<1>1. OnTimer(s, type) \in {s, OnIceComplete(s1, "timeout"), s3, StartNominatedCheck(s1), s1}
  BY DEF OnTimer
<1>0. Same(s, s1)
  BY SameBut
<1> HIDE DEF s1
<1>2. Same(s, s1) /\ Session(s1)
  BY <1>0 DEF Same
<1>3. Same(s1, s2) /\ Session(s2)
  BY <1>2, ScheduleSame, SameItself DEF Same
<1> HIDE DEF s2
<1>4. Same(s2, s3)
  BY <1>3, SameBut
<1> HIDE DEF s3
<1>5. Same(s1, OnIceComplete(s1, "timeout")) /\ Same(s1, StartNominatedCheck(s1)) /\ Same(s1, s3)
  BY <1>2, <1>3, <1>4, OnIceCompleteSame, StartNominatedCheckSame, SameTrans
<1> QED
  BY <1>1, <1>2, <1>5, SameItself, SameTrans

(* An answered request: the check may make its pair valid, when it was     *)
(* answered ok, and the agent's role is Other(m.role) after a conflict.    *)
LEMMA OnRequestCompleteAdvances ==
  ASSUME NEW s, Session(s), NEW i \in DOMAIN s.list, NEW m, NEW sent,
         m.code = "role conflict" => m.role \in Roles
  PROVE  /\ m.code = "timeout" => Advances(s, OnRequestComplete(s, i, m, sent), {})
         /\ m.code = "role conflict" =>
               Advances([s EXCEPT !.role = Other(m.role)], OnRequestComplete(s, i, m, sent), {})
         /\ m.code = "ok" => \E u : /\ Advances(u, OnRequestComplete(s, i, m, sent), {})
                                   /\ \E vs : u = [s EXCEPT !.valid = vs]
                                   /\ \A p : Claims(u, p) => Claims(s, p)
<1> DEFINE c == s.list[i]
           p == c.pair
           valid == [nominated |-> c.nominated,
                     prio |-> IF p \in DOMAIN s.valid THEN s.valid[p].prio ELSE CheckPrio(s, p)]
           vs == [q \in DOMAIN s.valid \cup {p} |-> IF q = p THEN valid ELSE s.valid[q]]
           u  == [s EXCEPT !.valid = vs]
           s1 == [u EXCEPT !.list[i].st = "SUCCEEDED"]
           r  == [s EXCEPT !.role = Other(m.role)]
           s2 == [r EXCEPT !.list[i].st = "WAITING"]
           t  == OnRequestComplete(s, i, m, sent)
<1>0. DOMAIN s = Fields /\ c \in Checks /\ p \in Pairs
  BY ChecksOf DEF Session, Checks
<1>1. /\ m.code = "ok" => t = OnCheckComplete(UpdateCompCheck(s1, p), i)
      /\ m.code = "timeout" => t = SetFailed(s, i)
      /\ m.code = "role conflict" => t = PerformCheck(s2, i, c.nominated \/ s2.nominating, sent)
  <2>1. s1 = [s EXCEPT !.valid = vs, !.list[i].st = "SUCCEEDED"]
    <3> HIDE DEF vs
    <3> QED
      BY <1>0 DEF Fields
  <2>2. s2 = [s EXCEPT !.role = Other(m.role), !.list[i].st = "WAITING"]
    BY <1>0 DEF Fields
  <2> HIDE DEF s1, s2
  <2>3. OnRequestComplete(s, i, m, sent) =
          CASE m.code = "ok"      -> OnCheckComplete(UpdateCompCheck(s1, p), i)
            [] m.code = "timeout" -> SetFailed(s, i)
            [] m.code = "role conflict" -> PerformCheck(s2, i, c.nominated \/ s2.nominating, sent)
    BY <2>1, <2>2, Zenon DEF OnRequestComplete
  <2> QED
    BY <2>3
<1> HIDE DEF t
<1>2. CASE m.code = "timeout"
  BY <1>1, <1>2, SetFailedSame, SameAdvances DEF t
<1>3. CASE m.code = "role conflict"
  <2>1. /\ DOMAIN r = Fields /\ r.role = Other(m.role) /\ r.me = s.me /\ r.ph = s.ph /\ r.list = s.list
        /\ r.early = s.early /\ r.out = s.out
    BY <1>0 DEF Fields
  <2>2. Other(m.role) \in Roles
    BY DEF Other, Roles
  <2> HIDE DEF r
  <2>3. Session(r)
    BY <2>1, <2>2 DEF Session
  <2>4. Same(r, s2)
    BY <2>3, StateSame
  <2> HIDE DEF s2
  <2>5. Session(s2) /\ i \in DOMAIN s2.list
    BY <2>1, <2>4 DEF Same
  <2>6. Advances(s2, PerformCheck(s2, i, c.nominated \/ s2.nominating, sent), {})
    <3> HIDE DEF c
    <3> QED
      BY <2>5, PerformCheckAdvances
  <2>7. Advances(r, t, {})
    BY <1>1, <1>3, <2>4, <2>6, SameAdvances, AdvancesThen
  <2> QED
    BY <1>3, <2>7 DEF t, r
<1>4. CASE m.code = "ok"
  <2>1. /\ DOMAIN u = Fields /\ u.role = s.role /\ u.me = s.me /\ u.ph = s.ph /\ u.list = s.list
        /\ u.early = s.early /\ u.out = s.out /\ u.nc = s.nc /\ u.valid = vs
        /\ u = [s EXCEPT !.valid = u.valid]
    BY <1>0 DEF Fields
  <2>2. \A q : q \in DOMAIN vs /\ vs[q].nominated =>
                  Nominates(s, q) \/ (q \in DOMAIN s.valid /\ s.valid[q].nominated)
    BY DEF Nominates
  <2> HIDE DEF u, vs
  <2>3. Session(u)
    BY <2>1 DEF Session
  <2>4. \A q : Nominates(u, q) <=> Nominates(s, q)
    BY <2>1 DEF Nominates
  <2>5. \A q : Claims(u, q) => Claims(s, q)
    BY <2>1, <2>2, <2>4 DEF Claims
  <2>6. Same(u, s1)
    BY <2>3, StateSame
  <2> HIDE DEF s1
  <2>7. Session(s1) /\ i \in DOMAIN s1.list
    BY <2>1, <2>6 DEF Same
  <2> DEFINE s3 == UpdateCompCheck(s1, p)
  <2>8. Advances(s1, s3, Taken(s1, p))
    BY <1>0, <2>7, UpdateCompCheckAdvances
  <2>9. s3.list = s1.list
    <3>1. DOMAIN s1 = Fields
      BY <2>7 DEF Session
    <3> HIDE DEF p
    <3> QED
      BY <3>1 DEF UpdateCompCheck, Fields
  <2>10. Taken(s1, p) # {} => Nominates(s1, p)
    <3>1. s1.valid[p].nominated => c.nominated
      <4>1. s1.valid = vs
        BY <2>1, <2>6 DEF Same
      <4>2. vs[p] = valid
        BY DEF vs
      <4>3. valid.nominated = c.nominated
        OBVIOUS
      <4> QED
        BY <4>1, <4>2, <4>3
    <3>2. i \in DOMAIN s1.list /\ s1.list[i].pair = p /\ s1.list[i].nominated = c.nominated
      BY <2>1, <2>6 DEF Same
    <3> HIDE DEF c, p
    <3> QED
      BY <3>1, <3>2 DEF Taken, Nominates
  <2>11. Advances(s1, s3, {})
    <3>1. \A q \in Taken(s1, p) : Claims(s1, q)
      BY <2>10 DEF Taken, Claims
    <3> HIDE DEF s3, p
    <3> QED
      BY <2>8, <3>1 DEF Advances
  <2>12. Advances(s3, t, {})
    <3>1. Session(s3) /\ i \in DOMAIN s3.list
      BY <2>7, <2>9, <2>11 DEF Advances
    <3>2. t = OnCheckComplete(s3, i)
      BY <1>1, <1>4
    <3> HIDE DEF s3
    <3> QED
      BY <3>1, <3>2, OnCheckCompleteSame, SameAdvances
  <2> HIDE DEF s3
  <2>13. Advances(u, t, {})
    <3>1. Advances(u, s1, {})
      BY <2>6, SameAdvances
    <3> QED
      BY <2>11, <2>12, <3>1, AdvancesThen
  <2>14. \E ws : u = [s EXCEPT !.valid = ws]
    BY <2>1
  <2> QED
    BY <1>4, <2>5, <2>13, <2>14 DEF t
<1> QED
  BY <1>2, <1>3, <1>4

-----------------------------------------------------------------------------
(* The two agents.                                                         *)
Typed ==
  /\ world \in Worlds
  /\ ses = [a \in Agents |-> ses[a]]
  /\ \A a \in Agents : Session(ses[a]) /\ ses[a].me = a /\ ses[a].out = {}
  /\ net \subseteq Requests \cup Responses

(* The agent that gives in when both start with the same role, and the     *)
(* roles when it has.                                                      *)
Switches(a) == world.role["A"] = world.role["B"] /\ (a = "B") = (world.role[a] = "CONTROLLING")
Final(a) == IF Switches(a) THEN Other(world.role[a]) ELSE world.role[a]
Settled == \A a \in Agents : ses[a].role = Final(a)

(* What a message says of the role of its sender is or was true; one that  *)
(* is answered is settled.                                                 *)
Roled ==
  /\ \A a \in Agents : ses[a].role \in {world.role[a], Final(a)}
  /\ \A a \in Agents : DOMAIN ses[a].valid # {} => Settled
  /\ \A m \in net : m.kind = "request" => m.role \in {world.role[m.from], ses[m.from].role}
  /\ \A m \in net : m.kind = "response" =>
        IF m.code = "ok" THEN Settled
        ELSE m.role = world.role[Peer(m.from)] /\ Switches(Peer(m.from))

Agreed(a, p) == ses[a].ph = "stopped" \/ Nominates(ses[a], p)
Nominating ==
  world.role["A"] # world.role["B"] =>
    /\ \A a \in Agents : world.role[a] = "CONTROLLED" => \A p : Claims(ses[a], p) => Agreed(Peer(a), p)
    /\ \A m \in net : m.kind = "request" /\ m.use =>
          world.role[m.from] = "CONTROLLING" /\ Agreed(m.from, m.pair)

Inv == Typed /\ Roled /\ Nominating

LEMMA WorldFacts ==
  ASSUME world \in Worlds
  PROVE  /\ \A a \in Agents : /\ world.role[a] \in Roles /\ Peer(a) \in Agents /\ Peer(a) # a /\ Peer(Peer(a)) = a
                              /\ world.known[a] \subseteq Pairs
                              /\ Final(a) \in Roles
         /\ Final("A") # Final("B")
         /\ world.role["A"] # world.role["B"] => \A a \in Agents : Final(a) = world.role[a]
<1>1. world.role \in [Agents -> Roles] /\ world.known \in [Agents -> (SUBSET Pairs) \ {{}}]
  BY WorldAssumption
<1>2. \A a \in Agents : world.role[a] \in Roles /\ world.known[a] \subseteq Pairs
  BY <1>1
<1>3. world.role["A"] \in Roles /\ world.role["B"] \in Roles
  BY <1>2 DEF Agents
<1>4. Final("A") # Final("B")
  BY <1>3 DEF Final, Switches, Other, Roles
<1> QED
  BY <1>2, <1>3, <1>4 DEF Final, Switches, Other, Roles, Agents, Peer

LEMMA SettledDiffer == Typed /\ Settled => ses["A"].role # ses["B"].role
BY WorldFacts DEF Typed, Settled, Agents

(* The agent goes to t; what it sends is true.                             *)
LEMMA BecomesSafe ==
  ASSUME Inv, NEW a \in Agents, NEW t, NEW taken, Becomes(a, t, taken),
         Session(t), t.me = a, t.role \in {ses[a].role, Final(a)},
         DOMAIN t.valid # {} => Settled,
         ses[a].ph = "stopped" => t.ph = "stopped",
         \A m \in t.out :
            /\ m.from = a
            /\ m.kind = "request" =>
                  /\ m.role \in {world.role[a], t.role}
                  /\ m.use => t.role = "CONTROLLING" /\ (t.ph = "stopped" \/ Nominates(t, m.pair))
            /\ m.kind = "response" =>
                  IF m.code = "ok" THEN t.role = Final(a) /\ ses[Peer(a)].role = Final(Peer(a))
                  ELSE m.role = world.role[Peer(a)] /\ Switches(Peer(a)),
         t.ph = "stopped" \/ \A p : Nominates(ses[a], p) => Nominates(t, p),
         world.role["A"] # world.role["B"] /\ world.role[a] = "CONTROLLED" =>
            \A p : Claims(t, p) => Claims(ses[a], p) \/ Agreed(Peer(a), p)
  PROVE  Inv'
<1> DEFINE u == [t EXCEPT !.out = {}]
<1>1. /\ world' = world /\ ses' = [ses EXCEPT ![a] = u]
      /\ \A m \in net' : m \in net \/ m \in t.out
  BY DEF Becomes
<1>2. /\ DOMAIN u = Fields /\ u.me = t.me /\ u.role = t.role /\ u.ph = t.ph /\ u.list = t.list
      /\ u.valid = t.valid /\ u.nc = t.nc /\ u.early = t.early /\ u.out = {}
  BY DEF Session, Fields
<1> HIDE DEF u
<1>3. ses'[a] = u /\ (\A b \in Agents : b # a => ses'[b] = ses[b]) /\ ses' = [b \in Agents |-> ses'[b]]
  BY <1>1 DEF Inv, Typed
<1>4. Session(u) /\ \A p : (Nominates(u, p) <=> Nominates(t, p)) /\ (Claims(u, p) <=> Claims(t, p))
  <2>1. \A p : Nominates(u, p) <=> Nominates(t, p)
    BY <1>2 DEF Nominates
  <2> QED
    BY <1>2, <2>1 DEF Session, Claims
<1>5. world \in Worlds
  BY DEF Inv, Typed
<1>6. Typed'
  <2>1. \A b \in Agents : Session(ses'[b]) /\ ses'[b].me = b /\ ses'[b].out = {}
    BY <1>2, <1>3, <1>4 DEF Inv, Typed
  <2>2. net' \subseteq Requests \cup Responses
    BY <1>1 DEF Session, Inv, Typed
  <2> QED
    BY <1>1, <1>3, <1>5, <2>1, <2>2 DEF Typed
<1>7. \A b : (Switches(b)' <=> Switches(b)) /\ Final(b)' = Final(b)
  BY <1>1 DEF Final, Switches
<1>8. \A b \in Agents : ses'[b].role \in {ses[b].role, Final(b)}
  BY <1>2, <1>3
<1>9. Settled => Settled'
  BY <1>7, <1>8 DEF Settled
<1>10. Roled'
  <2>1. \A b \in Agents : ses'[b].role \in {world.role[b], Final(b)}
    BY <1>8 DEF Inv, Roled
  <2>2. \A b \in Agents : DOMAIN ses'[b].valid # {} => Settled'
    BY <1>2, <1>3, <1>9 DEF Inv, Roled
  <2>3. ASSUME NEW m \in net', m.kind = "request" PROVE m.role \in {world.role[m.from], ses'[m.from].role}
    <3>1. CASE m \in t.out
      BY <1>2, <1>3, <2>3, <3>1
    <3>2. CASE m \in net
      <4>1. m.role \in {world.role[m.from], ses[m.from].role} /\ m.from \in Agents
        BY <2>3, <3>2 DEF Inv, Roled, Typed, Requests, Responses
      <4>2. \A b \in Agents : ses[b].role \in {world.role[b], Final(b)}
        BY DEF Inv, Roled
      <4>3. ses'[m.from].role \in {ses[m.from].role, Final(m.from)}
        BY <1>8, <4>1
      <4> QED
        BY <4>1, <4>2, <4>3
    <3> QED
      BY <1>1, <3>1, <3>2
  <2>4. ASSUME NEW m \in net', m.kind = "response"
        PROVE  IF m.code = "ok" THEN Settled'
               ELSE m.role = world.role[Peer(m.from)] /\ Switches(Peer(m.from))
    <3>1. CASE m \in t.out
      <4>1. t.role = Final(a) /\ ses[Peer(a)].role = Final(Peer(a)) => Settled'
        <5>1. \A b \in Agents : b = a \/ b = Peer(a)
          BY DEF Agents, Peer
        <5> QED
          BY <1>2, <1>3, <1>7, <5>1 DEF Settled
      <4> QED
        BY <2>4, <3>1, <4>1
    <3>2. CASE m \in net
      BY <1>9, <2>4, <3>2 DEF Inv, Roled
    <3> QED
      BY <1>1, <3>1, <3>2
  <2> QED
    BY <1>1, <1>7, <2>1, <2>2, <2>3, <2>4 DEF Roled
<1>11. \A b \in Agents : \A p : Agreed(b, p) => Agreed(b, p)'
  BY <1>2, <1>3, <1>4 DEF Agreed
<1>12. Nominating'
  <2> SUFFICES ASSUME world.role["A"] # world.role["B"]
               PROVE  /\ \A b \in Agents : world.role[b] = "CONTROLLED" =>
                            \A p : Claims(ses[b], p)' => Agreed(Peer(b), p)'
                      /\ \A m \in net' : m.kind = "request" /\ m.use =>
                            world.role[m.from] = "CONTROLLING" /\ Agreed(m.from, m.pair)'
    BY <1>1 DEF Nominating
  <2>1. ASSUME NEW b \in Agents, world.role[b] = "CONTROLLED", NEW p, Claims(ses[b], p)'
        PROVE  Agreed(Peer(b), p)'
    <3>1. Claims(ses'[b], p)
      BY <2>1 DEF Claims, Nominates
    <3>2. Claims(ses[b], p) \/ Agreed(Peer(b), p)
      BY <1>3, <1>4, <2>1, <3>1
    <3>3. Agreed(Peer(b), p)
      BY <2>1, <3>2 DEF Inv, Nominating
    <3> QED
      BY <1>5, <1>11, <3>3, WorldFacts
  <2>2. ASSUME NEW m \in net', m.kind = "request", m.use
        PROVE  world.role[m.from] = "CONTROLLING" /\ Agreed(m.from, m.pair)'
    <3>1. CASE m \in t.out
      <4>1. t.role = world.role[a]
        BY <1>5, WorldFacts DEF Inv, Roled
      <4>2. Agreed(a, m.pair)'
        BY <1>2, <1>3, <1>4, <2>2, <3>1 DEF Agreed
      <4> QED
        BY <2>2, <3>1, <4>1, <4>2
    <3>2. CASE m \in net
      <4>1. world.role[m.from] = "CONTROLLING" /\ Agreed(m.from, m.pair) /\ m.from \in Agents
        BY <2>2, <3>2 DEF Inv, Nominating, Typed, Requests, Responses
      <4> QED
        BY <1>11, <4>1
    <3> QED
      BY <1>1, <3>1, <3>2
  <2> QED
    BY <2>1, <2>2
<1> QED
  BY <1>6, <1>10, <1>12 DEF Inv

(* A step in which the agent does no more than its functions do.           *)
LEMMA AdvancesSafe ==
  ASSUME Inv, NEW a \in Agents, NEW t, NEW taken, Becomes(a, t, taken), Advances(ses[a], t, {})
  PROVE  Inv'
<1>1. Session(ses[a]) /\ ses[a].me = a /\ ses[a].out = {} /\ world \in Worlds
  BY DEF Inv, Typed
<1>2. Session(t) /\ t.me = a /\ t.role = ses[a].role
  BY <1>1 DEF Advances
<1>3. DOMAIN t.valid # {} => Settled
  BY DEF Advances, Inv, Roled
<1>4. ASSUME NEW m \in t.out
      PROVE  /\ m.from = a /\ m.kind = "request" /\ m.role = t.role
             /\ m.use => t.role = "CONTROLLING" /\ (t.ph = "stopped" \/ Nominates(t, m.pair))
  <2>1. Says(t, m)
    BY <1>1 DEF Advances
  <2> QED
    BY <1>2, <2>1 DEF Says, Requests
<1>5. world.role["A"] # world.role["B"] /\ world.role[a] = "CONTROLLED" => ses[a].role = "CONTROLLED"
  BY <1>1, WorldFacts DEF Inv, Roled
<1>6. world.role["A"] # world.role["B"] /\ world.role[a] = "CONTROLLED" => \A p : Claims(t, p) => Claims(ses[a], p)
  BY <1>5 DEF Advances
<1>7. (ses[a].ph = "stopped" => t.ph = "stopped")
      /\ (t.ph = "stopped" \/ \A p : Nominates(ses[a], p) => Nominates(t, p))
  BY DEF Advances
<1>8. \A m \in t.out : m.kind # "response"
  BY <1>4
<1> QED
  BY <1>2, <1>3, <1>4, <1>6, <1>7, <1>8, BecomesSafe

LEMMA InitSafe == Init => Inv
<1> SUFFICES ASSUME Init PROVE Inv
  OBVIOUS
<1>1. world \in Worlds /\ ses = [a \in Agents |-> NewSession(a, world)] /\ net = {}
  BY DEF Init
<1>2. DOMAIN << >> = {} /\ << >> \in Seq(Checks) /\ << >> \in Seq(Early)
  BY EmptySeq, LenProperties
<1>3. \A a \in Agents : world.role[a] \in Roles
  BY <1>1, WorldFacts
<1>4. ASSUME NEW a \in Agents
      PROVE  /\ Session(ses[a]) /\ ses[a].me = a /\ ses[a].out = {} /\ ses[a].role = world.role[a]
             /\ DOMAIN ses[a].valid = {} /\ \A p : ~Claims(ses[a], p)
  <2>1. ses[a] = NewSession(a, world)
    BY <1>1
  <2>2. /\ DOMAIN ses[a] = Fields /\ ses[a].me = a /\ ses[a].role = world.role[a] /\ ses[a].list = << >>
        /\ ses[a].valid = << >> /\ ses[a].early = << >> /\ ses[a].out = {}
        /\ \A c \in DOMAIN ses[a].nc : ses[a].nc[c] = None
    BY <2>1 DEF NewSession, Fields
  <2>3. \A p : ~Claims(ses[a], p)
    BY <1>2, <2>2 DEF Claims, Nominates
  <2> QED
    BY <1>2, <1>3, <2>2, <2>3 DEF Session
<1>5. Typed
  BY <1>1, <1>4 DEF Typed
<1>6. Roled
  BY <1>1, <1>4 DEF Roled
<1>7. Nominating
  BY <1>1, <1>4 DEF Nominating
<1> QED
  BY <1>5, <1>6, <1>7 DEF Inv

LEMMA CreateListSafe ==
  ASSUME Inv, NEW a \in Agents, CreateList(a)
  PROVE  Inv'
<1>1. Session(ses[a]) /\ ses[a].me = a /\ ses[a].ph = "new" /\ world \in Worlds
  BY DEF Inv, Typed, CreateList
<1>2. PICK list \in CheckLists(ses[a]) : Becomes(a, CreateCheckList(ses[a], list), {})
  BY DEF CreateList
<1> DEFINE s == ses[a]
           pairs == world.known[a]
           t == CreateCheckList(s, list)
<1>3. pairs \subseteq Pairs
  BY <1>1, WorldFacts
<1>4. list \in [1 .. Cardinality(pairs) -> {NewCheck(s, p, "FROZEN", FALSE) : p \in pairs}]
  BY <1>1 DEF CheckLists
<1>5. Cardinality(pairs) \in Nat
  BY <1>3, PairAssumption, FS_Subset, FS_CardinalityType
<1>6. \A p \in pairs : NewCheck(s, p, "FROZEN", FALSE) \in Checks /\ NewCheck(s, p, "FROZEN", FALSE).nominated = FALSE
  BY <1>1, <1>3, NewCheckType
<1>7. list \in Seq(Checks) /\ \A i \in DOMAIN list : ~list[i].nominated
  <2>1. ASSUME NEW i \in 1 .. Cardinality(pairs) PROVE list[i] \in Checks /\ ~list[i].nominated
    <3>1. list[i] \in {NewCheck(s, p, "FROZEN", FALSE) : p \in pairs}
      BY <1>4
    <3> HIDE DEF s, pairs
    <3> QED
      BY <1>6, <3>1
  <2>2. list \in [1 .. Cardinality(pairs) -> Checks]
    BY <1>4, <2>1
  <2> HIDE DEF pairs, s
  <2> QED
    BY <1>4, <1>5, <2>1, <2>2, SeqDef
<1> HIDE DEF pairs
<1>8. /\ DOMAIN t = Fields /\ t.me = s.me /\ t.role = s.role /\ t.ph = "listed" /\ t.list = list
      /\ t.valid = s.valid /\ t.nc = s.nc /\ t.early = s.early /\ t.out = s.out
  BY <1>1 DEF CreateCheckList, Session, Fields
<1>9. s.list = << >> /\ DOMAIN << >> = {}
  BY <1>1 DEF Session
<1> HIDE DEF t, s
<1>10. \A p : ~Nominates(s, p) /\ ~Nominates(t, p)
  BY <1>7, <1>8, <1>9 DEF Nominates
<1>11. \A p : Claims(t, p) => Claims(s, p)
  BY <1>8, <1>10 DEF Claims
<1>12. Session(t)
  BY <1>1, <1>7, <1>8 DEF Session, s
<1>13. Advances(s, t, {})
  BY <1>1, <1>8, <1>10, <1>11, <1>12 DEF Advances, s
<1> QED
  BY <1>2, <1>13, AdvancesSafe DEF t, s

LEMMA WorkSame ==
  ASSUME NEW s, Session(s), NEW k, NEW work
  PROVE  Same(s, [s EXCEPT !.work[k] = work])
<1>1. [s EXCEPT !.work[k] = work] = [s EXCEPT !.work = [s.work EXCEPT ![k] = work]]
  BY DEF Session, Fields
<1> QED
  BY <1>1, SameBut

LEMMA PollSafe ==
  ASSUME Inv, NEW a \in Agents, NEW k, PollTick(a, k) \/ PollTimer(a, k)
  PROVE  Inv'
<1>1. Session(ses[a])
  BY DEF Inv, Typed
<1>2. PICK s, work : Same(ses[a], s) /\ Polls(a, k, s, work)
  <2>1. Same(ses[a], [ses[a] EXCEPT !.tick = FALSE]) /\ Same(ses[a], [ses[a] EXCEPT !.queued = FALSE])
    BY <1>1, SameBut
  <2> QED
    BY <2>1 DEF PollTick, PollTimer
<1>3. Same(s, [s EXCEPT !.work[k] = work])
  BY <1>2, WorkSame DEF Same
<1>4. Advances(ses[a], [s EXCEPT !.work[k] = work], {})
  BY <1>2, <1>3, SameTrans, SameAdvances
<1> QED
  BY <1>2, <1>4, AdvancesSafe DEF Polls

LEMMA CallbackSafe ==
  ASSUME Inv, NEW a \in Agents, NEW k, TickCallback(a, k) \/ TimerCallback(a, k)
  PROVE  Inv'
<1> DEFINE s == [ses[a] EXCEPT !.work[k] = Idle]
<1>1. Session(ses[a])
  BY DEF Inv, Typed
<1>2. Same(ses[a], s)
  BY <1>1, WorkSame
<1> HIDE DEF s
<1>3. Advances(ses[a], s, {}) /\ Session(s)
  BY <1>2, SameAdvances DEF Same
<1>4. CASE TickCallback(a, k)
  <2>1. PICK sent : Becomes(a, StartPeriodicCheck(s, sent), {})
    BY <1>4 DEF TickCallback, s
  <2>2. Advances(ses[a], StartPeriodicCheck(s, sent), {})
    BY <1>3, StartPeriodicCheckAdvances, AdvancesThen
  <2> QED
    BY <2>1, <2>2, AdvancesSafe
<1>5. CASE TimerCallback(a, k)
  <2>1. PICK type : Becomes(a, OnTimer(s, type), {})
    BY <1>5 DEF TimerCallback, s
  <2>2. Advances(ses[a], OnTimer(s, type), {})
    BY <1>3, OnTimerSame, SameAdvances, AdvancesThen
  <2> QED
    BY <2>1, <2>2, AdvancesSafe
<1> QED
  BY <1>4, <1>5

LEMMA StartStopSafe ==
  ASSUME Inv, NEW a \in Agents, Start(a) \/ Stop(a)
  PROVE  Inv'
<1>1. Session(ses[a])
  BY DEF Inv, Typed
<1>2. CASE Start(a)
  BY <1>1, <1>2, StartCheckAdvances, AdvancesSafe DEF Start
<1>3. CASE Stop(a)
  BY <1>1, <1>3, StoppedAdvances, AdvancesSafe DEF Stop
<1> QED
  BY <1>2, <1>3

LEMMA TimeoutSafe ==
  ASSUME Inv, NEW a \in Agents, NEW i \in DOMAIN ses[a].list, Timeout(a, i)
  PROVE  Inv'
<1> DEFINE m == [code |-> "timeout"]
<1>1. Session(ses[a])
  BY DEF Inv, Typed
<1>2. m.code = "timeout"
  OBVIOUS
<1>3. Becomes(a, OnRequestComplete(ses[a], i, m, TRUE), {})
  BY DEF Timeout
<1> HIDE DEF m
<1>4. Advances(ses[a], OnRequestComplete(ses[a], i, m, TRUE), {})
  <2>1. OnRequestComplete(ses[a], i, m, TRUE) = SetFailed(ses[a], i)
    BY <1>2 DEF OnRequestComplete
  <2> QED
    BY <1>1, <2>1, SetFailedSame, SameAdvances
<1> QED
  BY <1>3, <1>4, AdvancesSafe

LEMMA RequestSafe ==
  ASSUME Inv, NEW a \in Agents, NEW m \in net, m.kind = "request", m.from = Peer(a), NEW sent,
         Becomes(a, OnRxRequest(ses[a], m, sent), {m})
  PROVE  Inv'
<1> DEFINE s == ses[a]
           s0 == IF m.role = s.role THEN [s EXCEPT !.role = Other(@)] ELSE s
           ok == [kind |-> "response", from |-> a, pair |-> m.pair, role |-> m.role, code |-> "ok"]
           no == [kind |-> "response", from |-> a, pair |-> m.pair, role |-> m.role, code |-> "role conflict"]
           s1 == [s0 EXCEPT !.out = @ \cup {ok}]
           s2 == [s EXCEPT !.out = @ \cup {no}]
           s3 == [s1 EXCEPT !.early = Append(@, [pair |-> m.pair, use |-> m.use])]
           t  == OnRxRequest(s, m, sent)
<1>1. /\ Session(s) /\ s.me = a /\ s.out = {} /\ world \in Worlds
      /\ m \in Requests /\ m.pair \in Pairs /\ m.use \in BOOLEAN /\ m.role \in Roles
  BY DEF Inv, Typed, Requests, Responses
<1>2. t = IF s.ph = "stopped" THEN s
          ELSE IF m.role = s.role /\ ~MustSwitch(s) THEN s2
          ELSE IF s.ph = "new" THEN s3
          ELSE HandleIncomingCheck(s1, m, sent)
  <2>1. Respond(s0, m, "ok") = s1 /\ Respond(s, m, "role conflict") = s2
    <3>1. s0.me = a /\ s.me = a
      BY <1>1 DEF Session, Fields
    <3> HIDE DEF s0, s
    <3> QED
      BY <3>1 DEF Respond
  <2>2. s3 = [s1 EXCEPT !.early = Append(@, [pair |-> m.pair, use |-> m.use])]
    OBVIOUS
  <2> HIDE DEF s1, s2, s3
  <2> QED
    BY <2>1, <2>2, Zenon DEF OnRxRequest
<1>3. /\ m.role \in {world.role[Peer(a)], ses[Peer(a)].role}
      /\ s.role \in {world.role[a], Final(a)}
      /\ ses[Peer(a)].role \in {world.role[Peer(a)], Final(Peer(a))}
      /\ Peer(a) \in Agents
  BY <1>1, WorldFacts DEF Inv, Roled
<1>4. m.use /\ world.role["A"] # world.role["B"] => Agreed(Peer(a), m.pair)
  BY DEF Inv, Nominating
(* Who switches gives in to a peer that does not, and then both have their *)
(* final roles; who has to insist has to in any case.                      *)
<1>5. /\ m.role = s.role /\ MustSwitch(s) => /\ Other(s.role) = Final(a)
                                             /\ ses[Peer(a)].role = Final(Peer(a))
      /\ m.role # s.role => s.role = Final(a) /\ ses[Peer(a)].role = Final(Peer(a))
      /\ m.role = s.role /\ ~MustSwitch(s) => m.role = world.role[Peer(a)] /\ Switches(Peer(a))
  <2>1. world.role["A"] \in Roles /\ world.role["B"] \in Roles
    BY <1>1, WorldFacts DEF Agents
  <2>2. (a = "A" /\ Peer(a) = "B") \/ (a = "B" /\ Peer(a) = "A")
    BY DEF Agents, Peer
  <2> DEFINE sr == s.role
             pr == ses[Peer(a)].role
  <2>3. MustSwitch(s) <=> ((a = "B") = (sr = "CONTROLLING"))
    BY <1>1 DEF MustSwitch
  <2>4. /\ m.role \in {world.role[Peer(a)], pr} /\ sr \in {world.role[a], Final(a)}
        /\ pr \in {world.role[Peer(a)], Final(Peer(a))}
    BY <1>3
  <2> HIDE DEF sr, pr, s
  <2>5. /\ m.role = sr /\ MustSwitch(s) => Other(sr) = Final(a) /\ pr = Final(Peer(a))
        /\ m.role # sr => sr = Final(a) /\ pr = Final(Peer(a))
        /\ m.role = sr /\ ~MustSwitch(s) => m.role = world.role[Peer(a)] /\ Switches(Peer(a))
    <3>1. CASE a = "A" /\ Peer(a) = "B"
      BY <2>1, <2>3, <2>4, <3>1 DEF Final, Switches, Other, Roles
    <3>2. CASE a = "B" /\ Peer(a) = "A"
      BY <2>1, <2>3, <2>4, <3>2 DEF Final, Switches, Other, Roles
    <3> QED
      BY <2>2, <3>1, <3>2
  <2> QED
    BY <2>5 DEF sr, pr
<1>6. Becomes(a, t, {m})
  OBVIOUS
<1>7. CASE s.ph = "stopped"
  <2>1. Advances(s, s, {})
    BY <1>1, SameItself, SameAdvances
  <2> QED
    BY <1>2, <1>6, <1>7, <2>1, AdvancesSafe
<1>8. CASE s.ph # "stopped" /\ m.role = s.role /\ ~MustSwitch(s)
  <2>1. /\ DOMAIN s2 = Fields /\ s2.me = s.me /\ s2.role = s.role /\ s2.ph = s.ph /\ s2.list = s.list
        /\ s2.valid = s.valid /\ s2.nc = s.nc /\ s2.early = s.early /\ s2.out = {no}
    BY <1>1 DEF Session, Fields
  <2>2. no \in Responses /\ no.from = a /\ no.kind = "response" /\ no.code = "role conflict" /\ no.role = m.role
    BY <1>1 DEF Responses
  <2> HIDE DEF s2, no
  <2>3. \A p : (Nominates(s2, p) <=> Nominates(s, p)) /\ (Claims(s2, p) <=> Claims(s, p))
    BY <2>1 DEF Nominates, Claims
  <2>4. Session(s2)
    BY <1>1, <2>1, <2>2 DEF Session
  <2>5. t = s2
    BY <1>2, <1>8
  <2>6. DOMAIN s2.valid # {} => Settled
    BY <2>1 DEF Inv, Roled
  <2>7. \A x \in s2.out : /\ x.from = a /\ x.kind = "response" /\ x.code # "ok"
                          /\ x.role = world.role[Peer(a)] /\ Switches(Peer(a))
    BY <1>5, <1>8, <2>1, <2>2
  <2> HIDE DEF t
  <2>8. \A x \in s2.out : x.kind # "request"
    BY <2>7
  <2> QED
    BY <1>1, <1>6, <2>1, <2>3, <2>4, <2>5, <2>6, <2>7, <2>8, BecomesSafe
<1>9. CASE s.ph # "stopped" /\ ~(m.role = s.role /\ ~MustSwitch(s))
  <2>1. s1.role = Final(a) /\ ses[Peer(a)].role = Final(Peer(a))
    BY <1>1, <1>5, <1>9 DEF Session, Fields
  <2>2. /\ DOMAIN s1 = Fields /\ s1.me = a /\ s1.ph = s.ph /\ s1.list = s.list
        /\ s1.valid = s.valid /\ s1.nc = s.nc /\ s1.early = s.early /\ s1.out = {ok}
    BY <1>1 DEF Session, Fields
  <2>3. ok \in Responses /\ ok.from = a /\ ok.kind = "response" /\ ok.code = "ok"
    BY <1>1 DEF Responses
  <2>4. Final(a) \in Roles
    BY <1>1, WorldFacts
  <2> HIDE DEF s1, ok
  <2>5. Session(s1)
    BY <1>1, <2>1, <2>2, <2>3, <2>4 DEF Session
  <2>6. \A p : (Nominates(s1, p) <=> Nominates(s, p)) /\ (Claims(s1, p) <=> Claims(s, p))
    BY <2>2 DEF Nominates, Claims
  <2>7. Advances(s1, t, Nominated(m))
    <3>1. CASE s.ph = "new"
      <4> DEFINE r == [pair |-> m.pair, use |-> m.use]
      <4>1. r \in Early /\ r.pair = m.pair /\ r.use = m.use
        BY <1>1 DEF Early
      <4>2. s.early \in Seq(Early)
        BY <1>1 DEF Session
      <4> HIDE DEF r
      <4>3. /\ Append(s.early, r) \in Seq(Early)
            /\ Len(Append(s.early, r)) = Len(s.early) + 1 /\ Len(s.early) \in Nat
            /\ \A i \in 1 .. Len(s.early) : Append(s.early, r)[i] = s.early[i]
            /\ Append(s.early, r)[Len(s.early) + 1] = r
        BY <4>1, <4>2, AppendProperties, LenProperties
      <4>4. \A i \in DOMAIN Append(s.early, r) : (i \in DOMAIN s.early /\ Append(s.early, r)[i] = s.early[i])
                                                 \/ Append(s.early, r)[i] = r
        <5>1. DOMAIN Append(s.early, r) = 1 .. Len(s.early) + 1 /\ DOMAIN s.early = 1 .. Len(s.early)
          BY <4>2, <4>3, LenProperties
        <5> QED
          BY <4>3, <5>1
      <4>5. /\ DOMAIN s3 = Fields /\ s3.me = s1.me /\ s3.role = s1.role /\ s3.ph = s1.ph /\ s3.list = s1.list
            /\ s3.valid = s1.valid /\ s3.nc = s1.nc /\ s3.early = Append(s.early, r) /\ s3.out = s1.out
        BY <2>2 DEF Fields, r
      <4> HIDE DEF s3
      <4>6. Session(s3)
        BY <2>5, <4>3, <4>5 DEF Session
      <4>7. \A p : Nominates(s3, p) <=> Nominates(s1, p)
        BY <4>5 DEF Nominates
      <4>8. \A p : Claims(s3, p) => Claims(s1, p) \/ p \in Nominated(m)
        BY <2>2, <4>1, <4>4, <4>5, <4>7 DEF Claims, Nominated
      <4>9. t = s3
        BY <1>2, <1>9, <3>1
      <4> QED
        BY <4>5, <4>6, <4>7, <4>8, <4>9 DEF Advances
    <3>2. CASE s.ph # "new"
      <4>1. t = HandleIncomingCheck(s1, m, sent)
        BY <1>2, <1>9, <3>2
      <4> HIDE DEF t
      <4> QED
        BY <1>1, <2>2, <2>5, <3>2, <4>1, HandleIncomingCheckAdvances
    <3> QED
      BY <3>1, <3>2
  <2> HIDE DEF t
  <2>8. Session(t) /\ t.me = a /\ t.role = Final(a)
    BY <2>1, <2>2, <2>7 DEF Advances
  <2>9. DOMAIN t.valid # {} => Settled
    BY <2>2, <2>7 DEF Advances, Inv, Roled
  <2>10. ASSUME NEW x \in t.out
         PROVE  \/ x.from = a /\ x.kind = "response" /\ x.code = "ok"
                \/ /\ x.from = a /\ x.kind = "request" /\ x.role = t.role
                   /\ x.use => t.role = "CONTROLLING" /\ (t.ph = "stopped" \/ Nominates(t, x.pair))
    <3>1. x = ok \/ Says(t, x)
      BY <2>2, <2>7 DEF Advances
    <3> QED
      BY <2>3, <2>8, <3>1 DEF Says, Requests
  <2>11. world.role["A"] # world.role["B"] /\ world.role[a] = "CONTROLLED" =>
           \A p : Claims(t, p) => Claims(s, p) \/ Agreed(Peer(a), p)
    <3>1. world.role["A"] # world.role["B"] /\ world.role[a] = "CONTROLLED" => s1.role = "CONTROLLED"
      BY <1>1, <2>1, WorldFacts
    <3>2. world.role["A"] # world.role["B"] => \A p \in Nominated(m) : Agreed(Peer(a), p)
      BY <1>4 DEF Nominated
    <3> QED
      BY <2>6, <2>7, <3>1, <3>2 DEF Advances
  <2>12. /\ s.ph = "stopped" => t.ph = "stopped"
         /\ t.ph = "stopped" \/ \A p : Nominates(s, p) => Nominates(t, p)
    BY <2>2, <2>6, <2>7 DEF Advances
  <2>13. \A x \in t.out :
            /\ x.from = a
            /\ x.kind = "request" =>
                  /\ x.role \in {world.role[a], t.role}
                  /\ x.use => t.role = "CONTROLLING" /\ (t.ph = "stopped" \/ Nominates(t, x.pair))
            /\ x.kind = "response" => x.code = "ok"
    BY <2>10
  <2> HIDE DEF s
  <2> QED
    BY <1>6, <2>1, <2>8, <2>9, <2>11, <2>12, <2>13, BecomesSafe DEF s
<1> QED
  BY <1>7, <1>8, <1>9

LEMMA ResponseSafe ==
  ASSUME Inv, NEW a \in Agents, NEW m \in net, m.kind = "response", m.from = Peer(a), NEW sent,
         NEW i \in DOMAIN ses[a].list,
         Becomes(a, OnRequestComplete(ses[a], i, m, sent), {m})
  PROVE  Inv'
<1> DEFINE s == ses[a]
           t == OnRequestComplete(s, i, m, sent)
           r == [s EXCEPT !.role = Other(m.role)]
<1>1. Session(s) /\ s.me = a /\ s.out = {} /\ world \in Worlds /\ DOMAIN s = Fields
  BY DEF Inv, Typed, Session
<1>2. m \in Responses
  BY DEF Inv, Typed, Requests, Responses
<1>3. m.code \in {"ok", "role conflict"} /\ m.role \in Roles
  BY <1>2 DEF Responses
<1>4. Becomes(a, t, {m}) /\ i \in DOMAIN s.list
  OBVIOUS
<1>5. /\ m.code = "role conflict" => Advances(r, t, {})
      /\ m.code = "ok" => \E u : /\ Advances(u, t, {})
                                /\ \E vs : u = [s EXCEPT !.valid = vs]
                                /\ \A p : Claims(u, p) => Claims(s, p)
  <2> HIDE DEF s
  <2>1. Session(s) /\ i \in DOMAIN s.list /\ (m.code = "role conflict" => m.role \in Roles)
    BY <1>1, <1>3, <1>4
  <2>2. /\ m.code = "role conflict" =>
              Advances([s EXCEPT !.role = Other(m.role)], OnRequestComplete(s, i, m, sent), {})
        /\ m.code = "ok" => \E u : /\ Advances(u, OnRequestComplete(s, i, m, sent), {})
                                  /\ \E vs : u = [s EXCEPT !.valid = vs]
                                  /\ \A p : Claims(u, p) => Claims(s, p)
    <3> HIDE DEF t, r
    <3> QED
      BY <2>1, OnRequestCompleteAdvances
  <2> QED
    BY <2>2
<1>6. IF m.code = "ok" THEN Settled
      ELSE m.role = world.role[a] /\ Switches(a)
  BY <1>1, WorldFacts DEF Inv, Roled
<1>7. s.role \in {world.role[a], Final(a)} /\ Final(a) \in Roles
  BY <1>1, WorldFacts DEF Inv, Roled
<1> HIDE DEF t
<1>8. CASE m.code = "role conflict"
  <2>1. Other(m.role) = Final(a) /\ world.role["A"] = world.role["B"]
    BY <1>6, <1>8 DEF Final, Switches
  <2>2. /\ r.role = Final(a) /\ r.me = a /\ r.ph = s.ph /\ r.list = s.list /\ r.valid = s.valid /\ r.out = {}
    BY <1>1, <2>1 DEF Fields
  <2> HIDE DEF r
  <2>3. Advances(r, t, {})
    BY <1>5, <1>8
  <2>4. \A p : Nominates(r, p) <=> Nominates(s, p)
    BY <2>2 DEF Nominates
  <2>5. Session(t) /\ t.me = a /\ t.role = Final(a)
    BY <2>2, <2>3 DEF Advances
  <2>6. DOMAIN t.valid # {} => Settled
    BY <2>2, <2>3 DEF Advances, Inv, Roled
  <2>7. ASSUME NEW x \in t.out
        PROVE  /\ x.from = a /\ x.kind = "request" /\ x.role = t.role
               /\ x.use => t.role = "CONTROLLING" /\ (t.ph = "stopped" \/ Nominates(t, x.pair))
    <3>1. Says(t, x)
      BY <2>2, <2>3 DEF Advances
    <3> QED
      BY <2>5, <3>1 DEF Says, Requests
  <2>8. /\ s.ph = "stopped" => t.ph = "stopped"
        /\ t.ph = "stopped" \/ \A p : Nominates(s, p) => Nominates(t, p)
    BY <2>2, <2>3, <2>4 DEF Advances
  <2>9. \A x \in t.out : x.kind # "response"
    BY <2>7
  <2> HIDE DEF s
  <2> QED
    BY <1>4, <2>1, <2>5, <2>6, <2>7, <2>8, <2>9, BecomesSafe DEF s
<1>9. CASE m.code = "ok"
  <2>1. PICK u : /\ Advances(u, t, {})
                 /\ \E vs : u = [s EXCEPT !.valid = vs]
                 /\ \A p : Claims(u, p) => Claims(s, p)
    BY <1>5, <1>9
  <2>2. u.role = s.role /\ u.me = a /\ u.ph = s.ph /\ u.list = s.list /\ u.out = {}
    BY <1>1, <2>1 DEF Fields
  <2>3. Settled /\ t.role = s.role
    BY <1>6, <1>9, <2>1, <2>2 DEF Advances
  <2>4. \A p : Nominates(u, p) <=> Nominates(s, p)
    BY <2>2 DEF Nominates
  <2>5. Session(t) /\ t.me = a
    BY <2>1, <2>2 DEF Advances
  <2>6. t.role = Final(a)
    BY <2>3 DEF Settled
  <2>7. ASSUME NEW x \in t.out
        PROVE  /\ x.from = a /\ x.kind = "request" /\ x.role = t.role
               /\ x.use => t.role = "CONTROLLING" /\ (t.ph = "stopped" \/ Nominates(t, x.pair))
    <3>1. Says(t, x)
      BY <2>1, <2>2 DEF Advances
    <3> QED
      BY <2>5, <3>1 DEF Says, Requests
  <2>8. /\ s.ph = "stopped" => t.ph = "stopped"
        /\ t.ph = "stopped" \/ \A p : Nominates(s, p) => Nominates(t, p)
    BY <2>1, <2>2, <2>4 DEF Advances
  <2>9. world.role["A"] # world.role["B"] /\ world.role[a] = "CONTROLLED" => \A p : Claims(t, p) => Claims(s, p)
    <3>1. world.role["A"] # world.role["B"] /\ world.role[a] = "CONTROLLED" => u.role = "CONTROLLED"
      BY <1>1, <1>7, <2>2, WorldFacts
    <3> QED
      BY <2>1, <3>1 DEF Advances
  <2>10. \A x \in t.out : x.kind # "response"
    BY <2>7
  <2> HIDE DEF s
  <2> QED
    BY <1>4, <2>3, <2>5, <2>6, <2>7, <2>8, <2>9, <2>10, BecomesSafe DEF s
<1> QED
  BY <1>3, <1>8, <1>9

LEMMA ReceiveSafe ==
  ASSUME Inv, NEW a \in Agents, NEW m \in net, Receive(a, m)
  PROVE  Inv'
<1> DEFINE waiting == {i \in SamePair(ses[a], m.pair) : ses[a].list[i].st = "IN_PROGRESS"}
<1>1. waiting \subseteq DOMAIN ses[a].list
  BY DEF SamePair
<1>2. /\ m.from = Peer(a)
      /\ \E sent \in MaySend :
            \/ m.kind = "request" /\ Becomes(a, OnRxRequest(ses[a], m, sent), {m})
            \/ m.kind = "response" /\ \E i \in waiting : Becomes(a, OnRequestComplete(ses[a], i, m, sent), {m})
            \/ m.kind = "response" /\ waiting = {} /\ Becomes(a, ses[a], {m})
  BY DEF Receive
<1> HIDE DEF waiting
<1>3. ASSUME NEW sent, m.kind = "request", Becomes(a, OnRxRequest(ses[a], m, sent), {m}) PROVE Inv'
  BY <1>2, <1>3, RequestSafe
<1>4. ASSUME NEW sent, m.kind = "response", NEW i \in waiting, Becomes(a, OnRequestComplete(ses[a], i, m, sent), {m})
      PROVE  Inv'
  BY <1>1, <1>2, <1>4, ResponseSafe
<1>5. ASSUME Becomes(a, ses[a], {m}) PROVE Inv'
  <2>1. Session(ses[a])
    BY DEF Inv, Typed
  <2>2. Advances(ses[a], ses[a], {})
    BY <2>1, SameItself, SameAdvances
  <2> QED
    BY <1>5, <2>2, AdvancesSafe
<1> QED
  BY <1>2, <1>3, <1>4, <1>5

(* The sessions stay as they are, and there are no more messages.          *)
LEMMA UnchangedSafe ==
  ASSUME Inv, UNCHANGED <<world, ses>>, net' \subseteq net
  PROVE  Inv'
<1>1. \A b : (Switches(b)' <=> Switches(b)) /\ Final(b)' = Final(b)
  BY DEF Final, Switches
<1>2. Settled' <=> Settled
  BY <1>1 DEF Settled
<1>3. Typed'
  BY DEF Inv, Typed
<1>4. Roled'
  BY <1>1, <1>2 DEF Inv, Roled
<1>5. \A b, p : (Agreed(b, p)' <=> Agreed(b, p)) /\ (Claims(ses[b], p)' <=> Claims(ses[b], p))
  BY DEF Agreed, Claims, Nominates
<1>6. Nominating'
  BY <1>5 DEF Inv, Nominating
<1> QED
  BY <1>3, <1>4, <1>6 DEF Inv

LEMMA NextSafe == Inv /\ [Next]_vars => Inv'
<1> SUFFICES ASSUME Inv, [Next]_vars PROVE Inv'
  OBVIOUS
<1>1. CASE UNCHANGED vars
  BY <1>1, UnchangedSafe DEF vars
<1>2. CASE Progress
  <2>1. PICK a \in Agents :
           \/ Start(a)
           \/ \E k \in world.workers : PollTick(a, k) \/ PollTimer(a, k) \/ TickCallback(a, k) \/ TimerCallback(a, k)
           \/ \E m \in net : Receive(a, m)
           \/ \E i \in DOMAIN ses[a].list : Timeout(a, i)
    BY <1>2 DEF Progress
  <2> QED
    BY <2>1, StartStopSafe, PollSafe, CallbackSafe, ReceiveSafe, TimeoutSafe
<1>3. CASE \E a \in Agents : CreateList(a) \/ Stop(a)
  BY <1>3, CreateListSafe, StartStopSafe
<1>4. CASE \E m \in net : Lose(m)
  BY <1>4, UnchangedSafe DEF Lose
<1> QED
  BY <1>1, <1>2, <1>3, <1>4 DEF Next

LEMMA Invariant == Spec => []Inv
BY InitSafe, NextSafe, PTL DEF Spec

(* The sessions and messages of every reachable state are the records that *)
(* the functions of ice_session.c work on: a check list of checks of the   *)
(* candidate pairs, a role, nothing left to send between two steps.        *)
THEOREM TypeCorrect == Spec => []Typed
<1>1. Inv => Typed
  BY DEF Inv
<1> QED
  BY <1>1, Invariant, PTL

(* Role conflicts are repaired (sess_init_check_list, on_rx_request and    *)
(* on_stun_request_complete with 487): once an agent has a valid pair, one *)
(* is controlling and the other is controlled.                             *)
THEOREM RolesRepaired == Spec => []RolesDiffer
<1>1. Inv => RolesDiffer
  <2> SUFFICES ASSUME Inv, NEW a \in Agents, DOMAIN ses[a].valid # {} PROVE ses["A"].role # ses["B"].role
    BY DEF RolesDiffer
  <2>1. Settled /\ Typed
    BY DEF Inv, Roled
  <2> QED
    BY <2>1, SettledDiffer
<1> QED
  BY <1>1, Invariant, PTL

(* A controlled agent takes for nominated only what the controlling one    *)
(* nominated (handle_incoming_check, update_comp_check), unless both       *)
(* started with the same role or the controlling one was stopped.          *)
THEOREM NominationsAgreed == Spec => []NominatedByPeer
<1>1. Inv => NominatedByPeer
  <2> SUFFICES ASSUME Inv, world.role["A"] # world.role["B"], NEW a \in Agents, NEW c \in Comps(ses[a]),
                      ses[a].nc[c] # None, ses[a].role = "CONTROLLED", ses[Peer(a)].ph # "stopped"
               PROVE  \E i \in SamePair(ses[Peer(a)], ses[a].nc[c]) : ses[Peer(a)].list[i].nominated
    BY DEF NominatedByPeer
  <2> DEFINE p == ses[a].nc[c]
  <2>1. world.role[a] = "CONTROLLED"
    BY WorldFacts DEF Inv, Typed, Roled
  <2>2. Claims(ses[a], p)
    BY DEF Claims, Comps
  <2>3. Agreed(Peer(a), p)
    BY <2>1, <2>2 DEF Inv, Nominating
  <2> QED
    BY <2>3 DEF Agreed, Nominates, SamePair
<1> QED
  BY <1>1, Invariant, PTL
===============================================================================
