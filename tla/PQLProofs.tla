----------------------------- MODULE PQLProofs ------------------------------
(***************************************************************************)
(* Theorems about PQL, for every number of replicas, all durations and     *)
(* every environment: packets arrive late, again and in any order,         *)
(* replicas pause, epochs change.  The first part is about the leases.     *)
(* From the line "Ballots, owners and quorums" on, it prepares the         *)
(* theorems of PQLTheorems about the log: a step that advances the protocol*)
(* (Advance) keeps Safety; and what the operators of PQL make of a core,   *)
(* whatever the core is.                                                   *)
(***************************************************************************)
EXTENDS PQLInvariant, FiniteSetTheorems, SequenceTheorems, WellFoundedInduction, TLAPS

-----------------------------------------------------------------------------
(***************************************************************************)
(* What a step does to the leases and their packets.                       *)
(***************************************************************************)
LeaseKind == {"Guard", "GuardAck", "LeasePromise", "LeaseReply"}

\* M holds no lease packets.
Plain(M) == \A m \in M : m.kind \notin LeaseKind

LEMMA PlainPackets ==
    /\ \A i, to, c, S : Plain(Commits(i, to, c, S))
    /\ \A i, c : Plain(Ready(i, c))
    /\ \A i, c, l : Plain(Fetch(i, c, l))
    /\ \A i, c, R : Plain(Forwards(i, c, R))
    /\ \A i, c, S, e : Plain(Offers(i, c, S, e))
    /\ \A i, c : Plain(Prepares(i, c))
    /\ \A i, j, c, b, f : Plain({Snapshot(i, j, c, b, f)})
    /\ \A i, c, e : Plain(SuffixSends(i, c, e))
    /\ \A i, c, e : Plain(FlushSends(i, c, e))
<1> USE DEF Plain, LeaseKind
<1>1. \A i, to, c, S : Plain(Commits(i, to, c, S)) BY DEF Commits
<1>2. \A i, c : Plain(Ready(i, c)) BY DEF Ready
<1>3. \A i, c, l : Plain(Fetch(i, c, l)) BY DEF Fetch
<1>4. \A i, c, R : Plain(Forwards(i, c, R)) BY DEF Forwards, Forward
<1>5. \A i, c, S, e : Plain(Offers(i, c, S, e))
  <2> SUFFICES ASSUME NEW i, NEW c, NEW S, NEW e, NEW m \in Offers(i, c, S, e)
               PROVE  m.kind = "Accept"
    OBVIOUS
  <2>1. \E j, s, r : m = Accept(i, j, c, e, s, r) BY Zenon DEF Offers
  <2> QED BY <2>1 DEF Accept
<1>6. \A i, c : Plain(Prepares(i, c)) BY DEF Prepares
<1>7. \A i, j, c, b, f : Plain({Snapshot(i, j, c, b, f)}) BY DEF Snapshot
<1>8. \A i, c, e : Plain(SuffixSends(i, c, e)) BY <1>1, <1>5 DEF SuffixSends
<1>9. \A i, c, e : Plain(FlushSends(i, c, e)) BY <1>5 DEF FlushSends
<1> QED BY <1>1, <1>2, <1>3, <1>4, <1>5, <1>6, <1>7, <1>8, <1>9

-----------------------------------------------------------------------------
(***************************************************************************)
(* The inductive invariant, for a grantor g and a holder h.                *)
(***************************************************************************)
LeaseShape(l) ==
    /\ DOMAIN l = {"promisedBy", "promisedTo", "catchup", "complete", "guardSequence",
                   "guarding", "sentSequence", "ackSequence", "lastAckTime", "latestReplies",
                   "receivedGuard", "guardExpires", "receivedSequence", "latestPromises",
                   "frontiers", "ackTimes"}
    /\ l.promisedBy \in Int /\ l.promisedTo \in Int
    /\ l.guardSequence \in [Replica -> Nat] /\ l.sentSequence \in [Replica -> Nat]
    /\ l.ackSequence \in [Replica -> Nat] /\ l.lastAckTime \in [Replica -> Int]
    /\ l.latestReplies \in [Replica -> Int]
    /\ l.receivedGuard \in [Replica -> Nat] /\ l.guardExpires \in [Replica -> Int]
    /\ l.receivedSequence \in [Replica -> Nat] /\ l.latestPromises \in [Replica -> Int]
    /\ l.ackTimes \in [Replica -> SUBSET [stamp : Nat \ {0}, at : Int]]

PacketShape(m) ==
    m.kind \in LeaseKind =>
        /\ m.from \in Replica /\ m.to \in Replica /\ m.stamp \in Nat
        /\ m.kind \in {"LeasePromise", "LeaseReply"} => m.epoch \in Int
        /\ m.kind = "LeasePromise" => m.ack \in Int /\ m.elapsed \in Int

HasEpoch(c) == "latestEpoch" \in DOMAIN c /\ c.latestEpoch \in Int
Epochs == DOMAIN core = Replica /\ \A i \in Replica : HasEpoch(core[i])

Shapes ==
    /\ now \in Nat \ {0} /\ world \in World
    /\ DOMAIN lease = Replica /\ \A i \in Replica : LeaseShape(lease[i])
    /\ Epochs
    /\ \A m \in msgs : PacketShape(m)

\* No expiry lies further ahead than a promise made now would put it.
Horizons(g, h) ==
    /\ lease[h].guardExpires[g] <= now + GuardDuration
    /\ lease[g].latestReplies[h] <= now + GuardDuration + LeaseDuration
    /\ lease[h].latestPromises[g] <= now + LeaseDuration
    /\ \A a \in lease[h].ackTimes[g] :
          a.at <= now /\ a.stamp <= lease[h].receivedSequence[g]

\* What g counts as acknowledged, h received, and no later than g thinks.
Acknowledged(g, h) ==
    /\ lease[g].ackSequence[h] <= lease[h].receivedSequence[g]
    /\ \A a \in lease[h].ackTimes[g] :
          a.stamp = lease[g].ackSequence[h] => a.at <= lease[g].lastAckTime[h]

\* An acknowledged guard was received; a promise refers to a guard or a promise
\* that was received, and has a number g has reached.
References(g, h) ==
    \A m \in msgs :
        /\ m.kind = "GuardAck" /\ m.from = h /\ m.to = g => m.stamp <= lease[h].receivedGuard[g]
        /\ m.kind = "LeasePromise" /\ m.from = g /\ m.to = h =>
              /\ m.stamp <= lease[g].sentSequence[h]
              /\ -m.ack <= lease[h].receivedGuard[g] /\ m.ack <= lease[h].receivedSequence[g]

\* A promise under way is bound by g's epoch and obligation as long as h could
\* still accept it: end is the time from which h would not.
Binding(g, h, m, end) ==
    \/ end <= now
    \/ m.epoch = lease[g].promisedBy /\ end + LeaseDuration <= lease[g].latestReplies[h]
UnderWay(g, h) ==
    \A m \in msgs :
        m.kind = "LeasePromise" /\ m.from = g /\ m.to = h /\ m.stamp > lease[h].receivedSequence[g] =>
            /\ m.ack < 0 /\ m.ack = -lease[h].receivedGuard[g]
                  => Binding(g, h, m, lease[h].guardExpires[g])
            /\ \A a \in lease[h].ackTimes[g] :
                  m.ack = a.stamp => Binding(g, h, m, a.at + m.elapsed + GuardDuration)

\* An answer to the last promise that g would count is one to a promise h took.
Answered(g, h) ==
    \A m \in msgs :
        m.kind = "LeaseReply" /\ m.from = h /\ m.to = g =>
            /\ m.stamp <= lease[g].sentSequence[h]
            /\ /\ m.stamp = lease[g].sentSequence[h] /\ m.epoch = lease[g].promisedBy
               /\ now < lease[g].latestReplies[h]
               => m.stamp <= lease[h].receivedSequence[g]

\* What h counts, g is bound by.
Bound(g, h) ==
    now < lease[h].latestPromises[g] =>
        /\ lease[g].promisedBy = lease[h].promisedTo
        /\ lease[h].latestPromises[g] <= lease[g].latestReplies[h]

LeasePair(g, h) ==
    /\ Horizons(g, h) /\ Acknowledged(g, h) /\ References(g, h)
    /\ UnderWay(g, h) /\ Answered(g, h) /\ Bound(g, h)
LeaseInv == Shapes /\ \A g, h \in Replica : LeasePair(g, h)

-----------------------------------------------------------------------------
(***************************************************************************)
(* What the operators of PQLLease change.                                  *)
(***************************************************************************)
SameHolder(l, d) ==
    /\ d.promisedTo = l.promisedTo /\ d.receivedGuard = l.receivedGuard
    /\ d.guardExpires = l.guardExpires /\ d.receivedSequence = l.receivedSequence
    /\ d.latestPromises = l.latestPromises /\ d.ackTimes = l.ackTimes
SameGrantor(l, d) ==
    /\ d.promisedBy = l.promisedBy /\ d.sentSequence = l.sentSequence
    /\ d.ackSequence = l.ackSequence /\ d.lastAckTime = l.lastAckTime
    /\ d.latestReplies = l.latestReplies /\ d.guardSequence = l.guardSequence

LEMMA NewLeaseShape == LeaseShape(NewLease)
BY DEF LeaseShape, NewLease, ToAll, Genesis

LEMMA SwitchFields ==
    ASSUME NEW l, LeaseShape(l), NEW epoch \in Int
    PROVE  LET d == SwitchEpoch(l, epoch) IN
           /\ LeaseShape(d) /\ SameHolder(l, d)
           /\ d.promisedBy = epoch /\ d.sentSequence = l.sentSequence
           /\ d.lastAckTime = l.lastAckTime
           /\ \A p \in Replica : d.latestReplies[p] = 0 /\ d.ackSequence[p] = 0
<1> DEFINE d == SwitchEpoch(l, epoch)
<1>1. /\ DOMAIN d = DOMAIN l /\ SameHolder(l, d)
      /\ d.promisedBy = epoch /\ d.sentSequence = l.sentSequence
      /\ d.lastAckTime = l.lastAckTime /\ d.guardSequence = l.guardSequence
      /\ d.latestReplies = ToAll(0) /\ d.ackSequence = ToAll(0)
  BY DEF SwitchEpoch, LeaseShape, SameHolder
<1>2. ToAll(0) \in [Replica -> Nat] /\ ToAll(0) \in [Replica -> Int]
      /\ \A p \in Replica : ToAll(0)[p] = 0
  BY DEF ToAll
<1> HIDE DEF d
<1>3. LeaseShape(d) BY <1>1, <1>2 DEF LeaseShape, SameHolder
<1>4. \A p \in Replica : d.latestReplies[p] = 0 /\ d.ackSequence[p] = 0 BY <1>1, <1>2
<1> QED BY <1>1, <1>3, <1>4 DEF d

LEMMA ObligedFields ==
    ASSUME NEW l, LeaseShape(l), NEW P, NEW t \in Int
    PROVE  LET d == Obliged(l, P, t) IN
           /\ LeaseShape(d) /\ SameHolder(l, d)
           /\ d.promisedBy = l.promisedBy /\ d.ackSequence = l.ackSequence
           /\ d.lastAckTime = l.lastAckTime /\ d.guardSequence = l.guardSequence
           /\ \A p \in Replica :
                 /\ d.sentSequence[p] = IF p \in P THEN l.sentSequence[p] + 1 ELSE l.sentSequence[p]
                 /\ d.latestReplies[p] = IF p \in P THEN t + GuardDuration + LeaseDuration
                                         ELSE l.latestReplies[p]
<1> DEFINE d == Obliged(l, P, t)
           ss == [p \in Replica |-> IF p \in P THEN l.sentSequence[p] + 1 ELSE l.sentSequence[p]]
           lr == [p \in Replica |-> IF p \in P THEN t + GuardDuration + LeaseDuration
                                    ELSE l.latestReplies[p]]
<1>1. /\ DOMAIN d = DOMAIN l /\ SameHolder(l, d)
      /\ d.promisedBy = l.promisedBy /\ d.ackSequence = l.ackSequence
      /\ d.lastAckTime = l.lastAckTime /\ d.guardSequence = l.guardSequence
      /\ d.sentSequence = ss /\ d.latestReplies = lr
  BY DEF Obliged, LeaseShape, SameHolder
<1>2. ss \in [Replica -> Nat] /\ lr \in [Replica -> Int]
  BY DurationAssumption DEF LeaseShape
<1>3. LeaseShape(d)
  <2> HIDE DEF d, ss, lr
  <2> QED BY <1>1, <1>2 DEF LeaseShape, SameHolder
<1>4. \A p \in Replica :
         /\ d.sentSequence[p] = IF p \in P THEN l.sentSequence[p] + 1 ELSE l.sentSequence[p]
         /\ d.latestReplies[p] = IF p \in P THEN t + GuardDuration + LeaseDuration
                                 ELSE l.latestReplies[p]
  <2> HIDE DEF d
  <2> QED BY <1>1
<1> QED BY <1>1, <1>3, <1>4

LEMMA TickFields ==
    ASSUME NEW l, LeaseShape(l), NEW P, NEW t \in Int
    PROVE  LET d == TickLease(l, P, t)
               r == Renewed(l, P, t) IN
           /\ LeaseShape(d) /\ SameHolder(l, d)
           /\ d.promisedBy = l.promisedBy /\ d.ackSequence = l.ackSequence
           /\ d.lastAckTime = l.lastAckTime
           /\ \A p \in Replica :
                 /\ d.sentSequence[p] = IF p \in r THEN l.sentSequence[p] + 1 ELSE l.sentSequence[p]
                 /\ d.latestReplies[p] = IF p \in r THEN t + GuardDuration + LeaseDuration
                                         ELSE l.latestReplies[p]
<1> DEFINE d == TickLease(l, P, t)
           r == Renewed(l, P, t)
           o == Obliged(l, r, t)
           gs == [p \in Replica |-> IF p \in P \ r THEN o.guardSequence[p] + 1 ELSE o.guardSequence[p]]
<1>1. /\ LeaseShape(o) /\ SameHolder(l, o)
      /\ o.promisedBy = l.promisedBy /\ o.ackSequence = l.ackSequence
      /\ o.lastAckTime = l.lastAckTime
      /\ \A p \in Replica :
            /\ o.sentSequence[p] = IF p \in r THEN l.sentSequence[p] + 1 ELSE l.sentSequence[p]
            /\ o.latestReplies[p] = IF p \in r THEN t + GuardDuration + LeaseDuration
                                    ELSE l.latestReplies[p]
  BY ObligedFields
<1>2. d = [o EXCEPT !.guardSequence = gs,
                    !.guarding = [p \in Replica |-> p \in P \ r \/ o.guarding[p]]]
  BY DEF TickLease
<1> HIDE DEF d, o, r
<1>3. gs \in [Replica -> Nat] BY <1>1 DEF LeaseShape
<1>4. /\ DOMAIN d = DOMAIN o /\ SameHolder(o, d) /\ d.guardSequence = gs
      /\ d.promisedBy = o.promisedBy /\ d.sentSequence = o.sentSequence
      /\ d.ackSequence = o.ackSequence /\ d.lastAckTime = o.lastAckTime
      /\ d.latestReplies = o.latestReplies
  BY <1>1, <1>2 DEF LeaseShape, SameHolder
<1> HIDE DEF gs
<1>5. LeaseShape(d) BY <1>1, <1>3, <1>4 DEF LeaseShape, SameHolder
<1>6. SameHolder(l, d) BY <1>1, <1>4 DEF SameHolder
<1>7. \A p \in Replica :
         /\ d.sentSequence[p] = IF p \in r THEN l.sentSequence[p] + 1 ELSE l.sentSequence[p]
         /\ d.latestReplies[p] = IF p \in r THEN t + GuardDuration + LeaseDuration
                                 ELSE l.latestReplies[p]
  BY <1>1, <1>4
<1> QED BY <1>1, <1>4, <1>5, <1>6, <1>7 DEF d, r

LEMMA GuardAckFields ==
    ASSUME NEW l, LeaseShape(l), NEW m, m.from \in Replica, NEW t \in Int
    PROVE  LET d == OnGuardAck(l, m, t) IN
           /\ LeaseShape(d) /\ SameHolder(l, d)
           /\ d.promisedBy = l.promisedBy /\ d.ackSequence = l.ackSequence
           /\ d.lastAckTime = l.lastAckTime
           /\ \A p \in Replica :
                 /\ d.sentSequence[p] = IF p = m.from THEN l.sentSequence[p] + 1 ELSE l.sentSequence[p]
                 /\ d.latestReplies[p] = IF p = m.from THEN t + GuardDuration + LeaseDuration
                                         ELSE l.latestReplies[p]
<1> DEFINE d == OnGuardAck(l, m, t)
           o == Obliged(l, {m.from}, t)
<1>1. /\ LeaseShape(o) /\ SameHolder(l, o)
      /\ o.promisedBy = l.promisedBy /\ o.ackSequence = l.ackSequence
      /\ o.lastAckTime = l.lastAckTime
      /\ \A p \in Replica :
            /\ o.sentSequence[p] = IF p \in {m.from} THEN l.sentSequence[p] + 1 ELSE l.sentSequence[p]
            /\ o.latestReplies[p] = IF p \in {m.from} THEN t + GuardDuration + LeaseDuration
                                    ELSE l.latestReplies[p]
  BY ObligedFields
<1>2. d = [o EXCEPT !.guarding[m.from] = FALSE] BY DEF OnGuardAck
<1> HIDE DEF d, o
<1>3. /\ DOMAIN d = DOMAIN o /\ SameHolder(o, d) /\ SameGrantor(o, d)
  BY <1>1, <1>2 DEF LeaseShape, SameHolder, SameGrantor
<1>4. LeaseShape(d) BY <1>1, <1>3 DEF LeaseShape, SameHolder, SameGrantor
<1>5. SameHolder(l, d) BY <1>1, <1>3 DEF SameHolder
<1>6. \A p \in Replica :
         /\ d.sentSequence[p] = IF p = m.from THEN l.sentSequence[p] + 1 ELSE l.sentSequence[p]
         /\ d.latestReplies[p] = IF p = m.from THEN t + GuardDuration + LeaseDuration
                                 ELSE l.latestReplies[p]
  BY <1>1, <1>3 DEF SameGrantor
<1> QED BY <1>1, <1>3, <1>4, <1>5, <1>6 DEF d, SameGrantor

\* The smaller of two numbers.
LEMMA MinOfTwo ==
    ASSUME NEW a \in Int, NEW b \in Int
    PROVE  Min({a, b}) \in Int /\ Min({a, b}) <= a /\ Min({a, b}) <= b /\ Min({a, b}) \in {a, b}
<1> DEFINE M == {a, b}
<1>1. \E x \in M : \A y \in M : x <= y
  <2>1. CASE a <= b BY <2>1
  <2>2. CASE ~(a <= b) BY <2>2
  <2> QED BY <2>1, <2>2
<1>2. Min(M) \in M /\ \A y \in M : Min(M) <= y BY <1>1 DEF Min
<1> QED BY <1>2

LEMMA ReplyFields ==
    ASSUME NEW l, LeaseShape(l), NEW m, m.from \in Replica, m.stamp \in Nat, NEW t \in Int
    PROVE  LET d == OnReply(l, m, t) IN
           /\ LeaseShape(d) /\ SameHolder(l, d)
           /\ d.promisedBy = l.promisedBy /\ d.sentSequence = l.sentSequence
           /\ d.ackSequence[m.from] = m.stamp /\ d.lastAckTime[m.from] = t
           /\ d.latestReplies[m.from] <= l.latestReplies[m.from]
           /\ d.latestReplies[m.from] \in {l.latestReplies[m.from], t + LeaseDuration}
           /\ \A p \in Replica \ {m.from} :
                 /\ d.ackSequence[p] = l.ackSequence[p] /\ d.lastAckTime[p] = l.lastAckTime[p]
                 /\ d.latestReplies[p] = l.latestReplies[p]
<1> DEFINE d == OnReply(l, m, t)
           q == m.from
           u == Min({l.latestReplies[q], t + LeaseDuration})
<1>1. l.latestReplies[q] \in Int /\ t + LeaseDuration \in Int
  BY DurationAssumption DEF LeaseShape
<1>2. u \in Int /\ u <= l.latestReplies[q] /\ u \in {l.latestReplies[q], t + LeaseDuration}
  BY <1>1, MinOfTwo
<1>3. d = [l EXCEPT !.ackSequence = [@ EXCEPT ![q] = m.stamp],
                    !.lastAckTime = [@ EXCEPT ![q] = t],
                    !.latestReplies = [@ EXCEPT ![q] = u]]
  BY DEF OnReply, LeaseShape
<1> HIDE DEF d, u
<1>4. /\ DOMAIN d = DOMAIN l /\ SameHolder(l, d)
      /\ d.promisedBy = l.promisedBy /\ d.sentSequence = l.sentSequence
      /\ d.guardSequence = l.guardSequence
      /\ d.ackSequence = [l.ackSequence EXCEPT ![q] = m.stamp]
      /\ d.lastAckTime = [l.lastAckTime EXCEPT ![q] = t]
      /\ d.latestReplies = [l.latestReplies EXCEPT ![q] = u]
  BY <1>3 DEF LeaseShape, SameHolder
<1>5. LeaseShape(d) BY <1>2, <1>4 DEF LeaseShape, SameHolder
<1>6. /\ d.ackSequence[q] = m.stamp /\ d.lastAckTime[q] = t /\ d.latestReplies[q] = u
      /\ \A p \in Replica \ {q} :
            /\ d.ackSequence[p] = l.ackSequence[p] /\ d.lastAckTime[p] = l.lastAckTime[p]
            /\ d.latestReplies[p] = l.latestReplies[p]
  BY <1>4 DEF LeaseShape
<1> QED BY <1>2, <1>4, <1>5, <1>6 DEF d

LEMMA GuardFields ==
    ASSUME NEW l, LeaseShape(l), NEW m, m.from \in Replica, m.stamp \in Nat, NEW t \in Int
    PROVE  LET d == OnGuard(l, m, t) IN
           /\ LeaseShape(d) /\ SameGrantor(l, d)
           /\ d.promisedTo = l.promisedTo /\ d.receivedSequence = l.receivedSequence
           /\ d.latestPromises = l.latestPromises /\ d.ackTimes = l.ackTimes
           /\ \A p \in Replica :
                 /\ d.receivedGuard[p] = IF p = m.from THEN m.stamp ELSE l.receivedGuard[p]
                 /\ d.guardExpires[p] = IF p = m.from THEN t + GuardDuration ELSE l.guardExpires[p]
<1> DEFINE d == OnGuard(l, m, t)
<1>1. /\ DOMAIN d = DOMAIN l /\ SameGrantor(l, d)
      /\ d.promisedTo = l.promisedTo /\ d.receivedSequence = l.receivedSequence
      /\ d.latestPromises = l.latestPromises /\ d.ackTimes = l.ackTimes
      /\ d.receivedGuard = [l.receivedGuard EXCEPT ![m.from] = m.stamp]
      /\ d.guardExpires = [l.guardExpires EXCEPT ![m.from] = t + GuardDuration]
  BY DEF OnGuard, LeaseShape, SameGrantor
<1> HIDE DEF d
<1>2. LeaseShape(d) BY <1>1, DurationAssumption DEF LeaseShape, SameGrantor
<1>3. \A p \in Replica :
         /\ d.receivedGuard[p] = IF p = m.from THEN m.stamp ELSE l.receivedGuard[p]
         /\ d.guardExpires[p] = IF p = m.from THEN t + GuardDuration ELSE l.guardExpires[p]
  BY <1>1 DEF LeaseShape
<1> QED BY <1>1, <1>2, <1>3 DEF d

\* A promise that is taken: the holder's time for it, its number and, when its
\* epoch is new, nothing of the other promises.
LEMMA PromiseFields ==
    ASSUME NEW l, LeaseShape(l), NEW m, m.from \in Replica, m.stamp \in Nat \ {0},
           m.epoch \in Int, NEW t \in Int, m.epoch >= l.promisedTo
    PROVE  LET d == OnPromise(l, m, t) IN
           /\ LeaseShape(d) /\ SameGrantor(l, d)
           /\ d.promisedTo = m.epoch
           /\ d.receivedGuard = l.receivedGuard /\ d.guardExpires = l.guardExpires
           /\ \A p \in Replica :
                 /\ d.receivedSequence[p] = IF p = m.from THEN m.stamp ELSE l.receivedSequence[p]
                 /\ d.ackTimes[p] \subseteq IF p = m.from
                       THEN l.ackTimes[p] \cup {[stamp |-> m.stamp, at |-> t]} ELSE l.ackTimes[p]
                 /\ d.latestPromises[p] = IF p = m.from THEN t + LeaseDuration
                       ELSE IF m.epoch > l.promisedTo THEN 0 ELSE l.latestPromises[p]
           /\ \A p \in Replica \ {m.from} : d.ackTimes[p] = l.ackTimes[p]
<1> DEFINE a == Advanced(l, m.epoch)
           b == Promised(l, m, t)
           d == OnPromise(l, m, t)
           q == m.from
           new == {x \in l.ackTimes[q] \cup {[stamp |-> m.stamp, at |-> t]} :
                      t - x.at <= FailureGrace + GuardDuration + LeaseDuration}
<1>1. /\ LeaseShape(a) /\ SameGrantor(l, a) /\ a.promisedTo = m.epoch
      /\ a.receivedGuard = l.receivedGuard /\ a.guardExpires = l.guardExpires
      /\ a.receivedSequence = l.receivedSequence /\ a.ackTimes = l.ackTimes
      /\ \A p \in Replica : a.latestPromises[p] =
             IF m.epoch > l.promisedTo THEN 0 ELSE l.latestPromises[p]
  <2>1. CASE m.epoch > l.promisedTo
    <3>1. /\ DOMAIN a = DOMAIN l /\ SameGrantor(l, a) /\ a.promisedTo = m.epoch
          /\ a.receivedGuard = l.receivedGuard /\ a.guardExpires = l.guardExpires
          /\ a.receivedSequence = l.receivedSequence /\ a.ackTimes = l.ackTimes
          /\ a.latestPromises = ToAll(0)
      BY <2>1 DEF Advanced, LeaseShape, SameGrantor
    <3>2. ToAll(0) \in [Replica -> Int] /\ \A p \in Replica : ToAll(0)[p] = 0 BY DEF ToAll
    <3> HIDE DEF a
    <3>3. LeaseShape(a) BY <3>1, <3>2 DEF LeaseShape, SameGrantor
    <3> QED BY <2>1, <3>1, <3>2, <3>3
  <2>2. CASE ~(m.epoch > l.promisedTo)
    <3>1. a = l /\ m.epoch = l.promisedTo BY <2>2 DEF Advanced, LeaseShape
    <3> QED BY <2>2, <3>1 DEF SameGrantor
  <2> QED BY <2>1, <2>2
<1>2. new \in SUBSET [stamp : Nat \ {0}, at : Int] BY DEF LeaseShape
<1>3. /\ DOMAIN b = DOMAIN a /\ SameGrantor(a, b) /\ b.promisedTo = a.promisedTo
      /\ b.receivedGuard = a.receivedGuard /\ b.guardExpires = a.guardExpires
      /\ b.receivedSequence = [a.receivedSequence EXCEPT ![q] = m.stamp]
      /\ b.latestPromises = [a.latestPromises EXCEPT ![q] = t + LeaseDuration]
      /\ b.ackTimes = [a.ackTimes EXCEPT ![q] = new]
  <2> HIDE DEF a
  <2>1. b = [a EXCEPT !.receivedSequence[q] = m.stamp,
                      !.latestPromises[q] = t + LeaseDuration,
                      !.frontiers[q] = m.frontier,
                      !.ackTimes[q] = {x \in @ \cup {[stamp |-> m.stamp, at |-> t]} :
                         t - x.at <= FailureGrace + GuardDuration + LeaseDuration}]
    BY DEF a, Promised
  <2> HIDE DEF b
  <2> QED BY <1>1, <2>1 DEF LeaseShape, SameGrantor
<1>4. /\ DOMAIN d = DOMAIN b /\ SameGrantor(b, d) /\ SameHolder(b, d)
  <2>1. d = Activated(b, t) BY DEF OnPromise, LeaseShape
  <2> HIDE DEF b, d, a
  <2>2. DOMAIN b = DOMAIN l BY <1>1, <1>3 DEF LeaseShape
  <2> QED BY <2>1, <2>2 DEF Activated, SameGrantor, SameHolder, LeaseShape
<1> HIDE DEF a, b, d, new
<1>5. new \subseteq l.ackTimes[q] \cup {[stamp |-> m.stamp, at |-> t]} BY DEF new
<1>6. LeaseShape(b) BY <1>1, <1>2, <1>3, DurationAssumption DEF LeaseShape, SameGrantor
<1>7. LeaseShape(d) BY <1>4, <1>6 DEF LeaseShape, SameGrantor, SameHolder
<1>8. SameGrantor(l, d) BY <1>1, <1>3, <1>4 DEF SameGrantor
<1>9. ASSUME NEW p \in Replica
      PROVE  /\ d.receivedSequence[p] = IF p = q THEN m.stamp ELSE l.receivedSequence[p]
             /\ d.ackTimes[p] = IF p = q THEN new ELSE l.ackTimes[p]
             /\ d.latestPromises[p] = IF p = q THEN t + LeaseDuration
                   ELSE IF m.epoch > l.promisedTo THEN 0 ELSE l.latestPromises[p]
  <2>1. /\ d.receivedSequence[p] = b.receivedSequence[p] /\ d.ackTimes[p] = b.ackTimes[p]
        /\ d.latestPromises[p] = b.latestPromises[p]
    BY <1>4 DEF SameHolder
  <2> QED BY <1>1, <1>3, <2>1 DEF LeaseShape
<1>10. d.promisedTo = m.epoch /\ d.receivedGuard = l.receivedGuard /\ d.guardExpires = l.guardExpires
  BY <1>1, <1>3, <1>4 DEF SameHolder
<1>11. \A p \in Replica :
         /\ d.receivedSequence[p] = IF p = q THEN m.stamp ELSE l.receivedSequence[p]
         /\ d.ackTimes[p] \subseteq IF p = q
               THEN l.ackTimes[p] \cup {[stamp |-> m.stamp, at |-> t]} ELSE l.ackTimes[p]
         /\ d.latestPromises[p] = IF p = q THEN t + LeaseDuration
               ELSE IF m.epoch > l.promisedTo THEN 0 ELSE l.latestPromises[p]
  BY <1>5, <1>9
<1>12. \A p \in Replica \ {q} : d.ackTimes[p] = l.ackTimes[p] BY <1>9
<1> QED BY <1>7, <1>8, <1>10, <1>11, <1>12 DEF d

-----------------------------------------------------------------------------
(***************************************************************************)
(* The core never changes the latest configuration but by learning it.     *)
(***************************************************************************)
LEMMA EpochKept ==
    ASSUME NEW c, HasEpoch(c)
    PROVE  /\ HasEpoch(Apply(c)) /\ HasEpoch(Activate(c))
           /\ \A s, r : HasEpoch(Install(c, s, r))
           /\ \A from, S, e : HasEpoch(Acked(c, from, S, e))
           /\ \A e : HasEpoch(FillCatchup(c, e)) /\ HasEpoch(Relabelled(c, e))
           /\ \A e : HasEpoch(Ordered(c, e))
           /\ \A i, R, q : HasEpoch(Submitted(i, c, R, q))
           /\ \A i : HasEpoch(Begin(i, c))
           /\ \A P : HasEpoch(Recovered(c, P))
<1> USE DEF HasEpoch
<1>1. HasEpoch(Activate(c)) BY DEF Activate
<1>2. \A d : HasEpoch(d) => HasEpoch(Apply(d)) BY DEF Apply
<1>3. \A s, r : HasEpoch(Install(c, s, r)) BY DEF Install
<1>4. \A from, S, e : HasEpoch(Acked(c, from, S, e))
  <2> TAKE from, S, e
  <2> DEFINE v == [c EXCEPT !.votes =
                [s \in Slot |-> IF s \in Counted(c, S, e) THEN @[s] \cup {from} ELSE @[s]]]
             w == [v EXCEPT !.log = [s \in Slot |-> IF s \in Counted(c, S, e) /\ Chosen(v, s)
                                                THEN [@[s] EXCEPT !.committed = TRUE] ELSE @[s]]]
  <2>1. Acked(c, from, S, e) = Apply(w) BY DEF Acked
  <2>2. HasEpoch(v) OBVIOUS
  <2>3. HasEpoch(w)
    <3> HIDE DEF v
    <3> QED BY <2>2
  <2> HIDE DEF w
  <2> QED BY <1>2, <2>1, <2>3
<1>5. \A e : HasEpoch(FillCatchup(c, e)) BY DEF FillCatchup
<1>6. \A e : HasEpoch(Relabelled(c, e)) BY DEF Relabelled
<1>7. \A e : HasEpoch(Ordered(c, e)) BY DEF Ordered
<1>8. \A i, R, q : HasEpoch(Submitted(i, c, R, q)) BY DEF Submitted
<1>9. \A i : HasEpoch(Begin(i, c)) BY DEF Begin
<1>10. \A P : HasEpoch(Recovered(c, P)) BY DEF Recovered
<1> QED BY <1>1, <1>2, <1>3, <1>4, <1>5, <1>6, <1>7, <1>8, <1>9, <1>10

LEMMA EpochKeptFlush ==
    ASSUME NEW c, HasEpoch(c)
    PROVE  \A i, e : HasEpoch(SentSuffix(i, c, e)) /\ HasEpoch(Flushed(i, c, e))
<1> TAKE i, e
<1>1. HasEpoch(Relabelled(c, e)) /\ HasEpoch(Ordered(c, e)) BY EpochKept
<1>2. HasEpoch(SentSuffix(i, c, e)) BY <1>1, EpochKept DEF SentSuffix
<1>3. HasEpoch(Flushed(i, c, e)) BY <1>1, EpochKept DEF Flushed
<1> QED BY <1>2, <1>3

LEMMA EpochKeptTick ==
    ASSUME NEW c, HasEpoch(c)
    PROVE  /\ \A i, due : HasEpoch(Reading(i, c, due))
           /\ \A i, q : HasEpoch(Resumed(i, c, q))
           /\ \A x : HasEpoch([c EXCEPT !.suspected = x])
<1>1. \A i, due : HasEpoch(Reading(i, c, due)) BY DEF Reading, HasEpoch
<1>2. \A i, q : HasEpoch(Resumed(i, c, q))
  <2> TAKE i, q
  <2>1. HasEpoch(Submitted(i, c, Waiting(c), q)) BY EpochKept
  <2>2. \A d : HasEpoch(d) => HasEpoch([d EXCEPT !.resume = {}]) BY DEF HasEpoch
  <2> QED BY <2>1, <2>2 DEF Resumed
<1>3. \A x : HasEpoch([c EXCEPT !.suspected = x]) BY DEF HasEpoch
<1> QED BY <1>1, <1>2, <1>3

-----------------------------------------------------------------------------
(***************************************************************************)
(* A step is quiet, or one of the five that concern the leases.            *)
(***************************************************************************)
Adds(M) == \A m \in msgs' : m.kind \in LeaseKind => m \in msgs \cup M
Quiet == UNCHANGED <<lease, now, world>> /\ Adds({})

LEMMA SendAdds ==
    ASSUME NEW M, Plain(M), NEW L
    PROVE  /\ Send(M) => Adds({})
           /\ Send(L \cup M) => Adds(L)
           /\ UNCHANGED msgs => Adds({})
BY DEF Plain, Send, Adds

LEMMA PlainUnion ==
    ASSUME NEW A, NEW B, Plain(A), Plain(B)
    PROVE  Plain(A \cup B) /\ Plain({})
BY DEF Plain

LEMMA OnlyEpochs ==
    ASSUME Epochs, NEW i, NEW c, Only(i, c), i \in Replica => HasEpoch(c)
    PROVE  Epochs'
BY DEF Epochs, Only

LEMMA QuietPropose ==
    ASSUME Epochs, NEW i \in Replica, NEW r \in Put, Propose(i, r)
    PROVE  Quiet /\ Epochs'
<1>1. Adds({}) BY PlainPackets, SendAdds DEF Propose
<1>2. \A q : HasEpoch(Submitted(i, core[i], {r}, q)) BY EpochKept DEF Epochs
<1>3. Epochs' BY <1>2, OnlyEpochs DEF Propose
<1> QED BY <1>1, <1>3 DEF Propose, Quiet

LEMMA QuietLearn ==
    ASSUME Epochs, NEW i \in Replica, Learn(i) \/ \E ch : Decide(i, ch)
    PROVE  Quiet /\ Epochs'
<1>1. UNCHANGED <<lease, now, world, msgs>> /\ Only(i, [core[i] EXCEPT !.latestEpoch = @ + 1])
  BY DEF Learn, Decide
<1>2. HasEpoch([core[i] EXCEPT !.latestEpoch = @ + 1]) BY DEF Epochs, HasEpoch
<1>3. Epochs' BY <1>1, <1>2, OnlyEpochs
<1> QED BY <1>1, <1>3 DEF Quiet, Adds

\* The packets of the log.
LEMMA QuietReceive ==
    ASSUME Epochs, NEW i, NEW m,
           \/ ReceivePrepare(i, m) \/ ReceivePromise(i, m) \/ ReceiveAccept(i, m)
           \/ ReceiveAck(i, m) \/ ReceiveCommit(i, m) \/ ReceiveReady(i, m)
           \/ ReceiveFetch(i, m) \/ ReceiveForward(i, m) \/ ReceiveForwardReply(i, m)
    PROVE  Quiet /\ Epochs'
<1> DEFINE c == core[i]
<1>1. i \in Replica => HasEpoch(c) BY DEF Epochs
<1>2. UNCHANGED <<lease, now, world>>
  BY DEF ReceivePrepare, ReceivePromise, ReceiveAccept, ReceiveAck, ReceiveCommit,
         ReceiveReady, ReceiveFetch, ReceiveForward, ReceiveForwardReply
<1>3. Plain({}) BY DEF Plain
<1>4. CASE ReceivePrepare(i, m)
  <2> DEFINE d == IF m.ballot > c.ballot
             THEN [c EXCEPT !.ballot = m.ballot, !.leader = m.from, !.preparing = FALSE,
                            !.active = FALSE, !.votes = [s \in Slot |-> {}]]
             ELSE [c EXCEPT !.active = FALSE]
  <2>1. i \in Replica => HasEpoch(d) BY <1>1 DEF HasEpoch
  <2>2. Only(i, d) BY <1>4 DEF ReceivePrepare
  <2>3. \E M : Plain(M) /\ Send(M) BY <1>3, <1>4, PlainPackets DEF ReceivePrepare
  <2> HIDE DEF d
  <2> QED BY <1>2, <2>1, <2>2, <2>3, SendAdds, OnlyEpochs DEF Quiet
<1>5. CASE ReceivePromise(i, m)
  <2> DEFINE P == c.promises \cup {m}
             e == lease[i].promisedBy
             r == FillCatchup(Recovered(c, P), e)
             u == [r EXCEPT !.recoveryEnd = r.high]
             d == SentSuffix(i, u, e)
  <2>1. \/ Only(i, [c EXCEPT !.promises = P]) /\ UNCHANGED msgs
        \/ /\ Only(i, Activate(d)) \/ Only(i, d)
           /\ \/ Send(SuffixSends(i, r, e) \cup Ready(i, Activate(d)))
              \/ Send(SuffixSends(i, r, e) \cup {})
    BY <1>5 DEF ReceivePromise
  <2>2. i \in Replica => HasEpoch([c EXCEPT !.promises = P]) BY <1>1 DEF HasEpoch
  <2>3. i \in Replica => HasEpoch(Recovered(c, P)) BY <1>1, EpochKept
  <2>4. i \in Replica => HasEpoch(r) BY <2>3, EpochKept
  <2>5. i \in Replica => HasEpoch(u)
    <3> HIDE DEF r
    <3> QED BY <2>4 DEF HasEpoch
  <2>6. i \in Replica => HasEpoch(d)
    <3> HIDE DEF u
    <3> QED BY <2>5, EpochKeptFlush
  <2> HIDE DEF d, r
  <2>7. i \in Replica => HasEpoch(Activate(d)) BY <2>6, EpochKept
  <2>8. Plain(SuffixSends(i, r, e)) /\ Plain(Ready(i, Activate(d))) BY PlainPackets
  <2>9. /\ Plain(SuffixSends(i, r, e) \cup Ready(i, Activate(d)))
        /\ Plain(SuffixSends(i, r, e) \cup {})
    BY <2>8 DEF Plain
  <2>10. Adds({}) BY <1>3, <2>1, <2>9, SendAdds
  <2>11. Epochs' BY <2>1, <2>2, <2>6, <2>7, OnlyEpochs
  <2> QED BY <1>2, <2>10, <2>11 DEF Quiet
<1>6. CASE ReceiveAccept(i, m)
  <2> DEFINE d == Install(c, m.slot, [m.rec EXCEPT !.ballot = m.ballot, !.epoch = m.epoch])
             ack == {[kind |-> "Ack", from |-> i, to |-> m.from, ballot |-> m.ballot,
                      epoch |-> m.epoch, slot |-> m.slot]}
  <2>1. Only(i, d) /\ (Send(ack \cup Fetch(i, d, lease[i])) \/ Send(ack \cup {}))
    BY <1>6 DEF ReceiveAccept
  <2>2. i \in Replica => HasEpoch(d) BY <1>1, EpochKept
  <2> HIDE DEF d
  <2>3. Plain(ack) BY DEF Plain, LeaseKind
  <2> HIDE DEF ack
  <2>4. Plain(ack \cup Fetch(i, d, lease[i])) /\ Plain(ack \cup {})
    BY <2>3, PlainPackets DEF Plain
  <2> QED BY <1>2, <2>1, <2>2, <2>4, SendAdds, OnlyEpochs DEF Quiet
<1>7. CASE ReceiveAck(i, m)
  <2> DEFINE d == Acked(c, m.from, {m.slot}, m.epoch)
  <2>1. Only(i, d) /\ Send(Commits(i, Others(i), d, Newly(c, d))) BY <1>7 DEF ReceiveAck
  <2>2. i \in Replica => HasEpoch(d) BY <1>1, EpochKept
  <2> HIDE DEF d
  <2> QED BY <1>2, <2>1, <2>2, PlainPackets, SendAdds, OnlyEpochs DEF Quiet
<1>8. CASE ReceiveCommit(i, m)
  <2> DEFINE d == Install(c, m.slot, m.rec)
             u == [d EXCEPT !.log[m.slot].committed = TRUE]
  <2>1. Only(i, Apply(u)) /\ UNCHANGED msgs BY <1>8 DEF ReceiveCommit
  <2>2. i \in Replica => HasEpoch(d) BY <1>1, EpochKept
  <2>3. i \in Replica => HasEpoch(u)
    <3> HIDE DEF d
    <3> QED BY <2>2 DEF HasEpoch
  <2> HIDE DEF u
  <2>4. i \in Replica => HasEpoch(Apply(u)) BY <2>3, EpochKept
  <2> QED BY <1>2, <1>3, <2>1, <2>4, SendAdds, OnlyEpochs DEF Quiet
<1>9. CASE ReceiveReady(i, m)
  <2> DEFINE d == IF m.ballot > c.ballot
             THEN [c EXCEPT !.ballot = m.ballot, !.leader = m.from, !.preparing = FALSE,
                            !.active = FALSE, !.votes = [s \in Slot |-> {}]]
             ELSE c
  <2>1. /\ Only(i, Activate(d)) \/ Only(i, d)
        /\ Send(Fetch(i, d, lease[i])) \/ Send({})
    BY <1>9 DEF ReceiveReady
  <2>2. i \in Replica => HasEpoch(d) BY <1>1 DEF HasEpoch
  <2> HIDE DEF d
  <2>3. i \in Replica => HasEpoch(Activate(d)) BY <2>2, EpochKept
  <2> QED BY <1>2, <1>3, <2>1, <2>2, <2>3, PlainPackets, SendAdds, OnlyEpochs DEF Quiet
<1>10. CASE ReceiveFetch(i, m)
  <2> DEFINE e == lease[i].promisedBy
             b == [c EXCEPT !.catchupTarget = Max({@, m.high})]
             d == FillCatchup(b, e)
  <2>1. \/ Only(i, b) /\ UNCHANGED msgs
        \/ /\ Only(i, d)
           /\ \E S : Send({Accept(i, m.from, d, e, s, [d.log[s] EXCEPT !.ballot = d.ballot]) :
                             s \in S}
                          \cup Commits(i, {m.from}, d, {s \in S : d.log[s].committed}))
    BY <1>10 DEF ReceiveFetch
  <2>2. i \in Replica => HasEpoch(b) BY <1>1 DEF HasEpoch
  <2> HIDE DEF b
  <2>3. i \in Replica => HasEpoch(d) BY <2>2, EpochKept
  <2> HIDE DEF d
  <2>4. \A S : Plain({Accept(i, m.from, d, e, s, [d.log[s] EXCEPT !.ballot = d.ballot]) : s \in S})
    BY DEF Plain, Accept, LeaseKind
  <2>5. \A S : Plain({Accept(i, m.from, d, e, s, [d.log[s] EXCEPT !.ballot = d.ballot]) : s \in S}
                      \cup Commits(i, {m.from}, d, {s \in S : d.log[s].committed}))
    BY <2>4, PlainPackets, PlainUnion
  <2>6. Adds({}) BY <1>3, <2>1, <2>5, SendAdds
  <2>7. Epochs' BY <2>1, <2>2, <2>3, OnlyEpochs
  <2> QED BY <1>2, <2>6, <2>7 DEF Quiet
<1>11. CASE ReceiveForward(i, m)
  <2> DEFINE reply == {[kind |-> "ForwardReply", from |-> i, to |-> m.from,
                        ballot |-> m.ballot, req |-> m.req]}
  <2>1. \/ Send(reply) /\ UNCHANGED core
        \/ (\E q : Only(i, Submitted(i, c, {m.req}, q))) /\ UNCHANGED msgs
    BY <1>11 DEF ReceiveForward
  <2>2. Plain(reply) BY DEF Plain, LeaseKind
  <2>3. i \in Replica => \A q : HasEpoch(Submitted(i, c, {m.req}, q)) BY <1>1, EpochKept
  <2> HIDE DEF reply
  <2>4. Adds({}) BY <1>3, <2>1, <2>2, SendAdds
  <2>5. Epochs' BY <2>1, <2>3, OnlyEpochs DEF Epochs
  <2> QED BY <1>2, <2>4, <2>5 DEF Quiet
<1>12. CASE ReceiveForwardReply(i, m)
  <2>1. /\ Only(i, [c EXCEPT !.pending = @ \ {m.req}, !.forwardResults = @ \cup {m.req}])
        /\ UNCHANGED msgs
    BY <1>12 DEF ReceiveForwardReply
  <2>2. i \in Replica =>
           HasEpoch([c EXCEPT !.pending = @ \ {m.req}, !.forwardResults = @ \cup {m.req}])
    BY <1>1 DEF HasEpoch
  <2> QED BY <1>2, <1>3, <2>1, <2>2, SendAdds, OnlyEpochs DEF Quiet
<1> QED BY <1>4, <1>5, <1>6, <1>7, <1>8, <1>9, <1>10, <1>11, <1>12

\* A tick renews grants, or ends the era; what else it sends is about the log.
Ticks(i, due) == Maintain(i, due) /\ Adds(Grants(i, due))

LEMMA TickEffect ==
    ASSUME Epochs, NEW i \in Replica, NEW due,
           TickBegin(i, due) \/ TickFollow(i, due) \/ TickLead(i, due)
    PROVE  Ticks(i, due) /\ Epochs'
<1>1. HasEpoch(core[i]) BY DEF Epochs
<1>2. \A x : HasEpoch([core[i] EXCEPT !.suspected = x]) BY <1>1, EpochKeptTick
<1>3. CASE TickBegin(i, due)
  <2> DEFINE c == [core[i] EXCEPT !.suspected = Doubts(i, due)]
  <2>1. HasEpoch(c) BY <1>2
  <2>2. /\ Maintain(i, due) /\ Only(i, Reading(i, Begin(i, c), due))
        /\ Send(Grants(i, due) \cup Prepares(i, Begin(i, c)))
    BY <1>3 DEF TickBegin
  <2> HIDE DEF c
  <2>3. HasEpoch(Begin(i, c)) BY <2>1, EpochKept
  <2>4. HasEpoch(Reading(i, Begin(i, c), due)) BY <2>3, EpochKeptTick
  <2>5. Adds(Grants(i, due)) BY <2>2, PlainPackets, SendAdds
  <2> QED BY <2>2, <2>4, <2>5, OnlyEpochs DEF Ticks
<1>4. CASE TickFollow(i, due)
  <2> DEFINE b == [core[i] EXCEPT !.suspected = Doubts(i, due)]
             c == Reading(i, b, due)
             M == Forwards(i, c, Waiting(c))
                    \cup (IF "read" \in due THEN Fetch(i, c, Switched(i)) ELSE {})
  <2>1. HasEpoch(b) BY <1>2
  <2>2. HasEpoch(c)
    <3> HIDE DEF b
    <3> QED BY <2>1, EpochKeptTick
  <2>3. PICK q : Only(i, Resumed(i, c, q)) BY <1>4 DEF TickFollow
  <2>4. Maintain(i, due) /\ Send(Grants(i, due) \cup M) BY <1>4 DEF TickFollow
  <2> HIDE DEF c
  <2>5. Plain(M) BY PlainPackets DEF Plain
  <2> HIDE DEF M
  <2>6. Adds(Grants(i, due)) BY <2>4, <2>5, SendAdds
  <2>7. HasEpoch(Resumed(i, c, q)) BY <2>2, EpochKeptTick
  <2> QED BY <2>3, <2>4, <2>6, <2>7, OnlyEpochs DEF Ticks
<1>5. CASE TickLead(i, due)
  <2> DEFINE e == Switched(i).promisedBy
             b == [core[i] EXCEPT !.suspected = Suspects(i, due)]
             c == Reading(i, b, due)
  <2>1. HasEpoch(b) BY <1>2
  <2>2. HasEpoch(c)
    <3> HIDE DEF b
    <3> QED BY <2>1, EpochKeptTick
  <2> DEFINE r(q) == FillCatchup(Resumed(i, c, q), e)
             a(q) == IF ~r(q).active /\ r(q).executed >= r(q).recoveryEnd
                     THEN Activate(r(q)) ELSE r(q)
             f(q) == IF a(q).active THEN Flushed(i, a(q), e) ELSE a(q)
             M(q) == (IF a(q) # r(q) THEN Ready(i, a(q)) ELSE {})
                        \cup (IF a(q).active THEN FlushSends(i, a(q), e) ELSE {})
                        \cup (IF "send" \in due THEN Ready(i, f(q)) \cup SuffixSends(i, f(q), e)
                              ELSE {})
  <2>3. PICK q : /\ Only(i, IF "send" \in due THEN SentSuffix(i, f(q), e) ELSE f(q))
                 /\ Send(Grants(i, due) \cup M(q))
    <3>1. PICK q \in Orders(c, Waiting(c)) :
             /\ Only(i, IF "send" \in due THEN SentSuffix(i, f(q), e) ELSE f(q))
             /\ Send(Grants(i, due)
                        \cup (IF a(q) # r(q) THEN Ready(i, a(q)) ELSE {})
                        \cup (IF a(q).active THEN FlushSends(i, a(q), e) ELSE {})
                        \cup (IF "send" \in due THEN Ready(i, f(q)) \cup SuffixSends(i, f(q), e)
                              ELSE {}))
      BY <1>5, Zenon DEF TickLead
    <3>2. \A G, A, B, C : G \cup A \cup B \cup C = G \cup (A \cup B \cup C) OBVIOUS
    <3> WITNESS q
    <3> HIDE DEF a, r, f, c, e
    <3> QED BY <3>1, <3>2, Zenon
  <2>4. Maintain(i, due) BY <1>5 DEF TickLead
  <2> HIDE DEF c
  <2>5. HasEpoch(Resumed(i, c, q)) BY <2>2, EpochKeptTick
  <2>6. HasEpoch(r(q)) BY <2>5, EpochKept
  <2> HIDE DEF r
  <2>7. HasEpoch(a(q)) BY <2>6, EpochKept
  <2>8. HasEpoch(f(q))
    <3> HIDE DEF a
    <3> QED BY <2>7, EpochKeptFlush
  <2>9. Plain(M(q))
    <3> HIDE DEF a, f
    <3> QED BY PlainPackets DEF Plain
  <2> HIDE DEF M, f, a
  <2>10. HasEpoch(IF "send" \in due THEN SentSuffix(i, f(q), e) ELSE f(q))
    BY <2>8, EpochKeptFlush
  <2>11. Adds(Grants(i, due)) BY <2>3, <2>9, SendAdds
  <2>12. Epochs' BY <2>3, <2>10, OnlyEpochs
  <2> QED BY <2>4, <2>11, <2>12 DEF Ticks
<1> QED BY <1>3, <1>4, <1>5

-----------------------------------------------------------------------------
(***************************************************************************)
(* The steps of a grantor and a holder, seen by one pair of them.          *)
(***************************************************************************)
Old(kind, from, to) ==
    \A m \in msgs' : m.kind = kind /\ m.from = from /\ m.to = to => m \in msgs
PairShape(g, h) == LeaseShape(lease[g]) /\ LeaseShape(lease[h])
SameGrant(g, h) ==
    /\ lease'[g].promisedBy = lease[g].promisedBy
    /\ lease'[g].sentSequence[h] = lease[g].sentSequence[h]
    /\ lease'[g].ackSequence[h] = lease[g].ackSequence[h]
    /\ lease'[g].lastAckTime[h] = lease[g].lastAckTime[h]
    /\ lease'[g].latestReplies[h] = lease[g].latestReplies[h]
SameHold(g, h) ==
    /\ lease'[h].receivedGuard[g] = lease[h].receivedGuard[g]
    /\ lease'[h].guardExpires[g] = lease[h].guardExpires[g]
    /\ lease'[h].receivedSequence[g] = lease[h].receivedSequence[g]
    /\ lease'[h].ackTimes[g] = lease[h].ackTimes[g]

\* The types of everything a pair's part of the invariant speaks of.
LEMMA PairTypes ==
    ASSUME NEW g \in Replica, NEW h \in Replica, PairShape(g, h)
    PROVE  /\ lease[g].promisedBy \in Int /\ lease[h].promisedTo \in Int
           /\ lease[g].sentSequence[h] \in Nat /\ lease[g].ackSequence[h] \in Nat
           /\ lease[g].lastAckTime[h] \in Int /\ lease[g].latestReplies[h] \in Int
           /\ lease[h].receivedGuard[g] \in Nat /\ lease[h].guardExpires[g] \in Int
           /\ lease[h].receivedSequence[g] \in Nat /\ lease[h].latestPromises[g] \in Int
           /\ \A a \in lease[h].ackTimes[g] : a.stamp \in Nat \ {0} /\ a.at \in Int
BY DEF PairShape, LeaseShape

\* Nothing of the pair changes but, perhaps, the time and what h counts.
LEMMA PairSame ==
    ASSUME NEW g \in Replica, NEW h \in Replica, Shapes, LeasePair(g, h),
           SameGrant(g, h), SameHold(g, h), now' \in {now, now + 1},
           \/ /\ lease'[h].latestPromises[g] = lease[h].latestPromises[g]
              /\ lease'[h].promisedTo = lease[h].promisedTo
           \/ lease'[h].latestPromises[g] = 0,
           Old("GuardAck", h, g), Old("LeasePromise", g, h), Old("LeaseReply", h, g)
    PROVE  LeasePair(g, h)'
<1> USE DEF SameGrant, SameHold, LeasePair
<1>1. PairShape(g, h) BY DEF Shapes, PairShape
<1>2. now \in Nat \ {0} /\ GuardDuration \in Nat \ {0} /\ LeaseDuration \in Nat \ {0}
  BY DurationAssumption DEF Shapes
<1>3. Horizons(g, h)' BY <1>1, <1>2, PairTypes DEF Horizons
<1>4. Acknowledged(g, h)' BY DEF Acknowledged
<1>5. References(g, h)' BY DEF References, Old
<1>6. \A m, end : Binding(g, h, m, end) /\ end \in Int => Binding(g, h, m, end)'
  BY <1>2 DEF Binding
<1>7. UnderWay(g, h)'
  <2> SUFFICES ASSUME NEW m \in msgs', m.kind = "LeasePromise", m.from = g, m.to = h,
                      m.stamp > lease[h].receivedSequence[g]
               PROVE  /\ m.ack < 0 /\ m.ack = -lease[h].receivedGuard[g]
                            => Binding(g, h, m, lease[h].guardExpires[g])'
                      /\ \A a \in lease[h].ackTimes[g] :
                            m.ack = a.stamp => Binding(g, h, m, a.at + m.elapsed + GuardDuration)'
    BY DEF UnderWay, Binding
  <2>1. m \in msgs BY DEF Old
  <2>2. m.elapsed \in Int BY <2>1 DEF Shapes, PacketShape, LeaseKind
  <2>3. \A a \in lease[h].ackTimes[g] : a.at + m.elapsed + GuardDuration \in Int
    BY <1>1, <1>2, <2>2, PairTypes
  <2> QED BY <1>1, <1>6, <2>1, <2>3, PairTypes DEF UnderWay
<1>8. Answered(g, h)'
  <2> SUFFICES ASSUME NEW m \in msgs', m.kind = "LeaseReply", m.from = h, m.to = g
               PROVE  /\ m.stamp <= lease[g].sentSequence[h]
                      /\ /\ m.stamp = lease[g].sentSequence[h] /\ m.epoch = lease[g].promisedBy
                         /\ now' < lease[g].latestReplies[h]
                         => m.stamp <= lease[h].receivedSequence[g]
    BY DEF Answered
  <2>1. m \in msgs BY DEF Old
  <2>2. now' < lease[g].latestReplies[h] => now < lease[g].latestReplies[h]
    BY <1>1, <1>2, PairTypes
  <2> QED BY <2>1, <2>2 DEF Answered
<1>9. Bound(g, h)' BY <1>1, <1>2, PairTypes DEF Bound
<1> QED BY <1>3, <1>4, <1>5, <1>7, <1>8, <1>9

\* g sends h a promise: a guarded one, or a renewal of one it knows h has.
LEMMA PairSend ==
    ASSUME NEW g \in Replica, NEW h \in Replica, Shapes, Shapes', LeasePair(g, h),
           SameHold(g, h), now' = now,
           lease'[h].latestPromises[g] = lease[h].latestPromises[g],
           lease'[h].promisedTo = lease[h].promisedTo,
           lease'[g].promisedBy = lease[g].promisedBy,
           lease'[g].ackSequence[h] = lease[g].ackSequence[h],
           lease'[g].lastAckTime[h] = lease[g].lastAckTime[h],
           lease'[g].sentSequence[h] = lease[g].sentSequence[h] + 1,
           lease'[g].latestReplies[h] = now + GuardDuration + LeaseDuration,
           Old("GuardAck", h, g), Old("LeaseReply", h, g),
           \A m \in msgs' : m.kind = "LeasePromise" /\ m.from = g /\ m.to = h =>
              \/ m \in msgs
              \/ /\ m.stamp = lease[g].sentSequence[h] + 1 /\ m.epoch = lease[g].promisedBy
                 /\ \/ /\ m.ack = lease[g].ackSequence[h]
                       /\ m.elapsed = now - lease[g].lastAckTime[h]
                    \/ m.ack <= 0 /\ -m.ack <= lease[h].receivedGuard[g]
    PROVE  LeasePair(g, h)'
<1> USE DEF SameHold, LeasePair
<1>1. PairShape(g, h) BY DEF Shapes, PairShape
<1>2. now \in Nat \ {0} /\ GuardDuration \in Nat \ {0} /\ LeaseDuration \in Nat \ {0}
  BY DurationAssumption DEF Shapes
<1>3. Horizons(g, h)' BY <1>1, <1>2, PairTypes DEF Horizons
<1>4. Acknowledged(g, h)' BY DEF Acknowledged
<1>5. \A m \in msgs' : m.kind = "LeasePromise" => m.ack \in Int /\ m.elapsed \in Int /\ m.stamp \in Nat
  BY DEF Shapes, PacketShape, LeaseKind
<1>6. References(g, h)'
  <2> SUFFICES ASSUME NEW m \in msgs'
               PROVE  /\ m.kind = "GuardAck" /\ m.from = h /\ m.to = g
                            => m.stamp <= lease[h].receivedGuard[g]
                      /\ m.kind = "LeasePromise" /\ m.from = g /\ m.to = h =>
                            /\ m.stamp <= lease[g].sentSequence[h] + 1
                            /\ -m.ack <= lease[h].receivedGuard[g]
                            /\ m.ack <= lease[h].receivedSequence[g]
    BY DEF References
  <2>1. CASE m \in msgs BY <1>1, <1>5, <2>1, PairTypes DEF References
  <2>2. CASE m \notin msgs BY <1>1, <1>5, <2>2, PairTypes DEF Old, Acknowledged
  <2> QED BY <2>1, <2>2
<1>7. UnderWay(g, h)'
  <2> SUFFICES ASSUME NEW m \in msgs', m.kind = "LeasePromise", m.from = g, m.to = h,
                      m.stamp > lease[h].receivedSequence[g]
               PROVE  /\ m.ack < 0 /\ m.ack = -lease[h].receivedGuard[g]
                            => Binding(g, h, m, lease[h].guardExpires[g])'
                      /\ \A a \in lease[h].ackTimes[g] :
                            m.ack = a.stamp => Binding(g, h, m, a.at + m.elapsed + GuardDuration)'
    BY DEF UnderWay, Binding
  <2>1. m.ack \in Int /\ m.elapsed \in Int BY <1>5
  <2>2. CASE m \in msgs
    <3>1. \A end : Binding(g, h, m, end) /\ end \in Int => Binding(g, h, m, end)'
      BY <1>1, <1>2, PairTypes DEF Binding, Horizons
    <3>2. \A a \in lease[h].ackTimes[g] : a.at + m.elapsed + GuardDuration \in Int
      BY <1>1, <1>2, <2>1, PairTypes
    <3> QED BY <1>1, <2>2, <3>1, <3>2, PairTypes DEF UnderWay
  <2>3. CASE m \notin msgs
    <3>1. m.ack < 0 /\ m.ack = -lease[h].receivedGuard[g]
             => Binding(g, h, m, lease[h].guardExpires[g])'
      BY <1>1, <1>2, <2>3, PairTypes DEF Binding, Horizons
    <3>2. ASSUME NEW a \in lease[h].ackTimes[g], m.ack = a.stamp
          PROVE  Binding(g, h, m, a.at + m.elapsed + GuardDuration)'
      <4>1. a.stamp \in Nat \ {0} /\ a.at \in Int BY <1>1, PairTypes
      <4>2. m.ack = lease[g].ackSequence[h] /\ m.elapsed = now - lease[g].lastAckTime[h]
        BY <2>3, <3>2, <4>1
      <4>3. a.at <= lease[g].lastAckTime[h] BY <3>2, <4>2 DEF Acknowledged
      <4>4. m.epoch = lease[g].promisedBy BY <2>3
      <4>5. a.at + m.elapsed + GuardDuration + LeaseDuration <= now + GuardDuration + LeaseDuration
        BY <1>1, <1>2, <4>1, <4>2, <4>3, PairTypes
      <4> QED BY <4>4, <4>5 DEF Binding
    <3> QED BY <3>1, <3>2
  <2> QED BY <2>2, <2>3
<1>8. Answered(g, h)'
  <2> SUFFICES ASSUME NEW m \in msgs', m.kind = "LeaseReply", m.from = h, m.to = g
               PROVE  /\ m.stamp <= lease[g].sentSequence[h] + 1
                      /\ m.stamp # lease[g].sentSequence[h] + 1
    BY DEF Answered
  <2>1. m \in msgs BY DEF Old
  <2>2. m.stamp \in Nat BY <2>1 DEF Shapes, PacketShape, LeaseKind
  <2> QED BY <1>1, <2>1, <2>2, PairTypes DEF Answered
<1>9. Bound(g, h)' BY <1>1, <1>2, PairTypes DEF Bound, Horizons
<1> QED BY <1>3, <1>4, <1>6, <1>7, <1>8, <1>9

\* g begins a new era: none of its promises of the old one stands or can be
\* taken any more.
LEMMA PairSwitch ==
    ASSUME NEW g \in Replica, NEW h \in Replica, Shapes, LeasePair(g, h),
           SameHold(g, h), now' = now, lease[g].latestReplies[h] <= now,
           lease'[h].latestPromises[g] = lease[h].latestPromises[g],
           lease'[g].ackSequence[h] = 0, lease'[g].latestReplies[h] = 0,
           lease'[g].sentSequence[h] = lease[g].sentSequence[h],
           Old("GuardAck", h, g), Old("LeasePromise", g, h), Old("LeaseReply", h, g)
    PROVE  LeasePair(g, h)'
<1> USE DEF SameHold, LeasePair
<1>1. PairShape(g, h) BY DEF Shapes, PairShape
<1>2. now \in Nat \ {0} /\ GuardDuration \in Nat \ {0} /\ LeaseDuration \in Nat \ {0}
  BY DurationAssumption DEF Shapes
<1>3. Horizons(g, h)' BY <1>1, <1>2, PairTypes DEF Horizons
<1>4. Acknowledged(g, h)' BY <1>1, PairTypes DEF Acknowledged
<1>5. References(g, h)' BY DEF References, Old
<1>6. UnderWay(g, h)'
  <2> SUFFICES ASSUME NEW m \in msgs', m.kind = "LeasePromise", m.from = g, m.to = h,
                      m.stamp > lease[h].receivedSequence[g]
               PROVE  /\ m.ack < 0 /\ m.ack = -lease[h].receivedGuard[g]
                            => Binding(g, h, m, lease[h].guardExpires[g])'
                      /\ \A a \in lease[h].ackTimes[g] :
                            m.ack = a.stamp => Binding(g, h, m, a.at + m.elapsed + GuardDuration)'
    BY DEF UnderWay, Binding
  <2>1. m \in msgs BY DEF Old
  <2>2. m.elapsed \in Int BY <2>1 DEF Shapes, PacketShape, LeaseKind
  <2>3. \A end : Binding(g, h, m, end) /\ end \in Int => Binding(g, h, m, end)'
    BY <1>1, <1>2, PairTypes DEF Binding
  <2>4. \A a \in lease[h].ackTimes[g] : a.at + m.elapsed + GuardDuration \in Int
    BY <1>1, <1>2, <2>2, PairTypes
  <2> QED BY <1>1, <2>1, <2>3, <2>4, PairTypes DEF UnderWay
<1>7. Answered(g, h)' BY <1>2 DEF Answered, Old
<1>8. Bound(g, h)' BY <1>1, <1>2, PairTypes DEF Bound
<1> QED BY <1>3, <1>4, <1>5, <1>6, <1>7, <1>8

\* g counts h's answer to its last promise.  Every earlier promise is one h will
\* not take any more, so the obligation may end when h's time for this one does.
LEMMA PairReply ==
    ASSUME NEW g \in Replica, NEW h \in Replica, Shapes, LeasePair(g, h),
           SameHold(g, h), now' = now, msgs' = msgs,
           lease'[h].latestPromises[g] = lease[h].latestPromises[g],
           lease'[h].promisedTo = lease[h].promisedTo,
           lease'[g].promisedBy = lease[g].promisedBy,
           lease'[g].sentSequence[h] = lease[g].sentSequence[h],
           NEW r \in msgs, r.kind = "LeaseReply", r.from = h, r.to = g,
           r.epoch = lease[g].promisedBy, r.stamp = lease[g].sentSequence[h],
           now < lease[g].latestReplies[h],
           lease'[g].ackSequence[h] = r.stamp, lease'[g].lastAckTime[h] = now,
           lease'[g].latestReplies[h] <= lease[g].latestReplies[h],
           lease'[g].latestReplies[h] \in {lease[g].latestReplies[h], now + LeaseDuration}
    PROVE  LeasePair(g, h)'
<1> USE DEF SameHold, LeasePair
<1>1. PairShape(g, h) BY DEF Shapes, PairShape
<1>2. now \in Nat \ {0} /\ GuardDuration \in Nat \ {0} /\ LeaseDuration \in Nat \ {0}
  BY DurationAssumption DEF Shapes
<1>3. lease[g].sentSequence[h] <= lease[h].receivedSequence[g] BY DEF Answered
<1>4. Horizons(g, h)' BY <1>1, <1>2, PairTypes DEF Horizons
<1>5. Acknowledged(g, h)' BY <1>1, <1>3, PairTypes DEF Acknowledged, Horizons
<1>6. References(g, h)' BY DEF References
<1>7. UnderWay(g, h)'
  <2> SUFFICES ASSUME NEW m \in msgs, m.kind = "LeasePromise", m.from = g, m.to = h,
                      m.stamp > lease[h].receivedSequence[g]
               PROVE  FALSE
    BY DEF UnderWay
  <2>1. m.stamp \in Nat BY DEF Shapes, PacketShape, LeaseKind
  <2>2. m.stamp <= lease[g].sentSequence[h] BY DEF References
  <2> QED BY <1>1, <1>3, <2>1, <2>2, PairTypes
<1>8. Answered(g, h)' BY <1>3 DEF Answered
<1>9. Bound(g, h)' BY <1>1, <1>2, PairTypes DEF Bound, Horizons
<1> QED BY <1>4, <1>5, <1>6, <1>7, <1>8, <1>9

\* h takes a new guard of g: no promise refers to it yet.
LEMMA PairGuard ==
    ASSUME NEW g \in Replica, NEW h \in Replica, Shapes, LeasePair(g, h),
           SameGrant(g, h), now' = now,
           lease'[h].latestPromises[g] = lease[h].latestPromises[g],
           lease'[h].promisedTo = lease[h].promisedTo,
           lease'[h].receivedSequence[g] = lease[h].receivedSequence[g],
           lease'[h].ackTimes[g] = lease[h].ackTimes[g],
           NEW stamp \in Nat, stamp > lease[h].receivedGuard[g],
           lease'[h].receivedGuard[g] = stamp,
           lease'[h].guardExpires[g] = now + GuardDuration,
           Old("LeasePromise", g, h), Old("LeaseReply", h, g),
           \A m \in msgs' : m.kind = "GuardAck" /\ m.from = h /\ m.to = g =>
              m \in msgs \/ m.stamp = stamp
    PROVE  LeasePair(g, h)'
<1> USE DEF SameGrant, LeasePair
<1>1. PairShape(g, h) BY DEF Shapes, PairShape
<1>2. now \in Nat \ {0} /\ GuardDuration \in Nat \ {0} /\ LeaseDuration \in Nat \ {0}
  BY DurationAssumption DEF Shapes
<1>3. Horizons(g, h)' BY <1>1, <1>2, PairTypes DEF Horizons
<1>4. Acknowledged(g, h)' BY DEF Acknowledged
<1>5. \A m \in msgs : /\ m.kind = "LeasePromise" => m.ack \in Int /\ m.elapsed \in Int
                      /\ m.kind = "GuardAck" => m.stamp \in Nat
  BY DEF Shapes, PacketShape, LeaseKind
<1>6. References(g, h)'
  <2> SUFFICES ASSUME NEW m \in msgs'
               PROVE  /\ m.kind = "GuardAck" /\ m.from = h /\ m.to = g => m.stamp <= stamp
                      /\ m.kind = "LeasePromise" /\ m.from = g /\ m.to = h =>
                            /\ m.stamp <= lease[g].sentSequence[h]
                            /\ -m.ack <= stamp /\ m.ack <= lease[h].receivedSequence[g]
    BY DEF References
  <2>1. CASE m \in msgs BY <1>1, <1>5, <2>1, PairTypes DEF References
  <2>2. CASE m \notin msgs BY <2>2 DEF Old
  <2> QED BY <2>1, <2>2
<1>7. UnderWay(g, h)'
  <2> SUFFICES ASSUME NEW m \in msgs', m.kind = "LeasePromise", m.from = g, m.to = h,
                      m.stamp > lease[h].receivedSequence[g]
               PROVE  /\ ~(m.ack < 0 /\ m.ack = -stamp)
                      /\ \A a \in lease[h].ackTimes[g] :
                            m.ack = a.stamp => Binding(g, h, m, a.at + m.elapsed + GuardDuration)'
    BY DEF UnderWay, Binding
  <2>1. m \in msgs BY DEF Old
  <2>2. -m.ack <= lease[h].receivedGuard[g] /\ m.ack \in Int BY <1>5, <2>1 DEF References
  <2>3. m.ack # -stamp BY <1>1, <2>2, PairTypes
  <2>4. \A a \in lease[h].ackTimes[g] :
           m.ack = a.stamp => Binding(g, h, m, a.at + m.elapsed + GuardDuration)
    BY <2>1 DEF UnderWay
  <2>5. \A end : Binding(g, h, m, end) => Binding(g, h, m, end)' BY DEF Binding
  <2> QED BY <2>3, <2>4, <2>5
<1>8. Answered(g, h)' BY DEF Answered, Old
<1>9. Bound(g, h)' BY DEF Bound
<1> QED BY <1>3, <1>4, <1>6, <1>7, <1>8, <1>9

\* A promise that h may take binds g: to its epoch, and beyond the time h
\* will count it.
LEMMA AdmissibleBinds ==
    ASSUME NEW g \in Replica, NEW h \in Replica, Shapes, LeasePair(g, h),
           NEW m \in msgs, m.kind = "LeasePromise", m.from = g, m.to = h,
           Admissible(lease[h], m, now)
    PROVE  /\ m.epoch = lease[g].promisedBy
           /\ now + LeaseDuration <= lease[g].latestReplies[h]
<1>1. PairShape(g, h) BY DEF Shapes, PairShape
<1>2. now \in Nat \ {0} /\ GuardDuration \in Nat \ {0} /\ LeaseDuration \in Nat \ {0}
  BY DurationAssumption DEF Shapes
<1>3. m.elapsed \in Int BY DEF Shapes, PacketShape, LeaseKind
<1>4. m.stamp > lease[h].receivedSequence[g] BY DEF Admissible
<1>5. CASE m.ack < 0 /\ m.ack = -lease[h].receivedGuard[g] /\ now < lease[h].guardExpires[g]
  <2>1. Binding(g, h, m, lease[h].guardExpires[g]) BY <1>4, <1>5 DEF LeasePair, UnderWay
  <2> QED BY <1>1, <1>2, <1>5, <2>1, PairTypes DEF Binding
<1>6. ASSUME NEW a \in lease[h].ackTimes[g], m.ack = a.stamp,
             now - a.at < m.elapsed + GuardDuration
      PROVE  /\ m.epoch = lease[g].promisedBy
             /\ now + LeaseDuration <= lease[g].latestReplies[h]
  <2>1. Binding(g, h, m, a.at + m.elapsed + GuardDuration) BY <1>4, <1>6 DEF LeasePair, UnderWay
  <2>2. a.at \in Int BY <1>1, PairTypes
  <2> QED BY <1>1, <1>2, <1>3, <1>6, <2>1, <2>2, PairTypes DEF Binding
<1> QED BY <1>5, <1>6 DEF Admissible

\* h takes the promise and answers it.
LEMMA PairTake ==
    ASSUME NEW g \in Replica, NEW h \in Replica, Shapes, LeasePair(g, h),
           SameGrant(g, h), now' = now,
           NEW m \in msgs, m.kind = "LeasePromise", m.from = g, m.to = h,
           Admissible(lease[h], m, now),
           lease'[h].receivedGuard[g] = lease[h].receivedGuard[g],
           lease'[h].guardExpires[g] = lease[h].guardExpires[g],
           lease'[h].promisedTo = m.epoch,
           lease'[h].receivedSequence[g] = m.stamp,
           lease'[h].latestPromises[g] = now + LeaseDuration,
           lease'[h].ackTimes[g] \subseteq
               lease[h].ackTimes[g] \cup {[stamp |-> m.stamp, at |-> now]},
           Old("LeasePromise", g, h), Old("GuardAck", h, g),
           \A x \in msgs' : x.kind = "LeaseReply" /\ x.from = h /\ x.to = g =>
              x \in msgs \/ x.stamp = m.stamp
    PROVE  LeasePair(g, h)'
<1> USE DEF SameGrant, LeasePair
<1>1. PairShape(g, h) BY DEF Shapes, PairShape
<1>2. now \in Nat \ {0} /\ GuardDuration \in Nat \ {0} /\ LeaseDuration \in Nat \ {0}
  BY DurationAssumption DEF Shapes
<1>3. m.stamp \in Nat /\ m.stamp > lease[h].receivedSequence[g]
  BY DEF Shapes, PacketShape, LeaseKind, Admissible
<1>4. m.stamp <= lease[g].sentSequence[h] BY DEF References
<1>5. /\ m.epoch = lease[g].promisedBy
      /\ now + LeaseDuration <= lease[g].latestReplies[h]
  BY AdmissibleBinds
<1>6. ASSUME NEW a \in lease'[h].ackTimes[g]
      PROVE  \/ a \in lease[h].ackTimes[g]
             \/ a.stamp = m.stamp /\ a.at = now
  BY <1>6
<1>7. Horizons(g, h)' BY <1>1, <1>2, <1>3, <1>6, PairTypes DEF Horizons
<1>8. Acknowledged(g, h)' BY <1>1, <1>2, <1>3, <1>6, PairTypes DEF Acknowledged
<1>9. \A x \in msgs : x.kind = "LeasePromise" =>
          x.stamp \in Nat /\ x.ack \in Int /\ x.elapsed \in Int
  BY DEF Shapes, PacketShape, LeaseKind
<1>10. References(g, h)'
  <2> SUFFICES ASSUME NEW x \in msgs'
               PROVE  /\ x.kind = "GuardAck" /\ x.from = h /\ x.to = g
                            => x.stamp <= lease[h].receivedGuard[g]
                      /\ x.kind = "LeasePromise" /\ x.from = g /\ x.to = h =>
                            /\ x.stamp <= lease[g].sentSequence[h]
                            /\ -x.ack <= lease[h].receivedGuard[g] /\ x.ack <= m.stamp
    BY DEF References
  <2>1. x.kind = "GuardAck" /\ x.from = h /\ x.to = g => x.stamp <= lease[h].receivedGuard[g]
    BY DEF Old, References
  <2>2. ASSUME x.kind = "LeasePromise", x.from = g, x.to = h
        PROVE  /\ x.stamp <= lease[g].sentSequence[h]
               /\ -x.ack <= lease[h].receivedGuard[g] /\ x.ack <= m.stamp
    <3>1. x \in msgs BY <2>2 DEF Old
    <3>2. x.ack <= lease[h].receivedSequence[g] /\ x.ack \in Int
      BY <1>9, <2>2, <3>1 DEF References
    <3>3. x.ack <= m.stamp BY <1>1, <1>3, <3>2, PairTypes
    <3> QED BY <2>2, <3>1, <3>3 DEF References
  <2> QED BY <2>1, <2>2
<1>11. UnderWay(g, h)'
  <2> SUFFICES ASSUME NEW x \in msgs', x.kind = "LeasePromise", x.from = g, x.to = h,
                      x.stamp > m.stamp
               PROVE  /\ x.ack < 0 /\ x.ack = -lease[h].receivedGuard[g]
                            => Binding(g, h, x, lease[h].guardExpires[g])'
                      /\ \A a \in lease'[h].ackTimes[g] :
                            x.ack = a.stamp => Binding(g, h, x, a.at + x.elapsed + GuardDuration)'
    BY DEF UnderWay, Binding
  <2>1. x \in msgs BY DEF Old
  <2>2. x.stamp \in Nat /\ x.ack \in Int BY <1>9, <2>1
  <2>3. x.stamp > lease[h].receivedSequence[g] BY <1>1, <1>3, <2>2, PairTypes
  <2>4. x.ack <= lease[h].receivedSequence[g] BY <2>1 DEF References
  <2>5. x.ack # m.stamp BY <1>1, <1>3, <2>2, <2>4, PairTypes
  <2>6. \A end : Binding(g, h, x, end) => Binding(g, h, x, end)' BY DEF Binding
  <2>7. x.ack < 0 /\ x.ack = -lease[h].receivedGuard[g]
           => Binding(g, h, x, lease[h].guardExpires[g])'
    BY <2>1, <2>3, <2>6 DEF UnderWay
  <2>8. ASSUME NEW a \in lease'[h].ackTimes[g], x.ack = a.stamp
        PROVE  Binding(g, h, x, a.at + x.elapsed + GuardDuration)'
    <3>1. a \in lease[h].ackTimes[g] BY <1>6, <2>5, <2>8
    <3>2. Binding(g, h, x, a.at + x.elapsed + GuardDuration)
      BY <2>1, <2>3, <2>8, <3>1 DEF UnderWay
    <3> QED BY <2>6, <3>2
  <2> QED BY <2>7, <2>8
<1>12. Answered(g, h)'
  <2> SUFFICES ASSUME NEW x \in msgs', x.kind = "LeaseReply", x.from = h, x.to = g
               PROVE  /\ x.stamp <= lease[g].sentSequence[h]
                      /\ /\ x.stamp = lease[g].sentSequence[h] /\ x.epoch = lease[g].promisedBy
                         /\ now < lease[g].latestReplies[h]
                         => x.stamp <= m.stamp
    BY DEF Answered
  <2>1. CASE x \in msgs
    <3>1. x.stamp \in Nat BY <2>1 DEF Shapes, PacketShape, LeaseKind
    <3> QED BY <1>1, <1>3, <2>1, <3>1, PairTypes DEF Answered
  <2>2. CASE x.stamp = m.stamp BY <1>3, <1>4, <2>2
  <2> QED BY <2>1, <2>2
<1>13. Bound(g, h)' BY <1>5 DEF Bound
<1> QED BY <1>7, <1>8, <1>10, <1>11, <1>12, <1>13

\* h refuses a promise of an era it left and says so: g does not count that
\* answer, as it is not in the answer's era.
LEMMA PairRefuse ==
    ASSUME NEW g \in Replica, NEW h \in Replica, Shapes, LeasePair(g, h),
           lease'[g] = lease[g], lease'[h] = lease[h], now' = now,
           NEW m \in msgs, m.kind = "LeasePromise", m.from = g, m.to = h,
           Admissible(lease[h], m, now), m.epoch < lease[h].promisedTo,
           Old("LeasePromise", g, h), Old("GuardAck", h, g),
           \A x \in msgs' : x.kind = "LeaseReply" /\ x.from = h /\ x.to = g =>
              x \in msgs \/ (x.stamp = m.stamp /\ x.epoch = lease[h].promisedTo)
    PROVE  LeasePair(g, h)'
<1> USE DEF LeasePair
<1>1. PairShape(g, h) BY DEF Shapes, PairShape
<1>2. m.epoch \in Int BY DEF Shapes, PacketShape, LeaseKind
<1>3. m.epoch = lease[g].promisedBy BY AdmissibleBinds
<1>4. m.stamp <= lease[g].sentSequence[h] BY DEF References
<1>5. Answered(g, h)' BY <1>1, <1>2, <1>3, <1>4, PairTypes DEF Answered
<1>6. Horizons(g, h)' /\ Acknowledged(g, h)' /\ Bound(g, h)'
  BY DEF Horizons, Acknowledged, Bound
<1>7. References(g, h)' BY DEF References, Old
<1>8. UnderWay(g, h)' BY DEF UnderWay, Old, Binding
<1> QED BY <1>5, <1>6, <1>7, <1>8

-----------------------------------------------------------------------------
(***************************************************************************)
(* Every step keeps the invariant.                                         *)
(***************************************************************************)
LEMMA InvQuiet == ASSUME LeaseInv, Quiet, Epochs' PROVE LeaseInv'
<1>1. UNCHANGED <<lease, now, world>> /\ \A m \in msgs' : m.kind \in LeaseKind => m \in msgs
  BY DEF Quiet, Adds
<1>2. Shapes' BY <1>1 DEF LeaseInv, Shapes, PacketShape
<1>3. \A kind \in LeaseKind : \A a, b : Old(kind, a, b) BY <1>1 DEF Old
<1>4. ASSUME NEW g \in Replica, NEW h \in Replica PROVE LeasePair(g, h)'
  <2>1. SameGrant(g, h) /\ SameHold(g, h) BY <1>1 DEF SameGrant, SameHold
  <2>2. Old("GuardAck", h, g) /\ Old("LeasePromise", g, h) /\ Old("LeaseReply", h, g)
    BY <1>3 DEF LeaseKind
  <2> QED BY <1>1, <2>1, <2>2, PairSame DEF LeaseInv
<1> QED BY <1>2, <1>4 DEF LeaseInv

LEMMA InvElapse == ASSUME LeaseInv, Elapse PROVE LeaseInv'
<1>1. UNCHANGED <<core, lease, world, msgs>> /\ now' = now + 1 BY DEF Elapse
<1>2. Shapes' BY <1>1 DEF LeaseInv, Shapes, Epochs
<1>3. ASSUME NEW g \in Replica, NEW h \in Replica PROVE LeasePair(g, h)'
  <2>1. SameGrant(g, h) /\ SameHold(g, h) BY <1>1 DEF SameGrant, SameHold
  <2>2. Old("GuardAck", h, g) /\ Old("LeasePromise", g, h) /\ Old("LeaseReply", h, g)
    BY <1>1 DEF Old
  <2> QED BY <1>1, <2>1, <2>2, PairSame DEF LeaseInv
<1> QED BY <1>2, <1>3 DEF LeaseInv

\* Only the leases of i change, and the new lease packets are those of M.
Writes(i, d, M) ==
    /\ lease' = [lease EXCEPT ![i] = d] /\ UNCHANGED <<now, world>> /\ Adds(M)

LEMMA WriteShapes ==
    ASSUME Shapes, Epochs', NEW i \in Replica, NEW d, LeaseShape(d), NEW M, Writes(i, d, M),
           \A m \in M : PacketShape(m)
    PROVE  /\ Shapes'
           /\ lease'[i] = d /\ \A j \in Replica \ {i} : lease'[j] = lease[j]
           /\ \A kind \in LeaseKind : \A a, b :
                 (\A m \in M : ~(m.kind = kind /\ m.from = a /\ m.to = b)) => Old(kind, a, b)
<1>1. /\ UNCHANGED <<now, world>> /\ lease' = [lease EXCEPT ![i] = d]
      /\ \A m \in msgs' : m.kind \in LeaseKind => m \in msgs \cup M
  BY DEF Writes, Adds
<1>2. lease'[i] = d /\ DOMAIN lease' = Replica /\ \A j \in Replica \ {i} : lease'[j] = lease[j]
  BY <1>1 DEF Shapes
<1>3. \A j \in Replica : LeaseShape(lease'[j]) BY <1>2 DEF Shapes
<1>4. \A m \in msgs' : PacketShape(m) BY <1>1 DEF Shapes, PacketShape
<1>5. Shapes' BY <1>1, <1>2, <1>3, <1>4 DEF Shapes
<1>6. \A kind \in LeaseKind : \A a, b :
         (\A m \in M : ~(m.kind = kind /\ m.from = a /\ m.to = b)) => Old(kind, a, b)
  BY <1>1 DEF Old
<1> QED BY <1>2, <1>5, <1>6

LEMMA InvReceiveReply ==
    ASSUME LeaseInv, NEW m \in msgs, ReceiveLeaseReply(m.to, m)
    PROVE  LeaseInv'
<1> DEFINE i == m.to
           d == OnReply(lease[i], m, now)
<1>1. /\ m.kind = "LeaseReply" /\ Answers(lease[i], m, now)
      /\ lease' = [lease EXCEPT ![i] = d] /\ UNCHANGED <<core, now, world, msgs>>
  BY DEF ReceiveLeaseReply, Keeps
<1>2. Shapes /\ \A g, h \in Replica : LeasePair(g, h) BY DEF LeaseInv
<1>3. m.from \in Replica /\ i \in Replica /\ m.stamp \in Nat /\ now \in Int /\ LeaseShape(lease[i])
  BY <1>1, <1>2 DEF Shapes, PacketShape, LeaseKind
<1> DEFINE l == lease[i]
<1>4. /\ LeaseShape(d) /\ SameHolder(l, d)
      /\ d.promisedBy = l.promisedBy /\ d.sentSequence = l.sentSequence
      /\ d.ackSequence[m.from] = m.stamp /\ d.lastAckTime[m.from] = now
      /\ d.latestReplies[m.from] <= l.latestReplies[m.from]
      /\ d.latestReplies[m.from] \in {l.latestReplies[m.from], now + LeaseDuration}
      /\ \A p \in Replica \ {m.from} :
            /\ d.ackSequence[p] = l.ackSequence[p] /\ d.lastAckTime[p] = l.lastAckTime[p]
            /\ d.latestReplies[p] = l.latestReplies[p]
  BY <1>3, ReplyFields
<1> HIDE DEF d
<1>5. Writes(i, d, {}) /\ Epochs' BY <1>1, <1>2 DEF Writes, Adds, Shapes, Epochs
<1>6. /\ Shapes' /\ lease'[i] = d /\ \A j \in Replica \ {i} : lease'[j] = lease[j]
  BY <1>2, <1>3, <1>4, <1>5, WriteShapes
<1>7. \A j \in Replica : SameHolder(lease[j], lease'[j])
  BY <1>4, <1>6 DEF SameHolder
<1>8. \A kind, a, b : Old(kind, a, b) BY <1>1 DEF Old
<1>9. ASSUME NEW g \in Replica, NEW h \in Replica PROVE LeasePair(g, h)'
  <2>1. CASE g = i /\ h = m.from
    <3>1. /\ m.epoch = lease[g].promisedBy /\ m.stamp = lease[g].sentSequence[h]
          /\ now < lease[g].latestReplies[h]
      BY <1>1, <2>1 DEF Answers
    <3>2. /\ SameHold(g, h) /\ lease'[h].latestPromises[g] = lease[h].latestPromises[g]
          /\ lease'[h].promisedTo = lease[h].promisedTo
      BY <1>7 DEF SameHolder, SameHold
    <3>3. /\ lease'[g].promisedBy = lease[g].promisedBy
          /\ lease'[g].sentSequence[h] = lease[g].sentSequence[h]
          /\ lease'[g].ackSequence[h] = m.stamp /\ lease'[g].lastAckTime[h] = now
          /\ lease'[g].latestReplies[h] <= lease[g].latestReplies[h]
          /\ lease'[g].latestReplies[h] \in {lease[g].latestReplies[h], now + LeaseDuration}
      BY <1>4, <1>6, <2>1
    <3> QED BY <1>1, <1>2, <2>1, <3>1, <3>2, <3>3, PairReply
  <2>2. CASE ~(g = i /\ h = m.from)
    <3>1. SameGrant(g, h)
      <4>1. CASE g = i BY <1>4, <1>6, <2>2, <4>1 DEF SameGrant
      <4>2. CASE g # i BY <1>6, <4>2 DEF SameGrant
      <4> QED BY <4>1, <4>2
    <3>2. /\ SameHold(g, h) /\ lease'[h].latestPromises[g] = lease[h].latestPromises[g]
          /\ lease'[h].promisedTo = lease[h].promisedTo
      BY <1>7 DEF SameHolder, SameHold
    <3> QED BY <1>1, <1>2, <1>8, <3>1, <3>2, PairSame
  <2> QED BY <2>1, <2>2
<1> QED BY <1>6, <1>9 DEF LeaseInv

LEMMA InvReceiveGuard ==
    ASSUME LeaseInv, NEW m \in msgs, ReceiveGuard(m.to, m)
    PROVE  LeaseInv'
<1> DEFINE i == m.to
           l == lease[i]
           d == OnGuard(l, m, now)
           k == [kind |-> "GuardAck", from |-> i, to |-> m.from, epoch |-> m.epoch,
                 stamp |-> m.stamp]
<1>1. /\ m.kind = "Guard" /\ m.stamp > l.receivedGuard[m.from]
      /\ lease' = [lease EXCEPT ![i] = d] /\ UNCHANGED <<core, now, world>> /\ Send({k})
  BY DEF ReceiveGuard, Keeps
<1>2. Shapes /\ \A g, h \in Replica : LeasePair(g, h) BY DEF LeaseInv
<1>3. m.from \in Replica /\ i \in Replica /\ m.stamp \in Nat /\ now \in Int /\ LeaseShape(l)
  BY <1>1, <1>2 DEF Shapes, PacketShape, LeaseKind
<1>4. /\ LeaseShape(d) /\ SameGrantor(l, d)
      /\ d.promisedTo = l.promisedTo /\ d.receivedSequence = l.receivedSequence
      /\ d.latestPromises = l.latestPromises /\ d.ackTimes = l.ackTimes
      /\ \A p \in Replica :
            /\ d.receivedGuard[p] = IF p = m.from THEN m.stamp ELSE l.receivedGuard[p]
            /\ d.guardExpires[p] = IF p = m.from THEN now + GuardDuration ELSE l.guardExpires[p]
  BY <1>3, GuardFields
<1> HIDE DEF d
<1>5. Writes(i, d, {k}) /\ Epochs' BY <1>1, <1>2 DEF Writes, Adds, Send, Shapes, Epochs
<1>6. k.kind = "GuardAck" /\ k.from = i /\ k.to = m.from /\ k.stamp = m.stamp OBVIOUS
<1> HIDE DEF k
<1>7. \A x \in {k} : PacketShape(x) BY <1>3, <1>6 DEF PacketShape
<1>8. /\ Shapes' /\ lease'[i] = d /\ \A j \in Replica \ {i} : lease'[j] = lease[j]
      /\ \A kind \in LeaseKind : \A a, b :
            ~(k.kind = kind /\ k.from = a /\ k.to = b) => Old(kind, a, b)
  BY <1>2, <1>3, <1>4, <1>5, <1>7, WriteShapes
<1>9. \A a, b : /\ Old("LeasePromise", a, b) /\ Old("LeaseReply", a, b)
                /\ a # i \/ b # m.from => Old("GuardAck", a, b)
  BY <1>6, <1>8 DEF LeaseKind
<1>10. \A j \in Replica : SameGrantor(lease[j], lease'[j]) BY <1>4, <1>8 DEF SameGrantor
<1>11. ASSUME NEW g \in Replica, NEW h \in Replica PROVE LeasePair(g, h)'
  <2>1. SameGrant(g, h) BY <1>10 DEF SameGrantor, SameGrant
  <2>2. CASE h = i /\ g = m.from
    <3>1. \A x \in msgs' : x.kind = "GuardAck" /\ x.from = h /\ x.to = g =>
             x \in msgs \/ x.stamp = m.stamp
      BY <1>5, <1>6 DEF Writes, Adds, LeaseKind
    <3>2. /\ lease'[h].latestPromises[g] = lease[h].latestPromises[g]
          /\ lease'[h].promisedTo = lease[h].promisedTo
          /\ lease'[h].receivedSequence[g] = lease[h].receivedSequence[g]
          /\ lease'[h].ackTimes[g] = lease[h].ackTimes[g]
          /\ lease'[h].receivedGuard[g] = m.stamp
          /\ lease'[h].guardExpires[g] = now + GuardDuration
      BY <1>4, <1>8, <2>2
    <3>3. m.stamp > lease[h].receivedGuard[g] /\ m.stamp \in Nat BY <1>1, <1>3, <2>2
    <3> QED BY <1>1, <1>2, <1>9, <2>1, <3>1, <3>2, <3>3, PairGuard
  <2>3. CASE ~(h = i /\ g = m.from)
    <3>1. /\ SameHold(g, h) /\ lease'[h].latestPromises[g] = lease[h].latestPromises[g]
          /\ lease'[h].promisedTo = lease[h].promisedTo
      <4>1. CASE h = i BY <1>4, <1>8, <2>3, <4>1 DEF SameHold
      <4>2. CASE h # i BY <1>8, <4>2 DEF SameHold
      <4> QED BY <4>1, <4>2
    <3>2. Old("GuardAck", h, g) /\ Old("LeasePromise", g, h) /\ Old("LeaseReply", h, g)
      BY <1>9, <2>3
    <3> QED BY <1>1, <1>2, <2>1, <3>1, <3>2, PairSame
  <2> QED BY <2>2, <2>3
<1> QED BY <1>8, <1>11 DEF LeaseInv

LEMMA InvReceiveGuardAck ==
    ASSUME LeaseInv, NEW m \in msgs, ReceiveGuardAck(m.to, m)
    PROVE  LeaseInv'
<1> DEFINE i == m.to
           l == lease[i]
           d == OnGuardAck(l, m, now)
           k == Promise(l, i, m.from, now, core[i].high, TRUE)
<1>1. /\ m.kind = "GuardAck" /\ m.stamp = l.guardSequence[m.from]
      /\ lease' = [lease EXCEPT ![i] = d] /\ UNCHANGED <<core, now, world>> /\ Send({k})
  BY DEF ReceiveGuardAck, Keeps, GuardAcked
<1>2. Shapes /\ \A g, h \in Replica : LeasePair(g, h) BY DEF LeaseInv
<1>3. m.from \in Replica /\ i \in Replica /\ m.stamp \in Nat /\ now \in Int /\ LeaseShape(l)
  BY <1>1, <1>2 DEF Shapes, PacketShape, LeaseKind
<1>4. /\ LeaseShape(d) /\ SameHolder(l, d)
      /\ d.promisedBy = l.promisedBy /\ d.ackSequence = l.ackSequence
      /\ d.lastAckTime = l.lastAckTime
      /\ \A p \in Replica :
            /\ d.sentSequence[p] = IF p = m.from THEN l.sentSequence[p] + 1 ELSE l.sentSequence[p]
            /\ d.latestReplies[p] = IF p = m.from THEN now + GuardDuration + LeaseDuration
                                    ELSE l.latestReplies[p]
  BY <1>3, GuardAckFields
<1> HIDE DEF d
<1>5. Writes(i, d, {k}) /\ Epochs' BY <1>1, <1>2 DEF Writes, Adds, Send, Shapes, Epochs
<1>6. /\ k.kind = "LeasePromise" /\ k.from = i /\ k.to = m.from /\ k.epoch = l.promisedBy
      /\ k.stamp = l.sentSequence[m.from] + 1 /\ k.ack = -l.guardSequence[m.from] /\ k.elapsed = 0
  BY DEF Promise
<1> HIDE DEF k
<1>7. \A x \in {k} : PacketShape(x) BY <1>3, <1>6 DEF PacketShape, LeaseShape
<1>8. /\ Shapes' /\ lease'[i] = d /\ \A j \in Replica \ {i} : lease'[j] = lease[j]
      /\ \A kind \in LeaseKind : \A a, b :
            ~(k.kind = kind /\ k.from = a /\ k.to = b) => Old(kind, a, b)
  BY <1>2, <1>3, <1>4, <1>5, <1>7, WriteShapes
<1>9. \A a, b : /\ Old("GuardAck", a, b) /\ Old("LeaseReply", a, b)
                /\ a # i \/ b # m.from => Old("LeasePromise", a, b)
  BY <1>6, <1>8 DEF LeaseKind
<1>10. \A j \in Replica : SameHolder(lease[j], lease'[j]) BY <1>4, <1>8 DEF SameHolder
<1>11. ASSUME NEW g \in Replica, NEW h \in Replica PROVE LeasePair(g, h)'
  <2>1. /\ SameHold(g, h) /\ lease'[h].latestPromises[g] = lease[h].latestPromises[g]
        /\ lease'[h].promisedTo = lease[h].promisedTo
    BY <1>10 DEF SameHolder, SameHold
  <2>2. CASE g = i /\ h = m.from
    <3>1. m.stamp <= lease[h].receivedGuard[g]
      BY <1>1, <1>2, <2>2 DEF LeasePair, References
    <3>2. k.ack <= 0 /\ -k.ack <= lease[h].receivedGuard[g]
      <4>1. k.ack = -m.stamp BY <1>1, <1>6
      <4> QED BY <1>3, <3>1, <4>1
    <3>3. \A x \in msgs' : x.kind = "LeasePromise" /\ x.from = g /\ x.to = h =>
             \/ x \in msgs
             \/ /\ x.stamp = lease[g].sentSequence[h] + 1 /\ x.epoch = lease[g].promisedBy
                /\ \/ /\ x.ack = lease[g].ackSequence[h]
                      /\ x.elapsed = now - lease[g].lastAckTime[h]
                   \/ x.ack <= 0 /\ -x.ack <= lease[h].receivedGuard[g]
      BY <1>5, <1>6, <2>2, <3>2 DEF Writes, Adds, LeaseKind
    <3>4. /\ lease'[g].promisedBy = lease[g].promisedBy
          /\ lease'[g].ackSequence[h] = lease[g].ackSequence[h]
          /\ lease'[g].lastAckTime[h] = lease[g].lastAckTime[h]
          /\ lease'[g].sentSequence[h] = lease[g].sentSequence[h] + 1
          /\ lease'[g].latestReplies[h] = now + GuardDuration + LeaseDuration
      BY <1>4, <1>8, <2>2
    <3> QED BY <1>1, <1>2, <1>8, <1>9, <2>1, <3>3, <3>4, PairSend
  <2>3. CASE ~(g = i /\ h = m.from)
    <3>1. SameGrant(g, h)
      <4>1. CASE g = i BY <1>4, <1>8, <2>3, <4>1 DEF SameGrant
      <4>2. CASE g # i BY <1>8, <4>2 DEF SameGrant
      <4> QED BY <4>1, <4>2
    <3>2. Old("GuardAck", h, g) /\ Old("LeasePromise", g, h) /\ Old("LeaseReply", h, g)
      BY <1>9, <2>3
    <3> QED BY <1>1, <1>2, <2>1, <3>1, <3>2, PairSame
  <2> QED BY <2>2, <2>3
<1> QED BY <1>8, <1>11 DEF LeaseInv

LEMMA InvReceivePromise ==
    ASSUME LeaseInv, NEW m \in msgs, ReceiveLeasePromise(m.to, m)
    PROVE  LeaseInv'
<1> DEFINE i == m.to
           l == lease[i]
           d == OnPromise(l, m, now)
           k == [kind |-> "LeaseReply", from |-> i, to |-> m.from, epoch |-> d.promisedTo,
                 stamp |-> m.stamp]
<1>1. /\ m.kind = "LeasePromise" /\ Admissible(l, m, now)
      /\ lease' = [lease EXCEPT ![i] = d] /\ UNCHANGED <<core, now, world>> /\ Send({k})
  BY DEF ReceiveLeasePromise, Keeps
<1>2. Shapes /\ \A g, h \in Replica : LeasePair(g, h) BY DEF LeaseInv
<1>3. /\ m.from \in Replica /\ i \in Replica /\ m.stamp \in Nat /\ now \in Int
      /\ m.epoch \in Int /\ LeaseShape(l)
  BY <1>1, <1>2 DEF Shapes, PacketShape, LeaseKind
<1>4. m.stamp \in Nat \ {0} BY <1>1, <1>3 DEF Admissible, LeaseShape
<1>5. k.kind = "LeaseReply" /\ k.from = i /\ k.to = m.from /\ k.epoch = d.promisedTo
      /\ k.stamp = m.stamp
  OBVIOUS
<1>6. Writes(i, d, {k}) /\ Epochs' BY <1>1, <1>2 DEF Writes, Adds, Send, Shapes, Epochs
<1> HIDE DEF k
<1>7. \A x \in msgs' : x.kind = "LeaseReply" => x \in msgs \/ x = k
  BY <1>6 DEF Writes, Adds, LeaseKind
<1>8. CASE m.epoch < l.promisedTo
  <2>1. d = l BY <1>8 DEF OnPromise
  <2> HIDE DEF d
  <2>2. \A j \in Replica : lease'[j] = lease[j] BY <1>1, <1>2, <2>1 DEF Shapes
  <2>3. \A x \in {k} : PacketShape(x) BY <1>3, <1>5, <2>1 DEF PacketShape, LeaseShape
  <2>4. /\ Shapes'
        /\ \A kind \in LeaseKind : \A a, b :
              ~(k.kind = kind /\ k.from = a /\ k.to = b) => Old(kind, a, b)
    BY <1>2, <1>3, <1>6, <2>1, <2>3, WriteShapes
  <2>5. \A a, b : /\ Old("GuardAck", a, b) /\ Old("LeasePromise", a, b)
                  /\ a # i \/ b # m.from => Old("LeaseReply", a, b)
    BY <1>5, <2>4 DEF LeaseKind
  <2>6. ASSUME NEW g \in Replica, NEW h \in Replica PROVE LeasePair(g, h)'
    <3>1. CASE h = i /\ g = m.from
      <4>1. \A x \in msgs' : x.kind = "LeaseReply" /\ x.from = h /\ x.to = g =>
               x \in msgs \/ (x.stamp = m.stamp /\ x.epoch = lease[h].promisedTo)
        BY <1>5, <1>7, <2>1, <3>1
      <4>2. LeasePair(g, h) BY <1>2
      <4>3. Admissible(lease[h], m, now) /\ m.epoch < lease[h].promisedTo
        BY <1>1, <1>8, <3>1
      <4> QED BY <1>1, <1>2, <2>2, <2>5, <3>1, <4>1, <4>2, <4>3, PairRefuse
    <3>2. CASE ~(h = i /\ g = m.from)
      <4>1. SameGrant(g, h) /\ SameHold(g, h) BY <2>2 DEF SameGrant, SameHold
      <4>2. Old("GuardAck", h, g) /\ Old("LeasePromise", g, h) /\ Old("LeaseReply", h, g)
        BY <2>5, <3>2
      <4> QED BY <1>1, <1>2, <2>2, <4>1, <4>2, PairSame
    <3> QED BY <3>1, <3>2
  <2> QED BY <2>4, <2>6 DEF LeaseInv
<1>9. CASE m.epoch >= l.promisedTo
  <2>1. /\ LeaseShape(d) /\ SameGrantor(l, d) /\ d.promisedTo = m.epoch
        /\ d.receivedGuard = l.receivedGuard /\ d.guardExpires = l.guardExpires
        /\ \A p \in Replica :
              /\ d.receivedSequence[p] = IF p = m.from THEN m.stamp ELSE l.receivedSequence[p]
              /\ d.ackTimes[p] \subseteq IF p = m.from
                    THEN l.ackTimes[p] \cup {[stamp |-> m.stamp, at |-> now]} ELSE l.ackTimes[p]
              /\ d.latestPromises[p] = IF p = m.from THEN now + LeaseDuration
                    ELSE IF m.epoch > l.promisedTo THEN 0 ELSE l.latestPromises[p]
    BY <1>3, <1>4, <1>9, PromiseFields
  <2>2. \A p \in Replica \ {m.from} : d.ackTimes[p] = l.ackTimes[p]
    BY <1>3, <1>4, <1>9, PromiseFields
  <2> HIDE DEF d
  <2>3. \A x \in {k} : PacketShape(x) BY <1>3, <1>5, <2>1 DEF PacketShape, LeaseShape
  <2>4. /\ Shapes' /\ lease'[i] = d /\ \A j \in Replica \ {i} : lease'[j] = lease[j]
        /\ \A kind \in LeaseKind : \A a, b :
              ~(k.kind = kind /\ k.from = a /\ k.to = b) => Old(kind, a, b)
    BY <1>2, <1>3, <1>6, <2>1, <2>3, WriteShapes
  <2>5. \A a, b : /\ Old("GuardAck", a, b) /\ Old("LeasePromise", a, b)
                  /\ a # i \/ b # m.from => Old("LeaseReply", a, b)
    BY <1>5, <2>4 DEF LeaseKind
  <2>6. \A j \in Replica : SameGrantor(lease[j], lease'[j]) BY <2>1, <2>4 DEF SameGrantor
  <2>7. ASSUME NEW g \in Replica, NEW h \in Replica PROVE LeasePair(g, h)'
    <3>1. SameGrant(g, h) BY <2>6 DEF SameGrantor, SameGrant
    <3>2. CASE h = i /\ g = m.from
      <4>1. \A x \in msgs' : x.kind = "LeaseReply" /\ x.from = h /\ x.to = g =>
               x \in msgs \/ x.stamp = m.stamp
        BY <1>5, <1>7
      <4>2. LeasePair(g, h) /\ Admissible(lease[h], m, now) BY <1>1, <1>2, <3>2
      <4>3. /\ lease'[h].receivedGuard[g] = lease[h].receivedGuard[g]
            /\ lease'[h].guardExpires[g] = lease[h].guardExpires[g]
            /\ lease'[h].promisedTo = m.epoch
            /\ lease'[h].receivedSequence[g] = m.stamp
            /\ lease'[h].latestPromises[g] = now + LeaseDuration
            /\ lease'[h].ackTimes[g] \subseteq
                  lease[h].ackTimes[g] \cup {[stamp |-> m.stamp, at |-> now]}
        BY <2>1, <2>4, <3>2
      <4> QED BY <1>1, <1>2, <2>5, <3>1, <3>2, <4>1, <4>2, <4>3, PairTake
    <3>3. CASE ~(h = i /\ g = m.from)
      <4>1. Old("GuardAck", h, g) /\ Old("LeasePromise", g, h) /\ Old("LeaseReply", h, g)
        BY <2>5, <3>3
      <4>2. /\ SameHold(g, h)
            /\ \/ /\ lease'[h].latestPromises[g] = lease[h].latestPromises[g]
                  /\ lease'[h].promisedTo = lease[h].promisedTo
               \/ lease'[h].latestPromises[g] = 0
        <5>1. CASE h # i BY <2>4, <5>1 DEF SameHold
        <5>2. CASE h = i /\ g # m.from
          <6>1. SameHold(g, h) BY <2>1, <2>2, <2>4, <5>2 DEF SameHold
          <6>2. CASE m.epoch > l.promisedTo BY <2>1, <2>4, <5>2, <6>1, <6>2
          <6>3. CASE m.epoch = l.promisedTo
            <7>1. ~(m.epoch > l.promisedTo) BY <1>3, <6>3 DEF LeaseShape
            <7> QED BY <2>1, <2>4, <5>2, <6>1, <6>3, <7>1
          <6>4. m.epoch > l.promisedTo \/ m.epoch = l.promisedTo BY <1>3, <1>9 DEF LeaseShape
          <6> QED BY <6>1, <6>2, <6>3, <6>4
        <5> QED BY <3>3, <5>1, <5>2
      <4> QED BY <1>1, <1>2, <3>1, <4>1, <4>2, PairSame
    <3> QED BY <3>2, <3>3
  <2> QED BY <2>4, <2>7 DEF LeaseInv
<1>10. m.epoch < l.promisedTo \/ m.epoch >= l.promisedTo BY <1>3 DEF LeaseShape
<1> QED BY <1>8, <1>9, <1>10

\* A tick: the era may end, grants are renewed and guards sent.
LEMMA InvTick ==
    ASSUME LeaseInv, NEW i \in Replica, NEW due, Ticks(i, due), Epochs'
    PROVE  LeaseInv'
<1> DEFINE l == lease[i]
           s == Switched(i)
           G == Grantees(i, due)
           r == Renewed(s, G, now)
           d == TickLease(s, G, now)
           guards == {[kind |-> "Guard", from |-> i, to |-> p, epoch |-> s.promisedBy,
                       stamp |-> s.guardSequence[p] + 1] : p \in G \ r}
           renewals == {Promise(s, i, p, now, core[i].high, FALSE) : p \in r}
           M == renewals \cup guards
<1>1. Shapes /\ \A g, h \in Replica : LeasePair(g, h) BY DEF LeaseInv
<1>2. now \in Nat \ {0} /\ now \in Int /\ LeaseShape(l) BY <1>1 DEF Shapes
<1>3. G \subseteq Replica
  <2>1. world.alive[i] \subseteq Replica BY <1>1, WorldAssumption DEF Shapes
  <2> QED BY <2>1 DEF Grantees
<1>4. \/ s = l
      \/ /\ s = SwitchEpoch(l, core[i].latestEpoch)
         /\ \A p \in Replica : now >= l.latestReplies[p]
  BY DEF Switched, Waits, CanWriteOutside
<1>5. core[i].latestEpoch \in Int BY <1>1 DEF Shapes, Epochs, HasEpoch
<1>6. /\ LeaseShape(s) /\ SameHolder(l, s) /\ s.sentSequence = l.sentSequence
      /\ \/ SameGrantor(l, s)
         \/ \A p \in Replica : /\ now >= l.latestReplies[p]
                               /\ s.latestReplies[p] = 0 /\ s.ackSequence[p] = 0
  <2>1. CASE s = l BY <1>2, <2>1 DEF SameHolder, SameGrantor
  <2>2. CASE /\ s = SwitchEpoch(l, core[i].latestEpoch)
             /\ \A p \in Replica : now >= l.latestReplies[p]
    <3> HIDE DEF s
    <3> QED BY <1>2, <1>5, <2>2, SwitchFields
  <2> QED BY <1>4, <2>1, <2>2
<1> HIDE DEF s, G
<1>7. /\ LeaseShape(d) /\ SameHolder(s, d)
      /\ d.promisedBy = s.promisedBy /\ d.ackSequence = s.ackSequence
      /\ d.lastAckTime = s.lastAckTime
      /\ \A p \in Replica :
            /\ d.sentSequence[p] = IF p \in r THEN s.sentSequence[p] + 1 ELSE s.sentSequence[p]
            /\ d.latestReplies[p] = IF p \in r THEN now + GuardDuration + LeaseDuration
                                    ELSE s.latestReplies[p]
  BY <1>2, <1>6, TickFields
<1>8. r \subseteq Replica /\ \A p \in r : s.ackSequence[p] > 0 BY <1>3 DEF Renewed
<1>9. Writes(i, d, M) BY Zenon DEF Ticks, Maintain, Grants, TickSends, Writes, s, G
<1> HIDE DEF d, r
<1>10. \A x \in renewals :
          /\ x.kind = "LeasePromise" /\ x.from = i /\ x.to \in r /\ x.epoch = s.promisedBy
          /\ x.stamp = s.sentSequence[x.to] + 1 /\ x.ack = s.ackSequence[x.to]
          /\ x.elapsed = now - s.lastAckTime[x.to]
  BY DEF Promise
<1>11. \A x \in guards :
          x.kind = "Guard" /\ x.from = i /\ x.to \in G /\ x.stamp = s.guardSequence[x.to] + 1
  OBVIOUS
<1> HIDE DEF renewals, guards
<1>12. \A x \in M : PacketShape(x)
  <2>1. \A x \in renewals : PacketShape(x)
    BY <1>2, <1>6, <1>8, <1>10 DEF PacketShape, LeaseShape
  <2>2. \A x \in guards : PacketShape(x)
    BY <1>3, <1>6, <1>11 DEF PacketShape, LeaseShape
  <2> QED BY <2>1, <2>2
<1>13. /\ Shapes' /\ lease'[i] = d /\ \A j \in Replica \ {i} : lease'[j] = lease[j]
       /\ \A kind \in LeaseKind : \A a, b :
             (\A x \in M : ~(x.kind = kind /\ x.from = a /\ x.to = b)) => Old(kind, a, b)
  <2> HIDE DEF M
  <2> QED BY <1>1, <1>7, <1>9, <1>12, WriteShapes
<1>14. \A a, b : /\ Old("GuardAck", a, b) /\ Old("LeaseReply", a, b)
                 /\ a # i \/ b \notin r => Old("LeasePromise", a, b)
  BY <1>10, <1>11, <1>13 DEF LeaseKind
<1>15. \A j \in Replica : SameHolder(lease[j], lease'[j])
  <2>1. SameHolder(l, d) BY <1>6, <1>7 DEF SameHolder
  <2> QED BY <1>13, <2>1 DEF SameHolder
<1>16. now' = now BY <1>9 DEF Writes
<1>17. ASSUME NEW g \in Replica, NEW h \in Replica PROVE LeasePair(g, h)'
  <2>1. /\ SameHold(g, h) /\ lease'[h].latestPromises[g] = lease[h].latestPromises[g]
        /\ lease'[h].promisedTo = lease[h].promisedTo
    BY <1>15 DEF SameHolder, SameHold
  <2>2. CASE g # i
    <3>1. SameGrant(g, h) BY <1>13, <2>2 DEF SameGrant
    <3>2. Old("GuardAck", h, g) /\ Old("LeasePromise", g, h) /\ Old("LeaseReply", h, g)
      BY <1>14, <2>2
    <3> QED BY <1>1, <1>16, <2>1, <3>1, <3>2, PairSame
  <2>3. CASE g = i /\ SameGrantor(l, s) /\ h \in r
    <3>1. /\ lease'[g].promisedBy = lease[g].promisedBy
          /\ lease'[g].ackSequence[h] = lease[g].ackSequence[h]
          /\ lease'[g].lastAckTime[h] = lease[g].lastAckTime[h]
          /\ lease'[g].sentSequence[h] = lease[g].sentSequence[h] + 1
          /\ lease'[g].latestReplies[h] = now + GuardDuration + LeaseDuration
      BY <1>7, <1>13, <2>3 DEF SameGrantor
    <3>2. \A x \in msgs' : x.kind = "LeasePromise" /\ x.from = g /\ x.to = h =>
             \/ x \in msgs
             \/ /\ x.stamp = lease[g].sentSequence[h] + 1 /\ x.epoch = lease[g].promisedBy
                /\ \/ /\ x.ack = lease[g].ackSequence[h]
                      /\ x.elapsed = now - lease[g].lastAckTime[h]
                   \/ x.ack <= 0 /\ -x.ack <= lease[h].receivedGuard[g]
      <4> TAKE x \in msgs'
      <4> HAVE x.kind = "LeasePromise" /\ x.from = g /\ x.to = h
      <4>1. x \in msgs \/ x \in renewals
        BY <1>9, <1>11 DEF Writes, Adds, LeaseKind
      <4> QED BY <1>10, <2>3, <4>1 DEF SameGrantor
    <3>3. Old("GuardAck", h, g) /\ Old("LeaseReply", h, g) BY <1>14
    <3> QED BY <1>1, <1>13, <1>16, <2>1, <3>1, <3>2, <3>3, PairSend
  <2>4. CASE g = i /\ SameGrantor(l, s) /\ h \notin r
    <3>1. SameGrant(g, h) BY <1>7, <1>13, <2>4 DEF SameGrantor, SameGrant
    <3>2. Old("GuardAck", h, g) /\ Old("LeasePromise", g, h) /\ Old("LeaseReply", h, g)
      BY <1>14, <2>4
    <3> QED BY <1>1, <1>16, <2>1, <3>1, <3>2, PairSame
  <2>5. CASE /\ g = i
             /\ \A p \in Replica : /\ now >= l.latestReplies[p]
                                   /\ s.latestReplies[p] = 0 /\ s.ackSequence[p] = 0
    <3>1. h \notin r BY <1>8, <2>5
    <3>2. Old("GuardAck", h, g) /\ Old("LeasePromise", g, h) /\ Old("LeaseReply", h, g)
      BY <1>14, <3>1
    <3>3. /\ lease'[g].ackSequence[h] = 0 /\ lease'[g].latestReplies[h] = 0
          /\ lease'[g].sentSequence[h] = lease[g].sentSequence[h]
      BY <1>6, <1>7, <1>13, <2>5, <3>1
    <3>4. lease[g].latestReplies[h] <= now BY <1>2, <2>5 DEF LeaseShape
    <3> QED BY <1>1, <1>16, <2>1, <3>2, <3>3, <3>4, PairSwitch
  <2> QED BY <1>6, <2>2, <2>3, <2>4, <2>5
<1> QED BY <1>13, <1>17 DEF LeaseInv

-----------------------------------------------------------------------------
LEMMA LeaseInit == Init => LeaseInv
<1> SUFFICES ASSUME Init PROVE LeaseInv OBVIOUS
<1>1. /\ core = [i \in Replica |-> NewCore] /\ lease = [i \in Replica |-> NewLease]
      /\ now = 1 /\ world \in World /\ msgs = {}
  BY DEF Init
<1>2. HasEpoch(NewCore) BY DEF HasEpoch, NewCore, Genesis
<1>3. Shapes BY <1>1, <1>2, NewLeaseShape DEF Shapes, Epochs
<1>4. ASSUME NEW g \in Replica, NEW h \in Replica PROVE LeasePair(g, h)
  <2>1. /\ lease[h].guardExpires[g] = 0 /\ lease[g].latestReplies[h] = 0
        /\ lease[h].latestPromises[g] = 0 /\ lease[h].ackTimes[g] = {}
        /\ lease[g].ackSequence[h] = 0 /\ lease[h].receivedSequence[g] = 0
    BY <1>1 DEF NewLease, ToAll
  <2>2. Horizons(g, h) BY <1>1, <2>1, DurationAssumption DEF Horizons
  <2>3. Acknowledged(g, h) BY <2>1 DEF Acknowledged
  <2>4. References(g, h) /\ UnderWay(g, h) /\ Answered(g, h)
    BY <1>1 DEF References, UnderWay, Answered
  <2>5. Bound(g, h) BY <1>1, <2>1 DEF Bound
  <2> QED BY <2>2, <2>3, <2>4, <2>5 DEF LeasePair
<1> QED BY <1>3, <1>4 DEF LeaseInv

LEMMA LeaseNext == LeaseInv /\ [Next]_vars => LeaseInv'
<1> SUFFICES ASSUME LeaseInv, [Next]_vars PROVE LeaseInv' OBVIOUS
<1>1. Epochs BY DEF LeaseInv, Shapes
<1>2. ASSUME NEW r \in Put, NEW i \in Replica, Propose(i, r) PROVE LeaseInv'
  BY <1>1, <1>2, QuietPropose, InvQuiet
<1>3. ASSUME NEW m \in msgs, Receive(m.to, m) PROVE LeaseInv'
  <2> DEFINE i == m.to
  <2>1. CASE \/ ReceivePrepare(i, m) \/ ReceivePromise(i, m) \/ ReceiveAccept(i, m)
             \/ ReceiveAck(i, m) \/ ReceiveCommit(i, m) \/ ReceiveReady(i, m)
             \/ ReceiveFetch(i, m) \/ ReceiveForward(i, m) \/ ReceiveForwardReply(i, m)
    BY <1>1, <2>1, QuietReceive, InvQuiet
  <2>2. CASE ReceiveGuard(i, m) BY <2>2, InvReceiveGuard
  <2>3. CASE ReceiveGuardAck(i, m) BY <2>3, InvReceiveGuardAck
  <2>4. CASE ReceiveLeasePromise(i, m) BY <2>4, InvReceivePromise
  <2>5. CASE ReceiveLeaseReply(i, m) BY <2>5, InvReceiveReply
  <2> QED BY <1>3, <2>1, <2>2, <2>3, <2>4, <2>5 DEF Receive
<1>4. ASSUME NEW i \in Replica, NEW due \in SUBSET world.timers[i],
             TickBegin(i, due) \/ TickFollow(i, due) \/ TickLead(i, due)
      PROVE  LeaseInv'
  BY <1>1, <1>4, TickEffect, InvTick
<1>5. ASSUME NEW i \in Replica, Learn(i) \/ \E ch \in proposed : Decide(i, ch) PROVE LeaseInv'
  BY <1>1, <1>5, QuietLearn, InvQuiet
<1>6. CASE Elapse BY <1>6, InvElapse
<1>7. CASE UNCHANGED vars
  BY <1>1, <1>7, InvQuiet DEF vars, Quiet, Adds, Epochs
<1> QED BY <1>2, <1>3, <1>4, <1>5, <1>6, <1>7 DEF Next

\* The inductive invariant of the leases: nothing a holder counts or may still
\* take outlasts its grantor's epoch and obligation.
THEOREM LeaseInvariant == Spec => []LeaseInv
<1>1. Init => LeaseInv BY LeaseInit
<1>2. LeaseInv /\ [Next]_vars => LeaseInv' BY LeaseNext
<1> QED BY <1>1, <1>2, PTL DEF Spec

\* lease.go: a grantor's obligation encloses the interval in which a holder
\* counts its promise, however late, often or out of order lease packets come
\* and whenever the era changes.
THEOREM LeasesEnclosed == Spec => []Enclosed
<1>1. LeaseInv => Enclosed
  <2> SUFFICES ASSUME LeaseInv, NEW h \in Replica, NEW g \in Live(lease[h], now)
               PROVE  /\ lease[g].promisedBy = lease[h].promisedTo
                      /\ now < lease[g].latestReplies[h]
    BY DEF Enclosed
  <2>1. g \in Replica /\ now < lease[h].latestPromises[g] BY DEF Live
  <2>2. Bound(g, h) /\ PairShape(g, h) /\ now \in Nat
    BY <2>1 DEF LeaseInv, LeasePair, Shapes, PairShape
  <2> QED BY <2>1, <2>2, PairTypes DEF Bound
<1> QED BY <1>1, LeaseInvariant, PTL
-----------------------------------------------------------------------------
(***************************************************************************)
(* Ballots, owners and quorums.                                            *)
(***************************************************************************)
\* The bounds are numbers.
LEMMA Bounds == /\ MaxSlot \in Nat /\ MaxBallot \in Nat /\ MaxEpoch \in Nat
                /\ MaxSequence \in Nat /\ MaxTime \in Nat
                /\ PageSize \in Nat \ {0} /\ AdmissionWindow \in Nat \ {0}
BY BoundAssumption

\* Half of N, rounded down.
LEMMA HalfOfN == \E k \in Nat : N = 2 * k + 1 /\ k >= 1 /\ N \div 2 = k /\ Quorum = k + 1
BY NAssumption DEF Quorum

\* Ballots are numbers.
LEMMA BallotNat == \A b \in Ballot : b \in Nat
BY Bounds DEF Ballot

\* A ballot has an owner.
LEMMA OwnerType == ASSUME NEW b \in Nat PROVE Owner(b) \in Replica
BY NAssumption DEF Owner, Replica

\* A finite set has a number of elements.
LEMMA CardNat == ASSUME NEW S, IsFiniteSet(S) PROVE Cardinality(S) \in Nat
BY FS_CardinalityType

\* There are N replicas.
LEMMA ReplicasFinite == IsFiniteSet(Replica) /\ Cardinality(Replica) = N
<1>1. Cardinality(0..(N - 1)) = (N - 1) - 0 + 1 BY FS_Interval, NAssumption
<1> QED BY <1>1, FS_Interval, NAssumption DEF Replica

\* Any two majorities share a replica.
LEMMA QuorumsMeet ==
    ASSUME NEW P \in Quorums, NEW Q \in Quorums
    PROVE  \E q \in P : q \in Q
<1>1. P \in SUBSET Replica /\ Q \in SUBSET Replica BY DEF Quorums
<1>2. IsFiniteSet(P) /\ IsFiniteSet(Q) BY <1>1, ReplicasFinite, FS_Subset
<1>3. Cardinality(P) \in Nat /\ Cardinality(Q) \in Nat BY <1>2, CardNat
<1>4. Cardinality(P) >= Quorum /\ Cardinality(Q) >= Quorum BY DEF Quorums
<1>5. Quorum \in Nat /\ 2 * Quorum > N BY HalfOfN
<1>6. Cardinality(P) + Cardinality(Q) > Cardinality(Replica)
  BY <1>3, <1>4, <1>5, ReplicasFinite, NAssumption
<1>7. P \cap Q # {} BY <1>1, <1>6, ReplicasFinite, FS_MajoritiesIntersect
<1> QED BY <1>7

\* One replica alone is no majority.
LEMMA NoLoneQuorum ==
    ASSUME NEW Q, NEW i, Q \subseteq {i} PROVE ~(Cardinality(Q) >= Quorum)
<1>1. Cardinality({i}) = 1 /\ IsFiniteSet({i}) BY FS_Singleton
<1>2. Cardinality(Q) <= 1 /\ Cardinality(Q) \in Nat BY <1>1, FS_Subset, CardNat
<1> QED BY <1>2, HalfOfN

-----------------------------------------------------------------------------
(***************************************************************************)
(* What exists.                                                            *)
(***************************************************************************)
\* The fields of core by their names,
LEMMA Views ==
    ASSUME NEW i \in Replica
    PROVE  /\ ballot[i] = core[i].ballot /\ leader[i] = core[i].leader
           /\ preparing[i] = core[i].preparing /\ executed[i] = core[i].executed
           /\ log[i] = Entries(core[i].log)
           /\ votes[i] = core[i].votes /\ promises[i] = core[i].promises
BY DEF ballot, leader, preparing, executed, log, votes, promises

\* in the next state too.
LEMMA ViewsNext ==
    ASSUME NEW i \in Replica
    PROVE  /\ ballot'[i] = core'[i].ballot /\ leader'[i] = core'[i].leader
           /\ preparing'[i] = core'[i].preparing /\ executed'[i] = core'[i].executed
           /\ log'[i] = Entries(core'[i].log)
           /\ votes'[i] = core'[i].votes /\ promises'[i] = core'[i].promises
BY DEF ballot, leader, preparing, executed, log, votes, promises

\* An entry of a log.
LEMMA InEntries ==
    ASSUME NEW L
    PROVE  \A x : x \in Entries(L) <=>
              x.slot \in Slot /\ L[x.slot].req # Hole /\ x = Entry(x.slot, L[x.slot])
<1> TAKE x
<1>1. ASSUME x \in Entries(L)
      PROVE  x.slot \in Slot /\ L[x.slot].req # Hole /\ x = Entry(x.slot, L[x.slot])
  <2>1. PICK s \in Slot : L[s].req # Hole /\ x = Entry(s, L[s]) BY <1>1 DEF Entries
  <2>2. x.slot = s BY <2>1 DEF Entry
  <2> QED BY <2>1, <2>2
<1>2. ASSUME x.slot \in Slot, L[x.slot].req # Hole, x = Entry(x.slot, L[x.slot])
      PROVE  x \in Entries(L)
  BY <1>2, Zenon DEF Entries
<1> QED BY <1>1, <1>2

\* The entry of a slot.
LEMMA EntryIn ==
    ASSUME NEW L, NEW s \in Slot, L[s].req # Hole
    PROVE  Entry(s, L[s]) \in Entries(L)
BY Zenon DEF Entries

\* The fields of an entry.
LEMMA EntryFields ==
    ASSUME NEW s, NEW r
    PROVE  /\ Entry(s, r).slot = s /\ Entry(s, r).req = r.req
           /\ Entry(s, r).ballot = r.ballot /\ Entry(s, r).committed = r.committed
BY DEF Entry

\* Entries have their type.
LEMMA EntryType ==
    ASSUME NEW s \in Slot, NEW r \in Record, r.req # Hole, r.ballot \in Ballot
    PROVE  Entry(s, r) \in Line
BY DEF Entry, Line, Record, Value

\* The entries of a log: one per slot, of the type of entries.
LEMMA EntriesType ==
    ASSUME NEW L \in [Slot -> Record], NEW h, NEW e, Ends(L, h, e)
    PROVE  /\ Entries(L) \subseteq Line
           /\ \A x, y \in Entries(L) : x.slot = y.slot => x = y
<1>1. ASSUME NEW x \in Entries(L) PROVE x \in Line
  <2>1. x.slot \in Slot /\ L[x.slot].req # Hole /\ x = Entry(x.slot, L[x.slot]) BY InEntries
  <2>2. L[x.slot] \in Record /\ L[x.slot].ballot \in Ballot BY <2>1 DEF Ends, Solid
  <2> QED BY <2>1, <2>2, EntryType
<1>2. ASSUME NEW x \in Entries(L), NEW y \in Entries(L), x.slot = y.slot PROVE x = y
  BY <1>2, InEntries
<1> QED BY <1>1, <1>2

\* What is known of one core,
LEMMA CoreType ==
    ASSUME Typed, NEW i \in Replica
    PROVE  /\ core[i] \in Core /\ GoodCore(core[i])
           /\ ballot[i] \in Ballot /\ ballot[i] \in Nat
           /\ log[i] \subseteq Line /\ \A x, y \in log[i] : x.slot = y.slot => x = y
<1>1. core[i] \in Core /\ GoodCore(core[i]) BY DEF Typed
<1>2. core[i].ballot \in Ballot /\ core[i].log \in [Slot -> Record]
  BY <1>1 DEF Core
<1>3. Ends(core[i].log, core[i].high, core[i].executed) BY <1>1 DEF GoodCore
<1>4. Entries(core[i].log) \subseteq Line /\ \A x, y \in Entries(core[i].log) : x.slot = y.slot => x = y
  BY <1>2, <1>3, EntriesType
<1> QED BY <1>1, <1>2, <1>4, Views, BallotNat

\* in the next state too,
LEMMA CoreTypeNext ==
    ASSUME Typed', NEW i \in Replica
    PROVE  /\ core'[i] \in Core /\ GoodCore(core'[i])
           /\ ballot'[i] \in Ballot /\ ballot'[i] \in Nat
           /\ log'[i] \subseteq Line /\ \A x, y \in log'[i] : x.slot = y.slot => x = y
<1>1. core'[i] \in Core /\ GoodCore(core'[i]) BY DEF Typed, GoodCore
<1>2. core'[i].ballot \in Ballot /\ core'[i].log \in [Slot -> Record]
  BY <1>1 DEF Core
<1>3. Ends(core'[i].log, core'[i].high, core'[i].executed) BY <1>1 DEF GoodCore
<1>4. /\ Entries(core'[i].log) \subseteq Line
      /\ \A x, y \in Entries(core'[i].log) : x.slot = y.slot => x = y
  BY <1>2, <1>3, EntriesType
<1> QED BY <1>1, <1>2, <1>4, ViewsNext, BallotNat

\* Promises are snapshots, and so are their entries entries,
LEMMA PromiseType ==
    ASSUME Typed, NEW p \in Promises
    PROVE  p \in Snapshots /\ Ends(p.recs, p.high, -1) /\ Entries(p.recs) \subseteq Line
<1>1. CASE p \in msgs /\ p.kind = "Promise"
  <2>1. Carries(p) BY <1>1 DEF Typed, GoodMessage
  <2>2. p \in Snapshots /\ Ends(p.recs, p.high, -1) BY <1>1, <2>1 DEF Carries
  <2>3. p.recs \in [Slot -> Record] BY <2>2 DEF Snapshots
  <2> QED BY <2>2, <2>3, EntriesType
<1>2. ASSUME NEW i \in Replica, p \in promises[i]
      PROVE  p \in Snapshots /\ Ends(p.recs, p.high, -1) /\ Entries(p.recs) \subseteq Line
  <2>1. p \in core[i].promises /\ core[i] \in Core /\ GoodCore(core[i])
    BY <1>2, Views, CoreType
  <2>2. p \in Snapshots BY <2>1 DEF Core
  <2>3. Ends(p.recs, p.high, -1) BY <2>1 DEF GoodCore
  <2>4. p.recs \in [Slot -> Record] BY <2>2 DEF Snapshots
  <2> QED BY <2>2, <2>3, <2>4, EntriesType
<1> QED BY <1>1, <1>2 DEF Promises

\* in the next state too.
LEMMA PromiseTypeNext ==
    ASSUME Typed', NEW p \in Promises'
    PROVE  p \in Snapshots /\ Ends(p.recs, p.high, -1) /\ Entries(p.recs) \subseteq Line
<1>1. CASE p \in msgs' /\ p.kind = "Promise"
  <2>1. Carries(p) BY <1>1 DEF Typed, GoodMessage
  <2>2. p \in Snapshots /\ Ends(p.recs, p.high, -1) BY <1>1, <2>1 DEF Carries
  <2>3. p.recs \in [Slot -> Record] BY <2>2 DEF Snapshots
  <2> QED BY <2>2, <2>3, EntriesType
<1>2. ASSUME NEW i \in Replica, p \in promises'[i]
      PROVE  p \in Snapshots /\ Ends(p.recs, p.high, -1) /\ Entries(p.recs) \subseteq Line
  <2>1. p \in core'[i].promises /\ core'[i] \in Core /\ GoodCore(core'[i])
    BY <1>2, ViewsNext, CoreTypeNext
  <2>2. p \in Snapshots BY <2>1 DEF Core
  <2>3. Ends(p.recs, p.high, -1) BY <2>1 DEF GoodCore
  <2>4. p.recs \in [Slot -> Record] BY <2>2 DEF Snapshots
  <2> QED BY <2>2, <2>3, <2>4, EntriesType
<1> QED BY <1>1, <1>2 DEF Promises

\* Where a known entry is,
LEMMA InKnown ==
    \A x : x \in Known <=>
        \/ \E i \in Replica : x \in log[i]
        \/ \E m \in msgs : m.kind \in {"Accept", "Commit"} /\ x = Entry(m.slot, m.rec)
        \/ \E p \in Promises : x \in Entries(p.recs)
<1> TAKE x
<1>1. x \in InLogs <=> \E i \in Replica : x \in log[i] BY Zenon DEF InLogs
<1>2. x \in InPackets <=> \E m \in Carriers : x = Entry(m.slot, m.rec) BY Zenon DEF InPackets
<1>3. x \in InPromises <=> \E p \in Promises : x \in Entries(p.recs) BY Zenon DEF InPromises
<1>4. \A m : m \in Carriers <=> m \in msgs /\ m.kind \in {"Accept", "Commit"}
  BY Zenon DEF Carriers
<1>5. x \in Known <=> x \in InLogs \/ x \in InPackets \/ x \in InPromises
  BY Zenon DEF Known
<1> QED BY <1>1, <1>2, <1>3, <1>4, <1>5, Zenon

\* in the next state too.
LEMMA InKnownNext ==
    \A x : x \in Known' <=>
        \/ \E i \in Replica : x \in log'[i]
        \/ \E m \in msgs' : m.kind \in {"Accept", "Commit"} /\ x = Entry(m.slot, m.rec)
        \/ \E p \in Promises' : x \in Entries(p.recs)
<1> TAKE x
<1>1. x \in InLogs' <=> \E i \in Replica : x \in log'[i] BY Zenon DEF InLogs
<1>2. x \in InPackets' <=> \E m \in Carriers' : x = Entry(m.slot, m.rec) BY Zenon DEF InPackets
<1>3. x \in InPromises' <=> \E p \in Promises' : x \in Entries(p.recs) BY Zenon DEF InPromises
<1>4. \A m : m \in Carriers' <=> m \in msgs' /\ m.kind \in {"Accept", "Commit"}
  BY Zenon DEF Carriers
<1>5. x \in Known' <=> x \in InLogs' \/ x \in InPackets' \/ x \in InPromises'
  BY Zenon DEF Known
<1> QED BY <1>1, <1>2, <1>3, <1>4, <1>5, Zenon

\* The entry that a packet carries.
LEMMA PacketEntry ==
    ASSUME NEW m, GoodMessage(m), m.kind \in {"Accept", "Commit"}
    PROVE  /\ Entry(m.slot, m.rec) \in Line
           /\ m.slot \in Slot /\ m.rec \in Record /\ m.ballot \in Ballot
           /\ m.rec.req \in Value /\ m.rec.ballot = m.ballot
<1>1. Carries(m) BY DEF GoodMessage
<1>2. m.slot \in Slot /\ m.rec \in Record /\ m.rec.req # Hole /\ m.rec.ballot = m.ballot
      /\ m.ballot \in Ballot
  BY <1>1 DEF Carries
<1>3. m.rec.req \in Value BY <1>2 DEF Record, Value
<1> QED BY <1>2, <1>3, EntryType

\* Known entries have their type,
LEMMA KnownType == Typed => Known \subseteq Line
<1> SUFFICES ASSUME Typed, NEW x \in Known PROVE x \in Line OBVIOUS
<1>1. CASE \E i \in Replica : x \in log[i] BY <1>1, CoreType
<1>2. ASSUME NEW m \in msgs, m.kind \in {"Accept", "Commit"}, x = Entry(m.slot, m.rec)
      PROVE  x \in Line
  <2>1. GoodMessage(m) BY DEF Typed
  <2> QED BY <1>2, <2>1, PacketEntry
<1>3. CASE \E p \in Promises : x \in Entries(p.recs) BY <1>3, PromiseType
<1> QED BY <1>1, <1>2, <1>3, InKnown

\* in the next state too.
LEMMA KnownTypeNext == Typed' => Known' \subseteq Line
<1> SUFFICES ASSUME Typed', NEW x \in Known' PROVE x \in Line OBVIOUS
<1>1. CASE \E i \in Replica : x \in log'[i] BY <1>1, CoreTypeNext
<1>2. ASSUME NEW m \in msgs', m.kind \in {"Accept", "Commit"}, x = Entry(m.slot, m.rec)
      PROVE  x \in Line
  <2>1. GoodMessage(m) BY DEF Typed
  <2> QED BY <1>2, <2>1, PacketEntry
<1>3. CASE \E p \in Promises' : x \in Entries(p.recs) BY <1>3, PromiseTypeNext
<1> QED BY <1>1, <1>2, <1>3, InKnownNext

\* The type of a log's entries, in this state and the next.
LEMMA LineTypes ==
    ASSUME NEW x \in Line
    PROVE  /\ x.slot \in Slot /\ x.req \in Value /\ x.ballot \in Ballot /\ x.ballot \in Nat
           /\ x.committed \in BOOLEAN
BY BallotNat DEF Line

\* Ballots are numbers.
LEMMA BallotTypes ==
    ASSUME Typed, Typed'
    PROVE  \A q \in Replica : /\ ballot[q] \in Ballot /\ ballot'[q] \in Ballot
                              /\ ballot[q] \in Nat /\ ballot'[q] \in Nat
BY CoreType, CoreTypeNext

-----------------------------------------------------------------------------
(***************************************************************************)
(* What never goes back.                                                   *)
(***************************************************************************)
\* The two parts of Advance about one replica.
LEMMA AdvanceReplica ==
    ASSUME Advance, NEW q \in Replica
    PROVE  /\ ballot[q] <= ballot'[q]
           /\ Leading(q)' => ballot'[q] = ballot[q] /\ (Leading(q) \/ TookOver(q))
           /\ Leading(q) /\ ballot'[q] = ballot[q] => Leading(q)'
           /\ \A y \in log[q] : \E z \in log'[q] :
                /\ z.slot = y.slot /\ z.ballot >= y.ballot
                /\ y.committed => z.committed \/ z.ballot = ballot'[q]
                /\ Leading(q) => z.req = y.req
BY DEF Advance, KeepsLog

\* A ballot whose owner has taken over stays so.
LEMMA LedStays ==
    ASSUME Typed, Typed', Advance, NEW b \in Ballot, Led(b)
    PROVE  Led(b)'
<1> DEFINE o == Owner(b)
<1>1. o \in Replica BY OwnerType, BallotNat
<1>2. ballot[o] \in Nat /\ ballot'[o] \in Nat /\ b \in Nat BY <1>1, BallotTypes, BallotNat
<1>3. ballot[o] <= ballot'[o] BY <1>1, AdvanceReplica
<1>4. CASE ballot[o] > b BY <1>2, <1>3, <1>4 DEF Led
<1>5. CASE ballot[o] = b /\ ~preparing[o]
  <2>1. Leading(o) BY <1>5 DEF Leading
  <2>2. CASE ballot'[o] = b
    <3>1. Leading(o)' BY <1>1, <1>5, <2>1, <2>2, AdvanceReplica
    <3> QED BY <3>1, <2>2 DEF Led, Leading
  <2>3. CASE ballot'[o] # b BY <1>2, <1>3, <1>5, <2>3 DEF Led
  <2> QED BY <2>2, <2>3
<1> QED BY <1>4, <1>5 DEF Led

\* A ballot that a majority has reached stays so.
LEMMA ElectedStays ==
    ASSUME Typed, Typed', Advance, NEW b \in Ballot, Elected(b)
    PROVE  Elected(b)'
<1>1. PICK Q \in Quorums : \A q \in Q : ballot[q] >= b BY DEF Elected
<1>2. Q \in SUBSET Replica BY DEF Quorums
<1>3. \A q \in Q : ballot'[q] >= b
  <2> TAKE q \in Q
  <2>1. q \in Replica BY <1>2
  <2>2. ballot[q] \in Nat /\ ballot'[q] \in Nat /\ b \in Nat BY <2>1, BallotTypes, BallotNat
  <2>3. ballot[q] <= ballot'[q] BY <2>1, AdvanceReplica
  <2> QED BY <1>1, <2>2, <2>3
<1> QED BY <1>1, <1>3 DEF Elected

\* What cannot be chosen any more under b cannot be chosen later.
LEMMA ChoiceShrinks ==
    ASSUME Typed, Typed', Advance, NEW b \in Ballot, NEW s \in Slot, CanChoose(b, s)'
    PROVE  CanChoose(b, s)
<1>1. PICK Q \in Quorums : \A q \in Q : ballot'[q] <= b \/ Voted(q, b, s)'
  BY DEF CanChoose
<1>2. \A q \in Q : ballot[q] <= b \/ Voted(q, b, s)
  <2> TAKE q \in Q
  <2>1. q \in Replica BY DEF Quorums
  <2>2. ballot[q] \in Nat /\ ballot'[q] \in Nat /\ b \in Nat BY <2>1, BallotTypes, BallotNat
  <2>3. ballot[q] <= ballot'[q] BY <2>1, AdvanceReplica
  <2>4. CASE ballot'[q] <= b BY <2>2, <2>3, <2>4
  <2>5. CASE Voted(q, b, s)'
    <3>1. Voted(q, b, s) \/ FreshVote(q, b, s) BY <2>1, <2>5 DEF Advance
    <3> QED BY <3>1, <2>2 DEF FreshVote
  <2> QED BY <1>1, <2>4, <2>5
<1> QED BY <1>2 DEF CanChoose

\* If a later ballot was opened with a majority, what can still be chosen
\* under b has been voted for.
LEMMA Proposed ==
    ASSUME Typed, NEW b \in Ballot, NEW c \in Ballot, b < c, NEW s \in Slot,
           CanChoose(b, s), Elected(c)
    PROVE  \E q \in Replica : Voted(q, b, s)
<1>1. PICK Q \in Quorums : \A q \in Q : ballot[q] <= b \/ Voted(q, b, s) BY DEF CanChoose
<1>2. PICK P \in Quorums : \A q \in P : ballot[q] >= c BY DEF Elected
<1>3. PICK q \in P : q \in Q BY QuorumsMeet
<1>4. q \in Replica BY DEF Quorums
<1>5. ballot[q] \in Nat /\ b \in Nat /\ c \in Nat BY <1>4, BallotNat, CoreType
<1> QED BY <1>1, <1>2, <1>3, <1>4, <1>5

\* A promise goes on reporting an entry that its sender keeps.
LEMMA ReportsStay ==
    ASSUME Typed, Advance, NEW q \in Replica, NEW c \in Ballot, NEW s, NEW b,
           \E y \in log[q] : y.slot = s /\ y.ballot >= b, Reports(q, c, s, b)
    PROVE  Reports(q, c, s, b)'
<1> SUFFICES ASSUME NEW p \in Promises', p.from = q, p.ballot = c, p.floor <= s
             PROVE  \E y \in Entries(p.recs) : y.slot = s /\ y.ballot >= b
  BY Zenon DEF Reports, PromisesOf
<1>1. CASE p \in Promises
  <2>1. p \in PromisesOf(q, c) BY <1>1 DEF PromisesOf
  <2> QED BY <2>1, Zenon DEF Reports
<1>2. CASE Snapped(p)
  <2>1. PICK y \in log[q] : y.slot = s /\ y.ballot >= b OBVIOUS
  <2>2. y \in Entries(p.recs) BY <1>2, <2>1 DEF Snapped
  <2> QED BY <2>1, <2>2
<1> QED BY <1>1, <1>2 DEF Advance

\* A promise goes on telling of an entry that its sender keeps.
LEMMA TellsStay ==
    ASSUME Typed, Advance, NEW q \in Replica, NEW c \in Ballot, NEW s, NEW b,
           \E y \in log[q] : y.slot = s /\ (y.ballot >= b \/ y.committed), Tells(q, c, s, b)
    PROVE  Tells(q, c, s, b)'
<1> SUFFICES ASSUME NEW p \in Promises', p.from = q, p.ballot = c, p.floor <= s
             PROVE  \E y \in Entries(p.recs) : y.slot = s /\ (y.ballot >= b \/ y.committed)
  BY Zenon DEF Tells, PromisesOf
<1>1. CASE p \in Promises
  <2>1. p \in PromisesOf(q, c) BY <1>1 DEF PromisesOf
  <2> QED BY <2>1, Zenon DEF Tells
<1>2. CASE Snapped(p)
  <2>1. PICK y \in log[q] : y.slot = s /\ (y.ballot >= b \/ y.committed) OBVIOUS
  <2>2. y \in Entries(p.recs) BY <1>2, <2>1 DEF Snapped
  <2> QED BY <2>1, <2>2
<1> QED BY <1>1, <1>2 DEF Advance

-----------------------------------------------------------------------------
(***************************************************************************)
(* New records.                                                            *)
(***************************************************************************)
\* A record of x's slot, ballot and request existed before the step.
Copy(x) == \E y \in Known : y.slot = x.slot /\ y.ballot = x.ballot /\ y.req = x.req
\* The leader i of x's ballot has put x into its log in this step or before.
By(i, x) ==
    /\ ballot[i] = x.ballot /\ ballot'[i] = x.ballot /\ Owner(x.ballot) = i
    /\ Leading(i)' /\ Elected(x.ballot)
    /\ \E z \in log'[i] : z.slot = x.slot /\ z.req = x.req
Copied(i, x) ==
    /\ Leading(i) /\ ballot[i] = x.ballot
    /\ \E y \in log[i] : y.slot = x.slot /\ y.req = x.req /\ y.committed

\* Every record of the next state was there before, or a leader made it.
LEMMA Kinds ==
    ASSUME Typed, Typed', Safety, Advance, NEW x \in Known'
    PROVE  \/ Copy(x)
           \/ \E i \in Replica :
                 By(i, x) /\ (Copied(i, x) \/ (Started(x) /\ Leading(i)) \/ (Adopted(x) /\ TookOver(i)))
<1>1. CASE x \in Known BY <1>1 DEF Copy
<1>2. CASE Restated(x)
  <2>1. PICK i \in Replica : Stays(i, x.ballot) /\ \E y \in log[i] :
              y.slot = x.slot /\ y.req = x.req /\ (y.ballot = x.ballot \/ y.committed)
    BY <1>2 DEF Restated
  <2>2. PICK y \in log[i] :
              y.slot = x.slot /\ y.req = x.req /\ (y.ballot = x.ballot \/ y.committed)
    BY <2>1
  <2>3. Leading(i) /\ ballot[i] = x.ballot /\ ballot'[i] = x.ballot BY <2>1 DEF Stays
  <2>4. CASE y.ballot = x.ballot
    <3>1. y \in Known BY InKnown
    <3> QED BY <3>1, <2>2, <2>4 DEF Copy
  <2>5. CASE y.committed
    <3>1. Leading(i)' BY <2>3, AdvanceReplica
    <3>2. Elected(x.ballot) BY <2>3 DEF Safety, Established
    <3>3. \E z \in log'[i] : z.slot = x.slot /\ z.req = x.req
      BY <2>2, <2>3, AdvanceReplica
    <3>4. Owner(x.ballot) = i BY <2>3 DEF Leading
    <3>5. By(i, x) BY <2>3, <3>1, <3>2, <3>3, <3>4 DEF By
    <3>6. Copied(i, x) BY <2>2, <2>3, <2>5 DEF Copied
    <3> QED BY <3>5, <3>6
  <2> QED BY <2>2, <2>4, <2>5
<1>3. CASE Started(x)
  <2>1. PICK i \in Replica : Stays(i, x.ballot) /\ \E z \in log'[i] : z.slot = x.slot /\ z.req = x.req
    BY <1>3 DEF Started
  <2>2. Leading(i) /\ ballot[i] = x.ballot /\ ballot'[i] = x.ballot BY <2>1 DEF Stays
  <2>3. Leading(i)' BY <2>2, AdvanceReplica
  <2>4. Elected(x.ballot) BY <2>2 DEF Safety, Established
  <2>5. Owner(x.ballot) = i BY <2>2 DEF Leading
  <2> QED BY <1>3, <2>1, <2>2, <2>3, <2>4, <2>5 DEF By
<1>4. CASE Adopted(x)
  <2>1. PICK i \in Replica : /\ TookOver(i) /\ x.ballot = ballot[i]
                             /\ \E z \in log'[i] : z.slot = x.slot /\ z.req = x.req
    BY <1>4 DEF Adopted
  <2>2. /\ Owner(ballot[i]) = i /\ ballot'[i] = ballot[i] /\ ~preparing'[i]
        /\ Elected(ballot[i])
    BY <2>1 DEF TookOver
  <2>3. Leading(i)' BY <2>2 DEF Leading
  <2> QED BY <1>4, <2>1, <2>2, <2>3 DEF By
<1> QED BY <1>1, <1>2, <1>3, <1>4 DEF Advance, Made

\* Every record of the next state has an elected ballot.
LEMMA NextElected ==
    ASSUME Typed, Typed', Safety, Advance, NEW x \in Known'
    PROVE  Elected(x.ballot)
<1>1. CASE Copy(x)
  <2>1. PICK y \in Known : y.ballot = x.ballot BY <1>1 DEF Copy
  <2>2. Elected(y.ballot) BY DEF Safety, Owned
  <2> QED BY <2>1, <2>2
<1>2. CASE \E i \in Replica : By(i, x) BY <1>2 DEF By
<1> QED BY <1>1, <1>2, Kinds

\* The parts of Safety, one by one: Owned,
LEMMA OwnedStays ==
    ASSUME Typed, Typed', Safety, Advance
    PROVE  Owned'
<1> SUFFICES ASSUME NEW x \in Known'
             PROVE  /\ Led(x.ballot)' /\ Elected(x.ballot)'
                    /\ ballot'[Owner(x.ballot)] = x.ballot =>
                         \E y \in log'[Owner(x.ballot)] : y.slot = x.slot /\ y.req = x.req
  BY DEF Owned
<1>1. x.ballot \in Ballot BY KnownTypeNext DEF Line
<1>2. Elected(x.ballot)' BY <1>1, NextElected, ElectedStays
<1> DEFINE o == Owner(x.ballot)
<1>3. o \in Replica BY <1>1, OwnerType, BallotNat
<1>4. CASE Copy(x)
  <2>1. PICK y \in Known : y.slot = x.slot /\ y.ballot = x.ballot /\ y.req = x.req
    BY <1>4 DEF Copy
  <2>2. Led(x.ballot) BY <2>1 DEF Safety, Owned
  <2>3. Led(x.ballot)' BY <1>1, <2>2, LedStays
  <2>4. ASSUME ballot'[o] = x.ballot
        PROVE  \E z \in log'[o] : z.slot = x.slot /\ z.req = x.req
    <3>1. ballot[o] \in Nat /\ ballot'[o] \in Nat /\ ballot[o] <= ballot'[o]
      BY <1>3, BallotTypes, BallotNat, AdvanceReplica
    <3>2. ballot[o] = x.ballot /\ ~preparing[o] BY <2>2, <2>4, <3>1 DEF Led
    <3>3. Leading(o) BY <3>2 DEF Leading
    <3>4. PICK z \in log[o] : z.slot = x.slot /\ z.req = x.req
      BY <2>1, <3>2 DEF Safety, Owned
    <3> QED BY <1>3, <3>3, <3>4, AdvanceReplica
  <2> QED BY <1>2, <2>3, <2>4
<1>5. CASE \E i \in Replica : By(i, x)
  <2>1. PICK i \in Replica : By(i, x) BY <1>5
  <2>2. Led(x.ballot)' BY <2>1 DEF By, Led, Leading
  <2> QED BY <1>2, <2>1, <2>2 DEF By
<1> QED BY <1>4, <1>5, Kinds

\* OneValue,
LEMMA OneValueStays ==
    ASSUME Typed, Typed', Safety, Shape', Advance
    PROVE  OneValue'
<1> SUFFICES ASSUME NEW x \in Known', NEW y \in Known', x.slot = y.slot, x.ballot = y.ballot
             PROVE  x.req = y.req
  BY DEF OneValue
<1>1. CASE Copy(x) /\ Copy(y)
  BY <1>1 DEF Copy, Safety, OneValue
<1>2. CASE \E i \in Replica : By(i, x) \/ By(i, y)
  <2>1. PICK i \in Replica : By(i, x) \/ By(i, y) BY <1>2
  <2>2. Owner(x.ballot) = i /\ ballot'[i] = x.ballot BY <2>1 DEF By
  <2>3. Owned' BY OwnedStays
  <2>4. PICK z \in log'[i] : z.slot = x.slot /\ z.req = x.req BY <2>2, <2>3 DEF Owned
  <2>5. PICK w \in log'[i] : w.slot = y.slot /\ w.req = y.req BY <2>2, <2>3 DEF Owned
  <2>6. z = w BY <2>4, <2>5, CoreTypeNext
  <2> QED BY <2>4, <2>5, <2>6
<1> QED BY <1>1, <1>2, Kinds

\* A lock is never broken.
LEMMA LockStays ==
    ASSUME Typed, Typed', Safety, Shape', Advance,
           NEW s \in Slot, NEW v \in Value, NEW b \in Ballot, NEW Q \in Quorums, Lock(s, v, b, Q)
    PROVE  Lock(s, v, b, Q)'
<1>1. Led(b) /\ Led(b)' BY LedStays DEF Lock
<1>2. ASSUME NEW q \in Q
      PROVE  /\ \E y \in log'[q] : y.slot = s /\ y.ballot >= b
             /\ \A c \in Ballot : c > b => Reports(q, c, s, b)'
  <2>1. q \in Replica BY DEF Quorums
  <2>2. PICK y \in log[q] : y.slot = s /\ y.ballot >= b BY DEF Lock
  <2>3. PICK z \in log'[q] : z.slot = y.slot /\ z.ballot >= y.ballot BY <2>1, AdvanceReplica
  <2>4. y.ballot \in Nat /\ z.ballot \in Nat /\ b \in Nat
    <3>1. y \in Line /\ z \in Line BY <2>1, CoreType, CoreTypeNext
    <3> QED BY <3>1, BallotNat DEF Line
  <2>5. z.slot = s /\ z.ballot >= b BY <2>2, <2>3, <2>4
  <2>6. ASSUME NEW c \in Ballot, c > b PROVE Reports(q, c, s, b)'
    <3>1. Reports(q, c, s, b) BY <2>6 DEF Lock
    <3> QED BY <2>1, <2>2, <3>1, ReportsStay
  <2> QED BY <2>5, <2>6
<1>3. ASSUME NEW i \in Replica, Leading(i)', ballot'[i] >= b
      PROVE  \E y \in log'[i] : y.slot = s /\ y.req = v
  <2>1. ballot'[i] = ballot[i] /\ (Leading(i) \/ TookOver(i)) BY <1>3, AdvanceReplica
  <2>2. CASE Leading(i)
    <3>1. PICK y \in log[i] : y.slot = s /\ y.req = v BY <1>3, <2>1, <2>2 DEF Lock
    <3> QED BY <2>2, <3>1, AdvanceReplica
  <2>3. CASE TookOver(i)
    <3>1. Owner(ballot[i]) = i /\ preparing[i] BY <2>3 DEF TookOver
    <3>2. ballot[i] \in Nat /\ b \in Nat BY BallotTypes, BallotNat
    <3>3. ballot[i] # b BY <1>1, <3>1, <3>2 DEF Led
    <3>4. b < ballot[i] BY <1>3, <2>1, <3>2, <3>3
    <3> QED BY <2>3, <3>4 DEF TookOver
  <2> QED BY <2>1, <2>2, <2>3
<1>4. ASSUME NEW x \in Known', x.slot = s, x.ballot >= b PROVE x.req = v
  <2>1. CASE Copy(x) BY <1>4, <2>1 DEF Copy, Lock
  <2>2. CASE \E i \in Replica : By(i, x)
    <3>1. PICK i \in Replica : By(i, x) BY <2>2
    <3>2. PICK z \in log'[i] : z.slot = x.slot /\ z.req = x.req BY <3>1 DEF By
    <3>3. Leading(i)' /\ ballot'[i] >= b BY <1>4, <3>1 DEF By
    <3>4. PICK w \in log'[i] : w.slot = s /\ w.req = v BY <1>3, <3>3
    <3>5. z = w BY <1>4, <3>1, <3>2, <3>4, CoreTypeNext
    <3> QED BY <3>2, <3>4, <3>5
  <2> QED BY <2>1, <2>2, Kinds
<1> QED BY <1>1, <1>2, <1>3, <1>4 DEF Lock

\* What was voted for is remembered: in the log, and in every later promise.
LEMMA VotesStay ==
    ASSUME Typed, Typed', Safety, Shape', Advance
    PROVE  VoteInv'
<1> SUFFICES ASSUME NEW q \in Replica, NEW b \in Ballot, NEW s \in Slot, Voted(q, b, s)'
             PROVE  /\ Led(b)'
                    /\ ballot'[Owner(b)] = b => \E y \in log'[Owner(b)] : y.slot = s
                    /\ ballot'[q] >= b
                    /\ \E y \in log'[q] : y.slot = s /\ (y.ballot >= b \/ y.committed)
                    /\ \A c \in Ballot : c > b => Tells(q, c, s, b)'
  BY DEF VoteInv
<1> DEFINE o == Owner(b)
<1>1. o \in Replica BY OwnerType, BallotNat
<1>2. /\ b \in Nat /\ ballot[q] \in Nat /\ ballot'[q] \in Nat
      /\ ballot[o] \in Nat /\ ballot'[o] \in Nat
      /\ ballot[q] <= ballot'[q] /\ ballot[o] <= ballot'[o]
  BY <1>1, BallotTypes, BallotNat, AdvanceReplica
<1>3. CASE Voted(q, b, s)
  <2>1. /\ Led(b)
        /\ ballot[o] = b => \E y \in log[o] : y.slot = s
        /\ ballot[q] >= b
        /\ \E y \in log[q] : y.slot = s /\ (y.ballot >= b \/ y.committed)
        /\ \A c \in Ballot : c > b => Tells(q, c, s, b)
    BY <1>3 DEF Safety, VoteInv
  <2>2. Led(b)' BY <2>1, LedStays
  <2>3. ASSUME ballot'[o] = b PROVE \E y \in log'[o] : y.slot = s
    <3>1. ballot[o] = b BY <1>2, <2>1, <2>3 DEF Led
    <3>2. PICK y \in log[o] : y.slot = s BY <2>1, <3>1
    <3> QED BY <1>1, <3>2, AdvanceReplica
  <2>4. PICK y \in log[q] : y.slot = s /\ (y.ballot >= b \/ y.committed) BY <2>1
  <2>5. PICK z \in log'[q] : /\ z.slot = y.slot /\ z.ballot >= y.ballot
                             /\ y.committed => z.committed \/ z.ballot = ballot'[q]
    BY AdvanceReplica
  <2>6. y.ballot \in Nat /\ z.ballot \in Nat
    <3>1. y \in Line /\ z \in Line BY CoreType, CoreTypeNext
    <3> QED BY <3>1, BallotNat DEF Line
  <2>7. z.slot = s /\ (z.ballot >= b \/ z.committed) BY <1>2, <2>1, <2>4, <2>5, <2>6
  <2>8. \A c \in Ballot : c > b => Tells(q, c, s, b)' BY <2>1, <2>4, TellsStay
  <2> QED BY <1>2, <2>1, <2>2, <2>3, <2>7, <2>8
<1>4. CASE FreshVote(q, b, s)
  <2>1. /\ ballot'[q] = b /\ Led(b)'
        /\ ballot'[o] = b => \E y \in log'[o] : y.slot = s
        /\ \E y \in log'[q] : y.slot = s /\ (y.ballot >= b \/ y.committed)
    BY <1>4 DEF FreshVote
  <2>2. ASSUME NEW c \in Ballot, c > b PROVE Tells(q, c, s, b)'
    <3>1. ASSUME NEW p \in PromisesOf(q, c)' PROVE FALSE
      <4>1. p \in Promises' /\ p.from = q /\ p.ballot = c BY <3>1 DEF PromisesOf
      <4>2. c <= ballot'[q] BY <4>1 DEF Shape, PromiseShape
      <4>3. c \in Nat BY BallotNat
      <4> QED BY <1>2, <2>1, <2>2, <4>2, <4>3
    <3> QED BY <3>1, Zenon DEF Tells
  <2> QED BY <1>2, <2>1, <2>2
<1> QED BY <1>3, <1>4 DEF Advance

\* Locks hold values of their type; a committed record has one.
LEMMA LockOf ==
    ASSUME Typed, Safety, NEW x \in Known, x.committed
    PROVE  \E b \in Ballot, Q \in Quorums : b <= x.ballot /\ Lock(x.slot, x.req, b, Q)
BY DEF Safety, Locked

\* Safe,
LEMMA SafeStays ==
    ASSUME Typed, Typed', Safety, Shape', Advance
    PROVE  Safe'
<1> SUFFICES ASSUME NEW x \in Known', NEW y \in Known', x.slot = y.slot, y.ballot < x.ballot,
                    CanChoose(y.ballot, y.slot)'
             PROVE  x.req = y.req
  BY DEF Safe
<1>1. x \in Line /\ y \in Line BY KnownTypeNext
<1>2. /\ x.ballot \in Ballot /\ y.ballot \in Ballot /\ x.ballot \in Nat /\ y.ballot \in Nat
      /\ x.slot \in Slot /\ y.slot \in Slot /\ x.req \in Value /\ y.req \in Value
  BY <1>1, BallotNat DEF Line
<1>3. CanChoose(y.ballot, y.slot) BY <1>2, ChoiceShrinks
\* If the request of x or y is locked at or below y's ballot, both are that request.
<1>4. ASSUME NEW v \in Value, NEW b \in Ballot, NEW Q \in Quorums, b <= y.ballot,
             Lock(x.slot, v, b, Q)
      PROVE  x.req = y.req
  <2>1. Lock(x.slot, v, b, Q)' BY <1>2, <1>4, LockStays
  <2>2. b \in Nat BY BallotNat
  <2>3. x.ballot >= b /\ y.ballot >= b BY <1>2, <1>4, <2>2
  <2>4. x.req = v /\ y.req = v BY <2>1, <2>3 DEF Lock
  <2> QED BY <2>4
<1>5. CASE Copy(y)
  <2>1. PICK w \in Known : w.slot = y.slot /\ w.ballot = y.ballot /\ w.req = y.req
    BY <1>5 DEF Copy
  <2>2. CASE Copy(x)
    <3>1. PICK z \in Known : z.slot = x.slot /\ z.ballot = x.ballot /\ z.req = x.req
      BY <2>2 DEF Copy
    <3> QED BY <1>3, <2>1, <3>1 DEF Safety, Safe
  <2>3. CASE \E i \in Replica : Copied(i, x)
    <3>1. PICK i \in Replica : Copied(i, x) BY <2>3
    <3>2. PICK c \in log[i] : c.slot = x.slot /\ c.req = x.req /\ c.committed
      BY <3>1 DEF Copied
    <3>3. c \in Known BY <3>2, InKnown
    <3>4. PICK b \in Ballot, Q \in Quorums : b <= c.ballot /\ Lock(c.slot, c.req, b, Q)
      BY <3>2, <3>3, LockOf
    <3>5. CASE b <= y.ballot BY <1>2, <1>4, <3>2, <3>4, <3>5
    <3>6. CASE ~(b <= y.ballot)
      <4>1. c.ballot \in Nat /\ b \in Nat
        <5>1. c \in Line BY <3>3, KnownType
        <5> QED BY <5>1, BallotNat DEF Line
      <4>2. w.ballot < c.ballot BY <1>2, <2>1, <3>4, <3>6, <4>1
      <4>3. c.req = w.req BY <1>3, <2>1, <3>2, <3>3, <4>2 DEF Safety, Safe
      <4> QED BY <2>1, <3>2, <4>3
    <3> QED BY <3>5, <3>6
  <2>4. CASE Started(x)
    <3>1. PICK i \in Replica : Stays(i, x.ballot) /\ \A z \in log[i] : z.slot # x.slot
      BY <2>4 DEF Started
    <3>2. Leading(i) /\ ballot[i] = x.ballot BY <3>1 DEF Stays
    <3>3. ~CanChoose(y.ballot, x.slot) BY <1>2, <3>1, <3>2 DEF Safety, Established
    <3> QED BY <1>3, <3>3
  <2>5. CASE Adopted(x)
    <3>1. w.slot = x.slot /\ w.ballot < x.ballot /\ CanChoose(w.ballot, w.slot) BY <1>3, <2>1
    <3>2. w.req = x.req BY <2>5, <3>1 DEF Adopted
    <3> QED BY <2>1, <3>2
  <2> QED BY <2>2, <2>3, <2>4, <2>5, Kinds
<1>6. ASSUME NEW i \in Replica, By(i, y),
             Copied(i, y) \/ (Started(y) /\ Leading(i)) \/ (Adopted(y) /\ TookOver(i))
      PROVE  x.req = y.req
  <2>1. Elected(x.ballot) BY NextElected
  <2>2. PICK q \in Replica : Voted(q, y.ballot, y.slot) BY <1>2, <1>3, <2>1, Proposed
  <2>3. /\ Led(y.ballot)
        /\ ballot[Owner(y.ballot)] = y.ballot => \E z \in log[Owner(y.ballot)] : z.slot = y.slot
    BY <1>2, <2>2 DEF Safety, VoteInv
  <2>4. Owner(y.ballot) = i /\ ballot[i] = y.ballot BY <1>6 DEF By
  <2>5. PICK z \in log[i] : z.slot = y.slot BY <2>3, <2>4
  <2>6. CASE Copied(i, y)
    <3>1. PICK c \in log[i] : c.slot = y.slot /\ c.req = y.req /\ c.committed
      BY <2>6 DEF Copied
    <3>2. c \in Known BY <3>1, InKnown
    <3>3. PICK b \in Ballot, Q \in Quorums : b <= c.ballot /\ Lock(c.slot, c.req, b, Q)
      BY <3>1, <3>2, LockOf
    <3>4. c.ballot \in Nat /\ b \in Nat
      <4>1. c \in Line BY <3>2, KnownType
      <4> QED BY <4>1, BallotNat DEF Line
    <3>5. CASE b <= y.ballot BY <1>2, <1>4, <3>1, <3>3, <3>5
    <3>6. CASE ~(b <= y.ballot)
      \* The record of a leader is not of a later ballot.
      <4>1. PICK d \in log'[i] : d.slot = c.slot /\ d.ballot >= c.ballot BY AdvanceReplica
      <4>2. d.ballot <= ballot'[i] BY DEF Shape, LogShape, GoodLog
      <4>3. d.ballot \in Nat
        <5>1. d \in Line BY CoreType, CoreTypeNext
        <5> QED BY <5>1, BallotNat DEF Line
      <4>4. c.ballot <= y.ballot BY <1>2, <1>6, <3>4, <4>1, <4>2, <4>3 DEF By
      <4> QED BY <1>2, <3>3, <3>4, <3>6, <4>4
    <3> QED BY <3>5, <3>6
  <2>7. CASE Started(y) /\ Leading(i)
    <3>1. PICK k \in Replica : Stays(k, y.ballot) /\ \A w \in log[k] : w.slot # y.slot
      BY <2>7 DEF Started
    <3>2. k = i BY <2>4, <3>1 DEF Stays, Leading
    <3> QED BY <2>5, <3>1, <3>2
  <2>8. CASE TookOver(i)
    <3>1. preparing[i] BY <2>8 DEF TookOver
    <3>2. ballot[i] \in Nat BY BallotTypes, BallotNat
    <3> QED BY <2>3, <2>4, <3>1, <3>2 DEF Led
  <2> QED BY <1>6, <2>6, <2>7, <2>8
<1> QED BY <1>5, <1>6, Kinds

\* A leader whose record won a majority locks it, unless the slot is locked.
LEMMA WinnerLocks ==
    ASSUME Typed, Safety, Shape,
           NEW i \in Replica, Leading(i), NEW y \in log[i], y.ballot = ballot[i], Won(i, y.slot)
    PROVE  \E b \in Ballot, Q \in Quorums : b <= y.ballot /\ Lock(y.slot, y.req, b, Q)
<1> DEFINE b == y.ballot
           s == y.slot
<1>1. y \in Known BY InKnown
<1>2. y \in Line BY <1>1, KnownType
<1>3. b \in Ballot /\ s \in Slot /\ b \in Nat /\ y.req \in Value BY <1>2, BallotNat DEF Line
<1>4. PICK Q \in Quorums : \A q \in Q : q = i \/ Voted(q, b, s) BY DEF Won
<1>5. Owner(b) = i BY DEF Leading
<1>6. CASE \E z \in Known : z.slot = s /\ z.committed /\ z.ballot < b
  <2>1. PICK z \in Known : z.slot = s /\ z.committed /\ z.ballot < b BY <1>6
  <2>2. PICK c \in Ballot, P \in Quorums : c <= z.ballot /\ Lock(z.slot, z.req, c, P)
    BY <2>1, LockOf
  <2>3. c \in Nat /\ z.ballot \in Nat
    <3>1. z \in Line BY KnownType
    <3> QED BY <3>1, BallotNat DEF Line
  <2>4. b >= c BY <1>3, <2>1, <2>2, <2>3
  <2>5. y.req = z.req BY <1>1, <2>1, <2>2, <2>4 DEF Lock
  <2>6. Lock(s, y.req, c, P) BY <2>1, <2>2, <2>5
  <2> QED BY <1>3, <2>3, <2>4, <2>6
<1>7. CASE ~\E z \in Known : z.slot = s /\ z.committed /\ z.ballot < b
  <2>0. ASSUME NEW z \in Known, z.slot = s, z.ballot >= b \/ z.committed PROVE z.ballot >= b
    <3>1. z \in Line BY KnownType
    <3>2. z.ballot \in Nat BY <3>1, BallotNat DEF Line
    <3> QED BY <1>3, <1>7, <2>0, <3>2
  <2>1. Led(b) BY <1>5 DEF Led, Leading
  <2>2. ASSUME NEW q \in Q
        PROVE  /\ \E z \in log[q] : z.slot = s /\ z.ballot >= b
               /\ \A c \in Ballot : c > b => Reports(q, c, s, b)
    <3>0. q \in Replica BY DEF Quorums
    <3>1. CASE Voted(q, b, s)
      <4>1. /\ \E z \in log[q] : z.slot = s /\ (z.ballot >= b \/ z.committed)
            /\ \A c \in Ballot : c > b => Tells(q, c, s, b)
        BY <1>3, <3>0, <3>1 DEF Safety, VoteInv
      <4>2. PICK z \in log[q] : z.slot = s /\ (z.ballot >= b \/ z.committed) BY <4>1
      <4>3. z \in Known BY <3>0, InKnown
      <4>4. z.ballot >= b BY <2>0, <4>2, <4>3
      <4>5. ASSUME NEW c \in Ballot, c > b PROVE Reports(q, c, s, b)
        <5> SUFFICES ASSUME NEW p \in PromisesOf(q, c), p.floor <= s
                     PROVE  \E w \in Entries(p.recs) : w.slot = s /\ w.ballot >= b
          BY Zenon DEF Reports
        <5>1. PICK w \in Entries(p.recs) : w.slot = s /\ (w.ballot >= b \/ w.committed)
          BY <4>1, <4>5 DEF Tells
        <5>2. w \in Known BY InKnown DEF PromisesOf
        <5>3. w.ballot >= b BY <2>0, <5>1, <5>2
        <5> QED BY <5>1, <5>3
      <4> QED BY <4>2, <4>4, <4>5
    <3>2. CASE q = i
      <4>1. y.ballot >= b BY <1>3
      <4>2. ASSUME NEW c \in Ballot, c > b PROVE Reports(q, c, s, b)
        <5>1. ASSUME NEW p \in PromisesOf(q, c) PROVE FALSE
          <6>1. p \in Promises /\ p.from = q /\ p.ballot = c BY <5>1 DEF PromisesOf
          <6>2. c <= ballot[q] BY <6>1 DEF Shape, PromiseShape
          <6> QED BY <1>3, <3>2, <4>2, <6>2, BallotNat
        <5> QED BY <5>1, Zenon DEF Reports
      <4> QED BY <3>2, <4>1, <4>2
    <3> QED BY <1>4, <3>1, <3>2
  <2>3. CanChoose(b, s)
    <3>1. \A q \in Q : ballot[q] <= b \/ Voted(q, b, s) BY <1>3, <1>4
    <3> QED BY <3>1 DEF CanChoose
  <2>4. ASSUME NEW z \in Known, z.slot = s, z.ballot >= b PROVE z.req = y.req
    <3>1. z \in Line BY KnownType
    <3>2. z.ballot \in Nat BY <3>1, BallotNat DEF Line
    <3>3. CASE z.ballot = b BY <1>1, <2>4, <3>3 DEF Safety, OneValue
    <3>4. CASE b < z.ballot BY <1>1, <2>3, <2>4, <3>4 DEF Safety, Safe
    <3> QED BY <1>3, <2>4, <3>2, <3>3, <3>4
  <2>5. ASSUME NEW k \in Replica, Leading(k), ballot[k] >= b
        PROVE  \E z \in log[k] : z.slot = s /\ z.req = y.req
    <3>1. ballot[k] \in Nat BY CoreType
    <3>2. CASE ballot[k] = b
      <4>1. k = i BY <1>5, <2>5, <3>2 DEF Leading
      <4> QED BY <4>1
    <3>3. CASE b < ballot[k]
      <4>1. PICK z \in log[k] : z.slot = s BY <1>3, <2>3, <2>5, <3>3 DEF Safety, Established
      <4>2. z.ballot = ballot[k] \/ z.committed BY <2>5 DEF Shape, LogShape, GoodLog
      <4>3. z \in Known BY InKnown
      <4>4. z.ballot >= b BY <2>0, <2>5, <4>1, <4>2, <4>3
      <4>5. z.req = y.req BY <2>4, <4>1, <4>3, <4>4
      <4> QED BY <4>1, <4>5
    <3> QED BY <1>3, <2>5, <3>1, <3>2, <3>3
  <2>6. Lock(s, y.req, b, Q) BY <2>1, <2>2, <2>4, <2>5 DEF Lock
  <2> QED BY <1>3, <2>6
<1> QED BY <1>6, <1>7

\* A command that a step commits, or that has been committed, is locked before
\* the step.
LEMMA DecisionLocked ==
    ASSUME Typed, Typed', Safety, Shape, Advance, NEW x \in Known', x.committed
    PROVE  \E b \in Ballot, Q \in Quorums : b <= x.ballot /\ Lock(x.slot, x.req, b, Q)
<1>1. x \in Line BY KnownTypeNext
<1>2. x.ballot \in Nat /\ x.slot \in Slot /\ x.req \in Value BY <1>1, BallotNat DEF Line
<1>3. CASE x \in Known BY <1>3, LockOf
<1>4. CASE Restated(x)
  <2>1. PICK i \in Replica : Stays(i, x.ballot) /\ \E y \in log[i] :
            /\ y.slot = x.slot /\ y.req = x.req
            /\ y.ballot = x.ballot \/ y.committed
            /\ x.committed => y.committed \/ (y.ballot = x.ballot /\ Won(i, x.slot))
    BY <1>4 DEF Restated
  <2>2. PICK y \in log[i] :
            /\ y.slot = x.slot /\ y.req = x.req
            /\ y.committed \/ (y.ballot = x.ballot /\ Won(i, x.slot))
    BY <2>1
  <2>3. Leading(i) /\ ballot[i] = x.ballot BY <2>1 DEF Stays
  <2>4. y \in Known BY InKnown
  <2>5. y \in Line BY <2>4, KnownType
  <2>6. y.ballot \in Nat /\ y.ballot <= x.ballot
    BY <2>3, <2>5, BallotNat DEF Line, Shape, LogShape, GoodLog
  <2>7. \E b \in Ballot, Q \in Quorums : b <= y.ballot /\ Lock(y.slot, y.req, b, Q)
    <3>1. CASE y.committed BY <2>4, <3>1, LockOf
    <3>2. CASE y.ballot = x.ballot /\ Won(i, x.slot)
      <4>1. y.ballot = ballot[i] /\ Won(i, y.slot) BY <2>2, <2>3, <3>2
      <4> QED BY <2>3, <4>1, WinnerLocks
    <3> QED BY <2>2, <3>1, <3>2
  <2>8. PICK b \in Ballot, Q \in Quorums : b <= y.ballot /\ Lock(y.slot, y.req, b, Q) BY <2>7
  <2>9. b \in Nat BY BallotNat
  <2>10. b <= x.ballot BY <1>2, <2>6, <2>8, <2>9
  <2>11. Lock(x.slot, x.req, b, Q) BY <2>2, <2>8
  <2> QED BY <2>10, <2>11
<1>5. ~Started(x) /\ ~Adopted(x) BY DEF Started, Adopted
<1> QED BY <1>3, <1>4, <1>5 DEF Advance, Made

\* Locked,
LEMMA LockedStays ==
    ASSUME Typed, Typed', Safety, Shape, Shape', Advance
    PROVE  Locked'
<1> SUFFICES ASSUME NEW x \in Known', x.committed
             PROVE  \E b \in Ballot, Q \in Quorums : b <= x.ballot /\ Lock(x.slot, x.req, b, Q)'
  BY DEF Locked
<1>1. x \in Line BY KnownTypeNext
<1>2. x.slot \in Slot /\ x.req \in Value BY <1>1 DEF Line
<1>3. PICK b \in Ballot, Q \in Quorums : b <= x.ballot /\ Lock(x.slot, x.req, b, Q)
  BY DecisionLocked
<1>4. Lock(x.slot, x.req, b, Q)' BY <1>2, <1>3, LockStays
<1> QED BY <1>3, <1>4

\* Established.
LEMMA EstablishedStays ==
    ASSUME Typed, Typed', Safety, Advance
    PROVE  Established'
<1> SUFFICES ASSUME NEW i \in Replica, Leading(i)'
             PROVE  /\ Elected(ballot[i])'
                    /\ \A s \in Slot, b \in Ballot :
                          b < ballot'[i] /\ (\A y \in log'[i] : y.slot # s) => ~CanChoose(b, s)'
  BY DEF Established
<1>1. ballot'[i] = ballot[i] /\ (Leading(i) \/ TookOver(i)) BY AdvanceReplica
<1>2. ballot[i] \in Ballot BY BallotTypes
<1>3. Elected(ballot[i]) BY <1>1 DEF Safety, Established, TookOver
<1>4. \A q \in Replica : ballot[q] <= ballot'[q] BY AdvanceReplica
<1>5. Elected(ballot[i])'
  <2> DEFINE b == ballot[i]
  <2>1. PICK Q \in Quorums : \A q \in Q : ballot[q] >= b BY <1>3 DEF Elected
  <2>2. \A q \in Q : ballot'[q] >= b
    <3> TAKE q \in Q
    <3>1. q \in Replica BY DEF Quorums
    <3>2. ballot[q] \in Nat /\ ballot'[q] \in Nat /\ b \in Nat
      BY <1>2, <3>1, BallotTypes, BallotNat
    <3> QED BY <1>4, <2>1, <3>1, <3>2
  <2> QED BY <1>1, <2>2 DEF Elected
<1>6. ASSUME NEW s \in Slot, NEW b \in Ballot, b < ballot'[i], \A y \in log'[i] : y.slot # s
      PROVE  ~CanChoose(b, s)'
  <2>1. ~CanChoose(b, s)
    <3>1. CASE Leading(i)
      <4>1. \A y \in log[i] : y.slot # s BY <1>6, AdvanceReplica
      <4> QED BY <1>1, <1>6, <3>1, <4>1 DEF Safety, Established
    <3>2. CASE TookOver(i) BY <1>1, <1>6, <3>2 DEF TookOver
    <3> QED BY <1>1, <3>1, <3>2
  <2> QED BY <2>1, ChoiceShrinks
<1> QED BY <1>5, <1>6

\* Every step that advances the protocol keeps Safety.
LEMMA SafetyStays ==
    ASSUME Typed, Typed', Safety, Shape, Shape', Advance
    PROVE  Safety'
BY VotesStay, OneValueStays, OwnedStays, SafeStays, LockedStays, EstablishedStays DEF Safety

-----------------------------------------------------------------------------
(***************************************************************************)
(* What Safety says of decisions.                                          *)
(***************************************************************************)
\* From ballot b on, slot s holds v, and the members of Q have a record there.
From(s, v, b) == \A y \in Known : y.slot = s /\ y.ballot >= b => y.req = v
Held(s, b, Q) == \A q \in Q : \E y \in log[q] : y.slot = s /\ y.ballot >= b

\* Of two locks of a slot, the upper one is of the lower one's request.
LEMMA LocksMeet ==
    ASSUME Typed, NEW s, NEW v, NEW w, NEW b \in Ballot, NEW c \in Ballot, b <= c,
           NEW Q \in Quorums, From(s, v, b), From(s, w, c), Held(s, c, Q)
    PROVE  v = w
<1>1. PICK q \in Q : TRUE BY QuorumsMeet
<1>2. q \in Replica BY DEF Quorums
<1>3. PICK y \in log[q] : y.slot = s /\ y.ballot >= c BY <1>1 DEF Held
<1>4. y \in Known BY <1>2, InKnown
<1>5. y \in Line BY <1>4, KnownType
<1>6. y.ballot \in Nat /\ b \in Nat /\ c \in Nat BY <1>5, LineTypes, BallotNat
<1>7. y.ballot >= b BY <1>3, <1>6
<1> QED BY <1>3, <1>4, <1>7 DEF From

\* Two locks of a slot are of one request.
LEMMA LocksAgree ==
    ASSUME Typed, NEW s \in Slot, NEW v, NEW w, NEW b \in Ballot, NEW c \in Ballot,
           NEW P \in Quorums, NEW Q \in Quorums, Lock(s, v, b, P), Lock(s, w, c, Q)
    PROVE  v = w
<1>1. b \in Nat /\ c \in Nat BY BallotNat
<1>2. From(s, v, b) /\ From(s, w, c) /\ Held(s, b, P) /\ Held(s, c, Q)
  BY DEF Lock, From, Held
<1>3. CASE b <= c BY <1>2, <1>3, LocksMeet
<1>4. CASE c <= b
  <2>1. w = v BY <1>2, <1>4, LocksMeet
  <2> QED BY <2>1
<1> QED BY <1>1, <1>3, <1>4

\* Safety implies agreement.
LEMMA SafetyAgrees == Typed /\ Safety => Agreement
<1> SUFFICES ASSUME Typed, Safety, NEW i \in Replica, NEW j \in Replica, NEW s \in Slot,
                    core[i].log[s].committed, core[j].log[s].committed
             PROVE  core[i].log[s].req = core[j].log[s].req
  BY DEF Agreement
<1> DEFINE r == Entry(s, core[i].log[s])
           q == Entry(s, core[j].log[s])
<1>1. core[i].log[s].req # Hole /\ core[j].log[s].req # Hole
  <2>1. GoodCore(core[i]) /\ GoodCore(core[j]) BY CoreType
  <2> QED BY <2>1 DEF GoodCore, Ends, Solid
<1>2. r \in log[i] /\ q \in log[j] BY <1>1, EntryIn, Views
<1>3. /\ r.slot = s /\ r.req = core[i].log[s].req /\ r.committed
      /\ q.slot = s /\ q.req = core[j].log[s].req /\ q.committed
  BY EntryFields
<1> HIDE DEF r, q
<1>4. r \in Known /\ q \in Known BY <1>2, InKnown
<1>5. PICK b \in Ballot, P \in Quorums : Lock(r.slot, r.req, b, P) BY <1>3, <1>4, LockOf
<1>6. PICK c \in Ballot, Q \in Quorums : Lock(q.slot, q.req, c, Q) BY <1>3, <1>4, LockOf
<1>7. Lock(s, r.req, b, P) /\ Lock(s, q.req, c, Q) BY <1>3, <1>5, <1>6
<1>8. r.req = q.req BY <1>7, LocksAgree
<1> QED BY <1>3, <1>8
-----------------------------------------------------------------------------
(***************************************************************************)
(* Greatest and least elements.                                            *)
(***************************************************************************)
\* A set of naturals has a least element.
LEMMA Smallest ==
    ASSUME NEW T \in SUBSET Nat, T # {}
    PROVE  \E x \in T : \A y \in T : x <= y
<1> DEFINE R == {p \in Nat \X Nat : p[1] < p[2]}
<1>1. IsWellFoundedOn(R, Nat) BY NatLessThanWellFounded DEF OpToRel
<1>2. PICK x \in T : \A y \in T : ~ (<<y, x>> \in R) BY <1>1, WFMin
<1>3. \A y \in T : x <= y
  <2> TAKE y \in T
  <2>1. x \in Nat /\ y \in Nat OBVIOUS
  <2>2. ~(y < x) BY <1>2, <2>1
  <2> QED BY <2>1, <2>2
<1> QED BY <1>3

\* A set of integers with an upper bound has a greatest element, which is its Max.
LEMMA MaxIs ==
    ASSUME NEW S \in SUBSET Int, S # {}, NEW n \in Int, \A x \in S : x <= n
    PROVE  Max(S) \in S /\ \A y \in S : Max(S) >= y
<1> DEFINE T == {n - x : x \in S}
<1>0. \A x \in S : n - x \in Nat OBVIOUS
<1>1. T \in SUBSET Nat /\ T # {} BY <1>0
<1>2. PICK t \in T : \A u \in T : t <= u BY <1>1, Smallest
<1>3. PICK x \in S : t = n - x BY <1>2
<1>4. \A y \in S : x >= y
  <2> TAKE y \in S
  <2>1. n - y \in T OBVIOUS
  <2>2. t <= n - y BY <1>2, <2>1
  <2> QED BY <1>3, <2>2
<1> QED BY <1>4 DEF Max

\* The greater of two numbers.
LEMMA MaxOfTwo ==
    ASSUME NEW a \in Int, NEW b \in Int
    PROVE  Max({a, b}) \in {a, b} /\ Max({a, b}) >= a /\ Max({a, b}) >= b
<1> DEFINE M == {a, b}
<1>1. \E x \in M : \A y \in M : x >= y
  <2>1. CASE a >= b BY <2>1
  <2>2. CASE ~(a >= b) BY <2>2
  <2> QED BY <2>1, <2>2
<1>2. Max(M) \in M /\ \A y \in M : Max(M) >= y BY <1>1 DEF Max
<1> QED BY <1>2

\* The least element of a set that has one.
LEMMA MinIs ==
    ASSUME NEW S, \E x \in S : \A y \in S : x <= y
    PROVE  Min(S) \in S /\ \A y \in S : Min(S) <= y
BY DEF Min

\* The least of three or four numbers.
LEMMA MinOfFew ==
    ASSUME NEW a \in Int, NEW b \in Int, NEW c \in Int, NEW d \in Int
    PROVE  /\ Min({a, b, c, d}) \in Int
           /\ Min({a, b, c, d}) <= a /\ Min({a, b, c, d}) <= b
           /\ Min({a, b, c, d}) <= c /\ Min({a, b, c, d}) <= d
<1> DEFINE M == {a, b, c, d}
<1>1. \E x \in M : x <= a /\ x <= b
  <2>1. CASE a <= b BY <2>1
  <2>2. CASE ~(a <= b) BY <2>2
  <2> QED BY <2>1, <2>2
<1>2. PICK x \in M : x <= a /\ x <= b BY <1>1
<1>3. \E y \in M : y <= c /\ y <= d
  <2>1. CASE c <= d BY <2>1
  <2>2. CASE ~(c <= d) BY <2>2
  <2> QED BY <2>1, <2>2
<1>4. PICK y \in M : y <= c /\ y <= d BY <1>3
<1>5. x \in Int /\ y \in Int BY <1>2, <1>4
<1>6. \E m \in M : m <= a /\ m <= b /\ m <= c /\ m <= d
  <2>1. CASE x <= y BY <1>2, <1>4, <1>5, <2>1
  <2>2. CASE ~(x <= y) BY <1>2, <1>4, <1>5, <2>2
  <2> QED BY <2>1, <2>2
<1>7. \E m \in M : \A z \in M : m <= z BY <1>6
<1> HIDE DEF M
<1>8. Min(M) \in M /\ \A z \in M : Min(M) <= z BY <1>7, MinIs
<1> QED BY <1>8 DEF M

-----------------------------------------------------------------------------
(***************************************************************************)
(* What the operators on a core do, whatever the core.                     *)
(***************************************************************************)
\* The fields of a good core.
LEMMA CoreIs ==
    ASSUME NEW c, GoodCore(c)
    PROVE  /\ c.ballot \in Ballot /\ c.ballot \in Nat /\ c.leader \in Replica
           /\ c.active \in BOOLEAN /\ c.preparing \in BOOLEAN
           /\ c.high \in Place /\ c.high \in Int /\ c.high <= MaxSlot
           /\ c.executed \in Place /\ c.executed \in Int /\ c.executed >= -1 /\ c.executed <= c.high
           /\ c.log \in [Slot -> Record] /\ c.votes \in [Slot -> SUBSET Replica]
           /\ c.assigned \in SUBSET Put /\ c.pending \in SUBSET Put /\ IsFiniteSet(c.pending)
           /\ c.queue \in Seq(Put) /\ Ends(c.log, c.high, c.executed)
           /\ c.catchupTarget \in Place
<1>1. c \in Core /\ c.executed <= c.high /\ Ends(c.log, c.high, c.executed)
      /\ IsFiniteSet(c.pending)
  BY DEF GoodCore
<1>2. /\ c.ballot \in Ballot /\ c.leader \in Replica
      /\ c.active \in BOOLEAN /\ c.preparing \in BOOLEAN
      /\ c.high \in Place /\ c.executed \in Place /\ c.catchupTarget \in Place
      /\ c.log \in [Slot -> Record] /\ c.votes \in [Slot -> SUBSET Replica]
      /\ c.assigned \in SUBSET Put /\ c.pending \in SUBSET Put
      /\ c.queue \in Seq(Put)
  BY <1>1 DEF Core
<1>3. c.high \in Int /\ c.high <= MaxSlot /\ c.executed \in Int /\ c.executed >= -1
  BY <1>2, Bounds DEF Place
<1> QED BY <1>1, <1>2, <1>3, BallotNat

\* Slots are numbers.
LEMMA SlotInt == \A s \in Slot : s \in Int /\ s >= 0 /\ s <= MaxSlot
BY Bounds DEF Slot

\* What a turn of a leader leaves alone.
Frame(c, d) ==
    /\ d.ballot = c.ballot /\ d.leader = c.leader /\ d.preparing = c.preparing
    /\ d.promises = c.promises /\ d.latestEpoch = c.latestEpoch /\ d.suspected = c.suspected

\* A record that is there and whose ballot is one.
Real(r) == r \in Record /\ r.req # Hole /\ r.ballot \in Ballot

\* install.
LEMMA InstallIs ==
    ASSUME NEW c, GoodCore(c), NEW s \in Slot, NEW r, Real(r)
    PROVE  /\ GoodCore(Install(c, s, r)) /\ Frame(c, Install(c, s, r))
           /\ Install(c, s, r).executed = c.executed /\ Install(c, s, r).votes = c.votes
           /\ Install(c, s, r).log =
                 IF c.log[s].committed THEN c.log ELSE [c.log EXCEPT ![s] = r]
<1> DEFINE L == [c.log EXCEPT ![s] = r]
           A == (c.assigned \ {c.log[s].req}) \cup ({r.req} \cap Put)
           h == Max({c.high, s})
<1>1. c \in Core /\ \A p \in c.promises : Ends(p.recs, p.high, -1) BY DEF GoodCore
<1>2. L \in [Slot -> Record] /\ A \in SUBSET Put BY CoreIs DEF Real
<1>3. h \in Place /\ h \in Int /\ h >= c.high /\ h >= s
  <2>1. s \in Place /\ s \in Int BY SlotInt, Bounds DEF Place, Slot
  <2>2. c.high \in Int /\ c.high \in Place BY CoreIs
  <2>3. h \in {c.high, s} /\ h >= c.high /\ h >= s BY <2>1, <2>2, MaxOfTwo
  <2> HIDE DEF h
  <2> QED BY <2>1, <2>2, <2>3
<1>4. ASSUME NEW k \in Place, k \in Int, k >= c.high, k >= s, ~c.log[s].committed
      PROVE  Ends(L, k, c.executed)
  <2> SUFFICES ASSUME NEW t \in Slot
               PROVE  Solid(L[t]) /\ (L[t].req # Hole => t <= k) /\ (t <= c.executed => L[t].committed)
    BY DEF Ends
  <2>1. Solid(c.log[t]) /\ (c.log[t].req # Hole => t <= c.high)
        /\ (t <= c.executed => c.log[t].committed)
    BY CoreIs DEF Ends
  <2>2. L[t] = IF t = s THEN r ELSE c.log[t] BY CoreIs
  <2> HIDE DEF L
  <2>3. c.high \in Int /\ t \in Int /\ c.executed \in Int BY CoreIs, SlotInt
  <2>4. CASE t = s
    <3>1. L[t] = r BY <2>2, <2>4
    <3>2. Solid(r) BY DEF Real, Solid
    <3>3. ~(t <= c.executed) BY <1>4, <2>1, <2>4
    <3> QED BY <1>4, <2>4, <3>1, <3>2, <3>3
  <2>5. CASE t # s
    <3>1. L[t] = c.log[t] BY <2>2, <2>5
    <3>2. c.log[t].req # Hole => t <= k BY <1>4, <2>1, <2>3
    <3> QED BY <2>1, <3>1, <3>2
  <2> QED BY <2>4, <2>5
<1>5. CASE c.log[s].committed
  <2>1. Install(c, s, r) = c BY <1>5 DEF Install
  <2> QED BY <1>5, <2>1 DEF Frame
<1>6. CASE ~c.log[s].committed /\ c.log[s].req = r.req
  <2> DEFINE d == [c EXCEPT !.log = L]
  <2>1. Install(c, s, r) = d BY <1>6, CoreIs DEF Install
  <2>2. d \in Core BY <1>1, <1>2 DEF Core
  <2>3. /\ d.log = L /\ d.high = c.high /\ d.executed = c.executed /\ d.pending = c.pending
        /\ d.votes = c.votes /\ d.promises = c.promises /\ Frame(c, d)
    BY <1>1 DEF Core, Frame
  <2> HIDE DEF d, L
  <2>4. s <= c.high BY <1>6, CoreIs DEF Ends, Real
  <2>5. Ends(L, c.high, c.executed) BY <1>4, <1>6, <2>4, CoreIs
  <2>6. GoodCore(d) BY <1>1, <2>2, <2>3, <2>5, CoreIs DEF GoodCore
  <2> QED BY <1>6, <2>1, <2>3, <2>6 DEF L
<1>7. CASE ~c.log[s].committed /\ c.log[s].req # r.req
  <2> DEFINE d == [c EXCEPT !.log = L, !.high = h, !.assigned = A]
  <2>1. Install(c, s, r) = d BY <1>7, CoreIs DEF Install
  <2>2. d \in Core BY <1>1, <1>2, <1>3 DEF Core
  <2>3. /\ d.log = L /\ d.high = h /\ d.executed = c.executed /\ d.pending = c.pending
        /\ d.votes = c.votes /\ d.promises = c.promises /\ Frame(c, d)
    BY <1>1 DEF Core, Frame
  <2> HIDE DEF d, L, h
  <2>4. Ends(L, h, c.executed) BY <1>3, <1>4, <1>7
  <2>5. c.executed <= h BY <1>3, CoreIs
  <2>6. GoodCore(d) BY <1>1, <2>2, <2>3, <2>4, <2>5, CoreIs DEF GoodCore
  <2> QED BY <1>7, <2>1, <2>3, <2>6 DEF L
<1> QED BY <1>5, <1>6, <1>7

\* execute: the committed prefix.
LEMMA ApplyIs ==
    ASSUME NEW c, GoodCore(c)
    PROVE  /\ GoodCore(Apply(c)) /\ Frame(c, Apply(c)) /\ Apply(c).log = c.log
           /\ \A s \in Slot : Apply(c).votes[s] \subseteq c.votes[s]
<1> DEFINE P(x) == /\ \A s \in (c.executed + 1)..x : c.log[s].committed
                   /\ x = MaxSlot \/ ~c.log[x + 1].committed
           X == {x \in c.executed..MaxSlot : \A s \in (c.executed + 1)..x : c.log[s].committed}
           e == CHOOSE x \in c.executed..MaxSlot : P(x)
           V == [s \in Slot |-> IF s \in (c.executed + 1)..e THEN {} ELSE c.votes[s]]
           R == c.pending \ {c.log[s].req : s \in (c.executed + 1)..e}
           d == [c EXCEPT !.executed = e, !.pending = R, !.votes = V]
<1>1. c \in Core /\ \A p \in c.promises : Ends(p.recs, p.high, -1) BY DEF GoodCore
<1>2. /\ c.executed \in Int /\ c.executed >= -1 /\ c.executed <= MaxSlot
      /\ c.high \in Int /\ c.executed <= c.high /\ MaxSlot \in Nat
  BY CoreIs, Bounds
<1>3. c.executed \in X /\ X \in SUBSET Int /\ X # {} /\ \A x \in X : x <= MaxSlot BY <1>2
<1>4. PICK m \in X : \A y \in X : m >= y
  <2> HIDE DEF X
  <2>1. MaxSlot \in Int BY <1>2
  <2>2. Max(X) \in X /\ \A y \in X : Max(X) >= y BY <1>3, <2>1, MaxIs
  <2> QED BY <2>2
<1>5. m \in c.executed..MaxSlot /\ P(m)
  <2>1. m \in c.executed..MaxSlot /\ \A s \in (c.executed + 1)..m : c.log[s].committed BY <1>4
  <2>2. ASSUME m # MaxSlot, c.log[m + 1].committed PROVE FALSE
    <3>1. m + 1 \in c.executed..MaxSlot BY <1>2, <2>1, <2>2
    <3>2. \A s \in (c.executed + 1)..(m + 1) : c.log[s].committed
      <4> TAKE s \in (c.executed + 1)..(m + 1)
      <4>1. s = m + 1 \/ s \in (c.executed + 1)..m BY <1>2, <2>1
      <4> QED BY <2>1, <2>2, <4>1
    <3>3. m + 1 \in X BY <3>1, <3>2
    <3> HIDE DEF X
    <3>4. m >= m + 1 BY <1>4, <3>3
    <3> QED BY <1>2, <2>1, <3>4
  <2> QED BY <2>1, <2>2
<1>6. e \in c.executed..MaxSlot /\ P(e) BY <1>5
<1>7. Apply(c) = d BY Zenon DEF Apply
<1> HIDE DEF e
<1>8. \A s \in (c.executed + 1)..e : s \in Slot BY <1>2, <1>6 DEF Slot
<1>9. V \in [Slot -> SUBSET Replica] /\ \A s \in Slot : V[s] \subseteq c.votes[s]
  <2>1. c.votes \in [Slot -> SUBSET Replica] BY CoreIs
  <2> QED BY <2>1
<1>10. R \in SUBSET Put /\ IsFiniteSet(R)
  <2>1. c.pending \in SUBSET Put /\ IsFiniteSet(c.pending) /\ R \subseteq c.pending BY CoreIs
  <2> HIDE DEF R
  <2> QED BY <2>1, FS_Subset
<1>11. e \in Place /\ e \in Int BY <1>2, <1>6 DEF Place
<1> HIDE DEF V, R
<1>12. d \in Core BY <1>1, <1>9, <1>10, <1>11 DEF Core
<1>13. /\ d.log = c.log /\ d.high = c.high /\ d.executed = e /\ d.pending = R
       /\ d.votes = V /\ d.promises = c.promises /\ Frame(c, d)
  BY <1>1 DEF Core, Frame
<1> HIDE DEF d
<1>14. ASSUME NEW t \in Slot, t <= e PROVE c.log[t].committed
  <2>1. CASE t <= c.executed BY <2>1, CoreIs DEF Ends
  <2>2. CASE ~(t <= c.executed)
    <3>1. t \in (c.executed + 1)..e BY <1>2, <1>11, <1>14, <2>2, SlotInt
    <3> QED BY <1>6, <3>1
  <2> QED BY <2>1, <2>2
<1>15. e <= c.high
  <2>1. CASE e = c.executed BY <1>2, <2>1
  <2>2. CASE e # c.executed
    <3>1. e \in Slot BY <1>2, <1>6, <1>8, <2>2
    <3>2. c.log[e].committed BY <1>11, <1>14, <3>1
    <3> QED BY <3>1, <3>2, CoreIs DEF Ends, Solid
  <2> QED BY <2>1, <2>2
<1>16. Ends(c.log, c.high, e)
  <2>1. Ends(c.log, c.high, c.executed) BY CoreIs
  <2> QED BY <2>1, <1>14 DEF Ends
<1>17. GoodCore(d) BY <1>1, <1>10, <1>12, <1>13, <1>15, <1>16 DEF GoodCore
<1> QED BY <1>7, <1>9, <1>13, <1>17

\* What a leader may do to its log in a turn: X are the votes it counts anew.
GrowsAt(X, c, d, s) ==
    /\ c.log[s].req # Hole => d.log[s].req = c.log[s].req /\ d.log[s].ballot = c.log[s].ballot
    /\ c.log[s].req = Hole /\ d.log[s].req # Hole => d.log[s].ballot = c.ballot
    /\ c.log[s].committed => d.log[s].committed
    /\ d.log[s].committed /\ ~c.log[s].committed =>
          /\ d.log[s].ballot = c.ballot /\ d.log[s].req # Hole
          /\ \E Q \in Quorums : Q \subseteq c.votes[s] \cup X[s]
    /\ \A q \in d.votes[s] : q \in c.votes[s] \/ (q \in X[s] /\ d.log[s].req # Hole)
Grows(X, c, d) == Frame(c, d) /\ \A s \in Slot : GrowsAt(X, c, d, s)

\* One after the other,
LEMMA GrowsOn ==
    ASSUME NEW X, NEW c, NEW d, NEW e, Grows(X, c, d), Grows(X, d, e)
    PROVE  Grows(X, c, e)
<1>1. Frame(c, e) /\ d.ballot = c.ballot BY DEF Grows, Frame
<1>2. ASSUME NEW s \in Slot PROVE GrowsAt(X, c, e, s)
  <2>1. GrowsAt(X, c, d, s) /\ GrowsAt(X, d, e, s) BY DEF Grows
  <2>2. d.votes[s] \subseteq c.votes[s] \cup X[s] BY <2>1 DEF GrowsAt
  <2>3. \A Q : Q \subseteq d.votes[s] \cup X[s] => Q \subseteq c.votes[s] \cup X[s] BY <2>2
  <2>4. e.log[s].committed /\ ~c.log[s].committed =>
          /\ e.log[s].ballot = c.ballot /\ e.log[s].req # Hole
          /\ \E Q \in Quorums : Q \subseteq c.votes[s] \cup X[s]
    <3> HAVE e.log[s].committed /\ ~c.log[s].committed
    <3>1. CASE d.log[s].committed
      <4>1. /\ d.log[s].ballot = c.ballot /\ d.log[s].req # Hole
            /\ \E Q \in Quorums : Q \subseteq c.votes[s] \cup X[s]
        BY <2>1, <3>1 DEF GrowsAt
      <4>2. e.log[s].ballot = c.ballot /\ e.log[s].req # Hole
        BY <1>1, <2>1, <4>1 DEF GrowsAt
      <4> QED BY <4>1, <4>2
    <3>2. CASE ~d.log[s].committed
      <4>1. /\ e.log[s].ballot = d.ballot /\ e.log[s].req # Hole
            /\ \E Q \in Quorums : Q \subseteq d.votes[s] \cup X[s]
        BY <2>1, <3>2 DEF GrowsAt
      <4> QED BY <1>1, <2>3, <4>1
    <3> QED BY <3>1, <3>2
  <2>5. \A q \in e.votes[s] : q \in c.votes[s] \/ (q \in X[s] /\ e.log[s].req # Hole)
    BY <2>1 DEF GrowsAt
  <2> QED BY <1>1, <2>1, <2>4, <2>5 DEF GrowsAt
<1> QED BY <1>1, <1>2 DEF Grows

\* or nothing at all.
LEMMA GrowsSame ==
    ASSUME NEW X, NEW c, NEW d, Frame(c, d), d.log = c.log,
           \A s \in Slot : d.votes[s] \subseteq c.votes[s]
    PROVE  Grows(X, c, d)
BY DEF Grows, GrowsAt

\* ack.
LEMMA AckedIs ==
    ASSUME NEW c, GoodCore(c), NEW from \in Replica, NEW S \in SUBSET Slot, NEW epoch,
           NEW X, \A s \in S : from \in X[s]
    PROVE  GoodCore(Acked(c, from, S, epoch)) /\ Grows(X, c, Acked(c, from, S, epoch))
<1> DEFINE counted == Counted(c, S, epoch)
           V == [s \in Slot |-> IF s \in counted THEN c.votes[s] \cup {from} ELSE c.votes[s]]
           v == [c EXCEPT !.votes = V]
           L == [s \in Slot |-> IF s \in counted /\ Chosen(v, s)
                                THEN [c.log[s] EXCEPT !.committed = TRUE] ELSE c.log[s]]
           w == [v EXCEPT !.log = L]
<1>1. c \in Core /\ \A p \in c.promises : Ends(p.recs, p.high, -1) BY DEF GoodCore
<1>2. c.votes \in [Slot -> SUBSET Replica] /\ c.log \in [Slot -> Record] BY CoreIs
<1>3. counted \subseteq S /\ \A s \in counted : s > c.executed /\ c.log[s].req # Hole
  BY DEF Counted
<1>4. Acked(c, from, S, epoch) = Apply(w)
  <2>1. v.log = c.log BY <1>1 DEF Core
  <2>2. w = [v EXCEPT !.log = [s \in Slot |-> IF s \in counted /\ Chosen(v, s)
                                      THEN [v.log[s] EXCEPT !.committed = TRUE] ELSE v.log[s]]]
    BY <2>1
  <2> HIDE DEF w
  <2> QED BY <2>2 DEF Acked
<1> HIDE DEF counted
<1>5. V \in [Slot -> SUBSET Replica] BY <1>2
<1>6. v \in Core BY <1>1, <1>5 DEF Core
<1>7. /\ v.votes = V /\ v.log = c.log /\ v.ballot = c.ballot /\ v.high = c.high
      /\ v.executed = c.executed /\ v.pending = c.pending /\ v.promises = c.promises /\ Frame(c, v)
  BY <1>1 DEF Core, Frame
<1>8. \A s \in Slot : V[s] = IF s \in counted THEN c.votes[s] \cup {from} ELSE c.votes[s]
  OBVIOUS
<1> HIDE DEF v, V
<1>9. \A s \in Slot :
         /\ L[s] \in Record
         /\ L[s] = c.log[s] \/ (s \in counted /\ Chosen(v, s) /\ L[s].committed)
         /\ L[s].req = c.log[s].req /\ L[s].ballot = c.log[s].ballot
         /\ c.log[s].committed => L[s].committed
  <2> TAKE s \in Slot
  <2>1. c.log[s] \in Record BY <1>2
  <2> DEFINE r == [c.log[s] EXCEPT !.committed = TRUE]
  <2>2. /\ r \in Record /\ r.req = c.log[s].req /\ r.ballot = c.log[s].ballot /\ r.committed
    BY <2>1 DEF Record
  <2>3. L[s] = IF s \in counted /\ Chosen(v, s) THEN r ELSE c.log[s] OBVIOUS
  <2> HIDE DEF r, L
  <2> QED BY <2>1, <2>2, <2>3
<1>10. L \in [Slot -> Record]
  <2>1. L = [s \in Slot |-> L[s]] OBVIOUS
  <2> HIDE DEF L
  <2> QED BY <1>9, <2>1
<1> HIDE DEF L
<1>11. w \in Core BY <1>6, <1>10 DEF Core
<1>12. /\ w.votes = V /\ w.log = L /\ w.ballot = c.ballot /\ w.high = c.high
       /\ w.executed = c.executed /\ w.pending = c.pending /\ w.promises = c.promises /\ Frame(c, w)
  BY <1>6, <1>7 DEF Core, Frame
<1> HIDE DEF w
<1>13. Ends(L, c.high, c.executed)
  <2> SUFFICES ASSUME NEW t \in Slot
               PROVE  Solid(L[t]) /\ (L[t].req # Hole => t <= c.high)
                      /\ (t <= c.executed => L[t].committed)
    BY DEF Ends
  <2>1. Solid(c.log[t]) /\ (c.log[t].req # Hole => t <= c.high)
        /\ (t <= c.executed => c.log[t].committed)
    BY CoreIs DEF Ends
  <2>2. L[t].committed => L[t].req # Hole BY <1>3, <1>9, <2>1 DEF Solid
  <2> QED BY <1>9, <2>1, <2>2 DEF Solid
<1>14. GoodCore(w) BY <1>1, <1>11, <1>12, <1>13, CoreIs DEF GoodCore
<1>15. Grows(X, c, w)
  <2> SUFFICES ASSUME NEW s \in Slot PROVE GrowsAt(X, c, w, s) BY <1>12 DEF Grows
  <2>1. \A q \in V[s] : q \in c.votes[s] \/ (q \in X[s] /\ L[s].req # Hole)
    BY <1>3, <1>8, <1>9
  <2>2. L[s].committed /\ ~c.log[s].committed =>
           /\ L[s].ballot = c.ballot /\ L[s].req # Hole
           /\ \E Q \in Quorums : Q \subseteq c.votes[s] \cup X[s]
    <3> HAVE L[s].committed /\ ~c.log[s].committed
    <3>1. s \in counted /\ Chosen(v, s) BY <1>9
    <3>2. c.log[s].ballot = c.ballot /\ Cardinality(V[s]) >= Quorum BY <1>7, <3>1 DEF Chosen
    <3>3. V[s] \in Quorums BY <1>5, <3>2 DEF Quorums
    <3>4. V[s] \subseteq c.votes[s] \cup X[s] BY <1>3, <1>8, <3>1
    <3> QED BY <1>3, <1>9, <3>1, <3>2, <3>3, <3>4
  <2>3. c.log[s].req = Hole => L[s].req = Hole BY <1>9
  <2> QED BY <1>9, <1>12, <2>1, <2>2, <2>3 DEF GrowsAt
<1>16. GoodCore(Apply(w)) /\ Frame(w, Apply(w)) /\ Apply(w).log = w.log
       /\ \A s \in Slot : Apply(w).votes[s] \subseteq w.votes[s]
  BY <1>14, ApplyIs
<1>17. Grows(X, w, Apply(w)) BY <1>16, GrowsSame
<1> QED BY <1>4, <1>15, <1>16, <1>17, GrowsOn

\* A filler is a record.
LEMMA FillerIs ==
    ASSUME NEW b \in Ballot, NEW e \in 0..MaxEpoch
    PROVE  /\ Real(Filler(b, e)) /\ Filler(b, e).ballot = b /\ ~Filler(b, e).committed
           /\ Filler(b, e).req = Noop
<1>1. b \in -1..MaxBallot BY Bounds DEF Ballot
<1>2. Noop # Hole BY PutAssumption
<1> QED BY <1>1, <1>2 DEF Real, Record, Filler

\* fillCatchup.
LEMMA FillCatchupIs ==
    ASSUME NEW c, GoodCore(c), NEW e \in 0..MaxEpoch, NEW X
    PROVE  GoodCore(FillCatchup(c, e)) /\ Grows(X, c, FillCatchup(c, e))
<1> DEFINE top == Min({c.catchupTarget, c.high + PageSize, c.executed + AdmissionWindow, MaxSlot})
           S == (c.high + 1)..top
           f == Filler(c.ballot, e)
           L == [s \in Slot |-> IF s \in S THEN f ELSE c.log[s]]
           d == [c EXCEPT !.high = top, !.log = L]
<1>1. c \in Core /\ \A p \in c.promises : Ends(p.recs, p.high, -1) BY DEF GoodCore
<1>2. /\ c.executed \in Int /\ c.executed >= -1 /\ c.executed <= c.high
      /\ c.high \in Int /\ c.catchupTarget \in Int /\ MaxSlot \in Int
  BY CoreIs, Bounds DEF Place
<1>3. top \in Int /\ top <= MaxSlot
  <2>1. c.high + PageSize \in Int /\ c.executed + AdmissionWindow \in Int BY <1>2, Bounds
  <2> QED BY <1>2, <2>1, MinOfFew
<1>4. FillCatchup(c, e) = IF S = {} THEN c ELSE d BY DEF FillCatchup
<1> HIDE DEF top
<1>5. CASE S = {}
  <2>1. FillCatchup(c, e) = c BY <1>4, <1>5
  <2> QED BY <2>1, GrowsSame DEF Frame
<1>6. CASE S # {}
  <2>1. top > c.high BY <1>2, <1>3, <1>6
  <2>2. top \in Place BY <1>2, <1>3, <2>1 DEF Place
  <2>3. Real(f) /\ f.ballot = c.ballot /\ ~f.committed BY CoreIs, FillerIs
  <2>4. c.log \in [Slot -> Record] BY CoreIs
  <2>5. L \in [Slot -> Record] BY <2>3, <2>4 DEF Real
  <2>6. \A s \in Slot : L[s] = IF s \in S THEN f ELSE c.log[s] OBVIOUS
  <2> HIDE DEF L, f
  <2>7. d \in Core BY <1>1, <2>2, <2>5 DEF Core
  <2>8. /\ d.log = L /\ d.high = top /\ d.executed = c.executed /\ d.pending = c.pending
        /\ d.votes = c.votes /\ d.promises = c.promises /\ Frame(c, d)
    BY <1>1 DEF Core, Frame
  <2> HIDE DEF d
  <2>9. ASSUME NEW t \in Slot
        PROVE  /\ Solid(L[t]) /\ (L[t].req # Hole => t <= top)
               /\ (t <= c.executed => L[t].committed)
               /\ t \in S => c.log[t].req = Hole
    <3>1. /\ Solid(c.log[t]) /\ (c.log[t].req # Hole => t <= c.high)
          /\ (t <= c.executed => c.log[t].committed)
      BY CoreIs DEF Ends
    <3>2. t \in Int BY SlotInt
    <3>3. CASE t \in S BY <1>2, <1>3, <2>3, <2>6, <3>1, <3>2, <3>3 DEF Real, Solid
    <3>4. CASE t \notin S BY <1>2, <1>3, <2>1, <2>6, <3>1, <3>2, <3>4
    <3> QED BY <3>3, <3>4
  <2>10. Ends(L, top, c.executed) BY <2>9 DEF Ends
  <2>11. GoodCore(d) BY <1>1, <1>2, <1>3, <2>1, <2>7, <2>8, <2>10, CoreIs DEF GoodCore
  <2>12. ASSUME NEW s \in Slot PROVE GrowsAt(X, c, d, s)
    <3>1. CASE s \in S
      <4>1. c.log[s].req = Hole /\ ~c.log[s].committed BY <2>9, <3>1, CoreIs DEF Ends, Solid
      <4>2. L[s].ballot = c.ballot /\ ~L[s].committed BY <2>3, <2>6, <3>1
      <4> QED BY <2>8, <4>1, <4>2 DEF GrowsAt
    <3>2. CASE s \notin S BY <2>6, <2>8, <3>2 DEF GrowsAt
    <3> QED BY <3>1, <3>2
  <2> QED BY <1>4, <1>6, <2>8, <2>11, <2>12 DEF Grows
<1> QED BY <1>5, <1>6

-----------------------------------------------------------------------------
(***************************************************************************)
(* Policies.                                                               *)
(***************************************************************************)
\* The configurations and an epoch of theirs.
Configured(e) == /\ configs \in Seq(Policy) /\ Len(configs) <= MaxEpoch
                 /\ e \in Genesis..Len(configs)

\* The configuration of an epoch.
LEMMA EpochIs ==
    ASSUME NEW e, Configured(e)
    PROVE  e \in 0..MaxEpoch /\ e \in Genesis..MaxEpoch /\ configs[e] \in Policy
<1>1. Len(configs) \in Nat /\ DOMAIN configs = 1..Len(configs) BY DEF Configured
<1>2. e \in 1..Len(configs) BY DEF Configured, Genesis
<1>3. configs[e] \in Policy BY <1>2 DEF Configured
<1>4. Len(configs) <= MaxEpoch BY DEF Configured
<1> QED BY <1>1, <1>2, <1>3, <1>4, Bounds DEF Genesis

\* Holders and acceptors are replicas.
LEMMA NotifyIs ==
    ASSUME NEW e, Configured(e), NEW req PROVE NotifyMask(configs[e], req) \in SUBSET Replica
<1>1. configs[e] \in Policy BY EpochIs
<1>2. configs[e].leader \in Replica /\ configs[e].holders \in SUBSET Replica BY <1>1 DEF Policy
<1> QED BY <1>2 DEF NotifyMask, HolderMask

\* The receivers of an offer are replicas.
LEMMA WriteMaskIs ==
    ASSUME NEW e, Configured(e), NEW req PROVE WriteMask(configs[e], req) \in SUBSET Replica
<1>1. configs[e] \in Policy BY EpochIs
<1>2. configs[e].leader \in Replica /\ configs[e].holders \in SUBSET Replica BY <1>1 DEF Policy
<1>3. HolderMask(configs[e]) \in SUBSET Replica BY <1>2 DEF HolderMask
<1>4. ASSUME NEW M \in SUBSET Replica, NEW P \in SUBSET Replica
      PROVE  Fill(M, P) \in SUBSET Replica
  BY DEF Fill, Lowest
<1> DEFINE m == {configs[e].leader} \cup (IF req \in Put THEN HolderMask(configs[e]) ELSE {})
           f == Fill(m, DefaultMask \ configs[e].excluded)
<1>5. m \in SUBSET Replica BY <1>2, <1>3
<1>6. DefaultMask \ configs[e].excluded \in SUBSET Replica BY PolicyAssumption
<1>7. f \in SUBSET Replica BY <1>4, <1>5, <1>6
<1>8. WriteMask(configs[e], req) = Fill(f, Replica \ configs[e].excluded) BY DEF WriteMask
<1> HIDE DEF f
<1> QED BY <1>4, <1>7, <1>8

\* sendSuffix: the epoch and the holders of the records that are not executed.
LEMMA RelabelledIs ==
    ASSUME NEW c, GoodCore(c), NEW e, Configured(e), NEW X
    PROVE  GoodCore(Relabelled(c, e)) /\ Grows(X, c, Relabelled(c, e))
<1> DEFINE L == [s \in Slot |-> IF s \in Suffix(c)
                  THEN [c.log[s] EXCEPT !.epoch = e,
                                        !.notify = NotifyMask(configs[e], c.log[s].req)]
                  ELSE c.log[s]]
           V == [s \in Slot |-> IF L[s] # c.log[s] THEN {} ELSE c.votes[s]]
           d == [c EXCEPT !.log = L, !.votes = V]
<1>1. c \in Core /\ \A p \in c.promises : Ends(p.recs, p.high, -1) BY DEF GoodCore
<1>2. Relabelled(c, e) = d BY DEF Relabelled
<1>3. c.votes \in [Slot -> SUBSET Replica] /\ c.log \in [Slot -> Record] BY CoreIs
<1>4. \A s \in Slot : /\ L[s] \in Record /\ L[s].req = c.log[s].req
                      /\ L[s].ballot = c.log[s].ballot /\ L[s].committed = c.log[s].committed
  <2> TAKE s \in Slot
  <2>1. c.log[s] \in Record BY <1>3
  <2> DEFINE n == NotifyMask(configs[e], c.log[s].req)
             r == [c.log[s] EXCEPT !.epoch = e, !.notify = n]
  <2>2. n \in SUBSET Replica /\ e \in 0..MaxEpoch BY NotifyIs, EpochIs
  <2>3. L[s] = IF s \in Suffix(c) THEN r ELSE c.log[s] OBVIOUS
  <2> HIDE DEF n, L
  <2>4. /\ r \in Record /\ r.req = c.log[s].req /\ r.ballot = c.log[s].ballot
        /\ r.committed = c.log[s].committed
    BY <2>1, <2>2 DEF Record
  <2> HIDE DEF r
  <2> QED BY <2>1, <2>3, <2>4
<1>5. L \in [Slot -> Record]
  <2>1. L = [s \in Slot |-> L[s]] OBVIOUS
  <2> HIDE DEF L
  <2> QED BY <1>4, <2>1
<1> HIDE DEF L
<1>6. V \in [Slot -> SUBSET Replica] /\ \A s \in Slot : V[s] \subseteq c.votes[s] BY <1>3
<1> HIDE DEF V
<1>7. d \in Core BY <1>1, <1>5, <1>6 DEF Core
<1>8. /\ d.log = L /\ d.high = c.high /\ d.executed = c.executed /\ d.pending = c.pending
      /\ d.votes = V /\ d.promises = c.promises /\ Frame(c, d)
  BY <1>1 DEF Core, Frame
<1> HIDE DEF d
<1>9. Ends(L, c.high, c.executed)
  <2>1. Ends(c.log, c.high, c.executed) BY CoreIs
  <2> QED BY <1>4, <2>1 DEF Ends, Solid
<1>10. GoodCore(d) BY <1>1, <1>7, <1>8, <1>9, CoreIs DEF GoodCore
<1>11. Grows(X, c, d) BY <1>4, <1>6, <1>8 DEF Grows, GrowsAt
<1> QED BY <1>2, <1>10, <1>11

\* The fresh requests among the first k of the queue.
LEMMA FreshIs ==
    ASSUME NEW c, NEW k \in Int
    PROVE  /\ Fresh(c, k) \subseteq 1..k /\ IsFiniteSet(Fresh(c, k))
           /\ Cardinality(Fresh(c, k)) \in Nat
<1>1. Fresh(c, k) \subseteq 1..k BY DEF Fresh
<1>2. IsFiniteSet(1..k) BY FS_Interval
<1>3. IsFiniteSet(Fresh(c, k)) BY <1>1, <1>2, FS_Subset
<1> QED BY <1>1, <1>3, CardNat

\* flush takes no more requests than there is room, each for a slot beyond the log.
LEMMA TakenIs ==
    ASSUME NEW c, GoodCore(c), NEW T, T = {k \in Popped(c) : k \in Fresh(c, k)}
    PROVE  /\ T \subseteq 1..Len(c.queue) /\ Cardinality(T) \in Nat
           /\ c.high + Cardinality(T) <= MaxSlot
           /\ \A k \in T : /\ Cardinality(Fresh(c, k)) \in Nat
                           /\ Cardinality(Fresh(c, k)) >= 1
                           /\ Cardinality(Fresh(c, k)) <= Cardinality(T)
           /\ \A j \in 1..Cardinality(T) : \E k \in T : Cardinality(Fresh(c, k)) = j
<1> DEFINE n == Len(c.queue)
           R == Room(c)
<1>1. n \in Nat /\ DOMAIN c.queue = 1..n
  <2>1. c.queue \in Seq(Put) BY CoreIs
  <2> QED BY <2>1
<1>2. c.high \in Int /\ c.executed \in Int /\ MaxSlot \in Int /\ c.high <= MaxSlot
  BY CoreIs, Bounds
<1>3. R \in Int /\ R <= MaxSlot - c.high
  <2> DEFINE x == AdmissionWindow - (c.high - c.executed)
             y == MaxSlot - c.high
  <2>1. PageSize \in Int /\ x \in Int /\ y \in Int BY <1>2, Bounds
  <2>2. R = Min({PageSize, x, y, y})
    <3>1. {PageSize, x, y, y} = {PageSize, x, y} OBVIOUS
    <3> QED BY <3>1 DEF Room
  <2> HIDE DEF x, R
  <2>3. R \in Int /\ R <= y BY <2>1, <2>2, MinOfFew
  <2> QED BY <2>3
<1> HIDE DEF R
<1>4. T \subseteq 1..n /\ \A k \in T : k \in Fresh(c, k) /\ Cardinality(Fresh(c, k - 1)) < R
  BY <1>1 DEF Popped, R
<1>5. IsFiniteSet(T) /\ Cardinality(T) \in Nat
  <2>1. IsFiniteSet(1..n) BY <1>1, FS_Interval
  <2> QED BY <1>4, <2>1, FS_Subset, CardNat
<1>6. ASSUME NEW k \in T
      PROVE  /\ Cardinality(Fresh(c, k)) \in Nat /\ Cardinality(Fresh(c, k)) >= 1
             /\ Cardinality(Fresh(c, k)) <= Cardinality(T)
             /\ Cardinality(Fresh(c, k)) <= R
             /\ k \in Fresh(c, k) /\ Fresh(c, k) \subseteq T
             /\ Cardinality(Fresh(c, k)) = Cardinality(Fresh(c, k - 1)) + 1
             /\ Cardinality(Fresh(c, k - 1)) \in Nat
  <2>1. k \in 1..n /\ k \in Fresh(c, k) /\ Cardinality(Fresh(c, k - 1)) < R BY <1>4
  <2>2. k \in Int /\ k - 1 \in Int BY <1>1, <2>1
  <2>3. /\ IsFiniteSet(Fresh(c, k)) /\ Cardinality(Fresh(c, k)) \in Nat
        /\ IsFiniteSet(Fresh(c, k - 1)) /\ Cardinality(Fresh(c, k - 1)) \in Nat
    BY <2>2, FreshIs
  <2>4. Fresh(c, k) = Fresh(c, k - 1) \cup {k}
    <3>1. \A a : a \in 1..k <=> a \in 1..(k - 1) \/ a = k BY <1>1, <2>1
    <3> QED BY <2>1, <3>1 DEF Fresh
  <2>5. k \notin Fresh(c, k - 1) BY <2>1, <2>2 DEF Fresh
  <2>6. Cardinality(Fresh(c, k)) = Cardinality(Fresh(c, k - 1)) + 1
    BY <2>3, <2>4, <2>5, FS_AddElement
  <2>7. Fresh(c, k) \subseteq T
    <3> SUFFICES ASSUME NEW a \in Fresh(c, k) PROVE a \in T OBVIOUS
    <3>1. a \in 1..k BY DEF Fresh
    <3>2. a \in 1..n /\ a \in Int /\ a - 1 \in Int BY <1>1, <2>1, <3>1
    <3>3. a \in Fresh(c, a) BY <3>1, <3>2 DEF Fresh
    <3>4. Fresh(c, a - 1) \subseteq Fresh(c, k - 1)
      <4>1. \A b \in 1..(a - 1) : b \in 1..(k - 1) BY <2>2, <3>1, <3>2
      <4> QED BY <4>1 DEF Fresh
    <3>5. Cardinality(Fresh(c, a - 1)) <= Cardinality(Fresh(c, k - 1))
          /\ Cardinality(Fresh(c, a - 1)) \in Nat
      BY <2>3, <3>2, <3>4, FS_Subset, FreshIs
    <3>6. Cardinality(Fresh(c, a - 1)) < R BY <1>3, <2>1, <2>3, <3>5
    <3> QED BY <1>1, <3>2, <3>3, <3>6 DEF Popped, R
  <2>8. Cardinality(Fresh(c, k)) <= Cardinality(T) BY <1>5, <2>7, FS_Subset
  <2> QED BY <1>3, <2>1, <2>3, <2>6, <2>7, <2>8
<1>7. c.high + Cardinality(T) <= MaxSlot
  <2>1. CASE T = {}
    <3>1. Cardinality(T) = 0 BY <2>1, FS_EmptySet
    <3> QED BY <1>2, <3>1
  <2>2. CASE T # {}
    <3>1. T \in SUBSET Int /\ \A k \in T : k <= n BY <1>1, <1>4
    <3>2. n \in Int BY <1>1
    <3>3. PICK m \in T : \A k \in T : m >= k BY <2>2, <3>1, <3>2, MaxIs
    <3>4. T \subseteq Fresh(c, m)
      <4> SUFFICES ASSUME NEW k \in T PROVE k \in Fresh(c, m) OBVIOUS
      <4>1. k \in 1..n /\ k \in Fresh(c, k) /\ m >= k /\ m \in 1..n BY <1>4, <3>3
      <4>2. k \in 1..m BY <1>1, <4>1
      <4> QED BY <4>1, <4>2 DEF Fresh
    <3>5. m \in Int BY <3>1, <3>3
    <3>6. Cardinality(T) <= Cardinality(Fresh(c, m)) BY <3>4, <3>5, FreshIs, FS_Subset
    <3>7. Cardinality(Fresh(c, m)) <= R /\ Cardinality(Fresh(c, m)) \in Nat BY <1>6
    <3> QED BY <1>2, <1>3, <1>5, <3>6, <3>7
  <2> QED BY <2>1, <2>2
<1>8. \A k \in T : k \in Int /\ k - 1 \in Int /\ k \in Nat BY <1>1, <1>4
<1>9. ASSUME NEW a \in T, NEW b \in T, a <= b PROVE Fresh(c, a) \subseteq Fresh(c, b)
  <2>1. \A x \in 1..a : x \in 1..b BY <1>8, <1>9
  <2> QED BY <2>1 DEF Fresh
<1>10. ASSUME NEW j \in 1..Cardinality(T)
       PROVE  \E k \in T : Cardinality(Fresh(c, k)) = j
  <2> DEFINE K == {k \in T : Cardinality(Fresh(c, k)) >= j}
  <2>1. j \in Nat /\ j >= 1 /\ j <= Cardinality(T) BY <1>5
  <2>2. T # {}
    <3>1. T = {} => Cardinality(T) = 0 BY FS_EmptySet
    <3> QED BY <2>1, <3>1
  <2>3. K # {}
    <3>1. T \in SUBSET Int /\ (\A k \in T : k <= n) /\ n \in Int BY <1>1, <1>4
    <3>2. PICK m \in T : \A k \in T : m >= k BY <2>2, <3>1, MaxIs
    <3>3. T \subseteq Fresh(c, m)
      <4> SUFFICES ASSUME NEW k \in T PROVE k \in Fresh(c, m) OBVIOUS
      <4>1. k <= m BY <1>8, <3>2
      <4>2. k \in Fresh(c, k) BY <1>6
      <4> QED BY <1>9, <4>1, <4>2
    <3>4. m \in Int BY <1>8
    <3>5. Cardinality(T) <= Cardinality(Fresh(c, m)) BY <3>3, <3>4, FreshIs, FS_Subset
    <3>6. Cardinality(Fresh(c, m)) \in Nat BY <1>6
    <3>7. Cardinality(Fresh(c, m)) >= j BY <1>5, <2>1, <3>5, <3>6
    <3> QED BY <3>7
  <2>4. K \in SUBSET Nat BY <1>8
  <2>5. PICK k \in K : \A x \in K : k <= x BY <2>3, <2>4, Smallest
  <2>6. k \in T /\ Cardinality(Fresh(c, k)) >= j OBVIOUS
  <2>7. k \in Int /\ k - 1 \in Int BY <1>8, <2>6
  <2> DEFINE F == Fresh(c, k - 1)
  <2>8. Cardinality(Fresh(c, k)) = Cardinality(F) + 1 /\ Cardinality(F) \in Nat BY <1>6, <2>6
  <2>9. Cardinality(F) < j
    <3>1. CASE F = {}
      <4>1. Cardinality(F) = 0 BY <3>1, FS_EmptySet
      <4> QED BY <2>1, <4>1
    <3>2. CASE F # {}
      <4>1. F \subseteq 1..(k - 1) /\ F \subseteq T
        <5>1. F \subseteq 1..(k - 1) BY <2>7, FreshIs
        <5>2. F \subseteq Fresh(c, k)
          <6>1. \A x \in 1..(k - 1) : x \in 1..k BY <2>7
          <6> QED BY <6>1 DEF Fresh
        <5>3. Fresh(c, k) \subseteq T BY <1>6, <2>6
        <5> QED BY <5>1, <5>2, <5>3
      <4>2. F \in SUBSET Int /\ \A x \in F : x <= k - 1 BY <2>7, <4>1
      <4> HIDE DEF F
      <4>3. PICK m \in F : \A x \in F : m >= x BY <2>7, <3>2, <4>2, MaxIs
      <4>4. m \in T /\ m <= k - 1 /\ m \in Int BY <4>1, <4>2
      <4>5. m \notin K
        <5>1. ~(k <= m) BY <2>7, <4>4
        <5> HIDE DEF K
        <5> QED BY <2>5, <5>1
      <4>6. Cardinality(Fresh(c, m)) \in Nat /\ IsFiniteSet(Fresh(c, m)) BY <4>4, FreshIs
      <4>7. Cardinality(Fresh(c, m)) < j BY <2>1, <4>4, <4>5, <4>6
      <4>8. F \subseteq Fresh(c, m)
        <5> SUFFICES ASSUME NEW x \in F PROVE x \in Fresh(c, m) OBVIOUS
        <5>1. x \in T /\ x <= m BY <4>1, <4>2, <4>3, <4>4
        <5>2. x \in Fresh(c, x) BY <1>6, <5>1
        <5> QED BY <1>9, <4>4, <5>1, <5>2
      <4>9. Cardinality(F) <= Cardinality(Fresh(c, m)) BY <4>6, <4>8, FS_Subset
      <4> QED BY <2>1, <2>8, <4>6, <4>7, <4>9
    <3> QED BY <3>1, <3>2
  <2>10. Cardinality(Fresh(c, k)) = j BY <2>1, <2>6, <2>8, <2>9
  <2> QED BY <2>6, <2>10
<1> QED BY <1>4, <1>5, <1>6, <1>7, <1>10

\* flush: what it puts into the log.
LEMMA OrderedIs ==
    ASSUME NEW c, GoodCore(c), NEW e, Configured(e), NEW X
    PROVE  /\ GoodCore(Ordered(c, e)) /\ Grows(X, c, Ordered(c, e))
           /\ c.high + 1 \in Nat /\ Ordered(c, e).high <= MaxSlot /\ Ordered(c, e).high \in Int
           /\ \A s \in (c.high + 1)..Ordered(c, e).high :
                 s \in Slot /\ Ordered(c, e).log[s].req # Hole
<1> DEFINE taken == {k \in Popped(c) : k \in Fresh(c, k)}
           at(k) == c.high + Cardinality(Fresh(c, k))
           rec(r) == [req |-> r, ballot |-> c.ballot, committed |-> FALSE, epoch |-> e,
                      notify |-> NotifyMask(configs[e], r)]
           pick(s) == CHOOSE k \in taken : at(k) = s
           L == [s \in Slot |-> IF \E k \in taken : at(k) = s
                                THEN rec(c.queue[pick(s)]) ELSE c.log[s]]
           A == c.assigned \cup {c.queue[k] : k \in taken}
           Q == SubSeq(c.queue, Cardinality(Popped(c)) + 1, Len(c.queue))
           h == c.high + Cardinality(taken)
           d == [c EXCEPT !.queue = Q, !.high = h, !.assigned = A, !.log = L]
<1>1. c \in Core /\ \A p \in c.promises : Ends(p.recs, p.high, -1) BY DEF GoodCore
<1>2. Ordered(c, e) = d BY Zenon DEF Ordered
<1>3. /\ taken \subseteq 1..Len(c.queue) /\ Cardinality(taken) \in Nat
      /\ c.high + Cardinality(taken) <= MaxSlot
      /\ \A k \in taken : /\ Cardinality(Fresh(c, k)) \in Nat
                          /\ Cardinality(Fresh(c, k)) >= 1
                          /\ Cardinality(Fresh(c, k)) <= Cardinality(taken)
      /\ \A j \in 1..Cardinality(taken) : \E k \in taken : Cardinality(Fresh(c, k)) = j
  <2> HIDE DEF taken
  <2>1. taken = {k \in Popped(c) : k \in Fresh(c, k)} BY DEF taken
  <2> QED BY <2>1, TakenIs
<1>4. c.queue \in Seq(Put) /\ \A k \in 1..Len(c.queue) : c.queue[k] \in Put
  <2>1. c.queue \in Seq(Put) BY CoreIs
  <2> QED BY <2>1
<1>5. Q \in Seq(Put)
  <2>1. Popped(c) \subseteq 1..Len(c.queue) /\ Len(c.queue) \in Nat BY <1>4 DEF Popped
  <2>2. IsFiniteSet(1..Len(c.queue)) BY <2>1, FS_Interval
  <2>3. Cardinality(Popped(c)) \in Nat BY <2>1, <2>2, FS_Subset, CardNat
  <2> DEFINE m == Cardinality(Popped(c)) + 1
  <2>4. m \in 1..(Len(c.queue) + 1) \/ m > Len(c.queue) + 1 BY <2>1, <2>3
  <2>5. m \in Nat /\ m >= 1 BY <2>3
  <2> HIDE DEF m
  <2>6. SubSeq(c.queue, m, Len(c.queue)) \in Seq(Put) BY <1>4, <2>1, <2>5
  <2> QED BY <2>6 DEF m
<1>6. /\ c.high \in Int /\ c.high >= -1 /\ c.executed \in Int /\ c.executed <= c.high /\ MaxSlot \in Int
  BY CoreIs, Bounds
<1>7. h \in Int /\ h \in Place /\ h >= c.high /\ h <= MaxSlot
  <2> HIDE DEF taken
  <2> QED BY <1>3, <1>6 DEF Place
<1>8. ASSUME NEW s \in Slot, NEW k \in taken, at(k) = s PROVE s > c.high /\ s <= h
  <2> HIDE DEF taken
  <2> QED BY <1>3, <1>6, <1>8
<1>9. A \in SUBSET Put
  <2>1. c.assigned \in SUBSET Put BY CoreIs
  <2> HIDE DEF taken
  <2> QED BY <1>3, <1>4, <2>1
<1>10. ASSUME NEW r \in Put
       PROVE  Real(rec(r)) /\ rec(r).ballot = c.ballot /\ ~rec(r).committed
  <2>1. NotifyMask(configs[e], r) \in SUBSET Replica /\ e \in 0..MaxEpoch BY NotifyIs, EpochIs
  <2>2. c.ballot \in Ballot /\ c.ballot \in -1..MaxBallot BY CoreIs, Bounds DEF Ballot
  <2>3. r # Hole BY PutAssumption
  <2> QED BY <2>1, <2>2, <2>3 DEF Real, Record
<1>11. ASSUME NEW s \in Slot
       PROVE  \/ L[s] = c.log[s]
              \/ /\ Real(L[s]) /\ L[s].ballot = c.ballot /\ ~L[s].committed
                 /\ s > c.high /\ s <= h
  <2>1. CASE \E k \in taken : at(k) = s
    <3>1. pick(s) \in taken /\ at(pick(s)) = s BY <2>1
    <3>2. L[s] = rec(c.queue[pick(s)]) BY <2>1
    <3>3. s > c.high /\ s <= h BY <1>8, <3>1
    <3> HIDE DEF pick, taken, L, rec
    <3>4. c.queue[pick(s)] \in Put BY <1>3, <1>4, <3>1
    <3> QED BY <1>10, <3>2, <3>3, <3>4
  <2>2. CASE ~\E k \in taken : at(k) = s
    <3> HIDE DEF taken, at, rec, pick
    <3> QED BY <2>2
  <2> QED BY <2>1, <2>2
<1>19. ASSUME NEW s \in (c.high + 1)..h PROVE s \in Slot /\ L[s].req # Hole
  <2> DEFINE j == s - c.high
  <2>1. s \in Int /\ j \in 1..Cardinality(taken)
    <3> HIDE DEF taken
    <3> QED BY <1>3, <1>6
  <2>2. s \in Slot
    <3> HIDE DEF taken, h
    <3> QED BY <1>6, <1>7, <1>19 DEF Slot
  <2>3. PICK k \in taken : Cardinality(Fresh(c, k)) = j
    <3> HIDE DEF taken, j
    <3> QED BY <1>3, <2>1
  <2>4. at(k) = s
    <3> HIDE DEF taken
    <3> QED BY <1>6, <2>1, <2>3
  <2>5. \E x \in taken : at(x) = s BY <2>4
  <2>6. pick(s) \in taken /\ at(pick(s)) = s BY <2>5
  <2>7. L[s] = rec(c.queue[pick(s)]) BY <2>2, <2>5
  <2> HIDE DEF pick, taken, L, rec
  <2>8. c.queue[pick(s)] \in Put BY <1>3, <1>4, <2>6
  <2> QED BY <1>10, <2>2, <2>7, <2>8 DEF Real
<1>12. L \in [Slot -> Record]
  <2>1. L = [s \in Slot |-> L[s]] OBVIOUS
  <2>2. c.log \in [Slot -> Record] BY CoreIs
  <2> HIDE DEF L
  <2>3. \A s \in Slot : L[s] \in Record BY <1>11, <2>2 DEF Real
  <2> QED BY <2>1, <2>3
<1> HIDE DEF L, A, Q, h
<1>13. d \in Core BY <1>1, <1>5, <1>7, <1>9, <1>12 DEF Core
<1>14. /\ d.log = L /\ d.high = h /\ d.executed = c.executed /\ d.pending = c.pending
       /\ d.votes = c.votes /\ d.promises = c.promises /\ Frame(c, d)
  BY <1>1 DEF Core, Frame
<1> HIDE DEF d
<1>15. ASSUME NEW t \in Slot
       PROVE  /\ Solid(L[t]) /\ (L[t].req # Hole => t <= h)
              /\ (t <= c.executed => L[t].committed)
              /\ L[t] = c.log[t] \/ (L[t].ballot = c.ballot /\ ~L[t].committed /\ c.log[t].req = Hole)
  <2>1. /\ Solid(c.log[t]) /\ (c.log[t].req # Hole => t <= c.high)
        /\ (t <= c.executed => c.log[t].committed)
    BY CoreIs DEF Ends
  <2>2. t \in Int BY SlotInt
  <2>3. CASE L[t] = c.log[t]
    <3>1. L[t].req # Hole => t <= h BY <1>6, <1>7, <2>1, <2>2, <2>3
    <3> QED BY <2>1, <2>3, <3>1
  <2>4. CASE /\ Real(L[t]) /\ L[t].ballot = c.ballot /\ ~L[t].committed
             /\ t > c.high /\ t <= h
    BY <1>6, <2>1, <2>2, <2>4 DEF Real, Solid
  <2> QED BY <1>11, <2>3, <2>4
<1>16. Ends(L, h, c.executed) BY <1>15 DEF Ends
<1>17. GoodCore(d) BY <1>1, <1>6, <1>7, <1>13, <1>14, <1>16, CoreIs DEF GoodCore
<1>18. ASSUME NEW s \in Slot PROVE GrowsAt(X, c, d, s)
  <2>1. c.log[s].committed => c.log[s].req # Hole BY CoreIs DEF Ends, Solid
  <2> QED BY <1>14, <1>15, <2>1 DEF GrowsAt
<1>20. \A s \in (c.high + 1)..d.high : s \in Slot /\ d.log[s].req # Hole BY <1>14, <1>19
<1> QED BY <1>2, <1>6, <1>7, <1>14, <1>17, <1>18, <1>20 DEF Grows
=============================================================================
