---------------------------- MODULE PQLTheorems -----------------------------
(***************************************************************************)
(* Theorems about the log of PQL, for every number of replicas, all bounds *)
(* and every environment: every turn of a replica advances the protocol, so*)
(* that Agreement and TypeOK hold whatever is lost, late or repeated.      *)
(***************************************************************************)
EXTENDS PQLProofs

-----------------------------------------------------------------------------
(***************************************************************************)
(* What a turn does to one core, step by step.                             *)
(***************************************************************************)
\* A core whose log, votes and role are the same.
Still(c, d) == /\ Frame(c, d) /\ d.log = c.log /\ d.votes = c.votes
               /\ d.executed = c.executed /\ d.high = c.high
\* The same of a core in which the invariants see no change.
Unmoved(c, d) == /\ d.ballot = c.ballot /\ d.leader = c.leader /\ d.preparing = c.preparing
                 /\ d.promises = c.promises /\ d.log = c.log /\ d.votes = c.votes
                 /\ d.executed = c.executed /\ d.high = c.high
\* Still is the stronger of the two, and both compose.
LEMMA StillUnmoved == ASSUME NEW c, NEW d, Still(c, d) PROVE Unmoved(c, d)
BY DEF Still, Unmoved, Frame

\* The weaker one composes.
LEMMA UnmovedOn == ASSUME NEW c, NEW d, NEW e, Unmoved(c, d), Unmoved(d, e) PROVE Unmoved(c, e)
BY DEF Unmoved

\* A core that stays still grows by nothing.
LEMMA StillGrows == ASSUME NEW X, NEW c, NEW d, Still(c, d) PROVE Grows(X, c, d)
BY GrowsSame DEF Still

\* The stronger one composes.
LEMMA StillOn == ASSUME NEW c, NEW d, NEW e, Still(c, d), Still(d, e) PROVE Still(c, e)
BY DEF Still, Frame

\* The slots whose records a leader sends again, and those it acknowledges itself.
LEMMA SuffixIs ==
    ASSUME NEW c, GoodCore(c)
    PROVE  /\ Suffix(c) \subseteq Slot /\ \A s \in Suffix(c) : c.log[s].req # Hole
           /\ \A i, S, e : Own(i, c, S, e) \subseteq S
<1>1. /\ c.executed \in Int /\ c.executed >= -1 /\ c.high \in Int /\ c.high <= MaxSlot
      /\ MaxSlot \in Int
  BY CoreIs, Bounds
<1>2. Suffix(c) \subseteq Slot BY <1>1 DEF Suffix, Slot
<1> QED BY <1>2 DEF Suffix, Own

\* sendSuffix, with the leader's own acknowledgement.
LEMMA SentSuffixIs ==
    ASSUME NEW c, GoodCore(c), NEW e, Configured(e), NEW i \in Replica,
           NEW X, \A s \in Slot : i \in X[s]
    PROVE  /\ GoodCore(SentSuffix(i, c, e)) /\ Grows(X, c, SentSuffix(i, c, e))
           /\ Grows(X, Relabelled(c, e), SentSuffix(i, c, e))
<1> DEFINE d == Relabelled(c, e)
           S == Own(i, d, Suffix(d), e)
<1>1. GoodCore(d) /\ Grows(X, c, d) BY RelabelledIs
<1>2. SentSuffix(i, c, e) = Acked(d, i, S, e) BY DEF SentSuffix
<1> HIDE DEF d
<1>3. S \in SUBSET Slot /\ \A s \in S : i \in X[s] BY <1>1, SuffixIs
<1> HIDE DEF S
<1>4. GoodCore(Acked(d, i, S, e)) /\ Grows(X, d, Acked(d, i, S, e)) BY <1>1, <1>3, AckedIs
<1>5. Grows(X, c, Acked(d, i, S, e)) BY <1>1, <1>4, GrowsOn
<1> QED BY <1>2, <1>4, <1>5 DEF d

\* flush, with the leader's own acknowledgement.
LEMMA FlushedIs ==
    ASSUME NEW c, GoodCore(c), NEW e, Configured(e), NEW i \in Replica,
           NEW X, \A s \in Slot : i \in X[s]
    PROVE  /\ GoodCore(Flushed(i, c, e)) /\ Grows(X, c, Flushed(i, c, e))
           /\ Grows(X, Ordered(c, e), Flushed(i, c, e))
<1> DEFINE d == Ordered(c, e)
           S == Own(i, d, (c.high + 1)..d.high, e)
<1>1. GoodCore(d) /\ Grows(X, c, d) BY OrderedIs
<1>2. \A s \in (c.high + 1)..d.high : s \in Slot BY OrderedIs
<1>3. Flushed(i, c, e) = Acked(d, i, S, e) BY DEF Flushed
<1> HIDE DEF d
<1>4. S \in SUBSET Slot /\ \A s \in S : i \in X[s] BY <1>1, <1>2, SuffixIs
<1> HIDE DEF S
<1>5. GoodCore(Acked(d, i, S, e)) /\ Grows(X, d, Acked(d, i, S, e)) BY <1>1, <1>4, AckedIs
<1>6. Grows(X, c, Acked(d, i, S, e)) BY <1>1, <1>5, GrowsOn
<1> QED BY <1>3, <1>5, <1>6 DEF d

\* The steps that leave the log alone.
LEMMA ActivateIs ==
    ASSUME NEW c, GoodCore(c) PROVE GoodCore(Activate(c)) /\ Still(c, Activate(c))
<1> DEFINE d == [c EXCEPT !.active = TRUE, !.resume = c.pending]
<1>1. c \in Core /\ \A p \in c.promises : Ends(p.recs, p.high, -1) BY DEF GoodCore
<1>2. d \in Core BY <1>1 DEF Core
<1>3. Still(c, d) /\ d.pending = c.pending BY <1>1 DEF Core, Still, Frame
<1>4. Activate(c) = d BY DEF Activate
<1> HIDE DEF d
<1>5. GoodCore(d) BY <1>1, <1>2, <1>3, CoreIs DEF GoodCore, Still, Frame
<1> QED BY <1>3, <1>4, <1>5

\* The catch-up target is not part of the log.
LEMMA TargetIs ==
    ASSUME NEW c, GoodCore(c), NEW h \in Place
    PROVE  GoodCore([c EXCEPT !.catchupTarget = h]) /\ Still(c, [c EXCEPT !.catchupTarget = h])
<1> DEFINE d == [c EXCEPT !.catchupTarget = h]
<1>1. c \in Core /\ \A p \in c.promises : Ends(p.recs, p.high, -1) BY DEF GoodCore
<1>2. d \in Core BY <1>1 DEF Core
<1>3. Still(c, d) /\ d.pending = c.pending BY <1>1 DEF Core, Still, Frame
<1> HIDE DEF d
<1>5. GoodCore(d) BY <1>1, <1>2, <1>3, CoreIs DEF GoodCore, Still, Frame
<1> QED BY <1>3, <1>5 DEF d

\* Nor is the end of the recovery.
LEMMA EndIs ==
    ASSUME NEW c, GoodCore(c), NEW h \in Place
    PROVE  GoodCore([c EXCEPT !.recoveryEnd = h]) /\ Still(c, [c EXCEPT !.recoveryEnd = h])
<1> DEFINE d == [c EXCEPT !.recoveryEnd = h]
<1>1. c \in Core /\ \A p \in c.promises : Ends(p.recs, p.high, -1) BY DEF GoodCore
<1>2. d \in Core BY <1>1 DEF Core
<1>3. Still(c, d) /\ d.pending = c.pending BY <1>1 DEF Core, Still, Frame
<1> HIDE DEF d
<1>5. GoodCore(d) BY <1>1, <1>2, <1>3, CoreIs DEF GoodCore, Still, Frame
<1> QED BY <1>3, <1>5 DEF d

\* submit: R is queued in the order q.
LEMMA SubmittedIs ==
    ASSUME NEW c, GoodCore(c), NEW i, NEW R \in SUBSET Put, IsFiniteSet(R), NEW q \in Orders(c, R)
    PROVE  GoodCore(Submitted(i, c, R, q)) /\ Still(c, Submitted(i, c, R, q))
<1> DEFINE d == [c EXCEPT !.pending = @ \cup R]
           f == [d EXCEPT !.queue = @ \o q]
           T == R \ (c.assigned \cup Executed(c) \cup ToSet(c.queue))
<1>1. c \in Core /\ (\A p \in c.promises : Ends(p.recs, p.high, -1)) /\ IsFiniteSet(c.pending)
  BY DEF GoodCore
<1>2. q \in Seq(Put)
  <2>1. T \subseteq R /\ IsFiniteSet(T) BY FS_Subset
  <2>2. q \in SetToSeqs(T) BY DEF Orders
  <2> HIDE DEF T
  <2>3. Cardinality(T) \in Nat BY <2>1, CardNat
  <2>4. q \in [1..Cardinality(T) -> T] BY <2>2 DEF SetToSeqs
  <2>5. q \in [1..Cardinality(T) -> Put] BY <2>1, <2>4
  <2> QED BY <2>3, <2>5
<1>3. d \in Core BY <1>1 DEF Core
<1>4. Still(c, d) /\ d.pending = c.pending \cup R /\ d.queue = c.queue
  BY <1>1 DEF Core, Still, Frame
<1>5. IsFiniteSet(c.pending \cup R) BY <1>1, FS_Union
<1>6. GoodCore(d)
  <2> HIDE DEF d
  <2> QED BY <1>1, <1>3, <1>4, <1>5, CoreIs DEF GoodCore, Still, Frame
<1>7. c.queue \o q \in Seq(Put)
  <2>1. c.queue \in Seq(Put) BY CoreIs
  <2> QED BY <1>2, <2>1
<1>8. GoodCore(f) /\ Still(c, f)
  <2>1. f = [d EXCEPT !.queue = c.queue \o q] BY <1>4
  <2> HIDE DEF d
  <2>2. f \in Core BY <1>3, <1>7, <2>1 DEF Core
  <2>3. Still(d, f) /\ f.pending = d.pending BY <1>3, <2>1 DEF Core, Still, Frame
  <2> HIDE DEF f
  <2>4. Still(c, f) BY <1>4, <2>3, StillOn
  <2>5. GoodCore(f) BY <1>1, <1>4, <1>5, <2>2, <2>3, <2>4, CoreIs DEF GoodCore, Still, Frame
  <2> QED BY <2>4, <2>5
<1>9. Submitted(i, c, R, q) = IF c.active /\ c.leader = i THEN f ELSE d BY Zenon DEF Submitted
<1> HIDE DEF d, f
<1> QED BY <1>4, <1>6, <1>8, <1>9

\* The requests that waited for a leader.
LEMMA ResumedIs ==
    ASSUME NEW c, GoodCore(c), NEW i, NEW q \in Orders(c, Waiting(c))
    PROVE  GoodCore(Resumed(i, c, q)) /\ Still(c, Resumed(i, c, q))
<1> DEFINE R == Waiting(c)
           d == Submitted(i, c, R, q)
           f == [d EXCEPT !.resume = {}]
<1>1. R \in SUBSET Put /\ IsFiniteSet(R)
  <2>1. c.pending \in SUBSET Put /\ IsFiniteSet(c.pending) BY CoreIs
  <2>2. R \subseteq c.pending BY DEF Waiting
  <2> HIDE DEF R
  <2> QED BY <2>1, <2>2, FS_Subset
<1> HIDE DEF R
<1>2. q \in Orders(c, R) BY DEF R
<1>3. GoodCore(d) /\ Still(c, d) BY <1>1, <1>2, SubmittedIs
<1> HIDE DEF d
<1>4. d \in Core /\ \A p \in d.promises : Ends(p.recs, p.high, -1) BY <1>3 DEF GoodCore
<1>5. f \in Core BY <1>4 DEF Core
<1>6. Still(d, f) /\ f.pending = d.pending BY <1>4 DEF Core, Still, Frame
<1> HIDE DEF f
<1>7. GoodCore(f)
  <2>1. d.executed <= d.high /\ Ends(d.log, d.high, d.executed) /\ IsFiniteSet(d.pending)
    BY <1>3 DEF GoodCore
  <2> QED BY <1>4, <1>5, <1>6, <2>1 DEF GoodCore, Still, Frame
<1>8. Still(c, f) BY <1>3, <1>6, StillOn
<1>9. Resumed(i, c, q) = IF c.active THEN f ELSE c BY DEF Resumed, f, d, R
<1> QED BY <1>7, <1>8, <1>9 DEF Still, Frame

-----------------------------------------------------------------------------
(***************************************************************************)
(* A good turn keeps types and Shape, and advances the protocol.           *)
(***************************************************************************)
\* A replica that does nothing.
Same(q) == /\ ballot'[q] = ballot[q] /\ leader'[q] = leader[q] /\ preparing'[q] = preparing[q]
           /\ executed'[q] = executed[q] /\ log'[q] = log[q] /\ votes'[q] = votes[q]
           /\ promises'[q] = promises[q]

\* Only i does something.
LEMMA OthersSame ==
    ASSUME Typed, NEW i \in Replica, Alone(i), NEW q \in Replica, q # i
    PROVE  core'[q] = core[q] /\ Same(q)
<1>1. core \in [Replica -> Core] BY DEF Typed
<1>2. core'[q] = core[q] BY <1>1 DEF Alone
<1>3. /\ ballot[q] = core[q].ballot /\ leader[q] = core[q].leader
      /\ preparing[q] = core[q].preparing /\ executed[q] = core[q].executed
      /\ log[q] = Entries(core[q].log)
      /\ votes[q] = core[q].votes /\ promises[q] = core[q].promises
  BY Views
<1>4. /\ ballot'[q] = core'[q].ballot /\ leader'[q] = core'[q].leader
      /\ preparing'[q] = core'[q].preparing /\ executed'[q] = core'[q].executed
      /\ log'[q] = Entries(core'[q].log)
      /\ votes'[q] = core'[q].votes /\ promises'[q] = core'[q].promises
  BY ViewsNext
<1> QED BY <1>2, <1>3, <1>4 DEF Same

\* Types.
LEMMA TurnTyped ==
    ASSUME Typed, NEW i \in Replica, Alone(i), GoodCore(core'[i]), NEW out, Carried(out), Sends(i, out)
    PROVE  Typed'
<1>1. core \in [Replica -> Core] BY DEF Typed
<1>2. core'[i] \in Core BY DEF GoodCore
<1>3. core' \in [Replica -> Core]
  <2> DEFINE c == core'[i]
  <2>1. c \in Core /\ core' = [core EXCEPT ![i] = c] BY <1>2 DEF Alone
  <2> HIDE DEF c
  <2> QED BY <1>1, <2>1
<1>4. ASSUME NEW q \in Replica PROVE GoodCore(core[q])'
  <2>1. CASE q = i BY <2>1 DEF GoodCore
  <2>2. CASE q # i
    <3>1. core'[q] = core[q] /\ GoodCore(core[q]) BY <2>2, OthersSame DEF Typed
    <3> QED BY <3>1 DEF GoodCore
  <2> QED BY <2>1, <2>2
<1>5. ASSUME NEW m \in msgs' PROVE GoodMessage(m)
  <2>1. m \in msgs \/ m \in out BY DEF Carried
  <2> QED BY <2>1 DEF Typed, Sends
<1> QED BY <1>3, <1>4, <1>5 DEF Typed

\* What the turn of i does to the role of any replica.
LEMMA RoleAll ==
    ASSUME Typed, Typed', NEW i \in Replica, Alone(i), Role(i), NEW q \in Replica
    PROVE  /\ ballot[q] <= ballot'[q]
           /\ Leading(q) /\ ballot'[q] = ballot[q] => Leading(q)'
           /\ Leading(q)' => ballot'[q] = ballot[q] /\ (Leading(q) \/ TookOver(q))
<1>1. CASE q = i BY <1>1 DEF Role
<1>2. CASE q # i
  <2>1. ballot'[q] = ballot[q] /\ preparing'[q] = preparing[q] BY <1>2, OthersSame DEF Same
  <2>2. ballot[q] \in Nat BY BallotTypes
  <2> QED BY <2>1, <2>2 DEF Leading
<1> QED BY <1>1, <1>2

\* A ballot that its owner has taken over stays so.
LEMMA LedKept ==
    ASSUME Typed, Typed', NEW i \in Replica, Alone(i), Role(i), NEW b \in Ballot, Led(b)
    PROVE  Led(b)'
<1> DEFINE o == Owner(b)
<1>1. o \in Replica BY OwnerType, BallotNat
<1>2. ballot[o] \in Nat /\ ballot'[o] \in Nat /\ b \in Nat BY <1>1, BallotTypes, BallotNat
<1>3. ballot[o] <= ballot'[o] BY <1>1, RoleAll
<1>5. CASE ballot[o] > b BY <1>2, <1>3, <1>5 DEF Led
<1>6. CASE ballot[o] = b /\ ~preparing[o]
  <2>1. Leading(o) BY <1>6 DEF Leading
  <2>2. CASE ballot'[o] = b
    <3>1. Leading(o)' BY <1>1, <1>6, <2>1, <2>2, RoleAll
    <3> QED BY <3>1, <2>2 DEF Led, Leading
  <2>3. CASE ballot'[o] # b BY <1>2, <1>3, <1>6, <2>3 DEF Led
  <2> QED BY <2>2, <2>3
<1> QED BY <1>5, <1>6 DEF Led

\* A promise is in a packet or in a core.
LEMMA InPromised ==
    ASSUME NEW p
    PROVE  p \in Promises <=> \/ p \in msgs /\ p.kind = "Promise"
                              \/ \E q \in Replica : p \in promises[q]
BY Zenon DEF Promises
\* The same after the step.
LEMMA InPromisedNext ==
    ASSUME NEW p
    PROVE  p \in Promises' <=> \/ p \in msgs' /\ p.kind = "Promise"
                               \/ \E q \in Replica : p \in promises'[q]
BY Zenon DEF Promises

\* A promise is one that was there, or a new one of i.
LEMMA NewPromise ==
    ASSUME Typed, NEW i \in Replica, Alone(i), Collects(i), NEW out, Effect(i, out),
           NEW p \in Promises'
    PROVE  \/ p \in Promises
           \/ /\ Offered(i, p) /\ p \in {m \in out : m.kind = "Promise"} \cup promises'[i]
              /\ p \in msgs' \/ i = Owner(p.ballot)
<1>1. CASE p \in msgs' /\ p.kind = "Promise"
  <2>1. p \in msgs \/ p \in out BY <1>1 DEF Effect, Carried
  <2>2. p \in out => Offered(i, p) BY <1>1 DEF Effect, Sends
  <2> QED BY <1>1, <2>1, <2>2, InPromised
<1>2. ASSUME NEW q \in Replica, p \in promises'[q], q # i PROVE p \in Promises
  <2>1. p \in promises[q] BY <1>2, OthersSame DEF Same
  <2> QED BY <2>1, InPromised
<1>3. CASE p \in promises'[i] BY <1>3 DEF Collects
<1> QED BY <1>1, <1>2, <1>3, InPromisedNext

\* A good turn keeps Shape, part by part.
LEMMA ShapeStays ==
    ASSUME Typed, Typed', Shape, NEW i \in Replica, Alone(i), Role(i), LogStep(i), Collects(i),
           Recovers(i), NEW out, Effect(i, out)
    PROVE  Shape'
<1>1. Leads'
  <2> SUFFICES ASSUME NEW q \in Replica PROVE leader'[q] = Owner(ballot'[q]) BY DEF Leads
  <2>1. CASE q = i BY <2>1 DEF Role
  <2>2. CASE q # i
    <3>1. ballot'[q] = ballot[q] /\ leader'[q] = leader[q] BY <2>2, OthersSame DEF Same
    <3> QED BY <3>1 DEF Shape, Leads
  <2> QED BY <2>1, <2>2
<1>2. LogShape'
  <2> SUFFICES ASSUME NEW q \in Replica PROVE GoodLog(q)' BY DEF LogShape
  <2>1. CASE q = i BY <2>1 DEF LogStep
  <2>2. CASE q # i
    <3>1. Same(q) /\ GoodLog(q) BY <2>2, OthersSame DEF Shape, LogShape
    <3> QED BY <3>1 DEF Same, GoodLog, Leading
  <2> QED BY <2>1, <2>2
<1>3. Traffic'
  <2> SUFFICES ASSUME NEW m \in msgs' PROVE GoodPacket(m)' BY DEF Traffic
  <2>1. CASE m \in msgs
    <3>1. GoodPacket(m) /\ GoodMessage(m) BY <2>1 DEF Shape, Traffic, Typed
    <3>2. m.kind \in {"Accept", "Commit", "Ready"} => m.ballot \in Ballot
      BY <3>1 DEF GoodMessage, Carries
    <3>3. m.kind \in {"Accept", "Commit", "Ready"} => Led(m.ballot)'
      BY <3>1, <3>2, LedKept DEF GoodPacket
    <3> QED BY <3>1, <3>3 DEF GoodPacket
  <2>2. CASE m \in out BY <2>2 DEF Effect, Sends
  <2> QED BY <2>1, <2>2 DEF Effect, Carried
<1>4. PromiseShape'
  <2> SUFFICES ASSUME NEW p \in Promises' PROVE p.ballot <= ballot'[p.from] BY DEF PromiseShape
  <2>1. CASE p \in Promises
    <3>1. p.ballot <= ballot[p.from] /\ p.from \in Replica /\ p.ballot \in Ballot
      BY <2>1, PromiseType DEF Shape, PromiseShape, Snapshots
    <3>2. ballot[p.from] <= ballot'[p.from] BY <3>1, RoleAll
    <3>3. p.ballot \in Nat /\ ballot[p.from] \in Nat /\ ballot'[p.from] \in Nat
      BY <3>1, BallotTypes, BallotNat
    <3> QED BY <3>1, <3>2, <3>3
  <2>2. CASE Offered(i, p) BY <2>2 DEF Offered
  <2> QED BY <2>1, <2>2, NewPromise
<1>5. OneSnapshot'
  <2> SUFFICES ASSUME NEW p \in Promises', NEW r \in Promises',
                      p.from = r.from, p.ballot = r.ballot, p.floor = r.floor
               PROVE  p = r
    BY DEF OneSnapshot
  <2>1. CASE p \in Promises /\ r \in Promises BY <2>1 DEF Shape, OneSnapshot
  <2>2. CASE p \in Promises /\ Offered(i, r) BY <2>2 DEF Offered
  <2>3. CASE Offered(i, p) /\ r \in Promises BY <2>3 DEF Offered
  <2>4. CASE /\ p \in {m \in out : m.kind = "Promise"} \cup promises'[i]
             /\ r \in {m \in out : m.kind = "Promise"} \cup promises'[i]
    <3>1. p \in Promises \/ r \in Promises \/ p = r BY <2>4 DEF Effect, Snaps
    <3> QED BY <2>1, <2>2, <2>3, <3>1, NewPromise
  <2> QED BY <2>1, <2>2, <2>3, <2>4, NewPromise
<1>6. Sources'
  <2> SUFFICES ASSUME NEW p \in Promises' PROVE p \in msgs' \/ p.from = Owner(p.ballot)
    BY DEF Sources
  <2>1. CASE p \in Promises
    <3>1. p \in msgs \/ p.from = Owner(p.ballot) BY <2>1 DEF Shape, Sources
    <3> QED BY <3>1 DEF Effect, Carried
  <2>2. CASE Offered(i, p) /\ (p \in msgs' \/ i = Owner(p.ballot)) BY <2>2 DEF Offered
  <2> QED BY <2>1, <2>2, NewPromise
<1>7. Preparation'
  <2> SUFFICES ASSUME NEW q \in Replica, preparing'[q] PROVE Prepared(q)' BY DEF Preparation
  <2>1. CASE q = i BY <2>1 DEF Recovers
  <2>2. CASE q # i
    <3>1. Same(q) BY <2>2, OthersSame
    <3>2. Prepared(q) BY <3>1 DEF Same, Shape, Preparation
    <3> QED BY <3>1, <3>2 DEF Same, Prepared, OwnPromise
  <2> QED BY <2>1, <2>2
<1> QED BY <1>1, <1>2, <1>3, <1>4, <1>5, <1>6, <1>7 DEF Shape

\* It casts no vote but its own.
LEMMA VotesStep ==
    ASSUME Typed, Typed', NEW i \in Replica, Alone(i), Counts(i), NEW out, Effect(i, out),
           NEW q \in Replica, NEW b \in Ballot, NEW s \in Slot, Voted(q, b, s)'
    PROVE  Voted(q, b, s) \/ FreshVote(q, b, s)
<1>1. ASSUME NEW m \in msgs', m.kind = "Ack", m.from = q, m.ballot = b, m.slot = s
      PROVE  Voted(q, b, s) \/ FreshVote(q, b, s)
  <2>1. CASE m \in msgs BY <1>1, <2>1 DEF Voted
  <2>2. CASE m \in out
    <3>1. m.from = i /\ FreshVote(i, m.ballot, m.slot) BY <1>1, <2>2 DEF Effect, Sends
    <3> QED BY <1>1, <3>1
  <2> QED BY <2>1, <2>2 DEF Effect, Carried
<1>2. CASE ballot'[Owner(b)] = b /\ q \in votes'[Owner(b)][s]
  <2>1. Owner(b) \in Replica BY OwnerType, BallotNat
  <2>2. CASE Owner(b) = i BY <1>2, <2>2 DEF Counts
  <2>3. CASE Owner(b) # i
    <3>1. ballot[Owner(b)] = b /\ q \in votes[Owner(b)][s]
      BY <1>2, <2>1, <2>3, OthersSame DEF Same
    <3> QED BY <3>1 DEF Voted
  <2> QED BY <2>2, <2>3
<1> QED BY <1>1, <1>2 DEF Voted

\* It makes no entry but its own.
LEMMA EntriesStep ==
    ASSUME Typed, Typed', NEW i \in Replica, Alone(i), LogStep(i), Collects(i),
           NEW out, Effect(i, out), NEW x \in Known'
    PROVE  x \in Known \/ Made(x)
<1>1. ASSUME NEW q \in Replica, x \in log'[q] PROVE x \in Known \/ Made(x)
  <2>1. CASE q = i BY <1>1, <2>1 DEF LogStep
  <2>2. CASE q # i
    <3>1. x \in log[q] BY <1>1, <2>2, OthersSame DEF Same
    <3> QED BY <3>1, InKnown
  <2> QED BY <2>1, <2>2
<1>2. ASSUME NEW m \in msgs', m.kind \in {"Accept", "Commit"}, x = Entry(m.slot, m.rec)
      PROVE  x \in Known \/ Made(x)
  <2>1. CASE m \in msgs BY <1>2, <2>1, InKnown
  <2>2. CASE m \in out BY <1>2, <2>2 DEF Effect, Sends
  <2> QED BY <2>1, <2>2 DEF Effect, Carried
<1>3. ASSUME NEW p \in Promises', x \in Entries(p.recs) PROVE x \in Known \/ Made(x)
  <2>1. CASE p \in Promises BY <1>3, <2>1, InKnown
  <2>2. CASE Offered(i, p)
    <3>1. x \in log[i] BY <1>3, <2>2 DEF Offered
    <3> QED BY <3>1, InKnown
  <2> QED BY <2>1, <2>2, NewPromise
<1> QED BY <1>1, <1>2, <1>3, InKnownNext

\* A good turn advances the protocol,
LEMMA TurnAdvances ==
    ASSUME Typed, Typed', NEW i \in Replica, Alone(i), Role(i), LogStep(i), Counts(i),
           Collects(i), NEW out, Effect(i, out)
    PROVE  Advance
<1>1. ASSUME NEW q \in Replica
      PROVE  /\ ballot[q] <= ballot'[q]
             /\ Leading(q)' => ballot'[q] = ballot[q] /\ (Leading(q) \/ TookOver(q))
             /\ Leading(q) /\ ballot'[q] = ballot[q] => Leading(q)'
             /\ KeepsLog(q)
  <2>1. KeepsLog(q)
    <3>1. CASE q = i BY <3>1 DEF LogStep
    <3>2. CASE q # i
      <4>1. log'[q] = log[q] BY <3>2, OthersSame DEF Same
      <4>2. \A y \in log[q] : y.ballot >= y.ballot
        <5> TAKE y \in log[q]
        <5>1. y \in Line BY CoreType
        <5> QED BY <5>1, LineTypes
      <4> QED BY <4>1, <4>2 DEF KeepsLog
    <3> QED BY <3>1, <3>2
  <2> QED BY <2>1, RoleAll
<1>2. \A q \in Replica, b \in Ballot, s \in Slot :
         Voted(q, b, s)' => Voted(q, b, s) \/ FreshVote(q, b, s)
  BY VotesStep
<1>3. \A p \in Promises' : p \in Promises \/ Snapped(p) BY NewPromise DEF Offered
<1>4. \A x \in Known' : x \in Known \/ Made(x) BY EntriesStep
<1> QED BY <1>1, <1>2, <1>3, <1>4 DEF Advance

\* and keeps the invariants.
LEMMA TurnKeeps ==
    ASSUME Typed, Shape, Safety, NEW i \in Replica, GoodTurn(i)
    PROVE  Typed' /\ Shape' /\ Safety'
<1>1. PICK out : Effect(i, out) BY DEF GoodTurn
<1>2. /\ Alone(i) /\ GoodCore(core'[i])
      /\ Role(i) /\ LogStep(i) /\ Counts(i) /\ Collects(i) /\ Recovers(i)
  BY DEF GoodTurn
<1>3. Typed'
  <2>1. Carried(out) /\ Sends(i, out) BY <1>1 DEF Effect
  <2> QED BY <1>2, <2>1, TurnTyped
<1>4. Shape' BY <1>1, <1>2, <1>3, ShapeStays
<1>5. Advance BY <1>1, <1>2, <1>3, TurnAdvances
<1> QED BY <1>3, <1>4, <1>5, SafetyStays

-----------------------------------------------------------------------------
(***************************************************************************)
(* Turns that change nothing Safety is about.                              *)
(***************************************************************************)
\* What a step says about core and msgs.
LEMMA OnlyIs ==
    ASSUME Typed, NEW i \in Replica, NEW d, Only(i, d)
    PROVE  core'[i] = d /\ Alone(i)
<1>1. core \in [Replica -> Core] /\ core' = [core EXCEPT ![i] = d] BY DEF Typed, Only
<1>2. core'[i] = d BY <1>1
<1> QED BY <1>1, <1>2 DEF Alone

\* Whatever is lost, a step sends nothing but what it says.
LEMMA SendIs == ASSUME NEW M, Send(M) PROVE Carried(M)
BY DEF Send, Carried

\* A step that sends nothing carries anything.
LEMMA SendsNothing == ASSUME msgs' = msgs, NEW M PROVE Carried(M)
BY DEF Carried

\* What is said of the views of a core that stands still.
LEMMA StillViews ==
    ASSUME NEW i \in Replica, NEW d, core'[i] = d, Unmoved(core[i], d) PROVE Same(i)
<1>1. /\ ballot[i] = core[i].ballot /\ leader[i] = core[i].leader
      /\ preparing[i] = core[i].preparing /\ executed[i] = core[i].executed
      /\ log[i] = Entries(core[i].log)
      /\ votes[i] = core[i].votes /\ promises[i] = core[i].promises
  BY Views
<1>2. /\ ballot'[i] = core'[i].ballot /\ leader'[i] = core'[i].leader
      /\ preparing'[i] = core'[i].preparing /\ executed'[i] = core'[i].executed
      /\ log'[i] = Entries(core'[i].log)
      /\ votes'[i] = core'[i].votes /\ promises'[i] = core'[i].promises
  BY ViewsNext
<1> QED BY <1>1, <1>2 DEF Same, Unmoved

\* Entries keep to themselves.
LEMMA KeepsSame == ASSUME Typed, NEW i \in Replica, log'[i] = log[i] PROVE KeepsLog(i)
<1>1. \A y \in log[i] : y.ballot >= y.ballot
  <2> TAKE y \in log[i]
  <2>1. y \in Line BY CoreType
  <2> QED BY <2>1, LineTypes
<1> QED BY <1>1 DEF KeepsLog

\* The parts of a turn that does nothing.
LEMMA SameParts ==
    ASSUME Typed, Shape, NEW i \in Replica, Same(i)
    PROVE  Role(i) /\ LogStep(i) /\ Counts(i) /\ Collects(i) /\ Recovers(i)
<1>1. Role(i)
  <2>1. ballot[i] \in Nat /\ leader[i] = Owner(ballot[i]) BY CoreType DEF Shape, Leads
  <2> QED BY <2>1 DEF Same, Role, Leading
<1>2. LogStep(i)
  <2>1. GoodLog(i)'
    <3>1. GoodLog(i) BY DEF Shape, LogShape
    <3> QED BY <3>1 DEF Same, GoodLog, Leading
  <2>2. KeepsLog(i) BY KeepsSame DEF Same
  <2>3. \A x \in log'[i] : x \in Known BY InKnown DEF Same
  <2> QED BY <2>1, <2>2, <2>3 DEF LogStep
<1>3. Counts(i) BY DEF Same, Counts, Voted
<1>4. Collects(i) BY InPromised DEF Same, Collects
<1>5. Recovers(i)
  <2> SUFFICES ASSUME preparing'[i] PROVE Prepared(i)' BY DEF Recovers
  <2>1. Prepared(i) BY DEF Same, Shape, Preparation
  <2> QED BY <2>1 DEF Same, Prepared, OwnPromise
<1> QED BY <1>1, <1>2, <1>3, <1>4, <1>5

\* The packets that say nothing about the log.
QuietKind == Kind \ {"Prepare", "Promise", "Accept", "Ack", "Commit", "Ready"}
QuietPacket(i, m) == /\ m.from = i /\ GoodMessage(m) /\ m.kind \in QuietKind
                     /\ m.kind = "Fetch" => m.from # m.to
\* Quiet packets tell nothing of the log.
LEMMA QuietSends ==
    ASSUME NEW i, NEW out, \A m \in out : QuietPacket(i, m)
    PROVE  Sends(i, out) /\ \A m \in out : m.kind # "Promise"
<1>1. \A m \in out : QuietPacket(i, m) OBVIOUS
<1> QED BY <1>1 DEF QuietPacket, QuietKind, Sends, GoodPacket

\* A replica whose promises are no others than before has nothing to say of them.
LEMMA NoSnap ==
    ASSUME NEW i \in Replica, promises'[i] \subseteq Promises,
           NEW out, \A m \in out : m.kind # "Promise"
    PROVE  Snaps(i, out)
BY DEF Snaps

\* The promises a replica keeps are not new.
LEMMA OldPromises == ASSUME NEW i \in Replica, promises'[i] = promises[i]
                     PROVE  promises'[i] \subseteq Promises
BY InPromised

\* A turn that changes nothing of the log and sends quiet packets is a good one.
LEMMA QuietTurn ==
    ASSUME Typed, Shape, NEW i \in Replica, NEW d, Only(i, d), GoodCore(d), Unmoved(core[i], d),
           NEW out, Carried(out), \A m \in out : QuietPacket(i, m)
    PROVE  GoodTurn(i)
<1>1. core'[i] = d /\ Alone(i) BY OnlyIs
<1>2. Same(i) BY <1>1, StillViews
<1>3. Sends(i, out) /\ \A m \in out : m.kind # "Promise" BY QuietSends
<1>4. Snaps(i, out) BY <1>2, <1>3, OldPromises, NoSnap DEF Same
<1>5. Effect(i, out) BY <1>3, <1>4 DEF Effect
<1>6. Role(i) /\ LogStep(i) /\ Counts(i) /\ Collects(i) /\ Recovers(i) BY <1>2, SameParts
<1> QED BY <1>1, <1>5, <1>6 DEF GoodTurn

\* Fields that no other concerns.
LEMMA SuspectIs ==
    ASSUME NEW c, GoodCore(c), NEW S \in SUBSET Replica
    PROVE  /\ GoodCore([c EXCEPT !.suspected = S]) /\ Unmoved(c, [c EXCEPT !.suspected = S])
           /\ [c EXCEPT !.suspected = S].suspected = S
           /\ [c EXCEPT !.suspected = S].latestEpoch = c.latestEpoch
<1> DEFINE d == [c EXCEPT !.suspected = S]
<1>1. c \in Core /\ \A p \in c.promises : Ends(p.recs, p.high, -1) BY DEF GoodCore
<1>2. d \in Core BY <1>1 DEF Core
<1>3. Unmoved(c, d) /\ d.pending = c.pending /\ d.suspected = S /\ d.latestEpoch = c.latestEpoch
  BY <1>1 DEF Core, Unmoved
<1> HIDE DEF d
<1>5. GoodCore(d) BY <1>1, <1>2, <1>3, CoreIs DEF GoodCore, Unmoved
<1> QED BY <1>3, <1>5 DEF d

\* Learning a configuration does not touch the log.
LEMMA LearnedIs ==
    ASSUME NEW c, GoodCore(c)
    PROVE  /\ GoodCore([c EXCEPT !.latestEpoch = @ + 1])
           /\ Unmoved(c, [c EXCEPT !.latestEpoch = @ + 1])
           /\ [c EXCEPT !.latestEpoch = @ + 1].latestEpoch = c.latestEpoch + 1
           /\ [c EXCEPT !.latestEpoch = @ + 1].suspected = c.suspected
<1> DEFINE d == [c EXCEPT !.latestEpoch = @ + 1]
<1>1. c \in Core /\ \A p \in c.promises : Ends(p.recs, p.high, -1) BY DEF GoodCore
<1>2. d \in Core BY <1>1 DEF Core
<1>3. /\ Unmoved(c, d) /\ d.pending = c.pending /\ d.latestEpoch = c.latestEpoch + 1
      /\ d.suspected = c.suspected
  BY <1>1 DEF Core, Unmoved
<1> HIDE DEF d
<1>5. GoodCore(d) BY <1>1, <1>2, <1>3, CoreIs DEF GoodCore, Unmoved
<1> QED BY <1>3, <1>5 DEF d

\* Nor does the reply to a forwarded request.
LEMMA RepliedIs ==
    ASSUME NEW c, GoodCore(c), NEW r \in Put
    PROVE  /\ GoodCore([c EXCEPT !.pending = @ \ {r}, !.forwardResults = @ \cup {r}])
           /\ Still(c, [c EXCEPT !.pending = @ \ {r}, !.forwardResults = @ \cup {r}])
<1> DEFINE d == [c EXCEPT !.pending = @ \ {r}, !.forwardResults = @ \cup {r}]
<1>1. /\ c \in Core /\ (\A p \in c.promises : Ends(p.recs, p.high, -1)) /\ IsFiniteSet(c.pending)
  BY DEF GoodCore
<1>2. d \in Core BY <1>1 DEF Core
<1>3. Still(c, d) /\ d.pending = c.pending \ {r}
  BY <1>1 DEF Core, Still, Frame
<1>4. IsFiniteSet(c.pending \ {r})
  <2>1. c.pending \ {r} \subseteq c.pending OBVIOUS
  <2> QED BY <1>1, <2>1, FS_Subset
<1> HIDE DEF d
<1>5. GoodCore(d) BY <1>1, <1>2, <1>3, <1>4, CoreIs DEF GoodCore, Still, Frame
<1> QED BY <1>3, <1>5 DEF d

-----------------------------------------------------------------------------
(***************************************************************************)
(* The lease a replica has, and the era it is in.                          *)
(***************************************************************************)
\* The invariants together.
Invariants == Typed /\ Shape /\ Safety /\ Eras /\ LeaseInv

\* The era of i.
LEMMA EraIs ==
    ASSUME Eras, NEW i \in Replica
    PROVE  /\ Configured(lease[i].promisedBy) /\ Configured(core[i].latestEpoch)
           /\ core[i].latestEpoch \in Genesis..MaxEpoch
           /\ lease[i].promisedBy \in Genesis..MaxEpoch
           /\ lease[i].promisedBy <= core[i].latestEpoch
           /\ lease[i].catchup \in Place /\ core[i].suspected \in SUBSET Replica
<1>1. EraOf(i) /\ configs \in Seq(Policy) /\ Len(configs) <= MaxEpoch BY DEF Eras
<1>2. Len(configs) \in Nat BY <1>1
<1>3. core[i].latestEpoch \in Genesis..Len(configs) /\ lease[i].promisedBy \in Genesis..core[i].latestEpoch
  BY <1>1 DEF EraOf
<1>4. /\ lease[i].promisedBy \in Genesis..Len(configs) /\ lease[i].promisedBy <= core[i].latestEpoch
      /\ core[i].latestEpoch \in Genesis..MaxEpoch /\ lease[i].promisedBy \in Genesis..MaxEpoch
  BY <1>1, <1>2, <1>3, Bounds DEF Genesis
<1> QED BY <1>1, <1>3, <1>4 DEF EraOf, Configured

\* The lease of a tick.
LEMMA SwitchedIs ==
    ASSUME Eras, LeaseInv, NEW i \in Replica
    PROVE  /\ LeaseShape(Switched(i)) /\ SameHolder(lease[i], Switched(i))
           /\ Switched(i).promisedBy \in Genesis..core[i].latestEpoch
           /\ Configured(Switched(i).promisedBy) /\ Switched(i).promisedBy \in Genesis..MaxEpoch
           /\ Switched(i).catchup = lease[i].catchup /\ Switched(i).catchup \in Place
           /\ Switched(i).frontiers = lease[i].frontiers
<1> DEFINE n == core[i].latestEpoch
           d == SwitchEpoch(lease[i], n)
<1>1. LeaseShape(lease[i]) BY DEF LeaseInv, Shapes
<1>2. /\ n \in Genesis..MaxEpoch /\ Configured(n) /\ lease[i].promisedBy \in Genesis..MaxEpoch
      /\ lease[i].promisedBy <= n /\ Configured(lease[i].promisedBy) /\ lease[i].catchup \in Place
  BY EraIs
<1>3. n \in Int /\ n \in Genesis..n /\ lease[i].promisedBy \in Genesis..n BY <1>2, Bounds DEF Genesis
<1>4. /\ d.catchup = lease[i].catchup /\ d.frontiers = lease[i].frontiers
  BY <1>1 DEF SwitchEpoch, LeaseShape
<1>5. LeaseShape(d) /\ SameHolder(lease[i], d) /\ d.promisedBy = n BY <1>1, <1>3, SwitchFields
<1>6. Switched(i) = d \/ Switched(i) = lease[i] BY DEF Switched
<1>7. SameHolder(lease[i], lease[i]) BY DEF SameHolder
<1> HIDE DEF d, n
<1> QED BY <1>1, <1>2, <1>3, <1>4, <1>5, <1>6, <1>7 DEF n

\* A replica's suspicions are replicas.
LEMMA SuspicionType ==
    ASSUME Typed, Eras, LeaseInv, NEW i \in Replica, NEW due
    PROVE  /\ Suspects(i, due) \subseteq Replica \ {i} /\ Doubts(i, due) \subseteq Replica \ {i}
<1>1. world \in World BY DEF LeaseInv, Shapes
<1>2. world.suspect[i] \subseteq Replica BY <1>1, WorldAssumption
<1>3. core[i].suspected \subseteq Replica \ {i} BY DEF Eras, EraOf
<1>4. core[i].leader \in Replica BY CoreType, CoreIs
<1>5. Suspects(i, due) \subseteq Replica \ {i} BY <1>2, <1>3 DEF Suspects
<1>6. Doubts(i, due) \subseteq Replica \ {i}
  <2>1. CASE Missing(i, due) BY <1>4, <1>5, <2>1 DEF Doubts, Missing
  <2>2. CASE ~Missing(i, due) BY <1>5, <2>2 DEF Doubts
  <2> QED BY <2>1, <2>2
<1> QED BY <1>5, <1>6

\* Waiting reads.
LEMMA ReadingIs ==
    ASSUME Eras, LeaseInv, NEW i \in Replica, NEW c, GoodCore(c), NEW due
    PROVE  GoodCore(Reading(i, c, due)) /\ Still(c, Reading(i, c, due))
<1> DEFINE h == Max({c.catchupTarget, Switched(i).catchup})
<1>1. c.catchupTarget \in Place /\ Switched(i).catchup \in Place BY CoreIs, SwitchedIs
<1>2. c.catchupTarget \in Int /\ Switched(i).catchup \in Int BY <1>1, Bounds DEF Place
<1>3. h \in Place BY <1>1, <1>2, MaxOfTwo
<1>4. Reading(i, c, due) = [c EXCEPT !.catchupTarget = h] \/ Reading(i, c, due) = c
  BY DEF Reading
<1> HIDE DEF h
<1>5. Still(c, c) BY DEF Still, Frame
<1> QED BY <1>3, <1>4, <1>5, TargetIs

\* The packets of a tick about leases.
LEMMA GrantsQuiet ==
    ASSUME Typed, Eras, LeaseInv, NEW i \in Replica, NEW due
    PROVE  \A m \in Grants(i, due) : QuietPacket(i, m)
<1> DEFINE l == Switched(i)
           peers == Grantees(i, due)
<1>1. l.promisedBy \in Genesis..MaxEpoch BY SwitchedIs
<1>2. peers \subseteq Replica
  <2>1. world \in World BY DEF LeaseInv, Shapes
  <2>2. world.alive[i] \subseteq Replica BY <2>1, WorldAssumption
  <2> QED BY <2>2 DEF Grantees
<1>3. core[i].high \in Place BY CoreType, CoreIs
<1>4. ASSUME NEW m \in Grants(i, due) PROVE QuietPacket(i, m)
  <2>1. Grants(i, due) = TickSends(l, i, peers, now, core[i].high) BY DEF Grants
  <2> HIDE DEF l, peers
  <2>2. \/ \E p \in peers : m = Promise(l, i, p, now, core[i].high, FALSE)
        \/ \E p \in peers : m = [kind |-> "Guard", from |-> i, to |-> p, epoch |-> l.promisedBy,
                                 stamp |-> l.guardSequence[p] + 1]
    BY <2>1, Zenon DEF TickSends, Renewed
  <2>3. ASSUME NEW p \in peers, m = Promise(l, i, p, now, core[i].high, FALSE)
        PROVE  QuietPacket(i, m)
    <3>1. /\ m.kind = "LeasePromise" /\ m.from = i /\ m.to = p
          /\ m.epoch = l.promisedBy /\ m.frontier = core[i].high
      BY <2>3 DEF Promise
    <3> HIDE <2>3
    <3> QED BY <1>1, <1>2, <1>3, <3>1 DEF l, QuietPacket, QuietKind, Kind, GoodMessage, Carries
  <2>4. ASSUME NEW p \in peers,
               m = [kind |-> "Guard", from |-> i, to |-> p, epoch |-> l.promisedBy,
                    stamp |-> l.guardSequence[p] + 1]
        PROVE  QuietPacket(i, m)
    BY <1>2, <2>4 DEF QuietPacket, QuietKind, Kind, GoodMessage, Carries
  <2> QED BY <2>2, <2>3, <2>4
<1> QED BY <1>4

\* A fetch.
LEMMA FetchQuiet ==
    ASSUME NEW i \in Replica, NEW c, GoodCore(c), NEW l, l.catchup \in Place
    PROVE  \A m \in Fetch(i, c, l) : QuietPacket(i, m)
<1> SUFFICES ASSUME NEW m \in Fetch(i, c, l) PROVE QuietPacket(i, m) OBVIOUS
<1> DEFINE h == Max({c.high, l.catchup})
           f == c.executed + 1
<1>1. /\ c.leader \in Replica /\ c.ballot \in Ballot /\ c.high \in Place /\ c.high \in Int
      /\ c.executed \in Int /\ c.executed >= -1 /\ c.executed <= c.high /\ c.high <= MaxSlot
  BY CoreIs
<1>2. h \in Place
  <2>1. l.catchup \in Int BY Bounds DEF Place
  <2> QED BY <1>1, <2>1, MaxOfTwo
<1>3. f \in 0..(MaxSlot + 1) BY <1>1, Bounds
<1>4. /\ c.leader # i
      /\ m = [kind |-> "Fetch", from |-> i, to |-> c.leader, ballot |-> c.ballot,
              floor |-> f, high |-> h]
  BY DEF Fetch
<1> HIDE DEF h, f
<1> QED BY <1>1, <1>2, <1>3, <1>4 DEF QuietPacket, QuietKind, Kind, GoodMessage, Carries

\* Forwarded requests.
LEMMA ForwardsQuiet ==
    ASSUME NEW i \in Replica, NEW c, GoodCore(c), NEW R \in SUBSET Put
    PROVE  \A m \in Forwards(i, c, R) : QuietPacket(i, m)
<1> SUFFICES ASSUME NEW m \in Forwards(i, c, R) PROVE QuietPacket(i, m) OBVIOUS
<1>1. PICK r \in R : m = Forward(i, c, r) BY DEF Forwards
<1>2. c.leader \in Replica /\ c.ballot \in Ballot BY CoreIs
<1> QED BY <1>1, <1>2 DEF Forward, QuietPacket, QuietKind, Kind, GoodMessage, Carries

-----------------------------------------------------------------------------
(***************************************************************************)
(* The quiet turns.                                                        *)
(***************************************************************************)
\* The era of the replica that takes a turn: it learns nothing.
SameEra(i, d) == d.latestEpoch = core[i].latestEpoch /\ d.suspected \in SUBSET (Replica \ {i})
\* A core that keeps its frame keeps its era.
LEMMA FrameEra == ASSUME Eras, NEW i \in Replica, NEW d, Frame(core[i], d) PROVE SameEra(i, d)
BY DEF Eras, EraOf, Frame, SameEra

\* submit only queues the request, or forwards it.
LEMMA TurnPropose ==
    ASSUME Invariants, NEW i \in Replica, NEW r \in Put, Propose(i, r)
    PROVE  GoodTurn(i) /\ SameEra(i, core'[i])
<1>0. Typed /\ Shape /\ Eras /\ GoodCore(core[i]) BY CoreType DEF Invariants
<1>1. PICK q \in Orders(core[i], {r}) : Only(i, Submitted(i, core[i], {r}, q)) BY DEF Propose
<1> DEFINE d == Submitted(i, core[i], {r}, q)
<1>2. {r} \in SUBSET Put /\ IsFiniteSet({r}) BY FS_Singleton
<1>3. GoodCore(d) /\ Still(core[i], d) BY <1>0, <1>2, SubmittedIs
<1>4. Carried(Forwards(i, core[i], {r})) BY SendIs DEF Propose
<1>5. \A m \in Forwards(i, core[i], {r}) : QuietPacket(i, m) BY <1>0, <1>2, ForwardsQuiet
<1> HIDE DEF d
<1>6. Unmoved(core[i], d) BY <1>3, StillUnmoved
<1>7. Only(i, d) BY <1>1 DEF d
<1>8. GoodTurn(i) BY <1>0, <1>3, <1>4, <1>5, <1>6, <1>7, QuietTurn
<1>9. SameEra(i, core'[i]) BY <1>0, <1>3, <1>7, OnlyIs, FrameEra DEF Still
<1> QED BY <1>8, <1>9

\* A replica that only sends.
LEMMA StillOnly == ASSUME Typed, NEW i \in Replica, core' = core
                   PROVE  Only(i, core[i]) /\ Unmoved(core[i], core[i]) /\ Frame(core[i], core[i])
BY DEF Typed, Only, Unmoved, Frame

\* A forwarded request is queued, or its result returned.
LEMMA TurnForward ==
    ASSUME Invariants, NEW i \in Replica, NEW m \in msgs, ReceiveForward(i, m)
    PROVE  GoodTurn(i) /\ SameEra(i, core'[i])
<1>0. Typed /\ Shape /\ Eras /\ GoodCore(core[i]) BY CoreType DEF Invariants
<1>1. m.req \in Put /\ m.from \in Replica /\ m.ballot \in Ballot
  BY <1>0 DEF Typed, GoodMessage, Carries, ReceiveForward
<1> DEFINE reply == [kind |-> "ForwardReply", from |-> i, to |-> m.from,
                     ballot |-> m.ballot, req |-> m.req]
<1>2. \/ Send({reply}) /\ UNCHANGED core
      \/ /\ \E q \in Orders(core[i], {m.req}) : Only(i, Submitted(i, core[i], {m.req}, q))
         /\ UNCHANGED msgs
  BY DEF ReceiveForward
<1>3. CASE Send({reply}) /\ UNCHANGED core
  <2>1. Only(i, core[i]) /\ Unmoved(core[i], core[i]) /\ Frame(core[i], core[i])
    BY <1>0, <1>3, StillOnly
  <2>2. \A x \in {reply} : QuietPacket(i, x)
    BY <1>1 DEF QuietPacket, QuietKind, Kind, GoodMessage, Carries
  <2> HIDE DEF reply
  <2>3. Carried({reply}) BY <1>3, SendIs
  <2>4. GoodTurn(i) BY <1>0, <2>1, <2>2, <2>3, QuietTurn
  <2>5. SameEra(i, core'[i]) BY <1>0, <1>3, <2>1, FrameEra
  <2> QED BY <2>4, <2>5
<1>4. ASSUME NEW q \in Orders(core[i], {m.req}), Only(i, Submitted(i, core[i], {m.req}, q)),
             UNCHANGED msgs
      PROVE  GoodTurn(i) /\ SameEra(i, core'[i])
  <2> DEFINE d == Submitted(i, core[i], {m.req}, q)
  <2>2. {m.req} \in SUBSET Put /\ IsFiniteSet({m.req}) BY <1>1, FS_Singleton
  <2>3. GoodCore(d) /\ Still(core[i], d) BY <1>0, <2>2, SubmittedIs
  <2>4. Carried({}) BY <1>4, SendsNothing
  <2> HIDE DEF d
  <2>6. Unmoved(core[i], d) BY <2>3, StillUnmoved
  <2>7. Only(i, d) BY <1>4 DEF d
  <2>8. GoodTurn(i) BY <1>0, <2>3, <2>4, <2>6, <2>7, QuietTurn
  <2>9. SameEra(i, core'[i]) BY <1>0, <2>3, <2>7, OnlyIs, FrameEra DEF Still
  <2> QED BY <2>8, <2>9
<1> QED BY <1>2, <1>3, <1>4

\* The result of a forwarded request is kept.
LEMMA TurnForwardReply ==
    ASSUME Invariants, NEW i \in Replica, NEW m \in msgs, ReceiveForwardReply(i, m)
    PROVE  GoodTurn(i) /\ SameEra(i, core'[i])
<1>0. Typed /\ Shape /\ Eras /\ GoodCore(core[i]) BY CoreType DEF Invariants
<1>1. m.req \in Put BY <1>0 DEF Typed, GoodMessage, Carries, ReceiveForwardReply
<1> DEFINE d == [core[i] EXCEPT !.pending = @ \ {m.req}, !.forwardResults = @ \cup {m.req}]
<1>2. Only(i, d) /\ UNCHANGED msgs BY DEF ReceiveForwardReply
<1>3. GoodCore(d) /\ Still(core[i], d) BY <1>0, <1>1, RepliedIs
<1>4. Carried({}) BY <1>2, SendsNothing
<1> HIDE DEF d
<1>6. Unmoved(core[i], d) BY <1>3, StillUnmoved
<1>8. GoodTurn(i) BY <1>0, <1>2, <1>3, <1>4, <1>6, QuietTurn
<1>9. SameEra(i, core'[i]) BY <1>0, <1>2, <1>3, OnlyIs, FrameEra DEF Still
<1> QED BY <1>8, <1>9

\* The tick of a follower or a candidate leaves the log as it is.
LEMMA TurnFollow ==
    ASSUME Invariants, NEW i \in Replica, NEW due, TickFollow(i, due)
    PROVE  GoodTurn(i) /\ SameEra(i, core'[i])
<1>0. Typed /\ Shape /\ Eras /\ LeaseInv /\ GoodCore(core[i]) BY CoreType DEF Invariants
<1> DEFINE S == Doubts(i, due)
           b == [core[i] EXCEPT !.suspected = S]
           c == Reading(i, b, due)
           F == IF "read" \in due THEN Fetch(i, c, Switched(i)) ELSE {}
           M == Grants(i, due) \cup Forwards(i, c, Waiting(c)) \cup F
<1>1. S \in SUBSET (Replica \ {i}) /\ S \in SUBSET Replica BY <1>0, SuspicionType
<1>2. PICK q \in Orders(c, Waiting(c)) : Only(i, Resumed(i, c, q)) BY DEF TickFollow
<1>3. Carried(M) BY SendIs DEF TickFollow
<1> HIDE DEF S
<1>4. /\ GoodCore(b) /\ Unmoved(core[i], b) /\ b.suspected = S
      /\ b.latestEpoch = core[i].latestEpoch
  BY <1>0, <1>1, SuspectIs
<1> HIDE DEF b
<1>5. GoodCore(c) /\ Still(b, c) BY <1>0, <1>4, ReadingIs
<1> HIDE DEF c
<1> DEFINE d == Resumed(i, c, q)
<1>6. GoodCore(d) /\ Still(c, d) BY <1>5, ResumedIs
<1>7. Only(i, d) BY <1>2
<1> HIDE DEF d
<1>8. Unmoved(core[i], d) BY <1>4, <1>5, <1>6, StillOn, StillUnmoved, UnmovedOn
<1>9. \A m \in M : QuietPacket(i, m)
  <2>1. Waiting(c) \in SUBSET Put
    <3>1. c.pending \in SUBSET Put BY <1>5, CoreIs
    <3> QED BY <3>1 DEF Waiting
  <2>2. \A m \in Forwards(i, c, Waiting(c)) : QuietPacket(i, m) BY <1>5, <2>1, ForwardsQuiet
  <2>3. \A m \in Grants(i, due) : QuietPacket(i, m) BY <1>0, GrantsQuiet
  <2>4. Switched(i).catchup \in Place BY <1>0, SwitchedIs
  <2>5. \A m \in Fetch(i, c, Switched(i)) : QuietPacket(i, m) BY <1>5, <2>4, FetchQuiet
  <2> QED BY <2>2, <2>3, <2>5
<1> HIDE DEF M
<1>10. GoodTurn(i) BY <1>0, <1>3, <1>6, <1>7, <1>8, <1>9, QuietTurn
<1>11. SameEra(i, d) BY <1>1, <1>4, <1>5, <1>6 DEF SameEra, Still, Frame
<1> QED BY <1>0, <1>7, <1>10, <1>11, OnlyIs

\* A configuration is learnt between two changes of the log.
LEMMA TurnLearn ==
    ASSUME Invariants, NEW i \in Replica, Learn(i) \/ \E ch : Decide(i, ch)
    PROVE  /\ GoodTurn(i) /\ core'[i].latestEpoch = core[i].latestEpoch + 1
           /\ core'[i].suspected = core[i].suspected
<1>0. Typed /\ Shape /\ GoodCore(core[i]) BY CoreType DEF Invariants
<1> DEFINE d == [core[i] EXCEPT !.latestEpoch = @ + 1]
<1>1. Only(i, d) /\ UNCHANGED msgs BY DEF Learn, Decide
<1>2. /\ GoodCore(d) /\ Unmoved(core[i], d) /\ d.latestEpoch = core[i].latestEpoch + 1
      /\ d.suspected = core[i].suspected
  BY <1>0, LearnedIs
<1> HIDE DEF d
<1>3. Carried({}) BY <1>1, SendsNothing
<1>4. GoodTurn(i) BY <1>0, <1>1, <1>2, <1>3, QuietTurn
<1> QED BY <1>0, <1>1, <1>2, <1>4, OnlyIs

\* The steps of the clock and the leases.
LEMMA TurnElapse ==
    ASSUME Invariants, Elapse PROVE GoodTurn(0) /\ 0 \in Replica /\ UNCHANGED core
<1>0. Typed /\ Shape BY DEF Invariants
<1>1. 0 \in Replica BY NAssumption DEF Replica
<1>2. GoodCore(core[0]) BY <1>0, <1>1, CoreType
<1>3. Only(0, core[0]) /\ Unmoved(core[0], core[0]) BY <1>0, <1>1, StillOnly DEF Elapse
<1>4. Carried({}) BY SendsNothing DEF Elapse
<1>5. GoodTurn(0) BY <1>0, <1>1, <1>2, <1>3, <1>4, QuietTurn
<1> QED BY <1>1, <1>5 DEF Elapse

\* The lease packets do not concern the log.
LEMMA TurnLease ==
    ASSUME Invariants, NEW i \in Replica, NEW m \in msgs,
           \/ ReceiveGuard(i, m) \/ ReceiveGuardAck(i, m)
           \/ ReceiveLeasePromise(i, m) \/ ReceiveLeaseReply(i, m)
    PROVE  GoodTurn(i) /\ UNCHANGED core
<1>0. Typed /\ Shape /\ Eras /\ GoodCore(core[i]) BY CoreType DEF Invariants
<1>1. UNCHANGED core
  BY DEF ReceiveGuard, ReceiveGuardAck, ReceiveLeasePromise, ReceiveLeaseReply, Keeps
<1>2. Only(i, core[i]) /\ Unmoved(core[i], core[i]) BY <1>0, <1>1, StillOnly
<1>3. m.from \in Replica BY <1>0 DEF Typed, GoodMessage
<1>4. \E M : Carried(M) /\ \A x \in M : QuietPacket(i, x)
  <2>1. CASE ReceiveGuard(i, m)
    <3> DEFINE ack == [kind |-> "GuardAck", from |-> i, to |-> m.from, epoch |-> m.epoch,
                       stamp |-> m.stamp]
    <3>1. Send({ack}) BY <2>1 DEF ReceiveGuard
    <3>2. \A x \in {ack} : QuietPacket(i, x)
      BY <1>3 DEF QuietPacket, QuietKind, Kind, GoodMessage, Carries
    <3> QED BY <3>1, <3>2, SendIs
  <2>2. CASE ReceiveGuardAck(i, m)
    <3> DEFINE p == Promise(lease[i], i, m.from, now, core[i].high, TRUE)
    <3>1. Send({p}) BY <2>2 DEF ReceiveGuardAck
    <3>2. /\ p.kind = "LeasePromise" /\ p.from = i /\ p.to = m.from
          /\ p.epoch = lease[i].promisedBy /\ p.frontier = core[i].high
      BY DEF Promise
    <3> HIDE DEF p
    <3>3. lease[i].promisedBy \in Genesis..MaxEpoch BY <1>0, EraIs
    <3>4. core[i].high \in Place BY <1>0, CoreIs
    <3>5. \A x \in {p} : QuietPacket(i, x)
      BY <1>3, <3>2, <3>3, <3>4 DEF QuietPacket, QuietKind, Kind, GoodMessage, Carries
    <3> QED BY <3>1, <3>5, SendIs
  <2>3. CASE ReceiveLeasePromise(i, m)
    <3> DEFINE d == OnPromise(lease[i], m, now)
               r == [kind |-> "LeaseReply", from |-> i, to |-> m.from, epoch |-> d.promisedTo,
                     stamp |-> m.stamp]
    <3>1. Send({r}) BY <2>3 DEF ReceiveLeasePromise
    <3> HIDE DEF d
    <3>2. \A x \in {r} : QuietPacket(i, x)
      BY <1>3 DEF QuietPacket, QuietKind, Kind, GoodMessage, Carries
    <3> QED BY <3>1, <3>2, SendIs
  <2>4. CASE ReceiveLeaseReply(i, m)
    <3>1. Carried({}) BY <2>4, SendsNothing DEF ReceiveLeaseReply
    <3> QED BY <3>1
  <2> QED BY <2>1, <2>2, <2>3, <2>4
<1>5. PICK M : Carried(M) /\ \A x \in M : QuietPacket(i, x) BY <1>4
<1>6. GoodTurn(i) BY <1>0, <1>2, <1>5, QuietTurn
<1> QED BY <1>1, <1>6

\* A fetch that reaches a leader that still prepares.
LEMMA TurnFetchEarly ==
    ASSUME Invariants, NEW i \in Replica, NEW m \in msgs, ReceiveFetch(i, m), preparing[i]
    PROVE  GoodTurn(i) /\ SameEra(i, core'[i])
<1>0. Typed /\ Shape /\ Eras /\ GoodCore(core[i]) BY CoreType DEF Invariants
<1> DEFINE h == Max({core[i].catchupTarget, m.high})
           d == [core[i] EXCEPT !.catchupTarget = h]
<1>1. m.high \in Place BY <1>0 DEF Typed, GoodMessage, Carries, ReceiveFetch
<1>2. h \in Place
  <2>1. core[i].catchupTarget \in Place BY <1>0, CoreIs
  <2>2. m.high \in Int /\ core[i].catchupTarget \in Int BY <1>1, <2>1, Bounds DEF Place
  <2> QED BY <1>1, <2>1, <2>2, MaxOfTwo
<1> HIDE DEF h
<1>3. GoodCore(d) /\ Still(core[i], d) BY <1>0, <1>2, TargetIs
<1>4. d.preparing = core[i].preparing /\ core[i].preparing = preparing[i]
  BY <1>3, Views DEF Still, Frame
<1>5. Only(i, d) /\ UNCHANGED msgs BY <1>4 DEF ReceiveFetch, h
<1> HIDE DEF d
<1>6. Carried({}) BY <1>5, SendsNothing
<1>7. Unmoved(core[i], d) BY <1>3, StillUnmoved
<1>8. GoodTurn(i) BY <1>0, <1>3, <1>5, <1>6, <1>7, QuietTurn
<1>9. SameEra(i, core'[i]) BY <1>0, <1>3, <1>5, OnlyIs, FrameEra DEF Still
<1> QED BY <1>8, <1>9

-----------------------------------------------------------------------------
(***************************************************************************)
(* The turns of a follower.                                                *)
(***************************************************************************)
\* A packet that was received.
LEMMA Received ==
    ASSUME Typed, Shape, NEW m \in msgs
    PROVE  /\ GoodMessage(m) /\ GoodPacket(m) /\ m.from \in Replica /\ m.to \in Replica
BY DEF Typed, GoodMessage, Shape, Traffic

\* A snapshot of c's log.
LEMMA SnapshotIs ==
    ASSUME NEW c, GoodCore(c), NEW i \in Replica, NEW j \in Replica, NEW b \in Ballot,
           NEW f \in 0..(MaxSlot + 1), NEW p, p = Snapshot(i, j, c, b, f)
    PROVE  /\ p \in Snapshots /\ Ends(p.recs, p.high, -1)
           /\ p.kind = "Promise" /\ p.from = i /\ p.to = j /\ p.ballot = b /\ p.floor = f
           /\ Entries(p.recs) \subseteq Entries(c.log)
           /\ \A y \in Entries(c.log) : y.slot >= f => y \in Entries(p.recs)
<1> DEFINE L == [s \in Slot |-> IF s \in f..c.high THEN c.log[s] ELSE Empty]
<1>1. /\ c.high \in Place /\ c.high \in Int /\ c.log \in [Slot -> Record]
      /\ Ends(c.log, c.high, c.executed)
  BY CoreIs
<1>2. p = [kind |-> "Promise", from |-> i, to |-> j, ballot |-> b, floor |-> f,
           high |-> c.high, recs |-> L]
  BY DEF Snapshot
<1>3. Empty \in Record /\ Empty.req = Hole /\ ~Empty.committed BY Bounds DEF Empty, Record
<1>4. \A s \in Slot : L[s] = IF s \in f..c.high THEN c.log[s] ELSE Empty OBVIOUS
<1>5. L \in [Slot -> Record]
  <2>1. L = [s \in Slot |-> L[s]] OBVIOUS
  <2> HIDE DEF L
  <2> QED BY <1>1, <1>3, <1>4, <2>1
<1> HIDE DEF L
<1>6. p \in Snapshots BY <1>1, <1>2, <1>5 DEF Snapshots
<1>7. /\ p.kind = "Promise" /\ p.from = i /\ p.to = j /\ p.ballot = b /\ p.floor = f
      /\ p.recs = L /\ p.high = c.high
  BY <1>2
<1> HIDE <1>2
<1>8. Ends(L, c.high, -1)
  <2> SUFFICES ASSUME NEW s \in Slot
               PROVE  Solid(L[s]) /\ (L[s].req # Hole => s <= c.high) /\ (s <= -1 => L[s].committed)
    BY DEF Ends
  <2>1. Solid(c.log[s]) /\ (c.log[s].req # Hole => s <= c.high) BY <1>1 DEF Ends
  <2>2. ~(s <= -1) BY SlotInt
  <2> QED BY <1>3, <1>4, <2>1, <2>2 DEF Solid
<1>9. Entries(L) \subseteq Entries(c.log)
  <2> SUFFICES ASSUME NEW x \in Entries(L) PROVE x \in Entries(c.log) OBVIOUS
  <2>1. x.slot \in Slot /\ L[x.slot].req # Hole /\ x = Entry(x.slot, L[x.slot]) BY InEntries
  <2>2. L[x.slot] = c.log[x.slot] BY <1>3, <1>4, <2>1
  <2> QED BY <2>1, <2>2, InEntries
<1>10. ASSUME NEW y \in Entries(c.log), y.slot >= f PROVE y \in Entries(L)
  <2>1. y.slot \in Slot /\ c.log[y.slot].req # Hole /\ y = Entry(y.slot, c.log[y.slot])
    BY InEntries
  <2>2. y.slot \in Int /\ y.slot <= c.high BY <1>1, <2>1, SlotInt DEF Ends
  <2>3. f \in Int BY Bounds
  <2>4. L[y.slot] = c.log[y.slot] BY <1>1, <1>4, <1>10, <2>1, <2>2, <2>3
  <2> QED BY <2>1, <2>4, InEntries
<1> QED BY <1>6, <1>7, <1>8, <1>9, <1>10

\* A replica that follows a higher ballot.
YieldTo(c, b, l, d) ==
    /\ d.ballot = b /\ d.leader = l /\ ~d.preparing /\ d.promises = c.promises
    /\ d.log = c.log /\ d.executed = c.executed /\ d.high = c.high
    /\ d.latestEpoch = c.latestEpoch /\ d.suspected = c.suspected
\* What a replica is when it follows a higher ballot.
LEMMA YieldIs ==
    ASSUME NEW c, GoodCore(c), NEW b \in Ballot, NEW l \in Replica,
           NEW d, d = [c EXCEPT !.ballot = b, !.leader = l, !.preparing = FALSE,
                                !.active = FALSE, !.votes = [s \in Slot |-> {}]]
    PROVE  GoodCore(d) /\ YieldTo(c, b, l, d)
<1>1. c \in Core /\ \A p \in c.promises : Ends(p.recs, p.high, -1) BY DEF GoodCore
<1>2. d \in Core BY <1>1 DEF Core
<1>3. YieldTo(c, b, l, d) /\ d.pending = c.pending BY <1>1 DEF Core, YieldTo
<1>5. GoodCore(d) BY <1>1, <1>2, <1>3, CoreIs DEF GoodCore, YieldTo
<1> QED BY <1>3, <1>5

\* A replica that yields to a ballot keeps its log and counts no votes.
LEMMA YieldParts ==
    ASSUME Typed, Shape, NEW i \in Replica, NEW b \in Ballot, b > ballot[i], Owner(b) # i,
           NEW d, core'[i] = d, YieldTo(core[i], b, Owner(b), d)
    PROVE  /\ Role(i) /\ LogStep(i) /\ Counts(i) /\ Collects(i) /\ Recovers(i)
           /\ ballot'[i] = b /\ promises'[i] = promises[i]
<1>1. /\ ballot'[i] = b /\ leader'[i] = Owner(b) /\ ~preparing'[i] /\ log'[i] = log[i]
      /\ promises'[i] = promises[i]
  BY Views, ViewsNext DEF YieldTo
<1>2. ballot[i] \in Nat /\ b \in Nat BY CoreType, BallotNat
<1>3. Owner(ballot'[i]) = Owner(b) BY <1>1
<1>4. ~Leading(i)' BY <1>1 DEF Leading
<1>5. Role(i) BY <1>1, <1>2, <1>3, <1>4 DEF Role
<1>6. LogStep(i)
  <2>1. GoodLog(i)'
    <3>1. GoodLog(i) BY DEF Shape, LogShape
    <3>2. \A x \in log'[i] : x.ballot <= ballot'[i]
      <4> TAKE x \in log'[i]
      <4>1. x \in Line /\ x.ballot <= ballot[i] BY <1>1, <3>1, CoreType DEF GoodLog
      <4>2. x.ballot \in Nat BY <4>1, LineTypes
      <4> QED BY <1>1, <1>2, <4>1, <4>2
    <3> QED BY <1>4, <3>2 DEF GoodLog
  <2>2. KeepsLog(i) BY <1>1, KeepsSame
  <2>3. \A x \in log'[i] : x \in Known BY <1>1, InKnown
  <2> QED BY <2>1, <2>2, <2>3 DEF LogStep
<1>7. Counts(i) BY <1>1 DEF Counts
<1>8. Collects(i) BY <1>1, InPromised DEF Collects
<1>9. Recovers(i) BY <1>1 DEF Recovers
<1> QED BY <1>1, <1>5, <1>6, <1>7, <1>8, <1>9

\* A promise that was asked for.
LEMMA PromiseSends ==
    ASSUME Typed, Shape, NEW i \in Replica, NEW m \in msgs, m.to = i, m.kind = "Prepare",
           m.ballot <= ballot'[i], promises'[i] = promises[i],
           {x \in msgs : x.kind = "Promise" /\ x.from = i /\ x.ballot = m.ballot
                           /\ x.floor = m.floor} = {},
           NEW p, p = Snapshot(i, m.from, core[i], m.ballot, m.floor)
    PROVE  Sends(i, {p}) /\ Snaps(i, {p})
<1>1. /\ GoodMessage(m) /\ GoodPacket(m) /\ m.from \in Replica /\ GoodCore(core[i])
  BY Received, CoreType
<1>2. m.ballot \in Ballot /\ m.floor \in 0..(MaxSlot + 1) BY <1>1 DEF GoodMessage, Carries
<1>3. m.from = Owner(m.ballot) /\ m.from # i BY <1>1 DEF GoodPacket
<1>4. /\ p \in Snapshots /\ Ends(p.recs, p.high, -1)
      /\ p.kind = "Promise" /\ p.from = i /\ p.to = m.from /\ p.ballot = m.ballot
      /\ p.floor = m.floor /\ Entries(p.recs) \subseteq Entries(core[i].log)
      /\ \A y \in Entries(core[i].log) : y.slot >= m.floor => y \in Entries(p.recs)
  <2> DEFINE c == core[i]
             j == m.from
             b == m.ballot
             f == m.floor
  <2>1. /\ GoodCore(c) /\ j \in Replica /\ b \in Ballot /\ f \in 0..(MaxSlot + 1)
        /\ p = Snapshot(i, j, c, b, f)
    BY <1>1, <1>2
  <2> HIDE DEF c, j, b, f
  <2>2. p \in Snapshots /\ Ends(p.recs, p.high, -1) BY <2>1, SnapshotIs
  <2>3. p.kind = "Promise" /\ p.from = i /\ p.to = j /\ p.ballot = b /\ p.floor = f
    BY <2>1, SnapshotIs
  <2>4. Entries(p.recs) \subseteq Entries(c.log) BY <2>1, SnapshotIs
  <2>5. \A y \in Entries(c.log) : y.slot >= f => y \in Entries(p.recs) BY <2>1, SnapshotIs
  <2> QED BY <2>2, <2>3, <2>4, <2>5 DEF c, j, b, f
<1>5. log[i] = Entries(core[i].log) BY Views
<1>6. Offered(i, p)
  <2>1. \A r \in Promises : ~(r.from = i /\ r.ballot = p.ballot /\ r.floor = p.floor)
    <3> SUFFICES ASSUME NEW r \in Promises, r.from = i, r.ballot = p.ballot, r.floor = p.floor
                 PROVE  FALSE
      OBVIOUS
    <3>1. r \in msgs \/ r.from = Owner(r.ballot) BY DEF Shape, Sources
    <3>2. r \in msgs BY <1>3, <1>4, <3>1
    <3>3. r \in Snapshots BY PromiseType
    <3>4. r.kind = "Promise" BY <3>3 DEF Snapshots
    <3> QED BY <1>4, <3>2, <3>4
  <2>2. Snapped(p) BY <1>4, <1>5 DEF Snapped
  <2> QED BY <1>4, <1>5, <2>1, <2>2 DEF Offered
<1>7. GoodMessage(p) BY <1>1, <1>2, <1>4 DEF GoodMessage, Kind, Carries
<1>8. GoodPacket(p)' BY <1>3, <1>4 DEF GoodPacket
<1>9. Sends(i, {p}) BY <1>4, <1>6, <1>7, <1>8 DEF Sends
<1>10. Snaps(i, {p})
  <2>1. promises'[i] \subseteq Promises BY OldPromises
  <2> QED BY <2>1 DEF Snaps
<1> QED BY <1>9, <1>10

\* Nothing is sent.
LEMMA NothingSent ==
    ASSUME NEW i \in Replica, promises'[i] = promises[i] PROVE Sends(i, {}) /\ Snaps(i, {})
<1>1. promises'[i] \subseteq Promises BY OldPromises
<1> QED BY <1>1 DEF Sends, Snaps

\* A Prepare is answered with a snapshot of the log as it was at the first request.
LEMMA TurnPrepare ==
    ASSUME Invariants, NEW i \in Replica, NEW m \in msgs, m.to = i, ReceivePrepare(i, m)
    PROVE  GoodTurn(i) /\ SameEra(i, core'[i])
<1>0. Typed /\ Shape /\ Eras /\ GoodCore(core[i]) BY CoreType DEF Invariants
<1> DEFINE c == core[i]
           p == Snapshot(i, m.from, c, m.ballot, m.floor)
           frozen == {x \in msgs : /\ x.kind = "Promise" /\ x.from = i /\ x.ballot = m.ballot
                                   /\ x.floor = m.floor}
           M == IF frozen = {} THEN {p} ELSE {}
           up == [c EXCEPT !.ballot = m.ballot, !.leader = m.from, !.preparing = FALSE,
                           !.active = FALSE, !.votes = [s \in Slot |-> {}]]
           idle == [c EXCEPT !.active = FALSE]
<1>1. /\ m.kind = "Prepare" /\ m.ballot >= c.ballot
      /\ Only(i, IF m.ballot > c.ballot THEN up ELSE idle) /\ Carried(M)
  BY SendIs DEF ReceivePrepare
<1>2. GoodMessage(m) /\ GoodPacket(m) /\ m.from \in Replica BY <1>0, Received
<1>3. m.ballot \in Ballot BY <1>1, <1>2 DEF GoodMessage, Carries
<1>4. m.from = Owner(m.ballot) /\ m.from # i BY <1>1, <1>2 DEF GoodPacket
<1>5. ballot[i] = c.ballot /\ ballot[i] \in Nat /\ m.ballot \in Nat
  BY <1>0, <1>3, Views, CoreType, BallotNat
<1> HIDE DEF frozen, up, idle
<1>6. ASSUME m.ballot <= ballot'[i], promises'[i] = promises[i]
      PROVE  Sends(i, M) /\ Snaps(i, M)
  <2>1. CASE frozen = {} BY <1>0, <1>1, <1>6, <2>1, PromiseSends DEF frozen
  <2>2. CASE frozen # {} BY <1>6, <2>2, NothingSent
  <2> QED BY <2>1, <2>2
<1> HIDE DEF M
<1>7. CASE m.ballot > c.ballot
  <2>1. Only(i, up) BY <1>1, <1>7
  <2>2. GoodCore(up) /\ YieldTo(c, m.ballot, m.from, up) BY <1>0, <1>2, <1>3, YieldIs DEF up
  <2>3. core'[i] = up /\ Alone(i) BY <1>0, <2>1, OnlyIs
  <2>4. /\ Role(i) /\ LogStep(i) /\ Counts(i) /\ Collects(i) /\ Recovers(i)
        /\ ballot'[i] = m.ballot /\ promises'[i] = promises[i]
    BY <1>0, <1>3, <1>4, <1>5, <1>7, <2>2, <2>3, YieldParts
  <2>5. Sends(i, M) /\ Snaps(i, M) BY <1>5, <1>6, <2>4
  <2>6. SameEra(i, core'[i]) BY <1>0, <2>2, <2>3 DEF SameEra, YieldTo, Eras, EraOf
  <2>7. Effect(i, M) BY <1>1, <2>5 DEF Effect
  <2> QED BY <2>2, <2>3, <2>4, <2>6, <2>7 DEF GoodTurn
<1>8. CASE ~(m.ballot > c.ballot)
  <2>1. Only(i, idle) BY <1>1, <1>8
  <2>2. GoodCore(idle) /\ Still(c, idle)
    <3>1. c \in Core /\ \A x \in c.promises : Ends(x.recs, x.high, -1) BY <1>0 DEF GoodCore
    <3>2. idle \in Core BY <3>1 DEF Core, idle
    <3>3. Still(c, idle) /\ idle.pending = c.pending BY <3>1 DEF Core, Still, Frame, idle
    <3>4. GoodCore(idle) BY <1>0, <3>1, <3>2, <3>3, CoreIs DEF GoodCore, Still, Frame
    <3> QED BY <3>3, <3>4
  <2>3. core'[i] = idle /\ Alone(i) BY <1>0, <2>1, OnlyIs
  <2>4. Same(i) BY <2>2, <2>3, StillUnmoved, StillViews
  <2>5. Role(i) /\ LogStep(i) /\ Counts(i) /\ Collects(i) /\ Recovers(i)
    BY <1>0, <2>4, SameParts
  <2>6. m.ballot <= ballot'[i] /\ promises'[i] = promises[i] BY <1>1, <1>5, <1>8, <2>4 DEF Same
  <2>7. Sends(i, M) /\ Snaps(i, M) BY <1>6, <2>6
  <2>8. SameEra(i, core'[i]) BY <1>0, <2>2, <2>3, FrameEra DEF Still
  <2>9. Effect(i, M) BY <1>1, <2>7 DEF Effect
  <2> QED BY <2>2, <2>3, <2>5, <2>8, <2>9 DEF GoodTurn
<1> QED BY <1>7, <1>8

\* Ready moves a replica to the ballot of a leader, and never touches its log.
LEMMA TurnReady ==
    ASSUME Invariants, NEW i \in Replica, NEW m \in msgs, m.to = i, ReceiveReady(i, m)
    PROVE  GoodTurn(i) /\ SameEra(i, core'[i])
<1>0. Typed /\ Shape /\ Eras /\ GoodCore(core[i]) BY CoreType DEF Invariants
<1> DEFINE c == core[i]
           up == [c EXCEPT !.ballot = m.ballot, !.leader = m.from, !.preparing = FALSE,
                           !.active = FALSE, !.votes = [s \in Slot |-> {}]]
           d == IF m.ballot > c.ballot THEN up ELSE c
           f == IF m.active /\ ~d.active THEN Activate(d) ELSE d
           M == IF m.high > d.executed THEN Fetch(i, d, lease[i]) ELSE {}
<1>1. m.kind = "Ready" /\ m.ballot >= c.ballot /\ Only(i, f) /\ Carried(M)
  BY SendIs DEF ReceiveReady
<1>2. GoodMessage(m) /\ GoodPacket(m) /\ m.from \in Replica BY <1>0, Received
<1>3. m.ballot \in Ballot BY <1>1, <1>2 DEF GoodMessage, Carries
<1>4. m.from = Owner(m.ballot) /\ m.from # i BY <1>1, <1>2 DEF GoodPacket
<1>5. ballot[i] = c.ballot /\ ballot[i] \in Nat /\ m.ballot \in Nat
  BY <1>0, <1>3, Views, CoreType, BallotNat
<1>6. m.ballot > c.ballot => GoodCore(up) /\ YieldTo(c, m.ballot, m.from, up)
  BY <1>0, <1>2, <1>3, YieldIs
<1> HIDE DEF up
<1>7. GoodCore(d) BY <1>0, <1>6
<1>8. GoodCore(f) /\ Still(d, f)
  <2> HIDE DEF d
  <2>1. CASE m.active /\ ~d.active BY <1>7, <2>1, ActivateIs
  <2>2. CASE ~(m.active /\ ~d.active)
    <3>1. f = d BY <2>2
    <3> QED BY <1>7, <3>1 DEF Still, Frame
  <2> QED BY <2>1, <2>2
<1>9. \A x \in M : QuietPacket(i, x)
  <2> HIDE DEF d
  <2>1. lease[i].catchup \in Place BY <1>0, EraIs
  <2> QED BY <1>7, <2>1, FetchQuiet
<1> HIDE DEF M, f
<1>10. CASE m.ballot > c.ballot
  <2>1. d = up BY <1>10
  <2> HIDE DEF d
  <2>2. YieldTo(c, m.ballot, m.from, f) BY <1>6, <1>8, <1>10, <2>1 DEF YieldTo, Still, Frame
  <2>3. core'[i] = f /\ Alone(i) BY <1>0, <1>1, OnlyIs
  <2>4. /\ Role(i) /\ LogStep(i) /\ Counts(i) /\ Collects(i) /\ Recovers(i)
        /\ ballot'[i] = m.ballot /\ promises'[i] = promises[i]
    BY <1>0, <1>3, <1>4, <1>5, <1>10, <2>2, <2>3, YieldParts
  <2>5. Sends(i, M) /\ \A x \in M : x.kind # "Promise" BY <1>9, QuietSends
  <2>6. Snaps(i, M) BY <2>4, <2>5, OldPromises, NoSnap
  <2>7. Effect(i, M) BY <1>1, <2>5, <2>6 DEF Effect
  <2>8. SameEra(i, core'[i]) BY <1>0, <2>2, <2>3 DEF SameEra, YieldTo, Eras, EraOf
  <2> QED BY <1>8, <2>3, <2>4, <2>7, <2>8 DEF GoodTurn
<1>11. CASE ~(m.ballot > c.ballot)
  <2>1. d = c BY <1>11
  <2> HIDE DEF d
  <2>2. Unmoved(core[i], f) BY <1>8, <2>1, StillUnmoved
  <2>3. GoodTurn(i) BY <1>0, <1>1, <1>8, <1>9, <2>2, QuietTurn
  <2>4. SameEra(i, core'[i]) BY <1>0, <1>1, <1>8, <2>1, OnlyIs, FrameEra DEF Still
  <2> QED BY <2>3, <2>4
<1> QED BY <1>10, <1>11

\* A turn in which nobody's role changes.
SameRole(c, d) == /\ d.ballot = c.ballot /\ d.leader = c.leader /\ d.preparing = c.preparing
                  /\ d.promises = c.promises
\* A replica that keeps its role keeps everyone's.
LEMMA RolesKept ==
    ASSUME Typed, NEW i \in Replica, Alone(i), NEW d, core'[i] = d, SameRole(core[i], d),
           NEW q \in Replica
    PROVE  /\ ballot'[q] = ballot[q] /\ preparing'[q] = preparing[q] /\ leader'[q] = leader[q]
           /\ promises'[q] = promises[q]
<1>1. CASE q = i BY <1>1, Views, ViewsNext DEF SameRole
<1>2. CASE q # i BY <1>2, OthersSame DEF Same
<1> QED BY <1>1, <1>2

\* The same of a core that keeps its frame.
LEMMA FrameRoles ==
    ASSUME Typed, NEW i \in Replica, Alone(i), NEW d, core'[i] = d, Frame(core[i], d),
           NEW q \in Replica
    PROVE  /\ ballot'[q] = ballot[q] /\ preparing'[q] = preparing[q] /\ leader'[q] = leader[q]
           /\ promises'[q] = promises[q]
<1>1. SameRole(core[i], d) BY DEF SameRole, Frame
<1> QED BY <1>1, RolesKept

\* A ballot that is led stays led.
LEMMA LedFrame ==
    ASSUME Typed, NEW i \in Replica, Alone(i), NEW d, core'[i] = d, Frame(core[i], d),
           NEW b \in Ballot, Led(b)
    PROVE  Led(b)'
<1>1. Owner(b) \in Replica BY OwnerType, BallotNat
<1>2. ballot'[Owner(b)] = ballot[Owner(b)] /\ preparing'[Owner(b)] = preparing[Owner(b)]
  BY <1>1, FrameRoles
<1> QED BY <1>2 DEF Led

\* A log with a record put into it.
LEMMA EntriesPut ==
    ASSUME NEW L \in [Slot -> Record], NEW s \in Slot, NEW r, r.req # Hole,
           NEW K, K = [L EXCEPT ![s] = r]
    PROVE  /\ Entry(s, r) \in Entries(K)
           /\ \A x \in Entries(K) : x = Entry(s, r) \/ (x \in Entries(L) /\ x.slot # s)
           /\ \A x \in Entries(L) : x.slot # s => x \in Entries(K)
<1>1. \A t \in Slot : K[t] = IF t = s THEN r ELSE L[t] OBVIOUS
<1>2. Entry(s, r) \in Entries(K)
  <2>1. K[s] = r BY <1>1
  <2> QED BY <2>1, EntryIn
<1>3. ASSUME NEW x \in Entries(K) PROVE x = Entry(s, r) \/ (x \in Entries(L) /\ x.slot # s)
  <2>1. x.slot \in Slot /\ K[x.slot].req # Hole /\ x = Entry(x.slot, K[x.slot]) BY InEntries
  <2>2. CASE x.slot = s BY <1>1, <2>1, <2>2
  <2>3. CASE x.slot # s
    <3>1. K[x.slot] = L[x.slot] BY <1>1, <2>1, <2>3
    <3> QED BY <2>1, <2>3, <3>1, InEntries
  <2> QED BY <2>2, <2>3
<1>4. ASSUME NEW x \in Entries(L), x.slot # s PROVE x \in Entries(K)
  <2>1. x.slot \in Slot /\ L[x.slot].req # Hole /\ x = Entry(x.slot, L[x.slot]) BY InEntries
  <2>2. K[x.slot] = L[x.slot] BY <1>1, <1>4, <2>1
  <2> QED BY <2>1, <2>2, InEntries
<1> QED BY <1>2, <1>3, <1>4

\* A follower installs a record of its leader's.
Installed(c, s, r, d) ==
    /\ GoodCore(d) /\ Frame(c, d)
    /\ d.log = IF c.log[s].committed THEN c.log ELSE [c.log EXCEPT ![s] = r]
\* A follower that installs a record of its leader keeps its part of the invariants.
LEMMA InstallParts ==
    ASSUME Typed, Shape, NEW i \in Replica, Owner(ballot[i]) # i,
           NEW s \in Slot, NEW r, Real(r), r.ballot = ballot[i], Entry(s, r) \in Known,
           NEW d, core'[i] = d, Alone(i), Installed(core[i], s, r, d)
    PROVE  /\ Role(i) /\ LogStep(i) /\ Counts(i) /\ Collects(i) /\ Recovers(i)
           /\ ballot'[i] = ballot[i] /\ promises'[i] = promises[i]
           /\ \E y \in log'[i] : y.slot = s /\ (y.ballot >= ballot[i] \/ y.committed)
<1> DEFINE c == core[i]
<1>0. GoodCore(c) /\ GoodCore(d) /\ c.log \in [Slot -> Record] /\ Frame(c, d)
  BY CoreType, CoreIs DEF Installed
<1>1. /\ ballot'[i] = ballot[i] /\ leader'[i] = leader[i] /\ preparing'[i] = preparing[i]
      /\ promises'[i] = promises[i]
  BY <1>0, FrameRoles
<1>2. log[i] = Entries(c.log) /\ log'[i] = Entries(d.log) BY Views, ViewsNext
<1>3. ballot[i] \in Nat /\ ~Leading(i) /\ ~Leading(i)' BY <1>1, CoreType DEF Leading
<1>4. Role(i)
  <2>1. leader[i] = Owner(ballot[i]) BY DEF Shape, Leads
  <2> QED BY <1>1, <1>3, <2>1 DEF Role
<1>5. ASSUME c.log[s].committed
      PROVE  LogStep(i) /\ \E y \in log'[i] : y.slot = s /\ (y.ballot >= ballot[i] \/ y.committed)
  <2>1. log'[i] = log[i] BY <1>2, <1>5 DEF Installed
  <2>2. c.log[s].req # Hole BY <1>0, <1>5, CoreIs DEF Ends, Solid
  <2>3. Entry(s, c.log[s]) \in log'[i] BY <1>2, <2>1, <2>2, EntryIn
  <2>4. \A x \in log[i] : x.ballot <= ballot[i] BY DEF Shape, LogShape, GoodLog
  <2>5. GoodLog(i)' BY <1>1, <1>3, <2>1, <2>4 DEF GoodLog
  <2>6. LogStep(i) BY <2>1, <2>5, KeepsSame, InKnown DEF LogStep
  <2> QED BY <1>5, <2>3, <2>6, EntryFields
<1>6. ASSUME ~c.log[s].committed
      PROVE  LogStep(i) /\ \E y \in log'[i] : y.slot = s /\ (y.ballot >= ballot[i] \/ y.committed)
  <2>1. d.log = [c.log EXCEPT ![s] = r] BY <1>6 DEF Installed
  <2>2. r.req # Hole BY DEF Real
  <2> DEFINE e == Entry(s, r)
  <2>3. e \in Entries(d.log) BY <1>0, <2>1, <2>2, EntriesPut
  <2>4. \A x \in Entries(d.log) : x = e \/ (x \in Entries(c.log) /\ x.slot # s)
    BY <1>0, <2>1, <2>2, EntriesPut
  <2>5. \A x \in Entries(c.log) : x.slot # s => x \in Entries(d.log)
    BY <1>0, <2>1, <2>2, EntriesPut
  <2>6. e.slot = s /\ e.ballot = ballot[i] BY EntryFields
  <2>7. e \in Known OBVIOUS
  <2> HIDE DEF e
  <2>8. \A x \in log[i] : x.ballot <= ballot[i] BY DEF Shape, LogShape, GoodLog
  <2>9. GoodLog(i)'
    <3>1. \A x \in log'[i] : x.ballot <= ballot'[i] BY <1>1, <1>2, <1>3, <2>4, <2>6, <2>8
    <3> QED BY <1>3, <3>1 DEF GoodLog
  <2>10. KeepsLog(i)
    <3> SUFFICES ASSUME NEW y \in log[i]
                 PROVE  \E z \in log'[i] : /\ z.slot = y.slot /\ z.ballot >= y.ballot
                                           /\ y.committed => z.committed \/ z.ballot = ballot'[i]
                                           /\ Leading(i) => z.req = y.req
      BY DEF KeepsLog
    <3>1. y \in Line /\ y.ballot \in Nat /\ y.ballot <= ballot[i] BY <2>8, CoreType, LineTypes
    <3>2. CASE y.slot # s
      <4>1. y \in log'[i] /\ y.ballot >= y.ballot BY <1>2, <2>5, <3>1, <3>2
      <4> QED BY <4>1
    <3>3. CASE y.slot = s
      <4>1. e \in log'[i] /\ e.ballot >= y.ballot /\ e.ballot = ballot'[i]
        BY <1>1, <1>2, <1>3, <2>3, <2>6, <3>1
      <4> QED BY <1>3, <2>6, <3>3, <4>1
    <3> QED BY <3>2, <3>3
  <2>11. \A x \in log'[i] : x \in Known BY <1>2, <2>4, <2>7, InKnown
  <2>12. LogStep(i) BY <2>9, <2>10, <2>11 DEF LogStep
  <2>13. e.ballot >= ballot[i] BY <1>3, <2>6
  <2> QED BY <1>2, <2>3, <2>6, <2>12, <2>13
<1>7. Counts(i) BY <1>1 DEF Counts
<1>8. Collects(i) BY <1>1, InPromised DEF Collects
<1>9. Recovers(i) BY <1>1 DEF Recovers, Shape, Preparation, Prepared
<1>10. LogStep(i) /\ \E y \in log'[i] : y.slot = s /\ (y.ballot >= ballot[i] \/ y.committed)
  BY <1>5, <1>6
<1> QED BY <1>1, <1>4, <1>7, <1>8, <1>9, <1>10

\* An acceptor installs the leader's record and votes for it.
LEMMA TurnAccept ==
    ASSUME Invariants, NEW i \in Replica, NEW m \in msgs, m.to = i, ReceiveAccept(i, m)
    PROVE  GoodTurn(i) /\ SameEra(i, core'[i])
<1>0. Typed /\ Shape /\ Safety /\ Eras /\ GoodCore(core[i]) BY CoreType DEF Invariants
<1> DEFINE c == core[i]
           s == m.slot
           r == [m.rec EXCEPT !.ballot = m.ballot, !.epoch = m.epoch]
           d == Install(c, s, r)
           ack == [kind |-> "Ack", from |-> i, to |-> m.from, ballot |-> m.ballot,
                   epoch |-> m.epoch, slot |-> m.slot]
           F == IF m.slot > 0 /\ c.log[m.slot - 1].req = Hole THEN Fetch(i, d, lease[i]) ELSE {}
           M == {ack} \cup F
<1>1. m.kind = "Accept" /\ m.ballot = c.ballot /\ m.from = c.leader /\ Only(i, d) /\ Carried(M)
  BY SendIs DEF ReceiveAccept
<1>2. GoodMessage(m) /\ GoodPacket(m) /\ m.from \in Replica BY <1>0, Received
<1>3. /\ m.ballot \in Ballot /\ s \in Slot /\ m.rec \in Record /\ m.rec.req # Hole
      /\ m.rec.ballot = m.ballot /\ m.epoch \in Genesis..MaxEpoch
  BY <1>1, <1>2 DEF GoodMessage, Carries
<1>4. m.from = Owner(m.ballot) /\ m.from # i /\ Led(m.ballot) BY <1>1, <1>2 DEF GoodPacket
<1>5. ballot[i] = m.ballot BY <1>1, Views
<1>6. Real(r) /\ r.ballot = m.ballot /\ Entry(s, r) = Entry(m.slot, m.rec)
  <2>1. m.ballot \in -1..MaxBallot /\ m.epoch \in 0..MaxEpoch BY <1>3, Bounds DEF Ballot, Genesis
  <2>2. /\ r \in Record /\ r.req = m.rec.req /\ r.ballot = m.ballot
        /\ r.committed = m.rec.committed
    BY <1>3, <2>1 DEF Record
  <2> HIDE DEF r
  <2> QED BY <1>3, <2>2 DEF Real, Entry
<1> HIDE DEF r
<1>7. Entry(s, r) \in Known BY <1>1, <1>6, InKnown
<1>8. GoodCore(d) /\ Frame(c, d) BY <1>0, <1>3, <1>6, InstallIs
<1>9. Installed(c, s, r, d) BY <1>0, <1>3, <1>6, <1>8, InstallIs DEF Installed
<1>10. \A x \in F : QuietPacket(i, x)
  <2>1. lease[i].catchup \in Place BY <1>0, EraIs
  <2> HIDE DEF d
  <2> QED BY <1>8, <2>1, FetchQuiet
<1> HIDE DEF d, F
<1>11. core'[i] = d /\ Alone(i) BY <1>0, <1>1, OnlyIs
<1>12. /\ Role(i) /\ LogStep(i) /\ Counts(i) /\ Collects(i) /\ Recovers(i)
       /\ ballot'[i] = ballot[i] /\ promises'[i] = promises[i]
       /\ \E y \in log'[i] : y.slot = s /\ (y.ballot >= ballot[i] \/ y.committed)
  <2>1. Owner(ballot[i]) # i /\ r.ballot = ballot[i] BY <1>4, <1>5, <1>6
  <2> QED BY <1>0, <1>3, <1>6, <1>7, <1>9, <1>11, <2>1, InstallParts
<1>13. FreshVote(i, m.ballot, m.slot)
  <2> DEFINE o == Owner(m.ballot)
  <2>1. o \in Replica /\ o # i BY <1>2, <1>4
  <2>2. ballot'[o] = ballot[o] /\ log'[o] = log[o] BY <1>0, <1>11, <2>1, OthersSame DEF Same
  <2>3. Led(m.ballot)' BY <1>0, <1>3, <1>4, <1>8, <1>11, LedFrame
  <2>4. ballot[o] = m.ballot => \E y \in log[o] : y.slot = s
    <3> DEFINE x == Entry(s, r)
    <3>1. x \in Known /\ x.slot = s /\ x.ballot = m.ballot BY <1>6, <1>7, EntryFields
    <3> HIDE DEF x
    <3>2. ballot[Owner(x.ballot)] = x.ballot =>
             \E y \in log[Owner(x.ballot)] : y.slot = x.slot /\ y.req = x.req
      BY <1>0, <3>1 DEF Safety, Owned
    <3> QED BY <3>1, <3>2
  <2>5. ballot'[o] = m.ballot => \E y \in log'[o] : y.slot = s BY <2>2, <2>4
  <2> QED BY <1>5, <1>12, <2>3, <2>5 DEF FreshVote
<1>14. Sends(i, M) /\ \A x \in M : x.kind # "Promise"
  <2>1. GoodMessage(ack) BY <1>2, <1>3 DEF GoodMessage, Kind, Carries
  <2>2. GoodPacket(ack)' BY DEF GoodPacket
  <2>3. Sends(i, {ack}) BY <1>13, <2>1, <2>2 DEF Sends
  <2>4. Sends(i, F) /\ \A x \in F : x.kind # "Promise" BY <1>10, QuietSends
  <2> QED BY <2>3, <2>4 DEF Sends
<1> HIDE DEF M
<1>15. Snaps(i, M) BY <1>12, <1>14, OldPromises, NoSnap
<1>16. Effect(i, M) BY <1>1, <1>14, <1>15 DEF Effect
<1>17. SameEra(i, core'[i]) BY <1>0, <1>8, <1>11, FrameEra
<1> QED BY <1>8, <1>11, <1>12, <1>16, <1>17 DEF GoodTurn

\* To mark a record that is committed committed.
LEMMA MarkIs ==
    ASSUME NEW d, GoodCore(d), NEW s \in Slot, d.log[s].committed
    PROVE  GoodCore([d EXCEPT !.log[s].committed = TRUE]) /\ Still(d, [d EXCEPT !.log[s].committed = TRUE])
<1>1. d \in Core /\ \A p \in d.promises : Ends(p.recs, p.high, -1) BY DEF GoodCore
<1>2. d.log \in [Slot -> Record] BY CoreIs
<1>3. [d.log[s] EXCEPT !.committed = TRUE] = d.log[s]
  <2> DEFINE r == d.log[s]
  <2>1. r \in Record /\ r.committed = TRUE BY <1>2 DEF Record
  <2> HIDE DEF r
  <2>2. [r EXCEPT !.committed = TRUE] = r BY <2>1 DEF Record
  <2> QED BY <2>2 DEF r
<1> DEFINE L == [d.log EXCEPT ![s].committed = TRUE]
           e == [d EXCEPT !.log = L]
<1>4. L = d.log
  <2>1. L = [d.log EXCEPT ![s] = [d.log[s] EXCEPT !.committed = TRUE]] BY <1>2
  <2> HIDE DEF L
  <2> QED BY <1>2, <1>3, <2>1
<1>5. [d EXCEPT !.log[s].committed = TRUE] = e BY <1>1 DEF Core
<1> HIDE DEF L
<1>6. e \in Core BY <1>1, <1>2, <1>4 DEF Core
<1>7. Still(d, e) /\ e.pending = d.pending BY <1>1, <1>4 DEF Core, Still, Frame
<1> HIDE DEF e
<1>8. GoodCore(e) BY <1>1, <1>6, <1>7, CoreIs DEF GoodCore, Still, Frame
<1> QED BY <1>5, <1>7, <1>8

\* A commit installs a record that is decided.
LEMMA TurnCommit ==
    ASSUME Invariants, NEW i \in Replica, NEW m \in msgs, m.to = i, ReceiveCommit(i, m)
    PROVE  GoodTurn(i) /\ SameEra(i, core'[i])
<1>0. Typed /\ Shape /\ Safety /\ Eras /\ GoodCore(core[i]) BY CoreType DEF Invariants
<1> DEFINE c == core[i]
           s == m.slot
           r == m.rec
           d == Install(c, s, r)
           e == [d EXCEPT !.log[s].committed = TRUE]
           f == Apply(e)
<1>1. m.kind = "Commit" /\ m.ballot = c.ballot /\ m.from = c.leader /\ Only(i, f) /\ UNCHANGED msgs
  BY DEF ReceiveCommit
<1>2. GoodMessage(m) /\ GoodPacket(m) /\ m.from \in Replica BY <1>0, Received
<1>3. /\ m.ballot \in Ballot /\ s \in Slot /\ r \in Record /\ r.req # Hole
      /\ r.ballot = m.ballot /\ r.committed
  BY <1>1, <1>2 DEF GoodMessage, Carries
<1>4. m.from = Owner(m.ballot) /\ m.from # i BY <1>1, <1>2 DEF GoodPacket
<1>5. ballot[i] = m.ballot BY <1>1, Views
<1>6. Real(r) /\ Entry(s, r) \in Known
  <2>1. Entry(s, r) \in Known BY <1>1, InKnown
  <2> QED BY <1>3, <2>1 DEF Real
<1>7. GoodCore(d) /\ Frame(c, d)
      /\ d.log = IF c.log[s].committed THEN c.log ELSE [c.log EXCEPT ![s] = r]
  BY <1>0, <1>3, <1>6, InstallIs
<1>8. d.log[s].committed
  <2>1. c.log \in [Slot -> Record] BY <1>0, CoreIs
  <2> HIDE DEF d
  <2> QED BY <1>3, <1>7, <2>1
<1> HIDE DEF d
<1>9. GoodCore(e) /\ Still(d, e) BY <1>3, <1>7, <1>8, MarkIs
<1> HIDE DEF e
<1>10. GoodCore(f) /\ Frame(e, f) /\ f.log = e.log BY <1>9, ApplyIs
<1> HIDE DEF f
<1>11. core'[i] = f /\ Alone(i) BY <1>0, <1>1, OnlyIs
<1>12. Frame(c, f) BY <1>7, <1>9, <1>10 DEF Still, Frame
<1>13. Installed(c, s, r, f) BY <1>7, <1>9, <1>10, <1>12 DEF Installed, Still
<1>14. /\ Role(i) /\ LogStep(i) /\ Counts(i) /\ Collects(i) /\ Recovers(i)
       /\ promises'[i] = promises[i]
  <2>1. Owner(ballot[i]) # i /\ r.ballot = ballot[i] BY <1>3, <1>4, <1>5
  <2> QED BY <1>0, <1>3, <1>6, <1>11, <1>13, <2>1, InstallParts
<1>15. Effect(i, {}) BY <1>1, <1>14, SendsNothing, NothingSent DEF Effect
<1>16. SameEra(i, core'[i]) BY <1>0, <1>11, <1>12, FrameEra
<1> QED BY <1>10, <1>11, <1>14, <1>15, <1>16 DEF GoodTurn

\* Ballots are handed out modulo N.
LEMMA Modulo ==
    ASSUME NEW n \in Nat \ {0}, NEW k \in Nat, NEW i \in 0..(n - 1)
    PROVE  (k * n + i) % n = i
BY Z3T(60)

\* The ballot a replica opens is its own, and higher than the one it is in.
LEMMA NextBallotIs ==
    ASSUME Typed, NEW i \in Replica
    PROVE  NextBallot(i) \in Nat /\ NextBallot(i) > ballot[i] /\ Owner(NextBallot(i)) = i
<1>1. ballot[i] \in Nat /\ ballot[i] = core[i].ballot BY CoreType, Views
<1>2. N \in Nat \ {0} /\ i \in 0..(N - 1) BY NAssumption DEF Replica
<1> DEFINE b == core[i].ballot
           k == b \div N
<1>3. b \in Nat BY <1>1
<1> HIDE DEF b
<1>4. k \in Nat /\ b < (k + 1) * N BY <1>2, <1>3, Z3T(60)
<1>5. (k + 1) * N + i > b BY <1>2, <1>3, <1>4
<1>6. k + 1 \in Nat BY <1>4
<1>7. (k + 1) * N + i \in Nat
  <2> HIDE DEF k
  <2> QED BY <1>2, <1>6
<1>8. \A x \in Nat : (x * N + i) % N = i BY <1>2, Modulo
<1> QED BY <1>1, <1>5, <1>6, <1>7, <1>8 DEF Owner, NextBallot, b

\* A replica that opens a ballot, with its own promise P.
Opens(i, c, b, P, d) ==
    /\ d.ballot = b /\ d.leader = i /\ d.preparing /\ d.promises = {P}
    /\ d.log = c.log /\ d.executed = c.executed /\ d.high = c.high
    /\ \A s \in Slot : d.votes[s] = {}
SameSight(c, d) == d.latestEpoch = c.latestEpoch /\ d.suspected = c.suspected
\* What a candidate is when it opens its ballot.
LEMMA BeginIs ==
    ASSUME NEW c, GoodCore(c), NEW i \in Replica, NEW b \in Ballot,
           NEW P, P \in Snapshots, Ends(P.recs, P.high, -1),
           NEW d, d = [c EXCEPT !.ballot = b, !.leader = i, !.active = FALSE,
                                !.preparing = TRUE, !.votes = [s \in Slot |-> {}],
                                !.promises = {P}]
    PROVE  GoodCore(d) /\ Opens(i, c, b, P, d) /\ SameSight(c, d)
<1>1. c \in Core BY DEF GoodCore
<1>2. d \in Core BY <1>1 DEF Core
<1>3. Opens(i, c, b, P, d) /\ d.pending = c.pending /\ SameSight(c, d)
  BY <1>1 DEF Core, Opens, SameSight
<1>5. GoodCore(d) BY <1>1, <1>2, <1>3, CoreIs DEF GoodCore, Opens
<1> QED BY <1>3, <1>5

\* A candidate keeps its log, counts no votes, and promises to itself first.
LEMMA OpenParts ==
    ASSUME Typed, Shape, NEW i \in Replica, NEW b \in Ballot, b > ballot[i], Owner(b) = i,
           NEW P, P.from = i, P.ballot = b, P.floor = executed[i] + 1,
           Entries(P.recs) \subseteq log[i],
           \A y \in log[i] : y.slot >= P.floor => y \in Entries(P.recs),
           NEW d, core'[i] = d, Opens(i, core[i], b, P, d)
    PROVE  /\ Role(i) /\ LogStep(i) /\ Counts(i) /\ Collects(i) /\ Recovers(i)
           /\ ballot'[i] = b /\ promises'[i] = {P}
<1>1. /\ ballot'[i] = b /\ leader'[i] = i /\ preparing'[i] /\ log'[i] = log[i]
      /\ promises'[i] = {P} /\ executed'[i] = executed[i] /\ votes'[i] = d.votes
  BY Views, ViewsNext DEF Opens
<1>2. ballot[i] \in Nat /\ b \in Nat BY CoreType, BallotNat
<1>3. Owner(ballot'[i]) = i BY <1>1
<1>4. ~Leading(i)' BY <1>1 DEF Leading
<1>5. Role(i) BY <1>1, <1>2, <1>3, <1>4 DEF Role
<1>6. LogStep(i)
  <2>1. GoodLog(i)'
    <3>1. GoodLog(i) BY DEF Shape, LogShape
    <3>2. \A x \in log'[i] : x.ballot <= ballot'[i]
      <4> TAKE x \in log'[i]
      <4>1. x \in Line /\ x.ballot <= ballot[i] BY <1>1, <3>1, CoreType DEF GoodLog
      <4>2. x.ballot \in Nat BY <4>1, LineTypes
      <4> QED BY <1>1, <1>2, <4>1, <4>2
    <3> QED BY <1>4, <3>2 DEF GoodLog
  <2>2. KeepsLog(i) BY <1>1, KeepsSame
  <2>3. \A x \in log'[i] : x \in Known BY <1>1, InKnown
  <2> QED BY <2>1, <2>2, <2>3 DEF LogStep
<1>7. Counts(i)
  <2>1. \A s \in Slot : votes'[i][s] = {} BY <1>1 DEF Opens
  <2> QED BY <2>1 DEF Counts
<1>8. Collects(i)
  <2>1. \A r \in Promises : ~(r.from = i /\ r.ballot = P.ballot /\ r.floor = P.floor)
    <3> SUFFICES ASSUME NEW r \in Promises, r.from = i, r.ballot = b PROVE FALSE OBVIOUS
    <3>1. r.ballot <= ballot[i] BY DEF Shape, PromiseShape
    <3> QED BY <1>2, <3>1
  <2>2. P.ballot <= ballot'[i] BY <1>1, <1>2
  <2>3. Snapped(P) BY DEF Snapped
  <2>4. Offered(i, P) BY <2>1, <2>2, <2>3 DEF Offered
  <2> QED BY <1>1, <2>4 DEF Collects
<1>9. Recovers(i)
  <2>1. OwnPromise(i, P)' BY <1>1 DEF OwnPromise
  <2>2. Prepared(i)' BY <1>1, <1>3, <2>1 DEF Prepared
  <2> QED BY <2>2 DEF Recovers
<1> QED BY <1>1, <1>5, <1>6, <1>7, <1>8, <1>9

\* The tick on which a replica stands for leader.
LEMMA TurnBegin ==
    ASSUME Invariants, NEW i \in Replica, NEW due, TickBegin(i, due)
    PROVE  GoodTurn(i) /\ SameEra(i, core'[i])
<1>0. Typed /\ Shape /\ Eras /\ LeaseInv /\ GoodCore(core[i]) BY CoreType DEF Invariants
<1> DEFINE S == Doubts(i, due)
           c == [core[i] EXCEPT !.suspected = S]
           b == NextBallot(i)
           f == c.executed + 1
           P == Snapshot(i, i, c, b, f)
           g == Begin(i, c)
           d == Reading(i, g, due)
           M == Prepares(i, g)
<1>1. b <= MaxBallot /\ Only(i, d) /\ Carried(Grants(i, due) \cup M) BY SendIs DEF TickBegin
<1>2. S \in SUBSET (Replica \ {i}) /\ S \in SUBSET Replica BY <1>0, SuspicionType
<1>3. b \in Nat /\ b > ballot[i] /\ Owner(b) = i BY <1>0, NextBallotIs
<1>4. b \in Ballot BY <1>1, <1>3, Bounds DEF Ballot
<1> HIDE DEF S
<1>5. /\ GoodCore(c) /\ Unmoved(core[i], c) /\ c.suspected = S
      /\ c.latestEpoch = core[i].latestEpoch
  BY <1>0, <1>2, SuspectIs
<1>6. g = [c EXCEPT !.ballot = b, !.leader = i, !.active = FALSE, !.preparing = TRUE,
                    !.votes = [s \in Slot |-> {}], !.promises = {P}]
  BY DEF Begin
<1> HIDE DEF c, b, g
<1>7. f \in 0..(MaxSlot + 1) /\ f = executed[i] + 1
  <2>1. c.executed \in Int /\ c.executed >= -1 /\ c.executed <= c.high /\ c.high <= MaxSlot
        /\ c.high \in Int
    BY <1>5, CoreIs
  <2>2. c.executed = executed[i] BY <1>5, Views DEF Unmoved
  <2> QED BY <2>1, <2>2, Bounds
<1>8. log[i] = Entries(c.log) BY <1>5, Views DEF Unmoved
<1> HIDE DEF f
<1>9. PICK p : p = P OBVIOUS
<1> HIDE DEF P
<1>10. p = Snapshot(i, i, c, b, f) BY <1>9 DEF P
<1>11. p \in Snapshots /\ Ends(p.recs, p.high, -1) BY <1>4, <1>5, <1>7, <1>10, SnapshotIs
<1>12. p.from = i /\ p.ballot = b /\ p.floor = f BY <1>4, <1>5, <1>7, <1>10, SnapshotIs
<1>13. Entries(p.recs) \subseteq log[i] BY <1>4, <1>5, <1>7, <1>8, <1>10, SnapshotIs
<1>14. \A y \in log[i] : y.slot >= p.floor => y \in Entries(p.recs)
  BY <1>4, <1>5, <1>7, <1>8, <1>10, <1>12, SnapshotIs
<1>15. GoodCore(g) /\ Opens(i, c, b, p, g) /\ SameSight(c, g)
  <2>1. /\ GoodCore(c) /\ b \in Ballot /\ p \in Snapshots /\ Ends(p.recs, p.high, -1)
        /\ g = [c EXCEPT !.ballot = b, !.leader = i, !.active = FALSE, !.preparing = TRUE,
                         !.votes = [s \in Slot |-> {}], !.promises = {p}]
    BY <1>4, <1>5, <1>6, <1>9, <1>11
  <2>2. GoodCore(g) /\ Opens(i, c, b, p, g) BY <2>1, BeginIs
  <2>3. SameSight(c, g) BY <2>1, BeginIs
  <2> QED BY <2>2, <2>3
<1>16. GoodCore(d) /\ Still(g, d) BY <1>0, <1>15, ReadingIs
<1> HIDE DEF d
<1>17. core'[i] = d /\ Alone(i) BY <1>0, <1>1, OnlyIs
<1>18. Opens(i, core[i], b, p, d)
  BY <1>5, <1>15, <1>16 DEF Opens, Still, Unmoved, Frame
<1>19. /\ Role(i) /\ LogStep(i) /\ Counts(i) /\ Collects(i) /\ Recovers(i)
       /\ ballot'[i] = b /\ promises'[i] = {p}
  BY <1>0, <1>3, <1>4, <1>7, <1>12, <1>13, <1>14, <1>17, <1>18, OpenParts
<1>20. Sends(i, M) /\ \A m \in M : m.kind # "Promise"
  <2>1. g.ballot = b /\ g.executed + 1 = f BY <1>15 DEF Opens, f
  <2> SUFFICES ASSUME NEW m \in M
               PROVE  /\ m.from = i /\ GoodMessage(m) /\ GoodPacket(m)' /\ m.kind = "Prepare"
    BY DEF Sends
  <2>2. PICK j \in Replica : j # i /\ m = [kind |-> "Prepare", from |-> i, to |-> j,
                                           ballot |-> b, floor |-> f]
    BY <2>1 DEF Prepares, Others
  <2>3. /\ m.kind = "Prepare" /\ m.from = i /\ m.to = j /\ m.ballot = b /\ m.floor = f
    BY <2>2
  <2> HIDE DEF M
  <2>4. GoodMessage(m) BY <1>4, <1>7, <2>3 DEF GoodMessage, Kind, Carries
  <2>5. GoodPacket(m)' BY <1>3, <2>2, <2>3 DEF GoodPacket
  <2> QED BY <2>3, <2>4, <2>5
<1>21. Sends(i, Grants(i, due)) /\ \A m \in Grants(i, due) : m.kind # "Promise"
  BY <1>0, GrantsQuiet, QuietSends
<1> HIDE DEF M
<1>22. Effect(i, Grants(i, due) \cup M)
  <2>1. Sends(i, Grants(i, due) \cup M) BY <1>20, <1>21 DEF Sends
  <2>2. Snaps(i, Grants(i, due) \cup M) BY <1>19, <1>20, <1>21 DEF Snaps
  <2> QED BY <1>1, <2>1, <2>2 DEF Effect
<1>23. SameEra(i, d) BY <1>2, <1>5, <1>15, <1>16 DEF SameEra, SameSight, Still, Frame
<1> QED BY <1>16, <1>17, <1>19, <1>22, <1>23 DEF GoodTurn
-----------------------------------------------------------------------------
(***************************************************************************)
(* The turns of a leader.                                                  *)
(***************************************************************************)
\* What it may do to its log, whatever it learns or suspects.
Expands(X, c, d) == SameRole(c, d) /\ \A s \in Slot : GrowsAt(X, c, d, s)
\* Growing is a case of it.
LEMMA GrowsExpands == ASSUME NEW X, NEW c, NEW d, Grows(X, c, d) PROVE Expands(X, c, d)
BY DEF Grows, Frame, Expands, SameRole

\* So is growing after a change that the invariants do not see.
LEMMA ExpandsFrom ==
    ASSUME NEW X, NEW c, NEW b, NEW d, Unmoved(c, b), Grows(X, b, d) PROVE Expands(X, c, d)
<1>1. SameRole(c, d) BY DEF Grows, Frame, Unmoved, SameRole
<1>2. ASSUME NEW s \in Slot PROVE GrowsAt(X, c, d, s)
  <2>1. GrowsAt(X, b, d, s) /\ b.log = c.log /\ b.votes = c.votes /\ b.ballot = c.ballot
    BY DEF Grows, Unmoved
  <2> QED BY <2>1 DEF GrowsAt
<1> QED BY <1>1, <1>2 DEF Expands

\* i leads, and the votes X that its turn may count were cast, or are its own.
Backs(i, X) ==
    Leading(i) /\ \A s \in Slot : \A q \in X[s] : q = i \/ Voted(q, ballot[i], s)

\* What is known of the log of a leader.
LEMMA LeaderLog ==
    ASSUME Typed, Shape, NEW i \in Replica, Leading(i)
    PROVE  /\ GoodCore(core[i]) /\ core[i].log \in [Slot -> Record]
           /\ core[i].ballot = ballot[i] /\ ballot[i] \in Nat /\ ballot[i] \in Ballot
           /\ \A s \in Slot : /\ core[i].log[s].req # Hole =>
                                    /\ Entry(s, core[i].log[s]) \in log[i]
                                    /\ core[i].log[s].ballot \in Nat
                                    /\ core[i].log[s].ballot <= ballot[i]
                                    /\ \/ core[i].log[s].ballot = ballot[i]
                                       \/ core[i].log[s].committed
                              /\ core[i].log[s].committed => core[i].log[s].req # Hole
                              /\ core[i].log[s].committed \in BOOLEAN
           /\ \A y \in log[i] : /\ y.slot \in Slot /\ core[i].log[y.slot].req # Hole
                                /\ y = Entry(y.slot, core[i].log[y.slot])
<1> DEFINE c == core[i]
<1>1. GoodCore(c) /\ c.log \in [Slot -> Record] /\ c.ballot = ballot[i]
      /\ ballot[i] \in Nat /\ ballot[i] \in Ballot /\ log[i] = Entries(c.log)
  BY CoreType, CoreIs, Views
<1>2. ASSUME NEW s \in Slot, c.log[s].req # Hole
      PROVE  /\ Entry(s, c.log[s]) \in log[i] /\ c.log[s].ballot \in Nat
             /\ c.log[s].ballot <= ballot[i]
             /\ c.log[s].ballot = ballot[i] \/ c.log[s].committed
  <2> DEFINE x == Entry(s, c.log[s])
  <2>1. x \in log[i] BY <1>1, <1>2, EntryIn
  <2>2. x.ballot = c.log[s].ballot /\ x.committed = c.log[s].committed BY EntryFields
  <2> HIDE DEF x
  <2>3. x \in Line BY <2>1, CoreType
  <2>4. x.ballot \in Nat BY <2>3, LineTypes
  <2>5. x.ballot <= ballot[i] /\ (x.ballot = ballot[i] \/ x.committed)
    BY <2>1 DEF Shape, LogShape, GoodLog
  <2> QED BY <2>1, <2>2, <2>4, <2>5 DEF x
<1>3. ASSUME NEW s \in Slot
      PROVE  /\ c.log[s].committed => c.log[s].req # Hole
             /\ c.log[s].committed \in BOOLEAN
  <2>1. Solid(c.log[s]) /\ c.log[s] \in Record BY <1>1, CoreIs DEF Ends
  <2> QED BY <2>1 DEF Solid, Record
<1>4. \A y \in log[i] : /\ y.slot \in Slot /\ c.log[y.slot].req # Hole
                        /\ y = Entry(y.slot, c.log[y.slot])
  BY <1>1, InEntries
<1> QED BY <1>1, <1>2, <1>3, <1>4

\* What becomes committed at a leader has won, and was in its log before.
LEMMA LeaderWins ==
    ASSUME Typed, Shape, Safety, NEW i \in Replica, NEW X, Backs(i, X),
           NEW m, NEW s \in Slot, GrowsAt(X, core[i], m, s),
           m.log[s].committed, ~core[i].log[s].committed
    PROVE  /\ core[i].log[s].req # Hole /\ Won(i, s)
           /\ m.log[s].ballot = ballot[i]
<1> DEFINE c == core[i]
           b == ballot[i]
<1>1. Leading(i) /\ Owner(b) = i BY DEF Backs, Leading
<1>2. c.ballot = b /\ b \in Ballot /\ votes[i] = c.votes BY <1>1, LeaderLog, Views
<1>3. PICK Q \in Quorums : Q \subseteq c.votes[s] \cup X[s] BY DEF GrowsAt
<1>4. m.log[s].ballot = b BY <1>2 DEF GrowsAt
<1>5. ASSUME NEW q \in Q PROVE q = i \/ Voted(q, b, s)
  <2>1. CASE q \in c.votes[s] BY <1>1, <1>2, <2>1 DEF Voted
  <2>2. CASE q \in X[s] BY <2>2 DEF Backs
  <2> QED BY <1>3, <2>1, <2>2
<1>6. Won(i, s) BY <1>5 DEF Won
<1>7. \E q \in Q : q # i
  <2>1. Cardinality(Q) >= Quorum BY DEF Quorums
  <2> QED BY <2>1, NoLoneQuorum
<1>8. PICK q \in Q : q # i BY <1>7
<1>9. q \in Replica /\ Voted(q, b, s) BY <1>5, <1>8 DEF Quorums
<1>10. \E y \in log[i] : y.slot = s BY <1>1, <1>2, <1>9 DEF Safety, VoteInv
<1>11. c.log[s].req # Hole BY <1>1, <1>10, LeaderLog
<1> QED BY <1>4, <1>6, <1>11

\* What a leader makes of its log.
LeadStep(i, X, d) ==
    /\ Backs(i, X) /\ core'[i] = d /\ Alone(i) /\ GoodCore(d) /\ Expands(X, core[i], d)
\* A leader's step leaves it leading, with the log it has grown.
LEMMA LeaderNext ==
    ASSUME Typed, Shape, NEW i \in Replica, NEW X, NEW d, LeadStep(i, X, d)
    PROVE  /\ ballot'[i] = ballot[i] /\ leader'[i] = leader[i] /\ ~preparing'[i]
           /\ promises'[i] = promises[i] /\ Leading(i) /\ Leading(i)'
           /\ log'[i] = Entries(d.log) /\ votes'[i] = d.votes
           /\ d.log \in [Slot -> Record] /\ d.ballot = ballot[i]
<1>1. SameRole(core[i], d) /\ Leading(i) BY DEF LeadStep, Expands, Backs
<1>2. /\ ballot'[i] = ballot[i] /\ leader'[i] = leader[i] /\ preparing'[i] = preparing[i]
      /\ promises'[i] = promises[i]
  BY <1>1, RolesKept DEF LeadStep
<1>3. Leading(i)' /\ ~preparing'[i] BY <1>1, <1>2 DEF Leading
<1>4. log'[i] = Entries(d.log) /\ votes'[i] = d.votes BY ViewsNext DEF LeadStep
<1>5. d.log \in [Slot -> Record] BY CoreIs DEF LeadStep
<1>6. d.ballot = ballot[i] BY <1>1, Views DEF SameRole
<1> QED BY <1>1, <1>2, <1>3, <1>4, <1>5, <1>6

\* The log of a leader after its turn.
LEMMA LeaderLogStep ==
    ASSUME Typed, Shape, Safety, NEW i \in Replica, NEW X, NEW d, LeadStep(i, X, d)
    PROVE  LogStep(i)
<1> DEFINE c == core[i]
           b == ballot[i]
<1>1. Backs(i, X) /\ GoodCore(d) BY DEF LeadStep
<1>2. \A s \in Slot : GrowsAt(X, c, d, s) BY DEF LeadStep, Expands
<1>3. /\ ballot'[i] = b /\ Leading(i) /\ Leading(i)' /\ log'[i] = Entries(d.log)
      /\ d.log \in [Slot -> Record]
  BY LeaderNext
<1>4. c.ballot = b /\ b \in Nat /\ c.log \in [Slot -> Record] BY <1>3, LeaderLog
<1>5. ASSUME NEW s \in Slot, d.log[s].req # Hole
      PROVE  /\ d.log[s].ballot \in Nat /\ d.log[s].ballot <= b
             /\ d.log[s].ballot = b \/ d.log[s].committed
  <2>1. CASE c.log[s].req # Hole
    <3>1. d.log[s].ballot = c.log[s].ballot /\ (c.log[s].committed => d.log[s].committed)
      BY <1>2, <2>1 DEF GrowsAt
    <3>2. /\ c.log[s].ballot \in Nat /\ c.log[s].ballot <= b
          /\ c.log[s].ballot = b \/ c.log[s].committed
      BY <1>3, <2>1, LeaderLog
    <3> QED BY <3>1, <3>2
  <2>2. CASE c.log[s].req = Hole
    <3>1. d.log[s].ballot = b BY <1>2, <1>4, <1>5, <2>2 DEF GrowsAt
    <3> QED BY <1>4, <3>1
  <2> QED BY <2>1, <2>2
<1>6. \A x \in log'[i] : /\ x.slot \in Slot /\ d.log[x.slot].req # Hole
                         /\ x = Entry(x.slot, d.log[x.slot])
  BY <1>3, InEntries
<1>7. GoodLog(i)'
  <2>1. ASSUME NEW x \in log'[i]
        PROVE  x.ballot <= b /\ (x.ballot = b \/ x.committed)
    <3>1. /\ x.slot \in Slot /\ d.log[x.slot].req # Hole
          /\ x.ballot = d.log[x.slot].ballot /\ x.committed = d.log[x.slot].committed
      BY <1>6, EntryFields
    <3> QED BY <1>5, <3>1
  <2> QED BY <1>3, <2>1 DEF GoodLog
<1>8. KeepsLog(i)
  <2> SUFFICES ASSUME NEW y \in log[i]
               PROVE  \E z \in log'[i] : /\ z.slot = y.slot /\ z.ballot >= y.ballot
                                         /\ y.committed => z.committed \/ z.ballot = ballot'[i]
                                         /\ Leading(i) => z.req = y.req
    BY DEF KeepsLog
  <2> DEFINE s == y.slot
             z == Entry(s, d.log[s])
  <2>1. s \in Slot /\ c.log[s].req # Hole /\ y = Entry(s, c.log[s]) BY <1>3, LeaderLog
  <2>2. /\ y.req = c.log[s].req /\ y.ballot = c.log[s].ballot /\ y.committed = c.log[s].committed
    BY <2>1, EntryFields
  <2>3. /\ d.log[s].req = c.log[s].req /\ d.log[s].ballot = c.log[s].ballot
        /\ c.log[s].committed => d.log[s].committed
    BY <1>2, <2>1 DEF GrowsAt
  <2>4. z \in log'[i] BY <1>3, <2>1, <2>3, EntryIn
  <2>5. z.slot = s /\ z.req = y.req /\ z.ballot = y.ballot /\ (y.committed => z.committed)
    BY <2>2, <2>3, EntryFields
  <2>6. c.log[s].ballot \in Nat BY <1>3, <2>1, LeaderLog
  <2> HIDE DEF z
  <2>7. z.ballot >= y.ballot BY <2>2, <2>5, <2>6
  <2> QED BY <2>4, <2>5, <2>7
<1>9. ASSUME NEW x \in log'[i] PROVE x \in Known \/ Made(x)
  <2> DEFINE s == x.slot
  <2>1. /\ s \in Slot /\ d.log[s].req # Hole /\ x = Entry(s, d.log[s]) BY <1>6
  <2>2. /\ x.req = d.log[s].req /\ x.ballot = d.log[s].ballot /\ x.committed = d.log[s].committed
    BY <2>1, EntryFields
  <2>3. c.log[s].committed \in BOOLEAN /\ d.log[s].committed \in BOOLEAN
    BY <1>3, <1>4, <2>1 DEF Record
  <2>4. CASE c.log[s].req = Hole
    <3>1. x.ballot = b BY <1>2, <1>4, <2>1, <2>2, <2>4 DEF GrowsAt
    <3>2. Stays(i, x.ballot) BY <1>3, <3>1 DEF Stays
    <3>3. ~x.committed
      <4>1. ~c.log[s].committed BY <1>3, <2>1, <2>4, LeaderLog
      <4> QED BY <1>1, <1>2, <2>1, <2>2, <2>4, <4>1, LeaderWins
    <3>4. \A y \in log[i] : y.slot # x.slot BY <1>3, <2>4, LeaderLog
    <3>5. Started(x) BY <3>2, <3>3, <3>4 DEF Started
    <3> QED BY <3>5 DEF Made
  <2>5. CASE c.log[s].req # Hole
    <3> DEFINE y == Entry(s, c.log[s])
    <3>1. y \in log[i] BY <1>3, <2>1, <2>5, LeaderLog
    <3>2. d.log[s].req = c.log[s].req /\ d.log[s].ballot = c.log[s].ballot
          /\ (c.log[s].committed => d.log[s].committed)
      BY <1>2, <2>1, <2>5 DEF GrowsAt
    <3>3. CASE d.log[s].committed = c.log[s].committed
      <4>1. x = y BY <2>1, <3>2, <3>3 DEF Entry
      <4> QED BY <3>1, <4>1, InKnown
    <3>4. CASE d.log[s].committed /\ ~c.log[s].committed
      <4>1. Won(i, s) /\ d.log[s].ballot = b BY <1>1, <1>2, <2>1, <3>4, LeaderWins
      <4>2. y.slot = s /\ y.req = x.req /\ y.ballot = x.ballot /\ x.ballot = b
        <5>1. y.slot = s /\ y.req = c.log[s].req /\ y.ballot = c.log[s].ballot
          BY EntryFields
        <5> HIDE DEF y
        <5> QED BY <2>2, <3>2, <4>1, <5>1
      <4>3. Stays(i, x.ballot) BY <1>3, <4>2 DEF Stays
      <4> HIDE DEF y
      <4>4. Restated(x) BY <3>1, <4>1, <4>2, <4>3 DEF Restated
      <4> QED BY <4>4 DEF Made
    <3> QED BY <2>3, <3>2, <3>3, <3>4
  <2> QED BY <2>4, <2>5
<1> QED BY <1>7, <1>8, <1>9 DEF LogStep

\* The parts of a leader's turn.
LEMMA LeaderParts ==
    ASSUME Typed, Shape, Safety, NEW i \in Replica, NEW X, NEW d, LeadStep(i, X, d)
    PROVE  /\ Role(i) /\ LogStep(i) /\ Counts(i) /\ Collects(i) /\ Recovers(i)
           /\ promises'[i] = promises[i]
<1> DEFINE c == core[i]
<1>1. Backs(i, X) /\ \A s \in Slot : GrowsAt(X, c, d, s) BY DEF LeadStep, Expands
<1>2. /\ ballot'[i] = ballot[i] /\ leader'[i] = leader[i] /\ ~preparing'[i]
      /\ promises'[i] = promises[i] /\ Leading(i) /\ Leading(i)'
      /\ log'[i] = Entries(d.log) /\ votes'[i] = d.votes
  BY LeaderNext
<1>3. ballot[i] \in Nat /\ votes[i] = c.votes BY CoreType, Views
<1>4. Role(i)
  <2>1. leader[i] = Owner(ballot[i]) BY DEF Shape, Leads
  <2> QED BY <1>2, <1>3, <2>1 DEF Role
<1>5. LogStep(i) BY LeaderLogStep
<1>6. Counts(i)
  <2> SUFFICES ASSUME NEW q \in Replica, NEW b \in Ballot, NEW s \in Slot,
                      ballot'[i] = b, i = Owner(b), q \in votes'[i][s]
               PROVE  Voted(q, b, s) \/ FreshVote(q, b, s)
    BY DEF Counts
  <2>1. b = ballot[i] BY <1>2
  <2>2. CASE q \in c.votes[s] BY <1>3, <2>1, <2>2 DEF Voted
  <2>3. CASE q \in X[s] /\ d.log[s].req # Hole
    <3>1. CASE q # i BY <1>1, <2>1, <2>3, <3>1 DEF Backs
    <3>2. CASE q = i
      <4> DEFINE y == Entry(s, d.log[s])
      <4>1. y \in log'[i] BY <1>2, <2>3, EntryIn
      <4>2. y.slot = s BY EntryFields
      <4> HIDE DEF y
      <4>3. y.ballot = ballot'[i] \/ y.committed BY <1>2, <1>5, <4>1 DEF LogStep, GoodLog
      <4>4. y.ballot >= b \/ y.committed BY <1>2, <1>3, <2>1, <4>3
      <4>5. Led(b)' BY <1>2, <2>1 DEF Led
      <4>6. FreshVote(i, b, s) BY <1>2, <2>1, <4>1, <4>2, <4>4, <4>5 DEF FreshVote
      <4> QED BY <3>2, <4>6
    <3> QED BY <3>1, <3>2
  <2>4. \A x \in d.votes[s] : x \in c.votes[s] \/ (x \in X[s] /\ d.log[s].req # Hole)
    BY <1>1 DEF GrowsAt
  <2> QED BY <1>2, <2>2, <2>3, <2>4
<1>7. Collects(i) BY <1>2, InPromised DEF Collects
<1>8. Recovers(i) BY <1>2 DEF Recovers
<1> QED BY <1>2, <1>4, <1>5, <1>6, <1>7, <1>8

\* What a leader sends of its log, in the midst of its turn: m is its core then.
Midway(i, X, m, d) == GoodCore(m) /\ Expands(X, core[i], m) /\ Expands(X, m, d)
\* What a leader sends of its log is known, or made in this step.
LEMMA LeaderRecords ==
    ASSUME Typed, Shape, Safety, NEW i \in Replica, NEW X, NEW d, LeadStep(i, X, d),
           NEW m, Midway(i, X, m, d), NEW s \in Slot, m.log[s].req # Hole,
           NEW r, r.req = m.log[s].req, r.ballot = ballot[i], r.committed => m.log[s].committed
    PROVE  Entry(s, r) \in Known \/ Made(Entry(s, r))
<1> DEFINE c == core[i]
           b == ballot[i]
<1>0. PICK x : x = Entry(s, r) OBVIOUS
<1>1. x.slot = s /\ x.req = r.req /\ x.ballot = b /\ x.committed = r.committed
  BY <1>0, EntryFields
<1>2. Backs(i, X) /\ GrowsAt(X, c, m, s) /\ GrowsAt(X, m, d, s)
  BY DEF LeadStep, Midway, Expands
<1>3. ballot'[i] = b /\ Leading(i) /\ log'[i] = Entries(d.log) BY LeaderNext
<1>4. Stays(i, x.ballot) BY <1>1, <1>3 DEF Stays
<1>5. CASE c.log[s].req = Hole
  <2>1. ~c.log[s].committed BY <1>3, <1>5, LeaderLog
  <2>2. ~m.log[s].committed BY <1>2, <1>5, <2>1, LeaderWins
  <2>3. ~x.committed BY <1>1, <2>2
  <2>4. \A y \in log[i] : y.slot # x.slot BY <1>1, <1>3, <1>5, LeaderLog
  <2>5. \E y \in log'[i] : y.slot = x.slot /\ y.req = x.req
    <3> DEFINE y == Entry(s, d.log[s])
    <3>1. d.log[s].req = m.log[s].req BY <1>2 DEF GrowsAt
    <3>2. y \in log'[i] BY <1>3, <3>1, EntryIn
    <3>3. y.slot = s /\ y.req = d.log[s].req BY EntryFields
    <3> HIDE DEF y
    <3> QED BY <1>1, <3>1, <3>2, <3>3
  <2>6. Started(x) BY <1>4, <2>3, <2>4, <2>5 DEF Started
  <2> QED BY <1>0, <2>6 DEF Made
<1>6. CASE c.log[s].req # Hole
  <2> DEFINE y == Entry(s, c.log[s])
  <2>1. y \in log[i] BY <1>3, <1>6, LeaderLog
  <2>2. m.log[s].req = c.log[s].req BY <1>2, <1>6 DEF GrowsAt
  <2>3. /\ y.slot = s /\ y.req = c.log[s].req /\ y.ballot = c.log[s].ballot
        /\ y.committed = c.log[s].committed
    BY EntryFields
  <2>4. c.log[s].ballot = b \/ c.log[s].committed BY <1>3, <1>6, LeaderLog
  <2>5. m.log[s].committed => c.log[s].committed \/ (c.log[s].ballot = b /\ Won(i, s))
    <3> HAVE m.log[s].committed
    <3>1. CASE ~c.log[s].committed
      <4>1. Won(i, s) /\ m.log[s].ballot = b BY <1>2, <3>1, LeaderWins
      <4>2. m.log[s].ballot = c.log[s].ballot BY <1>2, <1>6 DEF GrowsAt
      <4> QED BY <4>1, <4>2
    <3> QED BY <3>1
  <2> HIDE DEF y
  <2>6. Restated(x) BY <1>1, <1>4, <2>1, <2>2, <2>3, <2>4, <2>5 DEF Restated
  <2> QED BY <1>0, <2>6 DEF Made
<1> QED BY <1>5, <1>6

\* i leads its ballot at the end of its turn.
Rules(i) == Owner(ballot[i]) = i /\ ballot'[i] = ballot[i] /\ ~preparing'[i]
\* A leader rules its ballot.
LEMMA LeaderRules ==
    ASSUME Typed, Shape, NEW i \in Replica, NEW X, NEW d, LeadStep(i, X, d) PROVE Rules(i)
<1>1. Leading(i) /\ ballot'[i] = ballot[i] /\ ~preparing'[i] BY LeaderNext
<1> QED BY <1>1 DEF Leading, Rules

\* What i may send of its record for s, as it is midway.
Derived(i, m, s) ==
    \A r : r.req = m.log[s].req /\ r.ballot = ballot[i] /\ (r.committed => m.log[s].committed)
             => Entry(s, r) \in Known \/ Made(Entry(s, r))
\* The records of a leader's log may be sent.
LEMMA LeaderDerives ==
    ASSUME Typed, Shape, Safety, NEW i \in Replica, NEW X, NEW d, LeadStep(i, X, d),
           NEW m, Midway(i, X, m, d), NEW s \in Slot, m.log[s].req # Hole
    PROVE  Derived(i, m, s)
BY LeaderRecords DEF Derived

\* A packet of a leader with a record of its log as it is midway.
RecordPacket(i, m, x) ==
    /\ x.kind \in {"Accept", "Commit"} /\ x.from = i /\ x.to \in Replica /\ x.to # i
    /\ x.ballot = ballot[i] /\ x.slot \in Slot /\ x.rec \in Record
    /\ m.log[x.slot].req # Hole /\ x.rec.req = m.log[x.slot].req /\ x.rec.ballot = ballot[i]
    /\ x.rec.committed => m.log[x.slot].committed
    /\ x.kind = "Accept" => x.epoch \in Genesis..MaxEpoch
    /\ x.kind = "Commit" => x.rec.committed
\* Packets with records that may be sent are good sends.
LEMMA RecordSends ==
    ASSUME Typed, NEW i \in Replica, Rules(i), NEW m, NEW S, \A s \in S : Derived(i, m, s),
           NEW M, \A x \in M : RecordPacket(i, m, x) /\ x.slot \in S
    PROVE  Sends(i, M) /\ \A x \in M : x.kind # "Promise"
<1> PICK b : b = ballot[i] OBVIOUS
<1>2. Owner(b) = i /\ Led(b)' BY DEF Rules, Led
<1>3. ballot[i] \in Ballot BY CoreType
<1>4. ASSUME NEW x \in M
      PROVE  /\ x.from = i /\ GoodMessage(x) /\ GoodPacket(x)'
             /\ x.kind \in {"Accept", "Commit"} /\ (Entry(x.slot, x.rec) \in Known
                                                    \/ Made(Entry(x.slot, x.rec)))
  <2>1. RecordPacket(i, m, x) /\ Derived(i, m, x.slot) OBVIOUS
  <2>2. x.kind \in {"Accept", "Commit"} /\ x.from = i BY <2>1 DEF RecordPacket
  <2>3. GoodMessage(x) BY <1>3, <2>1 DEF RecordPacket, GoodMessage, Kind, Carries
  <2>4. GoodPacket(x)'
    <3>1. x.from = Owner(x.ballot) /\ x.from # x.to /\ Led(x.ballot)'
      BY <1>2, <2>1 DEF RecordPacket
    <3> QED BY <2>2, <3>1 DEF GoodPacket
  <2>5. Entry(x.slot, x.rec) \in Known \/ Made(Entry(x.slot, x.rec))
    <3> DEFINE s == x.slot
               r == x.rec
    <3>1. /\ Derived(i, m, s) /\ r.req = m.log[s].req /\ r.ballot = ballot[i]
          /\ r.committed => m.log[s].committed
      BY <2>1 DEF RecordPacket
    <3> HIDE DEF s, r
    <3>2. Entry(s, r) \in Known \/ Made(Entry(s, r)) BY <3>1 DEF Derived
    <3> QED BY <3>2 DEF s, r
  <2> QED BY <2>2, <2>3, <2>4, <2>5
<1> QED BY <1>4 DEF Sends

\* The offers of a leader.
LEMMA OffersAre ==
    ASSUME NEW i \in Replica, NEW m, GoodCore(m), m.ballot = ballot[i], NEW e, Configured(e),
           NEW S \in SUBSET Slot, \A s \in S : m.log[s].req # Hole
    PROVE  \A x \in Offers(i, m, S, e) : RecordPacket(i, m, x) /\ x.slot \in S
<1> SUFFICES ASSUME NEW x \in Offers(i, m, S, e)
             PROVE  RecordPacket(i, m, x) /\ x.slot \in S
  OBVIOUS
<1> DEFINE rec(s) == [m.log[s] EXCEPT !.committed = FALSE, !.ballot = m.ballot]
<1>1. PICK s \in S : \E j \in WriteMask(configs[e], m.log[s].req) \ {i} :
         x = Accept(i, j, m, e, s, rec(s))
  BY Zenon DEF Offers
<1> PICK j \in WriteMask(configs[e], m.log[s].req) \ {i} : x = Accept(i, j, m, e, s, rec(s))
  BY <1>1
<1>2. j \in Replica /\ j # i BY WriteMaskIs
<1>3. m.log[s] \in Record /\ m.ballot \in -1..MaxBallot
  <2>1. m.log \in [Slot -> Record] /\ m.ballot \in Ballot BY CoreIs
  <2> QED BY <2>1, Bounds DEF Ballot
<1>4. PICK r : r = rec(s) OBVIOUS
<1>5. r \in Record /\ r.req = m.log[s].req /\ r.ballot = m.ballot /\ ~r.committed
  BY <1>3, <1>4 DEF Record
<1>6. /\ x.kind = "Accept" /\ x.from = i /\ x.to = j /\ x.ballot = m.ballot /\ x.epoch = e
      /\ x.slot = s /\ x.rec = r
  BY <1>4 DEF Accept
<1> HIDE DEF rec
<1>7. e \in Genesis..MaxEpoch BY EpochIs
<1> QED BY <1>2, <1>5, <1>6, <1>7 DEF RecordPacket

\* Its decisions.
LEMMA CommitsAre ==
    ASSUME NEW i \in Replica, NEW m, GoodCore(m), m.ballot = ballot[i],
           NEW to, to \subseteq Others(i), NEW S \in SUBSET Slot, \A s \in S : m.log[s].committed
    PROVE  \A x \in Commits(i, to, m, S) : RecordPacket(i, m, x) /\ x.slot \in S
<1> SUFFICES ASSUME NEW x \in Commits(i, to, m, S)
             PROVE  RecordPacket(i, m, x) /\ x.slot \in S
  OBVIOUS
<1> DEFINE rec(s) == [m.log[s] EXCEPT !.ballot = m.ballot]
<1>1. PICK j \in to, s \in S :
         x = [kind |-> "Commit", from |-> i, to |-> j, ballot |-> m.ballot, slot |-> s,
              rec |-> rec(s)]
  BY DEF Commits
<1>2. j \in Replica /\ j # i BY <1>1 DEF Others
<1>3. m.log[s] \in Record /\ m.ballot \in -1..MaxBallot /\ m.log[s].req # Hole
  <2>1. m.log \in [Slot -> Record] /\ m.ballot \in Ballot /\ Solid(m.log[s]) BY CoreIs DEF Ends
  <2> QED BY <2>1, Bounds DEF Ballot, Solid
<1>4. PICK r : r = rec(s) OBVIOUS
<1>5. r \in Record /\ r.req = m.log[s].req /\ r.ballot = m.ballot /\ r.committed
  BY <1>3, <1>4 DEF Record
<1>6. /\ x.kind = "Commit" /\ x.from = i /\ x.to = j /\ x.ballot = m.ballot
      /\ x.slot = s /\ x.rec = r
  BY <1>1, <1>4
<1> HIDE DEF rec
<1> QED BY <1>2, <1>3, <1>5, <1>6 DEF RecordPacket

\* That it is ready.
LEMMA ReadySends ==
    ASSUME Typed, NEW i \in Replica, Rules(i), NEW c, GoodCore(c), c.ballot = ballot[i]
    PROVE  Sends(i, Ready(i, c)) /\ \A x \in Ready(i, c) : x.kind # "Promise"
<1> PICK b : b = ballot[i] OBVIOUS
<1>2. Owner(b) = i /\ Led(b)' BY DEF Rules, Led
<1>3. ballot[i] \in Ballot /\ c.executed \in Place /\ c.active \in BOOLEAN BY CoreType, CoreIs
<1>4. ASSUME NEW x \in Ready(i, c)
      PROVE  x.from = i /\ GoodMessage(x) /\ GoodPacket(x)' /\ x.kind = "Ready"
  <2>1. PICK j \in Replica : j # i /\ x = [kind |-> "Ready", from |-> i, to |-> j,
                                           ballot |-> c.ballot, high |-> c.executed,
                                           active |-> c.active]
    BY DEF Ready, Others
  <2>2. /\ x.kind = "Ready" /\ x.from = i /\ x.to = j /\ x.ballot = ballot[i]
        /\ x.high = c.executed /\ x.active = c.active
    BY <2>1
  <2>3. GoodMessage(x) BY <1>3, <2>2 DEF GoodMessage, Kind, Carries
  <2>4. GoodPacket(x)'
    <3>1. x.from = Owner(x.ballot) /\ x.from # x.to /\ Led(x.ballot)' BY <1>2, <2>1, <2>2
    <3> QED BY <2>2, <3>1 DEF GoodPacket
  <2> QED BY <2>2, <2>3, <2>4
<1> QED BY <1>4 DEF Sends

\* The turn of a leader.
LEMMA LeaderTurn ==
    ASSUME Typed, Shape, Safety, NEW i \in Replica, NEW X, NEW d, LeadStep(i, X, d),
           NEW M, Carried(M), Sends(i, M), \A x \in M : x.kind # "Promise"
    PROVE  GoodTurn(i)
<1>1. /\ Role(i) /\ LogStep(i) /\ Counts(i) /\ Collects(i) /\ Recovers(i)
      /\ promises'[i] = promises[i]
  BY LeaderParts
<1>2. Effect(i, M) BY <1>1, OldPromises, NoSnap DEF Effect
<1>3. Alone(i) /\ GoodCore(core'[i]) BY DEF LeadStep
<1> QED BY <1>1, <1>2, <1>3 DEF GoodTurn

-----------------------------------------------------------------------------
(***************************************************************************)
(* The turns of a leader, one by one.                                      *)
(***************************************************************************)
\* A core expands to itself.
LEMMA ExpandsSame == ASSUME NEW X, NEW d PROVE Expands(X, d, d)
BY DEF Expands, SameRole, GrowsAt

\* The end of the step is one of its points.
LEMMA AtEnd == ASSUME NEW i, NEW X, NEW d, LeadStep(i, X, d) PROVE Midway(i, X, d, d)
BY ExpandsSame DEF LeadStep, Midway

\* What the code asks of a leader is that it leads.
LEMMA IsLeading ==
    ASSUME Typed, Shape, NEW i \in Replica, core[i].leader = i, ~core[i].preparing
    PROVE  Leading(i)
<1>1. leader[i] = Owner(ballot[i]) BY DEF Shape, Leads
<1> QED BY <1>1, Views DEF Leading

\* What is newly committed is committed.
LEMMA NewlyIs ==
    ASSUME NEW c, NEW d PROVE Newly(c, d) \subseteq Slot /\ \A s \in Newly(c, d) : d.log[s].committed
BY DEF Newly

\* An acknowledgement is counted, and what it decides is announced.
LEMMA TurnAck ==
    ASSUME Invariants, NEW i \in Replica, NEW m \in msgs, ReceiveAck(i, m)
    PROVE  GoodTurn(i) /\ SameEra(i, core'[i])
<1>0. Typed /\ Shape /\ Safety /\ Eras /\ GoodCore(core[i]) BY CoreType DEF Invariants
<1> DEFINE c == core[i]
           q == m.from
           s == m.slot
           d == Acked(c, q, {s}, m.epoch)
           X == [t \in Slot |-> IF t = s THEN {q} ELSE {}]
           S == Newly(c, d)
           M == Commits(i, Others(i), d, S)
<1>1. /\ m.kind = "Ack" /\ m.ballot = c.ballot /\ ~c.preparing /\ c.leader = i
      /\ Only(i, d) /\ Carried(M)
  BY SendIs DEF ReceiveAck
<1>2. GoodMessage(m) /\ q \in Replica BY <1>0, Received
<1>3. s \in Slot BY <1>1, <1>2 DEF GoodMessage, Carries
<1>4. Leading(i) BY <1>0, <1>1, IsLeading
<1>5. Backs(i, X)
  <2>1. \A t \in Slot : X[t] = IF t = s THEN {q} ELSE {} OBVIOUS
  <2> HIDE DEF X
  <2>2. Voted(q, ballot[i], s) BY <1>1, Views DEF Voted
  <2> QED BY <1>4, <2>1, <2>2 DEF Backs
<1>6. {s} \in SUBSET Slot /\ \A t \in {s} : q \in X[t] BY <1>3
<1> HIDE DEF X
<1>7. GoodCore(d) /\ Grows(X, c, d) BY <1>0, <1>2, <1>6, AckedIs
<1> HIDE DEF d
<1>8. core'[i] = d /\ Alone(i) BY <1>0, <1>1, OnlyIs
<1>9. LeadStep(i, X, d) BY <1>5, <1>7, <1>8, GrowsExpands DEF LeadStep
<1>10. d.ballot = ballot[i] BY <1>7, Views DEF Grows, Frame
<1>11. S \in SUBSET Slot /\ \A t \in S : d.log[t].committed BY NewlyIs
<1>12. \A x \in M : RecordPacket(i, d, x) /\ x.slot \in S
  <2>1. Others(i) \subseteq Others(i) OBVIOUS
  <2> HIDE DEF S
  <2> QED BY <1>7, <1>10, <1>11, <2>1, CommitsAre
<1>13. \A t \in S : Derived(i, d, t)
  <2> HIDE DEF S
  <2> SUFFICES ASSUME NEW t \in S PROVE Derived(i, d, t) OBVIOUS
  <2>1. t \in Slot /\ d.log[t].req # Hole BY <1>7, <1>11, CoreIs DEF Ends, Solid
  <2>2. Midway(i, X, d, d) BY <1>9, AtEnd
  <2> QED BY <1>0, <1>9, <2>1, <2>2, LeaderDerives
<1> HIDE DEF M, S
<1>14. Rules(i) BY <1>0, <1>9, LeaderRules
<1>15. Sends(i, M) /\ \A x \in M : x.kind # "Promise"
  BY <1>0, <1>12, <1>13, <1>14, RecordSends
<1>16. GoodTurn(i) BY <1>0, <1>1, <1>9, <1>15, LeaderTurn
<1>17. SameEra(i, core'[i]) BY <1>0, <1>7, <1>8, FrameEra DEF Grows
<1> QED BY <1>16, <1>17

\* What it sends of its log, as it is midway.
MidPackets(i, m, M) == \E S \in SUBSET Slot :
    /\ \A x \in M : RecordPacket(i, m, x) /\ x.slot \in S
    /\ \A s \in S : m.log[s].req # Hole
\* What a leader sends from the midst of its turn is sound.
LEMMA MidSends ==
    ASSUME Typed, Shape, Safety, NEW i \in Replica, NEW X, NEW d, LeadStep(i, X, d),
           NEW m, Midway(i, X, m, d), NEW M, MidPackets(i, m, M)
    PROVE  Sends(i, M) /\ \A x \in M : x.kind # "Promise"
<1>1. PICK S \in SUBSET Slot : /\ \A x \in M : RecordPacket(i, m, x) /\ x.slot \in S
                               /\ \A s \in S : m.log[s].req # Hole
  BY DEF MidPackets
<1>2. Rules(i) BY LeaderRules
<1>3. ASSUME NEW s \in S PROVE Derived(i, m, s)
  <2>1. s \in Slot /\ m.log[s].req # Hole BY <1>1
  <2> QED BY <2>1, LeaderDerives
<1> QED BY <1>1, <1>2, <1>3, RecordSends

\* Two sound sets of packets are one.
LEMMA SendsBoth ==
    ASSUME NEW i, NEW A, NEW B, Sends(i, A), Sends(i, B),
           \A x \in A : x.kind # "Promise", \A x \in B : x.kind # "Promise"
    PROVE  Sends(i, A \cup B) /\ \A x \in A \cup B : x.kind # "Promise"
BY DEF Sends

\* The records with which a leader answers a Fetch.
LEMMA FetchedIs ==
    ASSUME NEW i \in Replica, NEW d, GoodCore(d), d.ballot = ballot[i],
           NEW e \in Genesis..MaxEpoch, NEW j \in Replica, j # i, NEW S \in SUBSET Slot,
           \A s \in S : d.log[s].req # Hole
    PROVE  MidPackets(i, d, {Accept(i, j, d, e, s, [d.log[s] EXCEPT !.ballot = d.ballot]) : s \in S})
<1> DEFINE rec(s) == [d.log[s] EXCEPT !.ballot = d.ballot]
           M == {Accept(i, j, d, e, s, rec(s)) : s \in S}
<1>1. ASSUME NEW x \in M PROVE RecordPacket(i, d, x) /\ x.slot \in S
  <2> PICK s \in S : x = Accept(i, j, d, e, s, rec(s)) OBVIOUS
  <2>1. d.log[s] \in Record /\ d.ballot \in -1..MaxBallot
    <3>1. d.log \in [Slot -> Record] /\ d.ballot \in Ballot BY CoreIs
    <3> QED BY <3>1, Bounds DEF Ballot
  <2>2. PICK r : r = rec(s) OBVIOUS
  <2>3. r \in Record /\ r.req = d.log[s].req /\ r.ballot = d.ballot /\ r.committed = d.log[s].committed
    BY <2>1, <2>2 DEF Record
  <2>4. /\ x.kind = "Accept" /\ x.from = i /\ x.to = j /\ x.ballot = d.ballot /\ x.epoch = e
        /\ x.slot = s /\ x.rec = r
    BY <2>2 DEF Accept
  <2> HIDE DEF rec
  <2> QED BY <2>3, <2>4 DEF RecordPacket
<1> HIDE DEF M
<1>2. MidPackets(i, d, M) BY <1>1 DEF MidPackets
<1> QED BY <1>2 DEF M

\* The commits it sends.
LEMMA DecidedIs ==
    ASSUME NEW i \in Replica, NEW m, GoodCore(m), m.ballot = ballot[i],
           NEW to, to \subseteq Others(i), NEW S \in SUBSET Slot, \A s \in S : m.log[s].committed
    PROVE  MidPackets(i, m, Commits(i, to, m, S))
<1>1. \A x \in Commits(i, to, m, S) : RecordPacket(i, m, x) /\ x.slot \in S BY CommitsAre
<1>2. \A s \in S : m.log[s].req # Hole BY CoreIs DEF Ends, Solid
<1> QED BY <1>1, <1>2 DEF MidPackets

\* A Fetch is answered with the records it asks for.
LEMMA TurnFetch ==
    ASSUME Invariants, NEW i \in Replica, NEW m \in msgs, m.to = i, ReceiveFetch(i, m), ~preparing[i]
    PROVE  GoodTurn(i) /\ SameEra(i, core'[i])
<1>0. Typed /\ Shape /\ Safety /\ Eras /\ GoodCore(core[i]) BY CoreType DEF Invariants
<1> DEFINE c == core[i]
           e == lease[i].promisedBy
           b == [c EXCEPT !.catchupTarget = Max({c.catchupTarget, m.high})]
           d == FillCatchup(b, e)
           S == {s \in m.floor..d.high : d.log[s].req # Hole}
           T == {s \in S : d.log[s].committed}
           A == {Accept(i, m.from, d, e, s, [d.log[s] EXCEPT !.ballot = d.ballot]) : s \in S}
           C == Commits(i, {m.from}, d, T)
           X == [s \in Slot |-> {}]
<1>1. b = [c EXCEPT !.catchupTarget = Max({@, m.high})] /\ m.kind = "Fetch"
  BY <1>0 DEF ReceiveFetch, GoodCore, Core
<1>2. c.leader = i /\ ~c.preparing
  <2>1. b.leader = c.leader BY <1>0 DEF GoodCore, Core
  <2>2. b.leader = i BY <1>1 DEF ReceiveFetch
  <2> QED BY <2>1, <2>2, Views
<1>3. Only(i, d) /\ Carried(A \cup C)
  <2>1. b.preparing = c.preparing BY <1>0 DEF GoodCore, Core
  <2>2. Only(i, d) /\ Send(A \cup C) BY <1>1, <1>2, <2>1 DEF ReceiveFetch
  <2> HIDE DEF d, A, C
  <2> QED BY <2>2, SendIs
<1>4. GoodMessage(m) /\ GoodPacket(m) /\ m.from \in Replica BY <1>0, Received
<1>5. m.floor \in 0..(MaxSlot + 1) /\ m.high \in Place BY <1>1, <1>4 DEF GoodMessage, Carries
<1>6. m.from # i BY <1>1, <1>4 DEF GoodPacket
<1>7. GoodCore(b) /\ Still(c, b)
  <2>1. Max({c.catchupTarget, m.high}) \in Place
    <3>1. c.catchupTarget \in Place BY <1>0, CoreIs
    <3>2. c.catchupTarget \in Int /\ m.high \in Int BY <1>5, <3>1, Bounds DEF Place
    <3> QED BY <1>5, <3>1, <3>2, MaxOfTwo
  <2> QED BY <1>0, <2>1, TargetIs
<1> HIDE DEF b
<1>8. e \in Genesis..MaxEpoch /\ e \in 0..MaxEpoch
  <2>1. e \in Genesis..MaxEpoch BY <1>0, EraIs
  <2> QED BY <2>1, Bounds DEF Genesis
<1>9. GoodCore(d) /\ Grows(X, b, d) BY <1>7, <1>8, FillCatchupIs
<1>10. Leading(i) BY <1>0, <1>2, IsLeading
<1>11. Backs(i, X)
  <2>1. \A s \in Slot : X[s] = {} OBVIOUS
  <2> HIDE DEF X
  <2> QED BY <1>10, <2>1 DEF Backs
<1> HIDE DEF d, X
<1>12. core'[i] = d /\ Alone(i) BY <1>0, <1>3, OnlyIs
<1>13. Expands(X, c, d) BY <1>7, <1>9, StillUnmoved, ExpandsFrom
<1>14. LeadStep(i, X, d) BY <1>9, <1>11, <1>12, <1>13 DEF LeadStep
<1>15. Midway(i, X, d, d) BY <1>14, AtEnd
<1>16. d.ballot = ballot[i] BY <1>7, <1>9, Views DEF Grows, Still, Frame
<1>17. S \in SUBSET Slot /\ \A s \in S : d.log[s].req # Hole
  <2>1. d.high \in Int /\ d.high <= MaxSlot BY <1>9, CoreIs
  <2> QED BY <1>5, <2>1, Bounds DEF Slot
<1>18. T \in SUBSET Slot /\ \A s \in T : d.log[s].committed BY <1>17
<1> HIDE DEF S
<1>19. MidPackets(i, d, A) BY <1>4, <1>6, <1>8, <1>9, <1>16, <1>17, FetchedIs
<1>20. MidPackets(i, d, C)
  <2>1. {m.from} \subseteq Others(i) BY <1>4, <1>6 DEF Others
  <2> HIDE DEF T
  <2> QED BY <1>9, <1>16, <1>18, <2>1, DecidedIs
<1> HIDE DEF A, C
<1>21. Sends(i, A) /\ \A x \in A : x.kind # "Promise" BY <1>0, <1>14, <1>15, <1>19, MidSends
<1>22. Sends(i, C) /\ \A x \in C : x.kind # "Promise" BY <1>0, <1>14, <1>15, <1>20, MidSends
<1>23. Sends(i, A \cup C) /\ \A x \in A \cup C : x.kind # "Promise" BY <1>21, <1>22, SendsBoth
<1>24. GoodTurn(i) BY <1>0, <1>3, <1>14, <1>23, LeaderTurn
<1>25. SameEra(i, core'[i])
  <2>1. Frame(c, d) BY <1>7, <1>9 DEF Still, Frame, Grows
  <2> QED BY <1>0, <1>12, <2>1, FrameEra
<1> QED BY <1>24, <1>25

-----------------------------------------------------------------------------
(***************************************************************************)
(* The tick of a leader.                                                   *)
(***************************************************************************)
\* The core in the midst of a turn.
LEMMA LeadMid ==
    ASSUME NEW i, NEW X, NEW b, Unmoved(core[i], b), NEW m, GoodCore(m), Grows(X, b, m),
           NEW d, Grows(X, m, d)
    PROVE  Midway(i, X, m, d)
BY ExpandsFrom, GrowsExpands DEF Midway

\* The offers of a suffix, those of a flush, and what a suffix decided.
LEMMA SuffixOffers ==
    ASSUME NEW i \in Replica, NEW f, GoodCore(f), f.ballot = ballot[i], NEW e, Configured(e)
    PROVE  /\ MidPackets(i, Relabelled(f, e), Offers(i, Relabelled(f, e), Suffix(f), e))
           /\ GoodCore(Relabelled(f, e))
<1> DEFINE k == Relabelled(f, e)
           S == Suffix(f)
           X == [s \in Slot |-> {}]
<1>1. GoodCore(k) /\ Grows(X, f, k) BY RelabelledIs
<1>2. S \subseteq Slot /\ \A s \in S : f.log[s].req # Hole BY SuffixIs
<1> HIDE DEF k, S, X
<1>3. k.ballot = ballot[i] BY <1>1 DEF Grows, Frame
<1>4. \A s \in S : k.log[s].req # Hole BY <1>1, <1>2 DEF Grows, GrowsAt
<1>5. \A x \in Offers(i, k, S, e) : RecordPacket(i, k, x) /\ x.slot \in S
  <2>1. S \in SUBSET Slot BY <1>2
  <2> QED BY <1>1, <1>3, <1>4, <2>1, OffersAre
<1>6. MidPackets(i, k, Offers(i, k, S, e)) BY <1>2, <1>4, <1>5 DEF MidPackets
<1> QED BY <1>1, <1>6 DEF k, S

\* The requests that a flush orders and offers.
LEMMA FlushOffers ==
    ASSUME NEW i \in Replica, NEW a, GoodCore(a), a.ballot = ballot[i], NEW e, Configured(e)
    PROVE  MidPackets(i, Ordered(a, e), FlushSends(i, a, e)) /\ GoodCore(Ordered(a, e))
<1> DEFINE k == Ordered(a, e)
           S == (a.high + 1)..k.high
           X == [s \in Slot |-> {}]
<1>1. GoodCore(k) /\ Grows(X, a, k) /\ \A s \in S : s \in Slot /\ k.log[s].req # Hole
  BY OrderedIs
<1>2. FlushSends(i, a, e) = Offers(i, k, S, e) BY DEF FlushSends
<1> HIDE DEF k, S, X
<1>3. k.ballot = ballot[i] BY <1>1 DEF Grows, Frame
<1>4. S \in SUBSET Slot BY <1>1
<1>5. \A x \in Offers(i, k, S, e) : RecordPacket(i, k, x) /\ x.slot \in S
  BY <1>1, <1>3, <1>4, OffersAre
<1>6. MidPackets(i, k, Offers(i, k, S, e)) BY <1>1, <1>4, <1>5 DEF MidPackets
<1> QED BY <1>1, <1>2, <1>6 DEF k

\* The decisions that its own vote completes.
LEMMA SuffixDecides ==
    ASSUME NEW i \in Replica, NEW f, NEW g, GoodCore(g), g.ballot = ballot[i]
    PROVE  MidPackets(i, g, Commits(i, Others(i), g, Newly(f, g)))
<1> DEFINE S == Newly(f, g)
<1>1. S \in SUBSET Slot /\ \A s \in S : g.log[s].committed BY NewlyIs
<1>2. Others(i) \subseteq Others(i) OBVIOUS
<1> HIDE DEF S
<1>3. MidPackets(i, g, Commits(i, Others(i), g, S)) BY <1>1, <1>2, DecidedIs
<1> QED BY <1>3 DEF S

\* The tick of a leader: it fills, flushes and sends its log again.
LEMMA TurnLead ==
    ASSUME Invariants, NEW i \in Replica, NEW due, TickLead(i, due)
    PROVE  GoodTurn(i) /\ SameEra(i, core'[i])
<1>0. Typed /\ Shape /\ Safety /\ Eras /\ LeaseInv /\ GoodCore(core[i])
  BY CoreType DEF Invariants
<1> DEFINE e == Switched(i).promisedBy
           b == [core[i] EXCEPT !.suspected = Suspects(i, due)]
           c == Reading(i, b, due)
           X == [s \in Slot |-> {i}]
<1>1. PICK q \in Orders(c, Waiting(c)) :
         LET r == FillCatchup(Resumed(i, c, q), e)
             a == IF ~r.active /\ r.executed >= r.recoveryEnd THEN Activate(r) ELSE r
             f == IF a.active THEN Flushed(i, a, e) ELSE a
             sends == "send" \in due
         IN  /\ Only(i, IF sends THEN SentSuffix(i, f, e) ELSE f)
             /\ Send(Grants(i, due)
                   \cup (IF a # r THEN Ready(i, a) ELSE {})
                   \cup (IF a.active THEN FlushSends(i, a, e) ELSE {})
                   \cup (IF sends THEN Ready(i, f) \cup SuffixSends(i, f, e) ELSE {}))
  BY Zenon DEF TickLead
<1> DEFINE z == Resumed(i, c, q)
           r == FillCatchup(z, e)
           a == IF ~r.active /\ r.executed >= r.recoveryEnd THEN Activate(r) ELSE r
           f == IF a.active THEN Flushed(i, a, e) ELSE a
           sends == "send" \in due
           g == SentSuffix(i, f, e)
           d == IF sends THEN g ELSE f
           o == Ordered(a, e)
           k == Relabelled(f, e)
           M1 == IF a # r THEN Ready(i, a) ELSE {}
           M2 == IF a.active THEN FlushSends(i, a, e) ELSE {}
           M3 == IF sends THEN Ready(i, f) ELSE {}
           M4 == IF sends THEN Offers(i, k, Suffix(f), e) ELSE {}
           M5 == IF sends THEN Commits(i, Others(i), g, Newly(f, g)) ELSE {}
           M == Grants(i, due) \cup (M1 \cup (M2 \cup (M3 \cup (M4 \cup M5))))
<1>2. Only(i, d) BY <1>1
<1>3. Carried(M)
  <2>1. Send(Grants(i, due) \cup M1 \cup M2
               \cup (IF sends THEN Ready(i, f) \cup SuffixSends(i, f, e) ELSE {}))
    BY <1>1
  <2>2. (IF sends THEN Ready(i, f) \cup SuffixSends(i, f, e) ELSE {}) = M3 \cup (M4 \cup M5)
    BY Zenon DEF SuffixSends
  <2> DEFINE M6 == IF sends THEN Ready(i, f) \cup SuffixSends(i, f, e) ELSE {}
             G == Grants(i, due)
  <2>3. Send(G \cup M1 \cup M2 \cup M6) /\ M6 = M3 \cup (M4 \cup M5) BY <2>1, <2>2
  <2> HIDE DEF M1, M2, M3, M4, M5, M6, G
  <2>4. G \cup M1 \cup M2 \cup M6 = G \cup (M1 \cup (M2 \cup (M3 \cup (M4 \cup M5)))) BY <2>3
  <2>5. Carried(G \cup (M1 \cup (M2 \cup (M3 \cup (M4 \cup M5))))) BY <2>3, <2>4, SendIs
  <2> QED BY <2>5 DEF G
<1>4. core[i].leader = i /\ ~core[i].preparing BY Zenon DEF TickLead
<1>5. Configured(e) /\ e \in Genesis..MaxEpoch /\ e \in 0..MaxEpoch
  <2>1. Configured(e) /\ e \in Genesis..MaxEpoch BY <1>0, SwitchedIs
  <2> QED BY <2>1, EpochIs
<1>6. Suspects(i, due) \in SUBSET (Replica \ {i}) /\ Suspects(i, due) \in SUBSET Replica
  BY <1>0, SuspicionType
<1>7. /\ GoodCore(b) /\ Unmoved(core[i], b) /\ b.suspected = Suspects(i, due)
      /\ b.latestEpoch = core[i].latestEpoch
  BY <1>0, <1>6, SuspectIs
<1> HIDE DEF b
<1>8. GoodCore(c) /\ Grows(X, b, c) BY <1>0, <1>7, ReadingIs, StillGrows
<1>9. Leading(i) BY <1>0, <1>4, IsLeading
<1>10. Backs(i, X) /\ \A s \in Slot : i \in X[s]
  <2>1. \A s \in Slot : X[s] = {i} OBVIOUS
  <2> HIDE DEF X
  <2> QED BY <1>9, <2>1 DEF Backs
<1> HIDE DEF c, e, X
<1>11. GoodCore(z) /\ Grows(X, c, z) BY <1>8, ResumedIs, StillGrows
<1> HIDE DEF z
<1>12. GoodCore(r) /\ Grows(X, z, r) BY <1>5, <1>11, FillCatchupIs
<1> HIDE DEF r
<1>13. Grows(X, b, r) BY <1>8, <1>11, <1>12, GrowsOn
<1>14. GoodCore(a) /\ Grows(X, r, a)
  <2>1. CASE ~r.active /\ r.executed >= r.recoveryEnd
    BY <1>12, <2>1, ActivateIs, StillGrows
  <2>2. CASE ~(~r.active /\ r.executed >= r.recoveryEnd)
    <3>1. a = r BY <2>2
    <3> QED BY <1>12, <3>1, GrowsSame DEF Frame
  <2> QED BY <2>1, <2>2
<1>15. Grows(X, b, a) BY <1>13, <1>14, GrowsOn
<1> HIDE DEF a
<1>16. GoodCore(f) /\ Grows(X, a, f)
  <2>1. CASE a.active BY <1>5, <1>10, <1>14, <2>1, FlushedIs
  <2>2. CASE ~a.active
    <3>1. f = a BY <2>2
    <3> QED BY <1>14, <3>1, GrowsSame DEF Frame
  <2> QED BY <2>1, <2>2
<1>17. Grows(X, b, f) BY <1>15, <1>16, GrowsOn
<1>18. a.active => /\ GoodCore(o) /\ Grows(X, a, o) /\ Grows(X, o, f)
  BY <1>5, <1>10, <1>14, FlushedIs, OrderedIs
<1> HIDE DEF f
<1>19. GoodCore(g) /\ Grows(X, f, g) /\ Grows(X, k, g) BY <1>5, <1>10, <1>16, SentSuffixIs
<1>20. GoodCore(k) /\ Grows(X, f, k) BY <1>5, <1>16, RelabelledIs
<1> HIDE DEF g
<1>21. GoodCore(d) /\ Grows(X, f, d) /\ (sends => Grows(X, k, d))
  <2>1. CASE sends BY <1>19, <2>1
  <2>2. CASE ~sends
    <3>1. d = f BY <2>2
    <3> QED BY <1>16, <2>2, <3>1, GrowsSame DEF Frame
  <2> QED BY <2>1, <2>2
<1>22. Grows(X, b, d) BY <1>17, <1>21, GrowsOn
<1> HIDE DEF d
<1>23. core'[i] = d /\ Alone(i) BY <1>0, <1>2, OnlyIs
<1>24. LeadStep(i, X, d)
  <2>1. Expands(X, core[i], d) BY <1>7, <1>22, ExpandsFrom
  <2> QED BY <1>10, <1>21, <1>23, <2>1 DEF LeadStep
<1>25. b.ballot = ballot[i] BY <1>7, Views DEF Unmoved
<1>26. a.ballot = ballot[i] /\ f.ballot = ballot[i]
  BY <1>15, <1>17, <1>25 DEF Grows, Frame
<1>27. Rules(i) BY <1>0, <1>24, LeaderRules
<1>28. Sends(i, M1) /\ \A x \in M1 : x.kind # "Promise"
  <2>1. Sends(i, Ready(i, a)) /\ \A x \in Ready(i, a) : x.kind # "Promise"
    BY <1>0, <1>14, <1>26, <1>27, ReadySends
  <2> QED BY <2>1 DEF Sends
<1>29. Sends(i, M2) /\ \A x \in M2 : x.kind # "Promise"
  <2>1. CASE a.active
    <3>1. MidPackets(i, o, FlushSends(i, a, e)) BY <1>5, <1>14, <1>26, FlushOffers
    <3>2. GoodCore(o) /\ Grows(X, b, o) /\ Grows(X, o, d)
      BY <1>15, <1>18, <1>21, <2>1, GrowsOn
    <3>3. M2 = FlushSends(i, a, e) BY <2>1
    <3> HIDE DEF o
    <3>4. Midway(i, X, o, d) BY <1>7, <3>2, LeadMid
    <3> QED BY <1>0, <1>24, <3>1, <3>3, <3>4, MidSends
  <2>2. CASE ~a.active BY <2>2 DEF Sends
  <2> QED BY <2>1, <2>2
<1>30. Sends(i, M3) /\ \A x \in M3 : x.kind # "Promise"
  <2>1. Sends(i, Ready(i, f)) /\ \A x \in Ready(i, f) : x.kind # "Promise"
    BY <1>0, <1>16, <1>26, <1>27, ReadySends
  <2> QED BY <2>1 DEF Sends
<1>31. Sends(i, M4) /\ \A x \in M4 : x.kind # "Promise"
  <2>1. CASE sends
    <3>1. MidPackets(i, k, Offers(i, k, Suffix(f), e)) BY <1>5, <1>16, <1>26, SuffixOffers
    <3>2. GoodCore(k) /\ Grows(X, b, k) /\ Grows(X, k, d)
      BY <1>17, <1>20, <1>21, <2>1, GrowsOn
    <3>3. M4 = Offers(i, k, Suffix(f), e) BY <2>1
    <3> HIDE DEF k
    <3>4. Midway(i, X, k, d) BY <1>7, <3>2, LeadMid
    <3> QED BY <1>0, <1>24, <3>1, <3>3, <3>4, MidSends
  <2>2. CASE ~sends BY <2>2 DEF Sends
  <2> QED BY <2>1, <2>2
<1>32. Sends(i, M5) /\ \A x \in M5 : x.kind # "Promise"
  <2>1. CASE sends
    <3>1. d = g /\ M5 = Commits(i, Others(i), g, Newly(f, g)) BY <2>1 DEF d
    <3>2. g.ballot = ballot[i] BY <1>19, <1>26 DEF Grows, Frame
    <3>3. MidPackets(i, g, Commits(i, Others(i), g, Newly(f, g))) BY <1>19, <3>2, SuffixDecides
    <3>4. Midway(i, X, d, d) BY <1>24, AtEnd
    <3> QED BY <1>0, <1>24, <3>1, <3>3, <3>4, MidSends
  <2>2. CASE ~sends BY <2>2 DEF Sends
  <2> QED BY <2>1, <2>2
<1>33. Sends(i, Grants(i, due)) /\ \A x \in Grants(i, due) : x.kind # "Promise"
  BY <1>0, GrantsQuiet, QuietSends
<1>34. Sends(i, M) /\ \A x \in M : x.kind # "Promise"
  <2> HIDE DEF M1, M2, M3, M4, M5
  <2>1. Sends(i, M4 \cup M5) /\ \A x \in M4 \cup M5 : x.kind # "Promise"
    BY <1>31, <1>32, SendsBoth
  <2>2. Sends(i, M3 \cup (M4 \cup M5)) /\ \A x \in M3 \cup (M4 \cup M5) : x.kind # "Promise"
    BY <1>30, <2>1, SendsBoth
  <2>3. /\ Sends(i, M2 \cup (M3 \cup (M4 \cup M5)))
        /\ \A x \in M2 \cup (M3 \cup (M4 \cup M5)) : x.kind # "Promise"
    BY <1>29, <2>2, SendsBoth
  <2>4. /\ Sends(i, M1 \cup (M2 \cup (M3 \cup (M4 \cup M5))))
        /\ \A x \in M1 \cup (M2 \cup (M3 \cup (M4 \cup M5))) : x.kind # "Promise"
    BY <1>28, <2>3, SendsBoth
  <2> QED BY <1>33, <2>4, SendsBoth
<1> HIDE DEF M
<1>35. GoodTurn(i) BY <1>0, <1>3, <1>24, <1>34, LeaderTurn
<1>36. SameEra(i, core'[i])
  BY <1>6, <1>7, <1>22, <1>23 DEF SameEra, Grows, Frame
<1> QED BY <1>35, <1>36
-----------------------------------------------------------------------------
(***************************************************************************)
(* A candidate collects promises.                                          *)
(***************************************************************************)
\* The promises i has with the packet m; they are of its ballot and its log.
Elects(i, m, P) ==
    /\ m.kind = "Promise" /\ m.ballot = ballot[i] /\ preparing[i] /\ leader[i] = i
    /\ m.floor = executed[i] + 1 /\ P = promises[i] \cup {m}

\* Its promises are those of other replicas for its ballot, and its own.
LEMMA ElectedIs ==
    ASSUME Typed, Shape, NEW i \in Replica, NEW m \in msgs, NEW P, Elects(i, m, P)
    PROVE  /\ Owner(ballot[i]) = i /\ ~Led(ballot[i])
           /\ \A p \in P : /\ p \in Promises /\ p \in Snapshots /\ Ends(p.recs, p.high, -1)
                           /\ p.ballot = ballot[i] /\ p.floor = executed[i] + 1
                           /\ p.from \in Replica /\ ballot[p.from] >= ballot[i]
           /\ \A p, r \in P : p.from = r.from => p = r
           /\ \E p \in P : OwnPromise(i, p)
<1>1. Prepared(i) BY DEF Elects, Shape, Preparation
<1>2. ~Led(ballot[i])
  <2>1. Owner(ballot[i]) = i /\ preparing[i] BY <1>1 DEF Prepared, Elects
  <2>2. ballot[i] \in Nat BY CoreType
  <2> QED BY <2>1, <2>2 DEF Led
<1>3. ASSUME NEW p \in P
      PROVE  /\ p \in Promises /\ p.ballot = ballot[i] /\ p.floor = executed[i] + 1
             /\ p \in Snapshots /\ Ends(p.recs, p.high, -1)
             /\ p.from \in Replica /\ ballot[p.from] >= ballot[i]
  <2>1. p \in Promises /\ p.ballot = ballot[i] /\ p.floor = executed[i] + 1
    BY <1>1, InPromised DEF Elects, Prepared
  <2>2. p \in Snapshots /\ Ends(p.recs, p.high, -1) BY <2>1, PromiseType
  <2>3. p.from \in Replica BY <2>2 DEF Snapshots
  <2>4. p.ballot <= ballot[p.from] BY <2>1 DEF Shape, PromiseShape
  <2>5. ballot[p.from] \in Nat /\ ballot[i] \in Nat BY <2>3, CoreType
  <2> QED BY <2>1, <2>2, <2>3, <2>4, <2>5
<1>4. \A p, r \in P : p.from = r.from => p = r BY <1>3 DEF Shape, OneSnapshot
<1>5. \E p \in P : OwnPromise(i, p) BY <1>1 DEF Prepared, Elects
<1> QED BY <1>1, <1>2, <1>3, <1>4, <1>5 DEF Prepared

\* It goes on collecting.
CollectTo(c, P, d) ==
    /\ d.ballot = c.ballot /\ d.leader = c.leader /\ d.preparing = c.preparing
    /\ d.log = c.log /\ d.votes = c.votes /\ d.executed = c.executed /\ d.promises = P
    /\ SameSight(c, d)
\* One promise more changes nothing else.
LEMMA CollectIs ==
    ASSUME NEW c, GoodCore(c), NEW P \in SUBSET Snapshots, \A p \in P : Ends(p.recs, p.high, -1),
           NEW d, d = [c EXCEPT !.promises = P]
    PROVE  GoodCore(d) /\ CollectTo(c, P, d)
<1>1. c \in Core BY DEF GoodCore
<1>2. d \in Core BY <1>1 DEF Core
<1>3. CollectTo(c, P, d) /\ d.pending = c.pending /\ d.high = c.high
  BY <1>1 DEF Core, CollectTo, SameSight
<1>4. GoodCore(d) BY <1>1, <1>2, <1>3 DEF GoodCore, CollectTo
<1> QED BY <1>3, <1>4

\* A candidate without a majority only keeps the promise.
LEMMA CollectTurn ==
    ASSUME Typed, Shape, Eras, NEW i \in Replica, NEW m \in msgs, NEW P, Elects(i, m, P),
           Only(i, [core[i] EXCEPT !.promises = P]), UNCHANGED msgs
    PROVE  GoodTurn(i) /\ SameEra(i, core'[i])
<1> DEFINE c == core[i]
           d == [c EXCEPT !.promises = P]
<1>1. GoodCore(c) BY CoreType
<1>2. P \in SUBSET Snapshots /\ \A p \in P : Ends(p.recs, p.high, -1) BY ElectedIs
<1>3. GoodCore(d) /\ CollectTo(c, P, d) BY <1>1, <1>2, CollectIs
<1> HIDE DEF d
<1>4. core'[i] = d /\ Alone(i) BY OnlyIs DEF d
<1>5. /\ ballot'[i] = ballot[i] /\ leader'[i] = leader[i] /\ preparing'[i] = preparing[i]
      /\ executed'[i] = executed[i] /\ log'[i] = log[i] /\ votes'[i] = votes[i]
      /\ promises'[i] = P
  BY <1>3, <1>4, Views, ViewsNext DEF CollectTo
<1>6. Owner(ballot[i]) = i /\ preparing[i] /\ ballot[i] \in Nat BY ElectedIs, CoreType DEF Elects
<1>7. ~Leading(i)' /\ ~Leading(i) BY <1>5, <1>6 DEF Leading
<1>8. Role(i)
  <2>1. leader[i] = Owner(ballot[i]) BY DEF Shape, Leads
  <2> QED BY <1>5, <1>6, <1>7, <2>1 DEF Role
<1>9. LogStep(i)
  <2>1. GoodLog(i)' BY <1>5, <1>7 DEF Shape, LogShape, GoodLog
  <2> QED BY <1>5, <2>1, KeepsSame, InKnown DEF LogStep
<1>10. Counts(i) BY <1>5 DEF Counts, Voted
<1>11. \A p \in P : p \in Promises BY ElectedIs
<1>12. Collects(i) BY <1>5, <1>11 DEF Collects
<1>13. Recovers(i)
  <2>1. \A p \in P : p.ballot = ballot[i] /\ p.floor = executed[i] + 1 BY ElectedIs
  <2>2. PICK p \in P : OwnPromise(i, p) BY ElectedIs
  <2>3. OwnPromise(i, p)' BY <1>5, <2>2 DEF OwnPromise
  <2>4. Prepared(i)' BY <1>5, <1>6, <2>1, <2>3 DEF Prepared
  <2> QED BY <2>4 DEF Recovers
<1>14. Effect(i, {})
  <2>1. Carried({}) BY SendsNothing
  <2>2. Sends(i, {}) BY DEF Sends
  <2>3. Snaps(i, {}) BY <1>5, <1>11 DEF Snaps
  <2> QED BY <2>1, <2>2, <2>3 DEF Effect
<1>15. SameEra(i, core'[i])
  <2>1. c.suspected \subseteq Replica \ {i} BY DEF Eras, EraOf
  <2> QED BY <1>3, <1>4, <2>1 DEF SameEra, CollectTo, SameSight
<1> QED BY <1>3, <1>4, <1>8, <1>9, <1>10, <1>12, <1>13, <1>14, <1>15 DEF GoodTurn

-----------------------------------------------------------------------------
(***************************************************************************)
(* What a majority of promises reports.                                    *)
(***************************************************************************)
Senders(P) == {p.from : p \in P}

\* The promises of a majority, one of each.
LEMMA SendersElect ==
    ASSUME Typed, Shape, NEW i \in Replica, NEW m \in msgs, NEW P, Elects(i, m, P),
           ~(Cardinality(P) < Quorum)
    PROVE  Senders(P) \in Quorums
<1>1. /\ \A p \in P : p.from \in Replica
      /\ \A p, r \in P : p.from = r.from => p = r
  BY ElectedIs
<1> DEFINE F == Senders(P)
           f == [q \in F |-> CHOOSE p \in P : p.from = q]
<1>2. F \subseteq Replica /\ IsFiniteSet(F) /\ Cardinality(F) \in Nat
  <2>1. F \subseteq Replica BY <1>1 DEF Senders
  <2>2. IsFiniteSet(F) BY <2>1, ReplicasFinite, FS_Subset
  <2> QED BY <2>1, <2>2, CardNat
<1>3. f \in Surjection(F, P)
  <2>1. ASSUME NEW q \in F PROVE f[q] \in P
    <3>1. \E p \in P : p.from = q BY DEF Senders
    <3> QED BY <3>1
  <2>2. ASSUME NEW p \in P PROVE p.from \in F /\ f[p.from] = p
    <3>1. p.from \in F BY DEF Senders
    <3>2. (CHOOSE r \in P : r.from = p.from) = p BY <1>1
    <3> QED BY <3>1, <3>2
  <2>3. f \in [F -> P] BY <2>1
  <2> HIDE DEF f, F
  <2>4. \A p \in P : \E q \in F : f[q] = p BY <2>2
  <2> QED BY <2>3, <2>4 DEF Surjection
<1> HIDE DEF f, F
<1>4. Cardinality(P) <= Cardinality(F) /\ IsFiniteSet(P) BY <1>2, <1>3, FS_Surjection
<1>5. Cardinality(P) \in Nat BY <1>4, CardNat
<1>6. Quorum \in Nat BY HalfOfN
<1>7. Cardinality(F) >= Quorum BY <1>2, <1>4, <1>5, <1>6
<1> QED BY <1>2, <1>7 DEF Quorums, F

\* Of the records for a slot, one of the highest ballot is selected.
LEMMA SelectedIs ==
    ASSUME NEW P \in SUBSET Snapshots, \A p \in P : Ends(p.recs, p.high, -1), NEW s \in Slot
    PROVE  /\ Selected(P, s) \in Record /\ Selected(P, s).req # Hole
           /\ \A p \in P : p.recs[s].req # Hole =>
                 \E g \in P : /\ g.recs[s].req # Hole /\ g.recs[s] = Selected(P, s)
                              /\ p.recs[s].ballot <= g.recs[s].ballot
<1> DEFINE R == {p.recs[s] : p \in {x \in P : x.recs[s].req # Hole}}
           sel == CHOOSE r \in R : \A q \in R : r.ballot >= q.ballot
<1>1. Selected(P, s) = IF R = {} THEN Filler(-1, 0) ELSE sel BY DEF Selected
<1>2. \A r \in R : \E p \in P : r = p.recs[s] /\ p.recs[s].req # Hole OBVIOUS
<1>3. \A p \in P : p.recs[s].req # Hole => p.recs[s] \in R OBVIOUS
<1> HIDE DEF R
<1>4. ASSUME NEW r \in R PROVE r \in Record /\ r.req # Hole /\ r.ballot \in Int /\ r.ballot <= MaxBallot
  <2>1. PICK p \in P : r = p.recs[s] /\ p.recs[s].req # Hole BY <1>2
  <2>2. p.recs \in [Slot -> Record] BY DEF Snapshots
  <2>3. Solid(p.recs[s]) BY DEF Ends
  <2>4. r \in Record /\ r.req # Hole /\ r.ballot \in Ballot BY <2>1, <2>2, <2>3 DEF Solid
  <2> QED BY <2>4, Bounds DEF Ballot
<1>5. CASE R = {}
  <2>1. Selected(P, s) = Filler(-1, 0) BY <1>1, <1>5
  <2>2. Filler(-1, 0) \in Record /\ Filler(-1, 0).req # Hole
    <3>1. Noop # Hole /\ -1 \in -1..MaxBallot /\ 0 \in 0..MaxEpoch BY PutAssumption, Bounds
    <3> QED BY <3>1 DEF Filler, Record
  <2> QED BY <1>3, <1>5, <2>1, <2>2
<1>6. CASE R # {}
  <2> DEFINE T == {r.ballot : r \in R}
  <2>1. T \in SUBSET Int /\ T # {} /\ \A x \in T : x <= MaxBallot BY <1>4, <1>6
  <2>2. Max(T) \in T /\ \A y \in T : Max(T) >= y
    <3> HIDE DEF T
    <3>1. MaxBallot \in Int BY Bounds
    <3> QED BY <2>1, <3>1, MaxIs
  <2>3. \E r \in R : \A q \in R : r.ballot >= q.ballot BY <2>2
  <2>4. sel \in R /\ \A q \in R : sel.ballot >= q.ballot BY <2>3
  <2>5. Selected(P, s) = sel BY <1>1, <1>6
  <2> HIDE DEF sel
  <2>6. ASSUME NEW p \in P, p.recs[s].req # Hole
        PROVE  \E g \in P : /\ g.recs[s].req # Hole /\ g.recs[s] = Selected(P, s)
                            /\ p.recs[s].ballot <= g.recs[s].ballot
    <3>1. PICK g \in P : sel = g.recs[s] /\ g.recs[s].req # Hole BY <1>2, <2>4
    <3>2. p.recs[s] \in R BY <1>3, <2>6
    <3>3. sel.ballot >= p.recs[s].ballot BY <2>4, <3>2
    <3>4. sel.ballot \in Int /\ p.recs[s].ballot \in Int BY <1>4, <2>4, <3>2
    <3> QED BY <2>5, <3>1, <3>3, <3>4
  <2> QED BY <1>4, <2>4, <2>5, <2>6
<1> QED BY <1>5, <1>6

\* What a candidate makes of them.
Top(c, P) == Max({c.executed} \cup {p.high : p \in P})
RecoverTo(c, P, d) ==
    /\ d.ballot = c.ballot /\ d.leader = c.leader /\ ~d.preparing /\ d.promises = {}
    /\ d.executed = c.executed /\ d.high = Top(c, P) /\ SameSight(c, d)
    /\ \A s \in Slot :
          /\ s <= c.executed => d.log[s] = c.log[s]
          /\ s > Top(c, P) => d.log[s].req = Hole
          /\ s > c.executed => ~d.log[s].committed
          /\ s > c.executed /\ s <= Top(c, P) =>
                /\ d.log[s].req = Selected(P, s).req /\ d.log[s].req # Hole
                /\ d.log[s].ballot = c.ballot
    /\ \A s \in Slot : d.votes[s] = {}

\* The highest slot that i or a promise has.
LEMMA TopIs ==
    ASSUME NEW c, GoodCore(c), NEW P \in SUBSET Snapshots
    PROVE  /\ Top(c, P) \in Place /\ Top(c, P) \in Int /\ c.executed <= Top(c, P)
           /\ \A p \in P : p.high <= Top(c, P)
<1> DEFINE S == {c.executed} \cup {p.high : p \in P}
<1>1. \A x \in S : x \in Place
  <2>1. c.executed \in Place BY CoreIs
  <2>2. \A p \in P : p.high \in Place BY DEF Snapshots
  <2> QED BY <2>1, <2>2
<1>2. Place \subseteq Int /\ MaxSlot \in Int /\ \A x \in Place : x <= MaxSlot BY Bounds DEF Place
<1>3. S \in SUBSET Int /\ S # {} /\ \A x \in S : x <= MaxSlot BY <1>1, <1>2
<1>4. c.executed \in S /\ \A p \in P : p.high \in S OBVIOUS
<1> HIDE DEF S
<1>5. Max(S) \in S /\ \A y \in S : Max(S) >= y BY <1>2, <1>3, MaxIs
<1>6. Top(c, P) = Max(S) BY DEF Top, S
<1>7. Max(S) \in Place /\ Max(S) \in Int BY <1>1, <1>2, <1>5
<1>8. \A y \in S : y <= Max(S)
  <2> TAKE y \in S
  <2>1. y \in Int /\ Max(S) >= y BY <1>3, <1>5
  <2> QED BY <1>7, <2>1
<1> QED BY <1>4, <1>6, <1>7, <1>8

\* recover: the log that is taken over from P.
LEMMA RecoveredIs ==
    ASSUME NEW c, GoodCore(c), NEW P \in SUBSET Snapshots, \A p \in P : Ends(p.recs, p.high, -1)
    PROVE  GoodCore(Recovered(c, P)) /\ RecoverTo(c, P, Recovered(c, P))
<1> DEFINE h == Top(c, P)
           L == [s \in Slot |->
                   IF s <= c.executed THEN c.log[s]
                   ELSE IF s > h THEN Empty
                   ELSE [Selected(P, s) EXCEPT !.ballot = c.ballot, !.committed = FALSE]]
           A == {L[s].req : s \in Slot} \cap Put
           V == [s \in Slot |-> {}]
           d == [c EXCEPT !.preparing = FALSE, !.promises = {}, !.high = h, !.log = L,
                          !.assigned = A, !.votes = V]
<1>1. Recovered(c, P) = d BY Zenon DEF Recovered, Top
<1>2. /\ c \in Core /\ c.ballot \in Ballot /\ c.executed \in Int
      /\ c.log \in [Slot -> Record] /\ Ends(c.log, c.high, c.executed)
  BY CoreIs DEF GoodCore
<1>3. h \in Place /\ h \in Int /\ c.executed <= h BY TopIs
<1> HIDE DEF h
<1>4. ASSUME NEW s \in Slot
      PROVE  /\ L[s] \in Record /\ Solid(L[s]) /\ (L[s].req # Hole => s <= h)
             /\ s <= c.executed => L[s] = c.log[s] /\ L[s].committed
             /\ s > h => L[s].req = Hole
             /\ s > c.executed => ~L[s].committed
             /\ s > c.executed /\ s <= h =>
                   /\ L[s].req = Selected(P, s).req /\ L[s].req # Hole
                   /\ L[s].ballot = c.ballot
  <2>1. s \in Int BY SlotInt
  <2>2. CASE s <= c.executed
    <3>1. L[s] = c.log[s] BY <2>2
    <3>2. c.log[s] \in Record /\ Solid(c.log[s]) /\ c.log[s].committed BY <1>2, <2>2 DEF Ends
    <3>3. s <= h /\ ~(s > h) /\ ~(s > c.executed) BY <1>2, <1>3, <2>1, <2>2
    <3> QED BY <3>1, <3>2, <3>3
  <2>3. CASE ~(s <= c.executed) /\ s > h
    <3>1. L[s] = Empty BY <2>3
    <3>2. Empty \in Record /\ Empty.req = Hole /\ ~Empty.committed BY Bounds DEF Empty, Record
    <3>3. ~(s <= h) BY <1>3, <2>1, <2>3
    <3> HIDE DEF L
    <3> QED BY <2>3, <3>1, <3>2, <3>3 DEF Solid
  <2>4. CASE ~(s <= c.executed) /\ ~(s > h)
    <3> DEFINE r == Selected(P, s)
    <3>1. r \in Record /\ r.req # Hole BY SelectedIs
    <3>2. L[s] = [r EXCEPT !.ballot = c.ballot, !.committed = FALSE] BY <2>4
    <3>3. PICK x : x = L[s] OBVIOUS
    <3> HIDE DEF r, L
    <3>4. c.ballot \in -1..MaxBallot BY <1>2, Bounds DEF Ballot
    <3>5. x \in Record /\ x.req = r.req /\ x.ballot = c.ballot /\ ~x.committed
      BY <3>1, <3>2, <3>3, <3>4 DEF Record
    <3>6. s <= h /\ s > c.executed BY <1>2, <1>3, <2>1, <2>4
    <3>7. Solid(x) BY <1>2, <3>5 DEF Solid
    <3> QED BY <2>4, <3>1, <3>3, <3>5, <3>6, <3>7 DEF r
  <2> QED BY <2>2, <2>3, <2>4
<1>5. L \in [Slot -> Record] /\ Ends(L, h, c.executed)
  <2>1. L = [s \in Slot |-> L[s]] OBVIOUS
  <2> HIDE DEF L
  <2>2. L \in [Slot -> Record] BY <1>4, <2>1
  <2> QED BY <1>4, <2>2 DEF Ends
<1> HIDE DEF L
<1>6. A \subseteq Put OBVIOUS
<1> HIDE DEF A
<1>7. V \in [Slot -> SUBSET Replica] /\ \A s \in Slot : V[s] = {} OBVIOUS
<1> HIDE DEF V
<1>8. d \in Core BY <1>2, <1>3, <1>5, <1>6, <1>7 DEF Core
<1>9. /\ d.ballot = c.ballot /\ d.leader = c.leader /\ ~d.preparing /\ d.promises = {}
      /\ d.executed = c.executed /\ d.high = h /\ SameSight(c, d) /\ d.log = L /\ d.votes = V
      /\ d.pending = c.pending
  BY <1>2 DEF Core, SameSight
<1> HIDE DEF d
<1>10. GoodCore(d) BY <1>3, <1>5, <1>8, <1>9 DEF GoodCore
<1>11. RecoverTo(c, P, d) BY <1>4, <1>7, <1>9 DEF RecoverTo, h
<1> QED BY <1>1, <1>10, <1>11

-----------------------------------------------------------------------------
(***************************************************************************)
(* The log that it takes over.                                             *)
(***************************************************************************)
\* m is the core of i when it has taken over from the promises P, or later in
\* that turn: it decided nothing, and votes for what it proposes.
Takes(i, P, m) ==
    /\ GoodCore(m) /\ m.ballot = ballot[i] /\ m.leader = leader[i] /\ ~m.preparing
    /\ m.promises = {} /\ SameSight(core[i], m)
    /\ \A s \in Slot :
          /\ s <= executed[i] => /\ m.log[s].req = core[i].log[s].req /\ m.log[s].committed
                                 /\ m.log[s].ballot = core[i].log[s].ballot
          /\ s > executed[i] => ~m.log[s].committed
          /\ s > executed[i] /\ m.log[s].req # Hole => m.log[s].ballot = ballot[i]
          /\ s > executed[i] /\ s <= Top(core[i], P) =>
                m.log[s].req = Selected(P, s).req /\ m.log[s].req # Hole
          /\ \A q \in m.votes[s] : q = i /\ m.log[s].req # Hole

\* It takes over when it recovers,
LEMMA TakesStart ==
    ASSUME Typed, NEW i \in Replica, NEW P, NEW d, GoodCore(d), RecoverTo(core[i], P, d)
    PROVE  Takes(i, P, d)
<1>1. ballot[i] = core[i].ballot /\ leader[i] = core[i].leader /\ executed[i] = core[i].executed
  BY Views
<1>2. /\ d.ballot = ballot[i] /\ d.leader = leader[i] /\ ~d.preparing /\ d.promises = {}
      /\ SameSight(core[i], d)
  BY <1>1 DEF RecoverTo
<1>3. GoodCore(core[i]) BY CoreType
<1>4. ASSUME NEW s \in Slot
      PROVE  /\ s <= executed[i] => /\ d.log[s].req = core[i].log[s].req /\ d.log[s].committed
                                    /\ d.log[s].ballot = core[i].log[s].ballot
             /\ s > executed[i] => ~d.log[s].committed
             /\ s > executed[i] /\ d.log[s].req # Hole => d.log[s].ballot = ballot[i]
             /\ s > executed[i] /\ s <= Top(core[i], P) =>
                   d.log[s].req = Selected(P, s).req /\ d.log[s].req # Hole
             /\ \A q \in d.votes[s] : q = i /\ d.log[s].req # Hole
  <2>1. /\ s <= executed[i] => d.log[s] = core[i].log[s] /\ core[i].log[s].committed
        /\ s > executed[i] => ~d.log[s].committed
        /\ s > Top(core[i], P) => d.log[s].req = Hole
        /\ s > executed[i] /\ s <= Top(core[i], P) =>
              /\ d.log[s].req = Selected(P, s).req /\ d.log[s].req # Hole
              /\ d.log[s].ballot = ballot[i]
        /\ d.votes[s] = {}
    <3>1. Ends(core[i].log, core[i].high, core[i].executed) BY <1>3, CoreIs
    <3> QED BY <1>1, <3>1 DEF RecoverTo, Ends
  <2>2. s \in Int /\ d.high \in Int /\ d.high = Top(core[i], P) BY SlotInt, CoreIs DEF RecoverTo
  <2>3. s > Top(core[i], P) \/ s <= Top(core[i], P) BY <2>2
  <2> QED BY <2>1, <2>3
<1> QED BY <1>2, <1>4 DEF Takes

\* and whatever it then proposes, it has taken over.
LEMMA TakesOn ==
    ASSUME Typed, NEW i \in Replica, NEW P, NEW m, Takes(i, P, m),
           NEW X, \A s \in Slot : X[s] = {i}, NEW d, GoodCore(d), Grows(X, m, d)
    PROVE  /\ Takes(i, P, d)
           /\ \A s \in Slot : m.log[s].req # Hole => d.log[s].req = m.log[s].req
<1>1. /\ d.ballot = ballot[i] /\ d.leader = leader[i] /\ ~d.preparing /\ d.promises = {}
      /\ SameSight(core[i], d)
  BY DEF Takes, Grows, Frame, SameSight
<1>2. ASSUME NEW s \in Slot
      PROVE  /\ m.log[s].req # Hole => d.log[s].req = m.log[s].req
             /\ s <= executed[i] => /\ d.log[s].req = core[i].log[s].req /\ d.log[s].committed
                                    /\ d.log[s].ballot = core[i].log[s].ballot
             /\ s > executed[i] => ~d.log[s].committed
             /\ s > executed[i] /\ d.log[s].req # Hole => d.log[s].ballot = ballot[i]
             /\ s > executed[i] /\ s <= Top(core[i], P) =>
                   d.log[s].req = Selected(P, s).req /\ d.log[s].req # Hole
             /\ \A q \in d.votes[s] : q = i /\ d.log[s].req # Hole
  <2>1. GrowsAt(X, m, d, s) /\ X[s] = {i} BY DEF Grows
  <2>2. /\ s <= executed[i] => /\ m.log[s].req = core[i].log[s].req /\ m.log[s].committed
                               /\ m.log[s].ballot = core[i].log[s].ballot
        /\ s > executed[i] => ~m.log[s].committed
        /\ s > executed[i] /\ m.log[s].req # Hole => m.log[s].ballot = ballot[i]
        /\ s > executed[i] /\ s <= Top(core[i], P) =>
              m.log[s].req = Selected(P, s).req /\ m.log[s].req # Hole
        /\ \A q \in m.votes[s] : q = i /\ m.log[s].req # Hole
        /\ m.ballot = ballot[i]
    BY DEF Takes
  <2>3. m.log[s].req # Hole => /\ d.log[s].req = m.log[s].req
                               /\ d.log[s].ballot = m.log[s].ballot
    BY <2>1 DEF GrowsAt
  <2>4. s <= executed[i] => m.log[s].req # Hole
    <3>1. m.log[s].committed => m.log[s].req # Hole
      <4>1. Solid(m.log[s]) BY CoreIs DEF Takes, Ends
      <4> QED BY <4>1 DEF Solid
    <3> QED BY <2>2, <3>1
  <2>5. s <= executed[i] => /\ d.log[s].req = core[i].log[s].req /\ d.log[s].committed
                            /\ d.log[s].ballot = core[i].log[s].ballot
    BY <2>1, <2>2, <2>3, <2>4 DEF GrowsAt
  <2>6. s > executed[i] => ~d.log[s].committed
    <3> SUFFICES ASSUME s > executed[i], d.log[s].committed PROVE FALSE OBVIOUS
    <3>1. PICK Q \in Quorums : Q \subseteq m.votes[s] \cup X[s] BY <2>1, <2>2 DEF GrowsAt
    <3>2. Q \subseteq {i} BY <2>1, <2>2, <3>1
    <3>3. Cardinality(Q) >= Quorum BY DEF Quorums
    <3> QED BY <3>2, <3>3, NoLoneQuorum
  <2>7. s > executed[i] /\ d.log[s].req # Hole => d.log[s].ballot = ballot[i]
    BY <2>1, <2>2, <2>3 DEF GrowsAt
  <2>8. s > executed[i] /\ s <= Top(core[i], P) =>
           d.log[s].req = Selected(P, s).req /\ d.log[s].req # Hole
    BY <2>2, <2>3
  <2>9. \A q \in d.votes[s] : q = i /\ d.log[s].req # Hole
    BY <2>1, <2>2, <2>3 DEF GrowsAt
  <2> QED BY <2>3, <2>5, <2>6, <2>7, <2>8, <2>9
<1> QED BY <1>1, <1>2 DEF Takes

\* i has taken over from the promises P, with the core d.
TakenOver(i, m, P, d) ==
    /\ Elects(i, m, P) /\ Senders(P) \in Quorums /\ Takes(i, P, d)
    /\ core'[i] = d /\ Alone(i)

\* What a promise reports of a slot that i has not executed.
LEMMA ReportedIs ==
    ASSUME Typed, Shape, Safety, NEW i \in Replica, NEW m \in msgs, NEW P, Elects(i, m, P),
           NEW p \in P, NEW y \in Entries(p.recs), y.slot > executed[i]
    PROVE  /\ y \in Known /\ y \in Line /\ y.slot <= Top(core[i], P)
           /\ \E r \in Known : /\ r.slot = y.slot /\ r.req = Selected(P, y.slot).req
                               /\ r.ballot \in Nat /\ y.ballot \in Nat /\ y.ballot <= r.ballot
<1>1. /\ \A g \in P : g \in Promises /\ g \in Snapshots /\ Ends(g.recs, g.high, -1)
      /\ GoodCore(core[i])
  BY ElectedIs, CoreType
<1>2. P \in SUBSET Snapshots BY <1>1
<1>3. \A g \in P : \A x \in Entries(g.recs) : x \in Known /\ x \in Line
  BY <1>1, InKnown, KnownType
<1> DEFINE s == y.slot
<1>4. s \in Slot /\ p.recs[s].req # Hole /\ y = Entry(s, p.recs[s]) BY InEntries
<1>5. s <= p.high /\ p.high \in Int /\ s \in Int BY <1>1, <1>4, SlotInt, Bounds DEF Ends, Snapshots, Place
<1>6. Top(core[i], P) \in Int /\ p.high <= Top(core[i], P) BY <1>1, <1>2, TopIs
<1>7. s <= Top(core[i], P) BY <1>5, <1>6
<1>8. PICK g \in P : /\ g.recs[s].req # Hole /\ g.recs[s] = Selected(P, s)
                     /\ p.recs[s].ballot <= g.recs[s].ballot
  BY <1>1, <1>2, <1>4, SelectedIs
<1> DEFINE r == Entry(s, g.recs[s])
<1>9. r \in Entries(g.recs) BY <1>4, <1>8, EntryIn
<1>10. /\ r.slot = s /\ r.req = Selected(P, s).req /\ r.ballot = g.recs[s].ballot
       /\ y.ballot = p.recs[s].ballot
  BY <1>4, <1>8, EntryFields
<1> HIDE DEF r
<1>11. r \in Known /\ r.ballot \in Nat /\ y.ballot \in Nat BY <1>3, <1>9, LineTypes
<1> QED BY <1>3, <1>7, <1>8, <1>10, <1>11

\* If a value may have been chosen for s under a, some promise tells of it.
LEMMA ChosenTold ==
    ASSUME Typed, Shape, Safety, NEW i \in Replica, NEW m \in msgs, NEW P, Elects(i, m, P),
           Senders(P) \in Quorums,
           NEW a \in Ballot, a < ballot[i], NEW s \in Slot, s > executed[i], CanChoose(a, s)
    PROVE  \E p \in P : \E y \in Entries(p.recs) : y.slot = s /\ (y.ballot >= a \/ y.committed)
<1>1. PICK S \in Quorums : \A q \in S : ballot[q] <= a \/ Voted(q, a, s) BY DEF CanChoose
<1>2. PICK q \in Senders(P) : q \in S BY QuorumsMeet
<1>3. PICK p \in P : p.from = q BY DEF Senders
<1>4. /\ p \in Promises /\ p.ballot = ballot[i] /\ p.floor = executed[i] + 1
      /\ q \in Replica /\ ballot[q] >= ballot[i]
  BY <1>3, ElectedIs
<1>5. ballot[q] \in Nat /\ a \in Nat /\ ballot[i] \in Nat /\ ballot[i] \in Ballot
  BY <1>4, BallotNat, CoreType
<1>6. Voted(q, a, s) BY <1>1, <1>2, <1>4, <1>5
<1>7. Tells(q, ballot[i], s, a)
  <2>1. ballot[i] > a BY <1>5
  <2> QED BY <1>4, <1>5, <1>6, <2>1 DEF Safety, VoteInv
<1>8. p.floor <= s
  <2>1. executed[i] \in Int /\ s \in Int BY CoreType, CoreIs, Views, SlotInt
  <2> QED BY <1>4, <2>1
<1>9. p \in PromisesOf(q, ballot[i]) BY <1>3, <1>4 DEF PromisesOf
<1> QED BY <1>7, <1>8, <1>9 DEF Tells

\* What may have been chosen is what is selected.
LEMMA ChosenSelected ==
    ASSUME Typed, Shape, Safety, NEW i \in Replica, NEW m \in msgs, NEW P, Elects(i, m, P),
           Senders(P) \in Quorums, NEW z \in Known, z.ballot < ballot[i],
           z.slot > executed[i], CanChoose(z.ballot, z.slot)
    PROVE  z.slot <= Top(core[i], P) /\ z.req = Selected(P, z.slot).req
<1>1. z \in Line /\ z.slot \in Slot /\ z.ballot \in Ballot /\ z.ballot \in Nat
  BY KnownType, LineTypes
<1>2. PICK p \in P : \E y \in Entries(p.recs) :
         y.slot = z.slot /\ (y.ballot >= z.ballot \/ y.committed)
  BY <1>1, ChosenTold
<1>3. PICK y \in Entries(p.recs) : y.slot = z.slot /\ (y.ballot >= z.ballot \/ y.committed)
  BY <1>2
<1>4. y \in Known /\ y.slot <= Top(core[i], P) BY <1>3, ReportedIs
<1>5. PICK r \in Known : /\ r.slot = y.slot /\ r.req = Selected(P, y.slot).req
                         /\ r.ballot \in Nat /\ y.ballot \in Nat /\ y.ballot <= r.ballot
  BY <1>3, ReportedIs
<1>6. ASSUME r.ballot >= z.ballot PROVE r.req = z.req
  <2>1. CASE r.ballot = z.ballot BY <1>3, <1>5, <2>1 DEF Safety, OneValue
  <2>2. CASE r.ballot # z.ballot
    <3>1. z.ballot < r.ballot BY <1>1, <1>5, <1>6, <2>2
    <3> QED BY <1>3, <1>5, <3>1 DEF Safety, Safe
  <2> QED BY <2>1, <2>2
<1>7. CASE y.ballot >= z.ballot
  <2>1. r.ballot >= z.ballot BY <1>1, <1>5, <1>7
  <2> QED BY <1>3, <1>4, <1>5, <1>6, <2>1
<1>8. CASE ~(y.ballot >= z.ballot)
  <2>1. y.committed BY <1>3, <1>8
  <2>2. PICK c \in Ballot, S \in Quorums : c <= y.ballot /\ Lock(y.slot, y.req, c, S)
    BY <1>4, <2>1, LockOf
  <2>3. c \in Nat BY BallotNat
  <2>4. \A x \in Known : x.slot = y.slot /\ x.ballot >= c => x.req = y.req BY <2>2 DEF Lock
  <2>5. r.ballot >= c BY <1>5, <2>2, <2>3
  <2>6. r.req = y.req BY <1>5, <2>4, <2>5
  <2>7. z.ballot >= c BY <1>1, <1>5, <1>8, <2>2, <2>3
  <2>8. z.req = y.req BY <1>3, <2>4, <2>7
  <2> QED BY <1>3, <1>4, <1>5, <2>6, <2>8
<1> QED BY <1>7, <1>8

\* The log that it has then.
LEMMA TakenLog ==
    ASSUME Typed, Shape, NEW i \in Replica, NEW m \in msgs, NEW P, NEW d, TakenOver(i, m, P, d)
    PROVE  /\ ballot'[i] = ballot[i] /\ leader'[i] = leader[i] /\ ~preparing'[i]
           /\ promises'[i] = {} /\ votes'[i] = d.votes /\ log'[i] = Entries(d.log)
           /\ ballot[i] \in Nat /\ executed[i] \in Int /\ Top(core[i], P) \in Int
           /\ \A y \in log[i] : y.slot <= executed[i] =>
                 y.slot \in Slot /\ \E z \in log'[i] :
                    z.slot = y.slot /\ z.req = y.req /\ z.ballot = y.ballot /\ z.committed
           /\ \A s \in Slot : s <= executed[i] =>
                 \E y \in log[i] : y.slot = s /\ y.committed
           /\ \A s \in Slot : s > executed[i] /\ s <= Top(core[i], P) =>
                 \E z \in log'[i] : /\ z.slot = s /\ z.req = Selected(P, s).req
                                    /\ z.ballot = ballot[i]
           /\ \A z \in log'[i] : \/ z \in log[i] /\ z.committed
                                 \/ /\ z.slot > executed[i] /\ z.ballot = ballot[i]
                                    /\ ~z.committed
<1> DEFINE c == core[i]
           h == Top(c, P)
<1>1. /\ GoodCore(c) /\ GoodCore(d) /\ c.log \in [Slot -> Record] /\ d.log \in [Slot -> Record]
      /\ core'[i] = d /\ Takes(i, P, d) /\ ballot[i] \in Nat
  BY CoreType, CoreIs DEF TakenOver, Takes
<1>2. /\ ballot'[i] = ballot[i] /\ leader'[i] = leader[i] /\ ~preparing'[i]
      /\ promises'[i] = {} /\ votes'[i] = d.votes /\ log'[i] = Entries(d.log)
      /\ log[i] = Entries(c.log) /\ executed[i] = c.executed
  BY <1>1, Views, ViewsNext DEF Takes
<1>3. c.executed \in Int /\ h \in Int /\ c.executed <= h
  <2>1. P \in SUBSET Snapshots BY ElectedIs DEF TakenOver
  <2> QED BY <1>1, <2>1, CoreIs, TopIs
<1> HIDE DEF h
<1>4. ASSUME NEW s \in Slot
      PROVE  /\ s <= executed[i] => /\ d.log[s].req = c.log[s].req /\ d.log[s].committed
                                    /\ d.log[s].ballot = c.log[s].ballot
                                    /\ c.log[s].committed /\ c.log[s].req # Hole
             /\ s > executed[i] => ~d.log[s].committed
             /\ s > executed[i] /\ d.log[s].req # Hole => d.log[s].ballot = ballot[i]
             /\ s > executed[i] /\ s <= h =>
                   d.log[s].req = Selected(P, s).req /\ d.log[s].req # Hole
  <2>1. /\ s <= executed[i] => /\ d.log[s].req = c.log[s].req /\ d.log[s].committed
                               /\ d.log[s].ballot = c.log[s].ballot
        /\ s > executed[i] => ~d.log[s].committed
        /\ s > executed[i] /\ d.log[s].req # Hole => d.log[s].ballot = ballot[i]
        /\ s > executed[i] /\ s <= h =>
              d.log[s].req = Selected(P, s).req /\ d.log[s].req # Hole
    BY <1>1 DEF Takes, h
  <2>2. s <= executed[i] => c.log[s].committed /\ c.log[s].req # Hole
    BY <1>1, <1>2, CoreIs DEF Ends, Solid
  <2> QED BY <2>1, <2>2
<1>5. ASSUME NEW y \in log[i], y.slot <= executed[i]
      PROVE  y.slot \in Slot /\ \E z \in log'[i] :
                z.slot = y.slot /\ z.req = y.req /\ z.ballot = y.ballot /\ z.committed
  <2> DEFINE s == y.slot
             z == Entry(s, d.log[s])
  <2>1. s \in Slot /\ c.log[s].req # Hole /\ y = Entry(s, c.log[s]) BY <1>2, InEntries
  <2>2. y.req = c.log[s].req /\ y.ballot = c.log[s].ballot BY <2>1, EntryFields
  <2>3. d.log[s].req # Hole BY <1>4, <1>5, <2>1
  <2>4. z \in log'[i] BY <1>2, <2>1, <2>3, EntryIn
  <2>5. /\ z.slot = s /\ z.req = d.log[s].req /\ z.ballot = d.log[s].ballot
        /\ z.committed = d.log[s].committed
    BY EntryFields
  <2> HIDE DEF z
  <2> QED BY <1>4, <1>5, <2>1, <2>2, <2>4, <2>5
<1>6. ASSUME NEW s \in Slot, s <= executed[i] PROVE \E y \in log[i] : y.slot = s /\ y.committed
  <2>1. c.log[s].committed /\ c.log[s].req # Hole BY <1>4, <1>6
  <2>2. Entry(s, c.log[s]) \in log[i] BY <1>2, <2>1, EntryIn
  <2> QED BY <2>1, <2>2, EntryFields
<1>7. ASSUME NEW s \in Slot, s > executed[i], s <= h
      PROVE  \E z \in log'[i] : /\ z.slot = s /\ z.req = Selected(P, s).req
                                /\ z.ballot = ballot[i]
  <2> DEFINE z == Entry(s, d.log[s])
  <2>1. d.log[s].req = Selected(P, s).req /\ d.log[s].req # Hole /\ d.log[s].ballot = ballot[i]
    BY <1>4, <1>7
  <2>2. z \in log'[i] BY <1>2, <2>1, EntryIn
  <2>3. z.slot = s /\ z.req = d.log[s].req /\ z.ballot = d.log[s].ballot BY EntryFields
  <2> HIDE DEF z
  <2> QED BY <2>1, <2>2, <2>3
<1>8. ASSUME NEW z \in log'[i]
      PROVE  \/ z \in log[i] /\ z.committed
             \/ z.slot > executed[i] /\ z.ballot = ballot[i] /\ ~z.committed
  <2> DEFINE s == z.slot
  <2>1. s \in Slot /\ d.log[s].req # Hole /\ z = Entry(s, d.log[s]) BY <1>2, InEntries
  <2>2. z.ballot = d.log[s].ballot /\ z.committed = d.log[s].committed BY <2>1, EntryFields
  <2>3. s \in Int BY <2>1, SlotInt
  <2>4. CASE s <= executed[i]
    <3>1. /\ d.log[s].req = c.log[s].req /\ d.log[s].ballot = c.log[s].ballot
          /\ d.log[s].committed /\ c.log[s].committed /\ c.log[s].req # Hole
      BY <1>4, <2>1, <2>4
    <3>2. c.log[s].committed = d.log[s].committed
      <4>1. c.log[s] \in Record /\ d.log[s] \in Record BY <1>1, <2>1
      <4> QED BY <3>1, <4>1 DEF Record
    <3>3. z = Entry(s, c.log[s]) BY <2>1, <3>1, <3>2 DEF Entry
    <3>4. z \in log[i] BY <1>2, <2>1, <3>1, <3>3, EntryIn
    <3> QED BY <2>2, <3>1, <3>4
  <2>5. CASE ~(s <= executed[i])
    <3>1. s > executed[i] BY <1>2, <1>3, <2>3, <2>5
    <3> QED BY <1>4, <2>1, <2>2, <3>1
  <2> QED BY <2>4, <2>5
<1> QED BY <1>1, <1>2, <1>3, <1>5, <1>6, <1>7, <1>8 DEF h

\* A slot that it leaves open cannot have been chosen.
LEMMA OpenUnchosen ==
    ASSUME Typed, Shape, Safety, NEW i \in Replica, NEW m \in msgs, NEW P, NEW d,
           TakenOver(i, m, P, d),
           NEW a \in Ballot, a < ballot[i], NEW s \in Slot, \A y \in log'[i] : y.slot # s
    PROVE  ~CanChoose(a, s)
<1>1. /\ executed[i] \in Int /\ Top(core[i], P) \in Int
      /\ \A y \in log[i] : y.slot <= executed[i] =>
            \E z \in log'[i] : z.slot = y.slot
      /\ s <= executed[i] => \E y \in log[i] : y.slot = s
      /\ s > executed[i] /\ s <= Top(core[i], P) => \E z \in log'[i] : z.slot = s
  BY TakenLog
<1>2. s \in Int BY SlotInt
<1>3. ~(s <= executed[i]) BY <1>1
<1>4. s > executed[i] BY <1>1, <1>2, <1>3
<1>5. ~(s <= Top(core[i], P)) BY <1>1, <1>4
<1> SUFFICES ASSUME CanChoose(a, s) PROVE FALSE OBVIOUS
<1>6. PICK p \in P : \E y \in Entries(p.recs) : y.slot = s BY <1>4, ChosenTold DEF TakenOver
<1>7. PICK y \in Entries(p.recs) : y.slot = s BY <1>6
<1>8. y.slot <= Top(core[i], P)
  <2>1. y.slot > executed[i] BY <1>4, <1>7
  <2> QED BY <2>1, ReportedIs DEF TakenOver
<1> QED BY <1>5, <1>7, <1>8

\* A value that a majority has locked is taken over.
LEMMA LockTaken ==
    ASSUME Typed, Shape, Safety, NEW i \in Replica, NEW m \in msgs, NEW P, NEW d,
           TakenOver(i, m, P, d),
           NEW a \in Ballot, a < ballot[i], NEW s \in Slot, NEW v, NEW S \in Quorums,
           Lock(s, v, a, S)
    PROVE  \E y \in log'[i] : y.slot = s /\ y.req = v
<1>1. /\ executed[i] \in Int /\ ballot[i] \in Nat
      /\ \A y \in log[i] : y.slot <= executed[i] =>
            \E z \in log'[i] : z.slot = y.slot /\ z.req = y.req
      /\ s <= executed[i] => \E y \in log[i] : y.slot = s /\ y.committed
      /\ s > executed[i] /\ s <= Top(core[i], P) =>
            \E z \in log'[i] : z.slot = s /\ z.req = Selected(P, s).req
  BY TakenLog
<1>2. s \in Int /\ a \in Nat BY SlotInt, BallotNat
<1>3. CASE s <= executed[i]
  <2>1. PICK y \in log[i] : y.slot = s /\ y.committed BY <1>1, <1>3
  <2>2. y \in Known BY InKnown
  <2>3. PICK c \in Ballot, T \in Quorums : Lock(s, y.req, c, T) BY <2>1, <2>2, LockOf
  <2>4. y.req = v BY <2>3, LocksAgree
  <2> QED BY <1>1, <1>3, <2>1, <2>4
<1>4. CASE s > executed[i]
  <2>1. PICK q \in Senders(P) : q \in S BY QuorumsMeet DEF TakenOver
  <2>2. PICK p \in P : p.from = q BY DEF Senders
  <2>3. p \in Promises /\ p.ballot = ballot[i] /\ p.floor = executed[i] + 1 /\ ballot[i] \in Ballot
    BY <2>2, ElectedIs, CoreType DEF TakenOver
  <2>4. Reports(q, ballot[i], s, a)
    <3>1. ballot[i] > a BY <1>1, <1>2
    <3> QED BY <2>1, <2>3, <3>1 DEF Lock
  <2>5. p.floor <= s BY <1>1, <1>2, <1>4, <2>3
  <2>6. p \in PromisesOf(q, ballot[i]) BY <2>2, <2>3 DEF PromisesOf
  <2>7. PICK y \in Entries(p.recs) : y.slot = s /\ y.ballot >= a BY <2>4, <2>5, <2>6 DEF Reports
  <2>8. y.slot > executed[i] BY <1>4, <2>7
  <2>9. y.slot <= Top(core[i], P) BY <2>8, ReportedIs DEF TakenOver
  <2>10. PICK r \in Known : /\ r.slot = y.slot /\ r.req = Selected(P, y.slot).req
                            /\ r.ballot \in Nat /\ y.ballot \in Nat /\ y.ballot <= r.ballot
    BY <2>8, ReportedIs DEF TakenOver
  <2>11. r.ballot >= a BY <1>2, <2>7, <2>10
  <2>12. r.req = v BY <2>7, <2>10, <2>11 DEF Lock
  <2> QED BY <1>1, <1>4, <2>7, <2>9, <2>10, <2>12
<1> QED BY <1>1, <1>2, <1>3, <1>4

\* The takeover is the one that the invariants speak of.
LEMMA TakesOver ==
    ASSUME Typed, Shape, Safety, NEW i \in Replica, NEW m \in msgs, NEW P, NEW d,
           TakenOver(i, m, P, d)
    PROVE  TookOver(i)
<1>1. ballot'[i] = ballot[i] /\ ~preparing'[i] BY TakenLog
<1>2. Owner(ballot[i]) = i /\ \A p \in P : ballot[p.from] >= ballot[i]
  BY ElectedIs DEF TakenOver
<1>3. Elected(ballot[i])
  <2>1. Senders(P) \in Quorums BY DEF TakenOver
  <2>2. \A q \in Senders(P) : ballot[q] >= ballot[i] BY <1>2 DEF Senders
  <2> QED BY <2>1, <2>2 DEF Elected
<1>4. preparing[i] BY DEF TakenOver, Elects
<1>5. ASSUME NEW s \in Slot, NEW b \in Ballot, b < ballot[i], \A y \in log'[i] : y.slot # s
      PROVE  ~CanChoose(b, s)
  BY <1>5, OpenUnchosen
<1>6. ASSUME NEW s \in Slot, NEW v \in Value, NEW b \in Ballot, NEW Q \in Quorums,
             b < ballot[i], Lock(s, v, b, Q)
      PROVE  \E y \in log'[i] : y.slot = s /\ y.req = v
  BY <1>6, LockTaken
<1> QED BY <1>1, <1>2, <1>3, <1>4, <1>5, <1>6 DEF TookOver

\* What it proposes of the slots that it has not executed may be proposed.
LEMMA TakesDerives ==
    ASSUME Typed, Shape, Safety, NEW i \in Replica, NEW m \in msgs, NEW P, NEW d,
           TakenOver(i, m, P, d), NEW k, Takes(i, P, k), NEW s \in Slot, s > executed[i],
           k.log[s].req # Hole, d.log[s].req = k.log[s].req
    PROVE  Derived(i, k, s)
<1>1. TookOver(i) BY TakesOver
<1>2. log'[i] = Entries(d.log) BY TakenLog
<1>3. /\ ~k.log[s].committed
      /\ s <= Top(core[i], P) => k.log[s].req = Selected(P, s).req
  BY DEF Takes
<1>4. Elects(i, m, P) /\ Senders(P) \in Quorums BY DEF TakenOver
<1>5. Entry(s, d.log[s]) \in log'[i] /\ Entry(s, d.log[s]).slot = s
      /\ Entry(s, d.log[s]).req = k.log[s].req
  BY <1>2, EntryIn, EntryFields
<1>6. ASSUME NEW z \in Known, z.slot = s, z.ballot < ballot[i], CanChoose(z.ballot, z.slot)
      PROVE  z.req = k.log[s].req
  <2>1. z.slot <= Top(core[i], P) /\ z.req = Selected(P, z.slot).req
    BY <1>4, <1>6, ChosenSelected
  <2> QED BY <1>3, <1>6, <2>1
<1>7. ASSUME NEW r, r.req = k.log[s].req, r.ballot = ballot[i], r.committed => k.log[s].committed
      PROVE  Entry(s, r) \in Known \/ Made(Entry(s, r))
  <2>1. PICK x : x = Entry(s, r) OBVIOUS
  <2>2. x.slot = s /\ x.req = k.log[s].req /\ x.ballot = ballot[i] /\ ~x.committed
    BY <1>3, <1>7, <2>1, EntryFields
  <2>3. \E y \in log'[i] : y.slot = x.slot /\ y.req = x.req BY <1>5, <2>2
  <2>4. \A y \in Known :
           y.slot = x.slot /\ y.ballot < x.ballot /\ CanChoose(y.ballot, y.slot) => y.req = x.req
    BY <1>6, <2>2
  <2>5. Adopted(x) BY <1>1, <2>2, <2>3, <2>4 DEF Adopted
  <2> QED BY <2>1, <2>5 DEF Made
<1> QED BY <1>7 DEF Derived

\* The log that is taken over keeps the slots of the one before.
LEMMA TakesLogStep ==
    ASSUME Typed, Shape, Safety, NEW i \in Replica, NEW m \in msgs, NEW P, NEW d,
           TakenOver(i, m, P, d)
    PROVE  LogStep(i)
<1>1. /\ ballot'[i] = ballot[i] /\ log'[i] = Entries(d.log)
      /\ ballot[i] \in Nat /\ executed[i] \in Int /\ Top(core[i], P) \in Int
  BY TakenLog
<1>2. /\ \A y \in log[i] : y.slot <= executed[i] =>
            \E z \in log'[i] : z.slot = y.slot /\ z.req = y.req /\ z.ballot = y.ballot /\ z.committed
      /\ \A s \in Slot : s > executed[i] /\ s <= Top(core[i], P) =>
            \E z \in log'[i] : z.slot = s /\ z.ballot = ballot[i]
      /\ \A z \in log'[i] : \/ z \in log[i] /\ z.committed
                            \/ z.slot > executed[i] /\ z.ballot = ballot[i] /\ ~z.committed
  BY TakenLog
<1>3. \A y \in log[i] : y.slot \in Slot /\ y.slot \in Int /\ y.ballot \in Nat /\ y.ballot <= ballot[i]
  <2>1. \A y \in log[i] : y \in Line BY CoreType
  <2>2. \A y \in log[i] : y.slot \in Slot /\ y.ballot \in Nat BY <2>1, LineTypes
  <2>3. \A y \in log[i] : y.ballot <= ballot[i] BY DEF Shape, LogShape, GoodLog
  <2> QED BY <2>2, <2>3, SlotInt
<1>4. Takes(i, P, d) /\ Elects(i, m, P) BY DEF TakenOver
<1>5. preparing[i] BY <1>4 DEF Elects
<1>6. GoodLog(i)'
  <2>1. \A x \in log'[i] : x.ballot <= ballot'[i] BY <1>1, <1>2, <1>3
  <2>2. \A x \in log'[i] : x.ballot = ballot'[i] \/ x.committed BY <1>1, <1>2
  <2> QED BY <2>1, <2>2 DEF GoodLog
<1>7. KeepsLog(i)
  <2> SUFFICES ASSUME NEW y \in log[i]
               PROVE  \E z \in log'[i] :
                         /\ z.slot = y.slot /\ z.ballot >= y.ballot
                         /\ y.committed => z.committed \/ z.ballot = ballot'[i]
                         /\ Leading(i) => z.req = y.req
    BY DEF KeepsLog
  <2>1. CASE y.slot <= executed[i]
    <3>1. PICK z \in log'[i] : z.slot = y.slot /\ z.req = y.req /\ z.ballot = y.ballot /\ z.committed
      BY <1>2, <2>1
    <3>2. z.ballot >= y.ballot BY <1>3, <3>1
    <3> QED BY <3>1, <3>2
  <2>2. CASE y.slot > executed[i]
    <3>1. PICK p \in P : OwnPromise(i, p) BY <1>4, ElectedIs
    <3>2. p.floor = executed[i] + 1 BY <1>4, ElectedIs
    <3>3. y.slot >= p.floor BY <1>1, <1>3, <2>2, <3>2
    <3>4. y \in Entries(p.recs) BY <3>1, <3>3 DEF OwnPromise
    <3>5. y.slot <= Top(core[i], P) BY <1>4, <2>2, <3>4, ReportedIs
    <3>6. PICK z \in log'[i] : z.slot = y.slot /\ z.ballot = ballot[i] BY <1>2, <1>3, <2>2, <3>5
    <3>7. z.ballot >= y.ballot /\ z.ballot = ballot'[i] BY <1>1, <1>3, <3>6
    <3>8. ~Leading(i) BY <1>5 DEF Leading
    <3> QED BY <3>6, <3>7, <3>8
  <2> QED BY <1>1, <1>3, <2>1, <2>2
<1>8. ASSUME NEW x \in log'[i] PROVE x \in Known \/ Made(x)
  <2>1. CASE x \in log[i] BY <2>1, InKnown
  <2>2. CASE x.slot > executed[i] /\ x.ballot = ballot[i] /\ ~x.committed
    <3>1. PICK s : s = x.slot OBVIOUS
    <3>2. s \in Slot /\ d.log[s].req # Hole /\ x = Entry(s, d.log[s]) BY <1>1, <3>1, InEntries
    <3>3. d.log[s].ballot = ballot[i] /\ s > executed[i] BY <2>2, <3>1, <3>2, EntryFields
    <3>4. Derived(i, d, s) BY <1>4, <3>2, <3>3, TakesDerives
    <3> QED BY <3>2, <3>3, <3>4 DEF Derived
  <2> QED BY <1>2, <2>1, <2>2
<1> QED BY <1>6, <1>7, <1>8 DEF LogStep

\* It counts no votes but its own.
LEMMA TakesCounts ==
    ASSUME Typed, Shape, Safety, NEW i \in Replica, NEW m \in msgs, NEW P, NEW d,
           TakenOver(i, m, P, d)
    PROVE  Counts(i)
<1>1. /\ ballot'[i] = ballot[i] /\ ~preparing'[i] /\ log'[i] = Entries(d.log)
      /\ votes'[i] = d.votes /\ ballot[i] \in Nat
  BY TakenLog
<1>2. \A z \in log'[i] : z.committed \/ z.ballot = ballot[i] BY TakenLog
<1>3. \A s \in Slot : \A q \in d.votes[s] : q = i /\ d.log[s].req # Hole
  BY DEF TakenOver, Takes
<1> SUFFICES ASSUME NEW q \in Replica, NEW b \in Ballot, NEW s \in Slot,
                    ballot'[i] = b, i = Owner(b), q \in votes'[i][s]
             PROVE  FreshVote(q, b, s)
  BY DEF Counts
<1>4. q = i /\ d.log[s].req # Hole BY <1>1, <1>3
<1>5. PICK z : z = Entry(s, d.log[s]) OBVIOUS
<1>6. z \in log'[i] /\ z.slot = s BY <1>1, <1>4, <1>5, EntryIn, EntryFields
<1>7. z.ballot >= b \/ z.committed BY <1>1, <1>2, <1>6
<1>8. Led(b)' BY <1>1 DEF Led
<1> QED BY <1>1, <1>4, <1>6, <1>7, <1>8 DEF FreshVote

\* The takeover keeps the parts of the invariants that concern i.
LEMMA TakesParts ==
    ASSUME Typed, Shape, Safety, NEW i \in Replica, NEW m \in msgs, NEW P, NEW d,
           TakenOver(i, m, P, d)
    PROVE  /\ Alone(i) /\ GoodCore(core'[i])
           /\ Role(i) /\ LogStep(i) /\ Counts(i) /\ Collects(i) /\ Recovers(i)
           /\ Rules(i) /\ promises'[i] \subseteq Promises
<1>1. /\ ballot'[i] = ballot[i] /\ leader'[i] = leader[i] /\ ~preparing'[i]
      /\ promises'[i] = {} /\ ballot[i] \in Nat
  BY TakenLog
<1>2. Alone(i) /\ core'[i] = d /\ GoodCore(d) /\ Elects(i, m, P) BY DEF TakenOver, Takes
<1>3. preparing[i] BY <1>2 DEF Elects
<1>4. Owner(ballot[i]) = i BY <1>2, ElectedIs
<1>5. leader[i] = Owner(ballot[i]) BY DEF Shape, Leads
<1>6. Role(i) BY <1>1, <1>3, <1>5, TakesOver DEF Role, Leading
<1>7. Collects(i) /\ Recovers(i) BY <1>1 DEF Collects, Recovers
<1>8. Rules(i) BY <1>1, <1>4 DEF Rules
<1> QED BY <1>1, <1>2, <1>6, <1>7, <1>8, TakesLogStep, TakesCounts

\* From the recovered core to the core at the end of the turn.
LEMMA SuffixTakes ==
    ASSUME Typed, NEW i \in Replica, NEW P, NEW r, Takes(i, P, r), NEW e, Configured(e)
    PROVE  /\ Takes(i, P, Relabelled(r, e)) /\ Takes(i, P, SentSuffix(i, r, e))
           /\ \A s \in Slot : r.log[s].req # Hole =>
                 /\ Relabelled(r, e).log[s].req = r.log[s].req
                 /\ SentSuffix(i, r, e).log[s].req = r.log[s].req
<1> DEFINE X == [s \in Slot |-> {i}]
<1>1. \A s \in Slot : X[s] = {i} /\ i \in X[s] OBVIOUS
<1> HIDE DEF X
<1>2. GoodCore(r) BY DEF Takes
<1>3. GoodCore(Relabelled(r, e)) /\ Grows(X, r, Relabelled(r, e)) BY <1>2, RelabelledIs
<1>4. GoodCore(SentSuffix(i, r, e)) /\ Grows(X, r, SentSuffix(i, r, e))
  BY <1>1, <1>2, SentSuffixIs
<1>5. \A s \in Slot : X[s] = {i} BY <1>1
<1>6. /\ Takes(i, P, Relabelled(r, e))
      /\ \A s \in Slot : r.log[s].req # Hole => Relabelled(r, e).log[s].req = r.log[s].req
  <2>1. PICK k : k = Relabelled(r, e) OBVIOUS
  <2>2. GoodCore(k) /\ Grows(X, r, k) BY <1>3, <2>1
  <2>3. Takes(i, P, k) BY <1>5, <2>2, TakesOn
  <2>4. \A s \in Slot : r.log[s].req # Hole => k.log[s].req = r.log[s].req
    BY <2>2 DEF Grows, GrowsAt
  <2> QED BY <2>1, <2>3, <2>4
<1>7. /\ Takes(i, P, SentSuffix(i, r, e))
      /\ \A s \in Slot : r.log[s].req # Hole => SentSuffix(i, r, e).log[s].req = r.log[s].req
  BY <1>4, <1>5, TakesOn
<1> QED BY <1>6, <1>7

\* Nothing is decided in that turn.
LEMMA TakesNothing ==
    ASSUME Typed, NEW i \in Replica, NEW P, NEW r, Takes(i, P, r), NEW g, Takes(i, P, g)
    PROVE  Newly(r, g) = {}
<1>1. \A s \in Slot : s <= executed[i] => r.log[s].committed BY DEF Takes
<1>2. \A s \in Slot : s > executed[i] => ~g.log[s].committed BY DEF Takes
<1>3. executed[i] \in Int
  <2>1. GoodCore(core[i]) BY CoreType
  <2> QED BY <2>1, CoreIs, Views
<1>4. \A s \in Slot : s <= executed[i] \/ s > executed[i] BY <1>3, SlotInt
<1> QED BY <1>1, <1>2, <1>4 DEF Newly

\* Filling the log executes nothing.
LEMMA FillExecuted ==
    ASSUME NEW c, GoodCore(c), NEW e PROVE FillCatchup(c, e).executed = c.executed
<1>1. c \in Core BY DEF GoodCore
<1> QED BY <1>1 DEF FillCatchup, Core

\* What it has when it has recovered from P, filled its log and noted its end.
Starts(i, P, e, r, f) ==
    /\ Takes(i, P, r) /\ Takes(i, P, f) /\ r.executed = executed[i]
    /\ f.log = r.log /\ Configured(e)
\* The recovery leads to such a core.
LEMMA StartIs ==
    ASSUME Typed, Shape, Eras, NEW i \in Replica, NEW m \in msgs, NEW P, Elects(i, m, P),
           NEW e, e = lease[i].promisedBy,
           NEW r, r = FillCatchup(Recovered(core[i], P), e),
           NEW f, f = [r EXCEPT !.recoveryEnd = r.high]
    PROVE  Starts(i, P, e, r, f)
<1> DEFINE X == [s \in Slot |-> {i}]
<1>1. \A s \in Slot : X[s] = {i} OBVIOUS
<1> HIDE DEF X
<1>2. Configured(e) /\ e \in 0..MaxEpoch
  <2>1. Configured(e) BY EraIs
  <2> QED BY <2>1, EpochIs
<1>3. P \in SUBSET Snapshots /\ \A p \in P : Ends(p.recs, p.high, -1) BY ElectedIs
<1>4. GoodCore(core[i]) BY CoreType
<1>5. PICK a : a = Recovered(core[i], P) OBVIOUS
<1>6. GoodCore(a) /\ RecoverTo(core[i], P, a) BY <1>3, <1>4, <1>5, RecoveredIs
<1>7. Takes(i, P, a) BY <1>6, TakesStart
<1>8. GoodCore(r) /\ Grows(X, a, r) BY <1>2, <1>5, <1>6, FillCatchupIs
<1>9. Takes(i, P, r) BY <1>1, <1>7, <1>8, TakesOn
<1>10. r.executed = executed[i]
  <2>1. r.executed = a.executed BY <1>5, <1>6, FillExecuted
  <2>2. a.executed = core[i].executed BY <1>6 DEF RecoverTo
  <2> QED BY <2>1, <2>2, Views
<1>11. r.high \in Place BY <1>8, CoreIs
<1>12. GoodCore(f) /\ Still(r, f) BY <1>8, <1>11, EndIs
<1>13. Grows(X, r, f) BY <1>12, StillGrows
<1>14. Takes(i, P, f) BY <1>1, <1>9, <1>12, <1>13, TakesOn
<1> QED BY <1>2, <1>9, <1>10, <1>12, <1>14 DEF Starts, Still

\* The records that it offers are those it has taken over.
LEMMA TakenSuffix ==
    ASSUME Typed, Shape, Safety, NEW i \in Replica, NEW m \in msgs, NEW P, NEW d,
           TakenOver(i, m, P, d), NEW e, NEW r, NEW f, Starts(i, P, e, r, f),
           \A s \in Slot : f.log[s].req # Hole => d.log[s].req = f.log[s].req
    PROVE  Sends(i, SuffixSends(i, r, e)) /\ \A x \in SuffixSends(i, r, e) : x.kind # "Promise"
<1>1. Takes(i, P, r) /\ Configured(e) /\ f.log = r.log /\ r.executed = executed[i] /\ GoodCore(r)
  BY DEF Starts, Takes
<1>2. PICK k : k = Relabelled(r, e) OBVIOUS
<1>3. PICK g : g = SentSuffix(i, r, e) OBVIOUS
<1>4. /\ Takes(i, P, k) /\ Takes(i, P, g)
      /\ \A s \in Slot : r.log[s].req # Hole => k.log[s].req = r.log[s].req
  BY <1>1, <1>2, <1>3, SuffixTakes
<1>5. Newly(r, g) = {} BY <1>1, <1>4, TakesNothing
<1>6. Commits(i, Others(i), g, Newly(r, g)) = {} BY <1>5 DEF Commits
<1>7. PICK S : S = Suffix(r) OBVIOUS
<1>8. S \in SUBSET Slot /\ \A s \in S : r.log[s].req # Hole BY <1>1, <1>7, SuffixIs
<1>9. \A s \in S : s > executed[i]
  <2>1. r.executed \in Int /\ r.high \in Int BY <1>1, CoreIs
  <2> QED BY <1>1, <1>7, <2>1 DEF Suffix
<1>10. SuffixSends(i, r, e) = Offers(i, k, S, e)
  BY <1>2, <1>3, <1>6, <1>7 DEF SuffixSends
<1>11. \A s \in S : k.log[s].req # Hole /\ d.log[s].req = k.log[s].req BY <1>1, <1>4, <1>8
<1>12. \A s \in S : Derived(i, k, s) BY <1>4, <1>8, <1>9, <1>11, TakesDerives
<1>13. GoodCore(k) /\ k.ballot = ballot[i] BY <1>4 DEF Takes
<1>14. \A x \in Offers(i, k, S, e) : RecordPacket(i, k, x) /\ x.slot \in S
  BY <1>1, <1>8, <1>11, <1>13, OffersAre
<1>15. Rules(i) BY TakesParts
<1> QED BY <1>10, <1>12, <1>14, <1>15, RecordSends

\* It ends with d and sends the suffix, and R.
Finishes(i, e, r, f, d, R) ==
    /\ \A s \in Slot : f.log[s].req # Hole => d.log[s].req = f.log[s].req
    /\ R = {} \/ R = Ready(i, d)
    /\ Carried(SuffixSends(i, r, e) \cup R)
\* The takeover is a good turn.
LEMMA TakenTurn ==
    ASSUME Typed, Shape, Safety, Eras, NEW i \in Replica, NEW m \in msgs, NEW P, NEW d,
           TakenOver(i, m, P, d), NEW e, NEW r, NEW f, Starts(i, P, e, r, f),
           NEW R, Finishes(i, e, r, f, d, R)
    PROVE  GoodTurn(i) /\ SameEra(i, core'[i])
<1>0. /\ \A s \in Slot : f.log[s].req # Hole => d.log[s].req = f.log[s].req
      /\ R = {} \/ R = Ready(i, d)
      /\ Carried(SuffixSends(i, r, e) \cup R)
  BY DEF Finishes
<1>1. /\ Alone(i) /\ GoodCore(core'[i])
      /\ Role(i) /\ LogStep(i) /\ Counts(i) /\ Collects(i) /\ Recovers(i)
      /\ Rules(i) /\ promises'[i] \subseteq Promises
  BY TakesParts
<1>2. Sends(i, SuffixSends(i, r, e)) /\ \A x \in SuffixSends(i, r, e) : x.kind # "Promise"
  BY <1>0, TakenSuffix
<1>3. core'[i] = d /\ GoodCore(d) /\ d.ballot = ballot[i] /\ SameSight(core[i], d)
  BY DEF TakenOver, Takes
<1>4. Sends(i, R) /\ \A x \in R : x.kind # "Promise"
  <2>1. CASE R = {} BY <2>1 DEF Sends
  <2>2. CASE R = Ready(i, d) BY <1>1, <1>3, <2>2, ReadySends
  <2> QED BY <1>0, <2>1, <2>2
<1>5. PICK M : M = SuffixSends(i, r, e) \cup R OBVIOUS
<1>6. Sends(i, M) /\ \A x \in M : x.kind # "Promise" BY <1>2, <1>4, <1>5, SendsBoth
<1>7. Snaps(i, M) BY <1>1, <1>6, NoSnap
<1>8. Effect(i, M) BY <1>0, <1>5, <1>6, <1>7 DEF Effect
<1>9. SameEra(i, core'[i])
  <2>1. core[i].suspected \subseteq Replica \ {i} BY DEF Eras, EraOf
  <2> QED BY <1>3, <2>1 DEF SameSight, SameEra
<1> QED BY <1>1, <1>8, <1>9 DEF GoodTurn

\* A Promise is kept, or completes the majority that the candidate takes over from.
LEMMA TurnPromise ==
    ASSUME Invariants, NEW i \in Replica, NEW m \in msgs, m.to = i, ReceivePromise(i, m)
    PROVE  GoodTurn(i) /\ SameEra(i, core'[i])
<1>1. Typed /\ Shape /\ Safety /\ Eras BY DEF Invariants
<1>2. PICK P : P = core[i].promises \cup {m} OBVIOUS
<1>3. PICK e : e = lease[i].promisedBy OBVIOUS
<1>4. PICK r : r = FillCatchup(Recovered(core[i], P), e) OBVIOUS
<1>5. PICK f : f = [r EXCEPT !.recoveryEnd = r.high] OBVIOUS
<1>6. PICK d : d = SentSuffix(i, f, e) OBVIOUS
<1>7. PICK g : g = IF d.executed >= d.recoveryEnd THEN Activate(d) ELSE d OBVIOUS
<1>8. PICK R : R = IF d.executed >= d.recoveryEnd THEN Ready(i, Activate(d)) ELSE {} OBVIOUS
<1>9. /\ m.kind = "Promise" /\ m.ballot = core[i].ballot /\ core[i].preparing
      /\ core[i].leader = i /\ m.floor = core[i].executed + 1
  BY Zenon DEF ReceivePromise
<1>10. IF Cardinality(P) < Quorum
       THEN Only(i, [core[i] EXCEPT !.promises = P]) /\ UNCHANGED msgs
       ELSE Only(i, g) /\ Send(SuffixSends(i, r, e) \cup R)
  BY <1>2, <1>3, <1>4, <1>5, <1>6, <1>7, <1>8, Zenon DEF ReceivePromise
<1>11. Elects(i, m, P) BY <1>2, <1>9, Views DEF Elects
<1>12. CASE Cardinality(P) < Quorum BY <1>1, <1>10, <1>11, <1>12, CollectTurn
<1>13. CASE ~(Cardinality(P) < Quorum)
  <2>1. Only(i, g) /\ Send(SuffixSends(i, r, e) \cup R) BY <1>10, <1>13
  <2>2. Starts(i, P, e, r, f) BY <1>1, <1>3, <1>4, <1>5, <1>11, StartIs
  <2>3. Takes(i, P, f) /\ Configured(e) BY <2>2 DEF Starts
  <2>4. /\ Takes(i, P, d)
        /\ \A s \in Slot : f.log[s].req # Hole => d.log[s].req = f.log[s].req
    BY <1>1, <1>6, <2>3, SuffixTakes
  <2>5. GoodCore(d) BY <2>4 DEF Takes
  <2>6. PICK a : a = Activate(d) OBVIOUS
  <2>7. GoodCore(a) /\ Still(d, a) BY <2>5, <2>6, ActivateIs
  <2>8. Takes(i, P, a)
    <3> DEFINE X == [s \in Slot |-> {i}]
    <3>1. \A s \in Slot : X[s] = {i} OBVIOUS
    <3> HIDE DEF X
    <3>2. Grows(X, d, a) BY <2>7, StillGrows
    <3> QED BY <1>1, <2>4, <2>7, <3>1, <3>2, TakesOn
  <2>9. a.log = d.log BY <2>7 DEF Still
  <2>10. /\ Takes(i, P, g)
         /\ \A s \in Slot : f.log[s].req # Hole => g.log[s].req = f.log[s].req
    BY <1>7, <2>4, <2>6, <2>8, <2>9
  <2>11. R = {} \/ R = Ready(i, g) BY <1>7, <1>8
  <2>12. core'[i] = g /\ Alone(i) BY <1>1, <2>1, OnlyIs
  <2>13. Senders(P) \in Quorums BY <1>1, <1>11, <1>13, SendersElect
  <2>14. TakenOver(i, m, P, g) BY <1>11, <2>10, <2>12, <2>13 DEF TakenOver
  <2>15. Carried(SuffixSends(i, r, e) \cup R) BY <2>1, SendIs
  <2>16. Finishes(i, e, r, f, g, R) BY <2>10, <2>11, <2>15 DEF Finishes
  <2> QED BY <1>1, <2>2, <2>14, <2>16, TakenTurn
<1> QED BY <1>12, <1>13
-----------------------------------------------------------------------------
(***************************************************************************)
(* The eras.                                                               *)
(***************************************************************************)
\* A replica whose lease stays.
LEMMA EraSame ==
    ASSUME Eras, NEW j \in Replica, SameEra(j, core'[j]), lease'[j] = lease[j],
           basis'[j] = basis[j], now' = now, configs' = configs
    PROVE  EraOf(j)'
<1>1. EraOf(j) BY DEF Eras
<1> QED BY <1>1 DEF EraOf, SameEra, Live

\* The replicas whose turn it is not.
LEMMA EraOthers ==
    ASSUME Typed, Eras, NEW i \in Replica, Alone(i), now' = now, configs' = configs,
           \A j \in Replica \ {i} : lease'[j] = lease[j] /\ basis'[j] = basis[j],
           NEW j \in Replica, j # i
    PROVE  EraOf(j)'
<1>1. core'[j] = core[j] BY OthersSame
<1>2. SameEra(j, core'[j])
  <2>1. EraOf(j) BY DEF Eras
  <2> QED BY <1>1, <2>1 DEF EraOf, SameEra
<1> QED BY <1>2, EraSame

\* A turn that changes no lease and learns nothing.
LEMMA ErasCore ==
    ASSUME Typed, Eras, NEW i \in Replica, Alone(i), SameEra(i, core'[i]),
           UNCHANGED <<lease, configs, proposed, now, world, basis>>
    PROVE  Eras'
<1>1. \A j \in Replica : EraOf(j)'
  <2> TAKE j \in Replica
  <2>1. CASE j = i BY <2>1, EraSame
  <2>2. CASE j # i BY <2>2, EraOthers
  <2> QED BY <2>1, <2>2
<1> QED BY <1>1 DEF Eras

\* A replica learns the next configuration.
LEMMA ErasLearn ==
    ASSUME Typed, Eras, NEW i \in Replica, Alone(i),
           core'[i].latestEpoch = core[i].latestEpoch + 1, core'[i].suspected = core[i].suspected,
           Learn(i) \/ \E ch \in proposed : Decide(i, ch)
    PROVE  Eras'
<1>1. /\ configs \in Seq(Policy) /\ Len(configs) \in Nat /\ Len(configs) <= MaxEpoch
      /\ proposed \subseteq Policy
  BY DEF Eras
<1>2. core[i].latestEpoch \in Genesis..Len(configs) /\ core[i].latestEpoch \in Int
      /\ core[i].latestEpoch >= 1
  <2>1. EraOf(i) BY DEF Eras
  <2> QED BY <1>1, <2>1 DEF EraOf, Genesis
<1>3. /\ configs' \in Seq(Policy) /\ Len(configs') \in Nat /\ Len(configs') <= MaxEpoch
      /\ Len(configs) <= Len(configs') /\ core[i].latestEpoch + 1 <= Len(configs')
      /\ proposed' \subseteq Policy
  <2>1. CASE Learn(i)
    <3>1. configs' = configs /\ proposed' = proposed /\ core[i].latestEpoch < Len(configs)
      BY <2>1 DEF Learn
    <3> QED BY <1>1, <1>2, <3>1
  <2>2. ASSUME NEW ch \in proposed, Decide(i, ch)
        PROVE  /\ configs' \in Seq(Policy) /\ Len(configs') \in Nat /\ Len(configs') <= MaxEpoch
               /\ Len(configs) <= Len(configs') /\ core[i].latestEpoch + 1 <= Len(configs')
               /\ proposed' \subseteq Policy
    <3>1. PICK prev : prev = configs[Len(configs)] OBVIOUS
    <3>2. prev \in Policy BY <1>1, <1>2, <3>1
    <3>3. ch \in Policy BY <1>1
    <3>4. PICK new : new = [leader |-> ch.leader, excluded |-> prev.excluded \cup ch.excluded,
                            holders |-> IF ch.holders = {} THEN prev.holders ELSE ch.holders]
      OBVIOUS
    <3>5. new \in Policy BY <3>2, <3>3, <3>4 DEF Policy
    <3>6. /\ configs' = Append(configs, new) /\ proposed' = proposed \ {ch}
          /\ core[i].latestEpoch = Len(configs) /\ Len(configs) < MaxEpoch
      BY <2>2, <3>1, <3>4 DEF Decide
    <3>7. configs' \in Seq(Policy) /\ Len(configs') = Len(configs) + 1 BY <1>1, <3>5, <3>6
    <3> QED BY <1>1, <1>2, <3>6, <3>7, Bounds
  <2> QED BY <2>1, <2>2
<1>4. UNCHANGED <<lease, now, world, basis>> BY DEF Learn, Decide
<1>5. \A j \in Replica : EraOf(j)'
  <2> TAKE j \in Replica
  <2>1. EraOf(j) BY DEF Eras
  <2>2. /\ core'[j].latestEpoch \in Int /\ core[j].latestEpoch \in Int
        /\ core'[j].latestEpoch <= Len(configs') /\ core[j].latestEpoch <= core'[j].latestEpoch
        /\ core'[j].suspected = core[j].suspected
    <3>1. core[j].latestEpoch \in Int /\ core[j].latestEpoch <= Len(configs)
      BY <1>1, <2>1 DEF EraOf, Genesis
    <3>2. CASE j = i BY <1>2, <1>3, <3>2
    <3>3. CASE j # i
      <4>1. core'[j] = core[j] BY <3>3, OthersSame
      <4> QED BY <1>1, <1>3, <3>1, <4>1
    <3> QED BY <3>2, <3>3
  <2>3. lease'[j] = lease[j] /\ basis'[j] = basis[j] /\ now' = now BY <1>4
  <2>4. /\ lease[j].promisedBy \in Genesis..core[j].latestEpoch
        /\ lease[j].promisedTo \in {-1} \cup (Genesis..core[j].latestEpoch)
        /\ core[j].latestEpoch \in Genesis..Len(configs)
    BY <2>1 DEF EraOf
  <2>5. /\ lease[j].promisedBy \in Genesis..core'[j].latestEpoch
        /\ lease[j].promisedTo \in {-1} \cup (Genesis..core'[j].latestEpoch)
        /\ core'[j].latestEpoch \in Genesis..Len(configs')
    BY <1>1, <1>3, <2>2, <2>4 DEF Genesis
  <2> QED BY <2>1, <2>2, <2>3, <2>5 DEF EraOf, Live
<1> QED BY <1>1, <1>3, <1>4, <1>5 DEF Eras

-----------------------------------------------------------------------------
(***************************************************************************)
(* The ticks and the lease packets.                                        *)
(***************************************************************************)
\* The changes that a replica proposes.
LEMMA ChangesAre ==
    ASSUME Typed, Eras, LeaseInv, NEW i \in Replica, NEW due, NEW new \in Changes(i, due)
    PROVE  new \subseteq Policy
<1>1. Suspects(i, due) \subseteq Replica BY SuspicionType
<1>2. Latest(i).excluded \subseteq Replica
  <2>1. Configured(core[i].latestEpoch) BY EraIs
  <2>2. configs[core[i].latestEpoch] \in Policy BY <2>1, EpochIs
  <2> QED BY <2>2 DEF Latest, Policy
<1>3. \A mask \in Observed(i) : mask \subseteq Replica
  BY DEF Observed, kSubset
<1> DEFINE c == core[i]
           susp == Suspects(i, due)
           settle == {[leader |-> i, excluded |-> susp, holders |-> {}] :
                         x \in {y \in {i} : /\ c.leader = i /\ "config" \in due
                                            /\ ~(susp \subseteq Latest(i).excluded)
                                                \/ Latest(i).leader # i}}
           observe == IF c.leader = i /\ "holders" \in due
                      THEN {{[leader |-> i, excluded |-> Latest(i).excluded, holders |-> mask]} :
                               mask \in Observed(i)}
                      ELSE {}
<1>4. new = {} \/ new = settle \/ \E o \in observe : new = settle \cup o
  BY Zenon DEF Changes
<1>5. settle \subseteq Policy BY <1>1 DEF Policy
<1>6. \A o \in observe : o \subseteq Policy BY <1>2, <1>3 DEF Policy
<1> HIDE DEF settle, observe
<1> QED BY <1>4, <1>5, <1>6

\* What the leases keep.
SameCatchup(l, d) == d.catchup = l.catchup /\ d.frontiers = l.frontiers
\* Granting, guarding and replying leave the barrier.
LEMMA CatchupKept ==
    ASSUME NEW l, LeaseShape(l)
    PROVE  /\ \A P, t : SameCatchup(l, TickLease(l, P, t))
           /\ \A m, t : SameCatchup(l, OnGuardAck(l, m, t))
           /\ \A m, t : SameCatchup(l, OnReply(l, m, t))
           /\ \A m, t : SameCatchup(l, OnGuard(l, m, t))
BY DEF LeaseShape, SameCatchup, TickLease, Obliged, OnGuardAck, OnReply, OnGuard

\* A lease in its era.
EraLease(i, l, c, B) ==
    /\ l.promisedBy \in Genesis..c.latestEpoch
    /\ l.promisedTo \in {-1} \cup (Genesis..c.latestEpoch)
    /\ l.catchup \in Place /\ l.frontiers \in [Replica -> Place]
    /\ B \subseteq Live(l, now)
Bases(i, B) == /\ basis'[i] = B /\ DOMAIN basis' = Replica
               /\ \A j \in Replica \ {i} : basis'[j] = basis[j]
\* A turn that changes the lease of i within its era.
LEMMA ErasLease ==
    ASSUME Typed, Eras, LeaseInv, NEW i \in Replica, Alone(i), SameEra(i, core'[i]),
           NEW l, lease' = [lease EXCEPT ![i] = l], NEW B, Bases(i, B),
           EraLease(i, l, core[i], B), UNCHANGED <<configs, now, world>>, proposed' \subseteq Policy
    PROVE  Eras'
<1>2. DOMAIN lease = Replica BY DEF LeaseInv, Shapes
<1>3. /\ lease'[i] = l /\ basis'[i] = B /\ DOMAIN basis' = Replica
      /\ \A j \in Replica \ {i} : lease'[j] = lease[j] /\ basis'[j] = basis[j]
  BY <1>2 DEF Bases
<1>4. \A j \in Replica : EraOf(j)'
  <2> TAKE j \in Replica
  <2>1. CASE j = i
    <3>1. EraOf(i) BY DEF Eras
    <3> QED BY <1>3, <2>1, <3>1 DEF EraOf, EraLease, SameEra, Live
  <2>2. CASE j # i BY <1>3, <2>2, EraOthers
  <2> QED BY <2>1, <2>2
<1> QED BY <1>3, <1>4 DEF Eras

\* A lease whose promises and whose promised epoch stay.
LEMMA EraKept ==
    ASSUME Eras, NEW i \in Replica, NEW l, SameHolder(lease[i], l), SameCatchup(lease[i], l),
           l.promisedBy \in Genesis..core[i].latestEpoch
    PROVE  EraLease(i, l, core[i], basis[i])
<1>1. EraOf(i) BY DEF Eras
<1> QED BY <1>1 DEF EraOf, EraLease, SameHolder, SameCatchup, Live

\* A tick renews grants, begins the next era once the last one ran out, and proposes changes.
LEMMA ErasTick ==
    ASSUME Typed, Eras, LeaseInv, NEW i \in Replica, Alone(i), SameEra(i, core'[i]),
           NEW due, Maintain(i, due)
    PROVE  Eras'
<1>1. PICK l : l = TickLease(Switched(i), Grantees(i, due), now) OBVIOUS
<1>2. /\ lease' = [lease EXCEPT ![i] = l] /\ UNCHANGED <<configs, now, world, basis>>
      /\ \E new \in Changes(i, due) : proposed' = proposed \cup new
  BY <1>1, Zenon DEF Maintain
<1>3. proposed' \subseteq Policy
  <2>1. PICK new \in Changes(i, due) : proposed' = proposed \cup new BY <1>2
  <2>2. new \subseteq Policy BY ChangesAre
  <2> QED BY <2>1, <2>2 DEF Eras
<1>4. /\ LeaseShape(Switched(i)) /\ SameHolder(lease[i], Switched(i))
      /\ Switched(i).promisedBy \in Genesis..core[i].latestEpoch
      /\ SameCatchup(lease[i], Switched(i))
  BY SwitchedIs DEF SameCatchup
<1>5. now \in Int BY DEF Eras
<1>6. SameHolder(Switched(i), l) /\ l.promisedBy = Switched(i).promisedBy
  BY <1>1, <1>4, <1>5, TickFields
<1>7. SameCatchup(Switched(i), l) BY <1>1, <1>4, CatchupKept
<1>8. EraLease(i, l, core[i], basis[i])
  <2>1. SameHolder(lease[i], l) BY <1>4, <1>6 DEF SameHolder
  <2>2. SameCatchup(lease[i], l) BY <1>4, <1>7 DEF SameCatchup
  <2> QED BY <1>4, <1>6, <2>1, <2>2, EraKept
<1>9. Bases(i, basis[i]) BY <1>2 DEF Bases, Eras
<1> QED BY <1>2, <1>3, <1>8, <1>9, ErasLease

-----------------------------------------------------------------------------
\* The promises that a barrier is computed from.
LEMMA LongestIs ==
    ASSUME NEW l, NEW t \in Int, NEW n \in Int, l.latestPromises \in [Replica -> Int],
           \A p \in Replica : l.latestPromises[p] <= n, Cardinality(Live(l, t)) >= N \div 2
    PROVE  Longest(l, t) # {} /\ Longest(l, t) \subseteq Live(l, t) /\ Longest(l, t) \subseteq Replica
<1>1. Live(l, t) \subseteq Replica BY DEF Live
<1>2. Replica \subseteq Nat BY NAssumption DEF Replica
<1>3. N \div 2 >= 1 BY HalfOfN
<1>4. Live(l, t) # {}
  <2>1. SUFFICES ASSUME Live(l, t) = {} PROVE FALSE OBVIOUS
  <2>2. Cardinality(Live(l, t)) = 0 BY <2>1, FS_EmptySet
  <2>3. N \div 2 \in Int BY HalfOfN
  <2> QED BY <1>3, <2>2, <2>3
<1>5. PICK S : S = {l.latestPromises[p] : p \in Live(l, t)} OBVIOUS
<1>6. S \in SUBSET Int /\ S # {} /\ \A x \in S : x <= n BY <1>1, <1>4, <1>5
<1>7. Max(S) \in S /\ \A y \in S : Max(S) >= y BY <1>6, MaxIs
<1>8. PICK T : T = {p \in Live(l, t) : l.latestPromises[p] = Max(S)} OBVIOUS
<1>9. T \in SUBSET Nat /\ T # {} BY <1>1, <1>2, <1>5, <1>7, <1>8
<1>10. PICK p \in T : \A q \in T : p <= q BY <1>9, Smallest
<1>11. {q \in Live(l, t) : \/ l.latestPromises[q] > l.latestPromises[p]
                           \/ l.latestPromises[q] = l.latestPromises[p] /\ q < p} = {}
  <2> SUFFICES ASSUME NEW q \in Live(l, t),
                      \/ l.latestPromises[q] > l.latestPromises[p]
                      \/ l.latestPromises[q] = l.latestPromises[p] /\ q < p
               PROVE  FALSE
    OBVIOUS
  <2>1. l.latestPromises[p] = Max(S) /\ l.latestPromises[q] \in S BY <1>5, <1>8
  <2>2. Max(S) \in Int /\ l.latestPromises[q] \in Int /\ Max(S) >= l.latestPromises[q]
    BY <1>1, <1>6, <1>7, <2>1
  <2>3. l.latestPromises[q] = Max(S) /\ q < p BY <2>1, <2>2
  <2>4. q \in T /\ q \in Nat /\ p \in Nat BY <1>1, <1>2, <1>8, <1>9, <2>3
  <2> QED BY <1>10, <2>3, <2>4
<1>12. p \in Longest(l, t)
  <2>1. Cardinality({}) = 0 BY FS_EmptySet
  <2>2. 0 < N \div 2 BY <1>3, HalfOfN
  <2>3. p \in Live(l, t) BY <1>8
  <2> QED BY <1>11, <2>1, <2>2, <2>3 DEF Longest
<1> QED BY <1>1, <1>12 DEF Longest

\* The barrier is a place in the log.
LEMMA ActivatedIs ==
    ASSUME NEW l, LeaseShape(l), NEW t \in Int, NEW n \in Int,
           \A p \in Replica : l.latestPromises[p] <= n,
           l.catchup \in Place, l.frontiers \in [Replica -> Place]
    PROVE  /\ Activated(l, t).catchup \in Place
           /\ Activated(l, t).frontiers = l.frontiers
           /\ Activated(l, t).latestPromises = l.latestPromises
           /\ Activated(l, t).promisedTo = l.promisedTo
           /\ Activated(l, t).promisedBy = l.promisedBy
           /\ Activates(l, t) => Longest(l, t) \subseteq Live(l, t)
<1>1. CASE Activates(l, t)
  <2>1. /\ Longest(l, t) # {} /\ Longest(l, t) \subseteq Live(l, t) /\ Longest(l, t) \subseteq Replica
    BY <1>1, LongestIs DEF Activates, LeaseShape
  <2>2. PICK S : S = {l.frontiers[p] : p \in Longest(l, t)} OBVIOUS
  <2>3. S \in SUBSET Place /\ S # {} BY <2>1, <2>2
  <2>4. S \in SUBSET Int /\ MaxSlot \in Int /\ \A x \in S : x <= MaxSlot
    BY <2>3, Bounds DEF Place
  <2>5. Max(S) \in S BY <2>3, <2>4, MaxIs
  <2>6. PICK h : h = Max(S) OBVIOUS
  <2>7. h \in Place BY <2>3, <2>5, <2>6
  <2>8. Activated(l, t) = [l EXCEPT !.complete = TRUE, !.catchup = h]
    BY <1>1, <2>2, <2>6 DEF Activated
  <2> QED BY <2>1, <2>7, <2>8 DEF LeaseShape
<1>2. CASE ~Activates(l, t) BY <1>2 DEF Activated
<1> QED BY <1>1, <1>2

\* What a holder keeps of a promise.
LEMMA PromisedIs ==
    ASSUME NEW l, LeaseShape(l), NEW m, m.from \in Replica, m.stamp \in Nat \ {0},
           m.epoch \in Int, NEW t \in Int, m.epoch >= l.promisedTo,
           m.frontier \in Place, l.catchup \in Place, l.frontiers \in [Replica -> Place],
           NEW p, p = Promised(l, m, t)
    PROVE  /\ LeaseShape(p) /\ p.promisedTo = m.epoch /\ p.promisedBy = l.promisedBy
           /\ p.catchup \in Place /\ p.frontiers \in [Replica -> Place]
           /\ \A q \in Replica : p.latestPromises[q] = IF q = m.from THEN t + LeaseDuration
                       ELSE IF m.epoch > l.promisedTo THEN 0 ELSE l.latestPromises[q]
<1> DEFINE a == Advanced(l, m.epoch)
           q == m.from
           new == {x \in l.ackTimes[q] \cup {[stamp |-> m.stamp, at |-> t]} :
                      t - x.at <= FailureGrace + GuardDuration + LeaseDuration}
<1>1. /\ LeaseShape(a) /\ a.promisedBy = l.promisedBy /\ a.promisedTo = m.epoch
      /\ a.ackTimes = l.ackTimes /\ a.catchup \in Place /\ a.frontiers \in [Replica -> Place]
      /\ \A j \in Replica : a.latestPromises[j] =
             IF m.epoch > l.promisedTo THEN 0 ELSE l.latestPromises[j]
  <2>1. CASE m.epoch > l.promisedTo
    <3>1. /\ DOMAIN a = DOMAIN l /\ SameGrantor(l, a) /\ a.promisedTo = m.epoch
          /\ a.receivedGuard = l.receivedGuard /\ a.guardExpires = l.guardExpires
          /\ a.receivedSequence = l.receivedSequence /\ a.ackTimes = l.ackTimes
          /\ a.latestPromises = ToAll(0) /\ a.catchup = -1 /\ a.frontiers = ToAll(-1)
      BY <2>1 DEF Advanced, LeaseShape, SameGrantor
    <3>2. ToAll(0) \in [Replica -> Int] /\ \A j \in Replica : ToAll(0)[j] = 0 BY DEF ToAll
    <3>3. -1 \in Place /\ ToAll(-1) \in [Replica -> Place] BY Bounds DEF ToAll, Place
    <3> HIDE DEF a
    <3>4. LeaseShape(a) BY <3>1, <3>2 DEF LeaseShape, SameGrantor
    <3> QED BY <2>1, <3>1, <3>2, <3>3, <3>4 DEF SameGrantor
  <2>2. CASE ~(m.epoch > l.promisedTo)
    <3>1. a = l /\ m.epoch = l.promisedTo BY <2>2 DEF Advanced, LeaseShape
    <3> QED BY <2>2, <3>1
  <2> QED BY <2>1, <2>2
<1>2. new \in SUBSET [stamp : Nat \ {0}, at : Int] BY DEF LeaseShape
<1>3. /\ DOMAIN p = DOMAIN a /\ SameGrantor(a, p) /\ p.promisedTo = a.promisedTo
      /\ p.receivedGuard = a.receivedGuard /\ p.guardExpires = a.guardExpires
      /\ p.receivedSequence = [a.receivedSequence EXCEPT ![q] = m.stamp]
      /\ p.latestPromises = [a.latestPromises EXCEPT ![q] = t + LeaseDuration]
      /\ p.ackTimes = [a.ackTimes EXCEPT ![q] = new]
      /\ p.catchup = a.catchup /\ p.frontiers = [a.frontiers EXCEPT ![q] = m.frontier]
  <2> HIDE DEF a
  <2>1. p = [a EXCEPT !.receivedSequence[q] = m.stamp,
                      !.latestPromises[q] = t + LeaseDuration,
                      !.frontiers[q] = m.frontier,
                      !.ackTimes[q] = {x \in @ \cup {[stamp |-> m.stamp, at |-> t]} :
                         t - x.at <= FailureGrace + GuardDuration + LeaseDuration}]
    BY DEF a, Promised
  <2> QED BY <1>1, <2>1 DEF LeaseShape, SameGrantor
<1> HIDE DEF a, new
<1>4. LeaseShape(p) BY <1>1, <1>2, <1>3, DurationAssumption DEF LeaseShape, SameGrantor
<1>5. \A j \in Replica : p.latestPromises[j] =
         IF j = m.from THEN t + LeaseDuration
         ELSE IF m.epoch > l.promisedTo THEN 0 ELSE l.latestPromises[j]
  BY <1>1, <1>3 DEF LeaseShape
<1>6. p.frontiers \in [Replica -> Place] BY <1>1, <1>3
<1> QED BY <1>1, <1>3, <1>4, <1>5, <1>6 DEF SameGrantor

\* A lease promise is taken, or refused.
LEMMA ErasPromised ==
    ASSUME Typed, Shape, Eras, LeaseInv, NEW i \in Replica, NEW m \in msgs,
           ReceiveLeasePromise(i, m), Alone(i), SameEra(i, core'[i])
    PROVE  Eras'
<1>1. PICK l : l = lease[i] OBVIOUS
<1>2. PICK p : p = Promised(l, m, now) OBVIOUS
<1>3. PICK d : d = OnPromise(l, m, now) OBVIOUS
<1>4. PICK B : B = IF m.epoch < l.promisedTo THEN basis[i]
                   ELSE IF Activates(p, now) THEN Longest(p, now)
                   ELSE IF m.epoch > l.promisedTo THEN {} ELSE basis[i]
  OBVIOUS
<1>5. /\ m.kind = "LeasePromise" /\ m.epoch <= core[i].latestEpoch /\ Admissible(l, m, now)
      /\ lease' = [lease EXCEPT ![i] = d] /\ basis' = [basis EXCEPT ![i] = B]
      /\ UNCHANGED <<configs, proposed, now, world>>
  BY <1>1, <1>2, <1>3, <1>4, Zenon DEF ReceiveLeasePromise, Keeps
<1>6. LeaseShape(l) /\ PacketShape(m) /\ DOMAIN basis = Replica
  BY <1>1 DEF LeaseInv, Shapes, Eras
<1>7. /\ m.from \in Replica /\ m.stamp \in Nat /\ m.epoch \in Int
      /\ m.epoch \in Genesis..MaxEpoch /\ m.frontier \in Place
  BY <1>5, <1>6 DEF PacketShape, LeaseKind, Typed, GoodMessage, Carries
<1>8. m.stamp \in Nat \ {0}
  <2>1. m.stamp > l.receivedSequence[m.from] /\ l.receivedSequence[m.from] \in Nat
    BY <1>5, <1>6, <1>7 DEF Admissible, LeaseShape
  <2> QED BY <1>7, <2>1
<1>9. now \in Int /\ now \in Nat /\ LeaseDuration \in Nat \ {0} BY DurationAssumption DEF Eras
<1>10. /\ l.promisedBy \in Genesis..core[i].latestEpoch
       /\ l.promisedTo \in {-1} \cup (Genesis..core[i].latestEpoch)
       /\ l.catchup \in Place /\ l.frontiers \in [Replica -> Place] /\ basis[i] \subseteq Live(l, now)
       /\ core[i].latestEpoch \in Genesis..MaxEpoch
  BY <1>1, EraIs DEF Eras, EraOf
<1>11. Bases(i, B) BY <1>5, <1>6 DEF Bases
<1>12. EraLease(i, d, core[i], B)
  <2>1. CASE m.epoch < l.promisedTo
    <3>1. d = l /\ B = basis[i] BY <1>3, <1>4, <2>1 DEF OnPromise
    <3> QED BY <1>10, <3>1 DEF EraLease
  <2>2. CASE ~(m.epoch < l.promisedTo)
    <3>1. m.epoch >= l.promisedTo BY <1>6, <1>7, <2>2 DEF LeaseShape
    <3>2. /\ LeaseShape(p) /\ p.promisedTo = m.epoch /\ p.promisedBy = l.promisedBy
          /\ p.catchup \in Place /\ p.frontiers \in [Replica -> Place]
          /\ \A q \in Replica : p.latestPromises[q] = IF q = m.from THEN now + LeaseDuration
                      ELSE IF m.epoch > l.promisedTo THEN 0 ELSE l.latestPromises[q]
      BY <1>2, <1>6, <1>7, <1>8, <1>9, <1>10, <3>1, PromisedIs
    <3>3. PICK n : n = now + LeaseDuration OBVIOUS
    <3>4. \A q \in Replica : l.latestPromises[q] <= n
      BY <1>1, <3>3 DEF LeaseInv, LeasePair, Horizons
    <3>5. n \in Int /\ \A q \in Replica : p.latestPromises[q] <= n
      BY <1>9, <3>2, <3>3, <3>4
    <3>6. d = Activated(p, now) BY <1>2, <1>3, <2>2 DEF OnPromise
    <3>7. /\ d.catchup \in Place /\ d.frontiers = p.frontiers /\ d.latestPromises = p.latestPromises
          /\ d.promisedTo = p.promisedTo /\ d.promisedBy = p.promisedBy
          /\ Activates(p, now) => Longest(p, now) \subseteq Live(p, now)
      BY <1>9, <3>2, <3>5, <3>6, ActivatedIs
    <3>8. Live(d, now) = Live(p, now) BY <3>7 DEF Live
    <3>9. B \subseteq Live(p, now)
      <4>1. CASE Activates(p, now) BY <1>4, <2>2, <3>7, <4>1
      <4>2. CASE ~Activates(p, now) /\ m.epoch > l.promisedTo BY <1>4, <2>2, <4>2
      <4>3. CASE ~Activates(p, now) /\ ~(m.epoch > l.promisedTo)
        <5>1. B = basis[i] BY <1>4, <2>2, <4>3
        <5>2. \A q \in Live(l, now) : q \in Live(p, now)
          <6> TAKE q \in Live(l, now)
          <6>1. q \in Replica /\ now < l.latestPromises[q] BY DEF Live
          <6>2. now < p.latestPromises[q] BY <1>9, <3>2, <4>3, <6>1
          <6> QED BY <6>1, <6>2 DEF Live
        <5> QED BY <1>10, <5>1, <5>2
      <4> QED BY <4>1, <4>2, <4>3
    <3>10. m.epoch \in Genesis..core[i].latestEpoch
      BY <1>5, <1>7, <1>10, Bounds DEF Genesis
    <3> QED BY <1>10, <3>2, <3>7, <3>8, <3>9, <3>10 DEF EraLease
  <2> QED BY <2>1, <2>2
<1>13. proposed' \subseteq Policy BY <1>5 DEF Eras
<1> QED BY <1>5, <1>11, <1>12, <1>13, ErasLease

\* The other lease packets change no promise that was received, and no epoch.
LEMMA ErasPacket ==
    ASSUME Typed, Eras, LeaseInv, NEW i \in Replica, NEW m \in msgs,
           ReceiveGuard(i, m) \/ ReceiveGuardAck(i, m) \/ ReceiveLeaseReply(i, m),
           Alone(i), SameEra(i, core'[i])
    PROVE  Eras'
<1>1. PICK l : l = lease[i] OBVIOUS
<1>2. LeaseShape(l) /\ PacketShape(m) /\ DOMAIN basis = Replica /\ now \in Int
  BY <1>1 DEF LeaseInv, Shapes, Eras
<1>3. m.from \in Replica BY DEF Typed, GoodMessage
<1>4. m.stamp \in Nat
  BY <1>2 DEF PacketShape, LeaseKind, ReceiveGuard, ReceiveGuardAck, ReceiveLeaseReply
<1>5. l.promisedBy \in Genesis..core[i].latestEpoch
  BY <1>1 DEF Eras, EraOf
<1>6. \E d : /\ lease' = [lease EXCEPT ![i] = d] /\ d.promisedTo = l.promisedTo
             /\ d.promisedBy = l.promisedBy /\ SameCatchup(l, d)
             /\ d.latestPromises = l.latestPromises
             /\ UNCHANGED <<configs, proposed, now, world, basis>>
  <2>1. CASE ReceiveGuard(i, m)
    <3>1. PICK d : d = OnGuard(l, m, now) OBVIOUS
    <3>2. lease' = [lease EXCEPT ![i] = d] /\ UNCHANGED <<configs, proposed, now, world, basis>>
      BY <1>1, <2>1, <3>1 DEF ReceiveGuard, Keeps
    <3>3. SameGrantor(l, d) /\ d.promisedTo = l.promisedTo /\ d.latestPromises = l.latestPromises
      BY <1>2, <1>3, <1>4, <3>1, GuardFields
    <3>4. SameCatchup(l, d) BY <1>2, <3>1, CatchupKept
    <3> QED BY <3>2, <3>3, <3>4 DEF SameGrantor
  <2>2. CASE ReceiveGuardAck(i, m)
    <3>1. PICK d : d = OnGuardAck(l, m, now) OBVIOUS
    <3>2. lease' = [lease EXCEPT ![i] = d] /\ UNCHANGED <<configs, proposed, now, world, basis>>
      BY <1>1, <2>2, <3>1 DEF ReceiveGuardAck, Keeps
    <3>3. SameHolder(l, d) /\ d.promisedBy = l.promisedBy BY <1>2, <1>3, <3>1, GuardAckFields
    <3>4. SameCatchup(l, d) BY <1>2, <3>1, CatchupKept
    <3> QED BY <3>2, <3>3, <3>4 DEF SameHolder
  <2>3. CASE ReceiveLeaseReply(i, m)
    <3>1. PICK d : d = OnReply(l, m, now) OBVIOUS
    <3>2. lease' = [lease EXCEPT ![i] = d] /\ UNCHANGED <<configs, proposed, now, world, basis>>
      BY <1>1, <2>3, <3>1 DEF ReceiveLeaseReply, Keeps
    <3>3. SameHolder(l, d) /\ d.promisedBy = l.promisedBy BY <1>2, <1>3, <1>4, <3>1, ReplyFields
    <3>4. SameCatchup(l, d) BY <1>2, <3>1, CatchupKept
    <3> QED BY <3>2, <3>3, <3>4 DEF SameHolder
  <2> QED BY <2>1, <2>2, <2>3
<1>7. PICK d : /\ lease' = [lease EXCEPT ![i] = d] /\ d.promisedTo = l.promisedTo
               /\ d.promisedBy = l.promisedBy /\ SameCatchup(l, d)
               /\ d.latestPromises = l.latestPromises
               /\ UNCHANGED <<configs, proposed, now, world, basis>>
  BY <1>6
<1>8. EraLease(i, d, core[i], basis[i])
  <2>1. EraOf(i) BY DEF Eras
  <2> QED BY <1>1, <1>7, <2>1 DEF EraOf, EraLease, SameCatchup, Live
<1>9. Bases(i, basis[i]) BY <1>2, <1>7 DEF Bases
<1>10. proposed' \subseteq Policy BY <1>7 DEF Eras
<1> QED BY <1>7, <1>8, <1>9, <1>10, ErasLease

\* Time passes.
LEMMA ErasElapse ==
    ASSUME Eras, LeaseInv, Elapse
    PROVE  Eras'
<1>1. /\ now' = now + 1 /\ now < world.until
      /\ basis' = [i \in Replica |-> basis[i] \cap Live(lease[i], now + 1)]
      /\ UNCHANGED <<core, lease, configs, proposed, world>>
  BY DEF Elapse
<1>2. world.until \in 1..MaxTime BY WorldAssumption DEF LeaseInv, Shapes
<1>3. now \in 1..MaxTime BY DEF Eras
<1>4. now' <= world'.until /\ now' \in 1..MaxTime BY <1>1, <1>2, <1>3, Bounds
<1>5. \A i \in Replica : EraOf(i)'
  <2> TAKE i \in Replica
  <2>1. EraOf(i) BY DEF Eras
  <2>2. basis'[i] \subseteq Live(lease[i], now') BY <1>1
  <2> QED BY <1>1, <2>1, <2>2 DEF EraOf, Live
<1> QED BY <1>1, <1>4, <1>5 DEF Eras
-----------------------------------------------------------------------------
(***************************************************************************)
(* Every step keeps the invariants.                                        *)
(***************************************************************************)
\* A turn that changes no lease.
LEMMA PlainTurn ==
    ASSUME Invariants, NEW i \in Replica, GoodTurn(i), SameEra(i, core'[i]),
           UNCHANGED <<lease, configs, proposed, now, world, basis>>
    PROVE  Typed' /\ Shape' /\ Safety' /\ Eras'
<1>1. Typed /\ Shape /\ Safety /\ Eras /\ Alone(i) BY DEF Invariants, GoodTurn
<1>2. Typed' /\ Shape' /\ Safety' BY <1>1, TurnKeeps
<1>3. Eras' BY <1>1, ErasCore
<1> QED BY <1>2, <1>3

\* A packet that arrives.
LEMMA PacketKeeps ==
    ASSUME Invariants, NEW m \in msgs, Receive(m.to, m)
    PROVE  Typed' /\ Shape' /\ Safety' /\ Eras'
<1>1. Typed /\ Shape /\ Safety /\ Eras /\ LeaseInv BY DEF Invariants
<1>2. PICK i : i = m.to OBVIOUS
<1>3. i \in Replica BY <1>1, <1>2 DEF Typed, GoodMessage
<1>4. CASE \/ ReceiveGuard(i, m) \/ ReceiveGuardAck(i, m)
           \/ ReceiveLeasePromise(i, m) \/ ReceiveLeaseReply(i, m)
  <2>1. GoodTurn(i) /\ UNCHANGED core BY <1>3, <1>4, TurnLease
  <2>2. SameEra(i, core'[i])
    <3>1. EraOf(i) BY <1>1, <1>3 DEF Eras
    <3> QED BY <2>1, <3>1 DEF EraOf, SameEra
  <2>3. Alone(i) BY <2>1 DEF GoodTurn
  <2>4. Typed' /\ Shape' /\ Safety' BY <1>1, <1>3, <2>1, TurnKeeps
  <2>5. Eras' BY <1>1, <1>3, <1>4, <2>2, <2>3, ErasPromised, ErasPacket
  <2> QED BY <2>4, <2>5
<1>5. CASE \/ ReceivePrepare(i, m) \/ ReceivePromise(i, m) \/ ReceiveAccept(i, m)
           \/ ReceiveAck(i, m) \/ ReceiveCommit(i, m) \/ ReceiveReady(i, m)
           \/ ReceiveFetch(i, m) \/ ReceiveForward(i, m) \/ ReceiveForwardReply(i, m)
  <2>1. UNCHANGED <<lease, configs, proposed, now, world, basis>>
    BY <1>5 DEF ReceivePrepare, ReceivePromise, ReceiveAccept, ReceiveAck, ReceiveCommit,
         ReceiveReady, ReceiveFetch, ReceiveForward, ReceiveForwardReply
  <2>2. m.to = i BY <1>2
  <2>3. GoodTurn(i) /\ SameEra(i, core'[i])
    <3>1. CASE ReceivePrepare(i, m) BY <1>3, <2>2, <3>1, TurnPrepare
    <3>2. CASE ReceivePromise(i, m) BY <1>3, <2>2, <3>2, TurnPromise
    <3>3. CASE ReceiveAccept(i, m) BY <1>3, <2>2, <3>3, TurnAccept
    <3>4. CASE ReceiveAck(i, m) BY <1>3, <3>4, TurnAck
    <3>5. CASE ReceiveCommit(i, m) BY <1>3, <2>2, <3>5, TurnCommit
    <3>6. CASE ReceiveReady(i, m) BY <1>3, <2>2, <3>6, TurnReady
    <3>7. CASE ReceiveFetch(i, m) BY <1>3, <2>2, <3>7, TurnFetch, TurnFetchEarly
    <3>8. CASE ReceiveForward(i, m) BY <1>3, <3>8, TurnForward
    <3>9. CASE ReceiveForwardReply(i, m) BY <1>3, <3>9, TurnForwardReply
    <3> QED BY <1>5, <3>1, <3>2, <3>3, <3>4, <3>5, <3>6, <3>7, <3>8, <3>9
  <2> QED BY <1>3, <2>1, <2>3, PlainTurn
<1> QED BY <1>2, <1>4, <1>5 DEF Receive

\* A tick.
LEMMA TickKeeps ==
    ASSUME Invariants, NEW i \in Replica, NEW due,
           TickBegin(i, due) \/ TickFollow(i, due) \/ TickLead(i, due)
    PROVE  Typed' /\ Shape' /\ Safety' /\ Eras'
<1>1. Typed /\ Shape /\ Safety /\ Eras /\ LeaseInv BY DEF Invariants
<1>2. GoodTurn(i) /\ SameEra(i, core'[i]) BY TurnBegin, TurnFollow, TurnLead
<1>3. Maintain(i, due)
  <2>1. CASE TickBegin(i, due) BY <2>1 DEF TickBegin
  <2>2. CASE TickFollow(i, due) BY <2>2 DEF TickFollow
  <2>3. CASE TickLead(i, due) BY <2>3 DEF TickLead
  <2> QED BY <2>1, <2>2, <2>3
<1>4. Alone(i) BY <1>2 DEF GoodTurn
<1>5. Eras' BY <1>1, <1>2, <1>3, <1>4, ErasTick
<1> QED BY <1>1, <1>2, <1>5, TurnKeeps

\* Every step.
LEMMA NextKeeps == ASSUME Invariants, Next PROVE Typed' /\ Shape' /\ Safety' /\ Eras'
<1>1. Typed /\ Shape /\ Safety /\ Eras /\ LeaseInv BY DEF Invariants
<1>2. ASSUME NEW r \in Put, NEW i \in Replica, Propose(i, r)
      PROVE  Typed' /\ Shape' /\ Safety' /\ Eras'
  <2>1. GoodTurn(i) /\ SameEra(i, core'[i]) BY <1>2, TurnPropose
  <2>2. UNCHANGED <<lease, configs, proposed, now, world, basis>> BY <1>2 DEF Propose
  <2> QED BY <2>1, <2>2, PlainTurn
<1>3. ASSUME NEW i \in Replica, Learn(i) \/ \E ch \in proposed : Decide(i, ch)
      PROVE  Typed' /\ Shape' /\ Safety' /\ Eras'
  <2>1. Learn(i) \/ \E ch : Decide(i, ch) BY <1>3
  <2>2. /\ GoodTurn(i) /\ core'[i].latestEpoch = core[i].latestEpoch + 1
        /\ core'[i].suspected = core[i].suspected
    BY <2>1, TurnLearn
  <2>3. Alone(i) BY <2>2 DEF GoodTurn
  <2>4. Eras' BY <1>1, <1>3, <2>2, <2>3, ErasLearn
  <2> QED BY <1>1, <2>2, <2>4, TurnKeeps
<1>4. ASSUME Elapse PROVE Typed' /\ Shape' /\ Safety' /\ Eras'
  <2>1. GoodTurn(0) /\ 0 \in Replica BY <1>4, TurnElapse
  <2>2. Eras' BY <1>1, <1>4, ErasElapse
  <2> QED BY <1>1, <2>1, <2>2, TurnKeeps
<1> QED BY <1>2, <1>3, <1>4, PacketKeeps, TickKeeps DEF Next

\* A step that changes nothing.
LEMMA StutterKeeps == ASSUME Invariants, UNCHANGED vars PROVE Typed' /\ Shape' /\ Safety' /\ Eras'
<1>1. /\ UNCHANGED core /\ UNCHANGED msgs
      /\ UNCHANGED <<lease, configs, proposed, now, world, basis>>
  BY DEF vars
<1>2. Typed /\ Shape /\ Eras /\ 0 \in Replica BY NAssumption DEF Invariants, Replica
<1>3. GoodCore(core[0]) BY <1>2, CoreType
<1>4. Only(0, core[0]) /\ Unmoved(core[0], core[0]) BY <1>1, <1>2, StillOnly
<1>5. Carried({}) BY <1>1, SendsNothing
<1>6. GoodTurn(0) BY <1>2, <1>3, <1>4, <1>5, QuietTurn
<1>7. SameEra(0, core'[0])
  <2>1. EraOf(0) BY <1>2 DEF Eras
  <2> QED BY <1>1, <2>1 DEF EraOf, SameEra
<1> QED BY <1>1, <1>2, <1>6, <1>7, PlainTurn

-----------------------------------------------------------------------------
(***************************************************************************)
(* The initial state.                                                      *)
(***************************************************************************)
\* The core a replica begins with.
LEMMA NewCoreIs == GoodCore(NewCore)
<1>1. Leader \in Replica BY PolicyAssumption
<1>2. Leader \in Ballot BY <1>1, BoundAssumption DEF Ballot, Replica
<1>3. -1 \in Place /\ Genesis \in Nat BY Bounds DEF Place, Genesis
<1>4. Empty \in Record BY Bounds DEF Empty, Record
<1>5. [s \in Slot |-> Empty] \in [Slot -> Record] BY <1>4
<1>6. [s \in Slot |-> {}] \in [Slot -> SUBSET Replica] OBVIOUS
<1>7. <<>> \in Seq(Put) OBVIOUS
<1>8. NewCore \in Core BY <1>1, <1>2, <1>3, <1>5, <1>6, <1>7 DEF NewCore, Core
<1>9. Ends(NewCore.log, NewCore.high, NewCore.executed)
  <2>1. \A s \in Slot : NewCore.log[s] = Empty BY DEF NewCore
  <2>2. NewCore.executed = -1 BY DEF NewCore
  <2> QED BY <2>1, <2>2, SlotInt DEF Ends, Solid, Empty
<1>10. NewCore.executed = -1 /\ NewCore.high = -1 /\ NewCore.pending = {} /\ NewCore.promises = {}
  BY DEF NewCore
<1> QED BY <1>8, <1>9, <1>10, FS_EmptySet DEF GoodCore

\* Empty logs, no packets, the first leader in its ballot.
LEMMA InitKeeps == Init => Typed /\ Shape /\ Safety /\ Eras
<1> SUFFICES ASSUME Init PROVE Typed /\ Shape /\ Safety /\ Eras OBVIOUS
<1>1. /\ core = [i \in Replica |-> NewCore] /\ lease = [i \in Replica |-> NewLease]
      /\ configs = <<[leader |-> Leader, holders |-> Holders, excluded |-> {}]>>
      /\ proposed = {} /\ now = 1 /\ world \in World /\ msgs = {}
      /\ basis = [i \in Replica |-> {}]
  BY DEF Init
<1>2. Leader \in Replica /\ Leader \in Nat /\ Leader <= N - 1 /\ N \in Nat /\ Leader \in Int
  BY PolicyAssumption, NAssumption DEF Replica
<1>3. Typed
  <2>1. NewCore \in Core BY NewCoreIs DEF GoodCore
  <2> QED BY <1>1, <2>1, NewCoreIs DEF Typed
<1>4. \A i \in Replica : /\ ballot[i] = Leader /\ leader[i] = Leader /\ ~preparing[i]
                         /\ promises[i] = {} /\ core[i] = NewCore
  BY <1>1, Views DEF NewCore
<1>5. \A i \in Replica : log[i] = {} /\ \A s \in Slot : votes[i][s] = {}
  <2> TAKE i \in Replica
  <2>1. \A s \in Slot : core[i].log[s].req = Hole BY <1>4 DEF NewCore, Empty
  <2>2. log[i] = {} BY <2>1, Views, InEntries
  <2>3. \A s \in Slot : votes[i][s] = {} BY <1>4, Views DEF NewCore
  <2> QED BY <2>2, <2>3
<1>6. Promises = {} BY <1>1, <1>4 DEF Promises
<1>7. Known = {} BY <1>1, <1>5, <1>6, InKnown
<1>8. Owner(Leader) = Leader
  <2>1. Leader = 0 * N + Leader /\ N \in Nat \ {0} /\ Leader \in 0..(N - 1)
    BY <1>2, NAssumption DEF Replica
  <2>2. (0 * N + Leader) % N = Leader BY <2>1, Modulo
  <2> QED BY <2>1, <2>2 DEF Owner
<1>9. Shape
  <2>1. Leads BY <1>4, <1>8 DEF Leads
  <2>2. LogShape BY <1>5 DEF LogShape, GoodLog
  <2>3. Traffic BY <1>1 DEF Traffic
  <2>4. PromiseShape /\ OneSnapshot /\ Sources BY <1>6 DEF PromiseShape, OneSnapshot, Sources
  <2>5. Preparation BY <1>4 DEF Preparation
  <2> QED BY <2>1, <2>2, <2>3, <2>4, <2>5 DEF Shape
<1>10. \A q \in Replica, b \in Ballot, s \in Slot : ~Voted(q, b, s)
  <2> TAKE q \in Replica, b \in Ballot, s \in Slot
  <2>1. Owner(b) \in Replica BY BallotNat, OwnerType
  <2> QED BY <1>1, <1>5, <2>1 DEF Voted
<1>11. Established
  <2> SUFFICES ASSUME NEW i \in Replica
               PROVE  /\ Elected(ballot[i])
                      /\ \A s \in Slot, b \in Ballot :
                            b < ballot[i] /\ (\A y \in log[i] : y.slot # s) => ~CanChoose(b, s)
    BY DEF Established
  <2>1. Replica \in Quorums
    <3>1. Cardinality(Replica) = N BY ReplicasFinite
    <3>2. N >= Quorum BY HalfOfN
    <3> QED BY <3>1, <3>2 DEF Quorums
  <2>2. Elected(ballot[i])
    <3>1. \A q \in Replica : ballot[q] >= ballot[i] BY <1>2, <1>4
    <3> QED BY <2>1, <3>1 DEF Elected
  <2>3. ASSUME NEW s \in Slot, NEW b \in Ballot, b < ballot[i] PROVE ~CanChoose(b, s)
    <3> SUFFICES ASSUME CanChoose(b, s) PROVE FALSE OBVIOUS
    <3>1. PICK Q \in Quorums : \A q \in Q : ballot[q] <= b \/ Voted(q, b, s) BY DEF CanChoose
    <3>2. PICK q \in Q : q \in Q BY <3>1, QuorumsMeet
    <3>3. q \in Replica BY <3>2 DEF Quorums
    <3>4. ballot[q] <= b BY <1>10, <3>1, <3>2, <3>3
    <3>5. b \in Nat BY BallotNat
    <3>6. ballot[q] = Leader /\ ballot[i] = Leader BY <1>4, <3>3
    <3>7. Leader <= b /\ b < Leader BY <2>3, <3>4, <3>6
    <3> QED BY <1>2, <3>5, <3>7
  <2> QED BY <2>2, <2>3
<1>12. Safety
  <2>1. VoteInv BY <1>10 DEF VoteInv
  <2>2. OneValue /\ Owned /\ Safe /\ Locked BY <1>7 DEF OneValue, Owned, Safe, Locked
  <2> QED BY <1>11, <2>1, <2>2 DEF Safety
<1>13. Eras
  <2>1. PICK p : p = [leader |-> Leader, holders |-> Holders, excluded |-> {}] OBVIOUS
  <2>2. p \in Policy BY <2>1, PolicyAssumption DEF Policy
  <2>3. configs \in Seq(Policy) /\ Len(configs) = 1 BY <1>1, <2>1, <2>2
  <2>4. Len(configs) <= MaxEpoch BY <2>3, BoundAssumption DEF Genesis
  <2>5. now <= world.until /\ now \in 1..MaxTime BY <1>1, WorldAssumption, Bounds
  <2>6. \A i \in Replica : EraOf(i)
    <3> TAKE i \in Replica
    <3>1. lease[i] = NewLease /\ core[i] = NewCore /\ basis[i] = {} BY <1>1
    <3>2. NewCore.latestEpoch = 1 /\ NewCore.suspected = {} BY DEF NewCore, Genesis
    <3>3. /\ NewLease.promisedBy = 1 /\ NewLease.promisedTo = -1 /\ NewLease.catchup = -1
          /\ NewLease.frontiers = [j \in Replica |-> -1]
      BY DEF NewLease, Genesis, ToAll
    <3>4. -1 \in Place BY Bounds DEF Place
    <3> QED BY <2>3, <3>1, <3>2, <3>3, <3>4 DEF EraOf, Genesis
  <2>7. proposed \subseteq Policy /\ DOMAIN basis = Replica BY <1>1
  <2> QED BY <2>3, <2>4, <2>5, <2>6, <2>7 DEF Eras
<1> QED BY <1>3, <1>9, <1>12, <1>13

-----------------------------------------------------------------------------
(***************************************************************************)
(* The theorems.                                                           *)
(***************************************************************************)
\* The invariants hold in every state that the protocol reaches.
THEOREM LogInvariant == Spec => []Invariants
<1>1. Init => Invariants BY InitKeeps, LeaseInit DEF Invariants
<1>2. Invariants /\ [Next]_vars => Invariants'
  <2> SUFFICES ASSUME Invariants, [Next]_vars PROVE Invariants' OBVIOUS
  <2>1. Typed' /\ Shape' /\ Safety' /\ Eras' BY NextKeeps, StutterKeeps
  <2>2. LeaseInv' BY LeaseNext DEF Invariants
  <2> QED BY <2>1, <2>2 DEF Invariants
<1> QED BY <1>1, <1>2, PTL DEF Spec

\* Whatever is lost, late, repeated or reordered, whoever stands for leader and
\* whatever the configurations change, no two replicas commit different
\* requests at a slot.
THEOREM LogAgreement == Spec => []Agreement
<1>1. Invariants => Agreement BY SafetyAgrees DEF Invariants
<1> QED BY <1>1, LogInvariant, PTL

\* Every variable keeps its type.
THEOREM LogTypes == Spec => []TypeOK
<1>1. ASSUME Invariants PROVE TypeOK
  <2>1. Typed /\ Eras BY <1>1 DEF Invariants
  <2>2. ASSUME NEW i \in Replica, NEW c, c = core[i], NEW l, l = lease[i]
        PROVE  /\ c.ballot \in 0..MaxBallot /\ c.leader \in Replica
               /\ c.active \in BOOLEAN /\ c.preparing \in BOOLEAN
               /\ {c.high, c.executed, c.recoveryEnd, c.catchupTarget} \subseteq -1..MaxSlot
               /\ c.executed <= c.high
               /\ c.log \in [Slot -> Record] /\ c.votes \in [Slot -> SUBSET Replica]
               /\ c.assigned \cup c.forwardResults \subseteq Put /\ c.pending \subseteq Put
               /\ c.resume \subseteq Put /\ c.queue \in Seq(Put)
               /\ c.suspected \subseteq Replica \ {i}
               /\ c.latestEpoch \in Genesis..Len(configs)
               /\ l.promisedBy \in Genesis..c.latestEpoch
               /\ l.promisedTo \in {-1} \cup (Genesis..c.latestEpoch)
               /\ basis[i] \subseteq Live(l, now)
    <3>1. c \in Core /\ c.executed <= c.high BY <2>1, <2>2 DEF Typed, GoodCore
    <3>2. EraOf(i) BY <2>1 DEF Eras
    <3>3. /\ c.suspected \subseteq Replica \ {i} /\ c.latestEpoch \in Genesis..Len(configs)
          /\ l.promisedBy \in Genesis..c.latestEpoch
          /\ l.promisedTo \in {-1} \cup (Genesis..c.latestEpoch)
          /\ basis[i] \subseteq Live(l, now)
      BY <2>2, <3>2 DEF EraOf
    <3> QED BY <3>1, <3>3 DEF Core, Ballot, Place
  <2>3. /\ configs \in Seq(Policy) /\ Len(configs) <= MaxEpoch
        /\ proposed \subseteq Policy /\ now \in 1..MaxTime
    BY <2>1 DEF Eras
  <2> QED BY <2>2, <2>3 DEF TypeOK
<1> QED BY <1>1, LogInvariant, PTL
=============================================================================
