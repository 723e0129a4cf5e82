-------------------------- MODULE FastPaxosTheorems --------------------------
(***************************************************************************)
(* Safety of FastPaxos, for every odd number of replicas, every finite set *)
(* of requests, every environment and all values of the bounds: each part  *)
(* of the inductive invariant is kept by every step that moves as          *)
(* FastPaxosProofs says.                                                   *)
(***************************************************************************)
EXTENDS FastPaxosProofs, FastPaxosRefinement

-----------------------------------------------------------------------------
(***************************************************************************)
(* What the types say.                                                     *)
(***************************************************************************)
LEMMA Ballot ==
    ASSUME TypeOK, NEW i \in Replica, NEW s \in Slot
    PROVE  /\ accepted[i][s] # None =>
                 accepted[i][s].epoch \in Epoch /\ accepted[i][s].value \in Command
           /\ proposed[i][s] # None =>
                 proposed[i][s].epoch \in Epoch /\ proposed[i][s].value \in Command
           /\ chosen[i][s] # None => chosen[i][s] \in Command
<1>1. accepted[i][s] \in Ballots /\ proposed[i][s] \in Ballots BY DEF TypeOK
<1>2. accepted[i][s] # None => accepted[i][s] \in [epoch : Epoch, value : Command]
  BY <1>1 DEF Ballots
<1>3. proposed[i][s] # None => proposed[i][s] \in [epoch : Epoch, value : Command]
  BY <1>1 DEF Ballots
<1> QED BY <1>2, <1>3 DEF TypeOK

\* Promise pages are pages, and epochs and slots are numbers.
LEMMA Pages ==
    ASSUME TypeOK
    PROVE  /\ Promised \subseteq Page
           /\ \A q \in Replica, e \in Epoch : PagesOf(q, e) \subseteq Promised
           /\ \A p \in Promised : p \in PagesOf(p.from, p.epoch)
<1>1. \A m \in msgs : m.kind = "Promise" => m \in Page
  BY PacketFields DEF TypeOK
<1>2. Promised \subseteq Page BY <1>1 DEF Promised, TypeOK
<1>3. \A q \in Replica, e \in Epoch : PagesOf(q, e) \subseteq Promised BY DEF PagesOf
<1>4. \A p \in Promised : p \in PagesOf(p.from, p.epoch) BY DEF PagesOf
<1> QED BY <1>2, <1>3, <1>4
LEMMA Naturals ==
    /\ Epoch \subseteq Nat /\ Slot \subseteq Nat /\ 0 \in Epoch /\ N \in Nat /\ N >= 3
    /\ \A e \in Epoch : Owner(e) \in Replica
<1>1. Epoch \subseteq Nat /\ Slot \subseteq Nat /\ 0 \in Epoch
  BY BoundAssumption DEF Epoch, Slot
<1>2. \A e \in Epoch : Owner(e) \in Replica BY <1>1, OwnerType
<1> QED BY <1>1, <1>2, NAssumption

LEMMA Ranges ==
    ASSUME TypeOK, TypeOK', NEW i \in Replica
    PROVE  /\ promise[i] \in Nat /\ promise'[i] \in Nat
           /\ promise[i] \in Epoch /\ promise'[i] \in Epoch
           /\ start[i] \in Nat /\ start'[i] \in Nat /\ next[i] \in Nat /\ next'[i] \in Nat
           /\ high[i] \in Int /\ high'[i] \in Int
<1>1. /\ promise'[i] \in Epoch /\ start'[i] \in 0..(MaxSlot + 1)
      /\ next'[i] \in 0..(MaxSlot + 1) /\ high'[i] \in -1..MaxSlot
  BY DEF TypeOK
<1>2. promise'[i] \in Nat BY <1>1, Naturals
<1>3. start'[i] \in Nat /\ next'[i] \in Nat /\ high'[i] \in Int BY <1>1, BoundAssumption
<1> QED BY <1>1, <1>2, <1>3, Numbers

\* Two majorities meet, and two fast quorums meet in every majority.
LEMMA Sizes ==
    /\ Majority \in Nat /\ FastQuorum \in Nat /\ Majority >= 2
    /\ 2 * Majority > N /\ 2 * FastQuorum + Majority > 2 * N /\ FastQuorum <= N
<1>1. PICK k \in Nat : N = 2 * k + 1 /\ k >= 1
  <2>1. N \in Nat /\ N >= 3 /\ N % 2 = 1 BY NAssumption
  <2>2. PICK k : k = N \div 2 OBVIOUS
  <2>3. k \in Int /\ 2 * k <= N /\ N < 2 * k + 2 BY <2>1, <2>2
  <2>4. N % 2 = N - 2 * k BY <2>1, <2>2
  <2> QED BY <2>1, <2>3, <2>4
<1>2. N \div 2 = k BY <1>1
<1>3. PICK q \in Nat : q = (3 * N) \div 4 BY <1>1
<1>4. 4 * q <= 3 * N /\ 3 * N < 4 * q + 4 BY <1>1, <1>3
<1> QED BY <1>1, <1>2, <1>3, <1>4 DEF Majority, FastQuorum

\* Epochs that have begun, been led or found a quorum stay that way.
LEMMA EpochsGrow ==
    ASSUME TypeOK, TypeOK', RoleMoves, NEW e \in Epoch
    PROVE  /\ Begun(e) => Begun(e)'
           /\ Led(e) => Led(e)' /\ Begun(e)
           /\ Elected(e) => Elected(e)'
<1>1. Owner(e) \in Replica /\ e \in Nat BY Naturals
<1>2. \A q \in Replica : promise[q] \in Nat /\ promise'[q] \in Nat /\ promise[q] <= promise'[q]
  BY Numbers, Naturals DEF RoleMoves, RoleMove, TypeOK
<1>3. Begun(e) => Begun(e)' BY <1>1, <1>2 DEF Begun
<1>4. Led(e) => Begun(e) BY <1>1, <1>2 DEF Begun, Led
<1>5. ASSUME Led(e) PROVE Led(e)'
  <2>1. CASE e = 0 \/ promise[Owner(e)] > e BY <1>1, <1>2, <2>1 DEF Led
  <2>2. CASE promise[Owner(e)] = e /\ ~preparing[Owner(e)]
    <3>1. RoleMove(Owner(e)) BY <1>1 DEF RoleMoves
    <3>2. promise'[Owner(e)] = e => ~preparing'[Owner(e)] BY <2>2, <3>1 DEF RoleMove
    <3>3. promise'[Owner(e)] = e \/ promise'[Owner(e)] > e BY <1>1, <1>2, <2>2
    <3> QED BY <3>2, <3>3 DEF Led
  <2> QED BY <1>5, <2>1, <2>2 DEF Led
<1>6. ASSUME Elected(e) PROVE Elected(e)'
  <2>1. PICK Q \in Quorum : \A q \in Q : promise[q] >= e BY <1>6 DEF Elected
  <2>2. \A q \in Q : promise'[q] >= e BY <1>1, <1>2, <2>1 DEF Quorum
  <2> QED BY <2>2 DEF Elected, Quorum
<1> QED BY <1>3, <1>4, <1>5, <1>6

-----------------------------------------------------------------------------
(***************************************************************************)
(* A new snapshot, and taking over.                                        *)
(***************************************************************************)
\* Replica i, asked by j, promises epoch e from slot st on with the pages S.
NewSnapshot(i, j, e, st, S) ==
    /\ promise'[i] = e /\ \A k \in Replica \ {i} : promise'[k] = promise[k]
    /\ promise[i] <= e /\ (promise[i] = e => frozen[i] = {}) /\ start' = start
    /\ frozen'[i] = S /\ \A k \in Replica \ {i} : frozen'[k] = frozen[k]
    /\ Promised' \subseteq Promised \cup S
    /\ SnapshotFacts(S, i, j, e, st)
    /\ e > 0 /\ j = Owner(e) /\ Begun(e) /\ e <= promise[j] /\ (promise[j] = e => st = start[j])
LEMMA FrozeFacts ==
    ASSUME TypeOK, Shape, NEW i \in Replica, NEW m \in msgs, Froze(i, m)
    PROVE  \E S : \E j \in Replica, e \in Epoch, st \in 0..(MaxSlot + 1) : NewSnapshot(i, j, e, st, S)
<1>1. /\ m.kind = "Prepare" /\ m.from \in Replica /\ m.epoch \in Epoch
      /\ m.start \in 0..(MaxSlot + 1)
  BY PacketFields DEF Froze, ReceivePrepare, TypeOK
<1>2. PICK j \in Replica, e \in Epoch, st \in 0..(MaxSlot + 1) :
        j = m.from /\ e = m.epoch /\ st = m.start
  BY <1>1
<1>3. PICK S : S = Snapshot(i, j, e, st) OBVIOUS
<1>4. PromisePages(i, m) = S BY <1>2, <1>3 DEF Froze, PromisePages
<1>5. /\ promise' = [promise EXCEPT ![i] = e] /\ e >= promise[i]
      /\ frozen' = [frozen EXCEPT ![i] = S] /\ Post(Used(m), S)
      /\ start' = start /\ pages' = pages
  BY <1>2, <1>4 DEF Froze, ReceivePrepare
<1>6. SnapshotFacts(S, i, j, e, st) BY <1>3, SnapshotForm
<1>7. promise[i] = e => frozen[i] = {} BY <1>2 DEF Froze
<1>8. GoodPacket(m) BY DEF Shape, Traffic
<1>9. e > 0 /\ j = Owner(e) /\ Begun(e) /\ e <= promise[j] /\ (promise[j] = e => st = start[j])
  BY <1>1, <1>2, <1>8 DEF GoodPacket
<1>10. Promised' \subseteq Promised \cup S
  <2>1. \A k \in Replica : frozen'[k] \subseteq frozen[k] \cup S BY <1>5 DEF TypeOK
  <2> QED BY <1>5, <2>1 DEF Promised, Post
<1>11. promise[i] <= e BY <1>5, Numbers, Naturals
<1>12. NewSnapshot(i, j, e, st, S)
  BY <1>5, <1>6, <1>7, <1>9, <1>10, <1>11 DEF NewSnapshot, TypeOK
<1> QED BY <1>12

\* Either no page is made, or one snapshot is.
LEMMA PagesMove ==
    ASSUME TypeOK, Shape, PageMoves
    PROVE  \/ /\ Promised' \subseteq Promised
              /\ \A i \in Replica : frozen'[i] = IF promise'[i] = promise[i] THEN frozen[i] ELSE {}
           \/ \E i \in Replica : \E S : \E j \in Replica, e \in Epoch, st \in 0..(MaxSlot + 1) :
                 NewSnapshot(i, j, e, st, S)
<1>1. CASE \E i \in Replica : \E m \in msgs : Froze(i, m) BY <1>1, FrozeFacts
<1>2. CASE ~\E i \in Replica : \E m \in msgs : Froze(i, m) BY <1>2 DEF PageMoves
<1> QED BY <1>1, <1>2

\* Before a new snapshot its replica has made none for the epoch.
LEMMA FirstSnapshot ==
    ASSUME TypeOK, Shape, NEW i \in Replica, NEW S, NEW j \in Replica, NEW e \in Epoch, NEW st,
           NewSnapshot(i, j, e, st, S)
    PROVE  PagesOf(i, e) = {}
<1> SUFFICES ASSUME NEW p \in PagesOf(i, e) PROVE FALSE OBVIOUS
<1>1. p \in Promised /\ p.from = i /\ p.epoch = e /\ GoodPage(p)
  BY DEF PagesOf, Shape, PromiseShape
<1>2. e <= promise[i] BY <1>1 DEF GoodPage
<1>3. promise[i] = e BY <1>2, Numbers, Naturals DEF NewSnapshot
<1> QED BY <1>1, <1>3 DEF GoodPage, NewSnapshot

\* Replica i takes over with the promise pages P; it plans pick for the slots up
\* to last, the highest one that a complete promise knows of.
Span(i, last) == start[i]..last
Adoption(i, P, last, pick) ==
    /\ preparing[i] /\ ~preparing'[i] /\ promise[i] > 0 /\ Owner(promise[i]) = i
    /\ promise' = promise /\ start' = start /\ accepted' = accepted
    /\ next'[i] = last + 1 /\ high'[i] = last
    /\ \A p \in P : p \in Promised /\ p.epoch = promise[i] /\ p.start = start[i]
    /\ Cardinality(Voters(P)) >= Majority
    /\ last \in (start[i] - 1)..MaxSlot
    /\ \A p \in P : p.from \in Voters(P) => p.high <= last
    /\ \A s \in Slot : accepted[i][s] # None => s <= last
    /\ pick \in [Span(i, last) -> Command]
    /\ \A s \in Span(i, last) :
          /\ proposed'[i][s] = [epoch |-> promise[i], value |-> pick[s]]
          /\ pick[s] \in Selectable(Reports(P, s), Cardinality(Voters(P)))
LEMMA AdoptionFacts ==
    ASSUME TypeOK, Shape, NEW i \in Replica, TookOver(i)
    PROVE  \E P \in SUBSET Page : \E last, pick : Adoption(i, P, last, pick)
<1>1. PICK m \in msgs : Arrives(i, m) /\ TakeOver(i, m) BY DEF TookOver
<1>2. /\ m.kind = "Promise" /\ preparing[i] /\ m.epoch = promise[i] /\ m.start = start[i]
      /\ m \in Packet
  BY <1>1 DEF TakeOver, PromiseExpected, TypeOK
<1>3. PICK P \in SUBSET Page : P = Collected(i, m)
  BY <1>1, <1>2, CollectedType DEF TakeOver
<1>4. PICK last \in (start[i] - 1)..MaxSlot : last = LastSlot(i, P) BY LastSlotType
<1>5. PICK pick \in [Span(i, last) -> Command] :
        \A s \in Span(i, last) :
           /\ pick[s] \in Selectable(Reports(P, s), Cardinality(Voters(P)))
           /\ proposed'[i][s] = [epoch |-> promise[i], value |-> pick[s]]
  <2> DEFINE C == Collected(i, m)
             span == start[i]..LastSlot(i, C)
             Prop(pick) == [s \in Slot |-> IF s \in span
                              THEN [epoch |-> promise[i], value |-> pick[s]]
                              ELSE proposed[i][s]]
             Fits(pick) == \A s \in span :
                              pick[s] \in Selectable(Reports(C, s), Cardinality(Voters(C)))
  <2>1. PICK pick \in [span -> Command] :
           Fits(pick) /\ proposed' = [proposed EXCEPT ![i] = Prop(pick)]
    BY <1>1, Zenon DEF TakeOver
  <2>2. C = P /\ LastSlot(i, C) = last BY <1>3, <1>4
  <2>3. span = Span(i, last) /\ Span(i, last) \subseteq Slot
    <3>1. span = Span(i, last) BY <2>2 DEF Span
    <3>2. Span(i, last) \subseteq Slot BY Numbers, BoundAssumption DEF Span, Slot
    <3> QED BY <3>1, <3>2
  <2> HIDE DEF span
  <2>4. \A s \in span : proposed'[i][s] = [epoch |-> promise[i], value |-> pick[s]]
    BY <2>1, <2>3 DEF TypeOK
  <2> HIDE DEF C
  <2>5. \A s \in span : pick[s] \in Selectable(Reports(P, s), Cardinality(Voters(P)))
    BY <2>1, <2>2, Zenon
  <2>6. pick \in [Span(i, last) -> Command] BY <2>1, <2>3
  <2> QED BY <2>3, <2>4, <2>5, <2>6
<1>6. /\ Cardinality(Voters(P)) >= Majority /\ preparing' = [preparing EXCEPT ![i] = FALSE]
      /\ high' = [high EXCEPT ![i] = last] /\ next' = [next EXCEPT ![i] = last + 1]
      /\ UNCHANGED <<promise, start, accepted>>
  BY <1>1, <1>3, <1>4 DEF TakeOver
<1>7. /\ next'[i] = last + 1 /\ high'[i] = last /\ ~preparing'[i]
  BY <1>6 DEF TypeOK
<1>8. promise[i] > 0 /\ Owner(promise[i]) = i BY <1>2 DEF Shape, Roles
<1>9. P \subseteq pages[i] \cup {m} BY <1>3 DEF Collected
<1>10. m \in Promised /\ pages[i] \subseteq Promised BY <1>2 DEF Promised
<1>11. \A p \in P : p \in Promised /\ p.epoch = promise[i] /\ p.start = start[i]
  BY <1>2, <1>9, <1>10 DEF Shape, Preparation
<1>12. \A p \in P : p.from \in Voters(P) => p.high <= last BY <1>4, LastSlotType
<1>13. m.from # i
  <2> SUFFICES ASSUME m.from = i PROVE FALSE OBVIOUS
  <2>1. OwnPage(i, m) BY <1>1, <1>2 DEF OwnPage, Arrives
  <2>2. \A p \in P : p.from = i BY <1>2, <1>9, <2>1 DEF Shape, Preparation
  <2>3. Voters(P) \subseteq {i} BY <2>2 DEF Voters, CompleteFrom, PagesFrom
  <2>4. IsFiniteSet({i}) /\ Cardinality({i}) = 1 BY FS_Singleton
  <2>5. Voters(P) \in SUBSET {i} BY <2>3
  <2>6. Cardinality(Voters(P)) <= 1 BY <2>4, <2>5, FS_Subset
  <2>7. Cardinality(Voters(P)) \in Nat BY <2>4, <2>5, FS_Subset, CardNat
  <2> QED BY <1>6, <2>6, <2>7, Sizes
<1>14. Idle /\ i \notin crashed BY <1>1, <1>13 DEF Arrives
<1>15. frozen[i] # {} /\ frozen[i] \subseteq pages[i]
  <2>1. ~\E x \in msgs : OwnPage(i, x) BY <1>14 DEF Idle, OwnPage
  <2>2. frozen[i] # {} /\ \A p \in frozen[i] : p \in pages[i] \/ (p \in msgs /\ p.to = i)
    BY <1>2, <1>14, <2>1 DEF Shape, Preparation
  <2>3. \A p \in frozen[i] : p.from = i BY DEF Shape, PromiseShape
  <2> QED BY <1>14, <2>2, <2>3 DEF Idle
<1>16. PagesFrom(P, i) = frozen[i]
  <2>1. frozen[i] \subseteq P BY <1>3, <1>15 DEF Collected
  <2>2. \A p \in frozen[i] : p.from = i BY DEF Shape, PromiseShape
  <2>3. \A p \in P : p.from = i => p \in frozen[i]
    BY <1>11 DEF Shape, PromiseShape, GoodPage
  <2> QED BY <2>1, <2>2, <2>3 DEF PagesFrom
<1>17. i \in Voters(P)
  <2>1. \A p \in frozen[i] : Cardinality(frozen[i]) = p.pages BY DEF Shape, PromiseShape
  <2> QED BY <1>15, <1>16, <2>1 DEF Voters, CompleteFrom
<1>18. ASSUME NEW s \in Slot, accepted[i][s] # None PROVE s <= last
  <2>1. PICK p \in frozen[i] : TRUE BY <1>15
  <2>2. p \in P /\ p.from = i BY <1>16 DEF PagesFrom
  <2>3. s <= p.high BY <1>2, <1>18, <2>1 DEF Shape, Preparation
  <2>4. p.high <= last BY <1>12, <1>17, <2>2
  <2>5. p.high \in Int /\ last \in Int /\ s \in Int
    <3>1. p \in Page BY <2>2
    <3>2. p.high \in -1..MaxSlot /\ start[i] \in Nat /\ MaxSlot \in Nat
      BY <3>1, PageFields, Numbers, BoundAssumption
    <3> QED BY <3>2, Naturals
  <2> QED BY <2>3, <2>4, <2>5
<1>19. Adoption(i, P, last, pick)
  BY <1>2, <1>4, <1>5, <1>6, <1>7, <1>8, <1>11, <1>12, <1>18 DEF Adoption
<1> QED BY <1>19

-----------------------------------------------------------------------------
(***************************************************************************)
(* Shape is kept.                                                          *)
(***************************************************************************)
LEMMA RolesStep ==
    ASSUME TypeOK, TypeOK', Roles, RoleMoves
    PROVE  Roles'
<1> SUFFICES ASSUME NEW i \in Replica
             PROVE  /\ Begun(promise[i])'
                    /\ preparing'[i] => promise'[i] > 0 /\ Owner(promise'[i]) = i /\ ~active'[i]
  BY DEF Roles
<1>1. RoleMove(i) BY DEF RoleMoves
<1>2. /\ promise[i] \in Epoch /\ promise'[i] \in Epoch /\ promise[i] \in Nat /\ promise'[i] \in Nat
  BY Numbers, Naturals DEF TypeOK
<1>3. promise[i] <= promise'[i] /\ (preparing'[i] => ~active'[i]) BY <1>1 DEF RoleMove
<1>4. PICK e \in Epoch : e = promise'[i] BY <1>2
<1>5. Begun(e) => Begun(e)' BY EpochsGrow
<1>6. CASE promise'[i] = promise[i]
  <2>1. Begun(e) BY <1>4, <1>6 DEF Roles
  <2>2. preparing'[i] => preparing[i] BY <1>1, <1>6 DEF RoleMove
  <2> QED BY <1>3, <1>4, <1>5, <1>6, <2>1, <2>2 DEF Roles, Begun
<1>7. CASE promise'[i] # promise[i]
  <2>1. IF preparing'[i] THEN Owner(e) = i ELSE Begun(e) BY <1>1, <1>4, <1>7 DEF RoleMove
  <2>2. CASE preparing'[i]
    <3>1. Owner(promise'[i]) = i /\ promise'[i] > 0 BY <1>2, <1>3, <1>4, <1>7, <2>1, <2>2
    <3> QED BY <1>2, <1>3, <1>4, <3>1 DEF Begun
  <2>3. CASE ~preparing'[i] BY <1>4, <1>5, <2>1, <2>3 DEF Begun
  <2> QED BY <2>2, <2>3
<1> QED BY <1>6, <1>7

\* A coordinator led its epoch before the step, or takes over in it.
LEMMA LeadsOn ==
    ASSUME TypeOK, TypeOK', Shape, RoleMoves, NEW i \in Replica, Leading(i)'
    PROVE  /\ promise'[i] = promise[i] /\ start'[i] = start[i]
           /\ promise[i] > 0 /\ Owner(promise[i]) = i
           /\ Leading(i) \/ (TookOver(i) /\ preparing[i])
<1>1. RoleMove(i) BY DEF RoleMoves
<1>2. promise'[i] > 0 /\ Owner(promise'[i]) = i /\ ~preparing'[i] BY DEF Leading
<1>3. promise'[i] = promise[i] BY <1>1, <1>2 DEF RoleMove
<1>4. start'[i] = start[i] BY <1>1, <1>3 DEF RoleMove
<1>5. preparing[i] => TookOver(i)
  <2>1. preparing'[i] = preparing[i] \/ (TookOver(i) /\ ~preparing'[i])
    BY <1>1, <1>3 DEF RoleMove
  <2> QED BY <1>2, <2>1
<1> QED BY <1>2, <1>3, <1>4, <1>5 DEF Leading

\* A new plan is the first one for its slot in the epoch.
LEMMA FirstPlan ==
    ASSUME TypeOK, TypeOK', Shape, RoleMoves, NEW i \in Replica, NEW s \in Slot, NewPlan(i, s)
    PROVE  /\ ~Planning(i, s) /\ Led(promise[i])' /\ Planning(i, s)'
           /\ promise[i] > 0 /\ Owner(promise[i]) = i /\ promise'[i] = promise[i]
           /\ start[i] <= s
           /\ (Leading(i) /\ next[i] <= s) \/ (TookOver(i) /\ preparing[i])
<1>1. promise'[i] = promise[i] /\ Planning(i, s)' /\ start[i] <= s BY DEF NewPlan, Planning
<1>2. RoleMove(i) BY DEF RoleMoves
<1>3. CASE Leading(i) /\ next[i] <= s
  <2>1. ~Planning(i, s) BY <1>3, Numbers, Naturals DEF Shape, Plans
  <2>2. Led(promise[i]) BY <1>3 DEF Leading, Led
  <2>3. Led(promise[i])' BY <1>1, <2>2, EpochsGrow, Numbers DEF Led
  <2> QED BY <1>1, <1>3, <2>1, <2>3 DEF Leading
<1>4. CASE TookOver(i)
  <2>1. PICK P \in SUBSET Page : \E last, pick : Adoption(i, P, last, pick)
    BY <1>4, AdoptionFacts
  <2>2. preparing[i] /\ ~preparing'[i] /\ promise[i] > 0 /\ Owner(promise[i]) = i
    BY <2>1 DEF Adoption
  <2>3. ~Planning(i, s)
    <3>1. promise[i] \in Nat BY Numbers
    <3>2. ~Led(promise[i]) BY <2>2, <3>1 DEF Led
    <3> QED BY <3>2 DEF Shape, Plans, Planning
  <2>4. Led(promise[i])' BY <1>1, <2>2 DEF Led
  <2> QED BY <1>1, <1>4, <2>2, <2>3, <2>4
<1> QED BY <1>3, <1>4 DEF NewPlan

LEMMA PlansStep ==
    ASSUME TypeOK, TypeOK', Shape, RoleMoves, VoteMoves, PlanMoves
    PROVE  Plans'
<1> SUFFICES ASSUME NEW i \in Replica
             PROVE  /\ Leading(i)' => start'[i] <= next'[i]
                    /\ \A s \in Slot :
                          /\ proposed'[i][s] # None =>
                                /\ proposed'[i][s].epoch > 0
                                /\ Owner(proposed'[i][s].epoch) = i
                                /\ proposed'[i][s].epoch <= promise'[i]
                                /\ Led(proposed[i][s].epoch)'
                          /\ Planning(i, s)' => start'[i] <= s /\ s < next'[i]
  BY DEF Plans
<1>1. /\ promise[i] \in Nat /\ promise'[i] \in Nat /\ start[i] \in Nat /\ next[i] \in Nat
      /\ next'[i] \in Nat /\ promise[i] <= promise'[i]
  BY Ranges, Naturals DEF RoleMoves, RoleMove
<1>2. next[i] <= next'[i] \/ TookOver(i) BY DEF VoteMoves
<1>3. TookOver(i) => next'[i] >= start[i] /\ preparing[i] /\ Owner(promise[i]) = i
  <2> SUFFICES ASSUME TookOver(i) PROVE next'[i] >= start[i] /\ preparing[i] /\ Owner(promise[i]) = i
    OBVIOUS
  <2>1. PICK last : \E P, pick : Adoption(i, P, last, pick)
    BY AdoptionFacts
  <2>2. next'[i] = last + 1 /\ last \in (start[i] - 1)..MaxSlot /\ preparing[i] /\ Owner(promise[i]) = i
    BY <2>1 DEF Adoption
  <2> QED BY <1>1, <2>2, BoundAssumption
<1>4. ASSUME Leading(i)' PROVE start'[i] <= next'[i]
  <2>1. start'[i] = start[i] /\ (Leading(i) \/ TookOver(i)) BY <1>4, LeadsOn
  <2>2. CASE TookOver(i) BY <1>3, <2>1, <2>2, <1>1
  <2>3. CASE ~TookOver(i)
    <3>1. start[i] <= next[i] BY <2>1, <2>3 DEF Shape, Plans
    <3> QED BY <1>1, <1>2, <2>1, <2>3, <3>1
  <2> QED BY <2>2, <2>3
<1>5. ASSUME NEW s \in Slot, proposed'[i][s] # None
      PROVE  /\ proposed'[i][s].epoch > 0 /\ Owner(proposed'[i][s].epoch) = i
             /\ proposed'[i][s].epoch <= promise'[i] /\ Led(proposed[i][s].epoch)'
             /\ Planning(i, s)' => start'[i] <= s /\ s < next'[i]
  <2>1. CASE NewPlan(i, s)
    <3>1. /\ proposed'[i][s].epoch = promise[i] /\ promise'[i] = promise[i] /\ start[i] <= s
          /\ s < next'[i]
      BY <2>1 DEF NewPlan
    <3>2. promise[i] > 0 /\ Owner(promise[i]) = i /\ Led(promise[i])' BY <2>1, FirstPlan
    <3>3. start'[i] = start[i] BY <3>1 DEF RoleMoves, RoleMove
    <3>4. Led(proposed[i][s].epoch)' BY <3>1, <3>2 DEF Led
    <3> QED BY <1>1, <3>1, <3>2, <3>3, <3>4
  <2>2. CASE proposed'[i][s] = proposed[i][s]
    <3>1. PICK e \in Epoch : e = proposed[i][s].epoch BY <1>5, <2>2, Ballot
    <3>2. e > 0 /\ Owner(e) = i /\ e <= promise[i] /\ Led(e)
      BY <1>5, <2>2, <3>1 DEF Shape, Plans
    <3>3. Led(e)' BY <3>2, EpochsGrow
    <3>4. Led(proposed[i][s].epoch)' BY <2>2, <3>1, <3>3 DEF Led
    <3>5. e <= promise'[i] BY <1>1, <3>2, Naturals
    <3>6. ASSUME Planning(i, s)' PROVE start'[i] <= s /\ s < next'[i]
      <4>1. promise'[i] = e BY <2>2, <3>1, <3>6 DEF Planning
      <4>2. promise'[i] = promise[i] BY <1>1, <3>2, <4>1, Naturals
      <4>3. start'[i] = start[i] BY <4>2 DEF RoleMoves, RoleMove
      <4>4. Planning(i, s) BY <1>5, <2>2, <3>1, <4>1, <4>2 DEF Planning
      <4>5. start[i] <= s /\ s < next[i] BY <4>4 DEF Shape, Plans
      <4>6. ~TookOver(i) BY <1>1, <1>3, <3>2, <4>1, <4>2 DEF Led
      <4> QED BY <1>1, <1>2, <4>3, <4>5, <4>6, Naturals
    <3> QED BY <2>2, <3>1, <3>2, <3>4, <3>5, <3>6
  <2> QED BY <2>1, <2>2 DEF PlanMoves
<1> QED BY <1>4, <1>5 DEF Planning

LEMMA VoteShapeStep ==
    ASSUME TypeOK, TypeOK', Shape, RoleMoves, VoteMoves
    PROVE  VoteShape'
<1> SUFFICES ASSUME NEW i \in Replica, NEW s \in Slot
             PROVE  /\ accepted'[i][s] # None =>
                          accepted'[i][s].epoch <= promise'[i] /\ s <= high'[i]
                    /\ accepted'[i][s] # None /\ accepted'[i][s].epoch = 0 =>
                          accepted'[i][s].value # Noop
                    /\ promise'[i] = 0 /\ s >= next'[i] => accepted'[i][s] = None
  BY DEF VoteShape
<1>1. /\ promise[i] \in Nat /\ promise'[i] \in Nat /\ promise[i] <= promise'[i] /\ s \in Nat
      /\ next[i] \in Nat /\ next'[i] \in Nat /\ high[i] \in Int /\ high'[i] \in Int
  BY Ranges, Naturals DEF RoleMoves, RoleMove
<1>2. (next[i] <= next'[i] /\ high[i] <= high'[i]) \/ TookOver(i) BY DEF VoteMoves
<1>3. CASE accepted'[i][s] = accepted[i][s]
  <2>1. accepted[i][s] # None => accepted[i][s].epoch <= promise[i] /\ s <= high[i]
    BY DEF Shape, VoteShape
  <2>2. ASSUME accepted[i][s] # None PROVE accepted[i][s].epoch <= promise'[i]
    <3>1. accepted[i][s].epoch \in Nat BY <2>2, Ballot, Naturals
    <3> QED BY <1>1, <2>1, <2>2, <3>1
  <2>3. TookOver(i) => /\ promise[i] > 0
                       /\ accepted[i][s] # None => s <= high'[i]
    <3> SUFFICES ASSUME TookOver(i)
                 PROVE  promise[i] > 0 /\ (accepted[i][s] # None => s <= high'[i])
      OBVIOUS
    <3>1. PICK last : \E P, pick : Adoption(i, P, last, pick)
      BY AdoptionFacts
    <3> QED BY <3>1 DEF Adoption
  <2>4. accepted[i][s] # None => s <= high'[i] BY <1>1, <1>2, <2>1, <2>3
  <2>5. accepted[i][s] # None /\ accepted[i][s].epoch = 0 => accepted[i][s].value # Noop
    BY DEF Shape, VoteShape
  <2>6. ASSUME promise'[i] = 0, s >= next'[i] PROVE accepted[i][s] = None
    <3>1. promise[i] = 0 BY <1>1, <2>6
    <3>2. s >= next[i] BY <1>1, <1>2, <2>3, <2>6, <3>1
    <3> QED BY <3>1, <3>2 DEF Shape, VoteShape
  <2> QED BY <1>3, <2>2, <2>4, <2>5, <2>6
<1>4. CASE FastVoted(i, s) BY <1>1, <1>4 DEF FastVoted
<1>5. ASSUME NEW m \in msgs, ClassicVoted(i, s, m)
      PROVE  /\ accepted'[i][s].epoch <= promise'[i] /\ s <= high'[i]
             /\ accepted'[i][s].epoch > 0 /\ promise'[i] > 0
  <2>1. m.epoch > 0 /\ m.epoch = promise'[i] BY <1>5 DEF ClassicVoted, Shape, Traffic, GoodPacket
  <2> QED BY <1>1, <1>5, <2>1 DEF ClassicVoted
<1> QED BY <1>1, <1>3, <1>4, <1>5 DEF VoteMoves

LEMMA TrafficStep ==
    ASSUME TypeOK, TypeOK', Shape, RoleMoves, SendMoves
    PROVE  Traffic'
<1> SUFFICES ASSUME NEW m \in msgs' PROVE GoodPacket(m)' BY DEF Traffic
<1>1. m \in Packet /\ m.from \in Replica
  <2>1. m \in Packet BY DEF TypeOK
  <2> QED BY <2>1, PacketFields
<1>2. m.kind \in {"Prepare", "Accept", "Heartbeat", "Nack"} => m.epoch \in Epoch
  BY <1>1, PacketFields
<1>3. PICK j \in Replica : j = m.from BY <1>1
<1>4. /\ promise[j] \in Nat /\ promise'[j] \in Nat /\ promise[j] <= promise'[j]
      /\ promise[j] \in Epoch /\ promise'[j] \in Epoch /\ RoleMove(j)
  BY Numbers, Naturals DEF TypeOK, RoleMoves, RoleMove
<1>5. CASE m \in msgs
  <2>1. GoodPacket(m) BY <1>5 DEF Shape, Traffic
  <2>2. m.kind \in {"Prepare", "Accept", "Heartbeat", "Nack"} => Begun(m.epoch)'
    BY <1>2, <2>1, EpochsGrow DEF GoodPacket, Begun
  <2>3. ASSUME m.kind \in {"Prepare", "Accept", "Heartbeat", "Nack"} PROVE m.epoch <= promise'[j]
    <3>1. m.epoch \in Nat /\ m.epoch <= promise[j] BY <1>2, <1>3, <2>1, <2>3, Naturals DEF GoodPacket
    <3> QED BY <1>4, <3>1
  <2>4. m.kind = "Accept" => Led(m.epoch)' BY <1>2, <2>1, EpochsGrow DEF GoodPacket, Led
  <2>5. ASSUME m.kind = "Prepare", promise'[j] = m.epoch PROVE m.start = start'[j]
    <3>1. m.epoch <= promise[j] BY <1>3, <2>1, <2>5 DEF GoodPacket
    <3>2. promise'[j] = promise[j] BY <1>4, <2>5, <3>1
    <3>3. start'[j] = start[j] BY <1>4, <3>2 DEF RoleMove
    <3> QED BY <1>3, <2>1, <2>5, <3>2, <3>3 DEF GoodPacket
  <2> QED BY <1>3, <2>1, <2>2, <2>3, <2>4, <2>5 DEF GoodPacket, Begun, Led
<1>6. CASE Sent(m)
  <2>1. CASE m.kind = "Prepare"
    <3>1. m.epoch = promise'[j] /\ m.epoch > 0 /\ j = Owner(m.epoch) /\ m.start = start'[j]
      BY <1>3, <1>6, <2>1 DEF Sent
    <3> QED BY <1>3, <1>4, <2>1, <3>1 DEF GoodPacket, Begun
  <2>2. CASE m.kind = "Accept"
    <3>1. /\ m.epoch = promise[j] /\ m.epoch > 0 /\ Owner(m.epoch) = j
          /\ promise'[j] = promise[j] /\ ~preparing'[j]
      BY <1>3, <1>6, <2>2 DEF Sent
    <3> QED BY <1>3, <1>4, <2>2, <3>1 DEF GoodPacket, Begun, Led
  <2>3. CASE m.kind \in {"Heartbeat", "Nack"}
    <3>1. m.epoch = promise[j] BY <1>3, <1>6, <2>3 DEF Sent
    <3>2. Begun(m.epoch) BY <3>1 DEF Shape, Roles
    <3>3. Begun(m.epoch)' BY <1>4, <3>1, <3>2, EpochsGrow DEF Begun
    <3> QED BY <1>3, <1>4, <2>3, <3>1, <3>3 DEF GoodPacket, Begun
  <2>4. CASE m.kind \notin {"Prepare", "Accept", "Heartbeat", "Nack"} BY <2>4 DEF GoodPacket
  <2> QED BY <2>1, <2>2, <2>3, <2>4
<1> QED BY <1>5, <1>6 DEF SendMoves

LEMMA PromiseShapeStep ==
    ASSUME TypeOK, TypeOK', Shape, RoleMoves, PageMoves
    PROVE  PromiseShape'
<1>1. ASSUME NEW p \in Promised, p.epoch = promise'[p.from] => p \in frozen'[p.from]
      PROVE  GoodPage(p)'
  <2>1. p.from \in Replica /\ p.epoch \in Epoch /\ Owner(p.epoch) \in Replica /\ p.epoch \in Nat
    BY Pages, PageFields, Naturals
  <2>2. PICK q \in Replica, o \in Replica : q = p.from /\ o = Owner(p.epoch) BY <2>1
  <2>3. GoodPage(p) BY DEF Shape, PromiseShape
  <2>4. Begun(p.epoch)' BY <2>1, <2>3, EpochsGrow DEF GoodPage, Begun
  <2>5. /\ promise[q] <= promise'[q] /\ promise[q] \in Nat /\ promise'[q] \in Nat
        /\ promise[o] <= promise'[o] /\ promise[o] \in Nat /\ promise'[o] \in Nat
    BY Ranges DEF RoleMoves, RoleMove
  <2>6. p.epoch <= promise'[q] BY <2>1, <2>2, <2>3, <2>5 DEF GoodPage
  <2>7. ASSUME promise'[o] = p.epoch PROVE p.start = start'[o]
    <3>1. p.epoch <= promise[o] BY <2>2, <2>3 DEF GoodPage, Begun
    <3>2. promise[o] = p.epoch BY <2>1, <2>5, <2>7, <3>1
    <3>3. start'[o] = start[o] BY <2>7, <3>2 DEF RoleMoves, RoleMove
    <3> QED BY <2>2, <2>3, <3>2, <3>3 DEF GoodPage
  <2> QED BY <1>1, <2>2, <2>3, <2>4, <2>6, <2>7 DEF GoodPage, Begun
<1>2. ASSUME NEW p \in Promised, promise'[p.from] = promise[p.from], p.epoch = promise'[p.from]
      PROVE  p \in frozen[p.from]
  BY <1>2 DEF Shape, PromiseShape, GoodPage
<1>3. ASSUME NEW p \in Promised, p.epoch = promise'[p.from]
      PROVE  promise'[p.from] = promise[p.from]
  <2>1. p.from \in Replica /\ p.epoch \in Nat BY Pages, PageFields, Naturals
  <2>2. p.epoch <= promise[p.from] BY DEF Shape, PromiseShape, GoodPage
  <2> QED BY <1>3, <2>1, <2>2, Ranges DEF RoleMoves, RoleMove
<1>4. CASE /\ Promised' \subseteq Promised
           /\ \A i \in Replica : frozen'[i] = IF promise'[i] = promise[i] THEN frozen[i] ELSE {}
  <2>1. \A p \in Promised' : GoodPage(p)'
    <3> SUFFICES ASSUME NEW p \in Promised' PROVE GoodPage(p)' OBVIOUS
    <3>1. p \in Promised /\ p.from \in Replica BY <1>4, Pages, PageFields
    <3> QED BY <1>1, <1>2, <1>3, <1>4, <3>1
  <2>2. ASSUME NEW i \in Replica, NEW p \in frozen'[i]
        PROVE  p.from = i /\ p.epoch = promise'[i] /\ Cardinality(frozen'[i]) = p.pages
    <3>1. promise'[i] = promise[i] /\ frozen'[i] = frozen[i] BY <1>4, <2>2
    <3> QED BY <2>2, <3>1 DEF Shape, PromiseShape
  <2> QED BY <2>1, <2>2 DEF PromiseShape
<1>5. ASSUME NEW i \in Replica, NEW S, NEW j \in Replica, NEW e \in Epoch,
             NEW st \in 0..(MaxSlot + 1), NewSnapshot(i, j, e, st, S)
      PROVE  PromiseShape'
  <2>1. ASSUME NEW p \in Promised, p.epoch = promise'[p.from] PROVE p \in frozen'[p.from]
    <3>1. p.from \in Replica BY Pages, PageFields
    <3>2. p \in frozen[p.from] /\ promise'[p.from] = promise[p.from] BY <1>2, <1>3, <2>1
    <3>3. p.from # i BY <1>5, <3>2 DEF NewSnapshot
    <3> QED BY <1>5, <3>1, <3>2, <3>3 DEF NewSnapshot
  <2>2. ASSUME NEW p \in S PROVE GoodPage(p)'
    <3>1. p.from = i /\ p.epoch = e /\ p.start = st /\ p.high = high[i]
      BY <1>5, <2>2 DEF NewSnapshot, SnapshotFacts
    <3>2. e > 0 /\ Begun(e)' /\ e <= promise'[i] /\ p \in frozen'[i]
      BY <1>5, <2>2, EpochsGrow, Naturals DEF NewSnapshot
    <3>3. ASSUME promise'[j] = e PROVE st = start'[j]
      <4>1. e <= promise[j] /\ start'[j] = start[j] BY <1>5 DEF NewSnapshot
      <4>2. promise[j] = e BY <3>3, <4>1, Ranges, Naturals DEF RoleMoves, RoleMove
      <4> QED BY <1>5, <4>1, <4>2 DEF NewSnapshot
    <3>4. ASSUME NEW x \in p.entries
          PROVE  p.start <= x.slot /\ x.slot <= p.high /\ (~x.decided /\ x.epoch = 0 => x.value # Noop)
      <4>1. PICK s \in st..high[i] : x \in Report(i, s)
        BY <1>5, <2>2, <3>4 DEF NewSnapshot, SnapshotFacts
      <4>2. s \in Slot /\ s \in Int /\ st <= s /\ s <= high[i]
        BY Numbers, BoundAssumption DEF Slot
      <4>3. x.slot = s BY <4>1 DEF Report
      <4>4. ~x.decided => accepted[i][s] # None /\ x.epoch = accepted[i][s].epoch
                            /\ x.value = accepted[i][s].value
        BY <4>1 DEF Report
      <4> QED BY <3>1, <4>2, <4>3, <4>4 DEF Shape, VoteShape
    <3>5. j = Owner(e) BY <1>5 DEF NewSnapshot
    <3> QED BY <3>1, <3>2, <3>3, <3>4, <3>5 DEF GoodPage, Begun
  <2>3. \A p \in Promised' : GoodPage(p)'
    <3> SUFFICES ASSUME NEW p \in Promised' PROVE GoodPage(p)' OBVIOUS
    <3>1. p \in Promised \/ p \in S BY <1>5 DEF NewSnapshot
    <3> QED BY <1>1, <2>1, <2>2, <3>1
  <2>4. ASSUME NEW k \in Replica, NEW p \in frozen'[k]
        PROVE  p.from = k /\ p.epoch = promise'[k] /\ Cardinality(frozen'[k]) = p.pages
    <3>1. CASE k = i BY <1>5, <2>4, <3>1 DEF NewSnapshot, SnapshotFacts
    <3>2. CASE k # i
      <4>1. promise'[k] = promise[k] /\ frozen'[k] = frozen[k] BY <1>5, <3>2 DEF NewSnapshot
      <4> QED BY <2>4, <4>1 DEF Shape, PromiseShape
    <3> QED BY <3>1, <3>2
  <2> QED BY <2>3, <2>4 DEF PromiseShape
<1> QED BY <1>4, <1>5, PagesMove

\* The pages of one promise are one snapshot, or what is left of it.
Uniform(T) ==
    /\ IsFiniteSet(T)
    /\ \A p, r \in T :
          /\ p.pages = r.pages /\ p.high = r.high /\ p.start = r.start
          /\ p.page = r.page => p = r
          /\ Cardinality(T) <= p.pages
          /\ \A x \in p.entries, y \in r.entries : x.slot = y.slot => x = y
LEMMA UniformPart ==
    ASSUME NEW T \in SUBSET Page, Uniform(T), NEW U \in SUBSET T
    PROVE  Uniform(U)
<1>1. IsFiniteSet(U) /\ Cardinality(U) <= Cardinality(T) BY FS_Subset DEF Uniform
<1>2. Cardinality(U) \in Nat /\ Cardinality(T) \in Nat BY <1>1, CardNat DEF Uniform
<1>3. \A p \in U : Cardinality(U) <= p.pages
  <2> SUFFICES ASSUME NEW p \in U PROVE Cardinality(U) <= p.pages OBVIOUS
  <2>1. p.pages \in Nat /\ Cardinality(T) <= p.pages BY PageFields DEF Uniform
  <2> QED BY <1>1, <1>2, <2>1
<1> QED BY <1>1, <1>3 DEF Uniform

\* What a step can do to the pages of a promise.
LEMMA PagesOfMove ==
    ASSUME TypeOK, TypeOK', Shape, PageMoves, NEW q \in Replica, NEW c \in Epoch
    PROVE  \/ PagesOf(q, c)' \subseteq PagesOf(q, c)
           \/ \E S : \E j \in Replica, st \in 0..(MaxSlot + 1) :
                 /\ NewSnapshot(q, j, c, st, S) /\ PagesOf(q, c) = {} /\ PagesOf(q, c)' = S
<1>1. CASE Promised' \subseteq Promised BY <1>1 DEF PagesOf
<1>2. ASSUME NEW i \in Replica, NEW S, NEW j \in Replica, NEW e \in Epoch,
             NEW st \in 0..(MaxSlot + 1), NewSnapshot(i, j, e, st, S)
      PROVE  \/ PagesOf(q, c)' \subseteq PagesOf(q, c)
             \/ /\ q = i /\ c = e /\ PagesOf(q, c) = {} /\ PagesOf(q, c)' = S
  <2>1. Promised' \subseteq Promised \cup S /\ S \subseteq Promised'
    BY <1>2 DEF NewSnapshot, Promised
  <2>2. \A p \in S : p.from = i /\ p.epoch = e BY <1>2 DEF NewSnapshot, SnapshotFacts
  <2>3. CASE q = i /\ c = e
    <3>1. PagesOf(q, c) = {} BY <1>2, <2>3, FirstSnapshot
    <3>2. PagesOf(q, c)' = S BY <2>1, <2>2, <2>3, <3>1 DEF PagesOf
    <3> QED BY <2>3, <3>1, <3>2
  <2>4. CASE ~(q = i /\ c = e) BY <2>1, <2>2, <2>4 DEF PagesOf
  <2> QED BY <2>3, <2>4
<1> QED BY <1>1, <1>2, PagesMove

LEMMA OneSnapshotStep ==
    ASSUME TypeOK, TypeOK', Shape, PageMoves
    PROVE  OneSnapshot'
<1> SUFFICES ASSUME NEW q \in Replica, NEW e \in Epoch PROVE Uniform(PagesOf(q, e)')
  BY DEF OneSnapshot, Uniform
<1>1. CASE PagesOf(q, e)' \subseteq PagesOf(q, e)
  <2>1. Uniform(PagesOf(q, e)) BY DEF Shape, OneSnapshot, Uniform
  <2>2. PagesOf(q, e) \in SUBSET Page BY Pages
  <2> QED BY <1>1, <2>1, <2>2, UniformPart
<1>2. ASSUME NEW S, NEW j \in Replica, NEW st, NewSnapshot(q, j, e, st, S), PagesOf(q, e)' = S
      PROVE  Uniform(PagesOf(q, e)')
  <2>1. SnapshotFacts(S, q, j, e, st) BY <1>2 DEF NewSnapshot
  <2>2. Cardinality(S) \in Nat BY <2>1, CardNat DEF SnapshotFacts
  <2>3. Uniform(S) BY <2>1, <2>2 DEF SnapshotFacts, Uniform
  <2> QED BY <1>2, <2>3
<1> QED BY <1>1, <1>2, PagesOfMove

\* What Preparation says of one replica.
Prepared(i) ==
    /\ \A p \in pages[i] : p.epoch = promise[i] /\ p.start = start[i]
    /\ (\E m \in msgs : OwnPage(i, m)) => \A p \in pages[i] : p.from = i
    /\ \A p \in frozen[i] : \A s \in Slot : accepted[i][s] # None => s <= p.high
    /\ \/ i \in crashed
       \/ \E m \in msgs : OwnPage(i, m) /\ m.kind = "Prepare" /\ frozen[i] = {}
       \/ /\ frozen[i] # {}
          /\ \A p \in frozen[i] : p \in pages[i] \/ (p \in msgs /\ p.to = i)

\* The pages a replica has frozen are its own, for the epoch it is in.
LEMMA FrozenOwn ==
    ASSUME TypeOK, Shape, NEW i \in Replica, NEW p \in frozen[i]
    PROVE  /\ p.kind = "Promise" /\ p.from = i /\ p.epoch = promise[i]
           /\ p.to = i => OwnPage(i, p)
<1>1. p \in Page BY DEF TypeOK
<1>2. p.kind = "Promise" BY <1>1, PageFields
<1>3. p.from = i /\ p.epoch = promise[i] BY DEF Shape, PromiseShape
<1> QED BY <1>2, <1>3 DEF OwnPage

LEMMA StillPrepared ==
    ASSUME TypeOK, Shape, NEW i \in Replica, StillPrepares(i)
    PROVE  Prepared(i)'
<1>1. Prepared(i) BY DEF Shape, Preparation, Prepared, StillPrepares
<1>2. /\ promise'[i] = promise[i] /\ start'[i] = start[i] /\ pages'[i] = pages[i]
      /\ frozen'[i] = frozen[i] /\ accepted'[i] = accepted[i] /\ (i \in crashed => i \in crashed')
  BY DEF StillPrepares
<1>3. \A p \in pages'[i] : p.epoch = promise'[i] /\ p.start = start'[i]
  BY <1>1, <1>2 DEF Prepared
<1>4. (\E m \in msgs' : OwnPage(i, m)') => \A p \in pages'[i] : p.from = i
  <2>1. \A m \in msgs' : OwnPage(i, m)' => m \in msgs /\ OwnPage(i, m)
    BY <1>2 DEF OwnPage, StillPrepares
  <2> QED BY <1>1, <1>2, <2>1 DEF Prepared
<1>5. \A p \in frozen'[i] : \A s \in Slot : accepted'[i][s] # None => s <= p.high
  BY <1>1, <1>2 DEF Prepared
<1>6. \/ i \in crashed'
      \/ \E m \in msgs' : OwnPage(i, m)' /\ m.kind = "Prepare" /\ frozen'[i] = {}
      \/ frozen'[i] # {} /\ \A p \in frozen'[i] : p \in pages'[i] \/ (p \in msgs' /\ p.to = i)
  <2> SUFFICES ASSUME i \notin crashed'
               PROVE  \/ \E m \in msgs' : OwnPage(i, m)' /\ m.kind = "Prepare" /\ frozen'[i] = {}
                      \/ /\ frozen'[i] # {}
                         /\ \A p \in frozen'[i] : p \in pages'[i] \/ (p \in msgs' /\ p.to = i)
    OBVIOUS
  <2>1. i \notin crashed /\ \A m \in msgs : OwnPage(i, m) => m \in msgs' /\ OwnPage(i, m)'
    BY <1>2 DEF StillPrepares, OwnPage
  <2>2. CASE \E m \in msgs : OwnPage(i, m) /\ m.kind = "Prepare" /\ frozen[i] = {}
    BY <1>2, <2>1, <2>2
  <2>3. CASE frozen[i] # {} /\ \A p \in frozen[i] : p \in pages[i] \/ (p \in msgs /\ p.to = i)
    <3>1. \A p \in frozen[i] : p.to = i => OwnPage(i, p) BY FrozenOwn
    <3>2. \A p \in frozen[i] : p \in pages[i] \/ (p \in msgs' /\ p.to = i)
      BY <2>1, <2>3, <3>1
    <3> QED BY <1>2, <2>3, <3>2
  <2> QED BY <1>1, <2>1, <2>2, <2>3 DEF Prepared
<1> QED BY <1>3, <1>4, <1>5, <1>6 DEF Prepared

LEMMA BeginPrepared ==
    ASSUME TypeOK, Shape, NEW i \in Replica, NEW due, TickBegin(i, due)
    PROVE  Prepared(i)'
<1>1. pages'[i] = {} /\ frozen'[i] = {} /\ promise'[i] = NextEpoch(i)
  BY DEF TickBegin, TypeOK
<1>2. PICK m : m = Prepare(i, i, NextEpoch(i), executed[i] + 1) OBVIOUS
<1>3. m \in msgs' BY <1>2 DEF TickBegin, Post
<1>4. OwnPage(i, m)' /\ m.kind = "Prepare" BY <1>1, <1>2 DEF OwnPage, Prepare
<1> QED BY <1>1, <1>3, <1>4 DEF Prepared

LEMMA AskPrepared ==
    ASSUME TypeOK, Shape, NEW i \in Replica, NEW m \in msgs, Arrives(i, m), ReceivePrepare(i, m),
           preparing'[i]
    PROVE  Prepared(i)'
<1>1. /\ m.kind = "Prepare" /\ m.epoch >= promise[i] /\ m.epoch \in Epoch /\ m.from \in Replica
      /\ m.start \in 0..(MaxSlot + 1) /\ m.to = i
  BY PacketFields DEF TypeOK, ReceivePrepare, Arrives
<1>2. m.epoch = promise[i] /\ preparing[i]
  <2>1. CASE m.epoch > promise[i]
    <3>1. preparing' = [preparing EXCEPT ![i] = FALSE] BY <2>1 DEF ReceivePrepare
    <3> QED BY <3>1 DEF TypeOK
  <2>2. CASE ~(m.epoch > promise[i])
    <3>0. m.epoch \in Nat /\ promise[i] \in Nat BY <1>1, Numbers, Naturals
    <3>1. m.epoch = promise[i] BY <1>1, <2>2, <3>0
    <3>2. preparing' = preparing BY <2>2 DEF ReceivePrepare
    <3> QED BY <3>1, <3>2
  <2> QED BY <2>1, <2>2
<1>3. /\ promise'[i] = promise[i] /\ start' = start /\ pages' = pages /\ accepted' = accepted
      /\ frozen'[i] = PromisePages(i, m) /\ PromisePages(i, m) \subseteq msgs'
  BY <1>2 DEF ReceivePrepare, TypeOK, slotVars, Post
<1>4. m.from = i
  <2>1. GoodPacket(m) BY DEF Shape, Traffic
  <2> QED BY <1>1, <1>2, <2>1 DEF GoodPacket, Shape, Roles
<1>5. Prepared(i) BY <1>2 DEF Shape, Preparation, Prepared
<1>6. \A p \in pages[i] : p.from = i
  <2>1. OwnPage(i, m) BY <1>1, <1>2, <1>4 DEF OwnPage
  <2> QED BY <1>5, <2>1 DEF Prepared
<1>7. /\ frozen'[i] # {}
      /\ \A p \in frozen'[i] : p \in pages[i] \/ p.to = i
      /\ \A p \in frozen'[i] : \A s \in Slot : accepted[i][s] # None => s <= p.high
  <2>1. CASE frozen[i] # {}
    <3>1. frozen'[i] = frozen[i] BY <1>2, <1>3, <2>1 DEF PromisePages
    <3>2. \A p \in frozen[i] : \A s \in Slot : accepted[i][s] # None => s <= p.high
      BY <1>5 DEF Prepared
    <3>3. \A p \in frozen[i] : p \in pages[i] \/ p.to = i
      <4>1. i \notin crashed BY DEF Arrives
      <4> QED BY <1>5, <2>1, <4>1 DEF Prepared
    <3> QED BY <2>1, <3>1, <3>2, <3>3
  <2>2. CASE frozen[i] = {}
    <3>1. PICK S : S = Snapshot(i, m.from, m.epoch, m.start) OBVIOUS
    <3>2. SnapshotFacts(S, i, m.from, m.epoch, m.start) BY <1>1, <3>1, SnapshotForm
    <3>3. frozen'[i] = S BY <1>3, <2>2, <3>1 DEF PromisePages
    <3>4. S # {} /\ \A p \in S : p.to = i /\ p.high = high[i] BY <1>4, <3>2 DEF SnapshotFacts
    <3>5. \A s \in Slot : accepted[i][s] # None => s <= high[i] BY DEF Shape, VoteShape
    <3> QED BY <3>3, <3>4, <3>5
  <2> QED BY <2>1, <2>2
<1>8. \A p \in pages'[i] : p.epoch = promise'[i] /\ p.start = start'[i]
  BY <1>3, <1>5 DEF Prepared
<1>9. \A p \in frozen'[i] : p \in pages'[i] \/ (p \in msgs' /\ p.to = i)
  BY <1>3, <1>7
<1> QED BY <1>3, <1>6, <1>7, <1>8, <1>9 DEF Prepared

LEMMA CollectPrepared ==
    ASSUME TypeOK, Shape, NEW i \in Replica, NEW m \in msgs, Arrives(i, m), CollectPromise(i, m)
    PROVE  Prepared(i)'
<1>1. /\ m.kind = "Promise" /\ preparing[i] /\ m.epoch = promise[i] /\ m.start = start[i]
      /\ pages'[i] = Collected(i, m) /\ m.to = i
      /\ UNCHANGED <<promise, start, frozen, accepted, crashed>>
  BY DEF CollectPromise, PromiseExpected, TypeOK, roleVars, slotVars, envVars, Arrives
<1>2. msgs' \subseteq msgs /\ \A x \in msgs : x # m => x \in msgs'
  BY DEF CollectPromise, Post, Used
<1>3. Prepared(i) BY <1>1 DEF Shape, Preparation, Prepared
<1>4. pages[i] \subseteq pages'[i] /\ pages'[i] \subseteq pages[i] \cup {m}
  BY <1>1 DEF Collected
<1>5. \A p \in pages'[i] : p.epoch = promise'[i] /\ p.start = start'[i]
  BY <1>1, <1>3, <1>4 DEF Prepared
<1>6. ASSUME NEW x \in msgs', OwnPage(i, x)' PROVE \A p \in pages'[i] : p.from = i
  <2>1. x \in msgs /\ OwnPage(i, x) BY <1>1, <1>2, <1>6 DEF OwnPage
  <2>2. ~Idle BY <2>1 DEF Idle, OwnPage
  <2>3. m.from = i BY <2>2 DEF Arrives
  <2> QED BY <1>3, <1>4, <2>1, <2>3 DEF Prepared
<1>7. \A p \in frozen'[i] : \A s \in Slot : accepted'[i][s] # None => s <= p.high
  BY <1>1, <1>3 DEF Prepared
<1>8. m \in frozen[i] => m \in pages'[i]
  <2> SUFFICES ASSUME m \in frozen[i], m \notin pages'[i] PROVE FALSE OBVIOUS
  <2>1. PICK p \in PagesFrom(pages[i], m.from) : p.page = m.page BY <1>1 DEF Collected
  <2>2. p \in pages[i] /\ p.from = m.from BY DEF PagesFrom
  <2>3. p \in Promised /\ m \in Promised BY <1>1, <2>2 DEF Promised
  <2>4. p.epoch = promise[i] /\ m.from = i BY <1>3, <2>2, FrozenOwn DEF Prepared
  <2>5. p \in PagesOf(i, promise[i]) /\ m \in PagesOf(i, promise[i])
    BY <1>1, <2>2, <2>3, <2>4 DEF PagesOf
  <2>6. p = m BY <2>1, <2>5, Numbers DEF Shape, OneSnapshot
  <2> QED BY <1>4, <2>2, <2>6
<1>9. \/ i \in crashed'
      \/ \E x \in msgs' : OwnPage(i, x)' /\ x.kind = "Prepare" /\ frozen'[i] = {}
      \/ frozen'[i] # {} /\ \A p \in frozen'[i] : p \in pages'[i] \/ (p \in msgs' /\ p.to = i)
  <2>1. i \notin crashed BY DEF Arrives
  <2>2. CASE \E x \in msgs : OwnPage(i, x) /\ x.kind = "Prepare" /\ frozen[i] = {}
    <3>1. PICK x \in msgs : OwnPage(i, x) /\ x.kind = "Prepare" /\ frozen[i] = {} BY <2>2
    <3>2. x \in msgs' BY <1>1, <1>2, <3>1
    <3> QED BY <1>1, <3>1, <3>2 DEF OwnPage
  <2>3. CASE frozen[i] # {} /\ \A p \in frozen[i] : p \in pages[i] \/ (p \in msgs /\ p.to = i)
    <3>1. \A p \in frozen[i] : p \in pages'[i] \/ (p \in msgs' /\ p.to = i)
      BY <1>2, <1>4, <1>8, <2>3
    <3> QED BY <1>1, <2>3, <3>1
  <2> QED BY <1>3, <2>1, <2>2, <2>3 DEF Prepared
<1> QED BY <1>5, <1>6, <1>7, <1>9 DEF Prepared

LEMMA PreparationStep ==
    ASSUME TypeOK, TypeOK', Shape, PrepareMoves
    PROVE  Preparation'
<1> SUFFICES ASSUME NEW i \in Replica, preparing'[i] PROVE Prepared(i)'
  BY DEF Preparation, Prepared
<1>1. CASE StillPrepares(i) BY <1>1, StillPrepared
<1>2. CASE \E due : TickBegin(i, due) BY <1>2, BeginPrepared
<1>3. ASSUME NEW m \in msgs, Arrives(i, m), ReceivePrepare(i, m) PROVE Prepared(i)'
  BY <1>3, AskPrepared
<1>4. ASSUME NEW m \in msgs, Arrives(i, m), CollectPromise(i, m) PROVE Prepared(i)'
  BY <1>4, CollectPrepared
<1> QED BY <1>1, <1>2, <1>3, <1>4 DEF PrepareMoves

\* All that Shape says is kept.
LEMMA ShapeStep ==
    ASSUME TypeOK, TypeOK', Shape, Moves
    PROVE  Shape'
<1>1. /\ RoleMoves /\ VoteMoves /\ PlanMoves /\ SendMoves /\ PageMoves /\ PrepareMoves
      /\ Roles
  BY DEF Moves, Shape
<1>2. Roles' BY <1>1, RolesStep
<1>3. Plans' BY <1>1, PlansStep
<1>4. VoteShape' BY <1>1, VoteShapeStep
<1>5. Traffic' BY <1>1, TrafficStep
<1>6. PromiseShape' BY <1>1, PromiseShapeStep
<1>7. OneSnapshot' BY <1>1, OneSnapshotStep
<1>8. Preparation' BY <1>1, PreparationStep
<1> QED BY <1>2, <1>3, <1>4, <1>5, <1>6, <1>7, <1>8 DEF Shape

-----------------------------------------------------------------------------
(***************************************************************************)
(* Votes and promises keep what they hold.                                 *)
(***************************************************************************)
\* Replicas, and the replicas of a quorum, are finitely many.
LEMMA Replicas ==
    /\ IsFiniteSet(Replica) /\ Cardinality(Replica) = N /\ Replica \in Quorum
    /\ \A e : QuorumOf(e) \subseteq Quorum
    /\ \A Q \in SUBSET Replica : IsFiniteSet(Q) /\ Cardinality(Q) \in Nat /\ Cardinality(Q) <= N
<1>1. IsFiniteSet(Replica) /\ Cardinality(Replica) = N
  <2>1. 0 \in Int /\ N - 1 \in Int /\ N \in Nat /\ N >= 3 BY NAssumption
  <2> QED BY <2>1, IntervalSize DEF Replica
<1>2. \A Q \in SUBSET Replica : IsFiniteSet(Q) /\ Cardinality(Q) \in Nat /\ Cardinality(Q) <= N
  <2> SUFFICES ASSUME NEW Q \in SUBSET Replica
               PROVE  IsFiniteSet(Q) /\ Cardinality(Q) \in Nat /\ Cardinality(Q) <= N
    OBVIOUS
  <2>1. IsFiniteSet(Q) /\ Cardinality(Q) <= N BY <1>1, FS_Subset
  <2> QED BY <2>1, CardNat
<1>3. FastQuorum >= Majority /\ Majority <= N
  <2>1. N \in Nat /\ N >= 3 BY NAssumption
  <2>2. PICK k \in Nat : k = N \div 2 BY <2>1
  <2>3. 2 * k <= N BY <2>1, <2>2
  <2>4. Majority = k + 1 BY <2>2 DEF Majority
  <2> QED BY <2>1, <2>3, <2>4, Sizes
<1>4. Replica \in Quorum BY <1>1, <1>3 DEF Quorum
<1>5. ASSUME NEW e PROVE QuorumOf(e) \subseteq Quorum
  BY <1>2, <1>3, Sizes DEF QuorumOf, Quorum
<1> QED BY <1>1, <1>2, <1>4, <1>5

\* Two majorities share a replica.
LEMMA QuorumsMeet ==
    ASSUME NEW Q \in Quorum, NEW R \in Quorum
    PROVE  \E q \in Replica : q \in Q /\ q \in R
<1>1. Q \subseteq Replica /\ R \subseteq Replica BY DEF Quorum
<1>2. Cardinality(Q) + Cardinality(R) > Cardinality(Replica)
  <2>1. Cardinality(Q) >= Majority /\ Cardinality(R) >= Majority BY DEF Quorum
  <2> QED BY <1>1, <2>1, Replicas, Sizes
<1>3. Q \cap R # {} BY <1>1, <1>2, Replicas, FS_MajoritiesIntersect
<1> QED BY <1>1, <1>3

\* How many replicas of R are in Q.
LEMMA Overlap ==
    ASSUME NEW Q \in SUBSET Replica, NEW R \in SUBSET Replica
    PROVE  Cardinality(Q \cap R) >= Cardinality(Q) + Cardinality(R) - N
<1>1. IsFiniteSet(Q) /\ IsFiniteSet(R) /\ Q \cup R \in SUBSET Replica /\ Q \cap R \in SUBSET Replica
  BY Replicas
<1>2. Cardinality(Q \cup R) = Cardinality(Q) + Cardinality(R) - Cardinality(Q \cap R)
  BY <1>1, FS_Union
<1> QED BY <1>1, <1>2, Replicas, NAssumption

\* Two fast quorums share a replica of every majority.
LEMMA FastMeet ==
    ASSUME NEW Q \in QuorumOf(0), NEW P \in QuorumOf(0), NEW R \in Quorum
    PROVE  \E q \in Replica : q \in Q /\ q \in P /\ q \in R
<1>1. /\ Q \in SUBSET Replica /\ P \in SUBSET Replica /\ R \in SUBSET Replica
      /\ Cardinality(Q) >= FastQuorum /\ Cardinality(P) >= FastQuorum /\ Cardinality(R) >= Majority
  BY DEF Quorum, QuorumOf
<1>2. Q \cap P \in SUBSET Replica /\ Q \cap P \cap R \in SUBSET Replica BY <1>1
<1>3. Cardinality(Q \cap P) >= Cardinality(Q) + Cardinality(P) - N BY <1>1, Overlap
<1>4. Cardinality(Q \cap P \cap R) >= Cardinality(Q \cap P) + Cardinality(R) - N
  BY <1>1, <1>2, Overlap
<1>5. /\ Cardinality(Q) \in Nat /\ Cardinality(P) \in Nat /\ Cardinality(R) \in Nat
      /\ Cardinality(Q \cap P) \in Nat /\ Cardinality(Q \cap P \cap R) \in Nat
  BY <1>1, <1>2, Replicas
<1>6. Cardinality(Q \cap P \cap R) > 0 BY <1>1, <1>3, <1>4, <1>5, Sizes, NAssumption
<1>7. Q \cap P \cap R # {} BY <1>6, FS_EmptySet
<1> QED BY <1>1, <1>7

\* A vote is overwritten in a later epoch only.
LEMMA HoldsGrow ==
    ASSUME TypeOK, TypeOK', Shape, RoleMoves, VoteMoves, NEW q \in Replica, NEW s \in Slot,
           NEW e \in Epoch, NEW v, Holds(q, s, e, v)
    PROVE  Holds(q, s, e, v)'
<1>1. PICK a : a = accepted[q][s] OBVIOUS
<1>2. a # None /\ Backs(a, e, v) BY <1>1 DEF Holds
<1>3. CASE accepted'[q][s] = accepted[q][s] BY <1>1, <1>2, <1>3 DEF Holds, Backs
<1>4. CASE FastVoted(q, s) BY <1>1, <1>2, <1>4 DEF FastVoted
<1>5. ASSUME NEW m \in msgs, ClassicVoted(q, s, m) PROVE Holds(q, s, e, v)'
  <2>1. /\ m.kind = "Accept" /\ m.epoch = promise'[q]
        /\ accepted'[q][s] = [epoch |-> m.epoch, value |-> m.value]
    BY <1>5 DEF ClassicVoted
  <2>2. m.epoch \in Epoch /\ m.value \in Command BY <2>1, PacketFields DEF TypeOK
  <2>3. m.epoch > 0 BY <2>1 DEF Shape, Traffic, GoodPacket
  <2>4. a.epoch \in Epoch /\ a.epoch <= promise[q] BY <1>1, <1>2, Ballot DEF Shape, VoteShape
  <2>5. m.epoch >= e
    <3>1. promise[q] <= promise'[q] BY DEF RoleMoves, RoleMove
    <3>2. a.epoch >= e BY <1>2 DEF Backs
    <3>3. {a.epoch, e, m.epoch, promise[q], promise'[q]} \subseteq Nat BY <2>2, <2>4, Ranges, Naturals
    <3> QED BY <2>1, <2>4, <3>1, <3>2, <3>3
  <2>6. accepted'[q][s] # None BY <2>1, <2>2, NoneAssumption
  <2>7. accepted'[q][s].epoch = m.epoch BY <2>1
  <2> QED BY <2>2, <2>3, <2>5, <2>6, <2>7 DEF Holds, Backs
<1> QED BY <1>3, <1>4, <1>5 DEF VoteMoves

\* A snapshot reports the vote its replica holds.
LEMMA SnapshotSays ==
    ASSUME TypeOK, Shape, NEW q \in Replica, NEW s \in Slot, NEW e \in Epoch, NEW v,
           Holds(q, s, e, v), NEW S, NEW j, NEW c, NEW st \in 0..(MaxSlot + 1),
           SnapshotFacts(S, q, j, c, st), st <= s
    PROVE  \E p \in S : Says(p, s, e, v)
<1>1. s \in st..high[q]
  <2>1. s <= high[q] BY DEF Holds, Shape, VoteShape
  <2> QED BY <2>1, Numbers, Naturals
<1>2. \E y \in Report(q, s) : y.slot = s /\ (y.decided \/ Backs(y, e, v))
  BY DEF Report, Holds, Backs
<1>3. PICK y \in Report(q, s) : y.slot = s /\ (y.decided \/ Backs(y, e, v)) BY <1>2
<1>4. PICK p \in S : y \in p.entries BY <1>1, <1>3 DEF SnapshotFacts
<1> QED BY <1>3, <1>4 DEF Says

\* What is left of a promise is either all of it or not whole.
LEMMA WholeBefore ==
    ASSUME TypeOK, TypeOK', Shape, NEW q \in Replica, NEW c \in Epoch,
           PagesOf(q, c)' \subseteq PagesOf(q, c), Whole(q, c)'
    PROVE  PagesOf(q, c)' = PagesOf(q, c) /\ Whole(q, c)
<1>1. PICK A : A = PagesOf(q, c) OBVIOUS
<1>2. PICK B : B = PagesOf(q, c)' OBVIOUS
<1>3. B \in SUBSET A /\ B # {} /\ \A p \in B : Cardinality(B) = p.pages BY <1>1, <1>2 DEF Whole
<1>4. IsFiniteSet(A) /\ \A p \in A, r \in A : p.pages = r.pages /\ Cardinality(A) <= p.pages
  BY <1>1 DEF Shape, OneSnapshot
<1>5. PICK p \in B : TRUE BY <1>3
<1>6. Cardinality(A) <= Cardinality(B) BY <1>3, <1>4, <1>5
<1>7. /\ Cardinality(B) <= Cardinality(A) /\ Cardinality(A) \in Nat /\ IsFiniteSet(B)
      /\ (Cardinality(A) = Cardinality(B) => A = B)
  BY <1>3, <1>4, FS_Subset, CardNat
<1>8. Cardinality(B) \in Nat BY <1>7, CardNat
<1>9. A = B BY <1>6, <1>7, <1>8
<1> QED BY <1>1, <1>2, <1>3, <1>9 DEF Whole

\* A replica keeps what it has kept.
LEMMA KeepsStays ==
    ASSUME TypeOK, TypeOK', Shape, RoleMoves, VoteMoves, PageMoves, NEW q \in Replica,
           NEW s \in Slot, NEW e \in Epoch, NEW v, Keeps(q, s, e, v)
    PROVE  Keeps(q, s, e, v)'
<1>1. Holds(q, s, e, v) BY DEF Keeps
<1>2. Holds(q, s, e, v)' BY <1>1, HoldsGrow
<1>3. ASSUME NEW c \in Epoch, c > e, Whole(q, c)', \A p \in PagesOf(q, c)' : p.start <= s
      PROVE  \E p \in PagesOf(q, c)' : Says(p, s, e, v)
  <2>1. CASE PagesOf(q, c)' \subseteq PagesOf(q, c)
    <3>1. PagesOf(q, c)' = PagesOf(q, c) /\ Whole(q, c) BY <1>3, <2>1, WholeBefore
    <3> QED BY <1>3, <3>1 DEF Keeps, Tells
  <2>2. ASSUME NEW S, NEW j \in Replica, NEW st \in 0..(MaxSlot + 1),
               NewSnapshot(q, j, c, st, S), PagesOf(q, c)' = S
        PROVE  \E p \in PagesOf(q, c)' : Says(p, s, e, v)
    <3>1. SnapshotFacts(S, q, j, c, st) BY <2>2 DEF NewSnapshot
    <3>2. st <= s BY <1>3, <2>2, <3>1 DEF SnapshotFacts
    <3> QED BY <1>1, <2>2, <3>1, <3>2, SnapshotSays
  <2> QED BY <2>1, <2>2, PagesOfMove
<1>4. \A c \in Epoch : c > e => Tells(q, c, s, e, v)' BY <1>3 DEF Tells, Says
<1> QED BY <1>2, <1>4 DEF Keeps

\* No promise for a later epoch is there to hide a vote of the current one.
LEMMA FreshKeeps ==
    ASSUME TypeOK, Shape, NEW q \in Replica, NEW s \in Slot, NEW e \in Epoch, NEW v,
           Holds(q, s, e, v), promise[q] <= e
    PROVE  Keeps(q, s, e, v)
<1>1. ASSUME NEW c \in Epoch, c > e, Whole(q, c) PROVE FALSE
  <2>1. PICK p \in PagesOf(q, c) : TRUE BY <1>1 DEF Whole
  <2>2. p \in Promised /\ p.from = q /\ p.epoch = c BY DEF PagesOf
  <2>3. c <= promise[q] BY <2>2 DEF Shape, PromiseShape, GoodPage
  <2> QED BY <1>1, <2>3, Numbers, Naturals
<1> QED BY <1>1 DEF Keeps, Tells
LEMMA FreshKeepsNext ==
    ASSUME TypeOK', Shape', NEW q \in Replica, NEW s \in Slot, NEW e \in Epoch, NEW v,
           Holds(q, s, e, v)', promise'[q] <= e
    PROVE  Keeps(q, s, e, v)'
<1>1. ASSUME NEW c \in Epoch, c > e, Whole(q, c)' PROVE FALSE
  <2>1. PICK p \in PagesOf(q, c)' : TRUE BY <1>1 DEF Whole
  <2>2. p \in Promised' /\ p.from = q /\ p.epoch = c BY DEF PagesOf
  <2>3. c <= promise'[q] BY <2>2 DEF Shape, PromiseShape, GoodPage
  <2>4. promise'[q] \in Nat /\ c \in Nat /\ e \in Nat BY Naturals DEF TypeOK
  <2> QED BY <1>1, <2>3, <2>4
<1> QED BY <1>1 DEF Keeps, Tells

-----------------------------------------------------------------------------
(***************************************************************************)
(* Where plans, votes and decisions come from.                             *)
(***************************************************************************)
\* A plan stays while its coordinator stays in the epoch.
LEMMA PlanStays ==
    ASSUME TypeOK, TypeOK', Shape, RoleMoves, PlanMoves, NEW i \in Replica, NEW s \in Slot,
           Planning(i, s), promise'[i] = promise[i]
    PROVE  Planning(i, s)' /\ proposed'[i][s] = proposed[i][s]
<1>1. ~NewPlan(i, s) BY FirstPlan
<1>2. proposed'[i][s] = proposed[i][s] BY <1>1 DEF PlanMoves
<1> QED BY <1>2 DEF Planning

\* An acknowledgement is an old one, or comes with a vote in the current epoch.
FreshAck(q, e, s, v) ==
    /\ promise'[q] = e /\ Holds(q, s, e, v)'
    /\ e > 0 => \E a \in msgs : a.kind = "Accept" /\ a.epoch = e /\ a.slot = s
LEMMA AckedBack ==
    ASSUME TypeOK, TypeOK', Shape, Moves, NEW q \in Replica, NEW e \in Epoch, NEW s \in Slot,
           NEW v \in Command, Acked(q, e, s, v)'
    PROVE  Acked(q, e, s, v) \/ FreshAck(q, e, s, v)
<1>1. AckMoves /\ SendMoves /\ PlanMoves /\ RoleMoves BY DEF Moves
<1>2. ASSUME e = 0, NEW m \in msgs', m.kind = "Vote", m.from = q, m.slot = s, m.value = v
      PROVE  Acked(q, e, s, v) \/ FreshAck(q, e, s, v)
  <2>1. CASE m \in msgs BY <1>2, <2>1 DEF Acked
  <2>2. CASE Sent(m)
    <3>1. promise'[q] = 0 /\ accepted'[q][s] = [epoch |-> 0, value |-> v]
      BY <1>2, <2>2 DEF Sent
    <3>2. accepted'[q][s] # None BY <3>1, Naturals, NoneAssumption
    <3> QED BY <1>2, <3>1, <3>2 DEF FreshAck, Holds, Backs
  <2> QED BY <1>1, <2>1, <2>2 DEF SendMoves
<1>3. ASSUME e = 0, NEW j \in Replica, NEW x \in votes'[j][s], x.from = q, x.value = v
      PROVE  Acked(q, e, s, v)
  <2>1. CASE x \in votes[j][s] BY <1>3, <2>1 DEF Acked
  <2>2. CASE \E m \in msgs : m.kind = "Vote" /\ m.from = x.from /\ m.slot = s /\ m.value = x.value
    BY <1>3, <2>2 DEF Acked
  <2> QED BY <1>1, <2>1, <2>2 DEF AckMoves
<1>4. ASSUME e > 0, NEW m \in msgs', m.kind = "Accepted", m.from = q, m.epoch = e, m.slot = s
      PROVE  Acked(q, e, s, v) \/ FreshAck(q, e, s, v)
  <2>1. CASE m \in msgs BY <1>4, <2>1 DEF Acked
  <2>2. CASE Sent(m)
    <3>1. /\ promise'[q] = e /\ accepted'[q][s] # None /\ accepted'[q][s].epoch = e
          /\ \E a \in msgs : a.kind = "Accept" /\ a.epoch = e /\ a.slot = s
      BY <1>4, <2>2 DEF Sent
    <3> QED BY <1>4, <3>1, Naturals DEF FreshAck, Holds, Backs
  <2> QED BY <1>1, <2>1, <2>2 DEF SendMoves
<1>5. ASSUME e > 0, NEW o \in Replica, o = Owner(e), promise'[o] = e, Planning(o, s)',
             q \in acks'[o][s]
      PROVE  Acked(q, e, s, v)
  <2>1. proposed'[o][s] # None /\ proposed'[o][s].epoch = e BY <1>5 DEF Planning
  <2>2. promise[o] \in Nat /\ e \in Nat /\ promise[o] <= e
    BY <1>1, <1>5, Ranges DEF RoleMoves, RoleMove
  <2>3. CASE q \in acks[o][s]
    <3>1. ~NewPlan(o, s) BY <1>5 DEF NewPlan
    <3>2. proposed'[o][s] = proposed[o][s] BY <1>1, <3>1 DEF PlanMoves
    <3>3. e <= promise[o] BY <2>1, <3>2 DEF Shape, Plans
    <3>4. promise[o] = e BY <2>2, <3>3
    <3> QED BY <1>5, <2>1, <2>3, <3>2, <3>4 DEF Acked, Planning
  <2>4. CASE \E m \in msgs : /\ m.kind = "Accepted" /\ m.from = q /\ m.slot = s
                             /\ m.epoch = promise[o] /\ Owner(promise[o]) = o /\ Planning(o, s)
    <3>1. PICK m \in msgs : /\ m.kind = "Accepted" /\ m.from = q /\ m.slot = s
                            /\ m.epoch = promise[o] /\ Planning(o, s)
      BY <2>4
    <3>2. promise[o] = e
      <4>1. CASE NewPlan(o, s) BY <1>5, <4>1 DEF NewPlan
      <4>2. CASE proposed'[o][s] = proposed[o][s] BY <2>1, <3>1, <4>2 DEF Planning
      <4> QED BY <1>1, <4>1, <4>2 DEF PlanMoves
    <3> QED BY <1>5, <3>1, <3>2 DEF Acked
  <2> QED BY <1>1, <1>5, <2>3, <2>4 DEF AckMoves
<1> QED BY <1>2, <1>3, <1>4, <1>5, Naturals DEF Acked

\* A value of an epoch is an old one, or its coordinator's new plan.
FreshPlan(s, e, v) ==
    \E o \in Replica : /\ o = Owner(e) /\ e > 0 /\ promise[o] = e /\ promise'[o] = e
                       /\ NewPlan(o, s) /\ proposed'[o][s].value = v
LEMMA KnownBack ==
    ASSUME TypeOK, TypeOK', Shape, Moves, NEW e \in Epoch, NEW s \in Slot,
           NEW v \in Command, Known(s, e, v)'
    PROVE  Known(s, e, v) \/ FreshPlan(s, e, v)
<1>1. SendMoves /\ PlanMoves /\ RoleMoves /\ VoteMoves /\ PageMoves BY DEF Moves
<1>2. e > 0 /\ e \in Nat BY Naturals DEF Known
<1>3. ASSUME NEW i \in Replica, proposed'[i][s] # None, proposed'[i][s].epoch = e,
             proposed'[i][s].value = v
      PROVE  Known(s, e, v) \/ FreshPlan(s, e, v)
  <2>1. CASE proposed'[i][s] = proposed[i][s] BY <1>2, <1>3, <2>1 DEF Known
  <2>2. CASE NewPlan(i, s)
    <3>1. promise[i] = e /\ promise'[i] = e BY <1>3, <2>2 DEF NewPlan
    <3>2. Owner(e) = i BY <1>1, <2>2, <3>1, FirstPlan
    <3> QED BY <1>2, <1>3, <2>2, <3>1, <3>2 DEF FreshPlan
  <2> QED BY <1>1, <2>1, <2>2 DEF PlanMoves
<1>4. ASSUME NEW m \in msgs', m.kind = "Accept", m.slot = s, m.epoch = e, m.value = v
      PROVE  Known(s, e, v) \/ FreshPlan(s, e, v)
  <2>1. CASE m \in msgs BY <1>2, <1>4, <2>1 DEF Known
  <2>2. CASE Sent(m)
    <3>1. m.from \in Replica BY PacketFields DEF TypeOK
    <3>2. proposed'[m.from][s] = [epoch |-> e, value |-> v] BY <1>4, <2>2 DEF Sent
    <3>3. proposed'[m.from][s] # None BY <3>2, NoneAssumption
    <3> QED BY <1>3, <3>1, <3>2, <3>3
  <2> QED BY <1>1, <2>1, <2>2 DEF SendMoves
<1>5. ASSUME NEW i \in Replica, accepted'[i][s] # None, accepted'[i][s].epoch = e,
             accepted'[i][s].value = v
      PROVE  Known(s, e, v)
  <2>1. CASE accepted'[i][s] = accepted[i][s] BY <1>2, <1>5, <2>1 DEF Known
  <2>2. CASE FastVoted(i, s) BY <1>2, <1>5, <2>2 DEF FastVoted
  <2>3. ASSUME NEW m \in msgs, ClassicVoted(i, s, m) PROVE Known(s, e, v)
    <3>1. m.kind = "Accept" /\ m.slot = s /\ m.epoch = e /\ m.value = v
      BY <1>5, <2>3 DEF ClassicVoted
    <3> QED BY <1>2, <3>1 DEF Known
  <2> QED BY <1>1, <2>1, <2>2, <2>3 DEF VoteMoves
<1>6. ASSUME NEW p \in Promised', NEW x \in p.entries, x.slot = s, ~x.decided, x.epoch = e,
             x.value = v
      PROVE  Known(s, e, v)
  <2>1. CASE p \in Promised BY <1>2, <1>6, <2>1 DEF Known
  <2>2. ASSUME NEW i \in Replica, NEW S, NEW j \in Replica, NEW c \in Epoch,
               NEW st \in 0..(MaxSlot + 1), NewSnapshot(i, j, c, st, S), p \in S
        PROVE  Known(s, e, v)
    <3>1. PICK t \in st..high[i] : x \in Report(i, t)
      BY <1>6, <2>2 DEF NewSnapshot, SnapshotFacts
    <3>2. t = s BY <1>6, <3>1 DEF Report
    <3>3. accepted[i][s] # None /\ accepted[i][s].epoch = e /\ accepted[i][s].value = v
      BY <1>6, <3>1, <3>2 DEF Report
    <3> QED BY <1>2, <3>3 DEF Known
  <2>3. CASE Promised' \subseteq Promised BY <2>1, <2>3
  <2>4. ASSUME NEW i \in Replica, NEW S, NEW j \in Replica, NEW c \in Epoch,
               NEW st \in 0..(MaxSlot + 1), NewSnapshot(i, j, c, st, S)
        PROVE  Known(s, e, v)
    <3>1. p \in Promised \/ p \in S BY <2>4 DEF NewSnapshot
    <3> QED BY <2>1, <2>2, <2>4, <3>1
  <2> QED BY <1>1, <2>3, <2>4, PagesMove
<1> QED BY <1>3, <1>4, <1>5, <1>6 DEF Known

\* A decision is an old one, or has just been won.
LEMMA ClaimedBack ==
    ASSUME TypeOK, TypeOK', Shape, Moves, NEW s \in Slot, NEW v \in Command, Claimed(s, v)'
    PROVE  Claimed(s, v) \/ Won(s, v)
<1>1. SendMoves /\ ChoiceMoves /\ PageMoves BY DEF Moves
<1>2. ASSUME NEW i \in Replica, chosen'[i][s] # None, chosen'[i][s] = v
      PROVE  Claimed(s, v) \/ Won(s, v)
  <2>1. CASE chosen'[i][s] = chosen[i][s] BY <1>2, <2>1 DEF Claimed
  <2>2. CASE Claimed(s, chosen'[i][s]) \/ Won(s, chosen'[i][s]) BY <1>2, <2>2
  <2> QED BY <1>1, <2>1, <2>2 DEF ChoiceMoves
<1>3. ASSUME NEW m \in msgs', m.kind = "Commit", m.slot = s, m.value = v
      PROVE  Claimed(s, v) \/ Won(s, v)
  <2>1. CASE m \in msgs BY <1>3, <2>1 DEF Claimed
  <2>2. CASE Sent(m) BY <1>3, <2>2 DEF Sent
  <2> QED BY <1>1, <2>1, <2>2 DEF SendMoves
<1>4. ASSUME NEW p \in Promised', NEW x \in p.entries, x.slot = s, x.decided, x.value = v
      PROVE  Claimed(s, v)
  <2>1. CASE p \in Promised BY <1>4, <2>1 DEF Claimed
  <2>2. ASSUME NEW i \in Replica, NEW S, NEW j \in Replica, NEW c \in Epoch,
               NEW st \in 0..(MaxSlot + 1), NewSnapshot(i, j, c, st, S), p \in S
        PROVE  Claimed(s, v)
    <3>1. PICK t \in st..high[i] : x \in Report(i, t)
      BY <1>4, <2>2 DEF NewSnapshot, SnapshotFacts
    <3>2. t = s BY <1>4, <3>1 DEF Report
    <3>3. chosen[i][s] # None /\ chosen[i][s] = v BY <1>4, <3>1, <3>2 DEF Report
    <3> QED BY <3>3 DEF Claimed
  <2>3. CASE Promised' \subseteq Promised BY <2>1, <2>3
  <2>4. ASSUME NEW i \in Replica, NEW S, NEW j \in Replica, NEW c \in Epoch,
               NEW st \in 0..(MaxSlot + 1), NewSnapshot(i, j, c, st, S)
        PROVE  Claimed(s, v)
    <3>1. p \in Promised \/ p \in S BY <2>4 DEF NewSnapshot
    <3> QED BY <2>1, <2>2, <2>4, <3>1
  <2> QED BY <1>1, <2>3, <2>4, PagesMove
<1> QED BY <1>2, <1>3, <1>4 DEF Claimed

-----------------------------------------------------------------------------
(***************************************************************************)
(* Votes that are asked for are cast, and kept.                            *)
(***************************************************************************)
\* An Accept on the wire carries a value of its epoch.
LEMMA AcceptKnown ==
    ASSUME TypeOK, Shape, NEW m \in msgs, m.kind = "Accept"
    PROVE  /\ m.epoch \in Epoch /\ m.slot \in Slot /\ m.value \in Command /\ m.epoch > 0
           /\ m.from = Owner(m.epoch) /\ Led(m.epoch) /\ Known(m.slot, m.epoch, m.value)
<1>1. m.epoch \in Epoch /\ m.slot \in Slot /\ m.value \in Command
  BY PacketFields DEF TypeOK
<1>2. m.epoch > 0 /\ m.from = Owner(m.epoch) /\ Led(m.epoch)
  BY DEF Shape, Traffic, GoodPacket
<1> QED BY <1>1, <1>2 DEF Known

\* The coordinator of an epoch that was led is in that epoch or a later one.
LEMMA OwnerAt ==
    ASSUME TypeOK, TypeOK', RoleMoves, NEW e \in Epoch, Led(e)
    PROVE  /\ promise[Owner(e)] >= e /\ promise'[Owner(e)] >= e /\ Led(e)'
           /\ promise'[Owner(e)] = e => promise[Owner(e)] = e
<1>1. PICK o \in Replica : o = Owner(e) BY Naturals
<1>2. Begun(e) /\ Led(e)' BY EpochsGrow
<1>3. promise[o] >= e BY <1>1, <1>2 DEF Begun
<1>4. {promise[o], promise'[o], e} \subseteq Nat /\ promise[o] <= promise'[o]
  BY <1>1, Ranges, Naturals DEF RoleMoves, RoleMove
<1> QED BY <1>1, <1>2, <1>3, <1>4

\* A coordinator that has just planned a slot had no value for it in its epoch.
LEMMA NothingPlanned ==
    ASSUME TypeOK, TypeOK', Shape, Owned, RoleMoves, NEW e \in Epoch, NEW s \in Slot,
           promise[Owner(e)] = e, NewPlan(Owner(e), s), NEW v \in Command
    PROVE  ~Known(s, e, v)
<1>1. PICK o \in Replica : o = Owner(e) BY Naturals
<1>2. ~Planning(o, s) BY <1>1, FirstPlan
<1> QED BY <1>1, <1>2 DEF Owned

LEMMA VoteInvStep ==
    ASSUME TypeOK, TypeOK', Shape, Shape', VoteInv, Owned, Moves
    PROVE  VoteInv'
<1> SUFFICES ASSUME NEW q \in Replica, NEW e \in Epoch, NEW s \in Slot, NEW v \in Command,
                    Acked(q, e, s, v)'
             PROVE  /\ Led(e)' /\ promise'[q] >= e /\ Keeps(q, s, e, v)'
                    /\ e > 0 /\ promise'[Owner(e)] = e => Planning(Owner(e), s)'
  BY DEF VoteInv
<1>1. RoleMoves /\ VoteMoves /\ PageMoves /\ PlanMoves BY DEF Moves
<1>2. PICK o \in Replica : o = Owner(e) BY Naturals
<1>3. {promise[q], promise'[q], e} \subseteq Nat /\ promise[q] <= promise'[q]
  BY <1>1, Ranges, Naturals DEF RoleMoves, RoleMove
<1>4. CASE Acked(q, e, s, v)
  <2>1. /\ Led(e) /\ promise[q] >= e /\ Keeps(q, s, e, v)
        /\ e > 0 /\ promise[o] = e => Planning(o, s)
    BY <1>2, <1>4 DEF VoteInv
  <2>2. Led(e)' /\ (promise'[o] = e => promise[o] = e) BY <1>1, <1>2, <2>1, OwnerAt
  <2>3. Keeps(q, s, e, v)' BY <1>1, <2>1, KeepsStays
  <2>4. e > 0 /\ promise'[o] = e => Planning(o, s)' BY <1>1, <2>1, <2>2, PlanStays
  <2> QED BY <1>2, <1>3, <2>1, <2>2, <2>3, <2>4
<1>5. CASE FreshAck(q, e, s, v)
  <2>1. promise'[q] = e /\ Holds(q, s, e, v)' BY <1>5 DEF FreshAck
  <2>2. Keeps(q, s, e, v)' BY <1>3, <2>1, FreshKeepsNext
  <2>3. CASE e = 0
    <3>1. Led(e)' BY <2>3 DEF Led
    <3> QED BY <1>3, <2>1, <2>2, <2>3, <3>1
  <2>4. CASE e > 0
    <3>1. PICK a \in msgs : a.kind = "Accept" /\ a.epoch = e /\ a.slot = s
      BY <1>5, <2>4 DEF FreshAck
    <3>2. a.value \in Command /\ Led(e) /\ Known(s, e, a.value) BY <3>1, AcceptKnown
    <3>3. promise[o] = e => Planning(o, s) BY <1>2, <3>2 DEF Owned
    <3>4. Led(e)' /\ (promise'[o] = e => promise[o] = e) BY <1>1, <1>2, <3>2, OwnerAt
    <3>5. promise'[o] = e => Planning(o, s)' BY <1>1, <3>3, <3>4, PlanStays
    <3> QED BY <1>2, <1>3, <2>1, <2>2, <3>4, <3>5
  <2> QED BY <1>3, <2>3, <2>4
<1> QED BY <1>4, <1>5, AckedBack

LEMMA PledgeInvStep ==
    ASSUME TypeOK, TypeOK', Shape, Shape', PledgeInv, Moves
    PROVE  PledgeInv'
<1>1. RoleMoves /\ VoteMoves /\ PageMoves /\ PledgeMoves /\ SendMoves BY DEF Moves
<1> SUFFICES ASSUME NEW e \in Epoch, NEW s \in Slot, e > 0,
                    NEW m \in msgs', m.kind = "Accept", m.epoch = e, m.slot = s
             PROVE  IF promise'[Owner(e)] > e
                    THEN \A v \in Command : Keeps(Owner(e), s, e, v)'
                    ELSE \/ Holds(Owner(e), s, e, Noop)' \/ Owner(e) \in crashed'
                         \/ \E x \in msgs' : /\ x.kind = "Accept" /\ x.from = x.to
                                             /\ x.epoch = e /\ x.slot = s
  BY DEF PledgeInv, Pledged
<1>2. PICK o \in Replica : o = Owner(e) BY Naturals
<1>3. {promise[o], promise'[o], e} \subseteq Nat /\ promise[o] <= promise'[o]
  BY <1>1, <1>2, Ranges, Naturals DEF RoleMoves, RoleMove
<1>4. CASE m \in msgs
  <2>1. Led(e) /\ Pledged(o, e, s) BY <1>2, <1>4, AcceptKnown DEF Pledged
  <2>2. promise[o] >= e BY <1>1, <1>2, <2>1, OwnerAt
  <2>3. CASE promise[o] > e
    <3>1. \A v \in Command : Keeps(o, s, e, v) BY <1>2, <2>1, <2>3 DEF PledgeInv
    <3>2. \A v \in Command : Keeps(o, s, e, v)' BY <1>1, <3>1, KeepsStays
    <3> QED BY <1>2, <1>3, <2>3, <3>2
  <2>4. CASE promise[o] = e
    <3>1. \/ Holds(o, s, e, Noop) \/ o \in crashed
          \/ \E x \in msgs : x.kind = "Accept" /\ x.from = x.to /\ x.epoch = e /\ x.slot = s
      BY <1>2, <1>3, <2>1, <2>4 DEF PledgeInv
    <3>2. CASE promise'[o] = e
      <4>1. CASE Holds(o, s, e, Noop)
        <5>1. Holds(o, s, e, Noop)' BY <1>1, <4>1, HoldsGrow
        <5> QED BY <1>2, <1>3, <3>2, <5>1
      <4>2. CASE o \in crashed BY <1>1, <1>2, <1>3, <3>2, <4>2 DEF PledgeMoves
      <4>3. ASSUME NEW x \in msgs, x.kind = "Accept", x.from = x.to, x.epoch = e, x.slot = s
            PROVE  \/ Holds(o, s, e, Noop)' \/ o \in crashed'
                   \/ \E y \in msgs' : /\ y.kind = "Accept" /\ y.from = y.to
                                       /\ y.epoch = e /\ y.slot = s
        <5>1. x.from = o BY <1>2, <4>3, AcceptKnown
        <5>2. \/ x \in msgs' \/ o \in crashed'
              \/ accepted'[o][s] # None /\ accepted'[o][s].epoch = e
          <6>1. \/ x \in msgs' \/ x.from \in crashed' \/ x.epoch < promise[x.from]
                \/ /\ accepted'[x.from][x.slot] # None
                   /\ accepted'[x.from][x.slot].epoch = x.epoch
            BY <1>1, <4>3 DEF PledgeMoves
          <6>2. ~(x.epoch < promise[x.from]) BY <1>3, <2>4, <4>3, <5>1
          <6> QED BY <4>3, <5>1, <6>1, <6>2
        <5>3. accepted'[o][s] # None /\ accepted'[o][s].epoch = e => Holds(o, s, e, Noop)'
          BY <1>3 DEF Holds, Backs
        <5> QED BY <4>3, <5>2, <5>3
      <4> QED BY <1>2, <1>3, <3>1, <3>2, <4>1, <4>2, <4>3
    <3>3. CASE promise'[o] # e
      <4>1. Idle /\ o \notin crashed BY <1>1, <2>4, <3>3 DEF RoleMoves, RoleMove
      <4>2. Holds(o, s, e, Noop) BY <3>1, <4>1 DEF Idle
      <4>3. ASSUME NEW v \in Command PROVE Keeps(o, s, e, v)'
        <5>1. Holds(o, s, e, v) BY <1>3, <4>2 DEF Holds, Backs
        <5>2. Keeps(o, s, e, v) BY <1>3, <2>4, <5>1, FreshKeeps
        <5> QED BY <1>1, <5>2, KeepsStays
      <4> QED BY <1>2, <1>3, <2>4, <3>3, <4>3
    <3> QED BY <3>2, <3>3
  <2> QED BY <1>3, <2>2, <2>3, <2>4
<1>5. CASE m \notin msgs
  <2>1. Sent(m) BY <1>1, <1>5 DEF SendMoves
  <2>2. m.epoch = promise[m.from] /\ Owner(e) = m.from /\ promise'[m.from] = promise[m.from]
    BY <2>1 DEF Sent
  <2>3. promise[o] = e /\ promise'[o] = e BY <1>2, <2>2
  <2>4. CASE accepted[o][s] = [epoch |-> e, value |-> m.value]
    <3>1. m.value \in Command BY PacketFields DEF TypeOK
    <3>2. accepted[o][s] # None /\ accepted[o][s].epoch = e BY <2>4, <3>1, NoneAssumption
    <3>3. Holds(o, s, e, Noop) BY <1>3, <3>2 DEF Holds, Backs
    <3>4. Holds(o, s, e, Noop)' BY <1>1, <3>3, HoldsGrow
    <3> QED BY <1>2, <1>3, <2>3, <3>4
  <2>5. CASE \E a \in msgs' : /\ a.kind = "Accept" /\ a.from = a.to
                              /\ a.epoch = e /\ a.slot = s
    BY <1>2, <1>3, <2>3, <2>5
  <2> QED BY <1>2, <2>1, <2>2, <2>4, <2>5 DEF Sent
<1> QED BY <1>4, <1>5

-----------------------------------------------------------------------------
(***************************************************************************)
(* Each epoch has one value for a slot.                                    *)
(***************************************************************************)
LEMMA OneValueStep ==
    ASSUME TypeOK, TypeOK', Shape, OneValue, Owned, Moves
    PROVE  OneValue'
<1> SUFFICES ASSUME NEW s \in Slot, NEW e \in Epoch, NEW v \in Command, NEW w \in Command,
                    Known(s, e, v)', Known(s, e, w)'
             PROVE  v = w
  BY DEF OneValue
<1>1. RoleMoves BY DEF Moves
<1>2. Known(s, e, v) \/ FreshPlan(s, e, v) BY KnownBack
<1>3. Known(s, e, w) \/ FreshPlan(s, e, w) BY KnownBack
<1>4. FreshPlan(s, e, v) \/ FreshPlan(s, e, w) => ~Known(s, e, v) /\ ~Known(s, e, w)
  BY <1>1, NothingPlanned DEF FreshPlan
<1> QED BY <1>2, <1>3, <1>4 DEF FreshPlan, OneValue

\* A coordinator that plans was elected.
LEMMA PlanElected ==
    ASSUME TypeOK, TypeOK', Shape, Established, RoleMoves, NEW i \in Replica,
           Leading(i) \/ TookOver(i)
    PROVE  Elected(promise[i])
<1>1. CASE Leading(i) BY <1>1 DEF Established
<1>2. CASE TookOver(i)
  <2>1. PICK P \in SUBSET Page : \E last, pick : Adoption(i, P, last, pick)
    BY <1>2, AdoptionFacts
  <2>2. /\ Cardinality(Voters(P)) >= Majority
        /\ \A p \in P : p \in Promised /\ p.epoch = promise[i]
    BY <2>1 DEF Adoption
  <2>3. Voters(P) \in Quorum BY <2>2 DEF Quorum, Voters
  <2>4. ASSUME NEW q \in Voters(P) PROVE promise[q] >= promise[i]
    <3>1. q \in Replica BY DEF Voters
    <3>2. PICK p \in P : p.from = q BY DEF Voters, CompleteFrom, PagesFrom
    <3>3. promise[i] <= promise[q] BY <2>2, <3>2 DEF Shape, PromiseShape, GoodPage
    <3> QED BY <3>1, <3>3, Numbers, Naturals
  <2> QED BY <2>3, <2>4 DEF Elected
<1> QED BY <1>1, <1>2

\* So was every coordinator that had a value for a slot.
LEMMA KnownElected ==
    ASSUME TypeOK, TypeOK', Shape, Owned, Established, Moves, NEW s \in Slot, NEW e \in Epoch,
           NEW v \in Command, Known(s, e, v)'
    PROVE  Elected(e)
<1>1. CASE Known(s, e, v) BY <1>1 DEF Owned
<1>2. CASE FreshPlan(s, e, v)
  <2>1. RoleMoves BY DEF Moves
  <2>2. PICK o \in Replica : promise[o] = e /\ NewPlan(o, s) BY <1>2 DEF FreshPlan
  <2>3. Leading(o) \/ TookOver(o) BY <2>2 DEF NewPlan
  <2> QED BY <2>1, <2>2, <2>3, PlanElected
<1> QED BY <1>1, <1>2, KnownBack

LEMMA OwnedStep ==
    ASSUME TypeOK, TypeOK', Shape, Owned, Established, Moves
    PROVE  Owned'
<1> SUFFICES ASSUME NEW s \in Slot, NEW e \in Epoch, NEW v \in Command, Known(s, e, v)'
             PROVE  /\ Led(e)' /\ Elected(e)'
                    /\ promise'[Owner(e)] = e =>
                          Planning(Owner(e), s)' /\ proposed'[Owner(e)][s].value = v
  BY DEF Owned
<1>1. RoleMoves /\ PlanMoves BY DEF Moves
<1>2. Elected(e)' BY <1>1, KnownElected, EpochsGrow
<1>3. PICK o \in Replica : o = Owner(e) BY Naturals
<1>4. CASE Known(s, e, v)
  <2>1. Led(e) /\ (promise[o] = e => Planning(o, s) /\ proposed[o][s].value = v)
    BY <1>3, <1>4 DEF Owned
  <2>2. Led(e)' /\ (promise'[o] = e => promise[o] = e) BY <1>1, <1>3, <2>1, OwnerAt
  <2>3. promise'[o] = e => Planning(o, s)' /\ proposed'[o][s].value = v
    BY <1>1, <2>1, <2>2, PlanStays
  <2> QED BY <1>2, <1>3, <2>2, <2>3
<1>5. CASE FreshPlan(s, e, v)
  <2>1. promise[o] = e /\ promise'[o] = e /\ NewPlan(o, s) /\ proposed'[o][s].value = v
    BY <1>3, <1>5 DEF FreshPlan
  <2>2. Led(promise[o])' /\ Planning(o, s)' BY <1>1, <2>1, FirstPlan
  <2>3. Led(e)' BY <2>1, <2>2 DEF Led
  <2> QED BY <1>2, <1>3, <2>1, <2>2, <2>3
<1> QED BY <1>4, <1>5, KnownBack

-----------------------------------------------------------------------------
(***************************************************************************)
(* What may still be chosen.                                               *)
(***************************************************************************)
\* A step gives no replica a vote that it could not have cast before.
LEMMA CanChooseBack ==
    ASSUME TypeOK, TypeOK', Shape, Moves, NEW e \in Epoch, NEW s \in Slot, NEW v \in Command,
           CanChoose(e, s, v)'
    PROVE  CanChoose(e, s, v)
<1>1. RoleMoves /\ SendMoves BY DEF Moves
<1>2. ASSUME NEW q \in Replica, MayVote(q, e, s, v)' PROVE MayVote(q, e, s, v)
  <2>1. {promise[q], promise'[q], e} \subseteq Nat /\ promise[q] <= promise'[q]
    BY <1>1, Ranges, Naturals DEF RoleMoves, RoleMove
  <2>2. CASE promise'[q] <= e BY <2>1, <2>2 DEF MayVote
  <2>3. CASE Acked(q, e, s, v)'
    <3>1. CASE Acked(q, e, s, v) BY <3>1 DEF MayVote
    <3>2. CASE FreshAck(q, e, s, v) BY <2>1, <3>2 DEF MayVote, FreshAck
    <3> QED BY <2>3, <3>1, <3>2, AckedBack
  <2>4. CASE Pledged(q, e, s)'
    <3>1. PICK m \in msgs' : /\ e > 0 /\ q = Owner(e) /\ m.kind = "Accept" /\ m.epoch = e
                             /\ m.slot = s
      BY <2>4 DEF Pledged
    <3>2. CASE m \in msgs BY <3>1, <3>2 DEF MayVote, Pledged
    <3>3. CASE Sent(m)
      <4>1. promise[q] = e BY <3>1, <3>3 DEF Sent
      <4> QED BY <2>1, <4>1 DEF MayVote
    <3> QED BY <1>1, <3>2, <3>3 DEF SendMoves
  <2> QED BY <1>2, <2>2, <2>3, <2>4 DEF MayVote
<1>3. PICK Q \in QuorumOf(e) : \A q \in Q : MayVote(q, e, s, v)'
  BY DEF CanChoose, QuorumOf
<1>4. \A q \in Q : MayVote(q, e, s, v) BY <1>2, <1>3 DEF QuorumOf
<1> QED BY <1>4 DEF CanChoose

\* Who has left the epoch and may have voted in it, has.
LEMMA MayVoteKeeps ==
    ASSUME TypeOK, VoteInv, PledgeInv, NEW q \in Replica, NEW e \in Epoch, NEW s \in Slot,
           NEW v \in Command, MayVote(q, e, s, v), promise[q] > e
    PROVE  Keeps(q, s, e, v)
<1>1. promise[q] \in Nat /\ e \in Nat BY Numbers, Naturals
<1>2. CASE Acked(q, e, s, v) BY <1>2 DEF VoteInv
<1>3. CASE Pledged(q, e, s)
  <2>1. q = Owner(e) BY <1>3 DEF Pledged
  <2> QED BY <1>3, <2>1 DEF PledgeInv
<1> QED BY <1>1, <1>2, <1>3 DEF MayVote

\* Nothing may be chosen in an epoch whose coordinator plans the slot only now,
\* once a majority has promised a later one.
LEMMA TooLate ==
    ASSUME TypeOK, TypeOK', Shape, VoteInv, Owned, RoleMoves, NEW b \in Epoch, NEW e \in Epoch,
           b > 0, b < e, Elected(e), promise[Owner(b)] = b, NEW s \in Slot,
           NewPlan(Owner(b), s), NEW w \in Command
    PROVE  ~CanChoose(b, s, w)
<1> SUFFICES ASSUME CanChoose(b, s, w) PROVE FALSE OBVIOUS
<1>1. PICK Q \in QuorumOf(b) : \A q \in Q : MayVote(q, b, s, w) BY DEF CanChoose
<1>2. PICK R \in Quorum : \A q \in R : promise[q] >= e BY DEF Elected
<1>3. PICK q \in Replica : q \in Q /\ q \in R BY <1>1, <1>2, Replicas, QuorumsMeet
<1>4. PICK o \in Replica : o = Owner(b) BY Naturals
<1>5. ~Planning(o, s) BY <1>4, FirstPlan
<1>6. ~(promise[q] <= b)
  <2>1. {promise[q], e, b} \subseteq Nat BY Numbers, Naturals
  <2> QED BY <1>2, <1>3, <2>1
<1>7. ~Acked(q, b, s, w) BY <1>4, <1>5 DEF VoteInv
<1>8. ~Pledged(q, b, s)
  <2> SUFFICES ASSUME NEW m \in msgs, m.kind = "Accept", m.epoch = b, m.slot = s PROVE FALSE
    BY DEF Pledged
  <2>1. m.value \in Command /\ Known(s, b, m.value) BY AcceptKnown
  <2> QED BY <2>1, NothingPlanned
<1> QED BY <1>1, <1>3, <1>6, <1>7, <1>8 DEF MayVote

\* The values at or after epoch b agree with what may be chosen in b.
Settled(b, s, w) == \A c \in Epoch, x \in Command : c >= b /\ Known(s, c, x) => x = w
LEMMA ChoosableSettled ==
    ASSUME TypeOK, OneValue, Safe, NEW b \in Epoch, NEW s \in Slot, NEW w \in Command,
           Choosable(b, s, w)
    PROVE  Settled(b, s, w)
<1> SUFFICES ASSUME NEW c \in Epoch, NEW x \in Command, c >= b, Known(s, c, x) PROVE x = w
  BY DEF Settled
<1>1. c \in Nat /\ b \in Nat /\ c > 0 BY Naturals DEF Known
<1>2. CASE c = b BY <1>1, <1>2 DEF OneValue, Choosable
<1>3. CASE c # b BY <1>1, <1>3 DEF Safe
<1> QED BY <1>2, <1>3

\* What a quorum of Q keeps in R, a lock on the slot agrees with.
LEMMA ForcedAgrees ==
    ASSUME TypeOK, NEW s \in Slot, NEW v \in Command, NEW w \in Command,
           NEW a \in Epoch, NEW P \in QuorumOf(a), Lock(s, v, a, P),
           NEW b \in Epoch, NEW Q \in QuorumOf(b), NEW R \in Quorum,
           \A q \in Q : q \in R => Keeps(q, s, b, w), Settled(b, s, w)
    PROVE  v = w
<1>1. a \in Nat /\ b \in Nat /\ P \in Quorum /\ Q \in Quorum BY Naturals, Replicas
<1>2. (\A q \in P : Keeps(q, s, a, v)) /\ Settled(a, s, v)
  BY DEF Lock, Settled
<1>3. ASSUME NEW q \in Replica, NEW e \in Epoch, NEW x \in Command, Keeps(q, s, e, x)
      PROVE  \E c \in Epoch, y \in Command :
                /\ c >= e /\ (c > 0 => Known(s, c, y)) /\ (c = 0 => y = x)
                /\ c = accepted[q][s].epoch /\ y = accepted[q][s].value
  <2>1. accepted[q][s] # None /\ Backs(accepted[q][s], e, x) BY <1>3 DEF Keeps, Holds
  <2>2. accepted[q][s].epoch \in Epoch /\ accepted[q][s].value \in Command BY <2>1, Ballot
  <2> QED BY <2>1, <2>2 DEF Backs, Known
<1>4. CASE b >= a /\ b > 0
  <2>1. PICK q \in Replica : q \in Q /\ q \in R BY <1>1, QuorumsMeet
  <2>2. PICK c \in Epoch, y \in Command : c >= b /\ (c > 0 => Known(s, c, y)) BY <1>3, <2>1
  <2>3. c \in Nat BY Naturals
  <2>4. Known(s, c, y) /\ c >= a BY <1>1, <1>4, <2>2, <2>3
  <2> QED BY <1>2, <2>2, <2>4 DEF Settled
<1>5. CASE a > b
  <2>1. PICK q \in Replica : q \in P BY <1>1, QuorumsMeet
  <2>2. PICK c \in Epoch, y \in Command : c >= a /\ (c > 0 => Known(s, c, y))
    BY <1>2, <1>3, <2>1
  <2>3. c \in Nat BY Naturals
  <2>4. Known(s, c, y) /\ c >= b BY <1>1, <1>5, <2>2, <2>3
  <2> QED BY <1>2, <2>2, <2>4 DEF Settled
<1>6. CASE a = 0 /\ b = 0
  <2>1. PICK q \in Replica : q \in Q /\ q \in P /\ q \in R BY <1>6, FastMeet
  <2>2. Keeps(q, s, a, v) /\ Keeps(q, s, b, w) BY <1>2, <2>1
  <2>3. PICK c \in Epoch, y \in Command :
          /\ c >= a /\ (c > 0 => Known(s, c, y)) /\ (c = 0 => y = v)
          /\ c = accepted[q][s].epoch /\ y = accepted[q][s].value
    BY <1>3, <2>2
  <2>4. PICK d \in Epoch, z \in Command :
          /\ d >= b /\ (d = 0 => z = w)
          /\ d = accepted[q][s].epoch /\ z = accepted[q][s].value
    BY <1>3, <2>2
  <2>5. c = d /\ y = z /\ c \in Nat BY <2>3, <2>4, Naturals
  <2>6. CASE c = 0 BY <2>3, <2>4, <2>5, <2>6
  <2>7. CASE c > 0 BY <1>2, <1>6, <2>3, <2>7 DEF Settled
  <2> QED BY <2>5, <2>6, <2>7
<1> QED BY <1>1, <1>4, <1>5, <1>6

\* Two decisions of a slot are the same.
LEMMA LocksAgree ==
    ASSUME TypeOK, Locked, NEW s \in Slot, NEW v \in Command, NEW w \in Command,
           Claimed(s, v), Claimed(s, w)
    PROVE  v = w
<1>1. PICK a \in Epoch : \E P \in QuorumOf(a) : Lock(s, v, a, P) BY DEF Locked
<1>2. PICK P \in QuorumOf(a) : Lock(s, v, a, P) BY <1>1
<1>3. PICK b \in Epoch : \E Q \in QuorumOf(b) : Lock(s, w, b, Q) BY DEF Locked
<1>4. PICK Q \in QuorumOf(b) : Lock(s, w, b, Q) BY <1>3
<1>5. Settled(b, s, w) /\ \A q \in Q : Keeps(q, s, b, w) BY <1>4 DEF Lock, Settled
<1>6. PICK R \in Quorum : R = Replica BY Replicas
<1> QED BY <1>2, <1>5, <1>6, ForcedAgrees

-----------------------------------------------------------------------------
(***************************************************************************)
(* What a coordinator selects from the promises of a majority.             *)
(***************************************************************************)
\* The promise pages P are for epoch e.
ForEpoch(P, e) == \A p \in P : p \in Promised /\ p.epoch = e
\* A voter reports what it keeps.
ReportsOf(P, q, s, b, w) ==
    \E r \in Reports(P, s) : r.from = q /\ (r.decided \/ Backs(r, b, w))
LEMMA VoterReports ==
    ASSUME TypeOK, Shape, NEW i \in Replica, NEW P \in SUBSET Page, NEW last, NEW pick,
           Adoption(i, P, last, pick), NEW q \in Voters(P), NEW s \in Slot, start[i] <= s,
           NEW b \in Epoch, b < promise[i], NEW w, Keeps(q, s, b, w)
    PROVE  s <= last /\ ReportsOf(P, q, s, b, w)
<1>1. PICK e \in Epoch : e = promise[i] BY Numbers
<1>2. PICK A : A = PagesFrom(P, q) OBVIOUS
<1>3. PICK B : B = PagesOf(q, e) OBVIOUS
<1>4. q \in Replica /\ \E p \in A : Cardinality(A) = p.pages
  BY <1>2 DEF Voters, CompleteFrom
<1>5. A \in SUBSET B /\ \A p \in A : p \in P /\ p.start = start[i]
  BY <1>1, <1>2, <1>3 DEF Adoption, PagesFrom, PagesOf
<1>6. IsFiniteSet(B) /\ \A p \in B, r \in B : p.pages = r.pages /\ Cardinality(B) <= p.pages
  BY <1>3, <1>4 DEF Shape, OneSnapshot
<1>7. A = B
  <2>1. Cardinality(B) <= Cardinality(A) BY <1>4, <1>5, <1>6
  <2>2. IsFiniteSet(A) /\ Cardinality(A) <= Cardinality(B) /\ Cardinality(B) \in Nat
        /\ (Cardinality(B) = Cardinality(A) => A = B)
    BY <1>5, <1>6, FS_Subset, CardNat
  <2>3. Cardinality(A) \in Nat BY <2>2, CardNat
  <2> QED BY <2>1, <2>2, <2>3
<1>8. Whole(q, e)
  <2>1. \A p \in B : Cardinality(B) = p.pages BY <1>4, <1>5, <1>6, <1>7
  <2> QED BY <1>3, <1>4, <1>7, <2>1 DEF Whole
<1>9. e > b BY <1>1, Naturals
<1>10. PICK p \in B : Says(p, s, b, w)
  <2>1. Tells(q, e, s, b, w) BY <1>9 DEF Keeps
  <2> QED BY <1>3, <1>5, <1>7, <1>8, <2>1 DEF Tells
<1>11. PICK y \in p.entries : y.slot = s /\ (y.decided \/ Backs(y, b, w)) BY <1>10 DEF Says
<1>12. p \in P /\ p.from = q /\ p \in Promised BY <1>2, <1>5, <1>7 DEF PagesFrom, Adoption
<1>13. s <= last
  <2>1. s <= p.high BY <1>11, <1>12 DEF Shape, PromiseShape, GoodPage
  <2>2. p.high <= last BY <1>12 DEF Adoption
  <2>3. p.high \in Int /\ last \in Int
    <3>1. p.high \in -1..MaxSlot BY <1>12, PageFields
    <3>2. last \in (start[i] - 1)..MaxSlot /\ start[i] \in Nat BY Numbers DEF Adoption
    <3> QED BY <3>1, <3>2, BoundAssumption
  <2> QED BY <2>1, <2>2, <2>3, Naturals
<1>14. ReportsOf(P, q, s, b, w)
  <2>1. PICK r : r = [from |-> p.from, epoch |-> y.epoch, value |-> y.value,
                      decided |-> y.decided]
    OBVIOUS
  <2>2. r \in Reports(P, s) BY <1>11, <1>12, <2>1 DEF Reports
  <2>3. r.from = q /\ (r.decided \/ Backs(r, b, w)) BY <1>11, <1>12, <2>1 DEF Backs
  <2> QED BY <2>2, <2>3 DEF ReportsOf
<1> QED BY <1>13, <1>14

\* A voter has one report for a slot, which says what its vote or decision was.
LEMMA ReportFacts ==
    ASSUME TypeOK, Shape, NEW P \in SUBSET Page, NEW e \in Epoch, ForEpoch(P, e), NEW s \in Slot
    PROVE  /\ \A r \in Reports(P, s) :
                 /\ r.from \in Voters(P) /\ r.epoch \in Epoch /\ r.value \in Command
                 /\ r.decided => Claimed(s, r.value)
                 /\ ~r.decided /\ r.epoch > 0 => Known(s, r.epoch, r.value)
                 /\ ~r.decided /\ r.epoch = 0 => r.value # Noop
           /\ \A r, t \in Reports(P, s) : r.from = t.from => r = t
<1>1. ASSUME NEW r \in Reports(P, s)
      PROVE  \E p \in P : \E y \in p.entries :
                /\ p.from \in Voters(P) /\ y.slot = s
                /\ r = [from |-> p.from, epoch |-> y.epoch, value |-> y.value,
                        decided |-> y.decided]
  BY DEF Reports
<1>2. ASSUME NEW r \in Reports(P, s)
      PROVE  /\ r.from \in Voters(P) /\ r.epoch \in Epoch /\ r.value \in Command
             /\ r.decided => Claimed(s, r.value)
             /\ ~r.decided /\ r.epoch > 0 => Known(s, r.epoch, r.value)
             /\ ~r.decided /\ r.epoch = 0 => r.value # Noop
  <2>1. PICK p \in P : \E y \in p.entries :
               /\ p.from \in Voters(P) /\ y.slot = s
               /\ r = [from |-> p.from, epoch |-> y.epoch, value |-> y.value,
                       decided |-> y.decided]
    BY <1>1
  <2>2. PICK y \in p.entries :
               /\ p.from \in Voters(P) /\ y.slot = s
               /\ r = [from |-> p.from, epoch |-> y.epoch, value |-> y.value,
                       decided |-> y.decided]
    BY <2>1
  <2>3. y \in Entry /\ p \in Promised BY PageFields DEF ForEpoch
  <2>4. /\ r.from = p.from /\ r.epoch = y.epoch /\ r.value = y.value /\ r.decided = y.decided
        /\ y.epoch \in Epoch /\ y.value \in Command
    BY <2>2, <2>3 DEF Entry
  <2>5. ~y.decided /\ y.epoch = 0 => y.value # Noop
    BY <2>3 DEF Shape, PromiseShape, GoodPage
  <2> QED BY <2>2, <2>3, <2>4, <2>5 DEF Claimed, Known
<1>3. ASSUME NEW r \in Reports(P, s), NEW t \in Reports(P, s), r.from = t.from PROVE r = t
  <2>1. PICK p \in P : \E y \in p.entries :
               /\ p.from \in Voters(P) /\ y.slot = s
               /\ r = [from |-> p.from, epoch |-> y.epoch, value |-> y.value,
                       decided |-> y.decided]
    BY <1>1
  <2>2. PICK y \in p.entries :
               /\ p.from \in Voters(P) /\ y.slot = s
               /\ r = [from |-> p.from, epoch |-> y.epoch, value |-> y.value,
                       decided |-> y.decided]
    BY <2>1
  <2>3. PICK p2 \in P : \E y2 \in p2.entries :
               /\ p2.from \in Voters(P) /\ y2.slot = s
               /\ t = [from |-> p2.from, epoch |-> y2.epoch, value |-> y2.value,
                       decided |-> y2.decided]
    BY <1>1
  <2>4. PICK y2 \in p2.entries :
               /\ p2.from \in Voters(P) /\ y2.slot = s
               /\ t = [from |-> p2.from, epoch |-> y2.epoch, value |-> y2.value,
                       decided |-> y2.decided]
    BY <2>3
  <2>5. p.from = p2.from /\ p.from \in Replica
    <3>1. r.from = p.from /\ t.from = p2.from BY <2>2, <2>4
    <3> QED BY <1>3, <2>2, <3>1 DEF Voters
  <2>6. p \in PagesOf(p.from, e) /\ p2 \in PagesOf(p.from, e) BY <2>5 DEF PagesOf, ForEpoch
  <2>7. y = y2 BY <2>2, <2>4, <2>5, <2>6 DEF Shape, OneSnapshot
  <2> QED BY <2>2, <2>4, <2>5, <2>7
<1> QED BY <1>2, <1>3

\* There are reports of the newest epoch.
LEMMA NewestExists ==
    ASSUME NEW R, \A r \in R : r.epoch \in Epoch, R # {}
    PROVE  \E t \in R : t \in Newest(R)
<1> DEFINE H == {r.epoch : r \in R}
<1>1. MaxEpoch \in Int /\ H \in SUBSET Int /\ H # {} /\ \A x \in H : x <= MaxEpoch
  BY Naturals, BoundAssumption DEF Epoch
<1>2. PICK n \in H : \A y \in H : y <= n BY <1>1, Greatest
<1>3. PICK t \in R : t.epoch = n OBVIOUS
<1> QED BY <1>2, <1>3 DEF Newest

LEMMA Selection ==
    ASSUME TypeOK, Shape, NEW P \in SUBSET Page, NEW e \in Epoch, ForEpoch(P, e),
           Cardinality(Voters(P)) >= Majority, NEW s \in Slot, NEW b \in Epoch,
           NEW w \in Command, NEW Q \in QuorumOf(b),
           \A q \in Q : q \in Voters(P) => ReportsOf(P, q, s, b, w),
           Settled(b, s, w), \A x \in Command : Claimed(s, x) => x = w,
           NEW u \in Selectable(Reports(P, s), Cardinality(Voters(P)))
    PROVE  u = w
<1>1. PICK R : R = Reports(P, s) OBVIOUS
<1>2. PICK V : V = Voters(P) OBVIOUS
<1>3. V \in SUBSET Replica /\ V \in Quorum BY <1>2 DEF Voters, Quorum
<1>4. /\ \A r \in R : /\ r.from \in V /\ r.epoch \in Epoch /\ r.value \in Command
                      /\ r.decided => r.value = w
                      /\ ~r.decided /\ r.epoch > 0 => Known(s, r.epoch, r.value)
                      /\ ~r.decided /\ r.epoch = 0 => r.value # Noop
      /\ \A r, t \in R : r.from = t.from => r = t
  BY <1>1, <1>2, ReportFacts
<1>5. \A q \in Q : q \in V => \E r \in R : r.from = q /\ (r.decided \/ Backs(r, b, w))
  BY <1>1, <1>2 DEF ReportsOf
<1>6. PICK q0 \in Replica : q0 \in Q /\ q0 \in V BY <1>3, Replicas, QuorumsMeet
<1>7. PICK r0 \in R : r0.from = q0 /\ (r0.decided \/ Backs(r0, b, w)) BY <1>5, <1>6
<1>8. PICK k \in Nat : k = Cardinality(V) BY <1>3, Replicas
<1>9. u \in Selectable(R, k) BY <1>1, <1>2, <1>8
<1>10. CASE \E r \in R : r.decided BY <1>4, <1>9, <1>10 DEF Selectable
<1>11. CASE ~\E r \in R : r.decided
  <2>1. PICK t \in R : t \in Newest(R) BY <1>4, <1>7, NewestExists
  <2>2. PICK n \in Epoch : n = t.epoch BY <1>4
  <2>3. /\ \A r \in R : r.epoch <= n
        /\ \A r \in Newest(R) : r \in R /\ r.epoch = n
    <3>1. \A r \in R : r.epoch <= n BY <2>1, <2>2 DEF Newest
    <3>2. \A r \in Newest(R) : r \in R /\ n <= r.epoch BY <2>1, <2>2 DEF Newest
    <3>3. ASSUME NEW r \in Newest(R) PROVE r.epoch = n
      <4>1. r \in R /\ n <= r.epoch /\ r.epoch <= n BY <3>1, <3>2
      <4>2. r.epoch \in Nat /\ n \in Nat BY <1>4, <4>1, Naturals
      <4> QED BY <4>1, <4>2
    <3> QED BY <3>1, <3>2, <3>3
  <2>4. Backs(r0, b, w) BY <1>7, <1>11
  <2>5. n >= b /\ n \in Nat /\ b \in Nat
    <3>1. r0.epoch >= b /\ r0.epoch <= n BY <2>3, <2>4 DEF Backs
    <3>2. r0.epoch \in Nat /\ n \in Nat /\ b \in Nat BY <1>4, Naturals
    <3> QED BY <3>1, <3>2
  <2>6. PICK T : T = Newest(R) OBVIOUS
  <2>7. PICK vals : vals = {r.value : r \in T} OBVIOUS
  <2>8. PICK strong : strong = {v \in vals : Cardinality({r \in T : r.value = v}) >= Minimum(k)}
    OBVIOUS
  <2>9. u \in IF Noop \in vals THEN {Noop}
              ELSE IF Cardinality(vals) = 1 THEN vals
              ELSE IF strong # {} THEN strong ELSE {Noop}
    <3>1. R # {} BY <1>7
    <3>2. {r \in R : r.decided} = {} BY <1>11
    <3> QED BY <1>9, <2>6, <2>7, <2>8, <3>1, <3>2 DEF Selectable
  <2>10. CASE n > 0
    <3>1. ASSUME NEW r \in T PROVE r.value = w
      <4>1. r \in R /\ r.epoch = n BY <2>3, <2>6
      <4>2. Known(s, n, r.value) /\ r.value \in Command BY <1>4, <1>11, <2>10, <4>1
      <4> QED BY <2>5, <4>2 DEF Settled
    <3>2. vals = {w} BY <2>1, <2>6, <2>7, <3>1
    <3>3. Cardinality(vals) = 1 BY <3>2, FS_Singleton
    <3> QED BY <2>9, <3>2, <3>3
  <2>11. CASE n = 0
    <3>1. b = 0 BY <2>5, <2>11
    <3>2. ASSUME NEW r \in R PROVE r \in T /\ r.epoch = 0 /\ r.value # Noop
      <4>1. r.epoch \in Nat /\ r.epoch <= n BY <1>4, <2>3, Naturals
      <4>2. r.epoch = 0 BY <2>11, <4>1
      <4>3. \A x \in R : x.epoch <= r.epoch BY <2>3, <2>11, <4>2
      <4> QED BY <1>4, <1>11, <2>6, <4>2, <4>3 DEF Newest
    <3>3. T = R BY <2>3, <2>6, <3>2
    <3>4. Noop \notin vals BY <2>7, <3>2, <3>3
    <3>5. \A q \in Q : q \in V => \E r \in R : r.from = q /\ r.value = w
      BY <1>5, <1>11, <3>2 DEF Backs
    <3>6. w \in vals BY <1>6, <2>7, <3>3, <3>5
    <3>7. IsFiniteSet(R)
      <4> DEFINE f == [r \in R |-> r.from]
      <4>1. f \in Injection(R, V) BY <1>4 DEF Injection, IsInjective
      <4>2. IsFiniteSet(V) BY <1>3, Replicas
      <4> QED BY <4>1, <4>2, FS_Injection
    <3>8. IsFiniteSet(vals)
      <4> DEFINE f == [r \in R |-> r.value]
      <4>1. f \in Surjection(R, vals) BY <2>7, <3>3 DEF Surjection
      <4> QED BY <3>7, <4>1, FS_Surjection
    <3>9. CASE Cardinality(vals) = 1
      <4>1. PICK x : vals = {x} BY <3>8, <3>9, FS_Singleton
      <4> QED BY <2>9, <3>4, <3>6, <3>9, <4>1
    <3>10. CASE Cardinality(vals) # 1
      <4>1. /\ Q \in SUBSET Replica /\ Cardinality(Q) >= FastQuorum
            /\ Cardinality(Q) \in Nat /\ Cardinality(Q) <= N
        BY <3>1, Replicas DEF QuorumOf
      <4>2. PICK o \in Nat : o = Cardinality(Q \cap V) BY <4>1, Replicas
      <4>3. o >= Cardinality(Q) + k - N BY <1>3, <1>8, <4>1, <4>2, Overlap
      <4>4. k >= Majority /\ k <= N BY <1>2, <1>3, <1>8, Replicas
      <4>5. w \in strong
        <5> DEFINE A == {r \in T : r.value = w}
                   I == {r.from : r \in A}
                   f == [r \in A |-> r.from]
        <5>1. IsFiniteSet(A) BY <3>3, <3>7, FS_Subset
        <5>2. f \in Surjection(A, I) BY DEF Surjection
        <5>3. IsFiniteSet(I) /\ Cardinality(I) <= Cardinality(A) BY <5>1, <5>2, FS_Surjection
        <5>4. Q \cap V \in SUBSET I BY <3>3, <3>5
        <5>5. o <= Cardinality(I) BY <4>2, <5>3, <5>4, FS_Subset
        <5>6. Cardinality(I) \in Nat /\ Cardinality(A) \in Nat BY <5>1, <5>3, CardNat
        <5>7. Cardinality(A) >= FastQuorum + k - N
          BY <4>1, <4>3, <5>3, <5>5, <5>6, Sizes, NAssumption
        <5> QED BY <2>8, <3>6, <5>7 DEF Minimum
      <4>6. u \in strong BY <2>9, <3>4, <3>10, <4>5
      <4>7. ASSUME u # w PROVE FALSE
        <5> DEFINE B == {r \in T : r.value = u}
                   f == [r \in B |-> r.from]
        <5>1. Cardinality(B) >= FastQuorum + k - N BY <2>8, <4>6 DEF Minimum
        <5>2. \A r \in B : r.from \in V /\ r.from \notin Q
          <6> SUFFICES ASSUME NEW r \in B, r.from \in Q PROVE FALSE BY <1>4, <3>3
          <6>1. r \in R /\ r.value = u /\ r.from \in V BY <1>4, <3>3
          <6>2. PICK x \in R : x.from = r.from /\ x.value = w BY <3>5, <6>1
          <6>3. x = r BY <1>4, <6>1, <6>2
          <6> QED BY <4>7, <6>1, <6>2, <6>3
        <5>3. \A r, x \in B : r.from = x.from => r = x BY <1>4, <3>3
        <5>4. f \in Injection(B, V \ Q) BY <5>2, <5>3 DEF Injection, IsInjective
        <5>5. IsFiniteSet(V) BY <1>3, Replicas
        <5>6. IsFiniteSet(V \ Q) /\ Cardinality(V \ Q) = k - Cardinality(V \cap Q)
          BY <1>8, <5>5, FS_Difference
        <5>7. Cardinality(V \cap Q) = o
          <6>1. V \cap Q = Q \cap V OBVIOUS
          <6> QED BY <4>2, <6>1
        <5>8. IsFiniteSet(B) /\ Cardinality(B) <= k - o BY <5>4, <5>6, <5>7, FS_Injection
        <5>9. Cardinality(B) \in Nat BY <5>8, CardNat
        <5> HIDE DEF B
        <5> QED BY <4>1, <4>3, <4>4, <5>1, <5>8, <5>9, Sizes, NAssumption
      <4> QED BY <4>7
    <3> QED BY <3>9, <3>10
  <2> QED BY <2>5, <2>10, <2>11
<1> QED BY <1>10, <1>11

\* What a quorum of an earlier epoch keeps is planned by who takes over.
LEMMA ForcedPlan ==
    ASSUME TypeOK, TypeOK', Shape, RoleMoves, OneValue, Safe, Locked, NEW i \in Replica,
           NEW P \in SUBSET Page, NEW last, NEW pick, Adoption(i, P, last, pick),
           NEW s \in Slot, start[i] <= s, NEW b \in Epoch, b < promise[i],
           NEW w \in Command, NEW Q \in QuorumOf(b),
           \A q \in Q : q \in Voters(P) => Keeps(q, s, b, w), Settled(b, s, w)
    PROVE  s <= last /\ Planning(i, s)' /\ proposed'[i][s].value = w
<1>1. /\ Cardinality(Voters(P)) >= Majority /\ ForEpoch(P, promise[i])
      /\ promise[i] \in Epoch /\ promise' = promise
  BY Numbers DEF Adoption, ForEpoch
<1>2. Voters(P) \in Quorum BY <1>1 DEF Quorum, Voters
<1>3. \A q \in Q : q \in Voters(P) => s <= last /\ ReportsOf(P, q, s, b, w)
  BY VoterReports
<1>4. s <= last
  <2>1. PICK q \in Replica : q \in Q /\ q \in Voters(P) BY <1>2, Replicas, QuorumsMeet
  <2> QED BY <1>3, <2>1
<1>5. s \in Span(i, last)
  <2>1. last \in (start[i] - 1)..MaxSlot /\ start[i] \in Nat BY Numbers DEF Adoption
  <2> QED BY <1>4, <2>1, Naturals, BoundAssumption DEF Span
<1>6. ASSUME NEW x \in Command, Claimed(s, x) PROVE x = w
  <2>1. PICK a \in Epoch : \E A \in QuorumOf(a) : Lock(s, x, a, A) BY <1>6 DEF Locked
  <2>2. PICK A \in QuorumOf(a) : Lock(s, x, a, A) BY <2>1
  <2>3. \A q \in Q : q \in Voters(P) => Keeps(q, s, b, w) OBVIOUS
  <2> QED BY <1>2, <2>2, <2>3, ForcedAgrees
<1>7. /\ proposed'[i][s] = [epoch |-> promise[i], value |-> pick[s]] /\ pick[s] \in Command
      /\ pick[s] \in Selectable(Reports(P, s), Cardinality(Voters(P)))
  BY <1>5 DEF Adoption
<1>8. pick[s] = w
  <2>1. \A q \in Q : q \in Voters(P) => ReportsOf(P, q, s, b, w) BY <1>3
  <2>2. \A x \in Command : Claimed(s, x) => x = w BY <1>6
  <2> QED BY <1>1, <1>7, <2>1, <2>2, Selection
<1>9. proposed'[i][s] # None BY <1>1, <1>7, NoneAssumption
<1> QED BY <1>1, <1>4, <1>7, <1>8, <1>9 DEF Planning

\* What may have been chosen before is planned by who takes over.
LEMMA ChoosablePlan ==
    ASSUME TypeOK, TypeOK', Shape, RoleMoves, VoteInv, PledgeInv, OneValue, Safe, Locked,
           NEW i \in Replica, NEW P \in SUBSET Page, NEW last, NEW pick,
           Adoption(i, P, last, pick), NEW s \in Slot, start[i] <= s, NEW b \in Epoch,
           b < promise[i], NEW w \in Command, CanChoose(b, s, w)
    PROVE  /\ s <= last
           /\ Choosable(b, s, w) => Planning(i, s)' /\ proposed'[i][s].value = w
<1>1. PICK Q \in QuorumOf(b) : \A q \in Q : MayVote(q, b, s, w) BY DEF CanChoose
<1>2. Q \subseteq Replica BY DEF QuorumOf
<1>3. /\ Cardinality(Voters(P)) >= Majority /\ \A p \in P : p \in Promised /\ p.epoch = promise[i]
  BY DEF Adoption
<1>4. Voters(P) \in Quorum BY <1>3 DEF Quorum, Voters
<1>5. ASSUME NEW q \in Q, q \in Voters(P) PROVE Keeps(q, s, b, w)
  <2>1. PICK p \in P : p.from = q BY <1>5 DEF Voters, CompleteFrom, PagesFrom
  <2>2. promise[i] <= promise[q] BY <1>3, <2>1 DEF Shape, PromiseShape, GoodPage
  <2>3. {promise[i], promise[q], b} \subseteq Nat BY <1>2, Numbers, Naturals
  <2>4. promise[q] > b BY <2>2, <2>3
  <2> QED BY <1>1, <1>2, <2>4, MayVoteKeeps
<1>6. s <= last
  <2>1. PICK q \in Replica : q \in Q /\ q \in Voters(P) BY <1>4, Replicas, QuorumsMeet
  <2>2. Keeps(q, s, b, w) BY <1>5, <2>1
  <2> QED BY <2>1, <2>2, VoterReports
<1>7. ASSUME Choosable(b, s, w) PROVE Planning(i, s)' /\ proposed'[i][s].value = w
  <2>1. Settled(b, s, w) BY <1>7, ChoosableSettled
  <2>2. \A q \in Q : q \in Voters(P) => Keeps(q, s, b, w) BY <1>5
  <2> QED BY <2>1, <2>2, ForcedPlan
<1> QED BY <1>6, <1>7

-----------------------------------------------------------------------------
(***************************************************************************)
(* A later epoch has the value that an earlier one may have chosen.        *)
(***************************************************************************)
LEMMA SafeStep ==
    ASSUME TypeOK, TypeOK', Shape, Safety, Moves
    PROVE  Safe'
<1> SUFFICES ASSUME NEW s \in Slot, NEW e \in Epoch, NEW b \in Epoch, NEW v \in Command,
                    NEW w \in Command, b < e, Known(s, e, v)', CanChoose(b, s, w)',
                    b > 0 => Known(s, b, w)'
             PROVE  v = w
  BY DEF Safe, Choosable
<1>1. RoleMoves /\ VoteInv /\ PledgeInv /\ OneValue /\ Owned /\ Safe /\ Locked /\ Established
  BY DEF Moves, Safety
<1>2. CanChoose(b, s, w) BY CanChooseBack
<1>3. Elected(e) BY <1>1, KnownElected
<1>4. Choosable(b, s, w)
  <2>1. b \in Nat BY Naturals
  <2>2. CASE b = 0 BY <1>2, <2>2 DEF Choosable
  <2>3. CASE b > 0
    <3>1. ~FreshPlan(s, b, w) BY <1>1, <1>2, <1>3, TooLate DEF FreshPlan
    <3>2. Known(s, b, w) BY <2>3, <3>1, KnownBack
    <3> QED BY <1>2, <3>2 DEF Choosable
  <2> QED BY <2>1, <2>2, <2>3
<1>5. CASE Known(s, e, v) BY <1>1, <1>4, <1>5 DEF Safe
<1>6. CASE FreshPlan(s, e, v)
  <2>1. PICK i \in Replica : /\ promise[i] = e /\ NewPlan(i, s) /\ proposed'[i][s].value = v
    BY <1>6 DEF FreshPlan
  <2>2. ~Planning(i, s) /\ start[i] <= s /\ (Leading(i) \/ TookOver(i))
    BY <1>1, <2>1, FirstPlan
  <2>3. ~Leading(i) BY <1>1, <1>2, <2>1, <2>2 DEF Established
  <2>4. PICK P \in SUBSET Page : \E last, pick : Adoption(i, P, last, pick)
    BY <2>2, <2>3, AdoptionFacts
  <2>5. PICK last : \E pick : Adoption(i, P, last, pick) BY <2>4
  <2>6. PICK pick : Adoption(i, P, last, pick) BY <2>5
  <2>7. proposed'[i][s].value = w BY <1>1, <1>2, <1>4, <2>1, <2>2, <2>6, ChoosablePlan
  <2> QED BY <2>1, <2>7
<1> QED BY <1>5, <1>6, KnownBack

LEMMA EstablishedStep ==
    ASSUME TypeOK, TypeOK', Shape, Safety, Moves
    PROVE  Established'
<1> SUFFICES ASSUME NEW i \in Replica, Leading(i)'
             PROVE  /\ Elected(promise[i])'
                    /\ \A s \in Slot, b \in Epoch, v \in Command :
                          b < promise'[i] /\ start'[i] <= s /\ CanChoose(b, s, v)'
                            => Planning(i, s)'
  BY DEF Established
<1>1. /\ RoleMoves /\ PlanMoves /\ VoteInv /\ PledgeInv /\ OneValue /\ Owned /\ Safe /\ Locked
      /\ Established
  BY DEF Moves, Safety
<1>2. /\ promise'[i] = promise[i] /\ start'[i] = start[i] /\ (Leading(i) \/ TookOver(i))
  BY <1>1, LeadsOn
<1>3. Elected(promise[i])'
  <2>1. PICK e \in Epoch : e = promise[i] BY Numbers
  <2>2. Elected(e) BY <1>1, <1>2, <2>1, PlanElected
  <2>3. Elected(e)' BY <1>1, <2>2, EpochsGrow
  <2> QED BY <1>2, <2>1, <2>3 DEF Elected
<1>4. ASSUME NEW s \in Slot, NEW b \in Epoch, NEW v \in Command, b < promise[i], start[i] <= s,
             CanChoose(b, s, v)'
      PROVE  Planning(i, s)'
  <2>1. CanChoose(b, s, v) BY <1>4, CanChooseBack
  <2>2. CASE Leading(i)
    <3>1. Planning(i, s) BY <1>1, <1>4, <2>1, <2>2 DEF Established
    <3> QED BY <1>1, <1>2, <3>1, PlanStays
  <2>3. CASE TookOver(i)
    <3>1. PICK P \in SUBSET Page : \E last, pick : Adoption(i, P, last, pick)
      BY <2>3, AdoptionFacts
    <3>2. PICK last : \E pick : Adoption(i, P, last, pick) BY <3>1
    <3>3. PICK pick : Adoption(i, P, last, pick) BY <3>2
    <3>4. s <= last BY <1>1, <1>4, <2>1, <3>3, ChoosablePlan
    <3>5. s \in Span(i, last)
      <4>1. last \in (start[i] - 1)..MaxSlot /\ start[i] \in Nat BY <3>3, Numbers DEF Adoption
      <4> QED BY <1>4, <3>4, <4>1, Naturals, BoundAssumption DEF Span
    <3>6. proposed'[i][s] = [epoch |-> promise[i], value |-> pick[s]] /\ pick[s] \in Command
      BY <3>3, <3>5 DEF Adoption
    <3>7. proposed'[i][s] # None BY <3>6, Numbers, NoneAssumption
    <3> QED BY <1>2, <3>6, <3>7 DEF Planning
  <2> QED BY <1>2, <2>2, <2>3
<1> QED BY <1>2, <1>3, <1>4

-----------------------------------------------------------------------------
(***************************************************************************)
(* Decisions are locked.                                                   *)
(***************************************************************************)
\* A quorum of votes locks its value.
LEMMA WonLock ==
    ASSUME TypeOK, Shape, Safety, NEW s \in Slot, NEW v \in Command, Won(s, v)
    PROVE  \E b \in Epoch : \E Q \in QuorumOf(b) : Lock(s, v, b, Q)
<1>1. PICK e \in Epoch : /\ e > 0 => Known(s, e, v)
                         /\ \E Q \in QuorumOf(e) : \A q \in Q : Acked(q, e, s, v)
  BY DEF Won
<1>2. PICK Q \in QuorumOf(e) : \A q \in Q : Acked(q, e, s, v) BY <1>1
<1>3. Q \subseteq Replica /\ Q \in Quorum BY Replicas DEF QuorumOf
<1>4. PICK q \in Replica : q \in Q BY <1>3, QuorumsMeet
<1>5. VoteInv /\ OneValue /\ Safe /\ Established BY DEF Safety
<1>6. Choosable(e, s, v) BY <1>1, <1>2 DEF Choosable, CanChoose, MayVote
<1>7. Settled(e, s, v) BY <1>5, <1>6, ChoosableSettled
<1>8. Led(e) /\ \A p \in Q : Keeps(p, s, e, v) BY <1>2, <1>3, <1>4, <1>5 DEF VoteInv
<1>9. ASSUME NEW i \in Replica, Leading(i), promise[i] >= e
      PROVE  s < start[i] \/ (Planning(i, s) /\ proposed[i][s].value = v)
  <2>1. {promise[i], e, start[i], s} \subseteq Nat /\ promise[i] \in Epoch BY Numbers, Naturals
  <2>2. promise[i] > 0 /\ Owner(promise[i]) = i BY <1>9 DEF Leading
  <2>3. Planning(i, s) => proposed[i][s].value = v
    <3> SUFFICES ASSUME Planning(i, s) PROVE proposed[i][s].value = v OBVIOUS
    <3>1. proposed[i][s].value \in Command /\ Known(s, promise[i], proposed[i][s].value)
      BY <2>2, Ballot DEF Planning, Known
    <3> QED BY <1>7, <1>9, <2>1, <3>1 DEF Settled
  <2>4. CASE promise[i] = e
    <3>1. Planning(i, s) BY <1>2, <1>4, <1>5, <2>2, <2>4 DEF VoteInv
    <3> QED BY <2>3, <3>1
  <2>5. CASE promise[i] # e
    <3>1. e < promise[i] BY <1>9, <2>1, <2>5
    <3>2. start[i] <= s => Planning(i, s) BY <1>5, <1>6, <1>9, <3>1 DEF Established, Choosable
    <3> QED BY <2>1, <2>3, <3>2
  <2> QED BY <2>4, <2>5
<1>10. Lock(s, v, e, Q) BY <1>7, <1>8, <1>9 DEF Lock, Settled
<1> QED BY <1>10

\* Who takes over after a lock plans its value.
LEMMA LockedPlan ==
    ASSUME TypeOK, TypeOK', Shape, Safety, RoleMoves, NEW s \in Slot, NEW v \in Command,
           NEW b \in Epoch, NEW Q \in QuorumOf(b), Lock(s, v, b, Q),
           NEW i \in Replica, TookOver(i), preparing[i], Owner(promise[i]) = i,
           promise[i] >= b, start[i] <= s
    PROVE  Planning(i, s)' /\ proposed'[i][s].value = v
<1>1. OneValue /\ Safe /\ Locked BY DEF Safety
<1>2. Settled(b, s, v) /\ (\A q \in Q : Keeps(q, s, b, v)) /\ Led(b) BY DEF Lock, Settled
<1>3. b < promise[i]
  <2>1. promise[i] \in Nat /\ b \in Nat /\ promise[i] > 0
    BY Numbers, Naturals DEF Shape, Roles
  <2>2. b # promise[i] BY <1>2, <2>1 DEF Led
  <2> QED BY <2>1, <2>2
<1>4. PICK P \in SUBSET Page : \E last, pick : Adoption(i, P, last, pick) BY AdoptionFacts
<1>5. PICK last : \E pick : Adoption(i, P, last, pick) BY <1>4
<1>6. PICK pick : Adoption(i, P, last, pick) BY <1>5
<1>7. \A q \in Q : q \in Voters(P) => Keeps(q, s, b, v) BY <1>2
<1> QED BY <1>1, <1>2, <1>3, <1>6, <1>7, ForcedPlan

LEMMA LockStays ==
    ASSUME TypeOK, TypeOK', Shape, Safety, Moves, NEW s \in Slot, NEW v \in Command,
           NEW b \in Epoch, NEW Q \in QuorumOf(b), Lock(s, v, b, Q)
    PROVE  Lock(s, v, b, Q)'
<1>1. RoleMoves /\ VoteMoves /\ PageMoves /\ PlanMoves BY DEF Moves
<1>2. Settled(b, s, v) /\ (\A q \in Q : Keeps(q, s, b, v)) /\ Led(b) BY DEF Lock, Settled
<1>3. Led(b)' BY <1>1, <1>2, EpochsGrow
<1>4. Q \subseteq Replica BY DEF QuorumOf
<1>5. \A q \in Q : Keeps(q, s, b, v)' BY <1>1, <1>2, <1>4, KeepsStays
<1>6. ASSUME NEW i \in Replica, Leading(i), promise[i] >= b
      PROVE  s < start[i] \/ (Planning(i, s) /\ proposed[i][s].value = v)
  BY <1>6 DEF Lock
<1>7. ASSUME NEW e \in Epoch, NEW w \in Command, e >= b, Known(s, e, w)' PROVE w = v
  <2>1. CASE Known(s, e, w) BY <1>2, <1>7, <2>1 DEF Settled
  <2>2. CASE FreshPlan(s, e, w)
    <3>1. PICK i \in Replica : promise[i] = e /\ NewPlan(i, s) /\ proposed'[i][s].value = w
      BY <2>2 DEF FreshPlan
    <3>2. /\ ~Planning(i, s) /\ start[i] <= s /\ Owner(promise[i]) = i
          /\ Leading(i) \/ (TookOver(i) /\ preparing[i])
      BY <1>1, <3>1, FirstPlan
    <3>3. CASE Leading(i)
      <4>1. s < start[i] BY <1>6, <1>7, <3>1, <3>2, <3>3
      <4> QED BY <3>2, <4>1, Numbers, Naturals
    <3>4. CASE TookOver(i) /\ preparing[i]
      <4>1. promise[i] >= b BY <1>7, <3>1
      <4>2. proposed'[i][s].value = v BY <1>1, <3>2, <3>4, <4>1, LockedPlan
      <4> QED BY <3>1, <4>2
    <3> QED BY <3>2, <3>3, <3>4
  <2> QED BY <1>7, <2>1, <2>2, KnownBack
<1>8. ASSUME NEW i \in Replica, Leading(i)', promise'[i] >= b
      PROVE  s < start'[i] \/ (Planning(i, s)' /\ proposed'[i][s].value = v)
  <2>1. /\ promise'[i] = promise[i] /\ start'[i] = start[i] /\ Owner(promise[i]) = i
        /\ Leading(i) \/ (TookOver(i) /\ preparing[i])
    BY <1>1, <1>8, LeadsOn
  <2>2. CASE Leading(i)
    <3>1. s < start[i] \/ (Planning(i, s) /\ proposed[i][s].value = v)
      BY <1>6, <1>8, <2>1, <2>2
    <3>2. Planning(i, s) => Planning(i, s)' /\ proposed'[i][s] = proposed[i][s]
      BY <1>1, <2>1, PlanStays
    <3> QED BY <2>1, <3>1, <3>2
  <2>3. CASE TookOver(i) /\ preparing[i]
    <3>1. promise[i] >= b BY <1>8, <2>1
    <3>2. start[i] <= s => Planning(i, s)' /\ proposed'[i][s].value = v
      BY <1>1, <2>1, <2>3, <3>1, LockedPlan
    <3>3. s < start[i] \/ start[i] <= s BY Numbers, Naturals
    <3> QED BY <2>1, <3>2, <3>3
  <2> QED BY <2>1, <2>2, <2>3
<1> QED BY <1>3, <1>5, <1>7, <1>8 DEF Lock

LEMMA LockedStep ==
    ASSUME TypeOK, TypeOK', Shape, Safety, Moves
    PROVE  Locked'
<1> SUFFICES ASSUME NEW s \in Slot, NEW v \in Command, Claimed(s, v)'
             PROVE  \E b \in Epoch : \E Q \in QuorumOf(b) : Lock(s, v, b, Q)'
  BY DEF Locked, QuorumOf
<1>1. \E b \in Epoch : \E Q \in QuorumOf(b) : Lock(s, v, b, Q)
  <2>1. CASE Claimed(s, v) BY <2>1 DEF Safety, Locked
  <2>2. CASE Won(s, v) BY <2>2, WonLock
  <2> QED BY <2>1, <2>2, ClaimedBack
<1>2. PICK b \in Epoch : \E Q \in QuorumOf(b) : Lock(s, v, b, Q) BY <1>1
<1>3. PICK Q \in QuorumOf(b) : Lock(s, v, b, Q) BY <1>2
<1>4. Lock(s, v, b, Q)' BY <1>3, LockStays
<1> QED BY <1>4

-----------------------------------------------------------------------------
(***************************************************************************)
(* Shape and Safety hold in every state.                                   *)
(***************************************************************************)
LEMMA SafetyStep ==
    ASSUME TypeOK, TypeOK', Shape, Safety, Moves
    PROVE  Safety'
<1>1. /\ RoleMoves /\ VoteMoves /\ PlanMoves
      /\ VoteInv /\ PledgeInv /\ OneValue /\ Owned /\ Locked /\ Established
  BY DEF Moves, Safety
<1>2. Shape' BY ShapeStep
<1>3. VoteInv' BY <1>1, <1>2, VoteInvStep
<1>4. PledgeInv' BY <1>1, <1>2, PledgeInvStep
<1>5. OneValue' BY <1>1, OneValueStep
<1>6. Owned' BY <1>1, OwnedStep
<1>7. Safe' BY SafeStep
<1>8. Locked' BY LockedStep
<1>9. Established' BY EstablishedStep
<1> QED BY <1>3, <1>4, <1>5, <1>6, <1>7, <1>8, <1>9 DEF Safety

\* The step that changes nothing.
LEMMA StutterMoves ==
    ASSUME TypeOK, TypeOK', Shape, UNCHANGED vars
    PROVE  Moves
<1>1. \A m \in {} : Plain(m) /\ Aside(m) /\ Sent(m) OBVIOUS
<1>2. /\ Post({}, {})
      /\ UNCHANGED <<roleVars, pageVars, accepted, proposed, chosen, votes, acks, high, next,
                     crashed>>
  BY DEF vars, Post, slotVars, logVars, envVars
<1> QED BY <1>1, <1>2, QuietMoves

\* At first nobody has voted, planned, promised or decided anything.
LEMMA InitShape == Init => Shape /\ Safety
<1> SUFFICES ASSUME Init PROVE Shape /\ Safety OBVIOUS
<1>1. TypeOK BY InitType DEF TypeInv
<1>2. Promised = {} /\ msgs = {} BY DEF Init, PerReplica, Promised
<1>3. \A i \in Replica :
          /\ promise[i] = 0 /\ ~preparing[i] /\ ~Leading(i) /\ frozen[i] = {}
          /\ \A s \in Slot : /\ accepted[i][s] = None /\ proposed[i][s] = None
                             /\ chosen[i][s] = None /\ votes[i][s] = {} /\ acks[i][s] = {}
  BY DEF Init, PerReplica, PerSlot, Leading
<1>4. /\ \A s \in Slot, e \in Epoch, v \in Command : ~Known(s, e, v)
      /\ \A s \in Slot, v \in Command : ~Claimed(s, v)
      /\ \A s \in Slot, e \in Epoch, q \in Replica, v \in Command : ~Acked(q, e, s, v)
  BY <1>2, <1>3, Naturals DEF Known, Claimed, Acked, Planning
<1>5. \A q, e : PagesOf(q, e) = {} BY <1>2 DEF PagesOf
<1>6. Begun(0)
  <2>1. PICK o \in Replica : o = Owner(0) BY Naturals
  <2> QED BY <1>3, <2>1 DEF Begun
<1>7. Roles BY <1>3, <1>6 DEF Roles
<1>8. Plans /\ VoteShape BY <1>3 DEF Plans, VoteShape, Planning
<1>9. Traffic /\ PromiseShape /\ Preparation
  BY <1>2, <1>3 DEF Traffic, PromiseShape, Preparation
<1>10. OneSnapshot BY <1>5, FS_EmptySet DEF OneSnapshot
<1>11. VoteInv /\ OneValue /\ Owned /\ Safe /\ Locked /\ Established
  <2>1. VoteInv BY <1>4 DEF VoteInv
  <2>2. OneValue /\ Owned BY <1>4 DEF OneValue, Owned
  <2>3. Safe BY <1>4 DEF Safe
  <2>4. Locked BY <1>4 DEF Locked
  <2>5. Established BY <1>3 DEF Established
  <2> QED BY <2>1, <2>2, <2>3, <2>4, <2>5
<1>12. PledgeInv
  <2>1. \A e \in Epoch, s \in Slot : ~Pledged(Owner(e), e, s) BY <1>2 DEF Pledged
  <2> QED BY <2>1 DEF PledgeInv
<1> QED BY <1>7, <1>8, <1>9, <1>10, <1>11, <1>12 DEF Shape, Safety

\* The inductive invariant of FastPaxos: what is voted for in an epoch is kept by
\* later votes and promises, so no later epoch can plan anything else.
Kept == TypeInv /\ Shape /\ Safety
THEOREM FastPaxosInvariance == Spec => []Kept
<1>1. Init => Kept BY InitType, InitShape DEF Kept
<1>2. Kept /\ [Next]_vars => Kept'
  <2> SUFFICES ASSUME Kept, [Next]_vars PROVE Kept' OBVIOUS
  <2>1. TypeInv' BY NextType DEF Kept
  <2>2. TypeOK /\ TypeOK' /\ Shape /\ Safety BY <2>1 DEF Kept, TypeInv
  <2>3. Moves BY <2>2, NextMoves, StutterMoves
  <2>4. Shape' BY <2>2, <2>3, ShapeStep
  <2>5. Safety' BY <2>2, <2>3, SafetyStep
  <2> QED BY <2>1, <2>4, <2>5 DEF Kept
<1> QED BY <1>1, <1>2, PTL DEF Spec

\* Three of the four panics are unreachable: the decision a Commit reports, the
\* value an Accept carries and the newest votes a coordinator has collected for a
\* slot agree with what the receiver has decided, accepted or collected.
THEOREM FastPaxosNoPanic == Spec => []NoPanic
<1>1. Kept => NoPanic
  <2> SUFFICES ASSUME Kept PROVE NoPanic OBVIOUS
  <2>1. TypeOK /\ Shape /\ OneValue /\ Locked BY DEF Kept, TypeInv, Safety
  <2>2. ASSUME NEW m \in msgs, m.kind = "Commit" PROVE chosen[m.to][m.slot] \in {None, m.value}
    <3>1. m.to \in Replica /\ m.slot \in Slot /\ m.value \in Command
      BY <2>1, <2>2, PacketFields DEF TypeOK
    <3>2. ASSUME chosen[m.to][m.slot] # None PROVE chosen[m.to][m.slot] = m.value
      <4>1. chosen[m.to][m.slot] \in Command BY <2>1, <3>1, <3>2, Ballot
      <4>2. Claimed(m.slot, chosen[m.to][m.slot]) /\ Claimed(m.slot, m.value)
        BY <2>2, <3>1, <3>2 DEF Claimed
      <4> QED BY <2>1, <3>1, <4>1, <4>2, LocksAgree
    <3> QED BY <3>2
  <2>3. ASSUME NEW m \in msgs, m.kind = "Accept" PROVE ~Equivocates(m.to, m)
    <3>1. /\ m.epoch \in Epoch /\ m.slot \in Slot /\ m.value \in Command /\ m.epoch > 0
          /\ Known(m.slot, m.epoch, m.value)
      BY <2>1, <2>3, AcceptKnown
    <3>2. m.to \in Replica BY <2>1, PacketFields DEF TypeOK
    <3>3. SUFFICES ASSUME accepted[m.to][m.slot] # None, accepted[m.to][m.slot].epoch = m.epoch
                   PROVE  accepted[m.to][m.slot].value = m.value
      BY DEF Equivocates
    <3>4. accepted[m.to][m.slot].value \in Command BY <2>1, <3>1, <3>2, <3>3, Ballot
    <3>5. Known(m.slot, m.epoch, accepted[m.to][m.slot].value)
      BY <3>1, <3>2, <3>3 DEF Known
    <3> QED BY <2>1, <3>1, <3>4, <3>5 DEF OneValue
  <2>4. ASSUME NEW i \in Replica, NEW s \in Slot, NEW x \in Newest(Reports(pages[i], s)),
               NEW y \in Newest(Reports(pages[i], s)), preparing[i], x.epoch > 0,
               ~x.decided, ~y.decided
        PROVE  x.value = y.value
    <3>1. PICK P \in SUBSET Page : P = pages[i] BY <2>1 DEF TypeOK
    <3>2. promise[i] \in Epoch BY <2>1 DEF TypeOK
    <3>3. ForEpoch(P, promise[i]) BY <2>1, <2>4, <3>1 DEF ForEpoch, Shape, Preparation, Promised
    <3>4. x \in Reports(P, s) /\ y \in Reports(P, s) /\ x.epoch <= y.epoch /\ y.epoch <= x.epoch
      BY <3>1 DEF Newest
    <3>5. /\ x.epoch \in Epoch /\ x.value \in Command /\ y.epoch \in Epoch /\ y.value \in Command
          /\ x.epoch > 0 => Known(s, x.epoch, x.value)
          /\ y.epoch > 0 => Known(s, y.epoch, y.value)
      BY <2>1, <2>4, <3>2, <3>3, <3>4, ReportFacts
    <3>6. x.epoch = y.epoch
      <4>1. x.epoch \in Nat /\ y.epoch \in Nat BY <3>5, Naturals
      <4> QED BY <3>4, <4>1
    <3> QED BY <2>1, <2>4, <3>5, <3>6 DEF OneValue
  <2> QED BY <2>2, <2>3, <2>4 DEF NoPanic
<1> QED BY <1>1, FastPaxosInvariance, PTL

-----------------------------------------------------------------------------
(***************************************************************************)
(* What is decided, whether or not anybody has counted the votes.          *)
(***************************************************************************)
\* A quorum of e has voted for v.
Voted(e, s, v) ==
    \E Q \in QuorumOf(e) : \A q \in Q : Acked(q, e, s, v) \/ Pledged(q, e, s)
LEMMA ChosenVoted ==
    ASSUME TypeOK, Shape, NEW x \in ChosenCommands
    PROVE  \E e \in Epoch, s \in Slot, v \in Command :
              x = <<s, v>> /\ Voted(e, s, v) /\ (e > 0 => Known(s, e, v))
<1>1. CASE x \in Slot \X Request /\ Cardinality(FastVoters(x[1], x[2])) >= FastQuorum
  <2>1. PICK s \in Slot : s = x[1] BY <1>1
  <2>2. PICK v \in Command : v = x[2] BY <1>1 DEF Command
  <2>3. x = <<s, v>> BY <1>1, <2>1, <2>2
  <2>4. PICK Q : Q = FastVoters(s, v) OBVIOUS
  <2>5. \A q \in Q : q \in Replica /\ Acked(q, 0, s, v)
    BY <2>4, PacketFields DEF FastVoters, Acked, TypeOK
  <2>6. Q \in QuorumOf(0) BY <1>1, <2>1, <2>2, <2>4, <2>5 DEF QuorumOf
  <2>7. Voted(0, s, v) BY <2>5, <2>6 DEF Voted
  <2> QED BY <2>3, <2>7, Naturals
<1>2. ASSUME NEW m \in msgs, m.kind = "Accept", x = <<m.slot, m.value>>,
             Cardinality(ClassicVoters(m.epoch, m.slot)) >= Majority
      PROVE  \E e \in Epoch, s \in Slot, v \in Command :
                x = <<s, v>> /\ Voted(e, s, v) /\ (e > 0 => Known(s, e, v))
  <2>1. /\ m.epoch \in Epoch /\ m.slot \in Slot /\ m.value \in Command /\ m.epoch > 0
        /\ Known(m.slot, m.epoch, m.value)
    BY <1>2, AcceptKnown
  <2>2. PICK Q : Q = ClassicVoters(m.epoch, m.slot) OBVIOUS
  <2>3. \A q \in Q : \/ q \in Replica /\ Acked(q, m.epoch, m.slot, m.value)
                     \/ q = Owner(m.epoch)
    BY <2>1, <2>2, PacketFields DEF ClassicVoters, Acked, TypeOK
  <2>4. Pledged(Owner(m.epoch), m.epoch, m.slot) /\ Owner(m.epoch) \in Replica
    BY <1>2, <2>1, Naturals DEF Pledged
  <2>5. Q \subseteq Replica BY <2>3, <2>4
  <2>6. m.epoch # 0 BY <2>1, Naturals
  <2>7. Q \in QuorumOf(m.epoch) BY <1>2, <2>2, <2>5, <2>6 DEF QuorumOf
  <2>8. Voted(m.epoch, m.slot, m.value) BY <2>3, <2>4, <2>7 DEF Voted
  <2> QED BY <1>2, <2>1, <2>8
<1> QED BY <1>1, <1>2 DEF ChosenCommands

\* What is voted for in epoch b binds every later vote.
LEMMA VotedSettled ==
    ASSUME TypeOK, OneValue, Safe, NEW b \in Epoch, NEW s \in Slot, NEW v \in Command,
           Voted(b, s, v), b > 0 => Known(s, b, v)
    PROVE  Settled(b, s, v)
<1>1. CanChoose(b, s, v) BY DEF Voted, CanChoose, MayVote
<1>2. Choosable(b, s, v) BY <1>1 DEF Choosable
<1> QED BY <1>2, ChoosableSettled

\* Two values a quorum has voted for are the same.
LEMMA VotedOnce ==
    ASSUME TypeOK, OneValue, Safe, VoteInv, NEW s \in Slot,
           NEW b \in Epoch, NEW v \in Command, Voted(b, s, v), b > 0 => Known(s, b, v),
           NEW e \in Epoch, NEW w \in Command, Voted(e, s, w), e > 0 => Known(s, e, w)
    PROVE  v = w
<1>1. Settled(b, s, v) /\ Settled(e, s, w) BY VotedSettled
<1>2. b \in Nat /\ e \in Nat BY Naturals
<1>3. CASE e >= b /\ e > 0 BY <1>1, <1>3 DEF Settled
<1>4. CASE b >= e /\ b > 0 BY <1>1, <1>4 DEF Settled
<1>5. CASE b = 0 /\ e = 0
  <2>1. PICK Q \in QuorumOf(0) : \A q \in Q : Acked(q, 0, s, v) BY <1>5 DEF Voted, Pledged
  <2>2. PICK P \in QuorumOf(0) : \A q \in P : Acked(q, 0, s, w) BY <1>5 DEF Voted, Pledged
  <2>3. PICK q \in Replica : q \in Q /\ q \in P BY FastMeet, Replicas
  <2>4. Keeps(q, s, 0, v) /\ Keeps(q, s, 0, w) BY <2>1, <2>2, <2>3, Naturals DEF VoteInv
  <2>5. PICK a : a = accepted[q][s] OBVIOUS
  <2>6. a # None /\ Backs(a, 0, v) /\ Backs(a, 0, w) BY <2>4, <2>5 DEF Keeps, Holds
  <2>7. a.epoch \in Epoch /\ a.value \in Command /\ a.epoch \in Nat
    BY <2>5, <2>6, Ballot, Naturals
  <2>8. CASE a.epoch = 0 BY <2>6, <2>8 DEF Backs
  <2>9. CASE a.epoch > 0
    <3>1. Known(s, a.epoch, a.value) BY <2>5, <2>6, <2>9 DEF Known
    <3>2. a.epoch >= b /\ a.epoch >= e BY <1>5, <2>7
    <3> QED BY <1>1, <2>7, <3>1, <3>2 DEF Settled
  <2> QED BY <2>7, <2>8, <2>9
<1> QED BY <1>2, <1>3, <1>4, <1>5

\* A slot is decided at most once: a value with a fast quorum of votes, counted
\* or not, is the only one any coordinator can have accepted by a majority.
THEOREM FastPaxosDecidedOnce == Spec => []DecidedOnce
<1>1. Kept => DecidedOnce
  <2> SUFFICES ASSUME Kept, NEW x \in ChosenCommands, NEW y \in ChosenCommands, x[1] = y[1]
               PROVE  x = y
    BY DEF DecidedOnce
  <2>1. TypeOK /\ Shape /\ OneValue /\ Safe /\ VoteInv BY DEF Kept, TypeInv, Safety
  <2>2. PICK b \in Epoch, s \in Slot, v \in Command :
              x = <<s, v>> /\ Voted(b, s, v) /\ (b > 0 => Known(s, b, v))
    BY <2>1, ChosenVoted
  <2>3. PICK e \in Epoch, t \in Slot, w \in Command :
              y = <<t, w>> /\ Voted(e, t, w) /\ (e > 0 => Known(t, e, w))
    BY <2>1, ChosenVoted
  <2>4. s = t BY <2>2, <2>3
  <2>5. v = w BY <2>1, <2>2, <2>3, <2>4, VotedOnce
  <2> QED BY <2>2, <2>3, <2>4, <2>5
<1> QED BY <1>1, FastPaxosInvariance, PTL

-----------------------------------------------------------------------------
(***************************************************************************)
(* One history.                                                            *)
(***************************************************************************)
\* Executing the slots up to m of ch after those up to e.
LEMMA RanFurther ==
    ASSUME NEW ch, NEW e \in -1..MaxSlot, NEW m \in e..MaxSlot, NEW V, Ran(ch, e, V),
           \A s \in (e + 1)..m : ch[s] # None, NEW done, done = {v.req : v \in V},
           NEW X, X = Executions(ch, e + 1, m, done)
    PROVE  Ran(ch, m, V \cup X)
<1>1. e \in Int /\ m \in Int /\ e <= m BY BoundAssumption
<1>2. \A s \in 0..m : ch[s] # None
  <2> TAKE s \in 0..m
  <2>1. s \in 0..e \/ s \in (e + 1)..m BY <1>1
  <2> QED BY <2>1 DEF Ran
<1>3. ASSUME NEW v \in X
      PROVE  /\ v.slot \in 0..m /\ v.req \in Request /\ ch[v.slot] = v.req
             /\ \A t \in 0..(v.slot - 1) : ch[t] # v.req
  <2>1. /\ v.req \in Request \ done /\ v.slot \in (e + 1)..m /\ ch[v.slot] = v.req
        /\ \A t \in (e + 1)..(v.slot - 1) : ch[t] # v.req
    BY DEF Executions
  <2>2. ASSUME NEW t \in 0..(v.slot - 1), ch[t] = v.req PROVE FALSE
    <3>1. t \in 0..e \/ t \in (e + 1)..(v.slot - 1) BY <1>1, <2>1
    <3>2. CASE t \in 0..e
      <4>1. PICK w \in V : w.req = ch[t] BY <2>1, <2>2, <3>2 DEF Ran
      <4> QED BY <2>1, <2>2, <4>1
    <3> QED BY <2>1, <2>2, <3>1, <3>2
  <2> QED BY <1>1, <2>1, <2>2
<1>4. ASSUME NEW v \in V
      PROVE  /\ v.slot \in 0..m /\ v.req \in Request /\ ch[v.slot] = v.req
             /\ \A t \in 0..(v.slot - 1) : ch[t] # v.req
  <2>1. v.slot \in 0..e BY DEF Ran
  <2> QED BY <1>1, <2>1 DEF Ran
<1>5. ASSUME NEW s \in 0..m, ch[s] \in Request PROVE \E v \in V \cup X : v.req = ch[s]
  <2>1. CASE s \in 0..e BY <1>5, <2>1 DEF Ran
  <2>2. CASE ch[s] \in done BY <2>2
  <2>3. CASE s \in (e + 1)..m /\ ch[s] \notin done
    <3> DEFINE T == {t \in Nat : t \in (e + 1)..m /\ ch[t] = ch[s]}
    <3>1. s \in T BY <1>1, <2>3
    <3>2. PICK t \in T : \A u \in T : t <= u BY <3>1, Smallest
    <3>3. ASSUME NEW u \in (e + 1)..(t - 1), ch[u] = ch[t] PROVE FALSE
      <4>1. u \in T BY <1>1, <3>2, <3>3
      <4> QED BY <1>1, <3>2, <3>3, <4>1
    <3>4. PICK v : v = [req |-> ch[t], slot |-> t] OBVIOUS
    <3>5. v \in [req : Request \ done, slot : (e + 1)..m] /\ v.slot = t /\ v.req = ch[t]
      BY <1>5, <2>3, <3>2, <3>4
    <3>6. v \in X BY <3>3, <3>5 DEF Executions
    <3> QED BY <3>2, <3>5, <3>6
  <2>4. s \in 0..e \/ s \in (e + 1)..m BY <1>1
  <2> QED BY <2>1, <2>2, <2>3, <2>4
<1>6. \A v \in V \cup X : /\ v.slot \in 0..m /\ v.req \in Request /\ ch[v.slot] = v.req
                          /\ \A t \in 0..(v.slot - 1) : ch[t] # v.req
  BY <1>3, <1>4
<1> QED BY <1>2, <1>5, <1>6 DEF Ran

\* A request ran once.
LEMMA RanOnce ==
    ASSUME NEW ch, NEW e, NEW V \in SUBSET Execution, Ran(ch, e, V),
           NEW v \in V, NEW w \in V, v.req = w.req
    PROVE  v = w
<1>1. v.slot \in Nat /\ w.slot \in Nat BY Naturals DEF Execution
<1>2. ASSUME v.slot < w.slot PROVE FALSE
  <2>1. v.slot \in 0..(w.slot - 1) BY <1>1, <1>2
  <2> QED BY <2>1 DEF Ran
<1>3. ASSUME w.slot < v.slot PROVE FALSE
  <2>1. w.slot \in 0..(v.slot - 1) BY <1>1, <1>3
  <2> QED BY <2>1 DEF Ran
<1>4. v.slot = w.slot BY <1>1, <1>2, <1>3
<1>5. \A x \in Execution : x = [req |-> x.req, slot |-> x.slot] BY DEF Execution
<1> QED BY <1>4, <1>5

\* The result of a request: what ran up to its slot.
LEMMA ResultOf ==
    ASSUME NEW ch, NEW e, NEW V \in SUBSET Execution, Ran(ch, e, V), NEW v \in V
    PROVE  Result(V, v.req) = Before(V, v.slot)
<1>1. \A w \in V : w.req = v.req => w = v BY RanOnce
<1> QED BY <1>1 DEF Result, Before

-----------------------------------------------------------------------------
(***************************************************************************)
(* Every step executes what is decided, and answers with what was run.     *)
(***************************************************************************)
LEMMA AppliedRuns ==
    ASSUME TypeOK, TypeOK', NEW i \in Replica, NEW ch, NEW kn, NEW forget, NEW asked, NEW props,
           Apply(i, ch, kn, forget, asked, props), chosen'[i] = ch
    PROVE  Runs(i)
<1>1. PICK m \in executed[i]..MaxSlot :
         LET X == Executions(ch, executed[i] + 1, m, Done(i))
             V == values[i] \cup X
             done == {x.req : x \in V}
         IN  /\ \A s \in (executed[i] + 1)..m : Runnable(ch, kn, s)
             /\ executed' = [executed EXCEPT ![i] = m]
             /\ values' = [values EXCEPT ![i] = V]
             /\ known' = [known EXCEPT ![i] = kn]
             /\ replies' = replies \cup
                   Answers(V, props \cap ({x.req : x \in X} \cup (asked \cap done)))
  BY DEF Apply
<1>2. PICK X : X = Executions(ch, executed[i] + 1, m, Done(i)) OBVIOUS
<1>3. PICK V : V = values[i] \cup X OBVIOUS
<1>4. /\ \A s \in (executed[i] + 1)..m : Runnable(ch, kn, s)
      /\ executed' = [executed EXCEPT ![i] = m]
      /\ values' = [values EXCEPT ![i] = V]
      /\ known' = [known EXCEPT ![i] = kn]
      /\ replies' = replies \cup
            Answers(V, props \cap ({x.req : x \in X} \cup (asked \cap {x.req : x \in V})))
  BY <1>1, <1>2, <1>3
<1>5. /\ executed'[i] = m /\ values'[i] = V
      /\ \A k \in Replica : k # i => executed'[k] = executed[k] /\ values'[k] = values[k]
  BY <1>4 DEF TypeOK
<1>6. \A s \in (executed[i] + 1)..m : ch[s] # None
  <2>1. known'[i] = kn /\ kn \in SUBSET Request BY <1>4 DEF TypeOK
  <2> QED BY <1>4, <2>1, RequestAssumption DEF Runnable
<1>7. ASSUME NEW x \in replies', x \notin replies
      PROVE  \E v \in V : x = [req |-> v.req, result |-> Result(V, v.req)]
  <2>1. PICK r \in {y.req : y \in X} \cup {y.req : y \in V} :
           x = [req |-> r, result |-> Result(V, r)]
    BY <1>4, <1>7 DEF Answers
  <2>2. PICK v \in V : r = v.req BY <1>3
  <2> QED BY <2>1, <2>2
<1>8. replies \subseteq replies' BY <1>4
<1>9. \E k \in executed[i]..MaxSlot :
          /\ executed'[i] = k
          /\ values'[i] = values[i] \cup Executions(chosen'[i], executed[i] + 1, k, Done(i))
          /\ \A s \in (executed[i] + 1)..k : chosen'[i][s] # None
  BY <1>2, <1>3, <1>5, <1>6
<1>10. \A x \in replies' : \/ x \in replies
                           \/ \E v \in values'[i] :
                                 x = [req |-> v.req, result |-> Result(values'[i], v.req)]
  BY <1>5, <1>7
<1> QED BY <1>5, <1>8, <1>9, <1>10 DEF Runs

\* A step that leaves executions and replies alone.
LEMMA NothingRuns ==
    ASSUME TypeOK, TypeOK', NEW i \in Replica, UNCHANGED <<executed, values, replies>>
    PROVE  Runs(i)
<1>1. executed[i] \in -1..MaxSlot /\ MaxSlot \in Nat BY BoundAssumption DEF TypeOK
<1>2. executed[i] \in executed[i]..MaxSlot /\ \A s : s \notin (executed[i] + 1)..executed[i]
  BY <1>1
<1>3. Executions(chosen'[i], executed[i] + 1, executed[i], Done(i)) = {}
  BY <1>2 DEF Executions
<1> QED BY <1>2, <1>3 DEF Runs

\* Decisions are not taken back.
ChosenKept == \A k \in Replica, s \in Slot : chosen[k][s] # None => chosen'[k][s] = chosen[k][s]

LEMMA SubmitRuns ==
    ASSUME TypeOK, TypeOK', NEW i \in Replica, NEW r, NEW props, NEW used,
           Submit(i, r, props, used), UNCHANGED chosen
    PROVE  Runs(i) /\ ChosenKept
<1>1. Apply(i, chosen[i], known[i] \cup {r}, {}, {r}, props) /\ chosen'[i] = chosen[i]
  BY DEF Submit
<1> QED BY <1>1, AppliedRuns DEF ChosenKept

LEMMA LearnRuns ==
    ASSUME TypeOK, TypeOK', NEW i \in Replica, NEW s \in Slot, NEW v, NEW kn, NEW used, NEW out,
           Learn(i, s, v, kn, used, out)
    PROVE  Runs(i) /\ ChosenKept
<1>1. /\ chosen[i][s] \in {None, v} /\ chosen' = [chosen EXCEPT ![i][s] = v]
      /\ Apply(i, [chosen[i] EXCEPT ![s] = v], kn, {v}, {}, proposals[i])
  BY DEF Learn
<1>2. chosen'[i] = [chosen[i] EXCEPT ![s] = v] /\ \A k \in Replica : k # i => chosen'[k] = chosen[k]
  BY <1>1 DEF TypeOK
<1>3. chosen[i] \in [Slot -> Command \cup {None}] BY DEF TypeOK
<1>4. ChosenKept BY <1>1, <1>2, <1>3 DEF ChosenKept
<1> QED BY <1>1, <1>2, <1>4, AppliedRuns

\* In every step one replica executes and answers at most.
LEMMA NextRuns ==
    ASSUME TypeOK, TypeOK', [Next]_vars
    PROVE  ChosenKept /\ \E i \in Replica : Runs(i)
<1>1. CASE UNCHANGED <<chosen, executed, values, replies>>
  <2>1. PICK i \in Replica : TRUE BY Naturals
  <2> QED BY <1>1, <2>1, NothingRuns DEF ChosenKept
<1>2. ASSUME NEW i \in Replica, NEW r \in Request, Propose(i, r)
      PROVE  ChosenKept /\ \E k \in Replica : Runs(k)
  BY <1>2, SubmitRuns DEF Propose
<1>3. ASSUME NEW m \in msgs, Receive(m.to, m) PROVE ChosenKept /\ \E k \in Replica : Runs(k)
  <2>1. m \in Packet BY DEF TypeOK
  <2>2. PICK i \in Replica : i = m.to BY <2>1, PacketFields
  <2>3. CASE ReceiveForward(i, m)
    <3>1. Submit(i, m.value, proposals[i], Used(m)) /\ UNCHANGED chosen
      BY <2>3 DEF ReceiveForward
    <3> QED BY <3>1, SubmitRuns
  <2>4. CASE ReceiveVote(i, m)
    <3>1. m.slot \in Slot BY <2>1, <2>4, PacketFields DEF ReceiveVote
    <3>2. \/ Learn(i, m.slot, m.value, known[i], Used(m), {})
          \/ UNCHANGED <<chosen, executed, values, replies>>
      BY <2>4 DEF ReceiveVote
    <3> QED BY <1>1, <3>1, <3>2, LearnRuns
  <2>5. CASE ReceiveAccepted(i, m)
    <3>1. m.slot \in Slot BY <2>1, <2>5, PacketFields DEF ReceiveAccepted, Counts
    <3>2. \/ Learn(i, m.slot, proposed[i][m.slot].value, known[i], Used(m),
                   {Commit(i, j, m.slot, proposed[i][m.slot].value, TRUE) : j \in Replica})
          \/ UNCHANGED <<chosen, executed, values, replies>>
      BY <2>5 DEF ReceiveAccepted
    <3> QED BY <1>1, <3>1, <3>2, LearnRuns
  <2>6. CASE ReceiveCommit(i, m)
    <3>1. m.slot \in Slot BY <2>1, <2>6, PacketFields DEF ReceiveCommit
    <3> QED BY <2>6, <3>1, LearnRuns DEF ReceiveCommit
  <2>7. CASE ReceiveData(i, m)
    <3>1. /\ Apply(i, chosen[i], known[i] \cup {m.value}, {}, {}, proposals[i])
          /\ UNCHANGED chosen /\ chosen'[i] = chosen[i]
      BY <2>7 DEF ReceiveData, slotVars
    <3> QED BY <3>1, AppliedRuns DEF ChosenKept
  <2>8. \/ ReceiveForward(i, m) \/ ReceiveVote(i, m) \/ ReceiveAccepted(i, m)
        \/ ReceiveCommit(i, m) \/ ReceiveData(i, m)
        \/ UNCHANGED <<chosen, executed, values, replies>>
    BY <1>3, <2>2
    DEF Receive, ReceivePrepare, CollectPromise, TakeOver, ReceiveAccept, ReceiveHeartbeat,
        ReceiveFetchSlots, ReceiveFetchValue, ReceiveNack, ReceiveStale, ReceiveRecover, Ignore,
        slotVars, logVars, clientVars
  <2> QED BY <1>1, <2>3, <2>4, <2>5, <2>6, <2>7, <2>8
<1>4. ASSUME NEW i \in Replica, NEW due, TickBegin(i, due) \/ TickFollow(i, due) \/ TickLead(i, due)
      PROVE  UNCHANGED <<chosen, executed, values, replies>>
  BY <1>4 DEF TickBegin, TickFollow, TickLead, slotVars, logVars, clientVars
<1>5. ASSUME \/ \E m \in msgs : Lose(m)
             \/ \E i, j \in Replica : Silence(i, j)
             \/ \E i \in Replica : Crash(i)
             \/ UNCHANGED vars
      PROVE  UNCHANGED <<chosen, executed, values, replies>>
  BY <1>5 DEF Lose, Silence, Crash, vars, slotVars, logVars, clientVars
<1>6. \/ UNCHANGED <<chosen, executed, values, replies>>
      \/ \E i \in Replica, r \in Request : Propose(i, r)
      \/ \E m \in msgs : Receive(m.to, m)
  BY <1>4, <1>5 DEF Next
<1> QED BY <1>1, <1>2, <1>3, <1>6

\* Decisions that stay carry what was run.
LEMMA RanKept ==
    ASSUME NEW ch, NEW new, NEW e \in -1..MaxSlot, NEW V, Ran(ch, e, V),
           \A s \in 0..e : new[s] = ch[s]
    PROVE  Ran(new, e, V)
<1>1. e \in Int BY BoundAssumption
<1>2. ASSUME NEW v \in V
      PROVE  /\ v.slot \in 0..e /\ v.req \in Request /\ new[v.slot] = v.req
             /\ \A t \in 0..(v.slot - 1) : new[t] # v.req
  <2>1. /\ v.slot \in 0..e /\ v.req \in Request /\ ch[v.slot] = v.req
        /\ \A t \in 0..(v.slot - 1) : ch[t] # v.req
    BY DEF Ran
  <2>2. \A t \in 0..(v.slot - 1) : t \in 0..e BY <1>1, <2>1
  <2> QED BY <2>1, <2>2
<1> QED BY <1>2 DEF Ran

\* What was run stays, and so does every result that was told.
LEMMA HistoryStays ==
    ASSUME TypeOK, TypeOK', History, ChosenKept, NEW i \in Replica, Runs(i)
    PROVE  History'
<1>1. \A k \in Replica : /\ executed[k] \in -1..MaxSlot /\ executed[k] \in Int
                         /\ executed'[k] \in -1..MaxSlot
                         /\ values[k] \in SUBSET Execution /\ values'[k] \in SUBSET Execution
                         /\ Ran(chosen[k], executed[k], values[k])
  <2> TAKE k \in Replica
  <2>1. executed[k] \in -1..MaxSlot /\ values[k] \in SUBSET Execution BY DEF TypeOK
  <2>2. executed'[k] \in -1..MaxSlot /\ values'[k] \in SUBSET Execution BY DEF TypeOK
  <2>3. executed[k] \in Int BY <2>1, BoundAssumption
  <2> QED BY <2>1, <2>2, <2>3 DEF History, Executed
<1>2. \A k \in Replica : Ran(chosen'[k], executed[k], values[k])
  <2> TAKE k \in Replica
  <2>1. \A s \in 0..executed[k] : s \in Slot BY <1>1, BoundAssumption DEF Slot
  <2>2. \A s \in 0..executed[k] : chosen'[k][s] = chosen[k][s]
    BY <1>1, <2>1 DEF ChosenKept, Ran
  <2> QED BY <1>1, <2>2, RanKept
<1>3. PICK m \in executed[i]..MaxSlot :
          /\ executed'[i] = m
          /\ values'[i] = values[i] \cup Executions(chosen'[i], executed[i] + 1, m, Done(i))
          /\ \A s \in (executed[i] + 1)..m : chosen'[i][s] # None
  BY DEF Runs
<1>4. PICK X : X = Executions(chosen'[i], executed[i] + 1, m, Done(i)) OBVIOUS
<1>5. Ran(chosen'[i], executed'[i], values'[i])
  <2>1. Ran(chosen'[i], executed[i], values[i]) BY <1>2
  <2>2. executed[i] \in -1..MaxSlot BY <1>1
  <2>3. Done(i) = {v.req : v \in values[i]} BY DEF Done
  <2>4. Ran(chosen'[i], m, values[i] \cup X) BY <1>3, <1>4, <2>1, <2>2, <2>3, RanFurther
  <2> QED BY <1>3, <1>4, <2>4
<1>6. \A k \in Replica : Ran(chosen'[k], executed'[k], values'[k])
  BY <1>2, <1>5 DEF Runs
<1>7. ASSUME NEW k \in Replica, NEW v \in values[k]
      PROVE  v \in values'[k] /\ Before(values'[k], v.slot) = Before(values[k], v.slot)
  <2>1. CASE values'[k] = values[k] BY <2>1
  <2>2. CASE k = i
    <3>1. v.slot <= executed[i] /\ v.slot \in Int BY <1>1, <2>2 DEF Ran
    <3>2. \A w \in X : w.slot \in Int /\ w.slot > executed[i] BY <1>1, <1>3, <1>4 DEF Executions
    <3>3. values'[k] = values[k] \cup X BY <1>3, <1>4, <2>2
    <3>4. \A w \in X : ~(w.slot <= v.slot) BY <1>1, <3>1, <3>2
    <3> QED BY <3>3, <3>4 DEF Before
  <2> QED BY <2>1, <2>2 DEF Runs
<1>8. ASSUME NEW x \in replies'
      PROVE  \E k \in Replica : \E v \in values'[k] :
                v.req = x.req /\ x.result = Before(values'[k], v.slot)
  <2>1. CASE x \in replies
    <3>1. PICK k \in Replica : \E v \in values[k] :
              v.req = x.req /\ x.result = Before(values[k], v.slot)
      BY <2>1 DEF History, Told
    <3>2. PICK v \in values[k] : v.req = x.req /\ x.result = Before(values[k], v.slot) BY <3>1
    <3> QED BY <1>7, <3>2
  <2>2. ASSUME NEW v \in values'[i], x = [req |-> v.req, result |-> Result(values'[i], v.req)]
        PROVE  v.req = x.req /\ x.result = Before(values'[i], v.slot)
    <3>1. Result(values'[i], v.req) = Before(values'[i], v.slot) BY <1>1, <1>5, ResultOf
    <3> QED BY <2>2, <3>1
  <2> QED BY <2>1, <2>2 DEF Runs
<1>9. Told' BY <1>8 DEF Told
<1>10. Executed' BY <1>6 DEF Executed
<1> QED BY <1>9, <1>10 DEF History

-----------------------------------------------------------------------------
(***************************************************************************)
(* Histories of two replicas agree as far as both go.                      *)
(***************************************************************************)
LEMMA ChosenAgree ==
    ASSUME TypeOK, Locked, NEW i \in Replica, NEW j \in Replica, NEW s \in Slot,
           chosen[i][s] # None, chosen[j][s] # None
    PROVE  chosen[i][s] = chosen[j][s]
<1>1. PICK v \in Command : v = chosen[i][s] BY Ballot
<1>2. PICK w \in Command : w = chosen[j][s] BY Ballot
<1>3. Claimed(s, v) /\ Claimed(s, w) BY <1>1, <1>2 DEF Claimed
<1> QED BY <1>1, <1>2, <1>3, LocksAgree

LEMMA SamePast ==
    ASSUME TypeOK, Locked, History, NEW i \in Replica, NEW j \in Replica,
           NEW t \in Int, t <= executed[i], t <= executed[j]
    PROVE  Before(values[i], t) \subseteq Before(values[j], t)
<1>1. /\ Ran(chosen[i], executed[i], values[i]) /\ Ran(chosen[j], executed[j], values[j])
      /\ values[i] \in SUBSET Execution /\ values[j] \in SUBSET Execution
      /\ executed[i] \in -1..MaxSlot /\ executed[j] \in -1..MaxSlot
      /\ executed[i] \in Int /\ executed[j] \in Int
  BY BoundAssumption DEF TypeOK, History, Executed
<1>2. ASSUME NEW s \in 0..t PROVE chosen[i][s] = chosen[j][s]
  <2>1. s \in 0..executed[i] /\ s \in 0..executed[j] BY <1>1
  <2>2. s \in Slot BY <1>1, <2>1, BoundAssumption DEF Slot
  <2> QED BY <1>1, <2>1, <2>2, ChosenAgree DEF Ran
<1> SUFFICES ASSUME NEW w \in values[i], w.slot <= t PROVE w \in values[j] BY DEF Before
<1>3. /\ w.slot \in 0..executed[i] /\ w.req \in Request /\ chosen[i][w.slot] = w.req
      /\ \A u \in 0..(w.slot - 1) : chosen[i][u] # w.req
  BY <1>1 DEF Ran
<1>4. w.slot \in 0..t /\ w.slot \in 0..executed[j] BY <1>1, <1>3
<1>5. chosen[j][w.slot] = w.req BY <1>2, <1>3, <1>4
<1>6. PICK v \in values[j] : v.req = w.req BY <1>1, <1>3, <1>4, <1>5 DEF Ran
<1>7. /\ v.slot \in 0..executed[j] /\ chosen[j][v.slot] = v.req
      /\ \A u \in 0..(v.slot - 1) : chosen[j][u] # v.req
  BY <1>1 DEF Ran
<1>8. ~(w.slot < v.slot)
  <2> SUFFICES ASSUME w.slot < v.slot PROVE FALSE OBVIOUS
  <2>1. w.slot \in 0..(v.slot - 1) BY <1>1, <1>3, <1>7
  <2> QED BY <1>5, <1>6, <1>7, <2>1
<1>9. ~(v.slot < w.slot)
  <2> SUFFICES ASSUME v.slot < w.slot PROVE FALSE OBVIOUS
  <2>1. v.slot \in 0..(w.slot - 1) /\ v.slot \in 0..t BY <1>1, <1>4, <1>7
  <2> QED BY <1>2, <1>3, <1>6, <1>7, <2>1
<1>10. v.slot = w.slot BY <1>1, <1>3, <1>7, <1>8, <1>9
<1>11. \A x \in Execution : x = [req |-> x.req, slot |-> x.slot] BY DEF Execution
<1>12. v \in Execution /\ w \in Execution BY <1>1
<1> QED BY <1>6, <1>10, <1>11, <1>12

\* Any two results are parts of one history.
LEMMA HistoriesAgree ==
    ASSUME TypeOK, Locked, History, NEW x \in replies, NEW y \in replies
    PROVE  /\ x.result \subseteq y.result \/ y.result \subseteq x.result
           /\ x.req = y.req => x.result = y.result
<1>1. PICK i \in Replica : \E v \in values[i] :
         v.req = x.req /\ x.result = Before(values[i], v.slot)
  BY DEF History, Told
<1>2. PICK v \in values[i] : v.req = x.req /\ x.result = Before(values[i], v.slot) BY <1>1
<1>3. PICK j \in Replica : \E w \in values[j] :
         w.req = y.req /\ y.result = Before(values[j], w.slot)
  BY DEF History, Told
<1>4. PICK w \in values[j] : w.req = y.req /\ y.result = Before(values[j], w.slot) BY <1>3
<1>5. /\ Ran(chosen[i], executed[i], values[i]) /\ Ran(chosen[j], executed[j], values[j])
      /\ values[i] \in SUBSET Execution /\ values[j] \in SUBSET Execution
      /\ executed[i] \in -1..MaxSlot /\ executed[j] \in -1..MaxSlot
      /\ executed[i] \in Int /\ executed[j] \in Int
  BY BoundAssumption DEF TypeOK, History, Executed
<1>6. /\ v.slot \in Int /\ w.slot \in Int /\ v.slot <= executed[i] /\ w.slot <= executed[j]
  BY <1>5 DEF Ran
<1>7. \A u \in values[i] \cup values[j] : u.slot \in Int
  BY <1>5, BoundAssumption DEF Execution, Slot
<1>8. CASE v.slot <= w.slot
  <2>1. v.slot <= executed[j] BY <1>5, <1>6, <1>8
  <2>2. /\ Before(values[i], v.slot) \subseteq Before(values[j], v.slot)
        /\ Before(values[j], v.slot) \subseteq Before(values[i], v.slot)
    BY <1>6, <2>1, SamePast
  <2>3. Before(values[j], v.slot) \subseteq Before(values[j], w.slot)
    BY <1>6, <1>7, <1>8 DEF Before
  <2>4. ASSUME x.req = y.req PROVE x.result = y.result
    <3>1. v \in Before(values[i], v.slot) BY <1>6 DEF Before
    <3>2. v \in values[j] BY <2>2, <3>1 DEF Before
    <3>3. v = w BY <1>2, <1>4, <1>5, <2>4, <3>2, RanOnce
    <3> QED BY <1>2, <1>4, <2>2, <3>3
  <2> QED BY <1>2, <1>4, <2>2, <2>3, <2>4
<1>9. CASE w.slot <= v.slot
  <2>1. w.slot <= executed[i] BY <1>5, <1>6, <1>9
  <2>2. /\ Before(values[i], w.slot) \subseteq Before(values[j], w.slot)
        /\ Before(values[j], w.slot) \subseteq Before(values[i], w.slot)
    BY <1>6, <2>1, SamePast
  <2>3. Before(values[i], w.slot) \subseteq Before(values[i], v.slot)
    BY <1>6, <1>7, <1>9 DEF Before
  <2>4. ASSUME x.req = y.req PROVE x.result = y.result
    <3>1. w \in Before(values[j], w.slot) BY <1>6 DEF Before
    <3>2. w \in values[i] BY <2>2, <3>1 DEF Before
    <3>3. v = w BY <1>2, <1>4, <1>5, <2>4, <3>2, RanOnce
    <3> QED BY <1>2, <1>4, <2>2, <3>3
  <2> QED BY <1>2, <1>4, <2>2, <2>3, <2>4
<1> QED BY <1>6, <1>8, <1>9

\* What a replica has executed is the history of the slots it knows decided, and
\* every result sent is a part of it.
THEOREM FastPaxosHistory == Spec => []History
<1>1. Init => History
  <2> SUFFICES ASSUME Init PROVE History OBVIOUS
  <2>1. /\ replies = {}
        /\ \A i \in Replica : executed[i] = -1 /\ values[i] = {} /\ 0..executed[i] = {}
    BY DEF Init, PerReplica
  <2> QED BY <2>1 DEF History, Executed, Told, Ran
<1>2. Kept /\ Kept' /\ History /\ [Next]_vars => History'
  <2> SUFFICES ASSUME Kept, Kept', History, [Next]_vars PROVE History' OBVIOUS
  <2>1. TypeOK /\ TypeOK' BY DEF Kept, TypeInv
  <2>2. ChosenKept /\ \E i \in Replica : Runs(i) BY <2>1, NextRuns
  <2> QED BY <2>1, <2>2, HistoryStays
<1> QED BY <1>1, <1>2, FastPaxosInvariance, PTL DEF Spec

\* The results sent to clients, by whichever replica and however often, come
\* from one history.
THEOREM FastPaxosOneHistory == Spec => []OneHistory
<1>1. Kept /\ History => OneHistory
  <2> SUFFICES ASSUME Kept, History PROVE OneHistory OBVIOUS
  <2>1. TypeOK /\ Locked BY DEF Kept, TypeInv, Safety
  <2> QED BY <2>1, HistoriesAgree DEF OneHistory
<1> QED BY <1>1, FastPaxosInvariance, FastPaxosHistory, PTL

-----------------------------------------------------------------------------
(***************************************************************************)
(* FastPaxos implements DecidedLog.                                        *)
(***************************************************************************)
LEMMA InDecisions ==
    ASSUME NEW s \in Slot, NEW v \in Command
    PROVE  <<s, v>> \in Decisions <=> \E b \in Epoch : \E Q \in QuorumOf(b) : Lock(s, v, b, Q)
BY DEF Decisions

\* What a decision is.
LEMMA DecisionIsLocked ==
    ASSUME NEW d \in Decisions
    PROVE  /\ d = <<d[1], d[2]>> /\ d[1] \in Slot /\ d[2] \in Command
           /\ \E b \in Epoch : \E Q \in QuorumOf(b) : Lock(d[1], d[2], b, Q)
BY DEF Decisions

\* A slot is decided once.
Once == \A d, x \in Decisions : d[1] = x[1] => d = x

LEMMA DecisionOnce == Kept => Once
<1> SUFFICES ASSUME Kept, NEW d \in Decisions, NEW x \in Decisions, d[1] = x[1]
             PROVE  d = x
  BY DEF Once
<1>1. TypeOK BY DEF Kept, TypeInv
<1>2. PICK s \in Slot, v \in Command : d = <<s, v>> BY DecisionIsLocked
<1>3. PICK t \in Slot, w \in Command : x = <<t, w>> BY DecisionIsLocked
<1>4. s = t BY <1>2, <1>3
<1>5. PICK a \in Epoch : \E P \in QuorumOf(a) : Lock(s, v, a, P) BY <1>2, InDecisions
<1>6. PICK P \in QuorumOf(a) : Lock(s, v, a, P) BY <1>5
<1>7. PICK b \in Epoch : \E Q \in QuorumOf(b) : Lock(s, w, b, Q) BY <1>3, <1>4, InDecisions
<1>8. PICK Q \in QuorumOf(b) : Lock(s, w, b, Q) BY <1>7
<1>9. Settled(b, s, w) /\ \A q \in Q : Keeps(q, s, b, w) BY <1>8 DEF Lock, Settled
<1>10. PICK R \in Quorum : R = Replica BY Replicas
<1>11. v = w BY <1>1, <1>6, <1>9, <1>10, ForcedAgrees
<1> QED BY <1>2, <1>3, <1>4, <1>11

\* What is decided stays decided.
LEMMA DecisionsStay ==
    ASSUME TypeOK, TypeOK', Shape, Safety, Moves
    PROVE  Decisions \subseteq Decisions'
<1> SUFFICES ASSUME NEW d \in Decisions PROVE d \in Decisions' OBVIOUS
<1>1. PICK s \in Slot, v \in Command : d = <<s, v>> BY DecisionIsLocked
<1>2. PICK b \in Epoch : \E Q \in QuorumOf(b) : Lock(s, v, b, Q) BY <1>1, InDecisions
<1>3. PICK Q \in QuorumOf(b) : Lock(s, v, b, Q) BY <1>2
<1>4. Lock(s, v, b, Q)' BY <1>3, LockStays
<1>5. Q \in QuorumOf(b)' BY DEF QuorumOf
<1> QED BY <1>1, <1>4, <1>5 DEF Decisions

\* What a replica learns is decided before the step.
LEMMA ChosenDecided ==
    ASSUME TypeOK, TypeOK', Shape, Safety, Moves, NEW i \in Replica, NEW s \in Slot,
           chosen'[i][s] # None
    PROVE  chosen'[i][s] \in Command /\ <<s, chosen'[i][s]>> \in Decisions
<1>1. chosen'[i][s] \in Command BY DEF TypeOK
<1>2. PICK v \in Command : v = chosen'[i][s] BY <1>1
<1>3. Claimed(s, v)' BY <1>2 DEF Claimed
<1>4. \E b \in Epoch : \E Q \in QuorumOf(b) : Lock(s, v, b, Q)
  <2>1. CASE Claimed(s, v) BY <2>1 DEF Safety, Locked
  <2>2. CASE Won(s, v) BY <2>2, WonLock
  <2> QED BY <1>3, <2>1, <2>2, ClaimedBack
<1> QED BY <1>2, <1>4, InDecisions

\* D decides the slots up to e as ch does, and nothing else in these slots.
Decides(D, ch, e) == \A s \in 0..e : \A c : <<s, c>> \in D <=> ch[s] = c

\* A request ran where it was decided first.
LEMMA FirstRan ==
    ASSUME NEW ch, NEW e \in -1..MaxSlot, NEW V \in SUBSET Execution,
           Ran(ch, e, V), NEW D, Decides(D, ch, e), NEW r \in Request, NEW s \in 0..e
    PROVE  OneLog!First(D, r, s) <=> [req |-> r, slot |-> s] \in V
<1>1. e \in Int /\ s \in Nat /\ s <= e BY BoundAssumption
<1>2. \A v \in V : v = [req |-> v.req, slot |-> v.slot] BY DEF Execution
<1>3. ASSUME OneLog!First(D, r, s) PROVE [req |-> r, slot |-> s] \in V
  <2>1. <<s, r>> \in D /\ \A t \in 0..(s - 1) : <<t, r>> \notin D BY <1>3 DEF OneLog!First
  <2>2. ch[s] = r BY <2>1 DEF Decides
  <2>3. PICK v \in V : v.req = r BY <2>2 DEF Ran
  <2>4. /\ v.slot \in 0..e /\ ch[v.slot] = r
        /\ \A t \in 0..(v.slot - 1) : ch[t] # r
    BY <2>3 DEF Ran
  <2>5. ~(v.slot < s)
    <3> SUFFICES ASSUME v.slot < s PROVE FALSE OBVIOUS
    <3>1. v.slot \in 0..(s - 1) BY <1>1, <2>4
    <3>2. <<v.slot, r>> \in D BY <2>4 DEF Decides
    <3> QED BY <2>1, <3>1, <3>2
  <2>6. ~(s < v.slot)
    <3> SUFFICES ASSUME s < v.slot PROVE FALSE OBVIOUS
    <3>1. s \in 0..(v.slot - 1) BY <1>1, <2>4
    <3> QED BY <2>2, <2>4, <3>1
  <2>7. v.slot = s BY <1>1, <2>4, <2>5, <2>6
  <2> QED BY <1>2, <2>3, <2>7
<1>4. ASSUME [req |-> r, slot |-> s] \in V PROVE OneLog!First(D, r, s)
  <2>1. PICK v \in V : v.req = r /\ v.slot = s BY <1>4
  <2>2. ch[s] = r /\ \A t \in 0..(s - 1) : ch[t] # r BY <2>1 DEF Ran
  <2>3. <<s, r>> \in D BY <2>2 DEF Decides
  <2>4. ASSUME NEW t \in 0..(s - 1), <<t, r>> \in D PROVE FALSE
    <3>1. t \in 0..e BY <1>1
    <3> QED BY <2>2, <2>4, <3>1 DEF Decides
  <2> QED BY <2>3, <2>4 DEF OneLog!First
<1> QED BY <1>3, <1>4

\* The history of the log is what was run.
LEMMA HistoryRan ==
    ASSUME NEW ch, NEW e \in -1..MaxSlot, NEW V \in SUBSET Execution,
           Ran(ch, e, V), NEW D, Decides(D, ch, e), NEW t \in 0..e
    PROVE  OneLog!History(D, t) = Before(V, t)
<1>1. /\ e \in Int /\ t \in Nat /\ t <= e
      /\ \A v \in V : v.slot \in Nat /\ v.req \in Request
      /\ \A v \in V : v = [req |-> v.req, slot |-> v.slot]
  BY BoundAssumption DEF Execution, Slot
<1>2. ASSUME NEW h \in OneLog!History(D, t) PROVE h \in Before(V, t)
  <2>1. PICK x \in Request \X (0..t) :
           OneLog!First(D, x[1], x[2]) /\ h = [req |-> x[1], slot |-> x[2]]
    BY <1>2 DEF OneLog!History
  <2>2. PICK r \in Request, s \in 0..t : r = x[1] /\ s = x[2] BY <2>1
  <2>3. s \in 0..e /\ s <= t BY <1>1
  <2>4. h = [req |-> r, slot |-> s] /\ h.slot = s BY <2>1, <2>2
  <2>5. OneLog!First(D, r, s) BY <2>1, <2>2
  <2>6. h \in V BY <2>3, <2>4, <2>5, FirstRan
  <2> QED BY <2>3, <2>4, <2>6 DEF Before
<1>3. ASSUME NEW h \in Before(V, t) PROVE h \in OneLog!History(D, t)
  <2>1. h \in V /\ h.slot <= t BY <1>3 DEF Before
  <2>2. h.req \in Request /\ h.slot \in 0..t /\ h.slot \in 0..e BY <1>1, <2>1
  <2>3. h = [req |-> h.req, slot |-> h.slot] BY <1>1, <2>1
  <2>4. OneLog!First(D, h.req, h.slot) BY <2>1, <2>2, <2>3, FirstRan
  <2>5. PICK x \in Request \X (0..t) : x[1] = h.req /\ x[2] = h.slot
    <3>1. <<h.req, h.slot>> \in Request \X (0..t) BY <2>2
    <3> QED BY <3>1
  <2>6. OneLog!First(D, x[1], x[2]) /\ h = [req |-> x[1], slot |-> x[2]] BY <2>3, <2>4, <2>5
  <2> QED BY <2>6 DEF OneLog!History
<1> QED BY <1>2, <1>3

\* The answer to a request that was run.
LEMMA AnswerRan ==
    ASSUME NEW ch, NEW e \in -1..MaxSlot, NEW V \in SUBSET Execution,
           Ran(ch, e, V), NEW D, Decides(D, ch, e), NEW v \in V
    PROVE  [req |-> v.req, result |-> Result(V, v.req)] \in OneLog!Answers(D, 0..e)
<1>1. v.slot \in 0..e /\ v.req \in Request /\ v = [req |-> v.req, slot |-> v.slot]
  BY DEF Execution, Ran
<1>2. OneLog!First(D, v.req, v.slot) BY <1>1, FirstRan
<1>3. OneLog!History(D, v.slot) = Before(V, v.slot) BY <1>1, HistoryRan
<1>4. Result(V, v.req) = Before(V, v.slot) BY ResultOf
<1>5. PICK x \in Request \X (0..e) : x[1] = v.req /\ x[2] = v.slot
  <2>1. <<v.req, v.slot>> \in Request \X (0..e) BY <1>1
  <2> QED BY <2>1
<1> QED BY <1>2, <1>3, <1>4, <1>5 DEF OneLog!Answers

\* What replica i executes and answers in a step, in terms of the decisions.
LEMMA RunsServe ==
    ASSUME TypeOK, TypeOK', Shape, Safety, Moves, Once, History', NEW i \in Replica, Runs(i)
    PROVE  OneLog!Execute(i)
<1>1. /\ executed'[i] \in -1..MaxSlot /\ values'[i] \in SUBSET Execution
      /\ executed' \in [Replica -> -1..MaxSlot]
  BY DEF TypeOK
<1>2. executed \in [Replica -> -1..MaxSlot] BY DEF TypeOK
<1>3. Ran(chosen'[i], executed'[i], values'[i]) BY DEF History, Executed
<1>4. ASSUME NEW s \in 0..executed'[i]
      PROVE  chosen'[i][s] \in Command /\ <<s, chosen'[i][s]>> \in Decisions
  <2>1. s \in Slot BY <1>1, BoundAssumption DEF Slot
  <2>2. chosen'[i][s] # None BY <1>3 DEF Ran
  <2> QED BY <2>1, <2>2, ChosenDecided
<1>5. Decides(Decisions, chosen'[i], executed'[i])
  <2> SUFFICES ASSUME NEW s \in 0..executed'[i], NEW c, <<s, c>> \in Decisions
               PROVE  chosen'[i][s] = c
    BY <1>4 DEF Decides
  <2>1. PICK d \in Decisions : d = <<s, c>> OBVIOUS
  <2>2. PICK x \in Decisions : x = <<s, chosen'[i][s]>> BY <1>4
  <2>3. d[1] = x[1] /\ d[2] = c /\ x[2] = chosen'[i][s] BY <2>1, <2>2
  <2> QED BY <2>3 DEF Once
<1>6. PICK m \in executed[i]..MaxSlot : executed'[i] = m BY DEF Runs
<1>7. \A s \in 0..m : \E c \in OneLog!Command : <<s, c>> \in Decisions
  BY <1>4, <1>6 DEF Command, OneLog!Command
<1>8. executed' = [executed EXCEPT ![i] = m]
  <2>1. \A k \in Replica : k # i => executed'[k] = executed[k] BY DEF Runs
  <2> QED BY <1>1, <1>2, <1>6, <2>1
<1>9. \E A \in SUBSET OneLog!Answers(Decisions, 0..m) : replies' = replies \cup A
  <2> DEFINE A == replies' \ replies
  <2>1. ASSUME NEW x \in A PROVE x \in OneLog!Answers(Decisions, 0..m)
    <3>1. PICK v \in values'[i] : x = [req |-> v.req, result |-> Result(values'[i], v.req)]
      BY DEF Runs
    <3> QED BY <1>1, <1>3, <1>5, <1>6, <3>1, AnswerRan
  <2>2. replies' = replies \cup A BY DEF Runs
  <2> QED BY <2>1, <2>2
<1> QED BY <1>6, <1>7, <1>8, <1>9 DEF OneLog!Execute

\* Nothing is decided in the beginning.
LEMMA InitServes == Init => OneLog!Init
<1> SUFFICES ASSUME Init PROVE OneLog!Init OBVIOUS
<1>1. Decisions = {}
  <2> SUFFICES ASSUME NEW d \in Decisions PROVE FALSE OBVIOUS
  <2>1. PICK b \in Epoch : \E Q \in QuorumOf(b) : Lock(d[1], d[2], b, Q) BY DecisionIsLocked
  <2>2. PICK Q \in QuorumOf(b) : Lock(d[1], d[2], b, Q) BY <2>1
  <2>3. Q \in Quorum /\ d[1] \in Slot BY <2>1, <2>2, Replicas, DecisionIsLocked
  <2>4. PICK q \in Replica : q \in Q BY <2>3, QuorumsMeet
  <2>5. accepted[q][d[1]] # None BY <2>2, <2>4 DEF Lock, Keeps, Holds
  <2> QED BY <2>3, <2>4, <2>5 DEF Init, PerSlot
<1> QED BY <1>1 DEF Init, PerReplica, OneLog!Init

\* Every step decides what it locks for good, and serves what was decided.
LEMMA NextServes ==
    Kept /\ Kept' /\ Once /\ Once' /\ History' /\ [Next]_vars =>
        [OneLog!Next]_<<Decisions, executed, replies>>
<1> SUFFICES ASSUME Kept, Kept', Once, Once', History', [Next]_vars PROVE OneLog!Next OBVIOUS
<1>1. TypeOK /\ TypeOK' /\ Shape /\ Safety BY DEF Kept, TypeInv
<1>2. Moves BY <1>1, NextMoves, StutterMoves
<1>3. PICK i \in Replica : Runs(i) BY <1>1, NextRuns
<1>4. Decisions \subseteq Decisions' BY <1>1, <1>2, DecisionsStay
<1>5. Decisions' \in SUBSET (OneLog!Slot \X OneLog!Command)
  BY DEF Decisions, Slot, Command, OneLog!Slot, OneLog!Command
<1>6. PICK D \in SUBSET (OneLog!Slot \X OneLog!Command) : D = Decisions' BY <1>5
<1>7. OneLog!Decide(D) BY <1>4, <1>6 DEF Once, OneLog!Decide
<1>8. OneLog!Execute(i) BY <1>1, <1>2, <1>3, RunsServe
<1> QED BY <1>6, <1>7, <1>8 DEF OneLog!Next

\* The replicas serve one replicated log: slots are decided once and for all,
\* executed in order by every replica, each request takes effect once, and what
\* a client is told is the result of that execution, across fast votes, classic
\* rounds and changes of the coordinator.
THEOREM FastPaxosServesOneLog == Spec => OneLog!Spec
<1>1. Init => OneLog!Init BY InitServes
<1>2. Kept /\ Kept' /\ Once /\ Once' /\ History' /\ [Next]_vars =>
         [OneLog!Next]_<<Decisions, executed, replies>>
  BY NextServes
<1>3. Kept => Once BY DecisionOnce
<1> QED BY <1>1, <1>2, <1>3, FastPaxosInvariance, FastPaxosHistory, PTL DEF Spec, OneLog!Spec
==============================================================================
