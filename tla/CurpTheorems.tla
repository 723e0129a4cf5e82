---------------------------- MODULE CurpTheorems ----------------------------
(***************************************************************************)
(* Theorems about Curp, second part.  What a turn of a replica does (Effect)*)
(* keeps Shape and advances the protocol; what is remembered is not        *)
(* forgotten; every action makes such a turn; and so the invariants hold,  *)
(* committed commands agree and completed requests survive.                *)
(***************************************************************************)
EXTENDS CurpProofs

-----------------------------------------------------------------------------
(***************************************************************************)
(* The pages of one promise.                                               *)
(***************************************************************************)
\* The pages of a snapshot.
LEMMA ReportIs ==
    ASSUME TypeOK, NEW q \in Replica, NEW c, NEW floor
    PROVE  LET P == Report(q, c, floor)
           IN  /\ IsFiniteSet(P) /\ P # {} /\ Cardinality(P) = PagesOf(q, floor)
               /\ \A p \in P : /\ p.from = q /\ p.pkt.ballot = c /\ p.pkt.floor = floor
                               /\ p.pkt.high = high[q] /\ p.pkt.pages = PagesOf(q, floor)
                               /\ p.pkt.kind = "Promise" /\ p.pkt.recs \subseteq log[q]
               /\ \A p, r \in P : p.pkt.page = r.pkt.page => p = r
               /\ \A y \in log[q] : floor <= y.slot => \E p \in P : y \in p.pkt.recs
               /\ \A r \in witness[q] : \E p \in P : r \in p.pkt.reqs
<1> DEFINE n == PagesOf(q, floor)
           o == Owner(c)
           f == [k \in 1..n |-> [from |-> q, pkt |-> PromisePage(q, o, c, floor, k)]]
           P == Report(q, c, floor)
<1>a. PagesOf(q, floor) \in Nat /\ PagesOf(q, floor) >= 1 BY SnapshotIs
<1>b. Snapshot(q, o, c, floor) =
        [k \in 1..PagesOf(q, floor) |-> PromisePage(q, o, c, floor, k)]
  BY SnapshotIs
<1>c. \A r \in Reported(q, floor) : \E k \in 1..PagesOf(q, floor) :
         RankOf(r.slot, Slots(Reported(q, floor))) \div PageSize = k - 1
  BY SnapshotIs
<1>d. \A r \in witness[q] : \E k \in 1..PagesOf(q, floor) :
         RankOf(r, witness[q]) \div PageSize = k - 1
  BY SnapshotIs
<1>1. /\ n \in Nat /\ n >= 1
      /\ Snapshot(q, o, c, floor) = [k \in 1..n |-> PromisePage(q, o, c, floor, k)]
      /\ \A r \in Reported(q, floor) : \E k \in 1..n :
            RankOf(r.slot, Slots(Reported(q, floor))) \div PageSize = k - 1
      /\ \A r \in witness[q] : \E k \in 1..n : RankOf(r, witness[q]) \div PageSize = k - 1
  BY <1>a, <1>b, <1>c, <1>d
<1>2. P = {[from |-> q, pkt |-> PromisePage(q, o, c, floor, k)] : k \in 1..n}
  BY <1>1 DEF Report, From
<1>3. \A k \in 1..n : /\ f[k] = [from |-> q, pkt |-> PromisePage(q, o, c, floor, k)]
                      /\ f[k].from = q /\ f[k].pkt = PromisePage(q, o, c, floor, k)
  OBVIOUS
<1>4. \A k \in 1..n :
         LET x == PromisePage(q, o, c, floor, k)
         IN  /\ x.ballot = c /\ x.floor = floor /\ x.high = high[q] /\ x.pages = n
             /\ x.kind = "Promise" /\ x.page = k
             /\ x.recs = {r \in Reported(q, floor) :
                            RankOf(r.slot, Slots(Reported(q, floor))) \div PageSize = k - 1}
             /\ x.reqs = {r \in witness[q] : RankOf(r, witness[q]) \div PageSize = k - 1}
  BY DEF PromisePage
<1>5. \A p \in P : \E k \in 1..n : p = f[k] BY <1>2, <1>3
<1>6. \A k \in 1..n : f[k] \in P BY <1>2, <1>3
<1>7. f \in [1..n -> P] BY <1>6
<1>8. \A k, l \in 1..n : f[k] = f[l] => k = l BY <1>3, <1>4
<1>9. IsFiniteSet(1..n) /\ Cardinality(1..n) = n
  <2> HIDE DEF n
  <2>1. IsFiniteSet(1..n) /\ Cardinality(1..n) = IF 1 > n THEN 0 ELSE n - 1 + 1
    BY <1>1, FS_Interval
  <2> QED BY <1>1, <2>1
<1> HIDE DEF f, n, P
<1>10. IsFiniteSet(P) /\ Cardinality(P) = n
  <2>1. \A p \in P : \E k \in 1..n : f[k] = p BY <1>5
  <2> DEFINE S == 1..n
  <2>2. IsFiniteSet(S) /\ Cardinality(S) = n /\ f \in [S -> P] BY <1>7, <1>9
  <2>3. (\A k, l \in S : f[k] = f[l] => k = l) /\ \A p \in P : \E k \in S : f[k] = p
    BY <1>8, <2>1
  <2> HIDE DEF S
  <2> QED BY <2>2, <2>3, FiniteBijection
<1>11. P # {} BY <1>1, <1>6
<1>12. \A p \in P : /\ p.from = q /\ p.pkt.ballot = c /\ p.pkt.floor = floor
                    /\ p.pkt.high = high[q] /\ p.pkt.pages = n
                    /\ p.pkt.kind = "Promise" /\ p.pkt.recs \subseteq log[q]
  <2> TAKE p \in P
  <2>1. PICK k \in 1..n : p = f[k] BY <1>5
  <2>2. p.from = q /\ p.pkt = PromisePage(q, o, c, floor, k) BY <1>3, <2>1
  <2>3. p.pkt.recs \subseteq Reported(q, floor) BY <1>4, <2>2
  <2>4. p.pkt.recs \subseteq log[q] BY <2>3 DEF Reported
  <2> QED BY <1>4, <2>2, <2>4
<1>13. \A p, r \in P : p.pkt.page = r.pkt.page => p = r
  <2> TAKE p, r \in P
  <2>1. PICK k \in 1..n : p = f[k] BY <1>5
  <2>2. PICK l \in 1..n : r = f[l] BY <1>5
  <2>3. p.pkt.page = k /\ r.pkt.page = l BY <1>3, <1>4, <2>1, <2>2
  <2> QED BY <2>1, <2>2, <2>3
<1>14. \A y \in log[q] : floor <= y.slot => \E p \in P : y \in p.pkt.recs
  <2> SUFFICES ASSUME NEW y \in log[q], floor <= y.slot PROVE \E p \in P : y \in p.pkt.recs
    OBVIOUS
  <2>1. y.slot <= high[q] BY DEF TypeOK, Consistent
  <2>2. y \in Reported(q, floor) BY <2>1 DEF Reported
  <2>3. PICK k \in 1..n : RankOf(y.slot, Slots(Reported(q, floor))) \div PageSize = k - 1
    BY <1>1, <2>2
  <2>4. f[k] \in P /\ f[k].pkt = PromisePage(q, o, c, floor, k) BY <1>3, <1>6
  <2>5. y \in f[k].pkt.recs BY <1>4, <2>2, <2>3, <2>4
  <2> QED BY <2>4, <2>5
<1>15. \A r \in witness[q] : \E p \in P : r \in p.pkt.reqs
  <2> TAKE r \in witness[q]
  <2>1. PICK k \in 1..n : RankOf(r, witness[q]) \div PageSize = k - 1 BY <1>1
  <2>2. f[k] \in P /\ f[k].pkt = PromisePage(q, o, c, floor, k) BY <1>3, <1>6
  <2>3. r \in f[k].pkt.reqs BY <1>4, <2>1, <2>2
  <2> QED BY <2>2, <2>3
<1>16. Cardinality(P) = PagesOf(q, floor) /\ \A p \in P : p.pkt.pages = PagesOf(q, floor)
  BY <1>10, <1>12 DEF n
<1> QED BY <1>10, <1>11, <1>12, <1>13, <1>14, <1>15, <1>16 DEF P

-----------------------------------------------------------------------------
(***************************************************************************)
(* From the turn of i to all replicas.                                     *)
(***************************************************************************)
\* What the turn of i does to the role of any replica.
LEMMA RoleAll ==
    ASSUME TypeOK, TypeOK', NEW i \in Replica, Alone(i), Role(i), NEW q \in Replica
    PROVE  /\ ballot[q] <= ballot'[q]
           /\ Leading(q) /\ ballot'[q] = ballot[q] => Leading(q)'
           /\ Leading(q)' => ballot'[q] = ballot[q] /\ (Leading(q) \/ TookOver(q))
<1>1. CASE q = i BY <1>1 DEF Role
<1>2. CASE q # i
  <2>1. ballot'[q] = ballot[q] /\ preparing'[q] = preparing[q] BY <1>2 DEF Alone, Same
  <2>2. ballot[q] \in Nat BY BallotTypes
  <2> QED BY <2>1, <2>2 DEF Leading
<1> QED BY <1>1, <1>2

\* A ballot that its owner has taken over stays so; one that is begun too.
LEMMA LedKept ==
    ASSUME TypeOK, TypeOK', NEW i \in Replica, Alone(i), Role(i), NEW b \in Ballot
    PROVE  (Led(b) => Led(b)') /\ (Begun(b) => Begun(b)')
<1> DEFINE o == Owner(b)
<1>1. o \in Replica BY OwnerType, BallotNat
<1>2. ballot[o] \in Nat /\ ballot'[o] \in Nat /\ b \in Nat BY <1>1, BallotTypes, BallotNat
<1>3. ballot[o] <= ballot'[o] BY <1>1, RoleAll
<1>4. Begun(b) => Begun(b)' BY <1>2, <1>3 DEF Begun
<1>5. CASE ballot[o] > b BY <1>2, <1>3, <1>4, <1>5 DEF Led
<1>6. CASE ballot[o] = b /\ ~preparing[o]
  <2>1. Leading(o) BY <1>6 DEF Leading
  <2>2. CASE ballot'[o] = b
    <3>1. Leading(o)' BY <1>1, <1>6, <2>1, <2>2, RoleAll
    <3> QED BY <1>4, <3>1, <2>2 DEF Led, Leading
  <2>3. CASE ballot'[o] # b BY <1>2, <1>3, <1>4, <1>6, <2>3 DEF Led
  <2> QED BY <2>2, <2>3
<1> QED BY <1>4, <1>5, <1>6 DEF Led

\* While a ballot is begun but not taken over, its owner keeps still.
LEMMA OwnerStill ==
    ASSUME TypeOK, TypeOK', NEW i \in Replica, Alone(i), Role(i), Frozen(i), NEW b \in Ballot,
           Begun(b), ~Led(b)'
    PROVE  ballot[Owner(b)] = b /\ ballot'[Owner(b)] = b
           /\ executed'[Owner(b)] = executed[Owner(b)]
<1> DEFINE o == Owner(b)
<1>1. o \in Replica BY OwnerType, BallotNat
<1>2. ballot[o] \in Nat /\ ballot'[o] \in Nat /\ b \in Nat BY <1>1, BallotTypes, BallotNat
<1>3. ballot[o] <= ballot'[o] BY <1>1, RoleAll
<1>4. ballot[o] = b /\ ballot'[o] = b BY <1>2, <1>3 DEF Begun, Led
<1>5. executed'[o] = executed[o]
  <2>1. CASE o = i
    <3>1. ballot'[i] = ballot[i] BY <1>4, <2>1
    <3>2. ~Led(ballot[i])'
      <4>1. ballot'[i] = b BY <1>4, <2>1
      <4> QED BY <4>1 DEF Led
    <3> QED BY <2>1, <3>1, <3>2 DEF Frozen
  <2>2. CASE o # i BY <1>1, <2>2 DEF Alone, Same
  <2> QED BY <2>1, <2>2
<1> QED BY <1>4, <1>5

\* A replica that stays in a ballot nobody has taken over keeps still.
LEMMA AllStill ==
    ASSUME TypeOK, TypeOK', NEW i \in Replica, Alone(i), Role(i), Frozen(i), NEW q \in Replica,
           NEW b \in Ballot, ballot[q] = b, ballot'[q] = b, ~Led(b)'
    PROVE  log'[q] = log[q] /\ high'[q] = high[q] /\ witness'[q] = witness[q]
<1>1. CASE q = i
  <2>1. ~Led(ballot[i])' BY <1>1 DEF Led
  <2> QED BY <1>1, <2>1 DEF Frozen
<1>2. CASE q # i BY <1>2 DEF Alone, Same
<1> QED BY <1>1, <1>2

\* Packets and pages that were not there before come from i.
LEMMA NewPages ==
    ASSUME TypeOK, TypeOK', NEW i \in Replica, NEW out, Alone(i), Carries(i, out),
           Sends(i, out), Collects(i), NEW p \in Promised'
    PROVE  p \in Promised \/ Offered(i, p)
<1>1. PICK k \in Replica : \/ p \in pages'[k]
                           \/ \E l \in Replica : \E m \in Way(k, l)' :
                                 m.kind = "Promise" /\ p = Page(k, m)
  BY InPromisedNext
<1>2. CASE p \in pages'[k]
  <2>1. CASE k = i BY <1>2, <2>1 DEF Collects
  <2>2. CASE k # i
    <3>1. p \in pages[k] BY <1>2, <2>2 DEF Alone, Same
    <3> QED BY <3>1, InPromised
  <2> QED BY <2>1, <2>2
<1>3. ASSUME NEW l \in Replica, NEW m \in Way(k, l)', m.kind = "Promise", p = Page(k, m)
      PROVE  p \in Promised \/ Offered(i, p)
  <2>1. m \in Way(k, l) \/ (k = i /\ m \in Range(out)) BY DEF Carries
  <2>2. CASE m \in Way(k, l) BY <1>3, <2>2, InPromised
  <2>3. CASE k = i /\ m \in Range(out) BY <1>3, <2>3 DEF Sends
  <2> QED BY <2>1, <2>2, <2>3
<1> QED BY <1>1, <1>2, <1>3

\* What an offered page is.
LEMMA OfferedIs ==
    ASSUME TypeOK, TypeOK', NEW i \in Replica, NEW p, Offered(i, p)
    PROVE  /\ p.from = i /\ p.pkt.ballot = ballot'[i] /\ p.pkt.high = high[i]
           /\ p.pkt.recs \subseteq log[i]
           /\ Offer(i, p.pkt.floor) /\ p \in Report(i, ballot'[i], p.pkt.floor)
<1>1. PICK f \in 0..(MaxSlot + 1) : Offer(i, f) /\ p \in Report(i, ballot'[i], f)
  BY DEF Offered
<1>2. PICK c : c = ballot'[i] OBVIOUS
<1>3. p \in Report(i, c, f) BY <1>1, <1>2
<1>4. /\ p.from = i /\ p.pkt.ballot = c /\ p.pkt.high = high[i]
      /\ p.pkt.recs \subseteq log[i] /\ p.pkt.floor = f
  BY <1>3, ReportIs
<1> QED BY <1>1, <1>2, <1>4

\* The log, the top slot and the witness decide what a replica reports.
LEMMA ReportSame ==
    ASSUME NEW q, NEW c, NEW f,
           log'[q] = log[q], high'[q] = high[q], witness'[q] = witness[q]
    PROVE  Report(q, c, f)' = Report(q, c, f)
BY DEF Report, Snapshot, From

-----------------------------------------------------------------------------
(***************************************************************************)
(* The promises after the turn of i.                                       *)
(***************************************************************************)
\* If no page of (q, c) is added, the promise is as it was or incomplete.
LEMMA PagesShrink ==
    ASSUME NEW q \in Replica, NEW c \in Ballot, OneSnapshotOf(q, c),
           Pages(q, c)' \subseteq Pages(q, c), ~Led(c)
    PROVE  /\ SamePages(q, c)
           /\ IsFiniteSet(Pages(q, c)')
           /\ Cardinality(Pages(q, c)') <= Cardinality(Pages(q, c))
           /\ Cardinality(Pages(q, c)') \in Nat /\ Cardinality(Pages(q, c)) \in Nat
<1> DEFINE P == Pages(q, c)
           R == Pages(q, c)'
<1>1. IsFiniteSet(P) /\ \A p, r \in P : p.pkt.pages = r.pkt.pages /\ Cardinality(P) <= p.pkt.pages
  BY DEF OneSnapshotOf
<1>2. /\ IsFiniteSet(R) /\ Cardinality(R) <= Cardinality(P)
      /\ Cardinality(P) = Cardinality(R) => P = R
  <2>1. R \in SUBSET P OBVIOUS
  <2> HIDE DEF P, R
  <2> QED BY <1>1, <2>1, FS_Subset
<1>3. Cardinality(R) \in Nat /\ Cardinality(P) \in Nat BY <1>1, <1>2, CardNat
<1>4. ASSUME Whole(q, c)' PROVE Whole(q, c) /\ R = P
  <2>1. R # {} /\ \A p \in R : Cardinality(R) = p.pkt.pages BY <1>4 DEF Whole
  <2>2. PICK p \in R : Cardinality(R) = p.pkt.pages BY <2>1
  <2>3. Cardinality(P) <= Cardinality(R) BY <1>1, <2>2
  <2>4. Cardinality(P) = Cardinality(R) BY <1>2, <1>3, <2>3
  <2>5. R = P BY <1>2, <2>4
  <2> QED BY <2>1, <2>5 DEF Whole
<1> QED BY <1>2, <1>3, <1>4 DEF SamePages

\* What the pages of one promise agree on, now and after the step.
LEMMA PageFields ==
    ASSUME TypeOK, Shape, NEW q \in Replica, NEW c \in Ballot, ~Led(c), NEW p \in Pages(q, c)
    PROVE  /\ p \in Promised /\ p.from = q /\ p.pkt.ballot = c
           /\ c <= ballot[q] /\ Begun(c) /\ p.pkt.floor = executed[Owner(c)] + 1
           /\ ballot[q] = c => p \in Report(q, c, executed[Owner(c)] + 1)
<1>1. p \in Promised /\ p.from = q /\ p.pkt.ballot = c BY DEF Pages
<1>2. GoodPromise(p) BY <1>1 DEF Shape, PromiseShape
<1> QED BY <1>1, <1>2 DEF GoodPromise

\* The pages of a promise for c are those that there were, or i repeats or makes
\* the promise and all of them are pages of its snapshot.
LEMMA SteadyPages ==
    ASSUME TypeOK, TypeOK', Shape, NEW i \in Replica, NEW out, Alone(i), Carries(i, out),
           Effect(i, out), NEW q \in Replica, NEW c \in Ballot, ~Led(c)'
    PROVE  \/ Pages(q, c)' \subseteq Pages(q, c)
           \/ /\ q = i /\ ballot'[i] = c
              /\ log'[i] = log[i] /\ high'[i] = high[i] /\ witness'[i] = witness[i]
              /\ Begun(c)'
              /\ Pages(i, c)' \subseteq Report(i, c, executed'[Owner(c)] + 1)
<1> SUFFICES ASSUME ~(Pages(q, c)' \subseteq Pages(q, c))
             PROVE  /\ q = i /\ ballot'[i] = c
                    /\ log'[i] = log[i] /\ high'[i] = high[i] /\ witness'[i] = witness[i]
                    /\ Begun(c)'
                    /\ Pages(i, c)' \subseteq Report(i, c, executed'[Owner(c)] + 1)
  OBVIOUS
<1>0. Role(i) /\ Frozen(i) /\ Sends(i, out) /\ Collects(i) BY DEF Effect
<1>1. PICK p \in Pages(q, c)' : p \notin Pages(q, c) OBVIOUS
<1>2. p \in Promised' /\ p.from = q /\ p.pkt.ballot = c BY DEF Pages
<1>3. p \notin Promised BY <1>1, <1>2 DEF Pages
<1>4. Offered(i, p) BY <1>0, <1>2, <1>3, NewPages
<1>5. q = i /\ ballot'[i] = c /\ Offer(i, p.pkt.floor) BY <1>2, <1>4, OfferedIs
<1>6. /\ log'[i] = log[i] /\ high'[i] = high[i] /\ witness'[i] = witness[i]
      /\ Begun(c)'
  BY <1>5 DEF Offer, Begun
<1>7. ASSUME NEW r \in Pages(i, c)' PROVE r \in Report(i, c, executed'[Owner(c)] + 1)
  <2>1. r \in Promised' /\ r.from = i /\ r.pkt.ballot = c BY DEF Pages
  <2>2. CASE Offered(i, r)
    <3>1. Offer(i, r.pkt.floor) /\ r \in Report(i, ballot'[i], r.pkt.floor) BY <2>2, OfferedIs
    <3>2. ~Led(ballot[i])' BY <1>5 DEF Led
    <3>3. r.pkt.floor = executed'[Owner(c)] + 1 BY <1>5, <3>1, <3>2 DEF Offer
    <3> QED BY <1>5, <3>1, <3>3
  <2>3. CASE r \in Promised
    <3>1. r \in Pages(i, c) BY <2>1, <2>3 DEF Pages
    <3>2. ~Led(c) BY <1>0, LedKept
    <3>3. /\ c <= ballot[i] /\ Begun(c)
          /\ ballot[i] = c => r \in Report(i, c, executed[Owner(c)] + 1)
      BY <3>1, <3>2, PageFields
    <3>4. ballot[i] \in Nat /\ c \in Nat /\ ballot[i] <= ballot'[i]
      BY <1>0, BallotTypes, BallotNat, RoleAll
    <3>5. ballot[i] = c BY <1>5, <3>3, <3>4
    <3>6. executed'[Owner(c)] = executed[Owner(c)] BY <1>0, <3>3, OwnerStill
    <3> QED BY <3>3, <3>5, <3>6
  <2> QED BY <1>0, <2>1, <2>2, <2>3, NewPages
<1> QED BY <1>5, <1>6, <1>7

\* A promise that was complete gets no new page.
LEMMA WholeStays ==
    ASSUME TypeOK, TypeOK', Shape, NEW i \in Replica, NEW out, Alone(i), Carries(i, out),
           Effect(i, out), NEW q \in Replica, NEW c \in Ballot, ~Led(c)', Whole(q, c)
    PROVE  Pages(q, c)' \subseteq Pages(q, c)
<1> SUFFICES ASSUME q = i, ballot'[i] = c,
                    Pages(i, c)' \subseteq Report(i, c, executed'[Owner(c)] + 1)
             PROVE  Pages(i, c)' \subseteq Pages(i, c)
  BY SteadyPages
<1>0. Role(i) /\ Frozen(i) BY DEF Effect
<1> DEFINE f == executed[Owner(c)] + 1
           P == Pages(i, c)
<1>1. ~Led(c) /\ P # {} /\ \A p \in P : Cardinality(P) = p.pkt.pages BY DEF Whole
<1>2. \A p \in P : c <= ballot[i] /\ Begun(c) /\ (ballot[i] = c => p \in Report(i, c, f))
  BY <1>1, PageFields
<1>3. c <= ballot[i] /\ Begun(c) BY <1>1, <1>2
<1>4. ballot[i] \in Nat /\ c \in Nat /\ ballot[i] <= ballot'[i]
  BY <1>0, BallotTypes, BallotNat, RoleAll
<1>5. ballot[i] = c BY <1>3, <1>4
<1>6. executed'[Owner(c)] = executed[Owner(c)] BY <1>0, <1>3, OwnerStill
<1> DEFINE R == Report(i, c, f)
<1>7. P \subseteq R BY <1>2, <1>5
<1>8. IsFiniteSet(R) /\ Cardinality(R) = PagesOf(i, f) /\ \A p \in R : p.pkt.pages = PagesOf(i, f)
  BY ReportIs
<1>9. Cardinality(P) = Cardinality(R) BY <1>1, <1>7, <1>8
<1> HIDE DEF P, R
<1>10. P = R BY <1>7, <1>8, <1>9, FS_Subset
<1> QED BY <1>6, <1>10 DEF P, R

-----------------------------------------------------------------------------
(***************************************************************************)
(* A turn with such an effect keeps Shape.                                 *)
(***************************************************************************)
\* Promises stay good,
LEMMA PromisesStay ==
    ASSUME TypeOK, TypeOK', Shape, NEW i \in Replica, NEW out, Alone(i), Carries(i, out),
           Effect(i, out)
    PROVE  PromiseShape'
<1> SUFFICES ASSUME NEW p \in Promised' PROVE GoodPromise(p)' BY DEF PromiseShape
<1>0. Role(i) /\ Frozen(i) /\ Sends(i, out) /\ Collects(i) BY DEF Effect
<1> DEFINE c == p.pkt.ballot
           q == p.from
           o == Owner(c)
<1>1. q \in Replica /\ p.pkt \in Promise BY PromisedTypeNext
<1>2. c \in Ballot BY <1>1 DEF Promise
<1>3. /\ ballot[q] \in Nat /\ ballot'[q] \in Nat /\ c \in Nat /\ ballot[q] <= ballot'[q]
  BY <1>0, <1>1, <1>2, BallotTypes, BallotNat, RoleAll
<1>4. CASE p \in Promised
  <2>1. /\ c <= ballot[q] /\ Begun(c)
        /\ \A x \in p.pkt.recs : x.ballot <= c /\ x.slot <= p.pkt.high
        /\ ~Led(c) => /\ p.pkt.floor = executed[o] + 1
                      /\ ballot[q] = c => p \in Report(q, c, p.pkt.floor)
    BY <1>4 DEF Shape, PromiseShape, GoodPromise
  <2>2. c <= ballot'[q] BY <1>3, <2>1
  <2>3. Begun(c)' BY <1>0, <1>2, <2>1, LedKept
  <2>4. ASSUME ~Led(c)'
        PROVE  /\ p.pkt.floor = executed'[o] + 1
               /\ ballot'[q] = c => p \in Report(q, c, p.pkt.floor)'
    <3>1. ~Led(c) BY <1>0, <1>2, <2>4, LedKept
    <3>2. executed'[o] = executed[o] BY <1>0, <1>2, <2>1, <2>4, OwnerStill
    <3>3. ASSUME ballot'[q] = c PROVE p \in Report(q, c, p.pkt.floor)'
      <4>1. ballot[q] = c BY <1>3, <2>1, <3>3
      <4>2. log'[q] = log[q] /\ high'[q] = high[q] /\ witness'[q] = witness[q]
        BY <1>0, <1>1, <1>2, <2>4, <3>3, <4>1, AllStill
      <4>3. Report(q, c, p.pkt.floor)' = Report(q, c, p.pkt.floor) BY <4>2, ReportSame
      <4> QED BY <2>1, <3>1, <4>1, <4>3
    <3> QED BY <2>1, <3>1, <3>2, <3>3
  <2> QED BY <2>1, <2>2, <2>3, <2>4 DEF GoodPromise
<1>5. CASE Offered(i, p)
  <2>1. /\ q = i /\ c = ballot'[i] /\ p.pkt.high = high[i] /\ p.pkt.recs \subseteq log[i]
        /\ Offer(i, p.pkt.floor) /\ p \in Report(i, ballot'[i], p.pkt.floor)
    BY <1>5, OfferedIs
  <2>2. c <= ballot'[q] /\ Begun(c)' BY <1>3, <2>1 DEF Offer, Begun
  <2>3. ASSUME NEW x \in p.pkt.recs PROVE x.ballot <= c /\ x.slot <= p.pkt.high
    <3>1. x \in log[i] BY <2>1
    <3>2. x.slot <= high[i] BY <3>1 DEF TypeOK, Consistent
    <3>3. x.ballot <= ballot[i] BY <3>1 DEF Shape, LogShape, GoodLog
    <3>4. x \in Record BY <3>1, LogType
    <3>5. x.ballot \in Nat BY <3>4, BallotNat DEF Record
    <3> QED BY <1>3, <2>1, <3>2, <3>3, <3>5
  <2>4. ASSUME ~Led(c)' PROVE p.pkt.floor = executed'[o] + 1
    <3>1. ~Led(ballot[i])' BY <2>1, <2>4 DEF Led
    <3> QED BY <2>1, <3>1 DEF Offer
  <2>5. p \in Report(q, c, p.pkt.floor)'
    <3>1. log'[i] = log[i] /\ high'[i] = high[i] /\ witness'[i] = witness[i] BY <2>1 DEF Offer
    <3>2. Report(i, c, p.pkt.floor)' = Report(i, c, p.pkt.floor) BY <3>1, ReportSame
    <3> QED BY <2>1, <3>2
  <2> QED BY <2>2, <2>3, <2>4, <2>5 DEF GoodPromise
<1> QED BY <1>0, <1>4, <1>5, NewPages

\* and whole,
LEMMA SnapshotsStay ==
    ASSUME TypeOK, TypeOK', Shape, NEW i \in Replica, NEW out, Alone(i), Carries(i, out),
           Effect(i, out)
    PROVE  OneSnapshot'
<1> SUFFICES ASSUME NEW q \in Replica, NEW c \in Ballot, ~Led(c)'
             PROVE  /\ IsFiniteSet(Pages(q, c)')
                    /\ \A p, r \in Pages(q, c)' :
                          /\ p.pkt.pages = r.pkt.pages /\ p.pkt.high = r.pkt.high
                          /\ p.pkt.page = r.pkt.page => p = r
                          /\ Cardinality(Pages(q, c)') <= p.pkt.pages
  BY DEF OneSnapshot, OneSnapshotOf
<1>0. Role(i) BY DEF Effect
<1>1. ~Led(c) BY <1>0, LedKept
<1>2. CASE Pages(q, c)' \subseteq Pages(q, c)
  <2>1. OneSnapshotOf(q, c) BY <1>1 DEF Shape, OneSnapshot
  <2>2. /\ IsFiniteSet(Pages(q, c)')
        /\ Cardinality(Pages(q, c)') <= Cardinality(Pages(q, c))
        /\ Cardinality(Pages(q, c)') \in Nat /\ Cardinality(Pages(q, c)) \in Nat
    BY <1>1, <1>2, <2>1, PagesShrink
  <2>3. ASSUME NEW p \in Pages(q, c)', NEW r \in Pages(q, c)'
        PROVE  /\ p.pkt.pages = r.pkt.pages /\ p.pkt.high = r.pkt.high
               /\ p.pkt.page = r.pkt.page => p = r
               /\ Cardinality(Pages(q, c)') <= p.pkt.pages
    <3>1. p \in Pages(q, c) /\ r \in Pages(q, c) BY <1>2
    <3>2. p.pkt \in Promise BY <3>1, PromisedType DEF Pages
    <3>3. p.pkt.pages \in Nat BY <3>2 DEF Promise
    <3>4. /\ p.pkt.pages = r.pkt.pages /\ p.pkt.high = r.pkt.high
          /\ p.pkt.page = r.pkt.page => p = r
          /\ Cardinality(Pages(q, c)) <= p.pkt.pages
      BY <2>1, <3>1 DEF OneSnapshotOf
    <3> QED BY <2>2, <3>3, <3>4
  <2> QED BY <2>2, <2>3
<1>3. ASSUME q = i, Pages(i, c)' \subseteq Report(i, c, executed'[Owner(c)] + 1)
      PROVE  /\ IsFiniteSet(Pages(q, c)')
             /\ \A p, r \in Pages(q, c)' :
                   /\ p.pkt.pages = r.pkt.pages /\ p.pkt.high = r.pkt.high
                   /\ p.pkt.page = r.pkt.page => p = r
                   /\ Cardinality(Pages(q, c)') <= p.pkt.pages
  <2> DEFINE f == executed'[Owner(c)] + 1
             R == Report(i, c, f)
             P == Pages(q, c)'
  <2>1. /\ IsFiniteSet(R) /\ Cardinality(R) = PagesOf(i, f)
        /\ \A p \in R : p.pkt.high = high[i] /\ p.pkt.pages = PagesOf(i, f)
        /\ \A p, r \in R : p.pkt.page = r.pkt.page => p = r
    BY ReportIs
  <2>2. P \subseteq R BY <1>3
  <2> HIDE DEF P, R
  <2>3. IsFiniteSet(P) /\ Cardinality(P) <= Cardinality(R) BY <2>1, <2>2, FS_Subset
  <2>4. \A p, r \in P : /\ p.pkt.pages = r.pkt.pages /\ p.pkt.high = r.pkt.high
                        /\ p.pkt.page = r.pkt.page => p = r
                        /\ Cardinality(P) <= p.pkt.pages
    BY <2>1, <2>2, <2>3
  <2> QED BY <2>3, <2>4 DEF P
<1> QED BY <1>2, <1>3, SteadyPages

\* or replaced by a later snapshot.
LEMMA PagesStep ==
    ASSUME TypeOK, TypeOK', Shape, NEW i \in Replica, NEW out, Alone(i), Carries(i, out),
           Effect(i, out), NEW q \in Replica, NEW c \in Ballot
    PROVE  SamePages(q, c) \/ FreshPages(q, c)
<1> SUFFICES ASSUME Whole(q, c)' PROVE SamePages(q, c) \/ FreshPages(q, c) BY DEF SamePages
<1>0. Role(i) BY DEF Effect
<1>1. ~Led(c)' BY DEF Whole
<1>2. ~Led(c) BY <1>0, <1>1, LedKept
<1>3. CASE Pages(q, c)' \subseteq Pages(q, c)
  <2>1. OneSnapshotOf(q, c) BY <1>2 DEF Shape, OneSnapshot
  <2> QED BY <1>2, <1>3, <2>1, PagesShrink
<1>4. ASSUME q = i, ballot'[i] = c, Pages(i, c)' \subseteq Report(i, c, executed'[Owner(c)] + 1)
      PROVE  FreshPages(q, c)
  <2> DEFINE f == executed'[Owner(c)] + 1
             R == Report(i, c, f)
             P == Pages(q, c)'
  <2>1. /\ IsFiniteSet(R) /\ Cardinality(R) = PagesOf(i, f)
        /\ \A p \in R : p.pkt.pages = PagesOf(i, f) /\ p.pkt.floor = f
        /\ \A y \in log[i] : f <= y.slot => \E p \in R : y \in p.pkt.recs
        /\ \A r \in witness[i] : \E p \in R : r \in p.pkt.reqs
    BY ReportIs
  <2>2. P \subseteq R BY <1>4
  <2>3. P # {} /\ \A p \in P : Cardinality(P) = p.pkt.pages BY DEF Whole
  <2>4. Cardinality(P) = Cardinality(R) BY <2>1, <2>2, <2>3
  <2>5. P = R
    <3> HIDE DEF P, R
    <3> QED BY <2>1, <2>2, <2>4, FS_Subset
  <2>6. ballot[q] <= c BY <1>0, <1>4, RoleAll
  <2>7. \A y \in log[q] : (\A p \in P : p.pkt.floor <= y.slot) => \E p \in P : y \in p.pkt.recs
    BY <1>4, <2>1, <2>3, <2>5
  <2>8. \A r \in witness[q] : \E p \in P : r \in p.pkt.reqs BY <1>4, <2>1, <2>5
  <2> QED BY <2>6, <2>7, <2>8 DEF FreshPages
<1> QED BY <1>1, <1>3, <1>4, SteadyPages

\* What a candidate has gathered stays gathered while it keeps its pages.
LEMMA GatheredStays ==
    ASSUME TypeOK, TypeOK', Shape, NEW i \in Replica, NEW out, Alone(i), Carries(i, out),
           Effect(i, out), NEW k \in Replica, NEW q \in Replica, ballot'[k] = ballot[k],
           ~Led(ballot[k])', Whole(q, ballot[k]), Pages(q, ballot[k]) \subseteq pages'[k]
    PROVE  Gathered(k, q)'
<1>1. PICK b \in Ballot : b = ballot[k] BY BallotTypes
<1>2. ~Led(b)' BY <1>1 DEF Led
<1>3. Whole(q, b) /\ Pages(q, b) \subseteq pages'[k] /\ ballot'[k] = b BY <1>1
<1>4. Pages(q, b)' \subseteq Pages(q, b) BY <1>2, <1>3, WholeStays
<1>5. \A p \in Pages(q, b) : p \in Pages(q, b)'
  <2> TAKE p \in Pages(q, b)
  <2>1. p \in Promised' BY <1>3, InPromisedNext
  <2> QED BY <2>1 DEF Pages
<1>6. Pages(q, b)' = Pages(q, b) BY <1>4, <1>5
<1> QED BY <1>2, <1>3, <1>6 DEF Gathered, Whole

\* Candidates stay prepared.
LEMMA PreparationStays ==
    ASSUME TypeOK, TypeOK', Shape, NEW i \in Replica, NEW out, Alone(i), Carries(i, out),
           Effect(i, out), Prepares(i)
    PROVE  Preparation'
<1> SUFFICES ASSUME NEW k \in Replica, preparing'[k] PROVE Prepared(k)' BY DEF Preparation
<1>1. \/ Prepared(k)'
      \/ /\ preparing[k] /\ ballot'[k] = ballot[k]
         /\ pages'[k] = pages[k] /\ promises'[k] = promises[k]
  <2>1. CASE k = i BY <2>1 DEF Prepares
  <2>2. CASE k # i BY <2>2 DEF Alone, Same
  <2> QED BY <2>1, <2>2
<1>2. ASSUME preparing[k], ballot'[k] = ballot[k], pages'[k] = pages[k], promises'[k] = promises[k]
      PROVE  Prepared(k)'
  <2>1. Prepared(k) BY <1>2 DEF Shape, Preparation
  <2>2. Owner(ballot[k]) = k BY <2>1 DEF Prepared
  <2>3. ~Led(ballot[k])'
    <3>1. PICK b : b = ballot[k] OBVIOUS
    <3>2. ballot'[Owner(b)] = b /\ preparing'[Owner(b)] BY <1>2, <2>2, <3>1
    <3>3. b \in Nat BY <3>1, BallotTypes
    <3>4. ~Led(b)' BY <3>2, <3>3 DEF Led
    <3> QED BY <1>2, <3>1, <3>4 DEF Led
  <2>4. ASSUME NEW q \in promises[k] PROVE Gathered(k, q)'
    <3>1. q \in Replica BY DEF TypeOK
    <3>2. Whole(q, ballot[k]) /\ Pages(q, ballot[k]) \subseteq pages[k]
      BY <2>1 DEF Prepared, Gathered
    <3> QED BY <1>2, <2>3, <3>1, <3>2, GatheredStays
  <2> QED BY <1>2, <2>1, <2>4 DEF Prepared
<1> QED BY <1>1, <1>2

\* Packets stay good,
LEMMA TrafficStays ==
    ASSUME TypeOK, TypeOK', Shape, NEW i \in Replica, NEW out, Alone(i), Carries(i, out),
           Effect(i, out)
    PROVE  Traffic'
<1> SUFFICES ASSUME NEW q \in Replica, NEW k \in Replica, NEW m \in Way(q, k)'
             PROVE  q # k /\ GoodPacket(q, m)'
  BY DEF Traffic
<1>0. Role(i) /\ Frozen(i) /\ Sends(i, out) BY DEF Effect
<1>1. m \in Way(q, k) \/ (q = i /\ m \in Range(out) /\ k \in m.to) BY DEF Carries
<1>2. CASE m \in Way(q, k)
  <2>1. m \in Packet BY <1>2, WayType
  <2>2. m.ballot \in Ballot BY <2>1, PacketFields
  <2>3. q # k /\ GoodPacket(q, m) BY <1>2 DEF Shape, Traffic
  <2>4. (Led(m.ballot) => Led(m.ballot)') /\ (Begun(m.ballot) => Begun(m.ballot)')
    BY <1>0, <2>2, LedKept
  <2>5. ASSUME m.kind = "Prepare", ~Led(m.ballot)'
        PROVE  m.floor = executed'[Owner(m.ballot)] + 1
    <3>1. Begun(m.ballot) /\ m.floor = executed[Owner(m.ballot)] + 1
      BY <2>3, <2>4, <2>5 DEF GoodPacket
    <3>2. executed'[Owner(m.ballot)] = executed[Owner(m.ballot)]
      BY <1>0, <2>2, <2>5, <3>1, OwnerStill
    <3> QED BY <3>1, <3>2
  <2> QED BY <2>3, <2>4, <2>5 DEF GoodPacket
<1>3. CASE q = i /\ m \in Range(out) /\ k \in m.to
  <2>1. i \notin m.to /\ (m.kind # "Promise" => GoodPacket(i, m)') BY <1>0, <1>3 DEF Sends
  <2>2. m.kind = "Promise" => GoodPacket(i, m)' BY DEF GoodPacket
  <2> QED BY <1>3, <2>1, <2>2
<1> QED BY <1>1, <1>2, <1>3

\* and so do roles and logs.
LEMMA LeadsStay ==
    ASSUME TypeOK, TypeOK', Shape, NEW i \in Replica, Alone(i), Role(i)
    PROVE  Leads'
<1> SUFFICES ASSUME NEW q \in Replica
             PROVE  leader'[q] = Owner(ballot'[q]) /\ (active'[q] => Led(ballot[q])')
  BY DEF Leads
<1>1. CASE q = i BY <1>1 DEF Role
<1>2. CASE q # i
  <2>1. ballot'[q] = ballot[q] /\ leader'[q] = leader[q] /\ active'[q] = active[q]
    BY <1>2 DEF Alone, Same
  <2>2. leader[q] = Owner(ballot[q]) /\ (active[q] => Led(ballot[q])) BY DEF Shape, Leads
  <2>3. Led(ballot[q]) => Led(ballot[q])'
    <3>1. PICK b \in Ballot : b = ballot[q] BY BallotTypes
    <3>2. Led(b) => Led(b)' BY LedKept
    <3> QED BY <2>1, <3>1, <3>2 DEF Led
  <2> QED BY <2>1, <2>2, <2>3
<1> QED BY <1>1, <1>2

\* Logs stay good.
LEMMA LogsStay ==
    ASSUME TypeOK, TypeOK', Shape, NEW i \in Replica, Alone(i), LogStep(i)
    PROVE  LogShape'
<1> SUFFICES ASSUME NEW q \in Replica PROVE GoodLog(q)' BY DEF LogShape
<1>1. CASE q = i BY <1>1 DEF LogStep
<1>2. CASE q # i
  <2>1. Same(q) BY <1>2 DEF Alone
  <2>2. GoodLog(q) BY DEF Shape, LogShape
  <2> QED BY <2>1, <2>2 DEF Same, GoodLog, Leading
<1> QED BY <1>1, <1>2

\* A turn keeps Shape,
LEMMA ShapeStays ==
    ASSUME TypeOK, TypeOK', Shape, NEW i \in Replica, NEW out, Alone(i), Carries(i, out),
           Effect(i, out), Prepares(i)
    PROVE  Shape'
<1>1. Role(i) /\ LogStep(i) BY DEF Effect
<1>2. Leads' /\ LogShape' BY <1>1, LeadsStay, LogsStay
<1>3. Traffic' /\ PromiseShape' BY TrafficStays, PromisesStay
<1>4. OneSnapshot' /\ Preparation' BY SnapshotsStay, PreparationStays
<1> QED BY <1>2, <1>3, <1>4 DEF Shape

-----------------------------------------------------------------------------
(***************************************************************************)
(* It also advances the protocol.                                          *)
(***************************************************************************)
\* casts no vote but its own,
LEMMA VotesStep ==
    ASSUME TypeOK, TypeOK', NEW i \in Replica, NEW out, Alone(i), Carries(i, out),
           Sends(i, out), Counts(i),
           \A m \in Range(out) : m.kind = "Ack" => m.slots \subseteq Slot,
           NEW q \in Replica, NEW b \in Ballot, NEW s \in Slot, Voted(q, b, s)'
    PROVE  Voted(q, b, s) \/ FreshVote(q, b, s)
<1>1. CASE \E m \in Flying(q)' : m.kind = "Ack" /\ m.ballot = b /\ s \in m.slots
  <2>1. PICK k \in Replica : \E m \in Way(q, k)' : m.kind = "Ack" /\ m.ballot = b /\ s \in m.slots
    BY <1>1 DEF Flying
  <2>2. PICK m \in Way(q, k)' : m.kind = "Ack" /\ m.ballot = b /\ s \in m.slots BY <2>1
  <2>3. CASE m \in Way(q, k)
    <3>1. m \in Flying(q) BY <2>3 DEF Flying
    <3> QED BY <2>2, <3>1 DEF Voted
  <2>4. CASE q = i /\ m \in Range(out) BY <2>2, <2>4 DEF Sends
  <2> QED BY <2>3, <2>4 DEF Carries
<1>2. CASE \E k \in Replica : ballot'[k] = b /\ q \in votes'[k][s]
  <2>1. PICK k \in Replica : ballot'[k] = b /\ q \in votes'[k][s] BY <1>2
  <2>2. CASE k = i BY <2>1, <2>2 DEF Counts
  <2>3. CASE k # i
    <3>1. ballot[k] = b /\ q \in votes[k][s] BY <2>1, <2>3 DEF Alone, Same
    <3> QED BY <3>1 DEF Voted
  <2> QED BY <2>2, <2>3
<1> QED BY <1>1, <1>2 DEF Voted

\* makes no record but its own,
LEMMA RecordsStep ==
    ASSUME TypeOK, TypeOK', Shape, NEW i \in Replica, NEW out, Alone(i), Carries(i, out),
           Effect(i, out), NEW x \in Known'
    PROVE  x \in Known \/ NewHere(i, x)
<1>0. LogStep(i) /\ Sends(i, out) /\ Collects(i) BY DEF Effect
<1>1. ASSUME NEW k \in Replica, x \in log'[k] PROVE x \in Known \/ NewHere(i, x)
  <2>1. CASE k = i BY <1>0, <1>1, <2>1 DEF LogStep
  <2>2. CASE k # i
    <3>1. x \in log[k] BY <1>1, <2>2 DEF Alone, Same
    <3> QED BY <3>1, InKnown
  <2> QED BY <2>1, <2>2
<1>2. ASSUME NEW q \in Replica, NEW k \in Replica, NEW m \in Way(q, k)',
             m.kind \in {"Accept", "Commit"}, x \in m.recs
      PROVE  x \in Known \/ NewHere(i, x)
  <2>1. m \in Way(q, k) \/ m \in Range(out) BY DEF Carries
  <2>2. CASE m \in Way(q, k) BY <1>2, <2>2, InKnown
  <2>3. CASE m \in Range(out) BY <1>0, <1>2, <2>3 DEF Sends
  <2> QED BY <2>1, <2>2, <2>3
<1>3. ASSUME NEW p \in Promised', x \in p.pkt.recs PROVE x \in Known \/ NewHere(i, x)
  <2>1. CASE p \in Promised BY <1>3, <2>1, InKnown
  <2>2. CASE Offered(i, p)
    <3>1. x \in log[i] BY <1>3, <2>2, OfferedIs
    <3> QED BY <3>1, InKnown
  <2> QED BY <1>0, <2>1, <2>2, NewPages
<1> QED BY <1>1, <1>2, <1>3, InKnownNext

\* and advances the protocol.
LEMMA TurnAdvances ==
    ASSUME TypeOK, TypeOK', Shape, NEW i \in Replica, NEW out \in Seq(Packet), Alone(i),
           Carries(i, out), Effect(i, out)
    PROVE  Advance
<1>0. Role(i) /\ LogStep(i) /\ Sends(i, out) /\ Counts(i) BY DEF Effect
<1>1. ASSUME NEW q \in Replica
      PROVE  /\ ballot[q] <= ballot'[q]
             /\ Leading(q)' => ballot'[q] = ballot[q] /\ (Leading(q) \/ TookOver(q))
             /\ Leading(q) /\ ballot'[q] = ballot[q] => Leading(q)'
             /\ KeepsLog(q)
  <2>1. KeepsLog(q)
    <3>1. CASE q = i BY <1>0, <3>1 DEF LogStep
    <3>2. CASE q # i
      <4>1. log'[q] = log[q] BY <3>2 DEF Alone, Same
      <4>2. \A y \in log[q] : y.ballot >= y.ballot
        <5> TAKE y \in log[q]
        <5>1. y \in Record BY LogType
        <5> QED BY <5>1, BallotNat DEF Record
      <4> QED BY <4>1, <4>2 DEF KeepsLog
    <3> QED BY <3>1, <3>2
  <2> QED BY <1>0, <2>1, RoleAll
<1>2. \A m \in Range(out) : m.kind = "Ack" => m.slots \subseteq Slot
  <2>1. Range(out) \in SUBSET Packet BY RangeType
  <2> QED BY <2>1, PacketFields
<1>3. \A q \in Replica, b \in Ballot, s \in Slot :
         Voted(q, b, s)' => Voted(q, b, s) \/ FreshVote(q, b, s)
  BY <1>0, <1>2, VotesStep
<1>4. \A q \in Replica, c \in Ballot : SamePages(q, c) \/ FreshPages(q, c) BY PagesStep
<1>5. \A x \in Known' : x \in Known \/ NewHere(i, x) BY RecordsStep
<1>6. \A x \in Known' : x \in Known \/ Made(x) BY <1>5 DEF NewHere
<1>7. \A x, y \in Known' : x \in Known \/ y \in Known \/ x.ballot = y.ballot
  BY <1>5 DEF NewHere
<1> QED BY <1>1, <1>3, <1>4, <1>6, <1>7 DEF Advance

-----------------------------------------------------------------------------
(***************************************************************************)
(* What is remembered is not forgotten.                                    *)
(***************************************************************************)
\* A settled request stays settled.
LEMMA SettledStays ==
    ASSUME TypeOK, TypeOK', Safety, Shape', Advance,
           NEW r \in Request, NEW b \in Nat, NEW c \in Nat, b <= c, Settled(r, b)
    PROVE  Settled(r, c) /\ Settled(r, c)'
<1>1. PICK s \in Slot, a \in Ballot, Q \in Quorum : a <= b /\ Lock(s, r, a, Q) BY DEF Settled
<1>2. r \in Command BY DEF Command
<1>3. Lock(s, r, a, Q)' BY <1>1, <1>2, LockStays
<1>4. a <= c BY <1>1, BallotNat
<1> QED BY <1>1, <1>3, <1>4 DEF Settled

\* A request that has been executed is settled.
LEMMA DoneSettled ==
    ASSUME TypeOK', Shape', Safety', NEW i \in Replica, NEW r \in Request, Done(i, r)'
    PROVE  Settled(r, ballot[i])'
<1>1. PICK y \in log'[i] : y.req = r /\ y.committed BY DEF Done
<1>2. y \in Known'
  <2>1. y \in InLogs' BY <1>1 DEF InLogs
  <2> QED BY <2>1 DEF Known
<1>3. y \in Record BY <1>2, KnownTypeNext
<1>4. y.slot \in Slot /\ y.ballot \in Nat /\ ballot'[i] \in Nat
  BY <1>3, BallotNat DEF Record, TypeOK
<1>5. PICK b \in Ballot, Q \in Quorum : b <= y.ballot /\ Lock(y.slot, y.req, b, Q)'
  BY <1>1, <1>2 DEF Safety, Locked
<1>6. y.ballot <= ballot'[i] BY <1>1 DEF Shape, LogShape, GoodLog
<1>7. b <= ballot'[i] BY <1>4, <1>5, <1>6, BallotNat
<1>8. Lock(y.slot, r, b, Q)' BY <1>1, <1>5
<1> QED BY <1>4, <1>7, <1>8 DEF Settled

\* The promises of a replica that remembers r go on naming it.
LEMMA NamesStay ==
    ASSUME TypeOK, TypeOK', Safety, Shape', Advance, NEW q \in Replica, NEW r \in Request,
           NEW b \in Ballot, Remembers(q, r, b), NEW c \in Ballot, c > b
    PROVE  Names(q, c, r)'
<1> SUFFICES ASSUME Whole(q, c)', ~Settled(r, c)'
             PROVE  \E p \in Pages(q, c)' : r \in p.pkt.reqs
  BY DEF Names
<1>0. c \in Nat /\ ballot[q] \in Nat BY BallotNat, BallotTypes
<1>1. ~Settled(r, c) BY <1>0, SettledStays
<1>2. CASE SamePages(q, c)
  <2>1. Whole(q, c) /\ Pages(q, c)' = Pages(q, c) BY <1>2 DEF SamePages
  <2>2. Names(q, c, r) BY DEF Remembers
  <2> QED BY <1>1, <2>1, <2>2 DEF Names
<1>3. CASE FreshPages(q, c)
  <2>1. ballot[q] <= c BY <1>3 DEF FreshPages
  <2>2. ~Settled(r, ballot[q]) BY <1>0, <1>1, <2>1, SettledStays
  <2>3. r \in witness[q] BY <2>2 DEF Remembers
  <2> QED BY <1>3, <2>3 DEF FreshPages
<1> QED BY <1>2, <1>3 DEF Advance

\* What a witness remembers it goes on remembering.
LEMMA RemembersStays ==
    ASSUME TypeOK, TypeOK', Safety, Safety', Shape', Advance, NEW q \in Replica, Forgets(q),
           NEW r \in Request, NEW b \in Ballot, Remembers(q, r, b)
    PROVE  Remembers(q, r, b)'
<1>1. ballot[q] \in Nat /\ ballot'[q] \in Nat /\ b \in Nat BY BallotTypes, BallotNat
<1>2. ballot[q] <= ballot'[q] BY AdvanceReplica
<1>3. ballot[q] >= b BY DEF Remembers
<1>4. ballot'[q] >= b BY <1>1, <1>2, <1>3
<1>5. r \in witness'[q] \/ Settled(r, ballot[q])'
  <2>1. CASE r \in witness[q]
    <3>1. r \in witness'[q] \/ Done(q, r)' BY <2>1 DEF Forgets
    <3> QED BY <3>1, DoneSettled
  <2>2. CASE Settled(r, ballot[q])
    <3>1. PICK c \in Nat : c = ballot'[q] BY <1>1
    <3>2. Settled(r, c)' BY <1>1, <1>2, <2>2, <3>1, SettledStays
    <3> QED BY <3>1, <3>2 DEF Settled
  <2> QED BY <2>1, <2>2 DEF Remembers
<1>6. \A c \in Ballot : c > b => Names(q, c, r)' BY NamesStay
<1> QED BY <1>4, <1>5, <1>6 DEF Remembers

\* A leader that stays in its ballot keeps its requests.
LEMMA HasStays ==
    ASSUME TypeOK, Advance, NEW i \in Replica, Leading(i), NEW r, Has(i, r)
    PROVE  Has(i, r)'
<1>1. PICK y \in log[i] : y.req = r BY DEF Has
<1>2. \E z \in log'[i] : z.req = y.req BY AdvanceReplica
<1> QED BY <1>1, <1>2 DEF Has

\* A leader of a ballot above b has every request that b may have answered.
LEMMA LaterHas ==
    ASSUME TypeOK, TypeOK', Advance, NEW i \in Replica, NEW r \in Request, NEW b \in Ballot,
           NEW W \in FastQuorums, \A q \in W : ballot[q] <= b \/ Remembers(q, r, b),
           Leading(i)', ballot'[i] > b,
           Leading(i) /\ ballot[i] > b => Has(i, r)
    PROVE  Has(i, r)'
<1>1. ballot'[i] = ballot[i] /\ (Leading(i) \/ TookOver(i)) BY AdvanceReplica
<1>2. CASE Leading(i) BY <1>1, <1>2, HasStays
<1>3. CASE TookOver(i)
  <2>1. b < ballot[i]
    <3>1. ballot[i] \in Nat /\ b \in Nat BY BallotTypes, BallotNat
    <3> QED BY <1>1, <3>1
  <2> QED BY <1>3, <2>1 DEF TookOver
<1> QED BY <1>1, <1>2, <1>3

\* A protected request stays protected.
LEMMA ProtectedStays ==
    ASSUME TypeOK, TypeOK', Safety, Safety', Shape', Advance, \A q \in Replica : Forgets(q),
           NEW r \in Request, NEW b \in Ballot, Protected(r, b)
    PROVE  Protected(r, b)'
<1>0. b \in Nat BY BallotNat
<1>1. CASE Settled(r, b)
  <2>1. Settled(r, b)' BY <1>0, <1>1, SettledStays
  <2> QED BY <2>1 DEF Protected
<1>2. ASSUME Led(b), NEW W \in FastQuorums, \A q \in W : Remembers(q, r, b),
             \A i \in Replica : Leading(i) /\ ballot[i] >= b => Has(i, r)
      PROVE  Protected(r, b)'
  <2>1. W \subseteq Replica BY DEF FastQuorums
  <2>2. Led(b)' BY <1>2, LedStays
  <2>3. \A q \in W : Remembers(q, r, b)' BY <1>2, <2>1, RemembersStays
  <2>4. ASSUME NEW i \in Replica, Leading(i)', ballot'[i] >= b PROVE Has(i, r)'
    <3>1. ballot'[i] = ballot[i] /\ (Leading(i) \/ TookOver(i)) BY <2>4, AdvanceReplica
    <3>2. CASE Leading(i)
      <4>1. Has(i, r) BY <1>2, <2>4, <3>1, <3>2
      <4> QED BY <3>2, <4>1, HasStays
    <3>3. CASE TookOver(i)
      <4>1. Owner(ballot[i]) = i /\ preparing[i] BY <3>3 DEF TookOver
      <4>2. ballot[i] # b BY <1>2, <4>1, <1>0 DEF Led
      <4>3. ballot[i] \in Nat BY BallotTypes
      <4>4. b < ballot[i] BY <1>0, <2>4, <3>1, <4>2, <4>3
      <4> QED BY <1>2, <3>3, <4>4 DEF TookOver
    <3> QED BY <3>1, <3>2, <3>3
  <2> QED BY <2>2, <2>3, <2>4 DEF Protected
<1> QED BY <1>1, <1>2 DEF Protected

-----------------------------------------------------------------------------
(***************************************************************************)
(* The turn of a replica keeps Memory.                                     *)
(***************************************************************************)
\* A replica that tells a client that it has recorded r.
LEMMA NewBacker ==
    ASSUME TypeOK, TypeOK', Shape', Safety', NEW i \in Replica, NEW r \in Request,
           ballot'[i] = ballot[i], r \in witness'[i] \/ Done(i, r)'
    PROVE  Remembers(i, r, ballot[i])'
<1>1. PICK b \in Nat : b = ballot'[i] BY BallotTypes
<1>2. r \in witness'[i] \/ Settled(r, ballot[i])' BY DoneSettled
<1>3. ASSUME NEW c \in Ballot, c > b PROVE Names(i, c, r)'
  <2> SUFFICES ASSUME Whole(i, c)' PROVE FALSE BY DEF Names
  <2>1. PICK p \in Pages(i, c)' : TRUE BY DEF Whole
  <2>2. p \in Promised' /\ p.from = i /\ p.pkt.ballot = c BY DEF Pages
  <2>3. c <= ballot'[i] BY <2>2 DEF Shape, PromiseShape, GoodPromise
  <2> QED BY <1>1, <1>3, <2>3, BallotNat
<1>4. ballot'[i] >= b BY <1>1
<1>5. Remembers(i, r, b)' BY <1>1, <1>2, <1>3, <1>4 DEF Remembers
<1> QED BY <1>1, <1>5 DEF Remembers

\* What a turn adds to what clients may hear of.
LEMMA BackedBefore ==
    ASSUME TypeOK, NEW i \in Replica, Recalls(i), NEW q \in Replica, NEW r \in Request,
           NEW b \in Ballot, Backed(q, r, b)'
    PROVE  \/ Backed(q, r, b)
           \/ /\ q = i /\ b = ballot[i] /\ ballot'[i] = ballot[i]
              /\ r \in witness'[i] \/ Done(i, r)'
<1>1. CASE \E m \in sent' : Supports(m) /\ m.from = q /\ m.req = r /\ m.ballot = b
  <2>1. PICK m \in sent' : Supports(m) /\ m.from = q /\ m.req = r /\ m.ballot = b BY <1>1
  <2>2. CASE m \in sent BY <2>1, <2>2 DEF Backed
  <2>3. CASE Says(i, m) BY <2>1, <2>3 DEF Says
  <2> QED BY <2>2, <2>3 DEF Recalls, Speaks
<1>2. CASE known'[ClientOf[r]] = b /\ q \in evidence'[r].votes
  BY <1>2 DEF Recalls, Backed
<1> QED BY <1>1, <1>2 DEF Backed

\* A reply of the next state was there, or its leader gives it now.
LEMMA RepliedBefore ==
    ASSUME TypeOK, NEW i \in Replica, Recalls(i), NEW r \in Request, NEW b \in Ballot,
           Replied(r, b)'
    PROVE  \/ Replied(r, b)
           \/ /\ b = ballot[i] /\ ballot'[i] = ballot[i] /\ Leading(i) /\ Has(i, r)'
<1>1. CASE \E m \in sent' : m.kind = "Fast" /\ m.req = r /\ m.ballot = b
  <2>1. PICK m \in sent' : m.kind = "Fast" /\ m.req = r /\ m.ballot = b BY <1>1
  <2>2. CASE m \in sent BY <2>1, <2>2 DEF Replied
  <2>3. CASE Says(i, m) BY <2>1, <2>3 DEF Says
  <2> QED BY <2>2, <2>3 DEF Recalls, Speaks
<1>2. CASE known'[ClientOf[r]] = b /\ evidence'[r].reply
  BY <1>2 DEF Recalls, Replied
<1> QED BY <1>1, <1>2 DEF Replied

\* The parts of Memory, one by one: Backing,
LEMMA BackingStays ==
    ASSUME TypeOK, TypeOK', Shape', Safety, Safety', Backing, Advance,
           NEW i \in Replica, Alone(i), Recalls(i), \A q \in Replica : Forgets(q)
    PROVE  Backing'
<1> SUFFICES ASSUME NEW q \in Replica, NEW r \in Request, NEW b \in Ballot, Backed(q, r, b)'
             PROVE  Remembers(q, r, b)'
  BY DEF Backing
<1>1. CASE Backed(q, r, b)
  <2>1. Remembers(q, r, b) BY <1>1 DEF Backing
  <2> QED BY <2>1, RemembersStays
<1>2. CASE /\ q = i /\ b = ballot[i] /\ ballot'[i] = ballot[i]
           /\ r \in witness'[i] \/ Done(i, r)'
  <2>1. Remembers(i, r, ballot[i])' BY <1>2, NewBacker
  <2> QED BY <1>2, <2>1 DEF Remembers
<1> QED BY <1>1, <1>2, BackedBefore

\* The owner of a ballot that has replied is in it since it leads.
LEMMA ReplyingStays ==
    ASSUME TypeOK, TypeOK', Replying, Advance, NEW i \in Replica, Recalls(i)
    PROVE  Replying'
<1> SUFFICES ASSUME NEW r \in Request, NEW b \in Ballot, Replied(r, b)'
             PROVE  Led(b)' /\ (ballot'[Owner(b)] = b => Has(Owner(b), r)')
  BY DEF Replying
<1> DEFINE o == Owner(b)
<1>0. o \in Replica BY OwnerType, BallotNat
<1>1. CASE Replied(r, b)
  <2>1. Led(b) /\ (ballot[o] = b => Has(o, r)) BY <1>1 DEF Replying
  <2>2. Led(b)' BY <2>1, LedStays
  <2>3. ASSUME ballot'[o] = b PROVE Has(o, r)'
    <3>1. ballot[o] \in Nat /\ b \in Nat /\ ballot[o] <= ballot'[o]
      BY <1>0, BallotTypes, BallotNat, AdvanceReplica
    <3>2. ballot[o] = b /\ ~preparing[o] BY <2>1, <2>3, <3>1 DEF Led
    <3>3. Leading(o) BY <3>2 DEF Leading
    <3> QED BY <1>0, <2>1, <3>2, <3>3, HasStays
  <2> QED BY <2>2, <2>3
<1>2. CASE b = ballot[i] /\ ballot'[i] = ballot[i] /\ Leading(i) /\ Has(i, r)'
  <2>1. Leading(i)' BY <1>2, AdvanceReplica
  <2>2. o = i BY <1>2 DEF Leading
  <2>3. Led(b)' BY <1>2, <2>1, <2>2 DEF Led, Leading
  <2> QED BY <1>2, <2>2, <2>3
<1> QED BY <1>1, <1>2, RepliedBefore

\* Answering.
LEMMA AnsweringStays ==
    ASSUME TypeOK, TypeOK', Backing, Answering, Advance, NEW i \in Replica, Alone(i), Recalls(i)
    PROVE  Answering'
<1> SUFFICES ASSUME NEW r \in Request, NEW b \in Ballot, CanAnswer(r, b)',
                    NEW k \in Replica, Leading(k)', ballot'[k] > b
             PROVE  Has(k, r)'
  BY DEF Answering
<1>1. PICK W \in FastQuorums : \A q \in W : ballot'[q] <= b \/ Backed(q, r, b)'
  BY DEF CanAnswer
<1>2. \A q \in W : ballot[q] <= b \/ Backed(q, r, b)
  <2> TAKE q \in W
  <2>1. q \in Replica BY DEF FastQuorums
  <2>2. ballot[q] \in Nat /\ ballot'[q] \in Nat /\ b \in Nat /\ ballot[q] <= ballot'[q]
    BY <2>1, BallotTypes, BallotNat, AdvanceReplica
  <2>3. CASE ballot'[q] <= b BY <2>2, <2>3
  <2>4. CASE Backed(q, r, b)'
    <3>1. Backed(q, r, b) \/ (q = i /\ b = ballot[i]) BY <2>1, <2>4, BackedBefore
    <3> QED BY <2>2, <3>1
  <2> QED BY <1>1, <2>3, <2>4
<1>3. CanAnswer(r, b) BY <1>2 DEF CanAnswer
<1>4. \A q \in W : ballot[q] <= b \/ Remembers(q, r, b)
  <2> TAKE q \in W
  <2>1. q \in Replica BY DEF FastQuorums
  <2> QED BY <1>2, <2>1 DEF Backing
<1>5. Leading(k) /\ ballot[k] > b => Has(k, r) BY <1>3 DEF Answering
<1> QED BY <1>4, <1>5, LaterHas

\* A turn keeps Memory.
LEMMA MemoryStays ==
    ASSUME TypeOK, TypeOK', Shape', Safety, Safety', Memory, Advance,
           NEW i \in Replica, Alone(i), Recalls(i)
    PROVE  Memory'
<1>1. \A q \in Replica : Forgets(q)
  <2> TAKE q \in Replica
  <2>1. CASE q = i BY <2>1 DEF Recalls
  <2>2. CASE q # i BY <2>2 DEF Alone, Same, Forgets
  <2> QED BY <2>1, <2>2
<1>2. Backing' /\ Replying' /\ Answering'
  BY <1>1, BackingStays, ReplyingStays, AnsweringStays DEF Memory
<1>3. Timely'
  <2> SUFFICES ASSUME NEW m \in sent' PROVE m.ballot >= known'[ClientOf[m.req]] BY DEF Timely
  <2>1. CASE m \in sent BY <2>1 DEF Memory, Timely, Recalls
  <2>2. CASE Says(i, m) BY <2>2 DEF Says, Recalls
  <2> QED BY <2>1, <2>2 DEF Recalls, Speaks
<1>4. Syncing'
  <2> SUFFICES ASSUME NEW m \in sent', m.kind = "Sync" PROVE Settled(m.req, m.ballot)'
    BY DEF Syncing
  <2>1. m.req \in Request /\ m.ballot \in Nat
    <3>1. m \in Message BY DEF TypeOK
    <3>2. m.req \in Request /\ m.ballot \in Ballot BY <3>1 DEF Message
    <3> QED BY <3>2, BallotNat
  <2>2. CASE m \in sent
    <3>1. Settled(m.req, m.ballot) BY <2>2 DEF Memory, Syncing
    <3> QED BY <2>1, <3>1, SettledStays
  <2>3. CASE Says(i, m)
    <3>1. Done(i, m.req)' /\ m.ballot = ballot'[i] BY <2>3 DEF Says
    <3>2. Settled(m.req, ballot[i])' BY <2>1, <3>1, DoneSettled
    <3> QED BY <3>1, <3>2 DEF Settled
  <2> QED BY <2>2, <2>3 DEF Recalls, Speaks
<1>5. Finished'
  <2> SUFFICES ASSUME NEW r \in Request, done'[r] # None PROVE Protected(r, done[r].ballot)'
    BY DEF Finished, Completed
  <2>1. done'[r] = done[r] BY DEF Recalls
  <2>2. r \in Completed BY <2>1 DEF Completed
  <2>3. PICK b : b = done[r].ballot OBVIOUS
  <2>4. b \in Ballot BY <2>2, <2>3 DEF TypeOK, Completed
  <2>5. Protected(r, b) BY <2>2, <2>3 DEF Memory, Finished
  <2>6. Protected(r, b)' BY <1>1, <2>4, <2>5, ProtectedStays
  <2> QED BY <2>1, <2>3, <2>6 DEF Protected
<1> QED BY <1>2, <1>3, <1>4, <1>5 DEF Memory

-----------------------------------------------------------------------------
(***************************************************************************)
(* A client that reads a message keeps Memory.                             *)
(***************************************************************************)
\* Evidence that is backed by what the replicas have said.
Sound(ev, r, b) == /\ \A q \in ev[r].votes : Backed(q, r, b)
                   /\ ev[r].reply => Replied(r, b)

\* What is left of the evidence when m has been looked at.
LEMMA CurrentSound ==
    ASSUME TypeOK, Timely, NEW m \in sent, Hear(m), NEW r \in Request
    PROVE  Sound(Current(m), r, known'[ClientOf[r]])
<1>1. m \in Message BY DEF TypeOK
<1>2. ClientOf[m.req] \in Client /\ ClientOf[r] \in Client /\ m.req \in Request
      /\ m.ballot \in Ballot
  BY <1>1, MessageFields DEF Client
<1>3. known' = [known EXCEPT ![ClientOf[m.req]] = m.ballot] BY DEF Hear
<1>4. m.ballot >= known[ClientOf[m.req]] BY DEF Timely
<1>5. m.ballot \in Int /\ known[ClientOf[m.req]] \in Int
  <2>1. known[ClientOf[m.req]] \in Ballot \cup {-1} BY <1>2 DEF TypeOK
  <2>2. m.ballot \in Nat BY <1>2, BallotNat
  <2> QED BY <2>1, <2>2, BallotNat
<1>6. CASE ClientOf[r] # ClientOf[m.req]
  <2>1. known'[ClientOf[r]] = known[ClientOf[r]] BY <1>2, <1>3, <1>6 DEF TypeOK
  <2>2. Current(m)[r] = evidence[r] BY <1>6 DEF Current
  <2> QED BY <2>1, <2>2 DEF Sound, Backed, Replied
<1>7. CASE ClientOf[r] = ClientOf[m.req]
  <2>1. known'[ClientOf[r]] = m.ballot BY <1>2, <1>3, <1>7 DEF TypeOK
  <2>2. CASE m.ballot > known[ClientOf[m.req]]
    <3>1. Current(m)[r] = NoEvidence BY <1>7, <2>2 DEF Current
    <3> QED BY <3>1 DEF Sound, NoEvidence
  <2>3. CASE ~(m.ballot > known[ClientOf[m.req]])
    <3>1. Current(m)[r] = evidence[r] BY <2>3 DEF Current
    <3>2. m.ballot = known[ClientOf[r]] BY <1>4, <1>5, <1>7, <2>3
    <3> QED BY <2>1, <3>1, <3>2 DEF Sound, Backed, Replied
  <2> QED BY <2>2, <2>3
<1> QED BY <1>6, <1>7

\* What a client has completed with: a decision or a fast quorum.
Grounds(r, b) ==
    \/ \E m \in sent : m.kind = "Sync" /\ m.req = r /\ m.ballot = b
    \/ Replied(r, b) /\ \E W \in FastQuorums : \A q \in W : Backed(q, r, b)

\* What a client counts was said to it.
LEMMA HeardSound ==
    ASSUME TypeOK, Timely, NEW m \in sent, Hear(m), NEW r \in Request
    PROVE  /\ Sound(evidence', r, known'[ClientOf[r]])
           /\ \/ done'[r] = done[r]
              \/ /\ r = m.req /\ done'[r].ballot = m.ballot /\ Grounds(r, m.ballot)
<1>1. m \in Message BY DEF TypeOK
<1> DEFINE ev == Current(m)
           b == m.ballot
<1>2. m.req \in Request /\ m.from \in Replica /\ m.kind \in {"Fast", "Sync", "Record"}
      /\ ClientOf[m.req] \in Client
  BY <1>1, MessageFields
<1>3. evidence \in [Request -> Tally] /\ done \in [Request -> Outcome]
  BY DEF TypeOK, Tally, Outcome
<1>4. ev \in [Request -> Tally]
  <2>1. NoEvidence \in Tally BY DEF NoEvidence, Tally
  <2> QED BY <1>3, <2>1 DEF Current
<1>5. Sound(ev, r, known'[ClientOf[r]]) BY CurrentSound
<1>6. Sound(ev, m.req, b)
  <2>1. known'[ClientOf[m.req]] = b BY <1>2 DEF Hear, TypeOK
  <2>2. Sound(ev, m.req, known'[ClientOf[m.req]]) BY <1>2, CurrentSound
  <2> QED BY <2>1, <2>2
<1>7. r = m.req => known'[ClientOf[r]] = b BY <1>2 DEF Hear, TypeOK
<1> HIDE DEF ev
<1>8. ASSUME NEW v, Complete(m.req, v, b, ev)
      PROVE  /\ Sound(evidence', r, known'[ClientOf[r]])
             /\ done'[r] = done[r] \/ (r = m.req /\ done'[r].ballot = b)
  <2>1. CASE r = m.req
    <3>1. evidence'[r] = NoEvidence BY <1>4, <1>8, <2>1 DEF Complete
    <3>2. done'[r].ballot = b BY <1>3, <1>8, <2>1 DEF Complete
    <3> QED BY <2>1, <3>1, <3>2 DEF Sound, NoEvidence
  <2>2. CASE r # m.req
    <3>1. evidence'[r] = ev[r] BY <1>4, <1>8, <2>2 DEF Complete
    <3>2. done'[r] = done[r] BY <1>3, <1>8, <2>2 DEF Complete
    <3> QED BY <1>5, <3>1, <3>2 DEF Sound
  <2> QED BY <2>1, <2>2
<1>9. CASE m.kind = "Sync"
  <2>1. Complete(m.req, m.value, b, ev) BY <1>9 DEF Hear, ev
  <2>2. r = m.req => Grounds(r, b) BY <1>9 DEF Grounds
  <2> QED BY <1>8, <2>1, <2>2
<1>10. CASE m.kind # "Sync"
  <2> DEFINE e == ev[m.req]
             x == IF m.kind = "Fast"
                  THEN IF m.from = m.ballot % N
                       THEN [votes |-> e.votes \cup {m.from}, reply |-> TRUE, value |-> m.value]
                       ELSE e
                  ELSE IF m.ok THEN [e EXCEPT !.votes = @ \cup {m.from}] ELSE e
  <2>1. Count(m, ev) BY <1>10 DEF Hear, ev
  <2>2. e \in Tally BY <1>2, <1>4
  <2>3. /\ x.votes \in SUBSET Replica
        /\ \A q \in x.votes : q \in e.votes \/ (q = m.from /\ Supports(m))
        /\ x.reply => e.reply \/ m.kind = "Fast"
    <3>1. CASE m.kind = "Fast" BY <1>2, <2>2, <3>1 DEF Tally, Supports
    <3>2. CASE m.kind # "Fast" BY <1>2, <1>10, <2>2, <3>2 DEF Tally, Supports
    <3> QED BY <3>1, <3>2
  <2>4. IF x.reply /\ Cardinality(x.votes) >= FastQuorum
        THEN Complete(m.req, x.value, m.ballot, ev)
        ELSE evidence' = [ev EXCEPT ![m.req] = x] /\ UNCHANGED done
    BY <2>1 DEF Count
  <2> HIDE DEF x
  <2>5. \A q \in x.votes : Backed(q, m.req, b) BY <1>6, <2>3 DEF Sound, Backed
  <2>6. x.reply => Replied(m.req, b) BY <1>6, <2>3 DEF Sound, Replied
  <2>7. CASE x.reply /\ Cardinality(x.votes) >= FastQuorum
    <3>1. Complete(m.req, x.value, b, ev) BY <2>4, <2>7
    <3>2. x.votes \in FastQuorums BY <2>3, <2>7 DEF FastQuorums
    <3>3. Grounds(m.req, b) BY <2>5, <2>6, <2>7, <3>2 DEF Grounds
    <3> QED BY <1>8, <3>1, <3>3
  <2>8. CASE ~(x.reply /\ Cardinality(x.votes) >= FastQuorum)
    <3>1. evidence' = [ev EXCEPT ![m.req] = x] /\ done' = done BY <2>4, <2>8
    <3>2. CASE r = m.req
      <4>1. evidence'[r] = x BY <1>4, <3>1, <3>2
      <4> QED BY <1>7, <2>5, <2>6, <3>1, <3>2, <4>1 DEF Sound
    <3>3. CASE r # m.req
      <4>1. evidence'[r] = ev[r] BY <1>4, <3>1, <3>3
      <4> QED BY <1>5, <3>1, <4>1 DEF Sound
    <3> QED BY <3>2, <3>3
  <2> QED BY <2>7, <2>8
<1> QED BY <1>9, <1>10

\* What a client completes with is remembered.
LEMMA GroundsProtect ==
    ASSUME TypeOK, Memory, NEW r \in Request, NEW b \in Ballot, Grounds(r, b)
    PROVE  Protected(r, b)
<1>1. CASE \E m \in sent : m.kind = "Sync" /\ m.req = r /\ m.ballot = b
  BY <1>1 DEF Memory, Syncing, Protected
<1>2. ASSUME Replied(r, b), NEW W \in FastQuorums, \A q \in W : Backed(q, r, b)
      PROVE  Protected(r, b)
  <2>1. W \subseteq Replica BY DEF FastQuorums
  <2>2. \A q \in W : Remembers(q, r, b) BY <1>2, <2>1 DEF Memory, Backing
  <2>3. Led(b) /\ (ballot[Owner(b)] = b => Has(Owner(b), r)) BY <1>2 DEF Memory, Replying
  <2>4. CanAnswer(r, b) BY <1>2 DEF CanAnswer
  <2>5. ASSUME NEW i \in Replica, Leading(i), ballot[i] >= b PROVE Has(i, r)
    <3>1. CASE ballot[i] = b BY <2>3, <2>5, <3>1 DEF Leading
    <3>2. CASE ballot[i] # b
      <4>1. ballot[i] \in Nat /\ b \in Nat BY BallotNat DEF TypeOK
      <4>2. ballot[i] > b BY <2>5, <3>2, <4>1
      <4> QED BY <2>4, <2>5, <4>2 DEF Memory, Answering
    <3> QED BY <3>1, <3>2
  <2> QED BY <2>2, <2>3, <2>5 DEF Protected
<1> QED BY <1>1, <1>2 DEF Grounds

\* A client that reads a message keeps Memory.
LEMMA HearKeepsMemory ==
    ASSUME TypeOK, TypeOK', Shape', Safety, Safety', Memory, Advance,
           NEW m \in sent, Hear(m), \A q \in Replica : Same(q)
    PROVE  Memory'
<1>0. \A q \in Replica : Forgets(q) BY DEF Same, Forgets
<1>1. /\ known' = [known EXCEPT ![ClientOf[m.req]] = m.ballot]
      /\ sent' \subseteq sent /\ \A x \in sent' : Heeded(x)'
  BY DEF Hear
<1>2. ASSUME NEW q \in Replica, NEW r \in Request, NEW b \in Ballot, Backed(q, r, b)'
      PROVE  Backed(q, r, b)
  <2>1. CASE \E x \in sent' : Supports(x) /\ x.from = q /\ x.req = r /\ x.ballot = b
    BY <1>1, <2>1 DEF Backed
  <2>2. CASE known'[ClientOf[r]] = b /\ q \in evidence'[r].votes
    <3>1. Sound(evidence', r, known'[ClientOf[r]]) BY HeardSound DEF Memory
    <3> QED BY <2>2, <3>1 DEF Sound
  <2> QED BY <1>2, <2>1, <2>2 DEF Backed
<1>3. ASSUME NEW r \in Request, NEW b \in Ballot, Replied(r, b)'
      PROVE  Replied(r, b)
  <2>1. CASE \E x \in sent' : x.kind = "Fast" /\ x.req = r /\ x.ballot = b
    BY <1>1, <2>1 DEF Replied
  <2>2. CASE known'[ClientOf[r]] = b /\ evidence'[r].reply
    <3>1. Sound(evidence', r, known'[ClientOf[r]]) BY HeardSound DEF Memory
    <3> QED BY <2>2, <3>1 DEF Sound
  <2> QED BY <1>3, <2>1, <2>2 DEF Replied
<1>4. Backing'
  <2> SUFFICES ASSUME NEW q \in Replica, NEW r \in Request, NEW b \in Ballot, Backed(q, r, b)'
               PROVE  Remembers(q, r, b)'
    BY DEF Backing
  <2>1. Remembers(q, r, b) BY <1>2 DEF Memory, Backing
  <2> QED BY <1>0, <2>1, RemembersStays
<1>5. Replying'
  <2> SUFFICES ASSUME NEW r \in Request, NEW b \in Ballot, Replied(r, b)'
               PROVE  Led(b)' /\ (ballot'[Owner(b)] = b => Has(Owner(b), r)')
    BY DEF Replying
  <2>1. Led(b) /\ (ballot[Owner(b)] = b => Has(Owner(b), r)) BY <1>3 DEF Memory, Replying
  <2>2. Owner(b) \in Replica BY OwnerType, BallotNat
  <2>3. ballot'[Owner(b)] = ballot[Owner(b)] /\ log'[Owner(b)] = log[Owner(b)]
    BY <2>2 DEF Same
  <2> QED BY <2>1, <2>3, LedStays DEF Has
<1>6. Answering'
  <2> SUFFICES ASSUME NEW r \in Request, NEW b \in Ballot, CanAnswer(r, b)',
                      NEW i \in Replica, Leading(i)', ballot'[i] > b
               PROVE  Has(i, r)'
    BY DEF Answering
  <2>1. CanAnswer(r, b)
    <3>1. PICK W \in FastQuorums : \A q \in W : ballot'[q] <= b \/ Backed(q, r, b)'
      BY DEF CanAnswer
    <3>2. W \subseteq Replica BY DEF FastQuorums
    <3>3. \A q \in W : ballot[q] <= b \/ Backed(q, r, b) BY <1>2, <3>1, <3>2 DEF Same
    <3> QED BY <3>3 DEF CanAnswer
  <2>2. Leading(i) /\ ballot[i] > b BY DEF Same, Leading
  <2>3. Has(i, r) BY <2>1, <2>2 DEF Memory, Answering
  <2> QED BY <2>3 DEF Same, Has
<1>7. Syncing'
  <2> SUFFICES ASSUME NEW x \in sent', x.kind = "Sync" PROVE Settled(x.req, x.ballot)'
    BY DEF Syncing
  <2>1. x \in sent /\ x \in Message BY <1>1 DEF TypeOK
  <2>2. x.req \in Request /\ x.ballot \in Nat BY <2>1, MessageFields, BallotNat
  <2>3. Settled(x.req, x.ballot) BY <2>1 DEF Memory, Syncing
  <2> QED BY <2>2, <2>3, SettledStays
<1>8. Timely' BY <1>1 DEF Timely, Heeded
<1>9. Finished'
  <2> SUFFICES ASSUME NEW r \in Request, done'[r] # None PROVE Protected(r, done[r].ballot)'
    BY DEF Finished, Completed
  <2>1. PICK b : b = done'[r].ballot OBVIOUS
  <2>2. b \in Ballot BY <2>1 DEF TypeOK
  <2>3. Protected(r, b)
    <3>1. CASE done'[r] = done[r]
      <4>1. r \in Completed BY <3>1 DEF Completed
      <4> QED BY <2>1, <3>1, <4>1 DEF Memory, Finished
    <3>2. CASE r = m.req /\ done'[r].ballot = m.ballot /\ Grounds(r, m.ballot)
      BY <2>1, <2>2, <3>2, GroundsProtect
    <3> QED BY <3>1, <3>2, HeardSound DEF Memory
  <2>4. Protected(r, b)' BY <1>0, <2>2, <2>3, ProtectedStays
  <2> QED BY <2>1, <2>4 DEF Protected
<1> QED BY <1>4, <1>5, <1>6, <1>7, <1>8, <1>9 DEF Memory

-----------------------------------------------------------------------------
(***************************************************************************)
(* What the invariants say of completed requests.                          *)
(***************************************************************************)
\* Memory implies what the run checks.
LEMMA MemorySurvives == TypeOK /\ Shape /\ Memory => CompletedSurvives
<1> SUFFICES ASSUME TypeOK, Shape, Memory, NEW r \in Completed, NEW i \in Replica,
                    leader[i] = i, ~preparing[i], ballot[i] >= done[r].ballot
             PROVE  r \in Reqs(log[i])
  BY DEF CompletedSurvives
<1>1. PICK b : b = done[r].ballot OBVIOUS
<1>2. r \in Request /\ b \in Ballot BY <1>1 DEF TypeOK, Completed
<1>3. Leading(i) BY DEF Shape, Leads, Leading
<1>4. Protected(r, b) BY <1>1 DEF Memory, Finished
<1>5. CASE Settled(r, b)
  <2>1. PICK s \in Slot, a \in Ballot, Q \in Quorum : a <= b /\ Lock(s, r, a, Q)
    BY <1>5 DEF Settled
  <2>2. a \in Nat /\ b \in Nat /\ ballot[i] \in Nat BY <1>2, BallotNat DEF TypeOK
  <2>3. ballot[i] >= a BY <1>1, <2>1, <2>2
  <2>4. \E y \in log[i] : y.slot = s /\ y.req = r BY <1>3, <2>1, <2>3 DEF Lock
  <2> QED BY <2>4 DEF Reqs
<1>6. CASE \A k \in Replica : Leading(k) /\ ballot[k] >= b => Has(k, r)
  <2>1. Has(i, r) BY <1>1, <1>3, <1>6
  <2> QED BY <2>1 DEF Has, Reqs
<1> QED BY <1>4, <1>5, <1>6 DEF Protected

-----------------------------------------------------------------------------
(***************************************************************************)
(* The turns of a replica, one by one; first what many of them share.      *)
(***************************************************************************)
\* Where no ballot and no recovery moves, what is led is the same.
LEMMA LedSame ==
    ASSUME NEW b \in Nat, \A q \in Replica : ballot'[q] = ballot[q] /\ preparing'[q] = preparing[q]
    PROVE  Led(b)' <=> Led(b)
<1>1. Owner(b) \in Replica BY OwnerType
<1> QED BY <1>1 DEF Led

\* A replica that keeps its role: it is active in a ballot that is led.
LEMMA RoleKept ==
    ASSUME TypeOK, TypeOK', Shape, NEW i \in Replica, Alone(i),
           ballot'[i] = ballot[i], leader'[i] = leader[i], preparing'[i] = preparing[i],
           active'[i] => active[i] \/ Led(ballot[i])
    PROVE  /\ Role(i) /\ (Led(ballot[i])' <=> Led(ballot[i]))
           /\ Leading(i)' = Leading(i)
<1>1. PICK b \in Nat : b = ballot[i] BY BallotTypes
<1>2. \A q \in Replica : ballot'[q] = ballot[q] /\ preparing'[q] = preparing[q]
  BY DEF Alone, Same
<1>3. Led(b)' <=> Led(b) BY <1>2, LedSame
<1>4. Led(ballot[i])' <=> Led(ballot[i]) BY <1>1, <1>3 DEF Led
<1>5. leader[i] = Owner(ballot[i]) /\ (active[i] => Led(ballot[i])) BY DEF Shape, Leads
<1>6. Leading(i)' = Leading(i) BY DEF Leading
<1>7. ballot[i] <= ballot'[i] BY <1>1
<1> QED BY <1>4, <1>5, <1>6, <1>7 DEF Role

\* A replica that keeps its log.
LEMMA LogKept ==
    ASSUME TypeOK, TypeOK', Shape, NEW i \in Replica, ballot[i] <= ballot'[i],
           Leading(i)' => Leading(i) /\ ballot'[i] = ballot[i],
           log'[i] = log[i], executed'[i] = executed[i], values'[i] = values[i]
    PROVE  LogStep(i)
<1>1. GoodLog(i) BY DEF Shape, LogShape
<1>2. \A x \in log[i] : x.ballot \in Nat /\ x \in Known
  <2> TAKE x \in log[i]
  <2>1. x \in Record BY LogType
  <2> QED BY <2>1, BallotNat, InKnown DEF Record
<1>3. ballot[i] \in Nat /\ ballot'[i] \in Nat BY BallotTypes
<1>4. \A x \in log[i] : x.ballot <= ballot'[i] BY <1>1, <1>2, <1>3 DEF GoodLog
<1>5. GoodLog(i)' BY <1>1, <1>4 DEF GoodLog
<1>6. \A y \in log[i] : y.ballot >= y.ballot BY <1>2
<1>7. KeepsLog(i) BY <1>6 DEF KeepsLog
<1> QED BY <1>2, <1>5, <1>7 DEF LogStep

\* A replica that counts nothing new.
LEMMA CountsKept ==
    ASSUME NEW i \in Replica,
           \/ votes'[i] = NoVotes
           \/ votes'[i] = votes[i] /\ ballot'[i] = ballot[i]
    PROVE  Counts(i)
BY DEF Counts, Voted, NoVotes

\* A replica that tells the clients nothing and keeps what it has recorded.
LEMMA Quiet ==
    ASSUME witness' = witness, sent' = sent, UNCHANGED <<known, evidence, done>>, NEW i
    PROVE  Recalls(i)
BY DEF Recalls, Forgets, Speaks

\* A turn in which i stands still but for what it has recorded.
LEMMA StandsStill ==
    ASSUME TypeOK, TypeOK', Shape, NEW i \in Replica, Alone(i),
           /\ ballot'[i] = ballot[i] /\ leader'[i] = leader[i] /\ active'[i] = active[i]
           /\ preparing'[i] = preparing[i] /\ log'[i] = log[i] /\ high'[i] = high[i]
           /\ executed'[i] = executed[i] /\ values'[i] = values[i] /\ votes'[i] = votes[i]
           /\ pages'[i] = pages[i] /\ promises'[i] = promises[i],
           witness'[i] = witness[i] \/ active[i],
           NEW out, Sends(i, out)
    PROVE  Effect(i, out) /\ Prepares(i)
<1>1. /\ Role(i) /\ (Led(ballot[i])' <=> Led(ballot[i])) /\ Leading(i)' = Leading(i) BY RoleKept
<1>2. ballot[i] <= ballot'[i] BY <1>1 DEF Role
<1>3. LogStep(i) BY <1>1, <1>2, LogKept
<1>4. Counts(i) BY CountsKept
<1>5. Frozen(i)
  <2>1. active[i] => Led(ballot[i]) BY DEF Shape, Leads
  <2> QED BY <1>1, <2>1 DEF Frozen
<1>6. Collects(i)
  <2>1. \A p \in pages[i] : p \in Promised BY InPromised
  <2> QED BY <2>1 DEF Collects
<1> QED BY <1>1, <1>3, <1>4, <1>5, <1>6 DEF Effect, Prepares

\* Nothing sent, nothing to answer for.
LEMMA SilentSends == ASSUME NEW i PROVE Sends(i, <<>>)
BY NoneSent DEF Sends

\* Nothing new is under way where the network stands still,
LEMMA NetKept == ASSUME net' = net, NEW i PROVE Carries(i, <<>>)
BY DEF Carries, Way

\* or loses packets.
LEMMA ShrunkNet ==
    ASSUME NEW i, \A q, k \in Replica : Way(q, k)' \subseteq Way(q, k)
    PROVE  Carries(i, <<>>)
BY DEF Carries

\* A message about a record is one about a request that was recorded.
LEMMA SubmittedTells ==
    ASSUME NEW i, NEW o, NEW A, NEW m \in Submitted(i, o, A).sent
    PROVE  /\ m.kind = "Record" /\ m.from = i /\ m.ballot = ballot[i]
           /\ Supports(m) => m.req \in A
<1> DEFINE first == {r \in Range(o) : recorded[i][r] # ballot[i]}
<1>1. Submitted(i, o, A).sent =
        IF leader[i] = i THEN {} ELSE {RecordAck(i, ballot[i], r, r \in A) : r \in first}
  BY DEF Submitted
<1>2. PICK r \in first : m = RecordAck(i, ballot[i], r, r \in A) BY <1>1
<1> HIDE DEF first
<1>3. /\ m.kind = "Record" /\ m.from = i /\ m.ballot = ballot[i] /\ m.req = r
      /\ m.ok = (r \in A)
  BY <1>2 DEF RecordAck
<1> QED BY <1>3 DEF Supports

\* What a submission records.
LEMMA SubmittedWitness ==
    ASSUME NEW i, NEW o, NEW A PROVE Submitted(i, o, A).witness = witness[i] \cup A
BY DEF Submitted

\* What has been executed is decided in the log.
LEMMA DoneAtDone ==
    ASSUME Shape, NEW i \in Replica, NEW r \in DoneAt(i), log'[i] = log[i] PROVE Done(i, r)'
<1>1. PICK v \in values[i] : v.req = r BY DEF DoneAt
<1>2. \E y \in log[i] : y.req = v.req /\ y.committed BY DEF Shape, LogShape, GoodLog
<1> QED BY <1>1, <1>2 DEF Done

-----------------------------------------------------------------------------
(***************************************************************************)
(* Proposals, and the turns that change nothing.                           *)
(***************************************************************************)
\* A proposal arrives.
LEMMA TurnPropose ==
    ASSUME TypeOK, TypeOK', Shape, NEW i \in Replica, NEW r \in Request, Propose(i, r)
    PROVE  GoodTurn(i)
<1> USE DEF roleVars, logVars, quorumVars, clientVars
<1> DEFINE on == active[i] /\ r \notin DoneAt(i)
           d(A) == IF on THEN Submitted(i, <<r>>, A) ELSE Desk(i)
           X == IF r \in DoneAt(i) THEN {Sync(i, ballot[i], r, ResultOf(values[i], r))} ELSE {}
<1>0. Alone(i) BY TypePropose
<1>1. PICK A \in SUBSET {r} :
        /\ witness' = [witness EXCEPT ![i] = d(A).witness]
        /\ Tell(d(A).sent \cup X)
        /\ UNCHANGED <<roleVars, logVars, resume, quorumVars, alive, net, clientVars>>
  BY DEF Propose
<1>2. witness'[i] = d(A).witness BY <1>1 DEF TypeOK
<1>3. /\ on => d(A).witness = witness[i] \cup A
      /\ ~on => d(A).witness = witness[i]
  BY SubmittedWitness DEF Desk
<1>4. \A m \in d(A).sent : /\ m.kind = "Record" /\ m.from = i /\ m.ballot = ballot[i]
                           /\ Supports(m) => on /\ m.req \in A
  BY SubmittedTells DEF Desk
<1>5. \A m \in X : /\ m.kind = "Sync" /\ m.from = i /\ m.ballot = ballot[i]
                   /\ m.req \in DoneAt(i)
  BY DEF Sync
<1> HIDE DEF d, X, on
<1>6. \A m \in sent' : m \in sent \/ (m \in d(A).sent \cup X /\ Heeded(m)) BY <1>1 DEF Tell
<1>7. Forgets(i) BY <1>2, <1>3 DEF Forgets
<1>8. ASSUME NEW m \in sent', m \notin sent PROVE Says(i, m)
  <2>1. m \in d(A).sent \cup X /\ m.ballot >= known[ClientOf[m.req]] BY <1>6, <1>8 DEF Heeded
  <2>2. ballot'[i] = ballot[i] /\ log'[i] = log[i] BY <1>1
  <2>3. CASE m \in d(A).sent
    <3>1. Supports(m) => m.req \in witness'[i] BY <1>2, <1>3, <1>4, <2>3
    <3> QED BY <1>4, <2>1, <2>2, <2>3, <3>1 DEF Says
  <2>4. CASE m \in X
    <3>1. Done(i, m.req)' BY <1>5, <2>2, <2>4, DoneAtDone
    <3>2. ~Supports(m) BY <1>5, <2>4 DEF Supports
    <3> QED BY <1>5, <2>1, <2>2, <2>4, <3>1, <3>2 DEF Says
  <2> QED BY <2>1, <2>3, <2>4
<1>9. Recalls(i) BY <1>1, <1>7, <1>8 DEF Recalls, Speaks
<1>10. witness'[i] = witness[i] \/ active[i] BY <1>2, <1>3 DEF on
<1>11. Sends(i, <<>>) BY SilentSends
<1>12. /\ ballot'[i] = ballot[i] /\ leader'[i] = leader[i] /\ active'[i] = active[i]
       /\ preparing'[i] = preparing[i] /\ log'[i] = log[i] /\ high'[i] = high[i]
       /\ executed'[i] = executed[i] /\ values'[i] = values[i] /\ votes'[i] = votes[i]
       /\ pages'[i] = pages[i] /\ promises'[i] = promises[i]
  BY <1>1
<1>13. Effect(i, <<>>) /\ Prepares(i) BY <1>0, <1>10, <1>11, <1>12, StandsStill
<1>14. Carries(i, <<>>) BY <1>1, NetKept
<1> QED BY <1>0, <1>9, <1>13, <1>14, NoneSent DEF GoodTurn

\* The tick of a follower.
LEMMA TurnTickFollower ==
    ASSUME TypeOK, TypeOK', Shape, NEW i \in Replica, TickFollower(i)
    PROVE  GoodTurn(i)
<1> USE DEF roleVars, logVars, quorumVars, clientVars
<1>0. Alone(i) BY TypeTickFollower
<1>1. PICK D \in SUBSET resume[i] :
          /\ Drains(i, D) /\ D # {}
          /\ \E o \in Orders(D \cap pending[i]) : \E A \in SUBSET D :
                LET d == Submitted(i, o, A)
                IN  /\ witness' = [witness EXCEPT ![i] = d.witness]
                    /\ Tell(d.sent)
  BY DEF TickFollower
<1>2. PICK o \in Orders(D \cap pending[i]), A \in SUBSET D :
          /\ witness' = [witness EXCEPT ![i] = Submitted(i, o, A).witness]
          /\ Tell(Submitted(i, o, A).sent)
  BY <1>1
<1>3. UNCHANGED <<roleVars, logVars, pending, queue, quorumVars, alive, net, clientVars>>
  BY DEF TickFollower
<1>4. active[i] BY <1>1 DEF Drains
<1>5. witness'[i] = witness[i] \cup A BY <1>2, SubmittedWitness DEF TypeOK
<1>6. \A m \in sent' : m \in sent \/ (m \in Submitted(i, o, A).sent /\ Heeded(m))
  BY <1>2 DEF Tell
<1>7. Forgets(i) BY <1>5 DEF Forgets
<1>8. ASSUME NEW m \in sent', m \notin sent PROVE Says(i, m)
  <2>1. m \in Submitted(i, o, A).sent /\ m.ballot >= known[ClientOf[m.req]]
    BY <1>6, <1>8 DEF Heeded
  <2>2. /\ m.kind = "Record" /\ m.from = i /\ m.ballot = ballot[i]
        /\ Supports(m) => m.req \in A
    BY <2>1, SubmittedTells
  <2>3. Supports(m) => m.req \in witness'[i] BY <1>5, <2>2
  <2> QED BY <1>3, <2>1, <2>2, <2>3 DEF Says
<1>9. Recalls(i) BY <1>3, <1>7, <1>8 DEF Recalls, Speaks
<1>10. Sends(i, <<>>) BY SilentSends
<1>11. /\ ballot'[i] = ballot[i] /\ leader'[i] = leader[i] /\ active'[i] = active[i]
       /\ preparing'[i] = preparing[i] /\ log'[i] = log[i] /\ high'[i] = high[i]
       /\ executed'[i] = executed[i] /\ values'[i] = values[i] /\ votes'[i] = votes[i]
       /\ pages'[i] = pages[i] /\ promises'[i] = promises[i]
  BY <1>3
<1>12. Effect(i, <<>>) /\ Prepares(i) BY <1>0, <1>4, <1>10, <1>11, StandsStill
<1>13. Carries(i, <<>>) BY <1>3, NetKept
<1> QED BY <1>0, <1>9, <1>12, <1>13, NoneSent DEF GoodTurn

\* A packet that is not handled.
LEMMA TurnIgnore ==
    ASSUME TypeOK, TypeOK', Shape, NEW i \in Replica, NEW j \in Replica, net[j][i] # <<>>, NEW m,
           Ignore(i, j, m)
    PROVE  GoodTurn(i)
<1> USE DEF roleVars, logVars, reqVars, recordVars, quorumVars, clientVars
<1>0. Alone(i) BY TypeIgnore
<1>1. Exchange(i, j, <<>>)
      /\ UNCHANGED <<roleVars, logVars, reqVars, recordVars, quorumVars, alive, sent, clientVars>>
  BY DEF Ignore
<1>2. Carries(i, <<>>) BY <1>1, NoneSent, ExchangeCarries
<1>3. Recalls(i) BY <1>1, Quiet
<1>4. Sends(i, <<>>) BY SilentSends
<1>5. Effect(i, <<>>) /\ Prepares(i) BY <1>0, <1>1, <1>4, StandsStill
<1> QED BY <1>0, <1>2, <1>3, <1>5, NoneSent DEF GoodTurn

\* A connection ends.
LEMMA TurnLinkDown ==
    ASSUME TypeOK, TypeOK', Shape, NEW i \in Replica, NEW j \in Replica, LinkDown(i, j)
    PROVE  GoodTurn(i)
<1> USE DEF roleVars, logVars, reqVars, recordVars, quorumVars, clientVars
<1>0. Alone(i) BY TypeLinkDown
<1>1. /\ net' = [net EXCEPT ![j][i] = <<>>]
      /\ UNCHANGED <<roleVars, logVars, reqVars, recordVars, quorumVars, sent, clientVars>>
  BY DEF LinkDown
<1>2. Carries(i, <<>>)
  <2>1. ASSUME NEW q \in Replica, NEW k \in Replica PROVE Way(q, k)' \subseteq Way(q, k)
    <3>1. net \in [Replica -> [Replica -> Seq(Packet)]] BY DEF TypeOK
    <3>2. net' = [net EXCEPT ![j][i] = <<>>] BY <1>1
    <3>3. net'[q][k] = IF q = j /\ k = i THEN <<>> ELSE net[q][k] BY <3>1, <3>2
    <3> QED BY <3>3, NoneSent DEF Way
  <2> QED BY <2>1, ShrunkNet
<1>3. Recalls(i) BY <1>1, Quiet
<1>4. Sends(i, <<>>) BY SilentSends
<1>5. Effect(i, <<>>) /\ Prepares(i) BY <1>0, <1>1, <1>4, StandsStill
<1> QED BY <1>0, <1>2, <1>3, <1>5, NoneSent DEF GoodTurn

\* Where no replica does anything.
LEMMA AllSame ==
    ASSUME TypeOK, TypeOK', Shape, \A q \in Replica : Same(q), net' = net
    PROVE  \E i \in Replica : \E out \in Seq(Packet) :
              Alone(i) /\ Carries(i, out) /\ Effect(i, out) /\ Prepares(i)
<1>1. PICK i \in Replica : TRUE BY NAssumption DEF Replica
<1>2. Alone(i) BY DEF Alone
<1>3. Carries(i, <<>>) BY NetKept
<1>4. Sends(i, <<>>) BY SilentSends
<1>5. Same(i) OBVIOUS
<1>6. Effect(i, <<>>) /\ Prepares(i) BY <1>2, <1>4, <1>5, StandsStill DEF Same
<1> QED BY <1>2, <1>3, <1>6, NoneSent

-----------------------------------------------------------------------------
(***************************************************************************)
(* The start of a recovery, and what the others promise.                   *)
(***************************************************************************)
\* A Prepare names the first slot its sender has not executed.
LEMMA TurnTickPrepare ==
    ASSUME TypeOK, TypeOK', Shape, NEW i \in Replica, TickPrepare(i)
    PROVE  GoodTurn(i)
<1> USE DEF roleVars, logVars, reqVars, recordVars, quorumVars, clientVars
<1>0. Alone(i) BY TypeTickPrepare
<1>1. PICK p : p = Prepare(Peers(i), ballot[i], executed[i] + 1) OBVIOUS
<1>2. /\ preparing[i] /\ Send(i, <<p>>)
      /\ UNCHANGED <<roleVars, logVars, reqVars, recordVars, quorumVars, alive, sent, clientVars>>
  BY <1>1 DEF TickPrepare
<1>3. p \in Packet
  <2>1. ballot[i] \in Ballot BY DEF TypeOK
  <2> QED BY <1>1, <2>1, PeersIn, FloorType, PacketTypes
<1>4. Owner(ballot[i]) = i BY <1>2 DEF Shape, Preparation, Prepared
<1>5. p.kind = "Prepare" /\ p.to = Peers(i) /\ p.ballot = ballot[i] /\ p.floor = executed[i] + 1
  BY <1>1 DEF Prepare
<1>6. <<p>> \in Seq(Packet) /\ \A m \in Range(<<p>>) : m = p BY <1>3, OneIn
<1>7. Carries(i, <<p>>) BY <1>2, <1>6, SendCarries
<1>8. GoodPacket(i, p)'
  <2>1. PICK b : b = ballot[i] OBVIOUS
  <2>2. /\ b \in Nat /\ p.ballot = b /\ Owner(b) = i /\ ballot'[i] = b
        /\ p.floor = executed'[i] + 1
    BY <1>2, <1>4, <1>5, <2>1, BallotTypes
  <2>3. Begun(b)' BY <2>2 DEF Begun
  <2> QED BY <1>5, <2>2, <2>3 DEF GoodPacket
<1>9. Sends(i, <<p>>)
  <2>1. i \notin p.to BY <1>5, PeersIn
  <2>2. \A m \in Range(<<p>>) : m = p BY <1>6
  <2> QED BY <1>5, <1>8, <2>1, <2>2 DEF Sends
<1>10. Recalls(i) BY <1>2, Quiet
<1>11. Effect(i, <<p>>) /\ Prepares(i) BY <1>0, <1>2, <1>9, StandsStill
<1> QED BY <1>0, <1>6, <1>7, <1>10, <1>11 DEF GoodTurn

\* A new ballot of its own owner is not led yet.
LEMMA TurnTickBegin ==
    ASSUME TypeOK, TypeOK', Shape, NEW i \in Replica, TickBegin(i)
    PROVE  GoodTurn(i)
<1> USE DEF logVars, reqVars, recordVars, clientVars
<1>0. Alone(i) BY TypeTickBegin
<1>1. PICK b, f, p : /\ b = NextBallot(i) /\ f = executed[i] + 1
                     /\ p = Prepare(Peers(i), b, f)
  OBVIOUS
<1>2. b \in Ballot /\ b \in Nat /\ b > ballot[i] /\ Owner(b) = i
  <2>1. b \in Nat /\ b <= MaxBallot /\ b > ballot[i] /\ Owner(b) = i
    BY <1>1, NextBallotType DEF TickBegin
  <2> QED BY <2>1, BoundAssumption DEF Ballot
<1>3. /\ ballot' = [ballot EXCEPT ![i] = b] /\ leader' = [leader EXCEPT ![i] = i]
      /\ active' = [active EXCEPT ![i] = FALSE] /\ preparing' = [preparing EXCEPT ![i] = TRUE]
      /\ votes' = [votes EXCEPT ![i] = NoVotes]
      /\ pages' = [pages EXCEPT ![i] = Report(i, b, f)]
      /\ promises' = [promises EXCEPT ![i] = {i}]
      /\ Send(i, <<p>>)
      /\ UNCHANGED <<logVars, reqVars, recordVars, alive, sent, clientVars>>
  BY <1>1, <1>2 DEF TickBegin, Report
<1>4. /\ ballot'[i] = b /\ leader'[i] = i /\ ~active'[i] /\ preparing'[i] /\ votes'[i] = NoVotes
      /\ pages'[i] = Report(i, b, f) /\ promises'[i] = {i}
      /\ log'[i] = log[i] /\ high'[i] = high[i] /\ executed'[i] = executed[i]
      /\ values'[i] = values[i] /\ witness'[i] = witness[i]
  BY <1>3 DEF TypeOK
<1>5. ballot[i] \in Nat /\ f \in 0..(MaxSlot + 1) BY <1>1, BallotTypes, FloorType
<1>6. ~Leading(i)' BY <1>4 DEF Leading
<1>7. Begun(b)' /\ ~Led(b)' BY <1>2, <1>4 DEF Begun, Led
<1>8. Role(i) BY <1>2, <1>4, <1>5, <1>6 DEF Role
<1>9. Frozen(i) BY <1>4 DEF Frozen
<1>10. LogStep(i)
  <2>1. ballot[i] <= ballot'[i] BY <1>2, <1>4, <1>5
  <2> QED BY <1>4, <1>6, <2>1, LogKept
<1>11. Counts(i) BY <1>4, CountsKept
<1>12. ASSUME NEW x \in Report(i, b, f) PROVE Offered(i, x)
  <2>1. Begun(ballot[i])' BY <1>4, <1>7 DEF Begun
  <2>2. f = executed'[Owner(ballot'[i])] + 1 BY <1>1, <1>2, <1>4
  <2>3. Offer(i, f) BY <1>4, <2>1, <2>2 DEF Offer
  <2>4. x \in Report(i, ballot'[i], f) BY <1>4
  <2> QED BY <1>5, <2>3, <2>4 DEF Offered
<1>13. Collects(i) BY <1>4, <1>12 DEF Collects
<1>14. p.kind = "Prepare" /\ p.to = Peers(i) /\ p.ballot = b /\ p.floor = f
  BY <1>1 DEF Prepare
<1>15. p \in Packet BY <1>1, <1>2, <1>5, PeersIn, PacketTypes
<1>16. GoodPacket(i, p)'
  <2>1. f = executed'[Owner(b)] + 1 BY <1>1, <1>2, <1>4
  <2> QED BY <1>2, <1>7, <1>14, <2>1 DEF GoodPacket
<1>17. <<p>> \in Seq(Packet) /\ \A m \in Range(<<p>>) : m = p BY <1>15, OneIn
<1>18. Carries(i, <<p>>) BY <1>3, <1>17, SendCarries
<1>19. Sends(i, <<p>>)
  <2>1. i \notin p.to BY <1>14, PeersIn
  <2>2. \A m \in Range(<<p>>) : m = p BY <1>17
  <2> QED BY <1>14, <1>16, <2>1, <2>2 DEF Sends
<1>20. Effect(i, <<p>>) BY <1>8, <1>9, <1>10, <1>11, <1>13, <1>19 DEF Effect
<1>21. Prepares(i)
  <2>1. Pages(i, b)' \subseteq Report(i, b, f)
    <3>1. Pages(i, b) = {}
      <4> SUFFICES ASSUME NEW x \in Pages(i, b) PROVE FALSE OBVIOUS
      <4>1. x \in Promised /\ x.from = i /\ x.pkt.ballot = b BY DEF Pages
      <4>2. b <= ballot[i] BY <4>1 DEF Shape, PromiseShape, GoodPromise
      <4> QED BY <1>2, <1>5, <4>2
    <3>2. executed'[Owner(b)] + 1 = f BY <1>1, <1>2, <1>4
    <3>3. Pages(i, b)' \subseteq Pages(i, b)
          \/ Pages(i, b)' \subseteq Report(i, b, executed'[Owner(b)] + 1)
      BY <1>0, <1>2, <1>7, <1>17, <1>18, <1>20, SteadyPages
    <3> QED BY <3>1, <3>2, <3>3
  <2>2. Report(i, b, f) \subseteq Pages(i, b)'
    <3> SUFFICES ASSUME NEW x \in Report(i, b, f) PROVE x \in Pages(i, b)' OBVIOUS
    <3>1. x \in Promised' BY <1>4, InPromisedNext
    <3>2. x.from = i /\ x.pkt.ballot = b BY ReportIs
    <3> QED BY <3>1, <3>2 DEF Pages
  <2>3. Pages(i, b)' = Report(i, b, f) BY <2>1, <2>2
  <2>4. Whole(i, b)'
    <3>1. Report(i, b, f) # {} /\ \A x \in Report(i, b, f) :
             Cardinality(Report(i, b, f)) = x.pkt.pages
      BY ReportIs
    <3> QED BY <1>7, <2>3, <3>1, Zenon DEF Whole
  <2>5. Gathered(i, i)'
    <3>1. Whole(i, ballot[i])' BY <1>4, <2>4 DEF Whole, Pages, Led
    <3>2. (Pages(i, ballot[i]) \subseteq pages[i])' BY <1>4, <2>3 DEF Pages
    <3> QED BY <3>1, <3>2 DEF Gathered
  <2>6. \A x \in pages'[i] : x.pkt.ballot = ballot'[i] BY <1>4, ReportIs
  <2>7. Owner(ballot'[i]) = i BY <1>2, <1>4
  <2> QED BY <1>4, <2>5, <2>6, <2>7 DEF Prepares, Prepared
<1>22. Recalls(i) BY <1>3, Quiet
<1> QED BY <1>0, <1>17, <1>18, <1>20, <1>21, <1>22 DEF GoodTurn

-----------------------------------------------------------------------------
(***************************************************************************)
(* Packets that arrive: promises, the leader's Ready, a request to repeat. *)
(***************************************************************************)
\* A packet under way was sent by a replica that is not its receiver.
LEMMA Received ==
    ASSUME TypeOK, Shape, NEW i \in Replica, NEW j \in Replica, NEW m \in Way(j, i)
    PROVE  j # i /\ GoodPacket(j, m)
BY DEF Shape, Traffic

\* What is led elsewhere stays as it is.
LEMMA LedElsewhere ==
    ASSUME NEW i \in Replica, Alone(i), NEW b \in Nat, Owner(b) # i
    PROVE  /\ (Led(b)' <=> Led(b)) /\ (Begun(b)' <=> Begun(b))
           /\ executed'[Owner(b)] = executed[Owner(b)]
<1>1. Owner(b) \in Replica BY OwnerType
<1> QED BY <1>1 DEF Alone, Same, Led, Begun

\* A replica that goes over to a later ballot of someone else, or stays.
LEMMA Yields ==
    ASSUME TypeOK, TypeOK', Shape, NEW i \in Replica, Alone(i),
           ballot[i] <= ballot'[i], ballot'[i] # ballot[i] => Owner(ballot'[i]) # i,
           leader'[i] = Owner(ballot'[i]), active'[i] => Led(ballot[i])',
           preparing'[i] <=> preparing[i] /\ ballot'[i] = ballot[i],
           \/ votes'[i] = NoVotes
           \/ votes'[i] = votes[i] /\ ballot'[i] = ballot[i],
           /\ log'[i] = log[i] /\ high'[i] = high[i] /\ executed'[i] = executed[i]
           /\ values'[i] = values[i] /\ witness'[i] = witness[i]
           /\ pages'[i] = pages[i] /\ promises'[i] = promises[i],
           NEW out, Sends(i, out)
    PROVE  Effect(i, out) /\ Prepares(i)
<1>1. Leading(i)' => Leading(i) /\ ballot'[i] = ballot[i] BY DEF Leading
<1>2. Leading(i) /\ ballot'[i] = ballot[i] => Leading(i)' BY DEF Leading
<1>3. Role(i) BY <1>1, <1>2 DEF Role
<1>4. Frozen(i) BY DEF Frozen
<1>5. LogStep(i) BY <1>1, LogKept
<1>6. Counts(i) BY CountsKept
<1>7. Collects(i)
  <2>1. \A p \in pages[i] : p \in Promised BY InPromised
  <2> QED BY <2>1 DEF Collects
<1> QED BY <1>3, <1>4, <1>5, <1>6, <1>7 DEF Effect, Prepares

\* A follower hears from its leader.
LEMMA TurnReady ==
    ASSUME TypeOK, TypeOK', Shape, NEW i \in Replica, NEW j \in Replica, net[j][i] # <<>>,
           NEW m \in Packet, m \in Way(j, i), NEW fetch \in BOOLEAN, ReceiveReady(i, j, m, fetch)
    PROVE  GoodTurn(i)
<1> USE DEF logVars, recordVars, clientVars
<1>0. Alone(i) BY TypeReady
<1>1. PICK b, f : b = m.ballot /\ f = Fetch({j}, m.ballot, executed[i] + 1) OBVIOUS
<1>2. /\ m.kind = "Ready" /\ (b > ballot[i] \/ (b = ballot[i] /\ j = leader[i]))
      /\ ballot' = [ballot EXCEPT ![i] = b] /\ leader' = [leader EXCEPT ![i] = j]
      /\ preparing' = [preparing EXCEPT ![i] = @ /\ ~(b > ballot[i])]
      /\ votes' = IF b > ballot[i] THEN [votes EXCEPT ![i] = NoVotes] ELSE votes
      /\ Exchange(i, j, If(fetch, <<f>>))
      /\ UNCHANGED <<recoveryEnd, logVars, pending, queue, recordVars, pages, promises,
                     alive, sent, clientVars>>
  BY <1>1 DEF ReceiveReady, FromLeader
<1>3. b \in Ballot /\ b \in Nat /\ ballot[i] \in Nat BY <1>1, PacketFields, BallotTypes, BallotNat
<1>4. j # i /\ j = Owner(b) /\ Led(b) BY <1>1, <1>2, Received DEF GoodPacket
<1>5. Led(b)' BY <1>0, <1>3, <1>4, LedElsewhere
<1>6. ballot'[i] = b /\ leader'[i] = j /\ (preparing'[i] <=> preparing[i] /\ b = ballot[i])
  <2>1. ballot'[i] = b /\ leader'[i] = j BY <1>2 DEF TypeOK
  <2>2. preparing'[i] <=> preparing[i] /\ ~(b > ballot[i]) BY <1>2, Zenon DEF TypeOK
  <2>3. ~(b > ballot[i]) <=> b = ballot[i] BY <1>2, <1>3
  <2> QED BY <2>1, <2>2, <2>3
<1>7. Led(ballot[i])' BY <1>5, <1>6 DEF Led
<1>8. f.kind = "Fetch" /\ f.to = {j} /\ f.ballot = b BY <1>1 DEF Fetch
<1>9. f \in Packet
  <2>1. {j} \in SUBSET Replica OBVIOUS
  <2> QED BY <1>1, <1>3, <2>1, FloorType, PacketTypes
<1>10. GoodPacket(i, f)' BY <1>5, <1>8 DEF GoodPacket
<1>11. PICK out : out = If(fetch, <<f>>) OBVIOUS
<1>12. out \in Seq(Packet) /\ \A x \in Range(out) : x = f BY <1>9, <1>11, OneIn, IfIn
<1>13. Carries(i, out) BY <1>2, <1>11, <1>12, ExchangeCarries
<1>14. Sends(i, out) BY <1>4, <1>8, <1>10, <1>12 DEF Sends
<1>15. Recalls(i) BY <1>2, Quiet
<1>16. \/ votes'[i] = NoVotes
       \/ votes'[i] = votes[i] /\ ballot'[i] = ballot[i]
  BY <1>2, <1>3, <1>6 DEF TypeOK
<1>17. ballot[i] <= ballot'[i] BY <1>2, <1>3, <1>6
<1>18. Effect(i, out) /\ Prepares(i)
  BY <1>0, <1>2, <1>4, <1>6, <1>7, <1>14, <1>16, <1>17, Yields
<1> QED BY <1>0, <1>12, <1>13, <1>15, <1>18 DEF GoodTurn

\* A promise is a snapshot for the replica that asked for it.
LEMMA TurnPrepare ==
    ASSUME TypeOK, TypeOK', Shape, NEW i \in Replica, NEW j \in Replica, net[j][i] # <<>>,
           NEW m \in Packet, m \in Way(j, i), ReceivePrepare(i, j, m)
    PROVE  GoodTurn(i)
<1> USE DEF logVars, recordVars, reqVars, clientVars
<1>0. Alone(i) BY TypePrepare
<1>1. PICK b, f, out : b = m.ballot /\ f = m.floor /\ out = Snapshot(i, j, b, f) OBVIOUS
<1>2. /\ m.kind = "Prepare" /\ b >= ballot[i]
      /\ ballot' = [ballot EXCEPT ![i] = b]
      /\ leader' = IF b > ballot[i] THEN [leader EXCEPT ![i] = j] ELSE leader
      /\ preparing' = [preparing EXCEPT ![i] = @ /\ ~(b > ballot[i])]
      /\ votes' = IF b > ballot[i] THEN [votes EXCEPT ![i] = NoVotes] ELSE votes
      /\ active' = [active EXCEPT ![i] = FALSE]
      /\ Exchange(i, j, out)
      /\ UNCHANGED <<recoveryEnd, logVars, reqVars, recordVars, pages, promises, alive, sent,
                     clientVars>>
  BY <1>1 DEF ReceivePrepare
<1>3. /\ b \in Ballot /\ b \in Nat /\ ballot[i] \in Nat /\ f \in 0..(MaxSlot + 1)
  BY <1>1, <1>2, PacketFields, BallotTypes, BallotNat
<1>4. /\ j # i /\ j = Owner(b) /\ Begun(b)
      /\ ~Led(b) => f = executed[Owner(b)] + 1
  BY <1>1, <1>2, Received DEF GoodPacket
<1>5. /\ Led(b)' <=> Led(b)
      /\ Begun(b)' /\ executed'[Owner(b)] = executed[Owner(b)]
  BY <1>0, <1>3, <1>4, LedElsewhere
<1>6. ballot'[i] = b /\ (preparing'[i] <=> preparing[i] /\ b = ballot[i]) /\ ~active'[i]
  <2>1. ballot'[i] = b /\ ~active'[i] BY <1>2 DEF TypeOK
  <2>2. preparing'[i] <=> preparing[i] /\ ~(b > ballot[i]) BY <1>2, Zenon DEF TypeOK
  <2>3. ~(b > ballot[i]) <=> b = ballot[i] BY <1>2, <1>3
  <2> QED BY <2>1, <2>2, <2>3
<1>7. leader'[i] = Owner(b)
  <2>1. CASE b > ballot[i] BY <1>2, <1>4, <2>1 DEF TypeOK
  <2>2. CASE ~(b > ballot[i])
    <3>1. leader' = leader /\ b = ballot[i] BY <1>2, <1>3, <2>2
    <3> QED BY <3>1 DEF Shape, Leads
  <2> QED BY <2>1, <2>2
<1>8. Offer(i, f)
  <2>1. Begun(ballot[i])' BY <1>5, <1>6 DEF Begun
  <2>2. ~Led(ballot[i])' => f = executed'[Owner(ballot'[i])] + 1 BY <1>4, <1>5, <1>6 DEF Led
  <2> QED BY <1>2, <2>1, <2>2 DEF Offer
<1>9. out \in Seq(Promise) BY <1>1, <1>3, SnapshotType
<1>10. out \in Seq(Packet) /\ \A x \in Range(out) : x.kind = "Promise"
  <2>1. \A x \in Promise : x \in Packet /\ x.kind = "Promise" BY DEF Packet, Promise
  <2>2. \A x \in Range(out) : x \in Promise BY <1>9, RangeType
  <2>3. out \in Seq(Packet) BY <1>9, <2>1
  <2> QED BY <2>1, <2>2, <2>3
<1>11. ASSUME NEW x \in Range(out) PROVE i \notin x.to /\ Offered(i, Page(i, x))
  <2>1. PICK k \in DOMAIN out : x = out[k] BY DEF Range
  <2>2. x.to = {j} BY <1>1, <2>1 DEF Snapshot
  <2>3. Page(i, x) \in Report(i, b, f) BY <1>1, <1>4, <2>1 DEF Report, From, Page
  <2>4. Page(i, x) \in Report(i, ballot'[i], f) BY <1>6, <2>3
  <2> QED BY <1>3, <1>4, <1>8, <2>2, <2>4 DEF Offered
<1>12. Sends(i, out) BY <1>10, <1>11 DEF Sends
<1>13. Carries(i, out) BY <1>2, <1>10, ExchangeCarries
<1>14. Recalls(i) BY <1>2, Quiet
<1>15. \/ votes'[i] = NoVotes
       \/ votes'[i] = votes[i] /\ ballot'[i] = ballot[i]
  BY <1>2, <1>3, <1>6 DEF TypeOK
<1>16. ballot[i] <= ballot'[i] BY <1>2, <1>3, <1>6
<1>17. Effect(i, out) /\ Prepares(i)
  BY <1>0, <1>2, <1>4, <1>6, <1>7, <1>12, <1>15, <1>16, Yields
<1> QED BY <1>0, <1>10, <1>13, <1>14, <1>17 DEF GoodTurn

\* A leader repeats records of its log: in its own ballot, or decided ones.
LEMMA StampedRestated ==
    ASSUME TypeOK, TypeOK', Shape, NEW i \in Replica, Leading(i), ballot'[i] = ballot[i],
           NEW R \in SUBSET log[i], NEW x \in Stamp(R, ballot[i])
    PROVE  NewHere(i, x) /\ x.ballot = ballot[i] /\ (x.committed => \E y \in R : y.committed)
<1>1. ballot[i] \in Ballot /\ log[i] \in Batch BY DEF TypeOK
<1>2. R \in Batch BY <1>1, SubBatch
<1>3. PICK y \in R : /\ x.slot = y.slot /\ x.req = y.req /\ x.ballot = ballot[i]
                     /\ x.committed = y.committed
  BY <1>1, <1>2, StampIs
<1>4. y \in log[i] /\ (y.ballot = ballot[i] \/ y.committed) BY DEF Shape, LogShape, GoodLog
<1>5. Stays(i, x.ballot) BY <1>3 DEF Stays
<1>6. Restated(x) BY <1>3, <1>4, <1>5 DEF Restated
<1> QED BY <1>3, <1>6 DEF NewHere, Made

\* A leader answers a fetch.
LEMMA TurnFetch ==
    ASSUME TypeOK, TypeOK', Shape, NEW i \in Replica, NEW j \in Replica, net[j][i] # <<>>,
           NEW m \in Packet, m \in Way(j, i), ReceiveFetch(i, j, m)
    PROVE  GoodTurn(i)
<1> USE DEF roleVars, logVars, reqVars, recordVars, quorumVars, clientVars
<1>0. Alone(i) BY TypeFetch
<1>1. PICK b, out : b = ballot[i] /\ out = Answer(j, b, Chunks(log[i], m.floor, high[i])) OBVIOUS
<1>2. /\ m.kind = "Fetch" /\ m.ballot = b /\ leader[i] = i
      /\ Exchange(i, j, out)
      /\ UNCHANGED <<roleVars, logVars, reqVars, recordVars, quorumVars, alive, sent, clientVars>>
  BY <1>1 DEF ReceiveFetch
<1>3. /\ m.floor \in Int /\ high[i] \in Int /\ b \in Ballot /\ b \in Nat /\ log[i] \in Batch
  <2>1. m.floor \in 0..(MaxSlot + 1) BY <1>2, PacketFields
  <2>2. MaxSlot \in Nat BY BoundAssumption
  <2>3. high[i] \in -1..MaxSlot /\ ballot[i] \in Ballot /\ log[i] \in Batch BY DEF TypeOK
  <2> QED BY <1>1, <2>1, <2>2, <2>3, BallotNat
<1>4. j # i /\ Led(b) BY <1>2, Received DEF GoodPacket
<1>5. Owner(b) = i BY <1>1, <1>2 DEF Shape, Leads
<1>6. Leading(i) BY <1>1, <1>3, <1>4, <1>5 DEF Led, Leading
<1>7. /\ out \in Seq(Packet)
      /\ \A x \in Range(out) : \E R \in SUBSET log[i] : AnswerOf(x, j, b, R)
  BY <1>1, <1>3, AnswerType
<1>8. ballot'[i] = b /\ Led(b)' BY <1>1, <1>2, <1>4 DEF Led
<1>9. ASSUME NEW x \in Range(out)
      PROVE  /\ i \notin x.to /\ x.kind \in {"Accept", "Commit"} /\ GoodPacket(i, x)'
             /\ \A y \in x.recs : NewHere(i, y)
  <2>1. PICK R \in SUBSET log[i] : AnswerOf(x, j, b, R) BY <1>7
  <2>2. PICK D \in SUBSET R :
           \/ /\ x.kind = "Accept" /\ x.to \in SUBSET {j} /\ x.ballot = b /\ x.recs = Stamp(D, b)
           \/ /\ x.kind = "Commit" /\ x.to \in SUBSET {j} /\ x.ballot = b /\ x.recs = Stamp(D, b)
              /\ \A r \in D : r.committed
    <3>1. CASE x = Accept(Unless(R, {j}), b, Stamp(R, b))
      BY <3>1 DEF Accept, Unless
    <3>2. ASSUME NEW D \in SUBSET R, \A r \in D : r.committed,
                 x = Commit(Unless(D, {j}), b, Stamp(D, b))
          PROVE  /\ x.kind = "Commit" /\ x.to \in SUBSET {j} /\ x.ballot = b
                 /\ x.recs = Stamp(D, b)
      BY <3>2 DEF Commit, Unless
    <3> QED BY <2>1, <3>1, <3>2 DEF AnswerOf
  <2>3. D \in Batch BY <1>3, SubBatch
  <2>4. \A y \in Stamp(D, b) : NewHere(i, y) /\ y.ballot = b BY <1>1, <1>6, <1>8, StampedRestated
  <2>5. (\A r \in D : r.committed) => \A y \in Stamp(D, b) : y.committed
    BY <1>3, <2>3, StampIs
  <2>6. GoodPacket(i, x)' BY <1>5, <1>8, <2>2, <2>4, <2>5 DEF GoodPacket
  <2> QED BY <1>4, <2>2, <2>4, <2>6
<1>10. Sends(i, out) BY <1>9 DEF Sends
<1>11. Carries(i, out) BY <1>2, <1>7, ExchangeCarries
<1>12. Recalls(i) BY <1>2, Quiet
<1>13. Effect(i, out) /\ Prepares(i) BY <1>0, <1>2, <1>10, StandsStill
<1> QED BY <1>0, <1>7, <1>11, <1>12, <1>13 DEF GoodTurn

-----------------------------------------------------------------------------
(***************************************************************************)
(* The pages a new leader collects.                                        *)
(***************************************************************************)
\* A page that arrives adds to those collected; a promise that is complete with
\* it is all there is of that promise.
LEMMA Gathers ==
    ASSUME TypeOK, Shape, NEW i \in Replica, NEW j \in Replica, NEW m \in Packet, m \in Way(j, i),
           PromiseExpected(i, m)
    PROVE  /\ Owner(ballot[i]) = i /\ ballot[i] \in Ballot /\ ~Led(ballot[i]) /\ i \in promises[i]
           /\ pages[i] \subseteq PagesWith(i, j, m)
           /\ \A p \in PagesWith(i, j, m) : p \in Promised /\ p.pkt.ballot = ballot[i]
           /\ \A q \in promises[i] :
                 Whole(q, ballot[i]) /\ Pages(q, ballot[i]) \subseteq PagesWith(i, j, m)
           /\ Completes(i, j, m) =>
                 Whole(j, ballot[i]) /\ Pages(j, ballot[i]) \subseteq PagesWith(i, j, m)
<1> DEFINE b == ballot[i]
           x == [from |-> j, pkt |-> m]
           C == PagesWith(i, j, m)
<1>1. /\ m.kind = "Promise" /\ m.ballot = b /\ preparing[i] /\ leader[i] = i
      /\ b \in Ballot /\ b \in Nat
  BY BallotNat DEF PromiseExpected, TypeOK
<1>2. /\ Owner(b) = i /\ i \in promises[i] /\ \A p \in pages[i] : p.pkt.ballot = b
      /\ \A q \in promises[i] : Whole(q, b) /\ Pages(q, b) \subseteq pages[i]
  BY <1>1 DEF Shape, Preparation, Prepared, Gathered
<1>3. ~Led(b) BY <1>1, <1>2 DEF Led
<1>4. OneSnapshotOf(j, b) BY <1>1, <1>3 DEF Shape, OneSnapshot
<1>5. x \in Promised BY <1>1, InPromised DEF Page
<1>6. x \in Pages(j, b) BY <1>1, <1>5 DEF Pages
<1>7. \A p \in pages[i] : p \in Promised BY InPromised
<1>8. pages[i] \subseteq C
  <2> SUFFICES ASSUME NEW p \in pages[i], p.from = j, p.pkt.page = m.page PROVE p = x
    BY DEF PagesWith
  <2>1. p \in Pages(j, b) BY <1>2, <1>7 DEF Pages
  <2> QED BY <1>4, <1>6, <2>1 DEF OneSnapshotOf
<1>9. \A p \in C : p \in Promised /\ p.pkt.ballot = b BY <1>1, <1>2, <1>5, <1>7 DEF PagesWith
<1>10. ASSUME Completes(i, j, m) PROVE Whole(j, b) /\ Pages(j, b) \subseteq C
  <2> DEFINE S == {q \in C : q.from = j}
             P == {p.pkt : p \in S}
             A == Pages(j, b)
  <2>1. Cardinality(P) = m.pages BY <1>10 DEF Completes
  <2>2. S \in SUBSET A BY <1>9 DEF Pages
  <2>3. IsFiniteSet(A) /\ Cardinality(A) <= m.pages /\ \A p \in A : p.pkt.pages = m.pages
    BY <1>4, <1>6 DEF OneSnapshotOf
  <2>4. IsFiniteSet(S) /\ Cardinality(S) <= Cardinality(A) /\ (Cardinality(S) = Cardinality(A) => S = A)
    BY <2>2, <2>3, FS_Subset
  <2>5. Cardinality(P) = Cardinality(S)
    <3> DEFINE f == [q \in S |-> q.pkt]
    <3>1. f \in [S -> P] /\ \A p \in P : \E q \in S : f[q] = p OBVIOUS
    <3>2. \A q \in S : q \in [from : Replica, pkt : Promise] /\ q.from = j
      BY <2>2, PromisedType DEF Pages
    <3>3. \A q, r \in S : f[q] = f[r] => q = r BY <3>2
    <3> HIDE DEF f, S, P
    <3> QED BY <2>4, <3>1, <3>3, FiniteBijection
  <2>6. Cardinality(S) \in Nat /\ Cardinality(A) \in Nat BY <2>3, <2>4, CardNat
  <2> HIDE DEF S, P, A
  <2>7. Cardinality(A) = Cardinality(S) /\ S = A BY <2>1, <2>3, <2>4, <2>5, <2>6
  <2>8. A # {} /\ \A p \in A : Cardinality(A) = p.pkt.pages
    BY <1>6, <2>1, <2>3, <2>5, <2>7 DEF A
  <2>9. Whole(j, b) BY <1>3, <2>8 DEF Whole, A
  <2>10. S \subseteq C BY DEF S
  <2> QED BY <2>7, <2>9, <2>10 DEF A
<1>11. \A q \in promises[i] : Whole(q, b) /\ Pages(q, b) \subseteq C BY <1>2, <1>8
<1> QED BY <1>1, <1>2, <1>3, <1>8, <1>9, <1>10, <1>11

\* A candidate collects a page that elects nobody.
LEMMA TurnCollect ==
    ASSUME TypeOK, TypeOK', Shape, NEW i \in Replica, NEW j \in Replica, net[j][i] # <<>>,
           NEW m \in Packet, m \in Way(j, i), CollectPromise(i, j, m)
    PROVE  GoodTurn(i)
<1> USE DEF roleVars, logVars, reqVars, recordVars, clientVars
<1>0. Alone(i) BY TypeCollect
<1>1. PICK b, C : b = ballot[i] /\ C = PagesWith(i, j, m) OBVIOUS
<1>2. /\ PromiseExpected(i, m)
      /\ pages' = [pages EXCEPT ![i] = C]
      /\ promises' = IF Completes(i, j, m)
                     THEN [promises EXCEPT ![i] = @ \cup {j}] ELSE promises
      /\ Exchange(i, j, <<>>)
      /\ UNCHANGED <<roleVars, logVars, reqVars, recordVars, votes, alive, sent, clientVars>>
  BY <1>1 DEF CollectPromise
<1>3. /\ Owner(b) = i /\ b \in Ballot /\ ~Led(b) /\ i \in promises[i]
      /\ \A p \in C : p \in Promised /\ p.pkt.ballot = b
      /\ \A q \in promises[i] : Whole(q, b) /\ Pages(q, b) \subseteq C
      /\ Completes(i, j, m) => Whole(j, b) /\ Pages(j, b) \subseteq C
  BY <1>1, <1>2, Gathers
<1>4. /\ pages'[i] = C /\ ballot'[i] = b
      /\ \A q \in promises'[i] : q \in promises[i] \/ (q = j /\ Completes(i, j, m))
      /\ i \in promises'[i]
  BY <1>1, <1>2, <1>3 DEF TypeOK
<1>5. \A q \in promises'[i] : q \in Replica /\ Whole(q, b) /\ Pages(q, b) \subseteq C
  BY <1>3, <1>4 DEF TypeOK
<1>6. Carries(i, <<>>) BY <1>2, NoneSent, ExchangeCarries
<1>7. Recalls(i) BY <1>2, Quiet
<1>8. Sends(i, <<>>) BY SilentSends
<1>9. Effect(i, <<>>)
  <2>1. Role(i) /\ Leading(i)' = Leading(i) BY <1>0, <1>2, RoleKept
  <2>2. Frozen(i) BY <1>2 DEF Frozen
  <2>3. ballot[i] <= ballot'[i] BY <2>1 DEF Role
  <2>4. LogStep(i) BY <1>2, <2>1, <2>3, LogKept
  <2>5. Counts(i) BY <1>2, CountsKept
  <2>6. Collects(i) BY <1>3, <1>4 DEF Collects
  <2> QED BY <1>8, <2>1, <2>2, <2>4, <2>5, <2>6 DEF Effect
<1>10. Prepares(i)
  <2>1. ~Led(ballot[i])'
    <3>1. \A q \in Replica : ballot'[q] = ballot[q] /\ preparing'[q] = preparing[q] BY <1>2
    <3>2. ~Led(b)' BY <1>3, <3>1, BallotNat, LedSame
    <3> QED BY <1>4, <3>2 DEF Led
  <2>2. ASSUME NEW q \in promises'[i] PROVE Gathered(i, q)'
    <3>1. q \in Replica /\ Whole(q, ballot[i]) /\ Pages(q, ballot[i]) \subseteq pages'[i]
      BY <1>1, <1>4, <1>5, <2>2
    <3>2. ballot'[i] = ballot[i] BY <1>1, <1>4
    <3> QED BY <1>0, <1>6, <1>9, <2>1, <3>1, <3>2, NoneSent, GatheredStays
  <2>3. \A p \in pages'[i] : p.pkt.ballot = ballot'[i] BY <1>3, <1>4
  <2>4. Owner(ballot'[i]) = i BY <1>3, <1>4
  <2>5. i \in promises'[i] BY <1>4
  <2>6. Prepared(i)' BY <2>2, <2>3, <2>4, <2>5 DEF Prepared
  <2> QED BY <2>6 DEF Prepares
<1> QED BY <1>0, <1>6, <1>7, <1>9, <1>10, NoneSent DEF GoodTurn

-----------------------------------------------------------------------------
(***************************************************************************)
(* What a leader sends: proposals, its own votes, and what it has decided. *)
(***************************************************************************)
\* The slot and the request of y may be proposed by i; y may be announced decided.
Proposable(i, y) ==
    /\ FreshVote(i, ballot[i], y.slot)
    /\ \A x \in Record : /\ x.slot = y.slot /\ x.req = y.req
                         /\ x.ballot = ballot[i] /\ ~x.committed
                         => x \in Known \/ NewHere(i, x)
Decidable(i, y) ==
    /\ y.ballot = ballot[i]
    /\ \A x \in Record : /\ x.slot = y.slot /\ x.req = y.req
                         /\ x.ballot = ballot[i] /\ x.committed
                         => x \in Known \/ NewHere(i, x)

\* A leader may send its records as proposals,
LEMMA ProposalSends ==
    ASSUME TypeOK, TypeOK', NEW i \in Replica, NEW L \in Batch, NEW C \in Seq(SUBSET L),
           NEW won \in Batch, Owner(ballot[i]) = i, ballot'[i] = ballot[i], Led(ballot[i])',
           \A R \in Range(C) : \A y \in R : Proposable(i, y),
           \A y \in won : Decidable(i, y)
    PROVE  Sends(i, Proposed(i, C, won))
<1>1. PICK b : b = ballot[i] OBVIOUS
<1>2. b \in Ballot /\ ballot'[i] = b /\ Owner(b) = i BY <1>1 DEF TypeOK
<1>3. Led(b)' BY <1>1, <1>2 DEF Led
<1>4. ASSUME NEW m \in Range(Proposed(i, C, won))
      PROVE  /\ i \notin m.to
             /\ m.kind # "Promise" /\ GoodPacket(i, m)'
             /\ m.kind = "Ack" => \A s \in m.slots : FreshVote(i, m.ballot, s)
             /\ m.kind \in {"Accept", "Commit"} => \A x \in m.recs : x \in Known \/ NewHere(i, x)
  <2>1. PICK R \in SUBSET L : R \in Range(C) /\ ProposalOf(m, i, R, won) BY ProposedType
  <2>2. R \in Batch BY SubBatch
  <2>3. \A D : i \notin Unless(D, Peers(i)) BY PeersIn DEF Unless
  <2>4. CASE m = Accept(Unless(R, Peers(i)), b, Stamp(Undecided(R), b))
    <3>1. m.kind = "Accept" /\ m.ballot = b /\ i \notin m.to /\ m.recs = Stamp(Undecided(R), b)
      BY <2>3, <2>4 DEF Accept
    <3>2. Undecided(R) \in Batch BY <2>2, UndecidedIs
    <3>3. Stamp(Undecided(R), b) \in Batch BY <1>2, <3>2, StampIs
    <3>4. ASSUME NEW x \in m.recs
          PROVE  x.ballot = b /\ (x \in Known \/ NewHere(i, x))
      <4>1. PICK y \in Undecided(R) : /\ x.slot = y.slot /\ x.req = y.req /\ x.ballot = b
                                      /\ x.committed = y.committed
        BY <1>2, <3>1, <3>2, StampIs
      <4>2. PICK z \in R : y.slot = z.slot /\ y.req = z.req /\ ~y.committed BY <2>2, UndecidedIs
      <4>3. x \in Record BY <3>1, <3>3 DEF Batch
      <4>4. Proposable(i, z) BY <2>1
      <4> QED BY <1>1, <4>1, <4>2, <4>3, <4>4 DEF Proposable
    <3>5. GoodPacket(i, m)' BY <1>2, <1>3, <3>1, <3>4 DEF GoodPacket
    <3> QED BY <3>1, <3>4, <3>5
  <2>5. CASE m = Ack(Unless(R, Peers(i)), b, Slots(R))
    <3>1. m.kind = "Ack" /\ m.ballot = b /\ i \notin m.to /\ m.slots = Slots(R)
      BY <2>3, <2>5 DEF Ack
    <3>2. \A s \in Slots(R) : FreshVote(i, b, s) BY <1>1, <2>1 DEF Slots, Proposable
    <3>3. GoodPacket(i, m)' BY <1>3, <3>1 DEF GoodPacket
    <3> QED BY <3>1, <3>2, <3>3
  <2>6. ASSUME NEW K \in SUBSET won, m = Commit(Unless(K, Peers(i)), b, Decide(K, K))
        PROVE  /\ i \notin m.to
               /\ m.kind = "Commit" /\ GoodPacket(i, m)'
               /\ \A x \in m.recs : x \in Known \/ NewHere(i, x)
    <3>1. m.kind = "Commit" /\ m.ballot = b /\ i \notin m.to /\ m.recs = Decide(K, K)
      BY <2>3, <2>6 DEF Commit
    <3>2. K \in Batch BY SubBatch
    <3>3. Decide(K, K) \in Batch BY <3>2, DecideAll
    <3>4. ASSUME NEW x \in m.recs
          PROVE  x.ballot = b /\ x.committed /\ (x \in Known \/ NewHere(i, x))
      <4>1. PICK y \in K : /\ x.slot = y.slot /\ x.req = y.req /\ x.ballot = y.ballot
                           /\ x.committed
        BY <3>1, <3>2, DecideAll
      <4>2. x \in Record BY <3>1, <3>3 DEF Batch
      <4>3. Decidable(i, y) OBVIOUS
      <4> QED BY <1>1, <4>1, <4>2, <4>3 DEF Decidable
    <3>5. GoodPacket(i, m)' BY <1>2, <1>3, <3>1, <3>4 DEF GoodPacket
    <3> QED BY <3>1, <3>4, <3>5
  <2> QED BY <1>1, <2>1, <2>4, <2>5, <2>6 DEF ProposalOf
<1> QED BY <1>4 DEF Sends

\* and tell that it is there.
LEMMA ReadySends ==
    ASSUME TypeOK, NEW i \in Replica, NEW on \in BOOLEAN, Owner(ballot[i]) = i,
           ballot'[i] = ballot[i], Led(ballot[i])'
    PROVE  ReadyAll(i, on) \in Seq(Packet) /\ Sends(i, ReadyAll(i, on))
<1>1. PICK b, p : b = ballot[i] /\ p = Ready(Peers(i), ballot[i], executed[i], on) OBVIOUS
<1>2. p.kind = "Ready" /\ p.to = Peers(i) /\ p.ballot = b BY <1>1 DEF Ready
<1>3. Led(b)' /\ Owner(b) = i BY <1>1 DEF Led
<1>4. GoodPacket(i, p)' BY <1>2, <1>3 DEF GoodPacket
<1>5. \A x \in Range(ReadyAll(i, on)) : x = p BY <1>1 DEF ReadyAll, Range
<1> QED BY <1>2, <1>4, <1>5, PeersIn, ReadyType DEF Sends

\* What may be sent in two parts,
LEMMA SendsBoth ==
    ASSUME NEW i, NEW s \in Seq(Packet), NEW t \in Seq(Packet), Sends(i, s), Sends(i, t)
    PROVE  s \o t \in Seq(Packet) /\ Sends(i, s \o t)
<1>1. s \o t \in Seq(Packet) /\ \A y \in Range(s \o t) : y \in Range(s) \/ y \in Range(t)
  BY RangeOfConcat
<1> QED BY <1>1 DEF Sends

\* or not at all.
LEMMA SendsIf ==
    ASSUME NEW i, NEW c, NEW s, c => s \in Seq(Packet) /\ Sends(i, s)
    PROVE  If(c, s) \in Seq(Packet) /\ Sends(i, If(c, s))
<1>1. CASE c BY <1>1 DEF If
<1>2. CASE ~c
  <2>1. If(c, s) = <<>> BY <1>2 DEF If
  <2> QED BY <2>1, NoneSent, SilentSends
<1> QED BY <1>1, <1>2

-----------------------------------------------------------------------------
(***************************************************************************)
(* What a new leader learns from a majority of complete promises.          *)
(***************************************************************************)
\* P are the pages of the promises of the quorum Q for the ballot of i.
Collected(i, Q, P) ==
    /\ Q \in Quorum /\ i \in Q
    /\ Owner(ballot[i]) = i /\ ballot[i] \in Ballot /\ ~Led(ballot[i])
    /\ \A q \in Q : /\ q \in Replica /\ ballot[q] >= ballot[i]
                    /\ Whole(q, ballot[i]) /\ Pages(q, ballot[i]) \subseteq P
                    /\ \A p \in Pages(q, ballot[i]) : p.pkt.floor = executed[i] + 1 /\ p.from = q
    /\ \A p \in P : p \in Promised /\ p.pkt.ballot = ballot[i]
\* h is the last slot they report, and sel what is selected from them.
Chooses(i, P, h, sel) ==
    /\ Picks(i, h, sel)
    /\ \A p \in P : p.pkt.high <= h
    /\ \A s \in (executed[i] + 1)..h : Selects(RecsOf(P), s, sel[s])

\* The promises that elect a leader are those of a majority.
LEMMA ElectionCollects ==
    ASSUME TypeOK, Shape, NEW i \in Replica, NEW j \in Replica, NEW m \in Packet, m \in Way(j, i),
           PromiseExpected(i, m), Elects(i, j, m)
    PROVE  Collected(i, promises[i] \cup {j}, Reps(i, j, m))
<1> DEFINE Q == promises[i] \cup {j}
           P == Reps(i, j, m)
<1>1. PICK b : b = ballot[i] OBVIOUS
<1>2. /\ Owner(b) = i /\ b \in Ballot /\ ~Led(b) /\ i \in promises[i]
      /\ \A p \in PagesWith(i, j, m) : p \in Promised /\ p.pkt.ballot = b
      /\ \A q \in promises[i] : Whole(q, b) /\ Pages(q, b) \subseteq PagesWith(i, j, m)
      /\ Whole(j, b) /\ Pages(j, b) \subseteq PagesWith(i, j, m)
  BY <1>1, Gathers DEF Elects
<1>3. Q \in Quorum
  <2>1. Q \in SUBSET Replica BY DEF TypeOK
  <2> QED BY <2>1 DEF Quorum, Elects
<1>4. ASSUME NEW q \in Q
      PROVE  /\ q \in Replica /\ ballot[q] >= b /\ Whole(q, b) /\ Pages(q, b) \subseteq P
             /\ \A p \in Pages(q, b) : p.pkt.floor = executed[i] + 1 /\ p.from = q
  <2>1. q \in Replica BY DEF TypeOK
  <2>2. Whole(q, b) /\ Pages(q, b) \subseteq PagesWith(i, j, m) BY <1>2
  <2>3. \A p \in Pages(q, b) : /\ p.from = q /\ b <= ballot[q]
                               /\ p.pkt.floor = executed[i] + 1
    BY <1>2, <2>1, PageFields
  <2>4. Pages(q, b) # {} BY <2>2 DEF Whole
  <2>5. ballot[q] >= b
    <3>1. b <= ballot[q] BY <2>3, <2>4
    <3>2. b \in Nat /\ ballot[q] \in Nat BY <1>2, <2>1, BallotNat DEF TypeOK
    <3> QED BY <3>1, <3>2
  <2>6. Pages(q, b) \subseteq P BY <2>2, <2>3 DEF Reps
  <2> QED BY <2>1, <2>2, <2>3, <2>5, <2>6
<1>5. \A p \in P : p \in Promised /\ p.pkt.ballot = b BY <1>2 DEF Reps
<1> QED BY <1>1, <1>2, <1>3, <1>4, <1>5 DEF Collected

\* The records that are reported are of earlier ballots, and of slots up to h.
LEMMA ReportedIs ==
    ASSUME TypeOK, Shape, Safety, NEW i \in Replica, NEW Q, NEW P, Collected(i, Q, P),
           NEW h, NEW sel, Chooses(i, P, h, sel), NEW p \in P, NEW y \in p.pkt.recs
    PROVE  /\ y \in Record /\ y \in Known /\ y \in RecsOf(P)
           /\ y.slot <= h /\ y.ballot < ballot[i] /\ y.ballot \in Ballot /\ y.slot \in Slot
<1>1. p \in Promised /\ p.pkt.ballot = ballot[i] /\ p.pkt.high <= h
  BY DEF Collected, Chooses
<1>2. y \in Known BY <1>1, InKnown
<1>3. y \in Record BY <1>2, KnownType
<1>4. y.slot <= p.pkt.high /\ y.ballot <= ballot[i]
  BY <1>1 DEF Shape, PromiseShape, GoodPromise
<1>5. Led(y.ballot) BY <1>2 DEF Safety, Owned
<1>6. y.ballot # ballot[i] BY <1>5 DEF Collected
<1>7. /\ y.ballot \in Ballot /\ y.ballot \in Nat /\ ballot[i] \in Nat /\ y.slot \in Slot
      /\ y.slot \in Int
  BY <1>3, BallotNat DEF Record, Collected, Slot
<1>8. p.pkt.high \in Int /\ h \in Int
  <2>1. p.pkt.high \in -1..MaxSlot BY <1>1, PromisedType DEF Promise
  <2> QED BY <2>1 DEF Chooses, Picks
<1>9. y.slot <= h BY <1>1, <1>4, <1>7, <1>8
<1>10. y.ballot < ballot[i] BY <1>4, <1>6, <1>7
<1> QED BY <1>2, <1>3, <1>7, <1>9, <1>10 DEF RecsOf

\* Of the reported records of a slot, one of the highest ballot is selected.
LEMMA SelectedIs ==
    ASSUME TypeOK, Shape, Safety, NEW i \in Replica, NEW Q, NEW P, Collected(i, Q, P),
           NEW h, NEW sel, Chooses(i, P, h, sel), NEW p \in P, NEW y \in p.pkt.recs,
           y.slot > executed[i]
    PROVE  /\ y.slot \in (executed[i] + 1)..h
           /\ \E r \in Known : /\ r.slot = y.slot /\ r.req = sel[y.slot]
                               /\ r.ballot \in Ballot /\ y.ballot \in Ballot
                               /\ y.ballot <= r.ballot /\ r.ballot < ballot[i]
<1>1. y \in RecsOf(P) /\ y.slot <= h /\ y.slot \in Slot /\ y.ballot \in Ballot BY ReportedIs
<1>2. y.slot \in Int /\ executed[i] \in Int /\ h \in Int BY <1>1 DEF Slot, TypeOK, Chooses, Picks
<1>3. y.slot \in (executed[i] + 1)..h BY <1>1, <1>2
<1>4. Selects(RecsOf(P), y.slot, sel[y.slot]) BY <1>3 DEF Chooses
<1>5. PICK r \in RecsOf(P) : r.slot = y.slot /\ r.req = sel[y.slot] /\ y.ballot <= r.ballot
  BY <1>1, <1>4 DEF Selects
<1>6. r \in Known /\ r.ballot \in Ballot /\ r.ballot < ballot[i]
  <2>1. PICK g \in P : r \in g.pkt.recs BY DEF RecsOf
  <2> QED BY <2>1, ReportedIs
<1> QED BY <1>1, <1>3, <1>5, <1>6

\* If a value may have been chosen for s under a, some promise tells of it.
LEMMA ChosenTold ==
    ASSUME TypeOK, Shape, Safety, NEW i \in Replica, NEW Q, NEW P, Collected(i, Q, P),
           NEW a \in Ballot, a < ballot[i], NEW s \in Slot, s > executed[i], CanChoose(a, s)
    PROVE  \E p \in P : \E y \in p.pkt.recs : y.slot = s /\ (y.ballot >= a \/ y.committed)
<1>1. PICK S \in Quorum : \A q \in S : ballot[q] <= a \/ Voted(q, a, s) BY DEF CanChoose
<1>2. PICK q \in Q : q \in S BY QuorumsMeet DEF Collected
<1>3. /\ q \in Replica /\ ballot[q] >= ballot[i] /\ Whole(q, ballot[i])
      /\ Pages(q, ballot[i]) \subseteq P
      /\ \A p \in Pages(q, ballot[i]) : p.pkt.floor = executed[i] + 1
      /\ ballot[i] \in Ballot
  BY <1>2 DEF Collected
<1>4. ballot[q] \in Nat /\ a \in Nat /\ ballot[i] \in Nat BY <1>3, BallotNat DEF TypeOK
<1>5. Voted(q, a, s) BY <1>1, <1>2, <1>3, <1>4
<1>6. Tells(q, ballot[i], s, a)
  <2>1. ballot[i] > a BY <1>4
  <2> QED BY <1>3, <1>5, <2>1 DEF Safety, VoteInv
<1>7. \A p \in Pages(q, ballot[i]) : p.pkt.floor <= s
  <2>1. executed[i] \in Int /\ s \in Int BY DEF TypeOK, Slot
  <2>2. executed[i] + 1 <= s BY <2>1
  <2> QED BY <1>3, <2>2
<1> QED BY <1>3, <1>6, <1>7 DEF Tells

\* What no promise reports cannot be chosen under an older ballot.
LEMMA UnreportedUnchosen ==
    ASSUME TypeOK, Shape, Safety, NEW i \in Replica, NEW Q, NEW P, Collected(i, Q, P),
           NEW h, NEW sel, Chooses(i, P, h, sel),
           NEW a \in Ballot, a < ballot[i], NEW s \in Slot, s > h
    PROVE  ~CanChoose(a, s)
<1> SUFFICES ASSUME CanChoose(a, s) PROVE FALSE OBVIOUS
<1>1. s \in Int /\ h \in Int /\ executed[i] \in Int /\ executed[i] <= h
  BY DEF Slot, Chooses, Picks, TypeOK
<1>2. s > executed[i] BY <1>1
<1>3. PICK p \in P : \E y \in p.pkt.recs : y.slot = s BY <1>2, ChosenTold
<1>4. PICK y \in p.pkt.recs : y.slot = s BY <1>3
<1>5. y.slot <= h BY ReportedIs
<1> QED BY <1>1, <1>4, <1>5

\* What may have been chosen is what is selected.
LEMMA ChosenSelected ==
    ASSUME TypeOK, Shape, Safety, NEW i \in Replica, NEW Q, NEW P, Collected(i, Q, P),
           NEW h, NEW sel, Chooses(i, P, h, sel), NEW z \in Known, z.ballot < ballot[i],
           z.slot > executed[i], CanChoose(z.ballot, z.slot)
    PROVE  z.slot <= h /\ z.req = sel[z.slot]
<1>1. z \in Record BY KnownType
<1>2. z.slot \in Slot /\ z.ballot \in Ballot /\ z.ballot \in Nat BY <1>1, BallotNat DEF Record
<1>3. PICK p \in P : \E y \in p.pkt.recs : y.slot = z.slot /\ (y.ballot >= z.ballot \/ y.committed)
  BY <1>2, ChosenTold
<1>4. PICK y \in p.pkt.recs : y.slot = z.slot /\ (y.ballot >= z.ballot \/ y.committed) BY <1>3
<1>5. y \in Known /\ y.slot <= h /\ y.ballot \in Ballot /\ y.ballot \in Nat
  BY ReportedIs, BallotNat
<1>6. PICK r \in Known : /\ r.slot = y.slot /\ r.req = sel[y.slot]
                         /\ r.ballot \in Ballot /\ y.ballot <= r.ballot
  BY <1>4, SelectedIs
<1>7. r.ballot \in Nat BY <1>6, BallotNat
<1>8. ASSUME r.ballot >= z.ballot PROVE r.req = z.req
  <2>1. CASE r.ballot = z.ballot BY <1>4, <1>6, <2>1 DEF Safety, OneValue
  <2>2. CASE r.ballot # z.ballot
    <3>1. z.ballot < r.ballot BY <1>2, <1>7, <1>8, <2>2
    <3> QED BY <1>4, <1>6, <3>1 DEF Safety, Safe
  <2> QED BY <2>1, <2>2
<1>9. CASE y.ballot >= z.ballot
  <2>1. r.ballot >= z.ballot BY <1>2, <1>5, <1>6, <1>7, <1>9
  <2> QED BY <1>4, <1>5, <1>6, <1>8, <2>1
<1>10. CASE ~(y.ballot >= z.ballot)
  <2>1. y.committed BY <1>4, <1>10
  <2>2. PICK c \in Ballot, S \in Quorum : c <= y.ballot /\ Lock(y.slot, y.req, c, S)
    BY <1>5, <2>1, LockOf
  <2>3. c \in Nat BY BallotNat
  <2>4. \A x \in Known : x.slot = y.slot /\ x.ballot >= c => x.req = y.req BY <2>2 DEF Lock
  <2>5. r.ballot >= c BY <1>5, <1>6, <1>7, <2>2, <2>3
  <2>6. r.req = y.req BY <1>6, <2>4, <2>5
  <2>7. z.ballot >= c BY <1>2, <1>5, <1>10, <2>2, <2>3
  <2>8. z.req = y.req BY <1>4, <2>4, <2>7
  <2> QED BY <1>4, <1>5, <1>6, <2>6, <2>8
<1> QED BY <1>9, <1>10

-----------------------------------------------------------------------------
(***************************************************************************)
(* What it takes over.                                                     *)
(***************************************************************************)
\* L is the log a new leader makes of what it has collected.
MakesLog(i, P, h, sel, L) ==
    /\ Chooses(i, P, h, sel)
    /\ L = NewLog(i, h, sel, Extra(i, P, h, sel))
    /\ h + Cardinality(Extra(i, P, h, sel)) \in -1..MaxSlot

\* Its parts: what is executed, what is selected, what comes behind that.
LEMMA PartsOf ==
    ASSUME TypeOK, Shape, Safety, NEW i \in Replica, NEW Q, NEW P, Collected(i, Q, P),
           NEW h, NEW sel, NEW L, MakesLog(i, P, h, sel, L)
    PROVE  /\ L \in Batch /\ h \in Int /\ executed[i] \in Int /\ executed[i] <= h
           /\ \A y \in log[i] : y.slot <= executed[i] => y \in L /\ y.committed
           /\ \A s \in (executed[i] + 1)..h :
                 \E y \in L : y.slot = s /\ y.req = sel[s] /\ y.ballot = ballot[i]
           /\ \A r \in Extra(i, P, h, sel) : \E y \in L : y.req = r
           /\ \A y \in L : y.slot \in Slot
           /\ \A y \in L : \/ y \in log[i] /\ y.slot <= executed[i]
                           \/ /\ y.slot > executed[i] /\ y.ballot = ballot[i] /\ ~y.committed
                              /\ y.slot > h \/ y.req = sel[y.slot]
<1>1. Picks(i, h, sel) BY DEF MakesLog, Chooses
<1>2. h \in Int /\ executed[i] \in Int /\ executed[i] <= h /\ executed[i] \in -1..MaxSlot
  BY <1>1 DEF Picks, TypeOK
<1> DEFINE E == Extra(i, P, h, sel)
<1>3. L = NewLog(i, h, sel, E) /\ h + Cardinality(E) \in -1..MaxSlot BY DEF MakesLog
<1>4. /\ L \in Batch
      /\ \A s \in (executed[i] + 1)..h : Named(ballot[i], s, sel[s]) \in L
      /\ \A r \in E : \E x \in L : x.req = r
      /\ \A x \in L : \/ x \in log[i] /\ x.slot <= executed[i]
                      \/ /\ x.slot > executed[i] /\ x.slot <= h
                         /\ x = Named(ballot[i], x.slot, sel[x.slot])
                      \/ x.slot > h /\ x = Named(ballot[i], x.slot, x.req)
  BY <1>1, <1>3, NewLogIs
<1>5. Old(i) \subseteq L BY <1>3 DEF NewLog
<1>6. \A y \in L : y.slot \in Slot BY <1>4 DEF Batch, Record
<1>7. ASSUME NEW y \in log[i], y.slot <= executed[i] PROVE y \in L /\ y.committed
  <2>1. y \in Record BY LogType
  <2>2. y.slot \in 0..executed[i] BY <1>2, <1>7, <2>1 DEF Record, Slot
  <2>3. Decided(log[i], y.slot) BY <2>2 DEF Shape, LogShape, GoodLog
  <2>4. y.committed BY <2>3, LogType DEF Decided
  <2>5. y \in Old(i) BY <1>7 DEF Old
  <2> QED BY <1>5, <2>4, <2>5
<1>8. ASSUME NEW s \in (executed[i] + 1)..h
      PROVE  \E y \in L : y.slot = s /\ y.req = sel[s] /\ y.ballot = ballot[i]
  BY <1>4, <1>8 DEF Named
<1>9. ASSUME NEW y \in L
      PROVE  \/ y \in log[i] /\ y.slot <= executed[i]
             \/ /\ y.slot > executed[i] /\ y.ballot = ballot[i] /\ ~y.committed
                /\ y.slot > h \/ y.req = sel[y.slot]
  <2>1. y.slot \in Int BY <1>6 DEF Slot
  <2>2. CASE y.slot <= h /\ y = Named(ballot[i], y.slot, sel[y.slot]) /\ y.slot > executed[i]
    <3>1. /\ y.ballot = ballot[i] /\ y.req = sel[y.slot] /\ ~y.committed BY <2>2 DEF Named
    <3> QED BY <2>2, <3>1
  <2>3. CASE y.slot > h /\ y = Named(ballot[i], y.slot, y.req)
    <3>1. y.ballot = ballot[i] /\ ~y.committed BY <2>3 DEF Named
    <3>2. y.slot > executed[i] BY <1>2, <2>1, <2>3
    <3> QED BY <2>3, <3>1, <3>2
  <2> QED BY <1>4, <2>2, <2>3
<1> QED BY <1>2, <1>4, <1>6, <1>7, <1>8, <1>9

\* A slot that it leaves open cannot have been chosen.
LEMMA OpenUnchosen ==
    ASSUME TypeOK, Shape, Safety, NEW i \in Replica, NEW Q, NEW P, Collected(i, Q, P),
           NEW h, NEW sel, NEW L, MakesLog(i, P, h, sel, L),
           NEW a \in Ballot, a < ballot[i], NEW s \in Slot, \A y \in L : y.slot # s
    PROVE  ~CanChoose(a, s)
<1>1. Chooses(i, P, h, sel) BY DEF MakesLog
<1>2. /\ h \in Int /\ executed[i] \in Int
      /\ \A y \in log[i] : y.slot <= executed[i] => y \in L
      /\ \A t \in (executed[i] + 1)..h : \E y \in L : y.slot = t
  BY PartsOf
<1>3. s \in Int /\ s >= 0 BY DEF Slot
<1>4. ~(s <= executed[i])
  <2> SUFFICES ASSUME s <= executed[i] PROVE FALSE OBVIOUS
  <2>1. s \in 0..executed[i] BY <1>2, <1>3
  <2>2. Decided(log[i], s) BY <2>1 DEF Shape, LogShape, GoodLog
  <2> QED BY <1>2, <2>2 DEF Decided
<1>5. ~(s \in (executed[i] + 1)..h) BY <1>2
<1>6. s > h BY <1>2, <1>3, <1>4, <1>5
<1> QED BY <1>1, <1>6, UnreportedUnchosen

\* A value that a majority has locked is taken over.
LEMMA LockTaken ==
    ASSUME TypeOK, Shape, Safety, NEW i \in Replica, NEW Q, NEW P, Collected(i, Q, P),
           NEW h, NEW sel, NEW L, MakesLog(i, P, h, sel, L),
           NEW a \in Ballot, a < ballot[i], NEW s \in Slot, NEW v, NEW S \in Quorum,
           Lock(s, v, a, S)
    PROVE  \E y \in L : y.slot = s /\ y.req = v
<1>1. Chooses(i, P, h, sel) BY DEF MakesLog
<1>2. /\ h \in Int /\ executed[i] \in Int
      /\ \A y \in log[i] : y.slot <= executed[i] => y \in L
      /\ \A t \in (executed[i] + 1)..h : \E y \in L : y.slot = t /\ y.req = sel[t]
  BY PartsOf
<1>3. s \in Int /\ s >= 0 /\ a \in Nat BY BallotNat DEF Slot
<1>4. CASE s <= executed[i]
  <2>1. s \in 0..executed[i] BY <1>2, <1>3, <1>4
  <2>2. Decided(log[i], s) BY <2>1 DEF Shape, LogShape, GoodLog
  <2>3. PICK y \in log[i] : y.slot = s /\ y.committed BY <2>2 DEF Decided
  <2>4. y \in Known BY InKnown
  <2>5. PICK c \in Ballot, T \in Quorum : Lock(s, y.req, c, T) BY <2>3, <2>4, LockOf
  <2>6. y.req = v BY <2>5, LocksAgree
  <2> QED BY <1>2, <1>4, <2>3, <2>6
<1>5. CASE s > executed[i]
  <2>1. PICK q \in Q : q \in S BY QuorumsMeet DEF Collected
  <2>2. /\ Whole(q, ballot[i]) /\ Pages(q, ballot[i]) \subseteq P
        /\ \A p \in Pages(q, ballot[i]) : p.pkt.floor = executed[i] + 1
        /\ ballot[i] \in Ballot
    BY DEF Collected
  <2>3. Reports(q, ballot[i], s, a)
    <3>1. ballot[i] \in Nat BY <2>2, BallotNat
    <3>2. ballot[i] > a BY <1>3, <3>1
    <3> QED BY <2>1, <2>2, <3>2 DEF Lock
  <2>4. executed[i] + 1 <= s BY <1>2, <1>3, <1>5
  <2>5. PICK p \in P : \E y \in p.pkt.recs : y.slot = s /\ y.ballot >= a
    BY <2>2, <2>3, <2>4 DEF Reports
  <2>6. PICK y \in p.pkt.recs : y.slot = s /\ y.ballot >= a BY <2>5
  <2>7. PICK r \in Known : /\ s \in (executed[i] + 1)..h
                           /\ r.slot = s /\ r.req = sel[s] /\ r.ballot \in Ballot
                           /\ y.ballot \in Ballot /\ y.ballot <= r.ballot
    BY <1>1, <1>5, <2>6, SelectedIs
  <2>8. r.ballot \in Nat /\ y.ballot \in Nat BY <2>7, BallotNat
  <2>9. r.ballot >= a BY <1>3, <2>6, <2>7, <2>8
  <2>10. r.req = v BY <2>7, <2>9 DEF Lock
  <2> QED BY <1>2, <2>7, <2>10
<1> QED BY <1>2, <1>3, <1>4, <1>5

\* A majority and a fast quorum have enough witnesses in common.
LEMMA WitnessesMeet ==
    ASSUME NEW Q \in Quorum, NEW W \in FastQuorums
    PROVE  Cardinality(Q \cap W) >= Threshold /\ IsFiniteSet(Q \cap W)
<1>1. IsFiniteSet(Replica) /\ Cardinality(Replica) = N BY ReplicasFinite
<1>2. Q \in SUBSET Replica /\ W \in SUBSET Replica BY DEF Quorum, FastQuorums
<1>3. /\ IsFiniteSet(Q) /\ IsFiniteSet(W) /\ IsFiniteSet(Q \cap W) /\ IsFiniteSet(Q \cup W)
      /\ Cardinality(Q \cup W) <= N
  <2>1. Q \cup W \in SUBSET Replica /\ Q \cap W \in SUBSET Replica BY <1>2
  <2> QED BY <1>1, <1>2, <2>1, FS_Subset
<1>4. Cardinality(Q \cup W) = Cardinality(Q) + Cardinality(W) - Cardinality(Q \cap W)
  BY <1>3, FS_Union
<1>5. /\ Cardinality(Q) \in Nat /\ Cardinality(W) \in Nat /\ Cardinality(Q \cap W) \in Nat
      /\ Cardinality(Q \cup W) \in Nat
  BY <1>3, CardNat
<1>6. Cardinality(Q) >= Majority /\ Cardinality(W) >= FastQuorum BY DEF Quorum, FastQuorums
<1>7. Majority + FastQuorum - N = Threshold /\ Majority \in Nat /\ FastQuorum \in Nat
      /\ Threshold \in Nat
  <2> DEFINE k == N \div 2
  <2>1. N \in Nat /\ N % 2 = 1 BY NAssumption
  <2>2. k \in Nat /\ N = 2 * k + 1 BY <2>1
  <2>3. (k + 1) \div 2 \in Nat BY <2>2
  <2>4. Majority = k + 1 /\ FastQuorum = k + (k + 1) \div 2 + 1 /\ Threshold = (k + 1) \div 2 + 1
    BY DEF Majority, FastQuorum, Threshold
  <2> HIDE DEF k
  <2> DEFINE t == (k + 1) \div 2
  <2>5. t \in Nat /\ FastQuorum = k + t + 1 /\ Threshold = t + 1 BY <2>3, <2>4
  <2> HIDE DEF t
  <2> QED BY <2>2, <2>4, <2>5
<1>8. PICK q, w, x, u : /\ q = Cardinality(Q) /\ w = Cardinality(W)
                        /\ x = Cardinality(Q \cap W) /\ u = Cardinality(Q \cup W)
  OBVIOUS
<1>9. q \in Nat /\ w \in Nat /\ x \in Nat /\ u \in Nat BY <1>5, <1>8
<1>10. u = q + w - x /\ u <= N /\ q >= Majority /\ w >= FastQuorum BY <1>3, <1>4, <1>6, <1>8
<1>11. N \in Nat BY NAssumption
<1>12. x >= Threshold BY <1>7, <1>9, <1>10, <1>11
<1> QED BY <1>3, <1>8, <1>12

\* A request that a client may have an answer to is taken over.
LEMMA RequestTaken ==
    ASSUME TypeOK, Shape, Safety, NEW i \in Replica, NEW Q, NEW P, Collected(i, Q, P),
           NEW h, NEW sel, NEW L, MakesLog(i, P, h, sel, L),
           NEW r \in Request, NEW a \in Ballot, a < ballot[i], NEW W \in FastQuorums,
           \A k \in W : ballot[k] <= a \/ Remembers(k, r, a)
    PROVE  \E y \in L : y.req = r
<1>1. Chooses(i, P, h, sel) BY DEF MakesLog
<1>2. /\ h \in Int /\ executed[i] \in Int
      /\ \A y \in log[i] : y.slot <= executed[i] => y \in L
      /\ \A t \in (executed[i] + 1)..h : \E y \in L : y.slot = t /\ y.req = sel[t]
      /\ \A x \in Extra(i, P, h, sel) : \E y \in L : y.req = x
  BY PartsOf
<1>3. ballot[i] \in Ballot /\ ballot[i] \in Nat /\ a \in Nat BY BallotNat DEF Collected
<1>4. CASE Settled(r, ballot[i])
  <2>1. PICK s \in Slot, c \in Ballot, S \in Quorum : c <= ballot[i] /\ Lock(s, r, c, S)
    BY <1>4 DEF Settled
  <2>2. c # ballot[i] BY <2>1 DEF Lock, Collected
  <2>3. c < ballot[i] BY <1>3, <2>1, <2>2, BallotNat
  <2> QED BY <2>1, <2>3, LockTaken
<1>5. CASE ~Settled(r, ballot[i])
  <2> DEFINE X == {p.from : p \in {q \in P : r \in q.pkt.reqs}}
             Y == Q \cap W
  <2>1. ASSUME NEW q \in Y PROVE q \in X
    <3>1. /\ q \in Replica /\ ballot[q] >= ballot[i] /\ Whole(q, ballot[i])
          /\ Pages(q, ballot[i]) \subseteq P /\ \A p \in Pages(q, ballot[i]) : p.from = q
      BY DEF Collected
    <3>2. ballot[q] \in Nat BY <3>1, BallotNat DEF TypeOK
    <3>3. Remembers(q, r, a) BY <1>3, <3>1, <3>2
    <3>4. ballot[i] > a BY <1>3
    <3>5. Names(q, ballot[i], r) BY <1>3, <3>3, <3>4 DEF Remembers
    <3>6. PICK p \in Pages(q, ballot[i]) : r \in p.pkt.reqs BY <1>5, <3>1, <3>5 DEF Names
    <3> QED BY <3>1, <3>6
  <2>2. X \in SUBSET Replica
    <3>1. \A p \in P : p.from \in Replica BY PromisedType DEF Collected
    <3> QED BY <3>1
  <2>3. Cardinality(Y) >= Threshold /\ IsFiniteSet(Y) BY WitnessesMeet DEF Collected
  <2>4. r \in Witnessed(P)
    <3> HIDE DEF X, Y
    <3>1. IsFiniteSet(X) BY <2>2, ReplicasFinite, FS_Subset
    <3>2. Y \in SUBSET X BY <2>1
    <3>3. Cardinality(Y) <= Cardinality(X) BY <3>1, <3>2, FS_Subset
    <3>4. Cardinality(X) \in Nat /\ Cardinality(Y) \in Nat BY <2>3, <3>1, CardNat
    <3>5. Threshold \in Int
      <4>1. N \in Nat BY NAssumption
      <4> QED BY <4>1 DEF Threshold
    <3>6. Cardinality(X) >= Threshold BY <2>3, <3>3, <3>4, <3>5
    <3> QED BY <3>6 DEF Witnessed, X
  <2>5. CASE r \in Extra(i, P, h, sel) BY <1>2, <2>5
  <2>6. CASE r \in Reqs(Old(i))
    <3>1. PICK y \in log[i] : y.slot <= executed[i] /\ y.req = r BY <2>6 DEF Reqs, Old
    <3> QED BY <1>2, <3>1
  <2>7. CASE r \in Reqs(Taken(i, h, sel))
    <3>1. PICK s \in (executed[i] + 1)..h : r = sel[s] BY <2>7 DEF Reqs, Taken, Named
    <3> QED BY <1>2, <3>1
  <2>8. CASE r \in DoneAt(i)
    <3>1. PICK v \in values[i] : v.req = r BY <2>8 DEF DoneAt
    <3>2. PICK y \in log[i] : y.slot = v.slot /\ y.slot <= executed[i] /\ y.req = r
      BY <3>1 DEF Shape, LogShape, GoodLog
    <3> QED BY <1>2, <3>2
  <2> QED BY <2>4, <2>5, <2>6, <2>7, <2>8 DEF Extra
<1> QED BY <1>4, <1>5

\* A record that it proposes: one of L that it has not executed.
LEMMA AdoptedIs ==
    ASSUME TypeOK, Shape, Safety, NEW i \in Replica, NEW Q, NEW P, Collected(i, Q, P),
           NEW h, NEW sel, NEW L, MakesLog(i, P, h, sel, L), TookOver(i), log'[i] = L,
           NEW y \in L, y.slot > executed[i],
           NEW x, x.slot = y.slot, x.req = y.req, x.ballot = ballot[i], ~x.committed
    PROVE  Adopted(x)
<1>1. Chooses(i, P, h, sel) BY DEF MakesLog
<1>2. /\ h \in Int /\ executed[i] \in Int /\ y.slot \in Slot
      /\ y.slot > h \/ y.req = sel[y.slot]
  BY PartsOf DEF Slot
<1>3. y.slot \in Int BY <1>2 DEF Slot
<1>4. ASSUME NEW z \in Known, z.slot = x.slot, z.ballot < x.ballot, CanChoose(z.ballot, z.slot)
      PROVE  z.req = x.req
  <2>1. z.slot <= h /\ z.req = sel[z.slot] BY <1>1, <1>4, ChosenSelected
  <2> QED BY <1>2, <1>3, <1>4, <2>1
<1> QED BY <1>4 DEF Adopted

\* A candidate is elected.
LEMMA TurnTakeOver ==
    ASSUME TypeOK, TypeOK', Shape, Safety, NEW i \in Replica, NEW j \in Replica, net[j][i] # <<>>,
           NEW m \in Packet, m \in Way(j, i), TakeOver(i, j, m)
    PROVE  GoodTurn(i)
<1> USE DEF recordVars, clientVars
<1>0. Alone(i) BY TypeTakeOver
<1>1. /\ PromiseExpected(i, m) /\ Elects(i, j, m)
      /\ pages' = [pages EXCEPT ![i] = PagesWith(i, j, m)]
      /\ promises' = [promises EXCEPT ![i] = @ \cup {j}]
      /\ preparing' = [preparing EXCEPT ![i] = FALSE]
      /\ UNCHANGED <<ballot, leader, executed, values, pending, queue, recordVars, alive,
                     sent, clientVars>>
  BY TakeOverIs
<1>2. PICK h, sel : Picks(i, h, sel) /\ TakesOver(i, j, m, h, sel) BY TakeOverIs
<1>3. PICK Q, P, b, e, E, L, top, C : /\ Q = promises[i] \cup {j} /\ P = Reps(i, j, m)
                                      /\ b = ballot[i] /\ e = executed[i]
                                      /\ E = Extra(i, P, h, sel) /\ L = NewLog(i, h, sel, E)
                                      /\ top = h + Cardinality(E) /\ C = Chunks(L, e + 1, top)
  OBVIOUS
<1>4. /\ IsTop(h, {e} \cup {p.pkt.high : p \in P})
      /\ \A s \in (e + 1)..h : Selects(RecsOf(P), s, sel[s])
      /\ top \in -1..MaxSlot
      /\ log' = [log EXCEPT ![i] = L]
      /\ votes' = [votes EXCEPT ![i] = Vote(NoVotes, Slots(InChunks(C)), i, e)]
      /\ Exchange(i, j, Proposed(i, C, {}) \o If(e >= top, ReadyAll(i, TRUE)))
  BY <1>2, <1>3 DEF TakesOver
<1>5. Collected(i, Q, P) BY <1>1, <1>3, ElectionCollects
<1>6. MakesLog(i, P, h, sel, L) /\ Chooses(i, P, h, sel)
  <2>1. \A p \in P : p.pkt.high <= h BY <1>4 DEF IsTop
  <2> QED BY <1>2, <1>3, <1>4, <2>1 DEF MakesLog, Chooses
<1>7. /\ Owner(b) = i /\ b \in Ballot /\ b \in Nat /\ ballot'[i] = b /\ ballot[i] = b
      /\ preparing[i] /\ ~preparing'[i]
  BY <1>1, <1>3, <1>5, BallotNat DEF Collected, TypeOK, PromiseExpected
<1>8. Led(b)' /\ Led(ballot[i])' /\ ~Leading(i) /\ Leading(i)' BY <1>7 DEF Led, Leading
<1>9. log'[i] = L /\ e \in Int /\ e \in -1..MaxSlot BY <1>3, <1>4 DEF TypeOK
<1>10. /\ L \in Batch /\ h \in Int /\ e <= h
       /\ \A y \in log[i] : y.slot <= e => y \in L /\ y.committed
       /\ \A s \in (e + 1)..h : \E y \in L : y.slot = s /\ y.ballot = b
       /\ \A y \in L : y.slot \in Slot
       /\ \A y \in L : \/ y \in log[i] /\ y.slot <= e
                       \/ y.slot > e /\ y.ballot = b /\ ~y.committed
  BY <1>3, <1>5, <1>6, PartsOf
<1>11. TookOver(i)
  <2>1. Elected(b)
    <3>1. Q \in Quorum /\ \A q \in Q : ballot[q] >= b BY <1>3, <1>5 DEF Collected
    <3> QED BY <3>1 DEF Elected
  <2>2. ASSUME NEW s \in Slot, NEW a \in Ballot, a < b, \A y \in L : y.slot # s
        PROVE  ~CanChoose(a, s)
    BY <1>3, <1>5, <1>6, <2>2, OpenUnchosen
  <2>3. ASSUME NEW s \in Slot, NEW v \in Command, NEW a \in Ballot, NEW S \in Quorum,
               a < b, Lock(s, v, a, S)
        PROVE  \E y \in L : y.slot = s /\ y.req = v
    BY <1>3, <1>5, <1>6, <2>3, LockTaken
  <2>4. ASSUME NEW r \in Request, NEW a \in Ballot, NEW W \in FastQuorums, a < b,
               \A k \in W : ballot[k] <= a \/ Remembers(k, r, a)
        PROVE  Has(i, r)'
    <3>1. \E y \in L : y.req = r BY <1>3, <1>5, <1>6, <2>4, RequestTaken
    <3> QED BY <1>9, <3>1 DEF Has
  <2> QED BY <1>7, <1>9, <2>1, <2>2, <2>3, <2>4 DEF TookOver
<1>12. ASSUME NEW y \in L, y.slot > e PROVE Proposable(i, y) /\ NewHere(i, y)
  <2>1. y.ballot = b /\ ~y.committed /\ y.slot \in Slot BY <1>9, <1>10, <1>12 DEF Slot
  <2>2. b >= b BY <1>7
  <2>3. FreshVote(i, b, y.slot) BY <1>7, <1>8, <1>9, <2>1, <2>2 DEF FreshVote
  <2>4. ASSUME NEW x, x.slot = y.slot, x.req = y.req, x.ballot = b, ~x.committed
        PROVE  NewHere(i, x)
    <3>1. Adopted(x) BY <1>3, <1>5, <1>6, <1>9, <1>11, <1>12, <2>4, AdoptedIs
    <3> QED BY <1>7, <2>4, <3>1 DEF NewHere, Made
  <2> QED BY <1>7, <2>1, <2>3, <2>4 DEF Proposable
<1>13. C \in Seq(SUBSET L) /\ \A R \in Range(C) : \A y \in R : y \in L /\ y.slot > e
  <2>1. e + 1 \in Int /\ top \in Int BY <1>4, <1>9
  <2>2. C \in Seq(SUBSET L) /\ \A R \in Range(C) : \A y \in R : y \in L /\ y.slot >= e + 1
    BY <1>3, <2>1, ChunksIn
  <2>3. ASSUME NEW y \in L, y.slot >= e + 1 PROVE y.slot > e
    <3>1. y.slot \in Int BY <1>10 DEF Slot
    <3> QED BY <1>9, <2>3, <3>1
  <2> QED BY <2>2, <2>3
<1>14. PICK out : out = Proposed(i, C, {}) \o If(e >= top, ReadyAll(i, TRUE)) OBVIOUS
<1>15. out \in Seq(Packet) /\ Sends(i, out)
  <2>1. {} \in Batch BY DEF Batch
  <2>2. Owner(ballot[i]) = i /\ ballot'[i] = ballot[i] BY <1>7
  <2>3. \A R \in Range(C) : \A y \in R : Proposable(i, y) BY <1>12, <1>13
  <2>4. \A y \in {} : Decidable(i, y) OBVIOUS
  <2>5. Proposed(i, C, {}) \in Seq(Packet) BY <1>10, <1>13, <2>1, ProposedType
  <2>6. Sends(i, Proposed(i, C, {}))
    BY <1>8, <1>10, <1>13, <2>1, <2>2, <2>3, <2>4, ProposalSends
  <2>7. ReadyAll(i, TRUE) \in Seq(Packet) /\ Sends(i, ReadyAll(i, TRUE))
    BY <1>8, <2>2, ReadySends
  <2>8. /\ If(e >= top, ReadyAll(i, TRUE)) \in Seq(Packet)
        /\ Sends(i, If(e >= top, ReadyAll(i, TRUE)))
    BY <2>7, SendsIf
  <2> QED BY <1>14, <2>5, <2>6, <2>8, SendsBoth
<1>16. Carries(i, out) BY <1>4, <1>14, <1>15, ExchangeCarries
<1>17. Role(i)
  <2>1. leader[i] = Owner(ballot[i]) BY DEF Shape, Leads
  <2> QED BY <1>1, <1>7, <1>8, <1>11, <2>1 DEF Role
<1>18. Frozen(i) BY <1>8 DEF Frozen
<1>19. LogStep(i)
  <2>1. GoodLog(i)'
    <3>0. GoodLog(i) BY DEF Shape, LogShape
    <3>1. \A y \in L : y.ballot <= b /\ (y.ballot = b \/ y.committed)
      <4>1. \A y \in L : y \in log[i] => y.ballot <= b BY <1>7, <3>0 DEF GoodLog
      <4>2. b <= b BY <1>7
      <4> QED BY <1>10, <4>1, <4>2
    <3>2. \A s \in 0..e : Decided(L, s)
      <4> SUFFICES ASSUME NEW s \in 0..e PROVE Decided(L, s) OBVIOUS
      <4>1. Decided(log[i], s) BY <1>3, <3>0 DEF GoodLog
      <4>2. PICK y \in log[i] : y.slot = s /\ y.committed BY <4>1 DEF Decided
      <4>3. y.slot <= e BY <1>9, <4>2
      <4> QED BY <1>10, <4>2, <4>3 DEF Decided
    <3>3. \A v \in values[i] : \E y \in L :
             y.slot = v.slot /\ y.slot <= e /\ y.req = v.req /\ y.committed
      <4> SUFFICES ASSUME NEW v \in values[i]
                   PROVE  \E y \in L : y.slot = v.slot /\ y.slot <= e /\ y.req = v.req /\ y.committed
        OBVIOUS
      <4>1. PICK y \in log[i] : y.slot = v.slot /\ y.slot <= e /\ y.req = v.req /\ y.committed
        BY <1>3, <3>0 DEF GoodLog
      <4> QED BY <1>10, <4>1
    <3>4. executed'[i] = e /\ values'[i] = values[i] BY <1>1, <1>3
    <3> QED BY <1>7, <1>9, <3>1, <3>2, <3>3, <3>4 DEF GoodLog
  <2>2. ASSUME NEW y \in log[i]
        PROVE  \E z \in L : /\ z.slot = y.slot /\ z.ballot >= y.ballot
                            /\ y.committed => z.committed \/ z.ballot = b
    <3>1. y \in Record /\ y.slot <= high[i] BY LogType DEF TypeOK, Consistent
    <3>2. y.slot \in Int /\ y.ballot \in Nat /\ high[i] \in Int
      BY <3>1, BallotNat DEF Record, Slot, TypeOK
    <3>3. y.ballot <= b BY <1>7 DEF Shape, LogShape, GoodLog
    <3>4. CASE y.slot <= e
      <4>1. y.ballot >= y.ballot BY <3>2
      <4> QED BY <1>10, <3>4, <4>1
    <3>5. CASE y.slot > e
      <4>1. /\ Whole(i, b) /\ Pages(i, b) \subseteq P /\ ~Led(b)
        BY <1>7, <1>5 DEF Collected
      <4>2. PICK p \in Pages(i, b) : TRUE BY <4>1 DEF Whole
      <4>3. p \in Report(i, b, executed[Owner(b)] + 1) BY <1>7, <4>1, PageFields
      <4>4. p.pkt.high = high[i] BY <4>3, ReportIs
      <4>5. high[i] <= h BY <1>6, <4>1, <4>4 DEF Chooses
      <4>6. y.slot \in (e + 1)..h BY <1>9, <1>10, <3>1, <3>2, <3>5, <4>5
      <4>7. PICK z \in L : z.slot = y.slot /\ z.ballot = b BY <1>10, <4>6
      <4>8. z.ballot >= y.ballot BY <1>7, <3>2, <3>3, <4>7
      <4> QED BY <4>7, <4>8
    <3> QED BY <1>9, <3>2, <3>4, <3>5
  <2>3. KeepsLog(i) BY <1>7, <1>8, <1>9, <2>2 DEF KeepsLog
  <2>4. \A x \in L : x \in Known \/ NewHere(i, x)
    <3>1. \A x \in log[i] : x \in Known BY InKnown
    <3> QED BY <1>10, <1>12, <3>1
  <2> QED BY <1>9, <2>1, <2>3, <2>4 DEF LogStep
<1>20. Counts(i)
  <2>1. votes'[i] = Vote(NoVotes, Slots(InChunks(C)), i, e) BY <1>4 DEF TypeOK
  <2>2. NoVotes \in [Slot -> SUBSET Replica] BY DEF NoVotes
  <2>3. \A s \in Slot : \A q \in votes'[i][s] : q = i /\ s \in Slots(InChunks(C))
    BY <2>1, <2>2, VoteIs DEF NoVotes
  <2>4. \A s \in Slots(InChunks(C)) : FreshVote(i, b, s)
    <3> SUFFICES ASSUME NEW y \in InChunks(C) PROVE FreshVote(i, b, y.slot) BY DEF Slots
    <3>1. \E R \in Range(C) : y \in R BY DEF InChunks, Range
    <3>2. y \in L /\ y.slot > e BY <1>13, <3>1
    <3>3. Proposable(i, y) BY <1>12, <3>2
    <3> QED BY <1>7, <3>3 DEF Proposable
  <2> QED BY <1>7, <2>3, <2>4 DEF Counts
<1>21. Collects(i)
  <2>1. pages'[i] = PagesWith(i, j, m) BY <1>1 DEF TypeOK
  <2>2. \A p \in PagesWith(i, j, m) : p \in Promised BY <1>1, Gathers
  <2> QED BY <2>1, <2>2 DEF Collects
<1>22. Prepares(i) BY <1>7 DEF Prepares
<1>23. Recalls(i) BY <1>1, Quiet
<1>24. Effect(i, out) BY <1>15, <1>17, <1>18, <1>19, <1>20, <1>21 DEF Effect
<1> QED BY <1>0, <1>15, <1>16, <1>22, <1>23, <1>24 DEF GoodTurn

-----------------------------------------------------------------------------
(***************************************************************************)
(* Turns that count acknowledgements and run what they decide.             *)
(***************************************************************************)
\* A log that i may go on with in its ballot.
Grows(i, L) ==
    /\ \A y \in log[i] : \E z \in L :
          /\ z.slot = y.slot /\ z.ballot >= y.ballot
          /\ y.committed => z.committed /\ z.req = y.req
          /\ Leading(i) => z.req = y.req
    /\ \A x \in L : /\ x.ballot <= ballot[i]
                    /\ Leading(i) => x.ballot = ballot[i] \/ x.committed
                    /\ x \in Known \/ NewHere(i, x)

\* The log after a run.
LEMMA RanLog ==
    ASSUME TypeOK, TypeOK', Shape, NEW i \in Replica, NEW L \in Batch, NEW d, Ran(i, L, d),
           Grows(i, L), ballot'[i] = ballot[i], Leading(i)' => Leading(i)
    PROVE  LogStep(i)
<1>1. /\ log'[i] = L /\ executed[i] <= executed'[i]
      /\ \A s \in (executed[i] + 1)..executed'[i] : Decided(L, s)
      /\ \A v \in values'[i] : v \in values[i] \/ \E y \in L :
            y.slot = v.slot /\ y.req = v.req /\ y.committed /\ y.slot <= executed'[i]
  BY DEF Ran
<1>2. GoodLog(i) BY DEF Shape, LogShape
<1>3. executed[i] \in Int /\ executed'[i] \in Int BY DEF TypeOK
<1>4. ASSUME NEW s \in 0..executed'[i] PROVE Decided(L, s)
  <2>1. CASE s <= executed[i]
    <3>1. s \in 0..executed[i] BY <1>3, <2>1
    <3>2. PICK y \in log[i] : y.slot = s /\ y.committed BY <1>2, <3>1 DEF GoodLog, Decided
    <3> QED BY <3>2 DEF Grows, Decided
  <2>2. CASE ~(s <= executed[i])
    <3>1. s \in (executed[i] + 1)..executed'[i] BY <1>3, <2>2
    <3> QED BY <1>1, <3>1
  <2> QED BY <2>1, <2>2
<1>5. ASSUME NEW v \in values'[i]
      PROVE  \E y \in L : y.slot = v.slot /\ y.slot <= executed'[i] /\ y.req = v.req /\ y.committed
  <2>1. CASE v \in values[i]
    <3>1. PICK y \in log[i] : y.slot = v.slot /\ y.slot <= executed[i] /\ y.req = v.req /\ y.committed
      BY <1>2, <2>1 DEF GoodLog
    <3>2. PICK z \in L : z.slot = y.slot /\ z.committed /\ z.req = y.req BY <3>1 DEF Grows
    <3>3. y \in Record BY LogType
    <3>4. z.slot <= executed'[i] BY <1>1, <1>3, <3>1, <3>2, <3>3 DEF Record, Slot
    <3> QED BY <3>1, <3>2, <3>4
  <2> QED BY <1>1, <2>1
<1>6. GoodLog(i)' BY <1>1, <1>4, <1>5 DEF GoodLog, Grows
<1>7. KeepsLog(i)
  <2> SUFFICES ASSUME NEW y \in log[i]
               PROVE  \E z \in log'[i] :
                         /\ z.slot = y.slot /\ z.ballot >= y.ballot
                         /\ y.committed => z.committed \/ z.ballot = ballot'[i]
                         /\ Leading(i) => z.req = y.req
    BY DEF KeepsLog
  <2> QED BY <1>1 DEF Grows
<1> QED BY <1>1, <1>6, <1>7 DEF LogStep, Grows

\* What it remembers of requests, and what it tells the clients.
LEMMA RanRecalls ==
    ASSUME NEW i \in Replica, NEW L, NEW d, Ran(i, L, d), ballot'[i] = ballot[i],
           UNCHANGED <<known, evidence, done>>, witness[i] \subseteq d.witness,
           \A m \in d.sent : Heeded(m) => Says(i, m)
    PROVE  Recalls(i)
<1>1. /\ log'[i] = L
      /\ \A r \in d.witness : r \in witness'[i] \/ \E y \in L : y.req = r /\ y.committed
      /\ \A m \in sent' : \/ m \in sent
                          \/ Heeded(m) /\ m \in d.sent
                          \/ /\ Heeded(m) /\ m.kind = "Sync" /\ m.from = i /\ m.ballot = ballot[i]
                             /\ \E y \in L : y.req = m.req /\ y.committed
  BY DEF Ran
<1>2. Forgets(i) BY <1>1 DEF Forgets, Done
<1>3. ASSUME NEW m \in sent', Heeded(m), m.kind = "Sync", m.from = i, m.ballot = ballot[i],
             \E y \in L : y.req = m.req /\ y.committed
      PROVE  Says(i, m)
  <2>1. Done(i, m.req)' BY <1>1, <1>3 DEF Done
  <2>2. m.ballot >= known[ClientOf[m.req]] BY <1>3 DEF Heeded
  <2>3. ~Supports(m) BY <1>3 DEF Supports
  <2> QED BY <1>3, <2>1, <2>2, <2>3 DEF Says
<1>4. Speaks(i) BY <1>1, <1>3 DEF Speaks
<1> QED BY <1>2, <1>4 DEF Recalls

\* Running a desk as it is forgets nothing.
LEMMA DeskRecalls ==
    ASSUME NEW i \in Replica, NEW L, Ran(i, L, Desk(i)), ballot'[i] = ballot[i],
           UNCHANGED <<known, evidence, done>>
    PROVE  Recalls(i)
<1>1. Desk(i).witness = witness[i] /\ Desk(i).sent = {} BY DEF Desk
<1>2. \A m \in Desk(i).sent : Heeded(m) => Says(i, m) BY <1>1
<1> QED BY <1>1, <1>2, RanRecalls

\* Whose votes it counts.
LEMMA RanCounts ==
    ASSUME TypeOK, NEW i \in Replica, NEW j, NEW S, ballot'[i] = ballot[i],
           \A s \in Slot : \A q \in votes'[i][s] : q \in votes[i][s] \/ (q = j /\ s \in S),
           \A s \in S : Voted(j, ballot[i], s) \/ (j = i /\ FreshVote(i, ballot[i], s))
    PROVE  Counts(i)
<1> SUFFICES ASSUME NEW q \in Replica, NEW s \in Slot, NEW b \in Ballot,
                    ballot'[i] = b, q \in votes'[i][s]
             PROVE  Voted(q, b, s) \/ (q = i /\ FreshVote(i, b, s))
  BY DEF Counts
<1>1. b = ballot[i] OBVIOUS
<1>2. CASE q \in votes[i][s] BY <1>1, <1>2 DEF Voted
<1>3. CASE q = j /\ s \in S BY <1>1, <1>3
<1> QED BY <1>2, <1>3

\* A slot is decided by the votes that are counted.
LEMMA WinsWon ==
    ASSUME TypeOK, NEW i \in Replica, NEW j \in Replica, NEW L \in Batch, NEW S,
           NEW r \in Wins(i, j, L, S), \A s \in S : j = i \/ Voted(j, ballot[i], s)
    PROVE  Won(i, r.slot) /\ r \in L /\ r.ballot = ballot[i] /\ r.slot \in S
<1> DEFINE Q == Vote(votes[i], S, j, executed[i])[r.slot]
<1>1. r \in L /\ r.slot \in S /\ r.ballot = ballot[i] /\ Cardinality(Q) >= Majority BY DEF Wins
<1>2. r.slot \in Slot BY <1>1 DEF Batch, Record
<1>3. votes[i] \in [Slot -> SUBSET Replica] BY DEF TypeOK
<1>4. Q \in SUBSET Replica /\ \A q \in Q : q \in votes[i][r.slot] \/ q = j
  <2>1. Vote(votes[i], S, j, executed[i]) \in [Slot -> SUBSET Replica] BY <1>3, VoteIs
  <2>2. \A s \in Slot : \A q \in Vote(votes[i], S, j, executed[i])[s] :
           q \in votes[i][s] \/ (q = j /\ s \in S)
    BY <1>3, VoteIs
  <2> QED BY <1>2, <2>1, <2>2
<1> HIDE DEF Q
<1>5. Q \in Quorum BY <1>1, <1>4 DEF Quorum
<1>6. \A q \in Q : q = i \/ Voted(q, ballot[i], r.slot)
  <2> TAKE q \in Q
  <2>1. CASE q \in votes[i][r.slot] BY <2>1 DEF Voted
  <2>2. CASE q = j BY <1>1, <2>2
  <2> QED BY <1>4, <2>1, <2>2
<1> QED BY <1>1, <1>5, <1>6 DEF Won

\* A record that has won may be marked.
LEMMA WonChosen ==
    ASSUME NEW i \in Replica, ballot'[i] = ballot[i], NEW x, x.ballot = ballot[i],
           Won(i, x.slot),
           \E y \in Known : y.slot = x.slot /\ y.ballot = x.ballot /\ y.req = x.req,
           \E z \in log'[i] : z.slot = x.slot /\ z.ballot = x.ballot
    PROVE  NewHere(i, x)
<1>1. Chosen(x) BY DEF Chosen
<1> QED BY <1>1 DEF NewHere, Made

\* A turn of this kind, in a ballot that is led.
LEMMA Runs ==
    ASSUME TypeOK, TypeOK', Shape, NEW i \in Replica, Alone(i), NEW L \in Batch, NEW d,
           Ran(i, L, d), Grows(i, L), Led(ballot[i]), Counts(i),
           ballot'[i] = ballot[i], leader'[i] = leader[i], preparing'[i] = preparing[i],
           pages'[i] = pages[i], promises'[i] = promises[i], NEW out, Sends(i, out)
    PROVE  Effect(i, out) /\ Prepares(i)
<1>1. Role(i) /\ (Led(ballot[i])' <=> Led(ballot[i])) /\ Leading(i)' = Leading(i) BY RoleKept
<1>2. LogStep(i) BY <1>1, RanLog
<1>3. Frozen(i) BY <1>1 DEF Frozen
<1>4. Collects(i)
  <2>1. \A p \in pages[i] : p \in Promised BY InPromised
  <2> QED BY <2>1 DEF Collects
<1> QED BY <1>1, <1>2, <1>3, <1>4 DEF Effect, Prepares

\* The log with what has won, when that is known in the ballot of i.
LEMMA DecideGrows ==
    ASSUME TypeOK, Shape, NEW i \in Replica, NEW L \in Batch, NEW C \in SUBSET L,
           Grows(i, L), log'[i] = Decide(L, C), ballot'[i] = ballot[i],
           \A r \in C : /\ Won(i, r.slot) /\ r.ballot = ballot[i] /\ r \in Known
    PROVE  Grows(i, Decide(L, C))
<1>1. /\ \A x \in Decide(L, C) : x \in L \/ \E y \in C :
            /\ x.slot = y.slot /\ x.req = y.req /\ x.ballot = y.ballot /\ x.committed
      /\ \A y \in L : \E x \in Decide(L, C) :
            /\ x.slot = y.slot /\ x.req = y.req /\ x.ballot = y.ballot
            /\ y.committed \/ y \in C => x.committed
  BY DecideIs
<1>2. ASSUME NEW y \in log[i]
      PROVE  \E z \in Decide(L, C) :
                /\ z.slot = y.slot /\ z.ballot >= y.ballot
                /\ y.committed => z.committed /\ z.req = y.req
                /\ Leading(i) => z.req = y.req
  <2>1. PICK w \in L : /\ w.slot = y.slot /\ w.ballot >= y.ballot
                       /\ y.committed => w.committed /\ w.req = y.req
                       /\ Leading(i) => w.req = y.req
    BY DEF Grows
  <2>2. PICK x \in Decide(L, C) : /\ x.slot = w.slot /\ x.req = w.req /\ x.ballot = w.ballot
                                  /\ w.committed => x.committed
    BY <1>1
  <2> QED BY <2>1, <2>2
<1>3. ASSUME NEW x \in Decide(L, C)
      PROVE  /\ x.ballot <= ballot[i]
             /\ Leading(i) => x.ballot = ballot[i] \/ x.committed
             /\ x \in Known \/ NewHere(i, x)
  <2>1. CASE x \in L BY <2>1 DEF Grows
  <2>2. CASE ~(x \in L)
    <3>1. PICK y \in C : x.slot = y.slot /\ x.req = y.req /\ x.ballot = y.ballot /\ x.committed
      BY <1>1, <2>2
    <3>2. y \in L /\ Won(i, y.slot) /\ y.ballot = ballot[i] /\ y \in Known OBVIOUS
    <3>3. x.ballot <= ballot[i] BY <3>1, <3>2 DEF Grows
    <3>4. NewHere(i, x) BY <3>1, <3>2, WonChosen
    <3> QED BY <3>1, <3>3, <3>4
  <2> QED BY <2>1, <2>2
<1> QED BY <1>2, <1>3 DEF Grows

\* A log may go on as it is.
LEMMA LogGrows ==
    ASSUME TypeOK, Shape, NEW i \in Replica PROVE Grows(i, log[i])
<1>1. GoodLog(i) BY DEF Shape, LogShape
<1>2. ASSUME NEW y \in log[i] PROVE y.ballot >= y.ballot /\ y \in Known
  <2>1. y \in Record BY LogType
  <2>2. y.ballot \in Nat BY <2>1, BallotNat DEF Record
  <2> QED BY <2>2, InKnown
<1> QED BY <1>1, <1>2 DEF Grows, GoodLog

\* An acknowledgement arrives.
LEMMA TurnAck ==
    ASSUME TypeOK, TypeOK', Shape, NEW i \in Replica, NEW j \in Replica, net[j][i] # <<>>,
           NEW m \in Packet, m \in Way(j, i), ReceiveAck(i, j, m)
    PROVE  GoodTurn(i)
<1> USE DEF roleVars, clientVars
<1>0. Alone(i) BY TypeAck
<1>1. PICK C, out, p, b :
         /\ C = Wins(i, j, log[i], m.slots) /\ b = ballot[i]
         /\ p = Commit(Peers(i), b, Decide(C, C))
         /\ out = If(leader[i] = i /\ C # {}, <<p>>)
  OBVIOUS
<1>2. /\ m.kind = "Ack" /\ m.ballot = b
      /\ CountAck(i, j, log[i], m.slots, Desk(i))
      /\ Exchange(i, j, out)
      /\ UNCHANGED <<roleVars, high, assigned, queue, resume, pages, promises, alive, clientVars>>
  BY <1>1 DEF ReceiveAck
<1>3. log[i] \in Batch /\ b \in Ballot BY <1>1 DEF TypeOK
<1>4. Ran(i, Decide(log[i], C), Desk(i)) /\ RanVotes(i, j, m.slots)
  <2>1. GoodDesk(Desk(i)) BY DeskType
  <2> QED BY <1>1, <1>2, <1>3, <2>1, CountAckIs
<1>5. Led(ballot[i]) /\ ballot'[i] = ballot[i] BY <1>1, <1>2, Received DEF GoodPacket, Led
<1>6. \A s \in m.slots : Voted(j, ballot[i], s)
  <2>1. m \in Flying(j) BY DEF Flying
  <2> QED BY <1>1, <1>2, <2>1 DEF Voted
<1>7. C \in SUBSET log[i] /\ C \in Batch BY <1>1, <1>3, WinsIn
<1>8. \A r \in C : Won(i, r.slot) /\ r.ballot = ballot[i] /\ r \in Known
  <2> TAKE r \in C
  <2>1. Won(i, r.slot) /\ r.ballot = ballot[i] BY <1>1, <1>3, <1>6, WinsWon
  <2> QED BY <1>7, <2>1, InKnown
<1>9. log'[i] = Decide(log[i], C) BY <1>4 DEF Ran
<1>10. Decide(log[i], C) \in Batch BY <1>3, <1>7, DecideIs
<1>11. Grows(i, Decide(log[i], C)) BY <1>3, <1>5, <1>7, <1>8, <1>9, LogGrows, DecideGrows
<1>12. Counts(i)
  <2>1. \A s \in Slot : \A q \in votes'[i][s] : q \in votes[i][s] \/ (q = j /\ s \in m.slots)
    BY <1>4 DEF RanVotes
  <2> QED BY <1>5, <1>6, <2>1, RanCounts
<1>13. p.kind = "Commit" /\ p.ballot = b /\ p.to = Peers(i) /\ p.recs = Decide(C, C)
  BY <1>1 DEF Commit
<1>14. p \in Packet
  <2>1. Decide(C, C) \in Batch BY <1>7, DecideAll
  <2> QED BY <1>1, <1>3, <2>1, PeersIn, PacketTypes
<1>15. ASSUME NEW x \in p.recs PROVE x.ballot = b /\ x.committed /\ NewHere(i, x)
  <2>1. PICK y \in C : x.slot = y.slot /\ x.req = y.req /\ x.ballot = y.ballot /\ x.committed
    BY <1>7, <1>13, DecideAll
  <2>2. y \in log[i] /\ Won(i, y.slot) /\ y.ballot = ballot[i] /\ y \in Known BY <1>7, <1>8
  <2>3. \E z \in Decide(log[i], C) : z.slot = y.slot /\ z.ballot = y.ballot
    BY <1>3, <1>7, <2>2, DecideIs
  <2>4. NewHere(i, x) BY <1>5, <1>9, <2>1, <2>2, <2>3, WonChosen
  <2> QED BY <1>1, <2>1, <2>2, <2>4
<1>16. out \in Seq(Packet) /\ \A x \in Range(out) : x = p /\ leader[i] = i
  <2>1. <<p>> \in Seq(Packet) /\ \A x \in Range(<<p>>) : x = p BY <1>14, OneIn
  <2>2. CASE leader[i] = i /\ C # {} BY <1>1, <2>1, <2>2 DEF If
  <2>3. CASE ~(leader[i] = i /\ C # {})
    <3>1. out = <<>> BY <1>1, <2>3 DEF If
    <3> QED BY <3>1, NoneSent
  <2> QED BY <2>2, <2>3
<1>17. Sends(i, out)
  <2> SUFFICES ASSUME NEW x \in Range(out)
               PROVE  /\ i \notin x.to /\ x.kind = "Commit" /\ GoodPacket(i, x)'
                      /\ \A y \in x.recs : NewHere(i, y)
    BY DEF Sends
  <2>1. x = p /\ leader[i] = i BY <1>16
  <2>2. Owner(b) = i BY <1>1, <2>1 DEF Shape, Leads
  <2>3. Led(b)'
    <3>1. \A q \in Replica : ballot'[q] = ballot[q] /\ preparing'[q] = preparing[q] BY <1>2
    <3>2. Led(b) BY <1>1, <1>5 DEF Led
    <3> QED BY <1>3, <3>1, <3>2, BallotNat, LedSame
  <2>4. GoodPacket(i, p)' BY <1>13, <1>15, <2>2, <2>3 DEF GoodPacket
  <2> QED BY <1>13, <1>15, <2>1, <2>4, PeersIn
<1>18. Effect(i, out) /\ Prepares(i)
  BY <1>0, <1>2, <1>4, <1>5, <1>10, <1>11, <1>12, <1>17, Runs
<1>19. Recalls(i) BY <1>2, <1>4, <1>5, DeskRecalls
<1>20. Carries(i, out) BY <1>2, <1>16, ExchangeCarries
<1> QED BY <1>0, <1>16, <1>18, <1>19, <1>20 DEF GoodTurn

-----------------------------------------------------------------------------
(***************************************************************************)
(* What a follower is told by its leader.                                  *)
(***************************************************************************)
\* Where i follows, its own log may take in the known records of its ballot.
LEMMA InstallGrows ==
    ASSUME TypeOK, Shape, NEW i \in Replica, ~Leading(i), NEW R \in Batch,
           \A x \in R : x \in Known /\ x.ballot = ballot[i]
    PROVE  /\ Install(log[i], R) \in Batch /\ Grows(i, Install(log[i], R))
           /\ \A x \in Install(log[i], R) : x \in Known
<1>1. /\ log[i] \in Batch /\ ballot[i] \in Nat
      /\ \A x \in log[i] : x \in Known /\ x.ballot \in Nat /\ x.ballot <= ballot[i]
  <2>1. ballot[i] \in Ballot BY DEF TypeOK
  <2>2. \A x \in log[i] : x \in Record BY LogType
  <2>3. \A x \in log[i] : x.ballot \in Nat BY <2>2, BallotNat DEF Record
  <2>4. GoodLog(i) BY DEF Shape, LogShape
  <2> QED BY <2>1, <2>3, <2>4, BallotNat, InKnown, LogType DEF GoodLog
<1>2. PICK L : L = Install(log[i], R) OBVIOUS
<1>3. /\ L \in Batch
      /\ \A x \in L : x \in log[i] \/ x \in R
      /\ \A y \in log[i] : y \in L \/ (~y.committed /\ \E x \in R : x.slot = y.slot /\ x \in L)
  BY <1>1, <1>2, InstallIs
<1>4. \A x \in L : x \in Known /\ x.ballot <= ballot[i]
  <2> TAKE x \in L
  <2>1. CASE x \in log[i] BY <1>1, <2>1
  <2>2. CASE x \in R
    <3>1. x.ballot = ballot[i] /\ x \in Known BY <2>2
    <3> QED BY <1>1, <3>1
  <2> QED BY <1>3, <2>1, <2>2
<1>5. ASSUME NEW y \in log[i]
      PROVE  \E z \in L : /\ z.slot = y.slot /\ z.ballot >= y.ballot
                          /\ y.committed => z.committed /\ z.req = y.req
  <2>1. CASE y \in L
    <3>1. y.ballot >= y.ballot BY <1>1
    <3> QED BY <2>1, <3>1
  <2>2. CASE ~(y \in L)
    <3>1. PICK x \in R : x.slot = y.slot /\ x \in L /\ ~y.committed BY <1>3, <2>2
    <3>2. x.ballot = ballot[i] OBVIOUS
    <3>3. x.ballot >= y.ballot BY <1>1, <3>2
    <3> QED BY <3>1, <3>3
  <2> QED BY <2>1, <2>2
<1> QED BY <1>2, <1>3, <1>4, <1>5 DEF Grows

\* The records of a packet, stamped with the ballot they have.
LEMMA RecordsKnown ==
    ASSUME TypeOK, Shape, NEW i \in Replica, NEW j \in Replica, NEW m \in Packet, m \in Way(j, i),
           m.kind \in {"Accept", "Commit"}, FromLeader(i, j, m)
    PROVE  /\ m.recs \in Batch /\ Stamp(m.recs, m.ballot) = m.recs
           /\ \A x \in m.recs : x \in Known /\ x.ballot = ballot[i]
           /\ m.kind = "Commit" => \A x \in m.recs : x.committed
           /\ ~Leading(i) /\ Led(ballot[i]) /\ leader[i] = j
           /\ j # i /\ Owner(ballot[i]) = j
<1>1. m.ballot = ballot[i] /\ j = leader[i] BY DEF FromLeader
<1>2. /\ j # i /\ Led(m.ballot)
      /\ \A x \in m.recs : x.ballot = m.ballot
      /\ m.kind = "Commit" => \A x \in m.recs : x.committed
  BY Received DEF GoodPacket
<1>3. m.recs \in Batch BY PacketFields
<1>4. Owner(ballot[i]) = j BY <1>1 DEF Shape, Leads
<1>5. ~Leading(i) BY <1>2, <1>4 DEF Leading
<1>6. Led(ballot[i]) BY <1>1, <1>2 DEF Led
<1>7. \A x \in m.recs : x \in Known BY InKnown
<1>8. Stamp(m.recs, m.ballot) = m.recs
  <2>1. \A x \in m.recs : x \in Record BY <1>3 DEF Batch
  <2>2. \A x \in m.recs : [x EXCEPT !.ballot = m.ballot] = x BY <1>2, <2>1 DEF Record
  <2> QED BY <2>2 DEF Stamp
<1> QED BY <1>1, <1>2, <1>3, <1>4, <1>5, <1>6, <1>7, <1>8

\* A commit arrives.
LEMMA TurnCommit ==
    ASSUME TypeOK, TypeOK', Shape, NEW i \in Replica, NEW j \in Replica, net[j][i] # <<>>,
           NEW m \in Packet, m \in Way(j, i), ReceiveCommit(i, j, m)
    PROVE  GoodTurn(i)
<1> USE DEF roleVars, clientVars
<1>0. Alone(i) BY TypeCommit
<1>1. PICK R, L, C : R = m.recs /\ L = Install(log[i], R) /\ C = {r \in L : r.slot \in Slots(R)}
  OBVIOUS
<1>2. /\ m.kind = "Commit" /\ FromLeader(i, j, m)
      /\ Apply(i, Decide(L, C), Desk(i))
      /\ votes' = [votes EXCEPT ![i] = [s \in Slot |-> IF s <= executed'[i] THEN {} ELSE @[s]]]
      /\ Exchange(i, j, <<>>)
      /\ UNCHANGED <<roleVars, queue, resume, pages, promises, alive, clientVars>>
  BY <1>1 DEF ReceiveCommit
<1>3. /\ R \in Batch
      /\ \A x \in R : x \in Known /\ x.ballot = ballot[i] /\ x.committed
      /\ ~Leading(i) /\ Led(ballot[i])
  BY <1>1, <1>2, RecordsKnown
<1>4. L \in Batch /\ Grows(i, L) /\ \A x \in L : x \in Known BY <1>1, <1>3, InstallGrows
<1>5. \A x \in C : x \in L /\ x.committed
  <2> TAKE x \in C
  <2>1. x \in L /\ x.slot \in Slots(R) BY <1>1
  <2>2. x.committed \/ x \in R BY <1>1, <2>1 DEF Install, Stored
  <2> QED BY <1>3, <2>1, <2>2
<1>6. Decide(L, C) = L
  <2>1. \A x \in C : x \in Record BY <1>4, <1>5 DEF Batch
  <2>2. \A x \in C : [x EXCEPT !.committed = TRUE] = x BY <1>5, <2>1 DEF Record
  <2> QED BY <1>5, <2>2 DEF Decide
<1>7. Ran(i, L, Desk(i))
  <2>1. Apply(i, L, Desk(i)) BY <1>2, <1>6
  <2> QED BY <1>4, <2>1, DeskType, ApplyIs
<1>8. ballot'[i] = ballot[i] BY <1>2
<1>9. Counts(i)
  <2>1. votes \in [Replica -> [Slot -> SUBSET Replica]] BY DEF TypeOK
  <2>2. votes'[i] = [s \in Slot |-> IF s <= executed'[i] THEN {} ELSE votes[i][s]] BY <1>2, <2>1
  <2>3. PICK S : S = {} OBVIOUS
  <2>4. \A s \in Slot : \A q \in votes'[i][s] : q \in votes[i][s] \/ (q = j /\ s \in S) BY <2>2
  <2>5. \A s \in S : Voted(j, ballot[i], s) \/ (j = i /\ FreshVote(i, ballot[i], s)) BY <2>3
  <2> QED BY <1>8, <2>4, <2>5, RanCounts
<1>10. Sends(i, <<>>) BY SilentSends
<1>11. Effect(i, <<>>) /\ Prepares(i)
  BY <1>0, <1>2, <1>3, <1>4, <1>7, <1>8, <1>9, <1>10, Runs
<1>12. Recalls(i) BY <1>2, <1>7, <1>8, DeskRecalls
<1>13. Carries(i, <<>>) BY <1>2, NoneSent, ExchangeCarries
<1> QED BY <1>0, <1>11, <1>12, <1>13, NoneSent DEF GoodTurn

\* A proposal of the leader arrives.
LEMMA TurnAccept ==
    ASSUME TypeOK, TypeOK', Shape, Safety, NEW i \in Replica, NEW j \in Replica, net[j][i] # <<>>,
           NEW m \in Packet, m \in Way(j, i), NEW fetch \in BOOLEAN, ReceiveAccept(i, j, m, fetch)
    PROVE  GoodTurn(i)
<1> USE DEF roleVars, clientVars
<1>0. Alone(i) BY TypeAccept
<1>1. m.kind = "Accept" /\ FromLeader(i, j, m) BY DEF ReceiveAccept
<1>2. PICK R, L, C, b, p, f, out :
         /\ R = m.recs /\ L = Install(log[i], R) /\ C = Wins(i, i, L, Slots(R)) /\ b = ballot[i]
         /\ p = Ack(Peers(i), b, Slots(R)) /\ f = Fetch({leader[i]}, b, executed[i] + 1)
         /\ out = If(fetch, FetchFrom(i)) \o <<p>>
  OBVIOUS
<1>3. /\ R \in Batch /\ Stamp(m.recs, m.ballot) = R
      /\ \A x \in R : x \in Known /\ x.ballot = b
      /\ ~Leading(i) /\ Led(b) /\ Led(ballot[i]) /\ leader[i] = j /\ j # i /\ Owner(b) = j
      /\ b \in Ballot /\ b \in Nat
  <2>1. b \in Ballot BY <1>2 DEF TypeOK
  <2>2. Led(ballot[i]) BY <1>1, RecordsKnown
  <2>3. Led(b) BY <1>2, <2>2 DEF Led
  <2> QED BY <1>1, <1>2, <2>1, <2>2, <2>3, BallotNat, RecordsKnown
<1>4. /\ CountAck(i, i, L, Slots(R), Desk(i))
      /\ Exchange(i, j, out)
      /\ UNCHANGED <<roleVars, queue, resume, pages, promises, alive, clientVars>>
  BY <1>2, <1>3 DEF ReceiveAccept
<1>5. L \in Batch /\ Grows(i, L) /\ \A x \in L : x \in Known BY <1>2, <1>3, InstallGrows
<1>6. Ran(i, Decide(L, C), Desk(i)) /\ RanVotes(i, i, Slots(R))
  BY <1>2, <1>4, <1>5, DeskType, CountAckIs
<1>7. C \in SUBSET L /\ ballot'[i] = ballot[i] /\ ballot'[i] = b BY <1>2, <1>4, <1>5, WinsIn
<1>8. \A r \in C : Won(i, r.slot) /\ r.ballot = ballot[i] /\ r \in Known
  <2> TAKE r \in C
  <2>1. \A s \in Slots(R) : i = i \/ Voted(i, ballot[i], s) OBVIOUS
  <2>2. Won(i, r.slot) /\ r.ballot = ballot[i] BY <1>2, <1>5, <2>1, WinsWon
  <2> QED BY <1>5, <1>7, <2>2
<1>9. log'[i] = Decide(L, C) BY <1>6 DEF Ran
<1>10. Decide(L, C) \in Batch BY <1>5, <1>7, DecideIs
<1>11. Grows(i, Decide(L, C)) BY <1>5, <1>7, <1>8, <1>9, DecideGrows
<1>12. Led(b)' BY <1>0, <1>3, LedElsewhere
<1>13. ASSUME NEW s \in Slots(R) PROVE FreshVote(i, b, s)
  <2>1. PICK x \in R : x.slot = s BY DEF Slots
  <2>2. x \in Known /\ x.ballot = b BY <1>3
  <2>3. ballot[j] = b => \E y \in log[j] : y.slot = s BY <1>3, <2>1, <2>2 DEF Safety, Owned
  <2>4. ballot'[Owner(b)] = b => \E y \in log'[Owner(b)] : y.slot = s
    BY <1>0, <1>3, <2>3 DEF Alone, Same
  <2>5. log[i] \in Batch BY DEF TypeOK
  <2>6. PICK y \in L : y.slot = s /\ (y = x \/ y.committed) BY <1>2, <1>3, <2>1, <2>5, InstallIs
  <2>7. PICK z \in Decide(L, C) : /\ z.slot = y.slot /\ z.ballot = y.ballot
                                  /\ y.committed => z.committed
    BY <1>5, <1>7, DecideIs
  <2>8. z.ballot >= b \/ z.committed BY <1>3, <2>2, <2>6, <2>7
  <2> QED BY <1>2, <1>7, <1>9, <1>12, <2>4, <2>6, <2>7, <2>8 DEF FreshVote
<1>14. Counts(i)
  <2>1. PICK k, S : k = i /\ S = Slots(R) OBVIOUS
  <2>2. \A s \in Slot : \A q \in votes'[i][s] : q \in votes[i][s] \/ (q = k /\ s \in S)
    BY <1>6, <2>1 DEF RanVotes
  <2>3. \A s \in S : Voted(k, ballot[i], s) \/ (k = i /\ FreshVote(i, ballot[i], s))
    BY <1>2, <1>13, <2>1
  <2> QED BY <1>7, <2>2, <2>3, RanCounts
<1>15. /\ p.kind = "Ack" /\ p.ballot = b /\ p.to = Peers(i) /\ p.slots = Slots(R)
       /\ f.kind = "Fetch" /\ f.ballot = b /\ f.to = {j}
  BY <1>2, <1>3 DEF Ack, Fetch
<1>16. p \in Packet
  <2>1. Slots(R) \in SUBSET Slot BY <1>3, SlotsType
  <2> QED BY <1>2, <1>3, <2>1, PeersIn, PacketTypes
<1>17. out \in Seq(Packet) /\ \A x \in Range(out) : x = p \/ x = f
  <2>1. FetchFrom(i) \in Seq(Packet) /\ \A x \in Range(FetchFrom(i)) : x = f BY <1>2, FetchType
  <2>2. PICK a : a = If(fetch, FetchFrom(i)) OBVIOUS
  <2>3. a \in Seq(Packet) /\ \A x \in Range(a) : x = f BY <2>1, <2>2, IfIn
  <2>4. <<p>> \in Seq(Packet) /\ \A x \in Range(<<p>>) : x = p BY <1>16, OneIn
  <2>5. out = a \o <<p>> BY <1>2, <2>2
  <2> QED BY <2>3, <2>4, <2>5, RangeOfConcat
<1>18. Sends(i, out)
  <2>1. GoodPacket(i, p)' /\ GoodPacket(i, f)' BY <1>12, <1>15 DEF GoodPacket
  <2>2. i \notin p.to /\ i \notin f.to BY <1>3, <1>15, PeersIn
  <2> QED BY <1>13, <1>15, <1>17, <2>1, <2>2 DEF Sends
<1>19. Effect(i, out) /\ Prepares(i)
  BY <1>0, <1>3, <1>4, <1>6, <1>7, <1>10, <1>11, <1>14, <1>18, Runs
<1>20. Recalls(i) BY <1>4, <1>6, <1>7, DeskRecalls
<1>21. Carries(i, out) BY <1>4, <1>17, ExchangeCarries
<1> QED BY <1>0, <1>17, <1>19, <1>20, <1>21 DEF GoodTurn

-----------------------------------------------------------------------------
(***************************************************************************)
(* The turn of a leader.                                                   *)
(***************************************************************************)
\* The turn's new records F and its resent chunks C, the log L and the voted slots S they make.
TurnOf(i, due, d, F, C, L, S) ==
    /\ GoodDesk(d) /\ F \in Batch /\ LeaderTurn(i, due, d, F, C)
    /\ L = log[i] \cup F /\ S = Slots(F) \cup Slots(InChunks(C))

\* What a leader answers by its desk e: what the desk d held, and fast answers for F.
AnswersNew(i, d, F, L, S, e) ==
    /\ Ran(i, Decide(L, Wins(i, i, L, S)), e) /\ e.witness = d.witness
    /\ \A m \in e.sent : m \in d.sent \/ \E x \in F :
          /\ m.kind = "Fast" /\ m.from = i /\ m.ballot = ballot[i]
          /\ m.req = x.req /\ x.req \in d.witness

\* Its log L with the new records F, what C decides of it, and what it answers.
LEMMA LeaderRuns ==
    ASSUME TypeOK, NEW i \in Replica, NEW due \in BOOLEAN, NEW d, NEW F, NEW C, NEW L, NEW S,
           TurnOf(i, due, d, F, C, L, S)
    PROVE  /\ L \in Batch /\ NewRecords(i, F)
           /\ Wins(i, i, L, S) \in SUBSET L /\ Decide(L, Wins(i, i, L, S)) \in Batch
           /\ \E e : AnswersNew(i, d, F, L, S, e)
           /\ RanVotes(i, i, S)
<1>0. /\ GoodDesk(d) /\ F \in Batch /\ LeaderTurn(i, due, d, F, C)
      /\ L = log[i] \cup F /\ S = Slots(F) \cup Slots(InChunks(C))
  BY DEF TurnOf
<1> DEFINE M == {Fast(i, ballot[i], x.req, Observed(values[i], x.req)) :
                   x \in {y \in F : AnsweredFast(i, L, d.witness, y)}}
           e == [d EXCEPT !.sent = @ \cup M]
<1>1. NewRecords(i, F) /\ CountAck(i, i, L, S, e) BY <1>0 DEF LeaderTurn
<1>2. /\ \A r \in log[i] : r.slot <= high[i]
      /\ high[i] \in -1..MaxSlot /\ MaxSlot \in Nat
      /\ log[i] \in Batch /\ ballot[i] \in Ballot
      /\ values[i] \in SUBSET [req : Request, slot : Slot]
  BY BoundAssumption DEF TypeOK, Consistent
<1>3. L \in Batch
  <2>1. \A x \in F, y \in log[i] : x.slot # y.slot /\ x \in Record /\ y \in Record
    <3> SUFFICES ASSUME NEW x \in F, NEW y \in log[i]
                 PROVE  x.slot # y.slot /\ x \in Record /\ y \in Record
      OBVIOUS
    <3>1. x \in Record /\ y \in Record BY <1>0, <1>2 DEF Batch
    <3>2. x.slot \in Int /\ y.slot \in Int /\ high[i] \in Int BY <1>2, <3>1 DEF Record, Slot
    <3>3. x.slot > high[i] /\ y.slot <= high[i] BY <1>1, <1>2 DEF NewRecords
    <3>4. x.slot # y.slot BY <3>2, <3>3
    <3> QED BY <3>1, <3>4
  <2> QED BY <1>0, <1>2, <2>1 DEF Batch
<1>4. \A m \in M : m \in Message /\ \E x \in F :
         /\ m.kind = "Fast" /\ m.from = i /\ m.ballot = ballot[i]
         /\ m.req = x.req /\ x.req \in d.witness
  <2> SUFFICES ASSUME NEW x \in F, AnsweredFast(i, L, d.witness, x)
               PROVE  LET m == Fast(i, ballot[i], x.req, Observed(values[i], x.req))
                      IN  /\ m \in Message /\ m.kind = "Fast" /\ m.from = i /\ m.ballot = ballot[i]
                          /\ m.req = x.req /\ x.req \in d.witness
    OBVIOUS
  <2>1. x.req \in Request /\ Observed(values[i], x.req) \in SUBSET Request
    BY <1>1, <1>2, ResultType DEF NewRecords
  <2>2. x.req \in d.witness BY DEF AnsweredFast
  <2> QED BY <1>2, <2>1, <2>2 DEF Fast, Message
<1> HIDE DEF M
<1>5. /\ e.witness = d.witness /\ e.recorded = d.recorded /\ e.queue = d.queue
      /\ e.sent = d.sent \cup M
  <2>1. DOMAIN Desk(i) = {"witness", "recorded", "queue", "sent"} BY DEF Desk
  <2> QED BY <1>0, <2>1 DEF GoodDesk
<1>6. GoodDesk(e) BY <1>0, <1>4, <1>5 DEF GoodDesk
<1> HIDE DEF e
<1>7. Ran(i, Decide(L, Wins(i, i, L, S)), e) /\ RanVotes(i, i, S)
  BY <1>1, <1>3, <1>6, CountAckIs
<1>8. Wins(i, i, L, S) \in SUBSET L BY <1>3, WinsIn
<1>9. Decide(L, Wins(i, i, L, S)) \in Batch BY <1>3, <1>8, DecideIs
<1>10. \A m \in e.sent : m \in d.sent \/ \E x \in F :
          /\ m.kind = "Fast" /\ m.from = i /\ m.ballot = ballot[i]
          /\ m.req = x.req /\ x.req \in d.witness
  BY <1>4, <1>5
<1>11. AnswersNew(i, d, F, L, S, e) BY <1>5, <1>7, <1>10 DEF AnswersNew
<1> QED BY <1>1, <1>3, <1>7, <1>8, <1>9, <1>11

\* A new record has no vote but its leader's: it is not decided at once.
LEMMA NewUndecided ==
    ASSUME TypeOK, Shape, Safety, NEW i \in Replica, Leading(i), NEW F \in Batch, NewRecords(i, F),
           NEW L \in Batch, NEW S, NEW r \in Wins(i, i, L, S)
    PROVE  r \notin F
<1> SUFFICES ASSUME r \in F PROVE FALSE OBVIOUS
<1> DEFINE Q == Vote(votes[i], S, i, executed[i])[r.slot]
<1>1. r \in L /\ Cardinality(Q) >= Majority BY DEF Wins
<1>2. r.slot \in Slot /\ r.slot \in Int BY <1>1 DEF Batch, Record, Slot
<1>3. votes[i] \in [Slot -> SUBSET Replica] BY DEF TypeOK
<1>4. \A q \in Q : q \in votes[i][r.slot] \/ q = i
  <2>1. \A s \in Slot : \A q \in Vote(votes[i], S, i, executed[i])[s] :
           q \in votes[i][s] \/ (q = i /\ s \in S)
    BY <1>3, VoteIs
  <2> QED BY <1>2, <2>1
<1>5. votes[i][r.slot] = {}
  <2> SUFFICES ASSUME NEW q \in votes[i][r.slot] PROVE FALSE OBVIOUS
  <2>1. q \in Replica /\ ballot[i] \in Ballot BY <1>2, <1>3 DEF TypeOK
  <2>2. Voted(q, ballot[i], r.slot) BY DEF Voted
  <2>3. Owner(ballot[i]) = i BY DEF Leading
  <2>4. PICK y \in log[i] : y.slot = r.slot BY <1>2, <2>1, <2>2, <2>3 DEF Safety, VoteInv
  <2>5. y.slot <= high[i] /\ high[i] \in Int BY DEF TypeOK, Consistent
  <2>6. r.slot > high[i] BY DEF NewRecords
  <2> QED BY <1>2, <2>4, <2>5, <2>6
<1>6. Q \subseteq {i} BY <1>4, <1>5
<1> HIDE DEF Q
<1> QED BY <1>1, <1>6, NoLoneQuorum

\* The records of its log may be proposed and, where they have won, announced.
LEMMA LeaderProposes ==
    ASSUME TypeOK, TypeOK', Shape, NEW i \in Replica, Leading(i), ballot'[i] = ballot[i],
           Led(ballot[i])', NEW F \in Batch, NewRecords(i, F),
           NEW L \in Batch, L = log[i] \cup F, NEW C \in SUBSET L, log'[i] = Decide(L, C),
           \A r \in C : Won(i, r.slot) /\ r.ballot = ballot[i] /\ r \in log[i]
    PROVE  /\ \A y \in L : Proposable(i, y) /\ FreshVote(i, ballot[i], y.slot)
           /\ \A y \in C : Decidable(i, y)
           /\ \A x \in F : NewHere(i, x)
<1>1. PICK b : b = ballot[i] OBVIOUS
<1>2. b \in Nat /\ ballot'[i] = b /\ Owner(b) = i /\ Led(b)'
  <2>1. Led(b)' BY <1>1 DEF Led
  <2> QED BY <1>1, <2>1, BallotTypes DEF Leading
<1>3. \A y \in L : \E x \in log'[i] :
         /\ x.slot = y.slot /\ x.req = y.req /\ x.ballot = y.ballot
         /\ y.committed => x.committed
  BY DecideIs
<1>4. \A y \in log[i] : y.ballot = b \/ y.committed BY <1>1 DEF Shape, LogShape, GoodLog
<1>5. \A y \in F : y.ballot = b /\ ~y.committed BY <1>1 DEF NewRecords
<1>6. ASSUME NEW y \in L PROVE FreshVote(i, b, y.slot)
  <2>1. PICK x \in log'[i] : x.slot = y.slot /\ x.ballot = y.ballot /\ (y.committed => x.committed)
    BY <1>3
  <2>2. y.ballot = b \/ y.committed BY <1>4, <1>5
  <2>3. x.ballot >= b \/ x.committed BY <1>2, <2>1, <2>2
  <2> QED BY <1>1, <1>2, <2>1, <2>3 DEF FreshVote
<1>7. Stays(i, b) BY <1>1, <1>2 DEF Stays
<1>8. ASSUME NEW y \in F, NEW x, x.slot = y.slot, x.req = y.req, x.ballot = b, ~x.committed
      PROVE  NewHere(i, x)
  <2>1. \A z \in log[i] : z.slot # x.slot
    <3> TAKE z \in log[i]
    <3>1. y.slot > high[i] BY DEF NewRecords
    <3>2. z.slot <= high[i] /\ high[i] \in Int BY DEF TypeOK, Consistent
    <3>3. z \in Record /\ y \in Record BY LogType DEF Batch
    <3>4. z.slot \in Int /\ y.slot \in Int BY <3>3 DEF Record, Slot
    <3> QED BY <1>8, <3>1, <3>2, <3>4
  <2>2. \E z \in log'[i] : z.slot = x.slot /\ z.req = x.req
    <3>1. y \in L OBVIOUS
    <3>2. PICK z \in log'[i] : z.slot = y.slot /\ z.req = y.req BY <1>3, <3>1
    <3> QED BY <1>8, <3>2
  <2>3. Fresh(x) BY <1>7, <1>8, <2>1, <2>2 DEF Fresh
  <2> QED BY <1>2, <1>8, <2>3 DEF NewHere, Made
<1>9. ASSUME NEW y \in log[i], NEW x, x.slot = y.slot, x.req = y.req, x.ballot = b, ~x.committed
      PROVE  NewHere(i, x)
  <2>1. y.ballot = x.ballot \/ y.committed BY <1>4, <1>9
  <2>2. Restated(x) BY <1>7, <1>9, <2>1 DEF Restated
  <2> QED BY <1>2, <1>9, <2>2 DEF NewHere, Made
<1>10. \A y \in L : Proposable(i, y) BY <1>1, <1>6, <1>8, <1>9 DEF Proposable
<1>11. ASSUME NEW y \in C PROVE Decidable(i, y)
  <2>1. Won(i, y.slot) /\ y.ballot = ballot[i] /\ y \in Known /\ y \in L BY InKnown
  <2>2. \E z \in log'[i] : z.slot = y.slot /\ z.ballot = y.ballot BY <1>3, <2>1
  <2>3. ASSUME NEW x, x.slot = y.slot, x.req = y.req, x.ballot = ballot[i] PROVE NewHere(i, x)
    BY <2>1, <2>2, <2>3, WonChosen
  <2> QED BY <2>1, <2>3 DEF Decidable
<1>12. \A x \in F : NewHere(i, x) BY <1>5, <1>8
<1> QED BY <1>1, <1>6, <1>10, <1>11, <1>12

\* The tick of a leader.
LEMMA TurnTickLeader ==
    ASSUME TypeOK, TypeOK', Shape, Safety, NEW i \in Replica, NEW due \in BOOLEAN,
           TickLeader(i, due)
    PROVE  GoodTurn(i)
<1> USE DEF clientVars
<1>0. Alone(i) BY TypeTickLeader
<1>1. /\ leader[i] = i /\ ~preparing[i]
      /\ UNCHANGED <<ballot, leader, preparing, recoveryEnd, pages, promises, alive, clientVars>>
  BY LeaderTurnIs
<1>2. PICK o \in Seq(Request) : \E A \in SUBSET Range(o) :
         GoodDesk(Submitted(i, o, A)) /\ Turn(i, due, Submitted(i, o, A))
  BY LeaderTurnIs
<1>3. PICK A \in SUBSET Range(o) : GoodDesk(Submitted(i, o, A)) /\ Turn(i, due, Submitted(i, o, A))
  BY <1>2
<1>4. PICK d : d = Submitted(i, o, A) OBVIOUS
<1>5. GoodDesk(d) /\ Turn(i, due, d) BY <1>3, <1>4
<1>6. PICK F \in Batch : LeaderTurn(i, due, d, F, Repeats(i, F, due)) BY <1>5 DEF Turn
<1>7. PICK C, L, S, won, b :
         /\ C = Repeats(i, F, due) /\ L = log[i] \cup F
         /\ S = Slots(F) \cup Slots(InChunks(C)) /\ won = Wins(i, i, L, S) /\ b = ballot[i]
  OBVIOUS
<1>8. LeaderTurn(i, due, d, F, C) BY <1>6, <1>7
<1>9. /\ L \in Batch /\ NewRecords(i, F)
      /\ won \in SUBSET L /\ Decide(L, won) \in Batch /\ RanVotes(i, i, S)
      /\ \E e : AnswersNew(i, d, F, L, S, e)
  <2>1. TurnOf(i, due, d, F, C, L, S) BY <1>5, <1>6, <1>7, <1>8 DEF TurnOf
  <2>2. won = Wins(i, i, L, S) BY <1>7
  <2>3. L \in Batch /\ NewRecords(i, F) BY <2>1, LeaderRuns
  <2>4. Wins(i, i, L, S) \in SUBSET L BY <2>1, LeaderRuns
  <2>5. Decide(L, Wins(i, i, L, S)) \in Batch BY <2>1, LeaderRuns
  <2>6. RanVotes(i, i, S) /\ \E e : AnswersNew(i, d, F, L, S, e) BY <2>1, LeaderRuns
  <2> QED BY <2>2, <2>3, <2>4, <2>5, <2>6
<1>10. PICK e : /\ Ran(i, Decide(L, won), e) /\ e.witness = d.witness
                /\ \A m \in e.sent : m \in d.sent \/ \E x \in F :
                      /\ m.kind = "Fast" /\ m.from = i /\ m.ballot = ballot[i]
                      /\ m.req = x.req /\ x.req \in d.witness
  <2>1. PICK e : AnswersNew(i, d, F, L, S, e) BY <1>9
  <2>2. won = Wins(i, i, L, S) BY <1>7
  <2> QED BY <2>1, <2>2 DEF AnswersNew
<1>11. Owner(ballot[i]) = i /\ Leading(i) BY <1>1 DEF Shape, Leads, Leading
<1>12. Led(ballot[i]) BY <1>1, <1>11 DEF Led
<1>13. ballot'[i] = ballot[i] /\ log'[i] = Decide(L, won) BY <1>1, <1>10 DEF Ran
<1>14. Role(i) /\ Led(ballot[i])' BY <1>0, <1>1, <1>12, RoleKept
<1>15. \A r \in won : Won(i, r.slot) /\ r.ballot = ballot[i] /\ r \in log[i]
  <2> TAKE r \in won
  <2>1. \A s \in S : i = i \/ Voted(i, ballot[i], s) OBVIOUS
  <2>2. Won(i, r.slot) /\ r.ballot = ballot[i] BY <1>7, <1>9, <2>1, WinsWon
  <2>3. r \notin F BY <1>7, <1>9, <1>11, NewUndecided
  <2> QED BY <1>7, <1>9, <2>2, <2>3
<1>16. /\ \A y \in L : Proposable(i, y) /\ FreshVote(i, ballot[i], y.slot)
       /\ \A y \in won : Decidable(i, y)
       /\ \A x \in F : NewHere(i, x)
  <2>1. /\ Leading(i) /\ ballot'[i] = ballot[i] /\ Led(ballot[i])'
        /\ F \in Batch /\ NewRecords(i, F) /\ L \in Batch /\ L = log[i] \cup F
        /\ won \in SUBSET L /\ log'[i] = Decide(L, won)
        /\ \A r \in won : Won(i, r.slot) /\ r.ballot = ballot[i] /\ r \in log[i]
    BY <1>6, <1>7, <1>9, <1>11, <1>13, <1>14, <1>15
  <2>2. \A y \in L : Proposable(i, y) /\ FreshVote(i, ballot[i], y.slot) BY <2>1, LeaderProposes
  <2>3. \A y \in won : Decidable(i, y) BY <2>1, LeaderProposes
  <2>4. \A x \in F : NewHere(i, x) BY <2>1, LeaderProposes
  <2> QED BY <2>2, <2>3, <2>4
<1>17. Grows(i, Decide(L, won))
  <2>1. Grows(i, log[i]) BY LogGrows
  <2>2. b \in Nat BY <1>7, BallotTypes
  <2>3. \A x \in F : x.ballot = b BY <1>7, <1>9 DEF NewRecords
  <2>4. \A x \in F : x.ballot <= ballot[i] /\ x.ballot = ballot[i] BY <1>7, <2>2, <2>3
  <2>5. Grows(i, L) BY <1>7, <1>16, <2>1, <2>4 DEF Grows
  <2>6. \A r \in won : r \in Known BY <1>15, InKnown
  <2> QED BY <1>9, <1>13, <1>15, <2>5, <2>6, DecideGrows
<1>18. C \in Seq(SUBSET L) /\ \A R \in Range(C) : \A y \in R : y \in L
  <2>1. C \in Seq(SUBSET L)
    <3>1. executed[i] + 1 \in Int /\ high[i] + Cardinality(F) \in Int
      <4>1. executed[i] \in -1..MaxSlot /\ high[i] \in -1..MaxSlot /\ MaxSlot \in Nat
        BY BoundAssumption DEF TypeOK
      <4>2. Cardinality(F) \in Nat BY <1>9, CardNat DEF NewRecords
      <4> QED BY <4>1, <4>2
    <3>2. Chunks(L, executed[i] + 1, high[i] + Cardinality(F)) \in Seq(SUBSET L) BY <3>1, ChunksIn
    <3>3. C = IF due THEN Chunks(L, executed[i] + 1, high[i] + Cardinality(F)) ELSE <<>>
      BY <1>7 DEF Repeats
    <3> QED BY <3>2, <3>3
  <2>2. \A R \in Range(C) : R \in SUBSET L BY <2>1, RangeType
  <2> QED BY <2>1, <2>2
<1>19. \A s \in S : FreshVote(i, ballot[i], s)
  <2>1. ASSUME NEW y \in F PROVE FreshVote(i, ballot[i], y.slot)
    <3>1. y \in L BY <1>7
    <3> QED BY <1>16, <3>1
  <2>2. ASSUME NEW y \in InChunks(C) PROVE FreshVote(i, ballot[i], y.slot)
    <3>1. \E R \in Range(C) : y \in R BY DEF InChunks, Range
    <3>2. y \in L BY <1>18, <3>1
    <3> QED BY <1>16, <3>2
  <2> QED BY <1>7, <2>1, <2>2 DEF Slots
<1>20. Counts(i)
  <2>1. PICK k : k = i OBVIOUS
  <2>2. \A s \in Slot : \A q \in votes'[i][s] : q \in votes[i][s] \/ (q = k /\ s \in S)
    BY <1>9, <2>1 DEF RanVotes
  <2>3. \A s \in S : Voted(k, ballot[i], s) \/ (k = i /\ FreshVote(i, ballot[i], s))
    BY <1>19, <2>1
  <2> QED BY <1>13, <2>2, <2>3, RanCounts
<1>21. PICK p, q, r, s : /\ p = If(Wakes(i), ReadyAll(i, TRUE))
                         /\ q = If(F # {}, Proposed(i, <<F>>, {}))
                         /\ r = ReadyAll(i, Serves(i)) \o Proposed(i, C, won)
                         /\ s = If(due, r)
  OBVIOUS
<1>22. Send(i, p \o q \o s) BY <1>7, <1>8, <1>21 DEF LeaderTurn
<1>23. p \in Seq(Packet) /\ Sends(i, p)
  <2>1. TRUE \in BOOLEAN OBVIOUS
  <2>2. ReadyAll(i, TRUE) \in Seq(Packet) /\ Sends(i, ReadyAll(i, TRUE))
    BY <1>11, <1>13, <1>14, <2>1, ReadySends
  <2> QED BY <1>21, <2>2, SendsIf
<1>24. {} \in Batch BY DEF Batch
<1>25. q \in Seq(Packet) /\ Sends(i, q)
  <2>1. PICK D : D = <<F>> OBVIOUS
  <2>2. D \in Seq(SUBSET F) /\ \A R \in Range(D) : R = F BY <2>1 DEF Range
  <2>3. \A R \in Range(D) : \A y \in R : Proposable(i, y)
    <3>1. \A y \in F : y \in L BY <1>7
    <3> QED BY <1>16, <2>2, <3>1
  <2>4. \A y \in {} : Decidable(i, y) OBVIOUS
  <2>5. Proposed(i, D, {}) \in Seq(Packet) BY <1>24, <2>2, ProposedType
  <2>6. Sends(i, Proposed(i, D, {}))
    BY <1>11, <1>13, <1>14, <1>24, <2>2, <2>3, <2>4, ProposalSends
  <2>7. PICK a : a = Proposed(i, D, {}) OBVIOUS
  <2>8. a \in Seq(Packet) /\ Sends(i, a) /\ q = If(F # {}, a) BY <1>21, <2>1, <2>5, <2>6, <2>7
  <2> QED BY <2>8, SendsIf
<1>26. s \in Seq(Packet) /\ Sends(i, s)
  <2>1. Serves(i) \in BOOLEAN
    <3>1. active[i] \in BOOLEAN BY DEF TypeOK
    <3> QED BY <3>1 DEF Serves, Wakes
  <2>2. ReadyAll(i, Serves(i)) \in Seq(Packet) /\ Sends(i, ReadyAll(i, Serves(i)))
    BY <1>11, <1>13, <1>14, <2>1, ReadySends
  <2>3. won \in Batch BY <1>9, SubBatch
  <2>4. \A R \in Range(C) : \A y \in R : Proposable(i, y) BY <1>16, <1>18
  <2>5. \A y \in won : Decidable(i, y) BY <1>16
  <2>6. Proposed(i, C, won) \in Seq(Packet) BY <1>9, <1>18, <2>3, ProposedType
  <2>7. Sends(i, Proposed(i, C, won))
    BY <1>9, <1>11, <1>13, <1>14, <1>18, <2>3, <2>4, <2>5, ProposalSends
  <2>8. r \in Seq(Packet) /\ Sends(i, r) BY <1>21, <2>2, <2>6, <2>7, SendsBoth
  <2> QED BY <1>21, <2>8, SendsIf
<1>27. PICK a, out : a = p \o q /\ out = a \o s OBVIOUS
<1>28. a \in Seq(Packet) /\ Sends(i, a) BY <1>23, <1>25, <1>27, SendsBoth
<1>29. out \in Seq(Packet) /\ Sends(i, out) BY <1>26, <1>27, <1>28, SendsBoth
<1>30. Carries(i, out) BY <1>22, <1>27, <1>29, SendCarries
<1>31. Effect(i, out) /\ Prepares(i)
  BY <1>0, <1>1, <1>9, <1>10, <1>12, <1>13, <1>17, <1>20, <1>29, Runs
<1>32. Recalls(i)
  <2>1. d.witness = witness[i] \cup A /\ d.sent = {} BY <1>1, <1>4 DEF Submitted
  <2>2. witness[i] \subseteq e.witness BY <1>10, <2>1
  <2>3. ASSUME NEW m \in e.sent, Heeded(m) PROVE Says(i, m)
    <3>1. PICK x \in F : /\ m.kind = "Fast" /\ m.from = i /\ m.ballot = ballot[i]
                         /\ m.req = x.req /\ x.req \in e.witness
      BY <1>10, <2>1
    <3>2. x \in L BY <1>7
    <3>3. Has(i, m.req)'
      <4>1. PICK z \in Decide(L, won) : z.req = x.req BY <1>9, <3>2, DecideIs
      <4> QED BY <1>13, <3>1, <4>1 DEF Has
    <3>4. m.req \in witness'[i] \/ Done(i, m.req)' BY <1>10, <1>13, <3>1 DEF Ran, Done
    <3>5. m.ballot >= known[ClientOf[m.req]] BY <2>3 DEF Heeded
    <3> QED BY <1>11, <1>13, <3>1, <3>3, <3>4, <3>5 DEF Says
  <2> QED BY <1>1, <1>10, <1>13, <2>2, <2>3, RanRecalls
<1> QED BY <1>0, <1>29, <1>30, <1>31, <1>32 DEF GoodTurn

-----------------------------------------------------------------------------
(***************************************************************************)
(* Init establishes the invariants: everyone is in the ballot of the first *)
(* leader, and there is nothing anywhere.                                  *)
(***************************************************************************)
\* Quorums are not empty.
LEMMA QuorumsInhabited ==
    /\ Replica \in Quorum
    /\ \A Q \in Quorum \cup FastQuorums : Q \in SUBSET Replica /\ \E q \in Replica : q \in Q
<1>1. Replica \in Quorum
  <2>1. Cardinality(Replica) = N BY ReplicasFinite
  <2>2. N >= Majority BY NAssumption DEF Majority
  <2> QED BY <2>1, <2>2 DEF Quorum
<1>2. Majority > 0 /\ FastQuorum > 0 BY NAssumption DEF Majority, FastQuorum
<1>3. Cardinality({}) = 0 BY FS_EmptySet
<1>4. ASSUME NEW Q \in Quorum \cup FastQuorums
      PROVE  Q \in SUBSET Replica /\ \E q \in Replica : q \in Q
  <2>1. Q \in SUBSET Replica /\ (Cardinality(Q) >= Majority \/ Cardinality(Q) >= FastQuorum)
    BY DEF Quorum, FastQuorums
  <2>2. Majority \in Int /\ FastQuorum \in Int BY NAssumption DEF Majority, FastQuorum
  <2>3. Q # {} BY <1>2, <1>3, <2>1, <2>2
  <2> QED BY <2>1, <2>3
<1> QED BY <1>1, <1>4

\* The first state.
LEMMA InitState ==
    ASSUME Init
    PROVE  /\ InitLeader \in Ballot /\ InitLeader \in Nat /\ Owner(InitLeader) = InitLeader
           /\ InitLeader \in Replica
           /\ \A i \in Replica :
                 /\ ballot[i] = InitLeader /\ leader[i] = InitLeader /\ ~preparing[i]
                 /\ log[i] = {} /\ executed[i] = -1 /\ values[i] = {} /\ pages[i] = {}
                 /\ \A s \in Slot : votes[i][s] = {}
                 /\ \A j \in Replica : Way(i, j) = {}
           /\ Known = {} /\ Promised = {}
<1> USE DEF Init, PerReplica
<1>1. InitLeader \in Ballot /\ InitLeader \in Nat
  BY LeaderAssumption, BoundAssumption, NAssumption DEF Ballot
<1>2. InitLeader \in Replica BY LeaderAssumption DEF Replica
<1>3. InitLeader % N = InitLeader
  <2>1. N \in Nat \ {0} /\ 0 \in Nat /\ InitLeader \in 0..(N - 1)
    BY LeaderAssumption, NAssumption
  <2>2. (0 * N + InitLeader) % N = InitLeader BY <2>1, Remainder
  <2>3. 0 * N + InitLeader = InitLeader BY <2>1
  <2> QED BY <2>2, <2>3
<1>4. \A i, j \in Replica : net[i][j] = <<>> OBVIOUS
<1>5. Range(<<>>) = {} BY DEF Range
<1>6. \A i, j \in Replica : Way(i, j) = {} BY <1>4, <1>5 DEF Way
<1>7. \A i \in Replica : /\ log[i] = {} /\ pages[i] = {} /\ Flying(i) = {}
  BY <1>6 DEF Flying
<1>8. Promised = {} BY <1>7 DEF Promised, OnTheWay
<1>9. Known = {} BY <1>6, <1>7, <1>8, InKnown
<1>10. \A i \in Replica : \A s \in Slot : votes[i][s] = {} BY DEF NoVotes
<1> QED BY <1>1, <1>2, <1>3, <1>6, <1>7, <1>8, <1>9, <1>10 DEF Owner

\* Nobody has voted,
LEMMA InitNoVotes ==
    ASSUME Init, NEW q \in Replica, NEW b \in Ballot, NEW s \in Slot PROVE ~Voted(q, b, s)
<1>1. Flying(q) = {} BY InitState DEF Flying
<1> QED BY <1>1, InitState DEF Voted

\* everything fits together,
LEMMA InitShape == ASSUME Init PROVE Shape
<1> DEFINE b == InitLeader
<1>1. /\ b \in Ballot /\ Owner(b) = b /\ b \in Replica
      /\ \A i \in Replica : ballot[i] = b /\ leader[i] = b /\ ~preparing[i]
  BY InitState
<1>2. Led(b) BY <1>1 DEF Led
<1>3. Leads BY <1>1, <1>2 DEF Leads
<1>4. \A s \in 0..(-1) : FALSE OBVIOUS
<1>5. LogShape BY <1>4, InitState DEF LogShape, GoodLog
<1>6. Traffic BY InitState DEF Traffic
<1>7. PromiseShape BY InitState DEF PromiseShape
<1>8. OneSnapshot
  <2>1. \A q, c : Pages(q, c) = {} BY InitState DEF Pages
  <2>2. IsFiniteSet({}) BY FS_EmptySet
  <2> QED BY <2>1, <2>2 DEF OneSnapshot, OneSnapshotOf
<1>9. Preparation BY <1>1 DEF Preparation
<1> QED BY <1>3, <1>5, <1>6, <1>7, <1>8, <1>9 DEF Shape

\* nothing can have been chosen before,
LEMMA InitNothingChosen ==
    ASSUME Init, NEW b \in Ballot, b < InitLeader, NEW s \in Slot PROVE ~CanChoose(b, s)
<1> SUFFICES ASSUME NEW Q \in Quorum, \A q \in Q : ballot[q] <= b \/ Voted(q, b, s) PROVE FALSE
  BY DEF CanChoose
<1>1. PICK q \in Replica : q \in Q BY QuorumsInhabited
<1>2. ballot[q] = InitLeader /\ ~Voted(q, b, s) BY InitState, InitNoVotes
<1>3. InitLeader <= b BY <1>1, <1>2
<1> QED BY <1>3, BallotNat, InitState

\* and there is nothing to be safe,
LEMMA InitSafety == ASSUME Init PROVE Safety
<1>1. VoteInv BY InitNoVotes DEF VoteInv
<1>2. OneValue /\ Owned /\ Safe /\ Locked BY InitState DEF OneValue, Owned, Safe, Locked
<1>3. Established
  <2> SUFFICES ASSUME NEW i \in Replica
               PROVE  /\ Elected(ballot[i])
                      /\ \A s \in Slot, b \in Ballot : b < ballot[i] => ~CanChoose(b, s)
    BY DEF Established
  <2>1. \A q \in Replica : ballot[q] >= ballot[i]
    <3>1. \A q \in Replica : ballot[q] = InitLeader BY InitState
    <3>2. InitLeader >= InitLeader BY InitState
    <3> QED BY <3>1, <3>2
  <2>2. Elected(ballot[i]) BY <2>1, QuorumsInhabited DEF Elected
  <2> QED BY <2>2, InitNothingChosen, InitState
<1> QED BY <1>1, <1>2, <1>3 DEF Safety

\* or to be remembered.
LEMMA InitMemory == ASSUME Init PROVE Memory
<1>1. TypeOK BY TypeInit
<1>2. sent = {} /\ (\A c \in Client : known[c] = -1) /\ Completed = {} BY DEF Init, Completed
<1>3. \A r \in Request : ClientOf[r] \in Client BY DEF Client
<1>4. \A b \in Ballot : b # -1 BY BallotNat
<1>5. \A q \in Replica, r \in Request, b \in Ballot : ~Backed(q, r, b)
  BY <1>2, <1>3, <1>4 DEF Backed
<1>6. \A r \in Request, b \in Ballot : ~Replied(r, b) BY <1>2, <1>3, <1>4 DEF Replied
<1>7. Answering
  <2> SUFFICES ASSUME NEW r \in Request, NEW b \in Ballot, CanAnswer(r, b), NEW i \in Replica,
                      ballot[i] > b
               PROVE  FALSE
    BY DEF Answering
  <2>1. PICK W \in FastQuorums : \A q \in W : ballot[q] <= b \/ Backed(q, r, b) BY DEF CanAnswer
  <2>2. PICK q \in Replica : q \in W BY QuorumsInhabited
  <2>3. ballot[q] <= b BY <1>5, <2>1, <2>2
  <2>4. ballot[q] = InitLeader /\ ballot[i] = InitLeader /\ InitLeader \in Int BY InitState
  <2>5. b \in Int BY BallotNat
  <2> QED BY <2>3, <2>4, <2>5
<1> QED BY <1>2, <1>5, <1>6, <1>7 DEF Memory, Backing, Replying, Syncing, Timely, Finished

-----------------------------------------------------------------------------
(***************************************************************************)
(* Every step keeps them.                                                  *)
(***************************************************************************)
Invariants == TypeOK /\ Shape /\ Safety /\ Memory

\* The turn of a replica keeps them.
LEMMA TurnKeeps ==
    ASSUME Invariants, TypeOK', NEW i \in Replica, GoodTurn(i) PROVE Invariants'
<1>1. TypeOK /\ Shape /\ Safety /\ Memory BY DEF Invariants
<1>2. Alone(i) /\ Prepares(i) /\ Recalls(i) BY DEF GoodTurn
<1>3. PICK out \in Seq(Packet) : Carries(i, out) /\ Effect(i, out) BY DEF GoodTurn
<1>4. Shape' BY <1>1, <1>2, <1>3, ShapeStays
<1>5. Advance BY <1>1, <1>2, <1>3, TurnAdvances
<1>6. Safety' BY <1>1, <1>4, <1>5, SafetyStays
<1>7. Memory' BY <1>1, <1>2, <1>4, <1>5, <1>6, MemoryStays
<1> QED BY <1>4, <1>6, <1>7 DEF Invariants

\* The replicas stand still: a step of a client, or none.
LEMMA StillTurns ==
    ASSUME TypeOK, TypeOK', Shape, \A q \in Replica : Same(q), net' = net,
           witness' = witness, sent' = sent, UNCHANGED <<known, evidence, done>>
    PROVE  \E i \in Replica : GoodTurn(i)
<1>1. PICK i \in Replica : \E out \in Seq(Packet) :
         Alone(i) /\ Carries(i, out) /\ Effect(i, out) /\ Prepares(i)
  BY AllSame
<1>2. Recalls(i) BY Quiet
<1> QED BY <1>1, <1>2 DEF GoodTurn

\* A client reads a message.
LEMMA HearKeeps ==
    ASSUME Invariants, TypeOK', NEW m \in sent, Hear(m), \A q \in Replica : Same(q)
    PROVE  Invariants'
<1>1. TypeOK /\ Shape /\ Safety /\ Memory BY DEF Invariants
<1>2. net' = net BY DEF Hear
<1>3. PICK i \in Replica : \E out \in Seq(Packet) :
         Alone(i) /\ Carries(i, out) /\ Effect(i, out) /\ Prepares(i)
  BY <1>1, <1>2, AllSame
<1>4. PICK out \in Seq(Packet) : Alone(i) /\ Carries(i, out) /\ Effect(i, out) /\ Prepares(i)
  BY <1>3
<1>5. Shape' BY <1>1, <1>4, ShapeStays
<1>6. Advance BY <1>1, <1>4, TurnAdvances
<1>7. Safety' BY <1>1, <1>5, <1>6, SafetyStays
<1>8. Memory' BY <1>1, <1>5, <1>6, <1>7, HearKeepsMemory
<1> QED BY <1>5, <1>7, <1>8 DEF Invariants

\* Every packet received makes a good turn.
LEMMA ReceiveTurns ==
    ASSUME TypeOK, TypeOK', Shape, Safety, NEW i \in Replica, NEW j \in Replica, Receive(i, j)
    PROVE  GoodTurn(i)
<1>1. net[j][i] # <<>> BY ReceiveIs
<1>2. PICK m \in Packet :
         /\ m \in Way(j, i)
         /\ \/ ReceivePrepare(i, j, m)
            \/ CollectPromise(i, j, m)
            \/ TakeOver(i, j, m)
            \/ \E fetch \in BOOLEAN : ReceiveAccept(i, j, m, fetch)
            \/ ReceiveAck(i, j, m)
            \/ ReceiveCommit(i, j, m)
            \/ \E fetch \in BOOLEAN : ReceiveReady(i, j, m, fetch)
            \/ ReceiveFetch(i, j, m)
            \/ Ignore(i, j, m)
  BY ReceiveIs
<1>3. CASE ReceivePrepare(i, j, m) BY <1>1, <1>2, <1>3, TurnPrepare
<1>4. CASE CollectPromise(i, j, m) BY <1>1, <1>2, <1>4, TurnCollect
<1>5. CASE TakeOver(i, j, m) BY <1>1, <1>2, <1>5, TurnTakeOver
<1>6. CASE \E fetch \in BOOLEAN : ReceiveAccept(i, j, m, fetch)
  BY <1>1, <1>2, <1>6, TurnAccept
<1>7. CASE ReceiveAck(i, j, m) BY <1>1, <1>2, <1>7, TurnAck
<1>8. CASE ReceiveCommit(i, j, m) BY <1>1, <1>2, <1>8, TurnCommit
<1>9. CASE \E fetch \in BOOLEAN : ReceiveReady(i, j, m, fetch)
  BY <1>1, <1>2, <1>9, TurnReady
<1>10. CASE ReceiveFetch(i, j, m) BY <1>1, <1>2, <1>10, TurnFetch
<1>11. CASE Ignore(i, j, m) BY <1>1, <1>11, TurnIgnore
<1> QED BY <1>2, <1>3, <1>4, <1>5, <1>6, <1>7, <1>8, <1>9, <1>10, <1>11

\* So does every step.
LEMMA NextKeeps == Invariants /\ [Next]_vars => Invariants'
<1> SUFFICES ASSUME Invariants, [Next]_vars PROVE Invariants' OBVIOUS
<1>0. TypeOK /\ Shape /\ Safety BY DEF Invariants
<1>1. TypeOK' BY <1>0, TypeNext
<1>2. CASE UNCHANGED vars
  <2>1. \A q \in Replica : Same(q)
    BY <1>2 DEF Same, vars, roleVars, logVars, reqVars, recordVars, quorumVars
  <2>2. net' = net /\ witness' = witness /\ sent' = sent /\ UNCHANGED <<known, evidence, done>>
    BY <1>2 DEF vars, recordVars, clientVars
  <2>3. \E i \in Replica : GoodTurn(i) BY <1>0, <1>1, <2>1, <2>2, StillTurns
  <2> QED BY <1>1, <2>3, TurnKeeps
<1>3. ASSUME NEW r \in Request, Issue(r) PROVE Invariants'
  <2>1. \A q \in Replica : Same(q) BY <1>0, <1>3, TypeIssue
  <2>2. net' = net /\ witness' = witness /\ sent' = sent /\ UNCHANGED <<known, evidence, done>>
    BY <1>3 DEF Issue, recordVars
  <2>3. \E i \in Replica : GoodTurn(i) BY <1>0, <1>1, <2>1, <2>2, StillTurns
  <2> QED BY <1>1, <2>3, TurnKeeps
<1>4. ASSUME NEW i \in Replica, NEW r \in Request, Propose(i, r) PROVE GoodTurn(i)
  BY <1>0, <1>1, <1>4, TurnPropose
<1>5. ASSUME NEW i \in Replica, TickBegin(i) \/ TickPrepare(i) \/ TickFollower(i)
      PROVE  GoodTurn(i)
  BY <1>0, <1>1, <1>5, TurnTickBegin, TurnTickPrepare, TurnTickFollower
<1>6. ASSUME NEW i \in Replica, NEW due \in BOOLEAN, TickLeader(i, due) PROVE GoodTurn(i)
  BY <1>0, <1>1, <1>6, TurnTickLeader
<1>7. ASSUME NEW i \in Replica, NEW j \in Replica, Receive(i, j) PROVE GoodTurn(i)
  BY <1>0, <1>1, <1>7, ReceiveTurns
<1>8. ASSUME NEW i \in Replica, NEW j \in Replica, LinkDown(i, j) PROVE GoodTurn(i)
  BY <1>0, <1>1, <1>8, TurnLinkDown
<1>9. ASSUME NEW m \in sent, Hear(m) PROVE Invariants'
  <2>1. \A q \in Replica : Same(q) BY <1>0, <1>9, HearType
  <2> QED BY <1>1, <1>9, <2>1, HearKeeps
<1>10. (\E i \in Replica : GoodTurn(i)) => Invariants' BY <1>1, TurnKeeps
<1> QED BY <1>2, <1>3, <1>4, <1>5, <1>6, <1>7, <1>8, <1>9, <1>10 DEF Next

\* They hold in the beginning,
LEMMA InitKeeps == Init => Invariants
BY TypeInit, InitShape, InitSafety, InitMemory DEF Invariants

\* and so always.
LEMMA InvariantsHold == Spec => []Invariants
BY InitKeeps, NextKeeps, PTL DEF Spec

\* The replicas, the packets and the promises always fit together: who leads a
\* ballot, what has been promised to it, what has been voted for and locked in
\* it, and which records may exist (recovery.go, core.go).
THEOREM ReplicasConsistent == Spec => [](Shape /\ Safety)
<1>1. Invariants => Shape /\ Safety BY DEF Invariants
<1> QED BY <1>1, InvariantsHold, PTL

\* Two replicas never commit different commands in the same slot: neither the
\* acknowledgements that each counts for itself (ack) nor a leader that takes
\* over from promises (promiseReply) can make them.
THEOREM LogsAgree == Spec => []Agreement
<1>1. Invariants => Agreement BY SafetyAgrees DEF Invariants
<1> QED BY <1>1, InvariantsHold, PTL

\* What a client may still hear, or has counted, is remembered: by a majority
\* that has locked the request, or by the witnesses that every later leader
\* asks (submit, promise, promiseReply, client.go).
THEOREM RequestsRemembered == Spec => []Memory
<1>1. Invariants => Memory BY DEF Invariants
<1> QED BY <1>1, InvariantsHold, PTL

\* A request that its client has counted as completed, also from the fast
\* answer and the witnesses' records alone (tryFast), is in the log of every
\* later leader that has finished recovery.
THEOREM CompletedRequestsSurvive == Spec => []CompletedSurvives
<1>1. Invariants => CompletedSurvives BY MemorySurvives DEF Invariants
<1> QED BY <1>1, InvariantsHold, PTL
=============================================================================
