----------------------------- MODULE CurpProofs -----------------------------
(***************************************************************************)
(* Theorems about Curp, for every number of replicas, every finite set of  *)
(* requests and all values of the bounds: its types and, from the line     *)
(* "Ballots, owners and quorums" on, that a step which advances the protocol*)
(* (Advance) keeps Safety, and that Safety implies agreement.              *)
(***************************************************************************)
EXTENDS CurpInvariant, FiniteSetTheorems, SequenceTheorems, WellFoundedInduction, TLAPS

-----------------------------------------------------------------------------
(***************************************************************************)
(* Numbers and finite sets.                                                *)
(***************************************************************************)
\* A set of naturals has a least element.
LEMMA Smallest ==
    ASSUME NEW T \in SUBSET Nat, T # {}
    PROVE  \E x \in T : \A y \in T : x <= y
<1> DEFINE R == {p \in Nat \X Nat : p[1] < p[2]}
<1>1. IsWellFoundedOn(R, Nat) BY NatLessThanWellFounded DEF OpToRel
<1>2. PICK x \in T : \A y \in T : ~ (<<y, x>> \in R) BY <1>1, WFMin
<1>3. \A y \in T : x <= y
  <2> TAKE y \in T
  <2>1. x \in Nat /\ y \in Nat OBVIOUS
  <2>2. ~(y < x) BY <1>2, <2>1
  <2> QED BY <2>1, <2>2
<1> QED BY <1>3

\* The image of a finite set under a function that reaches all of T.
LEMMA FiniteSurjection ==
    ASSUME NEW S, NEW T, IsFiniteSet(S), NEW f \in [S -> T],
           \A t \in T : \E s \in S : f[s] = t
    PROVE  IsFiniteSet(T)
<1>1. f \in Surjection(S, T) BY DEF Surjection
<1> QED BY <1>1, FS_Surjection

\* A one-to-one correspondence keeps the number of elements.
LEMMA FiniteBijection ==
    ASSUME NEW S, NEW T, IsFiniteSet(S), NEW f \in [S -> T],
           \A t \in T : \E s \in S : f[s] = t,
           \A s, t \in S : f[s] = f[t] => s = t
    PROVE  IsFiniteSet(T) /\ Cardinality(T) = Cardinality(S)
<1>1. f \in Surjection(S, T) BY DEF Surjection
<1>2. f \in Injection(S, T) BY DEF Injection, IsInjective
<1> QED BY <1>1, <1>2, FS_Surjection

\* There are finitely many records, so logs and pages are finite.
LEMMA RecordFinite == IsFiniteSet(Record)
<1>1. IsFiniteSet(Slot) /\ IsFiniteSet(Ballot)
  BY FS_Interval, BoundAssumption DEF Slot, Ballot
<1>2. IsFiniteSet(Command)
  BY RequestAssumption, FS_AddElement DEF Command
<1>3. IsFiniteSet(BOOLEAN)
  <2>1. IsFiniteSet({}) BY FS_EmptySet
  <2>2. IsFiniteSet({} \cup {TRUE}) BY <2>1, FS_AddElement, Zenon
  <2>3. IsFiniteSet(({} \cup {TRUE}) \cup {FALSE}) BY <2>2, FS_AddElement, Zenon
  <2>4. BOOLEAN = ({} \cup {TRUE}) \cup {FALSE} OBVIOUS
  <2> QED BY <2>3, <2>4, Zenon
<1> DEFINE P == (Slot \X Ballot) \X (Command \X BOOLEAN)
           f == [x \in P |-> [slot |-> x[1][1], ballot |-> x[1][2],
                              req |-> x[2][1], committed |-> x[2][2]]]
<1>4. IsFiniteSet(Slot \X Ballot) /\ IsFiniteSet(Command \X BOOLEAN)
  BY <1>1, <1>2, <1>3, FS_Product
<1>5. IsFiniteSet(P) BY <1>4, FS_Product
<1>6. f \in [P -> Record] BY DEF Record
<1>7. \A r \in Record : \E x \in P : f[x] = r
  <2> TAKE r \in Record
  <2> DEFINE x == <<<<r.slot, r.ballot>>, <<r.req, r.committed>>>>
  <2>1. x \in P BY DEF Record
  <2>2. f[x] = r BY <2>1 DEF Record
  <2> QED BY <2>1, <2>2
<1> HIDE DEF P, f
<1> QED BY <1>5, <1>6, <1>7, FiniteSurjection

\* Sets of records are finite,
LEMMA RecordsFinite == ASSUME NEW R \in SUBSET Record PROVE IsFiniteSet(R)
BY RecordFinite, FS_Subset

\* and finite sets have a natural number of elements.
LEMMA CardNat == ASSUME NEW S, IsFiniteSet(S) PROVE Cardinality(S) \in Nat
BY FS_CardinalityType

-----------------------------------------------------------------------------
(***************************************************************************)
(* The part of a sequence at given positions.                              *)
(***************************************************************************)
\* Every element of s is in P and at a position of K that is at most k.
PartOf(s, part, K, k, P) ==
    part \in Seq(P) /\ \A x \in Range(part) : \E l \in 1..k : l \in K /\ x = s[l]
Builds(part, s, K, n) ==
    part = [k \in 0..n |->
              IF k = 0 THEN <<>> ELSE IF k \in K THEN Append(part[k - 1], s[k]) ELSE part[k - 1]]

\* What occurs in a sequence that is appended to,
LEMMA RangeOfAppend ==
    ASSUME NEW P, NEW s \in Seq(P), NEW x \in P
    PROVE  Append(s, x) \in Seq(P) /\ \A y \in Range(Append(s, x)) : y \in Range(s) \/ y = x
<1> SUFFICES ASSUME NEW y \in Range(Append(s, x)) PROVE y \in Range(s) \/ y = x
  BY AppendProperties
<1>1. PICK k \in DOMAIN Append(s, x) : y = Append(s, x)[k] BY DEF Range
<1>2. Len(s) \in Nat /\ DOMAIN s = 1..Len(s) /\ DOMAIN Append(s, x) = 1..(Len(s) + 1) OBVIOUS
<1>3. CASE k = Len(s) + 1 BY <1>1, <1>3
<1>4. CASE k # Len(s) + 1
  <2>1. k \in 1..Len(s) BY <1>1, <1>2, <1>4
  <2>2. y = s[k] BY <1>1, <2>1
  <2> QED BY <1>2, <2>1, <2>2 DEF Range
<1> QED BY <1>3, <1>4

\* in two sequences put together,
LEMMA RangeOfConcat ==
    ASSUME NEW P, NEW s \in Seq(P), NEW t \in Seq(P)
    PROVE  s \o t \in Seq(P) /\ \A y \in Range(s \o t) : y \in Range(s) \/ y \in Range(t)
<1> SUFFICES ASSUME NEW y \in Range(s \o t) PROVE y \in Range(s) \/ y \in Range(t)
  BY ConcatProperties
<1>1. PICK k \in DOMAIN (s \o t) : y = (s \o t)[k] BY DEF Range
<1>2. /\ Len(s) \in Nat /\ DOMAIN s = 1..Len(s) /\ Len(t) \in Nat /\ DOMAIN t = 1..Len(t)
      /\ DOMAIN (s \o t) = 1..(Len(s) + Len(t))
  OBVIOUS
<1>3. CASE k <= Len(s)
  <2>1. k \in DOMAIN s /\ y = s[k] BY <1>1, <1>2, <1>3
  <2> QED BY <2>1 DEF Range
<1>4. CASE ~(k <= Len(s))
  <2>1. k - Len(s) \in DOMAIN t /\ y = t[k - Len(s)] BY <1>1, <1>2, <1>4
  <2> QED BY <2>1 DEF Range
<1> QED BY <1>3, <1>4

\* and in one without its head.
LEMMA RangeOfTail ==
    ASSUME NEW P, NEW s \in Seq(P), s # <<>>
    PROVE  /\ Head(s) \in P /\ Head(s) \in Range(s)
           /\ Tail(s) \in Seq(P) /\ \A y \in Range(Tail(s)) : y \in Range(s)
<1>1. Len(s) \in Nat \ {0} /\ DOMAIN s = 1..Len(s) OBVIOUS
<1>2. Head(s) = s[1] /\ 1 \in DOMAIN s BY <1>1
<1>3. Tail(s) \in Seq(P) /\ DOMAIN Tail(s) = 1..(Len(s) - 1) BY <1>1
<1>4. ASSUME NEW y \in Range(Tail(s)) PROVE y \in Range(s)
  <2>1. PICK k \in DOMAIN Tail(s) : y = Tail(s)[k] BY DEF Range
  <2>2. y = s[k + 1] /\ k + 1 \in DOMAIN s BY <1>1, <1>3, <2>1
  <2> QED BY <2>2 DEF Range
<1> QED BY <1>2, <1>3, <1>4 DEF Range

\* The function that Picked is defined by exists,
LEMMA PartExists ==
    ASSUME NEW P, NEW s \in Seq(P), NEW K, NEW n \in Nat, n <= Len(s)
    PROVE  \E part : Builds(part, s, K, n)
<1> DEFINE T == {k \in Nat : k <= Len(s) /\ ~ \E part : Builds(part, s, K, k)}
<1> SUFFICES ASSUME T # {} PROVE FALSE OBVIOUS
<1>1. PICK m \in T : \A k \in T : m <= k BY Smallest
<1>2. m # 0
  <2> DEFINE g == [k \in 0..0 |-> <<>>]
  <2>1. Builds(g, s, K, 0) BY DEF Builds
  <2> QED BY <1>1, <2>1
<1>3. m - 1 \in Nat /\ m \in Nat BY <1>2
<1>4. PICK g : Builds(g, s, K, m - 1)
  <2>1. m - 1 \notin T BY <1>1, <1>3
  <2> QED BY <1>1, <1>3, <2>1
<1> DEFINE h == [k \in 0..m |->
                   IF k = m THEN IF k \in K THEN Append(g[k - 1], s[k]) ELSE g[k - 1] ELSE g[k]]
<1>5. \A k \in 0..(m - 1) : h[k] = g[k] BY <1>3
<1>6. \A k \in 0..m : h[k] = IF k = 0 THEN <<>>
                             ELSE IF k \in K THEN Append(h[k - 1], s[k]) ELSE h[k - 1]
  <2> TAKE k \in 0..m
  <2>1. CASE k = m BY <1>2, <1>3, <1>5, <2>1
  <2>2. CASE k # m
    <3>1. k \in 0..(m - 1) BY <1>3, <2>2
    <3>2. k # 0 => k - 1 \in 0..(m - 1) BY <3>1
    <3>3. g[k] = IF k = 0 THEN <<>> ELSE IF k \in K THEN Append(g[k - 1], s[k]) ELSE g[k - 1]
      BY <1>4, <3>1 DEF Builds
    <3> QED BY <1>5, <3>1, <3>2, <3>3
  <2> QED BY <2>1, <2>2
<1>7. Builds(h, s, K, m)
  <2>1. h = [k \in 0..m |-> h[k]] OBVIOUS
  <2> HIDE DEF h
  <2> QED BY <1>6, <2>1 DEF Builds
<1> QED BY <1>1, <1>7

\* and what it picks is in the sequence.
LEMMA PickedPart ==
    ASSUME NEW P, NEW s \in Seq(P), NEW K
    PROVE  PartOf(s, Picked(s, K), K, Len(s), P)
<1>1. Len(s) \in Nat /\ DOMAIN s = 1..Len(s) OBVIOUS
<1> DEFINE f == CHOOSE part : Builds(part, s, K, Len(s))
<1>2. Builds(f, s, K, Len(s)) BY <1>1, PartExists
<1>3. Picked(s, K) = f[Len(s)] BY DEF Picked, Builds
<1> HIDE DEF f
<1> DEFINE T == {k \in Nat : k <= Len(s) /\ ~PartOf(s, f[k], K, k, P)}
<1>4. T = {}
  <2> SUFFICES ASSUME T # {} PROVE FALSE OBVIOUS
  <2>1. PICK m \in T : \A k \in T : m <= k BY Smallest
  <2>2. m \in 0..Len(s) BY <1>1
  <2>3. f[m] = IF m = 0 THEN <<>> ELSE IF m \in K THEN Append(f[m - 1], s[m]) ELSE f[m - 1]
    BY <1>2, <2>2 DEF Builds
  <2>4. m # 0
    <3>1. PartOf(s, <<>>, K, 0, P) BY DEF PartOf, Range
    <3> QED BY <2>1, <2>3, <3>1
  <2>5. PartOf(s, f[m - 1], K, m - 1, P)
    <3>1. m - 1 \in Nat /\ m - 1 <= Len(s) BY <1>1, <2>2, <2>4
    <3>2. m - 1 \notin T BY <2>1, <2>2, <3>1
    <3> QED BY <3>1, <3>2
  <2>6. s[m] \in P BY <1>1, <2>2, <2>4
  <2>7. f[m] \in Seq(P) BY <2>3, <2>4, <2>5, <2>6, RangeOfAppend DEF PartOf
  <2>8. ASSUME NEW x \in Range(f[m]) PROVE \E l \in 1..m : l \in K /\ x = s[l]
    <3>1. \A l \in 1..(m - 1) : l \in 1..m BY <2>2
    <3>2. CASE x \in Range(f[m - 1]) BY <2>5, <3>1, <3>2 DEF PartOf
    <3>3. CASE x \notin Range(f[m - 1])
      <4>1. m \in K /\ x = s[m]
        BY <2>3, <2>4, <2>5, <2>6, <2>8, <3>3, RangeOfAppend DEF PartOf
      <4>2. m \in 1..m BY <2>2, <2>4
      <4> QED BY <4>1, <4>2
    <3> QED BY <3>2, <3>3
  <2>9. PartOf(s, f[m], K, m, P) BY <2>7, <2>8 DEF PartOf
  <2> QED BY <2>1, <2>9
<1>5. PartOf(s, f[Len(s)], K, Len(s), P) BY <1>1, <1>4
<1> QED BY <1>3, <1>5

\* A part of a sequence holds nothing else,
LEMMA PickedIn ==
    ASSUME NEW P, NEW s \in Seq(P), NEW K
    PROVE  /\ Picked(s, K) \in Seq(P)
           /\ \A x \in Range(Picked(s, K)) : \E k \in DOMAIN s : k \in K /\ x = s[k]
<1>1. DOMAIN s = 1..Len(s) OBVIOUS
<1> QED BY <1>1, PickedPart DEF PartOf
-----------------------------------------------------------------------------
(***************************************************************************)
(* Connections: what is sent and delivered.                                *)
(***************************************************************************)
USE DEF Replica, Slot, Ballot

\* nor does what one receiver gets.
LEMMA AddressedIn ==
    ASSUME NEW out \in Seq(Packet), NEW i, NEW j
    PROVE  /\ Addressed(i, j, out) \in Seq(Packet)
           /\ \A x \in Range(Addressed(i, j, out)) : x \in Range(out) /\ j \in x.to
<1> DEFINE K == {k \in DOMAIN out : /\ j \in alive[i] /\ i \in alive[j]
                                    /\ j \in out[k].to /\ <<i, j, out[k].kind>> \in Wire}
<1>1. Addressed(i, j, out) = Picked(out, K) BY DEF Addressed
<1>2. \A k \in K : j \in out[k].to OBVIOUS
<1> HIDE DEF K
<1>3. /\ Picked(out, K) \in Seq(Packet)
      /\ \A x \in Range(Picked(out, K)) : \E k \in DOMAIN out : k \in K /\ x = out[k]
  BY PickedIn
<1> QED BY <1>1, <1>2, <1>3 DEF Range

\* The network before i takes a packet, and after that.
LEMMA WaysBehind ==
    ASSUME NEW w \in [Replica -> [Replica -> Seq(Packet)]], NEW i \in Replica,
           NEW out \in Seq(Packet)
    PROVE  /\ Posted(w, i, out) \in [Replica -> [Replica -> Seq(Packet)]]
           /\ \A q, k \in Replica : \A m \in Range(Posted(w, i, out)[q][k]) :
                 m \in Range(w[q][k]) \/ (q = i /\ m \in Range(out) /\ k \in m.to)
<1> DEFINE x == Posted(w, i, out)
<1>0. x = [w EXCEPT ![i] = [j \in Replica |-> @[j] \o Addressed(i, j, out)]] BY DEF Posted
<1> HIDE DEF x
<1>1. \A k \in Replica : w[i][k] \o Addressed(i, k, out) \in Seq(Packet)
  BY AddressedIn, RangeOfConcat
<1>2. x \in [Replica -> [Replica -> Seq(Packet)]] BY <1>0, <1>1
<1>3. ASSUME NEW q \in Replica, NEW k \in Replica, NEW m \in Range(x[q][k])
      PROVE  m \in Range(w[q][k]) \/ (q = i /\ m \in Range(out) /\ k \in m.to)
  <2>1. CASE q = i
    <3>1. x[q][k] = w[q][k] \o Addressed(i, k, out) BY <1>0, <2>1
    <3>2. w[q][k] \in Seq(Packet) OBVIOUS
    <3>3. m \in Range(w[q][k]) \/ m \in Range(Addressed(i, k, out))
      BY <1>3, <3>1, <3>2, AddressedIn, RangeOfConcat
    <3> QED BY <2>1, <3>3, AddressedIn
  <2>2. CASE q # i
    <3>1. x[q] = w[q] BY <1>0, <2>2
    <3> QED BY <3>1, <1>3
  <2> QED BY <2>1, <2>2
<1> QED BY <1>2, <1>3 DEF x

\* What is under way after a replica has sent,
LEMMA SendCarries ==
    ASSUME TypeOK, NEW i \in Replica, NEW out \in Seq(Packet), Send(i, out)
    PROVE  net' \in [Replica -> [Replica -> Seq(Packet)]] /\ Carries(i, out)
<1>1. net \in [Replica -> [Replica -> Seq(Packet)]] BY DEF TypeOK
<1>2. net' = Posted(net, i, out) BY DEF Send
<1>3. /\ net' \in [Replica -> [Replica -> Seq(Packet)]]
      /\ \A q, k \in Replica : \A m \in Range(net'[q][k]) :
            m \in Range(net[q][k]) \/ (q = i /\ m \in Range(out) /\ k \in m.to)
  BY <1>1, <1>2, WaysBehind
<1> QED BY <1>3 DEF Carries, Way

\* and after it has also taken a packet.
LEMMA ExchangeCarries ==
    ASSUME TypeOK, NEW i \in Replica, NEW j \in Replica, NEW out \in Seq(Packet),
           net[j][i] # <<>>, Exchange(i, j, out)
    PROVE  net' \in [Replica -> [Replica -> Seq(Packet)]] /\ Carries(i, out)
<1>1. net \in [Replica -> [Replica -> Seq(Packet)]] BY DEF TypeOK
<1> DEFINE w == [net EXCEPT ![j][i] = Tail(@)]
<1>2. net' = Posted(w, i, out) BY DEF Exchange
<1>3. Tail(net[j][i]) \in Seq(Packet) /\ \A y \in Range(Tail(net[j][i])) : y \in Range(net[j][i])
  BY <1>1, RangeOfTail
<1>4. w \in [Replica -> [Replica -> Seq(Packet)]] BY <1>1, <1>3
<1>5. \A q, k \in Replica : w[q][k] = IF q = j /\ k = i THEN Tail(net[j][i]) ELSE net[q][k]
  BY <1>1
<1> HIDE DEF w
<1>6. /\ net' \in [Replica -> [Replica -> Seq(Packet)]]
      /\ \A q, k \in Replica : \A m \in Range(net'[q][k]) :
            m \in Range(w[q][k]) \/ (q = i /\ m \in Range(out) /\ k \in m.to)
  BY <1>2, <1>4, WaysBehind
<1>7. \A q, k \in Replica : \A m \in Range(w[q][k]) : m \in Range(net[q][k])
  BY <1>3, <1>5
<1> QED BY <1>6, <1>7 DEF Carries, Way

\* The first packet of j is on the way to i.
LEMMA HeadArrives ==
    ASSUME TypeOK, NEW i \in Replica, NEW j \in Replica, net[j][i] # <<>>
    PROVE  Head(net[j][i]) \in Packet /\ Head(net[j][i]) \in Way(j, i)
<1>1. net \in [Replica -> [Replica -> Seq(Packet)]] BY DEF TypeOK
<1>2. net[j][i] \in Seq(Packet) BY <1>1
<1> QED BY <1>2, RangeOfTail DEF Way
-----------------------------------------------------------------------------
(***************************************************************************)
(* What the packets are that a replica sends.                              *)
(***************************************************************************)
\* Sequences of packets, as the actions build them.
LEMMA IfIn ==
    ASSUME NEW c, NEW P, NEW out \in Seq(P)
    PROVE  If(c, out) \in Seq(P) /\ \A x \in Range(If(c, out)) : c /\ x \in Range(out)
BY DEF If, Range

\* One packet.
LEMMA OneIn ==
    ASSUME NEW P, NEW m \in P
    PROVE  <<m>> \in Seq(P) /\ \A x \in Range(<<m>>) : x = m
BY DEF Range

\* Dividing a natural number by a positive one gives a natural number.
LEMMA DivNat == ASSUME NEW n \in Nat, NEW p \in Nat \ {0} PROVE n \div p \in Nat
OBVIOUS

\* A log is sent in chunks, the slots of which lie in the requested range.
LEMMA ChunksIn ==
    ASSUME NEW L, NEW a \in Int, NEW h \in Int
    PROVE  /\ Chunks(L, a, h) \in Seq(SUBSET L)
           /\ \A R \in Range(Chunks(L, a, h)) : \A r \in R : r \in L /\ r.slot >= a
<1> DEFINE e == SuffixEnd(a, h)
           n == IF e < a THEN 0 ELSE (e - a) \div PageSize + 1
<1>1. e \in Int BY SizeAssumption DEF SuffixEnd, Least
<1>2. n \in Nat
  <2>1. CASE e < a BY <2>1
  <2>2. CASE ~(e < a)
    <3>1. e - a \in Nat BY <1>1, <2>2
    <3>2. (e - a) \div PageSize \in Nat BY <3>1, SizeAssumption, DivNat
    <3> QED BY <2>2, <3>2
  <2> QED BY <2>1, <2>2
<1>3. Chunks(L, a, h) = [k \in 1..n |-> {r \in L : /\ r.slot \in a..e
                                                   /\ (r.slot - a) \div PageSize = k - 1}]
  BY DEF Chunks
<1> HIDE DEF n, e
<1>4. Chunks(L, a, h) \in [1..n -> SUBSET L] BY <1>3
<1>5. Chunks(L, a, h) \in Seq(SUBSET L) BY <1>2, <1>4
<1>6. ASSUME NEW R \in Range(Chunks(L, a, h)), NEW r \in R PROVE r \in L /\ r.slot >= a
  <2>1. PICK k \in DOMAIN Chunks(L, a, h) : R = Chunks(L, a, h)[k] BY DEF Range
  <2>2. k \in 1..n BY <1>3, <2>1
  <2>3. R = {y \in L : y.slot \in a..e /\ (y.slot - a) \div PageSize = k - 1}
    BY <1>3, <2>1, <2>2
  <2>4. r \in L /\ r.slot \in a..e BY <1>6, <2>3
  <2> QED BY <1>1, <2>4
<1> QED BY <1>5, <1>6

\* The packets of an answer, and of a proposal.
AnswerOf(m, j, b, R) ==
    \/ m = Accept(Unless(R, {j}), b, Stamp(R, b))
    \/ \E D \in SUBSET R : /\ \A r \in D : r.committed
                           /\ m = Commit(Unless(D, {j}), b, Stamp(D, b))
ProposalOf(m, i, R, won) ==
    \/ m = Accept(Unless(R, Peers(i)), ballot[i], Stamp(Undecided(R), ballot[i]))
    \/ m = Ack(Unless(R, Peers(i)), ballot[i], Slots(R))
    \/ \E K \in SUBSET won : m = Commit(Unless(K, Peers(i)), ballot[i], Decide(K, K))

\* The packets of an answer to a fetch,
LEMMA AnswerIs ==
    ASSUME NEW P, NEW C \in Seq(P), NEW j, NEW b, NEW Z,
           \A R \in Range(C) : \A m : AnswerOf(m, j, b, R) => m \in Z
    PROVE  /\ Answer(j, b, C) \in Seq(Z)
           /\ \A m \in Range(Answer(j, b, C)) : \E R \in Range(C) : AnswerOf(m, j, b, R)
<1>1. Len(C) \in Nat /\ DOMAIN C = 1..Len(C) OBVIOUS
<1> DEFINE A == Answer(j, b, C)
           l == 2 * Len(C)
<1>2. DOMAIN A = 1..l /\ A = [n \in 1..l |-> A[n]] BY DEF Answer
<1>3. ASSUME NEW n \in 1..l PROVE \E R \in Range(C) : AnswerOf(A[n], j, b, R)
  <2> DEFINE k == (n + 1) \div 2
             R == C[k]
             D == {r \in R : r.committed}
  <2>2. k \in 1..Len(C) BY <1>1
  <2>3. R \in Range(C) BY <1>1, <2>2 DEF Range
  <2>4. A[n] = IF n % 2 = 1 THEN Accept(Unless(R, {j}), b, Stamp(R, b))
               ELSE Commit(Unless(D, {j}), b, Stamp(D, b))
    BY DEF Answer
  <2> HIDE DEF k, R, A
  <2>5. AnswerOf(A[n], j, b, R) BY <2>4 DEF AnswerOf
  <2> QED BY <2>3, <2>5
<1> HIDE DEF A
<1>4. \A n \in 1..l : A[n] \in Z BY <1>3
<1>5. A \in [1..l -> Z] BY <1>2, <1>4
<1>6. A \in Seq(Z) BY <1>1, <1>5
<1>7. \A m \in Range(A) : \E R \in Range(C) : AnswerOf(m, j, b, R) BY <1>2, <1>3 DEF Range
<1> QED BY <1>6, <1>7 DEF A

\* and of a broadcast suffix.
LEMMA ProposedIs ==
    ASSUME NEW P, NEW C \in Seq(P), NEW i, NEW won, NEW Z,
           \A R \in Range(C) : \A m : ProposalOf(m, i, R, won) => m \in Z
    PROVE  /\ Proposed(i, C, won) \in Seq(Z)
           /\ \A m \in Range(Proposed(i, C, won)) : \E R \in Range(C) : ProposalOf(m, i, R, won)
<1>1. Len(C) \in Nat /\ DOMAIN C = 1..Len(C) OBVIOUS
<1> DEFINE A == Proposed(i, C, won)
           l == 3 * Len(C)
<1>2. DOMAIN A = 1..l /\ A = [n \in 1..l |-> A[n]] BY DEF Proposed
<1>3. ASSUME NEW n \in 1..l PROVE \E R \in Range(C) : ProposalOf(A[n], i, R, won)
  <2> DEFINE k == (n + 2) \div 3
             R == C[k]
             K == {r \in won : r.slot \in Slots(R)}
             J == Peers(i)
  <2>2. k \in 1..Len(C) BY <1>1
  <2>3. R \in Range(C) BY <1>1, <2>2 DEF Range
  <2>4. A[n] = CASE n % 3 = 1 -> Accept(Unless(R, J), ballot[i], Stamp(Undecided(R), ballot[i]))
                 [] n % 3 = 2 -> Ack(Unless(R, J), ballot[i], Slots(R))
                 [] n % 3 = 0 -> Commit(Unless(K, J), ballot[i], Decide(K, K))
    BY DEF Proposed
  <2>5. n % 3 = 1 \/ n % 3 = 2 \/ n % 3 = 0 OBVIOUS
  <2>6. K \in SUBSET won OBVIOUS
  <2> HIDE DEF k, R, A, K
  <2>7. ProposalOf(A[n], i, R, won) BY <2>4, <2>5, <2>6 DEF ProposalOf
  <2> QED BY <2>3, <2>7
<1> HIDE DEF A
<1>4. \A n \in 1..l : A[n] \in Z BY <1>3
<1>5. A \in [1..l -> Z] BY <1>2, <1>4
<1>6. A \in Seq(Z) BY <1>1, <1>5
<1>7. \A m \in Range(A) : \E R \in Range(C) : ProposalOf(m, i, R, won) BY <1>2, <1>3 DEF Range
<1> QED BY <1>6, <1>7 DEF A
-----------------------------------------------------------------------------
(***************************************************************************)
(* The pages of a promise.                                                 *)
(***************************************************************************)
\* Division rounds down.
LEMMA DivBound ==
    ASSUME NEW a \in Nat, NEW c \in Nat, NEW p \in Nat \ {0}, a < c
    PROVE  a \div p + 1 <= (c + p - 1) \div p
<1> DEFINE x == a \div p
           y == (c + p - 1) \div p
<1>1. x \in Nat /\ p * x <= a BY DivNat
<1>2. y \in Nat /\ c + p - 1 < p * y + p
  <2>1. c + p - 1 \in Nat OBVIOUS
  <2> QED BY <2>1, DivNat
<1> HIDE DEF x, y
<1>3. p * x \in Nat /\ p * y \in Nat BY <1>1, <1>2
<1>4. p * x < p * y BY <1>1, <1>2, <1>3
<1>5. x < y
  <2> SUFFICES ASSUME y <= x PROVE FALSE BY <1>1, <1>2
  <2>1. PICK d \in Nat : x = y + d BY <1>1, <1>2
  <2>2. p * x = p * y + p * d BY <2>1, <1>2
  <2>3. p * d \in Nat BY <2>1
  <2> QED BY <1>3, <1>4, <2>2, <2>3
<1>6. x + 1 <= y BY <1>1, <1>2, <1>5
<1> QED BY <1>6 DEF x, y

\* An element of a finite set of integers has less than all others before it.
LEMMA RankBound ==
    ASSUME NEW X \in SUBSET Int, IsFiniteSet(X), NEW x \in X
    PROVE  RankOf(x, X) \in Nat /\ RankOf(x, X) < Cardinality(X)
<1> DEFINE S == {y \in X : y < x}
<1>1. S \subseteq X \ {x} OBVIOUS
<1>2. IsFiniteSet(X \ {x}) /\ Cardinality(X \ {x}) = Cardinality(X) - 1 BY FS_RemoveElement
<1>3. IsFiniteSet(S) /\ Cardinality(S) <= Cardinality(X \ {x}) BY <1>1, <1>2, FS_Subset
<1>4. Cardinality(S) \in Nat /\ Cardinality(X) \in Nat BY <1>3, FS_CardinalityType
<1> QED BY <1>2, <1>3, <1>4 DEF RankOf

\* The largest of three numbers.
LEMMA Max3Is ==
    ASSUME NEW a \in Nat, NEW b \in Nat, NEW c \in Nat
    PROVE  Max3(a, b, c) \in Nat /\ Max3(a, b, c) >= a /\ Max3(a, b, c) >= b /\ Max3(a, b, c) >= c
<1>1. \E m \in {a, b, c} : m >= a /\ m >= b /\ m >= c
  <2>1. CASE a >= b /\ a >= c BY <2>1
  <2>2. CASE b >= a /\ b >= c BY <2>2
  <2>3. CASE c >= a /\ c >= b BY <2>3
  <2> QED BY <2>1, <2>2, <2>3
<1> QED BY <1>1 DEF Max3

\* The records from floor on, and the number of pages.
Reported(i, floor) == {r \in log[i] : floor <= r.slot /\ r.slot <= high[i]}
PagesOf(i, floor) ==
    Max3(1, (Cardinality(Reported(i, floor)) + PageSize - 1) \div PageSize,
         (Cardinality(witness[i]) + PageSize - 1) \div PageSize)
PromisePage(i, j, b, floor, k) ==
    [kind |-> "Promise", to |-> {j}, ballot |-> b, floor |-> floor, high |-> high[i],
     page |-> k, pages |-> PagesOf(i, floor),
     recs |-> {r \in Reported(i, floor) :
                 RankOf(r.slot, Slots(Reported(i, floor))) \div PageSize = k - 1},
     reqs |-> {r \in witness[i] : RankOf(r, witness[i]) \div PageSize = k - 1}]

\* The pages of a promise: numbered, and holding all of the log and the witness records.
LEMMA SnapshotIs ==
    ASSUME TypeOK, NEW i \in Replica, NEW j, NEW b, NEW floor
    PROVE  /\ PagesOf(i, floor) \in Nat /\ PagesOf(i, floor) >= 1
           /\ Snapshot(i, j, b, floor) =
                [k \in 1..PagesOf(i, floor) |-> PromisePage(i, j, b, floor, k)]
           /\ \A r \in Reported(i, floor) : \E k \in 1..PagesOf(i, floor) :
                 RankOf(r.slot, Slots(Reported(i, floor))) \div PageSize = k - 1
           /\ \A r \in witness[i] : \E k \in 1..PagesOf(i, floor) :
                 RankOf(r, witness[i]) \div PageSize = k - 1
<1> DEFINE R == Reported(i, floor)
           W == witness[i]
           a == (Cardinality(R) + PageSize - 1) \div PageSize
           c == (Cardinality(W) + PageSize - 1) \div PageSize
           n == PagesOf(i, floor)
<1>1. R \in SUBSET Record /\ W \in SUBSET Request BY DEF TypeOK, Reported, Batch
<1>2. IsFiniteSet(R) BY <1>1, RecordsFinite
<1>3. IsFiniteSet(W) /\ W \subseteq Nat BY <1>1, RequestAssumption, FS_Subset
<1>4. /\ IsFiniteSet(Slots(R)) /\ Slots(R) \subseteq Int
      /\ Cardinality(Slots(R)) = Cardinality(R)
  <2> DEFINE f == [r \in R |-> r.slot]
  <2>1. \A r, q \in R : r.slot = q.slot => r = q BY DEF TypeOK, Reported, Batch
  <2>2. f \in [R -> Slots(R)] BY DEF Slots
  <2>3. \A r, q \in R : f[r] = f[q] => r = q BY <2>1
  <2>4. \A t \in Slots(R) : \E r \in R : f[r] = t BY DEF Slots
  <2>5. Slots(R) \subseteq Int BY <1>1 DEF Slots, Record
  <2> HIDE DEF f, R
  <2> QED BY <1>2, <2>2, <2>3, <2>4, <2>5, FiniteBijection
<1> HIDE DEF R, W
<1>5. Cardinality(R) \in Nat /\ Cardinality(W) \in Nat BY <1>2, <1>3, CardNat
<1>6. a \in Nat /\ c \in Nat BY <1>5, SizeAssumption, DivNat
<1>7. n = Max3(1, a, c) BY DEF PagesOf, R, W
<1> HIDE DEF a, c, n
<1>8. n \in Nat /\ n >= 1 /\ n >= a /\ n >= c BY <1>6, <1>7, Max3Is
<1>9. ASSUME NEW r \in R PROVE \E k \in 1..n : RankOf(r.slot, Slots(R)) \div PageSize = k - 1
  <2> DEFINE x == RankOf(r.slot, Slots(R))
  <2>1. r.slot \in Slots(R) BY DEF Slots
  <2>2. x \in Nat /\ x < Cardinality(R) BY <1>4, <2>1, RankBound
  <2> HIDE DEF x
  <2>3. x \div PageSize \in Nat /\ x \div PageSize + 1 <= a
    BY <1>5, <2>2, SizeAssumption, DivBound, DivNat DEF a
  <2>4. x \div PageSize + 1 \in 1..n BY <1>6, <1>8, <2>3
  <2>5. x \div PageSize = (x \div PageSize + 1) - 1 BY <2>3
  <2> QED BY <2>4, <2>5 DEF x
<1>10. ASSUME NEW r \in W PROVE \E k \in 1..n : RankOf(r, W) \div PageSize = k - 1
  <2> DEFINE x == RankOf(r, W)
  <2>1. W \subseteq Int BY <1>3
  <2>2. x \in Nat /\ x < Cardinality(W) BY <1>3, <2>1, RankBound
  <2> HIDE DEF x
  <2>3. x \div PageSize \in Nat /\ x \div PageSize + 1 <= c
    BY <1>5, <2>2, SizeAssumption, DivBound, DivNat DEF c
  <2>4. x \div PageSize + 1 \in 1..n BY <1>6, <1>8, <2>3
  <2>5. x \div PageSize = (x \div PageSize + 1) - 1 BY <2>3
  <2> QED BY <2>4, <2>5 DEF x
<1>11. Snapshot(i, j, b, floor) =
         [k \in 1..PagesOf(i, floor) |-> PromisePage(i, j, b, floor, k)]
  BY DEF Snapshot, PagesOf, Reported, PromisePage
<1> QED BY <1>8, <1>9, <1>10, <1>11 DEF R, W, n

\* They are packets.
LEMMA SnapshotType ==
    ASSUME TypeOK, NEW i \in Replica, NEW j \in Replica, NEW b \in Ballot,
           NEW floor \in 0..(MaxSlot + 1)
    PROVE  Snapshot(i, j, b, floor) \in Seq(Promise)
<1> DEFINE n == PagesOf(i, floor)
<1>1. n \in Nat /\ Snapshot(i, j, b, floor) = [k \in 1..n |-> PromisePage(i, j, b, floor, k)]
  BY SnapshotIs
<1>2. ASSUME NEW k \in 1..n PROVE PromisePage(i, j, b, floor, k) \in Promise
  <2>1. high[i] \in -1..MaxSlot /\ log[i] \subseteq Record /\ witness[i] \subseteq Request
    BY DEF TypeOK, Batch
  <2>2. k \in Nat BY <1>1
  <2> HIDE DEF n
  <2>3. {r \in Reported(i, floor) :
           RankOf(r.slot, Slots(Reported(i, floor))) \div PageSize = k - 1} \in SUBSET Record
    BY <2>1 DEF Reported
  <2>4. {r \in witness[i] : RankOf(r, witness[i]) \div PageSize = k - 1} \in SUBSET Request
    BY <2>1
  <2> QED BY <1>1, <2>1, <2>2, <2>3, <2>4 DEF PromisePage, Promise, n
<1> HIDE DEF n
<1>3. Snapshot(i, j, b, floor) \in [1..n -> Promise] BY <1>1, <1>2
<1> QED BY <1>1, <1>3
-----------------------------------------------------------------------------
(***************************************************************************)
(* Types of the operators the actions are built from.                      *)
(***************************************************************************)
\* A log has one record per slot.
LEMMA BatchIs ==
    ASSUME NEW L
    PROVE  L \in Batch <=> L \in SUBSET Record /\ \A r, q \in L : r.slot = q.slot => r = q
BY DEF Batch

\* Stamping changes ballots only,
LEMMA StampIs ==
    ASSUME NEW R \in Batch, NEW b \in Ballot
    PROVE  /\ Stamp(R, b) \in Batch /\ Slots(Stamp(R, b)) = Slots(R)
           /\ \A x \in Stamp(R, b) : \E y \in R :
                 /\ x.slot = y.slot /\ x.req = y.req /\ x.ballot = b
                 /\ x.committed = y.committed
<1>1. R \in SUBSET Record BY DEF Batch
<1>2. \A y \in R : LET x == [y EXCEPT !.ballot = b]
                   IN  /\ x \in Record /\ x.slot = y.slot /\ x.req = y.req /\ x.ballot = b
                       /\ x.committed = y.committed
  BY <1>1 DEF Record
<1>3. Stamp(R, b) \in SUBSET Record BY <1>2 DEF Stamp
<1>4. ASSUME NEW x \in Stamp(R, b), NEW z \in Stamp(R, b), x.slot = z.slot PROVE x = z
  <2>1. PICK y \in R : x = [y EXCEPT !.ballot = b] BY DEF Stamp
  <2>2. PICK w \in R : z = [w EXCEPT !.ballot = b] BY DEF Stamp
  <2>3. y.slot = w.slot BY <1>2, <1>4, <2>1, <2>2
  <2>4. y = w BY <2>3 DEF Batch
  <2> QED BY <2>1, <2>2, <2>4
<1>5. Slots(Stamp(R, b)) = Slots(R)
  <2>1. ASSUME NEW s \in Slots(R) PROVE s \in Slots(Stamp(R, b))
    <3>1. PICK y \in R : s = y.slot BY DEF Slots
    <3>2. [y EXCEPT !.ballot = b] \in Stamp(R, b) BY DEF Stamp
    <3> QED BY <1>2, <3>1, <3>2 DEF Slots
  <2>2. ASSUME NEW s \in Slots(Stamp(R, b)) PROVE s \in Slots(R)
    <3>1. PICK x \in Stamp(R, b) : s = x.slot BY <2>2 DEF Slots
    <3>2. PICK y \in R : x = [y EXCEPT !.ballot = b] BY DEF Stamp
    <3> QED BY <1>2, <3>1, <3>2 DEF Slots
  <2> QED BY <2>1, <2>2
<1>6. ASSUME NEW x \in Stamp(R, b)
      PROVE  \E y \in R : /\ x.slot = y.slot /\ x.req = y.req /\ x.ballot = b
                          /\ x.committed = y.committed
  <2>1. PICK y \in R : x = [y EXCEPT !.ballot = b] BY DEF Stamp
  <2> QED BY <1>2, <2>1
<1>7. Stamp(R, b) \in Batch BY <1>3, <1>4 DEF Batch
<1> QED BY <1>5, <1>6, <1>7

\* and an undecided copy the mark only.
LEMMA UndecidedIs ==
    ASSUME NEW R \in Batch
    PROVE  /\ Undecided(R) \in Batch /\ Slots(Undecided(R)) = Slots(R)
           /\ \A x \in Undecided(R) : \E y \in R :
                 x.slot = y.slot /\ x.req = y.req /\ x.ballot = y.ballot /\ ~x.committed
<1>1. R \in SUBSET Record BY DEF Batch
<1>2. \A y \in R : LET x == [y EXCEPT !.committed = FALSE]
                   IN  /\ x \in Record /\ x.slot = y.slot /\ x.req = y.req
                       /\ x.ballot = y.ballot /\ ~x.committed
  BY <1>1 DEF Record
<1>3. Undecided(R) \in SUBSET Record BY <1>2 DEF Undecided
<1>4. ASSUME NEW x \in Undecided(R), NEW z \in Undecided(R), x.slot = z.slot PROVE x = z
  <2>1. PICK y \in R : x = [y EXCEPT !.committed = FALSE] BY DEF Undecided
  <2>2. PICK w \in R : z = [w EXCEPT !.committed = FALSE] BY DEF Undecided
  <2>3. y.slot = w.slot BY <1>2, <1>4, <2>1, <2>2
  <2>4. y = w BY <2>3 DEF Batch
  <2> QED BY <2>1, <2>2, <2>4
<1>5. Slots(Undecided(R)) = Slots(R)
  <2>1. ASSUME NEW s \in Slots(R) PROVE s \in Slots(Undecided(R))
    <3>1. PICK y \in R : s = y.slot BY DEF Slots
    <3>2. [y EXCEPT !.committed = FALSE] \in Undecided(R) BY DEF Undecided
    <3> QED BY <1>2, <3>1, <3>2 DEF Slots
  <2>2. ASSUME NEW s \in Slots(Undecided(R)) PROVE s \in Slots(R)
    <3>1. PICK x \in Undecided(R) : s = x.slot BY <2>2 DEF Slots
    <3>2. PICK y \in R : x = [y EXCEPT !.committed = FALSE] BY DEF Undecided
    <3> QED BY <1>2, <3>1, <3>2 DEF Slots
  <2> QED BY <2>1, <2>2
<1>6. ASSUME NEW x \in Undecided(R)
      PROVE  \E y \in R : x.slot = y.slot /\ x.req = y.req /\ x.ballot = y.ballot /\ ~x.committed
  <2>1. PICK y \in R : x = [y EXCEPT !.committed = FALSE] BY DEF Undecided
  <2> QED BY <1>2, <2>1
<1>7. Undecided(R) \in Batch BY <1>3, <1>4 DEF Batch
<1> QED BY <1>5, <1>6, <1>7

\* What a log holds after install,
LEMMA InstallIs ==
    ASSUME NEW L \in Batch, NEW R \in Batch
    PROVE  /\ Install(L, R) \in Batch
           /\ \A x \in Install(L, R) : x \in L \/ x \in R
           /\ \A y \in L : y \in Install(L, R)
                           \/ (~y.committed /\ \E x \in R : x.slot = y.slot /\ x \in Install(L, R))
           /\ \A y \in R : \E x \in Install(L, R) : x.slot = y.slot /\ (x = y \/ x.committed)
<1>1. L \in SUBSET Record /\ R \in SUBSET Record BY DEF Batch
<1>2. Install(L, R) \in SUBSET Record BY <1>1 DEF Install, Stored
<1>3. ASSUME NEW x \in Install(L, R), NEW z \in Install(L, R), x.slot = z.slot PROVE x = z
  BY <1>3 DEF Install, Stored, Decided, Slots, Batch
<1>4. \A x \in Install(L, R) : x \in L \/ x \in R BY DEF Install, Stored
<1>5. ASSUME NEW y \in L, y \notin Install(L, R)
      PROVE  ~y.committed /\ \E x \in R : x.slot = y.slot /\ x \in Install(L, R)
  <2>1. ~y.committed /\ y.slot \in Slots(R) BY <1>5 DEF Install
  <2>2. PICK x \in R : x.slot = y.slot BY <2>1 DEF Slots
  <2>3. ~Decided(L, x.slot) BY <2>1, <2>2 DEF Decided, Batch
  <2> QED BY <2>1, <2>2, <2>3 DEF Install, Stored
<1>6. ASSUME NEW y \in R PROVE \E x \in Install(L, R) : x.slot = y.slot /\ (x = y \/ x.committed)
  BY DEF Install, Stored, Decided
<1> QED BY <1>2, <1>3, <1>4, <1>5, <1>6 DEF Batch

\* and after a decision.
LEMMA DecideIs ==
    ASSUME NEW L \in Batch, NEW C \in SUBSET L
    PROVE  /\ Decide(L, C) \in Batch
           /\ \A x \in Decide(L, C) : x \in L \/ \E y \in C :
                 /\ x.slot = y.slot /\ x.req = y.req /\ x.ballot = y.ballot /\ x.committed
           /\ \A y \in L : \E x \in Decide(L, C) :
                 /\ x.slot = y.slot /\ x.req = y.req /\ x.ballot = y.ballot
                 /\ y.committed \/ y \in C => x.committed
<1>1. L \in SUBSET Record BY DEF Batch
<1>2. \A y \in L : LET x == [y EXCEPT !.committed = TRUE]
                   IN  /\ x \in Record /\ x.slot = y.slot /\ x.req = y.req
                       /\ x.ballot = y.ballot /\ x.committed
  BY <1>1 DEF Record
<1>3. Decide(L, C) \in SUBSET Record BY <1>1, <1>2 DEF Decide
<1>4. ASSUME NEW x \in Decide(L, C)
      PROVE  \E y \in L : /\ x.slot = y.slot /\ x.req = y.req /\ x.ballot = y.ballot
                          /\ x = IF y \in C THEN [y EXCEPT !.committed = TRUE] ELSE y
  BY <1>2 DEF Decide
<1>5. ASSUME NEW x \in Decide(L, C), NEW z \in Decide(L, C), x.slot = z.slot PROVE x = z
  <2>1. PICK y \in L : x.slot = y.slot /\ x = IF y \in C THEN [y EXCEPT !.committed = TRUE] ELSE y
    BY <1>4
  <2>2. PICK w \in L : z.slot = w.slot /\ z = IF w \in C THEN [w EXCEPT !.committed = TRUE] ELSE w
    BY <1>4
  <2>3. y = w BY <1>5, <2>1, <2>2 DEF Batch
  <2> QED BY <2>1, <2>2, <2>3
<1>6. ASSUME NEW x \in Decide(L, C), x \notin L
      PROVE  \E y \in C : x.slot = y.slot /\ x.req = y.req /\ x.ballot = y.ballot /\ x.committed
  BY <1>2, <1>6 DEF Decide
<1>7. ASSUME NEW y \in L
      PROVE  \E x \in Decide(L, C) : /\ x.slot = y.slot /\ x.req = y.req /\ x.ballot = y.ballot
                                     /\ y.committed \/ y \in C => x.committed
  <2>1. CASE y \in C
    <3>1. [y EXCEPT !.committed = TRUE] \in Decide(L, C) BY <2>1 DEF Decide
    <3> QED BY <1>2, <3>1
  <2>2. CASE y \notin C BY <2>2 DEF Decide
  <2> QED BY <2>1, <2>2
<1> QED BY <1>3, <1>5, <1>6, <1>7 DEF Batch

\* Commit packets carry decided records.
LEMMA DecideAll ==
    ASSUME NEW C \in Batch
    PROVE  /\ Decide(C, C) \in Batch
           /\ \A x \in Decide(C, C) : \E y \in C :
                 x.slot = y.slot /\ x.req = y.req /\ x.ballot = y.ballot /\ x.committed
<1>1. Decide(C, C) \in Batch BY DecideIs
<1>2. ASSUME NEW x \in Decide(C, C)
      PROVE  \E y \in C : x.slot = y.slot /\ x.req = y.req /\ x.ballot = y.ballot /\ x.committed
  <2>1. PICK y \in C : x = [y EXCEPT !.committed = TRUE] BY DEF Decide
  <2>2. y \in Record BY DEF Batch
  <2> QED BY <2>1, <2>2 DEF Record
<1> QED BY <1>1, <1>2

\* Parts of a log are logs.
LEMMA SubBatch == ASSUME NEW L \in Batch, NEW R \in SUBSET L PROVE R \in Batch
BY DEF Batch

\* Their slots,
LEMMA SlotsType == ASSUME NEW L \in Batch PROVE Slots(L) \in SUBSET Slot
BY DEF Batch, Slots, Record

\* and their commands.
LEMMA ReqsType == ASSUME NEW L \in SUBSET Record PROVE Reqs(L) \in SUBSET Command
BY DEF Reqs, Record
-----------------------------------------------------------------------------
(***************************************************************************)
(* Desks, and the execution of a log.                                      *)
(***************************************************************************)
GoodDesk(d) ==
    /\ d.witness \in SUBSET Request /\ d.recorded \in [Request -> Ballot \cup {-1}]
    /\ \A r \in d.witness : d.recorded[r] >= 0
    /\ d.queue \in Seq(Request) /\ d.sent \in SUBSET Message

\* A desk is of the right form,
LEMMA DeskType == ASSUME TypeOK, NEW i \in Replica PROVE GoodDesk(Desk(i))
BY DEF TypeOK, Consistent, GoodDesk, Desk

\* and so is a set of what occurs in a sequence.
LEMMA RangeType == ASSUME NEW P, NEW s \in Seq(P) PROVE Range(s) \in SUBSET P
BY DEF Range

\* A desk after some requests were submitted.
LEMMA SubmittedType ==
    ASSUME TypeOK, NEW i \in Replica, NEW o \in Seq(Request), NEW A \in SUBSET Range(o)
    PROVE  GoodDesk(Submitted(i, o, A))
<1> DEFINE d == Submitted(i, o, A)
           first == {r \in Range(o) : recorded[i][r] # ballot[i]}
           K == {k \in DOMAIN o : Enqueueable(i, o[k])}
<1>1. Range(o) \in SUBSET Request BY RangeType
<1>2. /\ ballot[i] \in Ballot /\ recorded[i] \in [Request -> Ballot \cup {-1}]
      /\ witness[i] \in SUBSET Request /\ queue[i] \in Seq(Request)
      /\ \A r \in witness[i] : recorded[i][r] >= 0
  BY DEF TypeOK, Consistent
<1>3. d.witness = witness[i] \cup A BY DEF Submitted
<1>4. d.recorded = [r \in Request |-> IF r \in Range(o) THEN ballot[i] ELSE recorded[i][r]]
  BY DEF Submitted
<1>5. d.queue \in Seq(Request)
  <2>1. d.queue = IF leader[i] = i THEN queue[i] \o Picked(o, K) ELSE queue[i] BY DEF Submitted
  <2> HIDE DEF K, d
  <2>2. Picked(o, K) \in Seq(Request) BY PickedIn
  <2> QED BY <1>2, <2>1, <2>2, RangeOfConcat
<1>6. d.sent \in SUBSET Message
  <2>1. d.sent = IF leader[i] = i THEN {} ELSE {RecordAck(i, ballot[i], r, r \in A) : r \in first}
    BY DEF Submitted
  <2>2. \A r \in first : RecordAck(i, ballot[i], r, r \in A) \in Message
    BY <1>1, <1>2 DEF RecordAck, Message
  <2> HIDE DEF d, first
  <2> QED BY <2>1, <2>2
<1> HIDE DEF d
<1>7. d.recorded \in [Request -> Ballot \cup {-1}] BY <1>2, <1>4
<1>8. \A r \in d.witness : d.recorded[r] >= 0
  <2> TAKE r \in d.witness
  <2>1. r \in Request BY <1>1, <1>2, <1>3
  <2>2. CASE r \in Range(o) BY <1>2, <1>4, <2>1, <2>2
  <2>3. CASE r \notin Range(o) BY <1>2, <1>3, <1>4, <2>1, <2>3
  <2> QED BY <2>2, <2>3
<1> QED BY <1>1, <1>2, <1>3, <1>5, <1>6, <1>7, <1>8 DEF GoodDesk, d

\* Results are sets of requests.
LEMMA ResultType ==
    ASSUME NEW V \in SUBSET [req : Request, slot : Slot], NEW r
    PROVE  Observed(V, r) \in SUBSET Request /\ ResultOf(V, r) \in SUBSET Request
BY DEF Observed, ResultOf

\* The message that gives a result.
LEMMA SyncType ==
    ASSUME TypeOK, NEW i \in Replica, NEW r \in Request,
           NEW V \in SUBSET [req : Request, slot : Slot]
    PROVE  Sync(i, ballot[i], r, ResultOf(V, r)) \in Message
<1>1. ResultOf(V, r) \in SUBSET Request /\ ballot[i] \in Ballot BY ResultType DEF TypeOK
<1> QED BY <1>1 DEF Sync, Message

\* Telling the clients adds messages they would heed.
LEMMA TellIs ==
    ASSUME TypeOK, NEW M \in SUBSET Message, Tell(M)
    PROVE  sent' \in SUBSET Message /\ \A m \in sent' : m \in sent \/ (m \in M /\ Heeded(m))
BY DEF Tell, TypeOK

ExecutionsOf(i, L, m) == Executions(L, executed[i], m, DoneAt(i))
\* The executions of a range of slots.
LEMMA ExecutionsIs ==
    ASSUME TypeOK, NEW i \in Replica, NEW L \in Batch, NEW m \in Int
    PROVE  /\ ExecutionsOf(i, L, m) \in SUBSET [req : Request, slot : Slot]
           /\ \A v \in ExecutionsOf(i, L, m) : \E y \in L :
                 y.slot = v.slot /\ y.req = v.req /\ y.slot \in (executed[i] + 1)..m
<1>1. L \in SUBSET Record BY DEF Batch
<1>2. ASSUME NEW v \in ExecutionsOf(i, L, m)
      PROVE  /\ v \in [req : Request, slot : Slot]
             /\ \E y \in L : y.slot = v.slot /\ y.req = v.req /\ y.slot \in (executed[i] + 1)..m
  <2>1. PICK y \in L : /\ v = [req |-> y.req, slot |-> y.slot]
                       /\ y.slot \in (executed[i] + 1)..m /\ y.req \in Request
    BY DEF ExecutionsOf, Executions
  <2>2. y.slot \in Slot BY <1>1 DEF Record
  <2> QED BY <2>1, <2>2
<1> QED BY <1>2

\* What apply does at i.
Ran(i, L, d) ==
    /\ log'[i] = L /\ executed[i] <= executed'[i]
    /\ \A s \in (executed[i] + 1)..executed'[i] : Decided(L, s)
    /\ \A v \in values'[i] : v \in values[i] \/ \E y \in L :
          y.slot = v.slot /\ y.req = v.req /\ y.committed /\ y.slot <= executed'[i]
    /\ \A r \in witness'[i] : r \in d.witness /\ recorded'[i][r] = d.recorded[r]
    /\ \A r \in d.witness : r \in witness'[i] \/ \E y \in L : y.req = r /\ y.committed
    /\ \A m \in sent' : \/ m \in sent
                        \/ Heeded(m) /\ m \in d.sent
                        \/ /\ Heeded(m) /\ m.kind = "Sync" /\ m.from = i /\ m.ballot = ballot[i]
                           /\ \E y \in L : y.req = m.req /\ y.committed
RanTypes ==
    /\ log' \in [Replica -> Batch] /\ executed' \in [Replica -> -1..MaxSlot]
    /\ values' \in [Replica -> SUBSET [req : Request, slot : Slot]]
    /\ pending' \in [Replica -> SUBSET Request] /\ witness' \in [Replica -> SUBSET Request]
    /\ recorded' \in [Replica -> [Request -> Ballot \cup {-1}]]
    /\ sent' \in SUBSET Message
RanAlone(i) ==
    \A k \in Replica : k # i => /\ log'[k] = log[k] /\ executed'[k] = executed[k]
                                /\ values'[k] = values[k] /\ witness'[k] = witness[k]
                                /\ recorded'[k] = recorded[k]

\* What apply leaves behind.
LEMMA ApplyIs ==
    ASSUME TypeOK, NEW i \in Replica, NEW L \in Batch, NEW d, GoodDesk(d), Apply(i, L, d)
    PROVE  Ran(i, L, d) /\ RanTypes /\ RanAlone(i)
<1> DEFINE X(m) == Executions(L, executed[i], m, DoneAt(i))
           V(m) == values[i] \cup X(m)
           gone(m) == {r.req : r \in {q \in L : q.slot \in (executed[i] + 1)..m}}
           syncs(m) == {Sync(i, ballot[i], r, ResultOf(V(m), r)) : r \in Reqs(X(m))}
<1>1. PICK m \in executed[i]..MaxSlot :
         /\ \A s \in (executed[i] + 1)..m : Decided(L, s)
         /\ log' = [log EXCEPT ![i] = L]
         /\ executed' = [executed EXCEPT ![i] = m]
         /\ values' = [values EXCEPT ![i] = V(m)]
         /\ pending' = [pending EXCEPT ![i] = @ \ gone(m)]
         /\ witness' = [witness EXCEPT ![i] = d.witness \ gone(m)]
         /\ recorded' = [recorded EXCEPT
               ![i] = [r \in Request |-> IF r \in gone(m) THEN -1 ELSE d.recorded[r]]]
         /\ Tell(d.sent \cup syncs(m))
  BY DEF Apply
<1>2. /\ executed[i] \in -1..MaxSlot /\ MaxSlot \in Nat
      /\ values[i] \in SUBSET [req : Request, slot : Slot]
  BY BoundAssumption DEF TypeOK
<1>3. m \in -1..MaxSlot /\ executed[i] <= m /\ m \in Int BY <1>1, <1>2
<1>4. /\ X(m) \in SUBSET [req : Request, slot : Slot]
      /\ \A v \in X(m) : \E y \in L :
            y.slot = v.slot /\ y.req = v.req /\ y.slot \in (executed[i] + 1)..m
  BY <1>3, ExecutionsIs DEF ExecutionsOf
<1>5. \A y \in L : y.slot \in (executed[i] + 1)..m => y.committed
  BY <1>1 DEF Decided, Batch
<1> HIDE DEF X
<1>6. V(m) \in SUBSET [req : Request, slot : Slot] BY <1>2, <1>4
<1>7. syncs(m) \in SUBSET Message
  <2>1. \A r \in Reqs(X(m)) : r \in Request BY <1>4 DEF Reqs
  <2> QED BY <1>6, <2>1, SyncType
<1>8. \A x \in syncs(m) : x.kind = "Sync" /\ x.from = i /\ x.ballot = ballot[i]
                          /\ \E y \in L : y.req = x.req /\ y.committed
  <2> SUFFICES ASSUME NEW r \in Reqs(X(m))
               PROVE  \E y \in L : y.req = r /\ y.committed
    BY DEF Sync
  <2>1. PICK v \in X(m) : v.req = r BY DEF Reqs
  <2> QED BY <1>4, <1>5, <2>1
<1> HIDE DEF V, syncs
<1>9. /\ sent' \in SUBSET Message
      /\ \A x \in sent' : x \in sent \/ (x \in d.sent \cup syncs(m) /\ Heeded(x))
  <2>1. d.sent \cup syncs(m) \in SUBSET Message BY <1>7 DEF GoodDesk
  <2> QED BY <1>1, <2>1, TellIs
<1>10. /\ log \in [Replica -> Batch] /\ executed \in [Replica -> -1..MaxSlot]
       /\ values \in [Replica -> SUBSET [req : Request, slot : Slot]]
       /\ pending \in [Replica -> SUBSET Request] /\ witness \in [Replica -> SUBSET Request]
       /\ recorded \in [Replica -> [Request -> Ballot \cup {-1}]]
  BY DEF TypeOK
<1>11. \A r \in gone(m) : \E y \in L : y.req = r /\ y.committed BY <1>5
<1> HIDE DEF gone
<1>12. /\ log'[i] = L /\ executed'[i] = m /\ values'[i] = V(m)
       /\ witness'[i] = d.witness \ gone(m)
       /\ recorded'[i] = [r \in Request |-> IF r \in gone(m) THEN -1 ELSE d.recorded[r]]
  BY <1>1, <1>10
<1>13. RanAlone(i) BY <1>1, <1>10 DEF RanAlone
<1>14. RanTypes
  <2>1. [r \in Request |-> IF r \in gone(m) THEN -1 ELSE d.recorded[r]]
          \in [Request -> Ballot \cup {-1}]
    BY DEF GoodDesk
  <2>2. d.witness \ gone(m) \in SUBSET Request BY DEF GoodDesk
  <2> QED BY <1>1, <1>3, <1>6, <1>9, <1>10, <2>1, <2>2 DEF RanTypes
<1>15. Ran(i, L, d)
  <2>1. \A v \in V(m) : v \in values[i] \/ \E y \in L :
           y.slot = v.slot /\ y.req = v.req /\ y.committed /\ y.slot <= m
    <3> SUFFICES ASSUME NEW v \in X(m)
                 PROVE  \E y \in L : y.slot = v.slot /\ y.req = v.req /\ y.committed /\ y.slot <= m
      BY DEF V
    <3>1. PICK y \in L : y.slot = v.slot /\ y.req = v.req /\ y.slot \in (executed[i] + 1)..m
      BY <1>4
    <3> QED BY <1>3, <1>5, <3>1
  <2>2. \A r \in witness'[i] : r \in d.witness /\ recorded'[i][r] = d.recorded[r]
    <3> TAKE r \in witness'[i]
    <3>1. r \in d.witness /\ r \notin gone(m) /\ r \in Request BY <1>12 DEF GoodDesk
    <3> QED BY <1>12, <3>1
  <2> QED BY <1>1, <1>3, <1>8, <1>9, <1>11, <1>12, <2>1, <2>2 DEF Ran
<1> QED BY <1>13, <1>14, <1>15
-----------------------------------------------------------------------------
(***************************************************************************)
(* Counting acknowledgements; the types of packets.                        *)
(***************************************************************************)
\* The votes after one more replica has voted.
LEMMA VoteIs ==
    ASSUME NEW V \in [Slot -> SUBSET Replica], NEW S, NEW j \in Replica, NEW e
    PROVE  /\ Vote(V, S, j, e) \in [Slot -> SUBSET Replica]
           /\ \A s \in Slot : \A q \in Vote(V, S, j, e)[s] : q \in V[s] \/ (q = j /\ s \in S)
BY DEF Vote

\* What wins is in the log.
LEMMA WinsIn ==
    ASSUME NEW i, NEW j, NEW L \in Batch, NEW S
    PROVE  Wins(i, j, L, S) \in SUBSET L /\ Wins(i, j, L, S) \in Batch
BY SubBatch DEF Wins

\* What CountAck does to the votes at i.
RanVotes(i, j, S) ==
    /\ votes' \in [Replica -> [Slot -> SUBSET Replica]]
    /\ \A k \in Replica : k # i => votes'[k] = votes[k]
    /\ \A s \in Slot : \A q \in votes'[i][s] : q \in votes[i][s] \/ (q = j /\ s \in S)

\* What counting a vote leaves behind.
LEMMA CountAckIs ==
    ASSUME TypeOK, NEW i \in Replica, NEW j \in Replica, NEW L \in Batch, NEW S, NEW d,
           GoodDesk(d), CountAck(i, j, L, S, d)
    PROVE  /\ Ran(i, Decide(L, Wins(i, j, L, S)), d) /\ RanTypes /\ RanAlone(i)
           /\ RanVotes(i, j, S)
<1> DEFINE C == Wins(i, j, L, S)
           W == Vote(votes[i], S, j, executed[i])
<1>1. C \in SUBSET L BY WinsIn
<1> HIDE DEF C
<1>2. Decide(L, C) \in Batch BY <1>1, DecideIs
<1>3. Apply(i, Decide(L, C), d) BY DEF CountAck, C
<1>4. Ran(i, Decide(L, C), d) /\ RanTypes /\ RanAlone(i) BY <1>2, <1>3, ApplyIs
<1>5. votes \in [Replica -> [Slot -> SUBSET Replica]] BY DEF TypeOK
<1>6. /\ W \in [Slot -> SUBSET Replica]
      /\ \A s \in Slot : \A q \in W[s] : q \in votes[i][s] \/ (q = j /\ s \in S)
  BY <1>5, VoteIs
<1>7. votes' = [votes EXCEPT ![i] = [s \in Slot |-> IF s <= executed'[i] THEN {} ELSE W[s]]]
  BY <1>5 DEF CountAck
<1> HIDE DEF W
<1> DEFINE X == [s \in Slot |-> IF s <= executed'[i] THEN {} ELSE W[s]]
<1>8. X \in [Slot -> SUBSET Replica] BY <1>6
<1>9. \A s \in Slot : X[s] \subseteq W[s] OBVIOUS
<1> HIDE DEF X
<1>10. votes' = [votes EXCEPT ![i] = X] BY <1>7 DEF X
<1>11. votes' \in [Replica -> [Slot -> SUBSET Replica]] BY <1>5, <1>8, <1>10
<1>12. votes'[i] = X /\ \A k \in Replica : k # i => votes'[k] = votes[k] BY <1>5, <1>10
<1>13. RanVotes(i, j, S)
  <2>1. \A s \in Slot : \A q \in votes'[i][s] : q \in votes[i][s] \/ (q = j /\ s \in S)
    BY <1>6, <1>9, <1>12
  <2> QED BY <1>11, <1>12, <2>1 DEF RanVotes
<1> QED BY <1>4, <1>13 DEF C

\* Receivers are replicas.
LEMMA UnlessIn == ASSUME NEW R, NEW J \in SUBSET Replica PROVE Unless(R, J) \in SUBSET J
BY DEF Unless

\* Peers are the other replicas.
LEMMA PeersIn == ASSUME NEW i PROVE Peers(i) \in SUBSET Replica /\ i \notin Peers(i)
BY DEF Peers

\* Each kind of packet is built from fields of the right type,
LEMMA PacketTypes ==
    ASSUME NEW J \in SUBSET Replica, NEW b \in Ballot
    PROVE  /\ \A f \in 0..(MaxSlot + 1) :
                 Prepare(J, b, f) \in Packet /\ Fetch(J, b, f) \in Packet
           /\ \A R \in Batch : Accept(J, b, R) \in Packet /\ Commit(J, b, R) \in Packet
           /\ \A S \in SUBSET Slot : Ack(J, b, S) \in Packet
           /\ \A h \in -1..MaxSlot, on \in BOOLEAN : Ready(J, b, h, on) \in Packet
<1>1. \A f \in 0..(MaxSlot + 1) : Prepare(J, b, f) \in Packet /\ Fetch(J, b, f) \in Packet
  BY DEF Prepare, Fetch, Packet
<1>2. \A R \in Batch : Accept(J, b, R) \in Packet /\ Commit(J, b, R) \in Packet
  BY DEF Accept, Commit, Packet
<1>3. \A S \in SUBSET Slot : Ack(J, b, S) \in Packet BY DEF Ack, Packet
<1>4. \A h \in -1..MaxSlot, on \in BOOLEAN : Ready(J, b, h, on) \in Packet
  BY DEF Ready, Packet
<1> QED BY <1>1, <1>2, <1>3, <1>4

\* What a packet is, by its kind.
LEMMA PacketFields ==
    ASSUME NEW m \in Packet
    PROVE  /\ m.to \in SUBSET Replica /\ m.ballot \in Ballot
           /\ m.kind = "Promise" => m \in Promise
           /\ m.kind \in {"Prepare", "Fetch"} => m.floor \in 0..(MaxSlot + 1)
           /\ m.kind \in {"Accept", "Commit"} => m.recs \in Batch
           /\ m.kind = "Ack" => m.slots \in SUBSET Slot
           /\ m.kind = "Ready" => m.high \in -1..MaxSlot /\ m.on \in BOOLEAN
BY DEF Packet, Promise

\* the slots it asks from included.
LEMMA FloorType ==
    ASSUME TypeOK, NEW i \in Replica PROVE executed[i] + 1 \in 0..(MaxSlot + 1)
<1>1. executed[i] \in -1..MaxSlot /\ MaxSlot \in Nat BY BoundAssumption DEF TypeOK
<1> QED BY <1>1

\* Ready, to everyone.
LEMMA ReadyType ==
    ASSUME TypeOK, NEW i \in Replica, NEW on \in BOOLEAN
    PROVE  ReadyAll(i, on) \in Seq(Packet)
<1>1. ballot[i] \in Ballot /\ executed[i] \in -1..MaxSlot BY DEF TypeOK
<1>2. Ready(Peers(i), ballot[i], executed[i], on) \in Packet BY <1>1, PeersIn, PacketTypes
<1> QED BY <1>2, OneIn DEF ReadyAll

\* The packets of an answer and of a proposal are well-formed.
LEMMA AnswerType ==
    ASSUME TypeOK, NEW j \in Replica, NEW b \in Ballot, NEW L \in Batch,
           NEW a \in Int, NEW h \in Int
    PROVE  /\ Answer(j, b, Chunks(L, a, h)) \in Seq(Packet)
           /\ \A m \in Range(Answer(j, b, Chunks(L, a, h))) :
                 \E R \in SUBSET L : AnswerOf(m, j, b, R)
<1> DEFINE C == Chunks(L, a, h)
<1>1. C \in Seq(SUBSET L) BY ChunksIn
<1>2. \A R \in Range(C) : R \in SUBSET L BY <1>1, RangeType
<1> HIDE DEF C
<1>3. ASSUME NEW R \in Range(C), NEW m, AnswerOf(m, j, b, R) PROVE m \in Packet
  <2>1. R \in Batch BY <1>2, SubBatch
  <2>2. \A D \in SUBSET R : Stamp(D, b) \in Batch BY <2>1, SubBatch, StampIs
  <2>3. \A D \in SUBSET R : Unless(D, {j}) \in SUBSET Replica BY DEF Unless
  <2>4. \A D \in SUBSET R : /\ Accept(Unless(D, {j}), b, Stamp(D, b)) \in Packet
                            /\ Commit(Unless(D, {j}), b, Stamp(D, b)) \in Packet
    BY <2>2, <2>3, PacketTypes
  <2> QED BY <1>3, <2>4 DEF AnswerOf
<1>4. /\ Answer(j, b, C) \in Seq(Packet)
      /\ \A m \in Range(Answer(j, b, C)) : \E R \in Range(C) : AnswerOf(m, j, b, R)
  BY <1>1, <1>3, AnswerIs
<1> QED BY <1>2, <1>4 DEF C

\* A broadcast suffix consists of packets.
LEMMA ProposedType ==
    ASSUME TypeOK, NEW i \in Replica, NEW L \in Batch, NEW C \in Seq(SUBSET L),
           NEW won \in Batch
    PROVE  /\ Proposed(i, C, won) \in Seq(Packet)
           /\ \A m \in Range(Proposed(i, C, won)) :
                 \E R \in SUBSET L : R \in Range(C) /\ ProposalOf(m, i, R, won)
<1>1. ballot[i] \in Ballot BY DEF TypeOK
<1>2. \A R \in Range(C) : R \in SUBSET L BY RangeType
<1>3. ASSUME NEW R \in Range(C), NEW m, ProposalOf(m, i, R, won) PROVE m \in Packet
  <2>1. R \in Batch BY <1>2, SubBatch
  <2>2. Undecided(R) \in Batch BY <2>1, UndecidedIs
  <2>3. Stamp(Undecided(R), ballot[i]) \in Batch BY <1>1, <2>2, StampIs
  <2>4. Slots(R) \in SUBSET Slot BY <2>1, SlotsType
  <2>5. \A K \in SUBSET won : Decide(K, K) \in Batch BY SubBatch, DecideAll
  <2>6. \A D : Unless(D, Peers(i)) \in SUBSET Replica BY PeersIn DEF Unless
  <2>7. /\ Accept(Unless(R, Peers(i)), ballot[i], Stamp(Undecided(R), ballot[i])) \in Packet
        /\ Ack(Unless(R, Peers(i)), ballot[i], Slots(R)) \in Packet
    BY <1>1, <2>3, <2>4, <2>6, PacketTypes
  <2>8. \A K \in SUBSET won : Commit(Unless(K, Peers(i)), ballot[i], Decide(K, K)) \in Packet
    BY <1>1, <2>5, <2>6, PacketTypes
  <2> QED BY <1>3, <2>7, <2>8 DEF ProposalOf
<1>4. /\ Proposed(i, C, won) \in Seq(Packet)
      /\ \A m \in Range(Proposed(i, C, won)) : \E R \in Range(C) : ProposalOf(m, i, R, won)
  BY <1>3, ProposedIs
<1> QED BY <1>2, <1>4
-----------------------------------------------------------------------------
(***************************************************************************)
(* Every step preserves the types, and a replica's step is its own.        *)
(***************************************************************************)
\* A log, what was executed and what was recorded fit together.
LEMMA ConsistentNext ==
    ASSUME TypeOK, NEW i \in Replica, Alone(i), Consistent(i)'
    PROVE  \A k \in Replica : Consistent(k)'
<1> TAKE k \in Replica
<1>1. CASE k = i BY <1>1
<1>2. CASE k # i
  <2>1. Same(k) BY <1>2 DEF Alone
  <2>2. Consistent(k) BY DEF TypeOK
  <2> QED BY <2>1, <2>2 DEF Same, Consistent
<1> QED BY <1>1, <1>2

\* The first state is of the right type, and every action keeps the types; an action of replica i leaves the others alone.
LEMMA TypeInit == Init => TypeOK
<1> SUFFICES ASSUME Init PROVE TypeOK OBVIOUS
<1> USE DEF Init, PerReplica
<1>1. InitLeader \in Replica /\ InitLeader \in Ballot /\ MaxSlot \in Nat
  BY LeaderAssumption, BoundAssumption, NAssumption
<1>2. {} \in Batch BY DEF Batch
<1>3. \A i \in Replica : Consistent(i) BY DEF Consistent
<1>4. /\ ballot \in [Replica -> Ballot] /\ leader \in [Replica -> Replica]
      /\ active \in [Replica -> BOOLEAN] /\ preparing \in [Replica -> BOOLEAN]
      /\ recoveryEnd \in [Replica -> -1..MaxSlot]
      /\ log \in [Replica -> Batch]
      /\ high \in [Replica -> -1..MaxSlot] /\ executed \in [Replica -> -1..MaxSlot]
      /\ values \in [Replica -> SUBSET [req : Request, slot : Slot]]
      /\ witness \in [Replica -> SUBSET Request] /\ queue \in [Replica -> Seq(Request)]
  BY <1>1, <1>2
<1>5. /\ assigned \in [Replica -> SUBSET Command]
      /\ pending \in [Replica -> SUBSET Request] /\ resume \in [Replica -> SUBSET Request]
      /\ recorded \in [Replica -> [Request -> Ballot \cup {-1}]]
      /\ promises \in [Replica -> SUBSET Replica] /\ alive \in [Replica -> SUBSET Replica]
      /\ pages \in [Replica -> SUBSET [from : Replica, pkt : Promise]]
  BY <1>1
<1>6. votes \in [Replica -> [Slot -> SUBSET Replica]] BY DEF NoVotes
<1>7. net \in [Replica -> [Replica -> Seq(Packet)]] BY <1>1
<1>8. /\ sent \subseteq Message
      /\ known \in [Client -> Ballot \cup {-1}]
      /\ done \in [Request -> {None} \cup [value : SUBSET Request, ballot : Ballot]]
      /\ issued \subseteq Request /\ before \in [Request -> SUBSET Request]
  BY <1>1
<1>9. evidence \in [Request -> [votes : SUBSET Replica, reply : BOOLEAN, value : SUBSET Request]]
  BY DEF NoEvidence
<1> QED BY <1>3, <1>4, <1>5, <1>6, <1>7, <1>8, <1>9 DEF TypeOK

LEMMA TypeIssue ==
    ASSUME TypeOK, NEW r \in Request, Issue(r)
    PROVE  TypeOK' /\ \A q \in Replica : Same(q)
<1> USE DEF roleVars, logVars, reqVars, recordVars, quorumVars, Issue
<1>1. issued' \subseteq Request /\ before' \in [Request -> SUBSET Request]
  BY DEF TypeOK, Completed
<1>2. \A k \in Replica : Consistent(k)' BY DEF TypeOK, Consistent
<1> QED BY <1>1, <1>2 DEF TypeOK, Same

LEMMA TypePropose ==
    ASSUME TypeOK, NEW i \in Replica, NEW r \in Request, Propose(i, r)
    PROVE  TypeOK' /\ Alone(i)
<1> USE DEF roleVars, logVars, quorumVars, clientVars
<1> DEFINE on == active[i] /\ r \notin DoneAt(i)
           d(A) == IF on THEN Submitted(i, <<r>>, A) ELSE Desk(i)
           X == IF r \in DoneAt(i) THEN {Sync(i, ballot[i], r, ResultOf(values[i], r))} ELSE {}
<1>1. PICK A \in SUBSET {r} :
        /\ pending' = IF r \in DoneAt(i) THEN pending ELSE [pending EXCEPT ![i] = @ \cup {r}]
        /\ witness' = [witness EXCEPT ![i] = d(A).witness]
        /\ recorded' = [recorded EXCEPT ![i] = d(A).recorded]
        /\ queue' = [queue EXCEPT ![i] = d(A).queue]
        /\ Tell(d(A).sent \cup X)
        /\ UNCHANGED <<roleVars, logVars, resume, quorumVars, alive, net, clientVars>>
  BY DEF Propose
<1>2. <<r>> \in Seq(Request) /\ A \in SUBSET Range(<<r>>) BY DEF Range
<1>3. GoodDesk(d(A)) BY <1>2, SubmittedType, DeskType
<1>4. X \in SUBSET Message
  <2>1. values[i] \in SUBSET [req : Request, slot : Slot] BY DEF TypeOK
  <2> QED BY <2>1, SyncType
<1> HIDE DEF d, X
<1>5. sent' \in SUBSET Message
  <2>1. d(A).sent \cup X \in SUBSET Message BY <1>3, <1>4 DEF GoodDesk
  <2> QED BY <1>1, <2>1, TellIs
<1>6. Alone(i) BY <1>1 DEF Alone, Same, TypeOK
<1>7. /\ pending' \in [Replica -> SUBSET Request] /\ witness' \in [Replica -> SUBSET Request]
      /\ recorded' \in [Replica -> [Request -> Ballot \cup {-1}]]
      /\ queue' \in [Replica -> Seq(Request)]
  BY <1>1, <1>3 DEF TypeOK, GoodDesk
<1>8. Consistent(i)'
  <2>1. witness'[i] = d(A).witness /\ recorded'[i] = d(A).recorded BY <1>1 DEF TypeOK
  <2>2. Consistent(i) BY DEF TypeOK
  <2> QED BY <1>1, <1>3, <2>1, <2>2 DEF Consistent, GoodDesk
<1>9. \A k \in Replica : Consistent(k)' BY <1>6, <1>8, ConsistentNext
<1> QED BY <1>1, <1>5, <1>6, <1>7, <1>9 DEF TypeOK

\* Ballots are handed out modulo N.
LEMMA Remainder ==
    ASSUME NEW n \in Nat \ {0}, NEW k \in Nat, NEW i \in 0..(n - 1)
    PROVE  (k * n + i) % n = i
BY Z3T(60)

\* The ballot a replica opens is its own.
LEMMA NextBallotType ==
    ASSUME TypeOK, NEW i \in Replica
    PROVE  /\ NextBallot(i) \in Nat /\ NextBallot(i) > ballot[i]
           /\ Owner(NextBallot(i)) = i
<1>1. ballot[i] \in Nat
  <2>1. ballot[i] \in Ballot BY DEF TypeOK
  <2> QED BY <2>1, BoundAssumption
<1>2. N \in Nat \ {0} /\ i \in 0..(N - 1) BY NAssumption
<1> DEFINE k == ballot[i] \div N
<1>3. k \in Nat BY <1>1, <1>2, DivNat
<1>4. (k + 1) * N + i > ballot[i] BY <1>1, <1>2
<1>5. k + 1 \in Nat BY <1>3
<1>6. (k + 1) * N + i \in Nat
  <2> HIDE DEF k
  <2> QED BY <1>2, <1>5
<1>7. \A c \in Nat : (c * N + i) % N = i BY <1>2, Remainder
<1> QED BY <1>4, <1>5, <1>6, <1>7 DEF Owner, NextBallot

LEMMA TypeTickBegin ==
    ASSUME TypeOK, NEW i \in Replica, TickBegin(i)
    PROVE  TypeOK' /\ Alone(i)
<1> USE DEF logVars, reqVars, recordVars, clientVars
<1>1. NextBallot(i) \in Ballot
  <2>1. NextBallot(i) \in Nat /\ NextBallot(i) <= MaxBallot BY NextBallotType DEF TickBegin
  <2> QED BY <2>1, BoundAssumption
<1> DEFINE P == Snapshot(i, i, NextBallot(i), executed[i] + 1)
<1>2. P \in Seq(Promise) BY <1>1, FloorType, SnapshotType
<1>3. pages' = [pages EXCEPT ![i] = From(i, P)] BY DEF TickBegin
<1> HIDE DEF P
<1>4. From(i, P) \in SUBSET [from : Replica, pkt : Promise] BY <1>2 DEF From
<1>5. pages' \in [Replica -> SUBSET [from : Replica, pkt : Promise]] BY <1>3, <1>4 DEF TypeOK
<1>6. Prepare(Peers(i), NextBallot(i), executed[i] + 1) \in Packet
  BY <1>1, PeersIn, FloorType, PacketTypes
<1>7. net' \in [Replica -> [Replica -> Seq(Packet)]]
  BY <1>6, OneIn, SendCarries DEF TickBegin
<1>8. votes' \in [Replica -> [Slot -> SUBSET Replica]]
  <2>1. NoVotes \in [Slot -> SUBSET Replica] BY DEF NoVotes
  <2> QED BY <2>1 DEF TypeOK, TickBegin
<1>9. /\ ballot' \in [Replica -> Ballot] /\ leader' \in [Replica -> Replica]
      /\ active' \in [Replica -> BOOLEAN] /\ preparing' \in [Replica -> BOOLEAN]
      /\ promises' \in [Replica -> SUBSET Replica]
  BY <1>1 DEF TypeOK, TickBegin
<1>10. Alone(i) BY DEF Alone, Same, TypeOK, TickBegin
<1>11. \A k \in Replica : Consistent(k)' BY DEF TypeOK, Consistent, TickBegin
<1> QED BY <1>5, <1>7, <1>8, <1>9, <1>10, <1>11 DEF TypeOK, TickBegin

LEMMA TypeTickPrepare ==
    ASSUME TypeOK, NEW i \in Replica, TickPrepare(i)
    PROVE  TypeOK' /\ Alone(i)
<1> USE DEF roleVars, logVars, reqVars, recordVars, quorumVars, clientVars, TickPrepare
<1>1. ballot[i] \in Ballot BY DEF TypeOK
<1>2. Prepare(Peers(i), ballot[i], executed[i] + 1) \in Packet
  BY <1>1, PeersIn, FloorType, PacketTypes
<1>3. net' \in [Replica -> [Replica -> Seq(Packet)]] BY <1>2, OneIn, SendCarries
<1>4. \A k \in Replica : Consistent(k)' BY DEF TypeOK, Consistent
<1> QED BY <1>3, <1>4 DEF TypeOK, Alone, Same

\* An ordering of a set of requests is a sequence of requests.
LEMMA OrdersType ==
    ASSUME NEW S \in SUBSET Request, NEW f \in Orders(S)
    PROVE  f \in Seq(Request) /\ Range(f) \in SUBSET S
<1>1. IsFiniteSet(S) BY RequestAssumption, FS_Subset
<1>2. Cardinality(S) \in Nat BY <1>1, CardNat
<1>3. f \in [1..Cardinality(S) -> S] BY DEF Orders
<1>4. f \in Seq(S) BY <1>2, <1>3
<1> QED BY <1>4, RangeType

LEMMA TypeTickFollower ==
    ASSUME TypeOK, NEW i \in Replica, TickFollower(i)
    PROVE  TypeOK' /\ Alone(i)
<1> USE DEF roleVars, logVars, quorumVars, clientVars
<1>1. PICK D \in SUBSET resume[i] :
          /\ resume' = [resume EXCEPT ![i] = @ \ D]
          /\ \E o \in Orders(D \cap pending[i]) : \E A \in SUBSET D :
                LET d == Submitted(i, o, A)
                IN  /\ A \subseteq Range(o) /\ Records(i, o, A)
                    /\ witness' = [witness EXCEPT ![i] = d.witness]
                    /\ recorded' = [recorded EXCEPT ![i] = d.recorded]
                    /\ Tell(d.sent)
  BY DEF TickFollower
<1>2. PICK o \in Orders(D \cap pending[i]) : \E A \in SUBSET D :
                LET d == Submitted(i, o, A)
                IN  /\ A \subseteq Range(o) /\ Records(i, o, A)
                    /\ witness' = [witness EXCEPT ![i] = d.witness]
                    /\ recorded' = [recorded EXCEPT ![i] = d.recorded]
                    /\ Tell(d.sent)
  BY <1>1
<1>3. PICK A \in SUBSET D :
                    /\ A \subseteq Range(o) /\ Records(i, o, A)
                    /\ witness' = [witness EXCEPT ![i] = Submitted(i, o, A).witness]
                    /\ recorded' = [recorded EXCEPT ![i] = Submitted(i, o, A).recorded]
                    /\ Tell(Submitted(i, o, A).sent)
  BY <1>2
<1>4. D \cap pending[i] \in SUBSET Request BY DEF TypeOK
<1>5. o \in Seq(Request) BY <1>4, OrdersType
<1> DEFINE d == Submitted(i, o, A)
<1>6. GoodDesk(d) BY <1>3, <1>5, SubmittedType
<1>7. /\ witness' = [witness EXCEPT ![i] = d.witness]
      /\ recorded' = [recorded EXCEPT ![i] = d.recorded] /\ Tell(d.sent)
  BY <1>3
<1> HIDE DEF d
<1>8. sent' \in SUBSET Message BY <1>6, <1>7, TellIs DEF GoodDesk
<1>9. UNCHANGED <<roleVars, logVars, pending, queue, quorumVars, alive, net, clientVars>>
  BY DEF TickFollower
<1>10. Alone(i) BY <1>7, <1>9 DEF Alone, Same, TypeOK
<1>11. /\ witness' \in [Replica -> SUBSET Request] /\ resume' \in [Replica -> SUBSET Request]
       /\ recorded' \in [Replica -> [Request -> Ballot \cup {-1}]]
  BY <1>1, <1>6, <1>7 DEF TypeOK, GoodDesk
<1>12. Consistent(i)'
  <2>1. witness'[i] = d.witness /\ recorded'[i] = d.recorded BY <1>7 DEF TypeOK
  <2>2. Consistent(i) BY DEF TypeOK
  <2> QED BY <1>6, <1>9, <2>1, <2>2 DEF Consistent, GoodDesk
<1>13. \A k \in Replica : Consistent(k)' BY <1>10, <1>12, ConsistentNext
<1> QED BY <1>8, <1>9, <1>10, <1>11, <1>13 DEF TypeOK
-----------------------------------------------------------------------------
(***************************************************************************)
(* The turn of a leader.                                                   *)
(***************************************************************************)
\* The position of an element in a finite set of numbers.
LEMMA OrdinalIs ==
    ASSUME NEW K \in SUBSET Nat, IsFiniteSet(K)
    PROVE  /\ \A k \in K : Ordinal(k, K) \in Nat \ {0}
           /\ \A k, l \in K : k < l => Ordinal(k, K) < Ordinal(l, K)
<1>1. ASSUME NEW k \in K PROVE Ordinal(k, K) \in Nat \ {0}
  <2> DEFINE S == {j \in K : j <= k}
  <2>1. IsFiniteSet(S) BY FS_Subset
  <2>2. Cardinality(S) \in Nat BY <2>1, CardNat
  <2>3. k \in S OBVIOUS
  <2>4. Cardinality(S) # 0 BY <2>1, <2>3, FS_EmptySet
  <2> QED BY <2>2, <2>4 DEF Ordinal
<1>2. ASSUME NEW k \in K, NEW l \in K, k < l PROVE Ordinal(k, K) < Ordinal(l, K)
  <2> DEFINE A == {j \in K : j <= k}
             B == {j \in K : j <= l}
  <2>1. IsFiniteSet(B) BY FS_Subset
  <2>2. A \in SUBSET B
    <3>1. \A j \in K : j <= k => j <= l BY <1>2
    <3> QED BY <3>1
  <2>3. l \in B /\ l \notin A BY <1>2
  <2>4. Ordinal(k, K) = Cardinality(A) /\ Ordinal(l, K) = Cardinality(B) BY DEF Ordinal
  <2> HIDE DEF A, B
  <2>5. IsFiniteSet(A) /\ Cardinality(A) <= Cardinality(B) BY <2>1, <2>2, FS_Subset
  <2>6. Cardinality(A) # Cardinality(B) BY <2>1, <2>2, <2>3, FS_Subset
  <2>7. Cardinality(A) \in Nat /\ Cardinality(B) \in Nat BY <2>1, <2>5, CardNat
  <2> QED BY <2>4, <2>5, <2>6, <2>7
<1> QED BY <1>1, <1>2

\* The records F that a leader proposes anew fill the slots above all it has.
NewRecords(i, F) ==
    /\ F \in Batch /\ IsFiniteSet(F)
    /\ high[i] + Cardinality(F) \in -1..MaxSlot
    /\ \A x \in F : /\ x.slot > high[i] /\ x.slot <= high[i] + Cardinality(F)
                    /\ x.ballot = ballot[i] /\ ~x.committed /\ x.req \in Request

\* Admitted requests go to new slots.
LEMMA AdmitIs ==
    ASSUME TypeOK, NEW i \in Replica, NEW q \in Seq(Request)
    PROVE  NewRecords(i, Admit(i, q))
<1> DEFINE K == Eligible(i, q)
           A == Admitted(i, q)
           rec(k) == Named(ballot[i], high[i] + Ordinal(k, K), q[k])
           F == Admit(i, q)
<1>1. DOMAIN q = 1..Len(q) /\ Len(q) \in Nat OBVIOUS
<1>2. K \in SUBSET (1..Len(q)) BY <1>1 DEF Eligible
<1>3. A \in SUBSET K /\ \A k \in A : high[i] + Ordinal(k, K) <= MaxSlot BY DEF Admitted
<1>4. \A k \in A, l \in K : Ordinal(l, K) <= Ordinal(k, K) => l \in A
  <2>1. PageSize \in Nat /\ Open(i) \in Int /\ high[i] \in Int /\ MaxSlot \in Nat
    <3>1. high[i] \in -1..MaxSlot /\ executed[i] \in -1..MaxSlot BY DEF TypeOK
    <3>2. MaxSlot \in Nat BY BoundAssumption
    <3>3. high[i] \in Int /\ executed[i] \in Int BY <3>1, <3>2
    <3> QED BY <3>2, <3>3, SizeAssumption DEF Open
  <2>2. IsFiniteSet(K)
    <3>1. IsFiniteSet(1..Len(q)) BY <1>1, FS_Interval
    <3> HIDE DEF K
    <3> QED BY <1>2, <3>1, FS_Subset
  <2>3. K \in SUBSET Nat BY <1>1, <1>2
  <2>4. \A k \in K : Ordinal(k, K) \in Nat
    <3> HIDE DEF K
    <3> QED BY <2>2, <2>3, OrdinalIs
  <2> SUFFICES ASSUME NEW k \in A, NEW l \in K, Ordinal(l, K) <= Ordinal(k, K) PROVE l \in A
    OBVIOUS
  <2>5. Ordinal(k, K) <= PageSize /\ Ordinal(k, K) <= Open(i)
        /\ high[i] + Ordinal(k, K) <= MaxSlot
    BY DEF Admitted
  <2>6. Ordinal(k, K) \in Nat /\ Ordinal(l, K) \in Nat BY <1>3, <2>4
  <2>7. Ordinal(l, K) <= PageSize /\ Ordinal(l, K) <= Open(i)
        /\ high[i] + Ordinal(l, K) <= MaxSlot
    BY <2>1, <2>5, <2>6
  <2> QED BY <2>7 DEF Admitted
<1>5. F = {rec(k) : k \in A} BY DEF Admit
<1> HIDE DEF K, A, F
<1>6. IsFiniteSet(K) /\ K \in SUBSET Nat /\ IsFiniteSet(A)
  <2>1. IsFiniteSet(1..Len(q)) BY <1>1, FS_Interval
  <2>2. K \in SUBSET Nat BY <1>1, <1>2
  <2>3. IsFiniteSet(K) BY <1>2, <2>1, FS_Subset
  <2> QED BY <1>3, <2>2, <2>3, FS_Subset
<1>7. /\ \A k \in K : Ordinal(k, K) \in Nat \ {0}
      /\ \A k, l \in K : k < l => Ordinal(k, K) < Ordinal(l, K)
  BY <1>6, OrdinalIs
<1>8. high[i] \in -1..MaxSlot /\ ballot[i] \in Ballot /\ MaxSlot \in Nat
  BY BoundAssumption DEF TypeOK
<1>9. ASSUME NEW k \in A
      PROVE  /\ rec(k) \in Record /\ rec(k).slot = high[i] + Ordinal(k, K)
             /\ rec(k).ballot = ballot[i] /\ ~rec(k).committed /\ rec(k).req \in Request
  <2>1. high[i] + Ordinal(k, K) \in Slot BY <1>3, <1>7, <1>8
  <2>2. q[k] \in Request BY <1>1, <1>2, <1>3
  <2> QED BY <1>8, <2>1, <2>2 DEF Named, Record, Command
<1>10. \A k, l \in A : Ordinal(k, K) = Ordinal(l, K) => k = l
  <2> SUFFICES ASSUME NEW k \in A, NEW l \in A, Ordinal(k, K) = Ordinal(l, K), k # l PROVE FALSE
    OBVIOUS
  <2>1. k \in Nat /\ l \in Nat /\ k \in K /\ l \in K BY <1>3, <1>6
  <2>2. k < l \/ l < k BY <2>1
  <2>3. Ordinal(k, K) \in Nat /\ Ordinal(l, K) \in Nat BY <1>7, <2>1
  <2> QED BY <1>7, <2>1, <2>2, <2>3
<1>11. \A k, l \in A : rec(k) = rec(l) \/ rec(k).slot = rec(l).slot => k = l
  BY <1>3, <1>7, <1>8, <1>9, <1>10
<1>12. IsFiniteSet(F) /\ Cardinality(F) = Cardinality(A)
  <2> DEFINE f == [k \in A |-> rec(k)]
  <2>1. f \in [A -> F] BY <1>5
  <2>2. \A x \in F : \E k \in A : f[k] = x BY <1>5
  <2>3. \A k, l \in A : f[k] = f[l] => k = l BY <1>11
  <2> HIDE DEF f
  <2> QED BY <1>6, <2>1, <2>2, <2>3, FiniteBijection
<1>13. ASSUME NEW k \in A PROVE Ordinal(k, K) <= Cardinality(A)
  <2> DEFINE S == {j \in K : j <= k}
  <2>1. S \in SUBSET A
    <3> SUFFICES ASSUME NEW j \in K, j <= k PROVE j \in A OBVIOUS
    <3>1. j \in Nat /\ k \in Nat /\ k \in K BY <1>3, <1>6
    <3>2. Ordinal(j, K) <= Ordinal(k, K)
      <4>1. Ordinal(j, K) \in Nat /\ Ordinal(k, K) \in Nat BY <1>7, <3>1
      <4>2. j = k \/ j < k BY <3>1
      <4> QED BY <1>7, <3>1, <4>1, <4>2
    <3> QED BY <1>4, <3>2
  <2>2. Ordinal(k, K) = Cardinality(S) BY DEF Ordinal
  <2> HIDE DEF S
  <2> QED BY <1>6, <2>1, <2>2, FS_Subset
<1>14. high[i] + Cardinality(A) \in -1..MaxSlot
  <2>1. CASE A = {} BY <1>8, <2>1, FS_EmptySet
  <2>2. CASE A # {}
    <3> DEFINE T == {Len(q) - k : k \in A}
    <3>1. \A k \in A : k \in Nat /\ Len(q) - k \in Nat BY <1>1, <1>2, <1>3
    <3>2. T \in SUBSET Nat /\ T # {} BY <2>2, <3>1
    <3> HIDE DEF T
    <3>3. PICK x \in T : \A y \in T : x <= y BY <3>2, Smallest
    <3> USE DEF T
    <3>4. PICK k \in A : x = Len(q) - k OBVIOUS
    <3>5. ASSUME NEW l \in A PROVE l <= k
      <4>1. Len(q) - k <= Len(q) - l BY <3>3, <3>4
      <4> QED BY <1>1, <3>1, <4>1
    <3> HIDE DEF T
    <3>6. A \in SUBSET {j \in K : j <= k} BY <1>3, <3>5
    <3>7. IsFiniteSet({j \in K : j <= k}) BY <1>6, FS_Subset
    <3>8. Cardinality(A) <= Ordinal(k, K) BY <3>6, <3>7, FS_Subset DEF Ordinal
    <3>9. high[i] + Ordinal(k, K) <= MaxSlot BY <1>3
    <3>10. Cardinality(A) \in Nat /\ Ordinal(k, K) \in Nat BY <1>3, <1>6, <1>7, CardNat
    <3> QED BY <1>8, <3>8, <3>9, <3>10
  <2> QED BY <2>1, <2>2
<1>15. F \in Batch BY <1>5, <1>9, <1>11 DEF Batch
<1>16. ASSUME NEW x \in F
       PROVE  /\ x.slot > high[i] /\ x.slot <= high[i] + Cardinality(F)
              /\ x.ballot = ballot[i] /\ ~x.committed /\ x.req \in Request
  <2>1. PICK k \in A : x = rec(k) BY <1>5
  <2>2. Ordinal(k, K) \in Nat \ {0} /\ Ordinal(k, K) <= Cardinality(A) BY <1>3, <1>7, <1>13
  <2>3. x.slot = high[i] + Ordinal(k, K) BY <1>9, <2>1
  <2>4. Cardinality(A) \in Nat BY <1>6, CardNat
  <2>5. x.slot > high[i] /\ x.slot <= high[i] + Cardinality(F) BY <1>8, <1>12, <2>2, <2>3, <2>4
  <2> QED BY <1>9, <2>1, <2>5
<1> QED BY <1>12, <1>14, <1>15, <1>16 DEF NewRecords, F

\* A leader's turn after it has submitted some requests: F is what it proposes
\* anew, C what it repeats.
LeaderTurn(i, due, d, F, C) ==
    LET L == log[i] \cup F
        h == high[i] + Cardinality(F)
        S == Slots(F) \cup Slots(InChunks(C))
    IN  /\ NewRecords(i, F) /\ (F # {} => Serves(i))
        /\ high' = [high EXCEPT ![i] = h]
        /\ assigned' = [assigned EXCEPT ![i] = @ \cup Reqs(F)]
        /\ CountAck(i, i, L, S, [d EXCEPT !.sent = @ \cup
              {Fast(i, ballot[i], x.req, Observed(values[i], x.req)) :
                 x \in {y \in F : AnsweredFast(i, L, d.witness, y)}}])
        /\ Send(i, If(Wakes(i), ReadyAll(i, TRUE))
                     \o If(F # {}, Proposed(i, <<F>>, {}))
                     \o If(due, ReadyAll(i, Serves(i)) \o Proposed(i, C, Wins(i, i, L, S))))
Repeats(i, F, due) ==
    IF due THEN Chunks(log[i] \cup F, executed[i] + 1, high[i] + Cardinality(F)) ELSE <<>>
Turn(i, due, d) == \E F \in Batch : LeaderTurn(i, due, d, F, Repeats(i, F, due))

\* The turn of a leader, taken apart.
LEMMA LeaderTurnIs ==
    ASSUME TypeOK, NEW i \in Replica, NEW due \in BOOLEAN, TickLeader(i, due)
    PROVE  /\ leader[i] = i /\ ~preparing[i]
           /\ active' = [active EXCEPT ![i] = Serves(i)]
           /\ UNCHANGED <<ballot, leader, preparing, recoveryEnd, pages, promises, alive,
                          clientVars>>
           /\ resume' \in [Replica -> SUBSET Request] /\ queue' \in [Replica -> Seq(Request)]
           /\ \E o \in Seq(Request) : \E A \in SUBSET Range(o) :
                 /\ (o # <<>> => active[i]) /\ Records(i, o, A)
                 /\ GoodDesk(Submitted(i, o, A)) /\ Turn(i, due, Submitted(i, o, A))
<1> DEFINE Body(D, o, A) ==
       LET d == Submitted(i, o, A)
           F == IF Serves(i) THEN Admit(i, d.queue) ELSE {}
           L == log[i] \cup F
           h == high[i] + Cardinality(F)
           C == IF due THEN Chunks(L, executed[i] + 1, h) ELSE <<>>
           S == Slots(F) \cup Slots(InChunks(C))
       IN /\ Drains(i, D) /\ A \subseteq Range(o) /\ Records(i, o, A)
          /\ resume' = [resume EXCEPT ![i] = IF Wakes(i) THEN pending[i] ELSE @ \ D]
          /\ \E n \in 0..Len(d.queue) :
                /\ IF Serves(i) THEN ReadTo(i, d.queue, n) ELSE n = 0
                /\ queue' = [queue EXCEPT ![i] = SubSeq(d.queue, n + 1, Len(d.queue))]
          /\ high' = [high EXCEPT ![i] = h]
          /\ assigned' = [assigned EXCEPT ![i] = @ \cup Reqs(F)]
          /\ CountAck(i, i, L, S, [d EXCEPT !.sent = @ \cup
                {Fast(i, ballot[i], x.req, Observed(values[i], x.req)) :
                   x \in {y \in F : AnsweredFast(i, L, d.witness, y)}}])
          /\ Send(i, If(Wakes(i), ReadyAll(i, TRUE))
                       \o If(F # {}, Proposed(i, <<F>>, {}))
                       \o If(due, ReadyAll(i, Serves(i)) \o Proposed(i, C, Wins(i, i, L, S))))
<1>21. PICK D \in SUBSET resume[i] : \E o \in Orders(D \cap pending[i]) : \E A \in SUBSET D :
          Body(D, o, A)
  BY DEF TickLeader
<1>22. PICK o \in Orders(D \cap pending[i]) : \E A \in SUBSET D : Body(D, o, A) BY <1>21
<1>23. PICK A \in SUBSET D : Body(D, o, A) BY <1>22
<1>1. Body(D, o, A) BY <1>23
<1>2. /\ leader[i] = i /\ ~preparing[i] /\ active' = [active EXCEPT ![i] = Serves(i)]
      /\ UNCHANGED <<ballot, leader, preparing, recoveryEnd, pages, promises, alive, clientVars>>
  BY DEF TickLeader
<1> DEFINE d == Submitted(i, o, A)
           F == IF Serves(i) THEN Admit(i, d.queue) ELSE {}
<1>3. D \cap pending[i] \in SUBSET Request BY DEF TypeOK
<1>4. o \in Seq(Request) /\ Range(o) \in SUBSET (D \cap pending[i]) BY <1>3, OrdersType
<1>5. A \in SUBSET Range(o) /\ Records(i, o, A) BY <1>1
<1>6. GoodDesk(d) BY <1>4, <1>5, SubmittedType
<1>7. NewRecords(i, F)
  <2>1. NewRecords(i, Admit(i, d.queue)) BY <1>6, AdmitIs DEF GoodDesk
  <2>2. NewRecords(i, {})
    <3>1. high[i] \in -1..MaxSlot /\ {} \in Batch BY DEF TypeOK, Batch
    <3>2. IsFiniteSet({}) /\ Cardinality({}) = 0 BY FS_EmptySet
    <3> QED BY <3>1, <3>2 DEF NewRecords
  <2> QED BY <2>1, <2>2
<1>8. /\ high' = [high EXCEPT ![i] = high[i] + Cardinality(F)]
      /\ assigned' = [assigned EXCEPT ![i] = @ \cup Reqs(F)]
      /\ CountAck(i, i, log[i] \cup F, Slots(F) \cup Slots(InChunks(Repeats(i, F, due))),
              [d EXCEPT !.sent = @ \cup
                {Fast(i, ballot[i], x.req, Observed(values[i], x.req)) :
                   x \in {y \in F : AnsweredFast(i, log[i] \cup F, d.witness, y)}}])
      /\ Send(i, If(Wakes(i), ReadyAll(i, TRUE))
                   \o If(F # {}, Proposed(i, <<F>>, {}))
                   \o If(due, ReadyAll(i, Serves(i)) \o Proposed(i, Repeats(i, F, due),
                              Wins(i, i, log[i] \cup F,
                                   Slots(F) \cup Slots(InChunks(Repeats(i, F, due)))))))
  BY <1>1 DEF Repeats
<1>9. Drains(i, D) BY <1>1
<1>10. /\ resume' = [resume EXCEPT ![i] = IF Wakes(i) THEN pending[i] ELSE @ \ D]
       /\ \E n \in 0..Len(d.queue) :
             queue' = [queue EXCEPT ![i] = SubSeq(d.queue, n + 1, Len(d.queue))]
  BY <1>1
<1>11. F # {} => Serves(i) OBVIOUS
<1> HIDE DEF d, F
<1>12. Turn(i, due, d)
  <2>1. F \in Batch BY <1>7 DEF NewRecords
  <2>2. LeaderTurn(i, due, d, F, Repeats(i, F, due)) BY <1>7, <1>8, <1>11 DEF LeaderTurn
  <2> QED BY <2>1, <2>2 DEF Turn
<1>13. resume' \in [Replica -> SUBSET Request] BY <1>10 DEF TypeOK
<1>14. queue' \in [Replica -> Seq(Request)]
  <2>1. d.queue \in Seq(Request) BY <1>6 DEF GoodDesk
  <2>2. \A n \in 0..Len(d.queue) : SubSeq(d.queue, n + 1, Len(d.queue)) \in Seq(Request) BY <2>1
  <2> QED BY <1>10, <2>2 DEF TypeOK
<1>15. o # <<>> => active[i]
  <2> SUFFICES ASSUME ~active[i] PROVE o = <<>> OBVIOUS
  <2>1. D = {} BY <1>9 DEF Drains
  <2>2. o \in [1..Cardinality(D \cap pending[i]) -> D \cap pending[i]] BY DEF Orders
  <2>3. D \cap pending[i] = {} BY <2>1
  <2>4. Cardinality(D \cap pending[i]) = 0 BY <2>3, FS_EmptySet
  <2> QED BY <2>2, <2>4
<1> QED BY <1>2, <1>4, <1>5, <1>6, <1>12, <1>13, <1>14, <1>15 DEF d

\* What is executed is in the log, and so not above its highest slot.
LEMMA RanConsistent ==
    ASSUME TypeOK, NEW i \in Replica, NEW L \in Batch, NEW d, GoodDesk(d), Ran(i, L, d), RanTypes,
           NEW h \in -1..MaxSlot, executed[i] <= h, \A r \in L : r.slot <= h, high'[i] = h
    PROVE  Consistent(i)'
<1>1. /\ log'[i] = L /\ executed[i] <= executed'[i]
      /\ \A s \in (executed[i] + 1)..executed'[i] : Decided(L, s)
      /\ \A r \in witness'[i] : r \in d.witness /\ recorded'[i][r] = d.recorded[r]
  BY DEF Ran
<1>2. executed[i] \in -1..MaxSlot /\ executed'[i] \in -1..MaxSlot /\ MaxSlot \in Nat
  BY BoundAssumption DEF TypeOK, RanTypes
<1>3. executed'[i] <= h
  <2>1. CASE executed'[i] = executed[i] BY <2>1
  <2>2. CASE executed'[i] # executed[i]
    <3>1. executed'[i] \in (executed[i] + 1)..executed'[i] BY <1>1, <1>2, <2>2
    <3>2. PICK r \in L : r.slot = executed'[i] BY <1>1, <3>1 DEF Decided
    <3> QED BY <3>2
  <2> QED BY <2>1, <2>2
<1>4. \A r \in witness'[i] : recorded'[i][r] >= 0 BY <1>1 DEF GoodDesk
<1> QED BY <1>1, <1>3, <1>4 DEF Consistent

\* It keeps the types.
LEMMA TurnType ==
    ASSUME TypeOK, NEW i \in Replica, NEW due \in BOOLEAN, NEW d, GoodDesk(d), NEW F \in Batch,
           LeaderTurn(i, due, d, F, Repeats(i, F, due))
    PROVE  /\ RanTypes /\ RanAlone(i) /\ Consistent(i)'
           /\ high' \in [Replica -> -1..MaxSlot] /\ assigned' \in [Replica -> SUBSET Command]
           /\ \A k \in Replica : k # i => high'[k] = high[k] /\ votes'[k] = votes[k]
           /\ votes' \in [Replica -> [Slot -> SUBSET Replica]]
           /\ net' \in [Replica -> [Replica -> Seq(Packet)]]
<1> DEFINE C == Repeats(i, F, due)
           L == log[i] \cup F
           h == high[i] + Cardinality(F)
           S == Slots(F) \cup Slots(InChunks(C))
           M == {Fast(i, ballot[i], x.req, Observed(values[i], x.req)) :
                   x \in {y \in F : AnsweredFast(i, L, d.witness, y)}}
           e == [d EXCEPT !.sent = @ \cup M]
           won == Wins(i, i, L, S)
           out == If(Wakes(i), ReadyAll(i, TRUE)) \o If(F # {}, Proposed(i, <<F>>, {}))
                     \o If(due, ReadyAll(i, Serves(i)) \o Proposed(i, C, won))
<1>1. /\ NewRecords(i, F)
      /\ high' = [high EXCEPT ![i] = h] /\ assigned' = [assigned EXCEPT ![i] = @ \cup Reqs(F)]
      /\ CountAck(i, i, L, S, e) /\ Send(i, out)
  BY DEF LeaderTurn
<1>2. /\ executed[i] <= high[i] /\ \A r \in log[i] : r.slot <= high[i]
      /\ high[i] \in -1..MaxSlot /\ executed[i] \in -1..MaxSlot /\ MaxSlot \in Nat
      /\ log[i] \in Batch /\ ballot[i] \in Ballot
      /\ values[i] \in SUBSET [req : Request, slot : Slot]
  BY BoundAssumption DEF TypeOK, Consistent
<1>3. Cardinality(F) \in Nat /\ h \in -1..MaxSlot BY <1>1, CardNat DEF NewRecords
<1>4. L \in Batch
  <2>1. \A x \in F, y \in log[i] : x.slot # y.slot /\ x \in Record /\ y \in Record
    <3> SUFFICES ASSUME NEW x \in F, NEW y \in log[i]
                 PROVE  x.slot # y.slot /\ x \in Record /\ y \in Record
      OBVIOUS
    <3>1. x \in Record /\ y \in Record BY <1>2 DEF Batch
    <3>2. x.slot \in Slot /\ y.slot \in Slot BY <3>1 DEF Record
    <3>3. x.slot > high[i] /\ y.slot <= high[i] BY <1>1, <1>2 DEF NewRecords
    <3> QED BY <1>2, <3>1, <3>2, <3>3
  <2> QED BY <1>2, <2>1 DEF Batch
<1>5. \A r \in L : r.slot <= h
  <2> SUFFICES ASSUME NEW r \in log[i] PROVE r.slot <= h BY <1>1 DEF NewRecords
  <2>1. r.slot \in Slot BY <1>2 DEF Batch, Record
  <2> QED BY <1>2, <1>3, <2>1
<1>6. M \in SUBSET Message
  <2> SUFFICES ASSUME NEW x \in F
               PROVE  Fast(i, ballot[i], x.req, Observed(values[i], x.req)) \in Message
    OBVIOUS
  <2>1. x.req \in Request /\ Observed(values[i], x.req) \in SUBSET Request
    BY <1>1, <1>2, ResultType DEF NewRecords
  <2> QED BY <1>2, <2>1 DEF Fast, Message
<1> HIDE DEF M
<1>7. GoodDesk(e)
  <2>1. /\ e.witness = d.witness /\ e.recorded = d.recorded /\ e.queue = d.queue
        /\ e.sent = d.sent \cup M
    <3>1. DOMAIN Desk(i) = {"witness", "recorded", "queue", "sent"} BY DEF Desk
    <3> QED BY <3>1 DEF GoodDesk
  <2> QED BY <1>6, <2>1 DEF GoodDesk
<1> HIDE DEF L, S, e
<1>8. /\ Ran(i, Decide(L, won), e) /\ RanTypes /\ RanAlone(i)
      /\ RanVotes(i, i, S)
  BY <1>1, <1>4, <1>7, CountAckIs DEF won
<1>9. won \in SUBSET L /\ won \in Batch BY <1>4, WinsIn DEF won
<1> HIDE DEF won
<1>10. Decide(L, won) \in Batch /\ \A r \in Decide(L, won) : r.slot <= h
  BY <1>4, <1>5, <1>9, DecideIs
<1>11. high'[i] = h /\ \A k \in Replica : k # i => high'[k] = high[k] BY <1>1 DEF TypeOK
<1>12. Consistent(i)'
  <2>1. executed[i] <= h BY <1>2, <1>3
  <2> HIDE DEF h
  <2> QED BY <1>3, <1>7, <1>8, <1>10, <1>11, <2>1, RanConsistent
<1>13. high' \in [Replica -> -1..MaxSlot] BY <1>1, <1>3 DEF TypeOK
<1>14. assigned' \in [Replica -> SUBSET Command]
  <2>1. Reqs(F) \in SUBSET Command BY ReqsType DEF Batch
  <2> QED BY <1>1, <2>1 DEF TypeOK
<1>15. out \in Seq(Packet)
  <2>1. Serves(i) \in BOOLEAN
    <3>1. active[i] \in BOOLEAN BY DEF TypeOK
    <3> QED BY <3>1 DEF Serves, Wakes
  <2>2. ReadyAll(i, TRUE) \in Seq(Packet) /\ ReadyAll(i, Serves(i)) \in Seq(Packet)
    BY <2>1, ReadyType
  <2>3. <<F>> \in Seq(SUBSET F) /\ {} \in Batch BY DEF Batch
  <2>4. Proposed(i, <<F>>, {}) \in Seq(Packet) BY <2>3, ProposedType
  <2>5. C \in Seq(SUBSET L)
    <3>1. executed[i] + 1 \in Int /\ h \in Int BY <1>2, <1>3
    <3>2. Chunks(L, executed[i] + 1, h) \in Seq(SUBSET L) BY <3>1, ChunksIn
    <3>3. C = IF due THEN Chunks(L, executed[i] + 1, h) ELSE <<>> BY DEF Repeats, L
    <3> QED BY <3>2, <3>3
  <2>6. Proposed(i, C, won) \in Seq(Packet) BY <1>4, <1>9, <2>5, ProposedType
  <2> HIDE DEF C
  <2>7. If(Wakes(i), ReadyAll(i, TRUE)) \in Seq(Packet) BY <2>2, IfIn
  <2>8. If(F # {}, Proposed(i, <<F>>, {})) \in Seq(Packet) BY <2>4, IfIn
  <2>9. ReadyAll(i, Serves(i)) \o Proposed(i, C, won) \in Seq(Packet)
    BY <2>2, <2>6, RangeOfConcat
  <2>10. If(due, ReadyAll(i, Serves(i)) \o Proposed(i, C, won)) \in Seq(Packet) BY <2>9 DEF If
  <2> QED BY <2>7, <2>8, <2>10, RangeOfConcat
<1> HIDE DEF out
<1>16. net' \in [Replica -> [Replica -> Seq(Packet)]] BY <1>1, <1>15, SendCarries
<1> QED BY <1>8, <1>11, <1>12, <1>13, <1>14, <1>16 DEF RanVotes

LEMMA TypeTickLeader ==
    ASSUME TypeOK, NEW i \in Replica, NEW due \in BOOLEAN, TickLeader(i, due)
    PROVE  TypeOK' /\ Alone(i)
<1> USE DEF clientVars
<1>1. /\ active' = [active EXCEPT ![i] = Serves(i)]
      /\ UNCHANGED <<ballot, leader, preparing, recoveryEnd, pages, promises, alive, clientVars>>
      /\ resume' \in [Replica -> SUBSET Request] /\ queue' \in [Replica -> Seq(Request)]
  BY LeaderTurnIs
<1>2. PICK o \in Seq(Request) : \E A \in SUBSET Range(o) :
         GoodDesk(Submitted(i, o, A)) /\ Turn(i, due, Submitted(i, o, A))
  BY LeaderTurnIs
<1>3. PICK A \in SUBSET Range(o) : GoodDesk(Submitted(i, o, A)) /\ Turn(i, due, Submitted(i, o, A))
  BY <1>2
<1>4. PICK F \in Batch : LeaderTurn(i, due, Submitted(i, o, A), F, Repeats(i, F, due))
  BY <1>3 DEF Turn
<1>5. /\ RanTypes /\ RanAlone(i) /\ Consistent(i)'
      /\ high' \in [Replica -> -1..MaxSlot] /\ assigned' \in [Replica -> SUBSET Command]
      /\ \A k \in Replica : k # i => high'[k] = high[k] /\ votes'[k] = votes[k]
      /\ votes' \in [Replica -> [Slot -> SUBSET Replica]]
      /\ net' \in [Replica -> [Replica -> Seq(Packet)]]
  BY <1>3, <1>4, TurnType
<1>6. active' \in [Replica -> BOOLEAN] /\ \A k \in Replica : k # i => active'[k] = active[k]
  <2>1. Serves(i) \in BOOLEAN BY DEF Serves, Wakes, TypeOK
  <2> QED BY <1>1, <2>1 DEF TypeOK
<1>7. Alone(i) BY <1>1, <1>5, <1>6 DEF Alone, Same, RanAlone
<1>8. \A k \in Replica : Consistent(k)' BY <1>5, <1>7, ConsistentNext
<1> QED BY <1>1, <1>5, <1>6, <1>7, <1>8 DEF TypeOK, RanTypes
-----------------------------------------------------------------------------
(***************************************************************************)
(* Types: the packets a replica receives.                                  *)
(***************************************************************************)
LEMMA TypePrepare ==
    ASSUME TypeOK, NEW i \in Replica, NEW j \in Replica, net[j][i] # <<>>, NEW m \in Packet,
           ReceivePrepare(i, j, m)
    PROVE  TypeOK' /\ Alone(i)
<1> USE DEF logVars, reqVars, recordVars, clientVars
<1>1. m.ballot \in Ballot /\ m.floor \in 0..(MaxSlot + 1)
  BY PacketFields DEF ReceivePrepare
<1>2. Snapshot(i, j, m.ballot, m.floor) \in Seq(Packet)
  <2>1. Snapshot(i, j, m.ballot, m.floor) \in Seq(Promise) BY <1>1, SnapshotType
  <2>2. \A x \in Promise : x \in Packet BY DEF Packet
  <2> QED BY <2>1, <2>2
<1>3. net' \in [Replica -> [Replica -> Seq(Packet)]] BY <1>2, ExchangeCarries DEF ReceivePrepare
<1>4. votes' \in [Replica -> [Slot -> SUBSET Replica]]
  <2>1. NoVotes \in [Slot -> SUBSET Replica] BY DEF NoVotes
  <2> QED BY <2>1 DEF TypeOK, ReceivePrepare
<1>5. /\ ballot' \in [Replica -> Ballot] /\ leader' \in [Replica -> Replica]
      /\ active' \in [Replica -> BOOLEAN] /\ preparing' \in [Replica -> BOOLEAN]
  BY <1>1 DEF TypeOK, ReceivePrepare
<1>6. Alone(i) BY DEF Alone, Same, TypeOK, ReceivePrepare
<1>7. \A k \in Replica : Consistent(k)' BY DEF TypeOK, Consistent, ReceivePrepare
<1> QED BY <1>3, <1>4, <1>5, <1>6, <1>7 DEF TypeOK, ReceivePrepare

\* To send nothing.
LEMMA NoneSent == <<>> \in Seq(Packet) /\ Range(<<>>) = {}
BY DEF Range

\* Pages collected are pages.
LEMMA PagesWithType ==
    ASSUME TypeOK, NEW i \in Replica, NEW j \in Replica, NEW m \in Packet, m.kind = "Promise"
    PROVE  PagesWith(i, j, m) \in SUBSET [from : Replica, pkt : Promise]
<1>1. m \in Promise BY PacketFields
<1>2. pages[i] \in SUBSET [from : Replica, pkt : Promise] BY DEF TypeOK
<1> QED BY <1>1, <1>2 DEF PagesWith

LEMMA TypeCollect ==
    ASSUME TypeOK, NEW i \in Replica, NEW j \in Replica, net[j][i] # <<>>, NEW m \in Packet,
           CollectPromise(i, j, m)
    PROVE  TypeOK' /\ Alone(i)
<1> USE DEF roleVars, logVars, reqVars, recordVars, clientVars
<1>1. PagesWith(i, j, m) \in SUBSET [from : Replica, pkt : Promise]
  BY PagesWithType DEF CollectPromise, PromiseExpected
<1>2. pages' \in [Replica -> SUBSET [from : Replica, pkt : Promise]]
  BY <1>1 DEF TypeOK, CollectPromise
<1>3. promises' \in [Replica -> SUBSET Replica] BY DEF TypeOK, CollectPromise
<1>4. net' \in [Replica -> [Replica -> Seq(Packet)]]
  BY NoneSent, ExchangeCarries DEF CollectPromise
<1>5. Alone(i) BY DEF Alone, Same, TypeOK, CollectPromise
<1>6. \A k \in Replica : Consistent(k)' BY DEF TypeOK, Consistent, CollectPromise
<1> QED BY <1>2, <1>3, <1>4, <1>5, <1>6 DEF TypeOK, CollectPromise

\* The ranks of the elements of a finite set of integers differ.
LEMMA RanksDiffer ==
    ASSUME NEW X \in SUBSET Int, IsFiniteSet(X)
    PROVE  \A x, y \in X : x < y => RankOf(x, X) < RankOf(y, X)
<1> SUFFICES ASSUME NEW x \in X, NEW y \in X, x < y PROVE RankOf(x, X) < RankOf(y, X)
  OBVIOUS
<1> DEFINE A == {z \in X : z < x}
           B == {z \in X : z < y}
<1>1. IsFiniteSet(B) BY FS_Subset
<1>2. A \in SUBSET B
  <2>1. \A z \in X : z < x => z < y OBVIOUS
  <2> QED BY <2>1
<1>3. x \in B /\ x \notin A OBVIOUS
<1>4. RankOf(x, X) = Cardinality(A) /\ RankOf(y, X) = Cardinality(B) BY DEF RankOf
<1> HIDE DEF A, B
<1>5. IsFiniteSet(A) /\ Cardinality(A) <= Cardinality(B) BY <1>1, <1>2, FS_Subset
<1>6. Cardinality(A) # Cardinality(B) BY <1>1, <1>2, <1>3, FS_Subset
<1>7. Cardinality(A) \in Nat /\ Cardinality(B) \in Nat BY <1>1, <1>5, CardNat
<1> QED BY <1>4, <1>5, <1>6, <1>7

\* What a new leader takes over: what it has executed, a record for each slot up
\* to h, and the requests in E behind them.
Reps(i, j, m) == {p \in PagesWith(i, j, m) : p.from \in promises[i] \cup {j}}
RecsOf(P) == UNION {p.pkt.recs : p \in P}
Old(i) == {r \in log[i] : r.slot <= executed[i]}
Taken(i, h, sel) == {Named(ballot[i], s, sel[s]) : s \in (executed[i] + 1)..h}
Extra(i, P, h, sel) == Witnessed(P) \ (Reqs(Old(i)) \cup Reqs(Taken(i, h, sel)) \cup DoneAt(i))
Behind(i, h, E) == {Named(ballot[i], h + 1 + RankOf(r, E), r) : r \in E}
NewLog(i, h, sel, E) == Old(i) \cup Taken(i, h, sel) \cup Behind(i, h, E)

TakesOver(i, j, m, h, sel) ==
    LET P == Reps(i, j, m)
        e == executed[i]
        E == Extra(i, P, h, sel)
        L == NewLog(i, h, sel, E)
        top == h + Cardinality(E)
        C == Chunks(L, e + 1, top)
    IN  /\ IsTop(h, {e} \cup {p.pkt.high : p \in P})
        /\ \A s \in (e + 1)..h : Selects(RecsOf(P), s, sel[s])
        /\ top \in -1..MaxSlot
        /\ log' = [log EXCEPT ![i] = L]
        /\ high' = [high EXCEPT ![i] = top]
        /\ assigned' = [assigned EXCEPT ![i] = Reqs(L)]
        /\ recoveryEnd' = [recoveryEnd EXCEPT ![i] = top]
        /\ votes' = [votes EXCEPT ![i] = Vote(NoVotes, Slots(InChunks(C)), i, e)]
        /\ active' = [active EXCEPT ![i] = e >= top]
        /\ resume' = IF e >= top THEN [resume EXCEPT ![i] = pending[i]] ELSE resume
        /\ Exchange(i, j, Proposed(i, C, {}) \o If(e >= top, ReadyAll(i, TRUE)))
Picks(i, h, sel) == h \in -1..MaxSlot /\ executed[i] <= h
                    /\ sel \in [(executed[i] + 1)..h -> Command]

\* A recovery, taken apart.
LEMMA TakeOverIs ==
    ASSUME TypeOK, NEW i \in Replica, NEW j \in Replica, NEW m \in Packet, TakeOver(i, j, m)
    PROVE  /\ PromiseExpected(i, m) /\ Elects(i, j, m)
           /\ \E h, sel : Picks(i, h, sel) /\ TakesOver(i, j, m, h, sel)
           /\ pages' = [pages EXCEPT ![i] = PagesWith(i, j, m)]
           /\ promises' = [promises EXCEPT ![i] = @ \cup {j}]
           /\ preparing' = [preparing EXCEPT ![i] = FALSE]
           /\ UNCHANGED <<ballot, leader, executed, values, pending, queue, recordVars, alive,
                          sent, clientVars>>
<1>1. /\ PromiseExpected(i, m) /\ Elects(i, j, m)
      /\ pages' = [pages EXCEPT ![i] = PagesWith(i, j, m)]
      /\ promises' = [promises EXCEPT ![i] = @ \cup {j}]
      /\ preparing' = [preparing EXCEPT ![i] = FALSE]
      /\ UNCHANGED <<ballot, leader, executed, values, pending, queue, recordVars, alive,
                     sent, clientVars>>
  BY DEF TakeOver
<1> DEFINE P == {p \in PagesWith(i, j, m) : p.from \in promises[i] \cup {j}}
           R == UNION {p.pkt.recs : p \in P}
           e == executed[i]
           b == ballot[i]
           Body(h, sel) ==
             LET Z == {Named(b, s, sel[s]) : s \in (e + 1)..h}
                 old == {r \in log[i] : r.slot <= e}
                 E == Witnessed(P) \ (Reqs(old) \cup Reqs(Z) \cup DoneAt(i))
                 L == old \cup Z \cup {Named(b, h + 1 + RankOf(r, E), r) : r \in E}
                 top == h + Cardinality(E)
                 C == Chunks(L, e + 1, top)
             IN /\ \A s \in (e + 1)..h : Selects(R, s, sel[s])
                /\ top \in -1..MaxSlot
                /\ log' = [log EXCEPT ![i] = L]
                /\ high' = [high EXCEPT ![i] = top]
                /\ assigned' = [assigned EXCEPT ![i] = Reqs(L)]
                /\ recoveryEnd' = [recoveryEnd EXCEPT ![i] = top]
                /\ votes' = [votes EXCEPT ![i] = Vote(NoVotes, Slots(InChunks(C)), i, e)]
                /\ active' = [active EXCEPT ![i] = e >= top]
                /\ resume' = IF e >= top THEN [resume EXCEPT ![i] = pending[i]] ELSE resume
                /\ Exchange(i, j, Proposed(i, C, {}) \o If(e >= top, ReadyAll(i, TRUE)))
<1>21. PICK h \in {e} \cup {p.pkt.high : p \in P} :
          /\ IsTop(h, {e} \cup {p.pkt.high : p \in P})
          /\ \E sel \in [(e + 1)..h -> Command] : Body(h, sel)
  BY DEF TakeOver
<1>22. PICK sel \in [(e + 1)..h -> Command] : Body(h, sel) BY <1>21
<1>23. P = Reps(i, j, m) BY DEF Reps
<1>24. TakesOver(i, j, m, h, sel)
  BY <1>21, <1>22, Zenon DEF TakesOver, Reps, RecsOf, Old, Taken, Extra, Behind, NewLog
<1>2. h \in {executed[i]} \cup {p.pkt.high : p \in Reps(i, j, m)} BY <1>21, <1>23
<1>3. sel \in [(executed[i] + 1)..h -> Command] /\ TakesOver(i, j, m, h, sel) BY <1>22, <1>24
<1> HIDE DEF Body, P, R, e, b
<1>4. PagesWith(i, j, m) \in SUBSET [from : Replica, pkt : Promise]
  BY <1>1, PagesWithType DEF PromiseExpected
<1>5. \A p \in Reps(i, j, m) : p.pkt.high \in -1..MaxSlot BY <1>4 DEF Reps, Promise
<1>6. executed[i] \in -1..MaxSlot BY DEF TypeOK
<1>7. h \in -1..MaxSlot BY <1>2, <1>5, <1>6
<1>8. executed[i] <= h BY <1>3 DEF TakesOver, IsTop
<1> QED BY <1>1, <1>3, <1>7, <1>8 DEF Picks

\* The log that a new leader takes over.
LEMMA NewLogIs ==
    ASSUME TypeOK, NEW i \in Replica, NEW P, NEW h, NEW sel, Picks(i, h, sel),
           h + Cardinality(Extra(i, P, h, sel)) \in -1..MaxSlot
    PROVE  LET E == Extra(i, P, h, sel)
               L == NewLog(i, h, sel, E)
           IN  /\ IsFiniteSet(E) /\ E \in SUBSET Request
               /\ L \in Batch /\ \A x \in L : x.slot <= h + Cardinality(E)
               /\ h <= h + Cardinality(E)
               /\ \A s \in (executed[i] + 1)..h : Named(ballot[i], s, sel[s]) \in L
               /\ \A r \in E : \E x \in L : x.req = r
               /\ \A x \in L : \/ x \in log[i] /\ x.slot <= executed[i]
                               \/ /\ x.slot > executed[i] /\ x.slot <= h
                                  /\ x = Named(ballot[i], x.slot, sel[x.slot])
                               \/ x.slot > h /\ x = Named(ballot[i], x.slot, x.req)
<1> DEFINE E == Extra(i, P, h, sel)
           L == NewLog(i, h, sel, E)
           top == h + Cardinality(E)
<1>1. /\ executed[i] \in -1..MaxSlot /\ MaxSlot \in Nat /\ ballot[i] \in Ballot
      /\ log[i] \in Batch /\ log[i] \in SUBSET Record
  BY BoundAssumption DEF TypeOK, Batch
<1>2. E \in SUBSET Request BY DEF Extra, Witnessed
<1> HIDE DEF E
<1>3. IsFiniteSet(E) /\ E \in SUBSET Int /\ Cardinality(E) \in Nat
  <2>1. IsFiniteSet(E) BY <1>2, RequestAssumption, FS_Subset
  <2>2. E \in SUBSET Int BY <1>2, RequestAssumption
  <2> QED BY <2>1, <2>2, CardNat
<1>4. /\ \A r \in E : RankOf(r, E) \in Nat /\ RankOf(r, E) < Cardinality(E)
      /\ \A r, q \in E : r < q => RankOf(r, E) < RankOf(q, E)
  BY <1>3, RankBound, RanksDiffer
<1>5. h \in -1..MaxSlot /\ executed[i] <= h /\ top \in -1..MaxSlot
      /\ sel \in [(executed[i] + 1)..h -> Command]
  BY DEF Picks, E
<1>6. \A x \in Old(i) : x \in log[i] /\ x \in Record /\ x.slot <= executed[i] BY <1>1 DEF Old
<1>7. ASSUME NEW s \in (executed[i] + 1)..h
      PROVE  /\ Named(ballot[i], s, sel[s]) \in Record
             /\ Named(ballot[i], s, sel[s]).slot = s
  <2>1. s \in Slot /\ sel[s] \in Command BY <1>1, <1>5
  <2> QED BY <1>1, <2>1 DEF Named, Record
<1>8. ASSUME NEW x \in Taken(i, h, sel)
      PROVE  /\ x.slot \in (executed[i] + 1)..h /\ x = Named(ballot[i], x.slot, sel[x.slot])
             /\ x \in Record
  <2>1. PICK s \in (executed[i] + 1)..h : x = Named(ballot[i], s, sel[s]) BY DEF Taken
  <2> QED BY <1>7, <2>1
<1>9. ASSUME NEW r \in E
      PROVE  LET x == Named(ballot[i], h + 1 + RankOf(r, E), r)
             IN  /\ x \in Record /\ x.slot = h + 1 + RankOf(r, E) /\ x.req = r
                 /\ x.slot > h /\ x.slot <= top /\ x = Named(ballot[i], x.slot, x.req)
  <2>1. h + 1 + RankOf(r, E) \in Slot /\ h + 1 + RankOf(r, E) > h /\ h + 1 + RankOf(r, E) <= top
    BY <1>1, <1>3, <1>4, <1>5
  <2>2. r \in Command BY <1>2 DEF Command
  <2> QED BY <1>1, <2>1, <2>2 DEF Named, Record
<1>10. ASSUME NEW x \in Behind(i, h, E)
       PROVE  \E r \in E : /\ x \in Record /\ x.slot = h + 1 + RankOf(r, E) /\ x.req = r
                           /\ x.slot > h /\ x.slot <= top /\ x = Named(ballot[i], x.slot, x.req)
                           /\ x = Named(ballot[i], h + 1 + RankOf(r, E), r)
  <2>1. PICK r \in E : x = Named(ballot[i], h + 1 + RankOf(r, E), r) BY DEF Behind
  <2> QED BY <1>9, <2>1
<1>11. L = Old(i) \cup Taken(i, h, sel) \cup Behind(i, h, E) BY DEF NewLog
<1> HIDE DEF L
<1>12. L \in SUBSET Record BY <1>6, <1>8, <1>10, <1>11
<1>13. ASSUME NEW x \in Behind(i, h, E), NEW y \in Behind(i, h, E), x.slot = y.slot PROVE x = y
  <2>1. PICK r \in E : x.slot = h + 1 + RankOf(r, E)
                       /\ x = Named(ballot[i], h + 1 + RankOf(r, E), r)
    BY <1>10
  <2>2. PICK q \in E : y.slot = h + 1 + RankOf(q, E)
                       /\ y = Named(ballot[i], h + 1 + RankOf(q, E), q)
    BY <1>10
  <2>3. RankOf(r, E) \in Nat /\ RankOf(q, E) \in Nat /\ r \in Int /\ q \in Int /\ h \in Int
    BY <1>3, <1>4, <1>5
  <2>4. RankOf(r, E) = RankOf(q, E)
    <3>1. h + 1 + RankOf(r, E) = h + 1 + RankOf(q, E) BY <1>13, <2>1, <2>2
    <3> QED BY <2>3, <3>1
  <2>5. ~(r < q) /\ ~(q < r) BY <1>4, <2>3, <2>4
  <2>6. r = q BY <2>3, <2>5
  <2> QED BY <2>1, <2>2, <2>6
<1>14. ASSUME NEW x \in L, NEW y \in L, x.slot = y.slot PROVE x = y
  <2>1. \A z \in L : z.slot \in Int BY <1>1, <1>12 DEF Record
  <2>2. \A z \in Behind(i, h, E) : z.slot > h BY <1>10
  <2>3. CASE x \in Old(i)
    <3>1. y \in Old(i)
      <4>1. x.slot <= executed[i] BY <1>6, <2>3
      <4>2. y \notin Taken(i, h, sel) BY <1>1, <1>5, <1>8, <1>14, <2>1, <4>1
      <4>3. y \notin Behind(i, h, E) BY <1>1, <1>5, <1>14, <2>1, <2>2, <4>1
      <4> QED BY <1>11, <4>2, <4>3
    <3> QED BY <1>1, <1>6, <1>14, <2>3, <3>1 DEF Batch
  <2>4. CASE x \in Taken(i, h, sel)
    <3>1. x.slot \in (executed[i] + 1)..h BY <1>8, <2>4
    <3>2. y \notin Old(i) BY <1>1, <1>6, <1>14, <3>1, <1>5
    <3>3. y \notin Behind(i, h, E) BY <1>1, <1>5, <1>14, <2>2, <3>1
    <3>4. y \in Taken(i, h, sel) BY <1>11, <3>2, <3>3
    <3> QED BY <1>8, <1>14, <2>4, <3>4
  <2>5. CASE x \in Behind(i, h, E)
    <3>1. x.slot > h BY <2>2, <2>5
    <3>2. y \notin Old(i) BY <1>1, <1>5, <1>6, <1>14, <2>1, <3>1
    <3>3. y \notin Taken(i, h, sel) BY <1>1, <1>5, <1>8, <1>14, <3>1
    <3>4. y \in Behind(i, h, E) BY <1>11, <3>2, <3>3
    <3> QED BY <1>13, <1>14, <2>5, <3>4
  <2> QED BY <1>11, <2>3, <2>4, <2>5
<1>15. L \in Batch BY <1>12, <1>14, BatchIs
<1>16. \A x \in L : \/ x \in log[i] /\ x.slot <= executed[i]
                    \/ /\ x.slot > executed[i] /\ x.slot <= h
                       /\ x = Named(ballot[i], x.slot, sel[x.slot])
                    \/ x.slot > h /\ x = Named(ballot[i], x.slot, x.req)
  <2> TAKE x \in L
  <2>1. CASE x \in Old(i) BY <1>6, <2>1
  <2>2. CASE x \in Taken(i, h, sel)
    <3>1. x.slot \in (executed[i] + 1)..h /\ x = Named(ballot[i], x.slot, sel[x.slot])
      BY <1>8, <2>2
    <3>2. x.slot > executed[i] /\ x.slot <= h BY <1>1, <1>5, <3>1
    <3> QED BY <3>1, <3>2
  <2>3. CASE x \in Behind(i, h, E) BY <1>10, <2>3
  <2> QED BY <1>11, <2>1, <2>2, <2>3
<1>17. \A x \in L : x.slot <= top
  <2> TAKE x \in L
  <2>1. h <= top BY <1>3, <1>5
  <2>2. x.slot \in Int BY <1>1, <1>12 DEF Record
  <2>3. CASE x \in Behind(i, h, E) BY <1>10, <2>3
  <2>4. CASE x \notin Behind(i, h, E)
    <3>1. x.slot <= h BY <1>1, <1>5, <1>6, <1>8, <1>11, <2>2, <2>4
    <3> QED BY <1>5, <2>1, <2>2, <3>1
  <2> QED BY <2>3, <2>4
<1>18. \A s \in (executed[i] + 1)..h : Named(ballot[i], s, sel[s]) \in L BY <1>11 DEF Taken
<1>19. \A r \in E : \E x \in L : x.req = r BY <1>9, <1>11 DEF Behind
<1>20. h <= top BY <1>3, <1>5
<1> QED BY <1>2, <1>3, <1>15, <1>16, <1>17, <1>18, <1>19, <1>20 DEF L, E

LEMMA TypeTakeOver ==
    ASSUME TypeOK, NEW i \in Replica, NEW j \in Replica, net[j][i] # <<>>, NEW m \in Packet,
           TakeOver(i, j, m)
    PROVE  TypeOK' /\ Alone(i)
<1> USE DEF recordVars, clientVars
<1>1. /\ PromiseExpected(i, m)
      /\ pages' = [pages EXCEPT ![i] = PagesWith(i, j, m)]
      /\ promises' = [promises EXCEPT ![i] = @ \cup {j}]
      /\ preparing' = [preparing EXCEPT ![i] = FALSE]
      /\ UNCHANGED <<ballot, leader, executed, values, pending, queue, recordVars, alive,
                     sent, clientVars>>
  BY TakeOverIs
<1>2. PICK h, sel : Picks(i, h, sel) /\ TakesOver(i, j, m, h, sel) BY TakeOverIs
<1> DEFINE P == Reps(i, j, m)
           e == executed[i]
           E == Extra(i, P, h, sel)
           L == NewLog(i, h, sel, E)
           top == h + Cardinality(E)
           C == Chunks(L, e + 1, top)
<1>3. /\ top \in -1..MaxSlot
      /\ log' = [log EXCEPT ![i] = L]
      /\ high' = [high EXCEPT ![i] = top]
      /\ assigned' = [assigned EXCEPT ![i] = Reqs(L)]
      /\ recoveryEnd' = [recoveryEnd EXCEPT ![i] = top]
      /\ votes' = [votes EXCEPT ![i] = Vote(NoVotes, Slots(InChunks(C)), i, e)]
      /\ active' = [active EXCEPT ![i] = e >= top]
      /\ resume' = IF e >= top THEN [resume EXCEPT ![i] = pending[i]] ELSE resume
      /\ Exchange(i, j, Proposed(i, C, {}) \o If(e >= top, ReadyAll(i, TRUE)))
  BY <1>2 DEF TakesOver
<1>4. L \in Batch /\ (\A x \in L : x.slot <= top) /\ h <= top BY <1>2, <1>3, NewLogIs
<1>5. e \in -1..MaxSlot /\ MaxSlot \in Nat /\ h \in -1..MaxSlot /\ e <= h
  BY <1>2, BoundAssumption DEF TypeOK, Picks
<1> HIDE DEF L, E, P
<1>6. C \in Seq(SUBSET L)
  <2>1. e + 1 \in Int /\ top \in Int BY <1>3, <1>5
  <2> HIDE DEF top, e
  <2> QED BY <2>1, ChunksIn
<1> HIDE DEF C, top
<1>7. Proposed(i, C, {}) \o If(e >= top, ReadyAll(i, TRUE)) \in Seq(Packet)
  <2>1. {} \in Batch BY DEF Batch
  <2>2. Proposed(i, C, {}) \in Seq(Packet) BY <1>4, <1>6, <2>1, ProposedType
  <2>3. ReadyAll(i, TRUE) \in Seq(Packet) BY ReadyType
  <2>4. If(e >= top, ReadyAll(i, TRUE)) \in Seq(Packet) BY <2>3, IfIn
  <2> QED BY <2>2, <2>4, RangeOfConcat
<1>8. net' \in [Replica -> [Replica -> Seq(Packet)]] BY <1>3, <1>7, ExchangeCarries
<1>9. /\ log' \in [Replica -> Batch] /\ high' \in [Replica -> -1..MaxSlot]
      /\ recoveryEnd' \in [Replica -> -1..MaxSlot]
      /\ active' \in [Replica -> BOOLEAN] /\ resume' \in [Replica -> SUBSET Request]
  <2>1. (e >= top) \in BOOLEAN OBVIOUS
  <2>2. log' \in [Replica -> Batch] /\ high' \in [Replica -> -1..MaxSlot]
        /\ recoveryEnd' \in [Replica -> -1..MaxSlot]
    BY <1>3, <1>4 DEF TypeOK
  <2>3. active' \in [Replica -> BOOLEAN] BY <1>3, <2>1 DEF TypeOK
  <2>4. resume' \in [Replica -> SUBSET Request] BY <1>3 DEF TypeOK
  <2> QED BY <2>2, <2>3, <2>4
<1>10. assigned' \in [Replica -> SUBSET Command]
  <2>1. Reqs(L) \in SUBSET Command BY <1>4, ReqsType DEF Batch
  <2> QED BY <1>3, <2>1 DEF TypeOK
<1>11. votes' \in [Replica -> [Slot -> SUBSET Replica]]
  <2>1. NoVotes \in [Slot -> SUBSET Replica] BY DEF NoVotes
  <2>2. Vote(NoVotes, Slots(InChunks(C)), i, e) \in [Slot -> SUBSET Replica] BY <2>1, VoteIs
  <2> QED BY <1>3, <2>2 DEF TypeOK
<1>12. pages' \in [Replica -> SUBSET [from : Replica, pkt : Promise]]
  <2>1. PagesWith(i, j, m) \in SUBSET [from : Replica, pkt : Promise]
    BY <1>1, PagesWithType DEF PromiseExpected
  <2> QED BY <1>1, <2>1 DEF TypeOK
<1>13. promises' \in [Replica -> SUBSET Replica] /\ preparing' \in [Replica -> BOOLEAN]
  BY <1>1 DEF TypeOK
<1>14. Alone(i) BY <1>1, <1>3 DEF Alone, Same, TypeOK
<1>15. Consistent(i)'
  <2>1. log'[i] = L /\ high'[i] = top /\ executed'[i] = e BY <1>1, <1>3 DEF TypeOK
  <2>2. e <= top BY <1>3, <1>4, <1>5
  <2>3. Consistent(i) BY DEF TypeOK
  <2> QED BY <1>1, <1>4, <2>1, <2>2, <2>3 DEF Consistent
<1>16. \A k \in Replica : Consistent(k)' BY <1>14, <1>15, ConsistentNext
<1> QED BY <1>1, <1>8, <1>9, <1>10, <1>11, <1>12, <1>13, <1>14, <1>16 DEF TypeOK

\* Installing R raises high to its highest slot, if that is higher.
LEMMA InstallHigh ==
    ASSUME TypeOK, NEW i \in Replica, NEW R \in Batch, NEW h \in Slot,
           IsTop(h, {high[i]} \cup Slots(R))
    PROVE  /\ h \in -1..MaxSlot /\ high[i] <= h /\ executed[i] <= h
           /\ Install(log[i], R) \in Batch /\ \A x \in Install(log[i], R) : x.slot <= h
<1>1. /\ log[i] \in Batch /\ executed[i] <= high[i] /\ \A r \in log[i] : r.slot <= high[i]
      /\ high[i] \in -1..MaxSlot /\ executed[i] \in -1..MaxSlot /\ MaxSlot \in Nat
  BY BoundAssumption DEF TypeOK, Consistent
<1>2. high[i] <= h /\ \A x \in R : x.slot <= h BY DEF IsTop, Slots
<1>3. Install(log[i], R) \in Batch /\ \A x \in Install(log[i], R) : x \in log[i] \/ x \in R
  BY <1>1, InstallIs
<1>4. \A x \in log[i] : x.slot \in Slot BY <1>1 DEF Batch, Record
<1>5. \A x \in log[i] : x.slot <= h BY <1>1, <1>2, <1>4
<1> QED BY <1>1, <1>2, <1>3, <1>5

\* What is assigned are commands.
LEMMA AssignedType ==
    ASSUME TypeOK, NEW i \in Replica, NEW R \in Batch,
           assigned' = [assigned EXCEPT ![i] = @ \cup Reqs(Stored(log[i], R))]
    PROVE  assigned' \in [Replica -> SUBSET Command]
<1>1. Stored(log[i], R) \in SUBSET Record BY DEF Stored, Batch
<1>2. Reqs(Stored(log[i], R)) \in SUBSET Command BY <1>1, ReqsType
<1> QED BY <1>2 DEF TypeOK

\* A fetch is a packet.
LEMMA FetchType ==
    ASSUME TypeOK, NEW i \in Replica
    PROVE  /\ FetchFrom(i) \in Seq(Packet)
           /\ \A x \in Range(FetchFrom(i)) : x = Fetch({leader[i]}, ballot[i], executed[i] + 1)
<1>1. {leader[i]} \in SUBSET Replica /\ ballot[i] \in Ballot BY DEF TypeOK
<1>2. Fetch({leader[i]}, ballot[i], executed[i] + 1) \in Packet BY <1>1, FloorType, PacketTypes
<1> QED BY <1>2, OneIn DEF FetchFrom

LEMMA TypeAccept ==
    ASSUME TypeOK, NEW i \in Replica, NEW j \in Replica, net[j][i] # <<>>, NEW m \in Packet,
           NEW fetch \in BOOLEAN, ReceiveAccept(i, j, m, fetch)
    PROVE  TypeOK' /\ Alone(i)
<1> USE DEF roleVars, clientVars
<1> DEFINE R == Stamp(m.recs, m.ballot)
           L == Install(log[i], R)
           out == If(fetch, FetchFrom(i)) \o <<Ack(Peers(i), ballot[i], Slots(R))>>
<1>1. R \in Batch
  <2>1. m.recs \in Batch /\ m.ballot \in Ballot BY PacketFields DEF ReceiveAccept
  <2> QED BY <2>1, StampIs
<1>2. /\ assigned' = [assigned EXCEPT ![i] = @ \cup Reqs(Stored(log[i], R))]
      /\ \E h \in Slot : IsTop(h, {high[i]} \cup Slots(R)) /\ high' = [high EXCEPT ![i] = h]
      /\ CountAck(i, i, L, Slots(R), Desk(i))
      /\ Exchange(i, j, out)
      /\ UNCHANGED <<roleVars, queue, resume, pages, promises, alive, clientVars>>
  BY DEF ReceiveAccept
<1> HIDE DEF R, L, out
<1>3. PICK h \in Slot : IsTop(h, {high[i]} \cup Slots(R)) /\ high' = [high EXCEPT ![i] = h]
  BY <1>2
<1>4. /\ h \in -1..MaxSlot /\ executed[i] <= h
      /\ L \in Batch /\ \A x \in L : x.slot <= h
  BY <1>1, <1>3, InstallHigh DEF L
<1>5. GoodDesk(Desk(i)) BY DeskType
<1> DEFINE won == Wins(i, i, L, Slots(R))
<1>6. /\ Ran(i, Decide(L, won), Desk(i)) /\ RanTypes /\ RanAlone(i)
      /\ RanVotes(i, i, Slots(R))
  BY <1>2, <1>4, <1>5, CountAckIs
<1>7. won \in SUBSET L BY <1>4, WinsIn
<1> HIDE DEF won
<1>8. Decide(L, won) \in Batch /\ \A r \in Decide(L, won) : r.slot <= h
  BY <1>4, <1>7, DecideIs
<1>9. high'[i] = h /\ \A k \in Replica : k # i => high'[k] = high[k] BY <1>3 DEF TypeOK
<1>10. Consistent(i)' BY <1>4, <1>5, <1>6, <1>8, <1>9, RanConsistent
<1>11. high' \in [Replica -> -1..MaxSlot] BY <1>3, <1>4 DEF TypeOK
<1>12. assigned' \in [Replica -> SUBSET Command] BY <1>1, <1>2, AssignedType
<1>13. out \in Seq(Packet)
  <2>1. Slots(R) \in SUBSET Slot /\ ballot[i] \in Ballot BY <1>1, SlotsType DEF TypeOK
  <2>2. Ack(Peers(i), ballot[i], Slots(R)) \in Packet BY <2>1, PeersIn, PacketTypes
  <2>3. If(fetch, FetchFrom(i)) \in Seq(Packet) BY FetchType, IfIn
  <2>4. <<Ack(Peers(i), ballot[i], Slots(R))>> \in Seq(Packet) BY <2>2, OneIn
  <2> QED BY <2>3, <2>4, RangeOfConcat DEF out
<1>14. net' \in [Replica -> [Replica -> Seq(Packet)]] BY <1>2, <1>13, ExchangeCarries
<1>15. Alone(i) BY <1>2, <1>6, <1>9 DEF Alone, Same, RanAlone, RanVotes
<1>16. \A k \in Replica : Consistent(k)' BY <1>10, <1>15, ConsistentNext
<1> QED BY <1>2, <1>6, <1>11, <1>12, <1>14, <1>15, <1>16 DEF TypeOK, RanTypes, RanVotes

LEMMA TypeAck ==
    ASSUME TypeOK, NEW i \in Replica, NEW j \in Replica, net[j][i] # <<>>, NEW m \in Packet,
           ReceiveAck(i, j, m)
    PROVE  TypeOK' /\ Alone(i)
<1> USE DEF roleVars, clientVars
<1> DEFINE C == Wins(i, j, log[i], m.slots)
           out == If(leader[i] = i /\ C # {}, <<Commit(Peers(i), ballot[i], Decide(C, C))>>)
<1>1. /\ CountAck(i, j, log[i], m.slots, Desk(i)) /\ Exchange(i, j, out)
      /\ UNCHANGED <<roleVars, high, assigned, queue, resume, pages, promises, alive, clientVars>>
  BY DEF ReceiveAck
<1>2. /\ log[i] \in Batch /\ high[i] \in -1..MaxSlot /\ executed[i] <= high[i]
      /\ ballot[i] \in Ballot /\ \A x \in log[i] : x.slot <= high[i]
  BY DEF TypeOK, Consistent
<1>3. GoodDesk(Desk(i)) BY DeskType
<1>4. /\ Ran(i, Decide(log[i], C), Desk(i)) /\ RanTypes /\ RanAlone(i)
      /\ RanVotes(i, j, m.slots)
  BY <1>1, <1>2, <1>3, CountAckIs
<1>5. C \in SUBSET log[i] /\ C \in Batch BY <1>2, WinsIn
<1> HIDE DEF C
<1>6. Decide(log[i], C) \in Batch /\ \A r \in Decide(log[i], C) : r.slot <= high[i]
  BY <1>2, <1>5, DecideIs
<1>7. Consistent(i)'
  <2>1. high'[i] = high[i] BY <1>1
  <2> QED BY <1>2, <1>3, <1>4, <1>6, <2>1, RanConsistent
<1>8. out \in Seq(Packet)
  <2>1. Decide(C, C) \in Batch BY <1>5, DecideAll
  <2>2. Commit(Peers(i), ballot[i], Decide(C, C)) \in Packet BY <1>2, <2>1, PeersIn, PacketTypes
  <2>3. <<Commit(Peers(i), ballot[i], Decide(C, C))>> \in Seq(Packet) BY <2>2, OneIn
  <2> QED BY <2>3, IfIn
<1> HIDE DEF out
<1>9. net' \in [Replica -> [Replica -> Seq(Packet)]] BY <1>1, <1>8, ExchangeCarries
<1>10. Alone(i) BY <1>1, <1>4 DEF Alone, Same, RanAlone, RanVotes
<1>11. \A k \in Replica : Consistent(k)' BY <1>7, <1>10, ConsistentNext
<1> QED BY <1>1, <1>4, <1>9, <1>10, <1>11 DEF TypeOK, RanTypes, RanVotes

LEMMA TypeCommit ==
    ASSUME TypeOK, NEW i \in Replica, NEW j \in Replica, net[j][i] # <<>>, NEW m \in Packet,
           ReceiveCommit(i, j, m)
    PROVE  TypeOK' /\ Alone(i)
<1> USE DEF roleVars, clientVars
<1> DEFINE R == m.recs
           L == Install(log[i], R)
           C == {r \in L : r.slot \in Slots(R)}
<1>1. R \in Batch BY PacketFields DEF ReceiveCommit
<1>2. /\ assigned' = [assigned EXCEPT ![i] = @ \cup Reqs(Stored(log[i], R))]
      /\ \E h \in Slot : IsTop(h, {high[i]} \cup Slots(R)) /\ high' = [high EXCEPT ![i] = h]
      /\ Apply(i, Decide(L, C), Desk(i))
      /\ votes' = [votes EXCEPT ![i] = [s \in Slot |-> IF s <= executed'[i] THEN {} ELSE @[s]]]
      /\ Exchange(i, j, <<>>)
      /\ UNCHANGED <<roleVars, queue, resume, pages, promises, alive, clientVars>>
  BY DEF ReceiveCommit
<1>3. C \in SUBSET L OBVIOUS
<1> HIDE DEF R, L, C
<1>4. PICK h \in Slot : IsTop(h, {high[i]} \cup Slots(R)) /\ high' = [high EXCEPT ![i] = h]
  BY <1>2
<1>5. /\ h \in -1..MaxSlot /\ executed[i] <= h
      /\ L \in Batch /\ \A x \in L : x.slot <= h
  BY <1>1, <1>4, InstallHigh DEF L
<1>6. GoodDesk(Desk(i)) BY DeskType
<1>7. Decide(L, C) \in Batch /\ \A r \in Decide(L, C) : r.slot <= h BY <1>3, <1>5, DecideIs
<1>8. Ran(i, Decide(L, C), Desk(i)) /\ RanTypes /\ RanAlone(i) BY <1>2, <1>6, <1>7, ApplyIs
<1>9. high'[i] = h /\ \A k \in Replica : k # i => high'[k] = high[k] BY <1>4 DEF TypeOK
<1>10. Consistent(i)' BY <1>5, <1>6, <1>7, <1>8, <1>9, RanConsistent
<1>11. high' \in [Replica -> -1..MaxSlot] BY <1>4, <1>5 DEF TypeOK
<1>12. assigned' \in [Replica -> SUBSET Command] BY <1>1, <1>2, AssignedType
<1>13. /\ votes' \in [Replica -> [Slot -> SUBSET Replica]]
       /\ \A k \in Replica : k # i => votes'[k] = votes[k]
  <2> DEFINE X == [s \in Slot |-> IF s <= executed'[i] THEN {} ELSE votes[i][s]]
  <2>1. votes \in [Replica -> [Slot -> SUBSET Replica]] BY DEF TypeOK
  <2>2. X \in [Slot -> SUBSET Replica] BY <2>1
  <2>3. votes' = [votes EXCEPT ![i] = X] BY <1>2, <2>1
  <2> HIDE DEF X
  <2> QED BY <2>1, <2>2, <2>3
<1>14. net' \in [Replica -> [Replica -> Seq(Packet)]] BY <1>2, NoneSent, ExchangeCarries
<1>15. Alone(i) BY <1>2, <1>8, <1>9, <1>13 DEF Alone, Same, RanAlone
<1>16. \A k \in Replica : Consistent(k)' BY <1>10, <1>15, ConsistentNext
<1> QED BY <1>2, <1>8, <1>11, <1>12, <1>13, <1>14, <1>15, <1>16 DEF TypeOK, RanTypes

LEMMA TypeReady ==
    ASSUME TypeOK, NEW i \in Replica, NEW j \in Replica, net[j][i] # <<>>, NEW m \in Packet,
           NEW fetch \in BOOLEAN, ReceiveReady(i, j, m, fetch)
    PROVE  TypeOK' /\ Alone(i)
<1> USE DEF logVars, recordVars, clientVars
<1>1. m.ballot \in Ballot /\ m.on \in BOOLEAN BY PacketFields DEF ReceiveReady
<1>2. net' \in [Replica -> [Replica -> Seq(Packet)]]
  <2>1. Fetch({j}, m.ballot, executed[i] + 1) \in Packet
    <3>1. {j} \in SUBSET Replica OBVIOUS
    <3> QED BY <1>1, <3>1, FloorType, PacketTypes
  <2>2. <<Fetch({j}, m.ballot, executed[i] + 1)>> \in Seq(Packet) BY <2>1, OneIn
  <2>3. If(fetch, <<Fetch({j}, m.ballot, executed[i] + 1)>>) \in Seq(Packet) BY <2>2, IfIn
  <2> QED BY <2>3, ExchangeCarries DEF ReceiveReady
<1>3. votes' \in [Replica -> [Slot -> SUBSET Replica]]
  <2>1. NoVotes \in [Slot -> SUBSET Replica] BY DEF NoVotes
  <2> QED BY <2>1 DEF TypeOK, ReceiveReady
<1>4. /\ ballot' \in [Replica -> Ballot] /\ leader' \in [Replica -> Replica]
      /\ active' \in [Replica -> BOOLEAN] /\ preparing' \in [Replica -> BOOLEAN]
      /\ resume' \in [Replica -> SUBSET Request]
  BY <1>1 DEF TypeOK, ReceiveReady
<1>5. Alone(i) BY DEF Alone, Same, TypeOK, ReceiveReady
<1>6. \A k \in Replica : Consistent(k)' BY DEF TypeOK, Consistent, ReceiveReady
<1> QED BY <1>2, <1>3, <1>4, <1>5, <1>6 DEF TypeOK, ReceiveReady

LEMMA TypeFetch ==
    ASSUME TypeOK, NEW i \in Replica, NEW j \in Replica, net[j][i] # <<>>, NEW m \in Packet,
           ReceiveFetch(i, j, m)
    PROVE  TypeOK' /\ Alone(i)
<1> USE DEF roleVars, logVars, reqVars, recordVars, quorumVars, clientVars, ReceiveFetch
<1>1. /\ m.floor \in Int /\ high[i] \in Int /\ ballot[i] \in Ballot /\ log[i] \in Batch
  <2>1. m.floor \in 0..(MaxSlot + 1) BY PacketFields
  <2>2. MaxSlot \in Nat BY BoundAssumption
  <2>3. high[i] \in -1..MaxSlot /\ ballot[i] \in Ballot /\ log[i] \in Batch BY DEF TypeOK
  <2> QED BY <2>1, <2>2, <2>3
<1>2. Answer(j, ballot[i], Chunks(log[i], m.floor, high[i])) \in Seq(Packet) BY <1>1, AnswerType
<1>3. net' \in [Replica -> [Replica -> Seq(Packet)]] BY <1>2, ExchangeCarries
<1>4. \A k \in Replica : Consistent(k)' BY DEF TypeOK, Consistent
<1> QED BY <1>3, <1>4 DEF TypeOK, Alone, Same

LEMMA TypeIgnore ==
    ASSUME TypeOK, NEW i \in Replica, NEW j \in Replica, net[j][i] # <<>>, NEW m,
           Ignore(i, j, m)
    PROVE  TypeOK' /\ Alone(i)
<1> USE DEF roleVars, logVars, reqVars, recordVars, quorumVars, clientVars, Ignore
<1>1. net' \in [Replica -> [Replica -> Seq(Packet)]] BY NoneSent, ExchangeCarries
<1>2. \A k \in Replica : Consistent(k)' BY DEF TypeOK, Consistent
<1> QED BY <1>1, <1>2 DEF TypeOK, Alone, Same

LEMMA TypeLinkDown ==
    ASSUME TypeOK, NEW i \in Replica, NEW j \in Replica, LinkDown(i, j)
    PROVE  TypeOK' /\ Alone(i)
<1> USE DEF roleVars, logVars, reqVars, recordVars, quorumVars, clientVars, LinkDown
<1>1. net' \in [Replica -> [Replica -> Seq(Packet)]]
  <2>1. net \in [Replica -> [Replica -> Seq(Packet)]] BY DEF TypeOK
  <2> QED BY <2>1, NoneSent
<1>2. alive' \in [Replica -> SUBSET Replica] BY DEF TypeOK
<1>3. \A k \in Replica : Consistent(k)' BY DEF TypeOK, Consistent
<1> QED BY <1>1, <1>2, <1>3 DEF TypeOK, Alone, Same
-----------------------------------------------------------------------------
(***************************************************************************)
(* Types: the clients, and the theorem.                                    *)
(***************************************************************************)
Tally == [votes : SUBSET Replica, reply : BOOLEAN, value : SUBSET Request]
Outcome == {None} \cup [value : SUBSET Request, ballot : Ballot]

\* The fields of a message to a client.
LEMMA MessageFields ==
    ASSUME NEW m \in Message
    PROVE  /\ m.kind \in {"Fast", "Sync", "Record"} /\ m.from \in Replica
           /\ m.ballot \in Ballot /\ m.req \in Request /\ ClientOf[m.req] \in Client
           /\ m.kind \in {"Fast", "Sync"} => m.value \in SUBSET Request
           /\ m.kind = "Record" => m.ok \in BOOLEAN
BY DEF Message, Client

\* A client reads a message.
LEMMA HearType ==
    ASSUME TypeOK, NEW m \in sent, Hear(m)
    PROVE  TypeOK' /\ \A q \in Replica : Same(q)
<1> USE DEF roleVars, logVars, reqVars, recordVars, quorumVars
<1>1. m \in Message BY DEF TypeOK
<1>2. evidence \in [Request -> Tally] /\ done \in [Request -> Outcome]
  BY DEF TypeOK, Tally, Outcome
<1>3. NoEvidence \in Tally BY DEF NoEvidence, Tally
<1> DEFINE ev == Current(m)
<1>4. ev \in [Request -> Tally] BY <1>2, <1>3 DEF Current
<1> HIDE DEF ev
<1>5. ASSUME NEW v \in SUBSET Request, Complete(m.req, v, m.ballot, ev)
      PROVE  evidence' \in [Request -> Tally] /\ done' \in [Request -> Outcome]
  <2>1. [value |-> v, ballot |-> m.ballot] \in Outcome BY <1>1, MessageFields DEF Outcome
  <2> QED BY <1>2, <1>3, <1>4, <1>5, <2>1 DEF Complete
<1>6. ASSUME m.kind # "Sync", Count(m, ev)
      PROVE  evidence' \in [Request -> Tally] /\ done' \in [Request -> Outcome]
  <2> DEFINE e == ev[m.req]
             x == IF m.kind = "Fast"
                  THEN IF m.from = m.ballot % N
                       THEN [votes |-> e.votes \cup {m.from}, reply |-> TRUE, value |-> m.value]
                       ELSE e
                  ELSE IF m.ok THEN [e EXCEPT !.votes = @ \cup {m.from}] ELSE e
  <2>1. e \in Tally /\ m.req \in Request BY <1>1, <1>4, MessageFields
  <2>2. x \in Tally
    <3>1. CASE m.kind = "Fast" BY <1>1, <2>1, <3>1, MessageFields DEF Tally
    <3>2. CASE m.kind # "Fast" BY <1>1, <2>1, <3>2, MessageFields DEF Tally
    <3> QED BY <3>1, <3>2
  <2>3. IF x.reply /\ Cardinality(x.votes) >= FastQuorum
        THEN Complete(m.req, x.value, m.ballot, ev)
        ELSE evidence' = [ev EXCEPT ![m.req] = x] /\ UNCHANGED done
    BY <1>6 DEF Count
  <2> HIDE DEF x, e
  <2>4. x.value \in SUBSET Request BY <2>2 DEF Tally
  <2>5. CASE x.reply /\ Cardinality(x.votes) >= FastQuorum BY <1>5, <2>3, <2>4, <2>5
  <2>6. CASE ~(x.reply /\ Cardinality(x.votes) >= FastQuorum)
    BY <1>2, <1>4, <2>2, <2>3, <2>6
  <2> QED BY <2>5, <2>6
<1>7. evidence' \in [Request -> Tally] /\ done' \in [Request -> Outcome]
  <2>1. CASE m.kind = "Sync"
    <3>1. Complete(m.req, m.value, m.ballot, ev) BY <2>1 DEF Hear, ev
    <3>2. m.value \in SUBSET Request BY <1>1, <2>1, MessageFields
    <3> QED BY <1>5, <3>1, <3>2
  <2>2. CASE m.kind # "Sync"
    <3>1. Count(m, ev) BY <2>2 DEF Hear, ev
    <3> QED BY <1>6, <2>2, <3>1
  <2> QED BY <2>1, <2>2
<1>8. known' \in [Client -> Ballot \cup {-1}] /\ sent' \subseteq Message
  <2>1. known' = [known EXCEPT ![ClientOf[m.req]] = m.ballot] /\ sent' \subseteq sent BY DEF Hear
  <2> QED BY <1>1, <2>1, MessageFields DEF TypeOK
<1>9. \A k \in Replica : Consistent(k)' BY DEF TypeOK, Consistent, Hear
<1> QED BY <1>7, <1>8, <1>9 DEF TypeOK, Same, Hear, Tally, Outcome

\* What a replica does with the first packet of j.
LEMMA ReceiveIs ==
    ASSUME TypeOK, NEW i \in Replica, NEW j \in Replica, Receive(i, j)
    PROVE  /\ net[j][i] # <<>>
           /\ \E m \in Packet :
                 /\ m = Head(net[j][i]) /\ m \in Way(j, i)
                 /\ \/ ReceivePrepare(i, j, m)
                    \/ CollectPromise(i, j, m)
                    \/ TakeOver(i, j, m)
                    \/ \E fetch \in BOOLEAN : ReceiveAccept(i, j, m, fetch)
                    \/ ReceiveAck(i, j, m)
                    \/ ReceiveCommit(i, j, m)
                    \/ \E fetch \in BOOLEAN : ReceiveReady(i, j, m, fetch)
                    \/ ReceiveFetch(i, j, m)
                    \/ Ignore(i, j, m)
BY HeadArrives DEF Receive

\* TypeOK is inductive.
LEMMA TypeNext == TypeOK /\ [Next]_vars => TypeOK'
<1> SUFFICES ASSUME TypeOK, [Next]_vars PROVE TypeOK' OBVIOUS
<1>1. CASE UNCHANGED vars
  <2> USE DEF roleVars, logVars, reqVars, recordVars, quorumVars, clientVars, vars
  <2>1. \A k \in Replica : Consistent(k)' BY <1>1 DEF TypeOK, Consistent
  <2> QED BY <1>1, <2>1 DEF TypeOK
<1>2. ASSUME NEW r \in Request, Issue(r) PROVE TypeOK' BY <1>2, TypeIssue
<1>3. ASSUME NEW i \in Replica, NEW r \in Request, Propose(i, r) PROVE TypeOK'
  BY <1>3, TypePropose
<1>4. ASSUME NEW i \in Replica, TickBegin(i) \/ TickPrepare(i) \/ TickFollower(i) PROVE TypeOK'
  BY <1>4, TypeTickBegin, TypeTickPrepare, TypeTickFollower
<1>5. ASSUME NEW i \in Replica, NEW due \in BOOLEAN, TickLeader(i, due) PROVE TypeOK'
  BY <1>5, TypeTickLeader
<1>6. ASSUME NEW i \in Replica, NEW j \in Replica, Receive(i, j) PROVE TypeOK'
  <2>1. net[j][i] # <<>> BY <1>6, ReceiveIs
  <2>2. PICK m \in Packet :
                    \/ ReceivePrepare(i, j, m)
                    \/ CollectPromise(i, j, m)
                    \/ TakeOver(i, j, m)
                    \/ \E fetch \in BOOLEAN : ReceiveAccept(i, j, m, fetch)
                    \/ ReceiveAck(i, j, m)
                    \/ ReceiveCommit(i, j, m)
                    \/ \E fetch \in BOOLEAN : ReceiveReady(i, j, m, fetch)
                    \/ ReceiveFetch(i, j, m)
                    \/ Ignore(i, j, m)
    BY <1>6, ReceiveIs
  <2>3. CASE ReceivePrepare(i, j, m) BY <2>1, <2>3, TypePrepare
  <2>4. CASE CollectPromise(i, j, m) BY <2>1, <2>4, TypeCollect
  <2>5. CASE TakeOver(i, j, m) BY <2>1, <2>5, TypeTakeOver
  <2>6. CASE \E fetch \in BOOLEAN : ReceiveAccept(i, j, m, fetch) BY <2>1, <2>6, TypeAccept
  <2>7. CASE ReceiveAck(i, j, m) BY <2>1, <2>7, TypeAck
  <2>8. CASE ReceiveCommit(i, j, m) BY <2>1, <2>8, TypeCommit
  <2>9. CASE \E fetch \in BOOLEAN : ReceiveReady(i, j, m, fetch) BY <2>1, <2>9, TypeReady
  <2>10. CASE ReceiveFetch(i, j, m) BY <2>1, <2>10, TypeFetch
  <2>11. CASE Ignore(i, j, m) BY <2>1, <2>11, TypeIgnore
  <2> QED BY <2>2, <2>3, <2>4, <2>5, <2>6, <2>7, <2>8, <2>9, <2>10, <2>11
<1>7. ASSUME NEW i \in Replica, NEW j \in Replica, LinkDown(i, j) PROVE TypeOK'
  BY <1>7, TypeLinkDown
<1>8. ASSUME NEW m \in sent, Hear(m) PROVE TypeOK' BY <1>8, HearType
<1> QED BY <1>1, <1>2, <1>3, <1>4, <1>5, <1>6, <1>7, <1>8 DEF Next

\* Every variable keeps its type: a log has one record per slot and ends at
\* high, nothing above it is executed, and what a replica has recorded as a
\* witness carries the ballot it was recorded in (core.go).
THEOREM TypeCorrect == Spec => []TypeOK
BY TypeInit, TypeNext, PTL DEF Spec

HIDE DEF Replica, Slot, Ballot

-----------------------------------------------------------------------------
(***************************************************************************)
(* Ballots, owners and quorums.                                            *)
(***************************************************************************)
\* A ballot has an owner.
LEMMA OwnerType == ASSUME NEW b \in Nat PROVE Owner(b) \in Replica
BY NAssumption DEF Owner, Replica

\* There are N replicas.
LEMMA ReplicasFinite == IsFiniteSet(Replica) /\ Cardinality(Replica) = N
<1>1. Cardinality(0..(N - 1)) = (N - 1) - 0 + 1 BY FS_Interval, NAssumption
<1> QED BY <1>1, FS_Interval, NAssumption DEF Replica

\* Any two majorities share a replica.
LEMMA QuorumsMeet ==
    ASSUME NEW P \in Quorum, NEW Q \in Quorum
    PROVE  \E q \in P : q \in Q
<1>1. P \in SUBSET Replica /\ Q \in SUBSET Replica BY DEF Quorum
<1>2. IsFiniteSet(P) /\ IsFiniteSet(Q) BY <1>1, ReplicasFinite, FS_Subset
<1>3. Cardinality(P) \in Nat /\ Cardinality(Q) \in Nat BY <1>2, CardNat
<1>4. Cardinality(P) >= Majority /\ Cardinality(Q) >= Majority BY DEF Quorum
<1>5. Majority \in Nat /\ 2 * Majority > N BY NAssumption DEF Majority
<1>6. Cardinality(P) + Cardinality(Q) > Cardinality(Replica)
  BY <1>3, <1>4, <1>5, ReplicasFinite, NAssumption
<1>7. P \cap Q # {} BY <1>1, <1>6, ReplicasFinite, FS_MajoritiesIntersect
<1> QED BY <1>7

\* One replica alone is no majority.
LEMMA NoLoneQuorum ==
    ASSUME NEW Q, NEW i, Q \subseteq {i} PROVE ~(Cardinality(Q) >= Majority)
<1>1. Cardinality({i}) = 1 /\ IsFiniteSet({i}) BY FS_Singleton
<1>2. Cardinality(Q) <= 1 /\ Cardinality(Q) \in Nat BY <1>1, FS_Subset, CardNat
<1> QED BY <1>2, NAssumption DEF Majority

-----------------------------------------------------------------------------
(***************************************************************************)
(* What exists.                                                            *)
(***************************************************************************)
\* The pages of promises, and the known records.
LEMMA InPromised ==
    \A p : p \in Promised <=>
        \E i \in Replica : \/ p \in pages[i]
                           \/ \E k \in Replica : \E m \in Way(i, k) :
                                 m.kind = "Promise" /\ p = Page(i, m)
<1> TAKE p
<1>1. p \in Promised <=> \E i \in Replica : p \in pages[i] \/ p \in OnTheWay(i)
  BY Zenon DEF Promised
<1>2. ASSUME NEW i \in Replica
      PROVE  p \in OnTheWay(i) <=> \E k \in Replica : \E m \in Way(i, k) :
                                      m.kind = "Promise" /\ p = Page(i, m)
  BY DEF OnTheWay, Flying
<1> QED BY <1>1, <1>2

\* Where a known record is,
LEMMA InKnown ==
    \A x : x \in Known <=>
        \/ \E i \in Replica : x \in log[i]
        \/ \E q, k \in Replica : \E m \in Way(q, k) :
              m.kind \in {"Accept", "Commit"} /\ x \in m.recs
        \/ \E p \in Promised : x \in p.pkt.recs
<1> TAKE x
<1>1. x \in InLogs <=> \E i \in Replica : x \in log[i] BY Zenon DEF InLogs
<1>2. x \in InPackets <=> \E m \in Carriers : x \in m.recs BY Zenon DEF InPackets
<1>3. x \in InPromises <=> \E p \in Promised : x \in p.pkt.recs BY Zenon DEF InPromises
<1>4. \A m : m \in Carriers <=> /\ \E q, k \in Replica : m \in Way(q, k)
                                /\ m.kind \in {"Accept", "Commit"}
  BY DEF Carriers, Flying
<1>5. x \in Known <=> x \in InLogs \/ x \in InPackets \/ x \in InPromises
  BY Zenon DEF Known
<1> QED BY <1>1, <1>2, <1>3, <1>4, <1>5, Zenon

\* Where they are in the next state.
LEMMA InPromisedNext ==
    \A p : p \in Promised' <=>
        \E i \in Replica : \/ p \in pages'[i]
                           \/ \E k \in Replica : \E m \in Way(i, k)' :
                                 m.kind = "Promise" /\ p = Page(i, m)
<1> TAKE p
<1>1. p \in Promised' <=> \E i \in Replica : p \in pages'[i] \/ p \in OnTheWay(i)'
  BY Zenon DEF Promised
<1>2. ASSUME NEW i \in Replica
      PROVE  p \in OnTheWay(i)' <=> \E k \in Replica : \E m \in Way(i, k)' :
                                      m.kind = "Promise" /\ p = Page(i, m)
  BY DEF OnTheWay, Flying
<1> QED BY <1>1, <1>2

\* in the next state too.
LEMMA InKnownNext ==
    \A x : x \in Known' <=>
        \/ \E i \in Replica : x \in log'[i]
        \/ \E q, k \in Replica : \E m \in Way(q, k)' :
              m.kind \in {"Accept", "Commit"} /\ x \in m.recs
        \/ \E p \in Promised' : x \in p.pkt.recs
<1> TAKE x
<1>1. x \in InLogs' <=> \E i \in Replica : x \in log'[i] BY Zenon DEF InLogs
<1>2. x \in InPackets' <=> \E m \in Carriers' : x \in m.recs BY Zenon DEF InPackets
<1>3. x \in InPromises' <=> \E p \in Promised' : x \in p.pkt.recs BY Zenon DEF InPromises
<1>4. \A m : m \in Carriers' <=> /\ \E q, k \in Replica : m \in Way(q, k)'
                                 /\ m.kind \in {"Accept", "Commit"}
  BY DEF Carriers, Flying
<1>5. x \in Known' <=> x \in InLogs' \/ x \in InPackets' \/ x \in InPromises'
  BY Zenon DEF Known
<1> QED BY <1>1, <1>2, <1>3, <1>4, <1>5, Zenon

\* Packets, promises and records have their types.
LEMMA WayType ==
    ASSUME TypeOK, NEW q \in Replica, NEW k \in Replica PROVE Way(q, k) \subseteq Packet
<1>1. net[q][k] \in Seq(Packet) BY DEF TypeOK
<1> QED BY <1>1, RangeType DEF Way

\* What is under way are packets,
LEMMA WayTypeNext ==
    ASSUME TypeOK', NEW q \in Replica, NEW k \in Replica PROVE Way(q, k)' \subseteq Packet
<1>1. net'[q][k] \in Seq(Packet) BY DEF TypeOK
<1> QED BY <1>1, RangeType DEF Way

\* promises have their type,
LEMMA PromisedType == TypeOK => Promised \subseteq [from : Replica, pkt : Promise]
<1> SUFFICES ASSUME TypeOK, NEW p \in Promised PROVE p \in [from : Replica, pkt : Promise]
  OBVIOUS
<1>1. ASSUME NEW i \in Replica, p \in pages[i] PROVE p \in [from : Replica, pkt : Promise]
  BY <1>1 DEF TypeOK
<1>2. ASSUME NEW i \in Replica, NEW k \in Replica, NEW m \in Way(i, k),
             m.kind = "Promise", p = Page(i, m)
      PROVE  p \in [from : Replica, pkt : Promise]
  <2>1. m \in Promise BY <1>2, WayType, PacketFields
  <2> QED BY <1>2, <2>1 DEF Page
<1> QED BY <1>1, <1>2, InPromised

\* in the next state too;
LEMMA PromisedTypeNext == TypeOK' => Promised' \subseteq [from : Replica, pkt : Promise]
<1> SUFFICES ASSUME TypeOK', NEW p \in Promised' PROVE p \in [from : Replica, pkt : Promise]
  OBVIOUS
<1>1. ASSUME NEW i \in Replica, p \in pages'[i] PROVE p \in [from : Replica, pkt : Promise]
  BY <1>1 DEF TypeOK
<1>2. ASSUME NEW i \in Replica, NEW k \in Replica, NEW m \in Way(i, k)',
             m.kind = "Promise", p = Page(i, m)
      PROVE  p \in [from : Replica, pkt : Promise]
  <2>1. m \in Promise BY <1>2, WayTypeNext, PacketFields
  <2> QED BY <1>2, <2>1 DEF Page
<1> QED BY <1>1, <1>2, InPromisedNext

\* records have theirs,
LEMMA LogType ==
    ASSUME TypeOK, NEW i \in Replica
    PROVE  log[i] \in Batch /\ log[i] \subseteq Record /\ \A x, y \in log[i] : x.slot = y.slot => x = y
<1>1. log[i] \in Batch BY DEF TypeOK
<1> QED BY <1>1 DEF Batch

\* in the next state too,
LEMMA LogTypeNext ==
    ASSUME TypeOK', NEW i \in Replica
    PROVE  log'[i] \in Batch /\ log'[i] \subseteq Record
           /\ \A x, y \in log'[i] : x.slot = y.slot => x = y
<1>1. log'[i] \in Batch BY DEF TypeOK
<1> QED BY <1>1 DEF Batch

\* all of them,
LEMMA KnownType == TypeOK => Known \subseteq Record
<1> SUFFICES ASSUME TypeOK, NEW x \in Known PROVE x \in Record OBVIOUS
<1>1. CASE \E i \in Replica : x \in log[i] BY <1>1, LogType
<1>2. ASSUME NEW q \in Replica, NEW k \in Replica, NEW m \in Way(q, k),
             m.kind \in {"Accept", "Commit"}, x \in m.recs
      PROVE  x \in Record
  <2>1. m.recs \in Batch BY <1>2, WayType, PacketFields
  <2> QED BY <1>2, <2>1 DEF Batch
<1>3. ASSUME NEW p \in Promised, x \in p.pkt.recs PROVE x \in Record
  <2>1. p.pkt \in Promise BY PromisedType
  <2> QED BY <1>3, <2>1 DEF Promise
<1> QED BY <1>1, <1>2, <1>3, InKnown

\* in the next state too.
LEMMA KnownTypeNext == TypeOK' => Known' \subseteq Record
<1> SUFFICES ASSUME TypeOK', NEW x \in Known' PROVE x \in Record OBVIOUS
<1>1. CASE \E i \in Replica : x \in log'[i] BY <1>1, LogTypeNext
<1>2. ASSUME NEW q \in Replica, NEW k \in Replica, NEW m \in Way(q, k)',
             m.kind \in {"Accept", "Commit"}, x \in m.recs
      PROVE  x \in Record
  <2>1. m.recs \in Batch BY <1>2, WayTypeNext, PacketFields
  <2> QED BY <1>2, <2>1 DEF Batch
<1>3. ASSUME NEW p \in Promised', x \in p.pkt.recs PROVE x \in Record
  <2>1. p.pkt \in Promise BY PromisedTypeNext
  <2> QED BY <1>3, <2>1 DEF Promise
<1> QED BY <1>1, <1>2, <1>3, InKnownNext

\* Ballots are numbers.
LEMMA BallotTypes ==
    ASSUME TypeOK, TypeOK'
    PROVE  \A q \in Replica : /\ ballot[q] \in Ballot /\ ballot'[q] \in Ballot
                              /\ ballot[q] \in Nat /\ ballot'[q] \in Nat
BY BoundAssumption DEF TypeOK, Ballot

\* Ballots are numbers.
LEMMA BallotNat == \A b \in Ballot : b \in Nat
BY BoundAssumption DEF Ballot

-----------------------------------------------------------------------------
(***************************************************************************)
(* What never goes back.                                                   *)
(***************************************************************************)
\* The parts of Advance about one replica.
LEMMA AdvanceReplica ==
    ASSUME Advance, NEW q \in Replica
    PROVE  /\ ballot[q] <= ballot'[q]
           /\ Leading(q)' => ballot'[q] = ballot[q] /\ (Leading(q) \/ TookOver(q))
           /\ Leading(q) /\ ballot'[q] = ballot[q] => Leading(q)'
           /\ \A y \in log[q] : \E z \in log'[q] :
                /\ z.slot = y.slot /\ z.ballot >= y.ballot
                /\ y.committed => z.committed \/ z.ballot = ballot'[q]
                /\ Leading(q) => z.req = y.req
BY DEF Advance, KeepsLog

\* A ballot whose owner has taken over stays so.
LEMMA LedStays ==
    ASSUME TypeOK, TypeOK', Advance, NEW b \in Ballot, Led(b)
    PROVE  Led(b)'
<1> DEFINE o == Owner(b)
<1>1. o \in Replica BY OwnerType, BallotNat
<1>2. ballot[o] \in Nat /\ ballot'[o] \in Nat /\ b \in Nat BY <1>1, BallotTypes, BallotNat
<1>3. ballot[o] <= ballot'[o] BY <1>1, AdvanceReplica
<1>4. CASE ballot[o] > b BY <1>2, <1>3, <1>4 DEF Led
<1>5. CASE ballot[o] = b /\ ~preparing[o]
  <2>1. Leading(o) BY <1>5 DEF Leading
  <2>2. CASE ballot'[o] = b
    <3>1. Leading(o)' BY <1>1, <1>5, <2>1, <2>2, AdvanceReplica
    <3> QED BY <3>1, <2>2 DEF Led, Leading
  <2>3. CASE ballot'[o] # b BY <1>2, <1>3, <1>5, <2>3 DEF Led
  <2> QED BY <2>2, <2>3
<1> QED BY <1>4, <1>5 DEF Led

\* A ballot that a majority has reached stays so.
LEMMA ElectedStays ==
    ASSUME TypeOK, TypeOK', Advance, NEW b \in Ballot, Elected(b)
    PROVE  Elected(b)'
<1>1. PICK Q \in Quorum : \A q \in Q : ballot[q] >= b BY DEF Elected
<1>2. Q \in SUBSET Replica BY DEF Quorum
<1>3. \A q \in Q : ballot'[q] >= b
  <2> TAKE q \in Q
  <2>1. q \in Replica BY <1>2
  <2>2. ballot[q] \in Nat /\ ballot'[q] \in Nat /\ b \in Nat BY <2>1, BallotTypes, BallotNat
  <2>3. ballot[q] <= ballot'[q] BY <2>1, AdvanceReplica
  <2> QED BY <1>1, <2>2, <2>3
<1> QED BY <1>1, <1>3 DEF Elected

\* What cannot be chosen any more under b cannot be chosen later.
LEMMA ChoiceShrinks ==
    ASSUME TypeOK, TypeOK', Advance, NEW b \in Ballot, NEW s \in Slot, CanChoose(b, s)'
    PROVE  CanChoose(b, s)
<1>1. PICK Q \in Quorum : \A q \in Q : ballot'[q] <= b \/ Voted(q, b, s)'
  BY DEF CanChoose
<1>2. \A q \in Q : ballot[q] <= b \/ Voted(q, b, s)
  <2> TAKE q \in Q
  <2>1. q \in Replica BY DEF Quorum
  <2>2. ballot[q] \in Nat /\ ballot'[q] \in Nat /\ b \in Nat BY <2>1, BallotTypes, BallotNat
  <2>3. ballot[q] <= ballot'[q] BY <2>1, AdvanceReplica
  <2>4. CASE ballot'[q] <= b BY <2>2, <2>3, <2>4
  <2>5. CASE Voted(q, b, s)'
    <3>1. Voted(q, b, s) \/ FreshVote(q, b, s) BY <2>1, <2>5 DEF Advance
    <3> QED BY <3>1, <2>2 DEF FreshVote
  <2> QED BY <1>1, <2>4, <2>5
<1> QED BY <1>2 DEF CanChoose

\* If a later ballot was opened with a majority, what can still be chosen
\* under b has been voted for.
LEMMA VotedBefore ==
    ASSUME TypeOK, NEW b \in Ballot, NEW c \in Ballot, b < c, NEW s \in Slot,
           CanChoose(b, s), Elected(c)
    PROVE  \E q \in Replica : Voted(q, b, s)
<1>1. PICK Q \in Quorum : \A q \in Q : ballot[q] <= b \/ Voted(q, b, s) BY DEF CanChoose
<1>2. PICK P \in Quorum : \A q \in P : ballot[q] >= c BY DEF Elected
<1>3. PICK q \in P : q \in Q BY QuorumsMeet
<1>4. q \in Replica BY DEF Quorum
<1>5. ballot[q] \in Nat /\ b \in Nat /\ c \in Nat BY <1>4, BallotNat DEF TypeOK
<1> QED BY <1>1, <1>2, <1>3, <1>4, <1>5

\* A reader of the promise of q after a step.
LEMMA ReportsStay ==
    ASSUME TypeOK, Advance, NEW q \in Replica, NEW c \in Ballot, NEW s, NEW b,
           \E y \in log[q] : y.slot = s /\ y.ballot >= b, Reports(q, c, s, b)
    PROVE  Reports(q, c, s, b)'
<1> SUFFICES ASSUME Whole(q, c)', \A p \in Pages(q, c)' : p.pkt.floor <= s
             PROVE  \E p \in Pages(q, c)' : \E y \in p.pkt.recs : y.slot = s /\ y.ballot >= b
  BY DEF Reports
<1>1. CASE SamePages(q, c)
  <2>1. Whole(q, c) /\ Pages(q, c)' = Pages(q, c) BY <1>1 DEF SamePages
  <2> QED BY <2>1, Zenon DEF Reports
<1>2. CASE FreshPages(q, c)
  <2>1. PICK y \in log[q] : y.slot = s /\ y.ballot >= b OBVIOUS
  <2>2. \E p \in Pages(q, c)' : y \in p.pkt.recs BY <1>2, <2>1 DEF FreshPages
  <2> QED BY <2>1, <2>2
<1> QED BY <1>1, <1>2 DEF Advance

\* A promise goes on telling of a record that its sender keeps.
LEMMA TellsStay ==
    ASSUME TypeOK, Advance, NEW q \in Replica, NEW c \in Ballot, NEW s, NEW b,
           \E y \in log[q] : y.slot = s /\ (y.ballot >= b \/ y.committed), Tells(q, c, s, b)
    PROVE  Tells(q, c, s, b)'
<1> SUFFICES ASSUME Whole(q, c)', \A p \in Pages(q, c)' : p.pkt.floor <= s
             PROVE  \E p \in Pages(q, c)' : \E y \in p.pkt.recs :
                        y.slot = s /\ (y.ballot >= b \/ y.committed)
  BY DEF Tells
<1>1. CASE SamePages(q, c)
  <2>1. Whole(q, c) /\ Pages(q, c)' = Pages(q, c) BY <1>1 DEF SamePages
  <2> QED BY <2>1, Zenon DEF Tells
<1>2. CASE FreshPages(q, c)
  <2>1. PICK y \in log[q] : y.slot = s /\ (y.ballot >= b \/ y.committed) OBVIOUS
  <2>2. \E p \in Pages(q, c)' : y \in p.pkt.recs BY <1>2, <2>1 DEF FreshPages
  <2> QED BY <2>1, <2>2
<1> QED BY <1>1, <1>2 DEF Advance

-----------------------------------------------------------------------------
(***************************************************************************)
(* New records.                                                            *)
(***************************************************************************)
\* A record of x's slot, ballot and request existed before the step.
WasKnown(x) == \E y \in Known : y.slot = x.slot /\ y.ballot = x.ballot /\ y.req = x.req
\* The leader i of x's ballot has put x into its log in this step or before.
By(i, x) ==
    /\ ballot[i] = x.ballot /\ ballot'[i] = x.ballot /\ Owner(x.ballot) = i
    /\ Leading(i)' /\ Elected(x.ballot)
    /\ \E z \in log'[i] : z.slot = x.slot /\ z.req = x.req
Copied(i, x) ==
    /\ Leading(i) /\ ballot[i] = x.ballot
    /\ \E y \in log[i] : y.slot = x.slot /\ y.req = x.req /\ y.committed

\* Every record of the next state was there before, or a leader made it.
LEMMA Kinds ==
    ASSUME TypeOK, TypeOK', Safety, Advance, NEW x \in Known'
    PROVE  \/ WasKnown(x)
           \/ \E i \in Replica :
                 By(i, x) /\ (Copied(i, x) \/ (Fresh(x) /\ Leading(i)) \/ (Adopted(x) /\ TookOver(i)))
<1>1. CASE x \in Known BY <1>1 DEF WasKnown
<1>2. CASE Restated(x)
  <2>1. PICK i \in Replica : Stays(i, x.ballot) /\ \E y \in log[i] :
              y.slot = x.slot /\ y.req = x.req /\ (y.ballot = x.ballot \/ y.committed)
    BY <1>2 DEF Restated
  <2>2. PICK y \in log[i] :
              y.slot = x.slot /\ y.req = x.req /\ (y.ballot = x.ballot \/ y.committed)
    BY <2>1
  <2>3. Leading(i) /\ ballot[i] = x.ballot /\ ballot'[i] = x.ballot BY <2>1 DEF Stays
  <2>4. CASE y.ballot = x.ballot
    <3>1. y \in Known BY InKnown
    <3> QED BY <3>1, <2>2, <2>4 DEF WasKnown
  <2>5. CASE y.committed
    <3>1. Leading(i)' BY <2>3, AdvanceReplica
    <3>2. Elected(x.ballot) BY <2>3 DEF Safety, Established
    <3>3. \E z \in log'[i] : z.slot = x.slot /\ z.req = x.req
      BY <2>2, <2>3, AdvanceReplica
    <3>4. Owner(x.ballot) = i BY <2>3 DEF Leading
    <3>5. By(i, x) BY <2>3, <3>1, <3>2, <3>3, <3>4 DEF By
    <3>6. Copied(i, x) BY <2>2, <2>3, <2>5 DEF Copied
    <3> QED BY <3>5, <3>6
  <2> QED BY <2>2, <2>4, <2>5
<1>3. CASE Fresh(x)
  <2>1. PICK i \in Replica : Stays(i, x.ballot) /\ \E z \in log'[i] : z.slot = x.slot /\ z.req = x.req
    BY <1>3 DEF Fresh
  <2>2. Leading(i) /\ ballot[i] = x.ballot /\ ballot'[i] = x.ballot BY <2>1 DEF Stays
  <2>3. Leading(i)' BY <2>2, AdvanceReplica
  <2>4. Elected(x.ballot) BY <2>2 DEF Safety, Established
  <2>5. Owner(x.ballot) = i BY <2>2 DEF Leading
  <2> QED BY <1>3, <2>1, <2>2, <2>3, <2>4, <2>5 DEF By
<1>4. CASE Adopted(x)
  <2>1. PICK i \in Replica : /\ TookOver(i) /\ x.ballot = ballot[i]
                             /\ \E z \in log'[i] : z.slot = x.slot /\ z.req = x.req
    BY <1>4 DEF Adopted
  <2>2. /\ Owner(ballot[i]) = i /\ ballot'[i] = ballot[i] /\ ~preparing'[i]
        /\ Elected(ballot[i])
    BY <2>1 DEF TookOver
  <2>3. Leading(i)' BY <2>2 DEF Leading
  <2> QED BY <1>4, <2>1, <2>2, <2>3 DEF By
<1>5. CASE Chosen(x) BY <1>5 DEF Chosen, WasKnown
<1>6. x \in Known \/ Made(x) BY DEF Advance
<1> QED BY <1>1, <1>2, <1>3, <1>4, <1>5, <1>6 DEF Made

\* Every record of the next state has an elected ballot.
LEMMA NextElected ==
    ASSUME TypeOK, TypeOK', Safety, Advance, NEW x \in Known'
    PROVE  Elected(x.ballot)
<1>1. CASE WasKnown(x)
  <2>1. PICK y \in Known : y.ballot = x.ballot BY <1>1 DEF WasKnown
  <2>2. Elected(y.ballot) BY DEF Safety, Owned
  <2> QED BY <2>1, <2>2
<1>2. CASE \E i \in Replica : By(i, x) BY <1>2 DEF By
<1> QED BY <1>1, <1>2, Kinds

\* The parts of Safety, one by one: Owned,
LEMMA OwnedStays ==
    ASSUME TypeOK, TypeOK', Safety, Advance
    PROVE  Owned'
<1> SUFFICES ASSUME NEW x \in Known'
             PROVE  /\ Led(x.ballot)' /\ Elected(x.ballot)'
                    /\ ballot'[Owner(x.ballot)] = x.ballot =>
                         \E y \in log'[Owner(x.ballot)] : y.slot = x.slot /\ y.req = x.req
  BY DEF Owned
<1>1. x.ballot \in Ballot BY KnownTypeNext DEF Record
<1>2. Elected(x.ballot)' BY <1>1, NextElected, ElectedStays
<1> DEFINE o == Owner(x.ballot)
<1>3. o \in Replica BY <1>1, OwnerType, BallotNat
<1>4. CASE WasKnown(x)
  <2>1. PICK y \in Known : y.slot = x.slot /\ y.ballot = x.ballot /\ y.req = x.req
    BY <1>4 DEF WasKnown
  <2>2. Led(x.ballot) BY <2>1 DEF Safety, Owned
  <2>3. Led(x.ballot)' BY <1>1, <2>2, LedStays
  <2>4. ASSUME ballot'[o] = x.ballot
        PROVE  \E z \in log'[o] : z.slot = x.slot /\ z.req = x.req
    <3>1. ballot[o] \in Nat /\ ballot'[o] \in Nat /\ ballot[o] <= ballot'[o]
      BY <1>3, BallotTypes, BallotNat, AdvanceReplica
    <3>2. ballot[o] = x.ballot /\ ~preparing[o] BY <2>2, <2>4, <3>1 DEF Led
    <3>3. Leading(o) BY <3>2 DEF Leading
    <3>4. PICK z \in log[o] : z.slot = x.slot /\ z.req = x.req
      BY <2>1, <3>2 DEF Safety, Owned
    <3> QED BY <1>3, <3>3, <3>4, AdvanceReplica
  <2> QED BY <1>2, <2>3, <2>4
<1>5. CASE \E i \in Replica : By(i, x)
  <2>1. PICK i \in Replica : By(i, x) BY <1>5
  <2>2. Led(x.ballot)' BY <2>1 DEF By, Led, Leading
  <2> QED BY <1>2, <2>1, <2>2 DEF By
<1> QED BY <1>4, <1>5, Kinds

\* OneValue,
LEMMA OneValueStays ==
    ASSUME TypeOK, TypeOK', Safety, Shape', Advance
    PROVE  OneValue'
<1> SUFFICES ASSUME NEW x \in Known', NEW y \in Known', x.slot = y.slot, x.ballot = y.ballot
             PROVE  x.req = y.req
  BY DEF OneValue
<1>1. CASE WasKnown(x) /\ WasKnown(y)
  BY <1>1 DEF WasKnown, Safety, OneValue
<1>2. CASE \E i \in Replica : By(i, x) \/ By(i, y)
  <2>1. PICK i \in Replica : By(i, x) \/ By(i, y) BY <1>2
  <2>2. Owner(x.ballot) = i /\ ballot'[i] = x.ballot BY <2>1 DEF By
  <2>3. Owned' BY OwnedStays
  <2>4. PICK z \in log'[i] : z.slot = x.slot /\ z.req = x.req BY <2>2, <2>3 DEF Owned
  <2>5. PICK w \in log'[i] : w.slot = y.slot /\ w.req = y.req BY <2>2, <2>3 DEF Owned
  <2>6. z = w BY <2>4, <2>5, LogTypeNext
  <2> QED BY <2>4, <2>5, <2>6
<1> QED BY <1>1, <1>2, Kinds

\* A lock is never broken.
LEMMA LockStays ==
    ASSUME TypeOK, TypeOK', Safety, Shape', Advance,
           NEW s \in Slot, NEW v \in Command, NEW b \in Ballot, NEW Q \in Quorum, Lock(s, v, b, Q)
    PROVE  Lock(s, v, b, Q)'
<1>1. Led(b) /\ Led(b)' BY LedStays DEF Lock
<1>2. ASSUME NEW q \in Q
      PROVE  /\ \E y \in log'[q] : y.slot = s /\ y.ballot >= b
             /\ \A c \in Ballot : c > b => Reports(q, c, s, b)'
  <2>1. q \in Replica BY DEF Quorum
  <2>2. PICK y \in log[q] : y.slot = s /\ y.ballot >= b BY DEF Lock
  <2>3. PICK z \in log'[q] : z.slot = y.slot /\ z.ballot >= y.ballot BY <2>1, AdvanceReplica
  <2>4. y.ballot \in Nat /\ z.ballot \in Nat /\ b \in Nat
    <3>1. y \in Record /\ z \in Record BY <2>1, LogType, LogTypeNext
    <3> QED BY <3>1, BallotNat DEF Record
  <2>5. z.slot = s /\ z.ballot >= b BY <2>2, <2>3, <2>4
  <2>6. ASSUME NEW c \in Ballot, c > b PROVE Reports(q, c, s, b)'
    <3>1. Reports(q, c, s, b) BY <2>6 DEF Lock
    <3> QED BY <2>1, <2>2, <3>1, ReportsStay
  <2> QED BY <2>5, <2>6
<1>3. ASSUME NEW i \in Replica, Leading(i)', ballot'[i] >= b
      PROVE  \E y \in log'[i] : y.slot = s /\ y.req = v
  <2>1. ballot'[i] = ballot[i] /\ (Leading(i) \/ TookOver(i)) BY <1>3, AdvanceReplica
  <2>2. CASE Leading(i)
    <3>1. PICK y \in log[i] : y.slot = s /\ y.req = v BY <1>3, <2>1, <2>2 DEF Lock
    <3> QED BY <2>2, <3>1, AdvanceReplica
  <2>3. CASE TookOver(i)
    <3>1. Owner(ballot[i]) = i /\ preparing[i] BY <2>3 DEF TookOver
    <3>2. ballot[i] \in Nat /\ b \in Nat BY BallotTypes, BallotNat
    <3>3. ballot[i] # b BY <1>1, <3>1, <3>2 DEF Led
    <3>4. b < ballot[i] BY <1>3, <2>1, <3>2, <3>3
    <3> QED BY <2>3, <3>4 DEF TookOver
  <2> QED BY <2>1, <2>2, <2>3
<1>4. ASSUME NEW x \in Known', x.slot = s, x.ballot >= b PROVE x.req = v
  <2>1. CASE WasKnown(x) BY <1>4, <2>1 DEF WasKnown, Lock
  <2>2. CASE \E i \in Replica : By(i, x)
    <3>1. PICK i \in Replica : By(i, x) BY <2>2
    <3>2. PICK z \in log'[i] : z.slot = x.slot /\ z.req = x.req BY <3>1 DEF By
    <3>3. Leading(i)' /\ ballot'[i] >= b BY <1>4, <3>1 DEF By
    <3>4. PICK w \in log'[i] : w.slot = s /\ w.req = v BY <1>3, <3>3
    <3>5. z = w BY <1>4, <3>1, <3>2, <3>4, LogTypeNext
    <3> QED BY <3>2, <3>4, <3>5
  <2> QED BY <2>1, <2>2, Kinds
<1> QED BY <1>1, <1>2, <1>3, <1>4 DEF Lock

\* What was voted for is remembered: in the log, and in every later promise.
LEMMA VotesStay ==
    ASSUME TypeOK, TypeOK', Safety, Shape', Advance
    PROVE  VoteInv'
<1> SUFFICES ASSUME NEW q \in Replica, NEW b \in Ballot, NEW s \in Slot, Voted(q, b, s)'
             PROVE  /\ Led(b)'
                    /\ ballot'[Owner(b)] = b => \E y \in log'[Owner(b)] : y.slot = s
                    /\ ballot'[q] >= b
                    /\ \E y \in log'[q] : y.slot = s /\ (y.ballot >= b \/ y.committed)
                    /\ \A c \in Ballot : c > b => Tells(q, c, s, b)'
  BY DEF VoteInv
<1> DEFINE o == Owner(b)
<1>1. o \in Replica BY OwnerType, BallotNat
<1>2. /\ b \in Nat /\ ballot[q] \in Nat /\ ballot'[q] \in Nat
      /\ ballot[o] \in Nat /\ ballot'[o] \in Nat
      /\ ballot[q] <= ballot'[q] /\ ballot[o] <= ballot'[o]
  BY <1>1, BallotTypes, BallotNat, AdvanceReplica
<1>3. CASE Voted(q, b, s)
  <2>1. /\ Led(b)
        /\ ballot[o] = b => \E y \in log[o] : y.slot = s
        /\ ballot[q] >= b
        /\ \E y \in log[q] : y.slot = s /\ (y.ballot >= b \/ y.committed)
        /\ \A c \in Ballot : c > b => Tells(q, c, s, b)
    BY <1>3 DEF Safety, VoteInv
  <2>2. Led(b)' BY <2>1, LedStays
  <2>3. ASSUME ballot'[o] = b PROVE \E y \in log'[o] : y.slot = s
    <3>1. ballot[o] = b BY <1>2, <2>1, <2>3 DEF Led
    <3>2. PICK y \in log[o] : y.slot = s BY <2>1, <3>1
    <3> QED BY <1>1, <3>2, AdvanceReplica
  <2>4. PICK y \in log[q] : y.slot = s /\ (y.ballot >= b \/ y.committed) BY <2>1
  <2>5. PICK z \in log'[q] : /\ z.slot = y.slot /\ z.ballot >= y.ballot
                             /\ y.committed => z.committed \/ z.ballot = ballot'[q]
    BY AdvanceReplica
  <2>6. y.ballot \in Nat /\ z.ballot \in Nat
    <3>1. y \in Record /\ z \in Record BY LogType, LogTypeNext
    <3> QED BY <3>1, BallotNat DEF Record
  <2>7. z.slot = s /\ (z.ballot >= b \/ z.committed) BY <1>2, <2>1, <2>4, <2>5, <2>6
  <2>8. \A c \in Ballot : c > b => Tells(q, c, s, b)' BY <2>1, <2>4, TellsStay
  <2> QED BY <1>2, <2>1, <2>2, <2>3, <2>7, <2>8
<1>4. CASE FreshVote(q, b, s)
  <2>1. /\ ballot'[q] = b /\ Led(b)'
        /\ ballot'[o] = b => \E y \in log'[o] : y.slot = s
        /\ \E y \in log'[q] : y.slot = s /\ (y.ballot >= b \/ y.committed)
    BY <1>4 DEF FreshVote
  <2>2. ASSUME NEW c \in Ballot, c > b PROVE Tells(q, c, s, b)'
    <3>1. ASSUME NEW p \in Pages(q, c)' PROVE FALSE
      <4>1. p \in Promised' /\ p.from = q /\ p.pkt.ballot = c BY <3>1 DEF Pages
      <4>2. c <= ballot'[q] BY <4>1 DEF Shape, PromiseShape, GoodPromise
      <4>3. c \in Nat BY BallotNat
      <4> QED BY <1>2, <2>1, <2>2, <4>2, <4>3
    <3>2. ~Whole(q, c)' BY <3>1 DEF Whole
    <3> QED BY <3>2 DEF Tells
  <2> QED BY <1>2, <2>1, <2>2
<1> QED BY <1>3, <1>4 DEF Advance

\* Locks hold values of their type; a committed record has one.
LEMMA LockOf ==
    ASSUME TypeOK, Safety, NEW x \in Known, x.committed
    PROVE  \E b \in Ballot, Q \in Quorum : b <= x.ballot /\ Lock(x.slot, x.req, b, Q)
BY DEF Safety, Locked

\* Safe,
LEMMA SafeStays ==
    ASSUME TypeOK, TypeOK', Safety, Shape', Advance
    PROVE  Safe'
<1> SUFFICES ASSUME NEW x \in Known', NEW y \in Known', x.slot = y.slot, y.ballot < x.ballot,
                    CanChoose(y.ballot, y.slot)'
             PROVE  x.req = y.req
  BY DEF Safe
<1>1. x \in Record /\ y \in Record BY KnownTypeNext
<1>2. /\ x.ballot \in Ballot /\ y.ballot \in Ballot /\ x.ballot \in Nat /\ y.ballot \in Nat
      /\ x.slot \in Slot /\ y.slot \in Slot /\ x.req \in Command /\ y.req \in Command
  BY <1>1, BallotNat DEF Record
<1>3. CanChoose(y.ballot, y.slot) BY <1>2, ChoiceShrinks
\* If the request of x or y is locked at or below y's ballot, both are that request.
<1>4. ASSUME NEW v \in Command, NEW b \in Ballot, NEW Q \in Quorum, b <= y.ballot,
             Lock(x.slot, v, b, Q)
      PROVE  x.req = y.req
  <2>1. Lock(x.slot, v, b, Q)' BY <1>2, <1>4, LockStays
  <2>2. b \in Nat BY BallotNat
  <2>3. x.ballot >= b /\ y.ballot >= b BY <1>2, <1>4, <2>2
  <2>4. x.req = v /\ y.req = v BY <2>1, <2>3 DEF Lock
  <2> QED BY <2>4
<1>5. CASE WasKnown(y)
  <2>1. PICK w \in Known : w.slot = y.slot /\ w.ballot = y.ballot /\ w.req = y.req
    BY <1>5 DEF WasKnown
  <2>2. CASE WasKnown(x)
    <3>1. PICK z \in Known : z.slot = x.slot /\ z.ballot = x.ballot /\ z.req = x.req
      BY <2>2 DEF WasKnown
    <3> QED BY <1>3, <2>1, <3>1 DEF Safety, Safe
  <2>3. CASE \E i \in Replica : Copied(i, x)
    <3>1. PICK i \in Replica : Copied(i, x) BY <2>3
    <3>2. PICK c \in log[i] : c.slot = x.slot /\ c.req = x.req /\ c.committed
      BY <3>1 DEF Copied
    <3>3. c \in Known BY <3>2, InKnown
    <3>4. PICK b \in Ballot, Q \in Quorum : b <= c.ballot /\ Lock(c.slot, c.req, b, Q)
      BY <3>2, <3>3, LockOf
    <3>5. CASE b <= y.ballot BY <1>2, <1>4, <3>2, <3>4, <3>5
    <3>6. CASE ~(b <= y.ballot)
      <4>1. c.ballot \in Nat /\ b \in Nat
        <5>1. c \in Record BY <3>3, KnownType
        <5> QED BY <5>1, BallotNat DEF Record
      <4>2. w.ballot < c.ballot BY <1>2, <2>1, <3>4, <3>6, <4>1
      <4>3. c.req = w.req BY <1>3, <2>1, <3>2, <3>3, <4>2 DEF Safety, Safe
      <4> QED BY <2>1, <3>2, <4>3
    <3> QED BY <3>5, <3>6
  <2>4. CASE Fresh(x)
    <3>1. PICK i \in Replica : Stays(i, x.ballot) /\ \A z \in log[i] : z.slot # x.slot
      BY <2>4 DEF Fresh
    <3>2. Leading(i) /\ ballot[i] = x.ballot BY <3>1 DEF Stays
    <3>3. ~CanChoose(y.ballot, x.slot) BY <1>2, <3>1, <3>2 DEF Safety, Established
    <3> QED BY <1>3, <3>3
  <2>5. CASE Adopted(x)
    <3>1. w.slot = x.slot /\ w.ballot < x.ballot /\ CanChoose(w.ballot, w.slot) BY <1>3, <2>1
    <3>2. w.req = x.req BY <2>5, <3>1 DEF Adopted
    <3> QED BY <2>1, <3>2
  <2> QED BY <2>2, <2>3, <2>4, <2>5, Kinds
<1>6. ASSUME NEW i \in Replica, By(i, y),
             Copied(i, y) \/ (Fresh(y) /\ Leading(i)) \/ (Adopted(y) /\ TookOver(i))
      PROVE  x.req = y.req
  <2>1. Elected(x.ballot) BY NextElected
  <2>2. PICK q \in Replica : Voted(q, y.ballot, y.slot) BY <1>2, <1>3, <2>1, VotedBefore
  <2>3. /\ Led(y.ballot)
        /\ ballot[Owner(y.ballot)] = y.ballot => \E z \in log[Owner(y.ballot)] : z.slot = y.slot
    BY <1>2, <2>2 DEF Safety, VoteInv
  <2>4. Owner(y.ballot) = i /\ ballot[i] = y.ballot BY <1>6 DEF By
  <2>5. PICK z \in log[i] : z.slot = y.slot BY <2>3, <2>4
  <2>6. CASE Copied(i, y)
    <3>1. PICK c \in log[i] : c.slot = y.slot /\ c.req = y.req /\ c.committed
      BY <2>6 DEF Copied
    <3>2. c \in Known BY <3>1, InKnown
    <3>3. PICK b \in Ballot, Q \in Quorum : b <= c.ballot /\ Lock(c.slot, c.req, b, Q)
      BY <3>1, <3>2, LockOf
    <3>4. c.ballot \in Nat /\ b \in Nat
      <4>1. c \in Record BY <3>2, KnownType
      <4> QED BY <4>1, BallotNat DEF Record
    <3>5. CASE b <= y.ballot BY <1>2, <1>4, <3>1, <3>3, <3>5
    <3>6. CASE ~(b <= y.ballot)
      \* The record of a leader is not of a later ballot.
      <4>1. PICK d \in log'[i] : d.slot = c.slot /\ d.ballot >= c.ballot BY AdvanceReplica
      <4>2. d.ballot <= ballot'[i] BY DEF Shape, LogShape, GoodLog
      <4>3. d.ballot \in Nat
        <5>1. d \in Record BY LogTypeNext
        <5> QED BY <5>1, BallotNat DEF Record
      <4>4. c.ballot <= y.ballot BY <1>2, <1>6, <3>4, <4>1, <4>2, <4>3 DEF By
      <4> QED BY <1>2, <3>3, <3>4, <3>6, <4>4
    <3> QED BY <3>5, <3>6
  <2>7. CASE Fresh(y) /\ Leading(i)
    <3>1. PICK k \in Replica : Stays(k, y.ballot) /\ \A w \in log[k] : w.slot # y.slot
      BY <2>7 DEF Fresh
    <3>2. k = i BY <2>4, <3>1 DEF Stays, Leading
    <3> QED BY <2>5, <3>1, <3>2
  <2>8. CASE TookOver(i)
    <3>1. preparing[i] BY <2>8 DEF TookOver
    <3>2. ballot[i] \in Nat BY BallotTypes, BallotNat
    <3> QED BY <2>3, <2>4, <3>1, <3>2 DEF Led
  <2> QED BY <1>6, <2>6, <2>7, <2>8
<1> QED BY <1>5, <1>6, Kinds

\* A record that is new, and committed because a majority has acknowledged its
\* slot, is locked then, unless the slot was locked already.
LEMMA WinnerLocks ==
    ASSUME TypeOK, TypeOK', Safety, Shape, Shape', Advance,
           NEW x \in Known', x \notin Known, Chosen(x)
    PROVE  \E b \in Ballot, Q \in Quorum : b <= x.ballot /\ Lock(x.slot, x.req, b, Q)'
<1> DEFINE b == x.ballot
           s == x.slot
<1>1. x \in Record BY KnownTypeNext
<1>2. b \in Ballot /\ s \in Slot /\ b \in Nat /\ x.req \in Command BY <1>1, BallotNat DEF Record
<1>3. PICK i \in Replica :
        /\ ballot[i] = b /\ ballot'[i] = b /\ Won(i, s)
        /\ \E y \in Known : y.slot = s /\ y.ballot = b /\ y.req = x.req
        /\ \E z \in log'[i] : z.slot = s /\ z.ballot = b
  BY DEF Chosen
<1>4. PICK y \in Known : y.slot = s /\ y.ballot = b /\ y.req = x.req BY <1>3
<1>5. PICK d \in log'[i] : d.slot = s /\ d.ballot = b BY <1>3
<1>6. PICK Q \in Quorum : \A q \in Q : q = i \/ Voted(q, b, s) BY <1>3 DEF Won
<1>7. CASE \E z \in Known : z.slot = s /\ z.committed /\ z.ballot < b
  <2>1. PICK z \in Known : z.slot = s /\ z.committed /\ z.ballot < b BY <1>7
  <2>2. PICK c \in Ballot, P \in Quorum : c <= z.ballot /\ Lock(z.slot, z.req, c, P)
    BY <2>1, LockOf
  <2>3. z \in Record BY KnownType
  <2>4. c \in Nat /\ z.ballot \in Nat /\ z.req \in Command BY <2>3, BallotNat DEF Record
  <2>5. b >= c BY <1>2, <2>1, <2>2, <2>4
  <2>6. y.req = z.req BY <1>4, <2>1, <2>2, <2>5 DEF Lock
  <2>7. Lock(s, x.req, c, P) BY <1>4, <2>1, <2>2, <2>6
  <2>8. Lock(s, x.req, c, P)' BY <1>2, <2>7, LockStays
  <2> QED BY <2>5, <2>8
<1>8. CASE ~\E z \in Known : z.slot = s /\ z.committed /\ z.ballot < b
  <2>1. \A z \in Known' : z \in Known \/ z.ballot = b BY DEF Advance
  <2>2. ASSUME NEW z \in Known, z.slot = s, z.ballot >= b \/ z.committed PROVE z.ballot >= b
    <3>1. z \in Record BY KnownType
    <3>2. z.ballot \in Nat BY <3>1, BallotNat DEF Record
    <3> QED BY <1>2, <1>8, <2>2, <3>2
  <2>3. ASSUME NEW z \in Known', z.slot = s, z.ballot >= b \/ z.committed PROVE z.ballot >= b
    BY <1>2, <2>1, <2>2, <2>3
  <2>4. Led(b)'
    <3>1. Led(b) BY <1>4 DEF Safety, Owned
    <3> QED BY <1>2, <3>1, LedStays
  <2>5. ASSUME NEW q \in Q
        PROVE  /\ \E z \in log'[q] : z.slot = s /\ z.ballot >= b
               /\ \A c \in Ballot : c > b => Reports(q, c, s, b)'
    <3>1. q \in Replica BY DEF Quorum
    <3>2. CASE Voted(q, b, s)
      <4>1. /\ \E z \in log[q] : z.slot = s /\ (z.ballot >= b \/ z.committed)
            /\ \A c \in Ballot : c > b => Tells(q, c, s, b)
        BY <1>2, <3>1, <3>2 DEF Safety, VoteInv
      <4>2. PICK z \in log[q] : z.slot = s /\ (z.ballot >= b \/ z.committed) BY <4>1
      <4>3. z \in Known BY <3>1, InKnown
      <4>4. z.ballot >= b BY <2>2, <4>2, <4>3
      <4>5. PICK w \in log'[q] : w.slot = z.slot /\ w.ballot >= z.ballot BY <3>1, AdvanceReplica
      <4>6. w.ballot >= b
        <5>1. z \in Record /\ w \in Record BY <3>1, LogType, LogTypeNext
        <5>2. z.ballot \in Nat /\ w.ballot \in Nat BY <5>1, BallotNat DEF Record
        <5> QED BY <1>2, <4>4, <4>5, <5>2
      <4>7. ASSUME NEW c \in Ballot, c > b PROVE Reports(q, c, s, b)'
        <5>1. Reports(q, c, s, b)
          <6> SUFFICES ASSUME Whole(q, c), \A p \in Pages(q, c) : p.pkt.floor <= s
                       PROVE  \E p \in Pages(q, c) : \E v \in p.pkt.recs :
                                 v.slot = s /\ v.ballot >= b
            BY DEF Reports
          <6>1. PICK p \in Pages(q, c) : \E v \in p.pkt.recs :
                       v.slot = s /\ (v.ballot >= b \/ v.committed)
            BY <4>1, <4>7 DEF Tells
          <6>2. PICK v \in p.pkt.recs : v.slot = s /\ (v.ballot >= b \/ v.committed) BY <6>1
          <6>3. v \in Known BY InKnown DEF Pages
          <6>4. v.ballot >= b BY <2>2, <6>2, <6>3
          <6> QED BY <6>2, <6>4
        <5> QED BY <3>1, <4>2, <4>4, <5>1, ReportsStay
      <4> QED BY <4>2, <4>5, <4>6, <4>7
    <3>3. CASE q = i
      <4>1. d.ballot >= b BY <1>2, <1>5
      <4>2. ASSUME NEW c \in Ballot, c > b PROVE Reports(q, c, s, b)'
        <5>1. ASSUME NEW p \in Pages(q, c)' PROVE FALSE
          <6>1. p \in Promised' /\ p.from = q /\ p.pkt.ballot = c BY <5>1 DEF Pages
          <6>2. c <= ballot'[q] BY <6>1 DEF Shape, PromiseShape, GoodPromise
          <6>3. c \in Nat BY BallotNat
          <6> QED BY <1>2, <1>3, <3>3, <4>2, <6>2, <6>3
        <5> QED BY <5>1 DEF Reports, Whole
      <4> QED BY <1>5, <3>3, <4>1, <4>2
    <3> QED BY <1>6, <3>2, <3>3
  <2>6. CanChoose(b, s)
    <3>1. \A q \in Q : ballot[q] <= b \/ Voted(q, b, s) BY <1>2, <1>3, <1>6
    <3> QED BY <3>1 DEF CanChoose
  <2>7. ASSUME NEW z \in Known', z.slot = s, z.ballot >= b PROVE z.req = x.req
    <3>1. z \in Record BY KnownTypeNext
    <3>2. z.ballot \in Nat BY <3>1, BallotNat DEF Record
    <3>3. CASE z.ballot = b
      <4>1. OneValue' BY OneValueStays
      <4> QED BY <2>7, <3>3, <4>1 DEF OneValue
    <3>4. CASE b < z.ballot
      <4>1. z \in Known BY <1>2, <2>1, <3>2, <3>4
      <4>2. z.req = y.req BY <1>4, <2>6, <2>7, <3>4, <4>1 DEF Safety, Safe
      <4> QED BY <1>4, <4>2
    <3> QED BY <1>2, <2>7, <3>2, <3>3, <3>4
  <2>8. ASSUME NEW k \in Replica, Leading(k)', ballot'[k] >= b
        PROVE  \E z \in log'[k] : z.slot = s /\ z.req = x.req
    <3>1. ballot'[k] \in Nat BY BallotTypes
    <3>2. CASE ballot'[k] = b
      <4>1. Owned' BY OwnedStays
      <4>2. Owner(b) = k BY <2>8, <3>2 DEF Leading
      <4> QED BY <3>2, <4>1, <4>2 DEF Owned
    <3>3. CASE b < ballot'[k]
      <4>1. ballot'[k] = ballot[k] /\ (Leading(k) \/ TookOver(k)) BY <2>8, AdvanceReplica
      <4>2. \E z \in log'[k] : z.slot = s
        <5>1. CASE Leading(k)
          <6>1. PICK z \in log[k] : z.slot = s
            BY <1>2, <2>6, <3>3, <4>1, <5>1 DEF Safety, Established
          <6> QED BY <6>1, AdvanceReplica
        <5>2. CASE TookOver(k) BY <1>2, <2>6, <3>3, <4>1, <5>2 DEF TookOver
        <5> QED BY <4>1, <5>1, <5>2
      <4>3. PICK z \in log'[k] : z.slot = s BY <4>2
      <4>4. z.ballot = ballot'[k] \/ z.committed
        BY <2>8 DEF Shape, LogShape, GoodLog
      <4>5. z \in Known' BY InKnownNext
      <4>6. z.ballot >= b BY <2>3, <2>8, <4>3, <4>4, <4>5
      <4> QED BY <2>7, <4>3, <4>5, <4>6
    <3> QED BY <1>2, <2>8, <3>1, <3>2, <3>3
  <2>9. Lock(s, x.req, b, Q)' BY <2>4, <2>5, <2>7, <2>8 DEF Lock
  <2> QED BY <1>2, <2>9
<1> QED BY <1>7, <1>8

\* Locked,
LEMMA LockedStays ==
    ASSUME TypeOK, TypeOK', Safety, Shape, Shape', Advance
    PROVE  Locked'
<1> SUFFICES ASSUME NEW x \in Known', x.committed
             PROVE  \E b \in Ballot, Q \in Quorum : b <= x.ballot /\ Lock(x.slot, x.req, b, Q)'
  BY DEF Locked
<1>1. x \in Record BY KnownTypeNext
<1>2. x.slot \in Slot /\ x.req \in Command /\ x.ballot \in Nat BY <1>1, BallotNat DEF Record
<1>3. ASSUME NEW y \in Known, y.committed, y.slot = x.slot, y.req = x.req, y.ballot <= x.ballot
      PROVE  \E b \in Ballot, Q \in Quorum : b <= x.ballot /\ Lock(x.slot, x.req, b, Q)'
  <2>1. PICK b \in Ballot, Q \in Quorum : b <= y.ballot /\ Lock(y.slot, y.req, b, Q)
    BY <1>3, LockOf
  <2>2. y \in Record BY KnownType
  <2>3. y.ballot \in Nat /\ b \in Nat BY <2>2, BallotNat DEF Record
  <2>4. b <= x.ballot BY <1>2, <1>3, <2>1, <2>3
  <2>5. Lock(x.slot, x.req, b, Q) BY <1>3, <2>1
  <2>6. Lock(x.slot, x.req, b, Q)' BY <1>2, <2>5, LockStays
  <2> QED BY <2>4, <2>6
<1>4. CASE x \in Known
  <2>1. x.ballot <= x.ballot BY <1>2
  <2> QED BY <1>3, <1>4, <2>1
<1>5. CASE Restated(x)
  <2>1. PICK i \in Replica : Stays(i, x.ballot) /\ \E y \in log[i] :
            y.slot = x.slot /\ y.req = x.req /\ (x.committed => y.committed)
    BY <1>5 DEF Restated
  <2>2. PICK y \in log[i] : y.slot = x.slot /\ y.req = x.req /\ y.committed BY <2>1
  <2>3. y \in Known BY InKnown
  <2>4. y.ballot <= x.ballot BY <2>1 DEF Stays, Shape, LogShape, GoodLog
  <2> QED BY <1>3, <2>2, <2>3, <2>4
<1>6. CASE x \notin Known /\ Chosen(x) BY <1>6, WinnerLocks
<1>7. ~Fresh(x) /\ ~Adopted(x) BY DEF Fresh, Adopted
<1>8. x \in Known \/ Made(x) BY DEF Advance
<1> QED BY <1>4, <1>5, <1>6, <1>7, <1>8 DEF Made

\* Established.
LEMMA EstablishedStays ==
    ASSUME TypeOK, TypeOK', Safety, Advance
    PROVE  Established'
<1> SUFFICES ASSUME NEW i \in Replica, Leading(i)'
             PROVE  /\ Elected(ballot[i])'
                    /\ \A s \in Slot, b \in Ballot :
                          b < ballot'[i] /\ (\A y \in log'[i] : y.slot # s) => ~CanChoose(b, s)'
  BY DEF Established
<1>1. ballot'[i] = ballot[i] /\ (Leading(i) \/ TookOver(i)) BY AdvanceReplica
<1>2. ballot[i] \in Ballot BY BallotTypes
<1>3. Elected(ballot[i]) BY <1>1 DEF Safety, Established, TookOver
<1>4. \A q \in Replica : ballot[q] <= ballot'[q] BY AdvanceReplica
<1>5. Elected(ballot[i])'
  <2> DEFINE b == ballot[i]
  <2>1. PICK Q \in Quorum : \A q \in Q : ballot[q] >= b BY <1>3 DEF Elected
  <2>2. \A q \in Q : ballot'[q] >= b
    <3> TAKE q \in Q
    <3>1. q \in Replica BY DEF Quorum
    <3>2. ballot[q] \in Nat /\ ballot'[q] \in Nat /\ b \in Nat
      BY <1>2, <3>1, BallotTypes, BallotNat
    <3> QED BY <1>4, <2>1, <3>1, <3>2
  <2> QED BY <1>1, <2>2 DEF Elected
<1>6. ASSUME NEW s \in Slot, NEW b \in Ballot, b < ballot'[i], \A y \in log'[i] : y.slot # s
      PROVE  ~CanChoose(b, s)'
  <2>1. ~CanChoose(b, s)
    <3>1. CASE Leading(i)
      <4>1. \A y \in log[i] : y.slot # s BY <1>6, AdvanceReplica
      <4> QED BY <1>1, <1>6, <3>1, <4>1 DEF Safety, Established
    <3>2. CASE TookOver(i) BY <1>1, <1>6, <3>2 DEF TookOver
    <3> QED BY <1>1, <3>1, <3>2
  <2> QED BY <2>1, ChoiceShrinks
<1> QED BY <1>5, <1>6

\* Every step that advances the protocol keeps Safety.
LEMMA SafetyStays ==
    ASSUME TypeOK, TypeOK', Safety, Shape, Shape', Advance
    PROVE  Safety'
BY VotesStay, OneValueStays, OwnedStays, SafeStays, LockedStays, EstablishedStays DEF Safety

-----------------------------------------------------------------------------
(***************************************************************************)
(* What Safety says of decisions.                                          *)
(***************************************************************************)
\* Two locks of one slot hold the same command.
LEMMA LocksAgree ==
    ASSUME TypeOK, NEW s \in Slot, NEW v, NEW w, NEW b \in Ballot, NEW c \in Ballot,
           NEW P \in Quorum, NEW Q \in Quorum, Lock(s, v, b, P), Lock(s, w, c, Q)
    PROVE  v = w
<1>1. \A u1, u2, b1, b2 : \A Q2 \in Quorum :
         b1 \in Ballot /\ b2 \in Ballot /\ b1 <= b2
         /\ (\A y \in Known : y.slot = s /\ y.ballot >= b1 => y.req = u1)
         /\ (\A y \in Known : y.slot = s /\ y.ballot >= b2 => y.req = u2)
         /\ (\A q \in Q2 : \E y \in log[q] : y.slot = s /\ y.ballot >= b2)
         => u1 = u2
  <2> SUFFICES ASSUME NEW u1, NEW u2, NEW b1 \in Ballot, NEW b2 \in Ballot,
                      NEW Q2 \in Quorum, b1 <= b2,
                      \A y \in Known : y.slot = s /\ y.ballot >= b1 => y.req = u1,
                      \A y \in Known : y.slot = s /\ y.ballot >= b2 => y.req = u2,
                      \A q \in Q2 : \E y \in log[q] : y.slot = s /\ y.ballot >= b2
               PROVE  u1 = u2
    OBVIOUS
  <2>1. PICK q \in Q2 : TRUE BY QuorumsMeet
  <2>2. q \in Replica BY DEF Quorum
  <2>3. PICK y \in log[q] : y.slot = s /\ y.ballot >= b2 BY <2>1
  <2>4. y \in Known BY <2>2, InKnown
  <2>5. y \in Record BY <2>4, KnownType
  <2>6. y.ballot \in Nat /\ b1 \in Nat /\ b2 \in Nat BY <2>5, BallotNat DEF Record
  <2>7. y.ballot >= b1 BY <2>3, <2>6
  <2> QED BY <2>3, <2>4, <2>7
<1>2. b \in Nat /\ c \in Nat BY BallotNat
<1>3. /\ \A y \in Known : y.slot = s /\ y.ballot >= b => y.req = v
      /\ \A q \in P : \E y \in log[q] : y.slot = s /\ y.ballot >= b
  BY DEF Lock
<1>4. /\ \A y \in Known : y.slot = s /\ y.ballot >= c => y.req = w
      /\ \A q \in Q : \E y \in log[q] : y.slot = s /\ y.ballot >= c
  BY DEF Lock
<1>5. CASE b <= c BY <1>1, <1>3, <1>4, <1>5
<1>6. CASE c <= b BY <1>1, <1>3, <1>4, <1>6
<1> QED BY <1>2, <1>5, <1>6

\* Safety implies what the runs check: agreement,
LEMMA SafetyAgrees == TypeOK /\ Safety => Agreement
<1> SUFFICES ASSUME TypeOK, Safety, NEW i \in Replica, NEW j \in Replica,
                    NEW r \in log[i], NEW q \in log[j],
                    r.slot = q.slot, r.committed, q.committed
             PROVE  r.req = q.req
  BY DEF Agreement
<1>1. r \in Known /\ q \in Known BY InKnown
<1>2. r \in Record /\ q \in Record BY <1>1, KnownType
<1>3. PICK b \in Ballot, P \in Quorum : Lock(r.slot, r.req, b, P) BY <1>1, LockOf
<1>4. PICK c \in Ballot, Q \in Quorum : Lock(q.slot, q.req, c, Q) BY <1>1, LockOf
<1>5. r.slot \in Slot BY <1>2 DEF Record
<1>6. Lock(r.slot, q.req, c, Q) BY <1>4
<1> QED BY <1>3, <1>5, <1>6, LocksAgree
=============================================================================
