---------------------------- MODULE PaxosProofs ----------------------------
(***************************************************************************)
(* Theorems about Paxos, for every number of replicas, every finite set of *)
(* requests and all values of the bounds: its types and, from the line     *)
(* "Ballots, owners and quorums" on, what a step has to do for the         *)
(* inductive invariant of PaxosInvariant to hold on.  What is said of      *)
(* replicas, packets and promises whatever the values are (Shape) is kept  *)
(* by the parts that a step leaves alone; Safety is kept by every step     *)
(* that advances the protocol (Advance); Safety implies the properties     *)
(* that the runs check; from "Steps that change no log" on, every action   *)
(* of Next keeps Shape and advances the protocol; the theorems, and what   *)
(* they say of executions and of DecidedLog, come last.                    *)
(***************************************************************************)
EXTENDS PaxosInvariant, FiniteSetTheorems, WellFoundedInduction, TLAPS

-----------------------------------------------------------------------------
(***************************************************************************)
(* Finiteness and arithmetic.                                              *)
(***************************************************************************)
\* The image of a finite set under a function that reaches all of T.
LEMMA FiniteSurjection ==
    ASSUME NEW S, NEW T, IsFiniteSet(S), NEW f \in [S -> T],
           \A t \in T : \E s \in S : f[s] = t
    PROVE  IsFiniteSet(T)
<1>1. f \in Surjection(S, T) BY DEF Surjection
<1> QED BY <1>1, FS_Surjection

\* There are finitely many records, so logs and pages are finite.
LEMMA RecordFinite == IsFiniteSet(Record)
<1>1. IsFiniteSet(Slot) /\ IsFiniteSet(Ballot)
  BY FS_Interval, BoundAssumption DEF Slot, Ballot
<1>2. IsFiniteSet(Command)
  BY RequestAssumption, FS_AddElement DEF Command
<1>3. IsFiniteSet(BOOLEAN)
  <2>1. IsFiniteSet({}) BY FS_EmptySet
  <2>2. IsFiniteSet({} \cup {TRUE}) BY <2>1, FS_AddElement, Zenon
  <2>3. IsFiniteSet(({} \cup {TRUE}) \cup {FALSE}) BY <2>2, FS_AddElement, Zenon
  <2>4. BOOLEAN = ({} \cup {TRUE}) \cup {FALSE} OBVIOUS
  <2> QED BY <2>3, <2>4, Zenon
<1> DEFINE P == (Slot \X Ballot) \X (Command \X BOOLEAN)
           f == [x \in P |-> [slot |-> x[1][1], ballot |-> x[1][2],
                              req |-> x[2][1], committed |-> x[2][2]]]
<1>4. IsFiniteSet(Slot \X Ballot) /\ IsFiniteSet(Command \X BOOLEAN)
  BY <1>1, <1>2, <1>3, FS_Product
<1>5. IsFiniteSet(P) BY <1>4, FS_Product
<1>6. f \in [P -> Record] BY DEF Record
<1>7. \A r \in Record : \E x \in P : f[x] = r
  <2> TAKE r \in Record
  <2> DEFINE x == <<<<r.slot, r.ballot>>, <<r.req, r.committed>>>>
  <2>1. x \in P BY DEF Record
  <2>2. f[x] = r BY <2>1 DEF Record
  <2> QED BY <2>1, <2>2
<1> HIDE DEF P, f
<1> QED BY <1>5, <1>6, <1>7, FiniteSurjection

LEMMA RecordsFinite == ASSUME NEW R \in SUBSET Record PROVE IsFiniteSet(R)
BY RecordFinite, FS_Subset

\* Dividing a natural number by a positive one gives a natural number.
LEMMA DivNat == ASSUME NEW n \in Nat, NEW p \in Nat \ {0} PROVE n \div p \in Nat
OBVIOUS

LEMMA CardNat == ASSUME NEW S, IsFiniteSet(S) PROVE Cardinality(S) \in Nat
BY FS_CardinalityType

-----------------------------------------------------------------------------
(***************************************************************************)
(* Types of the operators the actions are built from.                      *)
(***************************************************************************)
USE DEF Replica, Slot, Ballot

\* Every packet constructor yields a packet.
LEMMA PacketTypes ==
    ASSUME NEW i \in Replica, NEW j \in Replica, NEW b \in Ballot
    PROVE  /\ \A f \in 0..(MaxSlot + 1) : Prepare(i, j, b, f) \in Packet
           /\ \A f \in 0..(MaxSlot + 1) : Fetch(i, j, b, f) \in Packet
           /\ \A R \in SUBSET Record : Accept(i, j, b, R) \in Packet
           /\ \A R \in SUBSET Record : Commit(i, j, b, R) \in Packet
           /\ \A S \in SUBSET Slot : Ack(i, j, b, S) \in Packet
           /\ \A h \in -1..MaxSlot, on \in BOOLEAN : Ready(i, j, b, h, on) \in Packet
           /\ \A r \in Request : Forward(i, j, b, r) \in Packet
BY DEF Prepare, Fetch, Accept, Commit, Ack, Ready, Forward, Packet

\* What can be read off a received packet of each kind.
LEMMA PacketFields ==
    ASSUME NEW m \in Packet
    PROVE  /\ m.from \in Replica /\ m.to \in Replica /\ m.ballot \in Ballot
           /\ m.kind \in {"Prepare", "Fetch"} => m.floor \in 0..(MaxSlot + 1)
           /\ m.kind = "Promise" => m \in PromisePacket
           /\ m.kind \in {"Accept", "Commit"} => m.recs \in SUBSET Record
           /\ m.kind = "Ack" => m.slots \in SUBSET Slot
           /\ m.kind = "Ready" => m.high \in -1..MaxSlot /\ m.on \in BOOLEAN
           /\ m.kind = "Forward" => m.req \in Request
BY DEF Packet, PromisePacket

\* Log operators map sets of records to sets of records.
LEMMA LogTypes ==
    ASSUME NEW L \in SUBSET Record, NEW R \in SUBSET Record, NEW b \in Ballot
    PROVE  /\ Slots(R) \in SUBSET Slot
           /\ Reqs(R) \in SUBSET Command
           /\ Install(L, R) \in SUBSET Record
           /\ Stored(L, R) \in SUBSET Record
           /\ Decide(L, R) \in SUBSET Record
           /\ Stamp(R, b) \in SUBSET Record
           /\ Undecided(R) \in SUBSET Record
           /\ \A s, e : Window(L, s, e) \in SUBSET Record
           /\ \A V, S, e : Chosen(L, V, S, b, e) \in SUBSET L
BY DEF Record, Slots, Reqs, Install, Stored, Decide, Stamp, Undecided, Window, Chosen

LEMMA StampType ==
    ASSUME NEW R \in SUBSET Record, NEW b \in Ballot
    PROVE  Stamp(R, b) \in SUBSET Record
BY DEF Record, Stamp

LEMMA SuffixTypes ==
    ASSUME NEW L \in SUBSET Record, NEW b \in Ballot
    PROVE  \A s, h : /\ Suffix(L, s, h, b) \in SUBSET SUBSET Record
                     /\ OwnSuffix(L, s, h, b) \in SUBSET SUBSET Record
<1> SUFFICES ASSUME NEW s, NEW h
             PROVE  /\ Suffix(L, s, h, b) \in SUBSET SUBSET Record
                    /\ OwnSuffix(L, s, h, b) \in SUBSET SUBSET Record
  OBVIOUS
<1> DEFINE W == Stamp(Window(L, s, SuffixEnd(s, h)), b)
<1>1. Window(L, s, SuffixEnd(s, h)) \in SUBSET Record BY DEF Window
<1>2. W \in SUBSET Record BY <1>1, StampType
<1>3. \A X \in SUBSET Record : Chunks(X, s) \in SUBSET SUBSET Record
  BY DEF Chunks
<1>4. Suffix(L, s, h, b) \in SUBSET SUBSET Record
  BY <1>2, <1>3 DEF Suffix
<1>5. OwnSuffix(L, s, h, b) \in SUBSET SUBSET Record
  BY <1>4, LogTypes DEF OwnSuffix
<1> QED BY <1>4, <1>5

\* What the leader's turn repeats are sets of records.
LEMMA RepeatedType ==
    ASSUME NEW i, ballot[i] \in Ballot, NEW L \in SUBSET Record, NEW h, NEW due
    PROVE  Repeated(i, L, h, due) \in SUBSET SUBSET Record
<1> DEFINE b == ballot[i]
           s == executed[i] + 1
<1>1. b \in Ballot OBVIOUS
<1>2. Repeated(i, L, h, due) \in {OwnSuffix(L, s, h, b), {}} BY DEF Repeated
<1> HIDE DEF b, s
<1>3. OwnSuffix(L, s, h, b) \in SUBSET SUBSET Record BY ONLY <1>1, SuffixTypes
<1> QED BY <1>2, <1>3

LEMMA VoteTypes ==
    ASSUME NEW V \in [Slot -> SUBSET Replica], NEW j \in Replica, NEW S, NEW e, NEW m
    PROVE  /\ Vote(V, S, j, e) \in [Slot -> SUBSET Replica]
           /\ Forget(V, m) \in [Slot -> SUBSET Replica]
BY DEF Vote, Forget

\* A set of records has finitely many pages, numbered by naturals.
LEMMA PageNumbers ==
    ASSUME NEW R \in SUBSET Record
    PROVE  IsFiniteSet({0} \cup {PageOf(r, R) : r \in R}) /\ \A r \in R : PageOf(r, R) \in Nat
<1> DEFINE G == {PageOf(r, R) : r \in R}
           f == [r \in R |-> PageOf(r, R)]
<1>1. IsFiniteSet(R) BY RecordsFinite
<1>2. \A r \in R : PageOf(r, R) \in Nat
  <2> TAKE r \in R
  <2>1. {q \in R : q.slot < r.slot} \in SUBSET R OBVIOUS
  <2>2. Rank(r, R) \in Nat BY <2>1, <1>1, FS_Subset, CardNat DEF Rank
  <2> QED BY <2>2, PageAssumption, DivNat DEF PageOf
<1>3. f \in [R -> G] /\ \A t \in G : \E r \in R : f[r] = t OBVIOUS
<1>4. {0} \cup G = G \cup {0} OBVIOUS
<1> HIDE DEF f, G
<1>5. IsFiniteSet(G) BY <1>1, <1>3, FiniteSurjection
<1>6. IsFiniteSet({0} \cup G) BY <1>4, <1>5, FS_AddElement
<1> QED BY <1>2, <1>6 DEF G

\* The pages of a promise are well formed.
LEMMA SnapshotType ==
    ASSUME TypeOK, NEW i \in Replica, NEW j \in Replica, NEW b \in Ballot,
           NEW floor \in 0..(MaxSlot + 1)
    PROVE  Snapshot(i, j, b, floor) \in SUBSET PromisePacket
<1> DEFINE R == {r \in log[i] : floor <= r.slot /\ r.slot <= high[i]}
           K == {0} \cup {PageOf(r, R) : r \in R}
<1>1. R \in SUBSET Record BY DEF TypeOK
<1>3. \A r \in R : PageOf(r, R) \in Nat
  <2> HIDE DEF R
  <2> QED BY <1>1, PageNumbers
<1>5. IsFiniteSet(K)
  <2> HIDE DEF R
  <2> QED BY <1>1, PageNumbers
<1>6. Cardinality(K) \in Nat BY <1>5, CardNat
<1>7. K \in SUBSET Nat
  <2> HIDE DEF R
  <2> SUFFICES ASSUME NEW k \in K PROVE k \in Nat OBVIOUS
  <2>1. k = 0 \/ \E r \in R : k = PageOf(r, R) OBVIOUS
  <2> QED BY <1>3, <2>1
<1>8. high[i] \in -1..MaxSlot BY DEF TypeOK
<1>9. \A k \in K : {r \in R : PageOf(r, R) = k} \in SUBSET Record BY <1>1
<1>10. Snapshot(i, j, b, floor) =
         {[kind |-> "Promise", from |-> i, to |-> j, ballot |-> b, floor |-> floor,
           high |-> high[i], page |-> k, pages |-> Cardinality(K),
           recs |-> {r \in R : PageOf(r, R) = k}] : k \in K}
  BY DEF Snapshot
<1> HIDE DEF K, R
<1> QED BY <1>6, <1>7, <1>8, <1>9, <1>10 DEF PromisePacket

\* Replies carry executions only.
LEMMA ReplyType ==
    ASSUME NEW V \in SUBSET Execution, NEW r \in Request
    PROVE  Reply(V, r) \in [req : Request, result : SUBSET Execution]
BY DEF Reply, Result

\* apply keeps the types of what it changes.
LEMMA ApplyType ==
    ASSUME TypeOK, NEW i \in Replica, NEW L \in SUBSET Record, Apply(i, L)
    PROVE  /\ executed' \in [Replica -> -1..MaxSlot]
           /\ values' \in [Replica -> SUBSET Execution]
           /\ pending' \in [Replica -> SUBSET Request]
           /\ proposals' \in [Replica -> SUBSET Request]
           /\ replies' \in SUBSET [req : Request, result : SUBSET Execution]
<1> DEFINE X(m) == Executions(L, executed[i], m, Done(i))
<1> PICK m \in executed[i]..MaxSlot :
          /\ executed' = [executed EXCEPT ![i] = m]
          /\ values' = [values EXCEPT ![i] = values[i] \cup X(m)]
          /\ pending' = [pending EXCEPT
               ![i] = @ \ {r.req : r \in Window(L, executed[i] + 1, m)}]
          /\ replies' = replies \cup {Reply(values[i] \cup X(m), r) :
                                        r \in proposals[i] \cap Reqs(X(m))}
          /\ proposals' = [proposals EXCEPT ![i] = @ \ Reqs(X(m))]
  BY DEF Apply
<1>1. m \in -1..MaxSlot BY BoundAssumption DEF TypeOK
<1>2. X(m) \in SUBSET Execution BY DEF Executions, Execution, Record
<1>3. values[i] \cup X(m) \in SUBSET Execution BY <1>2 DEF TypeOK
<1> HIDE DEF X
<1>4. \A r \in proposals[i] :
         Reply(values[i] \cup X(m), r) \in [req : Request, result : SUBSET Execution]
  BY <1>3, ReplyType DEF TypeOK
<1>5. replies' \in SUBSET [req : Request, result : SUBSET Execution]
  <2> DEFINE U == values[i] \cup X(m)
  <2>1. \A r \in proposals[i] : Reply(U, r) \in [req : Request, result : SUBSET Execution]
    BY <1>4
  <2>2. replies' = replies \cup {Reply(U, r) : r \in proposals[i] \cap Reqs(X(m))}
    OBVIOUS
  <2> HIDE DEF U
  <2>3. replies \in SUBSET [req : Request, result : SUBSET Execution] BY DEF TypeOK
  <2> QED BY <2>1, <2>2, <2>3
<1>6. pending' \in [Replica -> SUBSET Request] /\ proposals' \in [Replica -> SUBSET Request]
  BY DEF TypeOK
<1>8. executed' \in [Replica -> -1..MaxSlot] BY <1>1 DEF TypeOK
<1>9. values' \in [Replica -> SUBSET Execution] BY <1>3 DEF TypeOK
<1> QED BY <1>5, <1>6, <1>8, <1>9

-----------------------------------------------------------------------------
(***************************************************************************)
(* TypeOK is preserved, action by action.                                  *)
(***************************************************************************)
\* The variable groups that an action may leave alone.
LEMMA SubmitType ==
    ASSUME TypeOK, NEW i \in Replica, NEW r \in Request, Submit(i, r)
    PROVE  /\ pending' \in [Replica -> SUBSET Request]
           /\ queue' \in [Replica -> Seq(Request)]
<1>1. pending' \in [Replica -> SUBSET Request] BY DEF TypeOK, Submit
<1>2. Append(queue[i], r) \in Seq(Request) BY DEF TypeOK
<1> QED BY <1>1, <1>2 DEF TypeOK, Submit

LEMMA TypePropose ==
    ASSUME TypeOK, NEW i \in Replica, NEW r \in Request, Propose(i, r)
    PROVE  TypeOK'
<1> USE DEF roleVars, logVars, quorumVars, envVars
<1>1. CASE ProposeNew(i, r)
  <2>1. /\ pending' \in [Replica -> SUBSET Request]
        /\ queue' \in [Replica -> Seq(Request)]
    BY <1>1, SubmitType DEF ProposeNew
  <2>2. ForwardOf(i, {r}) \in SUBSET Packet
    <3>1. leader[i] \in Replica /\ ballot[i] \in Ballot BY DEF TypeOK
    <3> QED BY <3>1, PacketTypes DEF ForwardOf
  <2>3. msgs' \in SUBSET Packet
    BY <1>1, <2>2 DEF ProposeNew, Emit, To, TypeOK
  <2>4. proposals' \in [Replica -> SUBSET Request] /\ replies' = replies
    BY <1>1 DEF ProposeNew, TypeOK
  <2> QED BY <2>1, <2>3, <2>4 DEF TypeOK, Propose
<1>2. CASE ProposeExecuted(i, r)
  <2>1. Reply(values[i], r) \in [req : Request, result : SUBSET Execution]
    BY ReplyType DEF TypeOK
  <2>2. replies' \in SUBSET [req : Request, result : SUBSET Execution]
    BY <1>2, <2>1 DEF ProposeExecuted, TypeOK
  <2>3. proposals' \in [Replica -> SUBSET Request]
    BY <1>2 DEF ProposeExecuted, TypeOK
  <2> QED BY <1>2, <2>2, <2>3 DEF TypeOK, Propose, ProposeExecuted
<1> QED BY <1>1, <1>2 DEF Propose

\* What a step puts on the wire are packets.
LEMMA ExchangeType ==
    ASSUME TypeOK, NEW m, NEW out \in SUBSET Packet, Exchange(m, out)
    PROVE  msgs' \in SUBSET Packet
BY DEF TypeOK, Exchange

LEMMA TypeReceiveForward ==
    ASSUME TypeOK, NEW i \in Replica, NEW m \in msgs, ReceiveForward(i, m)
    PROVE  TypeOK'
<1> USE DEF roleVars, logVars, quorumVars, envVars
<1>1. m.req \in Request BY PacketFields DEF TypeOK, ReceiveForward
<1>2. msgs' \in SUBSET Packet BY ExchangeType DEF ReceiveForward
<1>3. CASE m.req \in Done(i)
  <2>1. Reply(values[i], m.req) \in [req : Request, result : SUBSET Execution]
    BY <1>1, ReplyType DEF TypeOK
  <2>2. replies' \in SUBSET [req : Request, result : SUBSET Execution]
    BY <1>3, <2>1 DEF ReceiveForward, TypeOK
  <2>3. /\ proposals \in [Replica -> SUBSET Request]
        /\ proposals' = [proposals EXCEPT ![i] = @ \ {m.req}]
    BY <1>3 DEF ReceiveForward, TypeOK
  <2>4. proposals' \in [Replica -> SUBSET Request] BY <2>3
  <2> QED BY <1>2, <1>3, <2>2, <2>4 DEF TypeOK, ReceiveForward
<1>4. CASE m.req \notin Done(i)
  <2>1. /\ pending' \in [Replica -> SUBSET Request]
        /\ queue' \in [Replica -> Seq(Request)]
    BY <1>1, <1>4, SubmitType DEF ReceiveForward
  <2> QED BY <1>2, <1>4, <2>1 DEF TypeOK, ReceiveForward
<1> QED BY <1>3, <1>4

\* The first slot a replica has not executed, as a floor in its packets.
LEMMA FloorType ==
    ASSUME TypeOK, NEW i \in Replica
    PROVE  executed[i] + 1 \in 0..(MaxSlot + 1)
<1>1. executed[i] \in -1..MaxSlot BY DEF TypeOK
<1> QED BY <1>1, BoundAssumption

LEMMA TypeReceiveAccept ==
    ASSUME TypeOK, NEW i \in Replica, NEW m \in msgs, NEW fetch \in BOOLEAN,
           ReceiveAccept(i, m, fetch)
    PROVE  TypeOK'
<1> USE DEF roleVars, clientVars, quorumVars, envVars
<1> DEFINE R == Stamp(m.recs, m.ballot)
<1>1. m \in Packet /\ m.kind = "Accept" BY DEF TypeOK, ReceiveAccept
<1>2. m.recs \in SUBSET Record /\ m.ballot \in Ballot BY <1>1, PacketFields
<1>3. R \in SUBSET Record BY <1>2, StampType
<1>4. log[i] \in SUBSET Record BY DEF TypeOK
<1>5. /\ log' = [log EXCEPT ![i] = Install(@, R)]
      /\ assigned' = [assigned EXCEPT ![i] = @ \cup Reqs(Stored(log[i], R))]
      /\ \E h \in Slot : high' = [high EXCEPT ![i] = h]
      /\ Exchange(m, To(i, leader[i], {Ack(i, leader[i], ballot[i], Slots(R))})
                       \cup IF fetch THEN FetchFrom(i) ELSE {})
  BY DEF ReceiveAccept
<1> HIDE DEF R
<1>6. Install(log[i], R) \in SUBSET Record BY <1>2, <1>3, <1>4, LogTypes
<1>7. Reqs(Stored(log[i], R)) \in SUBSET Command
  BY <1>3, <1>4 DEF Stored, Reqs, Record
<1>8. Ack(i, leader[i], ballot[i], Slots(R)) \in Packet
  <2>1. leader[i] \in Replica /\ ballot[i] \in Ballot BY DEF TypeOK
  <2>2. Slots(R) \in SUBSET Slot BY <1>3 DEF Slots, Record
  <2> QED BY <2>1, <2>2, PacketTypes
<1>9. FetchFrom(i) \in SUBSET Packet
  <2>1. executed[i] + 1 \in 0..(MaxSlot + 1) BY FloorType
  <2>2. leader[i] \in Replica /\ ballot[i] \in Ballot BY DEF TypeOK
  <2> QED BY <2>1, <2>2, PacketTypes DEF FetchFrom, To
<1>10. msgs' \in SUBSET Packet BY <1>5, <1>8, <1>9, ExchangeType DEF To
<1>11. log' \in [Replica -> SUBSET Record] BY <1>5, <1>6 DEF TypeOK
<1>12. assigned' \in [Replica -> SUBSET Command] BY <1>5, <1>7 DEF TypeOK
<1>13. high' \in [Replica -> -1..MaxSlot] BY <1>5 DEF TypeOK
<1> QED BY <1>10, <1>11, <1>12, <1>13 DEF TypeOK, ReceiveAccept

LEMMA TypeReceiveCommit ==
    ASSUME TypeOK, NEW i \in Replica, NEW m \in msgs, ReceiveCommit(i, m)
    PROVE  TypeOK'
<1> USE DEF roleVars, envVars
<1> DEFINE L == Install(log[i], m.recs)
           L1 == Decide(L, {r \in L : r.slot \in Slots(m.recs)})
<1>1. m \in Packet /\ m.kind = "Commit" BY DEF TypeOK, ReceiveCommit
<1>2. m.recs \in SUBSET Record BY <1>1, PacketFields
<1>3. log[i] \in SUBSET Record /\ InitLeader \in Ballot
  BY BoundAssumption, LeaderAssumption DEF TypeOK
<1>4. L \in SUBSET Record BY <1>2, <1>3, LogTypes
<1>5. L1 \in SUBSET Record
  <2> HIDE DEF L
  <2>1. {r \in L : r.slot \in Slots(m.recs)} \in SUBSET Record BY <1>4
  <2> QED BY <1>3, <1>4, <2>1, LogTypes
<1>6. /\ log' = [log EXCEPT ![i] = L1]
      /\ assigned' = [assigned EXCEPT ![i] = @ \cup Reqs(Stored(log[i], m.recs))]
      /\ \E h \in Slot : high' = [high EXCEPT ![i] = h]
      /\ Apply(i, L1)
  BY DEF ReceiveCommit
<1> HIDE DEF L, L1
<1>7. Reqs(Stored(log[i], m.recs)) \in SUBSET Command
  BY <1>2, <1>3 DEF Stored, Reqs, Record
<1>8. log' \in [Replica -> SUBSET Record] BY <1>5, <1>6 DEF TypeOK
<1>9. assigned' \in [Replica -> SUBSET Command] BY <1>6, <1>7 DEF TypeOK
<1>10. high' \in [Replica -> -1..MaxSlot] BY <1>6 DEF TypeOK
<1>11. /\ executed' \in [Replica -> -1..MaxSlot]
       /\ values' \in [Replica -> SUBSET Execution]
       /\ pending' \in [Replica -> SUBSET Request]
       /\ proposals' \in [Replica -> SUBSET Request]
       /\ replies' \in SUBSET [req : Request, result : SUBSET Execution]
  BY <1>5, <1>6, ApplyType
<1>12. votes' \in [Replica -> [Slot -> SUBSET Replica]]
  BY VoteTypes DEF TypeOK, ReceiveCommit
<1>13. msgs' \in SUBSET Packet BY ExchangeType DEF ReceiveCommit
<1> QED BY <1>8, <1>9, <1>10, <1>11, <1>12, <1>13 DEF TypeOK, ReceiveCommit

LEMMA TypeReceiveReady ==
    ASSUME TypeOK, NEW i \in Replica, NEW m \in msgs, NEW fetch \in BOOLEAN,
           ReceiveReady(i, m, fetch)
    PROVE  TypeOK'
<1> USE DEF logVars, envVars
<1>1. m \in Packet /\ m.kind = "Ready" BY DEF TypeOK, ReceiveReady
<1>2. /\ m.from \in Replica /\ m.ballot \in Ballot
      /\ m.high \in -1..MaxSlot /\ m.on \in BOOLEAN
  BY <1>1, PacketFields
<1>3. executed[i] + 1 \in 0..(MaxSlot + 1) BY FloorType
<1>4. Fetch(i, m.from, m.ballot, executed[i] + 1) \in Packet BY <1>2, <1>3, PacketTypes
<1>5. msgs' \in SUBSET Packet BY <1>4, ExchangeType DEF ReceiveReady, To
<1>6. ballot' \in [Replica -> Ballot] /\ leader' \in [Replica -> Replica]
  BY <1>2 DEF TypeOK, ReceiveReady
<1>7. active' \in [Replica -> BOOLEAN] /\ preparing' \in [Replica -> BOOLEAN]
  BY <1>2 DEF TypeOK, ReceiveReady
<1>8. resume' \in [Replica -> SUBSET Request] BY DEF TypeOK, ReceiveReady
<1>9. votes' \in [Replica -> [Slot -> SUBSET Replica]] BY DEF TypeOK, ReceiveReady
<1> QED BY <1>5, <1>6, <1>7, <1>8, <1>9 DEF TypeOK, ReceiveReady

\* Broadcasts put packets on the wire.
LEMMA AcceptAllType ==
    ASSUME TypeOK, NEW i \in Replica, NEW W \in SUBSET SUBSET Record
    PROVE  AcceptAll(i, W) \in SUBSET Packet /\ CommitAll(i, W) \in SUBSET Packet
<1>1. \A j \in Peers(i) : j \in Replica BY DEF Peers, TypeOK
<1>2. ballot[i] \in Ballot BY DEF TypeOK
<1>3. \A j \in Peers(i), R \in W :
         Accept(i, j, ballot[i], R) \in Packet /\ Commit(i, j, ballot[i], R) \in Packet
  BY <1>1, <1>2, PacketTypes
<1> QED BY <1>3 DEF AcceptAll, CommitAll

LEMMA ReadyAllType ==
    ASSUME TypeOK, NEW i \in Replica
    PROVE  ReadyAll(i, TRUE) \in SUBSET Packet /\ ReadyAll(i, FALSE) \in SUBSET Packet
<1>1. \A j \in Peers(i) : j \in Replica BY DEF Peers, TypeOK
<1>2. ballot[i] \in Ballot /\ executed[i] \in -1..MaxSlot BY DEF TypeOK
<1>3. \A j \in Peers(i) : Ready(i, j, ballot[i], executed[i], TRUE) \in Packet
  BY <1>1, <1>2 DEF Ready, Packet
<1>4. \A j \in Peers(i) : Ready(i, j, ballot[i], executed[i], FALSE) \in Packet
  BY <1>1, <1>2 DEF Ready, Packet
<1> QED BY <1>3, <1>4 DEF ReadyAll

\* Counting an acknowledgement keeps the types of what it changes.
LEMMA WinsType ==
    ASSUME TypeOK, NEW i \in Replica, NEW j \in Replica, NEW L \in SUBSET Record, NEW S
    PROVE  /\ Wins(i, j, L, S) \in SUBSET Record
           /\ Wins(i, j, L, S) \in SUBSET L
           /\ Decide(Wins(i, j, L, S), Wins(i, j, L, S)) \in SUBSET Record
           /\ Decide(L, Wins(i, j, L, S)) \in SUBSET Record
<1>1. Wins(i, j, L, S) \in SUBSET L BY DEF Wins, Chosen
<1>2. ballot[i] \in Ballot BY DEF TypeOK
<1>3. \A C \in SUBSET L : Decide(C, C) \in SUBSET Record /\ Decide(L, C) \in SUBSET Record
  BY <1>2, LogTypes
<1> QED BY <1>1, <1>3

LEMMA CountAckType ==
    ASSUME TypeOK, NEW i \in Replica, NEW j \in Replica, NEW L \in SUBSET Record, NEW S,
           CountAck(i, j, L, S)
    PROVE  /\ log' \in [Replica -> SUBSET Record]
           /\ executed' \in [Replica -> -1..MaxSlot]
           /\ values' \in [Replica -> SUBSET Execution]
           /\ pending' \in [Replica -> SUBSET Request]
           /\ proposals' \in [Replica -> SUBSET Request]
           /\ replies' \in SUBSET [req : Request, result : SUBSET Execution]
           /\ votes' \in [Replica -> [Slot -> SUBSET Replica]]
<1> DEFINE V == Vote(votes[i], S, j, executed[i])
           L1 == Decide(L, Wins(i, j, L, S))
<1>1. L1 \in SUBSET Record BY WinsType
<1>2. V \in [Slot -> SUBSET Replica] BY VoteTypes DEF TypeOK
<1>3. /\ log' = [log EXCEPT ![i] = L1]
      /\ Apply(i, L1)
      /\ votes' = [votes EXCEPT ![i] = Forget(V, executed'[i])]
  BY DEF CountAck
<1> HIDE DEF V, L1
<1>4. Forget(V, executed'[i]) \in [Slot -> SUBSET Replica] BY <1>2, VoteTypes
<1>5. votes' \in [Replica -> [Slot -> SUBSET Replica]] BY <1>3, <1>4 DEF TypeOK
<1>6. log' \in [Replica -> SUBSET Record] BY <1>1, <1>3 DEF TypeOK
<1> QED BY <1>1, <1>3, <1>5, <1>6, ApplyType

LEMMA TypeReceiveAck ==
    ASSUME TypeOK, NEW i \in Replica, NEW m \in msgs, ReceiveAck(i, m)
    PROVE  TypeOK'
<1> USE DEF roleVars, envVars
<1> DEFINE C == Wins(i, m.from, log[i], m.slots)
<1>1. m.from \in Replica BY PacketFields DEF TypeOK
<1>2. log[i] \in SUBSET Record BY DEF TypeOK
<1>3. Decide(C, C) \in SUBSET Record BY <1>1, <1>2, WinsType
<1>4. Exchange(m, CommitAll(i, {Decide(C, C)} \ {{}})) BY DEF ReceiveAck
<1> HIDE DEF C
<1>5. {Decide(C, C)} \ {{}} \in SUBSET SUBSET Record BY <1>3
<1>6. msgs' \in SUBSET Packet BY <1>4, <1>5, AcceptAllType, ExchangeType
<1>7. CountAck(i, m.from, log[i], m.slots) BY DEF ReceiveAck
<1>8. /\ log' \in [Replica -> SUBSET Record]
      /\ executed' \in [Replica -> -1..MaxSlot]
      /\ values' \in [Replica -> SUBSET Execution]
      /\ pending' \in [Replica -> SUBSET Request]
      /\ proposals' \in [Replica -> SUBSET Request]
      /\ replies' \in SUBSET [req : Request, result : SUBSET Execution]
      /\ votes' \in [Replica -> [Slot -> SUBSET Replica]]
  BY ONLY TypeOK, i \in Replica, <1>1, <1>2, <1>7, CountAckType, Zenon
<1> QED BY <1>6, <1>8 DEF TypeOK, ReceiveAck

LEMMA TypeReceiveFetch ==
    ASSUME TypeOK, NEW i \in Replica, NEW m \in msgs, ReceiveFetch(i, m)
    PROVE  TypeOK'
<1> USE DEF roleVars, logVars, clientVars, quorumVars, envVars
<1> DEFINE W == Suffix(log[i], m.floor, high[i], ballot[i])
           D == {{r \in R : r.committed} : R \in W} \ {{}}
           out == {Accept(i, m.from, ballot[i], R) : R \in W}
                    \cup {Commit(i, m.from, ballot[i], R) : R \in D}
<1>1. m.from \in Replica /\ ballot[i] \in Ballot /\ log[i] \in SUBSET Record
  BY PacketFields DEF TypeOK
<1>2. W \in SUBSET SUBSET Record
  <2>1. \A s, h : Suffix(log[i], s, h, ballot[i]) \in SUBSET SUBSET Record
    BY ONLY <1>1, SuffixTypes, Zenon
  <2> QED BY <2>1
<1>3. Exchange(m, To(i, m.from, out)) BY DEF ReceiveFetch
<1> HIDE DEF W
<1>4. D \in SUBSET SUBSET Record
  <2> SUFFICES ASSUME NEW X \in D PROVE X \in SUBSET Record OBVIOUS
  <2> PICK R \in W : X = {r \in R : r.committed} OBVIOUS
  <2> QED BY <1>2
<1> HIDE DEF D
<1>5. out \in SUBSET Packet BY <1>1, <1>2, <1>4, PacketTypes
<1> HIDE DEF out
<1>6. msgs' \in SUBSET Packet BY <1>3, <1>5, ExchangeType DEF To
<1> QED BY <1>6 DEF TypeOK, ReceiveFetch

LEMMA PromiseInPacket == PromisePacket \subseteq Packet
BY DEF Packet

LEMMA TypeReceivePrepare ==
    ASSUME TypeOK, NEW i \in Replica, NEW m \in msgs, ReceivePrepare(i, m)
    PROVE  TypeOK'
<1> USE DEF logVars, clientVars, envVars
<1>1. m \in Packet /\ m.kind = "Prepare" BY DEF TypeOK, ReceivePrepare
<1>2. m.from \in Replica /\ m.ballot \in Ballot /\ m.floor \in 0..(MaxSlot + 1)
  BY <1>1, PacketFields
<1>3. PromiseTo(i, m) \in SUBSET PromisePacket
  BY <1>2, SnapshotType DEF PromiseTo, TypeOK
<1>4. msgs' \in SUBSET Packet
  BY <1>3, PromiseInPacket, ExchangeType DEF ReceivePrepare, To
<1>5. frozen' \in [Replica -> SUBSET PromisePacket]
  BY <1>3 DEF TypeOK, ReceivePrepare
<1>6. ballot' \in [Replica -> Ballot] /\ leader' \in [Replica -> Replica]
  BY <1>2 DEF TypeOK, ReceivePrepare
<1>7. active' \in [Replica -> BOOLEAN] /\ preparing' \in [Replica -> BOOLEAN]
  BY DEF TypeOK, ReceivePrepare
<1>8. votes' \in [Replica -> [Slot -> SUBSET Replica]]
  BY DEF TypeOK, ReceivePrepare
<1> QED BY <1>4, <1>5, <1>6, <1>7, <1>8 DEF TypeOK, ReceivePrepare

LEMMA PrepareAllType ==
    ASSUME TypeOK, NEW i \in Replica, NEW b \in Ballot
    PROVE  PrepareAll(i, b) \in SUBSET Packet
<1>1. executed[i] + 1 \in 0..(MaxSlot + 1) BY FloorType
<1>2. Peers(i) \in SUBSET Replica BY DEF Peers, TypeOK
<1> QED BY <1>1, <1>2, PacketTypes DEF PrepareAll

LEMMA TypeTickBegin ==
    ASSUME TypeOK, NEW i \in Replica, TickBegin(i)
    PROVE  TypeOK'
<1> USE DEF logVars, clientVars, envVars
<1>1. NextBallot(i) \in Ballot
  <2>1. ballot[i] \in Nat /\ N \in Nat \ {0} /\ i \in Nat
    BY NAssumption, BoundAssumption DEF TypeOK
  <2>2. ballot[i] \div N \in Nat BY <2>1, DivNat
  <2>3. (ballot[i] \div N + 1) * N \in Nat BY <2>1, <2>2
  <2>4. NextBallot(i) \in Nat BY <2>1, <2>3 DEF NextBallot
  <2> QED BY <2>4, BoundAssumption DEF TickBegin
<1> DEFINE own == Snapshot(i, i, NextBallot(i), executed[i] + 1)
<1>2. own \in SUBSET PromisePacket BY <1>1, FloorType, SnapshotType
<1>3. frozen' = [frozen EXCEPT ![i] = own] /\ pages' = [pages EXCEPT ![i] = own]
  BY DEF TickBegin
<1> HIDE DEF own
<1>4. /\ frozen' \in [Replica -> SUBSET PromisePacket]
      /\ pages' \in [Replica -> SUBSET PromisePacket]
  BY <1>2, <1>3 DEF TypeOK
<1>5. msgs' \in SUBSET Packet BY <1>1, PrepareAllType DEF TickBegin, Emit, TypeOK
<1>6. ballot' \in [Replica -> Ballot] BY <1>1 DEF TickBegin, TypeOK
<1>7. /\ leader' \in [Replica -> Replica]
      /\ active' \in [Replica -> BOOLEAN]
      /\ preparing' \in [Replica -> BOOLEAN]
      /\ votes' \in [Replica -> [Slot -> SUBSET Replica]]
      /\ promises' \in [Replica -> SUBSET Replica]
  BY DEF TickBegin, TypeOK
<1> QED BY <1>4, <1>5, <1>6, <1>7 DEF TickBegin, TypeOK

LEMMA TypeTickPrepare ==
    ASSUME TypeOK, NEW i \in Replica, TickPrepare(i)
    PROVE  TypeOK'
<1>1. ballot[i] \in Ballot BY DEF TypeOK
<1>2. msgs' \in SUBSET Packet BY <1>1, PrepareAllType DEF TickPrepare, Emit, TypeOK
<1> QED BY <1>2 DEF TickPrepare, TypeOK, roleVars, logVars, clientVars, quorumVars, envVars

LEMMA PagesWithType ==
    ASSUME TypeOK, NEW i \in Replica, NEW m \in msgs, PromiseExpected(i, m)
    PROVE  /\ m \in PromisePacket
           /\ PagesWith(i, m) \in SUBSET PromisePacket
           /\ m.from \in Replica
<1>1. m \in PromisePacket /\ m.from \in Replica
  BY PacketFields DEF TypeOK, PromiseExpected
<1> QED BY <1>1 DEF PagesWith, TypeOK

LEMMA TypeCollectPromise ==
    ASSUME TypeOK, NEW i \in Replica, NEW m \in msgs, CollectPromise(i, m)
    PROVE  TypeOK'
<1>1. PagesWith(i, m) \in SUBSET PromisePacket /\ m.from \in Replica
  BY PagesWithType DEF CollectPromise
<1>2. pages' \in [Replica -> SUBSET PromisePacket] BY <1>1 DEF CollectPromise, TypeOK
<1>3. promises' \in [Replica -> SUBSET Replica] BY <1>1 DEF CollectPromise, TypeOK
<1>4. msgs' \in SUBSET Packet BY ExchangeType DEF CollectPromise
<1> QED BY <1>2, <1>3, <1>4 DEF CollectPromise, TypeOK, roleVars, logVars, clientVars, envVars

LEMMA TypeTakeOver ==
    ASSUME TypeOK, NEW i \in Replica, NEW m \in msgs, TakeOver(i, m)
    PROVE  TypeOK'
<1> USE DEF envVars
<1>1. PagesWith(i, m) \in SUBSET PromisePacket /\ m.from \in Replica
  BY PagesWithType DEF TakeOver
<1> DEFINE P == {p \in PagesWith(i, m) : p.from \in promises[i] \cup {m.from}}
           e == executed[i]
           b == ballot[i]
           Z(h, sel) == {[slot |-> s, ballot |-> b, req |-> sel[s], committed |-> FALSE] :
                           s \in (e + 1)..h}
           L(h, sel) == {r \in log[i] : r.slot <= e \/ r.slot > h} \cup Z(h, sel)
           W(h, sel) == OwnSuffix(L(h, sel), e + 1, h, b)
<1>2. e \in -1..MaxSlot /\ b \in Ballot /\ log[i] \in SUBSET Record BY DEF TypeOK
<1> DEFINE Step(h, sel) ==
         /\ log' = [log EXCEPT ![i] = Install(L(h, sel), UNION W(h, sel))]
         /\ high' = [high EXCEPT ![i] = h]
         /\ assigned' = [assigned EXCEPT
              ![i] = Reqs({r \in log[i] : r.slot <= e}) \cup Reqs(Z(h, sel))]
         /\ recoveryEnd' = [recoveryEnd EXCEPT ![i] = h]
         /\ votes' = [votes EXCEPT
              ![i] = Vote([s \in Slot |-> {}], Slots(UNION W(h, sel)), i, e)]
         /\ active' = [active EXCEPT ![i] = Recovered(e, h)]
         /\ resume' = IF Recovered(e, h) THEN [resume EXCEPT ![i] = pending[i]] ELSE resume
         /\ Exchange(m, AcceptAll(i, W(h, sel))
                \cup IF Recovered(e, h) THEN ReadyAll(i, TRUE) ELSE {})
<1>20. PICK h \in {e} \cup {p.high : p \in P} :
         \E sel \in [(e + 1)..h -> Command] : Step(h, sel)
  BY DEF TakeOver
<1>21. PICK sel \in [(e + 1)..h -> Command] : Step(h, sel)
  BY <1>20
<1>3. Step(h, sel) BY <1>21
<1>4. h \in -1..MaxSlot
  <2>1. \A p \in P : p.high \in -1..MaxSlot BY <1>1 DEF PromisePacket
  <2> QED BY <1>2, <2>1
<1>5. Z(h, sel) \in SUBSET Record
  <2> SUFFICES ASSUME NEW s \in (e + 1)..h
               PROVE  [slot |-> s, ballot |-> b, req |-> sel[s], committed |-> FALSE] \in Record
    OBVIOUS
  <2>1. s \in Slot /\ sel[s] \in Command BY <1>2, <1>4, BoundAssumption
  <2> QED BY <1>2, <2>1 DEF Record
<1> HIDE DEF Z, e, b
<1>6. L(h, sel) \in SUBSET Record BY <1>2, <1>5
<1> HIDE DEF L
<1>7. W(h, sel) \in SUBSET SUBSET Record
  <2>1. \A s, k : OwnSuffix(L(h, sel), s, k, b) \in SUBSET SUBSET Record
    BY ONLY <1>2, <1>6, SuffixTypes, Zenon
  <2> QED BY <2>1
<1> HIDE DEF W
<1>8. UNION W(h, sel) \in SUBSET Record BY <1>7
<1>9. log' \in [Replica -> SUBSET Record]
  <2>1. Install(L(h, sel), UNION W(h, sel)) \in SUBSET Record
    BY <1>2, <1>6, <1>8, LogTypes
  <2> QED BY <1>3, <2>1 DEF TypeOK
<1>10. assigned' \in [Replica -> SUBSET Command]
  <2>1. Reqs(Z(h, sel)) \in SUBSET Command BY <1>5 DEF Reqs, Record
  <2>2. Reqs({r \in log[i] : r.slot <= e}) \in SUBSET Command
    BY <1>2 DEF Reqs, Record
  <2> QED BY <1>3, <2>1, <2>2 DEF TypeOK
<1>11. high' \in [Replica -> -1..MaxSlot] /\ recoveryEnd' \in [Replica -> -1..MaxSlot]
  BY <1>3, <1>4 DEF TypeOK
<1>12. votes' \in [Replica -> [Slot -> SUBSET Replica]]
  <2>1. Vote([s \in Slot |-> {}], Slots(UNION W(h, sel)), i, e) \in [Slot -> SUBSET Replica]
    BY DEF Vote
  <2> QED BY <1>3, <2>1 DEF TypeOK
<1>13. active' \in [Replica -> BOOLEAN] BY <1>3 DEF TypeOK, Recovered
<1>14. resume' \in [Replica -> SUBSET Request] BY <1>3 DEF TypeOK
<1>15. msgs' \in SUBSET Packet
  <2>1. AcceptAll(i, W(h, sel)) \in SUBSET Packet
    BY <1>2, <1>7, AcceptAllType
  <2>2. ReadyAll(i, TRUE) \in SUBSET Packet
    BY <1>2, ReadyAllType
  <2> QED BY <1>3, <2>1, <2>2, ExchangeType
<1>16. pages' \in [Replica -> SUBSET PromisePacket] BY <1>1 DEF TakeOver, TypeOK
<1>17. promises' \in [Replica -> SUBSET Replica]
  <2>1. promises' = [promises EXCEPT ![i] = @ \cup {m.from}] BY DEF TakeOver
  <2> QED BY <1>1, <2>1 DEF TypeOK
<1>18. preparing' \in [Replica -> BOOLEAN] BY DEF TakeOver, TypeOK
<1> QED BY <1>9, <1>10, <1>11, <1>12, <1>13, <1>14, <1>15, <1>16, <1>17, <1>18
        DEF TakeOver, TypeOK

LEMMA TypeTickFollower ==
    ASSUME TypeOK, NEW i \in Replica, TickFollower(i)
    PROVE  TypeOK'
<1>1. leader[i] \in Replica /\ ballot[i] \in Ballot BY DEF TypeOK
<1>2. \A R \in SUBSET Request : ForwardOf(i, R) \in SUBSET Packet
  BY <1>1, PacketTypes DEF ForwardOf
<1>3. PICK D \in SUBSET resume[i] :
         /\ resume' = [resume EXCEPT ![i] = @ \ D]
         /\ Emit(To(i, leader[i], ForwardOf(i, D \cap pending[i])))
  BY DEF TickFollower
<1>4. D \cap pending[i] \in SUBSET Request BY DEF TypeOK
<1>5. msgs' \in SUBSET Packet BY <1>2, <1>3, <1>4 DEF Emit, To, TypeOK
<1>6. resume' \in [Replica -> SUBSET Request] BY <1>3 DEF TypeOK
<1> QED BY <1>5, <1>6 DEF TickFollower, TypeOK, roleVars, logVars, quorumVars, envVars

\* An ordering of a set of requests is a sequence of requests.
LEMMA OrdersType ==
    ASSUME NEW S \in SUBSET Request, NEW f \in Orders(S)
    PROVE  f \in Seq(Request)
<1>1. IsFiniteSet(S) BY RequestAssumption, FS_Subset
<1>2. Cardinality(S) \in Nat BY <1>1, CardNat
<1>3. f \in [1..Cardinality(S) -> S] BY DEF Orders
<1> QED BY <1>2, <1>3

\* The position of an element in a finite set of numbers is at least 1.
LEMMA OrdinalType ==
    ASSUME NEW K \in SUBSET Nat, IsFiniteSet(K), NEW k \in K
    PROVE  OrdinalIn(k, K) \in Nat \ {0}
<1> DEFINE S == {j \in K : j <= k}
<1>1. IsFiniteSet(S) BY FS_Subset
<1>2. Cardinality(S) \in Nat BY <1>1, CardNat
<1>3. k \in S OBVIOUS
<1>4. Cardinality(S) # 0 BY <1>1, <1>3, FS_EmptySet
<1> QED BY <1>2, <1>4 DEF OrdinalIn

\* flush creates well-formed records.
LEMMA AdmitType ==
    ASSUME TypeOK, NEW i \in Replica, NEW q \in Seq(Request)
    PROVE  Admit(i, q) \in SUBSET Record
<1> SUFFICES ASSUME NEW k \in Admitted(i, q)
             PROVE  [slot |-> high[i] + OrdinalIn(k, Eligible(i, q)),
                     ballot |-> ballot[i], req |-> q[k], committed |-> FALSE] \in Record
  BY DEF Admit
<1> DEFINE E == Eligible(i, q)
<1>1. E \in SUBSET DOMAIN q BY DEF Eligible
<1>2. DOMAIN q = 1..Len(q) /\ Len(q) \in Nat OBVIOUS
<1>3. IsFiniteSet(E)
  <2>1. IsFiniteSet(1..Len(q)) BY <1>2, FS_Interval
  <2> QED BY <1>1, <1>2, <2>1, FS_Subset
<1>4. k \in E /\ high[i] + OrdinalIn(k, E) <= MaxSlot BY DEF Admitted
<1> HIDE DEF E
<1>5. E \in SUBSET Nat BY <1>1, <1>2
<1>6. OrdinalIn(k, E) \in Nat \ {0} BY <1>3, <1>4, <1>5, OrdinalType
<1>7. high[i] \in -1..MaxSlot /\ ballot[i] \in Ballot BY DEF TypeOK
<1>8. high[i] + OrdinalIn(k, E) \in Slot BY <1>4, <1>6, <1>7, BoundAssumption
<1>9. q[k] \in Command BY <1>1, <1>2, <1>4 DEF Command
<1> USE DEF E
<1> QED BY <1>7, <1>8, <1>9 DEF Record

LEMMA TypeLeaderTurn ==
    ASSUME TypeOK, NEW i \in Replica, NEW due \in BOOLEAN, NEW q \in Seq(Request),
           NEW h \in -1..MaxSlot, LeaderTurn(i, due, q, h)
    PROVE  /\ log' \in [Replica -> SUBSET Record]
           /\ executed' \in [Replica -> -1..MaxSlot]
           /\ values' \in [Replica -> SUBSET Execution]
           /\ pending' \in [Replica -> SUBSET Request]
           /\ proposals' \in [Replica -> SUBSET Request]
           /\ replies' \in SUBSET [req : Request, result : SUBSET Execution]
           /\ votes' \in [Replica -> [Slot -> SUBSET Replica]]
           /\ assigned' \in [Replica -> SUBSET Command]
           /\ high' \in [Replica -> -1..MaxSlot]
           /\ queue' \in [Replica -> Seq(Request)]
           /\ msgs' \in SUBSET Packet
<1> DEFINE F == Flushed(i, q)
           L == Install(log[i], F)
           W == Repeated(i, L, h, due)
           S == Slots(F) \cup Slots(UNION W)
           L2 == Install(L, UNION W)
           C == Wins(i, i, L2, S)
           Cs == {{r \in Decide(C, C) : r.slot \in Slots(R)} : R \in W} \ {{}}
<1>1. /\ CountAck(i, i, L2, S)
      /\ assigned' = [assigned EXCEPT ![i] = @ \cup Reqs(F) \cup Reqs(Stored(L, UNION W))]
      /\ high' = [high EXCEPT ![i] = h]
      /\ \E n \in 0..Len(q) : queue' = [queue EXCEPT ![i] = SubSeq(q, n + 1, Len(q))]
      /\ Emit((IF Wakes(i) THEN ReadyAll(i, TRUE) ELSE {})
                  \cup AcceptAll(i, {F} \ {{}})
                  \cup (IF due THEN ReadyAll(i, Serves(i)) ELSE {})
                  \cup AcceptAll(i, W)
                  \cup CommitAll(i, Cs))
  BY DEF LeaderTurn
<1>2. ballot[i] \in Ballot /\ executed[i] \in -1..MaxSlot /\ log[i] \in SUBSET Record
  BY DEF TypeOK
<1>3. F \in SUBSET Record BY AdmitType DEF Flushed
<1> HIDE DEF F
<1>4. L \in SUBSET Record BY <1>2, <1>3, LogTypes
<1> HIDE DEF L
<1>5. W \in SUBSET SUBSET Record BY <1>2, <1>4, RepeatedType
<1> HIDE DEF W
<1>6. UNION W \in SUBSET Record BY <1>5
<1>7. L2 \in SUBSET Record BY <1>2, <1>4, <1>6, LogTypes
<1> HIDE DEF L2, S
<1>8. Decide(C, C) \in SUBSET Record
  BY ONLY TypeOK, i \in Replica, <1>7, WinsType, Zenon
<1> HIDE DEF C
<1>9. Cs \in SUBSET SUBSET Record
  <2> SUFFICES ASSUME NEW X \in Cs PROVE X \in SUBSET Record OBVIOUS
  <2> PICK R \in W : X = {r \in Decide(C, C) : r.slot \in Slots(R)} OBVIOUS
  <2> QED BY <1>8
<1> HIDE DEF Cs
<1>10. msgs' \in SUBSET Packet
  <2>1. ReadyAll(i, TRUE) \in SUBSET Packet /\ ReadyAll(i, FALSE) \in SUBSET Packet
    BY ReadyAllType
  <2>2. Serves(i) = TRUE \/ Serves(i) = FALSE BY DEF TypeOK, Serves, Wakes, Recovered
  <2>3. ReadyAll(i, Serves(i)) \in SUBSET Packet BY <2>1, <2>2
  <2>4. {F} \ {{}} \in SUBSET SUBSET Record BY <1>3
  <2>5. AcceptAll(i, {F} \ {{}}) \in SUBSET Packet BY <2>4, AcceptAllType
  <2>6. AcceptAll(i, W) \in SUBSET Packet BY <1>5, AcceptAllType
  <2>7. CommitAll(i, Cs) \in SUBSET Packet BY <1>9, AcceptAllType
  <2>8. msgs \in SUBSET Packet BY DEF TypeOK
  <2> QED BY <1>1, <2>1, <2>3, <2>5, <2>6, <2>7, <2>8 DEF Emit
<1>11. /\ log' \in [Replica -> SUBSET Record]
       /\ executed' \in [Replica -> -1..MaxSlot]
       /\ values' \in [Replica -> SUBSET Execution]
       /\ pending' \in [Replica -> SUBSET Request]
       /\ proposals' \in [Replica -> SUBSET Request]
       /\ replies' \in SUBSET [req : Request, result : SUBSET Execution]
       /\ votes' \in [Replica -> [Slot -> SUBSET Replica]]
  BY ONLY TypeOK, i \in Replica, <1>1, <1>7, CountAckType, Zenon
<1>12. assigned' \in [Replica -> SUBSET Command]
  <2>1. Reqs(F) \in SUBSET Command BY <1>3 DEF Reqs, Record
  <2>2. Reqs(Stored(L, UNION W)) \in SUBSET Command BY <1>6 DEF Stored, Reqs, Record
  <2> QED BY <1>1, <2>1, <2>2 DEF TypeOK
<1>13. high' \in [Replica -> -1..MaxSlot] BY <1>1 DEF TypeOK
<1>14. queue' \in [Replica -> Seq(Request)]
  <2>1. \A n \in 0..Len(q) : SubSeq(q, n + 1, Len(q)) \in Seq(Request) OBVIOUS
  <2> QED BY <1>1, <2>1 DEF TypeOK
<1> QED BY <1>10, <1>11, <1>12, <1>13, <1>14

LEMMA TypeTickLeader ==
    ASSUME TypeOK, NEW i \in Replica, NEW due \in BOOLEAN, TickLeader(i, due)
    PROVE  TypeOK'
<1> DEFINE T(D) == {r \in D \cap pending[i] : Enqueueable(i, r)}
<1>1. PICK D \in SUBSET resume[i] :
         /\ resume' = [resume EXCEPT ![i] = IF Wakes(i) THEN pending[i] ELSE @ \ D]
         /\ \E new \in Orders(T(D)) : \E h \in -1..MaxSlot :
               LeaderTurn(i, due, queue[i] \o new, h)
  BY DEF TickLeader
<1>2. PICK new \in Orders(T(D)) : \E h \in -1..MaxSlot :
         LeaderTurn(i, due, queue[i] \o new, h)
  BY <1>1
<1>3. PICK h \in -1..MaxSlot : LeaderTurn(i, due, queue[i] \o new, h) BY <1>2
<1>4. T(D) \in SUBSET Request BY DEF TypeOK
<1> HIDE DEF T
<1>5. new \in Seq(Request) BY <1>4, OrdersType
<1>6. queue[i] \in Seq(Request) BY DEF TypeOK
<1> DEFINE q == queue[i] \o new
<1>7. q \in Seq(Request) BY <1>5, <1>6
<1>8. LeaderTurn(i, due, q, h) BY <1>3
<1> HIDE DEF q
<1>9. /\ log' \in [Replica -> SUBSET Record]
      /\ executed' \in [Replica -> -1..MaxSlot]
      /\ values' \in [Replica -> SUBSET Execution]
      /\ pending' \in [Replica -> SUBSET Request]
      /\ proposals' \in [Replica -> SUBSET Request]
      /\ replies' \in SUBSET [req : Request, result : SUBSET Execution]
      /\ votes' \in [Replica -> [Slot -> SUBSET Replica]]
      /\ assigned' \in [Replica -> SUBSET Command]
      /\ high' \in [Replica -> -1..MaxSlot]
      /\ queue' \in [Replica -> Seq(Request)]
      /\ msgs' \in SUBSET Packet
  BY <1>7, <1>8, TypeLeaderTurn
<1>10. resume' \in [Replica -> SUBSET Request]
  <2>1. pending[i] \in SUBSET Request /\ resume[i] \ D \in SUBSET Request BY DEF TypeOK
  <2> QED BY <1>1, <2>1 DEF TypeOK
<1>11. active' \in [Replica -> BOOLEAN]
  BY DEF TickLeader, TypeOK, Serves, Wakes, Recovered
<1>12. UNCHANGED <<ballot, leader, preparing, recoveryEnd, pages, promises, frozen,
                   alive, crashed, lost, fault>>
  BY DEF TickLeader, envVars
<1> QED BY <1>9, <1>10, <1>11, <1>12 DEF TypeOK

LEMMA TypeEnvironment ==
    ASSUME TypeOK
    PROVE  /\ \A i, j \in Replica : LinkDown(i, j) => TypeOK'
           /\ \A i \in Replica : Crash(i) => TypeOK'
           /\ \A m \in msgs : Lose(m) => TypeOK'
           /\ \A i \in Replica, m \in msgs : Ignore(i, m) => TypeOK'
<1> USE DEF roleVars, logVars, clientVars, quorumVars, envVars
<1>1. \A i, j \in Replica : LinkDown(i, j) => TypeOK'
  <2> SUFFICES ASSUME NEW i \in Replica, NEW j \in Replica, LinkDown(i, j) PROVE TypeOK'
    OBVIOUS
  <2>1. alive' \in [Replica -> SUBSET Replica] BY DEF LinkDown, TypeOK
  <2> QED BY <2>1 DEF LinkDown, TypeOK
<1>2. \A i \in Replica : Crash(i) => TypeOK'
  BY DEF Crash, TypeOK
<1>3. \A m \in msgs : Lose(m) => TypeOK'
  <2> SUFFICES ASSUME NEW m \in msgs, Lose(m) PROVE TypeOK' OBVIOUS
  <2>1. lost' \in 0..MaxLoss BY BoundAssumption DEF Lose, TypeOK
  <2> QED BY <2>1 DEF Lose, TypeOK
<1>4. \A i \in Replica, m \in msgs : Ignore(i, m) => TypeOK'
  BY DEF Ignore, TypeOK
<1> QED BY <1>1, <1>2, <1>3, <1>4

LEMMA TypeReceive ==
    ASSUME TypeOK, NEW m \in msgs, Receive(m.to, m)
    PROVE  TypeOK'
<1>1. m.to \in Replica BY PacketFields DEF TypeOK
<1> DEFINE i == m.to
<1>2. \/ ReceivePrepare(i, m)
      \/ CollectPromise(i, m)
      \/ TakeOver(i, m)
      \/ \E fetch \in BOOLEAN : ReceiveAccept(i, m, fetch)
      \/ ReceiveAck(i, m)
      \/ ReceiveCommit(i, m)
      \/ \E fetch \in BOOLEAN : ReceiveReady(i, m, fetch)
      \/ ReceiveFetch(i, m)
      \/ ReceiveForward(i, m)
      \/ Ignore(i, m)
  BY DEF Receive
<1>3. i \in Replica BY <1>1
<1> HIDE DEF i
<1> QED BY <1>2, <1>3, TypeReceivePrepare, TypeCollectPromise, TypeTakeOver,
          TypeReceiveAccept, TypeReceiveAck, TypeReceiveCommit, TypeReceiveReady,
          TypeReceiveFetch, TypeReceiveForward, TypeEnvironment

LEMMA TypeInit == Init => TypeOK
<1> SUFFICES ASSUME Init PROVE TypeOK OBVIOUS
<1> USE DEF Init
<1>1. InitLeader \in Ballot /\ InitLeader \in Replica
  BY LeaderAssumption, BoundAssumption
<1>2. /\ ballot \in [Replica -> Ballot] /\ leader \in [Replica -> Replica]
      /\ active \in [Replica -> BOOLEAN] /\ preparing \in [Replica -> BOOLEAN]
  BY <1>1
<1>3. -1 \in -1..MaxSlot BY BoundAssumption
<1>4. /\ recoveryEnd \in [Replica -> -1..MaxSlot]
      /\ high \in [Replica -> -1..MaxSlot]
      /\ executed \in [Replica -> -1..MaxSlot]
  BY <1>3
<1>5. queue \in [Replica -> Seq(Request)] OBVIOUS
<1>6. votes \in [Replica -> [Slot -> SUBSET Replica]] OBVIOUS
<1>7. alive \in [Replica -> SUBSET Replica] /\ crashed \in SUBSET Replica
  BY ReplicasAssumption
<1>8. lost \in 0..MaxLoss BY BoundAssumption
<1>9. /\ log \in [Replica -> SUBSET Record]
      /\ assigned \in [Replica -> SUBSET Command]
      /\ values \in [Replica -> SUBSET Execution]
      /\ proposals \in [Replica -> SUBSET Request]
      /\ pending \in [Replica -> SUBSET Request]
      /\ resume \in [Replica -> SUBSET Request]
      /\ pages \in [Replica -> SUBSET PromisePacket]
      /\ promises \in [Replica -> SUBSET Replica]
      /\ frozen \in [Replica -> SUBSET PromisePacket]
  OBVIOUS
<1>10. msgs \in SUBSET Packet /\ replies \in SUBSET [req : Request, result : SUBSET Execution]
  OBVIOUS
<1> QED BY <1>2, <1>4, <1>5, <1>6, <1>7, <1>8, <1>9, <1>10 DEF TypeOK

LEMMA TypeNext == TypeOK /\ [Next]_vars => TypeOK'
<1> SUFFICES ASSUME TypeOK, [Next]_vars PROVE TypeOK' OBVIOUS
<1>1. CASE Next
  <2>1. ASSUME NEW i \in Replica, NEW r \in Request, Propose(i, r) PROVE TypeOK'
    BY <2>1, TypePropose
  <2>2. ASSUME NEW i \in Replica, TickBegin(i) \/ TickPrepare(i) \/ TickFollower(i)
        PROVE  TypeOK'
    BY <2>2, TypeTickBegin, TypeTickPrepare, TypeTickFollower
  <2>3. ASSUME NEW i \in Replica, NEW due \in BOOLEAN, TickLeader(i, due) PROVE TypeOK'
    BY <2>3, TypeTickLeader
  <2>4. ASSUME NEW m \in msgs, Receive(m.to, m) PROVE TypeOK'
    BY <2>4, TypeReceive
  <2> QED BY <1>1, <2>1, <2>2, <2>3, <2>4, TypeEnvironment DEF Next
<1>2. CASE UNCHANGED vars
  BY <1>2 DEF vars, roleVars, logVars, clientVars, quorumVars, envVars, TypeOK
<1> QED BY <1>1, <1>2

\* Every variable keeps its type: in particular slots, floors and page numbers
\* stay in range whatever is lost, repeated or delivered late.
THEOREM TypeCorrect == Spec => []TypeOK
<1>1. Init => TypeOK BY TypeInit
<1>2. TypeOK /\ [Next]_vars => TypeOK' BY TypeNext
<1> QED BY <1>1, <1>2, PTL DEF Spec

-----------------------------------------------------------------------------
(***************************************************************************)
(* Execution.                                                              *)
(***************************************************************************)
\* Of the records that hold a request, only those in its first slot run, and
\* none runs a request that ran before.
LEMMA ExecutionsOnce ==
    ASSUME NEW L \in SUBSET Record, NEW e \in Int, NEW m \in Int, NEW done
    PROVE  LET X == Executions(L, e, m, done)
           IN  /\ \A v, w \in X : v.req = w.req => v = w
               /\ \A v \in X : v.req \notin done
<1> DEFINE First(q) == /\ q.slot \in (e + 1)..m
                       /\ q.req \in Request \ done
                       /\ \A p \in L : p.slot \in (e + 1)..(q.slot - 1) => p.req # q.req
           X == Executions(L, e, m, done)
<1>1. \A v \in X : \E q \in L : First(q) /\ v = [req |-> q.req, slot |-> q.slot]
  BY DEF Executions
<1>2. \A v \in X : v.req \notin done BY <1>1
<1>3. ASSUME NEW v \in X, NEW w \in X, v.req = w.req PROVE v = w
  <2>1. PICK p \in L : First(p) /\ v = [req |-> p.req, slot |-> p.slot] BY <1>1
  <2>2. PICK q \in L : First(q) /\ w = [req |-> q.req, slot |-> q.slot] BY <1>1
  <2>3. p.req = q.req BY <1>3, <2>1, <2>2
  <2>4. p.slot \in Int /\ q.slot \in Int BY DEF Record
  <2>5. ~(p.slot < q.slot)
    <3> SUFFICES ASSUME p.slot < q.slot PROVE FALSE OBVIOUS
    <3>1. p.slot \in (e + 1)..(q.slot - 1) BY <2>1, <2>2, <2>4
    <3> QED BY <2>2, <2>3, <3>1
  <2>6. ~(q.slot < p.slot)
    <3> SUFFICES ASSUME q.slot < p.slot PROVE FALSE OBVIOUS
    <3>1. q.slot \in (e + 1)..(p.slot - 1) BY <2>1, <2>2, <2>4
    <3> QED BY <2>1, <2>3, <3>1
  <2>7. p.slot = q.slot BY <2>4, <2>5, <2>6
  <2> QED BY <2>1, <2>2, <2>3, <2>7
<1> QED BY <1>2, <1>3

LEMMA ApplyOnce ==
    ASSUME TypeOK, ExecutedOnce, NEW i \in Replica, NEW L \in SUBSET Record, Apply(i, L)
    PROVE  ExecutedOnce'
<1> DEFINE X(m) == Executions(L, executed[i], m, Done(i))
<1>1. PICK m \in executed[i]..MaxSlot : values' = [values EXCEPT ![i] = values[i] \cup X(m)]
  BY DEF Apply
<1>2. executed[i] \in Int /\ m \in Int BY BoundAssumption DEF TypeOK
<1>3. /\ \A v, w \in X(m) : v.req = w.req => v = w
      /\ \A v \in X(m) : v.req \notin Done(i)
  BY <1>2, ExecutionsOnce
<1> HIDE DEF X
<1>4. \A v \in values[i] : v.req \in Done(i) BY DEF Done
<1>5. \A v, w \in values[i] : v.req = w.req => v = w BY DEF ExecutedOnce
<1>6. \A v, w \in values[i] \cup X(m) : v.req = w.req => v = w BY <1>3, <1>4, <1>5
<1>7. values \in [Replica -> SUBSET Execution] BY DEF TypeOK
<1>8. /\ values'[i] = values[i] \cup X(m)
      /\ \A j \in Replica : j # i => values'[j] = values[j]
  BY <1>1, <1>7
<1> SUFFICES ASSUME NEW j \in Replica, NEW v \in values'[j], NEW w \in values'[j],
                    v.req = w.req
             PROVE  v = w
  BY DEF ExecutedOnce
<1>9. CASE j = i BY <1>6, <1>8, <1>9
<1>10. CASE j # i BY <1>8, <1>10 DEF ExecutedOnce
<1> QED BY <1>9, <1>10

\* The steps in which a replica executes something.
LEMMA CountAckOnce ==
    ASSUME TypeOK, ExecutedOnce, NEW i \in Replica, NEW j \in Replica,
           NEW L \in SUBSET Record, NEW S, CountAck(i, j, L, S)
    PROVE  ExecutedOnce'
<1> DEFINE L1 == Decide(L, Wins(i, j, L, S))
<1>1. L1 \in SUBSET Record BY WinsType
<1>2. Apply(i, L1) BY DEF CountAck
<1> HIDE DEF L1
<1> QED BY <1>1, <1>2, ApplyOnce

LEMMA TickLeaderCounts ==
    ASSUME TypeOK, NEW i \in Replica, NEW due \in BOOLEAN, TickLeader(i, due)
    PROVE  \E L \in SUBSET Record : \E S : CountAck(i, i, L, S)
<1> DEFINE T(D) == {r \in D \cap pending[i] : Enqueueable(i, r)}
<1>1. PICK D \in SUBSET resume[i] : \E new \in Orders(T(D)) : \E h \in -1..MaxSlot :
         LeaderTurn(i, due, queue[i] \o new, h)
  BY DEF TickLeader
<1>2. PICK new \in Orders(T(D)) : \E h \in -1..MaxSlot :
         LeaderTurn(i, due, queue[i] \o new, h)
  BY <1>1
<1>3. PICK h \in -1..MaxSlot : LeaderTurn(i, due, queue[i] \o new, h) BY <1>2
<1>4. T(D) \in SUBSET Request BY DEF TypeOK
<1> HIDE DEF T
<1>5. new \in Seq(Request) BY <1>4, OrdersType
<1>6. queue[i] \in Seq(Request) BY DEF TypeOK
<1> DEFINE q == queue[i] \o new
           F == Flushed(i, q)
           L == Install(log[i], F)
           W == Repeated(i, L, h, due)
           S == Slots(F) \cup Slots(UNION W)
           L2 == Install(L, UNION W)
<1>7. q \in Seq(Request) BY <1>5, <1>6
<1>8. LeaderTurn(i, due, q, h) BY <1>3
<1> HIDE DEF q
<1>9. CountAck(i, i, L2, S) BY <1>8 DEF LeaderTurn
<1>10. ballot[i] \in Ballot /\ log[i] \in SUBSET Record BY DEF TypeOK
<1>11. F \in SUBSET Record BY <1>7, AdmitType DEF Flushed
<1> HIDE DEF F
<1>12. L \in SUBSET Record BY <1>10, <1>11, LogTypes
<1> HIDE DEF L
<1>13. W \in SUBSET SUBSET Record BY <1>10, <1>12, RepeatedType
<1> HIDE DEF W
<1>14. L2 \in SUBSET Record
  <2>1. UNION W \in SUBSET Record BY <1>13
  <2> QED BY <1>10, <1>12, <2>1, LogTypes
<1> HIDE DEF L2, S
<1> QED BY <1>9, <1>14

LEMMA ReceiveCommitApplies ==
    ASSUME TypeOK, NEW i \in Replica, NEW m \in msgs, ReceiveCommit(i, m)
    PROVE  \E L \in SUBSET Record : Apply(i, L)
<1> DEFINE L == Install(log[i], m.recs)
           L1 == Decide(L, {r \in L : r.slot \in Slots(m.recs)})
<1>1. m.recs \in SUBSET Record BY PacketFields DEF TypeOK, ReceiveCommit
<1>2. log[i] \in SUBSET Record /\ ballot[i] \in Ballot BY DEF TypeOK
<1>3. L \in SUBSET Record BY <1>1, <1>2, LogTypes
<1>4. L1 \in SUBSET Record
  <2> HIDE DEF L
  <2>1. {r \in L : r.slot \in Slots(m.recs)} \in SUBSET Record BY <1>3
  <2> QED BY <1>2, <1>3, <2>1, LogTypes
<1>5. Apply(i, L1) BY DEF ReceiveCommit
<1> HIDE DEF L, L1
<1> QED BY <1>4, <1>5

LEMMA OnceReceive ==
    ASSUME TypeOK, ExecutedOnce, NEW m \in msgs, Receive(m.to, m)
    PROVE  ExecutedOnce'
<1> DEFINE i == m.to
<1>1. i \in Replica /\ m.from \in Replica BY PacketFields DEF TypeOK
<1>2. CASE UNCHANGED values BY <1>2 DEF ExecutedOnce
<1>3. CASE ReceiveAck(i, m)
  <2>1. log[i] \in SUBSET Record BY <1>1 DEF TypeOK
  <2>2. CountAck(i, m.from, log[i], m.slots) BY <1>3 DEF ReceiveAck
  <2> HIDE DEF i
  <2> QED BY ONLY TypeOK, ExecutedOnce, <1>1, <2>1, <2>2, CountAckOnce, Zenon
<1>4. CASE ReceiveCommit(i, m)
  <2>1. PICK L \in SUBSET Record : Apply(i, L) BY <1>1, <1>4, ReceiveCommitApplies
  <2> HIDE DEF i
  <2> QED BY <1>1, <2>1, ApplyOnce
<1>5. ReceiveAck(i, m) \/ ReceiveCommit(i, m) \/ UNCHANGED values
  BY DEF Receive, ReceivePrepare, CollectPromise, TakeOver, ReceiveAccept, ReceiveReady,
         ReceiveFetch, ReceiveForward, Ignore, logVars
<1> QED BY <1>2, <1>3, <1>4, <1>5

LEMMA OnceNext == TypeOK /\ ExecutedOnce /\ [Next]_vars => ExecutedOnce'
<1> SUFFICES ASSUME TypeOK, ExecutedOnce, [Next]_vars PROVE ExecutedOnce' OBVIOUS
<1>1. CASE UNCHANGED values BY <1>1 DEF ExecutedOnce
<1>2. ASSUME NEW i \in Replica, NEW due \in BOOLEAN, TickLeader(i, due)
      PROVE  ExecutedOnce'
  <2>1. PICK L \in SUBSET Record : \E S : CountAck(i, i, L, S)
    BY <1>2, TickLeaderCounts
  <2>2. PICK S : CountAck(i, i, L, S) BY <2>1
  <2> QED BY ONLY TypeOK, ExecutedOnce, i \in Replica, <2>2, CountAckOnce, Zenon
<1>3. ASSUME NEW m \in msgs, Receive(m.to, m) PROVE ExecutedOnce'
  BY <1>3, OnceReceive
<1>4. \/ UNCHANGED values
      \/ \E i \in Replica, due \in BOOLEAN : TickLeader(i, due)
      \/ \E m \in msgs : Receive(m.to, m)
  BY DEF Next, Propose, TickBegin, TickPrepare, TickFollower, Lose, LinkDown, Crash,
         vars, logVars
<1> QED BY <1>1, <1>2, <1>3, <1>4

\* A replica executes no request twice (execute.go, apply), although the same
\* request may be decided in two slots and Commits may arrive repeatedly.
THEOREM ExecutesOnce == Spec => []ExecutedOnce
<1>1. Init => ExecutedOnce BY DEF Init, ExecutedOnce
<1> QED BY <1>1, OnceNext, TypeCorrect, PTL DEF Spec

HIDE DEF Replica, Slot, Ballot
-----------------------------------------------------------------------------
(***************************************************************************)
(* Ballots, owners and quorums.                                            *)
(***************************************************************************)
\* Ballots are handed out modulo N.
LEMMA Remainder ==
    ASSUME NEW n \in Nat \ {0}, NEW k \in Nat, NEW i \in 0..(n - 1)
    PROVE  (k * n + i) % n = i
BY Z3T(60)

\* A ballot has an owner.
LEMMA OwnerType == ASSUME NEW b \in Nat PROVE Owner(b) \in Replica
BY NAssumption DEF Owner, Replica

\* The ballot a replica opens is its own, and higher than the one it is in.
LEMMA OwnerNext ==
    ASSUME NEW i \in Replica, ballot[i] \in Nat
    PROVE  /\ NextBallot(i) \in Nat
           /\ Owner(NextBallot(i)) = i
           /\ NextBallot(i) > ballot[i]
<1> DEFINE k == ballot[i] \div N
<1>1. k \in Nat BY NAssumption, DivNat
<1>2. k + 1 \in Nat /\ N \in Nat \ {0} /\ i \in 0..(N - 1) BY <1>1, NAssumption DEF Replica
<1>3. (k + 1) * N + i \in Nat
  <2> HIDE DEF k
  <2> QED BY <1>2
<1>4. \A c \in Nat : (c * N + i) % N = i BY <1>2, Remainder
<1>5. (k + 1) * N + i > ballot[i] BY <1>2
<1> QED BY <1>2, <1>3, <1>4, <1>5 DEF Owner, NextBallot

\* The first ballot belongs to the first leader.
LEMMA OwnerInit == Owner(InitLeader) = InitLeader
BY NAssumption, LeaderAssumption DEF Owner

\* There are N replicas.
LEMMA ReplicasFinite == IsFiniteSet(Replica) /\ Cardinality(Replica) = N
<1>1. Cardinality(0..(N - 1)) = (N - 1) - 0 + 1 BY FS_Interval, NAssumption
<1> QED BY <1>1, FS_Interval, NAssumption DEF Replica

\* Any two majorities share a replica.
LEMMA QuorumsMeet ==
    ASSUME NEW P \in Quorum, NEW Q \in Quorum
    PROVE  \E q \in P : q \in Q
<1>1. P \in SUBSET Replica /\ Q \in SUBSET Replica BY DEF Quorum
<1>2. IsFiniteSet(P) /\ IsFiniteSet(Q) BY <1>1, ReplicasFinite, FS_Subset
<1>3. Cardinality(P) \in Nat /\ Cardinality(Q) \in Nat BY <1>2, CardNat
<1>4. Cardinality(P) >= Majority /\ Cardinality(Q) >= Majority BY DEF Quorum
<1>5. Majority \in Nat /\ 2 * Majority > N BY NAssumption DEF Majority
<1>6. Cardinality(P) + Cardinality(Q) > Cardinality(Replica)
  BY <1>3, <1>4, <1>5, ReplicasFinite, NAssumption
<1>7. P \cap Q # {} BY <1>1, <1>6, ReplicasFinite, FS_MajoritiesIntersect
<1> QED BY <1>7

\* One replica alone is no majority.
LEMMA NoLoneQuorum ==
    ASSUME NEW Q, NEW i, Q \subseteq {i} PROVE ~(Cardinality(Q) >= Majority)
<1>1. Cardinality({i}) = 1 /\ IsFiniteSet({i}) BY FS_Singleton
<1>2. Cardinality(Q) <= 1 /\ Cardinality(Q) \in Nat BY <1>1, FS_Subset, CardNat
<1> QED BY <1>2, NAssumption DEF Majority

-----------------------------------------------------------------------------
(***************************************************************************)
(* What exists.                                                            *)
(***************************************************************************)
LEMMA InPromised ==
    \A p : p \in Promised <=> \/ p \in msgs /\ p.kind = "Promise"
                              \/ \E i \in Replica : p \in pages[i] \/ p \in frozen[i]
BY DEF Promised

\* Where a known record is.
LEMMA InKnown ==
    \A x : x \in Known <=>
        \/ \E i \in Replica : x \in log[i]
        \/ \E m \in msgs : m.kind \in {"Accept", "Commit"} /\ x \in m.recs
        \/ \E p \in Promised : x \in p.recs
<1> TAKE x
<1>1. x \in InLogs <=> \E i \in Replica : x \in log[i] BY Zenon DEF InLogs
<1>2. x \in InPackets <=> \E m \in Carriers : x \in m.recs BY Zenon DEF InPackets
<1>3. x \in InPromises <=> \E p \in Promised : x \in p.recs BY Zenon DEF InPromises
<1>4. \A m : m \in Carriers <=> m \in msgs /\ m.kind \in {"Accept", "Commit"}
  BY DEF Carriers
<1>5. x \in Known <=> x \in InLogs \/ x \in InPackets \/ x \in InPromises
  BY Zenon DEF Known
<1> QED BY <1>1, <1>2, <1>3, <1>4, <1>5, Zenon

\* Promises and records have their types.
LEMMA PromisedType == TypeOK => Promised \subseteq PromisePacket
<1> SUFFICES ASSUME TypeOK, NEW p \in Promised PROVE p \in PromisePacket OBVIOUS
<1>1. CASE p \in msgs /\ p.kind = "Promise"
  <2>1. p \in Packet BY <1>1 DEF TypeOK
  <2> QED BY <1>1, <2>1, PacketFields
<1>2. CASE \E i \in Replica : p \in pages[i] \/ p \in frozen[i]
  BY <1>2 DEF TypeOK
<1> QED BY <1>1, <1>2, InPromised

LEMMA KnownType == TypeOK => Known \subseteq Record
<1> SUFFICES ASSUME TypeOK, NEW x \in Known PROVE x \in Record OBVIOUS
<1>1. CASE \E i \in Replica : x \in log[i] BY <1>1 DEF TypeOK
<1>2. CASE \E m \in msgs : m.kind \in {"Accept", "Commit"} /\ x \in m.recs
  <2>1. PICK m \in msgs : m.kind \in {"Accept", "Commit"} /\ x \in m.recs BY <1>2
  <2>2. m \in Packet BY DEF TypeOK
  <2>3. m.recs \in SUBSET Record BY <2>1, <2>2, PacketFields
  <2> QED BY <2>1, <2>3
<1>3. CASE \E p \in Promised : x \in p.recs
  <2>1. PICK p \in Promised : x \in p.recs BY <1>3
  <2>2. p \in PromisePacket BY PromisedType
  <2> QED BY <2>1, <2>2 DEF PromisePacket
<1> QED BY <1>1, <1>2, <1>3, InKnown

\* Where promises and records are in the next state.
LEMMA InPromisedNext ==
    \A p : p \in Promised' <=> \/ p \in msgs' /\ p.kind = "Promise"
                               \/ \E i \in Replica : p \in pages'[i] \/ p \in frozen'[i]
BY DEF Promised

LEMMA InKnownNext ==
    \A x : x \in Known' <=>
        \/ \E i \in Replica : x \in log'[i]
        \/ \E m \in msgs' : m.kind \in {"Accept", "Commit"} /\ x \in m.recs
        \/ \E p \in Promised' : x \in p.recs
<1> TAKE x
<1>1. x \in InLogs' <=> \E i \in Replica : x \in log'[i] BY Zenon DEF InLogs
<1>2. x \in InPackets' <=> \E m \in Carriers' : x \in m.recs BY Zenon DEF InPackets
<1>3. x \in InPromises' <=> \E p \in Promised' : x \in p.recs BY Zenon DEF InPromises
<1>4. \A m : m \in Carriers' <=> m \in msgs' /\ m.kind \in {"Accept", "Commit"}
  BY DEF Carriers
<1>5. x \in Known' <=> x \in InLogs' \/ x \in InPackets' \/ x \in InPromises'
  BY Zenon DEF Known
<1> QED BY <1>1, <1>2, <1>3, <1>4, <1>5, Zenon

LEMMA PromisedTypeNext == TypeOK' => Promised' \subseteq PromisePacket
<1> SUFFICES ASSUME TypeOK', NEW p \in Promised' PROVE p \in PromisePacket OBVIOUS
<1>1. CASE p \in msgs' /\ p.kind = "Promise"
  <2>1. p \in Packet BY <1>1 DEF TypeOK
  <2> QED BY <1>1, <2>1, PacketFields
<1>2. CASE \E i \in Replica : p \in pages'[i] \/ p \in frozen'[i]
  BY <1>2 DEF TypeOK
<1> QED BY <1>1, <1>2, InPromisedNext

LEMMA KnownTypeNext == TypeOK' => Known' \subseteq Record
<1> SUFFICES ASSUME TypeOK', NEW x \in Known' PROVE x \in Record OBVIOUS
<1>1. CASE \E i \in Replica : x \in log'[i] BY <1>1 DEF TypeOK
<1>2. CASE \E m \in msgs' : m.kind \in {"Accept", "Commit"} /\ x \in m.recs
  <2>1. PICK m \in msgs' : m.kind \in {"Accept", "Commit"} /\ x \in m.recs BY <1>2
  <2>2. m \in Packet BY DEF TypeOK
  <2>3. m.recs \in SUBSET Record BY <2>1, <2>2, PacketFields
  <2> QED BY <2>1, <2>3
<1>3. CASE \E p \in Promised' : x \in p.recs
  <2>1. PICK p \in Promised' : x \in p.recs BY <1>3
  <2>2. p \in PromisePacket BY PromisedTypeNext
  <2> QED BY <2>1, <2>2 DEF PromisePacket
<1> QED BY <1>1, <1>2, <1>3, InKnownNext

\* Ballots are numbers.
LEMMA BallotTypes ==
    ASSUME TypeOK, TypeOK'
    PROVE  \A q \in Replica : /\ ballot[q] \in Ballot /\ ballot'[q] \in Ballot
                              /\ ballot[q] \in Nat /\ ballot'[q] \in Nat
BY BoundAssumption DEF TypeOK, Ballot

LEMMA BallotNat == \A b \in Ballot : b \in Nat
BY BoundAssumption DEF Ballot

-----------------------------------------------------------------------------
(***************************************************************************)
(* Steps that leave the promises alone.                                    *)
(***************************************************************************)
\* A ballot whose owner has taken over stays so; one that is begun too.
LEMMA LedKept ==
    ASSUME TypeOK, TypeOK', RoleStep, NEW b \in Ballot
    PROVE  (Led(b) => Led(b)') /\ (Begun(b) => Begun(b)')
<1> DEFINE o == Owner(b)
<1>1. o \in Replica BY OwnerType, BallotNat
<1>2. ballot[o] \in Nat /\ ballot'[o] \in Nat /\ b \in Nat BY <1>1, BallotTypes, BallotNat
<1>3. ballot[o] <= ballot'[o] BY <1>1 DEF RoleStep
<1>4. Begun(b) => Begun(b)' BY <1>2, <1>3 DEF Begun
<1>5. CASE ballot[o] > b BY <1>2, <1>3, <1>4, <1>5 DEF Led
<1>6. CASE ballot[o] = b /\ ~preparing[o]
  <2>1. Leading(o) BY <1>6 DEF Leading
  <2>2. CASE ballot'[o] = b
    <3>1. Leading(o)' BY <1>1, <1>6, <2>1, <2>2 DEF RoleStep
    <3> QED BY <1>4, <3>1, <2>2 DEF Led, Leading
  <2>3. CASE ballot'[o] # b BY <1>2, <1>3, <1>4, <1>6, <2>3 DEF Led
  <2> QED BY <2>2, <2>3
<1> QED BY <1>4, <1>5, <1>6 DEF Led

\* Good packets stay good.
LEMMA TrafficKept ==
    ASSUME TypeOK, TypeOK', Traffic, RoleStep,
           \A m \in msgs' : m \in msgs \/ GoodPacket(m)'
    PROVE  Traffic'
<1> SUFFICES ASSUME NEW m \in msgs' PROVE GoodPacket(m)' BY DEF Traffic
<1>1. CASE m \in msgs
  <2>1. m \in Packet BY <1>1 DEF TypeOK
  <2>2. m.ballot \in Ballot BY <2>1, PacketFields
  <2>3. GoodPacket(m) BY <1>1 DEF Traffic
  <2> QED BY <2>2, <2>3, LedKept DEF GoodPacket
<1> QED BY <1>1

\* No promise is made.
Unpromised ==
    /\ RoleStep
    /\ frozen' = frozen /\ Promised' \subseteq Promised

\* If no page of (q, c) is added, the promise is as it was or incomplete.
LEMMA PagesShrink ==
    ASSUME NEW q \in Replica, NEW c \in Ballot, OneSnapshot, Pages(q, c)' \subseteq Pages(q, c)
    PROVE  /\ SamePages(q, c)
           /\ IsFiniteSet(Pages(q, c)')
           /\ Cardinality(Pages(q, c)') <= Cardinality(Pages(q, c))
           /\ Cardinality(Pages(q, c)') \in Nat /\ Cardinality(Pages(q, c)) \in Nat
<1> DEFINE P == Pages(q, c)
           R == Pages(q, c)'
<1>1. IsFiniteSet(P) /\ \A p, r \in P : p.pages = r.pages /\ Cardinality(P) <= p.pages
  BY DEF OneSnapshot
<1>2. /\ IsFiniteSet(R) /\ Cardinality(R) <= Cardinality(P)
      /\ Cardinality(P) = Cardinality(R) => P = R
  <2>1. R \in SUBSET P OBVIOUS
  <2> HIDE DEF P, R
  <2> QED BY <1>1, <2>1, FS_Subset
<1>3. Cardinality(R) \in Nat /\ Cardinality(P) \in Nat BY <1>1, <1>2, CardNat
<1>4. ASSUME Whole(q, c)' PROVE Whole(q, c) /\ R = P
  <2>1. R # {} /\ \A p \in R : Cardinality(R) = p.pages BY <1>4 DEF Whole
  <2>2. PICK p \in R : Cardinality(R) = p.pages BY <2>1
  <2>3. Cardinality(P) <= Cardinality(R) BY <1>1, <2>2
  <2>4. Cardinality(P) = Cardinality(R) BY <1>2, <1>3, <2>3
  <2>5. R = P BY <1>2, <2>4
  <2> QED BY <2>1, <2>5 DEF Whole
<1> QED BY <1>2, <1>3, <1>4 DEF SamePages

\* A step that makes no promise keeps what is said of promises.
LEMMA UnpromisedKept ==
    ASSUME TypeOK, TypeOK', Shape, Unpromised
    PROVE  /\ PromiseShape' /\ OneSnapshot'
           /\ \A q \in Replica, c \in Ballot : SamePages(q, c)
<1>1. ASSUME NEW q \in Replica, NEW c \in Ballot
      PROVE  Pages(q, c)' \subseteq Pages(q, c)
  BY DEF Pages, Unpromised
<1>2. PromiseShape'
  <2>1. ASSUME NEW p \in Promised' PROVE GoodPromise(p)'
    <3>1. p \in Promised BY DEF Unpromised
    <3>2. GoodPromise(p) BY <3>1 DEF Shape, PromiseShape
    <3>3. p.ballot \in Ballot /\ p.from \in Replica
      BY <3>1, PromisedType DEF PromisePacket
    <3>4. Begun(p.ballot)' BY <3>2, <3>3, LedKept DEF Unpromised, GoodPromise
    <3>5. /\ p.ballot \in Nat /\ ballot[p.from] \in Nat /\ ballot'[p.from] \in Nat
          /\ ballot[p.from] <= ballot'[p.from]
      BY <3>3, BallotTypes, BallotNat DEF Unpromised, RoleStep
    <3>6. p.ballot <= ballot'[p.from] /\ (p.ballot = ballot'[p.from] => p.ballot = ballot[p.from])
      BY <3>2, <3>5 DEF GoodPromise
    <3> QED BY <3>2, <3>4, <3>6 DEF GoodPromise, Unpromised
  <2> QED BY <2>1 DEF Shape, PromiseShape, Unpromised
<1>3. OneSnapshot'
  <2> SUFFICES ASSUME NEW q \in Replica, NEW b \in Ballot
               PROVE  /\ IsFiniteSet(Pages(q, b)')
                      /\ \A p, r \in Pages(q, b)' :
                            /\ p.pages = r.pages /\ p.high = r.high
                            /\ p.page = r.page => p = r
                            /\ Cardinality(Pages(q, b)') <= p.pages
    BY DEF OneSnapshot
  <2>1. /\ IsFiniteSet(Pages(q, b)')
        /\ Cardinality(Pages(q, b)') <= Cardinality(Pages(q, b))
        /\ Cardinality(Pages(q, b)') \in Nat /\ Cardinality(Pages(q, b)) \in Nat
    BY <1>1, PagesShrink DEF Shape
  <2>2. ASSUME NEW p \in Pages(q, b)', NEW r \in Pages(q, b)'
        PROVE  /\ p.pages = r.pages /\ p.high = r.high
               /\ p.page = r.page => p = r
               /\ Cardinality(Pages(q, b)') <= p.pages
    <3>1. p \in Pages(q, b) /\ r \in Pages(q, b) BY <1>1
    <3>2. p.pages \in Nat BY <3>1, PromisedType DEF Pages, PromisePacket
    <3>3. /\ p.pages = r.pages /\ p.high = r.high
          /\ p.page = r.page => p = r
          /\ Cardinality(Pages(q, b)) <= p.pages
      BY <3>1 DEF Shape, OneSnapshot
    <3> QED BY <2>1, <3>2, <3>3
  <2> QED BY <2>1, <2>2
<1>4. \A q \in Replica, c \in Ballot : SamePages(q, c) BY <1>1, PagesShrink DEF Shape
<1> QED BY <1>2, <1>3, <1>4

\* The pages gathered from q stay gathered while q promises nothing new.
LEMMA GatheredKept ==
    ASSUME TypeOK, NEW i \in Replica, NEW q \in Replica, Whole(q, ballot[i]),
           ballot'[i] = ballot[i], Pages(q, ballot[i]) \subseteq pages'[i],
           Pages(q, ballot[i])' \subseteq Pages(q, ballot[i])
    PROVE  Gathered(i, q)'
<1>1. \A p \in Pages(q, ballot[i]) : p \in Pages(q, ballot[i])'
  <2> TAKE p \in Pages(q, ballot[i])
  <2>1. p \in Promised' BY InPromisedNext
  <2> QED BY <2>1 DEF Pages
<1>2. Pages(q, ballot[i])' = Pages(q, ballot[i]) BY <1>1
<1> QED BY <1>2 DEF Gathered, Whole

\* A candidate whose own state does not change stays prepared.
LEMMA PreparedKept ==
    ASSUME TypeOK, Shape, NEW i \in Replica, preparing[i],
           ballot'[i] = ballot[i], high'[i] = high[i], pages'[i] = pages[i],
           promises'[i] = promises[i],
           \A q \in promises[i] : Pages(q, ballot[i])' \subseteq Pages(q, ballot[i])
    PROVE  Prepared(i)'
<1>1. Prepared(i) BY DEF Shape, Preparation
<1>2. ASSUME NEW q \in promises[i] PROVE Gathered(i, q)'
  <2>1. q \in Replica BY DEF TypeOK
  <2>2. Gathered(i, q) BY <1>1 DEF Prepared
  <2>3. Whole(q, ballot[i]) /\ Pages(q, ballot[i]) \subseteq pages'[i] BY <2>2 DEF Gathered
  <2> QED BY <2>1, <2>3, GatheredKept
<1> QED BY <1>1, <1>2 DEF Prepared

\* Whoever prepares after the step did so before, with the same log and promises.
SamePreparing ==
    \A i \in Replica : preparing'[i] =>
        /\ preparing[i] /\ ballot'[i] = ballot[i] /\ executed'[i] = executed[i]
        /\ high'[i] = high[i] /\ pages'[i] = pages[i] /\ promises'[i] = promises[i]

\* So do all of them when nobody changes what it prepares with.
LEMMA PreparationKept ==
    ASSUME TypeOK, Shape, SamePreparing, Promised' \subseteq Promised
    PROVE  Preparation' /\ ((\A m \in msgs' : m.kind = "Prepare" => m \in msgs) => Floors')
<1>1. ASSUME NEW i \in Replica, preparing'[i] PROVE Prepared(i)'
  <2>1. /\ preparing[i] /\ ballot'[i] = ballot[i] /\ high'[i] = high[i]
        /\ pages'[i] = pages[i] /\ promises'[i] = promises[i]
    BY <1>1 DEF SamePreparing
  <2>2. \A q \in promises[i] : Pages(q, ballot[i])' \subseteq Pages(q, ballot[i])
    BY <2>1 DEF Pages
  <2> QED BY <2>1, <2>2, PreparedKept
<1>2. ASSUME \A m \in msgs' : m.kind = "Prepare" => m \in msgs PROVE Floors'
  <2> SUFFICES ASSUME NEW b \in Ballot PROVE \E f \in 0..(MaxSlot + 1) : Asked(b, f)'
    BY DEF Floors
  <2>1. PICK f \in 0..(MaxSlot + 1) : Asked(b, f) BY DEF Shape, Floors
  <2>2. Asked(b, f)' BY <1>2, <2>1 DEF Asked, SamePreparing
  <2> QED BY <2>2
<1> QED BY <1>1, <1>2 DEF Preparation

\* The logs are as they were, and nobody begins to lead.
LEMMA LogKept ==
    ASSUME TypeOK, TypeOK', Shape, RoleStep, UNCHANGED <<log, high, executed>>,
           \A i \in Replica : Leading(i)' => Leading(i) /\ ballot'[i] = ballot[i]
    PROVE  LogShape'
<1> SUFFICES ASSUME NEW i \in Replica
             PROVE  /\ \A x, y \in log'[i] : x.slot = y.slot => x = y
                    /\ \A x \in log'[i] : x.slot <= high'[i] /\ x.ballot <= ballot'[i]
                    /\ \A s \in 0..executed'[i] : Decided(log'[i], s)
                    /\ Leading(i)' => \A x \in log'[i] : x.ballot = ballot'[i] \/ x.committed
  BY DEF LogShape
<1>1. /\ \A x, y \in log[i] : x.slot = y.slot => x = y
      /\ \A x \in log[i] : x.slot <= high[i] /\ x.ballot <= ballot[i]
      /\ \A s \in 0..executed[i] : Decided(log[i], s)
      /\ Leading(i) => \A x \in log[i] : x.ballot = ballot[i] \/ x.committed
  BY DEF Shape, LogShape
<1>2. ASSUME NEW x \in log[i] PROVE x.ballot <= ballot'[i]
  <2>1. x \in Record BY DEF TypeOK
  <2>2. x.ballot \in Nat BY <2>1, BallotNat DEF Record
  <2>3. /\ ballot[i] \in Nat /\ ballot'[i] \in Nat /\ ballot[i] <= ballot'[i]
    BY BallotTypes DEF RoleStep
  <2> QED BY <1>1, <2>2, <2>3
<1> QED BY <1>1, <1>2

-----------------------------------------------------------------------------
(***************************************************************************)
(* Steps that only move packets.                                           *)
(***************************************************************************)
LEMMA ExchangeSubset ==
    ASSUME NEW m, NEW out, Exchange(m, out)
    PROVE  \A x \in msgs' : x \in msgs \/ x \in out
BY DEF Exchange

\* Everything the invariant is about stays, the packets apart.
Idle == UNCHANGED <<ballot, leader, preparing, log, high, executed, votes, frozen, pages, promises>>

\* Idle steps (no log, ballot or role changes) keep Shape.
LEMMA IdleRoles == ASSUME TypeOK, TypeOK', Idle PROVE RoleStep
<1>1. \A q \in Replica : ballot[q] <= ballot'[q] BY BallotTypes DEF Idle
<1> QED BY <1>1 DEF RoleStep, Idle, Leading

LEMMA IdleShape ==
    ASSUME TypeOK, TypeOK', Shape, Idle, Promised' \subseteq Promised,
           \A m \in msgs' : m \in msgs \/ (m.kind # "Prepare" /\ GoodPacket(m)')
    PROVE  Shape'
<1>1. RoleStep BY IdleRoles
<1>2. Leads' BY DEF Idle, Shape, Leads
<1>3. LogShape'
  <2>1. \A i \in Replica : Leading(i)' => Leading(i) /\ ballot'[i] = ballot[i]
    BY DEF Idle, Leading
  <2> QED BY <1>1, <2>1, LogKept DEF Idle
<1>4. Traffic' BY <1>1, TrafficKept DEF Shape
<1>5. PromiseShape' /\ OneSnapshot' BY <1>1, UnpromisedKept DEF Unpromised, Idle
<1>6. SamePreparing BY DEF SamePreparing, Idle
<1>7. Preparation' /\ Floors' BY <1>6, PreparationKept
<1> QED BY <1>2, <1>3, <1>4, <1>5, <1>7 DEF Shape

\* A step that sends no promise adds none.
LEMMA IdlePromised ==
    ASSUME Idle, \A m \in msgs' : m.kind = "Promise" => m \in msgs
    PROVE  Promised' \subseteq Promised
<1> SUFFICES ASSUME NEW p \in Promised' PROVE p \in Promised OBVIOUS
<1>1. \/ p \in msgs' /\ p.kind = "Promise"
      \/ \E i \in Replica : p \in pages'[i] \/ p \in frozen'[i]
  BY InPromisedNext
<1> QED BY <1>1, InPromised DEF Idle

\* No packet is sent, or Forwards only.
LEMMA QuietShape ==
    ASSUME TypeOK, TypeOK', Shape, Idle, \A m \in msgs' : m \in msgs \/ m.kind = "Forward"
    PROVE  Shape' /\ Promised' \subseteq Promised
<1>1. Promised' \subseteq Promised BY IdlePromised
<1>2. \A m : m.kind = "Forward" => GoodPacket(m)' BY DEF GoodPacket
<1> QED BY <1>1, <1>2, IdleShape

\* A record of a repeated suffix: that of the log, under the new ballot.
LEMMA SuffixRecords ==
    ASSUME NEW L \in SUBSET Record, NEW b \in Ballot
    PROVE  \A start, h : \A R \in Suffix(L, start, h, b) : \A x \in R :
              \E y \in L : /\ x = [y EXCEPT !.ballot = b]
                           /\ start <= y.slot /\ y.slot <= SuffixEnd(start, h)
<1> TAKE start, h
<1> TAKE R \in Suffix(L, start, h, b)
<1> TAKE x \in R
<1>1. R \subseteq Stamp(Window(L, start, SuffixEnd(start, h)), b) BY DEF Suffix, Chunks
<1> QED BY <1>1 DEF Stamp, Window

\* The records of an OwnSuffix are undecided ones of the log.
LEMMA OwnSuffixRecords ==
    ASSUME NEW L \in SUBSET Record, NEW b \in Ballot
    PROVE  \A start, h : \A R \in OwnSuffix(L, start, h, b) : \A x \in R :
              \E y \in L : /\ x.slot = y.slot /\ x.req = y.req
                           /\ x.ballot = b /\ ~x.committed
                           /\ start <= y.slot /\ y.slot <= SuffixEnd(start, h)
<1> TAKE start, h
<1> TAKE R \in OwnSuffix(L, start, h, b)
<1> TAKE x \in R
<1>1. PICK P \in Suffix(L, start, h, b) : R = Undecided(P) BY DEF OwnSuffix
<1>2. PICK z \in P : x = [z EXCEPT !.committed = FALSE] BY <1>1 DEF Undecided
<1>3. PICK y \in L : /\ z = [y EXCEPT !.ballot = b]
                     /\ start <= y.slot /\ y.slot <= SuffixEnd(start, h)
  BY SuffixRecords
<1>4. y \in Record OBVIOUS
<1> QED BY <1>2, <1>3, <1>4 DEF Record

\* The steps that touch nothing the invariant is about.
QuietStep ==
    \/ \E i \in Replica, r \in Request : Propose(i, r)
    \/ \E i \in Replica, m \in msgs : ReceiveForward(i, m) \/ Ignore(i, m)
    \/ \E i \in Replica : TickFollower(i) \/ Crash(i)
    \/ \E m \in msgs : Lose(m)
    \/ \E i, j \in Replica : LinkDown(i, j)
    \/ UNCHANGED vars

\* What is sent was to be sent.
LEMMA ToSubset == ASSUME NEW i, NEW j, NEW P PROVE \A x \in To(i, j, P) : x \in P
BY DEF To

\* ForwardOf sends Forwards.
LEMMA ForwardKind ==
    ASSUME NEW i, NEW R PROVE \A x \in ForwardOf(i, R) : x.kind = "Forward"
BY DEF ForwardOf, Forward

\* Quiet steps are idle and send Forwards at most.
LEMMA QuietIdle ==
    ASSUME QuietStep PROVE Idle /\ \A m \in msgs' : m \in msgs \/ m.kind = "Forward"
<1>1. ASSUME NEW i \in Replica, NEW r \in Request, Propose(i, r)
      PROVE  Idle /\ \A m \in msgs' : m \in msgs \/ m.kind = "Forward"
  <2>1. Idle BY <1>1 DEF Propose, Idle, roleVars, logVars, quorumVars
  <2>2. CASE ProposeNew(i, r)
    <3>1. PICK out \in {To(i, leader[i], ForwardOf(i, {r})), {}} : msgs' = msgs \cup out
      BY <2>2 DEF ProposeNew, Emit
    <3>2. \A x \in out : x.kind = "Forward"
      BY ToSubset, ForwardKind
    <3> QED BY <2>1, <3>1, <3>2
  <2>3. CASE ProposeExecuted(i, r) BY <2>1, <2>3 DEF ProposeExecuted
  <2> QED BY <1>1, <2>2, <2>3 DEF Propose
<1>2. ASSUME NEW i \in Replica, NEW m \in msgs, ReceiveForward(i, m)
      PROVE  Idle /\ \A x \in msgs' : x \in msgs \/ x.kind = "Forward"
  <2>1. Idle BY <1>2 DEF ReceiveForward, Idle, roleVars, logVars, quorumVars
  <2>2. Exchange(m, {}) BY <1>2 DEF ReceiveForward
  <2> QED BY <2>1, <2>2, ExchangeSubset
<1>3. ASSUME NEW i \in Replica, NEW m \in msgs, Ignore(i, m)
      PROVE  Idle /\ \A x \in msgs' : x \in msgs \/ x.kind = "Forward"
  BY <1>3 DEF Ignore, Idle, roleVars, logVars, quorumVars
<1>4. ASSUME NEW i \in Replica, TickFollower(i)
      PROVE  Idle /\ \A x \in msgs' : x \in msgs \/ x.kind = "Forward"
  <2>1. Idle BY <1>4 DEF TickFollower, Idle, roleVars, logVars, quorumVars
  <2>2. PICK D \in SUBSET resume[i] :
            Emit(To(i, leader[i], ForwardOf(i, D \cap pending[i])))
    BY <1>4 DEF TickFollower
  <2> QED BY <2>1, <2>2, ToSubset, ForwardKind DEF Emit
<1>5. ASSUME NEW i \in Replica, Crash(i)
      PROVE  Idle /\ \A x \in msgs' : x \in msgs \/ x.kind = "Forward"
  BY <1>5 DEF Crash, Idle, roleVars, logVars, quorumVars
<1>6. ASSUME NEW m \in msgs, Lose(m)
      PROVE  Idle /\ \A x \in msgs' : x \in msgs \/ x.kind = "Forward"
  BY <1>6 DEF Lose, Idle, roleVars, logVars, quorumVars
<1>7. ASSUME NEW i \in Replica, NEW j \in Replica, LinkDown(i, j)
      PROVE  Idle /\ \A x \in msgs' : x \in msgs \/ x.kind = "Forward"
  BY <1>7 DEF LinkDown, Idle, roleVars, logVars, quorumVars
<1>8. CASE UNCHANGED vars
  BY <1>8 DEF vars, Idle, roleVars, logVars, quorumVars
<1> QED BY <1>1, <1>2, <1>3, <1>4, <1>5, <1>6, <1>7, <1>8 DEF QuietStep

-----------------------------------------------------------------------------
(***************************************************************************)
(* The leader's answer to a Fetch.                                         *)
(***************************************************************************)
\* What a packet with records of R, all under ballot b, has to satisfy.
RecordsOf(R, b, L) ==
    /\ \A x \in R : x.ballot = b
    /\ \A x, y \in R : x.slot = y.slot => x = y
    /\ \A x \in R : \E y \in L : y.slot = x.slot /\ y.req = x.req /\ (x.committed => y.committed)

\* A suffix of a log, as it is sent under ballot b.
LEMMA SuffixGood ==
    ASSUME NEW L \in SUBSET Record, \A x, y \in L : x.slot = y.slot => x = y,
           NEW start, NEW h, NEW b \in Ballot, NEW R \in Suffix(L, start, h, b)
    PROVE  RecordsOf(R, b, L)
<1>1. ASSUME NEW x \in R
      PROVE  \E y \in L : /\ x = [y EXCEPT !.ballot = b] /\ x.ballot = b
                          /\ x.slot = y.slot /\ x.req = y.req /\ x.committed = y.committed
  <2>1. PICK y \in L : x = [y EXCEPT !.ballot = b] BY SuffixRecords
  <2>2. y \in Record OBVIOUS
  <2> QED BY <2>1, <2>2 DEF Record
<1>2. ASSUME NEW x \in R, NEW z \in R, x.slot = z.slot PROVE x = z
  <2>1. PICK y \in L : x = [y EXCEPT !.ballot = b] /\ x.slot = y.slot BY <1>1
  <2>2. PICK w \in L : z = [w EXCEPT !.ballot = b] /\ z.slot = w.slot BY <1>1
  <2>3. y = w BY <1>2, <2>1, <2>2
  <2> QED BY <2>1, <2>2, <2>3
<1>3. \A x \in R : \E y \in L : y.slot = x.slot /\ y.req = x.req /\ (x.committed => y.committed)
  <2> TAKE x \in R
  <2>1. PICK y \in L : x.slot = y.slot /\ x.req = y.req /\ x.committed = y.committed BY <1>1
  <2> QED BY <2>1
<1> QED BY <1>1, <1>2, <1>3 DEF RecordsOf

\* Its undecided part.
LEMMA OwnSuffixGood ==
    ASSUME NEW L \in SUBSET Record, \A x, y \in L : x.slot = y.slot => x = y,
           NEW start, NEW h, NEW b \in Ballot, NEW R \in OwnSuffix(L, start, h, b)
    PROVE  RecordsOf(R, b, L) /\ \A x \in R : ~x.committed
<1>0. R \in SUBSET Record BY SuffixTypes
<1>1. ASSUME NEW x \in R
      PROVE  \E y \in L : /\ x.slot = y.slot /\ x.req = y.req
                          /\ x.ballot = b /\ ~x.committed
  BY OwnSuffixRecords
<1>2. ASSUME NEW x \in R, NEW z \in R, x.slot = z.slot PROVE x = z
  <2>1. PICK y \in L : x.slot = y.slot /\ x.req = y.req /\ x.ballot = b /\ ~x.committed
    BY <1>1
  <2>2. PICK w \in L : z.slot = w.slot /\ z.req = w.req /\ z.ballot = b /\ ~z.committed
    BY <1>1
  <2>3. y = w BY <1>2, <2>1, <2>2
  <2>4. x \in Record /\ z \in Record BY <1>0
  <2> QED BY <2>1, <2>2, <2>3, <2>4 DEF Record
<1>3. \A x \in R : \E y \in L : y.slot = x.slot /\ y.req = x.req /\ (x.committed => y.committed)
  <2> TAKE x \in R
  <2>1. PICK y \in L : x.slot = y.slot /\ x.req = y.req /\ ~x.committed BY <1>1
  <2> QED BY <2>1
<1>4. \A x \in R : x.ballot = b /\ ~x.committed BY <1>1
<1> QED BY <1>2, <1>3, <1>4 DEF RecordsOf

\* The packets of a leader: Accepts and Commits of its records.
LEMMA LeaderPackets ==
    ASSUME TypeOK', NEW i \in Replica, Owner(ballot[i]) = i, ballot'[i] = ballot[i], Led(ballot[i])',
           NEW j \in Replica, j # i, NEW R \in SUBSET Record, NEW L, RecordsOf(R, ballot[i], L)
    PROVE  /\ GoodPacket(Accept(i, j, ballot[i], R))'
           /\ (\A x \in R : x.committed) => GoodPacket(Commit(i, j, ballot[i], R))'
BY DEF GoodPacket, Accept, Commit, RecordsOf

\* A leader answers a Fetch from its log.
LEMMA ShapeReceiveFetch ==
    ASSUME TypeOK, TypeOK', Shape, NEW i \in Replica, NEW m \in msgs, m.to = i, ReceiveFetch(i, m)
    PROVE  /\ Shape' /\ Idle
           /\ Owner(ballot[i]) = i /\ Led(ballot[i])
           /\ \A x \in msgs' : x \in msgs \/
                 /\ x.kind \in {"Accept", "Commit"} /\ RecordsOf(x.recs, ballot[i], log[i])
<1> DEFINE b == ballot[i]
           W == Suffix(log[i], m.floor, high[i], b)
           D == {{r \in R : r.committed} : R \in W} \ {{}}
           out == To(i, m.from, {Accept(i, m.from, b, R) : R \in W}
                                  \cup {Commit(i, m.from, b, R) : R \in D})
<1>1. Idle BY DEF ReceiveFetch, Idle, roleVars, logVars, quorumVars
<1>2. m.kind = "Fetch" /\ m.ballot = b /\ leader[i] = i /\ Exchange(m, out)
  BY DEF ReceiveFetch
<1>3. m \in Packet /\ m.from \in Replica BY PacketFields DEF TypeOK
<1>4. m.from # i /\ Led(b) BY <1>2 DEF Shape, Traffic, GoodPacket
<1>5. Owner(b) = i BY <1>2 DEF Shape, Leads
<1>6. b \in Ballot /\ log[i] \in SUBSET Record BY DEF TypeOK
<1>7. Led(ballot[i])'
  <2>1. PICK c \in Ballot : c = ballot[i] BY <1>6
  <2>2. Led(c)' BY <1>1, <1>4, <2>1, LedKept, IdleRoles
  <2>3. ballot'[i] = c BY <1>1, <2>1 DEF Idle
  <2> QED BY <2>2, <2>3 DEF Led
<1>8. \A x, y \in log[i] : x.slot = y.slot => x = y BY DEF Shape, LogShape
<1>9. \A R \in W : RecordsOf(R, b, log[i]) /\ R \in SUBSET Record
  <2> TAKE R \in W
  <2>1. RecordsOf(R, b, log[i]) BY <1>6, <1>8, SuffixGood
  <2>2. PICK c \in Ballot : c = b BY <1>6
  <2>3. PICK L \in SUBSET Record : L = log[i] BY <1>6
  <2>4. R \in Suffix(L, m.floor, high[i], c) BY <2>2, <2>3
  <2>5. R \in SUBSET Record BY <2>4, SuffixTypes
  <2> QED BY <2>1, <2>5
<1>10. \A R \in D : /\ RecordsOf(R, b, log[i]) /\ R \in SUBSET Record
                    /\ \A x \in R : x.committed
  <2> SUFFICES ASSUME NEW R \in D
               PROVE  /\ RecordsOf(R, b, log[i]) /\ R \in SUBSET Record
                      /\ \A x \in R : x.committed
    OBVIOUS
  <2>1. PICK P \in W : R = {r \in P : r.committed} OBVIOUS
  <2>2. RecordsOf(P, b, log[i]) /\ P \in SUBSET Record BY <1>9
  <2> QED BY <2>1, <2>2 DEF RecordsOf
<1>11. \A x \in out : /\ x.kind \in {"Accept", "Commit"} /\ RecordsOf(x.recs, b, log[i])
                      /\ GoodPacket(x)'
  <2> SUFFICES ASSUME NEW x \in out
               PROVE  /\ x.kind \in {"Accept", "Commit"} /\ RecordsOf(x.recs, b, log[i])
                      /\ GoodPacket(x)'
    OBVIOUS
  <2>1. \/ \E R \in W : x = Accept(i, m.from, b, R)
        \/ \E R \in D : x = Commit(i, m.from, b, R)
    BY ToSubset
  <2>2. ballot'[i] = b BY <1>1 DEF Idle
  <2>3. CASE \E R \in W : x = Accept(i, m.from, b, R)
    <3>1. PICK R \in W : x = Accept(i, m.from, b, R) BY <2>3
    <3>2. RecordsOf(R, b, log[i]) /\ R \in SUBSET Record BY <1>9
    <3>3. GoodPacket(x)' BY <1>3, <1>4, <1>5, <1>7, <2>2, <3>1, <3>2, LeaderPackets
    <3> QED BY <3>1, <3>2, <3>3 DEF Accept
  <2>4. CASE \E R \in D : x = Commit(i, m.from, b, R)
    <3>1. PICK R \in D : x = Commit(i, m.from, b, R) BY <2>4
    <3>2. RecordsOf(R, b, log[i]) /\ R \in SUBSET Record /\ \A y \in R : y.committed BY <1>10
    <3>3. GoodPacket(x)' BY <1>3, <1>4, <1>5, <1>7, <2>2, <3>1, <3>2, LeaderPackets
    <3> QED BY <3>1, <3>2, <3>3 DEF Commit
  <2> QED BY <2>1, <2>3, <2>4
<1>12. \A x \in msgs' : x \in msgs \/ x \in out BY <1>2, ExchangeSubset
<1>13. Promised' \subseteq Promised BY <1>1, <1>11, <1>12, IdlePromised
<1>14. Shape' BY <1>1, <1>11, <1>12, <1>13, IdleShape
<1> HIDE DEF out
<1> QED BY <1>1, <1>4, <1>5, <1>11, <1>12, <1>14

-----------------------------------------------------------------------------
(***************************************************************************)
(* What never goes back.                                                   *)
(***************************************************************************)
\* The two parts of Advance about one replica.
LEMMA AdvanceReplica ==
    ASSUME Advance, NEW q \in Replica
    PROVE  /\ ballot[q] <= ballot'[q]
           /\ Leading(q)' => ballot'[q] = ballot[q] /\ (Leading(q) \/ TookOver(q))
           /\ Leading(q) /\ ballot'[q] = ballot[q] => Leading(q)'
           /\ \A y \in log[q] : \E z \in log'[q] :
                /\ z.slot = y.slot /\ z.ballot >= y.ballot
                /\ y.committed => z.committed \/ z.ballot = ballot'[q]
                /\ Leading(q) => z.req = y.req
BY DEF Advance

\* A ballot whose owner has taken over stays so.
LEMMA LedStays ==
    ASSUME TypeOK, TypeOK', Advance, NEW b \in Ballot, Led(b)
    PROVE  Led(b)'
<1> DEFINE o == Owner(b)
<1>1. o \in Replica BY OwnerType, BallotNat
<1>2. ballot[o] \in Nat /\ ballot'[o] \in Nat /\ b \in Nat BY <1>1, BallotTypes, BallotNat
<1>3. ballot[o] <= ballot'[o] BY <1>1, AdvanceReplica
<1>4. CASE ballot[o] > b BY <1>2, <1>3, <1>4 DEF Led
<1>5. CASE ballot[o] = b /\ ~preparing[o]
  <2>1. Leading(o) BY <1>5 DEF Leading
  <2>2. CASE ballot'[o] = b
    <3>1. Leading(o)' BY <1>1, <1>5, <2>1, <2>2, AdvanceReplica
    <3> QED BY <3>1, <2>2 DEF Led, Leading
  <2>3. CASE ballot'[o] # b BY <1>2, <1>3, <1>5, <2>3 DEF Led
  <2> QED BY <2>2, <2>3
<1> QED BY <1>4, <1>5 DEF Led

\* A ballot that a majority has reached stays so.
LEMMA ElectedStays ==
    ASSUME TypeOK, TypeOK', Advance, NEW b \in Ballot, Elected(b)
    PROVE  Elected(b)'
<1>1. PICK Q \in Quorum : \A q \in Q : ballot[q] >= b BY DEF Elected
<1>2. Q \in SUBSET Replica BY DEF Quorum
<1>3. \A q \in Q : ballot'[q] >= b
  <2> TAKE q \in Q
  <2>1. q \in Replica BY <1>2
  <2>2. ballot[q] \in Nat /\ ballot'[q] \in Nat /\ b \in Nat BY <2>1, BallotTypes, BallotNat
  <2>3. ballot[q] <= ballot'[q] BY <2>1, AdvanceReplica
  <2> QED BY <1>1, <2>2, <2>3
<1> QED BY <1>1, <1>3 DEF Elected

\* What cannot be chosen any more under b cannot be chosen later.
LEMMA ChoiceShrinks ==
    ASSUME TypeOK, TypeOK', Advance, NEW b \in Ballot, NEW s \in Slot, CanChoose(b, s)'
    PROVE  CanChoose(b, s)
<1>1. PICK Q \in Quorum : \A q \in Q : ballot'[q] <= b \/ Voted(q, b, s)'
  BY DEF CanChoose
<1>2. \A q \in Q : ballot[q] <= b \/ Voted(q, b, s)
  <2> TAKE q \in Q
  <2>1. q \in Replica BY DEF Quorum
  <2>2. ballot[q] \in Nat /\ ballot'[q] \in Nat /\ b \in Nat BY <2>1, BallotTypes, BallotNat
  <2>3. ballot[q] <= ballot'[q] BY <2>1, AdvanceReplica
  <2>4. CASE ballot'[q] <= b BY <2>2, <2>3, <2>4
  <2>5. CASE Voted(q, b, s)'
    <3>1. Voted(q, b, s) \/ FreshVote(q, b, s) BY <2>1, <2>5 DEF Advance
    <3> QED BY <3>1, <2>2 DEF FreshVote
  <2> QED BY <1>1, <2>4, <2>5
<1> QED BY <1>2 DEF CanChoose

\* If a later ballot was opened with a majority, what can still be chosen
\* under b has been voted for.
LEMMA Proposed ==
    ASSUME TypeOK, NEW b \in Ballot, NEW c \in Ballot, b < c, NEW s \in Slot,
           CanChoose(b, s), Elected(c)
    PROVE  \E q \in Replica : Voted(q, b, s)
<1>1. PICK Q \in Quorum : \A q \in Q : ballot[q] <= b \/ Voted(q, b, s) BY DEF CanChoose
<1>2. PICK P \in Quorum : \A q \in P : ballot[q] >= c BY DEF Elected
<1>3. PICK q \in P : q \in Q BY QuorumsMeet
<1>4. q \in Replica BY DEF Quorum
<1>5. ballot[q] \in Nat /\ b \in Nat /\ c \in Nat BY <1>4, BallotNat DEF TypeOK
<1> QED BY <1>1, <1>2, <1>3, <1>4, <1>5

\* A reader of the promise of q after a step.
LEMMA ReportsStay ==
    ASSUME TypeOK, Advance, NEW q \in Replica, NEW c \in Ballot, NEW s, NEW b,
           \E y \in log[q] : y.slot = s /\ y.ballot >= b, Reports(q, c, s, b)
    PROVE  Reports(q, c, s, b)'
<1> SUFFICES ASSUME Whole(q, c)', \A p \in Pages(q, c)' : p.floor <= s
             PROVE  \E p \in Pages(q, c)' : \E y \in p.recs : y.slot = s /\ y.ballot >= b
  BY DEF Reports
<1>1. CASE SamePages(q, c)
  <2>1. Whole(q, c) /\ Pages(q, c)' = Pages(q, c) BY <1>1 DEF SamePages
  <2> QED BY <2>1, Zenon DEF Reports
<1>2. CASE FreshPages(q, c)
  <2>1. PICK y \in log[q] : y.slot = s /\ y.ballot >= b OBVIOUS
  <2>2. \E p \in Pages(q, c)' : y \in p.recs BY <1>2, <2>1 DEF FreshPages
  <2> QED BY <2>1, <2>2
<1> QED BY <1>1, <1>2 DEF Advance

\* A promise goes on telling of a record that its sender keeps.
LEMMA TellsStay ==
    ASSUME TypeOK, Advance, NEW q \in Replica, NEW c \in Ballot, NEW s, NEW b,
           \E y \in log[q] : y.slot = s /\ (y.ballot >= b \/ y.committed), Tells(q, c, s, b)
    PROVE  Tells(q, c, s, b)'
<1> SUFFICES ASSUME Whole(q, c)', \A p \in Pages(q, c)' : p.floor <= s
             PROVE  \E p \in Pages(q, c)' : \E y \in p.recs :
                        y.slot = s /\ (y.ballot >= b \/ y.committed)
  BY DEF Tells
<1>1. CASE SamePages(q, c)
  <2>1. Whole(q, c) /\ Pages(q, c)' = Pages(q, c) BY <1>1 DEF SamePages
  <2> QED BY <2>1, Zenon DEF Tells
<1>2. CASE FreshPages(q, c)
  <2>1. PICK y \in log[q] : y.slot = s /\ (y.ballot >= b \/ y.committed) OBVIOUS
  <2>2. \E p \in Pages(q, c)' : y \in p.recs BY <1>2, <2>1 DEF FreshPages
  <2> QED BY <2>1, <2>2
<1> QED BY <1>1, <1>2 DEF Advance

-----------------------------------------------------------------------------
(***************************************************************************)
(* New records.                                                            *)
(***************************************************************************)
\* A record of x's slot, ballot and request existed before the step.
Old(x) == \E y \in Known : y.slot = x.slot /\ y.ballot = x.ballot /\ y.req = x.req
\* The leader i of x's ballot has put x into its log in this step or before.
By(i, x) ==
    /\ ballot[i] = x.ballot /\ ballot'[i] = x.ballot /\ Owner(x.ballot) = i
    /\ Leading(i)' /\ Elected(x.ballot)
    /\ \E z \in log'[i] : z.slot = x.slot /\ z.req = x.req
Copied(i, x) ==
    /\ Leading(i) /\ ballot[i] = x.ballot
    /\ \E y \in log[i] : y.slot = x.slot /\ y.req = x.req /\ y.committed

\* Every record of the next state was there before, or a leader made it.
LEMMA Kinds ==
    ASSUME TypeOK, TypeOK', Safety, Advance, NEW x \in Known'
    PROVE  \/ Old(x)
           \/ \E i \in Replica :
                 By(i, x) /\ (Copied(i, x) \/ (Fresh(x) /\ Leading(i)) \/ (Adopted(x) /\ TookOver(i)))
<1>1. CASE x \in Known BY <1>1 DEF Old
<1>2. CASE Restated(x)
  <2>1. PICK i \in Replica : Stays(i, x.ballot) /\ \E y \in log[i] :
              y.slot = x.slot /\ y.req = x.req /\ (y.ballot = x.ballot \/ y.committed)
    BY <1>2 DEF Restated
  <2>2. PICK y \in log[i] :
              y.slot = x.slot /\ y.req = x.req /\ (y.ballot = x.ballot \/ y.committed)
    BY <2>1
  <2>3. Leading(i) /\ ballot[i] = x.ballot /\ ballot'[i] = x.ballot BY <2>1 DEF Stays
  <2>4. CASE y.ballot = x.ballot
    <3>1. y \in Known BY InKnown
    <3> QED BY <3>1, <2>2, <2>4 DEF Old
  <2>5. CASE y.committed
    <3>1. Leading(i)' BY <2>3, AdvanceReplica
    <3>2. Elected(x.ballot) BY <2>3 DEF Safety, Established
    <3>3. \E z \in log'[i] : z.slot = x.slot /\ z.req = x.req
      BY <2>2, <2>3, AdvanceReplica
    <3>4. Owner(x.ballot) = i BY <2>3 DEF Leading
    <3>5. By(i, x) BY <2>3, <3>1, <3>2, <3>3, <3>4 DEF By
    <3>6. Copied(i, x) BY <2>2, <2>3, <2>5 DEF Copied
    <3> QED BY <3>5, <3>6
  <2> QED BY <2>2, <2>4, <2>5
<1>3. CASE Fresh(x)
  <2>1. PICK i \in Replica : Stays(i, x.ballot) /\ \E z \in log'[i] : z.slot = x.slot /\ z.req = x.req
    BY <1>3 DEF Fresh
  <2>2. Leading(i) /\ ballot[i] = x.ballot /\ ballot'[i] = x.ballot BY <2>1 DEF Stays
  <2>3. Leading(i)' BY <2>2, AdvanceReplica
  <2>4. Elected(x.ballot) BY <2>2 DEF Safety, Established
  <2>5. Owner(x.ballot) = i BY <2>2 DEF Leading
  <2> QED BY <1>3, <2>1, <2>2, <2>3, <2>4, <2>5 DEF By
<1>4. CASE Adopted(x)
  <2>1. PICK i \in Replica : /\ TookOver(i) /\ x.ballot = ballot[i]
                             /\ \E z \in log'[i] : z.slot = x.slot /\ z.req = x.req
    BY <1>4 DEF Adopted
  <2>2. /\ Owner(ballot[i]) = i /\ ballot'[i] = ballot[i] /\ ~preparing'[i]
        /\ Elected(ballot[i])
    BY <2>1 DEF TookOver
  <2>3. Leading(i)' BY <2>2 DEF Leading
  <2> QED BY <1>4, <2>1, <2>2, <2>3 DEF By
<1> QED BY <1>1, <1>2, <1>3, <1>4 DEF Advance

\* Every record of the next state has an elected ballot.
LEMMA NextElected ==
    ASSUME TypeOK, TypeOK', Safety, Advance, NEW x \in Known'
    PROVE  Elected(x.ballot)
<1>1. CASE Old(x)
  <2>1. PICK y \in Known : y.ballot = x.ballot BY <1>1 DEF Old
  <2>2. Elected(y.ballot) BY DEF Safety, Owned
  <2> QED BY <2>1, <2>2
<1>2. CASE \E i \in Replica : By(i, x) BY <1>2 DEF By
<1> QED BY <1>1, <1>2, Kinds

\* The parts of Safety, one by one: Owned,
LEMMA OwnedStays ==
    ASSUME TypeOK, TypeOK', Safety, Advance
    PROVE  Owned'
<1> SUFFICES ASSUME NEW x \in Known'
             PROVE  /\ Led(x.ballot)' /\ Elected(x.ballot)'
                    /\ ballot'[Owner(x.ballot)] = x.ballot =>
                         \E y \in log'[Owner(x.ballot)] : y.slot = x.slot /\ y.req = x.req
  BY DEF Owned
<1>1. x.ballot \in Ballot BY KnownTypeNext DEF Record
<1>2. Elected(x.ballot)' BY <1>1, NextElected, ElectedStays
<1> DEFINE o == Owner(x.ballot)
<1>3. o \in Replica BY <1>1, OwnerType, BallotNat
<1>4. CASE Old(x)
  <2>1. PICK y \in Known : y.slot = x.slot /\ y.ballot = x.ballot /\ y.req = x.req
    BY <1>4 DEF Old
  <2>2. Led(x.ballot) BY <2>1 DEF Safety, Owned
  <2>3. Led(x.ballot)' BY <1>1, <2>2, LedStays
  <2>4. ASSUME ballot'[o] = x.ballot
        PROVE  \E z \in log'[o] : z.slot = x.slot /\ z.req = x.req
    <3>1. ballot[o] \in Nat /\ ballot'[o] \in Nat /\ ballot[o] <= ballot'[o]
      BY <1>3, BallotTypes, BallotNat, AdvanceReplica
    <3>2. ballot[o] = x.ballot /\ ~preparing[o] BY <2>2, <2>4, <3>1 DEF Led
    <3>3. Leading(o) BY <3>2 DEF Leading
    <3>4. PICK z \in log[o] : z.slot = x.slot /\ z.req = x.req
      BY <2>1, <3>2 DEF Safety, Owned
    <3> QED BY <1>3, <3>3, <3>4, AdvanceReplica
  <2> QED BY <1>2, <2>3, <2>4
<1>5. CASE \E i \in Replica : By(i, x)
  <2>1. PICK i \in Replica : By(i, x) BY <1>5
  <2>2. Led(x.ballot)' BY <2>1 DEF By, Led, Leading
  <2> QED BY <1>2, <2>1, <2>2 DEF By
<1> QED BY <1>4, <1>5, Kinds

\* OneValue,
LEMMA OneValueStays ==
    ASSUME TypeOK, TypeOK', Safety, Shape', Advance
    PROVE  OneValue'
<1> SUFFICES ASSUME NEW x \in Known', NEW y \in Known', x.slot = y.slot, x.ballot = y.ballot
             PROVE  x.req = y.req
  BY DEF OneValue
<1>1. CASE Old(x) /\ Old(y)
  BY <1>1 DEF Old, Safety, OneValue
<1>2. CASE \E i \in Replica : By(i, x) \/ By(i, y)
  <2>1. PICK i \in Replica : By(i, x) \/ By(i, y) BY <1>2
  <2>2. Owner(x.ballot) = i /\ ballot'[i] = x.ballot BY <2>1 DEF By
  <2>3. Owned' BY OwnedStays
  <2>4. PICK z \in log'[i] : z.slot = x.slot /\ z.req = x.req BY <2>2, <2>3 DEF Owned
  <2>5. PICK w \in log'[i] : w.slot = y.slot /\ w.req = y.req BY <2>2, <2>3 DEF Owned
  <2>6. z = w BY <2>4, <2>5 DEF Shape, LogShape
  <2> QED BY <2>4, <2>5, <2>6
<1> QED BY <1>1, <1>2, Kinds

\* A lock is never broken.
LEMMA LockStays ==
    ASSUME TypeOK, TypeOK', Safety, Shape', Advance,
           NEW s \in Slot, NEW v \in Command, NEW b \in Ballot, NEW Q \in Quorum, Lock(s, v, b, Q)
    PROVE  Lock(s, v, b, Q)'
<1>1. Led(b) /\ Led(b)' BY LedStays DEF Lock
<1>2. ASSUME NEW q \in Q
      PROVE  /\ \E y \in log'[q] : y.slot = s /\ y.ballot >= b
             /\ \A c \in Ballot : c > b => Reports(q, c, s, b)'
  <2>1. q \in Replica BY DEF Quorum
  <2>2. PICK y \in log[q] : y.slot = s /\ y.ballot >= b BY DEF Lock
  <2>3. PICK z \in log'[q] : z.slot = y.slot /\ z.ballot >= y.ballot BY <2>1, AdvanceReplica
  <2>4. y.ballot \in Nat /\ z.ballot \in Nat /\ b \in Nat
    <3>1. y \in Record /\ z \in Record BY <2>1 DEF TypeOK
    <3> QED BY <3>1, BallotNat DEF Record
  <2>5. z.slot = s /\ z.ballot >= b BY <2>2, <2>3, <2>4
  <2>6. ASSUME NEW c \in Ballot, c > b PROVE Reports(q, c, s, b)'
    <3>1. Reports(q, c, s, b) BY <2>6 DEF Lock
    <3> QED BY <2>1, <2>2, <3>1, ReportsStay
  <2> QED BY <2>5, <2>6
<1>3. ASSUME NEW i \in Replica, Leading(i)', ballot'[i] >= b
      PROVE  \E y \in log'[i] : y.slot = s /\ y.req = v
  <2>1. ballot'[i] = ballot[i] /\ (Leading(i) \/ TookOver(i)) BY <1>3, AdvanceReplica
  <2>2. CASE Leading(i)
    <3>1. PICK y \in log[i] : y.slot = s /\ y.req = v BY <1>3, <2>1, <2>2 DEF Lock
    <3> QED BY <2>2, <3>1, AdvanceReplica
  <2>3. CASE TookOver(i)
    <3>1. Owner(ballot[i]) = i /\ preparing[i] BY <2>3 DEF TookOver
    <3>2. ballot[i] \in Nat /\ b \in Nat BY BallotTypes, BallotNat
    <3>3. ballot[i] # b BY <1>1, <3>1, <3>2 DEF Led
    <3>4. b < ballot[i] BY <1>3, <2>1, <3>2, <3>3
    <3> QED BY <2>3, <3>4 DEF TookOver
  <2> QED BY <2>1, <2>2, <2>3
<1>4. ASSUME NEW x \in Known', x.slot = s, x.ballot >= b PROVE x.req = v
  <2>1. CASE Old(x) BY <1>4, <2>1 DEF Old, Lock
  <2>2. CASE \E i \in Replica : By(i, x)
    <3>1. PICK i \in Replica : By(i, x) BY <2>2
    <3>2. PICK z \in log'[i] : z.slot = x.slot /\ z.req = x.req BY <3>1 DEF By
    <3>3. Leading(i)' /\ ballot'[i] >= b BY <1>4, <3>1 DEF By
    <3>4. PICK w \in log'[i] : w.slot = s /\ w.req = v BY <1>3, <3>3
    <3>5. z = w BY <1>4, <3>2, <3>4 DEF Shape, LogShape
    <3> QED BY <3>2, <3>4, <3>5
  <2> QED BY <2>1, <2>2, Kinds
<1> QED BY <1>1, <1>2, <1>3, <1>4 DEF Lock

\* What was voted for is remembered: in the log, and in every later promise.
LEMMA VotesStay ==
    ASSUME TypeOK, TypeOK', Safety, Shape', Advance
    PROVE  VoteInv'
<1> SUFFICES ASSUME NEW q \in Replica, NEW b \in Ballot, NEW s \in Slot, Voted(q, b, s)'
             PROVE  /\ Led(b)'
                    /\ ballot'[Owner(b)] = b => \E y \in log'[Owner(b)] : y.slot = s
                    /\ ballot'[q] >= b
                    /\ \E y \in log'[q] : y.slot = s /\ (y.ballot >= b \/ y.committed)
                    /\ \A c \in Ballot : c > b => Tells(q, c, s, b)'
  BY DEF VoteInv
<1> DEFINE o == Owner(b)
<1>1. o \in Replica BY OwnerType, BallotNat
<1>2. /\ b \in Nat /\ ballot[q] \in Nat /\ ballot'[q] \in Nat
      /\ ballot[o] \in Nat /\ ballot'[o] \in Nat
      /\ ballot[q] <= ballot'[q] /\ ballot[o] <= ballot'[o]
  BY <1>1, BallotTypes, BallotNat, AdvanceReplica
<1>3. CASE Voted(q, b, s)
  <2>1. /\ Led(b)
        /\ ballot[o] = b => \E y \in log[o] : y.slot = s
        /\ ballot[q] >= b
        /\ \E y \in log[q] : y.slot = s /\ (y.ballot >= b \/ y.committed)
        /\ \A c \in Ballot : c > b => Tells(q, c, s, b)
    BY <1>3 DEF Safety, VoteInv
  <2>2. Led(b)' BY <2>1, LedStays
  <2>3. ASSUME ballot'[o] = b PROVE \E y \in log'[o] : y.slot = s
    <3>1. ballot[o] = b BY <1>2, <2>1, <2>3 DEF Led
    <3>2. PICK y \in log[o] : y.slot = s BY <2>1, <3>1
    <3> QED BY <1>1, <3>2, AdvanceReplica
  <2>4. PICK y \in log[q] : y.slot = s /\ (y.ballot >= b \/ y.committed) BY <2>1
  <2>5. PICK z \in log'[q] : /\ z.slot = y.slot /\ z.ballot >= y.ballot
                             /\ y.committed => z.committed \/ z.ballot = ballot'[q]
    BY AdvanceReplica
  <2>6. y.ballot \in Nat /\ z.ballot \in Nat
    <3>1. y \in Record /\ z \in Record BY DEF TypeOK
    <3> QED BY <3>1, BallotNat DEF Record
  <2>7. z.slot = s /\ (z.ballot >= b \/ z.committed) BY <1>2, <2>1, <2>4, <2>5, <2>6
  <2>8. \A c \in Ballot : c > b => Tells(q, c, s, b)' BY <2>1, <2>4, TellsStay
  <2> QED BY <1>2, <2>1, <2>2, <2>3, <2>7, <2>8
<1>4. CASE FreshVote(q, b, s)
  <2>1. /\ ballot'[q] = b /\ Led(b)'
        /\ ballot'[o] = b => \E y \in log'[o] : y.slot = s
        /\ \E y \in log'[q] : y.slot = s /\ (y.ballot >= b \/ y.committed)
    BY <1>4 DEF FreshVote
  <2>2. ASSUME NEW c \in Ballot, c > b PROVE Tells(q, c, s, b)'
    <3>1. ASSUME NEW p \in Pages(q, c)' PROVE FALSE
      <4>1. p \in Promised' /\ p.from = q /\ p.ballot = c BY <3>1 DEF Pages
      <4>2. c <= ballot'[q] BY <4>1 DEF Shape, PromiseShape, GoodPromise
      <4>3. c \in Nat BY BallotNat
      <4> QED BY <1>2, <2>1, <2>2, <4>2, <4>3
    <3>2. ~Whole(q, c)' BY <3>1 DEF Whole
    <3> QED BY <3>2 DEF Tells
  <2> QED BY <1>2, <2>1, <2>2
<1> QED BY <1>3, <1>4 DEF Advance

\* Locks hold values of their type; a committed record has one.
LEMMA LockOf ==
    ASSUME TypeOK, Safety, NEW x \in Known, x.committed
    PROVE  \E b \in Ballot, Q \in Quorum : b <= x.ballot /\ Lock(x.slot, x.req, b, Q)
BY DEF Safety, Locked

\* Safe,
LEMMA SafeStays ==
    ASSUME TypeOK, TypeOK', Safety, Shape', Advance
    PROVE  Safe'
<1> SUFFICES ASSUME NEW x \in Known', NEW y \in Known', x.slot = y.slot, y.ballot < x.ballot,
                    CanChoose(y.ballot, y.slot)'
             PROVE  x.req = y.req
  BY DEF Safe
<1>1. x \in Record /\ y \in Record BY KnownTypeNext
<1>2. /\ x.ballot \in Ballot /\ y.ballot \in Ballot /\ x.ballot \in Nat /\ y.ballot \in Nat
      /\ x.slot \in Slot /\ y.slot \in Slot /\ x.req \in Command /\ y.req \in Command
  BY <1>1, BallotNat DEF Record
<1>3. CanChoose(y.ballot, y.slot) BY <1>2, ChoiceShrinks
\* If the request of x or y is locked at or below y's ballot, both are that request.
<1>4. ASSUME NEW v \in Command, NEW b \in Ballot, NEW Q \in Quorum, b <= y.ballot,
             Lock(x.slot, v, b, Q)
      PROVE  x.req = y.req
  <2>1. Lock(x.slot, v, b, Q)' BY <1>2, <1>4, LockStays
  <2>2. b \in Nat BY BallotNat
  <2>3. x.ballot >= b /\ y.ballot >= b BY <1>2, <1>4, <2>2
  <2>4. x.req = v /\ y.req = v BY <2>1, <2>3 DEF Lock
  <2> QED BY <2>4
<1>5. CASE Old(y)
  <2>1. PICK w \in Known : w.slot = y.slot /\ w.ballot = y.ballot /\ w.req = y.req
    BY <1>5 DEF Old
  <2>2. CASE Old(x)
    <3>1. PICK z \in Known : z.slot = x.slot /\ z.ballot = x.ballot /\ z.req = x.req
      BY <2>2 DEF Old
    <3> QED BY <1>3, <2>1, <3>1 DEF Safety, Safe
  <2>3. CASE \E i \in Replica : Copied(i, x)
    <3>1. PICK i \in Replica : Copied(i, x) BY <2>3
    <3>2. PICK c \in log[i] : c.slot = x.slot /\ c.req = x.req /\ c.committed
      BY <3>1 DEF Copied
    <3>3. c \in Known BY <3>2, InKnown
    <3>4. PICK b \in Ballot, Q \in Quorum : b <= c.ballot /\ Lock(c.slot, c.req, b, Q)
      BY <3>2, <3>3, LockOf
    <3>5. CASE b <= y.ballot BY <1>2, <1>4, <3>2, <3>4, <3>5
    <3>6. CASE ~(b <= y.ballot)
      <4>1. c.ballot \in Nat /\ b \in Nat
        <5>1. c \in Record BY <3>3, KnownType
        <5> QED BY <5>1, BallotNat DEF Record
      <4>2. w.ballot < c.ballot BY <1>2, <2>1, <3>4, <3>6, <4>1
      <4>3. c.req = w.req BY <1>3, <2>1, <3>2, <3>3, <4>2 DEF Safety, Safe
      <4> QED BY <2>1, <3>2, <4>3
    <3> QED BY <3>5, <3>6
  <2>4. CASE Fresh(x)
    <3>1. PICK i \in Replica : Stays(i, x.ballot) /\ \A z \in log[i] : z.slot # x.slot
      BY <2>4 DEF Fresh
    <3>2. Leading(i) /\ ballot[i] = x.ballot BY <3>1 DEF Stays
    <3>3. ~CanChoose(y.ballot, x.slot) BY <1>2, <3>1, <3>2 DEF Safety, Established
    <3> QED BY <1>3, <3>3
  <2>5. CASE Adopted(x)
    <3>1. w.slot = x.slot /\ w.ballot < x.ballot /\ CanChoose(w.ballot, w.slot) BY <1>3, <2>1
    <3>2. w.req = x.req BY <2>5, <3>1 DEF Adopted
    <3> QED BY <2>1, <3>2
  <2> QED BY <2>2, <2>3, <2>4, <2>5, Kinds
<1>6. ASSUME NEW i \in Replica, By(i, y),
             Copied(i, y) \/ (Fresh(y) /\ Leading(i)) \/ (Adopted(y) /\ TookOver(i))
      PROVE  x.req = y.req
  <2>1. Elected(x.ballot) BY NextElected
  <2>2. PICK q \in Replica : Voted(q, y.ballot, y.slot) BY <1>2, <1>3, <2>1, Proposed
  <2>3. /\ Led(y.ballot)
        /\ ballot[Owner(y.ballot)] = y.ballot => \E z \in log[Owner(y.ballot)] : z.slot = y.slot
    BY <1>2, <2>2 DEF Safety, VoteInv
  <2>4. Owner(y.ballot) = i /\ ballot[i] = y.ballot BY <1>6 DEF By
  <2>5. PICK z \in log[i] : z.slot = y.slot BY <2>3, <2>4
  <2>6. CASE Copied(i, y)
    <3>1. PICK c \in log[i] : c.slot = y.slot /\ c.req = y.req /\ c.committed
      BY <2>6 DEF Copied
    <3>2. c \in Known BY <3>1, InKnown
    <3>3. PICK b \in Ballot, Q \in Quorum : b <= c.ballot /\ Lock(c.slot, c.req, b, Q)
      BY <3>1, <3>2, LockOf
    <3>4. c.ballot \in Nat /\ b \in Nat
      <4>1. c \in Record BY <3>2, KnownType
      <4> QED BY <4>1, BallotNat DEF Record
    <3>5. CASE b <= y.ballot BY <1>2, <1>4, <3>1, <3>3, <3>5
    <3>6. CASE ~(b <= y.ballot)
      \* The record of a leader is not of a later ballot.
      <4>1. PICK d \in log'[i] : d.slot = c.slot /\ d.ballot >= c.ballot BY AdvanceReplica
      <4>2. d.ballot <= ballot'[i] BY DEF Shape, LogShape
      <4>3. d.ballot \in Nat
        <5>1. d \in Record BY DEF TypeOK
        <5> QED BY <5>1, BallotNat DEF Record
      <4>4. c.ballot <= y.ballot BY <1>2, <1>6, <3>4, <4>1, <4>2, <4>3 DEF By
      <4> QED BY <1>2, <3>3, <3>4, <3>6, <4>4
    <3> QED BY <3>5, <3>6
  <2>7. CASE Fresh(y) /\ Leading(i)
    <3>1. PICK k \in Replica : Stays(k, y.ballot) /\ \A w \in log[k] : w.slot # y.slot
      BY <2>7 DEF Fresh
    <3>2. k = i BY <2>4, <3>1 DEF Stays, Leading
    <3> QED BY <2>5, <3>1, <3>2
  <2>8. CASE TookOver(i)
    <3>1. preparing[i] BY <2>8 DEF TookOver
    <3>2. ballot[i] \in Nat BY BallotTypes, BallotNat
    <3> QED BY <2>3, <2>4, <3>1, <3>2 DEF Led
  <2> QED BY <1>6, <2>6, <2>7, <2>8
<1> QED BY <1>5, <1>6, Kinds

\* A leader whose record won a majority locks it, unless the slot is locked.
LEMMA WinnerLocks ==
    ASSUME TypeOK, Safety, Shape,
           NEW i \in Replica, Leading(i), NEW y \in log[i], y.ballot = ballot[i], Won(i, y.slot)
    PROVE  \E b \in Ballot, Q \in Quorum : b <= y.ballot /\ Lock(y.slot, y.req, b, Q)
<1> DEFINE b == y.ballot
           s == y.slot
<1>1. y \in Known BY InKnown
<1>2. y \in Record BY <1>1, KnownType
<1>3. b \in Ballot /\ s \in Slot /\ b \in Nat /\ y.req \in Command BY <1>2, BallotNat DEF Record
<1>4. PICK Q \in Quorum : \A q \in Q : q = i \/ Voted(q, b, s) BY DEF Won
<1>5. Owner(b) = i BY DEF Leading
<1>6. CASE \E z \in Known : z.slot = s /\ z.committed /\ z.ballot < b
  <2>1. PICK z \in Known : z.slot = s /\ z.committed /\ z.ballot < b BY <1>6
  <2>2. PICK c \in Ballot, P \in Quorum : c <= z.ballot /\ Lock(z.slot, z.req, c, P)
    BY <2>1, LockOf
  <2>3. c \in Nat /\ z.ballot \in Nat
    <3>1. z \in Record BY KnownType
    <3> QED BY <3>1, BallotNat DEF Record
  <2>4. b >= c BY <1>3, <2>1, <2>2, <2>3
  <2>5. y.req = z.req BY <1>1, <2>1, <2>2, <2>4 DEF Lock
  <2>6. Lock(s, y.req, c, P) BY <2>1, <2>2, <2>5
  <2> QED BY <1>3, <2>3, <2>4, <2>6
<1>7. CASE ~\E z \in Known : z.slot = s /\ z.committed /\ z.ballot < b
  <2>0. ASSUME NEW z \in Known, z.slot = s, z.ballot >= b \/ z.committed PROVE z.ballot >= b
    <3>1. z \in Record BY KnownType
    <3>2. z.ballot \in Nat BY <3>1, BallotNat DEF Record
    <3> QED BY <1>3, <1>7, <2>0, <3>2
  <2>1. Led(b) BY <1>5 DEF Led, Leading
  <2>2. ASSUME NEW q \in Q
        PROVE  /\ \E z \in log[q] : z.slot = s /\ z.ballot >= b
               /\ \A c \in Ballot : c > b => Reports(q, c, s, b)
    <3>0. q \in Replica BY DEF Quorum
    <3>1. CASE Voted(q, b, s)
      <4>1. /\ \E z \in log[q] : z.slot = s /\ (z.ballot >= b \/ z.committed)
            /\ \A c \in Ballot : c > b => Tells(q, c, s, b)
        BY <1>3, <3>0, <3>1 DEF Safety, VoteInv
      <4>2. PICK z \in log[q] : z.slot = s /\ (z.ballot >= b \/ z.committed) BY <4>1
      <4>3. z \in Known BY <3>0, InKnown
      <4>4. z.ballot >= b BY <2>0, <4>2, <4>3
      <4>5. ASSUME NEW c \in Ballot, c > b PROVE Reports(q, c, s, b)
        <5> SUFFICES ASSUME Whole(q, c), \A p \in Pages(q, c) : p.floor <= s
                     PROVE  \E p \in Pages(q, c) : \E w \in p.recs : w.slot = s /\ w.ballot >= b
          BY DEF Reports
        <5>1. PICK p \in Pages(q, c) : \E w \in p.recs :
                     w.slot = s /\ (w.ballot >= b \/ w.committed)
          BY <4>1, <4>5 DEF Tells
        <5>2. PICK w \in p.recs : w.slot = s /\ (w.ballot >= b \/ w.committed) BY <5>1
        <5>3. w \in Known BY InKnown DEF Pages
        <5>4. w.ballot >= b BY <2>0, <5>2, <5>3
        <5> QED BY <5>2, <5>4
      <4> QED BY <4>2, <4>4, <4>5
    <3>2. CASE q = i
      <4>1. y.ballot >= b BY <1>3
      <4>2. ASSUME NEW c \in Ballot, c > b PROVE Reports(q, c, s, b)
        <5>1. ASSUME NEW p \in Pages(q, c) PROVE FALSE
          <6>1. p \in Promised /\ p.from = q /\ p.ballot = c BY <5>1 DEF Pages
          <6>2. c <= ballot[q] BY <6>1 DEF Shape, PromiseShape, GoodPromise
          <6> QED BY <1>3, <3>2, <4>2, <6>2, BallotNat
        <5> QED BY <5>1 DEF Reports, Whole
      <4> QED BY <3>2, <4>1, <4>2
    <3> QED BY <1>4, <3>1, <3>2
  <2>3. CanChoose(b, s)
    <3>1. \A q \in Q : ballot[q] <= b \/ Voted(q, b, s) BY <1>3, <1>4
    <3> QED BY <3>1 DEF CanChoose
  <2>4. ASSUME NEW z \in Known, z.slot = s, z.ballot >= b PROVE z.req = y.req
    <3>1. z \in Record BY KnownType
    <3>2. z.ballot \in Nat BY <3>1, BallotNat DEF Record
    <3>3. CASE z.ballot = b BY <1>1, <2>4, <3>3 DEF Safety, OneValue
    <3>4. CASE b < z.ballot BY <1>1, <2>3, <2>4, <3>4 DEF Safety, Safe
    <3> QED BY <1>3, <2>4, <3>2, <3>3, <3>4
  <2>5. ASSUME NEW k \in Replica, Leading(k), ballot[k] >= b
        PROVE  \E z \in log[k] : z.slot = s /\ z.req = y.req
    <3>1. ballot[k] \in Nat BY BallotNat DEF TypeOK
    <3>2. CASE ballot[k] = b
      <4>1. k = i BY <1>5, <2>5, <3>2 DEF Leading
      <4> QED BY <4>1
    <3>3. CASE b < ballot[k]
      <4>1. PICK z \in log[k] : z.slot = s BY <1>3, <2>3, <2>5, <3>3 DEF Safety, Established
      <4>2. z.ballot = ballot[k] \/ z.committed BY <2>5 DEF Shape, LogShape
      <4>3. z \in Known BY InKnown
      <4>4. z.ballot >= b BY <2>0, <2>5, <4>1, <4>2, <4>3
      <4>5. z.req = y.req BY <2>4, <4>1, <4>3, <4>4
      <4> QED BY <4>1, <4>5
    <3> QED BY <1>3, <2>5, <3>1, <3>2, <3>3
  <2>6. Lock(s, y.req, b, Q) BY <2>1, <2>2, <2>4, <2>5 DEF Lock
  <2> QED BY <1>3, <2>6
<1> QED BY <1>6, <1>7

\* A command that a step commits, or that has been committed, is locked before
\* the step.
LEMMA DecisionLocked ==
    ASSUME TypeOK, TypeOK', Safety, Shape, Advance, NEW x \in Known', x.committed
    PROVE  \E b \in Ballot, Q \in Quorum : b <= x.ballot /\ Lock(x.slot, x.req, b, Q)
<1>1. x \in Record BY KnownTypeNext
<1>2. x.ballot \in Nat /\ x.slot \in Slot /\ x.req \in Command BY <1>1, BallotNat DEF Record
<1>3. CASE x \in Known BY <1>3, LockOf
<1>4. CASE Restated(x)
  <2>1. PICK i \in Replica : Stays(i, x.ballot) /\ \E y \in log[i] :
            /\ y.slot = x.slot /\ y.req = x.req
            /\ y.ballot = x.ballot \/ y.committed
            /\ x.committed => y.committed \/ (y.ballot = x.ballot /\ Won(i, x.slot))
    BY <1>4 DEF Restated
  <2>2. PICK y \in log[i] :
            /\ y.slot = x.slot /\ y.req = x.req
            /\ y.committed \/ (y.ballot = x.ballot /\ Won(i, x.slot))
    BY <2>1
  <2>3. Leading(i) /\ ballot[i] = x.ballot BY <2>1 DEF Stays
  <2>4. y \in Known BY InKnown
  <2>5. y \in Record BY <2>4, KnownType
  <2>6. y.ballot \in Nat /\ y.ballot <= x.ballot
    BY <2>3, <2>5, BallotNat DEF Record, Shape, LogShape
  <2>7. \E b \in Ballot, Q \in Quorum : b <= y.ballot /\ Lock(y.slot, y.req, b, Q)
    <3>1. CASE y.committed BY <2>4, <3>1, LockOf
    <3>2. CASE y.ballot = x.ballot /\ Won(i, x.slot)
      <4>1. y.ballot = ballot[i] /\ Won(i, y.slot) BY <2>2, <2>3, <3>2
      <4> QED BY <2>3, <4>1, WinnerLocks
    <3> QED BY <2>2, <3>1, <3>2
  <2>8. PICK b \in Ballot, Q \in Quorum : b <= y.ballot /\ Lock(y.slot, y.req, b, Q) BY <2>7
  <2>9. b \in Nat BY BallotNat
  <2>10. b <= x.ballot BY <1>2, <2>6, <2>8, <2>9
  <2>11. Lock(x.slot, x.req, b, Q) BY <2>2, <2>8
  <2> QED BY <2>10, <2>11
<1>5. ~Fresh(x) /\ ~Adopted(x) BY DEF Fresh, Adopted
<1> QED BY <1>3, <1>4, <1>5 DEF Advance

\* Locked,
LEMMA LockedStays ==
    ASSUME TypeOK, TypeOK', Safety, Shape, Shape', Advance
    PROVE  Locked'
<1> SUFFICES ASSUME NEW x \in Known', x.committed
             PROVE  \E b \in Ballot, Q \in Quorum : b <= x.ballot /\ Lock(x.slot, x.req, b, Q)'
  BY DEF Locked
<1>1. x \in Record BY KnownTypeNext
<1>2. x.slot \in Slot /\ x.req \in Command BY <1>1 DEF Record
<1>3. PICK b \in Ballot, Q \in Quorum : b <= x.ballot /\ Lock(x.slot, x.req, b, Q)
  BY DecisionLocked
<1>4. Lock(x.slot, x.req, b, Q)' BY <1>2, <1>3, LockStays
<1> QED BY <1>3, <1>4

\* Established.
LEMMA EstablishedStays ==
    ASSUME TypeOK, TypeOK', Safety, Advance
    PROVE  Established'
<1> SUFFICES ASSUME NEW i \in Replica, Leading(i)'
             PROVE  /\ Elected(ballot[i])'
                    /\ \A s \in Slot, b \in Ballot :
                          b < ballot'[i] /\ (\A y \in log'[i] : y.slot # s) => ~CanChoose(b, s)'
  BY DEF Established
<1>1. ballot'[i] = ballot[i] /\ (Leading(i) \/ TookOver(i)) BY AdvanceReplica
<1>2. ballot[i] \in Ballot BY BallotTypes
<1>3. Elected(ballot[i]) BY <1>1 DEF Safety, Established, TookOver
<1>4. \A q \in Replica : ballot[q] <= ballot'[q] BY AdvanceReplica
<1>5. Elected(ballot[i])'
  <2> DEFINE b == ballot[i]
  <2>1. PICK Q \in Quorum : \A q \in Q : ballot[q] >= b BY <1>3 DEF Elected
  <2>2. \A q \in Q : ballot'[q] >= b
    <3> TAKE q \in Q
    <3>1. q \in Replica BY DEF Quorum
    <3>2. ballot[q] \in Nat /\ ballot'[q] \in Nat /\ b \in Nat
      BY <1>2, <3>1, BallotTypes, BallotNat
    <3> QED BY <1>4, <2>1, <3>1, <3>2
  <2> QED BY <1>1, <2>2 DEF Elected
<1>6. ASSUME NEW s \in Slot, NEW b \in Ballot, b < ballot'[i], \A y \in log'[i] : y.slot # s
      PROVE  ~CanChoose(b, s)'
  <2>1. ~CanChoose(b, s)
    <3>1. CASE Leading(i)
      <4>1. \A y \in log[i] : y.slot # s BY <1>6, AdvanceReplica
      <4> QED BY <1>1, <1>6, <3>1, <4>1 DEF Safety, Established
    <3>2. CASE TookOver(i) BY <1>1, <1>6, <3>2 DEF TookOver
    <3> QED BY <1>1, <3>1, <3>2
  <2> QED BY <2>1, ChoiceShrinks
<1> QED BY <1>5, <1>6

\* Every step that advances the protocol keeps Safety.
LEMMA SafetyStays ==
    ASSUME TypeOK, TypeOK', Safety, Shape, Shape', Advance
    PROVE  Safety'
BY VotesStay, OneValueStays, OwnedStays, SafeStays, LockedStays, EstablishedStays DEF Safety

-----------------------------------------------------------------------------
(***************************************************************************)
(* What Safety says of decisions.                                          *)
(***************************************************************************)
LEMMA LocksAgree ==
    ASSUME TypeOK, NEW s \in Slot, NEW v, NEW w, NEW b \in Ballot, NEW c \in Ballot,
           NEW P \in Quorum, NEW Q \in Quorum, Lock(s, v, b, P), Lock(s, w, c, Q)
    PROVE  v = w
<1>1. \A u1, u2, b1, b2 : \A Q2 \in Quorum :
         b1 \in Ballot /\ b2 \in Ballot /\ b1 <= b2
         /\ (\A y \in Known : y.slot = s /\ y.ballot >= b1 => y.req = u1)
         /\ (\A y \in Known : y.slot = s /\ y.ballot >= b2 => y.req = u2)
         /\ (\A q \in Q2 : \E y \in log[q] : y.slot = s /\ y.ballot >= b2)
         => u1 = u2
  <2> SUFFICES ASSUME NEW u1, NEW u2, NEW b1 \in Ballot, NEW b2 \in Ballot,
                      NEW Q2 \in Quorum, b1 <= b2,
                      \A y \in Known : y.slot = s /\ y.ballot >= b1 => y.req = u1,
                      \A y \in Known : y.slot = s /\ y.ballot >= b2 => y.req = u2,
                      \A q \in Q2 : \E y \in log[q] : y.slot = s /\ y.ballot >= b2
               PROVE  u1 = u2
    OBVIOUS
  <2>1. PICK q \in Q2 : TRUE BY QuorumsMeet
  <2>2. q \in Replica BY DEF Quorum
  <2>3. PICK y \in log[q] : y.slot = s /\ y.ballot >= b2 BY <2>1
  <2>4. y \in Known BY <2>2, InKnown
  <2>5. y \in Record BY <2>4, KnownType
  <2>6. y.ballot \in Nat /\ b1 \in Nat /\ b2 \in Nat BY <2>5, BallotNat DEF Record
  <2>7. y.ballot >= b1 BY <2>3, <2>6
  <2> QED BY <2>3, <2>4, <2>7
<1>2. b \in Nat /\ c \in Nat BY BallotNat
<1>3. /\ \A y \in Known : y.slot = s /\ y.ballot >= b => y.req = v
      /\ \A q \in P : \E y \in log[q] : y.slot = s /\ y.ballot >= b
  BY DEF Lock
<1>4. /\ \A y \in Known : y.slot = s /\ y.ballot >= c => y.req = w
      /\ \A q \in Q : \E y \in log[q] : y.slot = s /\ y.ballot >= c
  BY DEF Lock
<1>5. CASE b <= c BY <1>1, <1>3, <1>4, <1>5
<1>6. CASE c <= b BY <1>1, <1>3, <1>4, <1>6
<1> QED BY <1>2, <1>5, <1>6

\* Safety implies what the runs check: agreement,
LEMMA SafetyAgrees == TypeOK /\ Safety => Agreement
<1> SUFFICES ASSUME TypeOK, Safety, NEW i \in Replica, NEW j \in Replica,
                    NEW r \in log[i], NEW q \in log[j],
                    r.slot = q.slot, r.committed, q.committed
             PROVE  r.req = q.req
  BY DEF Agreement
<1>1. r \in Known /\ q \in Known BY InKnown
<1>2. r \in Record /\ q \in Record BY <1>1, KnownType
<1>3. PICK b \in Ballot, P \in Quorum : Lock(r.slot, r.req, b, P) BY <1>1, LockOf
<1>4. PICK c \in Ballot, Q \in Quorum : Lock(q.slot, q.req, c, Q) BY <1>1, LockOf
<1>5. r.slot \in Slot BY <1>2 DEF Record
<1>6. Lock(r.slot, q.req, c, Q) BY <1>4
<1> QED BY <1>3, <1>5, <1>6, LocksAgree

\* no conflicting decision,
LEMMA SafetyNoConflict == TypeOK /\ Shape /\ Safety => NoConflictingDecision
<1> SUFFICES ASSUME TypeOK, Shape, Safety, NEW m \in msgs,
                    m.kind \in {"Accept", "Commit"}, Handled(m.to, m),
                    NEW r \in m.recs, NEW q \in log[m.to], r.slot = q.slot, q.committed
             PROVE  r.req = q.req
  BY DEF NoConflictingDecision
<1>1. m \in Packet BY DEF TypeOK
<1>2. m.to \in Replica BY <1>1, PacketFields
<1>3. m.ballot = ballot[m.to] BY DEF Handled, FromLeader
<1>4. r.ballot = m.ballot BY DEF Shape, Traffic, GoodPacket
<1>5. q.ballot <= ballot[m.to] BY <1>2 DEF Shape, LogShape
<1>6. r \in Known /\ q \in Known BY <1>2, InKnown
<1>7. r \in Record /\ q \in Record BY <1>6, KnownType
<1>8. r.ballot \in Nat /\ q.ballot \in Nat BY <1>7, BallotNat DEF Record
<1>9. PICK b \in Ballot, P \in Quorum : b <= q.ballot /\ Lock(q.slot, q.req, b, P)
  BY <1>6, LockOf
<1>10. b \in Nat BY BallotNat
<1>11. r.ballot >= b BY <1>3, <1>4, <1>5, <1>8, <1>9, <1>10
<1> QED BY <1>6, <1>9, <1>11 DEF Lock

\* complete leaders.
LEMMA SafetyCompletes == TypeOK /\ Shape /\ Safety => LeaderCompleteness
<1> SUFFICES ASSUME TypeOK, Shape, Safety, NEW i \in Replica, NEW j \in Replica,
                    NEW r \in log[j], leader[i] = i, ~preparing[i],
                    r.committed, r.ballot <= ballot[i]
             PROVE  \E q \in log[i] : q.slot = r.slot /\ q.req = r.req
  BY DEF LeaderCompleteness
<1>1. Leading(i) BY DEF Leading, Shape, Leads
<1>2. r \in Known BY InKnown
<1>3. r \in Record BY <1>2, KnownType
<1>4. r.ballot \in Nat /\ ballot[i] \in Nat BY <1>3, BallotNat DEF Record, TypeOK
<1>5. PICK b \in Ballot, P \in Quorum : b <= r.ballot /\ Lock(r.slot, r.req, b, P)
  BY <1>2, LockOf
<1>6. b \in Nat BY BallotNat
<1>7. ballot[i] >= b BY <1>4, <1>5, <1>6
<1> QED BY <1>1, <1>5, <1>7 DEF Lock

-----------------------------------------------------------------------------
(***************************************************************************)
(* Steps that change no log.                                               *)
(***************************************************************************)
\* Nobody begins to lead.
NoNewLeader == \A q \in Replica : Leading(q)' => Leading(q) /\ ballot'[q] = ballot[q]

\* No vote is cast.
LEMMA VotedKept ==
    ASSUME \A m \in msgs' : m.kind = "Ack" => m \in msgs,
           \A o \in Replica, s \in Slot : \A q \in votes'[o][s] :
              ballot'[o] = ballot[o] /\ q \in votes[o][s]
    PROVE  \A q \in Replica, b \in Ballot, s \in Slot : Voted(q, b, s)' => Voted(q, b, s)
<1> SUFFICES ASSUME NEW q \in Replica, NEW b \in Ballot, NEW s \in Slot, Voted(q, b, s)'
             PROVE  Voted(q, b, s)
  OBVIOUS
<1>1. CASE \E m \in msgs' : m.kind = "Ack" /\ m.from = q /\ m.ballot = b /\ s \in m.slots
  BY <1>1 DEF Voted
<1>2. CASE ballot'[Owner(b)] = b /\ q \in votes'[Owner(b)][s]
  <2>1. Owner(b) \in Replica BY OwnerType, BallotNat
  <2> QED BY <1>2, <2>1 DEF Voted
<1> QED BY <1>1, <1>2 DEF Voted

\* A step that leaves the logs alone advances the protocol.
LEMMA StillAdvance ==
    ASSUME TypeOK, TypeOK', Shape, log' = log, RoleStep, NoNewLeader,
           \A q \in Replica, b \in Ballot, s \in Slot : Voted(q, b, s)' => Voted(q, b, s),
           \A q \in Replica, c \in Ballot : SamePages(q, c) \/ FreshPages(q, c),
           \A x \in Known' : x \in Known \/ Restated(x)
    PROVE  Advance
<1>1. ASSUME NEW q \in Replica
      PROVE  /\ ballot[q] <= ballot'[q]
             /\ Leading(q)' => ballot'[q] = ballot[q] /\ (Leading(q) \/ TookOver(q))
             /\ Leading(q) /\ ballot'[q] = ballot[q] => Leading(q)'
  BY DEF RoleStep, NoNewLeader
<1>2. ASSUME NEW q \in Replica, NEW y \in log[q]
      PROVE  \E z \in log'[q] : /\ z.slot = y.slot /\ z.ballot >= y.ballot
                                /\ y.committed => z.committed \/ z.ballot = ballot'[q]
                                /\ Leading(q) => z.req = y.req
  <2>1. y \in Record BY DEF TypeOK
  <2>2. y.ballot \in Nat BY <2>1, BallotNat DEF Record
  <2>3. y \in log'[q] /\ y.ballot >= y.ballot BY <2>2
  <2> QED BY <2>3
<1> QED BY <1>1, <1>2 DEF Advance

\* No record is sent, and new promises hold records of the logs.
LEMMA KnownKept ==
    ASSUME log' = log,
           \A m \in msgs' : m.kind \in {"Accept", "Commit"} => m \in msgs,
           \A p \in Promised' : p \in Promised \/ \A x \in p.recs : \E j \in Replica : x \in log[j]
    PROVE  \A x \in Known' : x \in Known
<1> SUFFICES ASSUME NEW x \in Known' PROVE x \in Known OBVIOUS
<1>1. CASE \E i \in Replica : x \in log'[i] BY <1>1, InKnown
<1>2. CASE \E m \in msgs' : m.kind \in {"Accept", "Commit"} /\ x \in m.recs BY <1>2, InKnown
<1>3. CASE \E p \in Promised' : x \in p.recs BY <1>3, InKnown
<1> QED BY <1>1, <1>2, <1>3, InKnownNext

\* Idle steps cast no vote and make no leader.
LEMMA IdleVotes ==
    ASSUME Idle, \A m \in msgs' : m.kind = "Ack" => m \in msgs
    PROVE  \A q \in Replica, b \in Ballot, s \in Slot : Voted(q, b, s)' => Voted(q, b, s)
BY VotedKept DEF Idle

LEMMA IdleLeads == ASSUME Idle PROVE NoNewLeader
BY DEF Idle, NoNewLeader, Leading

\* A step that moves packets only, none of them with new records.
LEMMA IdleAdvance ==
    ASSUME TypeOK, TypeOK', Shape, Idle, Promised' \subseteq Promised,
           \A m \in msgs' : m.kind = "Ack" => m \in msgs,
           \A x \in Known' : x \in Known \/ Restated(x)
    PROVE  Advance
<1>1. RoleStep BY IdleRoles
<1>2. \A q \in Replica, c \in Ballot : SamePages(q, c)
  BY <1>1, UnpromisedKept DEF Unpromised, Idle
<1>3. log' = log BY DEF Idle
<1> QED BY <1>1, <1>2, <1>3, IdleVotes, IdleLeads, StillAdvance

\* Requests, followers' ticks, Forwards, losses and crashes.
LEMMA QuietAdvances ==
    ASSUME TypeOK, TypeOK', Shape, QuietStep
    PROVE  Shape' /\ Advance
<1>1. Idle /\ \A m \in msgs' : m \in msgs \/ m.kind = "Forward" BY QuietIdle
<1>2. Shape' /\ Promised' \subseteq Promised BY <1>1, QuietShape
<1>3. \A x \in Known' : x \in Known BY <1>1, <1>2, KnownKept DEF Idle
<1>4. \A m \in msgs' : m.kind = "Ack" => m \in msgs BY <1>1
<1> QED BY <1>1, <1>2, <1>3, <1>4, IdleAdvance

\* A leader sends the records that were asked for.
LEMMA FetchAdvances ==
    ASSUME TypeOK, TypeOK', Shape, NEW i \in Replica, NEW m \in msgs, m.to = i, ReceiveFetch(i, m)
    PROVE  Shape' /\ Advance
<1>1. /\ Shape' /\ Idle /\ Owner(ballot[i]) = i /\ Led(ballot[i])
      /\ \A x \in msgs' : x \in msgs \/
            /\ x.kind \in {"Accept", "Commit"} /\ RecordsOf(x.recs, ballot[i], log[i])
  BY ShapeReceiveFetch
<1>2. Leading(i)
  <2>1. ballot[i] \in Nat BY BallotTypes
  <2> QED BY <1>1, <2>1 DEF Led, Leading
<1>3. Promised' \subseteq Promised BY <1>1, IdlePromised
<1>4. \A x \in msgs' : x.kind = "Ack" => x \in msgs BY <1>1
<1>5. ASSUME NEW x \in Known' PROVE x \in Known \/ Restated(x)
  <2>1. CASE \E j \in Replica : x \in log'[j] BY <1>1, <2>1, InKnown DEF Idle
  <2>2. CASE \E p \in Promised' : x \in p.recs BY <1>3, <2>2, InKnown
  <2>3. CASE \E p \in msgs' : p.kind \in {"Accept", "Commit"} /\ x \in p.recs
    <3>1. PICK p \in msgs' : p.kind \in {"Accept", "Commit"} /\ x \in p.recs BY <2>3
    <3>2. CASE p \in msgs BY <3>1, <3>2, InKnown
    <3>3. CASE RecordsOf(p.recs, ballot[i], log[i])
      <4>1. PICK y \in log[i] : y.slot = x.slot /\ y.req = x.req /\ (x.committed => y.committed)
        BY <3>1, <3>3 DEF RecordsOf
      <4>2. x.ballot = ballot[i] BY <3>1, <3>3 DEF RecordsOf
      <4>3. y.ballot = ballot[i] \/ y.committed BY <1>2 DEF Shape, LogShape
      <4>4. Stays(i, x.ballot) BY <1>1, <1>2, <4>2 DEF Stays, Idle
      <4> QED BY <4>1, <4>2, <4>3, <4>4 DEF Restated
    <3> QED BY <1>1, <3>2, <3>3
  <2> QED BY <2>1, <2>2, <2>3, InKnownNext
<1> QED BY <1>1, <1>3, <1>4, <1>5, IdleAdvance

-----------------------------------------------------------------------------
(***************************************************************************)
(* Prepare is repeated.                                                    *)
(***************************************************************************)
\* What a candidate asks everybody.
LEMMA PrepareAllPackets ==
    ASSUME NEW i \in Replica, NEW b, NEW x \in PrepareAll(i, b)
    PROVE  /\ x.kind = "Prepare" /\ x.from = i /\ x.to # i /\ x.ballot = b
           /\ x.floor = executed[i] + 1
BY DEF PrepareAll, Prepare, Peers

\* A candidate repeats its Prepare.
LEMMA TickPrepareAdvances ==
    ASSUME TypeOK, TypeOK', Shape, NEW i \in Replica, TickPrepare(i)
    PROVE  Shape' /\ Advance
<1> DEFINE b == ballot[i]
<1>1. Idle BY DEF TickPrepare, Idle, roleVars, logVars, quorumVars
<1>2. preparing[i] /\ \A x \in msgs' : x \in msgs \/ x \in PrepareAll(i, b)
  BY DEF TickPrepare, Emit
<1>3. Owner(b) = i BY <1>2 DEF Shape, Preparation, Prepared
<1>4. \A x \in msgs' : x \in msgs \/
         (x.kind = "Prepare" /\ x.from = i /\ x.to # i /\ x.ballot = b /\ x.floor = executed[i] + 1)
  BY <1>2, PrepareAllPackets
<1>5. RoleStep BY <1>1, IdleRoles
<1>6. Promised' \subseteq Promised BY <1>1, <1>4, IdlePromised
<1>7. Leads' BY <1>1 DEF Idle, Shape, Leads
<1>8. LogShape' BY <1>1, <1>5, IdleLeads, LogKept DEF Idle, NoNewLeader
<1>9. Traffic'
  <2>1. ASSUME NEW x \in msgs', x \notin msgs PROVE GoodPacket(x)'
    <3>1. x.kind = "Prepare" /\ x.from = i /\ x.to # i /\ x.ballot = b BY <1>4, <2>1
    <3>2. ballot'[i] = b /\ b \in Nat BY <1>1, BallotTypes DEF Idle
    <3> QED BY <1>3, <3>1, <3>2 DEF GoodPacket, Begun
  <2> QED BY <1>5, <2>1, TrafficKept DEF Shape
<1>10. PromiseShape' /\ OneSnapshot' BY <1>1, <1>5, <1>6, UnpromisedKept DEF Unpromised, Idle
<1>11. Preparation' BY <1>1, <1>6, PreparationKept DEF SamePreparing, Idle
<1>12. Floors'
  <2> SUFFICES ASSUME NEW c \in Ballot PROVE \E f \in 0..(MaxSlot + 1) : Asked(c, f)'
    BY DEF Floors
  <2>1. PICK f \in 0..(MaxSlot + 1) : Asked(c, f) BY DEF Shape, Floors
  <2>2. Asked(c, f)' BY <1>1, <1>2, <1>4, <1>6, <2>1 DEF Asked, Idle
  <2> QED BY <2>2
<1>13. Shape' BY <1>7, <1>8, <1>9, <1>10, <1>11, <1>12 DEF Shape
<1>14. \A x \in Known' : x \in Known BY <1>1, <1>4, <1>6, KnownKept DEF Idle
<1>15. \A x \in msgs' : x.kind = "Ack" => x \in msgs BY <1>4
<1> QED BY <1>1, <1>6, <1>13, <1>14, <1>15, IdleAdvance

-----------------------------------------------------------------------------
(***************************************************************************)
(* Steps in which a replica moves to the ballot of another.                *)
(***************************************************************************)
LEMMA RoleShape ==
    ASSUME TypeOK, TypeOK', Shape, RoleStep, NoNewLeader, SamePreparing, Leads',
           UNCHANGED <<log, high, executed>>, frozen' = frozen, Promised' \subseteq Promised,
           \A m \in msgs' : m \in msgs \/ (m.kind # "Prepare" /\ GoodPacket(m)')
    PROVE  Shape'
<1>1. LogShape' BY LogKept DEF NoNewLeader
<1>2. Traffic' BY TrafficKept DEF Shape
<1>3. PromiseShape' /\ OneSnapshot' BY UnpromisedKept DEF Unpromised
<1>4. Preparation' /\ Floors' BY PreparationKept
<1> QED BY <1>1, <1>2, <1>3, <1>4 DEF Shape

\* A packet of a leader moves i to its ballot.
LEMMA Follows ==
    ASSUME TypeOK, TypeOK', Shape, NEW i \in Replica, NEW b \in Ballot, NEW o \in Replica,
           Owner(b) = o, o # i, b > ballot[i],
           ballot' = [ballot EXCEPT ![i] = b], leader' = [leader EXCEPT ![i] = o],
           preparing' = [preparing EXCEPT ![i] = FALSE]
    PROVE  RoleStep /\ NoNewLeader /\ Leads'
<1>1. /\ ballot'[i] = b /\ leader'[i] = o /\ ~preparing'[i]
      /\ \A j \in Replica : j # i => /\ ballot'[j] = ballot[j] /\ leader'[j] = leader[j]
                                   /\ preparing'[j] = preparing[j]
  BY DEF TypeOK
<1>2. b \in Nat /\ ballot[i] \in Nat BY BallotTypes, BallotNat
<1>3. ~Leading(i)' BY <1>1 DEF Leading
<1>4. ASSUME NEW q \in Replica
      PROVE  /\ ballot[q] <= ballot'[q]
             /\ Leading(q) /\ ballot'[q] = ballot[q] => Leading(q)'
             /\ Leading(q)' => Leading(q) /\ ballot'[q] = ballot[q]
             /\ leader'[q] = Owner(ballot'[q])
  <2>1. CASE q = i BY <1>1, <1>2, <1>3, <2>1
  <2>2. CASE q # i
    <3>1. ballot'[q] = ballot[q] /\ leader'[q] = leader[q] /\ preparing'[q] = preparing[q]
      BY <1>1, <2>2
    <3>2. ballot[q] <= ballot'[q] BY <3>1, BallotTypes
    <3> QED BY <3>1, <3>2 DEF Leading, Shape, Leads
  <2> QED BY <2>1, <2>2
<1> QED BY <1>4 DEF RoleStep, NoNewLeader, Leads

\* A follower hears from its leader.
LEMMA ReadyAdvances ==
    ASSUME TypeOK, TypeOK', Shape, NEW i \in Replica, NEW m \in msgs, m.to = i,
           NEW fetch \in BOOLEAN, ReceiveReady(i, m, fetch)
    PROVE  Shape' /\ Advance
<1> DEFINE out == IF fetch THEN To(i, m.from, {Fetch(i, m.from, m.ballot, executed[i] + 1)}) ELSE {}
<1>1. m \in Packet /\ m.from \in Replica /\ m.ballot \in Ballot BY PacketFields DEF TypeOK
<1>2. m.kind = "Ready" /\ Exchange(m, out) BY DEF ReceiveReady
<1>3. m.from = Owner(m.ballot) /\ m.from # i /\ Led(m.ballot)
  BY <1>2 DEF Shape, Traffic, GoodPacket
<1>4. \A x \in msgs' : x \in msgs \/ x = Fetch(i, m.from, m.ballot, executed[i] + 1)
  <2>1. \A x \in out : x = Fetch(i, m.from, m.ballot, executed[i] + 1) BY DEF To
  <2> QED BY <1>2, <2>1, ExchangeSubset
<1>5. ASSUME RoleStep
      PROVE  \A x \in msgs' : x \in msgs \/ (x.kind = "Fetch" /\ GoodPacket(x)')
  <2>1. Led(m.ballot)' BY <1>1, <1>3, <1>5, LedKept
  <2> QED BY <1>3, <1>4, <2>1 DEF GoodPacket, Fetch
<1>6. UNCHANGED <<log, high, executed, frozen, pages, promises>>
  BY DEF ReceiveReady, logVars
<1>7. ballot[i] \in Nat /\ m.ballot \in Nat BY <1>1, BallotTypes, BallotNat
<1>8. CASE m.ballot > ballot[i]
  <2>1. /\ ballot' = [ballot EXCEPT ![i] = m.ballot] /\ leader' = [leader EXCEPT ![i] = m.from]
        /\ preparing' = [preparing EXCEPT ![i] = FALSE]
        /\ votes' = [votes EXCEPT ![i] = [s \in Slot |-> {}]]
    BY <1>7, <1>8 DEF ReceiveReady, TypeOK
  <2>2. RoleStep /\ NoNewLeader /\ Leads' BY <1>1, <1>3, <1>8, <2>1, Follows
  <2>3. \A x \in msgs' : x \in msgs \/ (x.kind = "Fetch" /\ GoodPacket(x)') BY <1>5, <2>2
  <2>4. Promised' \subseteq Promised
    <3> SUFFICES ASSUME NEW p \in Promised' PROVE p \in Promised OBVIOUS
    <3> QED BY <1>6, <2>3, InPromised, InPromisedNext
  <2>5. SamePreparing BY <1>6, <2>1 DEF SamePreparing, TypeOK
  <2>6. Shape' BY <1>6, <2>2, <2>3, <2>4, <2>5, RoleShape
  <2>7. \A o \in Replica, s \in Slot : \A q \in votes'[o][s] :
           ballot'[o] = ballot[o] /\ q \in votes[o][s]
    BY <2>1 DEF TypeOK
  <2>8. \A q \in Replica, b \in Ballot, s \in Slot : Voted(q, b, s)' => Voted(q, b, s)
    BY <2>3, <2>7, VotedKept
  <2>9. \A q \in Replica, c \in Ballot : SamePages(q, c)
    BY <1>6, <2>2, <2>4, UnpromisedKept DEF Unpromised
  <2>10. \A x \in Known' : x \in Known BY <1>6, <2>3, <2>4, KnownKept
  <2>11. Advance BY <1>6, <2>2, <2>8, <2>9, <2>10, StillAdvance
  <2> QED BY <2>6, <2>11
<1>9. CASE ~(m.ballot > ballot[i])
  <2>1. m.ballot = ballot[i] /\ m.from = leader[i] BY <1>9 DEF ReceiveReady
  <2>2. Idle
    <3>1. ballot' = ballot /\ leader' = leader BY <2>1 DEF ReceiveReady, TypeOK
    <3>2. preparing' = preparing /\ votes' = votes BY <1>9 DEF ReceiveReady, TypeOK
    <3> QED BY <1>6, <3>1, <3>2 DEF Idle
  <2>3. \A x \in msgs' : x \in msgs \/ (x.kind = "Fetch" /\ GoodPacket(x)')
    BY <1>5, <2>2, IdleRoles
  <2>4. Promised' \subseteq Promised BY <2>2, <2>3, IdlePromised
  <2>5. Shape' BY <2>2, <2>3, <2>4, IdleShape
  <2>6. \A x \in Known' : x \in Known BY <1>6, <2>3, <2>4, KnownKept
  <2>7. \A x \in msgs' : x.kind = "Ack" => x \in msgs BY <2>3
  <2>8. Advance BY <2>2, <2>4, <2>5, <2>6, <2>7, IdleAdvance
  <2> QED BY <2>5, <2>8
<1> QED BY <1>8, <1>9

-----------------------------------------------------------------------------
(***************************************************************************)
(* A candidate collects promises.                                          *)
(***************************************************************************)
\* What the pages a candidate has after another one has come say.
LEMMA Collected ==
    ASSUME TypeOK, Shape, NEW i \in Replica, NEW m \in msgs, m.to = i, PromiseExpected(i, m)
    PROVE  /\ m.from # i /\ m.from \in Replica /\ Owner(ballot[i]) = i
           /\ \A p \in PagesWith(i, m) : p \in Promised /\ p.ballot = ballot[i]
           /\ \E p \in PagesWith(i, m) : p.from = i /\ p.high = high[i]
           /\ i \in promises[i]
           /\ \A q \in promises[i] : Whole(q, ballot[i]) /\ Pages(q, ballot[i]) \subseteq PagesWith(i, m)
           /\ Completes(i, m) =>
                 Whole(m.from, ballot[i]) /\ Pages(m.from, ballot[i]) \subseteq PagesWith(i, m)
<1> DEFINE b == ballot[i]
           q0 == m.from
           P == {p \in PagesWith(i, m) : p.from = q0}
<1>1. m \in Packet /\ q0 \in Replica BY PacketFields DEF TypeOK
<1>2. m.kind = "Promise" /\ m.ballot = b /\ preparing[i] BY DEF PromiseExpected
<1>3. m \in PromisePacket BY <1>1, <1>2, PacketFields
<1>4. q0 # i BY <1>2 DEF Shape, Traffic, GoodPacket
<1>5. /\ Owner(b) = i /\ \A p \in pages[i] : p.ballot = b
      /\ \E p \in pages[i] : p.from = i /\ p.high = high[i]
      /\ i \in promises[i] /\ \A q \in promises[i] : Gathered(i, q)
  BY <1>2 DEF Shape, Preparation, Prepared
<1>6. m \in Promised BY <1>2, InPromised
<1>7. b \in Ballot BY DEF TypeOK
<1>8. \A p \in PagesWith(i, m) : p \in Promised /\ p.ballot = b
  BY <1>2, <1>5, <1>6, InPromised DEF PagesWith
<1>9. \E p \in PagesWith(i, m) : p.from = i /\ p.high = high[i]
  BY <1>4, <1>5 DEF PagesWith
<1>10. \A q \in Replica : \A p, r \in Pages(q, b) : p.page = r.page => p = r
  BY <1>7 DEF Shape, OneSnapshot
<1>11. ASSUME NEW q \in promises[i]
       PROVE  Whole(q, b) /\ Pages(q, b) \subseteq PagesWith(i, m)
  <2>1. q \in Replica BY DEF TypeOK
  <2>2. Whole(q, b) /\ Pages(q, b) \subseteq pages[i] BY <1>5 DEF Gathered
  <2>3. ASSUME NEW p \in Pages(q, b) PROVE p \in PagesWith(i, m)
    <3>1. p \in pages[i] BY <2>2
    <3>2. CASE p.from = m.from /\ p.page = m.page
      <4>1. p.from = q BY DEF Pages
      <4>2. m \in Pages(q, b) BY <1>2, <1>6, <3>2, <4>1 DEF Pages
      <4>3. p = m BY <1>10, <2>1, <3>2, <4>2
      <4> QED BY <4>3 DEF PagesWith
    <3>3. CASE p.from # m.from \/ p.page # m.page BY <3>1, <3>3 DEF PagesWith
    <3> QED BY <3>2, <3>3
  <2> QED BY <2>2, <2>3
<1>12. ASSUME Completes(i, m)
       PROVE  Whole(q0, b) /\ Pages(q0, b) \subseteq PagesWith(i, m)
  <2> DEFINE T == Pages(q0, b)
  <2>1. Cardinality(P) = m.pages BY <1>12 DEF Completes, Complete
  <2>2. P \subseteq T BY <1>8 DEF Pages
  <2>3. m \in T BY <1>2, <1>6 DEF Pages
  <2>4. /\ IsFiniteSet(T) /\ \A p, r \in T : p.pages = r.pages /\ Cardinality(T) <= p.pages
    BY <1>1, <1>7 DEF Shape, OneSnapshot
  <2>5. Cardinality(T) <= m.pages /\ \A p \in T : p.pages = m.pages BY <2>3, <2>4
  <2> HIDE DEF P, T
  <2>6. Cardinality(P) <= Cardinality(T) /\ (Cardinality(P) = Cardinality(T) => P = T)
    BY <2>2, <2>4, FS_Subset
  <2>7. Cardinality(T) \in Nat /\ m.pages \in Nat BY <1>3, <2>4, CardNat DEF PromisePacket
  <2>8. Cardinality(T) = m.pages BY <2>1, <2>5, <2>6, <2>7
  <2>9. P = T BY <2>1, <2>6, <2>8
  <2>10. T # {} /\ \A p \in T : Cardinality(T) = p.pages BY <2>3, <2>5, <2>8
  <2>11. Whole(q0, b) BY <2>10 DEF Whole, T
  <2>12. P \subseteq PagesWith(i, m) BY DEF P
  <2> QED BY <2>9, <2>11, <2>12 DEF T
<1> QED BY <1>1, <1>4, <1>5, <1>8, <1>9, <1>11, <1>12

\* What the promises of a candidate say after it has stored the pages it has.
LEMMA StillPrepared ==
    ASSUME TypeOK, Shape, NEW i \in Replica, NEW m \in msgs, m.to = i, CollectPromise(i, m),
           Promised' \subseteq Promised
    PROVE  Prepared(i)'
<1> DEFINE b == ballot[i]
<1>1. PromiseExpected(i, m) BY DEF CollectPromise
<1>2. /\ m.from # i /\ m.from \in Replica /\ Owner(b) = i
      /\ \A p \in PagesWith(i, m) : p \in Promised /\ p.ballot = b
      /\ \E p \in PagesWith(i, m) : p.from = i /\ p.high = high[i]
      /\ i \in promises[i]
      /\ \A q \in promises[i] : Whole(q, b) /\ Pages(q, b) \subseteq PagesWith(i, m)
      /\ Completes(i, m) => Whole(m.from, b) /\ Pages(m.from, b) \subseteq PagesWith(i, m)
  BY <1>1, Collected
<1>3. ballot'[i] = b /\ high'[i] = high[i] /\ pages'[i] = PagesWith(i, m)
  BY DEF CollectPromise, roleVars, logVars, TypeOK
<1>4. \A q \in promises'[i] : q \in promises[i] \/ (q = m.from /\ Completes(i, m))
  BY DEF CollectPromise, TypeOK
<1>5. i \in promises'[i] BY <1>2 DEF CollectPromise, TypeOK
<1>6. ASSUME NEW q \in promises'[i] PROVE Gathered(i, q)'
  <2>1. q \in Replica BY <1>2, <1>4 DEF TypeOK
  <2>2. Whole(q, b) /\ Pages(q, b) \subseteq pages'[i] BY <1>2, <1>3, <1>4
  <2>3. Pages(q, b)' \subseteq Pages(q, b)
    <3> SUFFICES ASSUME NEW p \in Pages(q, b)' PROVE p \in Pages(q, b) OBVIOUS
    <3>1. p \in Promised' /\ p.from = q /\ p.ballot = ballot'[i] BY DEF Pages
    <3> QED BY <1>3, <3>1 DEF Pages
  <2>4. Pages(q, ballot[i])' \subseteq Pages(q, ballot[i]) BY <2>3
  <2> QED BY <1>3, <2>1, <2>2, <2>4, GatheredKept
<1> QED BY <1>2, <1>3, <1>5, <1>6 DEF Prepared

\* A candidate collects a promise page that elects nobody.
LEMMA CollectAdvances ==
    ASSUME TypeOK, TypeOK', Shape, NEW i \in Replica, NEW m \in msgs, m.to = i, CollectPromise(i, m)
    PROVE  Shape' /\ Advance
<1>1. UNCHANGED <<ballot, leader, preparing, log, high, executed, votes, frozen>>
  BY DEF CollectPromise, roleVars, logVars
<1>2. \A x \in msgs' : x \in msgs
  <2>1. Exchange(m, {}) BY DEF CollectPromise
  <2> QED BY <2>1, ExchangeSubset
<1>3. PromiseExpected(i, m) BY DEF CollectPromise
<1>4. \A p \in PagesWith(i, m) : p \in Promised BY <1>3, Collected
<1>5. \A j \in Replica : pages'[j] = IF j = i THEN PagesWith(i, m) ELSE pages[j]
  BY DEF CollectPromise, TypeOK
<1>6. Promised' \subseteq Promised
  <2> SUFFICES ASSUME NEW p \in Promised' PROVE p \in Promised OBVIOUS
  <2>1. CASE p \in msgs' /\ p.kind = "Promise" BY <1>2, <2>1, InPromised
  <2>2. CASE \E j \in Replica : p \in pages'[j] BY <1>4, <1>5, <2>2, InPromised
  <2>3. CASE \E j \in Replica : p \in frozen'[j] BY <1>1, <2>3, InPromised
  <2> QED BY <2>1, <2>2, <2>3, InPromisedNext
<1>7. RoleStep /\ NoNewLeader
  <2>1. \A q \in Replica : ballot[q] <= ballot'[q] BY <1>1, BallotTypes
  <2> QED BY <1>1, <2>1 DEF RoleStep, NoNewLeader, Leading
<1>8. Leads' BY <1>1 DEF Shape, Leads
<1>9. LogShape' BY <1>1, <1>7, LogKept DEF NoNewLeader
<1>10. Traffic' BY <1>2, <1>7, TrafficKept DEF Shape
<1>11. PromiseShape' /\ OneSnapshot' /\ \A q \in Replica, c \in Ballot : SamePages(q, c)
  BY <1>1, <1>6, <1>7, UnpromisedKept DEF Unpromised
<1>12. Preparation'
  <2> SUFFICES ASSUME NEW j \in Replica, preparing'[j] PROVE Prepared(j)' BY DEF Preparation
  <2>1. CASE j = i BY <1>6, <2>1, StillPrepared
  <2>2. CASE j # i
    <3>1. pages'[j] = pages[j] /\ promises'[j] = promises[j]
      BY <2>2 DEF CollectPromise, TypeOK
    <3>2. ballot'[j] = ballot[j] /\ high'[j] = high[j] /\ preparing[j] BY <1>1
    <3>3. \A q \in promises[j] : Pages(q, ballot[j])' \subseteq Pages(q, ballot[j])
      BY <1>6, <3>2 DEF Pages
    <3> QED BY <3>1, <3>2, <3>3, PreparedKept
  <2> QED BY <2>1, <2>2
<1>13. Floors'
  <2> SUFFICES ASSUME NEW b \in Ballot PROVE \E f \in 0..(MaxSlot + 1) : Asked(b, f)'
    BY DEF Floors
  <2>1. PICK f \in 0..(MaxSlot + 1) : Asked(b, f) BY DEF Shape, Floors
  <2>2. Asked(b, f)' BY <1>1, <1>2, <1>6, <2>1 DEF Asked
  <2> QED BY <2>2
<1>14. Shape' BY <1>8, <1>9, <1>10, <1>11, <1>12, <1>13 DEF Shape
<1>15. \A x \in Known' : x \in Known BY <1>1, <1>2, <1>6, KnownKept
<1>16. \A q \in Replica, b \in Ballot, s \in Slot : Voted(q, b, s)' => Voted(q, b, s)
  BY <1>1, <1>2, VotedKept
<1> QED BY <1>1, <1>7, <1>11, <1>14, <1>15, <1>16, StillAdvance

-----------------------------------------------------------------------------
(***************************************************************************)
(* A snapshot is taken: TickBegin for the candidate itself, Prepare for    *)
(* the others.                                                             *)
(***************************************************************************)
LEMMA FiniteBijection ==
    ASSUME NEW S, NEW T, IsFiniteSet(S), NEW f \in [S -> T],
           \A t \in T : \E s \in S : f[s] = t,
           \A s, t \in S : f[s] = f[t] => s = t
    PROVE  IsFiniteSet(T) /\ Cardinality(T) = Cardinality(S)
<1>1. f \in Surjection(S, T) BY DEF Surjection
<1>2. f \in Injection(S, T) BY DEF Injection, IsInjective
<1> QED BY <1>1, <1>2, FS_Surjection

\* What a snapshot promises: all its pages, with every record from floor on.
SnapshotOf(S, i, j, b, floor) ==
    /\ S # {} /\ IsFiniteSet(S)
    /\ \A p \in S : /\ p.kind = "Promise" /\ p.from = i /\ p.to = j /\ p.ballot = b
                    /\ p.floor = floor /\ p.high = high[i] /\ p.pages = Cardinality(S)
    /\ \A p, r \in S : p.page = r.page => p = r
    /\ \A p \in S : \A x \in p.recs : x \in log[i] /\ x.slot <= high[i]
    /\ \A y \in log[i] : floor <= y.slot /\ y.slot <= high[i] => \E p \in S : y \in p.recs

\* A snapshot holds the records from the floor on.
LEMMA SnapshotShape ==
    ASSUME TypeOK, NEW i \in Replica, NEW j \in Replica, NEW b \in Ballot,
           NEW floor \in 0..(MaxSlot + 1)
    PROVE  SnapshotOf(Snapshot(i, j, b, floor), i, j, b, floor)
<1> DEFINE R == {r \in log[i] : floor <= r.slot /\ r.slot <= high[i]}
           K == {0} \cup {PageOf(r, R) : r \in R}
           page(k) == [kind |-> "Promise", from |-> i, to |-> j, ballot |-> b, floor |-> floor,
                       high |-> high[i], page |-> k, pages |-> Cardinality(K),
                       recs |-> {r \in R : PageOf(r, R) = k}]
           S == {page(k) : k \in K}
           f == [k \in K |-> page(k)]
<1>1. S = Snapshot(i, j, b, floor) BY DEF Snapshot
<1>2. R \in SUBSET Record BY DEF TypeOK
<1>3. \A r : r \in R <=> r \in log[i] /\ floor <= r.slot /\ r.slot <= high[i] OBVIOUS
<1>4. IsFiniteSet(K)
  <2> HIDE DEF R
  <2> QED BY <1>2, PageNumbers
<1>5. 0 \in K /\ \A r \in R : PageOf(r, R) \in K OBVIOUS
<1> HIDE DEF R, K
<1>6. f \in [K -> S] /\ \A t \in S : \E k \in K : f[k] = t OBVIOUS
<1>7. \A k, l \in K : f[k] = f[l] => k = l
  <2> TAKE k, l \in K
  <2>1. page(k).page = k /\ page(l).page = l OBVIOUS
  <2>2. f[k] = page(k) /\ f[l] = page(l) OBVIOUS
  <2> QED BY <2>1, <2>2
<1>8. IsFiniteSet(S) /\ Cardinality(S) = Cardinality(K)
  <2> HIDE DEF f, S
  <2> QED BY <1>4, <1>6, <1>7, FiniteBijection
<1>9. page(0) \in S BY <1>5
<1>10. ASSUME NEW p \in S
       PROVE  /\ p.kind = "Promise" /\ p.from = i /\ p.to = j /\ p.ballot = b
              /\ p.floor = floor /\ p.high = high[i] /\ p.pages = Cardinality(S)
              /\ \A x \in p.recs : x \in log[i] /\ x.slot <= high[i]
  <2>1. PICK k \in K : p = page(k) OBVIOUS
  <2>2. p.pages = Cardinality(K) BY <2>1
  <2>3. p.recs = {r \in R : PageOf(r, R) = k} BY <2>1
  <2> QED BY <1>3, <1>8, <2>1, <2>2, <2>3
<1>11. ASSUME NEW p \in S, NEW r \in S, p.page = r.page PROVE p = r
  <2>1. PICK k \in K : p = page(k) OBVIOUS
  <2>2. PICK l \in K : r = page(l) OBVIOUS
  <2>3. k = l BY <1>11, <2>1, <2>2
  <2> QED BY <2>1, <2>2, <2>3
<1>12. ASSUME NEW y \in log[i], floor <= y.slot, y.slot <= high[i]
       PROVE  \E p \in S : y \in p.recs
  <2>1. y \in R BY <1>3, <1>12
  <2>2. page(PageOf(y, R)) \in S BY <1>5, <2>1
  <2>3. page(PageOf(y, R)).recs = {r \in R : PageOf(r, R) = PageOf(y, R)} OBVIOUS
  <2> QED BY <2>1, <2>2, <2>3
<1> HIDE DEF S, page
<1>13. SnapshotOf(S, i, j, b, floor)
  BY <1>8, <1>9, <1>10, <1>11, <1>12 DEF SnapshotOf
<1> QED BY <1>1, <1>13

\* The promise S of i for b joins the others; there was none before.
LEMMA SnapshotMade ==
    ASSUME TypeOK, TypeOK', Shape, RoleStep, log' = log,
           NEW i \in Replica, NEW b \in Ballot, NEW floor, NEW S,
           SnapshotOf(S, i, Owner(b), b, floor),
           b >= ballot[i], Begun(b)', Pages(i, b) = {},
           ballot' = [ballot EXCEPT ![i] = b], frozen' = [frozen EXCEPT ![i] = S],
           \A p \in Promised' : p \in Promised \/ p \in S
    PROVE  /\ PromiseShape' /\ OneSnapshot' /\ Pages(i, b)' = S
           /\ \A q \in Replica, c \in Ballot :
                 ~(q = i /\ c = b) => Pages(q, c)' \subseteq Pages(q, c)
           /\ \A q \in Replica, c \in Ballot : SamePages(q, c) \/ FreshPages(q, c)
           /\ \A p \in Promised' : p \in Promised \/ \A x \in p.recs : \E j \in Replica : x \in log[j]
<1>1. /\ S # {} /\ IsFiniteSet(S)
      /\ \A p \in S : /\ p.from = i /\ p.to = Owner(b) /\ p.ballot = b
                      /\ p.high = high[i] /\ p.pages = Cardinality(S) /\ p.floor = floor
      /\ \A p, r \in S : p.page = r.page => p = r
      /\ \A p \in S : \A x \in p.recs : x \in log[i] /\ x.slot <= high[i]
      /\ \A y \in log[i] : floor <= y.slot /\ y.slot <= high[i] => \E p \in S : y \in p.recs
  BY DEF SnapshotOf
<1>2. /\ ballot'[i] = b /\ frozen'[i] = S
      /\ \A j \in Replica : j # i => ballot'[j] = ballot[j] /\ frozen'[j] = frozen[j]
  BY DEF TypeOK
<1>3. /\ ballot[i] \in Nat /\ b \in Nat BY BallotTypes, BallotNat
<1>4. ASSUME NEW q \in Replica, NEW c \in Ballot, ~(q = i /\ c = b)
      PROVE  Pages(q, c)' \subseteq Pages(q, c)
  BY <1>1, <1>4 DEF Pages
<1>5. Pages(i, b)' = S
  <2>1. \A p \in Pages(i, b)' : p \in S
    <3> TAKE p \in Pages(i, b)'
    <3>1. p \in Promised' /\ p.from = i /\ p.ballot = b BY DEF Pages
    <3>2. p \notin Promised BY <3>1 DEF Pages
    <3> QED BY <3>1, <3>2
  <2>2. \A p \in S : p \in Promised' BY <1>2, InPromisedNext
  <2>3. \A p \in S : p \in Pages(i, b)' BY <1>1, <2>2 DEF Pages
  <2> QED BY <2>1, <2>3
<1>6. PromiseShape'
  <2>1. ASSUME NEW p \in Promised' PROVE GoodPromise(p)'
    <3>1. CASE p \in S
      <4>1. /\ p.from = i /\ p.to = Owner(b) /\ p.ballot = b /\ p.high = high[i]
            /\ \A x \in p.recs : x \in log[i] /\ x.slot <= high[i]
        BY <1>1, <3>1
      <4>2. ASSUME NEW x \in p.recs PROVE x.ballot <= b
        <5>1. x \in log[i] BY <4>1
        <5>2. x \in Record /\ x.ballot <= ballot[i] BY <5>1 DEF TypeOK, Shape, LogShape
        <5>3. x.ballot \in Nat BY <5>2, BallotNat DEF Record
        <5> QED BY <1>3, <5>2, <5>3
      <4> QED BY <1>2, <1>3, <3>1, <4>1, <4>2 DEF GoodPromise
    <3>2. CASE p \in Promised
      <4>1. GoodPromise(p) BY <3>2 DEF Shape, PromiseShape
      <4>2. p.ballot \in Ballot /\ p.from \in Replica BY <3>2, PromisedType DEF PromisePacket
      <4>3. Begun(p.ballot)' BY <4>1, <4>2, LedKept DEF GoodPromise
      <4>4. CASE p.from = i
        <5>1. p.ballot # b BY <3>2, <4>4 DEF Pages
        <5>2. p.ballot <= ballot'[i]
          <6>1. p.ballot \in Nat /\ p.ballot <= ballot[i] BY <4>1, <4>2, <4>4, BallotNat DEF GoodPromise
          <6> QED BY <1>2, <1>3, <6>1
        <5> QED BY <1>2, <4>1, <4>3, <4>4, <5>1, <5>2 DEF GoodPromise
      <4>5. CASE p.from # i
        <5>1. ballot'[p.from] = ballot[p.from] /\ frozen'[p.from] = frozen[p.from]
          BY <1>2, <4>2, <4>5
        <5> QED BY <4>1, <4>3, <5>1 DEF GoodPromise
      <4> QED BY <4>4, <4>5
    <3> QED BY <3>1, <3>2
  <2>2. ASSUME NEW j \in Replica, NEW p \in frozen'[j], NEW r \in frozen'[j]
        PROVE  p.from = j /\ p.ballot = r.ballot
    <3>1. CASE j = i BY <1>1, <1>2, <3>1
    <3>2. CASE j # i BY <1>2, <3>2 DEF Shape, PromiseShape
    <3> QED BY <3>1, <3>2
  <2> QED BY <2>1, <2>2 DEF PromiseShape
<1>7. ASSUME NEW q \in Replica, NEW c \in Ballot
      PROVE  /\ IsFiniteSet(Pages(q, c)')
             /\ \A p, r \in Pages(q, c)' :
                   /\ p.pages = r.pages /\ p.high = r.high
                   /\ p.page = r.page => p = r
                   /\ Cardinality(Pages(q, c)') <= p.pages
  <2>1. CASE q = i /\ c = b
    <3>1. Cardinality(S) \in Nat BY <1>1, CardNat
    <3> QED BY <1>1, <1>5, <2>1, <3>1
  <2>2. CASE ~(q = i /\ c = b)
    <3>1. Pages(q, c)' \subseteq Pages(q, c) BY <1>4, <2>2
    <3>2. /\ IsFiniteSet(Pages(q, c)')
          /\ Cardinality(Pages(q, c)') <= Cardinality(Pages(q, c))
          /\ Cardinality(Pages(q, c)') \in Nat /\ Cardinality(Pages(q, c)) \in Nat
      BY <3>1, PagesShrink DEF Shape
    <3>3. ASSUME NEW p \in Pages(q, c)', NEW r \in Pages(q, c)'
          PROVE  /\ p.pages = r.pages /\ p.high = r.high
                 /\ p.page = r.page => p = r
                 /\ Cardinality(Pages(q, c)') <= p.pages
      <4>1. p \in Pages(q, c) /\ r \in Pages(q, c) BY <3>1
      <4>2. p.pages \in Nat BY <4>1, PromisedType DEF Pages, PromisePacket
      <4>3. /\ p.pages = r.pages /\ p.high = r.high
            /\ p.page = r.page => p = r
            /\ Cardinality(Pages(q, c)) <= p.pages
        BY <4>1 DEF Shape, OneSnapshot
      <4> QED BY <3>2, <4>2, <4>3
    <3> QED BY <3>2, <3>3
  <2> QED BY <2>1, <2>2
<1>8. OneSnapshot' BY <1>7 DEF OneSnapshot
<1>9. ASSUME NEW q \in Replica, NEW c \in Ballot PROVE SamePages(q, c) \/ FreshPages(q, c)
  <2>1. CASE q = i /\ c = b
    <3>1. ASSUME NEW y \in log[i], \A p \in S : p.floor <= y.slot PROVE \E p \in S : y \in p.recs
      <4>1. floor <= y.slot BY <1>1, <3>1
      <4>2. y.slot <= high[i] BY DEF Shape, LogShape
      <4> QED BY <1>1, <4>1, <4>2
    <3> QED BY <1>5, <2>1, <3>1 DEF FreshPages
  <2>2. CASE ~(q = i /\ c = b) BY <1>4, <2>2, PagesShrink DEF Shape
  <2> QED BY <2>1, <2>2
<1>10. \A p \in Promised' : p \in Promised \/ \A x \in p.recs : \E j \in Replica : x \in log[j]
  BY <1>1
<1> QED BY <1>4, <1>5, <1>6, <1>8, <1>9, <1>10

\* A replica opens a ballot.
LEMMA BeginAdvances ==
    ASSUME TypeOK, TypeOK', Shape, NEW i \in Replica, TickBegin(i)
    PROVE  Shape' /\ Advance
<1>1. PICK b : b = NextBallot(i) OBVIOUS
<1>2. PICK f : f = executed[i] + 1 OBVIOUS
<1>3. PICK S : S = Snapshot(i, i, b, f) OBVIOUS
<1>4. ballot[i] \in Nat BY BallotTypes
<1>5. b \in Nat /\ Owner(b) = i /\ b > ballot[i] BY <1>1, <1>4, OwnerNext
<1>6. b \in Ballot BY <1>1, <1>5, BoundAssumption DEF TickBegin, Ballot
<1>7. f \in 0..(MaxSlot + 1) BY <1>2, FloorType
<1>8. SnapshotOf(S, i, Owner(b), b, f) BY <1>3, <1>5, <1>6, <1>7, SnapshotShape
<1>9. /\ ballot' = [ballot EXCEPT ![i] = b] /\ leader' = [leader EXCEPT ![i] = i]
      /\ preparing' = [preparing EXCEPT ![i] = TRUE]
      /\ votes' = [votes EXCEPT ![i] = [s \in Slot |-> {}]]
      /\ frozen' = [frozen EXCEPT ![i] = S] /\ pages' = [pages EXCEPT ![i] = S]
      /\ promises' = [promises EXCEPT ![i] = {i}]
      /\ \A x \in msgs' : x \in msgs \/ x \in PrepareAll(i, b)
      /\ UNCHANGED <<log, high, executed>>
  BY <1>1, <1>2, <1>3 DEF TickBegin, Emit, logVars
<1>10. /\ ballot'[i] = b /\ leader'[i] = i /\ preparing'[i] /\ frozen'[i] = S
       /\ pages'[i] = S /\ promises'[i] = {i}
       /\ \A j \in Replica : j # i =>
             /\ ballot'[j] = ballot[j] /\ leader'[j] = leader[j] /\ preparing'[j] = preparing[j]
             /\ frozen'[j] = frozen[j] /\ pages'[j] = pages[j] /\ promises'[j] = promises[j]
  BY <1>9 DEF TypeOK
<1>11. \A x \in msgs' : x \in msgs \/
         (x.kind = "Prepare" /\ x.from = i /\ x.to # i /\ x.ballot = b /\ x.floor = f)
  BY <1>2, <1>9, PrepareAllPackets
<1>12. ~Begun(b) BY <1>4, <1>5 DEF Begun
<1>13. RoleStep /\ NoNewLeader
  <2>1. \A q \in Replica : ballot[q] <= ballot'[q]
    <3> TAKE q \in Replica
    <3>1. CASE q = i BY <1>4, <1>5, <1>10, <3>1
    <3>2. CASE q # i BY <1>10, <3>2, BallotTypes
    <3> QED BY <3>1, <3>2
  <2> QED BY <1>4, <1>5, <1>10, <2>1 DEF RoleStep, NoNewLeader, Leading
<1>14. Leads' BY <1>5, <1>10 DEF Shape, Leads
<1>15. LogShape' BY <1>9, <1>13, LogKept DEF NoNewLeader
<1>16. Begun(b)' BY <1>5, <1>10 DEF Begun
<1>17. Traffic'
  <2>1. ASSUME NEW x \in msgs', x \notin msgs PROVE GoodPacket(x)'
    <3>1. x.kind = "Prepare" /\ x.from = i /\ x.to # i /\ x.ballot = b BY <1>11, <2>1
    <3> QED BY <1>5, <1>16, <3>1 DEF GoodPacket
  <2> QED BY <1>13, <2>1, TrafficKept DEF Shape
<1>18. \A p \in Promised : p.ballot # b
  BY <1>12 DEF Shape, PromiseShape, GoodPromise
<1>19. Pages(i, b) = {} BY <1>18 DEF Pages
<1>20. \A p \in Promised' : p \in Promised \/ p \in S
  <2> SUFFICES ASSUME NEW p \in Promised' PROVE p \in Promised \/ p \in S OBVIOUS
  <2>1. CASE p \in msgs' /\ p.kind = "Promise" BY <1>11, <2>1, InPromised
  <2>2. CASE \E j \in Replica : p \in pages'[j] \/ p \in frozen'[j]
    BY <1>10, <2>2, InPromised
  <2> QED BY <2>1, <2>2, InPromisedNext
<1>21. /\ PromiseShape' /\ OneSnapshot' /\ Pages(i, b)' = S
       /\ \A q \in Replica, c \in Ballot :
             ~(q = i /\ c = b) => Pages(q, c)' \subseteq Pages(q, c)
       /\ \A q \in Replica, c \in Ballot : SamePages(q, c) \/ FreshPages(q, c)
       /\ \A p \in Promised' : p \in Promised \/ \A x \in p.recs : \E j \in Replica : x \in log[j]
  <2>1. log' = log /\ b >= ballot[i] BY <1>4, <1>5, <1>9
  <2> QED BY <1>6, <1>8, <1>9, <1>13, <1>16, <1>19, <1>20, <2>1, SnapshotMade
<1>22. Preparation'
  <2> SUFFICES ASSUME NEW j \in Replica, preparing'[j] PROVE Prepared(j)' BY DEF Preparation
  <2>1. CASE j = i
    <3>1. /\ S # {} /\ \A p \in S : /\ p.from = i /\ p.ballot = b /\ p.high = high[i]
                                    /\ p.pages = Cardinality(S)
      BY <1>8 DEF SnapshotOf
    <3>2. \E p \in S : p.from = i /\ p.high = high[i] BY <3>1
    <3>3. Whole(i, b)' BY <1>21, <3>1 DEF Whole
    <3>4. Gathered(i, i)' BY <1>10, <1>21, <3>3 DEF Gathered
    <3> QED BY <1>5, <1>9, <1>10, <2>1, <3>1, <3>2, <3>4 DEF Prepared
  <2>2. CASE j # i
    <3>1. /\ ballot'[j] = ballot[j] /\ preparing[j] /\ pages'[j] = pages[j]
          /\ promises'[j] = promises[j] /\ high'[j] = high[j]
      BY <1>9, <1>10, <2>2
    <3>2. Owner(ballot[j]) = j BY <3>1 DEF Shape, Preparation, Prepared
    <3>3. PICK c \in Ballot : c = ballot[j] BY DEF TypeOK
    <3>4. c # b BY <1>5, <2>2, <3>2, <3>3
    <3>5. \A q \in promises[j] : Pages(q, c)' \subseteq Pages(q, c)
      BY <1>21, <3>4 DEF TypeOK
    <3>6. \A q \in promises[j] : Pages(q, ballot[j])' \subseteq Pages(q, ballot[j])
      BY <3>1, <3>3, <3>5 DEF Pages
    <3> QED BY <3>1, <3>6, PreparedKept
  <2> QED BY <2>1, <2>2
<1>23. Floors'
  <2> SUFFICES ASSUME NEW c \in Ballot PROVE \E g \in 0..(MaxSlot + 1) : Asked(c, g)'
    BY DEF Floors
  <2>1. \A p \in S : p.ballot = b /\ p.floor = f BY <1>8 DEF SnapshotOf
  <2>2. CASE c = b
    <3>1. ASSUME NEW x \in msgs', x.kind = "Prepare", x.ballot = c PROVE x.floor = f
      <4>1. x \notin msgs BY <1>12, <2>2, <3>1 DEF Shape, Traffic, GoodPacket
      <4> QED BY <1>11, <4>1
    <3>2. ASSUME NEW p \in Promised', p.ballot = c PROVE p.floor = f
      BY <1>18, <1>20, <2>1, <2>2, <3>2
    <3>3. ASSUME NEW j \in Replica, preparing'[j], ballot'[j] = c PROVE f = executed'[j] + 1
      <4>1. CASE j = i BY <1>2, <1>9, <4>1
      <4>2. CASE j # i
        <5>1. preparing[j] /\ ballot[j] = b BY <1>10, <2>2, <3>3, <4>2
        <5>2. Owner(b) = j BY <5>1 DEF Shape, Preparation, Prepared
        <5> QED BY <1>5, <4>2, <5>2
      <4> QED BY <4>1, <4>2
    <3>4. Asked(c, f)' BY <3>1, <3>2, <3>3 DEF Asked
    <3> QED BY <1>7, <3>4
  <2>3. CASE c # b
    <3>1. PICK g \in 0..(MaxSlot + 1) : Asked(c, g) BY DEF Shape, Floors
    <3>2. Asked(c, g)' BY <1>9, <1>10, <1>11, <1>20, <2>1, <2>3, <3>1 DEF Asked
    <3> QED BY <3>2
  <2> QED BY <2>2, <2>3
<1>24. Shape' BY <1>14, <1>15, <1>17, <1>21, <1>22, <1>23 DEF Shape
<1>25. \A x \in Known' : x \in Known
  <2>1. \A x \in msgs' : x.kind \in {"Accept", "Commit"} => x \in msgs BY <1>11
  <2> QED BY <1>9, <1>21, <2>1, KnownKept
<1>26. \A q \in Replica, c \in Ballot, s \in Slot : Voted(q, c, s)' => Voted(q, c, s)
  <2>1. \A o \in Replica, s \in Slot : \A q \in votes'[o][s] :
           ballot'[o] = ballot[o] /\ q \in votes[o][s]
    BY <1>9, <1>10 DEF TypeOK
  <2>2. \A x \in msgs' : x.kind = "Ack" => x \in msgs BY <1>11
  <2> QED BY <2>1, <2>2, VotedKept
<1> QED BY <1>9, <1>13, <1>21, <1>24, <1>25, <1>26, StillAdvance

\* A Prepare that repeats the last one answered: nothing new is promised.
LEMMA RepeatedPrepare ==
    ASSUME TypeOK, TypeOK', Shape, NEW i \in Replica, NEW m \in msgs, m.to = i,
           ReceivePrepare(i, m), \E p \in frozen[i] : p.ballot = m.ballot /\ p.floor = m.floor
    PROVE  Shape' /\ Advance
<1>1. PICK p \in frozen[i] : p.ballot = m.ballot /\ p.floor = m.floor OBVIOUS
<1>2. m.kind = "Prepare" /\ m.ballot >= ballot[i] /\ PromiseTo(i, m) = frozen[i]
  BY DEF ReceivePrepare, PromiseTo
<1>3. m \in Packet /\ m.from \in Replica /\ m.ballot \in Ballot BY PacketFields DEF TypeOK
<1>4. p \in Promised BY InPromised
<1>5. p.from = i /\ p.ballot <= ballot[p.from]
  BY <1>4 DEF Shape, PromiseShape, GoodPromise
<1>6. m.ballot \in Nat /\ ballot[i] \in Nat BY <1>3, BallotTypes, BallotNat
<1>7. m.ballot = ballot[i] BY <1>1, <1>2, <1>5, <1>6
<1>8. ~(m.ballot > ballot[i]) BY <1>6, <1>7
<1>9. Idle
  <2>1. ballot' = ballot /\ leader' = leader BY <1>7, <1>8 DEF ReceivePrepare, TypeOK
  <2>2. preparing' = preparing /\ votes' = votes BY <1>8 DEF ReceivePrepare, TypeOK
  <2>3. frozen' = frozen BY <1>2 DEF ReceivePrepare, TypeOK
  <2> QED BY <2>1, <2>2, <2>3 DEF ReceivePrepare, Idle, logVars
<1>10. \A x \in msgs' : x \in msgs \/ x \in frozen[i]
  <2>1. Exchange(m, To(i, m.from, frozen[i])) BY <1>2 DEF ReceivePrepare
  <2> QED BY <2>1, ExchangeSubset, ToSubset
<1>11. m.from = Owner(m.ballot) /\ m.from # i BY <1>2 DEF Shape, Traffic, GoodPacket
<1>12. ASSUME NEW x \in frozen[i] PROVE x \in Promised /\ x.kind = "Promise" /\ GoodPacket(x)'
  <2>1. x \in Promised BY InPromised
  <2>2. x.kind = "Promise" BY <2>1, PromisedType DEF PromisePacket
  <2>3. x.from = i /\ x.ballot = p.ballot /\ x.to = Owner(x.ballot)
    BY <2>1 DEF Shape, PromiseShape, GoodPromise
  <2>4. x.to # x.from BY <1>1, <1>11, <2>3
  <2> QED BY <2>1, <2>2, <2>4 DEF GoodPacket
<1>13. Promised' \subseteq Promised
  <2> SUFFICES ASSUME NEW x \in Promised' PROVE x \in Promised OBVIOUS
  <2>1. CASE x \in msgs' /\ x.kind = "Promise" BY <1>10, <1>12, <2>1, InPromised
  <2>2. CASE \E j \in Replica : x \in pages'[j] \/ x \in frozen'[j]
    BY <1>9, <2>2, InPromised DEF Idle
  <2> QED BY <2>1, <2>2, InPromisedNext
<1>14. \A x \in msgs' : x \in msgs \/ (x.kind = "Promise" /\ GoodPacket(x)') BY <1>10, <1>12
<1>15. Shape' BY <1>9, <1>13, <1>14, IdleShape
<1>16. \A x \in Known' : x \in Known BY <1>9, <1>13, <1>14, KnownKept DEF Idle
<1>17. \A x \in msgs' : x.kind = "Ack" => x \in msgs BY <1>14
<1> QED BY <1>9, <1>13, <1>15, <1>16, <1>17, IdleAdvance

\* A Prepare that is answered with a new snapshot.
LEMMA NewPrepare ==
    ASSUME TypeOK, TypeOK', Shape, NEW i \in Replica, NEW m \in msgs, m.to = i,
           ReceivePrepare(i, m), ~\E p \in frozen[i] : p.ballot = m.ballot /\ p.floor = m.floor
    PROVE  Shape' /\ Advance
<1>1. PICK b : b = m.ballot OBVIOUS
<1>2. PICK f : f = m.floor OBVIOUS
<1>3. PICK S : S = Snapshot(i, m.from, b, f) OBVIOUS
<1>4. m.kind = "Prepare" /\ b >= ballot[i] /\ PromiseTo(i, m) = S
  BY <1>1, <1>2, <1>3 DEF ReceivePrepare, PromiseTo
<1>5. m \in Packet /\ m.from \in Replica /\ b \in Ballot /\ f \in 0..(MaxSlot + 1)
  BY <1>1, <1>2, <1>4, PacketFields DEF TypeOK
<1>6. m.from = Owner(b) /\ m.from # i /\ Begun(b)
  BY <1>1, <1>4 DEF Shape, Traffic, GoodPacket
<1>7. SnapshotOf(S, i, Owner(b), b, f) BY <1>3, <1>5, <1>6, SnapshotShape
<1>8. b \in Nat /\ ballot[i] \in Nat BY <1>5, BallotTypes, BallotNat
<1>9. /\ ballot' = [ballot EXCEPT ![i] = b]
      /\ leader' = IF b > ballot[i] THEN [leader EXCEPT ![i] = m.from] ELSE leader
      /\ preparing' = [preparing EXCEPT ![i] = @ /\ ~(b > ballot[i])]
      /\ votes' = IF b > ballot[i] THEN [votes EXCEPT ![i] = [s \in Slot |-> {}]] ELSE votes
      /\ frozen' = [frozen EXCEPT ![i] = S]
      /\ UNCHANGED <<log, high, executed, pages, promises>>
  BY <1>1, <1>4 DEF ReceivePrepare, logVars
<1>10. \A x \in msgs' : x \in msgs \/ x \in S
  <2>1. Exchange(m, To(i, m.from, S)) BY <1>4 DEF ReceivePrepare
  <2> QED BY <2>1, ExchangeSubset, ToSubset
<1>11. /\ RoleStep /\ NoNewLeader /\ Leads'
       /\ \A j \in Replica : preparing'[j] => preparing[j] /\ ballot'[j] = ballot[j]
       /\ \A o \in Replica, s \in Slot : \A q \in votes'[o][s] :
             ballot'[o] = ballot[o] /\ q \in votes[o][s]
  <2>1. CASE b > ballot[i]
    <3>1. preparing' = [preparing EXCEPT ![i] = FALSE] BY <1>9, <2>1 DEF TypeOK
    <3>2. leader' = [leader EXCEPT ![i] = m.from] BY <1>9, <2>1
    <3>3. RoleStep /\ NoNewLeader /\ Leads' BY <1>5, <1>6, <1>9, <2>1, <3>1, <3>2, Follows
    <3>4. \A j \in Replica : preparing'[j] => preparing[j] /\ ballot'[j] = ballot[j]
      BY <1>9, <3>1 DEF TypeOK
    <3>5. \A o \in Replica, s \in Slot : \A q \in votes'[o][s] :
             ballot'[o] = ballot[o] /\ q \in votes[o][s]
      BY <1>9, <2>1 DEF TypeOK
    <3> QED BY <3>3, <3>4, <3>5
  <2>2. CASE ~(b > ballot[i])
    <3>1. b = ballot[i] BY <1>4, <1>8, <2>2
    <3>2. ballot' = ballot /\ leader' = leader /\ preparing' = preparing /\ votes' = votes
      BY <1>9, <2>2, <3>1 DEF TypeOK
    <3>3. \A q \in Replica : ballot[q] <= ballot'[q] BY <3>2, BallotTypes
    <3>4. RoleStep /\ NoNewLeader BY <3>2, <3>3 DEF RoleStep, NoNewLeader, Leading
    <3> QED BY <3>2, <3>4 DEF Shape, Leads
  <2> QED BY <2>1, <2>2
<1>12. LogShape' BY <1>9, <1>11, LogKept DEF NoNewLeader
<1>13. \A p \in S : p.kind = "Promise" /\ p.from = i /\ p.to = m.from /\ p.ballot = b /\ p.floor = f
  BY <1>6, <1>7 DEF SnapshotOf
<1>14. Traffic'
  <2>1. ASSUME NEW x \in msgs', x \notin msgs PROVE GoodPacket(x)'
    <3>1. x.kind = "Promise" /\ x.from # x.to BY <1>6, <1>10, <1>13, <2>1
    <3> QED BY <3>1 DEF GoodPacket
  <2> QED BY <1>11, <2>1, TrafficKept DEF Shape
<1>15. PICK g \in 0..(MaxSlot + 1) : Asked(b, g) BY <1>5 DEF Shape, Floors
<1>16. g = f BY <1>1, <1>2, <1>4, <1>15 DEF Asked
<1>17. Pages(i, b) = {}
  <2> SUFFICES ASSUME NEW p \in Promised, p.from = i, p.ballot = b PROVE FALSE BY DEF Pages
  <2>1. GoodPromise(p) BY DEF Shape, PromiseShape
  <2>2. b <= ballot[i] BY <2>1 DEF GoodPromise
  <2>3. b = ballot[i] BY <1>4, <1>8, <2>2
  <2>4. p \in frozen[i] BY <2>1, <2>3 DEF GoodPromise
  <2>5. p.floor = f BY <1>15, <1>16 DEF Asked
  <2> QED BY <1>1, <1>2, <2>4, <2>5
<1>18. \A p \in Promised' : p \in Promised \/ p \in S
  <2> SUFFICES ASSUME NEW p \in Promised' PROVE p \in Promised \/ p \in S OBVIOUS
  <2>1. CASE p \in msgs' /\ p.kind = "Promise" BY <1>10, <2>1, InPromised
  <2>2. CASE \E j \in Replica : p \in pages'[j] \/ p \in frozen'[j]
    BY <1>9, <2>2, InPromised DEF TypeOK
  <2> QED BY <2>1, <2>2, InPromisedNext
<1>19. Begun(b)' BY <1>5, <1>6, <1>11, LedKept
<1>20. /\ PromiseShape' /\ OneSnapshot' /\ Pages(i, b)' = S
       /\ \A q \in Replica, c \in Ballot :
             ~(q = i /\ c = b) => Pages(q, c)' \subseteq Pages(q, c)
       /\ \A q \in Replica, c \in Ballot : SamePages(q, c) \/ FreshPages(q, c)
       /\ \A p \in Promised' : p \in Promised \/ \A x \in p.recs : \E j \in Replica : x \in log[j]
  <2>1. /\ log' = log /\ b >= ballot[i] /\ RoleStep
        /\ ballot' = [ballot EXCEPT ![i] = b] /\ frozen' = [frozen EXCEPT ![i] = S]
    BY <1>4, <1>9, <1>11
  <2> QED BY <1>5, <1>7, <1>17, <1>18, <1>19, <2>1, SnapshotMade
<1>21. Preparation'
  <2> SUFFICES ASSUME NEW j \in Replica, preparing'[j] PROVE Prepared(j)' BY DEF Preparation
  <2>1. /\ ballot'[j] = ballot[j] /\ preparing[j] /\ pages'[j] = pages[j]
        /\ promises'[j] = promises[j] /\ high'[j] = high[j]
    BY <1>9, <1>11
  <2>2. PICK c \in Ballot : c = ballot[j] BY DEF TypeOK
  <2>3. ASSUME NEW q \in promises[j] PROVE Pages(q, c)' \subseteq Pages(q, c)
    <3>1. q \in Replica BY DEF TypeOK
    <3>2. Whole(q, c) BY <2>1, <2>2 DEF Shape, Preparation, Prepared, Gathered
    <3>3. ~(q = i /\ c = b) BY <1>17, <3>2 DEF Whole
    <3> QED BY <1>20, <3>1, <3>3
  <2>4. \A q \in promises[j] : Pages(q, ballot[j])' \subseteq Pages(q, ballot[j])
    BY <2>1, <2>2, <2>3 DEF Pages
  <2> QED BY <2>1, <2>4, PreparedKept
<1>22. Floors'
  <2> SUFFICES ASSUME NEW c \in Ballot PROVE \E h \in 0..(MaxSlot + 1) : Asked(c, h)'
    BY DEF Floors
  <2>1. PICK h \in 0..(MaxSlot + 1) : Asked(c, h) BY DEF Shape, Floors
  <2>2. c = b => h = f BY <1>1, <1>2, <1>4, <2>1 DEF Asked
  <2>3. ASSUME NEW x \in msgs', x.kind = "Prepare", x.ballot = c PROVE x.floor = h
    <3>1. x \in msgs BY <1>10, <1>13, <2>3
    <3> QED BY <2>1, <2>3, <3>1 DEF Asked
  <2>4. ASSUME NEW p \in Promised', p.ballot = c PROVE p.floor = h
    BY <1>13, <1>18, <2>1, <2>2, <2>4 DEF Asked
  <2>5. ASSUME NEW j \in Replica, preparing'[j], ballot'[j] = c PROVE h = executed'[j] + 1
    BY <1>9, <1>11, <2>1, <2>5 DEF Asked
  <2>6. Asked(c, h)' BY <2>3, <2>4, <2>5 DEF Asked
  <2> QED BY <2>6
<1>23. Shape' BY <1>11, <1>12, <1>14, <1>20, <1>21, <1>22 DEF Shape
<1>24. \A x \in Known' : x \in Known
  <2>1. \A x \in msgs' : x.kind \in {"Accept", "Commit"} => x \in msgs BY <1>10, <1>13
  <2> QED BY <1>9, <1>20, <2>1, KnownKept
<1>25. \A q \in Replica, c \in Ballot, s \in Slot : Voted(q, c, s)' => Voted(q, c, s)
  <2>1. \A x \in msgs' : x.kind = "Ack" => x \in msgs BY <1>10, <1>13
  <2> QED BY <1>11, <2>1, VotedKept
<1> QED BY <1>9, <1>11, <1>20, <1>23, <1>24, <1>25, StillAdvance

\* A replica answers a Prepare.
LEMMA PrepareAdvances ==
    ASSUME TypeOK, TypeOK', Shape, NEW i \in Replica, NEW m \in msgs, m.to = i, ReceivePrepare(i, m)
    PROVE  Shape' /\ Advance
BY RepeatedPrepare, NewPrepare

-----------------------------------------------------------------------------
(***************************************************************************)
(* Steps that change one log.                                              *)
(***************************************************************************)
Functional(L) == \A x, y \in L : x.slot = y.slot => x = y

\* install: what the log holds then, and what becomes of its records.
LEMMA InstallShape ==
    ASSUME NEW L \in SUBSET Record, NEW R \in SUBSET Record, Functional(L), Functional(R)
    PROVE  /\ Functional(Install(L, R))
           /\ \A x \in Install(L, R) : x \in L \/ (x \in R /\ ~Decided(L, x.slot))
           /\ \A y \in L : y.committed \/ y.slot \notin Slots(R) => y \in Install(L, R)
           /\ \A y \in L : \E z \in Install(L, R) :
                 z.slot = y.slot /\ (z = y \/ (z \in R /\ ~y.committed))
           /\ \A x \in R : \E z \in Install(L, R) :
                 z.slot = x.slot /\ (z = x \/ (z \in L /\ z.committed))
           /\ \A s : Decided(L, s) => Decided(Install(L, R), s)
<1> DEFINE I == Install(L, R)
<1>1. \A x : x \in I <=> ( \/ (x \in L /\ (x.committed \/ x.slot \notin Slots(R)))
                           \/ (x \in R /\ ~Decided(L, x.slot)) )
  BY Zenon DEF Install
<1>2. \A s : s \in Slots(R) <=> \E r \in R : r.slot = s BY DEF Slots
<1>3. \A s : Decided(L, s) <=> \E r \in L : r.slot = s /\ r.committed BY DEF Decided
<1> HIDE DEF I
<1>4. Functional(I) BY <1>1, <1>2, <1>3 DEF Functional
<1>5. ASSUME NEW y \in L
      PROVE  \E z \in I : z.slot = y.slot /\ (z = y \/ (z \in R /\ ~y.committed))
  <2>1. CASE y \in I BY <2>1
  <2>2. CASE y \notin I
    <3>1. PICK r \in R : r.slot = y.slot BY <1>1, <1>2, <2>2, Zenon
    <3>2. ~Decided(L, r.slot) /\ ~y.committed BY <1>1, <1>3, <2>2, <3>1, Zenon DEF Functional
    <3> QED BY <1>1, <3>1, <3>2
  <2> QED BY <2>1, <2>2
<1>6. ASSUME NEW x \in R
      PROVE  \E z \in I : z.slot = x.slot /\ (z = x \/ (z \in L /\ z.committed))
  <2>1. CASE Decided(L, x.slot)
    <3>1. PICK r \in L : r.slot = x.slot /\ r.committed BY <1>3, <2>1
    <3> QED BY <1>1, <3>1, Zenon
  <2>2. CASE ~Decided(L, x.slot) BY <1>1, <2>2
  <2> QED BY <2>1, <2>2
<1>7. \A s : Decided(L, s) => Decided(I, s) BY <1>1, Zenon DEF Decided
<1> QED BY <1>1, <1>4, <1>5, <1>6, <1>7 DEF I

\* Decide: the records stay, some become committed.
LEMMA DecideShape ==
    ASSUME NEW L \in SUBSET Record, NEW C \in SUBSET L, Functional(L)
    PROVE  /\ Functional(Decide(L, C))
           /\ \A x \in Decide(L, C) : \/ x \in L /\ x \notin C
                                      \/ \E y \in C : /\ x.slot = y.slot /\ x.req = y.req
                                                      /\ x.ballot = y.ballot /\ x.committed
           /\ \A y \in L : \E x \in Decide(L, C) :
                 /\ x.slot = y.slot /\ x.req = y.req /\ x.ballot = y.ballot
                 /\ y.committed => x.committed
           /\ \A s : Decided(L, s) => Decided(Decide(L, C), s)
<1> DEFINE D == Decide(L, C)
<1>1. \A x : x \in D <=> ( \/ (x \in L /\ x \notin C)
                           \/ \E y \in C : x = [y EXCEPT !.committed = TRUE] )
  BY DEF Decide
<1>2. ASSUME NEW y \in L, NEW x, x = [y EXCEPT !.committed = TRUE]
      PROVE  x.slot = y.slot /\ x.req = y.req /\ x.ballot = y.ballot /\ x.committed
  <2>1. y \in Record OBVIOUS
  <2> QED BY <1>2, <2>1 DEF Record
<1> HIDE DEF D
<1>3. ASSUME NEW x \in D
      PROVE  \/ x \in L /\ x \notin C
             \/ \E y \in C : /\ x = [y EXCEPT !.committed = TRUE]
                             /\ x.slot = y.slot /\ x.req = y.req
                             /\ x.ballot = y.ballot /\ x.committed
  <2>1. CASE x \in L /\ x \notin C BY <2>1
  <2>2. CASE \E y \in C : x = [y EXCEPT !.committed = TRUE]
    <3>1. PICK y \in C : x = [y EXCEPT !.committed = TRUE] BY <2>2
    <3>2. y \in L OBVIOUS
    <3>3. x.slot = y.slot /\ x.req = y.req /\ x.ballot = y.ballot /\ x.committed
      BY <1>2, <3>1, <3>2
    <3> QED BY <3>1, <3>3
  <2> QED BY <1>1, <2>1, <2>2
<1>4. ASSUME NEW x \in D, NEW z \in D, x.slot = z.slot PROVE x = z
  <2>1. CASE x \in L /\ x \notin C /\ z \in L /\ z \notin C BY <1>4, <2>1 DEF Functional
  <2>2. CASE x \in L /\ x \notin C /\ ~(z \in L /\ z \notin C)
    <3>1. PICK y \in C : z.slot = y.slot BY <1>3, <2>2
    <3> QED BY <1>4, <2>2, <3>1 DEF Functional
  <2>3. CASE ~(x \in L /\ x \notin C) /\ z \in L /\ z \notin C
    <3>1. PICK y \in C : x.slot = y.slot BY <1>3, <2>3
    <3> QED BY <1>4, <2>3, <3>1 DEF Functional
  <2>4. CASE ~(x \in L /\ x \notin C) /\ ~(z \in L /\ z \notin C)
    <3>1. PICK y \in C : x = [y EXCEPT !.committed = TRUE] /\ x.slot = y.slot BY <1>3, <2>4
    <3>2. PICK w \in C : z = [w EXCEPT !.committed = TRUE] /\ z.slot = w.slot BY <1>3, <2>4
    <3>3. y = w BY <1>4, <3>1, <3>2 DEF Functional
    <3> QED BY <3>1, <3>2, <3>3
  <2> QED BY <2>1, <2>2, <2>3, <2>4
<1>5. ASSUME NEW y \in L
      PROVE  \E x \in D : /\ x.slot = y.slot /\ x.req = y.req /\ x.ballot = y.ballot
                          /\ y.committed => x.committed
  <2>1. CASE y \in C
    <3>1. PICK x : x = [y EXCEPT !.committed = TRUE] OBVIOUS
    <3>2. x \in D BY <1>1, <2>1, <3>1
    <3>3. x.slot = y.slot /\ x.req = y.req /\ x.ballot = y.ballot /\ x.committed
      BY <1>2, <3>1
    <3> QED BY <3>2, <3>3
  <2>2. CASE y \notin C BY <1>1, <2>2
  <2> QED BY <2>1, <2>2
<1>6. ASSUME NEW s, Decided(L, s) PROVE Decided(D, s)
  <2>1. PICK y \in L : y.slot = s /\ y.committed BY <1>6 DEF Decided
  <2>2. PICK x \in D : x.slot = y.slot /\ (y.committed => x.committed) BY <1>5
  <2> QED BY <2>1, <2>2 DEF Decided
<1>7. Functional(D) BY <1>4 DEF Functional
<1>8. \A x \in D : \/ x \in L /\ x \notin C
                   \/ \E y \in C : /\ x.slot = y.slot /\ x.req = y.req
                                   /\ x.ballot = y.ballot /\ x.committed
  BY <1>3
<1>9. D = Decide(L, C) BY DEF D
<1> QED BY <1>5, <1>6, <1>7, <1>8, <1>9

\* What LogShape says of one replica.
GoodLog(L, h, e, b, leads) ==
    /\ Functional(L)
    /\ \A x \in L : x.slot <= h /\ x.ballot <= b
    /\ \A s \in 0..e : Decided(L, s)
    /\ leads => \A x \in L : x.ballot = b \/ x.committed

\* Shape says of each log that it is good.
LEMMA LogIsGood ==
    ASSUME Shape, NEW i \in Replica
    PROVE  GoodLog(log[i], high[i], executed[i], ballot[i], Leading(i))
BY DEF Shape, LogShape, GoodLog, Functional

\* A step that leaves one good log and sends good packets keeps Shape.
LEMMA LogStep ==
    ASSUME TypeOK, TypeOK', Shape, NEW i \in Replica, RoleStep, Leads', SamePreparing,
           ballot' = ballot, frozen' = frozen, Promised' \subseteq Promised,
           \A j \in Replica : j # i => /\ log'[j] = log[j] /\ high'[j] = high[j]
                                     /\ executed'[j] = executed[j] /\ preparing'[j] = preparing[j],
           GoodLog(log'[i], high'[i], executed'[i], ballot[i], ~preparing'[i] /\ Owner(ballot[i]) = i),
           \A m \in msgs' : m \in msgs \/ (m.kind # "Prepare" /\ GoodPacket(m)')
    PROVE  Shape' /\ \A q \in Replica, c \in Ballot : SamePages(q, c)
<1>1. LogShape'
  <2> SUFFICES ASSUME NEW j \in Replica
               PROVE  /\ \A x, y \in log'[j] : x.slot = y.slot => x = y
                      /\ \A x \in log'[j] : x.slot <= high'[j] /\ x.ballot <= ballot'[j]
                      /\ \A s \in 0..executed'[j] : Decided(log'[j], s)
                      /\ Leading(j)' => \A x \in log'[j] : x.ballot = ballot'[j] \/ x.committed
    BY DEF LogShape
  <2>1. CASE j = i BY <2>1 DEF GoodLog, Functional, Leading
  <2>2. CASE j # i
    <3>1. /\ log'[j] = log[j] /\ high'[j] = high[j] /\ executed'[j] = executed[j]
          /\ ballot'[j] = ballot[j] /\ (Leading(j)' => Leading(j))
      BY <2>2 DEF Leading
    <3>2. GoodLog(log[j], high[j], executed[j], ballot[j], Leading(j)) BY LogIsGood
    <3> QED BY <3>1, <3>2 DEF GoodLog, Functional
  <2> QED BY <2>1, <2>2
<1>2. Traffic' BY TrafficKept DEF Shape
<1>3. PromiseShape' /\ OneSnapshot' /\ \A q \in Replica, c \in Ballot : SamePages(q, c)
  BY UnpromisedKept DEF Unpromised
<1>4. Preparation' /\ Floors' BY PreparationKept
<1> QED BY <1>1, <1>2, <1>3, <1>4 DEF Shape

\* A step that changes one log advances the protocol.
LEMMA LogAdvance ==
    ASSUME TypeOK, TypeOK', Shape, NEW i \in Replica, RoleStep, ballot' = ballot,
           \A q \in Replica : Leading(q)' => Leading(q) \/ TookOver(q),
           \A j \in Replica : j # i => log'[j] = log[j],
           \A y \in log[i] : \E z \in log'[i] :
              /\ z.slot = y.slot /\ z.ballot >= y.ballot
              /\ y.committed => z.committed \/ z.ballot = ballot[i]
              /\ Leading(i) => z.req = y.req,
           \A q \in Replica, b \in Ballot, s \in Slot :
              Voted(q, b, s)' => Voted(q, b, s) \/ FreshVote(q, b, s),
           \A q \in Replica, c \in Ballot : SamePages(q, c),
           Promised' \subseteq Promised,
           \A x \in log'[i] : x \in Known \/ Restated(x) \/ Fresh(x) \/ Adopted(x),
           \A m \in msgs' : m.kind \in {"Accept", "Commit"} =>
              m \in msgs \/ \A x \in m.recs : x \in Known \/ Restated(x) \/ Fresh(x) \/ Adopted(x)
    PROVE  Advance
<1>1. ASSUME NEW q \in Replica
      PROVE  /\ ballot[q] <= ballot'[q]
             /\ Leading(q)' => ballot'[q] = ballot[q] /\ (Leading(q) \/ TookOver(q))
             /\ Leading(q) /\ ballot'[q] = ballot[q] => Leading(q)'
  BY DEF RoleStep
<1>2. ASSUME NEW q \in Replica, NEW y \in log[q]
      PROVE  \E z \in log'[q] : /\ z.slot = y.slot /\ z.ballot >= y.ballot
                                /\ y.committed => z.committed \/ z.ballot = ballot'[q]
                                /\ Leading(q) => z.req = y.req
  <2>1. CASE q = i BY <2>1
  <2>2. CASE q # i
    <3>1. y \in Record BY DEF TypeOK
    <3>2. y.ballot \in Nat BY <3>1, BallotNat DEF Record
    <3>3. y \in log'[q] /\ y.ballot >= y.ballot BY <2>2, <3>2
    <3> QED BY <3>3
  <2> QED BY <2>1, <2>2
<1>3. ASSUME NEW x \in Known' PROVE x \in Known \/ Restated(x) \/ Fresh(x) \/ Adopted(x)
  <2>1. CASE \E j \in Replica : x \in log'[j]
    <3>1. PICK j \in Replica : x \in log'[j] BY <2>1
    <3>2. CASE j = i BY <3>1, <3>2
    <3>3. CASE j # i BY <3>1, <3>3, InKnown
    <3> QED BY <3>2, <3>3
  <2>2. CASE \E m \in msgs' : m.kind \in {"Accept", "Commit"} /\ x \in m.recs BY <2>2, InKnown
  <2>3. CASE \E p \in Promised' : x \in p.recs BY <2>3, InKnown
  <2> QED BY <2>1, <2>2, <2>3, InKnownNext
<1> QED BY <1>1, <1>2, <1>3 DEF Advance

\* No promise is made.
LEMMA PromisedKept ==
    ASSUME frozen' = frozen, pages' = pages, \A m \in msgs' : m.kind = "Promise" => m \in msgs
    PROVE  Promised' \subseteq Promised
<1> SUFFICES ASSUME NEW p \in Promised' PROVE p \in Promised OBVIOUS
<1> QED BY InPromised, InPromisedNext

\* Ballots and roles stay.
LEMMA SameRoles ==
    ASSUME TypeOK, TypeOK', Shape, UNCHANGED <<ballot, leader, preparing>>
    PROVE  RoleStep /\ Leads' /\ (\A q \in Replica : Leading(q)' => Leading(q))
           /\ \A b \in Ballot : Led(b) => Led(b)'
<1>1. \A q \in Replica : ballot[q] <= ballot'[q] BY BallotTypes
<1>2. \A q \in Replica : Leading(q)' = Leading(q) BY DEF Leading
<1>3. Leads' BY DEF Shape, Leads
<1>4. RoleStep BY <1>1, <1>2 DEF RoleStep
<1> QED BY <1>2, <1>3, <1>4, LedKept

\* What a follower knows of a packet with records that it accepts.
LEMMA FromItsLeader ==
    ASSUME TypeOK, Shape, NEW i \in Replica, NEW m \in msgs, m.to = i,
           m.kind \in {"Accept", "Commit"}, FromLeader(i, m)
    PROVE  /\ m.ballot = ballot[i] /\ m.ballot \in Ballot /\ m.from = leader[i]
           /\ m.from = Owner(m.ballot) /\ m.from # i /\ m.from \in Replica /\ Led(m.ballot)
           /\ ~Leading(i) /\ ~preparing[i]
           /\ m.recs \in SUBSET Record /\ Functional(m.recs)
           /\ \A x \in m.recs : x.ballot = ballot[i] /\ x \in Known
           /\ m.kind = "Commit" => \A x \in m.recs : x.committed
<1>1. m \in Packet /\ m.from \in Replica /\ m.ballot \in Ballot /\ m.recs \in SUBSET Record
  BY PacketFields DEF TypeOK
<1>2. m.ballot = ballot[i] /\ m.from = leader[i] BY DEF FromLeader
<1>3. GoodPacket(m) BY DEF Shape, Traffic
<1>4. m.from = Owner(m.ballot) /\ m.from # i /\ Led(m.ballot) BY <1>3 DEF GoodPacket
<1>5. ~Leading(i) BY <1>2, <1>4 DEF Leading
<1>6. ~preparing[i] BY <1>2, <1>4 DEF Shape, Preparation, Prepared
<1>7. Functional(m.recs) /\ \A x \in m.recs : x.ballot = ballot[i]
  BY <1>2, <1>3 DEF GoodPacket, Functional
<1>8. \A x \in m.recs : x \in Known BY InKnown
<1>9. m.kind = "Commit" => \A x \in m.recs : x.committed BY <1>3 DEF GoodPacket
<1> QED BY <1>1, <1>2, <1>4, <1>5, <1>6, <1>7, <1>8, <1>9

\* Records of its ballot, installed in a log.
LEMMA Installed ==
    ASSUME TypeOK, Shape, NEW i \in Replica, NEW R \in SUBSET Record, Functional(R),
           \A x \in R : x.ballot = ballot[i], NEW h, IsTop(h, {high[i]} \cup Slots(R))
    PROVE  /\ GoodLog(Install(log[i], R), h, executed[i], ballot[i], FALSE)
           /\ \A y \in log[i] : \E z \in Install(log[i], R) :
                 /\ z.slot = y.slot /\ z.ballot >= y.ballot
                 /\ y.committed => z.committed
<1> DEFINE L == log[i]
           I == Install(L, R)
<1>1. L \in SUBSET Record BY DEF TypeOK
<1>2. GoodLog(L, high[i], executed[i], ballot[i], Leading(i)) BY LogIsGood
<1>3. Functional(L) BY <1>2 DEF GoodLog
<1>4. /\ Functional(I)
      /\ \A x \in I : x \in L \/ (x \in R /\ ~Decided(L, x.slot))
      /\ \A y \in L : \E z \in I : z.slot = y.slot /\ (z = y \/ (z \in R /\ ~y.committed))
      /\ \A s : Decided(L, s) => Decided(I, s)
  BY <1>1, <1>3, InstallShape
<1>5. ballot[i] \in Nat /\ high[i] \in Int BY DEF TypeOK, Ballot
<1>6. h \in Int /\ high[i] <= h /\ \A x \in R : x.slot <= h
  BY <1>5 DEF IsTop, Slots, Record, Slot
<1> HIDE DEF I
<1>7. \A x \in I : x.slot <= h /\ x.ballot <= ballot[i]
  <2> TAKE x \in I
  <2>1. CASE x \in R BY <1>5, <1>6, <2>1
  <2>2. CASE x \in L
    <3>1. x.slot <= high[i] /\ x.ballot <= ballot[i] BY <1>2, <2>2 DEF GoodLog
    <3>2. x.slot \in Nat BY <1>1, <2>2 DEF Record, Slot
    <3> QED BY <1>5, <1>6, <3>1, <3>2
  <2> QED BY <1>4, <2>1, <2>2
<1>8. \A s \in 0..executed[i] : Decided(I, s) BY <1>2, <1>4 DEF GoodLog
<1>9. GoodLog(I, h, executed[i], ballot[i], FALSE) BY <1>4, <1>7, <1>8 DEF GoodLog
<1>10. ASSUME NEW y \in L
       PROVE  \E z \in I : /\ z.slot = y.slot /\ z.ballot >= y.ballot
                           /\ y.committed => z.committed
  <2>1. y.ballot \in Nat /\ y.ballot <= ballot[i] BY <1>1, <1>2 DEF GoodLog, Record, Ballot
  <2>2. PICK z \in I : z.slot = y.slot /\ (z = y \/ (z \in R /\ ~y.committed)) BY <1>4
  <2>3. CASE z = y BY <2>1, <2>2, <2>3
  <2>4. CASE z \in R /\ ~y.committed BY <1>5, <2>1, <2>2, <2>4
  <2> QED BY <2>2, <2>3, <2>4
<1> QED BY <1>9, <1>10 DEF I

\* Records that carry their ballot are sent as they are.
LEMMA StampSame ==
    ASSUME NEW R \in SUBSET Record, NEW b, \A x \in R : x.ballot = b PROVE Stamp(R, b) = R
<1>1. \A x \in R : [x EXCEPT !.ballot = b] = x BY DEF Record
<1> QED BY <1>1 DEF Stamp

\* A follower accepts records and acknowledges them.
LEMMA AcceptAdvances ==
    ASSUME TypeOK, TypeOK', Shape, Safety, NEW i \in Replica, NEW m \in msgs, m.to = i,
           NEW fetch \in BOOLEAN, ReceiveAccept(i, m, fetch)
    PROVE  Shape' /\ Advance
<1>1. PICK b : b = ballot[i] OBVIOUS
<1>2. PICK R : R = m.recs OBVIOUS
<1>3. m.kind = "Accept" /\ FromLeader(i, m) BY DEF ReceiveAccept
<1>4. /\ m.ballot = b /\ b \in Ballot /\ m.from = leader[i]
      /\ m.from = Owner(b) /\ m.from # i /\ m.from \in Replica /\ Led(b)
      /\ ~Leading(i) /\ ~preparing[i]
      /\ R \in SUBSET Record /\ Functional(R)
      /\ \A x \in R : x.ballot = b /\ x \in Known
  BY <1>1, <1>2, <1>3, FromItsLeader
<1>5. Stamp(m.recs, m.ballot) = R BY <1>2, <1>4, StampSame
<1>6. UNCHANGED <<ballot, leader, preparing, executed, votes, pages, promises, frozen>>
  BY DEF ReceiveAccept, roleVars, quorumVars
<1>7. log' = [log EXCEPT ![i] = Install(log[i], R)] BY <1>5 DEF ReceiveAccept
<1>8. PICK h \in Slot : IsTop(h, {high[i]} \cup Slots(R)) /\ high' = [high EXCEPT ![i] = h]
  BY <1>5 DEF ReceiveAccept
<1>9. \A x \in msgs' : x \in msgs \/ x = Ack(i, m.from, b, Slots(R))
                       \/ x = Fetch(i, m.from, b, executed[i] + 1)
  <2> DEFINE out == To(i, leader[i], {Ack(i, leader[i], ballot[i], Slots(R))})
                      \cup IF fetch THEN FetchFrom(i) ELSE {}
  <2>1. Exchange(m, out) BY <1>5 DEF ReceiveAccept
  <2>2. \A x \in out : x = Ack(i, m.from, b, Slots(R)) \/ x = Fetch(i, m.from, b, executed[i] + 1)
    BY <1>1, <1>4 DEF To, FetchFrom
  <2> HIDE DEF out
  <2> QED BY <2>1, <2>2, ExchangeSubset
<1>10. RoleStep /\ Leads' /\ Led(b)' /\ \A q \in Replica : Leading(q)' => Leading(q)
  BY <1>4, <1>6, SameRoles
<1>11. \A x \in msgs' : x \in msgs \/ (x.kind \in {"Ack", "Fetch"} /\ GoodPacket(x)')
  BY <1>4, <1>9, <1>10 DEF GoodPacket, Ack, Fetch
<1>12. Promised' \subseteq Promised BY <1>6, <1>11, PromisedKept
<1>13. /\ log'[i] = Install(log[i], R) /\ high'[i] = h
       /\ \A j \in Replica : j # i => log'[j] = log[j] /\ high'[j] = high[j]
  BY <1>7, <1>8 DEF TypeOK
<1>14. SamePreparing BY <1>4, <1>6, <1>13 DEF SamePreparing
<1>15. /\ GoodLog(log'[i], h, executed[i], b, FALSE)
       /\ \A y \in log[i] : \E z \in log'[i] :
             /\ z.slot = y.slot /\ z.ballot >= y.ballot
             /\ y.committed => z.committed
  <2>1. R \in SUBSET Record /\ Functional(R) /\ \A x \in R : x.ballot = ballot[i] BY <1>1, <1>4
  <2>2. IsTop(h, {high[i]} \cup Slots(R)) BY <1>8
  <2>3. /\ GoodLog(Install(log[i], R), h, executed[i], ballot[i], FALSE)
        /\ \A y \in log[i] : \E z \in Install(log[i], R) :
              /\ z.slot = y.slot /\ z.ballot >= y.ballot
              /\ y.committed => z.committed
    BY <2>1, <2>2, Installed
  <2> QED BY <1>1, <1>13, <2>3
<1>16. GoodLog(log'[i], high'[i], executed'[i], ballot[i], ~preparing'[i] /\ Owner(ballot[i]) = i)
  BY <1>1, <1>4, <1>6, <1>13, <1>15 DEF GoodLog
<1>17. \A x \in msgs' : x \in msgs \/ (x.kind # "Prepare" /\ GoodPacket(x)') BY <1>11
<1>18. Shape' /\ \A q \in Replica, c \in Ballot : SamePages(q, c)
  BY <1>6, <1>10, <1>12, <1>13, <1>14, <1>16, <1>17, LogStep
<1>19. /\ \A x \in log'[i] : x \in log[i] \/ x \in R
       /\ \A x \in R : \E z \in log'[i] : z.slot = x.slot /\ (z = x \/ z.committed)
  <2>1. log[i] \in SUBSET Record /\ Functional(log[i])
    BY LogIsGood DEF TypeOK, GoodLog
  <2> QED BY <1>4, <1>13, <2>1, InstallShape
<1>20. ASSUME NEW s \in Slots(R) PROVE FreshVote(i, b, s)
  <2>1. PICK x \in R : x.slot = s BY DEF Slots
  <2>2. PICK z \in log'[i] : z.slot = s /\ (z = x \/ z.committed) BY <1>19, <2>1
  <2>3. b \in Nat BY <1>4, BallotNat
  <2>4. z.ballot >= b \/ z.committed BY <1>4, <2>2, <2>3
  <2>5. ballot[Owner(b)] = b => \E y \in log[Owner(b)] : y.slot = s
    BY <1>4, <2>1 DEF Safety, Owned
  <2>6. log'[Owner(b)] = log[Owner(b)] BY <1>4, <1>13
  <2> QED BY <1>1, <1>6, <1>10, <2>2, <2>4, <2>5, <2>6 DEF FreshVote
<1>21. ASSUME NEW q \in Replica, NEW c \in Ballot, NEW s \in Slot, Voted(q, c, s)'
       PROVE  Voted(q, c, s) \/ FreshVote(q, c, s)
  <2>1. CASE \E x \in msgs' : x.kind = "Ack" /\ x.from = q /\ x.ballot = c /\ s \in x.slots
    <3>1. PICK x \in msgs' : x.kind = "Ack" /\ x.from = q /\ x.ballot = c /\ s \in x.slots BY <2>1
    <3>2. CASE x \in msgs BY <3>1, <3>2 DEF Voted
    <3>3. CASE x = Ack(i, m.from, b, Slots(R)) BY <1>20, <3>1, <3>3 DEF Ack
    <3>4. CASE x = Fetch(i, m.from, b, executed[i] + 1) BY <3>1, <3>4 DEF Fetch
    <3> QED BY <1>9, <3>2, <3>3, <3>4
  <2>2. CASE ballot'[Owner(c)] = c /\ q \in votes'[Owner(c)][s] BY <1>6, <2>2 DEF Voted
  <2> QED BY <1>21, <2>1, <2>2 DEF Voted
<1>22. \A x \in log'[i] : x \in Known BY <1>4, <1>19, InKnown
<1>23. \A x \in msgs' : x.kind \in {"Accept", "Commit"} => x \in msgs BY <1>11
<1>24. \A y \in log[i] : \E z \in log'[i] :
          /\ z.slot = y.slot /\ z.ballot >= y.ballot
          /\ y.committed => z.committed \/ z.ballot = ballot[i]
          /\ Leading(i) => z.req = y.req
  BY <1>4, <1>15
<1>25. Advance BY <1>6, <1>10, <1>12, <1>13, <1>18, <1>21, <1>22, <1>23, <1>24, LogAdvance
<1> QED BY <1>18, <1>25

\* Execution goes on through decided slots only.
LEMMA Executes ==
    ASSUME TypeOK, NEW i \in Replica, NEW L, Apply(i, L)
    PROVE  /\ executed'[i] \in Int /\ executed[i] <= executed'[i]
           /\ \A j \in Replica : j # i => executed'[j] = executed[j]
           /\ \A s \in 0..executed'[i] : s \in 0..executed[i] \/ Decided(L, s)
<1>1. PICK n \in executed[i]..MaxSlot :
         StopsAt(L, executed[i], n) /\ executed' = [executed EXCEPT ![i] = n]
  BY DEF Apply
<1>2. executed[i] \in Int /\ MaxSlot \in Int BY BoundAssumption DEF TypeOK
<1>3. \A s \in (executed[i] + 1)..n : Decided(L, s) BY <1>1 DEF StopsAt
<1>4. executed'[i] = n /\ \A j \in Replica : j # i => executed'[j] = executed[j]
  BY <1>1 DEF TypeOK
<1> QED BY <1>1, <1>2, <1>3, <1>4

\* With all its records committed, deciding changes nothing.
LEMMA DecideSame ==
    ASSUME NEW L \in SUBSET Record, NEW C \in SUBSET L, \A x \in C : x.committed
    PROVE  Decide(L, C) = L
<1>1. \A x \in C : [x EXCEPT !.committed = TRUE] = x
  <2> TAKE x \in C
  <2>1. x \in Record /\ x.committed OBVIOUS
  <2> QED BY <2>1 DEF Record
<1> QED BY <1>1 DEF Decide

\* Committed records need no further decision.
LEMMA InstalledCommit ==
    ASSUME NEW L \in SUBSET Record, NEW R \in SUBSET Record, \A x \in R : x.committed
    PROVE  Decide(Install(L, R), {r \in Install(L, R) : r.slot \in Slots(R)}) = Install(L, R)
<1> DEFINE I == Install(L, R)
           C == {r \in I : r.slot \in Slots(R)}
<1>1. I \in SUBSET Record BY DEF Install
<1>2. \A x \in C : x.committed BY DEF Install
<1> HIDE DEF I
<1> QED BY <1>1, <1>2, DecideSame DEF I

\* A follower learns what is decided, and executes.
LEMMA CommitAdvances ==
    ASSUME TypeOK, TypeOK', Shape, NEW i \in Replica, NEW m \in msgs, m.to = i,
           ReceiveCommit(i, m)
    PROVE  Shape' /\ Advance
<1>1. PICK b : b = ballot[i] OBVIOUS
<1>2. PICK R : R = m.recs OBVIOUS
<1>3. m.kind = "Commit" /\ FromLeader(i, m) BY DEF ReceiveCommit
<1>4. /\ m.ballot = b /\ b \in Ballot /\ m.from = Owner(b) /\ m.from # i
      /\ ~Leading(i) /\ ~preparing[i]
      /\ R \in SUBSET Record /\ Functional(R)
      /\ \A x \in R : x.ballot = b /\ x \in Known /\ x.committed
  BY <1>1, <1>2, <1>3, FromItsLeader
<1>5. log[i] \in SUBSET Record /\ Functional(log[i]) BY LogIsGood DEF TypeOK, GoodLog
<1>6. Decide(Install(log[i], R), {r \in Install(log[i], R) : r.slot \in Slots(R)})
        = Install(log[i], R)
  BY <1>4, <1>5, InstalledCommit
<1>7. UNCHANGED <<ballot, leader, preparing, pages, promises, frozen>>
  BY DEF ReceiveCommit, roleVars
<1>8. log' = [log EXCEPT ![i] = Install(log[i], R)] /\ Apply(i, Install(log[i], R))
  BY <1>2, <1>6 DEF ReceiveCommit
<1>9. PICK h \in Slot : IsTop(h, {high[i]} \cup Slots(R)) /\ high' = [high EXCEPT ![i] = h]
  BY <1>2 DEF ReceiveCommit
<1>10. \A x \in msgs' : x \in msgs
  <2>1. Exchange(m, {}) BY DEF ReceiveCommit
  <2> QED BY <2>1, ExchangeSubset
<1>11. \A o \in Replica, s \in Slot : \A q \in votes'[o][s] :
          ballot'[o] = ballot[o] /\ q \in votes[o][s]
  BY <1>7 DEF ReceiveCommit, Forget, TypeOK
<1>12. RoleStep /\ Leads' /\ \A q \in Replica : Leading(q)' => Leading(q)
  BY <1>7, SameRoles
<1>13. Promised' \subseteq Promised BY <1>7, <1>10, PromisedKept
<1>14. /\ log'[i] = Install(log[i], R) /\ high'[i] = h
       /\ \A j \in Replica : j # i => log'[j] = log[j] /\ high'[j] = high[j]
  BY <1>8, <1>9 DEF TypeOK
<1>15. /\ \A j \in Replica : j # i => executed'[j] = executed[j]
       /\ \A s \in 0..executed'[i] : s \in 0..executed[i] \/ Decided(Install(log[i], R), s)
  BY <1>8, Executes
<1>16. SamePreparing BY <1>4, <1>7, <1>14, <1>15 DEF SamePreparing
<1>17. /\ GoodLog(Install(log[i], R), h, executed[i], ballot[i], FALSE)
       /\ \A y \in log[i] : \E z \in Install(log[i], R) :
             /\ z.slot = y.slot /\ z.ballot >= y.ballot
             /\ y.committed => z.committed
  <2>1. R \in SUBSET Record /\ Functional(R) /\ \A x \in R : x.ballot = ballot[i] BY <1>1, <1>4
  <2>2. IsTop(h, {high[i]} \cup Slots(R)) BY <1>9
  <2> QED BY <2>1, <2>2, Installed
<1>18. GoodLog(log'[i], high'[i], executed'[i], ballot[i], ~preparing'[i] /\ Owner(ballot[i]) = i)
  <2>1. \A s \in 0..executed'[i] : Decided(log'[i], s) BY <1>14, <1>15, <1>17 DEF GoodLog
  <2> QED BY <1>1, <1>4, <1>14, <1>17, <2>1 DEF GoodLog
<1>19. \A x \in msgs' : x \in msgs \/ (x.kind # "Prepare" /\ GoodPacket(x)') BY <1>10
<1>20. Shape' /\ \A q \in Replica, c \in Ballot : SamePages(q, c)
  BY <1>7, <1>12, <1>13, <1>14, <1>15, <1>16, <1>18, <1>19, LogStep
<1>21. \A q \in Replica, c \in Ballot, s \in Slot : Voted(q, c, s)' => Voted(q, c, s)
  BY <1>10, <1>11, VotedKept
<1>22. \A x \in log'[i] : x \in Known
  <2>1. \A x \in log'[i] : x \in log[i] \/ x \in R BY <1>14 DEF Install
  <2> QED BY <1>4, <2>1, InKnown
<1>23. \A y \in log[i] : \E z \in log'[i] :
          /\ z.slot = y.slot /\ z.ballot >= y.ballot
          /\ y.committed => z.committed \/ z.ballot = ballot[i]
          /\ Leading(i) => z.req = y.req
  BY <1>4, <1>14, <1>17
<1>24. Advance BY <1>7, <1>10, <1>12, <1>13, <1>14, <1>20, <1>21, <1>22, <1>23, LogAdvance
<1> QED BY <1>20, <1>24

-----------------------------------------------------------------------------
(***************************************************************************)
(* A leader counts votes.                                                  *)
(***************************************************************************)
\* The records that win have a majority, with the vote of j for the slots S.
Winner(i, j, S, x) ==
    /\ x.ballot = ballot[i] /\ ~x.committed
    /\ \E Q \in Quorum : \A q \in Q : q \in votes[i][x.slot] \/ (q = j /\ x.slot \in S)

\* A record that wins has a majority of the votes.
LEMMA WinnersWin ==
    ASSUME TypeOK, NEW i \in Replica, NEW j \in Replica, NEW L \in SUBSET Record, NEW S
    PROVE  \A x \in Wins(i, j, L, S) : x \in L /\ Winner(i, j, S, x)
<1> TAKE x \in Wins(i, j, L, S)
<1>1. PICK V : V = Vote(votes[i], S, j, executed[i]) OBVIOUS
<1>2. votes[i] \in [Slot -> SUBSET Replica] BY DEF TypeOK
<1>3. V \in [Slot -> SUBSET Replica] BY <1>1, <1>2, VoteTypes
<1>4. x \in L /\ x.ballot = ballot[i] /\ ~x.committed /\ Cardinality(V[x.slot]) >= Majority
  BY <1>1 DEF Wins, Chosen
<1>5. x.slot \in Slot BY <1>4 DEF Record
<1>6. V[x.slot] \in Quorum BY <1>3, <1>4, <1>5 DEF Quorum
<1>7. \A q \in V[x.slot] : q \in votes[i][x.slot] \/ (q = j /\ x.slot \in S)
  BY <1>1, <1>5 DEF Vote
<1> QED BY <1>4, <1>6, <1>7 DEF Winner

\* The votes that a leader has counted.
LEMMA VotesCounted ==
    ASSUME TypeOK, NEW i \in Replica, NEW j, NEW L, NEW S, CountAck(i, j, L, S)
    PROVE  \A o \in Replica, s \in Slot : \A q \in votes'[o][s] :
              q \in votes[o][s] \/ (o = i /\ q = j /\ s \in S)
<1>1. votes' = [votes EXCEPT ![i] = Forget(Vote(votes[i], S, j, executed[i]), executed'[i])]
  BY DEF CountAck
<1> SUFFICES ASSUME NEW o \in Replica, NEW s \in Slot, NEW q \in votes'[o][s]
             PROVE  q \in votes[o][s] \/ (o = i /\ q = j /\ s \in S)
  OBVIOUS
<1>2. CASE o # i BY <1>1, <1>2 DEF TypeOK
<1>3. CASE o = i
  <2>1. votes'[i] = Forget(Vote(votes[i], S, j, executed[i]), executed'[i])
    BY <1>1 DEF TypeOK
  <2>2. q \in Vote(votes[i], S, j, executed[i])[s] BY <1>3, <2>1 DEF Forget
  <2> QED BY <1>3, <2>2 DEF Vote
<1> QED BY <1>2, <1>3

\* What the log of a leader is after it has counted, from what it was before:
\* the records C are committed now.
CountedLog(i, L, C) ==
    /\ \A x \in log'[i] : \/ x \in L
                          \/ \E y \in C : /\ x.slot = y.slot /\ x.req = y.req
                                          /\ x.ballot = y.ballot /\ x.committed
    /\ \A y \in L : \E x \in log'[i] :
          /\ x.slot = y.slot /\ x.req = y.req /\ x.ballot = y.ballot
          /\ y.committed => x.committed

\* What CountAck makes of a good log.
LEMMA Counted ==
    ASSUME TypeOK, NEW i \in Replica, NEW j \in Replica, NEW L \in SUBSET Record, NEW S, NEW h,
           CountAck(i, j, L, S), GoodLog(L, h, executed[i], ballot[i], TRUE)
    PROVE  /\ GoodLog(log'[i], h, executed'[i], ballot[i], TRUE)
           /\ \A k \in Replica : k # i => log'[k] = log[k] /\ executed'[k] = executed[k]
           /\ CountedLog(i, L, Wins(i, j, L, S))
<1>1. PICK C : C = Wins(i, j, L, S) OBVIOUS
<1>2. PICK D : D = Decide(L, C) OBVIOUS
<1>3. C \in SUBSET L BY <1>1, WinsType
<1>4. log' = [log EXCEPT ![i] = D] /\ Apply(i, D) BY <1>1, <1>2 DEF CountAck
<1>5. log'[i] = D /\ \A k \in Replica : k # i => log'[k] = log[k] BY <1>4 DEF TypeOK
<1>6. /\ \A k \in Replica : k # i => executed'[k] = executed[k]
      /\ \A s \in 0..executed'[i] : s \in 0..executed[i] \/ Decided(D, s)
  BY <1>4, Executes
<1>7. /\ Functional(L) /\ \A x \in L : x.slot <= h /\ x.ballot <= ballot[i]
      /\ \A s \in 0..executed[i] : Decided(L, s)
      /\ \A x \in L : x.ballot = ballot[i] \/ x.committed
  BY DEF GoodLog
<1>8. /\ Functional(D)
      /\ \A x \in D : \/ x \in L /\ x \notin C
                      \/ \E y \in C : /\ x.slot = y.slot /\ x.req = y.req
                                      /\ x.ballot = y.ballot /\ x.committed
      /\ \A y \in L : \E x \in D :
            /\ x.slot = y.slot /\ x.req = y.req /\ x.ballot = y.ballot
            /\ y.committed => x.committed
      /\ \A s : Decided(L, s) => Decided(D, s)
  BY <1>2, <1>3, <1>7, DecideShape
<1>9. \A x \in D : x.slot <= h /\ x.ballot <= ballot[i] /\ (x.ballot = ballot[i] \/ x.committed)
  BY <1>3, <1>7, <1>8
<1>10. \A s \in 0..executed'[i] : Decided(D, s) BY <1>6, <1>7, <1>8
<1>11. GoodLog(D, h, executed'[i], ballot[i], TRUE) BY <1>8, <1>9, <1>10 DEF GoodLog
<1>12. CountedLog(i, L, C) BY <1>5, <1>8 DEF CountedLog
<1> QED BY <1>1, <1>5, <1>6, <1>11, <1>12

\* What a leader sends to everybody.
LEMMA Broadcast ==
    ASSUME TypeOK, NEW i \in Replica, NEW W
    PROVE  /\ \A x \in AcceptAll(i, W) : \E j \in Replica : \E R \in W :
                 j # i /\ x = Accept(i, j, ballot[i], R)
           /\ \A x \in CommitAll(i, W) : \E j \in Replica : \E R \in W :
                 j # i /\ x = Commit(i, j, ballot[i], R)
           /\ \A on : \A x \in ReadyAll(i, on) : \E j \in Replica :
                 j # i /\ x = Ready(i, j, ballot[i], executed[i], on)
<1>1. \A j \in Peers(i) : j \in Replica /\ j # i BY DEF Peers, TypeOK
<1>2. \A x \in AcceptAll(i, W) : \E j \in Replica : \E R \in W :
         j # i /\ x = Accept(i, j, ballot[i], R)
  BY <1>1 DEF AcceptAll
<1>3. \A x \in CommitAll(i, W) : \E j \in Replica : \E R \in W :
         j # i /\ x = Commit(i, j, ballot[i], R)
  BY <1>1 DEF CommitAll
<1>4. \A on : \A x \in ReadyAll(i, on) : \E j \in Replica :
         j # i /\ x = Ready(i, j, ballot[i], executed[i], on)
  BY <1>1 DEF ReadyAll
<1> QED BY <1>2, <1>3, <1>4

\* Won, from the votes that are counted.
LEMMA WonBy ==
    ASSUME TypeOK, NEW i \in Replica, Owner(ballot[i]) = i, NEW s \in Slot, NEW Q \in Quorum,
           \A q \in Q : q \in votes[i][s] \/ q = i \/ Voted(q, ballot[i], s)
    PROVE  Won(i, s)
<1>1. \A q \in Q : q = i \/ Voted(q, ballot[i], s) BY DEF Voted
<1> QED BY <1>1 DEF Won

\* A leader counts an acknowledgement.
LEMMA AckAdvances ==
    ASSUME TypeOK, TypeOK', Shape, NEW i \in Replica, NEW m \in msgs, ReceiveAck(i, m)
    PROVE  Shape' /\ Advance
<1>1. PICK b : b = ballot[i] OBVIOUS
<1>a. PICK j : j = m.from OBVIOUS
<1>2. PICK L : L = log[i] OBVIOUS
<1>3. PICK S : S = m.slots OBVIOUS
<1>4. PICK C : C = Wins(i, j, L, S) OBVIOUS
<1>5. /\ m.kind = "Ack" /\ m.ballot = b /\ leader[i] = i /\ ~preparing[i]
      /\ CountAck(i, j, L, S) /\ Exchange(m, CommitAll(i, {Decide(C, C)} \ {{}}))
  BY <1>1, <1>2, <1>3, <1>4, <1>a DEF ReceiveAck
<1>6. j \in Replica /\ b \in Ballot /\ b \in Nat
  BY <1>1, <1>a, PacketFields, BallotTypes DEF TypeOK
<1>7. Owner(b) = i /\ Leading(i) BY <1>1, <1>5 DEF Shape, Leads, Leading
<1>8. UNCHANGED <<ballot, leader, preparing, high, pages, promises, frozen>>
  BY DEF ReceiveAck, roleVars
<1>9. RoleStep /\ Leads' /\ (\A q \in Replica : Leading(q)' => Leading(q)) /\ Led(b)'
  <2>1. Led(b) BY <1>1, <1>5, <1>6, <1>7 DEF Led
  <2> QED BY <1>6, <1>8, <2>1, SameRoles
<1>10. L \in SUBSET Record BY <1>2 DEF TypeOK
<1>11. GoodLog(L, high[i], executed[i], ballot[i], TRUE) BY <1>2, <1>7, LogIsGood DEF GoodLog
<1>12. /\ GoodLog(log'[i], high[i], executed'[i], ballot[i], TRUE)
       /\ \A k \in Replica : k # i => log'[k] = log[k] /\ executed'[k] = executed[k]
       /\ \A x \in log'[i] : \/ x \in L
                             \/ \E y \in C : /\ x.slot = y.slot /\ x.req = y.req
                                             /\ x.ballot = y.ballot /\ x.committed
       /\ \A y \in L : \E x \in log'[i] :
             /\ x.slot = y.slot /\ x.req = y.req /\ x.ballot = y.ballot
             /\ y.committed => x.committed
  <2>1. j \in Replica /\ CountAck(i, j, L, S) BY <1>5, <1>6
  <2>2. /\ GoodLog(log'[i], high[i], executed'[i], ballot[i], TRUE)
        /\ \A k \in Replica : k # i => log'[k] = log[k] /\ executed'[k] = executed[k]
        /\ CountedLog(i, L, Wins(i, j, L, S))
    BY <1>10, <1>11, <2>1, Counted
  <2> QED BY <1>4, <2>2 DEF CountedLog
<1>13. ASSUME NEW y \in C PROVE y \in L /\ y.ballot = b /\ Won(i, y.slot)
  <2>1. \A x \in Wins(i, j, L, S) : x \in L /\ Winner(i, j, S, x) BY <1>6, <1>10, WinnersWin
  <2>2. PICK Q \in Quorum : \A q \in Q : q \in votes[i][y.slot] \/ (q = j /\ y.slot \in S)
    BY <1>4, <2>1 DEF Winner
  <2>5. y \in L /\ y.ballot = b BY <1>1, <1>4, <2>1 DEF Winner
  <2>3. y.slot \in Slot BY <1>10, <2>5 DEF Record
  <2>4. \A q \in Q : q \in votes[i][y.slot] \/ q = i \/ Voted(q, ballot[i], y.slot)
    BY <1>1, <1>3, <1>5, <1>a, <2>2 DEF Voted
  <2> QED BY <1>1, <1>7, <2>3, <2>4, <2>5, WonBy
<1>14. \A y \in C : y \in log[i] /\ y.ballot = b /\ Won(i, y.slot) BY <1>2, <1>13
<1>15. ASSUME NEW x, NEW y \in C, x.slot = y.slot, x.req = y.req, x.ballot = y.ballot
       PROVE  Restated(x)
  <2>1. y \in log[i] /\ y.ballot = b /\ Won(i, y.slot) BY <1>14
  <2>2. Stays(i, x.ballot) BY <1>1, <1>7, <1>8, <1>15, <2>1 DEF Stays
  <2> QED BY <1>15, <2>1, <2>2 DEF Restated
<1>16. PICK R : R = Decide(C, C) OBVIOUS
<1>17. /\ R \in SUBSET Record /\ Functional(R)
       /\ \A x \in R : x.committed /\ \E y \in C :
             x.slot = y.slot /\ x.req = y.req /\ x.ballot = y.ballot
  <2>1. C \in SUBSET Record /\ Functional(C) BY <1>10, <1>11, <1>13 DEF GoodLog, Functional
  <2>2. R \in SUBSET Record BY <1>4, <1>6, <1>10, <1>16, WinsType
  <2>3. /\ Functional(R)
        /\ \A x \in R : \/ x \in C /\ x \notin C
                        \/ \E y \in C : /\ x.slot = y.slot /\ x.req = y.req
                                        /\ x.ballot = y.ballot /\ x.committed
    BY <1>16, <2>1, DecideShape
  <2> QED BY <2>2, <2>3
<1>18. RecordsOf(R, b, R) BY <1>14, <1>17 DEF RecordsOf, Functional
<1>19. \A x \in msgs' : x \in msgs \/ (\E k \in Replica : k # i /\ x = Commit(i, k, b, R))
  <2>1. \A x \in CommitAll(i, {Decide(C, C)} \ {{}}) : \E k \in Replica : k # i /\ x = Commit(i, k, b, R)
    BY <1>1, <1>16, Broadcast
  <2> QED BY <1>5, <2>1, ExchangeSubset
<1>20. \A x \in msgs' : x \in msgs \/ (x.kind = "Commit" /\ x.recs = R /\ GoodPacket(x)')
  <2> SUFFICES ASSUME NEW x \in msgs', x \notin msgs
               PROVE  x.kind = "Commit" /\ x.recs = R /\ GoodPacket(x)'
    OBVIOUS
  <2>1. PICK k \in Replica : k # i /\ x = Commit(i, k, b, R) BY <1>19
  <2>2. Owner(ballot[i]) = i /\ ballot'[i] = ballot[i] /\ Led(ballot[i])' /\ RecordsOf(R, ballot[i], R)
    BY <1>1, <1>7, <1>8, <1>9, <1>18
  <2>3. GoodPacket(Commit(i, k, ballot[i], R))' BY <1>17, <2>1, <2>2, LeaderPackets
  <2> QED BY <1>1, <1>8, <2>1, <2>3 DEF Commit
<1>21. Promised' \subseteq Promised BY <1>8, <1>20, PromisedKept
<1>22. SamePreparing BY <1>5, <1>8, <1>12 DEF SamePreparing
<1>23. GoodLog(log'[i], high'[i], executed'[i], ballot[i], ~preparing'[i] /\ Owner(ballot[i]) = i)
  BY <1>8, <1>12 DEF GoodLog
<1>24. \A x \in msgs' : x \in msgs \/ (x.kind # "Prepare" /\ GoodPacket(x)') BY <1>20
<1>25. \A k \in Replica : k # i => /\ log'[k] = log[k] /\ high'[k] = high[k]
                                   /\ executed'[k] = executed[k] /\ preparing'[k] = preparing[k]
  BY <1>8, <1>12
<1>26. Shape' /\ \A q \in Replica, c \in Ballot : SamePages(q, c)
  BY <1>8, <1>9, <1>21, <1>22, <1>23, <1>24, <1>25, LogStep
<1>27. ASSUME NEW q \in Replica, NEW c \in Ballot, NEW s \in Slot, Voted(q, c, s)'
       PROVE  Voted(q, c, s)
  <2>1. CASE \E x \in msgs' : x.kind = "Ack" /\ x.from = q /\ x.ballot = c /\ s \in x.slots
    BY <1>20, <2>1 DEF Voted
  <2>2. CASE ballot'[Owner(c)] = c /\ q \in votes'[Owner(c)][s]
    <3>1. Owner(c) \in Replica BY OwnerType, BallotNat
    <3>2. q \in votes[Owner(c)][s] \/ (Owner(c) = i /\ q = j /\ s \in S)
      BY <1>5, <2>2, <3>1, VotesCounted
    <3> QED BY <1>1, <1>3, <1>5, <1>8, <1>a, <2>2, <3>2 DEF Voted
  <2> QED BY <1>27, <2>1, <2>2 DEF Voted
<1>28. \A x \in log'[i] : x \in Known \/ Restated(x) BY <1>2, <1>12, <1>15, InKnown
<1>29. \A x \in msgs' : x.kind \in {"Accept", "Commit"} =>
          x \in msgs \/ \A y \in x.recs : y \in Known \/ Restated(y)
  BY <1>15, <1>17, <1>20
<1>30. \A y \in log[i] : \E z \in log'[i] :
          /\ z.slot = y.slot /\ z.ballot >= y.ballot
          /\ y.committed => z.committed \/ z.ballot = ballot[i]
          /\ Leading(i) => z.req = y.req
  <2> TAKE y \in log[i]
  <2>1. y.ballot \in Nat BY DEF TypeOK, Record, Ballot
  <2> QED BY <1>2, <1>12, <2>1
<1>31. Advance
  BY <1>8, <1>9, <1>21, <1>25, <1>26, <1>27, <1>28, <1>29, <1>30, LogAdvance
<1> QED BY <1>26, <1>31

-----------------------------------------------------------------------------
(***************************************************************************)
(* The turn of a leader: it proposes in new slots, and repeats the records *)
(* that are not executed.                                                  *)
(***************************************************************************)
LEMMA OrdinalsDiffer ==
    ASSUME NEW K \in SUBSET Nat, IsFiniteSet(K), NEW k \in K, NEW l \in K,
           OrdinalIn(k, K) = OrdinalIn(l, K)
    PROVE  k = l
<1>1. ASSUME NEW x \in K, NEW y \in K, x < y, OrdinalIn(x, K) = OrdinalIn(y, K) PROVE FALSE
  <2> DEFINE A == {j \in K : j <= x}
             B == {j \in K : j <= y}
  <2>1. IsFiniteSet(B) BY FS_Subset
  <2>2. A \in SUBSET B
    <3>1. \A j \in K : j <= x => j <= y BY <1>1
    <3> QED BY <3>1
  <2>3. y \in B /\ y \notin A BY <1>1
  <2>4. Cardinality(A) = Cardinality(B) BY <1>1 DEF OrdinalIn
  <2> HIDE DEF A, B
  <2>5. A = B BY <2>1, <2>2, <2>4, FS_Subset
  <2> QED BY <2>3, <2>5
<1>2. k < l \/ l < k \/ k = l OBVIOUS
<1> QED BY <1>1, <1>2

\* The records F that a leader proposes anew: in slots above all it has.
NewRecords(i, F) ==
    /\ F \in SUBSET Record /\ Functional(F)
    /\ \A x \in F : /\ x.slot > high[i] /\ x.ballot = ballot[i] /\ ~x.committed

\* Admitted requests go to new slots.
LEMMA AdmitNew ==
    ASSUME TypeOK, NEW i \in Replica, NEW q \in Seq(Request)
    PROVE  NewRecords(i, Flushed(i, q))
<1> DEFINE K == Eligible(i, q)
           rec(k) == [slot |-> high[i] + OrdinalIn(k, K), ballot |-> ballot[i],
                      req |-> q[k], committed |-> FALSE]
<1>1. /\ Admit(i, q) \in SUBSET Record
      /\ \A x \in Admit(i, q) : \E k \in K : x = rec(k)
  BY AdmitType DEF Admit, Admitted
<1>2. K \in SUBSET Nat /\ IsFiniteSet(K)
  <2>1. DOMAIN q = 1..Len(q) /\ Len(q) \in Nat OBVIOUS
  <2>2. K \in SUBSET (1..Len(q)) BY <2>1 DEF Eligible
  <2>3. IsFiniteSet(1..Len(q)) BY <2>1, FS_Interval
  <2> HIDE DEF K
  <2>4. IsFiniteSet(K) BY <2>2, <2>3, FS_Subset
  <2>5. \A k \in 1..Len(q) : k \in Nat BY <2>1
  <2> QED BY <2>2, <2>4, <2>5
<1>3. high[i] \in Int BY DEF TypeOK
<1> HIDE DEF K
<1>4. \A k \in K : OrdinalIn(k, K) \in Nat \ {0} BY <1>2, OrdinalType
<1>5. \A k \in K : /\ rec(k).slot = high[i] + OrdinalIn(k, K) /\ rec(k).ballot = ballot[i]
                   /\ ~rec(k).committed
  OBVIOUS
<1>6. ASSUME NEW x \in Admit(i, q)
      PROVE  x.slot > high[i] /\ x.ballot = ballot[i] /\ ~x.committed
  <2>1. PICK k \in K : x = rec(k) BY <1>1
  <2>2. x.slot = high[i] + OrdinalIn(k, K) /\ x.ballot = ballot[i] /\ ~x.committed
    BY <1>5, <2>1
  <2> QED BY <1>3, <1>4, <2>2
<1>7. ASSUME NEW x \in Admit(i, q), NEW y \in Admit(i, q), x.slot = y.slot PROVE x = y
  <2>1. PICK k \in K : x = rec(k) BY <1>1
  <2>2. PICK l \in K : y = rec(l) BY <1>1
  <2>3. high[i] + OrdinalIn(k, K) = high[i] + OrdinalIn(l, K) BY <1>5, <1>7, <2>1, <2>2
  <2>4. OrdinalIn(k, K) = OrdinalIn(l, K) BY <1>3, <1>4, <2>3
  <2>5. k = l BY <1>2, <2>4, OrdinalsDiffer
  <2> QED BY <2>1, <2>2, <2>5
<1>8. NewRecords(i, Admit(i, q)) BY <1>1, <1>6, <1>7 DEF NewRecords, Functional
<1>9. NewRecords(i, {}) BY DEF NewRecords, Functional
<1> QED BY <1>8, <1>9 DEF Flushed

\* Records of new slots are added to the log.
LEMMA NewInstalled ==
    ASSUME TypeOK, Shape, NEW i \in Replica, Leading(i), NEW F, NewRecords(i, F),
           NEW h \in Int, IsTop(h, {high[i]} \cup Slots(F))
    PROVE  /\ \A x : x \in Install(log[i], F) <=> (x \in log[i] \/ x \in F)
           /\ \A x \in F : \A y \in log[i] : y.slot # x.slot
           /\ Install(log[i], F) \in SUBSET Record
           /\ GoodLog(Install(log[i], F), h, executed[i], ballot[i], TRUE)
<1> DEFINE L == log[i]
           I == Install(L, F)
<1>1. L \in SUBSET Record /\ high[i] \in Int /\ ballot[i] \in Nat BY DEF TypeOK, Ballot
<1>2. /\ F \in SUBSET Record /\ Functional(F)
      /\ \A x \in F : x.slot > high[i] /\ x.ballot = ballot[i] /\ ~x.committed
  BY DEF NewRecords
<1>3. /\ Functional(L) /\ \A x \in L : x.slot <= high[i] /\ x.ballot <= ballot[i]
      /\ \A s \in 0..executed[i] : Decided(L, s)
      /\ \A x \in L : x.ballot = ballot[i] \/ x.committed
  BY LogIsGood DEF GoodLog
<1>4. \A x \in F : \A y \in L : y.slot # x.slot
  <2> TAKE x \in F
  <2> TAKE y \in L
  <2>1. x.slot \in Int /\ y.slot \in Int BY <1>1, <1>2 DEF Record, Slot
  <2> QED BY <1>1, <1>2, <1>3, <2>1
<1>5. \A x : x \in I <=> (x \in L \/ x \in F) BY <1>4 DEF Install, Decided, Slots
<1>6. h >= high[i] /\ \A x \in F : x.slot <= h BY DEF IsTop, Slots
<1> HIDE DEF I
<1>7. \A x \in I : x.slot <= h /\ x.ballot <= ballot[i] /\ (x.ballot = ballot[i] \/ x.committed)
  <2> TAKE x \in I
  <2>1. CASE x \in F BY <1>1, <1>2, <1>6, <2>1
  <2>2. CASE x \in L
    <3>1. x.slot \in Int BY <1>1, <2>2 DEF Record, Slot
    <3> QED BY <1>1, <1>3, <1>6, <2>2, <3>1
  <2> QED BY <1>5, <2>1, <2>2
<1>8. Functional(I) BY <1>2, <1>3, <1>4, <1>5 DEF Functional
<1>9. \A s \in 0..executed[i] : Decided(I, s) BY <1>3, <1>5 DEF Decided
<1>10. GoodLog(I, h, executed[i], ballot[i], TRUE) BY <1>7, <1>8, <1>9 DEF GoodLog
<1>11. I \in SUBSET Record BY <1>1, <1>2, <1>5
<1> QED BY <1>4, <1>5, <1>10, <1>11 DEF I

\* A leader that installs its own records once more changes nothing.
LEMMA SuffixInstalled ==
    ASSUME NEW L \in SUBSET Record, Functional(L), NEW b,
           \A x \in L : x.ballot = b \/ x.committed,
           NEW U \in SUBSET Record,
           \A x \in U : x.ballot = b /\ ~x.committed /\ \E y \in L : y.slot = x.slot /\ y.req = x.req
    PROVE  Install(L, U) = L
<1>1. ASSUME NEW x \in U, NEW y \in L, x.slot = y.slot, ~y.committed PROVE x = y
  <2>1. x \in Record /\ y \in Record OBVIOUS
  <2>2. y.ballot = b /\ x.ballot = b /\ ~x.committed BY <1>1
  <2>3. PICK z \in L : z.slot = x.slot /\ z.req = x.req OBVIOUS
  <2>4. z = y BY <1>1, <2>3 DEF Functional
  <2> QED BY <1>1, <2>1, <2>2, <2>3, <2>4 DEF Record
<1>2. ASSUME NEW x \in Install(L, U) PROVE x \in L
  <2>1. CASE x \in L BY <2>1
  <2>2. CASE x \in U /\ ~Decided(L, x.slot)
    <3>1. PICK y \in L : y.slot = x.slot /\ y.req = x.req BY <2>2
    <3>2. ~y.committed BY <2>2, <3>1 DEF Decided
    <3> QED BY <1>1, <2>2, <3>1, <3>2
  <2> QED BY <2>1, <2>2 DEF Install
<1>3. ASSUME NEW y \in L PROVE y \in Install(L, U)
  <2>1. CASE y.committed \/ y.slot \notin Slots(U) BY <2>1 DEF Install
  <2>2. CASE ~y.committed /\ y.slot \in Slots(U)
    <3>1. PICK x \in U : x.slot = y.slot BY <2>2 DEF Slots
    <3>2. x = y BY <1>1, <2>2, <3>1
    <3>3. ~Decided(L, y.slot) BY <2>2 DEF Decided, Functional
    <3> QED BY <3>1, <3>2, <3>3 DEF Install
  <2> QED BY <2>1, <2>2
<1> QED BY <1>2, <1>3

\* What a turn of the leader i does to its log: it adds the records F (L is
\* the log then), repeats the records W, and counts its own votes for S.
Turn(i, due, F, L, W, S, h) ==
    /\ NewRecords(i, F) /\ IsTop(h, {high[i]} \cup Slots(F)) /\ h \in -1..MaxSlot
    /\ L \in SUBSET Record /\ GoodLog(L, h, executed[i], ballot[i], TRUE)
    /\ \A x : x \in L <=> (x \in log[i] \/ x \in F)
    /\ \A x \in F : \A y \in log[i] : y.slot # x.slot
    /\ \A R \in W : R \in SUBSET Record /\ RecordsOf(R, ballot[i], L) /\ \A x \in R : ~x.committed
    /\ \A s \in S : \E y \in L : y.slot = s
    /\ CountAck(i, i, L, S)
    /\ high' = [high EXCEPT ![i] = h]
    /\ LET C == Wins(i, i, L, S)
       IN  Emit((IF Wakes(i) THEN ReadyAll(i, TRUE) ELSE {})
                  \cup AcceptAll(i, {F} \ {{}})
                  \cup (IF due THEN ReadyAll(i, Serves(i)) ELSE {})
                  \cup AcceptAll(i, W)
                  \cup CommitAll(i, {{r \in Decide(C, C) : r.slot \in Slots(R)} : R \in W}
                                      \ {{}}))

\* A leader's turn, taken apart.
LEMMA TurnOf ==
    ASSUME TypeOK, Shape, NEW i \in Replica, Leading(i), NEW due \in BOOLEAN,
           NEW q \in Seq(Request), NEW h \in -1..MaxSlot, LeaderTurn(i, due, q, h)
    PROVE  \E F, L, W, S : Turn(i, due, F, L, W, S, h)
<1>1. PICK F : F = Flushed(i, q) OBVIOUS
<1>2. PICK L : L = Install(log[i], F) OBVIOUS
<1>3. PICK W : W = Repeated(i, L, h, due) OBVIOUS
<1>4. PICK S : S = Slots(F) \cup Slots(UNION W) OBVIOUS
<1>5. NewRecords(i, F) BY <1>1, AdmitNew
<1>6. IsTop(h, {high[i]} \cup Slots(F)) /\ high' = [high EXCEPT ![i] = h]
  BY <1>1 DEF LeaderTurn
<1>7. h \in Int /\ ballot[i] \in Ballot BY BoundAssumption DEF TypeOK
<1>8. /\ \A x : x \in L <=> (x \in log[i] \/ x \in F)
      /\ \A x \in F : \A y \in log[i] : y.slot # x.slot
      /\ L \in SUBSET Record
      /\ GoodLog(L, h, executed[i], ballot[i], TRUE)
  BY <1>2, <1>5, <1>6, <1>7, NewInstalled
<1>9. Functional(L) /\ \A x \in L : x.ballot = ballot[i] \/ x.committed BY <1>8 DEF GoodLog
<1>10. ASSUME NEW R \in W
       PROVE  R \in SUBSET Record /\ RecordsOf(R, ballot[i], L) /\ \A x \in R : ~x.committed
  <2>1. R \in OwnSuffix(L, executed[i] + 1, h, ballot[i]) BY <1>3 DEF Repeated
  <2>2. R \in SUBSET Record
    <3>1. PICK b : b = ballot[i] OBVIOUS
    <3>2. PICK e : e = executed[i] + 1 OBVIOUS
    <3>3. OwnSuffix(L, e, h, b) \in SUBSET SUBSET Record BY <1>7, <1>8, <3>1, SuffixTypes
    <3> QED BY <2>1, <3>1, <3>2, <3>3
  <2>3. \A x, y \in L : x.slot = y.slot => x = y BY <1>9 DEF Functional
  <2> QED BY <1>7, <1>8, <2>1, <2>2, <2>3, OwnSuffixGood
<1>11. PICK U : U = UNION W OBVIOUS
<1>12. /\ U \in SUBSET Record
       /\ \A x \in U : x.ballot = ballot[i] /\ ~x.committed
                       /\ \E y \in L : y.slot = x.slot /\ y.req = x.req
  <2> SUFFICES ASSUME NEW x \in U
               PROVE  /\ x \in Record /\ x.ballot = ballot[i] /\ ~x.committed
                      /\ \E y \in L : y.slot = x.slot /\ y.req = x.req
    OBVIOUS
  <2>1. PICK R \in W : x \in R BY <1>11
  <2>2. R \in SUBSET Record /\ RecordsOf(R, ballot[i], L) /\ ~x.committed BY <1>10, <2>1
  <2> QED BY <2>1, <2>2 DEF RecordsOf
<1>13. Install(L, U) = L BY <1>8, <1>9, <1>12, SuffixInstalled
<1>14. \A s \in S : \E y \in L : y.slot = s
  <2> TAKE s \in S
  <2>1. CASE s \in Slots(F) BY <1>8, <2>1 DEF Slots
  <2>2. CASE s \in Slots(U)
    <3>1. PICK x \in U : x.slot = s BY <2>2 DEF Slots
    <3> QED BY <1>12, <3>1
  <2> QED BY <1>4, <1>11, <2>1, <2>2
<1>15. /\ CountAck(i, i, Install(L, UNION W), S)
       /\ LET C == Wins(i, i, Install(L, UNION W), S)
          IN  Emit((IF Wakes(i) THEN ReadyAll(i, TRUE) ELSE {})
                     \cup AcceptAll(i, {F} \ {{}})
                     \cup (IF due THEN ReadyAll(i, Serves(i)) ELSE {})
                     \cup AcceptAll(i, W)
                     \cup CommitAll(i, {{r \in Decide(C, C) : r.slot \in Slots(R)} : R \in W}
                                         \ {{}}))
  BY <1>1, <1>2, <1>3, <1>4 DEF LeaderTurn
<1>16. Install(L, UNION W) = L BY <1>11, <1>13
<1>17. /\ CountAck(i, i, L, S)
       /\ LET C == Wins(i, i, L, S)
          IN  Emit((IF Wakes(i) THEN ReadyAll(i, TRUE) ELSE {})
                     \cup AcceptAll(i, {F} \ {{}})
                     \cup (IF due THEN ReadyAll(i, Serves(i)) ELSE {})
                     \cup AcceptAll(i, W)
                     \cup CommitAll(i, {{r \in Decide(C, C) : r.slot \in Slots(R)} : R \in W}
                                         \ {{}}))
  BY <1>15, <1>16
<1>18. Turn(i, due, F, L, W, S, h)
  BY <1>5, <1>6, <1>8, <1>10, <1>14, <1>17 DEF Turn
<1> QED BY <1>18

\* The packets of a turn: new and repeated records, decisions, and Ready.
LEMMA TurnPackets ==
    ASSUME TypeOK, NEW i \in Replica, NEW due, NEW F, NEW L, NEW W, NEW S, NEW h,
           Turn(i, due, F, L, W, S, h), NEW C, C = Wins(i, i, L, S)
    PROVE  \A x \in msgs' : x \in msgs \/ \E j \in Replica : j # i /\
              ( \/ \E on : x = Ready(i, j, ballot[i], executed[i], on)
                \/ \E R : (R = F \/ R \in W) /\ x = Accept(i, j, ballot[i], R)
                \/ \E R \in SUBSET Decide(C, C) : x = Commit(i, j, ballot[i], R) )
<1> DEFINE Cs == {{r \in Decide(C, C) : r.slot \in Slots(R)} : R \in W} \ {{}}
<1>1. \A x \in msgs' : \/ x \in msgs
                       \/ \E on : x \in ReadyAll(i, on)
                       \/ x \in AcceptAll(i, {F} \ {{}})
                       \/ x \in AcceptAll(i, W)
                       \/ x \in CommitAll(i, Cs)
  <2>1. Emit((IF Wakes(i) THEN ReadyAll(i, TRUE) ELSE {})
               \cup AcceptAll(i, {F} \ {{}})
               \cup (IF due THEN ReadyAll(i, Serves(i)) ELSE {})
               \cup AcceptAll(i, W) \cup CommitAll(i, Cs))
    BY DEF Turn
  <2> QED BY <2>1 DEF Emit
<1>2. \A R \in Cs : R \in SUBSET Decide(C, C) OBVIOUS
<1> HIDE DEF Cs
<1> SUFFICES ASSUME NEW x \in msgs', x \notin msgs
             PROVE  \E j \in Replica : j # i /\
              ( \/ \E on : x = Ready(i, j, ballot[i], executed[i], on)
                \/ \E R : (R = F \/ R \in W) /\ x = Accept(i, j, ballot[i], R)
                \/ \E R \in SUBSET Decide(C, C) : x = Commit(i, j, ballot[i], R) )
  OBVIOUS
<1>3. CASE \E on : x \in ReadyAll(i, on) BY <1>3, Broadcast
<1>4. CASE x \in AcceptAll(i, {F} \ {{}})
  <2>1. \E j \in Replica : \E R \in {F} \ {{}} : j # i /\ x = Accept(i, j, ballot[i], R)
    BY <1>4, Broadcast
  <2> QED BY <2>1
<1>5. CASE x \in AcceptAll(i, W)
  <2>1. \E j \in Replica : \E R \in W : j # i /\ x = Accept(i, j, ballot[i], R)
    BY <1>5, Broadcast
  <2> QED BY <2>1
<1>6. CASE x \in CommitAll(i, Cs)
  <2>1. \E j \in Replica : \E R \in Cs : j # i /\ x = Commit(i, j, ballot[i], R)
    BY <1>6, Broadcast
  <2> QED BY <1>2, <2>1
<1> QED BY <1>1, <1>3, <1>4, <1>5, <1>6

\* A leader takes its turn.
LEMMA LeaderAdvances ==
    ASSUME TypeOK, TypeOK', Shape, Safety, NEW i \in Replica, NEW due \in BOOLEAN,
           TickLeader(i, due)
    PROVE  Shape' /\ Advance
<1>1. PICK b : b = ballot[i] OBVIOUS
<1>2. leader[i] = i /\ ~preparing[i] BY DEF TickLeader
<1>3. b \in Ballot /\ b \in Nat BY <1>1, BallotTypes DEF TypeOK
<1>4. Owner(b) = i /\ Leading(i) BY <1>1, <1>2 DEF Shape, Leads, Leading
<1>5. \E q \in Seq(Request), k \in -1..MaxSlot : LeaderTurn(i, due, q, k)
  <2> DEFINE T(D) == {r \in D \cap pending[i] : Enqueueable(i, r)}
  <2>1. PICK D \in SUBSET resume[i] : \E new \in Orders(T(D)) : \E k \in -1..MaxSlot :
           LeaderTurn(i, due, queue[i] \o new, k)
    BY DEF TickLeader
  <2>2. PICK new \in Orders(T(D)), k \in -1..MaxSlot : LeaderTurn(i, due, queue[i] \o new, k)
    BY <2>1
  <2>3. T(D) \in SUBSET Request BY DEF TypeOK
  <2> HIDE DEF T
  <2>4. new \in Seq(Request) BY <2>3, OrdersType
  <2>5. queue[i] \o new \in Seq(Request) BY <2>4 DEF TypeOK
  <2> QED BY <2>2, <2>5
<1>6. PICK h \in -1..MaxSlot : \E q \in Seq(Request) : LeaderTurn(i, due, q, h) BY <1>5
<1>7. PICK F, L, W, S : Turn(i, due, F, L, W, S, h) BY <1>4, <1>6, TurnOf
<1>8. PICK C : C = Wins(i, i, L, S) OBVIOUS
<1>9. /\ F \in SUBSET Record /\ Functional(F) /\ \A x \in F : x.ballot = b /\ ~x.committed
      /\ L \in SUBSET Record /\ GoodLog(L, h, executed[i], ballot[i], TRUE)
      /\ \A x : x \in L <=> (x \in log[i] \/ x \in F)
      /\ \A x \in F : \A y \in log[i] : y.slot # x.slot
      /\ \A R \in W : R \in SUBSET Record /\ RecordsOf(R, b, L) /\ \A x \in R : ~x.committed
      /\ \A s \in S : \E y \in L : y.slot = s
      /\ CountAck(i, i, L, S)
      /\ high' = [high EXCEPT ![i] = h]
  BY <1>1, <1>7 DEF Turn, NewRecords
<1>10. UNCHANGED <<ballot, leader, preparing, pages, promises, frozen>> BY DEF TickLeader
<1>11. RoleStep /\ Leads' /\ (\A q \in Replica : Leading(q)' => Leading(q)) /\ Led(b)'
  <2>1. Led(b) BY <1>1, <1>2, <1>3, <1>4 DEF Led
  <2> QED BY <1>3, <1>10, <2>1, SameRoles
<1>12. /\ GoodLog(log'[i], h, executed'[i], ballot[i], TRUE)
       /\ \A k \in Replica : k # i => log'[k] = log[k] /\ executed'[k] = executed[k]
       /\ CountedLog(i, L, C)
  <2>1. /\ GoodLog(log'[i], h, executed'[i], ballot[i], TRUE)
        /\ \A k \in Replica : k # i => log'[k] = log[k] /\ executed'[k] = executed[k]
        /\ CountedLog(i, L, Wins(i, i, L, S))
    BY <1>9, Counted
  <2> QED BY <1>8, <2>1
<1>13. /\ \A x \in log'[i] : \/ x \in L
                             \/ \E y \in C : /\ x.slot = y.slot /\ x.req = y.req
                                             /\ x.ballot = y.ballot /\ x.committed
       /\ \A y \in L : \E x \in log'[i] :
             /\ x.slot = y.slot /\ x.req = y.req /\ x.ballot = y.ballot
             /\ y.committed => x.committed
  BY <1>12 DEF CountedLog
<1>14. ASSUME NEW y \in C PROVE y \in log[i] /\ y.ballot = b /\ Won(i, y.slot)
  <2>1. \A x \in Wins(i, i, L, S) : x \in L /\ Winner(i, i, S, x) BY <1>9, WinnersWin
  <2>2. PICK Q \in Quorum : \A q \in Q : q \in votes[i][y.slot] \/ (q = i /\ y.slot \in S)
    BY <1>8, <2>1 DEF Winner
  <2>3. y \in L /\ y.ballot = b BY <1>1, <1>8, <2>1 DEF Winner
  <2>4. y.slot \in Slot BY <1>9, <2>3 DEF Record
  <2>5. y \in log[i]
    <3> SUFFICES ASSUME y \in F PROVE FALSE BY <1>9, <2>3
    <3>1. \A z \in log[i] : z.slot # y.slot BY <1>9
    <3>2. ASSUME NEW q \in Replica, q \in votes[i][y.slot] PROVE FALSE
      <4>1. Voted(q, b, y.slot) BY <1>1, <1>4, <3>2 DEF Voted
      <4>2. \E z \in log[i] : z.slot = y.slot
        BY <1>1, <1>3, <1>4, <2>4, <4>1 DEF Safety, VoteInv
      <4> QED BY <3>1, <4>2
    <3>3. Q \in SUBSET Replica /\ Cardinality(Q) >= Majority BY DEF Quorum
    <3>4. Q \subseteq {i} BY <2>2, <3>2, <3>3
    <3> QED BY <3>3, <3>4, NoLoneQuorum
  <2>6. \A q \in Q : q \in votes[i][y.slot] \/ q = i \/ Voted(q, ballot[i], y.slot) BY <2>2
  <2>7. Won(i, y.slot) BY <1>1, <1>4, <2>4, <2>6, WonBy
  <2> QED BY <2>3, <2>5, <2>7
<1>15. Stays(i, b) BY <1>1, <1>4, <1>10 DEF Stays
<1>16. ASSUME NEW x, NEW y \in C, x.slot = y.slot, x.req = y.req, x.ballot = y.ballot
       PROVE  Restated(x)
  BY <1>14, <1>15, <1>16 DEF Restated
<1>17. ASSUME NEW x, NEW y \in L, x.slot = y.slot, x.req = y.req, x.ballot = b, ~x.committed
       PROVE  Restated(x) \/ Fresh(x)
  <2>1. CASE y \in log[i]
    <3>1. y.ballot = b \/ y.committed BY <1>1, <1>9 DEF GoodLog
    <3> QED BY <1>15, <1>17, <2>1, <3>1 DEF Restated
  <2>2. CASE y \in F
    <3>1. \A z \in log[i] : z.slot # x.slot BY <1>9, <1>17, <2>2
    <3>2. \E z \in log'[i] : z.slot = x.slot /\ z.req = x.req BY <1>13, <1>17
    <3> QED BY <1>15, <1>17, <3>1, <3>2 DEF Fresh
  <2> QED BY <1>9, <2>1, <2>2
<1>18. PICK D : D = Decide(C, C) OBVIOUS
<1>19. /\ D \in SUBSET Record /\ Functional(D)
       /\ \A x \in D : x.committed /\ \E y \in C :
             x.slot = y.slot /\ x.req = y.req /\ x.ballot = y.ballot
  <2>1. C \in SUBSET Record /\ Functional(C)
    BY <1>9, <1>14 DEF GoodLog, Functional
  <2>2. D \in SUBSET Record BY <1>8, <1>9, <1>18, WinsType
  <2>3. /\ Functional(D)
        /\ \A x \in D : \/ x \in C /\ x \notin C
                        \/ \E y \in C : /\ x.slot = y.slot /\ x.req = y.req
                                        /\ x.ballot = y.ballot /\ x.committed
    BY <1>18, <2>1, DecideShape
  <2> QED BY <2>2, <2>3
<1>20. \A x \in msgs' : x \in msgs \/ \E j \in Replica : j # i /\
          ( \/ \E on : x = Ready(i, j, b, executed[i], on)
            \/ \E R : (R = F \/ R \in W) /\ x = Accept(i, j, b, R)
            \/ \E R \in SUBSET D : x = Commit(i, j, b, R) )
  BY <1>1, <1>7, <1>8, <1>18, TurnPackets
<1>21. Owner(ballot[i]) = i /\ ballot'[i] = ballot[i] /\ Led(ballot[i])'
  BY <1>1, <1>4, <1>10, <1>11
<1>22. ASSUME NEW x \in msgs', x \notin msgs
       PROVE  /\ x.kind \in {"Ready", "Accept", "Commit"} /\ GoodPacket(x)'
              /\ x.kind \in {"Accept", "Commit"} => \A y \in x.recs : Restated(y) \/ Fresh(y)
  <2>1. PICK j \in Replica : j # i /\
          ( \/ \E on : x = Ready(i, j, b, executed[i], on)
            \/ \E R : (R = F \/ R \in W) /\ x = Accept(i, j, b, R)
            \/ \E R \in SUBSET D : x = Commit(i, j, b, R) )
    BY <1>20, <1>22
  <2>2. CASE \E on : x = Ready(i, j, b, executed[i], on)
    BY <1>4, <1>11, <2>1, <2>2 DEF Ready, GoodPacket
  <2>3. CASE \E R : (R = F \/ R \in W) /\ x = Accept(i, j, b, R)
    <3>1. PICK R : (R = F \/ R \in W) /\ x = Accept(i, j, b, R) BY <2>3
    <3>2. R \in SUBSET Record /\ RecordsOf(R, b, L) /\ \A y \in R : ~y.committed
      BY <1>9, <3>1 DEF RecordsOf, Functional
    <3>3. RecordsOf(R, ballot[i], L) BY <1>1, <3>2
    <3>4. GoodPacket(Accept(i, j, ballot[i], R))' BY <1>21, <2>1, <3>2, <3>3, LeaderPackets
    <3>5. \A y \in R : Restated(y) \/ Fresh(y) BY <1>17, <3>2 DEF RecordsOf
    <3> QED BY <1>1, <1>10, <3>1, <3>4, <3>5 DEF Accept
  <2>4. CASE \E R \in SUBSET D : x = Commit(i, j, b, R)
    <3>1. PICK R \in SUBSET D : x = Commit(i, j, b, R) BY <2>4
    <3>2. R \in SUBSET Record /\ (\A y \in R : y.committed) BY <1>19
    <3>3. \A y \in R : y.ballot = b BY <1>14, <1>19
    <3>4. RecordsOf(R, ballot[i], R) BY <1>1, <1>19, <3>3 DEF RecordsOf, Functional
    <3>5. GoodPacket(Commit(i, j, ballot[i], R))' BY <1>21, <2>1, <3>2, <3>4, LeaderPackets
    <3>6. \A y \in R : Restated(y) BY <1>16, <1>19
    <3> QED BY <1>1, <1>10, <3>1, <3>5, <3>6 DEF Commit
  <2> QED BY <2>1, <2>2, <2>3, <2>4
<1>23. \A x \in msgs' : x \in msgs \/ (x.kind # "Prepare" /\ GoodPacket(x)') BY <1>22
<1>24. Promised' \subseteq Promised
  <2>1. \A x \in msgs' : x.kind = "Promise" => x \in msgs BY <1>22
  <2> QED BY <1>10, <2>1, PromisedKept
<1>25. high'[i] = h /\ \A k \in Replica : k # i => high'[k] = high[k] BY <1>9 DEF TypeOK
<1>26. SamePreparing BY <1>2, <1>10, <1>12, <1>25 DEF SamePreparing
<1>27. GoodLog(log'[i], high'[i], executed'[i], ballot[i], ~preparing'[i] /\ Owner(ballot[i]) = i)
  BY <1>12, <1>25 DEF GoodLog
<1>28. \A k \in Replica : k # i => /\ log'[k] = log[k] /\ high'[k] = high[k]
                                   /\ executed'[k] = executed[k] /\ preparing'[k] = preparing[k]
  BY <1>10, <1>12, <1>25
<1>29. Shape' /\ \A q \in Replica, c \in Ballot : SamePages(q, c)
  BY <1>10, <1>11, <1>23, <1>24, <1>26, <1>27, <1>28, LogStep
<1>30. ASSUME NEW s \in S PROVE FreshVote(i, b, s)
  <2>1. PICK y \in L : y.slot = s BY <1>9
  <2>2. PICK z \in log'[i] : z.slot = s BY <1>13, <2>1
  <2>3. z.ballot = b \/ z.committed BY <1>1, <1>12 DEF GoodLog
  <2>4. z.ballot >= b \/ z.committed BY <1>3, <2>3
  <2> QED BY <1>1, <1>4, <1>10, <1>11, <2>2, <2>4 DEF FreshVote
<1>31. ASSUME NEW q \in Replica, NEW c \in Ballot, NEW s \in Slot, Voted(q, c, s)'
       PROVE  Voted(q, c, s) \/ FreshVote(q, c, s)
  <2>1. CASE \E x \in msgs' : x.kind = "Ack" /\ x.from = q /\ x.ballot = c /\ s \in x.slots
    BY <1>22, <2>1 DEF Voted
  <2>2. CASE ballot'[Owner(c)] = c /\ q \in votes'[Owner(c)][s]
    <3>1. Owner(c) \in Replica BY OwnerType, BallotNat
    <3>2. q \in votes[Owner(c)][s] \/ (Owner(c) = i /\ q = i /\ s \in S)
      BY <1>9, <2>2, <3>1, VotesCounted
    <3>3. CASE q \in votes[Owner(c)][s] BY <1>10, <2>2, <3>3 DEF Voted
    <3>4. CASE Owner(c) = i /\ q = i /\ s \in S
      <4>1. c = b BY <1>1, <1>10, <2>2, <3>4
      <4> QED BY <1>30, <3>4, <4>1
    <3> QED BY <3>2, <3>3, <3>4
  <2> QED BY <1>31, <2>1, <2>2 DEF Voted
<1>32. ASSUME NEW x \in log'[i] PROVE x \in Known \/ Restated(x) \/ Fresh(x)
  <2>1. CASE x \in log[i] BY <2>1, InKnown
  <2>2. CASE x \in F BY <1>9, <1>17, <2>2
  <2>3. CASE \E y \in C : /\ x.slot = y.slot /\ x.req = y.req
                          /\ x.ballot = y.ballot /\ x.committed
    BY <1>16, <2>3
  <2> QED BY <1>9, <1>13, <2>1, <2>2, <2>3
<1>33. \A x \in msgs' : x.kind \in {"Accept", "Commit"} =>
          x \in msgs \/ \A y \in x.recs : y \in Known \/ Restated(y) \/ Fresh(y)
  BY <1>22
<1>34. \A y \in log[i] : \E z \in log'[i] :
          /\ z.slot = y.slot /\ z.ballot >= y.ballot
          /\ y.committed => z.committed \/ z.ballot = ballot[i]
          /\ Leading(i) => z.req = y.req
  <2> TAKE y \in log[i]
  <2>1. y.ballot \in Nat BY DEF TypeOK, Record, Ballot
  <2>2. y \in L BY <1>9
  <2> QED BY <1>13, <2>1, <2>2
<1>35. Advance
  BY <1>10, <1>11, <1>24, <1>28, <1>29, <1>31, <1>32, <1>33, <1>34, LogAdvance
<1> QED BY <1>29, <1>35

-----------------------------------------------------------------------------
(***************************************************************************)
(* A candidate with a majority of promises takes over.                     *)
(***************************************************************************)
\* The records R that the promises of the quorum Q hold, all in slots up to h.
Reported(i, Q, R, h) ==
    /\ preparing[i] /\ Owner(ballot[i]) = i
    /\ Q \in Quorum
    /\ \A q \in Q : ballot[q] >= ballot[i] /\ Whole(q, ballot[i])
    /\ \A q \in Q : \A p \in Pages(q, ballot[i]) :
          p.floor = executed[i] + 1 /\ \A y \in p.recs : y \in R
    /\ \A x \in R : x \in Known /\ x.slot <= h
    /\ h >= executed[i] /\ h >= high[i] /\ h \in -1..MaxSlot

PagesOf(i, m) == {p \in PagesWith(i, m) : p.from \in promises[i] \cup {m.from}}

\* The records of a set of packets.
LEMMA InRecs == ASSUME NEW P, NEW x PROVE x \in UNION {p.recs : p \in P} <=> \E p \in P : x \in p.recs
OBVIOUS

\* What the promises of a majority report.
LEMMA QuorumReports ==
    ASSUME TypeOK, Shape, NEW i \in Replica, NEW m \in msgs, m.to = i,
           PromiseExpected(i, m), Elects(i, m),
           NEW h, h \in {executed[i]} \cup {p.high : p \in PagesOf(i, m)},
           IsTop(h, {executed[i]} \cup {p.high : p \in PagesOf(i, m)})
    PROVE  Reported(i, promises[i] \cup {m.from}, UNION {p.recs : p \in PagesOf(i, m)}, h)
<1>1. PICK b : b = ballot[i] OBVIOUS
<1>2. PICK Q : Q = promises[i] \cup {m.from} OBVIOUS
<1>3. PICK P : P = PagesOf(i, m) OBVIOUS
<1>4. PICK R : R = UNION {p.recs : p \in P} OBVIOUS
<1>5. preparing[i] /\ Completes(i, m) BY DEF PromiseExpected, Elects
<1>6. /\ m.from \in Replica /\ Owner(b) = i
      /\ \A p \in PagesWith(i, m) : p \in Promised /\ p.ballot = b
      /\ \E p \in PagesWith(i, m) : p.from = i /\ p.high = high[i]
      /\ i \in promises[i]
      /\ \A q \in Q : Whole(q, b) /\ Pages(q, b) \subseteq PagesWith(i, m)
  BY <1>1, <1>2, <1>5, Collected
<1>7. Q \in Quorum
  <2>1. promises[i] \in SUBSET Replica BY DEF TypeOK
  <2>2. Cardinality(Q) >= Majority BY <1>2 DEF Elects
  <2> QED BY <1>2, <1>6, <2>1, <2>2 DEF Quorum
<1>8. \A q \in Q : \A p \in Pages(q, b) : p \in P BY <1>2, <1>3, <1>6 DEF Pages, PagesOf
<1>9. \A p \in P : p \in Promised /\ p.ballot = b /\ p \in PromisePacket
  BY <1>3, <1>6, PromisedType DEF PagesOf
<1>10. b \in Ballot BY <1>1 DEF TypeOK
<1>11. PICK f \in 0..(MaxSlot + 1) : Asked(b, f) BY <1>10 DEF Shape, Floors
<1>12. f = executed[i] + 1 /\ \A p \in P : p.floor = f BY <1>1, <1>5, <1>9, <1>11 DEF Asked
<1>13. \A p \in P : GoodPromise(p) BY <1>9 DEF Shape, PromiseShape
<1>14. \A q \in Q : ballot[q] >= b /\ Whole(q, b)
  <2> TAKE q \in Q
  <2>1. Whole(q, b) BY <1>6
  <2>2. PICK p \in Pages(q, b) : TRUE BY <2>1 DEF Whole
  <2>3. p.from = q /\ p.ballot = b /\ GoodPromise(p) BY <1>8, <1>13 DEF Pages
  <2>4. ballot[q] \in Nat /\ b \in Nat BY <1>7, <1>10 DEF Quorum, TypeOK, Ballot
  <2> QED BY <2>1, <2>3, <2>4 DEF GoodPromise
<1>15. \A q \in Q : \A p \in Pages(q, b) :
          p.floor = executed[i] + 1 /\ \A y \in p.recs : y \in R
  BY <1>4, <1>8, <1>12, InRecs
<1>16. executed[i] \in -1..MaxSlot /\ high[i] \in -1..MaxSlot BY DEF TypeOK
<1>17. \A p \in P : p.high \in -1..MaxSlot /\ p.high <= h
  BY <1>3, <1>9 DEF PromisePacket, IsTop
<1>18. h \in -1..MaxSlot /\ h >= executed[i]
  <2>1. h = executed[i] \/ \E p \in P : h = p.high BY <1>3
  <2>2. executed[i] <= h BY DEF IsTop
  <2>3. h \in -1..MaxSlot BY <1>16, <1>17, <2>1
  <2> QED BY <1>16, <2>2, <2>3
<1>19. h >= high[i]
  <2>1. PICK p \in PagesWith(i, m) : p.from = i /\ p.high = high[i] BY <1>6
  <2>2. p \in P BY <1>2, <1>3, <1>6, <2>1 DEF PagesOf
  <2> QED BY <1>16, <1>17, <1>18, <2>1, <2>2
<1>20. \A x \in R : x \in Known /\ x.slot <= h
  <2> TAKE x \in R
  <2>1. PICK p \in P : x \in p.recs BY <1>4, InRecs
  <2>2. x \in Known BY <1>9, <2>1, InKnown
  <2>3. x.slot <= p.high BY <1>13, <2>1 DEF GoodPromise
  <2>4. x.slot \in Nat BY <2>2, KnownType DEF Record, Slot
  <2> QED BY <1>17, <1>18, <2>1, <2>2, <2>3, <2>4
<1>21. Reported(i, Q, R, h) BY <1>1, <1>5, <1>6, <1>7, <1>14, <1>15, <1>18, <1>19, <1>20 DEF Reported
<1> QED BY <1>2, <1>3, <1>4, <1>21

\* A value that may be chosen under an earlier ballot is reported.
LEMMA ChoiceReported ==
    ASSUME TypeOK, Safety, NEW i \in Replica, NEW Q, NEW R, NEW h, Reported(i, Q, R, h),
           NEW c \in Ballot, c < ballot[i], NEW s \in Slot, s > executed[i], CanChoose(c, s)
    PROVE  \E w \in R : w.slot = s /\ (w.ballot >= c \/ w.committed)
<1>1. PICK b \in Ballot : b = ballot[i] BY DEF TypeOK
<1>2. PICK A \in Quorum : \A q \in A : ballot[q] <= c \/ Voted(q, c, s) BY DEF CanChoose
<1>3. Q \in Quorum BY DEF Reported
<1>4. PICK q \in Q : q \in A BY <1>2, <1>3, QuorumsMeet
<1>5. q \in Replica /\ ballot[q] \in Nat /\ b \in Nat /\ c \in Nat
  BY <1>1, <1>3 DEF Quorum, TypeOK, Ballot
<1>6. ballot[q] >= b /\ Whole(q, b) /\ \A p \in Pages(q, b) :
         p.floor = executed[i] + 1 /\ \A y \in p.recs : y \in R
  BY <1>1 DEF Reported
<1>7. Voted(q, c, s) BY <1>1, <1>2, <1>4, <1>5, <1>6
<1>8. Tells(q, b, s, c) BY <1>1, <1>5, <1>7 DEF Safety, VoteInv
<1>9. \A p \in Pages(q, b) : p.floor <= s BY <1>6 DEF TypeOK, Slot
<1> QED BY <1>6, <1>8, <1>9 DEF Tells

\* The record that is selected for slot s, if one is reported.
LEMMA Selected ==
    ASSUME NEW R, NEW s, NEW v, Selects(R, s, v), NEW w \in R, w.slot = s
    PROVE  \E r \in R : r.slot = s /\ r.req = v /\ w.ballot <= r.ballot
BY DEF Selects

\* It is the value of every record that may have been chosen.
LEMMA SelectsChosen ==
    ASSUME TypeOK, Safety, NEW i \in Replica, NEW Q, NEW R, NEW h, Reported(i, Q, R, h),
           NEW x \in Known, x.ballot < ballot[i], x.slot > executed[i], CanChoose(x.ballot, x.slot),
           NEW v, Selects(R, x.slot, v)
    PROVE  x.req = v
<1>1. x \in Record BY KnownType
<1>2. x.ballot \in Ballot /\ x.slot \in Slot BY <1>1 DEF Record
<1>3. PICK w \in R : w.slot = x.slot /\ (w.ballot >= x.ballot \/ w.committed)
  BY <1>2, ChoiceReported
<1>4. PICK r \in R : r.slot = x.slot /\ r.req = v /\ w.ballot <= r.ballot BY <1>3, Selected
<1>5. r \in Known /\ w \in Known BY DEF Reported
<1>6. r \in Record /\ w \in Record BY <1>5, KnownType
<1>7. r.ballot \in Nat /\ w.ballot \in Nat /\ x.ballot \in Nat BY <1>1, <1>6 DEF Record, Ballot
<1>8. CASE w.ballot >= x.ballot
  <2>1. CASE r.ballot = x.ballot BY <1>4, <1>5, <2>1 DEF Safety, OneValue
  <2>2. CASE r.ballot > x.ballot BY <1>4, <1>5, <1>7, <2>2 DEF Safety, Safe
  <2> QED BY <1>4, <1>7, <1>8, <2>1, <2>2
<1>9. CASE w.committed /\ ~(w.ballot >= x.ballot)
  <2>1. PICK c \in Ballot, A \in Quorum : c <= w.ballot /\ Lock(w.slot, w.req, c, A)
    BY <1>5, <1>9, LockOf
  <2>2. c \in Nat BY BallotNat
  <2>3. x.ballot >= c /\ r.ballot >= c BY <1>4, <1>7, <1>9, <2>1, <2>2
  <2>4. x.req = w.req /\ r.req = w.req BY <1>3, <1>4, <1>5, <2>1, <2>3 DEF Lock
  <2> QED BY <1>4, <2>4
<1> QED BY <1>3, <1>8, <1>9

\* It is the value of a lock.
LEMMA SelectsLocked ==
    ASSUME TypeOK, Safety, NEW i \in Replica, NEW Q, NEW R, NEW h, Reported(i, Q, R, h),
           NEW s \in Slot, s > executed[i], NEW v, NEW c \in Ballot, c < ballot[i],
           NEW A \in Quorum, Lock(s, v, c, A)
    PROVE  s <= h /\ \A u : Selects(R, s, u) => u = v
<1>1. PICK b \in Ballot : b = ballot[i] BY DEF TypeOK
<1>2. Q \in Quorum BY DEF Reported
<1>3. PICK q \in Q : q \in A BY <1>2, QuorumsMeet
<1>4. /\ Whole(q, b)
      /\ \A p \in Pages(q, b) : p.floor = executed[i] + 1 /\ \A y \in p.recs : y \in R
  BY <1>1 DEF Reported
<1>5. Reports(q, b, s, c) BY <1>1, <1>3 DEF Lock
<1>6. \A p \in Pages(q, b) : p.floor <= s BY <1>4 DEF TypeOK, Slot
<1>7. PICK w \in R : w.slot = s /\ w.ballot >= c BY <1>4, <1>5, <1>6 DEF Reports
<1>8. s <= h BY <1>7 DEF Reported
<1>9. ASSUME NEW u, Selects(R, s, u) PROVE u = v
  <2>1. PICK r \in R : r.slot = s /\ r.req = u /\ w.ballot <= r.ballot BY <1>7, <1>9, Selected
  <2>2. r \in Known /\ w \in Known BY DEF Reported
  <2>3. r \in Record /\ w \in Record BY <2>2, KnownType
  <2>4. r.ballot \in Nat /\ w.ballot \in Nat /\ c \in Nat BY <2>3, BallotNat DEF Record
  <2>5. r.ballot >= c BY <1>7, <2>1, <2>4
  <2> QED BY <2>1, <2>2, <2>5 DEF Lock
<1> QED BY <1>8, <1>9

\* The log L of a new leader: what it has executed, and what it has selected.
Selection(i, h, sel, x) ==
    /\ x.slot \in (executed[i] + 1)..h /\ x.req = sel[x.slot]
    /\ x.ballot = ballot[i] /\ ~x.committed
NewLog(i, h, sel, L) ==
    /\ L \in SUBSET Record /\ GoodLog(L, h, executed[i], ballot[i], TRUE)
    /\ \A x \in L : \/ x \in log[i] /\ x.committed /\ x.slot <= executed[i]
                    \/ Selection(i, h, sel, x)
    /\ \A x \in log[i] : x.slot <= executed[i] => x \in L
    /\ \A s \in (executed[i] + 1)..h : \E x \in L : x.slot = s /\ Selection(i, h, sel, x)

\* The log of a new leader.
LEMMA NewLogOf ==
    ASSUME TypeOK, Shape, NEW i \in Replica, NEW h \in -1..MaxSlot,
           h >= executed[i], h >= high[i],
           NEW sel \in [(executed[i] + 1)..h -> Command],
           NEW Z, Z = {[slot |-> s, ballot |-> ballot[i], req |-> sel[s], committed |-> FALSE] :
                         s \in (executed[i] + 1)..h},
           NEW L, L = {r \in log[i] : r.slot <= executed[i] \/ r.slot > h} \cup Z
    PROVE  NewLog(i, h, sel, L)
<1>1. PICK e : e = executed[i] OBVIOUS
<1>2. PICK b : b = ballot[i] OBVIOUS
<1>3. e \in -1..MaxSlot /\ b \in Ballot /\ b \in Nat /\ high[i] \in -1..MaxSlot
  BY <1>1, <1>2 DEF TypeOK, Ballot
<1>4. log[i] \in SUBSET Record BY DEF TypeOK
<1>5. /\ Functional(log[i]) /\ \A x \in log[i] : x.slot <= high[i] /\ x.ballot <= b
      /\ \A s \in 0..e : Decided(log[i], s)
  BY <1>1, <1>2, LogIsGood DEF GoodLog
<1>6. ASSUME NEW x \in log[i], x.slot <= e PROVE x.committed
  <2>1. x.slot \in 0..e BY <1>3, <1>4, <1>6 DEF Record, Slot
  <2>2. PICK y \in log[i] : y.slot = x.slot /\ y.committed BY <1>5, <2>1 DEF Decided
  <2> QED BY <2>2, <1>5 DEF Functional
<1>7. \A x \in log[i] : ~(x.slot > h)
  <2> TAKE x \in log[i]
  <2>1. x.slot \in Nat BY <1>4 DEF Record, Slot
  <2> QED BY <1>3, <1>5, <2>1
<1>8. \A s \in (e + 1)..h : s \in Slot BY <1>3, BoundAssumption DEF Slot
<1>9. ASSUME NEW s \in (e + 1)..h,
             NEW z, z = [slot |-> s, ballot |-> b, req |-> sel[s], committed |-> FALSE]
      PROVE  /\ z \in Record /\ z.slot = s /\ z.ballot = b /\ z.req = sel[s] /\ ~z.committed
             /\ Selection(i, h, sel, z)
  <2>1. s \in Slot /\ sel[s] \in Command BY <1>1, <1>8
  <2>2. z.slot = s /\ z.ballot = b /\ z.req = sel[s] /\ ~z.committed BY <1>9
  <2>3. z \in Record BY <1>3, <1>9, <2>1 DEF Record
  <2> QED BY <1>1, <1>2, <2>2, <2>3 DEF Selection
<1>10. \A z \in Z : \E s \in (e + 1)..h :
          z = [slot |-> s, ballot |-> b, req |-> sel[s], committed |-> FALSE]
  BY <1>1, <1>2
<1>11. \A z \in Z : z \in Record /\ Selection(i, h, sel, z) BY <1>9, <1>10
<1>12. ASSUME NEW s \in (e + 1)..h PROVE \E z \in Z : z.slot = s
  <2>1. PICK z : z = [slot |-> s, ballot |-> b, req |-> sel[s], committed |-> FALSE] OBVIOUS
  <2>2. z \in Z BY <1>1, <1>2, <2>1
  <2> QED BY <1>9, <2>1, <2>2
<1>13. ASSUME NEW y \in Z, NEW z \in Z, y.slot = z.slot PROVE y = z
  <2>1. PICK s \in (e + 1)..h :
           y = [slot |-> s, ballot |-> b, req |-> sel[s], committed |-> FALSE]
    BY <1>10
  <2>2. PICK t \in (e + 1)..h :
           z = [slot |-> t, ballot |-> b, req |-> sel[t], committed |-> FALSE]
    BY <1>10
  <2>3. s = t BY <1>9, <1>13, <2>1, <2>2
  <2> QED BY <2>1, <2>2, <2>3
<1>14. \A x : x \in L <=> (x \in Z \/ (x \in log[i] /\ x.slot <= e)) BY <1>1, <1>7
<1>15. L \in SUBSET Record BY <1>4, <1>11, <1>14
<1>16. \A x \in L : \/ x \in log[i] /\ x.committed /\ x.slot <= e
                    \/ Selection(i, h, sel, x)
  BY <1>6, <1>11, <1>14
<1>17. \A s \in (e + 1)..h : \E x \in L : x.slot = s /\ Selection(i, h, sel, x)
  BY <1>11, <1>12, <1>14
<1>18. Functional(L)
  <2> SUFFICES ASSUME NEW x \in L, NEW y \in L, x.slot = y.slot PROVE x = y BY DEF Functional
  <2>1. CASE x \in Z /\ y \in Z BY <1>13, <2>1
  <2>2. CASE x \in log[i] /\ y \in log[i] BY <1>5, <2>2 DEF Functional
  <2>3. \A z \in Z : ~(z.slot <= e) BY <1>1, <1>3, <1>11 DEF Selection
  <2> QED BY <1>14, <2>1, <2>2, <2>3
<1>19. \A x \in L : x.slot <= h /\ x.ballot <= b /\ (x.ballot = b \/ x.committed)
  <2> TAKE x \in L
  <2>1. CASE x \in log[i] /\ x.committed /\ x.slot <= e
    <3>1. x.slot \in Nat BY <1>4, <2>1 DEF Record, Slot
    <3> QED BY <1>1, <1>3, <1>5, <2>1, <3>1
  <2>2. CASE Selection(i, h, sel, x) BY <1>1, <1>2, <1>3, <2>2 DEF Selection
  <2> QED BY <1>16, <2>1, <2>2
<1>20. \A s \in 0..e : Decided(L, s)
  <2> TAKE s \in 0..e
  <2>1. PICK y \in log[i] : y.slot = s /\ y.committed BY <1>5 DEF Decided
  <2>2. y \in L BY <1>14, <2>1
  <2> QED BY <2>1, <2>2 DEF Decided
<1>21. GoodLog(L, h, e, b, TRUE) BY <1>18, <1>19, <1>20 DEF GoodLog
<1>22. \A x \in log[i] : x.slot <= e => x \in L BY <1>14
<1> QED BY <1>1, <1>2, <1>15, <1>16, <1>17, <1>21, <1>22 DEF NewLog

\* With that log, i has taken over: it holds what is locked, and whatever may
\* have been chosen.
LEMMA TakenOver ==
    ASSUME TypeOK, TypeOK', Shape, Safety, NEW i \in Replica, NEW Q, NEW R, NEW h, Reported(i, Q, R, h),
           NEW sel, \A s \in (executed[i] + 1)..h : Selects(R, s, sel[s]),
           NewLog(i, h, sel, log'[i]), ballot'[i] = ballot[i], ~preparing'[i]
    PROVE  /\ TookOver(i)
           /\ \A x : Selection(i, h, sel, x) => Adopted(x)
<1>1. PICK b \in Ballot : b = ballot[i] BY DEF TypeOK
<1>2. PICK e \in -1..MaxSlot : e = executed[i] BY DEF TypeOK
<1>3. b \in Nat /\ e \in Int /\ h \in Int BY BallotNat, BoundAssumption DEF Reported
<1>4. preparing[i] /\ Owner(b) = i BY <1>1 DEF Reported
<1>5. Elected(b)
  <2>1. Q \in Quorum /\ \A q \in Q : ballot[q] >= b BY <1>1 DEF Reported
  <2> QED BY <2>1 DEF Elected
<1>6. /\ \A x \in log[i] : x.slot <= e => x \in log'[i]
      /\ \A s \in (e + 1)..h : \E x \in log'[i] : x.slot = s /\ Selection(i, h, sel, x)
  BY <1>2 DEF NewLog
<1>7. ASSUME NEW s \in Slot, s <= e
      PROVE  \E y \in log[i] : y.slot = s /\ y.committed /\ y \in log'[i]
  <2>1. s \in 0..e BY <1>3, <1>7 DEF Slot
  <2>2. PICK y \in log[i] : y.slot = s /\ y.committed
    BY <1>2, <2>1, LogIsGood DEF GoodLog, Decided
  <2> QED BY <1>6, <1>7, <2>2
<1>8. ASSUME NEW s \in Slot, NEW c \in Ballot, c < b, \A y \in log'[i] : y.slot # s, CanChoose(c, s)
      PROVE  FALSE
  <2>1. s > e BY <1>3, <1>7, <1>8 DEF Slot
  <2>2. PICK w \in R : w.slot = s BY <1>1, <1>2, <1>8, <2>1, ChoiceReported
  <2>3. s <= h BY <2>2 DEF Reported
  <2>4. s \in (e + 1)..h BY <1>3, <2>1, <2>3 DEF Slot
  <2> QED BY <1>6, <1>8, <2>4
<1>9. ASSUME NEW s \in Slot, NEW v \in Command, NEW c \in Ballot, NEW A \in Quorum,
             c < b, Lock(s, v, c, A)
      PROVE  \E y \in log'[i] : y.slot = s /\ y.req = v
  <2>1. CASE s <= e
    <3>1. PICK y \in log[i] : y.slot = s /\ y.committed /\ y \in log'[i] BY <1>7, <2>1
    <3>2. y \in Known BY InKnown
    <3>3. PICK d \in Ballot, B \in Quorum : Lock(s, y.req, d, B) BY <3>1, <3>2, LockOf
    <3>4. y.req = v BY <1>9, <3>3, LocksAgree
    <3> QED BY <3>1, <3>4
  <2>2. CASE s > e
    <3>1. s <= h /\ \A u : Selects(R, s, u) => u = v
      BY <1>1, <1>2, <1>9, <2>2, SelectsLocked
    <3>2. s \in (e + 1)..h BY <1>3, <2>2, <3>1 DEF Slot
    <3>3. sel[s] = v BY <1>2, <3>1, <3>2
    <3> QED BY <1>6, <3>2, <3>3 DEF Selection
  <2> QED BY <1>3, <2>1, <2>2 DEF Slot
<1>10. TookOver(i)
  <2>1. \A s \in Slot, c \in Ballot :
           c < ballot[i] /\ (\A y \in log'[i] : y.slot # s) => ~CanChoose(c, s)
    BY <1>1, <1>8
  <2>2. \A s \in Slot, v \in Command, c \in Ballot, A \in Quorum :
           c < ballot[i] /\ Lock(s, v, c, A) => \E y \in log'[i] : y.slot = s /\ y.req = v
    BY <1>1, <1>9
  <2> QED BY <1>1, <1>4, <1>5, <2>1, <2>2 DEF TookOver
<1>11. ASSUME NEW x, Selection(i, h, sel, x) PROVE Adopted(x)
  <2>1. /\ x.slot \in (e + 1)..h /\ x.req = sel[x.slot] /\ x.ballot = b /\ ~x.committed
    BY <1>1, <1>2, <1>11 DEF Selection
  <2>2. \E y \in log'[i] : y.slot = x.slot /\ y.req = x.req
    BY <1>6, <2>1 DEF Selection
  <2>3. ASSUME NEW y \in Known, y.slot = x.slot, y.ballot < b, CanChoose(y.ballot, y.slot)
        PROVE  y.req = x.req
    <3>1. Selects(R, y.slot, x.req) BY <1>2, <2>1, <2>3
    <3>2. y.slot > executed[i] BY <1>2, <1>3, <2>1, <2>3
    <3>3. y.ballot < ballot[i] BY <1>1, <2>3
    <3> QED BY <2>3, <3>1, <3>2, <3>3, SelectsChosen
  <2> QED BY <1>1, <1>10, <2>1, <2>2, <2>3 DEF Adopted
<1> QED BY <1>10, <1>11

\* What TakeOver does once the top h and the values sel are selected.
Takes(i, m, R, e, b, h, sel, Z, L, W) ==
    /\ Z = {[slot |-> s, ballot |-> b, req |-> sel[s], committed |-> FALSE] : s \in (e + 1)..h}
    /\ L = {r \in log[i] : r.slot <= e \/ r.slot > h} \cup Z
    /\ W = OwnSuffix(L, e + 1, h, b)
    /\ \A s \in (e + 1)..h : Selects(R, s, sel[s])
    /\ log' = [log EXCEPT ![i] = Install(L, UNION W)]
    /\ high' = [high EXCEPT ![i] = h]
    /\ votes' = [votes EXCEPT ![i] = Vote([s \in Slot |-> {}], Slots(UNION W), i, e)]
    /\ Exchange(m, AcceptAll(i, W)
           \cup IF Recovered(e, h) THEN ReadyAll(i, TRUE) ELSE {})

\* A candidate takes over the log.
LEMMA TakeOverAdvances ==
    ASSUME TypeOK, TypeOK', Shape, Safety, NEW i \in Replica, NEW m \in msgs, m.to = i,
           TakeOver(i, m)
    PROVE  Shape' /\ Advance
<1>1. PICK b : b = ballot[i] OBVIOUS
<1>2. PICK e : e = executed[i] OBVIOUS
<1>3. PICK Q : Q = promises[i] \cup {m.from} OBVIOUS
<1>4. PICK R : R = UNION {p.recs : p \in PagesOf(i, m)} OBVIOUS
<1>5. PromiseExpected(i, m) /\ Elects(i, m) BY DEF TakeOver
<1>6. PICK h \in {executed[i]} \cup {p.high : p \in PagesOf(i, m)} :
        /\ IsTop(h, {executed[i]} \cup {p.high : p \in PagesOf(i, m)})
        /\ \E sel \in [(executed[i] + 1)..h -> Command] :
             LET lo == executed[i]
                 own == ballot[i]
                 told == UNION {p.recs : p \in PagesOf(i, m)}
                 Z == {[slot |-> s, ballot |-> own, req |-> sel[s], committed |-> FALSE] :
                         s \in (lo + 1)..h}
                 L == {r \in log[i] : r.slot <= lo \/ r.slot > h} \cup Z
                 W == OwnSuffix(L, lo + 1, h, own)
             IN  /\ \A s \in (lo + 1)..h : Selects(told, s, sel[s])
                 /\ log' = [log EXCEPT ![i] = Install(L, UNION W)]
                 /\ high' = [high EXCEPT ![i] = h]
                 /\ assigned' = [assigned EXCEPT
                      ![i] = Reqs({r \in log[i] : r.slot <= lo}) \cup Reqs(Z)]
                 /\ recoveryEnd' = [recoveryEnd EXCEPT ![i] = h]
                 /\ votes' = [votes EXCEPT
                      ![i] = Vote([s \in Slot |-> {}], Slots(UNION W), i, lo)]
                 /\ active' = [active EXCEPT ![i] = Recovered(lo, h)]
                 /\ resume' = IF Recovered(lo, h) THEN [resume EXCEPT ![i] = pending[i]] ELSE resume
                 /\ Exchange(m, AcceptAll(i, W)
                        \cup IF Recovered(lo, h) THEN ReadyAll(i, TRUE) ELSE {})
  BY DEF TakeOver, PagesOf
<1>7. PICK sel \in [(executed[i] + 1)..h -> Command] :
             LET lo == executed[i]
                 own == ballot[i]
                 told == UNION {p.recs : p \in PagesOf(i, m)}
                 Z == {[slot |-> s, ballot |-> own, req |-> sel[s], committed |-> FALSE] :
                         s \in (lo + 1)..h}
                 L == {r \in log[i] : r.slot <= lo \/ r.slot > h} \cup Z
                 W == OwnSuffix(L, lo + 1, h, own)
             IN  /\ \A s \in (lo + 1)..h : Selects(told, s, sel[s])
                 /\ log' = [log EXCEPT ![i] = Install(L, UNION W)]
                 /\ high' = [high EXCEPT ![i] = h]
                 /\ votes' = [votes EXCEPT
                      ![i] = Vote([s \in Slot |-> {}], Slots(UNION W), i, lo)]
                 /\ Exchange(m, AcceptAll(i, W)
                        \cup IF Recovered(lo, h) THEN ReadyAll(i, TRUE) ELSE {})
  BY <1>6
<1>8. \E Z, L, W : Takes(i, m, UNION {p.recs : p \in PagesOf(i, m)}, executed[i], ballot[i],
                         h, sel, Z, L, W)
  <2> DEFINE Z == {[slot |-> s, ballot |-> ballot[i], req |-> sel[s], committed |-> FALSE] :
                     s \in (executed[i] + 1)..h}
             L == {r \in log[i] : r.slot <= executed[i] \/ r.slot > h} \cup Z
             W == OwnSuffix(L, executed[i] + 1, h, ballot[i])
  <2>1. Takes(i, m, UNION {p.recs : p \in PagesOf(i, m)}, executed[i], ballot[i], h, sel, Z, L, W)
    BY Zenon, <1>7 DEF Takes
  <2> QED BY Zenon, <2>1
<1>9. \E Z, L, W : Takes(i, m, R, e, b, h, sel, Z, L, W) BY Zenon, <1>1, <1>2, <1>4, <1>8
<1>10. PICK Z, L, W : Takes(i, m, R, e, b, h, sel, Z, L, W) BY <1>9
<1>11. /\ Z = {[slot |-> s, ballot |-> b, req |-> sel[s], committed |-> FALSE] :
                  s \in (e + 1)..h}
       /\ L = {r \in log[i] : r.slot <= e \/ r.slot > h} \cup Z
       /\ W = OwnSuffix(L, e + 1, h, b)
       /\ \A s \in (e + 1)..h : Selects(R, s, sel[s])
       /\ log' = [log EXCEPT ![i] = Install(L, UNION W)]
       /\ high' = [high EXCEPT ![i] = h]
       /\ votes' = [votes EXCEPT ![i] = Vote([s \in Slot |-> {}], Slots(UNION W), i, e)]
       /\ Exchange(m, AcceptAll(i, W) \cup IF Recovered(e, h) THEN ReadyAll(i, TRUE) ELSE {})
  BY Zenon, <1>10 DEF Takes
<1>12. Reported(i, Q, R, h)
  <2>1. /\ h \in {executed[i]} \cup {p.high : p \in PagesOf(i, m)}
        /\ IsTop(h, {executed[i]} \cup {p.high : p \in PagesOf(i, m)})
    BY <1>2, <1>6
  <2> QED BY <1>3, <1>4, <1>5, <2>1, QuorumReports
<1>13. h \in -1..MaxSlot /\ h >= e /\ h >= high[i] /\ preparing[i] /\ Owner(b) = i
  BY <1>1, <1>2, <1>12 DEF Reported
<1>14. NewLog(i, h, sel, L)
  <2>1. /\ h \in -1..MaxSlot /\ h >= executed[i] /\ h >= high[i]
        /\ sel \in [(executed[i] + 1)..h -> Command]
    BY <1>2, <1>6, <1>7, <1>13
  <2>2. Z = {[slot |-> s, ballot |-> ballot[i], req |-> sel[s], committed |-> FALSE] :
               s \in (executed[i] + 1)..h}
    BY Zenon, <1>1, <1>2, <1>11
  <2>3. L = {r \in log[i] : r.slot <= executed[i] \/ r.slot > h} \cup Z BY Zenon, <1>2, <1>11
  <2> QED BY <2>1, <2>2, <2>3, NewLogOf
<1>15. b \in Ballot /\ b \in Nat /\ e \in -1..MaxSlot BY <1>1, <1>2 DEF TypeOK, Ballot
<1>16. /\ L \in SUBSET Record /\ Functional(L) /\ \A x \in L : x.ballot = b \/ x.committed
       /\ GoodLog(L, h, e, b, TRUE)
       /\ \A x \in L : \/ x \in log[i] /\ x.committed /\ x.slot <= e
                       \/ Selection(i, h, sel, x)
       /\ \A x \in log[i] : x.slot <= e => x \in L
       /\ \A s \in (e + 1)..h : \E x \in L : x.slot = s /\ Selection(i, h, sel, x)
  BY <1>1, <1>2, <1>14 DEF NewLog, GoodLog
<1>17. ASSUME NEW T \in W
       PROVE  /\ T \in SUBSET Record /\ RecordsOf(T, b, L)
              /\ \A x \in T : /\ x.ballot = b /\ ~x.committed
                              /\ \E y \in L : y.slot = x.slot /\ y.req = x.req /\ e + 1 <= y.slot
  <2>1. PICK f : f = e + 1 OBVIOUS
  <2>2. T \in OwnSuffix(L, f, h, b) BY <1>11, <2>1
  <2>3. OwnSuffix(L, f, h, b) \in SUBSET SUBSET Record BY <1>15, <1>16, SuffixTypes
  <2>4. RecordsOf(T, b, L)
    <3>1. \A x, y \in L : x.slot = y.slot => x = y BY <1>16 DEF Functional
    <3> QED BY <1>15, <1>16, <2>2, <3>1, OwnSuffixGood
  <2>5. ASSUME NEW x \in T
        PROVE  /\ x.ballot = b /\ ~x.committed
               /\ \E y \in L : y.slot = x.slot /\ y.req = x.req /\ e + 1 <= y.slot
    <3>1. \E y \in L : /\ x.slot = y.slot /\ x.req = y.req
                       /\ x.ballot = b /\ ~x.committed
                       /\ f <= y.slot /\ y.slot <= SuffixEnd(f, h)
      BY <1>15, <1>16, <2>2, OwnSuffixRecords
    <3> QED BY <2>1, <3>1
  <2> QED BY <2>2, <2>3, <2>4, <2>5
<1>18. PICK U : U = UNION W OBVIOUS
<1>19. /\ U \in SUBSET Record
       /\ \A x \in U : x.ballot = b /\ ~x.committed
                       /\ \E y \in L : y.slot = x.slot /\ y.req = x.req
  <2> SUFFICES ASSUME NEW x \in U
               PROVE  /\ x \in Record /\ x.ballot = b /\ ~x.committed
                      /\ \E y \in L : y.slot = x.slot /\ y.req = x.req
    OBVIOUS
  <2>1. PICK T \in W : x \in T BY <1>18
  <2> QED BY <1>17, <2>1
<1>20. Install(L, U) = L BY <1>16, <1>19, SuffixInstalled
<1>21. /\ log'[i] = L /\ high'[i] = h
       /\ \A k \in Replica : k # i => log'[k] = log[k] /\ high'[k] = high[k]
  BY <1>11, <1>18, <1>20 DEF TypeOK
<1>22. UNCHANGED <<ballot, leader, executed, frozen>> BY DEF TakeOver
<1>23. ~preparing'[i] /\ \A k \in Replica : k # i =>
          preparing'[k] = preparing[k] /\ pages'[k] = pages[k] /\ promises'[k] = promises[k]
  BY DEF TakeOver, TypeOK
<1>24. pages'[i] = PagesWith(i, m) /\ \A p \in PagesWith(i, m) : p \in Promised
  BY <1>5, Collected DEF TakeOver, TypeOK
<1>25. TookOver(i) /\ \A x : Selection(i, h, sel, x) => Adopted(x)
  <2>1. /\ NewLog(i, h, sel, log'[i]) /\ ballot'[i] = ballot[i]
        /\ \A s \in (executed[i] + 1)..h : Selects(R, s, sel[s])
    BY <1>2, <1>11, <1>14, <1>21, <1>22
  <2> QED BY <1>12, <1>23, <2>1, TakenOver
<1>26. RoleStep /\ Leads' /\ Led(b)' /\ \A q \in Replica : Leading(q)' => Leading(q) \/ TookOver(q)
  <2>1. \A q \in Replica : ballot[q] <= ballot'[q] BY <1>22, BallotTypes
  <2>2. \A q \in Replica : q # i => Leading(q)' = Leading(q) BY <1>22, <1>23 DEF Leading
  <2>3. RoleStep BY <1>13, <1>22, <1>23, <2>1, <2>2 DEF RoleStep, Leading
  <2>4. Leads' BY <1>22 DEF Shape, Leads
  <2>5. Led(b)' BY <1>1, <1>13, <1>22, <1>23 DEF Led
  <2> QED BY <1>25, <2>2, <2>3, <2>4, <2>5
<1>27. \A x \in msgs' : \/ x \in msgs
                        \/ \E j \in Replica : j # i /\ x = Ready(i, j, b, e, TRUE)
                        \/ \E j \in Replica : \E T \in W : j # i /\ x = Accept(i, j, b, T)
  <2>1. PICK out : out = AcceptAll(i, W) \cup IF Recovered(e, h) THEN ReadyAll(i, TRUE) ELSE {}
    OBVIOUS
  <2>2. \A x \in out : x \in AcceptAll(i, W) \/ x \in ReadyAll(i, TRUE) BY <2>1
  <2>3. \A x \in out : \/ \E j \in Replica : j # i /\ x = Ready(i, j, b, e, TRUE)
                       \/ \E j \in Replica : \E T \in W : j # i /\ x = Accept(i, j, b, T)
    <3>1. \A x \in AcceptAll(i, W) :
             \E j \in Replica : \E T \in W : j # i /\ x = Accept(i, j, ballot[i], T)
      BY Broadcast
    <3>2. \A x \in ReadyAll(i, TRUE) :
             \E j \in Replica : j # i /\ x = Ready(i, j, ballot[i], executed[i], TRUE)
      BY Broadcast
    <3> QED BY Zenon, <1>1, <1>2, <2>2, <3>1, <3>2
  <2>4. Exchange(m, out) BY <1>11, <2>1
  <2>5. \A x \in msgs' : x \in msgs \/ x \in out BY <2>4, ExchangeSubset
  <2> QED BY <2>3, <2>5
<1>28. ASSUME NEW x, NEW y \in L, x.slot = y.slot, x.req = y.req, e + 1 <= y.slot,
              x.ballot = b, ~x.committed
       PROVE  Adopted(x)
  <2>1. y.slot \in Nat BY <1>16 DEF Record, Slot
  <2>2. Selection(i, h, sel, y) BY <1>15, <1>16, <1>28, <2>1
  <2>3. Selection(i, h, sel, x) BY <1>1, <1>28, <2>2 DEF Selection
  <2> QED BY <1>25, <2>3
<1>29. ASSUME NEW x \in msgs', x \notin msgs
       PROVE  /\ x.kind \in {"Ready", "Accept"} /\ GoodPacket(x)'
              /\ x.kind \in {"Accept", "Commit"} => \A y \in x.recs : Adopted(y)
  <2>1. CASE \E j \in Replica : j # i /\ x = Ready(i, j, b, e, TRUE)
    BY <1>13, <1>26, <2>1 DEF Ready, GoodPacket
  <2>2. CASE \E j \in Replica : \E T \in W : j # i /\ x = Accept(i, j, b, T)
    <3>1. PICK j \in Replica, T \in W : j # i /\ x = Accept(i, j, b, T) BY <2>2
    <3>2. /\ T \in SUBSET Record /\ RecordsOf(T, ballot[i], L)
          /\ \A y \in T : Adopted(y)
      BY <1>1, <1>17, <1>28
    <3>3. Owner(ballot[i]) = i /\ ballot'[i] = ballot[i] /\ Led(ballot[i])'
      BY <1>1, <1>13, <1>22, <1>26
    <3>4. GoodPacket(Accept(i, j, ballot[i], T))' BY <3>1, <3>2, <3>3, LeaderPackets
    <3> QED BY <1>1, <1>22, <3>1, <3>2, <3>4 DEF Accept
  <2> QED BY <1>27, <1>29, <2>1, <2>2
<1>30. \A x \in msgs' : x \in msgs \/ (x.kind # "Prepare" /\ GoodPacket(x)') BY <1>29
<1>31. Promised' \subseteq Promised
  <2> SUFFICES ASSUME NEW p \in Promised' PROVE p \in Promised OBVIOUS
  <2>1. CASE p \in msgs' /\ p.kind = "Promise" BY <1>29, <2>1, InPromised
  <2>2. CASE \E j \in Replica : p \in pages'[j] BY <1>23, <1>24, <2>2, InPromised
  <2>3. CASE \E j \in Replica : p \in frozen'[j] BY <1>22, <2>3, InPromised
  <2> QED BY <2>1, <2>2, <2>3, InPromisedNext
<1>32. SamePreparing BY <1>21, <1>22, <1>23 DEF SamePreparing
<1>33. GoodLog(log'[i], high'[i], executed'[i], ballot[i], ~preparing'[i] /\ Owner(ballot[i]) = i)
  BY <1>1, <1>2, <1>16, <1>21, <1>22 DEF GoodLog
<1>34. \A k \in Replica : k # i => /\ log'[k] = log[k] /\ high'[k] = high[k]
                                   /\ executed'[k] = executed[k] /\ preparing'[k] = preparing[k]
  BY <1>21, <1>22, <1>23
<1>35. Shape' /\ \A q \in Replica, c \in Ballot : SamePages(q, c)
  BY <1>22, <1>26, <1>30, <1>31, <1>32, <1>33, <1>34, LogStep
<1>36. ASSUME NEW s \in Slots(U) PROVE FreshVote(i, b, s)
  <2>1. PICK x \in U : x.slot = s BY DEF Slots
  <2>2. PICK y \in L : y.slot = s BY <1>19, <2>1
  <2>3. y.ballot >= b \/ y.committed BY <1>15, <1>16
  <2> QED BY <1>1, <1>13, <1>21, <1>22, <1>26, <2>2, <2>3 DEF FreshVote
<1>37. ASSUME NEW q \in Replica, NEW c \in Ballot, NEW s \in Slot, Voted(q, c, s)'
       PROVE  Voted(q, c, s) \/ FreshVote(q, c, s)
  <2>1. CASE \E x \in msgs' : x.kind = "Ack" /\ x.from = q /\ x.ballot = c /\ s \in x.slots
    BY <1>29, <2>1 DEF Voted
  <2>2. CASE ballot'[Owner(c)] = c /\ q \in votes'[Owner(c)][s]
    <3>1. Owner(c) \in Replica BY OwnerType, BallotNat
    <3>2. CASE Owner(c) # i
      <4>1. votes'[Owner(c)] = votes[Owner(c)] BY <1>11, <3>1, <3>2 DEF TypeOK
      <4> QED BY <1>22, <2>2, <4>1 DEF Voted
    <3>3. CASE Owner(c) = i
      <4>1. votes'[i] = Vote([t \in Slot |-> {}], Slots(U), i, e) BY <1>11, <1>18 DEF TypeOK
      <4>2. q = i /\ s \in Slots(U) BY <2>2, <3>3, <4>1 DEF Vote
      <4>3. c = b BY <1>1, <1>22, <2>2, <3>3
      <4> QED BY <1>36, <4>2, <4>3
    <3> QED BY <3>2, <3>3
  <2> QED BY <1>37, <2>1, <2>2 DEF Voted
<1>38. \A x \in log'[i] : x \in Known \/ Adopted(x) BY <1>16, <1>21, <1>25, InKnown
<1>39. \A x \in msgs' : x.kind \in {"Accept", "Commit"} =>
          x \in msgs \/ \A y \in x.recs : y \in Known \/ Adopted(y)
  BY <1>29
<1>40. \A y \in log[i] : \E z \in log'[i] :
          /\ z.slot = y.slot /\ z.ballot >= y.ballot
          /\ y.committed => z.committed \/ z.ballot = ballot[i]
          /\ Leading(i) => z.req = y.req
  <2> TAKE y \in log[i]
  <2>1. y \in Record /\ y.slot <= high[i] /\ y.ballot <= b
    BY <1>1, LogIsGood DEF TypeOK, GoodLog
  <2>2. y.ballot \in Nat /\ y.slot \in Nat /\ high[i] \in -1..MaxSlot
    BY <2>1 DEF Record, Ballot, Slot, TypeOK
  <2>3. ~Leading(i) BY <1>13 DEF Leading
  <2>4. CASE y.slot <= e BY <1>16, <1>21, <2>2, <2>3, <2>4
  <2>5. CASE y.slot > e
    <3>1. y.slot \in (e + 1)..h BY <1>13, <1>15, <2>1, <2>2, <2>5
    <3>2. PICK z \in L : z.slot = y.slot /\ Selection(i, h, sel, z) BY <1>16, <3>1
    <3>3. z.ballot = b BY <1>1, <3>2 DEF Selection
    <3> QED BY <1>1, <1>15, <1>21, <2>1, <2>2, <2>3, <3>2, <3>3
  <2> QED BY <1>15, <2>2, <2>4, <2>5
<1>41. Advance
  BY <1>22, <1>26, <1>31, <1>34, <1>35, <1>37, <1>38, <1>39, <1>40, LogAdvance
<1> QED BY <1>35, <1>41
-----------------------------------------------------------------------------
(***************************************************************************)
(* The theorems.                                                           *)
(***************************************************************************)
\* In the beginning everybody follows InitLeader and nothing has been said.
LEMMA InitSafety == Init => Shape /\ Safety
<1> SUFFICES ASSUME Init PROVE Shape /\ Safety OBVIOUS
<1>1. InitLeader \in Replica /\ InitLeader \in Ballot /\ InitLeader \in Nat
  BY NAssumption, LeaderAssumption, BoundAssumption DEF Replica, Ballot
<1>2. /\ msgs = {} /\ \A i \in Replica : /\ ballot[i] = InitLeader /\ leader[i] = InitLeader
                                         /\ ~preparing[i] /\ log[i] = {} /\ executed[i] = -1
                                         /\ pages[i] = {} /\ frozen[i] = {}
  BY DEF Init
<1>3. \A i \in Replica : \A s \in Slot : votes[i][s] = {} BY DEF Init
<1>4. \A p : p \notin Promised BY <1>2, InPromised
<1>5. \A x : x \notin Known BY <1>2, <1>4, InKnown
<1>6. \A q \in Replica, b \in Ballot, s \in Slot : ~Voted(q, b, s)
  BY <1>2, <1>3, BallotNat, OwnerType DEF Voted
<1>7. Leads BY <1>2, OwnerInit DEF Leads
<1>8. LogShape
  <2>1. \A s \in 0..-1 : FALSE OBVIOUS
  <2> QED BY <1>2, <2>1 DEF LogShape
<1>9. Traffic BY <1>2 DEF Traffic
<1>10. Floors
  <2>1. 0 \in 0..(MaxSlot + 1) BY BoundAssumption
  <2> QED BY <1>2, <1>4, <2>1 DEF Floors, Asked
<1>11. PromiseShape BY <1>2, <1>4 DEF PromiseShape
<1>12. OneSnapshot
  <2>1. ASSUME NEW q, NEW b PROVE Pages(q, b) = {} BY <1>4 DEF Pages
  <2>2. IsFiniteSet({}) BY FS_EmptySet
  <2> QED BY <2>1, <2>2 DEF OneSnapshot
<1>13. Preparation BY <1>2 DEF Preparation
<1>14. VoteInv BY <1>6 DEF VoteInv
<1>15. OneValue /\ Owned /\ Safe /\ Locked BY <1>5 DEF OneValue, Owned, Safe, Locked
<1>16. Established
  <2>1. Replica \in Quorum
    <3>1. N >= Majority BY NAssumption DEF Majority
    <3> QED BY <3>1, ReplicasFinite DEF Quorum
  <2>2. Elected(InitLeader) BY <1>1, <1>2, <2>1 DEF Elected
  <2>3. ASSUME NEW s \in Slot, NEW b \in Ballot, b < InitLeader, CanChoose(b, s) PROVE FALSE
    <3>1. PICK Q \in Quorum : \A q \in Q : ballot[q] <= b \/ Voted(q, b, s)
      BY <2>3 DEF CanChoose
    <3>2. PICK q \in Q : q \in Replica BY QuorumsMeet DEF Quorum
    <3>3. ballot[q] <= b BY <1>6, <3>1, <3>2
    <3> QED BY <1>1, <1>2, <2>3, <3>2, <3>3, BallotNat
  <2> QED BY <1>2, <2>2, <2>3 DEF Established
<1> QED BY <1>7, <1>8, <1>9, <1>10, <1>11, <1>12, <1>13, <1>14, <1>15, <1>16 DEF Shape, Safety

\* Every packet that is handled advances the protocol.
LEMMA ReceiveAdvances ==
    ASSUME TypeOK, TypeOK', Shape, Safety, NEW m \in msgs, Receive(m.to, m)
    PROVE  Shape' /\ Advance
<1>1. m.to \in Replica BY PacketFields DEF TypeOK
<1>2. PICK i \in Replica : i = m.to BY <1>1
<1>3. CASE ReceivePrepare(i, m) BY <1>2, <1>3, PrepareAdvances
<1>4. CASE CollectPromise(i, m) BY <1>2, <1>4, CollectAdvances
<1>5. CASE TakeOver(i, m) BY <1>2, <1>5, TakeOverAdvances
<1>6. CASE \E fetch \in BOOLEAN : ReceiveAccept(i, m, fetch) BY <1>2, <1>6, AcceptAdvances
<1>7. CASE ReceiveAck(i, m) BY <1>7, AckAdvances
<1>8. CASE ReceiveCommit(i, m) BY <1>2, <1>8, CommitAdvances
<1>9. CASE \E fetch \in BOOLEAN : ReceiveReady(i, m, fetch) BY <1>2, <1>9, ReadyAdvances
<1>10. CASE ReceiveFetch(i, m) BY <1>2, <1>10, FetchAdvances
<1>11. CASE ReceiveForward(i, m) \/ Ignore(i, m)
  <2>1. QuietStep BY <1>2, <1>11 DEF QuietStep
  <2> QED BY <2>1, QuietAdvances
<1> QED BY <1>2, <1>3, <1>4, <1>5, <1>6, <1>7, <1>8, <1>9, <1>10, <1>11 DEF Receive

\* Every step of Next does.
LEMMA NextAdvances ==
    ASSUME TypeOK, TypeOK', Shape, Safety, [Next]_vars
    PROVE  Shape' /\ Advance
<1>1. CASE QuietStep BY <1>1, QuietAdvances
<1>2. ASSUME NEW i \in Replica, TickBegin(i) PROVE Shape' /\ Advance BY <1>2, BeginAdvances
<1>3. ASSUME NEW i \in Replica, TickPrepare(i) PROVE Shape' /\ Advance
  BY <1>3, TickPrepareAdvances
<1>4. ASSUME NEW i \in Replica, NEW due \in BOOLEAN, TickLeader(i, due)
      PROVE  Shape' /\ Advance
  BY <1>4, LeaderAdvances
<1>5. ASSUME NEW m \in msgs, Receive(m.to, m) PROVE Shape' /\ Advance
  BY <1>5, ReceiveAdvances
<1> QED BY <1>1, <1>2, <1>3, <1>4, <1>5 DEF Next, QuietStep

\* Shape and Safety are inductive.
LEMMA NextSafety == TypeOK /\ Shape /\ Safety /\ [Next]_vars => (Shape /\ Safety)'
<1> SUFFICES ASSUME TypeOK, Shape, Safety, [Next]_vars PROVE (Shape /\ Safety)' OBVIOUS
<1>1. TypeOK' BY TypeNext
<1>2. Shape' /\ Advance BY <1>1, NextAdvances
<1>3. Safety' BY <1>1, <1>2, SafetyStays
<1> QED BY <1>2, <1>3

\* The inductive invariant of Paxos.
THEOREM SafetyInvariant == Spec => [](Shape /\ Safety)
<1>1. Init => Shape /\ Safety BY InitSafety
<1>2. TypeOK /\ Shape /\ Safety /\ [Next]_vars => (Shape /\ Safety)' BY NextSafety
<1> QED BY <1>1, <1>2, TypeCorrect, PTL DEF Spec

\* Two replicas never commit different commands in one slot.
THEOREM PaxosAgreement == Spec => []Agreement
<1>1. TypeOK /\ Safety => Agreement BY SafetyAgrees
<1> QED BY <1>1, TypeCorrect, SafetyInvariant, PTL

\* install's panic ("conflicting decision") is unreachable.
THEOREM NoPanic == Spec => []NoConflictingDecision
<1>1. TypeOK /\ Shape /\ Safety => NoConflictingDecision BY SafetyNoConflict
<1> QED BY <1>1, TypeCorrect, SafetyInvariant, PTL

\* A leader that has finished recovery holds every command committed under its
\* own or an earlier ballot.
THEOREM LeadersComplete == Spec => []LeaderCompleteness
<1>1. TypeOK /\ Shape /\ Safety => LeaderCompleteness BY SafetyCompletes
<1> QED BY <1>1, TypeCorrect, SafetyInvariant, PTL

\* What a replica has committed in a slot stays in its log.
LEMMA CommittedKept ==
    ASSUME TypeOK, TypeOK', Shape', Safety, Advance,
           NEW i \in Replica, NEW r \in log[i], r.committed
    PROVE  \E q \in log'[i] : q.slot = r.slot /\ q.req = r.req
<1>1. r \in Known BY InKnown
<1>2. r \in Record BY <1>1, KnownType
<1>3. PICK b \in Ballot, Q \in Quorum : b <= r.ballot /\ Lock(r.slot, r.req, b, Q)
  BY <1>1, LockOf
<1>4. Lock(r.slot, r.req, b, Q)' BY <1>2, <1>3, LockStays DEF Record
<1>5. PICK z \in log'[i] : z.slot = r.slot /\ z.ballot >= r.ballot BY DEF Advance
<1>6. z \in Known' BY InKnownNext
<1>7. z \in Record BY <1>6, KnownTypeNext
<1>8. z.ballot \in Nat /\ r.ballot \in Nat /\ b \in Nat BY <1>2, <1>7, BallotNat DEF Record
<1>9. z.ballot >= b BY <1>3, <1>5, <1>8
<1>10. \A y \in Known' : y.slot = r.slot /\ y.ballot >= b => y.req = r.req BY <1>4 DEF Lock
<1> QED BY <1>5, <1>6, <1>9, <1>10

\* No step takes a committed command away.
LEMMA NextKeeps ==
    TypeOK /\ Shape /\ Safety /\ [Next]_vars =>
        \A i \in Replica : \A r \in log[i] :
            r.committed => \E q \in log'[i] : q.slot = r.slot /\ q.req = r.req
<1> SUFFICES ASSUME TypeOK, Shape, Safety, [Next]_vars, NEW i \in Replica, NEW r \in log[i],
                    r.committed
             PROVE  \E q \in log'[i] : q.slot = r.slot /\ q.req = r.req
  OBVIOUS
<1>1. TypeOK' BY TypeNext
<1>2. Shape' /\ Advance BY <1>1, NextAdvances
<1> QED BY <1>1, <1>2, CommittedKept

\* A replica keeps what it has committed, in its slot.
THEOREM CommittedForGood == Spec => CommittedStays
<1>1. TypeOK /\ Shape /\ Safety /\ [Next]_vars =>
         [\A i \in Replica : \A r \in log[i] :
            r.committed => \E q \in log'[i] : q.slot = r.slot /\ q.req = r.req]_vars
  BY NextKeeps
<1> QED BY <1>1, TypeCorrect, SafetyInvariant, PTL DEF CommittedStays, Spec

-----------------------------------------------------------------------------
(***************************************************************************)
(* One history.                                                            *)
(***************************************************************************)
\* A set of naturals has a least element.
LEMMA Smallest ==
    ASSUME NEW T \in SUBSET Nat, T # {}
    PROVE  \E x \in T : \A y \in T : x <= y
<1> DEFINE R == {p \in Nat \X Nat : p[1] < p[2]}
<1>1. IsWellFoundedOn(R, Nat) BY NatLessThanWellFounded DEF OpToRel
<1>2. PICK x \in T : \A y \in T : ~ (<<y, x>> \in R) BY <1>1, WFMin
<1>3. \A y \in T : x <= y
  <2> TAKE y \in T
  <2>1. x \in Nat /\ y \in Nat OBVIOUS
  <2>2. ~(y < x) BY <1>2, <2>1
  <2> QED BY <2>1, <2>2
<1> QED BY <1>3

\* What Executions is made of.
LEMMA InExecutions ==
    ASSUME NEW L, NEW e, NEW m, NEW done
    PROVE  /\ \A v \in Executions(L, e, m, done) : \E q \in L :
                 /\ v = [req |-> q.req, slot |-> q.slot]
                 /\ q.slot \in (e + 1)..m /\ q.req \in Request /\ q.req \notin done
                 /\ \A p \in L : p.slot \in (e + 1)..(q.slot - 1) => p.req # q.req
           /\ \A q \in L : /\ q.slot \in (e + 1)..m /\ q.req \in Request /\ q.req \notin done
                           /\ \A p \in L : p.slot \in (e + 1)..(q.slot - 1) => p.req # q.req
                           => [req |-> q.req, slot |-> q.slot] \in Executions(L, e, m, done)
BY DEF Executions

\* Executing the slots up to m of L after those up to e.
LEMMA RanFurther ==
    ASSUME NEW L \in SUBSET Record, NEW e \in -1..MaxSlot, NEW m \in e..MaxSlot, NEW V,
           Ran(L, e, V), NEW done, done = {v.req : v \in V},
           NEW X, X = Executions(L, e, m, done)
    PROVE  Ran(L, m, V \cup X)
<1>1. e \in Int /\ m \in Int /\ e <= m BY BoundAssumption
<1>2. \A y \in L : y.slot \in Nat BY DEF Record, Slot
<1>3. \A v \in V : v.slot <= e /\ \E y \in L : y.slot = v.slot BY DEF Ran
<1>4. ASSUME NEW v \in X
      PROVE  /\ v.slot <= m /\ v.req \in Request
             /\ \E y \in L : y.slot = v.slot /\ y.req = v.req
             /\ \A p \in L : p.slot < v.slot => p.req # v.req
  <2>1. PICK q \in L : /\ v = [req |-> q.req, slot |-> q.slot]
                       /\ q.slot \in (e + 1)..m /\ q.req \in Request /\ q.req \notin done
                       /\ \A p \in L : p.slot \in (e + 1)..(q.slot - 1) => p.req # q.req
    BY InExecutions
  <2>2. v.slot = q.slot /\ v.req = q.req BY <2>1
  <2>3. ASSUME NEW p \in L, p.slot < q.slot, p.req = q.req PROVE FALSE
    <3>1. CASE p.slot <= e
      <4>1. PICK w \in V : w.req = p.req BY <2>1, <2>3, <3>1 DEF Ran
      <4> QED BY <2>1, <2>3, <4>1
    <3>2. CASE p.slot > e
      <4>1. p.slot \in (e + 1)..(q.slot - 1) BY <1>1, <1>2, <2>3, <3>2
      <4> QED BY <2>1, <2>3, <4>1
    <3> QED BY <1>1, <1>2, <3>1, <3>2
  <2>4. q.slot <= m BY <1>1, <2>1
  <2> QED BY <2>1, <2>2, <2>3, <2>4
<1>5. ASSUME NEW v \in V
      PROVE  /\ v.slot <= m /\ v.req \in Request
             /\ \E y \in L : y.slot = v.slot /\ y.req = v.req
             /\ \A p \in L : p.slot < v.slot => p.req # v.req
  <2>1. PICK y \in L : y.slot = v.slot BY <1>3
  <2>2. v.slot <= m BY <1>1, <1>2, <1>3, <2>1
  <2> QED BY <2>2 DEF Ran
<1>6. ASSUME NEW y \in L, y.slot <= m, y.req \in Request
      PROVE  \E v \in V \cup X : v.req = y.req
  <2>1. CASE y.slot <= e BY <1>6, <2>1 DEF Ran
  <2>2. CASE y.req \in done BY <2>2
  <2>3. CASE y.slot > e /\ y.req \notin done
    <3> DEFINE T == {s \in Nat : s \in (e + 1)..m /\ \E p \in L : p.slot = s /\ p.req = y.req}
    <3>1. y.slot \in T BY <1>1, <1>2, <1>6, <2>3
    <3>2. PICK s \in T : \A t \in T : s <= t BY <3>1, Smallest
    <3>3. PICK q \in L : q.slot = s /\ q.req = y.req BY <3>2
    <3>4. ASSUME NEW p \in L, p.slot \in (e + 1)..(q.slot - 1), p.req = q.req PROVE FALSE
      <4>1. p.slot \in T BY <1>1, <1>2, <3>2, <3>3, <3>4
      <4> QED BY <1>2, <3>2, <3>3, <3>4, <4>1
    <3>5. [req |-> q.req, slot |-> q.slot] \in X
      BY <1>6, <2>3, <3>2, <3>3, <3>4, InExecutions
    <3>6. PICK v \in X : v = [req |-> q.req, slot |-> q.slot] BY <3>5
    <3>7. v.req = y.req BY <3>3, <3>6
    <3> QED BY <3>7
  <2>4. y.slot <= e \/ y.slot > e BY <1>1, <1>2
  <2> QED BY ONLY <2>1, <2>2, <2>3, <2>4
<1>7. \A v \in V \cup X : /\ v.slot <= m /\ v.req \in Request
                          /\ \E y \in L : y.slot = v.slot /\ y.req = v.req
                          /\ \A p \in L : p.slot < v.slot => p.req # v.req
  BY <1>4, <1>5
<1> QED BY <1>6, <1>7 DEF Ran

\* The executed part of a log may be restated, not changed.
LEMMA RanKept ==
    ASSUME NEW L \in SUBSET Record, NEW M \in SUBSET Record, Functional(L), Functional(M),
           NEW e \in -1..MaxSlot, \A s \in 0..e : Decided(L, s),
           \A r \in L : r.committed => \E q \in M : q.slot = r.slot /\ q.req = r.req,
           NEW V, Ran(L, e, V)
    PROVE  Ran(M, e, V)
<1>1. /\ e \in Int /\ \A y \in L : y.slot \in Nat
      /\ \A y \in M : y.slot \in Nat
  BY BoundAssumption DEF Record, Slot
<1>2. ASSUME NEW x \in L, x.slot <= e PROVE \E z \in M : z.slot = x.slot /\ z.req = x.req
  <2>1. x.slot \in 0..e BY <1>1, <1>2
  <2>2. PICK y \in L : y.slot = x.slot /\ y.committed BY <2>1 DEF Decided
  <2>3. y = x BY <2>2 DEF Functional
  <2> QED BY <2>2, <2>3
<1>3. ASSUME NEW z \in M, z.slot <= e PROVE \E x \in L : x.slot = z.slot /\ x.req = z.req
  <2>1. z.slot \in 0..e BY <1>1, <1>3
  <2>2. PICK y \in L : y.slot = z.slot /\ y.committed BY <2>1 DEF Decided
  <2>3. PICK w \in M : w.slot = y.slot /\ w.req = y.req BY <2>2
  <2>4. w = z BY <2>2, <2>3 DEF Functional
  <2> QED BY <2>2, <2>3, <2>4
<1>4. ASSUME NEW v \in V
      PROVE  /\ v.slot <= e /\ v.req \in Request
             /\ \E y \in M : y.slot = v.slot /\ y.req = v.req
             /\ \A p \in M : p.slot < v.slot => p.req # v.req
  <2>1. /\ v.slot <= e /\ v.req \in Request
        /\ \A p \in L : p.slot < v.slot => p.req # v.req
    BY DEF Ran
  <2>2. PICK y \in L : y.slot = v.slot /\ y.req = v.req BY DEF Ran
  <2>3. PICK z \in M : z.slot = y.slot /\ z.req = y.req BY <1>2, <2>1, <2>2
  <2>4. ASSUME NEW p \in M, p.slot < v.slot PROVE p.req # v.req
    <3>1. p.slot <= e BY <1>1, <2>1, <2>2, <2>4
    <3>2. PICK x \in L : x.slot = p.slot /\ x.req = p.req BY <1>3, <3>1
    <3> QED BY <2>1, <2>4, <3>2
  <2> QED BY <2>1, <2>2, <2>3, <2>4
<1>5. ASSUME NEW y \in M, y.slot <= e, y.req \in Request PROVE \E v \in V : v.req = y.req
  <2>1. PICK x \in L : x.slot = y.slot /\ x.req = y.req BY <1>3, <1>5
  <2> QED BY <1>5, <2>1 DEF Ran
<1> QED BY <1>4, <1>5 DEF Ran

\* A request ran once.
LEMMA RanOnce ==
    ASSUME NEW L \in SUBSET Record, NEW e, NEW V \in SUBSET Execution, Ran(L, e, V),
           NEW v \in V, NEW w \in V, v.req = w.req
    PROVE  v = w
<1>1. v.slot \in Int /\ w.slot \in Int BY BoundAssumption DEF Execution, Slot
<1>2. ~(v.slot < w.slot) /\ ~(w.slot < v.slot) BY DEF Ran
<1>3. v.slot = w.slot BY <1>1, <1>2
<1>4. \A x \in Execution : x = [req |-> x.req, slot |-> x.slot] BY DEF Execution
<1> QED BY <1>3, <1>4

\* The result of a request: what ran up to its slot.
LEMMA ResultOf ==
    ASSUME NEW L \in SUBSET Record, NEW e, NEW V \in SUBSET Execution, Ran(L, e, V), NEW v \in V
    PROVE  Reply(V, v.req) = [req |-> v.req, result |-> Before(V, v.slot)]
<1>1. \A w \in V : w.req = v.req => w = v BY RanOnce
<1>2. Result(V, v.req) = Before(V, v.slot) BY <1>1 DEF Result, Before
<1> QED BY <1>2 DEF Reply

-----------------------------------------------------------------------------
(***************************************************************************)
(* Every step executes what is decided, and answers with what was run.     *)
(***************************************************************************)
LEMMA AppliedRuns ==
    ASSUME TypeOK, NEW i \in Replica, NEW L, Apply(i, L), log'[i] = L
    PROVE  Runs(i)
<1>1. PICK m \in executed[i]..MaxSlot :
         LET X == Executions(L, executed[i], m, Done(i))
             V == values[i] \cup X
         IN  /\ executed' = [executed EXCEPT ![i] = m]
             /\ values' = [values EXCEPT ![i] = V]
             /\ replies' = replies \cup {Reply(V, r) : r \in proposals[i] \cap Reqs(X)}
  BY DEF Apply
<1>2. PICK X : X = Executions(L, executed[i], m, Done(i)) OBVIOUS
<1>3. PICK V : V = values[i] \cup X OBVIOUS
<1>4. /\ executed' = [executed EXCEPT ![i] = m]
      /\ values' = [values EXCEPT ![i] = V]
      /\ replies' = replies \cup {Reply(V, r) : r \in proposals[i] \cap Reqs(X)}
  BY <1>1, <1>2, <1>3
<1>5. /\ executed'[i] = m /\ values'[i] = V
      /\ \A k \in Replica : k # i => executed'[k] = executed[k] /\ values'[k] = values[k]
  BY <1>4 DEF TypeOK
<1>6. ASSUME NEW x \in replies', x \notin replies PROVE \E v \in X : x = Reply(V, v.req)
  <2>1. PICK r \in proposals[i] \cap Reqs(X) : x = Reply(V, r) BY <1>4, <1>6
  <2>2. PICK v \in X : r = v.req BY <2>1 DEF Reqs
  <2> QED BY <2>1, <2>2
<1>7. executed[i] \in Int /\ m \in Int
  <2>1. executed[i] \in -1..MaxSlot BY DEF TypeOK
  <2> QED BY <2>1, BoundAssumption
<1>8. CASE m = executed[i]
  <2>1. \A s : s \notin (executed[i] + 1)..m BY <1>7, <1>8
  <2>2. \A v : v \notin X BY <1>2, <2>1, InExecutions
  <2>3. V = values[i] BY <1>3, <2>2
  <2>4. replies' = replies BY <1>4, <1>6, <2>2
  <2> QED BY <1>5, <1>8, <2>3, <2>4 DEF Runs
<1>9. CASE m # executed[i]
  <2>1. m \in (executed[i] + 1)..MaxSlot BY <1>7, <1>9, BoundAssumption
  <2>2. replies \subseteq replies' BY <1>4
  <2>3. X = Executions(log'[i], executed[i], m, Done(i)) BY <1>2
  <2>4. values'[i] = values[i] \cup X BY <1>3, <1>5
  <2>5. \A x \in replies' : x \in replies \/ \E v \in X : x = Reply(values'[i], v.req)
    BY <1>5, <1>6
  <2>6. LET Y == Executions(log'[i], executed[i], m, Done(i))
        IN  /\ executed'[i] = m
            /\ values'[i] = values[i] \cup Y
            /\ replies \subseteq replies'
            /\ \A x \in replies' : x \in replies \/ \E v \in Y : x = Reply(values'[i], v.req)
    BY Zenon, <1>5, <2>2, <2>3, <2>4, <2>5
  <2> QED BY Zenon, <1>5, <2>1, <2>6 DEF Runs
<1> QED BY <1>8, <1>9

\* A step that leaves executions and replies alone.
LEMMA NothingRuns ==
    ASSUME NEW i \in Replica, UNCHANGED <<executed, values, replies>>
    PROVE  Runs(i)
BY DEF Runs

\* Counting a vote may decide slots, and so execute them.
LEMMA AckRuns ==
    ASSUME TypeOK, NEW i \in Replica, NEW j, NEW L, NEW S, CountAck(i, j, L, S)
    PROVE  Runs(i)
<1>1. PICK K : K = Decide(L, Wins(i, j, L, S)) OBVIOUS
<1>2. log' = [log EXCEPT ![i] = K] /\ Apply(i, K) BY <1>1 DEF CountAck
<1>3. log'[i] = K BY <1>2 DEF TypeOK
<1> QED BY <1>2, <1>3, AppliedRuns

\* A Commit decides slots, and so executes them.
LEMMA CommitRuns ==
    ASSUME TypeOK, NEW i \in Replica, NEW m \in msgs, ReceiveCommit(i, m)
    PROVE  Runs(i)
<1>1. PICK L : L = Install(log[i], m.recs) OBVIOUS
<1>2. PICK K : K = Decide(L, {r \in L : r.slot \in Slots(m.recs)}) OBVIOUS
<1>3. log' = [log EXCEPT ![i] = K] /\ Apply(i, K) BY <1>1, <1>2 DEF ReceiveCommit
<1>4. log'[i] = K BY <1>3 DEF TypeOK
<1> QED BY <1>3, <1>4, AppliedRuns

\* A replica answers at once what it has executed.
LEMMA AnswerRuns ==
    ASSUME TypeOK, NEW i \in Replica, NEW r \in Done(i), UNCHANGED <<executed, values>>,
           replies' = replies \cup {Reply(values[i], r)} \/ replies' = replies
    PROVE  Runs(i)
<1>1. PICK v \in values[i] : r = v.req BY DEF Done
<1> QED BY <1>1 DEF Runs

\* In every step one replica executes and answers at most.
LEMMA NextRuns ==
    ASSUME TypeOK, [Next]_vars
    PROVE  \E i \in Replica : Runs(i)
<1>1. CASE UNCHANGED <<executed, values, replies>>
  <2>1. 0 \in Replica BY NAssumption DEF Replica
  <2> QED BY <1>1, <2>1, NothingRuns
<1>2. ASSUME NEW i \in Replica, NEW r \in Request, Propose(i, r) PROVE \E k \in Replica : Runs(k)
  <2>1. CASE ProposeNew(i, r) BY <1>1, <1>2, <2>1 DEF ProposeNew, Propose, logVars
  <2>2. CASE ProposeExecuted(i, r)
    BY <1>2, <2>2, AnswerRuns DEF ProposeExecuted, Propose, logVars
  <2> QED BY <1>2, <2>1, <2>2 DEF Propose
<1>3. ASSUME NEW i \in Replica, NEW due \in BOOLEAN, TickLeader(i, due)
      PROVE  \E k \in Replica : Runs(k)
  <2>1. PICK L \in SUBSET Record : \E S : CountAck(i, i, L, S) BY <1>3, TickLeaderCounts
  <2>2. PICK S : CountAck(i, i, L, S) BY <2>1
  <2> QED BY <2>2, AckRuns
<1>4. ASSUME NEW i \in Replica, NEW m \in msgs, ReceiveForward(i, m)
      PROVE  \E k \in Replica : Runs(k)
  <2>1. UNCHANGED <<executed, values>> BY <1>4 DEF ReceiveForward, logVars
  <2>2. CASE m.req \in Done(i)
    <3>1. replies' = replies \cup {Reply(values[i], m.req)} \/ replies' = replies
      BY <1>4, <2>2 DEF ReceiveForward
    <3> QED BY <2>1, <2>2, <3>1, AnswerRuns
  <2>3. CASE m.req \notin Done(i)
    <3>1. replies' = replies BY <1>4, <2>3 DEF ReceiveForward
    <3> QED BY <1>1, <2>1, <3>1
  <2> QED BY <2>2, <2>3
<1>5. ASSUME NEW m \in msgs, Receive(m.to, m) PROVE \E k \in Replica : Runs(k)
  <2>1. m.to \in Replica BY PacketFields DEF TypeOK
  <2>2. PICK i \in Replica : i = m.to BY <2>1
  <2>3. CASE ReceiveAck(i, m)
    <3>1. CountAck(i, m.from, log[i], m.slots) BY <2>3 DEF ReceiveAck
    <3> QED BY <3>1, AckRuns
  <2>4. CASE ReceiveCommit(i, m) BY <2>4, CommitRuns
  <2>5. CASE ReceiveForward(i, m) BY <1>4, <2>5
  <2>6. \/ ReceiveAck(i, m) \/ ReceiveCommit(i, m) \/ ReceiveForward(i, m)
        \/ UNCHANGED <<executed, values, replies>>
    BY <1>5, <2>2
    DEF Receive, ReceivePrepare, CollectPromise, TakeOver, ReceiveAccept, ReceiveReady,
        ReceiveFetch, Ignore, logVars
  <2> QED BY <1>1, <2>3, <2>4, <2>5, <2>6
<1>6. \/ UNCHANGED <<executed, values, replies>>
      \/ \E i \in Replica, r \in Request : Propose(i, r)
      \/ \E i \in Replica, due \in BOOLEAN : TickLeader(i, due)
      \/ \E m \in msgs : Receive(m.to, m)
  BY DEF Next, TickBegin, TickPrepare, TickFollower, Lose, LinkDown, Crash, vars, logVars
<1> QED BY <1>1, <1>2, <1>3, <1>5, <1>6

\* What is answered was run.
LEMMA RunsAnswers ==
    ASSUME NEW i \in Replica, Runs(i)
    PROVE  /\ replies \subseteq replies'
           /\ \A x \in replies' :
                 x \in replies \/ \E v \in values'[i] : x = Reply(values'[i], v.req)
BY DEF Runs

\* So what was run goes on to be the history of the decided slots.
LEMMA HistoryStays ==
    ASSUME TypeOK, TypeOK', Shape, Shape', Safety, Advance, History,
           NEW i \in Replica, Runs(i)
    PROVE  History'
<1>1. ASSUME NEW k \in Replica PROVE Ran(log'[k], executed[k], values[k])
  <2>1. /\ log[k] \in SUBSET Record /\ log'[k] \in SUBSET Record /\ executed[k] \in -1..MaxSlot
        /\ Ran(log[k], executed[k], values[k])
    BY DEF TypeOK, History, Executed
  <2>2. /\ Functional(log[k]) /\ Functional(log'[k])
        /\ \A s \in 0..executed[k] : Decided(log[k], s)
    BY DEF Shape, LogShape, Functional
  <2>3. \A r \in log[k] : r.committed => \E q \in log'[k] : q.slot = r.slot /\ q.req = r.req
    BY CommittedKept
  <2> QED BY <2>1, <2>2, <2>3, RanKept
<1>2. ASSUME NEW k \in Replica
      PROVE  /\ Ran(log'[k], executed'[k], values'[k])
             /\ \A v \in values[k] : v \in values'[k]
             /\ \A v \in values'[k] : v \in values[k] \/ v.slot > executed[k]
  <2>1. CASE executed'[k] = executed[k] /\ values'[k] = values[k] BY <1>1, <2>1
  <2>2. CASE k = i /\ ~(executed'[i] = executed[i] /\ values'[i] = values[i])
    <3>1. PICK m \in (executed[i] + 1)..MaxSlot :
             /\ executed'[i] = m
             /\ values'[i] = values[i] \cup Executions(log'[i], executed[i], m, Done(i))
      BY <2>2 DEF Runs
    <3>2. PICK X : X = Executions(log'[i], executed[i], m, Done(i)) OBVIOUS
    <3>3. log'[i] \in SUBSET Record /\ executed[i] \in -1..MaxSlot BY DEF TypeOK
    <3>4. Done(i) = {v.req : v \in values[i]} BY DEF Done
    <3>5. Ran(log'[i], m, values[i] \cup X)
      <4>1. m \in executed[i]..MaxSlot BY <3>1, <3>3, BoundAssumption
      <4> QED BY <1>1, <3>2, <3>3, <3>4, <4>1, RanFurther
    <3>6. \A v \in X : v.slot > executed[i]
      <4> TAKE v \in X
      <4>1. PICK q \in log'[i] : /\ v = [req |-> q.req, slot |-> q.slot]
                                 /\ q.slot \in (executed[i] + 1)..m
        BY <3>2, InExecutions
      <4> QED BY <3>3, <4>1
    <3> QED BY <2>2, <3>1, <3>2, <3>5, <3>6
  <2> QED BY <2>1, <2>2 DEF Runs
<1>3. Executed' BY <1>2 DEF Executed
<1>4. ASSUME NEW x \in replies'
      PROVE  \E k \in Replica : \E v \in values'[k] :
                v.req = x.req /\ x.result = Before(values'[k], v.slot)
  <2>1. CASE x \in replies
    <3>1. PICK k \in Replica : \E v \in values[k] :
             v.req = x.req /\ x.result = Before(values[k], v.slot)
      BY <2>1 DEF History, Told
    <3>2. PICK v \in values[k] : v.req = x.req /\ x.result = Before(values[k], v.slot)
      BY <3>1
    <3>3. v.slot <= executed[k] BY DEF History, Executed, Ran
    <3>4. /\ values[k] \in SUBSET Execution /\ values'[k] \in SUBSET Execution
          /\ executed[k] \in Int
      <4>1. executed[k] \in -1..MaxSlot BY DEF TypeOK
      <4>2. values[k] \in SUBSET Execution BY DEF TypeOK
      <4>3. values'[k] \in SUBSET Execution BY DEF TypeOK
      <4> QED BY <4>1, <4>2, <4>3, BoundAssumption
    <3>5. \A w \in values'[k] : w.slot \in Int BY <3>4, BoundAssumption DEF Execution, Slot
    <3>6. v \in values'[k] BY <1>2
    <3>7. Before(values'[k], v.slot) = Before(values[k], v.slot)
      BY <1>2, <3>3, <3>4, <3>5, <3>6 DEF Before
    <3> QED BY <3>2, <3>6, <3>7
  <2>2. CASE \E v \in values'[i] : x = Reply(values'[i], v.req)
    <3>1. PICK v \in values'[i] : x = Reply(values'[i], v.req) BY <2>2
    <3>2. log'[i] \in SUBSET Record /\ values'[i] \in SUBSET Execution BY DEF TypeOK
    <3>3. x = [req |-> v.req, result |-> Before(values'[i], v.slot)]
      BY <1>2, <3>1, <3>2, ResultOf
    <3> QED BY <3>1, <3>3
  <2> QED BY <2>1, <2>2, RunsAnswers
<1>5. Told' BY <1>4 DEF Told
<1> QED BY <1>3, <1>5 DEF History

-----------------------------------------------------------------------------
(***************************************************************************)
(* Histories of two replicas agree as far as both go.                      *)
(***************************************************************************)
LEMMA SamePast ==
    ASSUME TypeOK, Shape, Agreement, History, NEW i \in Replica, NEW j \in Replica,
           NEW t \in Int, t <= executed[i], t <= executed[j]
    PROVE  Before(values[i], t) \subseteq Before(values[j], t)
<1>1. /\ Ran(log[i], executed[i], values[i]) /\ Ran(log[j], executed[j], values[j])
      /\ log[i] \in SUBSET Record /\ log[j] \in SUBSET Record
      /\ values[i] \in SUBSET Execution /\ values[j] \in SUBSET Execution
      /\ Functional(log[i]) /\ Functional(log[j])
      /\ \A s \in 0..executed[i] : Decided(log[i], s)
      /\ \A s \in 0..executed[j] : Decided(log[j], s)
  BY DEF TypeOK, History, Executed, Shape, LogShape, Functional
<1>2. executed[i] \in Int /\ executed[j] \in Int
  <2>1. executed[i] \in -1..MaxSlot /\ executed[j] \in -1..MaxSlot BY DEF TypeOK
  <2> QED BY <2>1, BoundAssumption
<1>3. /\ \A x \in log[i] \cup log[j] : x.slot \in Nat
      /\ \A v \in values[i] \cup values[j] : v.slot \in Nat
  BY <1>1, BoundAssumption DEF Record, Execution, Slot
<1>4. ASSUME NEW s \in 0..t
      PROVE  \E y \in log[i], z \in log[j] : y.slot = s /\ z.slot = s /\ y.req = z.req
  <2>1. s \in 0..executed[i] /\ s \in 0..executed[j] BY <1>2, <1>4
  <2>2. PICK y \in log[i] : y.slot = s /\ y.committed BY <1>1, <2>1 DEF Decided
  <2>3. PICK z \in log[j] : z.slot = s /\ z.committed BY <1>1, <2>1 DEF Decided
  <2>4. y.req = z.req BY <2>2, <2>3 DEF Agreement
  <2> QED BY <2>2, <2>3, <2>4
<1>5. ASSUME NEW s \in 0..t, NEW x \in log[i], NEW z \in log[j], x.slot = s, z.slot = s
      PROVE  x.req = z.req
  BY <1>1, <1>4, <1>5 DEF Functional
<1> SUFFICES ASSUME NEW w \in values[i], w.slot <= t PROVE w \in values[j] BY DEF Before
<1>6. PICK y \in log[i] : y.slot = w.slot /\ y.req = w.req BY <1>1 DEF Ran
<1>7. w.slot \in 0..t BY <1>3
<1>8. PICK z \in log[j] : z.slot = w.slot BY <1>4, <1>7
<1>9. z.req = w.req BY <1>5, <1>6, <1>7, <1>8
<1>10. w.req \in Request BY <1>1 DEF Ran
<1>11. z.slot <= executed[j] BY <1>2, <1>3, <1>7, <1>8
<1>12. PICK v \in values[j] : v.req = z.req BY <1>1, <1>9, <1>10, <1>11 DEF Ran
<1>13. ~(w.slot < v.slot)
  <2>1. \A p \in log[j] : p.slot < v.slot => p.req # v.req BY <1>1 DEF Ran
  <2> QED BY <1>8, <1>12, <2>1
<1>14. ~(v.slot < w.slot)
  <2> SUFFICES ASSUME v.slot < w.slot PROVE FALSE OBVIOUS
  <2>1. v.slot \in 0..t BY <1>3, <1>7
  <2>2. PICK p \in log[i], q \in log[j] : p.slot = v.slot /\ q.slot = v.slot /\ p.req = q.req
    BY <1>4, <2>1
  <2>3. PICK u \in log[j] : u.slot = v.slot /\ u.req = v.req BY <1>1 DEF Ran
  <2>4. p.req = w.req BY <1>5, <1>9, <1>12, <2>1, <2>2, <2>3
  <2> QED BY <1>1, <2>2, <2>4 DEF Ran
<1>15. v.slot = w.slot BY <1>3, <1>13, <1>14
<1>16. \A x \in Execution : x = [req |-> x.req, slot |-> x.slot] BY DEF Execution
<1>17. v \in Execution /\ w \in Execution BY <1>1
<1>18. v = w BY <1>9, <1>12, <1>15, <1>16, <1>17
<1> QED BY <1>18

\* Any two results are parts of one history.
LEMMA HistoriesAgree ==
    ASSUME TypeOK, Shape, Agreement, History, NEW x \in replies, NEW y \in replies
    PROVE  /\ x.result \subseteq y.result \/ y.result \subseteq x.result
           /\ x.req = y.req => x.result = y.result
<1>1. PICK i \in Replica : \E v \in values[i] :
         v.req = x.req /\ x.result = Before(values[i], v.slot)
  BY DEF History, Told
<1>2. PICK v \in values[i] : v.req = x.req /\ x.result = Before(values[i], v.slot) BY <1>1
<1>3. PICK j \in Replica : \E w \in values[j] :
         w.req = y.req /\ y.result = Before(values[j], w.slot)
  BY DEF History, Told
<1>4. PICK w \in values[j] : w.req = y.req /\ y.result = Before(values[j], w.slot) BY <1>3
<1>5. /\ Ran(log[i], executed[i], values[i]) /\ Ran(log[j], executed[j], values[j])
      /\ log[i] \in SUBSET Record /\ log[j] \in SUBSET Record
      /\ values[i] \in SUBSET Execution /\ values[j] \in SUBSET Execution
      /\ executed[i] \in -1..MaxSlot /\ executed[j] \in -1..MaxSlot
  BY DEF TypeOK, History, Executed
<1>6. /\ executed[i] \in Int /\ executed[j] \in Int
      /\ v.slot \in Int /\ w.slot \in Int /\ v.slot <= executed[i] /\ w.slot <= executed[j]
  BY <1>5, BoundAssumption DEF Ran, Execution, Slot
<1>7. \A u \in values[i] \cup values[j] : u.slot \in Int
  BY <1>5, BoundAssumption DEF Execution, Slot
<1>8. CASE v.slot <= w.slot
  <2>1. v.slot <= executed[j] BY <1>6, <1>8
  <2>2. /\ Before(values[i], v.slot) \subseteq Before(values[j], v.slot)
        /\ Before(values[j], v.slot) \subseteq Before(values[i], v.slot)
    BY <1>6, <2>1, SamePast
  <2>3. Before(values[j], v.slot) \subseteq Before(values[j], w.slot)
    BY <1>6, <1>7, <1>8 DEF Before
  <2>4. ASSUME x.req = y.req PROVE x.result = y.result
    <3>1. v \in Before(values[i], v.slot) BY <1>6 DEF Before
    <3>2. v \in values[j] BY <2>2, <3>1 DEF Before
    <3>3. v = w BY <1>2, <1>4, <1>5, <2>4, <3>2, RanOnce
    <3> QED BY <1>2, <1>4, <2>2, <3>3
  <2> QED BY <1>2, <1>4, <2>2, <2>3, <2>4
<1>9. CASE w.slot <= v.slot
  <2>1. w.slot <= executed[i] BY <1>6, <1>9
  <2>2. /\ Before(values[i], w.slot) \subseteq Before(values[j], w.slot)
        /\ Before(values[j], w.slot) \subseteq Before(values[i], w.slot)
    BY <1>6, <2>1, SamePast
  <2>3. Before(values[i], w.slot) \subseteq Before(values[i], v.slot)
    BY <1>6, <1>7, <1>9 DEF Before
  <2>4. ASSUME x.req = y.req PROVE x.result = y.result
    <3>1. w \in Before(values[j], w.slot) BY <1>6 DEF Before
    <3>2. w \in values[i] BY <2>2, <3>1 DEF Before
    <3>3. v = w BY <1>2, <1>4, <1>5, <2>4, <3>2, RanOnce
    <3> QED BY <1>2, <1>4, <2>2, <3>3
  <2> QED BY <1>2, <1>4, <2>2, <2>3, <2>4
<1> QED BY <1>6, <1>8, <1>9

\* History is inductive.
LEMMA InitHistory == Init => History
BY DEF Init, History, Executed, Told, Ran

LEMMA NextHistory ==
    TypeOK /\ Shape /\ Safety /\ History /\ [Next]_vars => History'
<1> SUFFICES ASSUME TypeOK, Shape, Safety, History, [Next]_vars PROVE History' OBVIOUS
<1>1. TypeOK' BY TypeNext
<1>2. Shape' /\ Advance BY <1>1, NextAdvances
<1>3. PICK i \in Replica : Runs(i) BY NextRuns
<1> QED BY <1>1, <1>2, <1>3, HistoryStays

\* What a replica has executed is the history of the slots it has decided, and
\* every result sent is a part of it.
THEOREM HistoryInvariant == Spec => []History
<1>1. Init => History BY InitHistory
<1>2. TypeOK /\ Shape /\ Safety /\ History /\ [Next]_vars => History' BY NextHistory
<1> QED BY <1>1, <1>2, TypeCorrect, SafetyInvariant, PTL DEF Spec

\* The results sent to clients, by whichever replica and however often, come
\* from one history.
THEOREM AllSeeOneHistory == Spec => []OneHistory
<1>1. TypeOK /\ Shape /\ Agreement /\ History => OneHistory
  BY HistoriesAgree DEF OneHistory
<1> QED BY <1>1, TypeCorrect, SafetyInvariant, PaxosAgreement, HistoryInvariant, PTL

-----------------------------------------------------------------------------
(***************************************************************************)
(* Paxos implements DecidedLog.                                            *)
(***************************************************************************)
LEMMA InDecisions ==
    ASSUME NEW s \in Slot, NEW v \in Command
    PROVE  <<s, v>> \in Decisions <=> \E b \in Ballot, Q \in Quorum : Lock(s, v, b, Q)
BY DEF Decisions

\* What a decision is.
LEMMA DecisionIsLocked ==
    ASSUME NEW d \in Decisions
    PROVE  /\ d = <<d[1], d[2]>> /\ d[1] \in Slot /\ d[2] \in Command
           /\ \E b \in Ballot, Q \in Quorum : Lock(d[1], d[2], b, Q)
BY DEF Decisions

\* A slot is decided once.
LEMMA DecidedOnce ==
    ASSUME TypeOK, NEW d \in Decisions, NEW x \in Decisions, d[1] = x[1]
    PROVE  d = x
<1>1. /\ d = <<d[1], d[2]>> /\ d[1] \in Slot
      /\ \E b \in Ballot, Q \in Quorum : Lock(d[1], d[2], b, Q)
  BY DecisionIsLocked
<1>2. /\ x = <<x[1], x[2]>> /\ x[1] \in Slot
      /\ \E b \in Ballot, Q \in Quorum : Lock(x[1], x[2], b, Q)
  BY DecisionIsLocked
<1>3. PICK b \in Ballot, P \in Quorum : Lock(d[1], d[2], b, P) BY <1>1
<1>4. PICK c \in Ballot, Q \in Quorum : Lock(d[1], x[2], c, Q) BY <1>2
<1>5. d[2] = x[2] BY <1>1, <1>3, <1>4, LocksAgree
<1> QED BY <1>1, <1>2, <1>5

\* The same for the next state.
LEMMA LocksAgreeNext ==
    ASSUME TypeOK', NEW s \in Slot, NEW v, NEW w, NEW b \in Ballot, NEW c \in Ballot, b <= c,
           NEW P \in Quorum, NEW Q \in Quorum, Lock(s, v, b, P)', Lock(s, w, c, Q)'
    PROVE  v = w
<1>1. PICK q \in Q : TRUE BY QuorumsMeet
<1>2. q \in Replica BY DEF Quorum
<1>3. PICK y \in log'[q] : y.slot = s /\ y.ballot >= c BY DEF Lock
<1>4. y \in Known' BY <1>2, InKnownNext
<1>5. y \in Record BY <1>4, KnownTypeNext
<1>6. y.ballot \in Nat /\ b \in Nat /\ c \in Nat BY <1>5, BallotNat DEF Record
<1>7. y.ballot >= b BY <1>3, <1>6
<1>8. y.req = v BY <1>3, <1>4, <1>7 DEF Lock
<1>9. y.req = w BY <1>3, <1>4 DEF Lock
<1> QED BY <1>8, <1>9

\* A slot is decided once in the next state too.
LEMMA DecidedOnceNext ==
    ASSUME TypeOK', NEW d \in Decisions', NEW x \in Decisions', d[1] = x[1]
    PROVE  d = x
<1>1. /\ d = <<d[1], d[2]>> /\ d[1] \in Slot
      /\ \E b \in Ballot, Q \in Quorum : Lock(d[1], d[2], b, Q)'
  BY DEF Decisions
<1>2. /\ x = <<x[1], x[2]>> /\ x[1] \in Slot
      /\ \E b \in Ballot, Q \in Quorum : Lock(x[1], x[2], b, Q)'
  BY DEF Decisions
<1>3. PICK b \in Ballot, P \in Quorum : Lock(d[1], d[2], b, P)' BY <1>1
<1>4. PICK c \in Ballot, Q \in Quorum : Lock(d[1], x[2], c, Q)' BY <1>2
<1>5. b \in Nat /\ c \in Nat BY BallotNat
<1>6. CASE b <= c
  <2>1. d[2] = x[2] BY <1>1, <1>3, <1>4, <1>6, LocksAgreeNext
  <2> QED BY <1>1, <1>2, <2>1
<1>7. CASE c <= b
  <2>1. d[2] = x[2] BY <1>1, <1>3, <1>4, <1>7, LocksAgreeNext
  <2> QED BY <1>1, <1>2, <2>1
<1> QED BY <1>5, <1>6, <1>7

\* What is decided stays decided.
LEMMA DecisionsStay ==
    ASSUME TypeOK, TypeOK', Safety, Shape', Advance
    PROVE  Decisions \subseteq Decisions'
<1> SUFFICES ASSUME NEW d \in Decisions PROVE d \in Decisions' OBVIOUS
<1>1. /\ d \in Slot \X Command /\ d[1] \in Slot /\ d[2] \in Command
      /\ \E b \in Ballot, Q \in Quorum : Lock(d[1], d[2], b, Q)
  BY DEF Decisions
<1>2. PICK b \in Ballot, Q \in Quorum : Lock(d[1], d[2], b, Q) BY <1>1
<1>3. Lock(d[1], d[2], b, Q)' BY <1>1, <1>2, LockStays
<1> QED BY <1>1, <1>3 DEF Decisions

\* Executions and decisions.  D decides the slots of L up to e, and nothing
\* else in these slots.
Decides(D, L, e) ==
    \A s \in 0..e : \A c : <<s, c>> \in D <=> \E y \in L : y.slot = s /\ y.req = c

\* A request ran where it was decided first.
LEMMA FirstRan ==
    ASSUME NEW L \in SUBSET Record, NEW e \in -1..MaxSlot, NEW V \in SUBSET Execution,
           Ran(L, e, V), NEW D, Decides(D, L, e), NEW r \in Request, NEW s \in 0..e
    PROVE  OneLog!First(D, r, s) <=> [req |-> r, slot |-> s] \in V
<1>1. /\ e \in Int /\ s \in Nat /\ s <= e
      /\ \A y \in L : y.slot \in Nat
      /\ \A v \in V : v.slot \in Nat
  BY BoundAssumption DEF Record, Execution, Slot
<1>2. \A v \in V : v = [req |-> v.req, slot |-> v.slot] BY DEF Execution
<1>3. ASSUME OneLog!First(D, r, s) PROVE [req |-> r, slot |-> s] \in V
  <2>1. <<s, r>> \in D /\ \A t \in 0..(s - 1) : <<t, r>> \notin D BY <1>3 DEF OneLog!First
  <2>2. PICK y \in L : y.slot = s /\ y.req = r BY <2>1 DEF Decides
  <2>3. PICK v \in V : v.req = r BY <1>1, <2>2 DEF Ran
  <2>4. PICK z \in L : z.slot = v.slot /\ z.req = v.req BY DEF Ran
  <2>5. v.slot <= e /\ ~(y.slot < v.slot) BY <2>2, <2>3 DEF Ran
  <2>6. ~(v.slot < s)
    <3> SUFFICES ASSUME v.slot < s PROVE FALSE OBVIOUS
    <3>1. v.slot \in 0..(s - 1) /\ v.slot \in 0..e BY <1>1, <2>5
    <3>2. <<v.slot, r>> \in D BY <2>3, <2>4, <3>1 DEF Decides
    <3> QED BY <2>1, <3>1, <3>2
  <2>7. v.slot = s BY <1>1, <2>2, <2>5, <2>6
  <2> QED BY <1>2, <2>3, <2>7
<1>4. ASSUME [req |-> r, slot |-> s] \in V PROVE OneLog!First(D, r, s)
  <2>1. PICK v \in V : v.req = r /\ v.slot = s BY <1>4
  <2>2. \E y \in L : y.slot = s /\ y.req = r BY <2>1 DEF Ran
  <2>3. <<s, r>> \in D BY <2>2 DEF Decides
  <2>4. ASSUME NEW t \in 0..(s - 1), <<t, r>> \in D PROVE FALSE
    <3>1. t \in 0..e /\ t < s BY <1>1
    <3>2. PICK y \in L : y.slot = t /\ y.req = r BY <2>4, <3>1 DEF Decides
    <3> QED BY <2>1, <3>1, <3>2 DEF Ran
  <2> QED BY <2>3, <2>4 DEF OneLog!First
<1> QED BY <1>3, <1>4

\* The history of the log is what was run.
LEMMA HistoryRan ==
    ASSUME NEW L \in SUBSET Record, NEW e \in -1..MaxSlot, NEW V \in SUBSET Execution,
           Ran(L, e, V), NEW D, Decides(D, L, e), NEW t \in 0..e
    PROVE  OneLog!History(D, t) = Before(V, t)
<1>1. /\ e \in Int /\ t \in Nat /\ t <= e
      /\ \A v \in V : v.slot \in Nat /\ v.req \in Request
      /\ \A v \in V : v = [req |-> v.req, slot |-> v.slot]
  BY BoundAssumption DEF Execution, Slot
<1>2. ASSUME NEW h \in OneLog!History(D, t) PROVE h \in Before(V, t)
  <2>1. PICK x \in Request \X (0..t) :
           OneLog!First(D, x[1], x[2]) /\ h = [req |-> x[1], slot |-> x[2]]
    BY <1>2 DEF OneLog!History
  <2>2. PICK r \in Request, s \in 0..t : r = x[1] /\ s = x[2] BY <2>1
  <2>3. s \in 0..e /\ s <= t BY <1>1
  <2>4. h = [req |-> r, slot |-> s] /\ h.slot = s BY <2>1, <2>2
  <2>5. OneLog!First(D, r, s) BY <2>1, <2>2
  <2>6. h \in V BY <2>3, <2>4, <2>5, FirstRan
  <2> QED BY <2>3, <2>4, <2>6 DEF Before
<1>3. ASSUME NEW h \in Before(V, t) PROVE h \in OneLog!History(D, t)
  <2>1. h \in V /\ h.slot <= t BY <1>3 DEF Before
  <2>2. h.req \in Request /\ h.slot \in 0..t /\ h.slot \in 0..e BY <1>1, <2>1
  <2>3. h = [req |-> h.req, slot |-> h.slot] BY <1>1, <2>1
  <2>4. OneLog!First(D, h.req, h.slot) BY <2>1, <2>2, <2>3, FirstRan
  <2>5. PICK x \in Request \X (0..t) : x[1] = h.req /\ x[2] = h.slot
    <3>1. <<h.req, h.slot>> \in Request \X (0..t) BY <2>2
    <3> QED BY <3>1
  <2>6. OneLog!First(D, x[1], x[2]) /\ h = [req |-> x[1], slot |-> x[2]] BY <2>3, <2>4, <2>5
  <2> QED BY <2>6 DEF OneLog!History
<1> QED BY <1>2, <1>3

\* The answer to a request that was run.
LEMMA AnswerRan ==
    ASSUME NEW L \in SUBSET Record, NEW e \in -1..MaxSlot, NEW V \in SUBSET Execution,
           Ran(L, e, V), NEW D, Decides(D, L, e), NEW v \in V, NEW S, v.slot \in S
    PROVE  Reply(V, v.req) \in OneLog!Answers(D, S)
<1>1. e \in Int /\ v.slot \in Nat /\ v.req \in Request /\ v.slot <= e
      /\ v = [req |-> v.req, slot |-> v.slot]
  BY BoundAssumption DEF Execution, Slot, Ran
<1>2. v.slot \in 0..e BY <1>1
<1>3. OneLog!First(D, v.req, v.slot) BY <1>1, <1>2, FirstRan
<1>4. OneLog!History(D, v.slot) = Before(V, v.slot) BY <1>2, HistoryRan
<1>5. Reply(V, v.req) = [req |-> v.req, result |-> OneLog!History(D, v.slot)]
  BY <1>4, ResultOf
<1>6. PICK x \in Request \X S : x[1] = v.req /\ x[2] = v.slot
  <2>1. <<v.req, v.slot>> \in Request \X S BY <1>1
  <2> QED BY <2>1
<1> QED BY <1>3, <1>5, <1>6 DEF OneLog!Answers

\* The slots that a replica has executed are decided, with what its log holds.
LEMMA ExecutedDecided ==
    ASSUME TypeOK, TypeOK', Safety, Shape, Shape', Advance, NEW i \in Replica
    PROVE  /\ Decides(Decisions, log'[i], executed'[i])
           /\ \A s \in 0..executed'[i] : \E c \in Command : <<s, c>> \in Decisions
<1>1. /\ log'[i] \in SUBSET Record /\ executed'[i] \in -1..MaxSlot
      /\ Functional(log'[i])
      /\ \A s \in 0..executed'[i] : Decided(log'[i], s)
  BY DEF TypeOK, Shape, LogShape, Functional
<1>2. ASSUME NEW s \in 0..executed'[i]
      PROVE  \E y \in log'[i] : y.slot = s /\ y.req \in Command /\ <<s, y.req>> \in Decisions
  <2>1. PICK y \in log'[i] : y.slot = s /\ y.committed BY <1>1 DEF Decided
  <2>2. y \in Known' BY InKnownNext
  <2>3. PICK b \in Ballot, Q \in Quorum : b <= y.ballot /\ Lock(y.slot, y.req, b, Q)
    BY <2>1, <2>2, DecisionLocked
  <2>4. y.slot \in Slot /\ y.req \in Command BY <1>1 DEF Record
  <2>5. <<s, y.req>> \in Decisions BY <2>1, <2>3, <2>4, InDecisions
  <2> QED BY <2>1, <2>4, <2>5
<1>3. ASSUME NEW s \in 0..executed'[i], NEW c
      PROVE  <<s, c>> \in Decisions <=> \E y \in log'[i] : y.slot = s /\ y.req = c
  <2>1. PICK y \in log'[i] : y.slot = s /\ <<s, y.req>> \in Decisions BY <1>2
  <2>2. ASSUME <<s, c>> \in Decisions PROVE c = y.req
    <3>1. <<s, c>> = <<s, y.req>>
      <4>1. <<s, c>>[1] = <<s, y.req>>[1] OBVIOUS
      <4> QED BY <2>1, <2>2, <4>1, DecidedOnce
    <3> QED BY <3>1
  <2>3. ASSUME NEW z \in log'[i], z.slot = s PROVE z = y BY <1>1, <2>1, <2>3 DEF Functional
  <2> QED BY <2>1, <2>2, <2>3
<1>4. Decides(Decisions, log'[i], executed'[i]) BY <1>3 DEF Decides
<1> QED BY <1>2, <1>4

\* What replica i executes and answers in a step, in terms of the decisions.
LEMMA RunsServe ==
    ASSUME TypeOK, TypeOK', Safety, Shape, Shape', Advance, History', NEW i \in Replica, Runs(i)
    PROVE  OneLog!Execute(i)
<1>1. /\ log'[i] \in SUBSET Record /\ executed'[i] \in -1..MaxSlot
      /\ values'[i] \in SUBSET Execution
      /\ Ran(log'[i], executed'[i], values'[i])
  BY DEF TypeOK, History, Executed
<1>2. /\ Decides(Decisions, log'[i], executed'[i])
      /\ \A s \in 0..executed'[i] : \E c \in Command : <<s, c>> \in Decisions
  BY ExecutedDecided
<1>3. ASSUME NEW v \in values'[i]
      PROVE  Reply(values'[i], v.req) \in OneLog!Answers(Decisions, 0..executed'[i])
  <2>1. v.slot \in 0..executed'[i] BY <1>1, BoundAssumption DEF Execution, Slot, Ran
  <2> QED BY <1>1, <1>2, <2>1, AnswerRan
<1>4. /\ executed \in [Replica -> -1..MaxSlot] /\ executed' \in [Replica -> -1..MaxSlot]
      /\ executed[i] \in -1..MaxSlot
  BY DEF TypeOK
<1>5. executed'[i] \in executed[i]..MaxSlot /\ replies \subseteq replies'
  <2>1. executed[i] \in executed[i]..MaxSlot BY <1>4, BoundAssumption
  <2>2. \A m \in (executed[i] + 1)..MaxSlot : m \in executed[i]..MaxSlot
    BY <1>4, BoundAssumption
  <2> QED BY <2>1, <2>2 DEF Runs
<1>6. ASSUME NEW x \in replies', x \notin replies
      PROVE  x \in OneLog!Answers(Decisions, 0..executed'[i])
  BY <1>3, <1>6, RunsAnswers
<1>7. executed' = [executed EXCEPT ![i] = executed'[i]]
  <2>1. \A k \in Replica : k # i => executed'[k] = executed[k] BY DEF Runs
  <2> QED BY <1>4, <2>1
<1>8. \A s \in 0..executed'[i] : \E c \in OneLog!Command : <<s, c>> \in Decisions
  BY <1>2 DEF Command, OneLog!Command
<1>9. \E A \in SUBSET OneLog!Answers(Decisions, 0..executed'[i]) : replies' = replies \cup A
  <2> DEFINE A == replies' \ replies
  <2>1. A \subseteq OneLog!Answers(Decisions, 0..executed'[i]) BY <1>6
  <2>2. replies' = replies \cup A BY <1>5
  <2> QED BY <2>1, <2>2
<1> QED BY <1>5, <1>7, <1>8, <1>9 DEF OneLog!Execute

\* Nothing is decided in the beginning.
LEMMA InitServes ==
    Init => OneLog!Init
<1> SUFFICES ASSUME Init PROVE OneLog!Init OBVIOUS
<1>1. Decisions = {}
  <2> SUFFICES ASSUME NEW d \in Decisions PROVE FALSE OBVIOUS
  <2>1. PICK b \in Ballot, Q \in Quorum : Lock(d[1], d[2], b, Q) BY DecisionIsLocked
  <2>2. PICK q \in Q : TRUE BY QuorumsMeet
  <2>3. q \in Replica BY DEF Quorum
  <2>4. \E y \in log[q] : y.slot = d[1] BY <2>1 DEF Lock
  <2> QED BY <2>3, <2>4 DEF Init
<1> QED BY <1>1 DEF Init, OneLog!Init

\* Every step decides what it locks for good, and serves what was decided.
LEMMA NextServes ==
    TypeOK /\ Shape /\ Safety /\ History /\ [Next]_vars =>
        [OneLog!Next]_<<Decisions, executed, replies>>
<1> SUFFICES ASSUME TypeOK, Shape, Safety, History, [Next]_vars PROVE OneLog!Next OBVIOUS
<1>1. TypeOK' BY TypeNext
<1>2. Shape' /\ Advance BY <1>1, NextAdvances
<1>3. History' BY NextHistory
<1>4. PICK i \in Replica : Runs(i) BY NextRuns
<1>5. Decisions \subseteq Decisions' BY <1>1, <1>2, DecisionsStay
<1>6. \A d \in Decisions', x \in Decisions' : d[1] = x[1] => d = x
  BY <1>1, DecidedOnceNext
<1>7. Decisions' \in SUBSET (OneLog!Slot \X OneLog!Command)
  BY DEF Decisions, Slot, Command, OneLog!Slot, OneLog!Command
<1>8. PICK D \in SUBSET (OneLog!Slot \X OneLog!Command) : D = Decisions' BY <1>7
<1>9. OneLog!Decide(D) BY <1>5, <1>6, <1>8 DEF OneLog!Decide
<1>10. OneLog!Execute(i) BY <1>1, <1>2, <1>3, <1>4, RunsServe
<1> QED BY <1>9, <1>10 DEF OneLog!Next

\* The replicas serve one replicated log: slots are decided once and for all,
\* executed in order by every replica, each request takes effect once, and what
\* a client is told is the result of that execution.
THEOREM ServesOneLog == Spec => OneLog!Spec
<1>1. Init => OneLog!Init BY InitServes
<1>2. TypeOK /\ Shape /\ Safety /\ History /\ [Next]_vars =>
         [OneLog!Next]_<<Decisions, executed, replies>>
  BY NextServes
<1> QED BY <1>1, <1>2, TypeCorrect, SafetyInvariant, HistoryInvariant, PTL DEF Spec, OneLog!Spec
=============================================================================
