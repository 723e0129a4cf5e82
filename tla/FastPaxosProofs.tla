-------------------------- MODULE FastPaxosProofs --------------------------
(***************************************************************************)
(* Theorems about FastPaxos, for every odd number of replicas, every finite*)
(* set of requests, every environment and all values of the bounds: its    *)
(* types and, from the line "How a step moves" on, what a step may do to the*)
(* state that safety depends on.  Each part of Moves says how some variables*)
(* may change; a lemma for each action shows that it moves that way.       *)
(* FastPaxosTheorems reads only the moves.                                 *)
(***************************************************************************)
EXTENDS FastPaxosInvariant, FiniteSetTheorems, SequenceTheorems, WellFoundedInduction,
        TLAPS

-----------------------------------------------------------------------------
(***************************************************************************)
(* Arithmetic.                                                             *)
(***************************************************************************)
\* A set of naturals has a least element.
LEMMA Smallest ==
    ASSUME NEW T \in SUBSET Nat, T # {}
    PROVE  \E x \in T : \A y \in T : x <= y
<1> DEFINE R == {p \in Nat \X Nat : p[1] < p[2]}
<1>1. IsWellFoundedOn(R, Nat) BY NatLessThanWellFounded DEF OpToRel
<1>2. PICK x \in T : \A y \in T : ~ (<<y, x>> \in R) BY <1>1, WFMin
<1>3. \A y \in T : x <= y
  <2> TAKE y \in T
  <2>1. x \in Nat /\ y \in Nat OBVIOUS
  <2>2. ~(y < x) BY <1>2, <2>1
  <2> QED BY <2>1, <2>2
<1> QED BY <1>3

\* A set of integers with an upper bound has a greatest element.
LEMMA Greatest ==
    ASSUME NEW h \in Int, NEW H \in SUBSET Int, H # {}, \A x \in H : x <= h
    PROVE  \E x \in H : \A y \in H : y <= x
<1> DEFINE T == {n \in Nat : h - n \in H}
<1>1. PICK y \in H : TRUE OBVIOUS
<1>2. h - y \in T
  <2>1. h - y \in Nat /\ h - (h - y) = y OBVIOUS
  <2> QED BY <2>1
<1>3. PICK n \in T : \A k \in T : n <= k BY <1>2, Smallest
<1>4. ASSUME NEW x \in H PROVE x <= h - n
  <2>1. h - x \in Nat /\ h - (h - x) = x OBVIOUS
  <2>2. n <= h - x BY <1>3, <2>1
  <2> QED BY <2>2
<1> QED BY <1>3, <1>4

\* The size of a finite set is a natural number.
LEMMA CardNat == ASSUME NEW S, IsFiniteSet(S) PROVE Cardinality(S) \in Nat
BY FS_CardinalityType

\* How many numbers there are from a to b.
LEMMA IntervalSize ==
    ASSUME NEW a \in Int, NEW b \in Int
    PROVE  /\ IsFiniteSet(a..b)
           /\ Cardinality(a..b) = IF a > b THEN 0 ELSE b - a + 1
BY FS_Interval

-----------------------------------------------------------------------------
(***************************************************************************)
(* Types of packets and entries.                                           *)
(***************************************************************************)
\* Every packet constructor yields a packet.
LEMMA PacketTypes ==
    ASSUME NEW i \in Replica, NEW j \in Replica
    PROVE  /\ \A s \in Slot, v \in Request : Vote(i, j, s, v) \in Packet
           /\ \A e \in Epoch, st \in 0..(MaxSlot + 1) : Prepare(i, j, e, st) \in Packet
           /\ \A e \in Epoch, s \in Slot, v \in Command : Accept(i, j, e, s, v) \in Packet
           /\ \A e \in Epoch, s \in Slot : Accepted(i, j, e, s) \in Packet
           /\ \A s \in Slot, v \in Command, p \in BOOLEAN : Commit(i, j, s, v, p) \in Packet
           /\ \A e \in Epoch, h \in -1..MaxSlot : Heartbeat(i, j, e, h) \in Packet
           /\ \A st \in 0..(MaxSlot + 1), h \in Slot : FetchSlots(i, j, st, h) \in Packet
           /\ \A v \in Request : /\ FetchValue(i, j, v) \in Packet /\ Data(i, j, v) \in Packet
                                 /\ Forward(i, j, v) \in Packet
           /\ \A e \in Epoch : Nack(i, j, e) \in Packet
           /\ Recover(i, j) \in Packet
BY DEF Vote, Prepare, Accept, Accepted, Commit, Heartbeat, FetchSlots, FetchValue, Data,
       Forward, Nack, Recover, Packet

\* What can be read off a packet of each kind.
LEMMA PacketFields ==
    ASSUME NEW m \in Packet
    PROVE  /\ m.from \in Replica /\ m.to \in Replica
           /\ m.kind = "Vote" => m.slot \in Slot /\ m.value \in Request
           /\ m.kind = "Prepare" => m.epoch \in Epoch /\ m.start \in 0..(MaxSlot + 1)
           /\ m.kind = "Promise" => m \in Page
           /\ m.kind = "Accept" => m.epoch \in Epoch /\ m.slot \in Slot /\ m.value \in Command
           /\ m.kind = "Accepted" => m.epoch \in Epoch /\ m.slot \in Slot
           /\ m.kind = "Commit" =>
                 m.slot \in Slot /\ m.value \in Command /\ m.payload \in BOOLEAN
           /\ m.kind = "Heartbeat" => m.epoch \in Epoch /\ m.high \in -1..MaxSlot
           /\ m.kind = "FetchSlots" => m.start \in 0..(MaxSlot + 1) /\ m.high \in Slot
           /\ m.kind \in {"FetchValue", "Data", "Forward"} => m.value \in Request
           /\ m.kind = "Nack" => m.epoch \in Epoch
BY DEF Packet, Page

\* What can be read off a promise page.
LEMMA PageFields ==
    ASSUME NEW p \in Page
    PROVE  /\ p.from \in Replica /\ p.to \in Replica /\ p.epoch \in Epoch
           /\ p.start \in 0..(MaxSlot + 1) /\ p.high \in -1..MaxSlot
           /\ p.page \in Nat /\ p.pages \in Nat /\ p.entries \in SUBSET Entry
           /\ p.kind = "Promise" /\ p \in Packet
BY DEF Packet, Page

\* What a step puts on the wire are packets.
LEMMA PostType ==
    ASSUME TypeOK, NEW used, NEW out \in SUBSET Packet, Post(used, out)
    PROVE  msgs' \in SUBSET Packet
BY DEF TypeOK, Post

\* The greater and the lesser of two.
LEMMA TopLeast ==
    ASSUME NEW a \in Int, NEW b \in Int
    PROVE  /\ Top(a, b) \in {a, b} /\ a <= Top(a, b) /\ b <= Top(a, b)
           /\ Least(a, b) \in {a, b} /\ Least(a, b) <= a /\ Least(a, b) <= b
BY DEF Top, Least

\* Bounds of the numbers that one replica keeps.
LEMMA Numbers ==
    ASSUME TypeOK, NEW i \in Replica
    PROVE  /\ promise[i] \in Epoch /\ start[i] \in 0..(MaxSlot + 1)
           /\ high[i] \in -1..MaxSlot /\ next[i] \in 0..(MaxSlot + 1)
           /\ executed[i] \in -1..MaxSlot /\ cursor[i] \in 0..(MaxSlot + 1)
           /\ {promise[i], start[i], next[i], cursor[i], MaxSlot} \subseteq Nat
           /\ {high[i], executed[i]} \subseteq Int
           /\ world.last \in Slot
BY BoundAssumption, WorldAssumption DEF TypeOK, Epoch, Slot

\* A replica has always heard itself.
HearsItself == \A i \in Replica : i \in heard[i]
TypeInv == TypeOK /\ HearsItself

-----------------------------------------------------------------------------
(***************************************************************************)
(* Execution and the fast path.                                            *)
(***************************************************************************)
Applied ==
    /\ executed' \in [Replica -> -1..MaxSlot]
    /\ values' \in [Replica -> SUBSET Execution]
    /\ known' \in [Replica -> SUBSET Request] /\ pending' \in [Replica -> SUBSET Request]
    /\ replies' \in SUBSET [req : Request, result : SUBSET Execution]

\* Executing decided slots keeps the types of what apply changes.
LEMMA ApplyType ==
    ASSUME TypeOK, NEW i \in Replica, NEW ch, NEW kn \in SUBSET Request, NEW forget,
           NEW asked \in SUBSET Request, NEW props, Apply(i, ch, kn, forget, asked, props)
    PROVE  Applied
<1>1. executed[i] \in -1..MaxSlot /\ MaxSlot \in Nat /\ values[i] \in SUBSET Execution
  BY Numbers, BoundAssumption DEF TypeOK
<1>2. PICK m \in executed[i]..MaxSlot :
        LET X == Executions(ch, executed[i] + 1, m, Done(i))
            V == values[i] \cup X
            done == {x.req : x \in V}
        IN  /\ \A s \in (executed[i] + 1)..m : Runnable(ch, kn, s)
            /\ ~Runnable(ch, kn, m + 1)
            /\ executed' = [executed EXCEPT ![i] = m]
            /\ values' = [values EXCEPT ![i] = V]
            /\ known' = [known EXCEPT ![i] = kn]
            /\ pending' = [pending EXCEPT
                  ![i] = (@ \ ({ch[s] : s \in (executed[i] + 1)..m} \cup forget))
                            \cup (asked \ done)]
            /\ replies' = replies \cup
                  Answers(V, props \cap ({x.req : x \in X} \cup (asked \cap done)))
  BY DEF Apply
<1> DEFINE X == Executions(ch, executed[i] + 1, m, Done(i))
           V == values[i] \cup X
           done == {x.req : x \in V}
           R == props \cap ({x.req : x \in X} \cup (asked \cap done))
<1>3. X \in SUBSET Execution
  <2> SUFFICES ASSUME NEW x \in X PROVE x \in Execution OBVIOUS
  <2>1. x \in [req : Request \ Done(i), slot : (executed[i] + 1)..m] BY DEF Executions
  <2>2. x.slot \in Slot BY <1>1, <2>1 DEF Slot
  <2> QED BY <2>1, <2>2 DEF Execution
<1>4. V \in SUBSET Execution BY <1>1, <1>3
<1>5. R \in SUBSET Request BY <1>3 DEF Execution
<1>6. Answers(V, R) \in SUBSET [req : Request, result : SUBSET Execution]
  BY <1>4, <1>5 DEF Answers, Result
<1>7. /\ executed' = [executed EXCEPT ![i] = m] /\ values' = [values EXCEPT ![i] = V]
      /\ known' = [known EXCEPT ![i] = kn]
      /\ pending' = [pending EXCEPT
            ![i] = (@ \ ({ch[s] : s \in (executed[i] + 1)..m} \cup forget)) \cup (asked \ done)]
      /\ replies' = replies \cup Answers(V, R)
  BY <1>2
<1>8. m \in -1..MaxSlot BY <1>1
<1> HIDE DEF X, V, done, R
<1>9. executed' \in [Replica -> -1..MaxSlot] BY <1>7, <1>8 DEF TypeOK
<1>10. values' \in [Replica -> SUBSET Execution] BY <1>4, <1>7 DEF TypeOK
<1>11. known' \in [Replica -> SUBSET Request] BY <1>7 DEF TypeOK
<1>12. pending' \in [Replica -> SUBSET Request] BY <1>7 DEF TypeOK
<1>13. replies' \in SUBSET [req : Request, result : SUBSET Execution] BY <1>6, <1>7 DEF TypeOK
<1> QED BY <1>9, <1>10, <1>11, <1>12, <1>13 DEF Applied

\* What proposing in the next slot, or not proposing, changes.
Proposed ==
    /\ accepted' \in [Replica -> [Slot -> Ballots]]
    /\ local' \in [Replica -> [Slot -> Request \cup {None}]]
    /\ high' \in [Replica -> -1..MaxSlot] /\ next' \in [Replica -> 0..(MaxSlot + 1)]
    /\ stalled' \in [Replica -> BOOLEAN]
    /\ msgs' \in SUBSET Packet

\* The greater of two log positions is one.
LEMMA TopType ==
    ASSUME NEW a \in -1..MaxSlot, NEW b \in -1..MaxSlot PROVE Top(a, b) \in -1..MaxSlot
BY DEF Top

\* A fast vote stays within the log: it is only cast for a slot in use.
LEMMA ProposeFastType ==
    ASSUME TypeOK, NEW i \in Replica, NEW r \in Request,
           NEW loc \in [Replica -> [Slot -> Request \cup {None}]],
           NEW hi \in -1..MaxSlot, NEW used, ProposeFast(i, r, loc, hi, used)
    PROVE  Proposed
<1>1. CASE next[i] - executed'[i] - 1 >= FastWindow
  <2>1. /\ stalled' = [stalled EXCEPT ![i] = TRUE] /\ local' = loc
        /\ high' = [high EXCEPT ![i] = hi] /\ Post(used, {})
        /\ UNCHANGED <<next, accepted>>
    BY <1>1 DEF ProposeFast
  <2>2. msgs' \in SUBSET Packet BY <2>1, PostType
  <2> QED BY <2>1, <2>2 DEF TypeOK, Proposed
<1>2. CASE ~(next[i] - executed'[i] - 1 >= FastWindow)
  <2>1. PICK n : n = next[i] OBVIOUS
  <2>2. /\ n <= world.last /\ next' = [next EXCEPT ![i] = n + 1]
        /\ local' = [loc EXCEPT ![i][n] = r]
        /\ high' = [high EXCEPT ![i] = Top(hi, n)]
        /\ accepted' = [accepted EXCEPT ![i][n] = [epoch |-> 0, value |-> r]]
        /\ Post(used, {Vote(i, j, n, r) : j \in Replica})
        /\ UNCHANGED stalled
    BY <1>2, <2>1 DEF ProposeFast, TypeOK
  <2>3. n \in Slot /\ n \in -1..MaxSlot /\ n + 1 \in 0..(MaxSlot + 1)
    BY <2>1, <2>2, Numbers, BoundAssumption DEF Slot
  <2>4. Top(hi, n) \in -1..MaxSlot BY <2>3, TopType
  <2>5. [epoch |-> 0, value |-> r] \in Ballots BY BoundAssumption DEF Ballots, Epoch, Command
  <2>6. \A j \in Replica : Vote(i, j, n, r) \in Packet BY <2>3, PacketTypes
  <2>7. msgs' \in SUBSET Packet BY <2>2, <2>6, PostType
  <2>8. accepted' \in [Replica -> [Slot -> Ballots]] BY <2>2, <2>3, <2>5 DEF TypeOK
  <2>9. local' \in [Replica -> [Slot -> Request \cup {None}]] BY <2>2, <2>3
  <2> QED BY <2>2, <2>3, <2>4, <2>7, <2>8, <2>9 DEF TypeOK, Proposed
<1> QED BY <1>1, <1>2

\* So does not voting.
LEMMA NoProposalType ==
    ASSUME TypeOK, NEW i \in Replica, NEW hi \in -1..MaxSlot, NEW used,
           NEW out \in SUBSET Packet, NoProposal(i, hi, used, out)
    PROVE  Proposed
<1>1. msgs' \in SUBSET Packet BY PostType DEF NoProposal
<1> QED BY <1>1 DEF TypeOK, Proposed, NoProposal

\* A request joins the queue of a coordinator once.
LEMMA PlannedType ==
    ASSUME TypeOK, NEW i \in Replica, NEW r \in Request, Planned(i, r)
    PROVE  assigned' \in [Replica -> SUBSET Request] /\ queue' \in [Replica -> Seq(Request)]
<1>1. CASE r \in assigned[i] BY <1>1 DEF TypeOK, Planned
<1>2. CASE r \notin assigned[i]
  <2>1. /\ assigned' = [assigned EXCEPT ![i] = @ \cup {r}]
        /\ queue' = [queue EXCEPT ![i] = Append(@, r)]
    BY <1>2 DEF Planned
  <2>2. Append(queue[i], r) \in Seq(Request) BY DEF TypeOK
  <2> QED BY <2>1, <2>2 DEF TypeOK
<1> QED BY <1>1, <1>2

\* What submit changes, whether the request is new or executed already.
LEMMA SubmitType ==
    ASSUME TypeOK, NEW i \in Replica, NEW r \in Request, NEW props, NEW used,
           Submit(i, r, props, used)
    PROVE  /\ Applied /\ Proposed
           /\ assigned' \in [Replica -> SUBSET Request] /\ queue' \in [Replica -> Seq(Request)]
<1>1. Apply(i, chosen[i], known[i] \cup {r}, {}, {r}, props) BY DEF Submit
<1>2. Applied
  <2>1. known[i] \cup {r} \in SUBSET Request /\ {r} \in SUBSET Request BY DEF TypeOK
  <2> QED BY <1>1, <2>1, ApplyType
<1>3. high[i] \in -1..MaxSlot /\ local \in [Replica -> [Slot -> Request \cup {None}]]
  BY Numbers DEF TypeOK
<1>4. ProposeFast(i, r, local, high[i], used) \/ NoProposal(i, high[i], used, {})
  BY DEF Submit
<1>5. Proposed BY <1>3, <1>4, ProposeFastType, NoProposalType
<1>6. Planned(i, r) \/ UNCHANGED <<assigned, queue>> BY DEF Submit
<1>7. assigned' \in [Replica -> SUBSET Request] /\ queue' \in [Replica -> Seq(Request)]
  BY <1>6, PlannedType DEF TypeOK
<1> QED BY <1>2, <1>5, <1>7

\* A client's proposal.
LEMMA ProposeType ==
    ASSUME TypeOK, NEW i \in Replica, NEW r \in Request, Propose(i, r)
    PROVE  TypeOK'
<1>1. /\ Applied /\ Proposed
      /\ assigned' \in [Replica -> SUBSET Request] /\ queue' \in [Replica -> Seq(Request)]
  BY SubmitType DEF Propose
<1>2. proposals' \in [Replica -> SUBSET Request] BY DEF Propose, TypeOK
<1> QED BY <1>1, <1>2 DEF Propose, TypeOK, Applied, Proposed, roleVars, pageVars, envVars

\* A request forwarded to the coordinator.
LEMMA ForwardType ==
    ASSUME TypeOK, heard' \in [Replica -> SUBSET Replica], NEW i \in Replica,
           NEW m \in Packet, ReceiveForward(i, m)
    PROVE  TypeOK'
<1>1. m.value \in Request BY PacketFields DEF ReceiveForward
<1>2. /\ Applied /\ Proposed
      /\ assigned' \in [Replica -> SUBSET Request] /\ queue' \in [Replica -> Seq(Request)]
  BY <1>1, SubmitType DEF ReceiveForward
<1> QED BY <1>2 DEF ReceiveForward, TypeOK, Applied, Proposed, roleVars, pageVars, envVars

\* What learning a decision changes, with the vote it may set off.
LEMMA LearnType ==
    ASSUME TypeOK, NEW i \in Replica, NEW s \in Slot, NEW v \in Command,
           NEW kn \in SUBSET Request, NEW used, NEW out \in SUBSET Packet,
           Learn(i, s, v, kn, used, out)
    PROVE  /\ Applied /\ Proposed
           /\ chosen' \in [Replica -> [Slot -> Command \cup {None}]]
<1>1. chosen' \in [Replica -> [Slot -> Command \cup {None}]] BY DEF Learn, TypeOK
<1>2. Applied
  <2>1. Apply(i, [chosen[i] EXCEPT ![s] = v], kn, {v}, {}, proposals[i]) BY DEF Learn
  <2> QED BY <2>1, ApplyType
<1>3. Top(high[i], s) \in -1..MaxSlot
  <2>1. high[i] \in -1..MaxSlot /\ s \in -1..MaxSlot BY Numbers, BoundAssumption DEF Slot
  <2> QED BY <2>1, TopType
<1>4. CASE Reproposes(i, s, v)
  <2>1. ProposeFast(i, local[i][s], [local EXCEPT ![i][s] = None], Top(high[i], s), used)
    BY <1>4 DEF Learn
  <2>2. local[i][s] \in Request BY <1>4 DEF Reproposes, TypeOK
  <2>3. [local EXCEPT ![i][s] = None] \in [Replica -> [Slot -> Request \cup {None}]]
    BY DEF TypeOK
  <2> QED BY <1>1, <1>2, <1>3, <2>1, <2>2, <2>3, ProposeFastType
<1>5. CASE ~Reproposes(i, s, v)
  <2>1. NoProposal(i, Top(high[i], s), used, out) BY <1>5 DEF Learn
  <2> QED BY <1>1, <1>2, <1>3, <2>1, NoProposalType
<1> QED BY <1>4, <1>5

\* Hearing of a slot moves high within the log.
LEMMA RaiseType ==
    ASSUME TypeOK, NEW i \in Replica, NEW s \in Slot
    PROVE  Raise(i, s) \in [Replica -> -1..MaxSlot]
<1>1. high[i] \in -1..MaxSlot /\ s \in -1..MaxSlot BY Numbers, BoundAssumption DEF Slot
<1>2. Top(high[i], s) \in -1..MaxSlot BY <1>1, TopType
<1> QED BY <1>2 DEF Raise, TypeOK

\* A fast vote arrives.
LEMMA VoteType ==
    ASSUME TypeOK, heard' \in [Replica -> SUBSET Replica], NEW i \in Replica,
           NEW m \in Packet, ReceiveVote(i, m)
    PROVE  TypeOK'
<1>1. m.kind = "Vote" /\ m.slot \in Slot /\ m.value \in Request /\ m.from \in Replica
  BY PacketFields DEF ReceiveVote
<1> DEFINE V == votes[i][m.slot] \cup {[from |-> m.from, value |-> m.value]}
<1>2. /\ votes' = [votes EXCEPT ![i][m.slot] = V]
      /\ IF Support(V, m.value) >= FastQuorum
         THEN Learn(i, m.slot, m.value, known[i], Used(m), {})
         ELSE /\ stalled' = [stalled EXCEPT ![i] = @ \/ Collision(V)]
              /\ high' = Raise(i, m.slot)
              /\ Post(Used(m), {})
              /\ UNCHANGED <<accepted, chosen, local, next, executed, values, known,
                             pending, replies>>
      /\ UNCHANGED <<roleVars, proposed, acks, assigned, queue, pageVars, cursor,
                     proposals, envVars>>
  BY DEF ReceiveVote
<1>3. V \in SUBSET [from : Replica, value : Request] BY <1>1 DEF TypeOK
<1>4. votes' \in [Replica -> [Slot -> SUBSET [from : Replica, value : Request]]]
  <2> HIDE DEF V
  <2> QED BY <1>1, <1>2, <1>3 DEF TypeOK
<1>5. /\ Applied /\ Proposed
      /\ chosen' \in [Replica -> [Slot -> Command \cup {None}]]
  <2> HIDE DEF V
  <2>1. CASE Support(V, m.value) >= FastQuorum
    <3>1. Learn(i, m.slot, m.value, known[i], Used(m), {}) BY <1>2, <2>1
    <3>2. PICK v \in Command : v = m.value BY <1>1 DEF Command
    <3>3. PICK s \in Slot : s = m.slot BY <1>1
    <3>4. known[i] \in SUBSET Request /\ {} \in SUBSET Packet BY DEF TypeOK
    <3>5. Learn(i, s, v, known[i], Used(m), {}) BY <3>1, <3>2, <3>3
    <3> QED BY <3>4, <3>5, LearnType
  <2>2. CASE ~(Support(V, m.value) >= FastQuorum)
    <3>1. /\ stalled' = [stalled EXCEPT ![i] = @ \/ Collision(V)]
          /\ high' = Raise(i, m.slot)
          /\ Post(Used(m), {})
          /\ UNCHANGED <<accepted, chosen, local, next, executed, values, known,
                         pending, replies>>
      BY <1>2, <2>2
    <3>2. msgs' \in SUBSET Packet BY <3>1, PostType
    <3>3. stalled' \in [Replica -> BOOLEAN]
      <4>1. PICK b \in BOOLEAN : b = (stalled[i] \/ Collision(V)) OBVIOUS
      <4>2. stalled' = [stalled EXCEPT ![i] = b] BY <3>1, <4>1, Zenon
      <4> QED BY <4>2 DEF TypeOK
    <3>4. high' \in [Replica -> -1..MaxSlot] BY <1>1, <3>1, RaiseType
    <3> QED BY <3>1, <3>2, <3>3, <3>4 DEF Applied, Proposed, TypeOK
  <2> QED BY <2>1, <2>2
<1> QED BY <1>2, <1>4, <1>5 DEF TypeOK, Applied, Proposed, roleVars, pageVars, envVars

-----------------------------------------------------------------------------
(***************************************************************************)
(* Epochs and promises.                                                    *)
(***************************************************************************)
LEMMA AdoptType ==
    ASSUME TypeOK, NEW i \in Replica, NEW e \in Epoch, Adopt(i, e)
    PROVE  /\ promise' \in [Replica -> Epoch] /\ preparing' \in [Replica -> BOOLEAN]
           /\ frozen' \in [Replica -> SUBSET Page] /\ queue' \in [Replica -> Seq(Request)]
           /\ assigned' \in [Replica -> SUBSET Request]
<1>1. CASE e <= promise[i] BY <1>1 DEF Adopt, TypeOK
<1>2. CASE ~(e <= promise[i])
  <2>0. <<>> \in Seq(Request) OBVIOUS
  <2>1. PICK none \in Seq(Request) : none = <<>> BY <2>0, Zenon
  <2>2. /\ promise' = [promise EXCEPT ![i] = e] /\ preparing' = [preparing EXCEPT ![i] = FALSE]
        /\ frozen' = [frozen EXCEPT ![i] = {}] /\ queue' = [queue EXCEPT ![i] = none]
        /\ assigned' = [assigned EXCEPT ![i] = {}]
    BY <1>2, <2>1 DEF Adopt
  <2> QED BY <2>2 DEF TypeOK
<1> QED BY <1>1, <1>2

\* Hearing of a newer epoch ends an activity.
LEMMA DeactivateType ==
    ASSUME TypeOK, NEW i \in Replica, NEW e, Deactivate(i, e)
    PROVE  active' \in [Replica -> BOOLEAN]
<1>1. PICK b \in BOOLEAN : b = (active[i] /\ e <= promise[i]) OBVIOUS
<1>2. active' = [active EXCEPT ![i] = b] BY <1>1, Zenon DEF Deactivate
<1> QED BY <1>2 DEF TypeOK

\* A slot is reported at most once.
LEMMA ReportType ==
    ASSUME TypeOK, NEW i \in Replica, NEW s \in Slot
    PROVE  /\ Report(i, s) \in SUBSET Entry
           /\ \A x, y \in Report(i, s) : x = y
           /\ \A x \in Report(i, s) : x.slot = s
<1>1. chosen[i][s] \in Command \cup {None} /\ accepted[i][s] \in Ballots /\ 0 \in Epoch
  BY BoundAssumption DEF TypeOK, Epoch
<1>2. CASE chosen[i][s] # None
  <2>1. Report(i, s) = {[slot |-> s, epoch |-> 0, value |-> chosen[i][s],
                         payload |-> chosen[i][s] \in known[i], decided |-> TRUE]}
    BY <1>2 DEF Report
  <2>2. [slot |-> s, epoch |-> 0, value |-> chosen[i][s],
         payload |-> chosen[i][s] \in known[i], decided |-> TRUE] \in Entry
    BY <1>1, <1>2 DEF Entry
  <2> QED BY <2>1, <2>2
<1>3. CASE chosen[i][s] = None /\ accepted[i][s] # None
  <2>1. Report(i, s) = {[slot |-> s, epoch |-> accepted[i][s].epoch,
                         value |-> accepted[i][s].value,
                         payload |-> accepted[i][s].value \in known[i], decided |-> FALSE]}
    BY <1>3 DEF Report
  <2>2. accepted[i][s].epoch \in Epoch /\ accepted[i][s].value \in Command
    BY <1>1, <1>3 DEF Ballots
  <2>3. [slot |-> s, epoch |-> accepted[i][s].epoch, value |-> accepted[i][s].value,
         payload |-> accepted[i][s].value \in known[i], decided |-> FALSE] \in Entry
    BY <2>2 DEF Entry
  <2> QED BY <2>1, <2>3
<1>4. CASE chosen[i][s] = None /\ accepted[i][s] = None BY <1>4 DEF Report
<1> QED BY <1>2, <1>3, <1>4

\* The quotient of two naturals.
LEMMA Quotient ==
    ASSUME NEW a \in Nat, NEW b \in Nat \ {0} PROVE a \div b \in Nat
BY SMT

\* A snapshot is cut into finitely many pages: each slot has at most one entry.
LEMMA SnapshotType ==
    ASSUME TypeOK, NEW i \in Replica, NEW j \in Replica, NEW e \in Epoch,
           NEW st \in 0..(MaxSlot + 1)
    PROVE  Snapshot(i, j, e, st) \in SUBSET Page
<1> DEFINE E == UNION {Report(i, s) : s \in st..high[i]}
           count == (Cardinality(E) + PageSize - 1) \div PageSize
           total == IF count = 0 THEN 1 ELSE count
<1>1. high[i] \in -1..MaxSlot BY Numbers
<1>2. st..high[i] \subseteq Slot BY <1>1, BoundAssumption DEF Slot
<1>3. E \in SUBSET Entry BY <1>2, ReportType
<1>4. IsFiniteSet(E)
  <2> DEFINE f == [x \in E |-> x.slot]
  <2>1. ASSUME NEW x \in E, NEW y \in E, x.slot = y.slot PROVE x = y
    <3>1. PICK s \in Slot : x \in Report(i, s) BY <1>2
    <3>2. PICK t \in Slot : y \in Report(i, t) BY <1>2
    <3>3. s = t BY <2>1, <3>1, <3>2, ReportType
    <3> QED BY <3>1, <3>2, <3>3, ReportType
  <2>2. \A x \in E : x.slot \in Slot BY <1>3 DEF Entry
  <2> HIDE DEF E
  <2>3. f \in Injection(E, Slot) BY <2>1, <2>2 DEF Injection, IsInjective
  <2>4. IsFiniteSet(Slot) BY IntervalSize, BoundAssumption DEF Slot
  <2> QED BY <2>3, <2>4, FS_Injection
<1>5. total \in Nat
  <2>1. Cardinality(E) \in Nat BY <1>4, CardNat
  <2> HIDE DEF E
  <2>2. PageSize \in Nat \ {0} /\ Cardinality(E) + PageSize - 1 \in Nat
    BY <2>1, SizeAssumption
  <2>3. count \in Nat BY <2>2, Quotient
  <2> QED BY <2>3
<1>6. Snapshot(i, j, e, st) =
        {[kind |-> "Promise", from |-> i, to |-> j, epoch |-> e, start |-> st,
          high |-> high[i], page |-> p, pages |-> total,
          entries |-> {x \in E : Rank(E, x) \div PageSize = p}] : p \in 0..(total - 1)}
  BY DEF Snapshot
<1> HIDE DEF E, total, count
<1> QED BY <1>1, <1>3, <1>5, <1>6 DEF Page

\* A Prepare is answered with pages, frozen or new.
LEMMA PromisePagesType ==
    ASSUME TypeOK, NEW i \in Replica, NEW m \in Packet, m.kind = "Prepare"
    PROVE  PromisePages(i, m) \in SUBSET Page
<1>1. m.from \in Replica /\ m.epoch \in Epoch /\ m.start \in 0..(MaxSlot + 1) BY PacketFields
<1>2. Snapshot(i, m.from, m.epoch, m.start) \in SUBSET Page BY <1>1, SnapshotType
<1> QED BY <1>2 DEF PromisePages, TypeOK

\* A Prepare arrives.
LEMMA PrepareType ==
    ASSUME TypeOK, heard' \in [Replica -> SUBSET Replica], NEW i \in Replica,
           NEW m \in Packet, ReceivePrepare(i, m)
    PROVE  TypeOK'
<1>1. m.kind = "Prepare" /\ m.epoch \in Epoch BY PacketFields DEF ReceivePrepare
<1>2. PromisePages(i, m) \in SUBSET Page BY <1>1, PromisePagesType
<1>3. PromisePages(i, m) \in SUBSET Packet BY <1>2, PageFields
<1>4. msgs' \in SUBSET Packet BY <1>3, PostType DEF ReceivePrepare
<1>5. active' \in [Replica -> BOOLEAN] BY DeactivateType DEF ReceivePrepare
<1>6. promise' \in [Replica -> Epoch] /\ frozen' \in [Replica -> SUBSET Page]
  BY <1>1, <1>2 DEF ReceivePrepare, TypeOK
<1>7. /\ preparing' \in [Replica -> BOOLEAN] /\ queue' \in [Replica -> Seq(Request)]
      /\ assigned' \in [Replica -> SUBSET Request]
  <2>0. <<>> \in Seq(Request) OBVIOUS
  <2>1. PICK none \in Seq(Request) : none = <<>> BY <2>0, Zenon
  <2>2. \/ /\ preparing' = [preparing EXCEPT ![i] = FALSE] /\ queue' = [queue EXCEPT ![i] = none]
           /\ assigned' = [assigned EXCEPT ![i] = {}]
        \/ preparing' = preparing /\ queue' = queue /\ assigned' = assigned
    BY <2>1 DEF ReceivePrepare
  <2>3. CASE preparing' = preparing /\ queue' = queue /\ assigned' = assigned
    BY <2>3 DEF TypeOK
  <2>4. CASE /\ preparing' = [preparing EXCEPT ![i] = FALSE] /\ queue' = [queue EXCEPT ![i] = none]
             /\ assigned' = [assigned EXCEPT ![i] = {}]
    BY <2>4 DEF TypeOK
  <2> QED BY <2>2, <2>3, <2>4
<1> QED BY <1>4, <1>5, <1>6, <1>7
    DEF ReceivePrepare, TypeOK, slotVars, logVars, clientVars, envVars

\* A Prepare or Accept of an older epoch arrives.
LEMMA StaleType ==
    ASSUME TypeOK, heard' \in [Replica -> SUBSET Replica], NEW i \in Replica,
           NEW m \in Packet, ReceiveStale(i, m)
    PROVE  TypeOK'
<1>1. m.from \in Replica /\ promise[i] \in Epoch BY PacketFields, Numbers
<1>2. {Nack(i, m.from, promise[i])} \in SUBSET Packet BY <1>1, PacketTypes
<1>3. msgs' \in SUBSET Packet BY <1>2, PostType DEF ReceiveStale
<1> QED BY <1>3 DEF ReceiveStale, TypeOK, roleVars, slotVars, logVars, reqVars, pageVars,
                    clientVars, envVars

\* A Nack arrives.
LEMMA NackType ==
    ASSUME TypeOK, heard' \in [Replica -> SUBSET Replica], NEW i \in Replica,
           NEW m \in Packet, ReceiveNack(i, m)
    PROVE  TypeOK'
<1>1. m.epoch \in Epoch /\ Adopt(i, m.epoch) /\ Deactivate(i, m.epoch)
  BY PacketFields DEF ReceiveNack
<1>2. /\ promise' \in [Replica -> Epoch] /\ preparing' \in [Replica -> BOOLEAN]
      /\ frozen' \in [Replica -> SUBSET Page] /\ queue' \in [Replica -> Seq(Request)]
      /\ assigned' \in [Replica -> SUBSET Request] /\ active' \in [Replica -> BOOLEAN]
  BY <1>1, AdoptType, DeactivateType
<1>3. msgs' \in SUBSET Packet BY PostType DEF ReceiveNack
<1> QED BY <1>2, <1>3 DEF ReceiveNack, TypeOK, slotVars, logVars, clientVars, envVars

-----------------------------------------------------------------------------
(***************************************************************************)
(* A coordinator takes over.                                               *)
(***************************************************************************)
LEMMA CollectedType ==
    ASSUME TypeOK, NEW i \in Replica, NEW m \in Packet, PromiseExpected(i, m)
    PROVE  Collected(i, m) \in SUBSET Page
<1>1. m \in Page BY PacketFields DEF PromiseExpected
<1> QED BY <1>1 DEF Collected, TypeOK

\* A page arrives and the promises are still too few.
LEMMA CollectType ==
    ASSUME TypeOK, heard' \in [Replica -> SUBSET Replica], NEW i \in Replica,
           NEW m \in Packet, CollectPromise(i, m)
    PROVE  TypeOK'
<1>1. Collected(i, m) \in SUBSET Page BY CollectedType DEF CollectPromise
<1>2. msgs' \in SUBSET Packet BY PostType DEF CollectPromise
<1>3. pages' \in [Replica -> SUBSET Page] BY <1>1 DEF CollectPromise, TypeOK
<1> QED BY <1>2, <1>3 DEF CollectPromise, TypeOK, roleVars, slotVars, logVars, reqVars,
                           clientVars, envVars

\* The last slot of the complete promises exists and lies in the log.
LEMMA LastSlotType ==
    ASSUME TypeOK, NEW i \in Replica, NEW P \in SUBSET Page
    PROVE  /\ LastSlot(i, P) \in (start[i] - 1)..MaxSlot
           /\ \A p \in P : p.from \in Voters(P) => p.high <= LastSlot(i, P)
<1> DEFINE H == {start[i] - 1} \cup {p.high : p \in {x \in P : x.from \in Voters(P)}}
<1>1. MaxSlot \in Nat /\ start[i] \in 0..(MaxSlot + 1) BY Numbers, BoundAssumption
<1>2. \A p \in P : p.high \in -1..MaxSlot BY PageFields
<1>3. H \in SUBSET Int /\ H # {} /\ start[i] - 1 \in H /\ \A x \in H : x <= MaxSlot
  BY <1>1, <1>2
<1> HIDE DEF H
<1>4. PICK h \in H : \A x \in H : x <= h
  <2>1. MaxSlot \in Int BY <1>1
  <2> QED BY <1>3, <2>1, Greatest
<1>5. h \in (start[i] - 1)..MaxSlot BY <1>1, <1>3, <1>4
<1>6. LastSlot(i, P) = CHOOSE k \in (start[i] - 1)..MaxSlot : k \in H /\ \A x \in H : x <= k
  BY DEF LastSlot, H
<1>7. \E k \in (start[i] - 1)..MaxSlot : k \in H /\ \A x \in H : x <= k BY <1>4, <1>5
<1>8. /\ LastSlot(i, P) \in (start[i] - 1)..MaxSlot
      /\ LastSlot(i, P) \in H /\ \A x \in H : x <= LastSlot(i, P)
  BY <1>6, <1>7, Zenon
<1> QED BY <1>8 DEF H

\* The lesser of two integers is an integer.
LEMMA LeastType == ASSUME NEW a \in Int, NEW b \in Int PROVE Least(a, b) \in Int
BY DEF Least

\* Where a call of resend starts, what it covers and where the next one starts.
LEMMA ScanType ==
    ASSUME TypeOK, NEW i \in Replica, NEW cur \in 0..(MaxSlot + 1), NEW hi \in -1..MaxSlot
    PROVE  Scan(i, cur, hi) \in SUBSET Slot /\ Advance(i, cur, hi) \in 0..(MaxSlot + 1)
<1>1. /\ MaxSlot \in Nat /\ start[i] \in 0..(MaxSlot + 1) /\ executed[i] \in -1..MaxSlot
      /\ InflightWindow \in Nat /\ RepairBudget \in Nat \ {0}
  BY Numbers, BoundAssumption, SizeAssumption
<1>2. Floor(i) \in 0..(MaxSlot + 1) BY <1>1 DEF Floor, Top
<1>3. From(i, cur, hi) \in 0..(MaxSlot + 1) BY <1>1, <1>2 DEF From
<1>4. PICK f \in 0..(MaxSlot + 1) : f = From(i, cur, hi) BY <1>3
<1>5. Ceiling(i, hi) \in Int /\ Ceiling(i, hi) <= hi BY <1>1, <1>2, TopLeast DEF Ceiling, Least
<1>6. PICK t \in Int : t = Least(Ceiling(i, hi), f + RepairBudget - 1)
  BY <1>1, <1>5, LeastType
<1>7. t <= MaxSlot BY <1>1, <1>5, <1>6 DEF Least
<1>8. Scan(i, cur, hi) = f..t BY <1>4, <1>6 DEF Scan
<1>9. f..t \in SUBSET Slot BY <1>1, <1>7 DEF Slot
<1>10. Cardinality(f..t) = IF f > t THEN 0 ELSE t - f + 1 BY <1>1, IntervalSize
<1>11. Advance(i, cur, hi) = f + Cardinality(f..t) BY <1>4, <1>8 DEF Advance
<1> QED BY <1>1, <1>7, <1>8, <1>9, <1>10, <1>11

\* resend broadcasts packets.
LEMMA ResentType ==
    ASSUME TypeOK, NEW i \in Replica, NEW S \in SUBSET Slot, NEW prop \in [Slot -> Ballots],
           NEW kn \in SUBSET Request, NEW e \in Epoch
    PROVE  Resent(i, S, prop, kn, e) \in SUBSET Packet
<1> DEFINE Of(s) ==
           IF chosen[i][s] # None
           THEN {Commit(i, j, s, chosen[i][s], chosen[i][s] \in kn) : j \in Replica}
           ELSE IF prop[s] = None \/ prop[s].epoch # e THEN {}
           ELSE IF prop[s].value \in kn \cup {Noop}
           THEN {Accept(i, j, e, s, prop[s].value) : j \in Hearers(i, s, prop[s])}
           ELSE {FetchValue(i, j, prop[s].value) : j \in Replica \ {i}}
<1>1. ASSUME NEW s \in S PROVE Of(s) \in SUBSET Packet
  <2>1. chosen[i][s] \in Command \cup {None} /\ (chosen[i][s] \in kn) \in BOOLEAN
    BY DEF TypeOK
  <2>2. CASE chosen[i][s] # None
    <3>1. PICK p \in BOOLEAN : p = (chosen[i][s] \in kn) BY <2>1
    <3>2. \A j \in Replica : Commit(i, j, s, chosen[i][s], p) \in Packet
      BY <2>1, <2>2, PacketTypes
    <3>3. Of(s) = {Commit(i, j, s, chosen[i][s], p) : j \in Replica} BY <2>2, <3>1, Zenon
    <3> QED BY <3>2, <3>3
  <2>3. CASE chosen[i][s] = None /\ (prop[s] = None \/ prop[s].epoch # e) BY <2>3
  <2>4. CASE chosen[i][s] = None /\ ~(prop[s] = None \/ prop[s].epoch # e)
    <3>1. prop[s].value \in Command BY <2>4 DEF Ballots
    <3>2. \A j \in Replica : /\ Accept(i, j, e, s, prop[s].value) \in Packet
                             /\ prop[s].value \in Request => FetchValue(i, j, prop[s].value) \in Packet
      BY <3>1, PacketTypes
    <3>3. CASE prop[s].value \in kn \cup {Noop} BY <2>4, <3>2, <3>3 DEF Hearers
    <3>4. CASE prop[s].value \notin kn \cup {Noop}
      <4>1. prop[s].value \in Request BY <3>1, <3>4 DEF Command
      <4> QED BY <2>4, <3>2, <3>4, <4>1
    <3> QED BY <3>3, <3>4
  <2> QED BY <2>2, <2>3, <2>4
<1>2. Resent(i, S, prop, kn, e) = UNION {Of(s) : s \in S} BY DEF Resent
<1> HIDE DEF Of
<1> QED BY <1>1, <1>2

\* An ordering of the pending requests is a sequence of requests.
LEMMA OrdersType ==
    ASSUME NEW R \in SUBSET Request, NEW q \in Orders(R)
    PROVE  q \in Seq(Request)
<1>1. IsFiniteSet(R) BY RequestAssumption, FS_Subset
<1>2. PICK n \in Nat : n = Cardinality(R) BY <1>1, CardNat
<1>3. q \in [1..n -> R] BY <1>2 DEF Orders
<1> QED BY <1>3

\* The payloads that promises carry are requests.
LEMMA PayloadsType ==
    ASSUME NEW P \in SUBSET Page PROVE Payloads(P) \ {Noop} \in SUBSET Request
<1>1. \A p \in P : \A e \in p.entries : e.value \in Command
  <2> SUFFICES ASSUME NEW p \in P, NEW e \in p.entries PROVE e.value \in Command OBVIOUS
  <2>1. p.entries \in SUBSET Entry BY PageFields
  <2> QED BY <2>1 DEF Entry
<1> QED BY <1>1 DEF Payloads, Command

\* The last page arrives and the coordinator takes over.
LEMMA TakeOverType ==
    ASSUME TypeOK, heard' \in [Replica -> SUBSET Replica], NEW i \in Replica,
           NEW m \in Packet, TakeOver(i, m)
    PROVE  TypeOK'
<1>1. PICK P \in SUBSET Page : P = Collected(i, m) BY CollectedType DEF TakeOver
<1>2. PICK last \in (start[i] - 1)..MaxSlot : last = LastSlot(i, P) BY LastSlotType
<1>3. PICK kn \in SUBSET Request : kn = known[i] \cup (Payloads(P) \ {Noop})
  BY PayloadsType DEF TypeOK
<1> DEFINE span == start[i]..last
           Prop(pick) == [s \in Slot |-> IF s \in span
                            THEN [epoch |-> promise[i], value |-> pick[s]]
                            ELSE proposed[i][s]]
           Plan(pick) == assigned[i] \cup ({pick[s] : s \in span} \ {Noop})
<1>4. /\ MaxSlot \in Nat /\ start[i] \in 0..(MaxSlot + 1) /\ promise[i] \in Epoch
      /\ last \in -1..MaxSlot /\ last + 1 \in 0..(MaxSlot + 1) /\ span \subseteq Slot
  BY <1>2, Numbers, BoundAssumption DEF Slot
<1>5. PICK pick \in [span -> Command] :
        /\ proposed' = [proposed EXCEPT ![i] = Prop(pick)]
        /\ \E q \in Orders(pending[i] \ Plan(pick)) :
              queue' = [queue EXCEPT ![i] = @ \o q]
        /\ assigned' = [assigned EXCEPT ![i] = Plan(pick) \cup pending[i]]
        /\ cursor' = [cursor EXCEPT ![i] = Advance(i, start[i], last)]
        /\ Post(Used(m), Resent(i, Scan(i, start[i], last), Prop(pick), kn, promise[i]))
  BY <1>1, <1>2, <1>3 DEF TakeOver
<1>6. /\ acks' = [acks EXCEPT ![i] = [s \in Slot |-> IF s \in span THEN {} ELSE @[s]]]
      /\ known' = [known EXCEPT ![i] = kn] /\ pages' = [pages EXCEPT ![i] = P]
      /\ preparing' = [preparing EXCEPT ![i] = FALSE] /\ active' = [active EXCEPT ![i] = TRUE]
      /\ high' = [high EXCEPT ![i] = last] /\ next' = [next EXCEPT ![i] = last + 1]
      /\ UNCHANGED <<promise, start, accepted, chosen, votes, local, executed, values,
                     pending, frozen, stalled, clientVars, envVars>>
  BY <1>1, <1>2, <1>3 DEF TakeOver
<1>7. PICK prop \in [Slot -> Ballots] : prop = Prop(pick)
  <2>1. \A s \in Slot : proposed[i][s] \in Ballots BY DEF TypeOK
  <2>2. \A s \in span : [epoch |-> promise[i], value |-> pick[s]] \in Ballots
    BY <1>4 DEF Ballots
  <2> HIDE DEF span
  <2> QED BY <2>1, <2>2
<1>8. PICK plan \in SUBSET Request : plan = Plan(pick)
  <2>1. assigned[i] \in SUBSET Request BY DEF TypeOK
  <2> HIDE DEF span
  <2> QED BY <2>1 DEF Command
<1> HIDE DEF span, Prop, Plan
<1>9. msgs' \in SUBSET Packet
  <2>1. Scan(i, start[i], last) \in SUBSET Slot BY <1>4, ScanType
  <2>2. Resent(i, Scan(i, start[i], last), prop, kn, promise[i]) \in SUBSET Packet
    BY <1>4, <2>1, ResentType
  <2> QED BY <1>5, <1>7, <2>2, PostType
<1>10. cursor' \in [Replica -> 0..(MaxSlot + 1)]
  <2>1. Advance(i, start[i], last) \in 0..(MaxSlot + 1) BY <1>4, ScanType
  <2> QED BY <1>5, <2>1 DEF TypeOK
<1>11. queue' \in [Replica -> Seq(Request)]
  <2>1. PICK q \in Orders(pending[i] \ plan) : queue' = [queue EXCEPT ![i] = @ \o q]
    BY <1>5, <1>8
  <2>2. pending[i] \ plan \in SUBSET Request /\ queue[i] \in Seq(Request) BY DEF TypeOK
  <2>3. q \in Seq(Request) BY <2>2, OrdersType
  <2>4. queue[i] \o q \in Seq(Request) BY <2>2, <2>3, ConcatProperties
  <2> QED BY <2>1, <2>4 DEF TypeOK
<1>12. proposed' \in [Replica -> [Slot -> Ballots]] BY <1>5, <1>7 DEF TypeOK
<1>13. assigned' \in [Replica -> SUBSET Request] BY <1>5, <1>8 DEF TypeOK
<1>14. acks' \in [Replica -> [Slot -> SUBSET Replica]] BY <1>6 DEF TypeOK
<1>15. known' \in [Replica -> SUBSET Request] /\ pages' \in [Replica -> SUBSET Page]
  BY <1>6 DEF TypeOK
<1>16. preparing' \in [Replica -> BOOLEAN] /\ active' \in [Replica -> BOOLEAN]
  BY <1>6 DEF TypeOK
<1>17. high' \in [Replica -> -1..MaxSlot] /\ next' \in [Replica -> 0..(MaxSlot + 1)]
  BY <1>4, <1>6 DEF TypeOK
<1> QED BY <1>6, <1>9, <1>10, <1>11, <1>12, <1>13, <1>14, <1>15, <1>16, <1>17
    DEF TypeOK, clientVars, envVars

-----------------------------------------------------------------------------
(***************************************************************************)
(* Classic rounds and catching up.                                         *)
(***************************************************************************)
LEMMA AcceptType ==
    ASSUME TypeOK, heard' \in [Replica -> SUBSET Replica], NEW i \in Replica,
           NEW m \in Packet, ReceiveAccept(i, m)
    PROVE  TypeOK'
<1>1. /\ m.epoch \in Epoch /\ m.slot \in Slot /\ m.value \in Command /\ m.from \in Replica
      /\ Adopt(i, m.epoch)
  BY PacketFields DEF ReceiveAccept
<1>2. /\ promise' \in [Replica -> Epoch] /\ preparing' \in [Replica -> BOOLEAN]
      /\ frozen' \in [Replica -> SUBSET Page] /\ queue' \in [Replica -> Seq(Request)]
      /\ assigned' \in [Replica -> SUBSET Request]
  BY <1>1, AdoptType
<1>3. msgs' \in SUBSET Packet
  <2>1. {Accepted(i, m.from, m.epoch, m.slot)} \in SUBSET Packet BY <1>1, PacketTypes
  <2> QED BY <2>1, PostType DEF ReceiveAccept
<1>4. high' \in [Replica -> -1..MaxSlot] BY <1>1, RaiseType DEF ReceiveAccept
<1>5. accepted' \in [Replica -> [Slot -> Ballots]]
  <2>1. [epoch |-> m.epoch, value |-> m.value] \in Ballots BY <1>1 DEF Ballots
  <2> QED BY <1>1, <2>1 DEF ReceiveAccept, TypeOK
<1>6. known' \in [Replica -> SUBSET Request] /\ active' \in [Replica -> BOOLEAN]
  BY <1>1 DEF ReceiveAccept, TypeOK, Command
<1> QED BY <1>2, <1>3, <1>4, <1>5, <1>6 DEF ReceiveAccept, TypeOK, clientVars, envVars

\* An acknowledgement arrives.
LEMMA AcceptedType ==
    ASSUME TypeOK, heard' \in [Replica -> SUBSET Replica], NEW i \in Replica,
           NEW m \in Packet, ReceiveAccepted(i, m)
    PROVE  TypeOK'
<1>1. /\ m.slot \in Slot /\ m.from \in Replica /\ proposed[i][m.slot] # None
  BY PacketFields DEF ReceiveAccepted, Counts
<1>2. PICK s \in Slot : s = m.slot BY <1>1
<1>3. PICK v \in Command : v = proposed[i][m.slot].value BY <1>1 DEF TypeOK, Ballots
<1>4. PICK A : A = acks[i][s] \cup {m.from} OBVIOUS
<1>5. acks' = [acks EXCEPT ![i][s] = A] BY <1>2, <1>4 DEF ReceiveAccepted
<1>6. acks' \in [Replica -> [Slot -> SUBSET Replica]] BY <1>1, <1>4, <1>5 DEF TypeOK
<1>7. /\ Applied /\ Proposed
      /\ chosen' \in [Replica -> [Slot -> Command \cup {None}]]
  <2>1. CASE Learn(i, s, v, known[i], Used(m), {Commit(i, j, s, v, TRUE) : j \in Replica})
    <3>1. {Commit(i, j, s, v, TRUE) : j \in Replica} \in SUBSET Packet BY PacketTypes
    <3>2. known[i] \in SUBSET Request BY DEF TypeOK
    <3> QED BY <2>1, <3>1, <3>2, LearnType
  <2>2. CASE /\ Post(Used(m), {})
             /\ UNCHANGED <<accepted, chosen, local, next, high, executed, values, known,
                            pending, stalled, replies>>
    <3>1. msgs' \in SUBSET Packet BY <2>2, PostType
    <3> QED BY <2>2, <3>1 DEF Applied, Proposed, TypeOK
  <2> QED BY <1>2, <1>3, <2>1, <2>2 DEF ReceiveAccepted
<1> QED BY <1>6, <1>7 DEF ReceiveAccepted, TypeOK, Applied, Proposed, roleVars, pageVars, envVars

\* A Commit arrives.
LEMMA CommitType ==
    ASSUME TypeOK, heard' \in [Replica -> SUBSET Replica], NEW i \in Replica,
           NEW m \in Packet, ReceiveCommit(i, m)
    PROVE  TypeOK'
<1>1. PICK s \in Slot : s = m.slot BY PacketFields DEF ReceiveCommit
<1>2. PICK v \in Command : v = m.value BY PacketFields DEF ReceiveCommit
<1>3. PICK kn \in SUBSET Request :
        kn = known[i] \cup (IF m.payload THEN {m.value} \ {Noop} ELSE {})
  BY <1>2 DEF TypeOK, Command
<1>4. Learn(i, s, v, kn, Used(m), {}) BY <1>1, <1>2, <1>3 DEF ReceiveCommit
<1>5. {} \in SUBSET Packet OBVIOUS
<1>6. /\ Applied /\ Proposed
      /\ chosen' \in [Replica -> [Slot -> Command \cup {None}]]
  BY <1>4, <1>5, LearnType
<1> QED BY <1>6 DEF ReceiveCommit, TypeOK, Applied, Proposed, roleVars, pageVars, envVars

\* Epochs are handed out modulo N.
LEMMA OwnerType == ASSUME NEW e \in Nat PROVE Owner(e) \in Replica
BY NAssumption DEF Owner, Replica

\* A heartbeat arrives, and asks for the slots the receiver lacks.
LEMMA HeartbeatType ==
    ASSUME TypeOK, heard' \in [Replica -> SUBSET Replica], NEW i \in Replica,
           NEW m \in Packet, ReceiveHeartbeat(i, m)
    PROVE  TypeOK'
<1>1. /\ m.epoch \in Epoch /\ m.high \in -1..MaxSlot /\ m.from \in Replica
      /\ Adopt(i, m.epoch) /\ Deactivate(i, m.epoch)
  BY PacketFields DEF ReceiveHeartbeat
<1>2. /\ promise' \in [Replica -> Epoch] /\ preparing' \in [Replica -> BOOLEAN]
      /\ frozen' \in [Replica -> SUBSET Page] /\ queue' \in [Replica -> Seq(Request)]
      /\ assigned' \in [Replica -> SUBSET Request] /\ active' \in [Replica -> BOOLEAN]
  BY <1>1, AdoptType, DeactivateType
<1>3. ASSUME m.high > executed[i]
      PROVE  FetchSlots(i, m.from, executed[i] + 1, m.high) \in Packet
  <2>1. executed[i] + 1 \in 0..(MaxSlot + 1) /\ m.high \in Slot
    BY <1>1, <1>3, Numbers, BoundAssumption DEF Slot
  <2> QED BY <1>1, <2>1, PacketTypes
<1>4. PICK out \in SUBSET Packet : Post(Used(m), out) BY <1>3 DEF ReceiveHeartbeat
<1>5. msgs' \in SUBSET Packet BY <1>4, PostType
<1> QED BY <1>2, <1>5 DEF ReceiveHeartbeat, TypeOK, slotVars, logVars, clientVars, envVars

\* Only decided slots are sent on request.
LEMMA FetchSlotsType ==
    ASSUME TypeOK, heard' \in [Replica -> SUBSET Replica], NEW i \in Replica,
           NEW m \in Packet, ReceiveFetchSlots(i, m)
    PROVE  TypeOK'
<1>1. m.from \in Replica BY PacketFields
<1>2. ASSUME NEW s, Runnable(chosen[i], known[i], s)
      PROVE  Commit(i, m.from, s, chosen[i][s], TRUE) \in Packet
  <2>1. s \in Slot /\ chosen[i][s] \in Command BY <1>2 DEF Runnable, TypeOK, Command
  <2> QED BY <1>1, <2>1, PacketTypes
<1>3. PICK out \in SUBSET Packet : Post(Used(m), out) BY <1>2 DEF ReceiveFetchSlots
<1>4. msgs' \in SUBSET Packet BY <1>3, PostType
<1> QED BY <1>4 DEF ReceiveFetchSlots, TypeOK, roleVars, slotVars, logVars, reqVars, pageVars,
                    clientVars, envVars

\* A payload is asked for.
LEMMA FetchValueType ==
    ASSUME TypeOK, heard' \in [Replica -> SUBSET Replica], NEW i \in Replica,
           NEW m \in Packet, ReceiveFetchValue(i, m)
    PROVE  TypeOK'
<1>1. m.from \in Replica /\ m.value \in Request BY PacketFields DEF ReceiveFetchValue
<1>2. {Data(i, m.from, m.value)} \in SUBSET Packet BY <1>1, PacketTypes
<1>3. msgs' \in SUBSET Packet BY <1>2, PostType DEF ReceiveFetchValue
<1> QED BY <1>3 DEF ReceiveFetchValue, TypeOK, roleVars, slotVars, logVars, reqVars, pageVars,
                    clientVars, envVars

\* A payload arrives and decided slots may run.
LEMMA DataType ==
    ASSUME TypeOK, heard' \in [Replica -> SUBSET Replica], NEW i \in Replica,
           NEW m \in Packet, ReceiveData(i, m)
    PROVE  TypeOK'
<1>1. m.value \in Request BY PacketFields DEF ReceiveData
<1>2. PICK kn \in SUBSET Request : kn = known[i] \cup {m.value} BY <1>1 DEF TypeOK
<1>3. Apply(i, chosen[i], kn, {}, {}, proposals[i]) BY <1>2 DEF ReceiveData
<1>4. {} \in SUBSET Request OBVIOUS
<1>5. Applied BY <1>3, <1>4, ApplyType
<1>6. msgs' \in SUBSET Packet BY PostType DEF ReceiveData
<1> QED BY <1>5, <1>6 DEF ReceiveData, TypeOK, Applied, roleVars, slotVars, pageVars, envVars

\* A peer asks for the fast path to be given up.
LEMMA RecoverType ==
    ASSUME TypeOK, heard' \in [Replica -> SUBSET Replica], NEW i \in Replica,
           NEW m \in Packet, ReceiveRecover(i, m)
    PROVE  TypeOK'
<1>1. msgs' \in SUBSET Packet BY PostType DEF ReceiveRecover
<1> QED BY <1>1 DEF ReceiveRecover, TypeOK, roleVars, slotVars, logVars, reqVars, pageVars,
                    clientVars, envVars

\* A packet that the handler drops.
LEMMA IgnoreType ==
    ASSUME TypeOK, heard' \in [Replica -> SUBSET Replica], NEW i \in Replica,
           NEW m \in Packet, Ignore(i, m)
    PROVE  TypeOK'
<1>1. msgs' \in SUBSET Packet BY PostType DEF Ignore
<1> QED BY <1>1 DEF Ignore, TypeOK, roleVars, slotVars, logVars, reqVars, pageVars,
                    clientVars, envVars

-----------------------------------------------------------------------------
(***************************************************************************)
(* The tick.                                                               *)
(***************************************************************************)
LEMMA StalledType ==
    ASSUME TypeOK, NEW i \in Replica, NEW due,
           stalled' = [stalled EXCEPT ![i] = @ \/ Aged(i, due)]
    PROVE  stalled' \in [Replica -> BOOLEAN]
<1>1. PICK b \in BOOLEAN : b = (stalled[i] \/ Aged(i, due)) OBVIOUS
<1>2. stalled' = [stalled EXCEPT ![i] = b] BY <1>1, Zenon
<1> QED BY <1>2 DEF TypeOK

\* Heartbeats are packets.
LEMMA BeatType ==
    ASSUME TypeOK, NEW i \in Replica, NEW due, NEW e \in Epoch
    PROVE  Beat(i, due, e) \in SUBSET Packet
<1>1. executed[i] \in -1..MaxSlot BY Numbers
<1>2. \A j \in Replica : Heartbeat(i, j, e, executed[i]) \in Packet BY <1>1, PacketTypes
<1> QED BY <1>2 DEF Beat

\* The lowest replica that i hears.
LEMMA CandidateType ==
    ASSUME TypeInv, NEW i \in Replica
    PROVE  Candidate(i) \in heard[i] /\ Candidate(i) \in Replica
<1>1. heard[i] \in SUBSET Replica /\ heard[i] # {} BY DEF TypeInv, TypeOK, HearsItself
<1>2. heard[i] \in SUBSET Nat BY <1>1 DEF Replica
<1>3. \E j \in heard[i] : \A k \in heard[i] : j <= k BY <1>1, <1>2, Smallest
<1> QED BY <1>1, <1>3 DEF Candidate

\* What a replica sends again after a second.
LEMMA RetriesType ==
    ASSUME TypeOK, NEW i \in Replica PROVE Retries(i) \in SUBSET Packet
<1>1. Wanted(i) \in SUBSET Request
  <2> SUFFICES ASSUME NEW s \in Slot, chosen[i][s] \notin known[i] \cup {None, Noop}
               PROVE  chosen[i][s] \in Request
    BY DEF Wanted
  <2> QED BY DEF TypeOK, Command
<1>2. \A j \in Replica, v \in Wanted(i) : FetchValue(i, j, v) \in Packet
  BY <1>1, PacketTypes
<1>3. Owner(promise[i]) \in Replica BY Numbers, OwnerType
<1>4. \A r \in pending[i] : Forward(i, Owner(promise[i]), r) \in Packet
  <2>1. pending[i] \in SUBSET Request BY DEF TypeOK
  <2> QED BY <1>3, <2>1, PacketTypes
<1> QED BY <1>2, <1>4 DEF Retries

\* A replica opens an epoch of its own.
LEMMA BeginType ==
    ASSUME TypeInv, NEW i \in Replica, NEW due, TickBegin(i, due)
    PROVE  TypeOK'
<1>1. TypeOK BY DEF TypeInv
<1>2. /\ NextEpoch(i) \in Epoch /\ promise[i] \in Epoch /\ executed[i] + 1 \in 0..(MaxSlot + 1)
  BY <1>1, Numbers, BoundAssumption DEF TickBegin
<1>3. msgs' \in SUBSET Packet
  <2>1. Beat(i, due, promise[i]) \in SUBSET Packet BY <1>1, <1>2, BeatType
  <2>2. \A j \in Replica : Prepare(i, j, NextEpoch(i), executed[i] + 1) \in Packet
    BY <1>2, PacketTypes
  <2>3. PICK out \in SUBSET Packet : Post({}, out) BY <2>1, <2>2 DEF TickBegin
  <2> QED BY <1>1, <2>3, PostType
<1>4. stalled' \in [Replica -> BOOLEAN] BY <1>1, StalledType DEF TickBegin
<1>5. promise' \in [Replica -> Epoch] /\ start' \in [Replica -> 0..(MaxSlot + 1)]
  BY <1>1, <1>2 DEF TickBegin, TypeOK
<1>6. active' \in [Replica -> BOOLEAN] /\ preparing' \in [Replica -> BOOLEAN]
  BY <1>1 DEF TickBegin, TypeOK
<1>7. queue' \in [Replica -> Seq(Request)] /\ assigned' \in [Replica -> SUBSET Request]
  <2>0. <<>> \in Seq(Request) OBVIOUS
  <2>1. PICK none \in Seq(Request) : none = <<>> BY <2>0, Zenon
  <2>2. /\ queue' = [queue EXCEPT ![i] = none] /\ assigned' = [assigned EXCEPT ![i] = {}]
    BY <2>1 DEF TickBegin
  <2> QED BY <1>1, <2>2 DEF TypeOK
<1>8. pages' \in [Replica -> SUBSET Page] /\ frozen' \in [Replica -> SUBSET Page]
  BY <1>1 DEF TickBegin, TypeOK
<1> QED BY <1>1, <1>3, <1>4, <1>5, <1>6, <1>7, <1>8
    DEF TickBegin, TypeOK, slotVars, logVars, clientVars, envVars

\* The tick of a replica that does not coordinate.
LEMMA FollowType ==
    ASSUME TypeInv, NEW i \in Replica, NEW due, TickFollow(i, due)
    PROVE  TypeOK'
<1>1. TypeOK BY DEF TypeInv
<1>2. msgs' \in SUBSET Packet
  <2>1. promise[i] \in Epoch /\ start[i] \in 0..(MaxSlot + 1) BY <1>1, Numbers
  <2>2. Beat(i, due, promise[i]) \in SUBSET Packet BY <1>1, <2>1, BeatType
  <2>3. Recover(i, Candidate(i)) \in Packet BY CandidateType, PacketTypes
  <2>4. \A j \in Replica : Prepare(i, j, promise[i], start[i]) \in Packet
    BY <2>1, PacketTypes
  <2>5. Retries(i) \in SUBSET Packet BY <1>1, RetriesType
  <2>6. PICK out \in SUBSET Packet : Post({}, out)
    BY <2>2, <2>3, <2>4, <2>5 DEF TickFollow
  <2> QED BY <1>1, <2>6, PostType
<1>3. stalled' \in [Replica -> BOOLEAN] BY <1>1, StalledType DEF TickFollow
<1> QED BY <1>1, <1>2, <1>3 DEF TickFollow, TypeOK, roleVars, slotVars, logVars, reqVars,
                               pageVars, clientVars, envVars

\* The slots that flush gives to requests, in a row from next on.
LEMMA SlotsType ==
    ASSUME TypeOK, NEW i \in Replica
    PROVE  /\ \A s \in Slots(i) : s \in Nat /\ next[i] <= s /\ RequestAt(i, s) \in Request
           /\ Cardinality(Reads(i)) \in Nat
<1>1. PICK n : n = next[i] OBVIOUS
<1>2. n \in Nat BY <1>1, Numbers
<1>3. queue[i] \in Seq(Request) BY DEF TypeOK
<1>4. ASSUME NEW k \in Int PROVE Fresh(i, k) \in Nat
  <2>1. IsFiniteSet(1..k) BY <1>4, IntervalSize
  <2>2. {a \in 1..k : queue[i][a] \notin Done(i)} \in SUBSET (1..k) OBVIOUS
  <2>3. IsFiniteSet({a \in 1..k : queue[i][a] \notin Done(i)}) BY <2>1, <2>2, FS_Subset
  <2> QED BY <2>3, CardNat DEF Fresh
<1>5. Reads(i) \subseteq 1..Len(queue[i]) BY <1>3 DEF Reads
<1>6. ASSUME NEW s \in Slots(i)
      PROVE  s \in Nat /\ next[i] <= s /\ RequestAt(i, s) \in Request
  <2>1. PICK k \in Reads(i) : queue[i][k] \notin Done(i) /\ n + Fresh(i, k - 1) = s
    BY <1>1 DEF Slots
  <2>2. k - 1 \in Int BY <1>3, <1>5
  <2>3. s \in Nat /\ n <= s BY <1>2, <1>4, <2>1, <2>2
  <2>4. \E a \in Reads(i) : queue[i][a] \notin Done(i) /\ next[i] + Fresh(i, a - 1) = s
    BY <1>1, <2>1
  <2>5. PICK a \in Reads(i) : RequestAt(i, s) = queue[i][a] BY <2>4 DEF RequestAt
  <2>6. a \in DOMAIN queue[i] BY DEF Reads
  <2> QED BY <1>1, <1>3, <2>3, <2>5, <2>6
<1>7. Cardinality(Reads(i)) \in Nat
  <2>1. Len(queue[i]) \in Int BY <1>3
  <2>2. IsFiniteSet(1..Len(queue[i])) BY <2>1, IntervalSize
  <2>3. IsFiniteSet(Reads(i)) BY <1>5, <2>2, FS_Subset
  <2> QED BY <2>3, CardNat
<1> QED BY <1>6, <1>7

\* The tick of the coordinator: flush, resend, retry.
LEMMA LeadType ==
    ASSUME TypeInv, NEW i \in Replica, NEW due, TickLead(i, due)
    PROVE  TypeOK'
<1>1. TypeOK BY DEF TypeInv
<1>2. PICK S : S = Slots(i) OBVIOUS
<1>3. PICK prop : prop = [s \in Slot |-> IF s \in S
                            THEN [epoch |-> promise[i], value |-> RequestAt(i, s)]
                            ELSE proposed[i][s]]
  OBVIOUS
<1>4. PICK hi : hi = IF S = {} THEN high[i] ELSE Top(high[i], next[i] + Cardinality(S) - 1)
  OBVIOUS
<1>5. /\ S \subseteq 0..world.last
      /\ queue' = [queue EXCEPT ![i] = SubSeq(@, Cardinality(Reads(i)) + 1, Len(@))]
      /\ next' = [next EXCEPT ![i] = @ + Cardinality(S)]
      /\ high' = [high EXCEPT ![i] = hi]
      /\ proposed' = [proposed EXCEPT ![i] = prop]
      /\ acks' = [acks EXCEPT ![i] = [s \in Slot |-> IF s \in S THEN {} ELSE @[s]]]
      /\ cursor' = [cursor EXCEPT ![i] = IF "repair" \in due THEN Advance(i, @, hi) ELSE @]
      /\ Post({}, Beat(i, due, promise[i])
            \cup {Accept(i, j, promise[i], s, prop[s].value) : j \in Replica, s \in S}
            \cup (IF "repair" \in due
                  THEN Resent(i, Scan(i, cursor[i], hi), prop, known[i], promise[i]) ELSE {})
            \cup (IF "retry" \in due THEN Retries(i) ELSE {}))
      /\ UNCHANGED <<roleVars, accepted, chosen, votes, local, executed, values, known,
                     pending, assigned, pageVars, stalled, heard, clientVars, envVars>>
  BY <1>2, <1>3, <1>4 DEF TickLead
<1>6. /\ MaxSlot \in Nat /\ next[i] \in 0..(MaxSlot + 1) /\ high[i] \in -1..MaxSlot
      /\ promise[i] \in Epoch /\ cursor[i] \in 0..(MaxSlot + 1) /\ world.last \in Slot
      /\ known[i] \in SUBSET Request /\ queue[i] \in Seq(Request)
  BY <1>1, Numbers, BoundAssumption DEF TypeOK
<1>7. S \subseteq Slot BY <1>5, <1>6 DEF Slot
<1>0. PICK n \in Nat : n = next[i] /\ n <= MaxSlot + 1
  <2>1. next[i] \in 0..(MaxSlot + 1) /\ MaxSlot \in Nat BY <1>6
  <2> QED BY <2>1
<1>8. PICK c \in Nat : /\ c = Cardinality(S) /\ n + c <= MaxSlot + 1
                       /\ S # {} => c > 0
  <2>0. MaxSlot \in Nat BY <1>6
  <2>1. S \in SUBSET (n..MaxSlot) BY <1>0, <1>1, <1>2, <1>6, <1>7, SlotsType DEF Slot
  <2>2. /\ IsFiniteSet(n..MaxSlot)
        /\ Cardinality(n..MaxSlot) = IF n > MaxSlot THEN 0 ELSE MaxSlot - n + 1
    BY <2>0, IntervalSize
  <2>3. IsFiniteSet(S) /\ Cardinality(S) <= Cardinality(n..MaxSlot)
    BY <2>1, <2>2, FS_Subset
  <2>4. Cardinality(S) \in Nat BY <2>3, CardNat
  <2>5. S # {} => Cardinality(S) # 0 BY <2>3, FS_EmptySet
  <2> QED BY <1>0, <2>0, <2>2, <2>3, <2>4, <2>5
<1>9. hi \in -1..MaxSlot
  <2>1. CASE S = {} BY <1>4, <1>6, <2>1
  <2>2. CASE S # {}
    <3>0. MaxSlot \in Nat BY <1>6
    <3>1. n + c - 1 \in -1..MaxSlot BY <1>0, <1>8, <3>0
    <3>2. hi = Top(high[i], n + c - 1) BY <1>0, <1>4, <1>8, <2>2
    <3> QED BY <1>6, <3>1, <3>2, TopType
  <2> QED BY <2>1, <2>2
<1>10. prop \in [Slot -> Ballots]
  <2>1. \A s \in Slot : proposed[i][s] \in Ballots BY <1>1 DEF TypeOK
  <2>2. \A s \in S : RequestAt(i, s) \in Request BY <1>1, <1>2, SlotsType
  <2>3. \A s \in S : [epoch |-> promise[i], value |-> RequestAt(i, s)] \in Ballots
    BY <1>6, <2>2 DEF Ballots, Command
  <2> QED BY <1>3, <2>1, <2>3
<1>11. msgs' \in SUBSET Packet
  <2>1. Beat(i, due, promise[i]) \in SUBSET Packet BY <1>1, <1>6, BeatType
  <2>2. \A j \in Replica, s \in S : Accept(i, j, promise[i], s, prop[s].value) \in Packet
    <3>1. \A s \in S : prop[s].value \in Command
      <4>1. \A s \in S : prop[s].value = RequestAt(i, s) BY <1>3, <1>7
      <4>2. \A s \in S : RequestAt(i, s) \in Request BY <1>1, <1>2, SlotsType
      <4> QED BY <4>1, <4>2 DEF Command
    <3> QED BY <1>6, <1>7, <3>1, PacketTypes
  <2>3. Resent(i, Scan(i, cursor[i], hi), prop, known[i], promise[i]) \in SUBSET Packet
    <3>1. Scan(i, cursor[i], hi) \in SUBSET Slot BY <1>1, <1>6, <1>9, ScanType
    <3> QED BY <1>1, <1>6, <1>10, <3>1, ResentType
  <2>4. Retries(i) \in SUBSET Packet BY <1>1, RetriesType
  <2> DEFINE accepts == {Accept(i, j, promise[i], s, prop[s].value) : j \in Replica, s \in S}
  <2>5. accepts \in SUBSET Packet BY <2>2
  <2>6. PICK out : /\ Post({}, out)
                   /\ out = Beat(i, due, promise[i]) \cup accepts
                        \cup (IF "repair" \in due
                              THEN Resent(i, Scan(i, cursor[i], hi), prop, known[i], promise[i])
                              ELSE {})
                        \cup (IF "retry" \in due THEN Retries(i) ELSE {})
    BY <1>5
  <2> HIDE DEF accepts
  <2>7. out \in SUBSET Packet BY <2>1, <2>3, <2>4, <2>5, <2>6
  <2> QED BY <1>1, <2>6, <2>7, PostType
<1>12. queue' \in [Replica -> Seq(Request)]
  <2>1. PICK k \in Nat : k = Cardinality(Reads(i)) BY <1>1, SlotsType
  <2>2. SubSeq(queue[i], k + 1, Len(queue[i])) \in Seq(Request) BY <1>6, <2>1
  <2> QED BY <1>1, <1>5, <2>1, <2>2 DEF TypeOK
<1>13. next' \in [Replica -> 0..(MaxSlot + 1)]
  <2>0. MaxSlot \in Nat BY <1>6
  <2>1. n + c \in 0..(MaxSlot + 1) BY <1>0, <1>8, <2>0
  <2>2. next' = [next EXCEPT ![i] = n + c] BY <1>0, <1>1, <1>5, <1>8 DEF TypeOK
  <2> QED BY <1>1, <2>1, <2>2 DEF TypeOK
<1>14. high' \in [Replica -> -1..MaxSlot] BY <1>1, <1>5, <1>9 DEF TypeOK
<1>15. proposed' \in [Replica -> [Slot -> Ballots]] BY <1>1, <1>5, <1>10 DEF TypeOK
<1>16. acks' \in [Replica -> [Slot -> SUBSET Replica]] BY <1>1, <1>5 DEF TypeOK
<1>17. cursor' \in [Replica -> 0..(MaxSlot + 1)]
  <2>1. Advance(i, cursor[i], hi) \in 0..(MaxSlot + 1) BY <1>1, <1>6, <1>9, ScanType
  <2> QED BY <1>1, <1>5, <2>1 DEF TypeOK
<1> QED BY <1>1, <1>5, <1>11, <1>12, <1>13, <1>14, <1>15, <1>16, <1>17
    DEF TypeOK, roleVars, pageVars, clientVars, envVars

-----------------------------------------------------------------------------
(***************************************************************************)
(* The environment, and the theorem.                                       *)
(***************************************************************************)
LEMMA EnvironmentType ==
    ASSUME TypeInv, \/ \E i, j \in Replica : Silence(i, j)
                    \/ \E i \in Replica : Crash(i)
                    \/ \E m \in msgs : Lose(m)
    PROVE  TypeInv'
<1>1. ASSUME NEW i \in Replica, NEW j \in Replica, Silence(i, j) PROVE TypeInv'
  <2>1. TypeOK' BY <1>1 DEF Silence, TypeInv, TypeOK, roleVars, slotVars, logVars, reqVars,
                           pageVars, clientVars, envVars
  <2>2. HearsItself'
    <3>1. j # i /\ heard' = [heard EXCEPT ![i] = @ \ {j}] BY <1>1 DEF Silence
    <3> QED BY <3>1 DEF TypeInv, TypeOK, HearsItself
  <2> QED BY <2>1, <2>2 DEF TypeInv
<1>2. ASSUME NEW i \in Replica, Crash(i) PROVE TypeInv'
  <2>1. msgs' \subseteq msgs /\ crashed' \in SUBSET Replica BY <1>2 DEF Crash, TypeInv, TypeOK
  <2>2. TypeOK' BY <1>2, <2>1 DEF Crash, TypeInv, TypeOK, roleVars, slotVars, logVars, reqVars,
                                 pageVars, clientVars
  <2>3. HearsItself' BY <1>2 DEF Crash, TypeInv, HearsItself
  <2> QED BY <2>2, <2>3 DEF TypeInv
<1>3. ASSUME NEW m \in msgs, Lose(m) PROVE TypeInv'
  <2>1. msgs' \subseteq msgs BY <1>3 DEF Lose
  <2>2. lost' \in 0..world'.losses
    <3>1. /\ lost \in 0..world.losses /\ world.losses \in 0..1 /\ lost < world.losses
          /\ lost' = lost + 1 /\ world' = world
      BY <1>3, WorldAssumption DEF Lose, TypeInv, TypeOK
    <3> QED BY <3>1
  <2>3. TypeOK' BY <1>3, <2>1, <2>2 DEF Lose, TypeInv, TypeOK, roleVars, slotVars, logVars,
                                       reqVars, pageVars, clientVars
  <2>4. HearsItself' BY <1>3 DEF Lose, TypeInv, HearsItself
  <2> QED BY <2>3, <2>4 DEF TypeInv
<1> QED BY <1>1, <1>2, <1>3

\* Every packet keeps the types.
LEMMA ReceiveType ==
    ASSUME TypeInv, NEW m \in msgs, Receive(m.to, m)
    PROVE  TypeInv'
<1>1. TypeOK /\ m \in Packet BY DEF TypeInv, TypeOK
<1>2. PICK i \in Replica : i = m.to BY <1>1, PacketFields
<1>3. heard' = [heard EXCEPT ![i] = @ \cup {m.from}] BY <1>2 DEF Receive
<1>4. heard' \in [Replica -> SUBSET Replica] /\ HearsItself'
  BY <1>1, <1>3, PacketFields DEF TypeInv, TypeOK, HearsItself
<1>5. \/ ReceiveVote(i, m) \/ ReceivePrepare(i, m) \/ CollectPromise(i, m) \/ TakeOver(i, m)
      \/ ReceiveAccept(i, m) \/ ReceiveAccepted(i, m) \/ ReceiveCommit(i, m)
      \/ ReceiveHeartbeat(i, m) \/ ReceiveFetchSlots(i, m) \/ ReceiveFetchValue(i, m)
      \/ ReceiveData(i, m) \/ ReceiveForward(i, m) \/ ReceiveNack(i, m) \/ ReceiveStale(i, m)
      \/ ReceiveRecover(i, m) \/ Ignore(i, m)
  BY <1>2 DEF Receive
<1>6. TypeOK'
  BY <1>1, <1>4, <1>5, VoteType, PrepareType, CollectType, TakeOverType, AcceptType,
     AcceptedType, CommitType, HeartbeatType, FetchSlotsType, FetchValueType, DataType,
     ForwardType, NackType, StaleType, RecoverType, IgnoreType
<1> QED BY <1>4, <1>6 DEF TypeInv

\* The initial state.
LEMMA InitType == Init => TypeInv
<1> SUFFICES ASSUME Init PROVE TypeInv OBVIOUS
<1>1. /\ 0 \in Epoch /\ 0 \in 0..(MaxSlot + 1) /\ -1 \in -1..MaxSlot
  BY BoundAssumption DEF Epoch
<1>2. <<>> \in Seq(Request) OBVIOUS
<1>3. 0 \in 0..world.losses
  <2>1. world.losses \in 0..1 BY WorldAssumption DEF Init
  <2> QED BY <2>1
<1>4. TypeOK BY <1>1, <1>2, <1>3 DEF Init, TypeOK, PerSlot, PerReplica, Ballots
<1>5. HearsItself BY DEF Init, PerReplica, HearsItself
<1> QED BY <1>4, <1>5 DEF TypeInv

\* TypeInv is inductive.
LEMMA NextType == TypeInv /\ [Next]_vars => TypeInv'
<1> SUFFICES ASSUME TypeInv, [Next]_vars PROVE TypeInv' OBVIOUS
<1>1. TypeOK BY DEF TypeInv
<1>2. ASSUME NEW i \in Replica, NEW r \in Request, Propose(i, r) PROVE TypeInv'
  <2>1. TypeOK' BY <1>1, <1>2, ProposeType
  <2>2. HearsItself' BY <1>2 DEF Propose, TypeInv, HearsItself
  <2> QED BY <2>1, <2>2 DEF TypeInv
<1>3. ASSUME NEW i \in Replica, NEW due, TickBegin(i, due) \/ TickFollow(i, due) \/ TickLead(i, due)
      PROVE  TypeInv'
  <2>1. TypeOK' BY <1>3, BeginType, FollowType, LeadType
  <2>2. heard' = heard BY <1>3 DEF TickBegin, TickFollow, TickLead
  <2>3. HearsItself' BY <2>2 DEF TypeInv, HearsItself
  <2> QED BY <2>1, <2>3 DEF TypeInv
<1>4. CASE UNCHANGED vars
  BY <1>4 DEF vars, TypeInv, TypeOK, HearsItself, roleVars, slotVars, logVars, reqVars, pageVars,
              clientVars, envVars
<1> QED BY <1>2, <1>3, <1>4, EnvironmentType, ReceiveType DEF Next

\* TypeOK alone is not inductive: a tick sends Recover to the lowest replica
\* heard, so a replica must have heard somebody, and it always hears itself.
THEOREM FastPaxosTypes == Spec => []TypeOK
<1>1. Init => TypeInv BY InitType
<1>2. TypeInv /\ [Next]_vars => TypeInv' BY NextType
<1>3. TypeInv => TypeOK BY DEF TypeInv
<1> QED BY <1>1, <1>2, <1>3, PTL DEF Spec

-----------------------------------------------------------------------------
(***************************************************************************)
(* How a step moves.                                                       *)
(***************************************************************************)
\* Packet m reaches replica i, which handles its own packets first.
Arrives(i, m) == m \in msgs /\ m.to = i /\ i \notin crashed /\ (m.from = i \/ Idle)
\* Replica i takes over in its epoch.
TookOver(i) == \E m \in msgs : Arrives(i, m) /\ TakeOver(i, m)
\* Replica i answers a Prepare with a new snapshot.
Froze(i, m) ==
    Arrives(i, m) /\ ReceivePrepare(i, m) /\ ~(m.epoch = promise[i] /\ frozen[i] # {})

\* Epochs only grow, and a replica enters one as its coordinator or after it was
\* begun; it starts to lead by taking over.
RoleMove(i) ==
    /\ promise[i] <= promise'[i]
    /\ promise'[i] = promise[i] =>
          /\ start'[i] = start[i]
          /\ preparing'[i] = preparing[i] \/ (TookOver(i) /\ ~preparing'[i])
    /\ promise'[i] # promise[i] =>
          /\ Idle /\ i \notin crashed
          /\ IF preparing'[i] THEN Owner(promise'[i]) = i
             ELSE Owner(promise'[i]) # i /\ Begun(promise'[i])
    /\ preparing'[i] => ~active'[i]
RoleMoves == \A i \in Replica : RoleMove(i)

\* A fast vote takes the next slot, a classic one answers an Accept.
FastVoted(i, s) ==
    /\ promise[i] = 0 /\ promise'[i] = 0 /\ accepted[i][s] = None
    /\ s = next[i] /\ next'[i] = s + 1 /\ s <= high'[i]
    /\ accepted'[i][s] # None /\ accepted'[i][s].epoch = 0 /\ accepted'[i][s].value # Noop
ClassicVoted(i, s, m) ==
    /\ m.kind = "Accept" /\ m.to = i /\ m.slot = s /\ m.epoch = promise'[i] /\ s <= high'[i]
    /\ accepted'[i][s] = [epoch |-> m.epoch, value |-> m.value]
VoteMoves ==
    \A i \in Replica :
        /\ (next[i] <= next'[i] /\ high[i] <= high'[i]) \/ TookOver(i)
        /\ \A s \in Slot : \/ accepted'[i][s] = accepted[i][s]
                           \/ FastVoted(i, s)
                           \/ \E m \in msgs : ClassicVoted(i, s, m)

\* A coordinator plans a slot once, after its log or when it takes over.
NewPlan(i, s) ==
    /\ promise'[i] = promise[i] /\ start[i] <= s /\ s < next'[i] /\ acks'[i][s] = {}
    /\ proposed'[i][s] # None /\ proposed'[i][s].epoch = promise[i]
    /\ (Leading(i) /\ next[i] <= s) \/ TookOver(i)
PlanMoves == \A i \in Replica, s \in Slot : proposed'[i][s] = proposed[i][s] \/ NewPlan(i, s)

\* What is counted has arrived.
AckMoves ==
    \A i \in Replica, s \in Slot :
        /\ \A x \in votes'[i][s] : x \in votes[i][s] \/ \E m \in msgs :
              m.kind = "Vote" /\ m.from = x.from /\ m.slot = s /\ m.value = x.value
        /\ \A q \in acks'[i][s] : q \in acks[i][s] \/ \E m \in msgs :
              /\ m.kind = "Accepted" /\ m.from = q /\ m.slot = s /\ m.epoch = promise[i]
              /\ Owner(promise[i]) = i /\ Planning(i, s)

\* A decision is heard of, or won by a quorum of votes.
Won(s, v) ==
    \E e \in Epoch : /\ e > 0 => Known(s, e, v)
                     /\ \E Q \in QuorumOf(e) : \A q \in Q : Acked(q, e, s, v)
ChoiceMoves ==
    \A i \in Replica, s \in Slot :
        \/ chosen'[i][s] = chosen[i][s]
        \/ Claimed(s, chosen'[i][s]) \/ Won(s, chosen'[i][s])

Sent(m) ==
    /\ m.kind = "Vote" =>
          /\ promise'[m.from] = 0 /\ accepted[m.from][m.slot] = None
          /\ accepted'[m.from][m.slot] = [epoch |-> 0, value |-> m.value]
    /\ m.kind = "Accepted" =>
          /\ promise'[m.from] = m.epoch
          /\ accepted'[m.from][m.slot] # None /\ accepted'[m.from][m.slot].epoch = m.epoch
          /\ \E a \in msgs : a.kind = "Accept" /\ a.epoch = m.epoch /\ a.slot = m.slot
    /\ m.kind = "Accept" =>
          /\ m.epoch = promise[m.from] /\ m.epoch > 0 /\ Owner(m.epoch) = m.from
          /\ promise'[m.from] = promise[m.from] /\ ~preparing'[m.from]
          /\ proposed'[m.from][m.slot] = [epoch |-> m.epoch, value |-> m.value]
          /\ \/ accepted[m.from][m.slot] = [epoch |-> m.epoch, value |-> m.value]
             \/ \E a \in msgs' : /\ a.kind = "Accept" /\ a.from = a.to
                                 /\ a.epoch = m.epoch /\ a.slot = m.slot
    /\ m.kind = "Commit" => Claimed(m.slot, m.value) \/ Won(m.slot, m.value)
    /\ m.kind = "Prepare" =>
          /\ m.epoch = promise'[m.from] /\ m.epoch > 0 /\ m.from = Owner(m.epoch)
          /\ m.start = start'[m.from]
    /\ m.kind \in {"Heartbeat", "Nack"} => m.epoch = promise[m.from]
SendMoves == \A m \in msgs' : m \in msgs \/ Sent(m)

\* Promise pages are made by Froze only, and dropped with the epoch.
PageMoves ==
    \/ /\ Promised' \subseteq Promised
       /\ \A i \in Replica :
             frozen'[i] = IF promise'[i] = promise[i] THEN frozen[i] ELSE {}
    \/ \E i \in Replica : \E m \in msgs : Froze(i, m)

\* An Accept to oneself is not lost: it is voted for before anything else.
PledgeMoves ==
    /\ crashed \subseteq crashed'
    /\ \A m \in msgs : m.kind = "Accept" /\ m.from = m.to =>
          \/ m \in msgs' \/ m.from \in crashed' \/ m.epoch < promise[m.from]
          \/ /\ accepted'[m.from][m.slot] # None
             /\ accepted'[m.from][m.slot].epoch = m.epoch

\* Nothing about the preparation of i changes.
StillPrepares(i) ==
    /\ preparing[i] /\ promise'[i] = promise[i] /\ start'[i] = start[i]
    /\ pages'[i] = pages[i] /\ frozen'[i] = frozen[i] /\ accepted'[i] = accepted[i]
    /\ i \in crashed => i \in crashed'
    /\ \A m \in msgs' : OwnPage(i, m) => m \in msgs
    /\ i \in crashed' \/ \A m \in msgs : OwnPage(i, m) => m \in msgs'
PrepareMoves ==
    \A i \in Replica :
        \/ ~preparing'[i]
        \/ StillPrepares(i)
        \/ \E due : TickBegin(i, due)
        \/ \E m \in msgs : Arrives(i, m) /\ (ReceivePrepare(i, m) \/ CollectPromise(i, m))

Moves ==
    /\ RoleMoves /\ VoteMoves /\ PlanMoves /\ AckMoves /\ ChoiceMoves
    /\ SendMoves /\ PageMoves /\ PledgeMoves /\ PrepareMoves

-----------------------------------------------------------------------------
(***************************************************************************)
(* Steps that leave a part alone.                                          *)
(***************************************************************************)
\* Nobody changes its epoch or role.
LEMMA StillRoles ==
    ASSUME TypeOK, Roles, UNCHANGED roleVars
    PROVE  RoleMoves
<1>1. \A i \in Replica : promise[i] \in Nat BY Numbers
<1> QED BY <1>1 DEF Roles, RoleMoves, RoleMove, roleVars

\* Nobody votes.
LEMMA StillVotes ==
    ASSUME TypeOK, accepted' = accepted, next' = next,
           \A i \in Replica : high[i] <= high'[i]
    PROVE  VoteMoves
<1>1. \A i \in Replica : next[i] \in Nat BY Numbers
<1> QED BY <1>1 DEF VoteMoves

\* Nobody plans, counts or decides.
LEMMA StillPlans ==
    /\ proposed' = proposed => PlanMoves
    /\ votes' = votes /\ acks' = acks => AckMoves
    /\ chosen' = chosen => ChoiceMoves
<1>1. proposed' = proposed => PlanMoves BY DEF PlanMoves
<1>2. votes' = votes /\ acks' = acks => AckMoves BY DEF AckMoves
<1>3. chosen' = chosen => ChoiceMoves BY DEF ChoiceMoves
<1> QED BY <1>1, <1>2, <1>3

\* What a step puts on the wire.
LEMMA PostSends ==
    ASSUME NEW used, NEW out, Post(used, out), \A m \in out : Sent(m)
    PROVE  SendMoves
BY DEF Post, SendMoves

\* A packet that is not a replica's own Accept or promise, unless it is stale.
Plain(m) ==
    /\ m.kind = "Accept" => m.from # m.to \/ m.epoch < promise[m.from]
    /\ m.from = m.to => ~(preparing[m.from] /\ OwnPage(m.from, m))
\* A packet that is not a promise, nor asks its sender for one.
Aside(m) == m.kind # "Promise" /\ (m.kind = "Prepare" => m.from # m.to)

\* No promise is made, and a replica's own packets stay.
LEMMA StillPromises ==
    ASSUME TypeOK, Roles, NEW used, NEW out, Post(used, out),
           \A m \in used : Plain(m), \A m \in out : Aside(m),
           UNCHANGED <<roleVars, pageVars, crashed>>,
           \A i \in Replica : promise[i] > 0 => accepted'[i] = accepted[i]
    PROVE  PageMoves /\ PledgeMoves /\ PrepareMoves
<1>1. PageMoves
  <2>1. Promised' \subseteq Promised BY DEF Post, Aside, Promised, pageVars
  <2> QED BY <2>1 DEF PageMoves, pageVars, roleVars
<1>2. PledgeMoves BY DEF Post, Plain, PledgeMoves
<1>3. PrepareMoves
  <2> SUFFICES ASSUME NEW i \in Replica, preparing'[i] PROVE StillPrepares(i)
    BY DEF PrepareMoves
  <2>1. preparing[i] /\ promise'[i] = promise[i] /\ promise[i] > 0 BY DEF Roles, roleVars
  <2>2. \A m \in msgs' : OwnPage(i, m) => m \in msgs BY DEF OwnPage, Post, Aside
  <2>3. \A m \in msgs : OwnPage(i, m) => m \in msgs' BY <2>1 DEF OwnPage, Post, Plain
  <2> QED BY <2>1, <2>2, <2>3 DEF StillPrepares, roleVars, pageVars
<1> QED BY <1>1, <1>2, <1>3

-----------------------------------------------------------------------------
(***************************************************************************)
(* The fast path.                                                          *)
(***************************************************************************)
\* Votes and packets, of a step that leaves the classic voters alone.
Casts(used) ==
    /\ VoteMoves
    /\ \E out : Post(used, out) /\ \A m \in out : Aside(m) /\ Sent(m)
    /\ \A j \in Replica : promise[j] > 0 => accepted'[j] = accepted[j]

\* A fast voter votes in its next slot.
LEMMA ProposeFastMoves ==
    ASSUME TypeOK, VoteShape, NEW i \in Replica, NEW r \in Request, NEW loc,
           NEW hi \in -1..MaxSlot, high[i] <= hi, NEW used, promise[i] = 0,
           UNCHANGED roleVars, ProposeFast(i, r, loc, hi, used)
    PROVE  Casts(used)
<1>1. /\ MaxSlot \in Nat /\ \A j \in Replica : next[j] \in Nat /\ high[j] \in Int
  BY Numbers, BoundAssumption
<1>2. CASE next[i] - executed'[i] - 1 >= FastWindow
  <2>1. /\ high' = [high EXCEPT ![i] = hi] /\ Post(used, {}) /\ UNCHANGED <<next, accepted>>
    BY <1>2 DEF ProposeFast
  <2>2. \A j \in Replica : high[j] <= high'[j] BY <1>1, <2>1 DEF TypeOK
  <2>3. VoteMoves BY <2>1, <2>2, StillVotes
  <2> QED BY <2>1, <2>3 DEF Casts
<1>3. CASE ~(next[i] - executed'[i] - 1 >= FastWindow)
  <2>1. PICK n : n = next[i] OBVIOUS
  <2>2. /\ n <= world.last /\ next' = [next EXCEPT ![i] = n + 1]
        /\ high' = [high EXCEPT ![i] = Top(hi, n)]
        /\ accepted' = [accepted EXCEPT ![i][n] = [epoch |-> 0, value |-> r]]
        /\ Post(used, {Vote(i, j, n, r) : j \in Replica})
    BY <1>3, <2>1 DEF ProposeFast, TypeOK
  <2>3. n \in Slot /\ n \in Nat BY <1>1, <2>1, <2>2, Numbers DEF Slot
  <2>4. hi <= Top(hi, n) /\ n <= Top(hi, n) /\ Top(hi, n) \in Int BY <1>1, <2>3, TopLeast
  <2>5. accepted[i][n] = None BY <1>1, <2>1, <2>3 DEF VoteShape
  <2>6. r # Noop BY RequestAssumption
  <2>7. accepted'[i][n] = [epoch |-> 0, value |-> r] BY <2>2, <2>3 DEF TypeOK
  <2>8. [epoch |-> 0, value |-> r] # None
    <3>1. [epoch |-> 0, value |-> r] \in [epoch : Epoch, value : Command]
      BY BoundAssumption DEF Epoch, Command
    <3> QED BY <3>1, NoneAssumption
  <2>9. VoteMoves
    <3>1. ASSUME NEW j \in Replica PROVE next[j] <= next'[j] /\ high[j] <= high'[j]
      <4>1. next'[j] = IF j = i THEN n + 1 ELSE next[j] BY <2>2 DEF TypeOK
      <4>2. high'[j] = IF j = i THEN Top(hi, n) ELSE high[j] BY <2>2 DEF TypeOK
      <4>3. next[j] \in Nat /\ high[j] \in Int /\ hi \in Int BY <1>1
      <4>4. CASE j = i BY <2>1, <2>3, <2>4, <4>1, <4>2, <4>3, <4>4
      <4>5. CASE j # i BY <4>1, <4>2, <4>3, <4>5
      <4> QED BY <4>4, <4>5
    <3>2. FastVoted(i, n)
      BY <1>1, <2>1, <2>2, <2>3, <2>4, <2>5, <2>6, <2>7, <2>8 DEF FastVoted, TypeOK, roleVars
    <3>3. ASSUME NEW j \in Replica, NEW s \in Slot
          PROVE  accepted'[j][s] = accepted[j][s] \/ FastVoted(j, s)
      BY <2>2, <3>2 DEF TypeOK
    <3> QED BY <3>1, <3>3 DEF VoteMoves
  <2>10. ASSUME NEW j \in Replica PROVE Aside(Vote(i, j, n, r)) /\ Sent(Vote(i, j, n, r))
    BY <2>5, <2>7 DEF Aside, Sent, Vote, roleVars
  <2>11. \A j \in Replica : promise[j] > 0 => accepted'[j] = accepted[j]
    BY <2>2 DEF TypeOK
  <2> QED BY <2>2, <2>9, <2>10, <2>11 DEF Casts
<1> QED BY <1>2, <1>3

\* A replica that does not vote may still hear of a slot.
LEMMA NoProposalMoves ==
    ASSUME TypeOK, NEW i \in Replica, NEW hi \in -1..MaxSlot, high[i] <= hi, NEW used, NEW out,
           \A m \in out : Aside(m) /\ Sent(m), NoProposal(i, hi, used, out)
    PROVE  Casts(used)
<1>1. \A j \in Replica : high[j] \in Int BY Numbers
<1>2. high' = [high EXCEPT ![i] = hi] /\ UNCHANGED <<next, accepted>> /\ Post(used, out)
  BY DEF NoProposal
<1>3. \A j \in Replica : high[j] <= high'[j] BY <1>1, <1>2 DEF TypeOK
<1>4. VoteMoves BY <1>2, <1>3, StillVotes
<1> QED BY <1>2, <1>4 DEF Casts

\* A decision may set off a fast vote in a later slot.
LEMMA LearnMoves ==
    ASSUME TypeOK, VoteShape, NEW i \in Replica, NEW s \in Slot, NEW v, NEW kn, NEW used, NEW out,
           Claimed(s, v) \/ Won(s, v), \A m \in out : Aside(m) /\ Sent(m),
           UNCHANGED roleVars, Learn(i, s, v, kn, used, out)
    PROVE  Casts(used) /\ ChoiceMoves
<1>1. chosen' = [chosen EXCEPT ![i][s] = v] BY DEF Learn
<1>2. ChoiceMoves BY <1>1 DEF TypeOK, ChoiceMoves
<1>3. PICK hi : hi = Top(high[i], s) OBVIOUS
<1>4. hi \in -1..MaxSlot /\ high[i] <= hi
  <2>1. high[i] \in -1..MaxSlot /\ s \in -1..MaxSlot BY Numbers, BoundAssumption DEF Slot
  <2> QED BY <1>3, <2>1, TopType, TopLeast
<1>5. CASE Reproposes(i, s, v)
  <2>1. ProposeFast(i, local[i][s], [local EXCEPT ![i][s] = None], hi, used)
    BY <1>3, <1>5 DEF Learn
  <2>2. local[i][s] \in Request /\ promise[i] = 0 BY <1>5 DEF Reproposes, TypeOK
  <2>3. Casts(used) BY <1>4, <2>1, <2>2, ProposeFastMoves
  <2> QED BY <1>2, <2>3
<1>6. CASE ~Reproposes(i, s, v)
  <2>1. NoProposal(i, hi, used, out) BY <1>3, <1>6 DEF Learn
  <2>2. Casts(used) BY <1>4, <2>1, NoProposalMoves
  <2> QED BY <1>2, <2>2
<1> QED BY <1>5, <1>6

\* A step that casts votes at most, and takes no promise off the wire.
LEMMA CastMoves ==
    ASSUME TypeOK, Roles, NEW used, \A m \in used : Plain(m), Casts(used),
           UNCHANGED <<roleVars, pageVars, crashed>>
    PROVE  RoleMoves /\ VoteMoves /\ SendMoves /\ PageMoves /\ PledgeMoves /\ PrepareMoves
<1>1. PICK out : Post(used, out) /\ \A m \in out : Aside(m) /\ Sent(m) BY DEF Casts
<1>2. VoteMoves /\ \A j \in Replica : promise[j] > 0 => accepted'[j] = accepted[j] BY DEF Casts
<1>3. SendMoves BY <1>1, PostSends
<1>4. PageMoves /\ PledgeMoves /\ PrepareMoves BY <1>1, <1>2, StillPromises
<1>5. RoleMoves BY StillRoles
<1> QED BY <1>2, <1>3, <1>4, <1>5

\* A submitted request gets at most a vote.
LEMMA SubmitMoves ==
    ASSUME TypeOK, VoteShape, NEW i \in Replica, NEW r \in Request, NEW props, NEW used,
           UNCHANGED roleVars, Submit(i, r, props, used)
    PROVE  Casts(used)
<1>1. high[i] \in -1..MaxSlot /\ high[i] <= high[i] BY Numbers
<1>2. \/ promise[i] = 0 /\ ProposeFast(i, r, local, high[i], used)
      \/ NoProposal(i, high[i], used, {})
  BY DEF Submit
<1>3. CASE promise[i] = 0 /\ ProposeFast(i, r, local, high[i], used)
  BY <1>1, <1>3, ProposeFastMoves
<1>4. CASE NoProposal(i, high[i], used, {})
  <2>1. \A m \in {} : Aside(m) /\ Sent(m) OBVIOUS
  <2> QED BY <1>1, <1>4, <2>1, NoProposalMoves
<1> QED BY <1>2, <1>3, <1>4

\* A client's proposal.
LEMMA ProposeMoves ==
    ASSUME TypeOK, Shape, NEW i \in Replica, NEW r \in Request, Propose(i, r)
    PROVE  Moves
<1>1. /\ UNCHANGED <<roleVars, proposed, chosen, votes, acks, pageVars, crashed>>
      /\ Submit(i, r, proposals[i] \cup {r}, {}) /\ Roles /\ VoteShape
  BY DEF Propose, Shape, envVars
<1>2. Casts({}) BY <1>1, SubmitMoves
<1>3. \A m \in {} : Plain(m) OBVIOUS
<1>4. RoleMoves /\ VoteMoves /\ SendMoves /\ PageMoves /\ PledgeMoves /\ PrepareMoves
  BY <1>1, <1>2, <1>3, CastMoves
<1> QED BY <1>1, <1>4, StillPlans DEF Moves

\* A forwarded request.
LEMMA ForwardMoves ==
    ASSUME TypeOK, Shape, NEW i \in Replica, NEW m \in msgs, ReceiveForward(i, m)
    PROVE  Moves
<1>1. /\ UNCHANGED <<roleVars, proposed, chosen, votes, acks, pageVars, crashed>>
      /\ Submit(i, m.value, proposals[i], Used(m)) /\ Roles /\ VoteShape /\ m.kind = "Forward"
  BY DEF ReceiveForward, Shape, envVars
<1>2. m.value \in Request BY <1>1, PacketFields DEF TypeOK
<1>3. Casts(Used(m)) BY <1>1, <1>2, SubmitMoves
<1>4. \A p \in Used(m) : Plain(p) BY <1>1 DEF Used, Plain, OwnPage
<1>5. RoleMoves /\ VoteMoves /\ SendMoves /\ PageMoves /\ PledgeMoves /\ PrepareMoves
  BY <1>1, <1>3, <1>4, CastMoves
<1> QED BY <1>1, <1>5, StillPlans DEF Moves

\* The votes for a value come from as many replicas.
LEMMA SupportVoters ==
    ASSUME NEW V \in SUBSET [from : Replica, value : Request], NEW v
    PROVE  LET Q == {x.from : x \in {y \in V : y.value = v}}
           IN  /\ Q \in SUBSET Replica /\ Support(V, v) <= Cardinality(Q)
               /\ Support(V, v) \in Nat /\ Cardinality(Q) \in Nat
<1> DEFINE W == {y \in V : y.value = v}
           Q == {x.from : x \in W}
           f == [x \in W |-> x.from]
<1>1. Q \in SUBSET Replica OBVIOUS
<1>2. IsFiniteSet(Replica)
  <2>1. 0 \in Int /\ N - 1 \in Int BY NAssumption
  <2> QED BY <2>1, IntervalSize DEF Replica
<1>3. IsFiniteSet(Q) BY <1>1, <1>2, FS_Subset
<1>4. \A x, y \in W : x.from = y.from => x = y OBVIOUS
<1>5. f \in Injection(W, Q) BY <1>4 DEF Injection, IsInjective
<1>6. IsFiniteSet(W) /\ Cardinality(W) <= Cardinality(Q) BY <1>3, <1>5, FS_Injection
<1>7. Cardinality(W) \in Nat /\ Cardinality(Q) \in Nat BY <1>3, <1>6, CardNat
<1> QED BY <1>1, <1>6, <1>7 DEF Support

\* A fast vote arrives, and may complete a fast quorum.
LEMMA VoteArrivesMoves ==
    ASSUME TypeOK, Shape, NEW i \in Replica, NEW m \in msgs, ReceiveVote(i, m)
    PROVE  Moves
<1>1. PICK s \in Slot : s = m.slot BY PacketFields DEF TypeOK, ReceiveVote
<1>2. PICK v \in Request : v = m.value BY PacketFields DEF TypeOK, ReceiveVote
<1>3. PICK x : x = [from |-> m.from, value |-> v] OBVIOUS
<1>4. PICK V : V = votes[i][s] \cup {x} OBVIOUS
<1>5. /\ m.kind = "Vote" /\ votes' = [votes EXCEPT ![i][s] = V]
      /\ IF Support(V, v) >= FastQuorum
         THEN Learn(i, s, v, known[i], Used(m), {})
         ELSE /\ high' = Raise(i, s) /\ Post(Used(m), {})
              /\ UNCHANGED <<accepted, chosen, next>>
      /\ UNCHANGED <<roleVars, proposed, acks, pageVars, crashed>>
  BY <1>1, <1>2, <1>3, <1>4 DEF ReceiveVote, envVars
<1>6. Roles /\ VoteShape BY DEF Shape
<1>7. x \in [from : Replica, value : Request] BY <1>2, <1>3, PacketFields DEF TypeOK
<1>8. V \in SUBSET [from : Replica, value : Request] BY <1>4, <1>7 DEF TypeOK
<1>9. \A p \in Used(m) : Plain(p) BY <1>5 DEF Used, Plain, OwnPage
<1>10. \A p \in {} : Aside(p) /\ Sent(p) OBVIOUS
<1>11. Casts(Used(m)) /\ ChoiceMoves
  <2>1. CASE Support(V, v) >= FastQuorum
    <3> DEFINE Q == {y.from : y \in {z \in V : z.value = v}}
    <3>1. /\ Q \in SUBSET Replica /\ Support(V, v) <= Cardinality(Q)
          /\ Support(V, v) \in Nat /\ Cardinality(Q) \in Nat
      BY <1>8, SupportVoters
    <3>2. FastQuorum \in Int BY NAssumption DEF FastQuorum
    <3>3. Q \in QuorumOf(0) BY <2>1, <3>1, <3>2 DEF QuorumOf
    <3>4. \A q \in Q : Acked(q, 0, s, v)
      <4> SUFFICES ASSUME NEW y \in V, y.value = v PROVE Acked(y.from, 0, s, v) OBVIOUS
      <4>1. CASE y = x
        <5>1. m.from = y.from /\ m.kind = "Vote" /\ m.slot = s /\ m.value = v
          BY <1>1, <1>2, <1>3, <1>5, <4>1
        <5> QED BY <5>1 DEF Acked
      <4>2. CASE y \in votes[i][s] BY <4>2 DEF Acked
      <4> QED BY <1>4, <4>1, <4>2
    <3>5. Won(s, v) BY <3>3, <3>4, BoundAssumption DEF Won, Epoch
    <3>6. Learn(i, s, v, known[i], Used(m), {}) BY <1>5, <2>1
    <3> QED BY <1>5, <1>6, <1>10, <3>5, <3>6, LearnMoves
  <2>2. CASE ~(Support(V, v) >= FastQuorum)
    <3>1. /\ high' = Raise(i, s) /\ Post(Used(m), {}) /\ UNCHANGED <<accepted, chosen, next>>
      BY <1>5, <2>2
    <3>2. PICK hi : hi = Top(high[i], s) OBVIOUS
    <3>3. hi \in -1..MaxSlot /\ high[i] <= hi
      <4>1. high[i] \in -1..MaxSlot /\ s \in -1..MaxSlot BY Numbers, BoundAssumption DEF Slot
      <4> QED BY <3>2, <4>1, TopType, TopLeast
    <3>4. high' = [high EXCEPT ![i] = hi] BY <3>1, <3>2 DEF Raise
    <3>5. \A j \in Replica : high[j] <= high'[j]
      <4>1. \A j \in Replica : high[j] \in Int BY Numbers
      <4> QED BY <3>3, <3>4, <4>1 DEF TypeOK
    <3>6. VoteMoves BY <3>1, <3>5, StillVotes
    <3> QED BY <3>1, <3>6, StillPlans DEF Casts
  <2> QED BY <2>1, <2>2
<1>12. AckMoves
  <2>1. ASSUME NEW j \in Replica, NEW t \in Slot, NEW y \in votes'[j][t]
        PROVE  y \in votes[j][t] \/ \E p \in msgs :
                  p.kind = "Vote" /\ p.from = y.from /\ p.slot = t /\ p.value = y.value
    <3>1. CASE j = i /\ t = s
      <4>1. y \in votes[i][s] \/ y = x BY <1>4, <1>5, <2>1, <3>1 DEF TypeOK
      <4>2. y = x => m.kind = "Vote" /\ m.from = y.from /\ m.slot = t /\ m.value = y.value
        BY <1>1, <1>2, <1>3, <1>5, <3>1
      <4> QED BY <3>1, <4>1, <4>2
    <3>2. CASE ~(j = i /\ t = s)
      <4>1. votes'[j][t] = votes[j][t] BY <1>5, <3>2 DEF TypeOK
      <4> QED BY <2>1, <4>1
    <3> QED BY <3>1, <3>2
  <2>2. acks' = acks BY <1>5
  <2> QED BY <2>1, <2>2 DEF AckMoves
<1>13. RoleMoves /\ VoteMoves /\ SendMoves /\ PageMoves /\ PledgeMoves /\ PrepareMoves
  BY <1>5, <1>6, <1>9, <1>11, CastMoves
<1> QED BY <1>5, <1>11, <1>12, <1>13, StillPlans DEF Moves

\* A Commit arrives.
LEMMA CommitMoves ==
    ASSUME TypeOK, Shape, NEW i \in Replica, NEW m \in msgs, ReceiveCommit(i, m)
    PROVE  Moves
<1>1. PICK s \in Slot : s = m.slot BY PacketFields DEF TypeOK, ReceiveCommit
<1>2. /\ m.kind = "Commit" /\ UNCHANGED <<roleVars, proposed, votes, acks, pageVars, crashed>>
      /\ \E kn : Learn(i, s, m.value, kn, Used(m), {}) /\ Roles /\ VoteShape
  BY <1>1 DEF ReceiveCommit, envVars, Shape
<1>3. \A p \in Used(m) : Plain(p) BY <1>2 DEF Used, Plain, OwnPage
<1>4. \A p \in {} : Aside(p) /\ Sent(p) OBVIOUS
<1>5. Claimed(s, m.value) BY <1>1, <1>2 DEF Claimed
<1>6. Casts(Used(m)) /\ ChoiceMoves BY <1>2, <1>4, <1>5, LearnMoves
<1>7. RoleMoves /\ VoteMoves /\ SendMoves /\ PageMoves /\ PledgeMoves /\ PrepareMoves
  BY <1>2, <1>3, <1>6, CastMoves
<1> QED BY <1>2, <1>6, <1>7, StillPlans DEF Moves

\* An acknowledgement arrives, and may complete a majority.
LEMMA AcceptedMoves ==
    ASSUME TypeOK, Shape, NEW i \in Replica, NEW m \in msgs, ReceiveAccepted(i, m)
    PROVE  Moves
<1>1. PICK s \in Slot : s = m.slot BY PacketFields DEF TypeOK, ReceiveAccepted, Counts
<1>2. PICK v : v = proposed[i][s].value OBVIOUS
<1>3. PICK A : A = acks[i][s] \cup {m.from} OBVIOUS
<1>4. /\ Counts(i, m) /\ acks' = [acks EXCEPT ![i][s] = A]
      /\ IF Cardinality(A) >= Majority
         THEN Learn(i, s, v, known[i], Used(m), {Commit(i, j, s, v, TRUE) : j \in Replica})
         ELSE /\ Post(Used(m), {}) /\ UNCHANGED <<accepted, chosen, next, high>>
      /\ UNCHANGED <<roleVars, proposed, votes, pageVars, crashed>>
  BY <1>1, <1>2, <1>3 DEF ReceiveAccepted, envVars
<1>5. Roles /\ VoteShape /\ Plans BY DEF Shape
<1>6. PICK e \in Epoch : e = promise[i] BY Numbers
<1>7. /\ m.kind = "Accepted" /\ m.epoch = e /\ Owner(e) = i /\ e > 0
      /\ proposed[i][s] # None /\ proposed[i][s].epoch = e
  BY <1>1, <1>4, <1>5, <1>6 DEF Counts, Plans
<1>8. \A p \in Used(m) : Plain(p) BY <1>7 DEF Used, Plain, OwnPage
<1>9. A \in SUBSET Replica BY <1>3, PacketFields DEF TypeOK
<1>10. Casts(Used(m)) /\ ChoiceMoves
  <2>1. CASE Cardinality(A) >= Majority
    <3>1. A \in QuorumOf(e) BY <1>7, <1>9, <2>1 DEF QuorumOf
    <3>2. \A q \in A : Acked(q, e, s, v)
      <4> SUFFICES ASSUME NEW q \in A PROVE Acked(q, e, s, v) OBVIOUS
      <4>1. CASE q = m.from BY <1>1, <1>7, <4>1 DEF Acked
      <4>2. CASE q \in acks[i][s] BY <1>6, <1>7, <4>2 DEF Acked, Planning
      <4> QED BY <1>3, <4>1, <4>2
    <3>3. Known(s, e, v) BY <1>2, <1>7 DEF Known
    <3>4. Won(s, v) BY <3>1, <3>2, <3>3 DEF Won
    <3> DEFINE out == {Commit(i, j, s, v, TRUE) : j \in Replica}
    <3>5. \A p \in out : Aside(p) /\ Sent(p) BY <3>4 DEF Aside, Sent, Commit
    <3>6. Learn(i, s, v, known[i], Used(m), out) BY <1>4, <2>1
    <3> HIDE DEF out
    <3> QED BY <1>4, <1>5, <3>4, <3>5, <3>6, LearnMoves
  <2>2. CASE ~(Cardinality(A) >= Majority)
    <3>1. Post(Used(m), {}) /\ UNCHANGED <<accepted, chosen, next, high>> BY <1>4, <2>2
    <3>2. \A j \in Replica : high[j] <= high'[j]
      <4>1. \A j \in Replica : high[j] \in Int BY Numbers
      <4> QED BY <3>1, <4>1
    <3>3. VoteMoves BY <3>1, <3>2, StillVotes
    <3> QED BY <3>1, <3>3, StillPlans DEF Casts
  <2> QED BY <2>1, <2>2
<1>11. AckMoves
  <2>1. ASSUME NEW j \in Replica, NEW t \in Slot, NEW q \in acks'[j][t], q \notin acks[j][t]
        PROVE  \E p \in msgs : /\ p.kind = "Accepted" /\ p.from = q /\ p.slot = t
                               /\ p.epoch = promise[j] /\ Owner(promise[j]) = j /\ Planning(j, t)
    <3>1. j = i /\ t = s /\ q = m.from BY <1>3, <1>4, <2>1 DEF TypeOK
    <3> QED BY <1>1, <1>6, <1>7, <3>1 DEF Planning
  <2>2. votes' = votes BY <1>4
  <2> QED BY <2>1, <2>2 DEF AckMoves
<1>12. RoleMoves /\ VoteMoves /\ SendMoves /\ PageMoves /\ PledgeMoves /\ PrepareMoves
  BY <1>4, <1>5, <1>8, <1>10, CastMoves
<1> QED BY <1>4, <1>10, <1>11, <1>12, StillPlans DEF Moves

-----------------------------------------------------------------------------
(***************************************************************************)
(* Catching up, ticks that do not plan, and the environment.               *)
(***************************************************************************)
\* The step only sends packets that are neither votes nor promises.
LEMMA QuietMoves ==
    ASSUME TypeOK, Shape, NEW used, NEW out, Post(used, out),
           \A m \in used : Plain(m), \A m \in out : Aside(m) /\ Sent(m),
           UNCHANGED <<roleVars, pageVars, accepted, proposed, chosen, votes, acks, high, next,
                       crashed>>
    PROVE  Moves
<1>1. \A j \in Replica : high[j] <= high'[j]
  <2>1. \A j \in Replica : high[j] \in Int BY Numbers
  <2> QED BY <2>1
<1>2. VoteMoves BY <1>1, StillVotes
<1>3. Casts(used) BY <1>2 DEF Casts
<1>4. Roles BY DEF Shape
<1>5. RoleMoves /\ VoteMoves /\ SendMoves /\ PageMoves /\ PledgeMoves /\ PrepareMoves
  BY <1>3, <1>4, CastMoves
<1> QED BY <1>5, StillPlans DEF Moves

\* A replica asks for decisions.
LEMMA FetchSlotsMoves ==
    ASSUME TypeOK, Shape, NEW i \in Replica, NEW m \in msgs, ReceiveFetchSlots(i, m)
    PROVE  Moves
<1> DEFINE S == {t \in Asked(m) : Runnable(chosen[i], known[i], t)}
           out == {Commit(i, m.from, s, chosen[i][s], TRUE) : s \in S}
<1>1. /\ m.kind = "FetchSlots" /\ Post(Used(m), out)
      /\ UNCHANGED <<roleVars, pageVars, accepted, proposed, chosen, votes, acks, high, next,
                     crashed>>
  BY DEF ReceiveFetchSlots, slotVars, logVars, envVars
<1>2. \A p \in Used(m) : Plain(p) BY <1>1 DEF Used, Plain, OwnPage
<1>3. \A s \in S : Claimed(s, chosen[i][s])
  <2> SUFFICES ASSUME NEW s \in S PROVE Claimed(s, chosen[i][s]) OBVIOUS
  <2>1. s \in Slot /\ chosen[i][s] # None
    BY RequestAssumption DEF Runnable, TypeOK
  <2> QED BY <2>1 DEF Claimed
<1>4. \A p \in out : Aside(p) /\ Sent(p) BY <1>3 DEF Aside, Sent, Commit
<1> HIDE DEF out
<1> QED BY <1>1, <1>2, <1>4, QuietMoves

\* A payload arrives or is asked for, or a replica gives up the fast path.
LEMMA PayloadMoves ==
    ASSUME TypeOK, Shape, NEW i \in Replica, NEW m \in msgs,
           ReceiveFetchValue(i, m) \/ ReceiveData(i, m) \/ ReceiveRecover(i, m)
    PROVE  Moves
<1>1. PICK out :
        /\ m.kind \in {"FetchValue", "Data", "Recover"} /\ Post(Used(m), out)
        /\ out = {} \/ out = {Data(i, m.from, m.value)}
        /\ UNCHANGED <<roleVars, pageVars, accepted, proposed, chosen, votes, acks, high, next,
                       crashed>>
  BY DEF ReceiveFetchValue, ReceiveData, ReceiveRecover, slotVars, logVars, envVars
<1>2. \A p \in Used(m) : Plain(p) BY <1>1 DEF Used, Plain, OwnPage
<1>3. \A p \in out : Aside(p) /\ Sent(p) BY <1>1 DEF Aside, Sent, Data
<1> QED BY <1>1, <1>2, <1>3, QuietMoves

\* A packet of an older epoch is refused.
LEMMA StaleMoves ==
    ASSUME TypeOK, Shape, NEW i \in Replica, NEW m \in msgs, ReceiveStale(i, m), m.to = i
    PROVE  Moves
<1> DEFINE out == {Nack(i, m.from, promise[i])}
<1>1. /\ m.kind \in {"Prepare", "Accept"} /\ m.epoch < promise[i] /\ Post(Used(m), out)
      /\ UNCHANGED <<roleVars, pageVars, accepted, proposed, chosen, votes, acks, high, next,
                     crashed>>
  BY DEF ReceiveStale, slotVars, logVars, envVars
<1>2. \A p \in Used(m) : Plain(p)
  <2>1. m.epoch \in Epoch /\ promise[i] \in Epoch BY <1>1, PacketFields, Numbers DEF TypeOK
  <2>2. m.epoch # promise[i] BY <1>1, <2>1, BoundAssumption DEF Epoch
  <2> QED BY <1>1, <2>2 DEF Used, Plain, OwnPage
<1>3. \A p \in out : Aside(p) /\ Sent(p) BY DEF Aside, Sent, Nack
<1> HIDE DEF out
<1> QED BY <1>1, <1>2, <1>3, QuietMoves

\* A coordinator that prepares takes its own pages.
LEMMA OwnPageExpected ==
    ASSUME TypeOK, Shape, NEW i \in Replica, NEW m \in msgs, preparing[i], OwnPage(i, m)
    PROVE  /\ m.kind = "Promise" => PromiseExpected(i, m) /\ m \in frozen[i]
           /\ m.kind = "Prepare" => \A p \in frozen[i] : p.start = m.start
<1>1. /\ Owner(promise[i]) = i /\ promise[i] > 0 /\ promise[i] \in Epoch
      /\ \A p \in pages[i] : p.epoch = promise[i] /\ p.start = start[i]
  BY Numbers DEF Shape, Roles, Preparation
<1>2. /\ \A p \in Promised : GoodPage(p)
      /\ \A p \in frozen[i] : p.from = i /\ p.epoch = promise[i] /\ p \in Promised
  BY DEF Shape, PromiseShape, Promised
<1>3. ASSUME m.kind = "Promise" PROVE PromiseExpected(i, m) /\ m \in frozen[i]
  <2>1. m \in Promised /\ m.from = i /\ m.epoch = promise[i] BY <1>3 DEF Promised, OwnPage
  <2>2. m.start = start[i] /\ m \in frozen[i] BY <1>1, <1>2, <2>1 DEF GoodPage
  <2>3. ASSUME NEW p \in PagesFrom(pages[i], i) PROVE p.pages = m.pages /\ p.high = m.high
    <3>1. p \in Promised /\ p.from = i /\ p.epoch = promise[i]
      BY <1>1 DEF PagesFrom, Promised
    <3>2. p \in PagesOf(i, promise[i]) /\ m \in PagesOf(i, promise[i])
      BY <2>1, <3>1 DEF PagesOf
    <3> QED BY <1>1, <3>2 DEF Shape, OneSnapshot
  <2> QED BY <1>3, <2>1, <2>2, <2>3 DEF PromiseExpected
<1>4. ASSUME m.kind = "Prepare", NEW p \in frozen[i] PROVE p.start = m.start
  <2>1. p.start = start[i] BY <1>1, <1>2 DEF GoodPage
  <2>2. GoodPacket(m) BY DEF Shape, Traffic
  <2>3. m.start = start[i] BY <1>4, <2>2 DEF GoodPacket, OwnPage
  <2> QED BY <2>1, <2>3
<1> QED BY <1>3, <1>4

\* A packet that changes nothing.
LEMMA IgnoreMoves ==
    ASSUME TypeOK, Shape, NEW i \in Replica, NEW m \in msgs, Ignore(i, m), m.to = i
    PROVE  Moves
<1>1. /\ ~Handled(i, m) /\ Post(Used(m), {})
      /\ UNCHANGED <<roleVars, pageVars, accepted, proposed, chosen, votes, acks, high, next,
                     crashed>>
  BY DEF Ignore, slotVars, logVars, envVars
<1>2. Plain(m)
  <2>1. m.kind # "Accept" BY <1>1 DEF Handled
  <2>2. ASSUME m.from = m.to, preparing[i], OwnPage(i, m) PROVE FALSE
    <3>1. CASE m.kind = "Promise"
      <4>1. PromiseExpected(i, m) BY <2>2, <3>1, OwnPageExpected
      <4> QED BY <1>1, <3>1, <4>1 DEF Handled
    <3>2. CASE m.kind = "Prepare"
      <4>1. \A p \in frozen[i] : p.start = m.start BY <2>2, <3>2, OwnPageExpected
      <4> QED BY <1>1, <3>2, <4>1 DEF Handled
    <3> QED BY <2>2, <3>1, <3>2 DEF OwnPage
  <2> QED BY <2>1, <2>2 DEF Plain
<1>3. \A p \in Used(m) : Plain(p) BY <1>2 DEF Used
<1>4. \A p \in {} : Aside(p) /\ Sent(p) OBVIOUS
<1> QED BY <1>1, <1>3, <1>4, QuietMoves

\* Heartbeats and retries.
LEMMA BeatMoves ==
    ASSUME NEW i \in Replica, NEW due, NEW m \in Beat(i, due, promise[i])
    PROVE  Aside(m) /\ Sent(m)
BY DEF Beat, Heartbeat, Aside, Sent
LEMMA RetriesMoves ==
    ASSUME NEW i \in Replica, NEW m \in Retries(i)
    PROVE  Aside(m) /\ Sent(m)
BY DEF Retries, FetchValue, Forward, Aside, Sent

\* The tick of a replica that does not lead.
LEMMA FollowMoves ==
    ASSUME TypeOK, Shape, NEW i \in Replica, NEW due, TickFollow(i, due)
    PROVE  Moves
<1> DEFINE recover == IF Need(i, due) /\ Candidate(i) # i THEN {Recover(i, Candidate(i))} ELSE {}
           prepare == {Prepare(i, j, promise[i], start[i]) : j \in Replica \ {i}}
           out == Beat(i, due, promise[i]) \cup recover
                    \cup (IF "retry" \notin due THEN {}
                          ELSE IF preparing[i] THEN prepare ELSE Retries(i))
<1>1. /\ Post({}, out)
      /\ UNCHANGED <<roleVars, pageVars, accepted, proposed, chosen, votes, acks, high, next,
                     crashed>>
  BY DEF TickFollow, slotVars, logVars, envVars
<1>2. \A m \in recover : Aside(m) /\ Sent(m) BY DEF Recover, Aside, Sent
<1>3. ASSUME preparing[i] PROVE \A m \in prepare : Aside(m) /\ Sent(m)
  <2>1. promise[i] > 0 /\ Owner(promise[i]) = i BY <1>3 DEF Shape, Roles
  <2> QED BY <1>1, <2>1 DEF Prepare, Aside, Sent, roleVars
<1> HIDE DEF recover, prepare
<1>4. \A m \in out : Aside(m) /\ Sent(m) BY <1>2, <1>3, BeatMoves, RetriesMoves
<1>5. \A m \in {} : Plain(m) OBVIOUS
<1> HIDE DEF out
<1> QED BY <1>1, <1>4, <1>5, QuietMoves

\* Silence, a lost packet and a crash.
LEMMA EnvironmentMoves ==
    ASSUME TypeOK, Shape, \/ \E i, j \in Replica : Silence(i, j)
                          \/ \E i \in Replica : Crash(i)
                          \/ \E m \in msgs : Lose(m)
    PROVE  Moves
<1>0. \A m \in {} : Plain(m) /\ Aside(m) /\ Sent(m) OBVIOUS
<1>1. ASSUME NEW i \in Replica, NEW j \in Replica, Silence(i, j) PROVE Moves
  <2>1. /\ Post({}, {})
        /\ UNCHANGED <<roleVars, pageVars, accepted, proposed, chosen, votes, acks, high, next,
                       crashed>>
    BY <1>1 DEF Silence, Post, slotVars, logVars, envVars
  <2> QED BY <1>0, <2>1, QuietMoves
<1>2. ASSUME NEW m \in msgs, Lose(m) PROVE Moves
  <2>1. /\ Post({m}, {}) /\ m.from # m.to
        /\ UNCHANGED <<roleVars, pageVars, accepted, proposed, chosen, votes, acks, high, next,
                       crashed>>
    BY <1>2 DEF Lose, Post, slotVars, logVars
  <2>2. \A p \in {m} : Plain(p) BY <2>1 DEF Plain
  <2> QED BY <1>0, <2>1, <2>2, QuietMoves
<1>3. ASSUME NEW i \in Replica, Crash(i) PROVE Moves
  <2>1. /\ msgs' \subseteq msgs /\ crashed' = crashed \cup {i}
        /\ \A m \in msgs : m \in msgs' \/ m.from = i
        /\ UNCHANGED <<roleVars, pageVars, accepted, proposed, chosen, votes, acks, high, next>>
    BY <1>3 DEF Crash, slotVars, logVars
  <2>2. RoleMoves
    <3>1. Roles BY DEF Shape
    <3> QED BY <2>1, <3>1, StillRoles
  <2>3. VoteMoves
    <3>1. \A j \in Replica : high[j] \in Int BY Numbers
    <3>2. \A j \in Replica : high[j] <= high'[j] BY <2>1, <3>1
    <3> QED BY <2>1, <3>2, StillVotes
  <2>4. SendMoves BY <2>1 DEF SendMoves
  <2>5. PageMoves BY <2>1 DEF PageMoves, Promised, pageVars, roleVars
  <2>6. PledgeMoves BY <2>1 DEF PledgeMoves
  <2>7. PrepareMoves
    <3> SUFFICES ASSUME NEW j \in Replica, preparing'[j] PROVE StillPrepares(j)
      BY DEF PrepareMoves
    <3>1. j \in crashed' \/ \A m \in msgs : OwnPage(j, m) => m \in msgs'
      BY <2>1 DEF OwnPage
    <3> QED BY <2>1, <3>1 DEF StillPrepares, roleVars, pageVars
  <2> QED BY <2>1, <2>2, <2>3, <2>4, <2>5, <2>6, <2>7, StillPlans DEF Moves
<1> QED BY <1>1, <1>2, <1>3

-----------------------------------------------------------------------------
(***************************************************************************)
(* Epochs and promises.                                                    *)
(***************************************************************************)
\* What a replica learns of another's epoch: it is not its own, and the replica
\* has nothing of its own left to handle.
LEMMA NewEpoch ==
    ASSUME TypeOK, Shape, NEW i \in Replica, NEW m \in msgs, Arrives(i, m),
           m.kind \in {"Prepare", "Accept", "Heartbeat", "Nack"}, m.epoch > promise[i]
    PROVE  Idle /\ i \notin crashed /\ Begun(m.epoch) /\ Owner(m.epoch) # i
<1>1. m.epoch \in Epoch /\ promise[i] \in Epoch BY PacketFields, Numbers DEF TypeOK
<1>2. m.epoch \in Nat /\ promise[i] \in Nat BY <1>1, BoundAssumption DEF Epoch
<1>3. Begun(m.epoch) /\ m.epoch <= promise[m.from] BY DEF Shape, Traffic, GoodPacket
<1>4. Owner(m.epoch) # i BY <1>2, <1>3 DEF Begun
<1>5. m.from # i BY <1>2, <1>3
<1> QED BY <1>3, <1>4, <1>5 DEF Arrives

\* Entering an epoch that another replica coordinates.
LEMMA AdoptMoves ==
    ASSUME TypeOK, Shape, NEW i \in Replica, NEW e \in Epoch, Adopt(i, e), start' = start,
           e > promise[i] => Idle /\ i \notin crashed /\ Begun(e) /\ Owner(e) # i,
           preparing'[i] => ~active'[i], \A j \in Replica \ {i} : active'[j] = active[j]
    PROVE  /\ RoleMoves
           /\ \A j \in Replica : frozen'[j] = IF promise'[j] = promise[j] THEN frozen[j] ELSE {}
           /\ \A j \in Replica : promise'[j] = promise[j] => preparing'[j] = preparing[j]
           /\ \A j \in Replica : promise'[j] # promise[j] => ~preparing'[j]
           /\ promise'[i] = Top(promise[i], e)
<1>1. Roles BY DEF Shape
<1>2. /\ promise[i] \in Nat /\ e \in Nat /\ \A j \in Replica : promise[j] \in Nat
  BY Numbers, BoundAssumption DEF Epoch
<1>3. CASE e <= promise[i]
  <2>1. UNCHANGED <<promise, preparing, frozen>> BY <1>3 DEF Adopt
  <2>2. promise'[i] = Top(promise[i], e) BY <1>2, <1>3, <2>1 DEF Top
  <2>3. RoleMoves BY <1>1, <1>2, <2>1 DEF RoleMoves, RoleMove, Roles
  <2> QED BY <2>1, <2>2, <2>3
<1>4. CASE ~(e <= promise[i])
  <2>1. /\ promise' = [promise EXCEPT ![i] = e] /\ preparing' = [preparing EXCEPT ![i] = FALSE]
        /\ frozen' = [frozen EXCEPT ![i] = {}]
    BY <1>4 DEF Adopt
  <2>2. e > promise[i] BY <1>2, <1>4
  <2>3. promise'[i] = Top(promise[i], e) BY <1>2, <2>1, <2>2 DEF Top, TypeOK
  <2>4. /\ \A j \in Replica : promise'[j] = IF j = i THEN e ELSE promise[j]
        /\ \A j \in Replica : preparing'[j] = IF j = i THEN FALSE ELSE preparing[j]
        /\ \A j \in Replica : frozen'[j] = IF j = i THEN {} ELSE frozen[j]
    BY <2>1 DEF TypeOK
  <2>5. \A j \in Replica \ {i} : promise'[j] = promise[j] /\ preparing'[j] = preparing[j]
    BY <2>4
  <2>6. promise'[i] = e /\ ~preparing'[i] /\ Begun(promise'[i]) BY <2>2, <2>4
  <2>7. RoleMoves
    <3> SUFFICES ASSUME NEW j \in Replica PROVE RoleMove(j) BY DEF RoleMoves
    <3>1. CASE j = i BY <1>2, <2>2, <2>6, <3>1 DEF RoleMove
    <3>2. CASE j # i BY <1>1, <1>2, <2>5, <3>2 DEF Roles, RoleMove
    <3> QED BY <3>1, <3>2
  <2>8. \A j \in Replica : frozen'[j] = IF promise'[j] = promise[j] THEN frozen[j] ELSE {}
    <3> TAKE j \in Replica
    <3>1. CASE j = i
      <4>1. promise'[i] # promise[i] /\ frozen'[i] = {} BY <1>2, <2>2, <2>4, <2>6
      <4> QED BY <2>6, <3>1, <4>1
    <3>2. CASE j # i BY <2>4, <3>2
    <3> QED BY <3>1, <3>2
  <2> QED BY <1>2, <2>2, <2>3, <2>5, <2>6, <2>7, <2>8
<1> QED BY <1>3, <1>4

\* A heartbeat or a Nack of a newer epoch.
LEMMA HearMoves ==
    ASSUME TypeOK, Shape, NEW i \in Replica, NEW m \in msgs, Arrives(i, m),
           ReceiveHeartbeat(i, m) \/ ReceiveNack(i, m)
    PROVE  Moves
<1>1. PICK out :
        /\ m.kind \in {"Heartbeat", "Nack"} /\ Adopt(i, m.epoch) /\ Deactivate(i, m.epoch)
        /\ Post(Used(m), out) /\ \A p \in out : p.kind = "FetchSlots"
        /\ UNCHANGED <<start, pages, accepted, proposed, chosen, votes, acks, high, next,
                       crashed>>
  BY DEF ReceiveHeartbeat, ReceiveNack, FetchSlots, slotVars, logVars, envVars
<1>2. m.epoch \in Epoch /\ m.epoch \in Nat /\ promise[i] \in Nat
  BY <1>1, PacketFields, Numbers, BoundAssumption DEF TypeOK, Epoch
<1>3. m.epoch > promise[i] => Idle /\ i \notin crashed /\ Begun(m.epoch) /\ Owner(m.epoch) # i
  BY <1>1, NewEpoch
<1>4. preparing'[i] => ~active'[i]
  <2>1. preparing'[i] => preparing[i]
    BY <1>1 DEF Adopt, TypeOK
  <2>2. active'[i] = (active[i] /\ m.epoch <= promise[i]) BY <1>1 DEF Deactivate, TypeOK
  <2> QED BY <2>1, <2>2 DEF Shape, Roles
<1>5. \A j \in Replica \ {i} : active'[j] = active[j] BY <1>1 DEF Deactivate, TypeOK
<1>6. /\ RoleMoves
      /\ \A j \in Replica : frozen'[j] = IF promise'[j] = promise[j] THEN frozen[j] ELSE {}
      /\ \A j \in Replica : promise'[j] = promise[j] => preparing'[j] = preparing[j]
      /\ \A j \in Replica : promise'[j] # promise[j] => ~preparing'[j]
  BY <1>1, <1>2, <1>3, <1>4, <1>5, AdoptMoves
<1>7. \A p \in msgs' : p \in msgs \/ p.kind = "FetchSlots" BY <1>1 DEF Post
<1>8. \A p \in msgs : p \in msgs' \/ p.kind \in {"Heartbeat", "Nack"} BY <1>1 DEF Post, Used
<1>9. VoteMoves
  <2>1. \A j \in Replica : high[j] \in Int BY Numbers
  <2>2. \A j \in Replica : high[j] <= high'[j] BY <1>1, <2>1
  <2> QED BY <1>1, <2>2, StillVotes
<1>10. SendMoves BY <1>7 DEF SendMoves, Sent
<1>11. PageMoves
  <2>1. \A j \in Replica : frozen'[j] \subseteq frozen[j] BY <1>6
  <2>2. Promised' \subseteq Promised BY <1>1, <1>7, <2>1 DEF Promised
  <2> QED BY <1>6, <2>2 DEF PageMoves
<1>12. PledgeMoves BY <1>1, <1>8 DEF PledgeMoves
<1>13. PrepareMoves
  <2> SUFFICES ASSUME NEW j \in Replica, preparing'[j] PROVE StillPrepares(j)
    BY DEF PrepareMoves
  <2>1. promise'[j] = promise[j] /\ preparing[j] /\ frozen'[j] = frozen[j] BY <1>6
  <2>2. \A p \in msgs' : OwnPage(j, p) => p \in msgs BY <1>7 DEF OwnPage
  <2>3. \A p \in msgs : OwnPage(j, p) => p \in msgs' BY <1>8 DEF OwnPage
  <2> QED BY <1>1, <2>1, <2>2, <2>3 DEF StillPrepares
<1> QED BY <1>1, <1>6, <1>9, <1>10, <1>11, <1>12, <1>13, StillPlans DEF Moves

\* A vote in an epoch.
LEMMA AcceptMoves ==
    ASSUME TypeOK, Shape, NEW i \in Replica, NEW m \in msgs, Arrives(i, m), ReceiveAccept(i, m)
    PROVE  Moves
<1>1. PICK s \in Slot : s = m.slot BY PacketFields DEF TypeOK, ReceiveAccept
<1>2. PICK e \in Epoch : e = m.epoch BY PacketFields DEF TypeOK, ReceiveAccept
<1>3. PICK b : b = [epoch |-> e, value |-> m.value] OBVIOUS
<1>4. PICK hi : hi = Top(high[i], s) OBVIOUS
<1> DEFINE out == {Accepted(i, m.from, e, s)}
<1>5. /\ m.kind = "Accept" /\ e >= promise[i] /\ Adopt(i, e) /\ active' = [active EXCEPT ![i] = TRUE]
      /\ accepted' = [accepted EXCEPT ![i][s] = b] /\ high' = [high EXCEPT ![i] = hi]
      /\ Post(Used(m), out)
      /\ UNCHANGED <<start, proposed, chosen, votes, acks, next, pages, crashed>>
  BY <1>1, <1>2, <1>3, <1>4 DEF ReceiveAccept, Raise, envVars
<1>6. e \in Nat /\ promise[i] \in Nat BY Numbers, BoundAssumption DEF Epoch
<1>7. e > promise[i] => Idle /\ i \notin crashed /\ Begun(e) /\ Owner(e) # i
  BY <1>2, <1>5, NewEpoch
<1>8. Led(e) /\ e > 0 BY <1>2, <1>5 DEF Shape, Traffic, GoodPacket
<1>9. preparing[i] => promise[i] # e
  BY <1>6, <1>8 DEF Shape, Roles, Led
<1>10. ~preparing'[i]
  <2>1. CASE e <= promise[i]
    <3>1. preparing'[i] = preparing[i] BY <1>5, <2>1 DEF Adopt
    <3> QED BY <1>5, <1>6, <1>9, <2>1, <3>1 DEF TypeOK
  <2>2. CASE ~(e <= promise[i]) BY <1>5, <2>2 DEF Adopt, TypeOK
  <2> QED BY <2>1, <2>2
<1>11. \A j \in Replica \ {i} : active'[j] = active[j] BY <1>5 DEF TypeOK
<1>12. /\ RoleMoves
       /\ \A j \in Replica : frozen'[j] = IF promise'[j] = promise[j] THEN frozen[j] ELSE {}
       /\ \A j \in Replica : promise'[j] = promise[j] => preparing'[j] = preparing[j]
       /\ \A j \in Replica : promise'[j] # promise[j] => ~preparing'[j]
       /\ promise'[i] = Top(promise[i], e)
  BY <1>5, <1>7, <1>10, <1>11, AdoptMoves
<1>13. promise'[i] = e BY <1>5, <1>6, <1>12 DEF Top
<1>14. b # None /\ b.epoch = e
  <2>1. b \in [epoch : Epoch, value : Command] BY <1>3, <1>5, PacketFields DEF TypeOK
  <2> QED BY <1>3, <2>1, NoneAssumption
<1>15. accepted'[i][s] = b BY <1>5 DEF TypeOK
<1>16. VoteMoves
  <2>1. high[i] <= hi /\ s <= hi
    <3>1. high[i] \in Int /\ s \in Int BY Numbers, BoundAssumption DEF Slot
    <3> QED BY <1>4, <3>1, TopLeast
  <2>2. ASSUME NEW j \in Replica PROVE next[j] <= next'[j] /\ high[j] <= high'[j]
    <3>1. next[j] \in Nat /\ high[j] \in Int BY Numbers
    <3>2. high'[j] = IF j = i THEN hi ELSE high[j] BY <1>5 DEF TypeOK
    <3> QED BY <1>5, <2>1, <3>1, <3>2
  <2>3. high'[i] = hi BY <1>5 DEF TypeOK
  <2>4. ClassicVoted(i, s, m)
    BY <1>1, <1>2, <1>3, <1>5, <1>13, <1>15, <2>1, <2>3 DEF ClassicVoted, Arrives
  <2>5. ASSUME NEW j \in Replica, NEW t \in Slot
        PROVE  accepted'[j][t] = accepted[j][t] \/ ClassicVoted(j, t, m)
    BY <1>5, <2>4 DEF TypeOK
  <2> QED BY <2>2, <2>5 DEF VoteMoves
<1>17. SendMoves
  <2>1. Sent(Accepted(i, m.from, e, s))
    BY <1>1, <1>2, <1>5, <1>13, <1>14, <1>15 DEF Sent, Accepted
  <2>2. \A p \in out : Sent(p) BY <2>1
  <2> HIDE DEF out
  <2> QED BY <1>5, <2>2, PostSends
<1>18. \A p \in msgs' : p \in msgs \/ p.kind = "Accepted" BY <1>5 DEF Post, Accepted
<1>19. \A p \in msgs : p \in msgs' \/ p = m BY <1>5 DEF Post, Used
<1>20. PageMoves
  <2>1. \A j \in Replica : frozen'[j] \subseteq frozen[j] BY <1>12
  <2>2. Promised' \subseteq Promised BY <1>5, <1>18, <2>1 DEF Promised
  <2> QED BY <1>12, <2>2 DEF PageMoves
<1>21. PledgeMoves
  <2>1. ASSUME NEW p \in msgs, p.kind = "Accept", p.from = p.to, p \notin msgs'
        PROVE  accepted'[p.from][p.slot] # None /\ accepted'[p.from][p.slot].epoch = p.epoch
    <3>1. p = m /\ p.from = i BY <1>19, <2>1 DEF Arrives
    <3> QED BY <1>1, <1>2, <1>14, <1>15, <3>1
  <2> QED BY <1>5, <2>1 DEF PledgeMoves
<1>22. PrepareMoves
  <2> SUFFICES ASSUME NEW j \in Replica, preparing'[j] PROVE StillPrepares(j)
    BY DEF PrepareMoves
  <2>1. promise'[j] = promise[j] /\ preparing[j] /\ frozen'[j] = frozen[j] /\ j # i
    BY <1>10, <1>12
  <2>2. accepted'[j] = accepted[j] BY <1>5, <2>1 DEF TypeOK
  <2>3. \A p \in msgs' : OwnPage(j, p) => p \in msgs BY <1>18 DEF OwnPage
  <2>4. \A p \in msgs : OwnPage(j, p) => p \in msgs' BY <1>5, <1>19 DEF OwnPage
  <2> QED BY <1>5, <2>1, <2>2, <2>3, <2>4 DEF StillPrepares
<1> QED BY <1>5, <1>12, <1>16, <1>17, <1>20, <1>21, <1>22, StillPlans DEF Moves

\* Division, and pages that are full but for the last.
LEMMA Division ==
    ASSUME NEW a \in Nat, NEW b \in Nat \ {0}
    PROVE  b * (a \div b) <= a /\ a < b * (a \div b) + b /\ a \div b \in Nat
BY SMT
LEMMA Multiples ==
    ASSUME NEW b \in Nat, NEW p \in Nat, NEW q \in Nat, p <= q
    PROVE  b * p <= b * q /\ b * q \in Nat /\ b * p \in Nat
BY SMT
LEMMA LastPage ==
    ASSUME NEW a \in Nat, NEW c \in Nat, NEW b \in Nat \ {0}, a < c
    PROVE  a \div b < (c + b - 1) \div b
<1>1. PICK q \in Nat : q = a \div b BY Division
<1>2. PICK r \in Nat : r = (c + b - 1) \div b BY Division
<1>3. b * q <= a /\ c + b - 1 < b * r + b BY <1>1, <1>2, Division
<1>4. b * r \in Nat /\ b * q \in Nat OBVIOUS
<1>5. b * q < b * r BY <1>3, <1>4
<1>6. ~(r <= q) BY <1>4, <1>5, Multiples
<1> QED BY <1>1, <1>2, <1>6

\* A snapshot is one set of pages, which hold every report from its start on.
SnapshotFacts(S, i, j, e, st) ==
    /\ S \in SUBSET Page /\ IsFiniteSet(S) /\ S # {}
    /\ \A p \in S : /\ p.from = i /\ p.to = j /\ p.epoch = e /\ p.start = st /\ p.high = high[i]
                    /\ p.pages = Cardinality(S)
    /\ \A p, r \in S : p.page = r.page => p = r
    /\ \A p, r \in S : \A x \in p.entries, y \in r.entries : x.slot = y.slot => x = y
    /\ \A p \in S : \A x \in p.entries : \E s \in st..high[i] : x \in Report(i, s)
    /\ \A s \in st..high[i] : \A x \in Report(i, s) : \E p \in S : x \in p.entries
LEMMA SnapshotForm ==
    ASSUME TypeOK, NEW i \in Replica, NEW j \in Replica, NEW e \in Epoch,
           NEW st \in 0..(MaxSlot + 1)
    PROVE  SnapshotFacts(Snapshot(i, j, e, st), i, j, e, st)
<1> DEFINE E == UNION {Report(i, s) : s \in st..high[i]}
           count == (Cardinality(E) + PageSize - 1) \div PageSize
           total == IF count = 0 THEN 1 ELSE count
<1>1. high[i] \in -1..MaxSlot BY Numbers
<1>2. st..high[i] \subseteq Slot BY <1>1, BoundAssumption DEF Slot
<1>3. E \in SUBSET Entry BY <1>2, ReportType
<1>4. \A x \in E, y \in E : x.slot = y.slot => x = y
  <2> SUFFICES ASSUME NEW x \in E, NEW y \in E, x.slot = y.slot PROVE x = y OBVIOUS
  <2>1. PICK s \in Slot : x \in Report(i, s) BY <1>2
  <2>2. PICK t \in Slot : y \in Report(i, t) BY <1>2
  <2>3. s = t BY <2>1, <2>2, ReportType
  <2> QED BY <2>1, <2>2, <2>3, ReportType
<1>5. IsFiniteSet(E)
  <2> DEFINE f == [x \in E |-> x.slot]
  <2>1. \A x \in E : x.slot \in Slot BY <1>3 DEF Entry
  <2> HIDE DEF E
  <2>2. f \in Injection(E, Slot) BY <1>4, <2>1 DEF Injection, IsInjective
  <2>3. IsFiniteSet(Slot) BY IntervalSize, BoundAssumption DEF Slot
  <2> QED BY <2>2, <2>3, FS_Injection
<1>6. PICK c \in Nat : c = Cardinality(E) BY <1>5, CardNat
<1>7. PICK k \in Nat : k = total /\ k > 0 /\ (count > 0 => k = count)
  <2>1. PageSize \in Nat \ {0} /\ c + PageSize - 1 \in Nat BY SizeAssumption
  <2>2. count \in Nat BY <1>6, <2>1, Quotient
  <2> HIDE DEF count, E
  <2> QED BY <2>2
<1> DEFINE pg(p) == [kind |-> "Promise", from |-> i, to |-> j, epoch |-> e, start |-> st,
                     high |-> high[i], page |-> p, pages |-> k,
                     entries |-> {x \in E : Rank(E, x) \div PageSize = p}]
           I == 0..(k - 1)
           S == {pg(p) : p \in I}
<1>8. Snapshot(i, j, e, st) = S BY <1>7 DEF Snapshot
<1>9. ASSUME NEW x \in E PROVE Rank(E, x) \div PageSize \in I
  <2> DEFINE B == {y \in E : y.slot < x.slot}
  <2>1. B \in SUBSET E /\ x \notin B
    <3>1. x.slot \in Int BY <1>3, BoundAssumption DEF Entry, Slot
    <3> QED BY <3>1
  <2>2. IsFiniteSet(B) BY <1>5, <2>1, FS_Subset
  <2>3. PICK b \in Nat : b = Cardinality(B) BY <2>2, CardNat
  <2>4. b < c
    <3> HIDE DEF B, E
    <3>1. Cardinality(B \cup {x}) = Cardinality(B) + 1 BY <2>1, <2>2, FS_AddElement
    <3>2. B \cup {x} \in SUBSET E BY <1>9, <2>1
    <3>3. Cardinality(B \cup {x}) <= Cardinality(E) BY <1>5, <3>2, FS_Subset
    <3> QED BY <1>6, <2>3, <3>1, <3>3
  <2>5. PageSize \in Nat \ {0} BY SizeAssumption
  <2>6. b \div PageSize \in Nat BY <2>5, Quotient
  <2>7. b \div PageSize < count BY <1>6, <2>4, <2>5, LastPage
  <2>8. count \in Int BY <1>6, <2>5
  <2>9. b \div PageSize \in I
    <3> HIDE DEF count
    <3> QED BY <1>7, <2>6, <2>7, <2>8
  <2> QED BY <2>3, <2>9 DEF Rank
<1> HIDE DEF E, count, total
<1>10. I \subseteq Nat /\ IsFiniteSet(I) /\ Cardinality(I) = k /\ I # {}
  <2>1. 0 \in Int /\ k - 1 \in Int /\ 0 \in I BY <1>7
  <2>2. IsFiniteSet(0..(k - 1)) /\ Cardinality(0..(k - 1)) = IF 0 > k - 1 THEN 0 ELSE k - 1 - 0 + 1
    BY <2>1, IntervalSize
  <2>3. Cardinality(I) = k BY <1>7, <2>2
  <2>4. \A p \in I : p \in Nat OBVIOUS
  <2> QED BY <2>1, <2>2, <2>3, <2>4
<1>11. \A p \in I : pg(p) \in Page BY <1>1, <1>3, <1>10 DEF Page
<1>12. \A p \in I : /\ pg(p).from = i /\ pg(p).to = j /\ pg(p).epoch = e /\ pg(p).start = st
                    /\ pg(p).high = high[i] /\ pg(p).pages = k /\ pg(p).page = p
                    /\ pg(p).entries = {x \in E : Rank(E, x) \div PageSize = p}
  OBVIOUS
<1> HIDE DEF pg
<1>13. IsFiniteSet(S) /\ Cardinality(S) = k
  <2> DEFINE f == [p \in I |-> pg(p)]
  <2> HIDE DEF I
  <2>1. \A p, q \in I : pg(p) = pg(q) => p = q BY <1>12
  <2>2. f \in Bijection(I, S) BY <2>1 DEF Bijection, Injection, Surjection, IsInjective
  <2> HIDE DEF S, f
  <2>3. ExistsBijection(I, S) BY <2>2 DEF ExistsBijection
  <2> QED BY <1>10, <2>3, FS_Bijection
<1>14. \A p \in S : \E q \in I : p = pg(q) OBVIOUS
<1>15. S \in SUBSET Page /\ S # {} BY <1>10, <1>11
<1>16. \A p \in S : /\ p.from = i /\ p.to = j /\ p.epoch = e /\ p.start = st /\ p.high = high[i]
                    /\ p.pages = Cardinality(S)
  BY <1>12, <1>13, <1>14
<1>17. \A p, r \in S : p.page = r.page => p = r BY <1>12, <1>14
<1>18. \A p \in S : p.entries \subseteq E BY <1>12, <1>14
<1>19. \A p, r \in S : \A x \in p.entries, y \in r.entries : x.slot = y.slot => x = y
  BY <1>4, <1>18
<1>20. \A p \in S : \A x \in p.entries : \E s \in st..high[i] : x \in Report(i, s)
  BY <1>18 DEF E
<1>21. \A s \in st..high[i] : \A x \in Report(i, s) : \E p \in S : x \in p.entries
  <2> SUFFICES ASSUME NEW s \in st..high[i], NEW x \in Report(i, s)
               PROVE  \E p \in S : x \in p.entries
    OBVIOUS
  <2>1. x \in E BY DEF E
  <2>2. PICK q \in I : q = Rank(E, x) \div PageSize BY <1>9, <2>1
  <2>3. x \in pg(q).entries BY <1>12, <2>1, <2>2
  <2> QED BY <2>3
<1> HIDE DEF S
<1> QED BY <1>8, <1>13, <1>15, <1>16, <1>17, <1>19, <1>20, <1>21 DEF SnapshotFacts

\* A Prepare is answered with a snapshot, the old one if there is one.
LEMMA PrepareArrivesMoves ==
    ASSUME TypeOK, Shape, NEW i \in Replica, NEW m \in msgs, Arrives(i, m), ReceivePrepare(i, m)
    PROVE  Moves
<1>1. PICK e \in Epoch : e = m.epoch BY PacketFields DEF TypeOK, ReceivePrepare
<1>2. PICK out : out = PromisePages(i, m) OBVIOUS
<1>3. /\ m.kind = "Prepare" /\ e >= promise[i] /\ promise' = [promise EXCEPT ![i] = e]
      /\ preparing' = IF e > promise[i] THEN [preparing EXCEPT ![i] = FALSE] ELSE preparing
      /\ Deactivate(i, e) /\ frozen' = [frozen EXCEPT ![i] = out] /\ Post(Used(m), out)
      /\ UNCHANGED <<start, pages, accepted, proposed, chosen, votes, acks, high, next,
                     crashed>>
  BY <1>1, <1>2 DEF ReceivePrepare, slotVars, logVars, envVars
<1>4. /\ e \in Nat /\ promise[i] \in Nat /\ \A j \in Replica : promise[j] \in Nat
  BY Numbers, BoundAssumption DEF Epoch
<1>5. e > promise[i] => Idle /\ i \notin crashed /\ Begun(e) /\ Owner(e) # i
  BY <1>1, <1>3, NewEpoch
<1>6. \A p \in out : p.kind = "Promise" /\ p \in Page
  <2>1. out \in SUBSET Page BY <1>2, <1>3, PromisePagesType DEF TypeOK
  <2> QED BY <2>1, PageFields
<1>7. \A j \in Replica : promise'[j] = IF j = i THEN e ELSE promise[j] BY <1>3 DEF TypeOK
<1>8. \A j \in Replica : IF j = i /\ e > promise[i] THEN ~preparing'[j]
                         ELSE preparing'[j] = preparing[j]
  BY <1>3 DEF TypeOK
<1>9. \A j \in Replica : preparing'[j] => ~active'[j]
  <2>1. \A j \in Replica : active'[j] => active[j] BY <1>3 DEF Deactivate, TypeOK
  <2> QED BY <1>8, <2>1 DEF Shape, Roles
<1>10. RoleMoves
  <2> SUFFICES ASSUME NEW j \in Replica PROVE RoleMove(j) BY DEF RoleMoves
  <2>1. CASE j = i
    <3>1. promise'[j] = e /\ start'[j] = start[j] BY <1>3, <1>7, <2>1
    <3>2. CASE e = promise[i]
      <4>1. promise'[j] = promise[j] BY <2>1, <3>1, <3>2
      <4>2. preparing'[j] = preparing[j] BY <1>4, <1>8, <2>1, <3>2
      <4>3. promise[j] <= promise'[j] BY <1>4, <4>1
      <4>4. preparing'[j] => ~active'[j] BY <1>9
      <4> QED BY <3>1, <4>1, <4>2, <4>3, <4>4, Zenon DEF RoleMove
    <3>3. CASE e # promise[i]
      <4>1. e > promise[i] BY <1>3, <1>4, <3>3
      <4>2. ~preparing'[j] BY <1>8, <2>1, <4>1
      <4>3. Begun(promise'[j]) /\ Owner(promise'[j]) # j BY <1>5, <2>1, <3>1, <4>1
      <4> QED BY <1>4, <1>5, <2>1, <3>1, <3>3, <4>1, <4>2, <4>3 DEF RoleMove
    <3> QED BY <3>2, <3>3
  <2>2. CASE j # i
    <3>1. promise'[j] = promise[j] /\ preparing'[j] = preparing[j] BY <1>7, <1>8, <2>2
    <3>2. promise[j] <= promise'[j] BY <1>4, <3>1
    <3>3. preparing'[j] => ~active'[j] BY <1>9
    <3>4. start'[j] = start[j] BY <1>3
    <3> QED BY <3>1, <3>2, <3>3, <3>4, Zenon DEF RoleMove
  <2> QED BY <2>1, <2>2
<1>11. VoteMoves
  <2>1. \A j \in Replica : high[j] \in Int BY Numbers
  <2>2. \A j \in Replica : high[j] <= high'[j] BY <1>3, <2>1
  <2> QED BY <1>3, <2>2, StillVotes
<1>12. \A p \in msgs' : p \in msgs \/ p \in out BY <1>3 DEF Post
<1>13. SendMoves BY <1>6, <1>12 DEF SendMoves, Sent
<1>14. PledgeMoves BY <1>3 DEF PledgeMoves, Post, Used
<1>15. PageMoves
  <2>1. CASE e = promise[i] /\ frozen[i] # {}
    <3>1. out = frozen[i] BY <1>1, <1>2, <2>1 DEF PromisePages
    <3>2. frozen' = frozen BY <1>3, <3>1 DEF TypeOK
    <3>3. Promised' \subseteq Promised BY <1>3, <1>12, <3>1, <3>2 DEF Promised
    <3>4. \A j \in Replica : promise'[j] = promise[j] BY <1>7, <2>1
    <3> QED BY <3>2, <3>3, <3>4 DEF PageMoves
  <2>2. CASE ~(e = promise[i] /\ frozen[i] # {})
    <3>1. Froze(i, m) BY <1>1, <2>2 DEF Froze
    <3> QED BY <3>1 DEF PageMoves
  <2> QED BY <2>1, <2>2
<1>16. PrepareMoves
  <2> SUFFICES ASSUME NEW j \in Replica, preparing'[j], j # i PROVE StillPrepares(j)
    BY DEF PrepareMoves
  <2>1. promise'[j] = promise[j] /\ preparing[j] /\ frozen'[j] = frozen[j]
    BY <1>3, <1>7, <1>8 DEF TypeOK
  <2>2. \A p \in out : p.from = i
    <3>1. \A p \in frozen[i] : p.from = i BY DEF Shape, PromiseShape
    <3>2. CASE out = frozen[i] BY <3>1, <3>2
    <3>3. CASE out = Snapshot(i, m.from, m.epoch, m.start)
      <4>1. m.from \in Replica /\ m.epoch \in Epoch /\ m.start \in 0..(MaxSlot + 1)
        BY <1>3, PacketFields DEF TypeOK
      <4> QED BY <3>3, <4>1, SnapshotForm DEF SnapshotFacts
    <3> QED BY <1>2, <3>2, <3>3 DEF PromisePages
  <2>3. \A p \in msgs' : OwnPage(j, p) => p \in msgs BY <1>12, <2>2 DEF OwnPage
  <2>4. \A p \in msgs : OwnPage(j, p) => p \in msgs' BY <1>3 DEF OwnPage, Post, Used, Arrives
  <2> QED BY <1>3, <2>1, <2>3, <2>4 DEF StillPrepares
<1> QED BY <1>3, <1>10, <1>11, <1>13, <1>14, <1>15, <1>16, StillPlans DEF Moves

\* A page is kept; the promises are still too few.
LEMMA CollectMoves ==
    ASSUME TypeOK, Shape, NEW i \in Replica, NEW m \in msgs, Arrives(i, m), CollectPromise(i, m)
    PROVE  Moves
<1>1. /\ m.kind = "Promise" /\ pages' = [pages EXCEPT ![i] = Collected(i, m)]
      /\ Post(Used(m), {})
      /\ UNCHANGED <<roleVars, frozen, accepted, proposed, chosen, votes, acks, high, next,
                     crashed>>
  BY DEF CollectPromise, PromiseExpected, slotVars, logVars, envVars
<1>2. RoleMoves
  <2>1. Roles BY DEF Shape
  <2> QED BY <1>1, <2>1, StillRoles
<1>3. VoteMoves
  <2>1. \A j \in Replica : high[j] \in Int BY Numbers
  <2>2. \A j \in Replica : high[j] <= high'[j] BY <1>1, <2>1
  <2> QED BY <1>1, <2>2, StillVotes
<1>4. SendMoves BY <1>1 DEF SendMoves, Post
<1>5. PageMoves
  <2>1. msgs' \subseteq msgs BY <1>1 DEF Post
  <2>2. \A j \in Replica : pages'[j] \subseteq pages[j] \cup {m}
    <3>1. Collected(i, m) \subseteq pages[i] \cup {m} BY DEF Collected
    <3> QED BY <1>1, <3>1 DEF TypeOK
  <2>3. m \in Promised BY <1>1 DEF Promised
  <2>4. \A j \in Replica : pages'[j] \subseteq Promised BY <2>2, <2>3 DEF Promised
  <2>5. Promised' \subseteq Promised BY <1>1, <2>1, <2>4 DEF Promised
  <2> QED BY <1>1, <2>5 DEF PageMoves, roleVars
<1>6. PledgeMoves BY <1>1 DEF PledgeMoves, Post, Used
<1>7. PrepareMoves
  <2> SUFFICES ASSUME NEW j \in Replica, preparing'[j], j # i PROVE StillPrepares(j)
    BY DEF PrepareMoves
  <2>1. preparing[j] /\ promise'[j] = promise[j] /\ start'[j] = start[j] BY <1>1 DEF roleVars
  <2>2. pages'[j] = pages[j] BY <1>1 DEF TypeOK
  <2>3. \A p \in msgs' : OwnPage(j, p) => p \in msgs BY <1>1 DEF Post
  <2>4. \A p \in msgs : OwnPage(j, p) => p \in msgs' BY <1>1 DEF OwnPage, Post, Used, Arrives
  <2> QED BY <1>1, <2>1, <2>2, <2>3, <2>4 DEF StillPrepares
<1> QED BY <1>1, <1>2, <1>3, <1>4, <1>5, <1>6, <1>7, StillPlans DEF Moves

-----------------------------------------------------------------------------
(***************************************************************************)
(* A coordinator begins an epoch, takes over and plans.                    *)
(***************************************************************************)
\* What resend broadcasts: decisions, and the coordinator's plans.
LEMMA ResentSends ==
    ASSUME TypeOK, NEW i \in Replica, NEW S \in SUBSET Slot, NEW prop \in [Slot -> Ballots],
           NEW kn, NEW e, NEW m \in Resent(i, S, prop, kn, e)
    PROVE  /\ m.kind \in {"Commit", "Accept", "FetchValue"} /\ m.from = i
           /\ m.kind = "Commit" => Claimed(m.slot, m.value)
           /\ m.kind = "Accept" =>
                 /\ m.slot \in S /\ m.epoch = e /\ prop[m.slot] # None
                 /\ prop[m.slot].epoch = e /\ prop[m.slot].value = m.value
                 /\ \/ accepted[i][m.slot] = prop[m.slot]
                    \/ Accept(i, i, e, m.slot, m.value) \in Resent(i, S, prop, kn, e)
<1> DEFINE Of(s) ==
           IF chosen[i][s] # None
           THEN {Commit(i, j, s, chosen[i][s], chosen[i][s] \in kn) : j \in Replica}
           ELSE IF prop[s] = None \/ prop[s].epoch # e THEN {}
           ELSE IF prop[s].value \in kn \cup {Noop}
           THEN {Accept(i, j, e, s, prop[s].value) : j \in Hearers(i, s, prop[s])}
           ELSE {FetchValue(i, j, prop[s].value) : j \in Replica \ {i}}
<1>1. Resent(i, S, prop, kn, e) = UNION {Of(s) : s \in S} BY DEF Resent
<1>2. PICK s \in S : m \in Of(s) BY <1>1
<1>3. CASE chosen[i][s] # None
  <2>1. PICK j \in Replica : m = Commit(i, j, s, chosen[i][s], chosen[i][s] \in kn)
    BY <1>2, <1>3
  <2>2. m.kind = "Commit" /\ m.from = i /\ m.slot = s /\ m.value = chosen[i][s]
    BY <2>1 DEF Commit
  <2>3. Claimed(s, chosen[i][s]) BY <1>3 DEF Claimed
  <2> QED BY <2>2, <2>3
<1>4. CASE chosen[i][s] = None /\ (prop[s] = None \/ prop[s].epoch # e) BY <1>2, <1>4
<1>5. CASE chosen[i][s] = None /\ ~(prop[s] = None \/ prop[s].epoch # e)
  <2>1. CASE prop[s].value \in kn \cup {Noop}
    <3>1. Of(s) = {Accept(i, j, e, s, prop[s].value) : j \in Hearers(i, s, prop[s])}
      BY <1>5, <2>1
    <3>2. PICK j \in Hearers(i, s, prop[s]) : m = Accept(i, j, e, s, prop[s].value)
      BY <1>2, <3>1
    <3>3. /\ m.kind = "Accept" /\ m.from = i /\ m.slot = s /\ m.epoch = e
          /\ m.value = prop[s].value
      BY <3>2 DEF Accept
    <3>4. accepted[i][s] = prop[s] \/ i \in Hearers(i, s, prop[s]) BY DEF Hearers
    <3>5. i \in Hearers(i, s, prop[s]) =>
             Accept(i, i, e, s, prop[s].value) \in Resent(i, S, prop, kn, e)
      <4> HIDE DEF Of
      <4> QED BY <1>1, <3>1
    <3> HIDE DEF Of
    <3> QED BY <1>5, <3>3, <3>4, <3>5
  <2>2. CASE prop[s].value \notin kn \cup {Noop}
    <3>1. PICK j \in Replica : m = FetchValue(i, j, prop[s].value) BY <1>2, <1>5, <2>2
    <3> QED BY <3>1 DEF FetchValue
  <2> QED BY <2>1, <2>2
<1> QED BY <1>3, <1>4, <1>5

\* The coordinator has a quorum of promises and plans every slot they report.
LEMMA TakeOverMoves ==
    ASSUME TypeOK, TypeOK', Shape, NEW i \in Replica, NEW m \in msgs, Arrives(i, m), TakeOver(i, m)
    PROVE  Moves
<1>1. PICK P \in SUBSET Page : P = Collected(i, m) BY CollectedType DEF TakeOver, TypeOK
<1>2. PICK last \in (start[i] - 1)..MaxSlot : last = LastSlot(i, P) BY LastSlotType
<1>3. PICK kn \in SUBSET Request : kn = known[i] \cup (Payloads(P) \ {Noop})
  BY PayloadsType DEF TypeOK
<1> DEFINE span == start[i]..last
           Prop(pick) == [s \in Slot |-> IF s \in span
                            THEN [epoch |-> promise[i], value |-> pick[s]]
                            ELSE proposed[i][s]]
<1>4. /\ MaxSlot \in Nat /\ start[i] \in 0..(MaxSlot + 1) /\ promise[i] \in Epoch
      /\ last \in -1..MaxSlot /\ last + 1 \in 0..(MaxSlot + 1) /\ span \subseteq Slot
  BY <1>2, Numbers, BoundAssumption DEF Slot
<1>5. PICK pick \in [span -> Command] :
        /\ proposed' = [proposed EXCEPT ![i] = Prop(pick)]
        /\ Post(Used(m), Resent(i, Scan(i, start[i], last), Prop(pick), kn, promise[i]))
  BY <1>1, <1>2, <1>3 DEF TakeOver
<1>6. /\ acks' = [acks EXCEPT ![i] = [s \in Slot |-> IF s \in span THEN {} ELSE @[s]]]
      /\ pages' = [pages EXCEPT ![i] = P]
      /\ preparing' = [preparing EXCEPT ![i] = FALSE] /\ active' = [active EXCEPT ![i] = TRUE]
      /\ high' = [high EXCEPT ![i] = last] /\ next' = [next EXCEPT ![i] = last + 1]
      /\ UNCHANGED <<promise, start, accepted, chosen, votes, frozen, crashed>>
      /\ m.kind = "Promise" /\ preparing[i]
  BY <1>1, <1>2, <1>3 DEF TakeOver, PromiseExpected, envVars
<1>7. PICK prop \in [Slot -> Ballots] : prop = Prop(pick)
  <2>1. \A s \in Slot : proposed[i][s] \in Ballots BY DEF TypeOK
  <2>2. \A s \in span : [epoch |-> promise[i], value |-> pick[s]] \in Ballots
    BY <1>4 DEF Ballots
  <2> HIDE DEF span
  <2> QED BY <2>1, <2>2
<1>8. \A s \in Slot : \/ s \in span /\ prop[s] = [epoch |-> promise[i], value |-> pick[s]]
                      \/ s \notin span /\ prop[s] = proposed[i][s]
  BY <1>7
<1>9. proposed'[i] = prop /\ \A j \in Replica \ {i} : proposed'[j] = proposed[j]
  BY <1>5, <1>7 DEF TypeOK
<1>10. TookOver(i) BY DEF TookOver
<1>11. promise[i] > 0 /\ Owner(promise[i]) = i BY <1>6 DEF Shape, Roles
<1>12. RoleMoves
  <2>1. \A j \in Replica : promise[j] \in Nat BY Numbers
  <2>2. ~preparing'[i] /\ \A j \in Replica \ {i} : preparing'[j] = preparing[j] /\ active'[j] = active[j]
    BY <1>6 DEF TypeOK
  <2> SUFFICES ASSUME NEW j \in Replica PROVE RoleMove(j) BY DEF RoleMoves
  <2>3. promise[j] <= promise'[j] /\ promise'[j] = promise[j] /\ start'[j] = start[j]
    BY <1>6, <2>1
  <2>4. CASE j = i BY <1>10, <2>2, <2>3, <2>4, Zenon DEF RoleMove
  <2>5. CASE j # i
    <3>1. preparing'[j] = preparing[j] /\ active'[j] = active[j] BY <2>2, <2>5
    <3>2. preparing'[j] => ~active'[j] BY <3>1 DEF Shape, Roles
    <3> QED BY <2>3, <3>1, <3>2, Zenon DEF RoleMove
  <2> QED BY <2>4, <2>5
<1>13. VoteMoves
  <2>1. \A j \in Replica : next[j] \in Nat /\ high[j] \in Int BY Numbers
  <2>2. \A j \in Replica \ {i} : next'[j] = next[j] /\ high'[j] = high[j] BY <1>6 DEF TypeOK
  <2>3. ASSUME NEW j \in Replica
        PROVE  (next[j] <= next'[j] /\ high[j] <= high'[j]) \/ TookOver(j)
    BY <1>10, <2>1, <2>2
  <2> QED BY <1>6, <2>3 DEF VoteMoves
<1>14. PlanMoves
  <2> SUFFICES ASSUME NEW j \in Replica, NEW s \in Slot, proposed'[j][s] # proposed[j][s]
               PROVE  NewPlan(j, s)
    BY DEF PlanMoves
  <2>1. j = i /\ s \in span /\ proposed'[i][s] = [epoch |-> promise[i], value |-> pick[s]]
    BY <1>8, <1>9
  <2>2. proposed'[i][s] # None /\ proposed'[i][s].epoch = promise[i]
    <3>1. proposed'[i][s] \in [epoch : Epoch, value : Command] BY <1>4, <2>1
    <3> QED BY <2>1, <3>1, NoneAssumption
  <2>3. next'[i] = last + 1 /\ acks'[i][s] = {} BY <1>6, <2>1 DEF TypeOK
  <2>4. start[i] <= s /\ s < last + 1 BY <1>4, <2>1
  <2> QED BY <1>6, <1>10, <2>1, <2>2, <2>3, <2>4 DEF NewPlan
<1>15. AckMoves
  <2>1. \A j \in Replica, s \in Slot : acks'[j][s] \subseteq acks[j][s]
    <3> HIDE DEF span
    <3> QED BY <1>6 DEF TypeOK
  <2> QED BY <1>6, <2>1 DEF AckMoves
<1> DEFINE out == Resent(i, Scan(i, start[i], last), prop, kn, promise[i])
<1>16. \A p \in out :
         /\ p.kind \in {"Commit", "Accept", "FetchValue"} /\ p.from = i
         /\ p.kind = "Commit" => Claimed(p.slot, p.value)
         /\ p.kind = "Accept" =>
               /\ p.slot \in Slot /\ p.epoch = promise[i] /\ prop[p.slot] # None
               /\ prop[p.slot].epoch = promise[i] /\ prop[p.slot].value = p.value
               /\ \/ accepted[i][p.slot] = prop[p.slot]
                  \/ Accept(i, i, promise[i], p.slot, p.value) \in out
  <2>1. PICK S \in SUBSET Slot : S = Scan(i, start[i], last) BY <1>4, ScanType
  <2>2. out = Resent(i, S, prop, kn, promise[i]) BY <2>1
  <2> HIDE DEF out
  <2> QED BY <2>2, ResentSends
<1>17. msgs' = (msgs \ Used(m)) \cup out BY <1>5, <1>7 DEF Post
<1> HIDE DEF out, span, Prop
<1>18. SendMoves
  <2> SUFFICES ASSUME NEW p \in out PROVE Sent(p) BY <1>17 DEF SendMoves
  <2>1. CASE p.kind = "Accept"
    <3>1. PICK s \in Slot : s = p.slot BY <1>16, <2>1
    <3>2. prop[s] = [epoch |-> p.epoch, value |-> p.value]
      <4>1. prop[s] \in [epoch : Epoch, value : Command] BY <1>16, <2>1, <3>1 DEF Ballots
      <4> QED BY <1>16, <2>1, <3>1, <4>1
    <3>3. \/ accepted[i][s] = prop[s]
          \/ \E a \in msgs' : a.kind = "Accept" /\ a.from = a.to /\ a.epoch = p.epoch /\ a.slot = s
      <4>1. CASE Accept(i, i, promise[i], s, p.value) \in out
        <5>1. Accept(i, i, promise[i], s, p.value) \in msgs' BY <1>17, <4>1
        <5> QED BY <1>16, <2>1, <5>1 DEF Accept
      <4> QED BY <1>16, <2>1, <3>1, <4>1
    <3>4. ~preparing'[i] BY <1>6 DEF TypeOK
    <3>5. p.from = i /\ p.epoch = promise[i] BY <1>16, <2>1
    <3> QED BY <1>6, <1>9, <1>11, <2>1, <3>1, <3>2, <3>3, <3>4, <3>5 DEF Sent
  <2>2. CASE p.kind # "Accept" BY <1>16, <2>2 DEF Sent
  <2> QED BY <2>1, <2>2
<1>19. PageMoves
  <2>1. \A p \in msgs' : p.kind = "Promise" => p \in msgs BY <1>16, <1>17
  <2>2. P \subseteq pages[i] \cup {m} BY <1>1 DEF Collected
  <2>3. m \in Promised BY <1>6 DEF Promised
  <2>4. \A j \in Replica : pages'[j] \subseteq Promised
    BY <1>6, <2>2, <2>3 DEF Promised, TypeOK
  <2>5. Promised' \subseteq Promised BY <1>6, <2>1, <2>4 DEF Promised
  <2> QED BY <1>6, <2>5 DEF PageMoves
<1>20. \A p \in msgs : p \in msgs' \/ p = m BY <1>17 DEF Used
<1>21. PledgeMoves BY <1>6, <1>20 DEF PledgeMoves
<1>22. PrepareMoves
  <2> SUFFICES ASSUME NEW j \in Replica, preparing'[j] PROVE StillPrepares(j)
    BY DEF PrepareMoves
  <2>1. j # i /\ preparing[j] BY <1>6 DEF TypeOK
  <2>2. pages'[j] = pages[j] BY <1>6, <2>1 DEF TypeOK
  <2>3. \A p \in msgs' : OwnPage(j, p) => p \in msgs BY <1>16, <1>17 DEF OwnPage
  <2>4. \A p \in msgs : OwnPage(j, p) => p \in msgs' BY <1>20, <2>1 DEF OwnPage, Arrives
  <2> QED BY <1>6, <2>1, <2>2, <2>3, <2>4 DEF StillPrepares
<1>23. ChoiceMoves BY <1>6, StillPlans
<1> QED BY <1>12, <1>13, <1>14, <1>15, <1>18, <1>19, <1>21, <1>22, <1>23 DEF Moves

\* An epoch is numbered after its coordinator.
LEMMA NextEpochOwner ==
    ASSUME NEW n \in Nat \ {0}, NEW p \in Nat, NEW i \in 0..(n - 1)
    PROVE  /\ ((p \div n + 1) * n + i) % n = i
           /\ (p \div n + 1) * n + i > p /\ (p \div n + 1) * n + i \in Nat
<1>1. PICK q \in Nat : q = p \div n BY Division
<1>2. PICK k \in Nat : k = q + 1 OBVIOUS
<1>3. (k * n + i) % n = i BY SMT
<1>4. p < n * q + n BY <1>1, Division
<1>5. n * k = n * q + n /\ n * k = k * n /\ k * n \in Nat BY <1>2, SMT
<1>6. k * n + i > p BY <1>4, <1>5
<1> QED BY <1>1, <1>2, <1>3, <1>5, <1>6

\* A replica opens an epoch of its own.
LEMMA BeginMoves ==
    ASSUME TypeOK, Shape, NEW i \in Replica, NEW due, TickBegin(i, due)
    PROVE  Moves
<1>1. PICK e \in Epoch : e = NextEpoch(i) BY DEF TickBegin
<1>2. promise[i] \in Nat /\ e \in Nat /\ \A j \in Replica : promise[j] \in Nat
  BY Numbers, BoundAssumption DEF Epoch
<1>3. Owner(e) = i /\ e > promise[i] /\ e > 0
  <2>1. N \in Nat \ {0} /\ i \in 0..(N - 1) BY NAssumption DEF Replica
  <2>2. e % N = i /\ e > promise[i] BY <1>1, <1>2, <2>1, NextEpochOwner DEF NextEpoch
  <2> QED BY <1>2, <2>2 DEF Owner
<1> DEFINE prepare == {Prepare(i, j, e, executed[i] + 1) : j \in Replica}
           out == Beat(i, due, promise[i]) \cup prepare
<1>4. /\ Idle /\ i \notin crashed
      /\ promise' = [promise EXCEPT ![i] = e] /\ active' = [active EXCEPT ![i] = FALSE]
      /\ preparing' = [preparing EXCEPT ![i] = TRUE]
      /\ start' = [start EXCEPT ![i] = executed[i] + 1]
      /\ pages' = [pages EXCEPT ![i] = {}] /\ frozen' = [frozen EXCEPT ![i] = {}]
      /\ Post({}, out)
      /\ UNCHANGED <<accepted, proposed, chosen, votes, acks, high, next, crashed>>
  BY <1>1 DEF TickBegin, slotVars, logVars, envVars
<1>5. /\ promise'[i] = e /\ ~active'[i] /\ preparing'[i] /\ start'[i] = executed[i] + 1
      /\ \A j \in Replica \ {i} :
            /\ promise'[j] = promise[j] /\ active'[j] = active[j] /\ preparing'[j] = preparing[j]
            /\ start'[j] = start[j] /\ pages'[j] = pages[j] /\ frozen'[j] = frozen[j]
      /\ \A j \in Replica : pages'[j] \subseteq pages[j] /\ frozen'[j] \subseteq frozen[j]
      /\ frozen'[i] = {}
  BY <1>4 DEF TypeOK
<1>6. RoleMoves
  <2>1. Roles BY DEF Shape
  <2>2. promise'[i] # promise[i] /\ promise[i] <= promise'[i] BY <1>2, <1>3, <1>5
  <2> SUFFICES ASSUME NEW j \in Replica PROVE RoleMove(j) BY DEF RoleMoves
  <2>3. CASE j = i
    <3>1. Owner(promise'[i]) = i BY <1>3, <1>5
    <3> QED BY <1>4, <1>5, <2>2, <2>3, <3>1 DEF RoleMove
  <2>4. CASE j # i
    <3>1. promise'[j] = promise[j] /\ start'[j] = start[j] /\ preparing'[j] = preparing[j]
      BY <1>5, <2>4
    <3>2. promise[j] <= promise'[j] BY <1>2, <3>1
    <3>3. preparing'[j] => ~active'[j] BY <1>5, <2>1, <2>4 DEF Roles
    <3> QED BY <3>1, <3>2, <3>3, Zenon DEF RoleMove
  <2> QED BY <2>3, <2>4
<1>7. VoteMoves
  <2>1. \A j \in Replica : high[j] \in Int BY Numbers
  <2>2. \A j \in Replica : high[j] <= high'[j] BY <1>4, <2>1
  <2> QED BY <1>4, <2>2, StillVotes
<1>8. \A p \in prepare : /\ p.kind = "Prepare" /\ p.from = i /\ p.epoch = e
                         /\ p.start = executed[i] + 1
  BY DEF Prepare
<1>9. \A p \in Beat(i, due, promise[i]) : p.kind = "Heartbeat" BY DEF Beat, Heartbeat
<1> HIDE DEF prepare
<1>10. SendMoves
  <2>1. \A p \in prepare : Sent(p) BY <1>3, <1>5, <1>8 DEF Sent
  <2>2. \A p \in out : Sent(p) BY <2>1, BeatMoves
  <2> HIDE DEF out
  <2> QED BY <1>4, <2>2, PostSends
<1>11. \A p \in msgs' : p \in msgs \/ (p.kind \in {"Prepare", "Heartbeat"} /\ (p.kind = "Prepare" => p.from = i))
  BY <1>4, <1>8, <1>9 DEF Post
<1>12. msgs \subseteq msgs' BY <1>4 DEF Post
<1>13. PageMoves
  <2>1. Promised' \subseteq Promised BY <1>5, <1>11 DEF Promised
  <2>2. promise'[i] # promise[i] BY <1>2, <1>3, <1>5
  <2> QED BY <1>5, <2>1, <2>2 DEF PageMoves
<1>14. PledgeMoves BY <1>4, <1>12 DEF PledgeMoves
<1>15. PrepareMoves
  <2> SUFFICES ASSUME NEW j \in Replica, preparing'[j], j # i PROVE StillPrepares(j)
    BY DEF PrepareMoves
  <2>1. \A p \in msgs' : OwnPage(j, p) => p \in msgs BY <1>11 DEF OwnPage
  <2> QED BY <1>4, <1>5, <1>12, <2>1 DEF StillPrepares
<1> QED BY <1>4, <1>6, <1>7, <1>10, <1>13, <1>14, <1>15, StillPlans DEF Moves

\* Flush numbers what it reads in a row.
LEMMA FreshGrows ==
    ASSUME NEW i \in Replica, NEW b \in Nat, NEW a \in 0..b
    PROVE  /\ Fresh(i, b) \in Nat /\ Fresh(i, a) \in Nat /\ Fresh(i, a) <= Fresh(i, b)
           /\ a # 0 /\ queue[i][a] \notin Done(i) => Fresh(i, a - 1) < Fresh(i, b)
<1> DEFINE A(k) == {x \in 1..k : queue[i][x] \notin Done(i)}
<1>1. ASSUME NEW k \in Int PROVE IsFiniteSet(A(k)) /\ Fresh(i, k) = Cardinality(A(k))
  <2>1. IsFiniteSet(1..k) BY IntervalSize
  <2>2. A(k) \in SUBSET (1..k) OBVIOUS
  <2> QED BY <2>1, <2>2, FS_Subset DEF Fresh
<1>2. A(a) \in SUBSET A(b) OBVIOUS
<1>3. a # 0 /\ queue[i][a] \notin Done(i) =>
         /\ A(a - 1) \in SUBSET A(b) /\ a \in A(b) /\ a \notin A(a - 1)
  OBVIOUS
<1>4. a \in Int /\ b \in Int /\ a - 1 \in Int OBVIOUS
<1> HIDE DEF A
<1>5. Cardinality(A(a)) <= Cardinality(A(b)) BY <1>1, <1>2, <1>4, FS_Subset
<1>6. ASSUME a # 0, queue[i][a] \notin Done(i) PROVE Fresh(i, a - 1) < Fresh(i, b)
  <2>1. A(a - 1) \cup {a} \in SUBSET A(b) BY <1>3, <1>6
  <2>2. Cardinality(A(a - 1) \cup {a}) <= Cardinality(A(b)) BY <1>1, <1>4, <2>1, FS_Subset
  <2>3. Cardinality(A(a - 1) \cup {a}) = Cardinality(A(a - 1)) + 1
    BY <1>1, <1>3, <1>4, <1>6, FS_AddElement
  <2>4. Cardinality(A(a - 1)) \in Nat /\ Cardinality(A(b)) \in Nat BY <1>1, <1>4, CardNat
  <2> QED BY <1>1, <1>4, <2>2, <2>3, <2>4
<1> QED BY <1>1, <1>4, <1>5, <1>6, CardNat

\* The slots that flush hands out end where next moves to.
LEMMA SlotsBelow ==
    ASSUME TypeOK, NEW i \in Replica, IsFiniteSet(Slots(i)), NEW s \in Slots(i)
    PROVE  s < next[i] + Cardinality(Slots(i))
<1>1. PICK n \in Nat : n = next[i] BY Numbers
<1>2. queue[i] \in Seq(Request) BY DEF TypeOK
<1>3. PICK k \in Reads(i) : queue[i][k] \notin Done(i) /\ s = n + Fresh(i, k - 1)
  BY <1>1 DEF Slots
<1>4. PICK c \in Nat : c = k - 1 /\ k \in Nat /\ k > 0 BY <1>2, <1>3 DEF Reads
<1>5. PICK f \in Nat : f = Fresh(i, c) BY <1>4, FreshGrows
<1>6. Room(i) \in Int
  <2>1. PageSize \in Int /\ InflightWindow - (next[i] - executed[i]) \in Int
    BY SizeAssumption, Numbers
  <2> QED BY <2>1, LeastType DEF Room
<1>7. f < Room(i) BY <1>3, <1>4, <1>5 DEF Reads
<1> DEFINE A == {x \in 1..k : queue[i][x] \notin Done(i)}
           slot == [x \in A |-> n + Fresh(i, x - 1)]
<1>8. ASSUME NEW x \in A PROVE slot[x] \in Slots(i)
  <2>1. PICK y \in 0..c : y = x - 1 BY <1>4
  <2>2. Fresh(i, y) \in Nat /\ Fresh(i, y) <= f BY <1>4, <1>5, <2>1, FreshGrows
  <2>3. Fresh(i, x - 1) < Room(i) BY <1>6, <1>7, <2>1, <2>2
  <2>4. x \in DOMAIN queue[i] BY <1>2, <1>3 DEF Reads
  <2>5. x \in {a \in Reads(i) : queue[i][a] \notin Done(i)} BY <2>3, <2>4 DEF Reads
  <2> QED BY <1>1, <2>5 DEF Slots
<1>9. ASSUME NEW x \in A, NEW y \in A, x < y PROVE slot[x] # slot[y]
  <2>0. x \in Nat /\ y \in Nat /\ x > 0 BY <1>4
  <2>1. PICK z \in Nat : z = y - 1 /\ x \in 0..z BY <1>9, <2>0
  <2>2. PICK w \in 0..z : w = x - 1 BY <2>0, <2>1
  <2>3. Fresh(i, x - 1) < Fresh(i, z) BY <2>1, FreshGrows
  <2>4. Fresh(i, w) \in Nat /\ Fresh(i, z) \in Nat BY <2>1, <2>2, FreshGrows
  <2> QED BY <2>1, <2>2, <2>3, <2>4
<1>10. slot \in Injection(A, Slots(i))
  <2>1. \A x, y \in A : slot[x] = slot[y] => x = y
    <3> SUFFICES ASSUME NEW x \in A, NEW y \in A, x # y PROVE slot[x] # slot[y] OBVIOUS
    <3>1. x < y \/ y < x OBVIOUS
    <3> QED BY <1>9, <3>1
  <2> HIDE DEF A
  <2>2. slot \in [A -> Slots(i)] BY <1>8
  <2> QED BY <2>1, <2>2 DEF Injection, IsInjective
<1> HIDE DEF slot
<1>11. Cardinality(A) <= Cardinality(Slots(i)) BY <1>10, FS_Injection
<1>12. Cardinality(A) = Fresh(i, k) BY DEF Fresh
<1>13. k \in 0..k BY <1>4
<1>14. Fresh(i, k) \in Nat /\ Fresh(i, k - 1) < Fresh(i, k) BY <1>3, <1>4, <1>13, FreshGrows
<1>15. Cardinality(Slots(i)) \in Nat BY CardNat
<1> HIDE DEF A
<1> QED BY <1>1, <1>3, <1>4, <1>5, <1>11, <1>12, <1>14, <1>15

\* The coordinator plans what it has queued.
LEMMA LeadMoves ==
    ASSUME TypeOK, TypeOK', Shape, NEW i \in Replica, NEW due, TickLead(i, due)
    PROVE  Moves
<1>1. PICK S : S = Slots(i) OBVIOUS
<1> DEFINE Prop == [s \in Slot |-> IF s \in S
                      THEN [epoch |-> promise[i], value |-> RequestAt(i, s)]
                      ELSE proposed[i][s]]
           Hi == IF S = {} THEN high[i] ELSE Top(high[i], next[i] + Cardinality(S) - 1)
<1>2. PICK prop : prop = Prop OBVIOUS
<1>3. PICK hi : hi = Hi OBVIOUS
<1> DEFINE accepts == {Accept(i, j, promise[i], s, prop[s].value) : j \in Replica, s \in S}
           again == IF "repair" \in due
                    THEN Resent(i, Scan(i, cursor[i], hi), prop, known[i], promise[i]) ELSE {}
           out == Beat(i, due, promise[i]) \cup accepts \cup again
                    \cup (IF "retry" \in due THEN Retries(i) ELSE {})
<1>4. /\ Leads(i) /\ S \subseteq 0..world.last
      /\ next' = [next EXCEPT ![i] = @ + Cardinality(S)] /\ high' = [high EXCEPT ![i] = hi]
      /\ proposed' = [proposed EXCEPT ![i] = prop]
      /\ acks' = [acks EXCEPT ![i] = [s \in Slot |-> IF s \in S THEN {} ELSE @[s]]]
      /\ Post({}, out)
      /\ UNCHANGED <<roleVars, accepted, chosen, votes, pageVars, crashed>>
  BY <1>1, <1>2, <1>3 DEF TickLead, envVars
<1> HIDE DEF accepts, again, Hi
<1>5. /\ MaxSlot \in Nat /\ next[i] \in Nat /\ high[i] \in -1..MaxSlot /\ start[i] \in Nat
      /\ promise[i] \in Epoch /\ cursor[i] \in 0..(MaxSlot + 1) /\ world.last \in Slot
      /\ next[i] <= MaxSlot + 1
  BY Numbers, BoundAssumption
<1>6. S \subseteq Slot BY <1>4, <1>5 DEF Slot
<1>7. IsFiniteSet(S)
  <2>1. IsFiniteSet(Slot) BY IntervalSize, BoundAssumption DEF Slot
  <2> QED BY <1>6, <2>1, FS_Subset
<1>8. PICK c \in Nat : c = Cardinality(S) BY <1>7, CardNat
<1>9. PICK n \in Nat : n = next[i] BY <1>5
<1>10. next'[i] = n + c /\ high'[i] = hi BY <1>4, <1>8, <1>9 DEF TypeOK
<1>11. \A s \in S : n <= s /\ s < n + c BY <1>1, <1>7, <1>8, <1>9, SlotsBelow, SlotsType
<1>12. prop \in [Slot -> Ballots]
  <2>1. \A s \in Slot : proposed[i][s] \in Ballots BY DEF TypeOK
  <2>2. \A s \in S : RequestAt(i, s) \in Request BY <1>1, SlotsType
  <2>3. \A s \in S : [epoch |-> promise[i], value |-> RequestAt(i, s)] \in Ballots
    BY <1>5, <2>2 DEF Ballots, Command
  <2> QED BY <1>2, <2>1, <2>3
<1>13. \A s \in Slot :
         IF s \in S THEN prop[s] # None /\ prop[s].epoch = promise[i] ELSE prop[s] = proposed[i][s]
  <2>1. \A s \in S : [epoch |-> promise[i], value |-> RequestAt(i, s)] \in [epoch : Epoch, value : Command]
    BY <1>1, <1>5, SlotsType DEF Command
  <2> QED BY <1>2, <2>1, NoneAssumption
<1>14. proposed'[i] = prop /\ \A j \in Replica \ {i} : proposed'[j] = proposed[j]
  BY <1>4 DEF TypeOK
<1>15. Leading(i) /\ promise[i] > 0 /\ Owner(promise[i]) = i /\ ~preparing[i]
  BY <1>4 DEF Leads, Leading, Shape, Roles
<1>16. start[i] <= n BY <1>9, <1>15 DEF Shape, Plans
<1>17. high[i] <= hi
  <2>1. CASE S = {} BY <1>3, <1>5, <2>1 DEF Hi
  <2>2. CASE S # {}
    <3>1. high[i] \in Int /\ n + c - 1 \in Int BY <1>5
    <3>2. hi = Top(high[i], n + c - 1) BY <1>3, <1>8, <1>9, <2>2 DEF Hi
    <3> QED BY <3>1, <3>2, TopLeast
  <2> QED BY <2>1, <2>2
<1>18. hi \in -1..MaxSlot BY <1>10 DEF TypeOK
<1>19. RoleMoves
  <2>1. Roles BY DEF Shape
  <2> QED BY <1>4, <2>1, StillRoles
<1>20. VoteMoves
  <2>1. ASSUME NEW j \in Replica PROVE next[j] <= next'[j] /\ high[j] <= high'[j]
    <3>1. next[j] \in Nat /\ high[j] \in Int BY Numbers
    <3>2. j # i => next'[j] = next[j] /\ high'[j] = high[j] BY <1>4 DEF TypeOK
    <3> QED BY <1>9, <1>10, <1>17, <3>1, <3>2
  <2> QED BY <1>4, <2>1 DEF VoteMoves
<1>21. PlanMoves
  <2> SUFFICES ASSUME NEW j \in Replica, NEW s \in Slot, proposed'[j][s] # proposed[j][s]
               PROVE  NewPlan(j, s)
    BY DEF PlanMoves
  <2>1. j = i /\ s \in S BY <1>13, <1>14
  <2>2. proposed'[i][s] # None /\ proposed'[i][s].epoch = promise[i] BY <1>13, <1>14, <2>1
  <2>3. promise'[i] = promise[i] BY <1>4 DEF roleVars
  <2>4. acks'[i][s] = {} BY <1>4, <2>1 DEF TypeOK
  <2>5. n <= s /\ s < n + c /\ start[i] <= s
    <3>1. s \in Nat /\ start[i] \in Nat BY <1>5, BoundAssumption DEF Slot
    <3> QED BY <1>9, <1>11, <1>16, <2>1, <3>1
  <2> QED BY <1>9, <1>10, <1>15, <2>1, <2>2, <2>3, <2>4, <2>5 DEF NewPlan
<1>22. AckMoves
  <2>1. \A j \in Replica, s \in Slot : acks'[j][s] \subseteq acks[j][s]
    BY <1>4 DEF TypeOK
  <2> QED BY <1>4, <2>1 DEF AckMoves
<1>23. ASSUME NEW p \in accepts
       PROVE  /\ p.kind = "Accept" /\ p.from = i /\ p.slot \in S /\ p.epoch = promise[i]
              /\ p.value = prop[p.slot].value
              /\ \E a \in accepts : /\ a.kind = "Accept" /\ a.from = a.to
                                    /\ a.epoch = p.epoch /\ a.slot = p.slot
  <2>1. PICK j \in Replica, s \in S : p = Accept(i, j, promise[i], s, prop[s].value)
    BY DEF accepts
  <2>2. PICK a \in accepts : a = Accept(i, i, promise[i], s, prop[s].value) BY DEF accepts
  <2> QED BY <2>1, <2>2 DEF Accept
<1>24. ASSUME NEW p \in again
       PROVE  /\ p.kind \in {"Commit", "Accept", "FetchValue"} /\ p.from = i
              /\ p.kind = "Commit" => Claimed(p.slot, p.value)
              /\ p.kind = "Accept" =>
                    /\ p.slot \in Slot /\ p.epoch = promise[i] /\ prop[p.slot] # None
                    /\ prop[p.slot].epoch = promise[i] /\ prop[p.slot].value = p.value
                    /\ \/ accepted[i][p.slot] = prop[p.slot]
                       \/ Accept(i, i, promise[i], p.slot, p.value) \in again
  <2>1. PICK T \in SUBSET Slot : T = Scan(i, cursor[i], hi) BY <1>5, <1>18, ScanType
  <2>2. again = Resent(i, T, prop, known[i], promise[i]) BY <2>1 DEF again
  <2> QED BY <1>12, <2>2, ResentSends
<1>25. \A p \in Beat(i, due, promise[i]) : p.kind = "Heartbeat" BY DEF Beat, Heartbeat
<1>26. \A p \in Retries(i) : p.kind \in {"FetchValue", "Forward"}
  BY DEF Retries, FetchValue, Forward
<1>27. /\ \A p \in msgs' : \/ p \in msgs \/ p \in Beat(i, due, promise[i]) \/ p \in accepts
                           \/ p \in again \/ p \in Retries(i)
       /\ accepts \subseteq msgs' /\ again \subseteq msgs' /\ msgs \subseteq msgs'
  BY <1>4 DEF Post
<1>28. ASSUME NEW p, p \in accepts \/ p \in again, p.kind = "Accept"
       PROVE  /\ p.from = i /\ p.slot \in Slot /\ p.epoch = promise[i]
              /\ prop[p.slot] = [epoch |-> p.epoch, value |-> p.value]
              /\ \/ accepted[i][p.slot] = prop[p.slot]
                 \/ \E a \in msgs' : a.kind = "Accept" /\ a.from = a.to /\ a.epoch = p.epoch /\ a.slot = p.slot
  <2>1. /\ p.from = i /\ p.slot \in Slot /\ p.epoch = promise[i]
        /\ prop[p.slot] # None /\ prop[p.slot].epoch = promise[i] /\ prop[p.slot].value = p.value
    BY <1>6, <1>13, <1>23, <1>24, <1>28
  <2>2. prop[p.slot] = [epoch |-> p.epoch, value |-> p.value]
    <3>1. prop[p.slot] \in [epoch : Epoch, value : Command] BY <1>12, <2>1 DEF Ballots
    <3> QED BY <2>1, <3>1
  <2>3. CASE p \in accepts BY <1>23, <1>27, <2>1, <2>2, <2>3
  <2>4. CASE p \in again
    <3>1. CASE Accept(i, i, promise[i], p.slot, p.value) \in again
      <4>1. Accept(i, i, promise[i], p.slot, p.value) \in msgs' BY <1>27, <3>1
      <4> QED BY <2>1, <2>2, <4>1 DEF Accept
    <3> QED BY <1>24, <1>28, <2>1, <2>2, <2>4, <3>1
  <2> QED BY <1>28, <2>1, <2>2, <2>3, <2>4
<1>29. SendMoves
  <2> SUFFICES ASSUME NEW p \in msgs', p \notin msgs PROVE Sent(p) BY DEF SendMoves
  <2>1. CASE p \in Beat(i, due, promise[i]) BY <2>1, BeatMoves
  <2>2. CASE p \in Retries(i) BY <2>2, RetriesMoves
  <2>3. CASE (p \in accepts \/ p \in again) /\ p.kind = "Accept"
    <3>1. promise'[i] = promise[i] /\ ~preparing'[i] BY <1>4, <1>15 DEF roleVars
    <3>2. /\ p.from = i /\ p.slot \in Slot /\ p.epoch = promise[i]
          /\ prop[p.slot] = [epoch |-> p.epoch, value |-> p.value]
          /\ \/ accepted[i][p.slot] = prop[p.slot]
             \/ \E a \in msgs' : a.kind = "Accept" /\ a.from = a.to /\ a.epoch = p.epoch /\ a.slot = p.slot
      BY <1>28, <2>3
    <3> QED BY <1>14, <1>15, <2>3, <3>1, <3>2 DEF Sent
  <2>4. CASE (p \in accepts \/ p \in again) /\ p.kind # "Accept" BY <1>23, <1>24, <2>4 DEF Sent
  <2> QED BY <1>27, <2>1, <2>2, <2>3, <2>4
<1>30. \A p \in msgs' : p \in msgs \/ p.kind \notin {"Promise", "Prepare"}
  BY <1>23, <1>24, <1>25, <1>26, <1>27
<1>31. PageMoves
  <2>1. Promised' \subseteq Promised BY <1>4, <1>30 DEF Promised, pageVars
  <2> QED BY <1>4, <2>1 DEF PageMoves, pageVars, roleVars
<1>32. PledgeMoves BY <1>4, <1>27 DEF PledgeMoves
<1>33. PrepareMoves
  <2> SUFFICES ASSUME NEW j \in Replica, preparing'[j] PROVE StillPrepares(j)
    BY DEF PrepareMoves
  <2>1. \A p \in msgs' : OwnPage(j, p) => p \in msgs BY <1>30 DEF OwnPage
  <2> QED BY <1>4, <1>27, <2>1 DEF StillPrepares, roleVars, pageVars
<1>34. ChoiceMoves BY <1>4, StillPlans
<1> QED BY <1>19, <1>20, <1>21, <1>22, <1>29, <1>31, <1>32, <1>33, <1>34 DEF Moves

-----------------------------------------------------------------------------
(***************************************************************************)
(* Every step.                                                             *)
(***************************************************************************)
LEMMA ReceiveMoves ==
    ASSUME TypeOK, TypeOK', Shape, NEW m \in msgs, Receive(m.to, m)
    PROVE  Moves
<1>1. m \in Packet BY DEF TypeOK
<1>2. PICK i \in Replica : i = m.to BY <1>1, PacketFields
<1>3. Arrives(i, m) BY <1>2 DEF Receive, Arrives
<1>4. \/ ReceiveVote(i, m) \/ ReceivePrepare(i, m) \/ CollectPromise(i, m) \/ TakeOver(i, m)
      \/ ReceiveAccept(i, m) \/ ReceiveAccepted(i, m) \/ ReceiveCommit(i, m)
      \/ ReceiveHeartbeat(i, m) \/ ReceiveFetchSlots(i, m) \/ ReceiveFetchValue(i, m)
      \/ ReceiveData(i, m) \/ ReceiveForward(i, m) \/ ReceiveNack(i, m) \/ ReceiveStale(i, m)
      \/ ReceiveRecover(i, m) \/ Ignore(i, m)
  BY <1>2 DEF Receive
<1>5. CASE ReceiveVote(i, m) BY <1>5, VoteArrivesMoves
<1>6. CASE ReceivePrepare(i, m) \/ CollectPromise(i, m) \/ TakeOver(i, m)
  BY <1>3, <1>6, PrepareArrivesMoves, CollectMoves, TakeOverMoves
<1>7. CASE ReceiveAccept(i, m) \/ ReceiveHeartbeat(i, m) \/ ReceiveNack(i, m)
  BY <1>3, <1>7, AcceptMoves, HearMoves
<1>8. CASE ReceiveAccepted(i, m) \/ ReceiveCommit(i, m) BY <1>8, AcceptedMoves, CommitMoves
<1>9. CASE ReceiveFetchSlots(i, m) \/ ReceiveForward(i, m) BY <1>9, FetchSlotsMoves, ForwardMoves
<1>10. CASE ReceiveFetchValue(i, m) \/ ReceiveData(i, m) \/ ReceiveRecover(i, m)
  BY <1>10, PayloadMoves
<1>11. CASE ReceiveStale(i, m) \/ Ignore(i, m) BY <1>2, <1>11, StaleMoves, IgnoreMoves
<1> QED BY <1>4, <1>5, <1>6, <1>7, <1>8, <1>9, <1>10, <1>11

\* Every step moves this way.
LEMMA NextMoves ==
    ASSUME TypeOK, TypeOK', Shape, Next
    PROVE  Moves
<1>1. ASSUME NEW i \in Replica, NEW r \in Request, Propose(i, r) PROVE Moves
  BY <1>1, ProposeMoves
<1>2. ASSUME NEW i \in Replica, NEW due, TickBegin(i, due) PROVE Moves BY <1>2, BeginMoves
<1>3. ASSUME NEW i \in Replica, NEW due, TickFollow(i, due) PROVE Moves BY <1>3, FollowMoves
<1>4. ASSUME NEW i \in Replica, NEW due, TickLead(i, due) PROVE Moves BY <1>4, LeadMoves
<1> QED BY <1>1, <1>2, <1>3, <1>4, ReceiveMoves, EnvironmentMoves DEF Next
=============================================================================
