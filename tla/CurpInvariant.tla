---------------------------- MODULE CurpInvariant ----------------------------
(***************************************************************************)
(* The inductive invariants behind the theorems about Curp.  Shape and     *)
(* Safety say what the replicas, the packets on the wire and the promises  *)
(* say about each other: Agreement follows from them.  Memory says where a *)
(* request that a client may have been told of is remembered:              *)
(* CompletedSurvives follows from it.  They mention the current state      *)
(* only, so they also hold when packets are consumed or lost, votes are    *)
(* forgotten, and records are overwritten by later leaders.                *)
(***************************************************************************)
EXTENDS Curp

\* The replica that opens ballot b (ballots are handed out modulo N).
Owner(b) == b % N
\* i leads its ballot and has taken over the log.
Leading(i) == Owner(ballot[i]) = i /\ ~preparing[i]
\* The owner of b has opened it; has taken over under it, or left it.
Begun(b) == ballot[Owner(b)] >= b
Led(b) == \/ ballot[Owner(b)] > b
          \/ ballot[Owner(b)] = b /\ ~preparing[Owner(b)]
Quorum == {Q \in SUBSET Replica : Cardinality(Q) >= Majority}
FastQuorums == {W \in SUBSET Replica : Cardinality(W) >= FastQuorum}
Elected(b) == \E Q \in Quorum : \A q \in Q : ballot[q] >= b

\* The packets on their way from i to j, and from i to anyone.
Way(i, j) == Range(net[i][j])
Flying(i) == UNION {Way(i, j) : j \in Replica}

\* The promise pages that exist anywhere, those of q for ballot b, and whether
\* these are all pages of the snapshot while b has not been taken over.
Page(q, m) == [from |-> q, pkt |-> m]
OnTheWay(q) == {Page(q, m) : m \in {x \in Flying(q) : x.kind = "Promise"}}
Promised == UNION {pages[i] \cup OnTheWay(i) : i \in Replica}
Pages(q, b) == {p \in Promised : p.from = q /\ p.pkt.ballot = b}
Whole(q, b) == /\ ~Led(b)
               /\ Pages(q, b) # {}
               /\ \A p \in Pages(q, b) : Cardinality(Pages(q, b)) = p.pkt.pages

\* The records that exist anywhere: in a log, on the wire, in a promise.
Carriers == {m \in UNION {Flying(i) : i \in Replica} : m.kind \in {"Accept", "Commit"}}
InLogs == UNION {log[i] : i \in Replica}
InPackets == UNION {m.recs : m \in Carriers}
InPromises == UNION {p.pkt.recs : p \in Promised}
Known == InLogs \cup InPackets \cup InPromises

\* q's acknowledgement of slot s under b is under way, or counted by someone.
Voted(q, b, s) ==
    \/ \E m \in Flying(q) : m.kind = "Ack" /\ m.ballot = b /\ s \in m.slots
    \/ \E i \in Replica : ballot[i] = b /\ q \in votes[i][s]
CanChoose(b, s) == \E Q \in Quorum : \A q \in Q : ballot[q] <= b \/ Voted(q, b, s)

\* The slots a replica has executed are decided, and are what it has executed.
GoodLog(i) ==
    /\ \A x \in log[i] : x.ballot <= ballot[i]
    /\ \A s \in 0..executed[i] : Decided(log[i], s)
    /\ Leading(i) => \A x \in log[i] : x.ballot = ballot[i] \/ x.committed
    /\ \A v \in values[i] : \E y \in log[i] :
          y.slot = v.slot /\ y.slot <= executed[i] /\ y.req = v.req /\ y.committed
LogShape == \A i \in Replica : GoodLog(i)
Leads == \A i \in Replica : leader[i] = Owner(ballot[i]) /\ (active[i] => Led(ballot[i]))

\* A packet m that q sends.
GoodPacket(q, m) ==
    /\ m.kind \in {"Prepare", "Accept", "Commit", "Ready"} => q = Owner(m.ballot)
    /\ m.kind \in {"Accept", "Ack", "Commit", "Ready", "Fetch"} => Led(m.ballot)
    /\ m.kind = "Prepare" =>
          Begun(m.ballot) /\ (~Led(m.ballot) => m.floor = executed[Owner(m.ballot)] + 1)
    /\ m.kind \in {"Accept", "Commit"} =>
          \A x \in m.recs : x.ballot = m.ballot
    /\ m.kind = "Commit" => \A x \in m.recs : x.committed
Traffic == \A q, k \in Replica : \A m \in Way(q, k) : q # k /\ GoodPacket(q, m)

\* The snapshot of q for ballot c that starts at floor.
Report(q, c, floor) == From(q, Snapshot(q, Owner(c), c, floor))
\* A replica that has promised a ballot keeps still until the ballot is taken
\* over, and so do the slots that its owner has executed.
GoodPromise(p) ==
    LET c == p.pkt.ballot
    IN  /\ c <= ballot[p.from] /\ Begun(c)
        /\ \A x \in p.pkt.recs : x.ballot <= c /\ x.slot <= p.pkt.high
        /\ ~Led(c) => /\ p.pkt.floor = executed[Owner(c)] + 1
                      /\ ballot[p.from] = c => p \in Report(p.from, c, p.pkt.floor)
PromiseShape == \A p \in Promised : GoodPromise(p)
OneSnapshotOf(q, b) ==
    /\ IsFiniteSet(Pages(q, b))
    /\ \A p, r \in Pages(q, b) :
          /\ p.pkt.pages = r.pkt.pages /\ p.pkt.high = r.pkt.high
          /\ p.pkt.page = r.pkt.page => p = r
          /\ Cardinality(Pages(q, b)) <= p.pkt.pages
OneSnapshot == \A q \in Replica, b \in Ballot : ~Led(b) => OneSnapshotOf(q, b)
Gathered(i, q) ==
    /\ Whole(q, ballot[i])
    /\ Pages(q, ballot[i]) \subseteq pages[i]
Prepared(i) ==
    /\ Owner(ballot[i]) = i
    /\ \A p \in pages[i] : p.pkt.ballot = ballot[i]
    /\ i \in promises[i]
    /\ \A q \in promises[i] : Gathered(i, q)
Preparation == \A i \in Replica : preparing[i] => Prepared(i)
Shape == Leads /\ LogShape /\ Traffic /\ PromiseShape /\ OneSnapshot /\ Preparation

Tells(q, c, s, b) ==
    Whole(q, c) /\ (\A p \in Pages(q, c) : p.pkt.floor <= s) =>
        \E p \in Pages(q, c) : \E y \in p.pkt.recs : y.slot = s /\ (y.ballot >= b \/ y.committed)
Reports(q, c, s, b) ==
    Whole(q, c) /\ (\A p \in Pages(q, c) : p.pkt.floor <= s) =>
        \E p \in Pages(q, c) : \E y \in p.pkt.recs : y.slot = s /\ y.ballot >= b
VoteInv ==
    \A q \in Replica, b \in Ballot, s \in Slot : Voted(q, b, s) =>
        /\ Led(b)
        /\ ballot[Owner(b)] = b => \E y \in log[Owner(b)] : y.slot = s
        /\ ballot[q] >= b
        /\ \E y \in log[q] : y.slot = s /\ (y.ballot >= b \/ y.committed)
        /\ \A c \in Ballot : c > b => Tells(q, c, s, b)
OneValue == \A x, y \in Known : x.slot = y.slot /\ x.ballot = y.ballot => x.req = y.req
Owned == \A x \in Known :
    /\ Led(x.ballot) /\ Elected(x.ballot)
    /\ ballot[Owner(x.ballot)] = x.ballot =>
          \E y \in log[Owner(x.ballot)] : y.slot = x.slot /\ y.req = x.req
Safe == \A x, y \in Known :
    x.slot = y.slot /\ y.ballot < x.ballot /\ CanChoose(y.ballot, y.slot) => x.req = y.req
Lock(s, v, b, Q) ==
    /\ Led(b)
    /\ \A q \in Q : /\ \E y \in log[q] : y.slot = s /\ y.ballot >= b
                    /\ \A c \in Ballot : c > b => Reports(q, c, s, b)
    /\ \A y \in Known : y.slot = s /\ y.ballot >= b => y.req = v
    /\ \A i \in Replica : Leading(i) /\ ballot[i] >= b => \E y \in log[i] : y.slot = s /\ y.req = v
Locked == \A x \in Known : x.committed =>
    \E b \in Ballot, Q \in Quorum : b <= x.ballot /\ Lock(x.slot, x.req, b, Q)
Established == \A i \in Replica : Leading(i) =>
    /\ Elected(ballot[i])
    /\ \A s \in Slot, b \in Ballot :
          b < ballot[i] /\ (\A y \in log[i] : y.slot # s) => ~CanChoose(b, s)
Safety == VoteInv /\ OneValue /\ Owned /\ Safe /\ Locked /\ Established
-----------------------------------------------------------------------------
(***************************************************************************)
(* Where a request is remembered that a client may have an answer to.      *)
(***************************************************************************)
\* A majority has locked r under c or before.
Settled(r, c) == \E s \in Slot, b \in Ballot, Q \in Quorum : b <= c /\ Lock(s, r, b, Q)
\* The promise of q for c names r, unless that is not needed.
Names(q, c, r) ==
    Whole(q, c) => Settled(r, c) \/ \E p \in Pages(q, c) : r \in p.pkt.reqs
\* q has recorded r under b, and no later leader can miss it.
Remembers(q, r, b) ==
    /\ ballot[q] >= b
    /\ r \in witness[q] \/ Settled(r, ballot[q])
    /\ \A c \in Ballot : c > b => Names(q, c, r)

\* A client has, or may get, the support of q for r under b; the leader's answer.
Backed(q, r, b) ==
    \/ \E m \in sent : Supports(m) /\ m.from = q /\ m.req = r /\ m.ballot = b
    \/ known[ClientOf[r]] = b /\ q \in evidence[r].votes
Replied(r, b) ==
    \/ \E m \in sent : m.kind = "Fast" /\ m.req = r /\ m.ballot = b
    \/ known[ClientOf[r]] = b /\ evidence[r].reply
CanAnswer(r, b) == \E W \in FastQuorums : \A q \in W : ballot[q] <= b \/ Backed(q, r, b)
Has(i, r) == \E y \in log[i] : y.req = r

Protected(r, b) ==
    \/ Settled(r, b)
    \/ /\ Led(b)
       /\ \E W \in FastQuorums : \A q \in W : Remembers(q, r, b)
       /\ \A i \in Replica : Leading(i) /\ ballot[i] >= b => Has(i, r)

Backing == \A q \in Replica, r \in Request, b \in Ballot : Backed(q, r, b) => Remembers(q, r, b)
Replying == \A r \in Request, b \in Ballot : Replied(r, b) =>
    Led(b) /\ (ballot[Owner(b)] = b => Has(Owner(b), r))
Answering == \A r \in Request, b \in Ballot : CanAnswer(r, b) =>
    \A i \in Replica : Leading(i) /\ ballot[i] > b => Has(i, r)
Syncing == \A m \in sent : m.kind = "Sync" => Settled(m.req, m.ballot)
Timely == \A m \in sent : m.ballot >= known[ClientOf[m.req]]
Finished == \A r \in Completed : Protected(r, done[r].ballot)
Memory == Backing /\ Replying /\ Answering /\ Syncing /\ Timely /\ Finished
-----------------------------------------------------------------------------
(***************************************************************************)
(* What a step does to the facts that Safety is about.                     *)
(***************************************************************************)
\* q votes for slot s under the ballot it is in, which it does not leave.
FreshVote(q, b, s) ==
    /\ ballot[q] = b /\ ballot'[q] = b
    /\ Led(b)'
    /\ ballot'[Owner(b)] = b => \E y \in log'[Owner(b)] : y.slot = s
    /\ \E y \in log'[q] : y.slot = s /\ (y.ballot >= b \/ y.committed)

\* The promise of q for c loses pages at most, or it is a new snapshot.
SamePages(q, c) == Whole(q, c)' => Whole(q, c) /\ Pages(q, c)' = Pages(q, c)
FreshPages(q, c) ==
    /\ ballot[q] <= c
    /\ \A y \in log[q] : (\A p \in Pages(q, c)' : p.pkt.floor <= y.slot)
                           => \E p \in Pages(q, c)' : y \in p.pkt.recs
    /\ \A r \in witness[q] : \E p \in Pages(q, c)' : r \in p.pkt.reqs

\* q finishes its recovery: what it takes over.
TookOver(q) ==
    /\ Owner(ballot[q]) = q /\ preparing[q]
    /\ ballot'[q] = ballot[q] /\ ~preparing'[q]
    /\ Elected(ballot[q])
    /\ \A s \in Slot, b \in Ballot :
          b < ballot[q] /\ (\A y \in log'[q] : y.slot # s) => ~CanChoose(b, s)
    /\ \A s \in Slot, v \in Command, b \in Ballot, Q \in Quorum :
          b < ballot[q] /\ Lock(s, v, b, Q) => \E y \in log'[q] : y.slot = s /\ y.req = v
    /\ \A r \in Request, b \in Ballot, W \in FastQuorums :
          b < ballot[q] /\ (\A k \in W : ballot[k] <= b \/ Remembers(k, r, b)) => Has(q, r)'

\* Where the records come from that were not there before the step.
Stays(i, b) == Leading(i) /\ ballot[i] = b /\ ballot'[i] = b
Won(i, s) == \E Q \in Quorum : \A q \in Q : q = i \/ Voted(q, ballot[i], s)
Restated(x) ==
    \E i \in Replica : Stays(i, x.ballot) /\ \E y \in log[i] :
        /\ y.slot = x.slot /\ y.req = x.req
        /\ y.ballot = x.ballot \/ y.committed
        /\ x.committed => y.committed
Chosen(x) ==
    \E i \in Replica :
        /\ ballot[i] = x.ballot /\ ballot'[i] = x.ballot /\ Won(i, x.slot)
        /\ \E y \in Known : y.slot = x.slot /\ y.ballot = x.ballot /\ y.req = x.req
        /\ \E z \in log'[i] : z.slot = x.slot /\ z.ballot = x.ballot
Fresh(x) ==
    \E i \in Replica :
        /\ Stays(i, x.ballot) /\ ~x.committed
        /\ \A y \in log[i] : y.slot # x.slot
        /\ \E y \in log'[i] : y.slot = x.slot /\ y.req = x.req
Adopted(x) ==
    \E i \in Replica :
        /\ TookOver(i) /\ x.ballot = ballot[i] /\ ~x.committed
        /\ \E y \in log'[i] : y.slot = x.slot /\ y.req = x.req
        /\ \A y \in Known :
              y.slot = x.slot /\ y.ballot < x.ballot /\ CanChoose(y.ballot, y.slot)
                => y.req = x.req
Made(x) == Restated(x) \/ Chosen(x) \/ Fresh(x) \/ Adopted(x)

\* Ballots only rise, a leader that stays in its ballot goes on leading it, and
\* a log keeps its slots.
KeepsLog(q) ==
    \A y \in log[q] : \E z \in log'[q] :
        /\ z.slot = y.slot /\ z.ballot >= y.ballot
        /\ y.committed => z.committed \/ z.ballot = ballot'[q]
        /\ Leading(q) => z.req = y.req
Advance ==
    /\ \A q \in Replica :
          /\ ballot[q] <= ballot'[q]
          /\ Leading(q)' => ballot'[q] = ballot[q] /\ (Leading(q) \/ TookOver(q))
          /\ Leading(q) /\ ballot'[q] = ballot[q] => Leading(q)'
          /\ KeepsLog(q)
    /\ \A q \in Replica, b \in Ballot, s \in Slot :
          Voted(q, b, s)' => Voted(q, b, s) \/ FreshVote(q, b, s)
    /\ \A q \in Replica, c \in Ballot : SamePages(q, c) \/ FreshPages(q, c)
    /\ \A x \in Known' : x \in Known \/ Made(x)
    /\ \A x, y \in Known' : x \in Known \/ y \in Known \/ x.ballot = y.ballot
-----------------------------------------------------------------------------
(***************************************************************************)
(* What a turn of replica i does.  Nobody else's state changes; packets    *)
(* are consumed, lost, or sent by i.                                       *)
(***************************************************************************)
\* Of the packets under way, i may have sent those in out to their receivers.
Carries(i, out) ==
    \A q, k \in Replica : \A m \in Way(q, k)' :
        m \in Way(q, k) \/ (q = i /\ m \in Range(out) /\ k \in m.to)
\* Replica q is where it was.
Same(q) ==
    /\ ballot'[q] = ballot[q] /\ leader'[q] = leader[q] /\ active'[q] = active[q]
    /\ preparing'[q] = preparing[q]
    /\ log'[q] = log[q] /\ high'[q] = high[q] /\ executed'[q] = executed[q]
    /\ values'[q] = values[q] /\ witness'[q] = witness[q] /\ recorded'[q] = recorded[q]
    /\ votes'[q] = votes[q] /\ pages'[q] = pages[q] /\ promises'[q] = promises[q]
Alone(i) == \A q \in Replica : q # i => Same(q)
-----------------------------------------------------------------------------
(***************************************************************************)
(* What the turn of replica i has to satisfy, part by part, for Shape,     *)
(* Safety and Memory to hold on; out is what it sends.                     *)
(***************************************************************************)
\* Its ballot and its role in it.
Role(i) ==
    /\ ballot[i] <= ballot'[i]
    /\ leader'[i] = Owner(ballot'[i])
    /\ active'[i] => Led(ballot[i])'
    /\ Leading(i) /\ ballot'[i] = ballot[i] => Leading(i)'
    /\ Leading(i)' => ballot'[i] = ballot[i] /\ (Leading(i) \/ TookOver(i))
\* It keeps still in a ballot that has not been taken over.
Frozen(i) ==
    ballot'[i] = ballot[i] /\ ~Led(ballot[i])' =>
        /\ log'[i] = log[i] /\ high'[i] = high[i]
        /\ executed'[i] = executed[i] /\ witness'[i] = witness[i]
\* A record that it makes.
NewHere(i, x) == x.ballot = ballot'[i] /\ Made(x)
LogStep(i) ==
    /\ GoodLog(i)' /\ KeepsLog(i)
    /\ \A x \in log'[i] : x \in Known \/ NewHere(i, x)
\* A page of its promise, for its new ballot and from slot f on.
Offer(i, f) ==
    /\ Begun(ballot[i])'
    /\ ~Led(ballot[i])' => f = executed'[Owner(ballot'[i])] + 1
    /\ log'[i] = log[i] /\ high'[i] = high[i] /\ witness'[i] = witness[i]
Offered(i, p) == \E f \in 0..(MaxSlot + 1) : Offer(i, f) /\ p \in Report(i, ballot'[i], f)
Sends(i, out) ==
    \A m \in Range(out) :
        /\ i \notin m.to
        /\ m.kind = "Promise" => Offered(i, Page(i, m))
        /\ m.kind # "Promise" => GoodPacket(i, m)'
        /\ m.kind = "Ack" => \A s \in m.slots : FreshVote(i, m.ballot, s)
        /\ m.kind \in {"Accept", "Commit"} => \A x \in m.recs : x \in Known \/ NewHere(i, x)
Counts(i) ==
    \A q \in Replica, s \in Slot, b \in Ballot : ballot'[i] = b /\ q \in votes'[i][s] =>
        Voted(q, b, s) \/ (q = i /\ FreshVote(i, b, s))
Collects(i) == \A p \in pages'[i] : p \in Promised \/ Offered(i, p)
Prepares(i) ==
    preparing'[i] => \/ Prepared(i)'
                     \/ /\ preparing[i] /\ ballot'[i] = ballot[i]
                        /\ pages'[i] = pages[i] /\ promises'[i] = promises[i]
Effect(i, out) ==
    Role(i) /\ Frozen(i) /\ LogStep(i) /\ Sends(i, out) /\ Counts(i) /\ Collects(i)

\* The records of requests that it loses, and the messages it sends to clients.
Done(i, r) == \E y \in log[i] : y.req = r /\ y.committed
Forgets(i) == \A r \in witness[i] : r \in witness'[i] \/ Done(i, r)'
Says(i, m) ==
    /\ m.from = i /\ m.ballot = ballot[i] /\ ballot'[i] = ballot[i]
    /\ m.ballot >= known[ClientOf[m.req]]
    /\ Supports(m) => m.req \in witness'[i] \/ Done(i, m.req)'
    /\ m.kind = "Fast" => Leading(i) /\ Has(i, m.req)'
    /\ m.kind = "Sync" => Done(i, m.req)'
Speaks(i) == \A m \in sent' : m \in sent \/ Says(i, m)
Recalls(i) == Forgets(i) /\ Speaks(i) /\ UNCHANGED <<known, evidence, done>>
GoodTurn(i) ==
    /\ Alone(i) /\ Prepares(i) /\ Recalls(i)
    /\ \E out \in Seq(Packet) : Carries(i, out) /\ Effect(i, out)
=============================================================================
