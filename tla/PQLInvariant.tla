---------------------------- MODULE PQLInvariant ----------------------------
(***************************************************************************)
(* The inductive invariants behind the theorems about the log of PQL.      *)
(* Typed says what the replicas and the packets hold; Shape and Safety say *)
(* what the replicas, the packets and the promises say about each other:   *)
(* Agreement follows from them.  A log is looked at as the set of its      *)
(* entries; the lease epochs of the records do not matter here.            *)
(***************************************************************************)
EXTENDS PQL

Ballot == 0..MaxBallot
Value == Put \cup {Noop}
Place == -1..MaxSlot
Line == [slot : Slot, req : Value, ballot : Ballot, committed : BOOLEAN]

Snapshots == [kind : {"Promise"}, from : Replica, to : Replica, ballot : Ballot,
              floor : 0..(MaxSlot + 1), high : Place, recs : [Slot -> Record]]
Core == [ballot : Ballot, leader : Replica, active : BOOLEAN, preparing : BOOLEAN,
         high : Place, executed : Place, recoveryEnd : Place, catchupTarget : Place,
         log : [Slot -> Record], assigned : SUBSET Put, pending : SUBSET Put, queue : Seq(Put),
         resume : SUBSET Put, votes : [Slot -> SUBSET Replica], promises : SUBSET Snapshots,
         forwardResults : SUBSET Put, latestEpoch : Nat, suspected : SUBSET Replica]

\* A record that is there has a ballot; one that is committed is there.
Solid(r) == /\ r.req # Hole => r.ballot \in Ballot
            /\ r.committed => r.req # Hole
\* The records of L end at h, and those up to e are committed.
Ends(L, h, e) == \A s \in Slot : /\ Solid(L[s])
                                 /\ L[s].req # Hole => s <= h
                                 /\ s <= e => L[s].committed
GoodCore(c) == /\ c \in Core /\ c.executed <= c.high
               /\ Ends(c.log, c.high, c.executed) /\ IsFiniteSet(c.pending)
               /\ \A p \in c.promises : Ends(p.recs, p.high, -1)

\* What a packet carries, beyond its sender, receiver and kind.
Carries(m) ==
    /\ m.kind \in {"Prepare", "Promise", "Accept", "Ack", "Commit", "Ready", "Fetch",
                   "Forward", "ForwardReply"} => m.ballot \in Ballot
    /\ m.kind = "Prepare" => m.floor \in 0..(MaxSlot + 1)
    /\ m.kind = "Promise" => m \in Snapshots /\ Ends(m.recs, m.high, -1)
    /\ m.kind \in {"Accept", "Commit"} =>
          m.slot \in Slot /\ m.rec \in Record /\ m.rec.req # Hole /\ m.rec.ballot = m.ballot
    /\ m.kind = "Accept" => m.epoch \in Genesis..MaxEpoch
    /\ m.kind = "Commit" => m.rec.committed
    /\ m.kind = "Ack" => m.slot \in Slot
    /\ m.kind = "Ready" => m.high \in Place /\ m.active \in BOOLEAN
    /\ m.kind = "Fetch" => m.floor \in 0..(MaxSlot + 1) /\ m.high \in Place
    /\ m.kind \in {"Forward", "ForwardReply"} => m.req \in Put
    /\ m.kind = "LeasePromise" => m.epoch \in Genesis..MaxEpoch /\ m.frontier \in Place
GoodMessage(m) == m.kind \in Kind /\ m.from \in Replica /\ m.to \in Replica /\ Carries(m)
Typed == /\ core \in [Replica -> Core] /\ \A i \in Replica : GoodCore(core[i])
         /\ \A m \in msgs : GoodMessage(m)

-----------------------------------------------------------------------------
(***************************************************************************)
(* Logs as sets of entries; the fields of core by their names.             *)
(***************************************************************************)
Entry(s, r) == [slot |-> s, req |-> r.req, ballot |-> r.ballot, committed |-> r.committed]
Entries(L) == {Entry(s, L[s]) : s \in {x \in Slot : L[x].req # Hole}}

ballot == [i \in Replica |-> core[i].ballot]
leader == [i \in Replica |-> core[i].leader]
preparing == [i \in Replica |-> core[i].preparing]
executed == [i \in Replica |-> core[i].executed]
log == [i \in Replica |-> Entries(core[i].log)]
votes == [i \in Replica |-> core[i].votes]
promises == [i \in Replica |-> core[i].promises]

\* The replica that opens ballot b (ballots are handed out modulo N).
Owner(b) == b % N
\* i leads its ballot and has taken over the log.
Leading(i) == Owner(ballot[i]) = i /\ ~preparing[i]
\* The owner of b has taken over under it, or left it.
Led(b) == \/ ballot[Owner(b)] > b
          \/ ballot[Owner(b)] = b /\ ~preparing[Owner(b)]
Quorums == {Q \in SUBSET Replica : Cardinality(Q) >= Quorum}
Elected(b) == \E Q \in Quorums : \A q \in Q : ballot[q] >= b

\* The promises that exist anywhere, and those of q for ballot b.
Promises == {m \in msgs : m.kind = "Promise"} \cup UNION {promises[i] : i \in Replica}
PromisesOf(q, b) == {p \in Promises : p.from = q /\ p.ballot = b}

\* The entries that exist anywhere: in a log, on the wire, in a promise.
Carriers == {m \in msgs : m.kind \in {"Accept", "Commit"}}
InLogs == UNION {log[i] : i \in Replica}
InPackets == {Entry(m.slot, m.rec) : m \in Carriers}
InPromises == UNION {Entries(p.recs) : p \in Promises}
Known == InLogs \cup InPackets \cup InPromises

\* q has acknowledged slot s under b, or its leader counts its vote.
Voted(q, b, s) ==
    \/ \E m \in msgs : m.kind = "Ack" /\ m.from = q /\ m.ballot = b /\ m.slot = s
    \/ ballot[Owner(b)] = b /\ q \in votes[Owner(b)][s]
CanChoose(b, s) == \E Q \in Quorums : \A q \in Q : ballot[q] <= b \/ Voted(q, b, s)

-----------------------------------------------------------------------------
Leads == \A i \in Replica : leader[i] = Owner(ballot[i])
GoodLog(i) ==
    /\ \A x \in log[i] : x.ballot <= ballot[i]
    /\ Leading(i) => \A x \in log[i] : x.ballot = ballot[i] \/ x.committed
LogShape == \A i \in Replica : GoodLog(i)
GoodPacket(m) ==
    /\ m.kind \in {"Prepare", "Accept", "Commit", "Ready"} => m.from = Owner(m.ballot)
    /\ m.kind \in {"Prepare", "Accept", "Commit", "Ready", "Fetch"} => m.from # m.to
    /\ m.kind \in {"Accept", "Commit", "Ready"} => Led(m.ballot)
    /\ m.kind = "Promise" => m.from # Owner(m.ballot)
Traffic == \A m \in msgs : GoodPacket(m)
PromiseShape == \A p \in Promises : p.ballot <= ballot[p.from]
\* A replica answers a Prepare with one snapshot.
OneSnapshot == \A p, r \in Promises :
    p.from = r.from /\ p.ballot = r.ballot /\ p.floor = r.floor => p = r
\* The log does not change under i while it prepares.
OwnPromise(i, p) ==
    p.from = i /\ \A x \in log[i] : x.slot >= p.floor => x \in Entries(p.recs)
Prepared(i) ==
    /\ Owner(ballot[i]) = i
    /\ \A p \in promises[i] : p.ballot = ballot[i] /\ p.floor = executed[i] + 1
    /\ \E p \in promises[i] : OwnPromise(i, p)
Preparation == \A i \in Replica : preparing[i] => Prepared(i)
\* Only the replica that opened a ballot keeps a promise that it did not receive.
Sources == \A p \in Promises : p \in msgs \/ p.from = Owner(p.ballot)
Shape == /\ Leads /\ LogShape /\ Traffic /\ PromiseShape /\ OneSnapshot /\ Sources
         /\ Preparation

Tells(q, c, s, b) ==
    \A p \in PromisesOf(q, c) : p.floor <= s =>
        \E y \in Entries(p.recs) : y.slot = s /\ (y.ballot >= b \/ y.committed)
Reports(q, c, s, b) ==
    \A p \in PromisesOf(q, c) : p.floor <= s =>
        \E y \in Entries(p.recs) : y.slot = s /\ y.ballot >= b
VoteInv ==
    \A q \in Replica, b \in Ballot, s \in Slot : Voted(q, b, s) =>
        /\ Led(b)
        /\ ballot[Owner(b)] = b => \E y \in log[Owner(b)] : y.slot = s
        /\ ballot[q] >= b
        /\ \E y \in log[q] : y.slot = s /\ (y.ballot >= b \/ y.committed)
        /\ \A c \in Ballot : c > b => Tells(q, c, s, b)
OneValue == \A x, y \in Known : x.slot = y.slot /\ x.ballot = y.ballot => x.req = y.req
Owned == \A x \in Known :
    /\ Led(x.ballot) /\ Elected(x.ballot)
    /\ ballot[Owner(x.ballot)] = x.ballot =>
          \E y \in log[Owner(x.ballot)] : y.slot = x.slot /\ y.req = x.req
Safe == \A x, y \in Known :
    x.slot = y.slot /\ y.ballot < x.ballot /\ CanChoose(y.ballot, y.slot) => x.req = y.req
Lock(s, v, b, Q) ==
    /\ Led(b)
    /\ \A q \in Q : /\ \E y \in log[q] : y.slot = s /\ y.ballot >= b
                    /\ \A c \in Ballot : c > b => Reports(q, c, s, b)
    /\ \A y \in Known : y.slot = s /\ y.ballot >= b => y.req = v
    /\ \A i \in Replica : Leading(i) /\ ballot[i] >= b => \E y \in log[i] : y.slot = s /\ y.req = v
Locked == \A x \in Known : x.committed =>
    \E b \in Ballot, Q \in Quorums : b <= x.ballot /\ Lock(x.slot, x.req, b, Q)
Established == \A i \in Replica : Leading(i) =>
    /\ Elected(ballot[i])
    /\ \A s \in Slot, b \in Ballot :
          b < ballot[i] /\ (\A y \in log[i] : y.slot # s) => ~CanChoose(b, s)
Safety == VoteInv /\ OneValue /\ Owned /\ Safe /\ Locked /\ Established
-----------------------------------------------------------------------------
(***************************************************************************)
(* What a step does to the facts that Safety is about.                     *)
(***************************************************************************)
\* q votes for slot s under the ballot it is in, which it does not leave.
FreshVote(q, b, s) ==
    /\ ballot[q] = b /\ ballot'[q] = b
    /\ Led(b)'
    /\ ballot'[Owner(b)] = b => \E y \in log'[Owner(b)] : y.slot = s
    /\ \E y \in log'[q] : y.slot = s /\ (y.ballot >= b \/ y.committed)

\* A new promise reports the log of its sender.
Snapped(p) == \A y \in log[p.from] : y.slot >= p.floor => y \in Entries(p.recs)

\* q finishes its recovery: what it takes over.
TookOver(q) ==
    /\ Owner(ballot[q]) = q /\ preparing[q]
    /\ ballot'[q] = ballot[q] /\ ~preparing'[q]
    /\ Elected(ballot[q])
    /\ \A s \in Slot, b \in Ballot :
          b < ballot[q] /\ (\A y \in log'[q] : y.slot # s) => ~CanChoose(b, s)
    /\ \A s \in Slot, v \in Value, b \in Ballot, Q \in Quorums :
          b < ballot[q] /\ Lock(s, v, b, Q) => \E y \in log'[q] : y.slot = s /\ y.req = v

\* Where the entries come from that were not there before the step.
Stays(i, b) == Leading(i) /\ ballot[i] = b /\ ballot'[i] = b
Won(i, s) == \E Q \in Quorums : \A q \in Q : q = i \/ Voted(q, ballot[i], s)
Restated(x) ==
    \E i \in Replica : Stays(i, x.ballot) /\ \E y \in log[i] :
        /\ y.slot = x.slot /\ y.req = x.req
        /\ y.ballot = x.ballot \/ y.committed
        /\ x.committed => y.committed \/ (y.ballot = x.ballot /\ Won(i, x.slot))
Started(x) ==
    \E i \in Replica :
        /\ Stays(i, x.ballot) /\ ~x.committed
        /\ \A y \in log[i] : y.slot # x.slot
        /\ \E y \in log'[i] : y.slot = x.slot /\ y.req = x.req
Adopted(x) ==
    \E i \in Replica :
        /\ TookOver(i) /\ x.ballot = ballot[i] /\ ~x.committed
        /\ \E y \in log'[i] : y.slot = x.slot /\ y.req = x.req
        /\ \A y \in Known :
              y.slot = x.slot /\ y.ballot < x.ballot /\ CanChoose(y.ballot, y.slot)
                => y.req = x.req
Made(x) == Restated(x) \/ Started(x) \/ Adopted(x)

\* Ballots only rise, a leader that stays in its ballot goes on leading it, and
\* a log keeps its slots.
KeepsLog(q) ==
    \A y \in log[q] : \E z \in log'[q] :
        /\ z.slot = y.slot /\ z.ballot >= y.ballot
        /\ y.committed => z.committed \/ z.ballot = ballot'[q]
        /\ Leading(q) => z.req = y.req
Advance ==
    /\ \A q \in Replica :
          /\ ballot[q] <= ballot'[q]
          /\ Leading(q)' => ballot'[q] = ballot[q] /\ (Leading(q) \/ TookOver(q))
          /\ Leading(q) /\ ballot'[q] = ballot[q] => Leading(q)'
          /\ KeepsLog(q)
    /\ \A q \in Replica, b \in Ballot, s \in Slot :
          Voted(q, b, s)' => Voted(q, b, s) \/ FreshVote(q, b, s)
    /\ \A p \in Promises' : p \in Promises \/ Snapped(p)
    /\ \A x \in Known' : x \in Known \/ Made(x)
-----------------------------------------------------------------------------
(***************************************************************************)
(* What the turn of replica i has to satisfy, part by part, for Shape and  *)
(* Safety to hold on; out is what it sends.                                *)
(***************************************************************************)
Alone(i) == core' = [core EXCEPT ![i] = core'[i]]
Carried(out) == msgs \subseteq msgs' /\ msgs' \subseteq msgs \cup out
\* Its ballot and its role in it.
Role(i) ==
    /\ ballot[i] <= ballot'[i] /\ leader'[i] = Owner(ballot'[i])
    /\ Leading(i) /\ ballot'[i] = ballot[i] => Leading(i)'
    /\ Leading(i)' => ballot'[i] = ballot[i] /\ (Leading(i) \/ TookOver(i))
LogStep(i) == GoodLog(i)' /\ KeepsLog(i) /\ \A x \in log'[i] : x \in Known \/ Made(x)
\* A promise that is new: a snapshot of its log, and the only one for that Prepare.
Offered(i, p) ==
    /\ p.from = i /\ p.ballot <= ballot'[i] /\ Snapped(p) /\ Entries(p.recs) \subseteq log[i]
    /\ \A r \in Promises : ~(r.from = i /\ r.ballot = p.ballot /\ r.floor = p.floor)
Sends(i, out) ==
    \A m \in out :
        /\ m.from = i /\ GoodMessage(m) /\ GoodPacket(m)'
        /\ m.kind = "Promise" => Offered(i, m)
        /\ m.kind = "Ack" => FreshVote(i, m.ballot, m.slot)
        /\ m.kind \in {"Accept", "Commit"} =>
              Entry(m.slot, m.rec) \in Known \/ Made(Entry(m.slot, m.rec))
Collects(i) ==
    \A p \in promises'[i] : p \in Promises \/ (Offered(i, p) /\ i = Owner(p.ballot))
Snaps(i, out) ==
    \A p, r \in {m \in out : m.kind = "Promise"} \cup promises'[i] :
        p \in Promises \/ r \in Promises \/ p = r
Counts(i) ==
    \A q \in Replica, b \in Ballot, s \in Slot :
        ballot'[i] = b /\ i = Owner(b) /\ q \in votes'[i][s] =>
            Voted(q, b, s) \/ FreshVote(q, b, s)
Recovers(i) == preparing'[i] => Prepared(i)'
Effect(i, out) == Carried(out) /\ Sends(i, out) /\ Snaps(i, out)
GoodTurn(i) ==
    /\ Alone(i) /\ GoodCore(core'[i])
    /\ Role(i) /\ LogStep(i) /\ Counts(i) /\ Collects(i) /\ Recovers(i)
    /\ \E out : Effect(i, out)

-----------------------------------------------------------------------------
\* The configuration log and the epochs that the replicas and their leases are in.
EraOf(i) ==
    LET c == core[i]  l == lease[i] IN
    /\ c.latestEpoch \in Genesis..Len(configs)
    /\ l.promisedBy \in Genesis..c.latestEpoch
    /\ l.promisedTo \in {-1} \cup (Genesis..c.latestEpoch)
    /\ l.catchup \in Place /\ l.frontiers \in [Replica -> Place]
    /\ c.suspected \subseteq Replica \ {i} /\ basis[i] \subseteq Live(l, now)
Eras == /\ configs \in Seq(Policy) /\ Len(configs) <= MaxEpoch /\ proposed \subseteq Policy
        /\ now <= world.until /\ now \in 1..MaxTime /\ DOMAIN basis = Replica
        /\ \A i \in Replica : EraOf(i)
=============================================================================
