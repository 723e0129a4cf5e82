--------------------------- MODULE PaxosInvariant ---------------------------
(***************************************************************************)
(* The inductive invariants behind the theorems about Paxos.  Shape and    *)
(* Safety say what the replicas, the packets on the wire and the promises  *)
(* say about each other: Agreement, NoConflictingDecision and              *)
(* LeaderCompleteness follow from them.  They mention the current state    *)
(* only, so they also hold when packets are consumed or lost,              *)
(* acknowledgements are forgotten, and records are overwritten by later    *)
(* leaders.  History says what the replicas have executed and what the     *)
(* clients were told: OneHistory follows from it.                          *)
(***************************************************************************)
EXTENDS Paxos

\* The replica that opens ballot b (ballots are handed out modulo N).
Owner(b) == b % N
\* i leads its ballot and has taken over the log.
Leading(i) == Owner(ballot[i]) = i /\ ~preparing[i]
\* The owner of b has opened it; has taken over under it, or left it.
Begun(b) == ballot[Owner(b)] >= b
Led(b) == \/ ballot[Owner(b)] > b
          \/ ballot[Owner(b)] = b /\ ~preparing[Owner(b)]
Quorum == {Q \in SUBSET Replica : Cardinality(Q) >= Majority}
Elected(b) == \E Q \in Quorum : \A q \in Q : ballot[q] >= b

\* The promise pages that exist anywhere, those of q for ballot b, and whether
\* these are all pages of the snapshot.
Promised == {m \in msgs : m.kind = "Promise"} \cup UNION {pages[i] \cup frozen[i] : i \in Replica}
Pages(q, b) == {p \in Promised : p.from = q /\ p.ballot = b}
Whole(q, b) == /\ Pages(q, b) # {}
               /\ \A p \in Pages(q, b) : Cardinality(Pages(q, b)) = p.pages

\* The records that exist anywhere: in a log, on the wire, in a promise.
Carriers == {m \in msgs : m.kind \in {"Accept", "Commit"}}
InLogs == UNION {log[i] : i \in Replica}
InPackets == UNION {m.recs : m \in Carriers}
InPromises == UNION {p.recs : p \in Promised}
Known == InLogs \cup InPackets \cup InPromises

\* q's acknowledgement of slot s under b is under way or counted.
Voted(q, b, s) ==
    \/ \E m \in msgs : m.kind = "Ack" /\ m.from = q /\ m.ballot = b /\ s \in m.slots
    \/ ballot[Owner(b)] = b /\ q \in votes[Owner(b)][s]
CanChoose(b, s) == \E Q \in Quorum : \A q \in Q : ballot[q] <= b \/ Voted(q, b, s)

LogShape ==
    \A i \in Replica :
        /\ \A x, y \in log[i] : x.slot = y.slot => x = y
        /\ \A x \in log[i] : x.slot <= high[i] /\ x.ballot <= ballot[i]
        /\ \A s \in 0..executed[i] : Decided(log[i], s)
        /\ Leading(i) => \A x \in log[i] : x.ballot = ballot[i] \/ x.committed
Leads == \A i \in Replica : leader[i] = Owner(ballot[i])
GoodPacket(m) ==
    /\ m.kind \in {"Prepare", "Accept", "Commit", "Ready"} => m.from = Owner(m.ballot)
    /\ m.kind \in {"Prepare", "Promise", "Accept", "Commit", "Ready", "Fetch"} => m.from # m.to
    /\ m.kind \in {"Accept", "Commit", "Ready", "Fetch"} => Led(m.ballot)
    /\ m.kind = "Prepare" => Begun(m.ballot)
    /\ m.kind \in {"Accept", "Commit"} =>
          /\ \A x \in m.recs : x.ballot = m.ballot
          /\ \A x, y \in m.recs : x.slot = y.slot => x = y
    /\ m.kind = "Commit" => \A x \in m.recs : x.committed
Traffic == \A m \in msgs : GoodPacket(m)
Asked(b, f) ==
    /\ \A m \in msgs : m.kind = "Prepare" /\ m.ballot = b => m.floor = f
    /\ \A p \in Promised : p.ballot = b => p.floor = f
    /\ \A i \in Replica : preparing[i] /\ ballot[i] = b => f = executed[i] + 1
Floors == \A b \in Ballot : \E f \in 0..(MaxSlot + 1) : Asked(b, f)
GoodPromise(p) ==
    /\ p.ballot <= ballot[p.from]
    /\ p.to = Owner(p.ballot)
    /\ Begun(p.ballot)
    /\ p.ballot = ballot[p.from] => p \in frozen[p.from]
    /\ \A x \in p.recs : x.ballot <= p.ballot /\ x.slot <= p.high
PromiseShape ==
    /\ \A p \in Promised : GoodPromise(p)
    /\ \A i \in Replica : \A p, r \in frozen[i] : p.from = i /\ p.ballot = r.ballot
OneSnapshot ==
    \A q \in Replica, b \in Ballot :
        /\ IsFiniteSet(Pages(q, b))
        /\ \A p, r \in Pages(q, b) :
              /\ p.pages = r.pages /\ p.high = r.high
              /\ p.page = r.page => p = r
              /\ Cardinality(Pages(q, b)) <= p.pages
Gathered(i, q) ==
    /\ Whole(q, ballot[i])
    /\ Pages(q, ballot[i]) \subseteq pages[i]
Prepared(i) ==
    /\ Owner(ballot[i]) = i
    /\ \A p \in pages[i] : p.ballot = ballot[i]
    /\ \E p \in pages[i] : p.from = i /\ p.high = high[i]
    /\ i \in promises[i]
    /\ \A q \in promises[i] : Gathered(i, q)
Preparation == \A i \in Replica : preparing[i] => Prepared(i)
Shape == Leads /\ LogShape /\ Traffic /\ Floors /\ PromiseShape /\ OneSnapshot /\ Preparation

Tells(q, c, s, b) ==
    Whole(q, c) /\ (\A p \in Pages(q, c) : p.floor <= s) =>
        \E p \in Pages(q, c) : \E y \in p.recs : y.slot = s /\ (y.ballot >= b \/ y.committed)
Reports(q, c, s, b) ==
    Whole(q, c) /\ (\A p \in Pages(q, c) : p.floor <= s) =>
        \E p \in Pages(q, c) : \E y \in p.recs : y.slot = s /\ y.ballot >= b
VoteInv ==
    \A q \in Replica, b \in Ballot, s \in Slot : Voted(q, b, s) =>
        /\ Led(b)
        /\ ballot[Owner(b)] = b => \E y \in log[Owner(b)] : y.slot = s
        /\ ballot[q] >= b
        /\ \E y \in log[q] : y.slot = s /\ (y.ballot >= b \/ y.committed)
        /\ \A c \in Ballot : c > b => Tells(q, c, s, b)
OneValue == \A x, y \in Known : x.slot = y.slot /\ x.ballot = y.ballot => x.req = y.req
Owned == \A x \in Known :
    /\ Led(x.ballot) /\ Elected(x.ballot)
    /\ ballot[Owner(x.ballot)] = x.ballot =>
          \E y \in log[Owner(x.ballot)] : y.slot = x.slot /\ y.req = x.req
Safe == \A x, y \in Known :
    x.slot = y.slot /\ y.ballot < x.ballot /\ CanChoose(y.ballot, y.slot) => x.req = y.req
Lock(s, v, b, Q) ==
    /\ Led(b)
    /\ \A q \in Q : /\ \E y \in log[q] : y.slot = s /\ y.ballot >= b
                    /\ \A c \in Ballot : c > b => Reports(q, c, s, b)
    /\ \A y \in Known : y.slot = s /\ y.ballot >= b => y.req = v
    /\ \A i \in Replica : Leading(i) /\ ballot[i] >= b => \E y \in log[i] : y.slot = s /\ y.req = v
Locked == \A x \in Known : x.committed =>
    \E b \in Ballot, Q \in Quorum : b <= x.ballot /\ Lock(x.slot, x.req, b, Q)
Established == \A i \in Replica : Leading(i) =>
    /\ Elected(ballot[i])
    /\ \A s \in Slot, b \in Ballot :
          b < ballot[i] /\ (\A y \in log[i] : y.slot # s) => ~CanChoose(b, s)
Safety == VoteInv /\ OneValue /\ Owned /\ Safe /\ Locked /\ Established
-----------------------------------------------------------------------------
(***************************************************************************)
(* What a step does to the facts that Safety is about.                     *)
(***************************************************************************)
\* q votes for slot s under the ballot it is in, which it does not leave.
FreshVote(q, b, s) ==
    /\ ballot[q] = b /\ ballot'[q] = b
    /\ Led(b)'
    /\ ballot'[Owner(b)] = b => \E y \in log'[Owner(b)] : y.slot = s
    /\ \E y \in log'[q] : y.slot = s /\ (y.ballot >= b \/ y.committed)

\* The promise of q for c loses pages at most, or it is a new snapshot.
SamePages(q, c) == Whole(q, c)' => Whole(q, c) /\ Pages(q, c)' = Pages(q, c)
FreshPages(q, c) ==
    \A y \in log[q] : (\A p \in Pages(q, c)' : p.floor <= y.slot)
                        => \E p \in Pages(q, c)' : y \in p.recs

\* q finishes its recovery.
TookOver(q) ==
    /\ Owner(ballot[q]) = q /\ preparing[q]
    /\ ballot'[q] = ballot[q] /\ ~preparing'[q]
    /\ Elected(ballot[q])
    /\ \A s \in Slot, b \in Ballot :
          b < ballot[q] /\ (\A y \in log'[q] : y.slot # s) => ~CanChoose(b, s)
    /\ \A s \in Slot, v \in Command, b \in Ballot, Q \in Quorum :
          b < ballot[q] /\ Lock(s, v, b, Q) => \E y \in log'[q] : y.slot = s /\ y.req = v

\* Where the records come from that were not there before the step.
Stays(i, b) == Leading(i) /\ ballot[i] = b /\ ballot'[i] = b
Won(i, s) == \E Q \in Quorum : \A q \in Q : q = i \/ Voted(q, ballot[i], s)
Restated(x) ==
    \E i \in Replica : Stays(i, x.ballot) /\ \E y \in log[i] :
        /\ y.slot = x.slot /\ y.req = x.req
        /\ y.ballot = x.ballot \/ y.committed
        /\ x.committed => y.committed \/ (y.ballot = x.ballot /\ Won(i, x.slot))
Fresh(x) ==
    \E i \in Replica :
        /\ Stays(i, x.ballot) /\ ~x.committed
        /\ \A y \in log[i] : y.slot # x.slot
        /\ \E y \in log'[i] : y.slot = x.slot /\ y.req = x.req
Adopted(x) ==
    \E i \in Replica :
        /\ TookOver(i) /\ x.ballot = ballot[i] /\ ~x.committed
        /\ \E y \in log'[i] : y.slot = x.slot /\ y.req = x.req
        /\ \A y \in Known :
              y.slot = x.slot /\ y.ballot < x.ballot /\ CanChoose(y.ballot, y.slot)
                => y.req = x.req

\* Ballots only rise, and a leader that stays in its ballot goes on leading it.
RoleStep ==
    \A q \in Replica : /\ ballot[q] <= ballot'[q]
                       /\ Leading(q) /\ ballot'[q] = ballot[q] => Leading(q)'

Advance ==
    /\ \A q \in Replica :
          /\ ballot[q] <= ballot'[q]
          /\ Leading(q)' => ballot'[q] = ballot[q] /\ (Leading(q) \/ TookOver(q))
          /\ Leading(q) /\ ballot'[q] = ballot[q] => Leading(q)'
          /\ \A y \in log[q] : \E z \in log'[q] :
                /\ z.slot = y.slot /\ z.ballot >= y.ballot
                /\ y.committed => z.committed \/ z.ballot = ballot'[q]
                /\ Leading(q) => z.req = y.req
    /\ \A q \in Replica, b \in Ballot, s \in Slot :
          Voted(q, b, s)' => Voted(q, b, s) \/ FreshVote(q, b, s)
    /\ \A q \in Replica, c \in Ballot : SamePages(q, c) \/ FreshPages(q, c)
    /\ \A x \in Known' : x \in Known \/ Restated(x) \/ Fresh(x) \/ Adopted(x)
-----------------------------------------------------------------------------
(***************************************************************************)
(* What the replicas have executed and what the clients were told.         *)
(***************************************************************************)
\* V is what executing the slots of L up to e comes to: each request runs in
\* the first slot that holds it.
Ran(L, e, V) ==
    /\ \A v \in V : /\ v.slot <= e /\ v.req \in Request
                    /\ \E y \in L : y.slot = v.slot /\ y.req = v.req
                    /\ \A p \in L : p.slot < v.slot => p.req # v.req
    /\ \A y \in L : y.slot <= e /\ y.req \in Request => \E v \in V : v.req = y.req
Executed == \A i \in Replica : Ran(log[i], executed[i], values[i])

\* The result of a request is what its replica had executed by then.
Before(V, t) == {w \in V : w.slot <= t}
Told == \A x \in replies : \E i \in Replica : \E v \in values[i] :
            v.req = x.req /\ x.result = Before(values[i], v.slot)
History == Executed /\ Told

\* Replica i executes the slots up to m and answers requests among them, or it
\* answers one that it has executed.
Runs(i) ==
    /\ \A k \in Replica : k # i => executed'[k] = executed[k] /\ values'[k] = values[k]
    /\ \/ /\ executed'[i] = executed[i] /\ values'[i] = values[i]
          /\ \/ replies' = replies
             \/ \E v \in values[i] : replies' = replies \cup {Reply(values[i], v.req)}
       \/ \E m \in (executed[i] + 1)..MaxSlot :
          LET X == Executions(log'[i], executed[i], m, Done(i))
          IN  /\ executed'[i] = m
              /\ values'[i] = values[i] \cup X
              /\ replies \subseteq replies'
              /\ \A x \in replies' : x \in replies \/ \E v \in X : x = Reply(values'[i], v.req)
-----------------------------------------------------------------------------
(***************************************************************************)
(* Paxos as a DecidedLog: a command is decided once a majority has locked  *)
(* it.  Unlike the packets that carry it, a lock is never lost.            *)
(***************************************************************************)
Decisions ==
    {d \in Slot \X Command : \E b \in Ballot, Q \in Quorum : Lock(d[1], d[2], b, Q)}

OneLog == INSTANCE DecidedLog WITH decided <- Decisions
=============================================================================
