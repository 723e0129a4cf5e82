------------------------- MODULE FastPaxosInvariant -------------------------
(***************************************************************************)
(* The inductive invariants behind the theorems about FastPaxos.  They     *)
(* mention the current state only, so they also hold when packets are      *)
(* consumed or lost, acknowledgements are forgotten, and votes are         *)
(* overwritten in later epochs.  A fast vote is a vote in epoch 0, where   *)
(* votes may differ and a quorum is a fast quorum.                         *)
(***************************************************************************)
EXTENDS FastPaxos

\* The owner of e has opened it; has taken over in it, or left it.
Begun(e) == promise[Owner(e)] >= e
Led(e) == \/ e = 0 \/ promise[Owner(e)] > e
          \/ promise[Owner(e)] = e /\ ~preparing[Owner(e)]
\* i coordinates its epoch and has taken over.
Leading(i) == promise[i] > 0 /\ Owner(promise[i]) = i /\ ~preparing[i]
\* i has a plan for slot s in its epoch.
Planning(i, s) == proposed[i][s] # None /\ proposed[i][s].epoch = promise[i]

QuorumOf(e) == {Q \in SUBSET Replica : Cardinality(Q) >= IF e = 0 THEN FastQuorum ELSE Majority}
Quorum == {Q \in SUBSET Replica : Cardinality(Q) >= Majority}
Elected(e) == \E Q \in Quorum : \A q \in Q : promise[q] >= e

\* The promise pages that exist anywhere, those of q for epoch e, and whether
\* these are all pages of the snapshot.
Promised == {m \in msgs : m.kind = "Promise"} \cup UNION {pages[i] \cup frozen[i] : i \in Replica}
PagesOf(q, e) == {p \in Promised : p.from = q /\ p.epoch = e}
Whole(q, e) == /\ PagesOf(q, e) # {}
               /\ \A p \in PagesOf(q, e) : Cardinality(PagesOf(q, e)) = p.pages

\* Value v is planned or voted for in slot s and classic epoch e.
Known(s, e, v) ==
    /\ e > 0
    /\ \/ \E m \in msgs : m.kind = "Accept" /\ m.slot = s /\ m.epoch = e /\ m.value = v
       \/ \E i \in Replica :
             \/ proposed[i][s] # None /\ proposed[i][s].epoch = e /\ proposed[i][s].value = v
             \/ accepted[i][s] # None /\ accepted[i][s].epoch = e /\ accepted[i][s].value = v
       \/ \E p \in Promised : \E x \in p.entries :
             x.slot = s /\ ~x.decided /\ x.epoch = e /\ x.value = v

\* Somebody says that v is decided in slot s.
Claimed(s, v) ==
    \/ \E i \in Replica : chosen[i][s] # None /\ chosen[i][s] = v
    \/ \E m \in msgs : m.kind = "Commit" /\ m.slot = s /\ m.value = v
    \/ \E p \in Promised : \E x \in p.entries : x.slot = s /\ x.decided /\ x.value = v

\* q's vote for v in slot s and epoch e is under way or counted.
Acked(q, e, s, v) ==
    \/ e = 0 /\ \E m \in msgs : m.kind = "Vote" /\ m.from = q /\ m.slot = s /\ m.value = v
    \/ e = 0 /\ \E j \in Replica : \E x \in votes[j][s] : x.from = q /\ x.value = v
    \/ e > 0 /\ \E m \in msgs : m.kind = "Accepted" /\ m.from = q /\ m.epoch = e /\ m.slot = s
    \/ /\ e > 0 /\ promise[Owner(e)] = e /\ Planning(Owner(e), s)
       /\ q \in acks[Owner(e)][s]
\* The coordinator of e has asked for votes in slot s: it votes itself before it
\* does anything else.
Pledged(q, e, s) ==
    e > 0 /\ q = Owner(e) /\ \E m \in msgs : m.kind = "Accept" /\ m.epoch = e /\ m.slot = s

\* q may still vote for v in slot s and epoch e, or has.
MayVote(q, e, s, v) == promise[q] <= e \/ Acked(q, e, s, v) \/ Pledged(q, e, s)
CanChoose(e, s, v) == \E Q \in QuorumOf(e) : \A q \in Q : MayVote(q, e, s, v)
Choosable(e, s, v) == CanChoose(e, s, v) /\ (e > 0 => Known(s, e, v))

-----------------------------------------------------------------------------
(***************************************************************************)
(* Shape: what the replicas, the packets and the promises look like.       *)
(***************************************************************************)
Roles ==
    \A i \in Replica :
        /\ Begun(promise[i])
        /\ preparing[i] => promise[i] > 0 /\ Owner(promise[i]) = i /\ ~active[i]
Plans ==
    \A i \in Replica :
        /\ Leading(i) => start[i] <= next[i]
        /\ \A s \in Slot :
              /\ proposed[i][s] # None =>
                    /\ proposed[i][s].epoch > 0 /\ Owner(proposed[i][s].epoch) = i
                    /\ proposed[i][s].epoch <= promise[i] /\ Led(proposed[i][s].epoch)
              /\ Planning(i, s) => start[i] <= s /\ s < next[i]
VoteShape ==
    \A i \in Replica, s \in Slot :
        /\ accepted[i][s] # None => accepted[i][s].epoch <= promise[i] /\ s <= high[i]
        /\ accepted[i][s] # None /\ accepted[i][s].epoch = 0 => accepted[i][s].value # Noop
        /\ promise[i] = 0 /\ s >= next[i] => accepted[i][s] = None
GoodPacket(m) ==
    /\ m.kind \in {"Prepare", "Accept", "Heartbeat", "Nack"} =>
          Begun(m.epoch) /\ m.epoch <= promise[m.from]
    /\ m.kind \in {"Prepare", "Accept"} => m.epoch > 0 /\ m.from = Owner(m.epoch)
    /\ m.kind = "Accept" => Led(m.epoch)
    /\ m.kind = "Prepare" /\ promise[m.from] = m.epoch => m.start = start[m.from]
Traffic == \A m \in msgs : GoodPacket(m)
GoodPage(p) ==
    /\ p.epoch > 0 /\ Begun(p.epoch) /\ p.epoch <= promise[p.from]
    /\ p.epoch = promise[p.from] => p \in frozen[p.from]
    /\ promise[Owner(p.epoch)] = p.epoch => p.start = start[Owner(p.epoch)]
    /\ \A x \in p.entries : /\ p.start <= x.slot /\ x.slot <= p.high
                            /\ ~x.decided /\ x.epoch = 0 => x.value # Noop
PromiseShape ==
    /\ \A p \in Promised : GoodPage(p)
    /\ \A i \in Replica : \A p \in frozen[i] :
          p.from = i /\ p.epoch = promise[i] /\ Cardinality(frozen[i]) = p.pages
OneSnapshot ==
    \A q \in Replica, e \in Epoch :
        /\ IsFiniteSet(PagesOf(q, e))
        /\ \A p, r \in PagesOf(q, e) :
              /\ p.pages = r.pages /\ p.high = r.high /\ p.start = r.start
              /\ p.page = r.page => p = r
              /\ Cardinality(PagesOf(q, e)) <= p.pages
              /\ \A x \in p.entries, y \in r.entries : x.slot = y.slot => x = y
\* A replica that prepares has its own promise on the way to itself, or has it.
OwnPage(i, m) ==
    m.kind \in {"Prepare", "Promise"} /\ m.from = i /\ m.to = i /\ m.epoch = promise[i]
Preparation ==
    \A i \in Replica : preparing[i] =>
        /\ \A p \in pages[i] : p.epoch = promise[i] /\ p.start = start[i]
        /\ (\E m \in msgs : OwnPage(i, m)) => \A p \in pages[i] : p.from = i
        /\ \A p \in frozen[i] : \A s \in Slot : accepted[i][s] # None => s <= p.high
        /\ \/ i \in crashed
           \/ \E m \in msgs : OwnPage(i, m) /\ m.kind = "Prepare" /\ frozen[i] = {}
           \/ /\ frozen[i] # {}
              /\ \A p \in frozen[i] : p \in pages[i] \/ (p \in msgs /\ p.to = i)
Shape == Roles /\ Plans /\ VoteShape /\ Traffic /\ PromiseShape /\ OneSnapshot /\ Preparation

-----------------------------------------------------------------------------
(***************************************************************************)
(* Safety: what was voted for is kept, by votes and by promises.           *)
(***************************************************************************)
Backs(r, e, v) == r.epoch >= e /\ (r.epoch = 0 => r.value = v)
Holds(q, s, e, v) == accepted[q][s] # None /\ Backs(accepted[q][s], e, v)
Says(p, s, e, v) == \E y \in p.entries : y.slot = s /\ (y.decided \/ Backs(y, e, v))
Tells(q, c, s, e, v) ==
    Whole(q, c) /\ (\A p \in PagesOf(q, c) : p.start <= s) =>
        \E p \in PagesOf(q, c) : Says(p, s, e, v)
Keeps(q, s, e, v) ==
    Holds(q, s, e, v) /\ \A c \in Epoch : c > e => Tells(q, c, s, e, v)
VoteInv ==
    \A q \in Replica, e \in Epoch, s \in Slot, v \in Command : Acked(q, e, s, v) =>
        /\ Led(e) /\ promise[q] >= e /\ Keeps(q, s, e, v)
        /\ e > 0 /\ promise[Owner(e)] = e => Planning(Owner(e), s)
\* A coordinator that asked for votes has voted once it leaves its epoch.
PledgeInv ==
    \A e \in Epoch, s \in Slot : Pledged(Owner(e), e, s) =>
        IF promise[Owner(e)] > e THEN \A v \in Command : Keeps(Owner(e), s, e, v)
        ELSE \/ Holds(Owner(e), s, e, Noop) \/ Owner(e) \in crashed
             \/ \E m \in msgs : m.kind = "Accept" /\ m.from = m.to /\ m.epoch = e /\ m.slot = s
OneValue ==
    \A s \in Slot, e \in Epoch, v, w \in Command : Known(s, e, v) /\ Known(s, e, w) => v = w
Owned ==
    \A s \in Slot, e \in Epoch, v \in Command : Known(s, e, v) =>
        /\ Led(e) /\ Elected(e)
        /\ promise[Owner(e)] = e => Planning(Owner(e), s) /\ proposed[Owner(e)][s].value = v
Safe ==
    \A s \in Slot, e, b \in Epoch, v, w \in Command :
        b < e /\ Known(s, e, v) /\ Choosable(b, s, w) => v = w
Lock(s, v, b, Q) ==
    /\ Led(b)
    /\ \A q \in Q : Keeps(q, s, b, v)
    /\ \A e \in Epoch, w \in Command : e >= b /\ Known(s, e, w) => w = v
    /\ \A i \in Replica : Leading(i) /\ promise[i] >= b =>
          s < start[i] \/ (Planning(i, s) /\ proposed[i][s].value = v)
Locked ==
    \A s \in Slot, v \in Command :
        Claimed(s, v) => \E b \in Epoch : \E Q \in QuorumOf(b) : Lock(s, v, b, Q)
Established ==
    \A i \in Replica : Leading(i) =>
        /\ Elected(promise[i])
        /\ \A s \in Slot, b \in Epoch, v \in Command :
              b < promise[i] /\ start[i] <= s /\ ~Planning(i, s) => ~CanChoose(b, s, v)
Safety == VoteInv /\ PledgeInv /\ OneValue /\ Owned /\ Safe /\ Locked /\ Established

-----------------------------------------------------------------------------
(***************************************************************************)
(* What the replicas have executed and what the clients were told.         *)
(***************************************************************************)
\* V is what executing the slots of ch up to e comes to: each request runs in
\* the first slot that holds it.
Ran(ch, e, V) ==
    /\ \A s \in 0..e : ch[s] # None
    /\ \A v \in V : /\ v.slot \in 0..e /\ v.req \in Request /\ ch[v.slot] = v.req
                    /\ \A t \in 0..(v.slot - 1) : ch[t] # v.req
    /\ \A s \in 0..e : ch[s] \in Request => \E v \in V : v.req = ch[s]
Executed == \A i \in Replica : Ran(chosen[i], executed[i], values[i])

\* The result of a request is what its replica had executed by then.
Before(V, t) == {w \in V : w.slot <= t}
Told == \A x \in replies : \E i \in Replica : \E v \in values[i] :
            v.req = x.req /\ x.result = Before(values[i], v.slot)
History == Executed /\ Told

\* Replica i executes the slots up to m, and answers requests it has executed.
Runs(i) ==
    /\ \A k \in Replica : k # i => executed'[k] = executed[k] /\ values'[k] = values[k]
    /\ \E m \in executed[i]..MaxSlot :
          /\ executed'[i] = m
          /\ values'[i] = values[i] \cup Executions(chosen'[i], executed[i] + 1, m, Done(i))
          /\ \A s \in (executed[i] + 1)..m : chosen'[i][s] # None
    /\ replies \subseteq replies'
    /\ \A x \in replies' : \/ x \in replies
                           \/ \E v \in values'[i] :
                                 x = [req |-> v.req, result |-> Result(values'[i], v.req)]

-----------------------------------------------------------------------------
(***************************************************************************)
(* FastPaxos as a DecidedLog: a command is decided once a quorum has       *)
(* locked it.  Unlike the votes that carry it, a lock is never lost.       *)
(***************************************************************************)
Decisions ==
    {d \in Slot \X Command : \E b \in Epoch : \E Q \in QuorumOf(b) : Lock(d[1], d[2], b, Q)}

OneLog == INSTANCE DecidedLog WITH decided <- Decisions
=============================================================================
