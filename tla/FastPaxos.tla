----------------------------- MODULE FastPaxos -----------------------------
(***************************************************************************)
(* Package fastpaxos: core.go (fast votes, classic rounds), recovery.go    *)
(* (collision and leader recovery), execute.go (in-order execution) and    *)
(* the part of replica.go and transport.go that ties them to the clients.  *)
(*                                                                         *)
(* One step is one proposal, one packet or one tick.  The packets a        *)
(* replica sends to itself are handled before anything else happens, as    *)
(* drain does.  A batch is a run of packets with one entry each: every     *)
(* handler treats the entries of a batch one after the other.  Promise     *)
(* pages keep their entries together.  Timers are due at any tick.         *)
(***************************************************************************)
EXTENDS Integers, Sequences, FiniteSets

CONSTANTS
    N,               \* number of replicas; replicas are 0 .. N-1
    Request,         \* client requests
    Noop,            \* the filler of a slot nobody reports a command for
    None,            \* nothing
    PageSize,        \* entries per promise page and per flush (128)
    FastWindow,      \* unexecuted slots a fast voter may have open (8192)
    InflightWindow,  \* unexecuted slots a leader may have open (16384)
    RepairBudget,    \* slots one resend or fetch covers (4096)
    Retain,          \* TRUE: a packet may be delivered again and again
    MaxSlot,         \* bound: the highest slot of the model
    MaxEpoch,        \* bound: the highest epoch of the model
    World            \* bound: the environments of the model, see below

ASSUME NAssumption == N \in Nat /\ N >= 3 /\ N % 2 = 1
ASSUME RequestAssumption == /\ IsFiniteSet(Request)
                            /\ Noop \notin Request
                            /\ None \notin Request \cup {Noop}
ASSUME SizeAssumption == /\ PageSize \in Nat \ {0} /\ RepairBudget \in Nat \ {0}
                         /\ FastWindow \in Nat /\ InflightWindow \in Nat
ASSUME BoundAssumption == MaxSlot \in Nat /\ MaxEpoch \in Nat
ASSUME RetainAssumption == Retain \in BOOLEAN

Replica == 0..(N - 1)
Timer == {"beat", "repair", "retry", "age"}
Kind == {"Vote", "Prepare", "Promise", "Accept", "Accepted", "Commit", "Heartbeat",
         "FetchSlots", "FetchValue", "Data", "Forward", "Nack", "Recover"}
\* An environment: route[r], the replicas the client reaches with r; timers[i],
\* the timers of i that may run out; reach[i], the kinds of packets that arrive
\* at i; mortal, the replicas that may crash (a minority); losses, the number of
\* packets that may be lost (~Retain); silent, the pairs <<i, j>> where i may miss
\* j's heartbeats although j is up; last, the highest slot used.
ASSUME WorldAssumption ==
    World \subseteq [route : [Request -> SUBSET Replica], timers : [Replica -> SUBSET Timer],
                     reach : [Replica -> SUBSET Kind], mortal : SUBSET Replica, losses : 0..1,
                     silent : SUBSET (Replica \X Replica), last : 0..MaxSlot]
Slot    == 0..MaxSlot
Epoch   == 0..MaxEpoch
Command == Request \cup {Noop}
\* Nothing is no vote.
ASSUME NoneAssumption == None \notin [epoch : Epoch, value : Command]
Majority == N \div 2 + 1
\* Mutant of FastQuorum: a majority decides.
FastMajority == N \div 2 + 1
FastQuorum == (3 * N) \div 4 + 1
Owner(e) == e % N

(***************************************************************************)
(* Packets.                                                                *)
(***************************************************************************)
Vote(i, j, s, v) == [kind |-> "Vote", from |-> i, to |-> j, slot |-> s, value |-> v]
Prepare(i, j, e, st) == [kind |-> "Prepare", from |-> i, to |-> j, epoch |-> e, start |-> st]
Accept(i, j, e, s, v) ==
    [kind |-> "Accept", from |-> i, to |-> j, epoch |-> e, slot |-> s, value |-> v]
Accepted(i, j, e, s) == [kind |-> "Accepted", from |-> i, to |-> j, epoch |-> e, slot |-> s]
Commit(i, j, s, v, p) ==
    [kind |-> "Commit", from |-> i, to |-> j, slot |-> s, value |-> v, payload |-> p]
Heartbeat(i, j, e, h) == [kind |-> "Heartbeat", from |-> i, to |-> j, epoch |-> e, high |-> h]
FetchSlots(i, j, st, h) == [kind |-> "FetchSlots", from |-> i, to |-> j, start |-> st, high |-> h]
FetchValue(i, j, v) == [kind |-> "FetchValue", from |-> i, to |-> j, value |-> v]
Data(i, j, v) == [kind |-> "Data", from |-> i, to |-> j, value |-> v]
Forward(i, j, v) == [kind |-> "Forward", from |-> i, to |-> j, value |-> v]
Nack(i, j, e) == [kind |-> "Nack", from |-> i, to |-> j, epoch |-> e]
Recover(i, j) == [kind |-> "Recover", from |-> i, to |-> j]

Entry == [slot : Slot, epoch : Epoch, value : Command, payload : BOOLEAN, decided : BOOLEAN]
Page == [kind : {"Promise"}, from : Replica, to : Replica, epoch : Epoch,
         start : 0..(MaxSlot + 1), high : -1..MaxSlot, page : Nat, pages : Nat,
         entries : SUBSET Entry]

Packet ==
    Page
  \cup [kind : {"Vote"}, from : Replica, to : Replica, slot : Slot, value : Request]
  \cup [kind : {"Prepare"}, from : Replica, to : Replica, epoch : Epoch, start : 0..(MaxSlot + 1)]
  \cup [kind : {"Accept"}, from : Replica, to : Replica, epoch : Epoch, slot : Slot, value : Command]
  \cup [kind : {"Accepted"}, from : Replica, to : Replica, epoch : Epoch, slot : Slot]
  \cup [kind : {"Commit"}, from : Replica, to : Replica, slot : Slot, value : Command, payload : BOOLEAN]
  \cup [kind : {"Heartbeat"}, from : Replica, to : Replica, epoch : Epoch, high : -1..MaxSlot]
  \cup [kind : {"FetchSlots"}, from : Replica, to : Replica, start : 0..(MaxSlot + 1), high : Slot]
  \cup [kind : {"FetchValue", "Data", "Forward"}, from : Replica, to : Replica, value : Request]
  \cup [kind : {"Nack"}, from : Replica, to : Replica, epoch : Epoch]
  \cup [kind : {"Recover"}, from : Replica, to : Replica]

Execution == [req : Request, slot : Slot]

VARIABLES
    promise, active, preparing, start,  \* epoch and role
    accepted, proposed, chosen,         \* per slot: vote, the leader's plan, decision
    votes, acks, local,                 \* per slot: fast votes seen, classic acks, own request
    high, next, executed, values,       \* log positions, executed requests with their slots
    known, pending, assigned, queue,    \* requests: payload known, waiting, planned, to plan
    pages, frozen,                      \* promise pages collected, and the own ones
    cursor, stalled, heard,             \* resend position, fast path given up, peers heard
    proposals, replies,                 \* clients to answer, results sent
    world, crashed, lost, msgs          \* the environment

roleVars   == <<promise, active, preparing, start>>
slotVars   == <<accepted, proposed, chosen, votes, acks, local>>
logVars    == <<high, next, executed, values>>
reqVars    == <<known, pending, assigned, queue>>
pageVars   == <<pages, frozen>>
clientVars == <<proposals, replies>>
envVars    == <<world, crashed, lost>>
vars == <<roleVars, slotVars, logVars, reqVars, pageVars, cursor, stalled, heard,
          clientVars, envVars, msgs>>

PerSlot(x) == [i \in Replica |-> [s \in Slot |-> x]]
PerReplica(x) == [i \in Replica |-> x]

Init ==
    /\ promise = PerReplica(0) /\ active = PerReplica(FALSE)
    /\ preparing = PerReplica(FALSE) /\ start = PerReplica(0)
    /\ accepted = PerSlot(None) /\ proposed = PerSlot(None) /\ chosen = PerSlot(None)
    /\ votes = PerSlot({}) /\ acks = PerSlot({}) /\ local = PerSlot(None)
    /\ high = PerReplica(-1) /\ next = PerReplica(0) /\ executed = PerReplica(-1)
    /\ values = PerReplica({})
    /\ known = PerReplica({}) /\ pending = PerReplica({})
    /\ assigned = PerReplica({}) /\ queue = PerReplica(<<>>)
    /\ pages = PerReplica({}) /\ frozen = PerReplica({})
    /\ cursor = PerReplica(0) /\ stalled = PerReplica(FALSE)
    /\ heard = PerReplica(Replica)
    /\ proposals = PerReplica({}) /\ replies = {}
    /\ world \in World /\ crashed = {} /\ lost = 0 /\ msgs = {}

-----------------------------------------------------------------------------
(***************************************************************************)
(* Sending and receiving.                                                  *)
(***************************************************************************)
\* No replica has a packet to itself to handle.
Idle == \A m \in msgs : m.from # m.to
\* What handling m takes off the wire.
Used(m) == IF Retain /\ m.from # m.to THEN {} ELSE {m}
Post(used, out) == msgs' = (msgs \ used) \cup out

Top(a, b) == IF a < b THEN b ELSE a
Least(a, b) == IF a < b THEN a ELSE b
Raise(i, s) == [high EXCEPT ![i] = Top(@, s)]

-----------------------------------------------------------------------------
(***************************************************************************)
(* Execution: apply, with the decisions ch and the payloads kn.            *)
(***************************************************************************)
Done(i) == {v.req : v \in values[i]}
\* Mutant of Runnable: a gap before a decision is skipped.
SkipsGap(ch, kn, s) ==
    /\ s \in Slot
    /\ \/ ch[s] \in kn \cup {Noop}
       \/ ch[s] = None /\ \E t \in Slot : t > s /\ ch[t] # None
Runnable(ch, kn, s) == s \in Slot /\ (ch[s] = Noop \/ ch[s] \in kn)

Executions(ch, from, to, done) ==
    {x \in [req : Request \ done, slot : from..to] :
        ch[x.slot] = x.req /\ \A t \in from..(x.slot - 1) : ch[t] # x.req}

\* The result of a command is a function of the commands executed up to it.
Result(V, r) == {v \in V : \A w \in V : w.req = r => v.slot <= w.slot}
Answers(V, R) == {[req |-> r, result |-> Result(V, r)] : r \in R}

\* forget: decided just now; asked: submitted in this turn, for the clients props.
Apply(i, ch, kn, forget, asked, props) ==
    \E m \in executed[i]..MaxSlot :
        LET X == Executions(ch, executed[i] + 1, m, Done(i))
            V == values[i] \cup X
            done == {x.req : x \in V}
        IN  /\ \A s \in (executed[i] + 1)..m : Runnable(ch, kn, s)
            /\ ~Runnable(ch, kn, m + 1)
            /\ executed' = [executed EXCEPT ![i] = m]
            /\ values' = [values EXCEPT ![i] = V]
            /\ known' = [known EXCEPT ![i] = kn]
            /\ pending' = [pending EXCEPT
                  ![i] = (@ \ ({ch[s] : s \in (executed[i] + 1)..m} \cup forget))
                            \cup (asked \ done)]
            /\ replies' = replies \cup
                  Answers(V, props \cap ({x.req : x \in X} \cup (asked \cap done)))

-----------------------------------------------------------------------------
(***************************************************************************)
(* The fast path: a replica votes for a request in its next slot.          *)
(***************************************************************************)
ProposeFast(i, r, loc, hi, used) ==
    IF next[i] - executed'[i] - 1 >= FastWindow
    THEN /\ stalled' = [stalled EXCEPT ![i] = TRUE]
         /\ local' = loc
         /\ high' = [high EXCEPT ![i] = hi]
         /\ Post(used, {})
         /\ UNCHANGED <<next, accepted>>
    ELSE /\ next[i] <= world.last
         /\ next' = [next EXCEPT ![i] = @ + 1]
         /\ local' = [loc EXCEPT ![i][next[i]] = r]
         /\ high' = [high EXCEPT ![i] = Top(hi, next[i])]
         /\ accepted' = [accepted EXCEPT ![i][next[i]] = [epoch |-> 0, value |-> r]]
         /\ Post(used, {Vote(i, j, next[i], r) : j \in Replica})
         /\ UNCHANGED stalled

NoProposal(i, hi, used, out) ==
    /\ high' = [high EXCEPT ![i] = hi]
    /\ Post(used, out)
    /\ UNCHANGED <<next, accepted, local, stalled>>

\* enqueue
Planned(i, r) ==
    IF r \in assigned[i]
    THEN UNCHANGED <<assigned, queue>>
    ELSE /\ assigned' = [assigned EXCEPT ![i] = @ \cup {r}]
         /\ queue' = [queue EXCEPT ![i] = Append(@, r)]

\* submit: the payload may complete a decision learned before it.
Submit(i, r, props, used) ==
    /\ Apply(i, chosen[i], known[i] \cup {r}, {}, {r}, props)
    /\ IF promise[i] = 0 /\ r \in pending'[i] \ pending[i]
       THEN ProposeFast(i, r, local, high[i], used)
       ELSE NoProposal(i, high[i], used, {})
    /\ IF promise[i] > 0 /\ active[i] /\ Owner(promise[i]) = i /\ r \in pending'[i] \ pending[i]
       THEN Planned(i, r)
       ELSE UNCHANGED <<assigned, queue>>

Propose(i, r) ==
    /\ Idle /\ i \notin crashed /\ i \in world.route[r]
    /\ proposals' = [proposals EXCEPT ![i] = @ \cup {r}]
    /\ Submit(i, r, proposals[i] \cup {r}, {})
    /\ UNCHANGED <<roleVars, proposed, chosen, votes, acks, pageVars, cursor, heard, envVars>>

ReceiveForward(i, m) ==
    /\ m.kind = "Forward" /\ promise[i] > 0 /\ Owner(promise[i]) = i /\ active[i]
    /\ Submit(i, m.value, proposals[i], Used(m))
    /\ UNCHANGED <<roleVars, proposed, chosen, votes, acks, pageVars, cursor, proposals, envVars>>

\* learn: a decision; a fast voter whose own request lost the slot votes for it
\* again in a later one.
\* Mutant of Reproposes: the slot need not hold an own request.
ReproposesNothing(i, s, v) == promise[i] = 0 /\ local[i][s] # v
Reproposes(i, s, v) ==
    promise[i] = 0 /\ local[i][s] \notin {None, v} /\ local[i][s] \in pending'[i]

Learn(i, s, v, kn, used, out) ==
    /\ chosen[i][s] \in {None, v}
    /\ chosen' = [chosen EXCEPT ![i][s] = v]
    /\ Apply(i, [chosen[i] EXCEPT ![s] = v], kn, {v}, {}, proposals[i])
    /\ IF Reproposes(i, s, v)
       THEN ProposeFast(i, local[i][s], [local EXCEPT ![i][s] = None], Top(high[i], s), used)
       ELSE NoProposal(i, Top(high[i], s), used, out)

Support(V, v) == Cardinality({x \in V : x.value = v})
\* No value can reach a fast quorum any more.
Collision(V) ==
    \A x \in V : Support(V, x.value) + N - Cardinality(V) < FastQuorum

ReceiveVote(i, m) ==
    LET V == votes[i][m.slot] \cup {[from |-> m.from, value |-> m.value]}
    IN  /\ m.kind = "Vote" /\ promise[i] = 0 /\ chosen[i][m.slot] = None
        /\ \A x \in votes[i][m.slot] : x.from # m.from
        /\ votes' = [votes EXCEPT ![i][m.slot] = V]
        /\ IF Support(V, m.value) >= FastQuorum
           THEN Learn(i, m.slot, m.value, known[i], Used(m), {})
           ELSE /\ stalled' = [stalled EXCEPT ![i] = @ \/ Collision(V)]
                /\ high' = Raise(i, m.slot)
                /\ Post(Used(m), {})
                /\ UNCHANGED <<accepted, chosen, local, next, executed, values, known,
                               pending, replies>>
        /\ UNCHANGED <<roleVars, proposed, acks, assigned, queue, pageVars, cursor,
                       proposals, envVars>>

-----------------------------------------------------------------------------
(***************************************************************************)
(* Epochs: adopt, begin, and the promises a prepare collects.              *)
(***************************************************************************)
Adopt(i, e) ==
    IF e <= promise[i]
    THEN UNCHANGED <<promise, preparing, frozen, queue, assigned>>
    ELSE /\ promise' = [promise EXCEPT ![i] = e]
         /\ preparing' = [preparing EXCEPT ![i] = FALSE]
         /\ frozen' = [frozen EXCEPT ![i] = {}]
         /\ queue' = [queue EXCEPT ![i] = <<>>]
         /\ assigned' = [assigned EXCEPT ![i] = {}]
Deactivate(i, e) == active' = [active EXCEPT ![i] = @ /\ e <= promise[i]]

\* What replica i reports of slot s: a decision, or else its last vote.
Report(i, s) ==
    IF chosen[i][s] # None
    THEN {[slot |-> s, epoch |-> 0, value |-> chosen[i][s],
           payload |-> chosen[i][s] \in known[i], decided |-> TRUE]}
    ELSE IF accepted[i][s] # None
    THEN {[slot |-> s, epoch |-> accepted[i][s].epoch, value |-> accepted[i][s].value,
           payload |-> accepted[i][s].value \in known[i], decided |-> FALSE]}
    ELSE {}

\* The pages of a promise: the entries in slot order, PageSize to a page.
Rank(E, e) == Cardinality({x \in E : x.slot < e.slot})
Snapshot(i, j, e, st) ==
    LET E == UNION {Report(i, s) : s \in st..high[i]}
        count == (Cardinality(E) + PageSize - 1) \div PageSize
        total == IF count = 0 THEN 1 ELSE count
    IN  {[kind |-> "Promise", from |-> i, to |-> j, epoch |-> e, start |-> st,
          high |-> high[i], page |-> p, pages |-> total,
          entries |-> {x \in E : Rank(E, x) \div PageSize = p}] : p \in 0..(total - 1)}

PromisePages(i, m) ==
    IF m.epoch = promise[i] /\ frozen[i] # {}
    THEN frozen[i] ELSE Snapshot(i, m.from, m.epoch, m.start)

ReceivePrepare(i, m) ==
    /\ m.kind = "Prepare" /\ m.epoch >= promise[i]
    /\ m.epoch = promise[i] => \A p \in frozen[i] : p.start = m.start
    /\ promise' = [promise EXCEPT ![i] = m.epoch]
    /\ IF m.epoch > promise[i]
       THEN /\ preparing' = [preparing EXCEPT ![i] = FALSE]
            /\ queue' = [queue EXCEPT ![i] = <<>>]
            /\ assigned' = [assigned EXCEPT ![i] = {}]
       ELSE UNCHANGED <<preparing, queue, assigned>>
    /\ Deactivate(i, m.epoch)
    /\ frozen' = [frozen EXCEPT ![i] = PromisePages(i, m)]
    /\ Post(Used(m), PromisePages(i, m))
    /\ UNCHANGED <<start, slotVars, logVars, known, pending, pages, cursor, stalled,
                   clientVars, envVars>>

\* An Accept or Prepare of an older epoch is refused.
ReceiveStale(i, m) ==
    /\ m.kind \in {"Prepare", "Accept"} /\ m.epoch < promise[i]
    /\ Post(Used(m), {Nack(i, m.from, promise[i])})
    /\ UNCHANGED <<roleVars, slotVars, logVars, reqVars, pageVars, cursor, stalled,
                   clientVars, envVars>>

ReceiveNack(i, m) ==
    /\ m.kind = "Nack" /\ m.epoch > promise[i]
    /\ Adopt(i, m.epoch) /\ Deactivate(i, m.epoch)
    /\ Post(Used(m), {})
    /\ UNCHANGED <<start, slotVars, logVars, known, pending, pages, cursor, stalled,
                   clientVars, envVars>>

-----------------------------------------------------------------------------
(***************************************************************************)
(* selectValue and promisePage.                                            *)
(***************************************************************************)
\* Mutant of Newest: the votes of every epoch count.
NewestOfAny(R) == R
Newest(R) == {r \in R : \A q \in R : q.epoch <= r.epoch}
\* Mutant of Minimum: the replicas outside the quorum are not counted.
MinimumOfQuorum(q) == q
Minimum(q) == FastQuorum + q - N
\* The values selectValue may return for the reports R of q voters; the code
\* looks at the reports in any order.
Selectable(R, q) ==
    LET T == Newest(R)
        decided == {r \in R : r.decided}
        vals == {r.value : r \in T}
        strong == {v \in vals : Cardinality({r \in T : r.value = v}) >= Minimum(q)}
    IN  IF R = {} THEN {Noop}
        ELSE IF decided # {} THEN {r.value : r \in decided}
        ELSE IF Noop \in vals THEN {Noop}
        ELSE IF Cardinality(vals) = 1 THEN vals
        ELSE IF strong # {} THEN strong
        ELSE {Noop}

PagesFrom(P, j) == {p \in P : p.from = j}
CompleteFrom(P, j) ==
    \E p \in PagesFrom(P, j) : Cardinality(PagesFrom(P, j)) = p.pages
Voters(P) == {j \in Replica : CompleteFrom(P, j)}
PromiseExpected(i, m) ==
    /\ m.kind = "Promise" /\ preparing[i] /\ m.epoch = promise[i] /\ m.start = start[i]
    /\ \A p \in PagesFrom(pages[i], m.from) : p.pages = m.pages /\ p.high = m.high
Collected(i, m) == pages[i] \cup
    (IF \E p \in PagesFrom(pages[i], m.from) : p.page = m.page THEN {} ELSE {m})

CollectPromise(i, m) ==
    /\ PromiseExpected(i, m)
    /\ Cardinality(Voters(Collected(i, m))) < Majority
    /\ pages' = [pages EXCEPT ![i] = Collected(i, m)]
    /\ Post(Used(m), {})
    /\ UNCHANGED <<roleVars, slotVars, logVars, reqVars, frozen, cursor, stalled,
                   clientVars, envVars>>

\* The reports of slot s in the complete promises.
Reports(P, s) ==
    UNION {{[from |-> p.from, epoch |-> e.epoch, value |-> e.value, decided |-> e.decided] :
              e \in {x \in p.entries : x.slot = s}} :
           p \in {x \in P : x.from \in Voters(P)}}
Payloads(P) ==
    UNION {{e.value : e \in {x \in p.entries : x.payload}} :
           p \in {x \in P : x.from \in Voters(P)}}
\* The highest slot a complete promise knows of.
LastSlot(i, P) ==
    CHOOSE h \in (start[i] - 1)..MaxSlot :
        LET H == {start[i] - 1} \cup {p.high : p \in {x \in P : x.from \in Voters(P)}}
        IN  h \in H /\ \A x \in H : x <= h

\* resend: the slots a call covers, and the packets it broadcasts.
Floor(i) == Top(start[i], executed[i] + 1)
Ceiling(i, hi) == Least(hi, Floor(i) + InflightWindow - 1)
From(i, cur, hi) == IF cur < Floor(i) \/ cur > Ceiling(i, hi) THEN Floor(i) ELSE cur
Scan(i, cur, hi) ==
    From(i, cur, hi)..Least(Ceiling(i, hi), From(i, cur, hi) + RepairBudget - 1)
Advance(i, cur, hi) == From(i, cur, hi) + Cardinality(Scan(i, cur, hi))

\* An own Accept that i has handled changes nothing when it is repeated.
Hearers(i, s, b) == Replica \ (IF accepted[i][s] = b THEN {i} ELSE {})
Resent(i, S, prop, kn, e) ==
    UNION {IF chosen[i][s] # None
           THEN {Commit(i, j, s, chosen[i][s], chosen[i][s] \in kn) : j \in Replica}
           ELSE IF prop[s] = None \/ prop[s].epoch # e THEN {}
           ELSE IF prop[s].value \in kn \cup {Noop}
           THEN {Accept(i, j, e, s, prop[s].value) : j \in Hearers(i, s, prop[s])}
           ELSE {FetchValue(i, j, prop[s].value) : j \in Replica \ {i}} : s \in S}

\* The pending requests in the order of their identifiers, which is any.
Orders(R) == {q \in [1..Cardinality(R) -> R] : \A a, b \in DOMAIN q : q[a] = q[b] => a = b}

TakeOver(i, m) ==
    LET P == Collected(i, m)
        last == LastSlot(i, P)
        kn == known[i] \cup (Payloads(P) \ {Noop})
        span == start[i]..last
    IN  /\ PromiseExpected(i, m)
        /\ Cardinality(Voters(P)) >= Majority
        /\ \E pick \in [span -> Command] :
              LET prop == [s \in Slot |-> IF s \in span
                             THEN [epoch |-> promise[i], value |-> pick[s]]
                             ELSE proposed[i][s]]
                  plan == assigned[i] \cup ({pick[s] : s \in span} \ {Noop})
              IN  /\ \A s \in span :
                        pick[s] \in Selectable(Reports(P, s), Cardinality(Voters(P)))
                  /\ proposed' = [proposed EXCEPT ![i] = prop]
                  /\ \E q \in Orders(pending[i] \ plan) :
                        queue' = [queue EXCEPT ![i] = @ \o q]
                  /\ assigned' = [assigned EXCEPT ![i] = plan \cup pending[i]]
                  /\ cursor' = [cursor EXCEPT ![i] = Advance(i, start[i], last)]
                  /\ Post(Used(m), Resent(i, Scan(i, start[i], last), prop, kn, promise[i]))
        /\ acks' = [acks EXCEPT ![i] = [s \in Slot |-> IF s \in span THEN {} ELSE @[s]]]
        /\ known' = [known EXCEPT ![i] = kn]
        /\ pages' = [pages EXCEPT ![i] = P]
        /\ preparing' = [preparing EXCEPT ![i] = FALSE]
        /\ active' = [active EXCEPT ![i] = TRUE]
        /\ high' = [high EXCEPT ![i] = last]
        /\ next' = [next EXCEPT ![i] = last + 1]
        /\ UNCHANGED <<promise, start, accepted, chosen, votes, local, executed, values,
                       pending, frozen, stalled, clientVars, envVars>>

-----------------------------------------------------------------------------
(***************************************************************************)
(* Classic rounds.                                                         *)
(***************************************************************************)
\* The two panics of the handler.
ContradictsChosen(i, m) == chosen[i][m.slot] \notin {None, m.value}
Equivocates(i, m) ==
    /\ accepted[i][m.slot] # None
    /\ accepted[i][m.slot].epoch = m.epoch
    /\ accepted[i][m.slot].value # m.value

ReceiveAccept(i, m) ==
    /\ m.kind = "Accept" /\ m.epoch >= promise[i]
    /\ ~ContradictsChosen(i, m) /\ ~Equivocates(i, m)
    /\ Adopt(i, m.epoch)
    /\ active' = [active EXCEPT ![i] = TRUE]
    /\ known' = [known EXCEPT ![i] = @ \cup ({m.value} \ {Noop})]
    /\ accepted' = [accepted EXCEPT ![i][m.slot] = [epoch |-> m.epoch, value |-> m.value]]
    /\ high' = Raise(i, m.slot)
    /\ Post(Used(m), {Accepted(i, m.from, m.epoch, m.slot)})
    /\ UNCHANGED <<start, proposed, chosen, votes, acks, local, next, executed, values,
                   pending, pages, cursor, stalled, clientVars, envVars>>

\* An acknowledgement that still counts.
Counts(i, m) ==
    /\ m.kind = "Accepted" /\ active[i] /\ Owner(promise[i]) = i /\ m.epoch = promise[i]
    /\ proposed[i][m.slot] # None
    /\ proposed[i][m.slot].epoch = m.epoch
    /\ chosen[i][m.slot] = None

ReceiveAccepted(i, m) ==
    LET A == acks[i][m.slot] \cup {m.from}
        v == proposed[i][m.slot].value
    IN  /\ Counts(i, m)
        /\ acks' = [acks EXCEPT ![i][m.slot] = A]
        /\ IF Cardinality(A) >= Majority
           THEN Learn(i, m.slot, v, known[i], Used(m),
                      {Commit(i, j, m.slot, v, TRUE) : j \in Replica})
           ELSE /\ Post(Used(m), {})
                /\ UNCHANGED <<accepted, chosen, local, next, high, executed, values, known,
                               pending, stalled, replies>>
        /\ UNCHANGED <<roleVars, proposed, votes, assigned, queue, pageVars, cursor,
                       proposals, envVars>>

ReceiveCommit(i, m) ==
    /\ m.kind = "Commit"
    /\ Learn(i, m.slot, m.value,
             known[i] \cup (IF m.payload THEN {m.value} \ {Noop} ELSE {}), Used(m), {})
    /\ UNCHANGED <<roleVars, proposed, votes, acks, assigned, queue, pageVars, cursor,
                   proposals, envVars>>

-----------------------------------------------------------------------------
(***************************************************************************)
(* Catching up: heartbeats, decisions and payloads on request.             *)
(***************************************************************************)
ReceiveHeartbeat(i, m) ==
    LET e == Top(promise[i], m.epoch)
    IN  /\ m.kind = "Heartbeat"
        /\ Adopt(i, m.epoch) /\ Deactivate(i, m.epoch)
        /\ Post(Used(m), IF e > 0 /\ m.from = Owner(e) /\ m.high > executed[i]
                         THEN {FetchSlots(i, m.from, executed[i] + 1, m.high)} ELSE {})
        /\ UNCHANGED <<start, slotVars, logVars, known, pending, pages, cursor, stalled,
                       clientVars, envVars>>

\* Mutant of Asked: the first slot asked for is left out.
AskedLate(m) == (m.start + 1)..Least(m.high, m.start + RepairBudget - 1)
Asked(m) == m.start..Least(m.high, m.start + RepairBudget - 1)
ReceiveFetchSlots(i, m) ==
    /\ m.kind = "FetchSlots"
    /\ Post(Used(m), {Commit(i, m.from, s, chosen[i][s], TRUE) :
                         s \in {t \in Asked(m) : Runnable(chosen[i], known[i], t)}})
    /\ UNCHANGED <<roleVars, slotVars, logVars, reqVars, pageVars, cursor, stalled,
                   clientVars, envVars>>

ReceiveFetchValue(i, m) ==
    /\ m.kind = "FetchValue" /\ m.value \in known[i]
    /\ Post(Used(m), {Data(i, m.from, m.value)})
    /\ UNCHANGED <<roleVars, slotVars, logVars, reqVars, pageVars, cursor, stalled,
                   clientVars, envVars>>

ReceiveData(i, m) ==
    /\ m.kind = "Data"
    /\ Apply(i, chosen[i], known[i] \cup {m.value}, {}, {}, proposals[i])
    /\ Post(Used(m), {})
    /\ UNCHANGED <<roleVars, slotVars, high, next, assigned, queue, pageVars, cursor,
                   stalled, proposals, envVars>>

ReceiveRecover(i, m) ==
    /\ m.kind = "Recover" /\ promise[i] = 0
    /\ stalled' = [stalled EXCEPT ![i] = TRUE]
    /\ Post(Used(m), {})
    /\ UNCHANGED <<roleVars, slotVars, logVars, reqVars, pageVars, cursor, clientVars, envVars>>

-----------------------------------------------------------------------------
(***************************************************************************)
(* tick.  due: the timers that have run out, "beat" (250 ms), "repair"     *)
(* (100 ms), "retry" (1 s) and "age" (3 s without progress).               *)
(***************************************************************************)
Candidate(i) == CHOOSE j \in heard[i] : \A k \in heard[i] : j <= k
Aged(i, due) == "age" \in due /\ promise[i] = 0 /\ pending[i] # {}
\* Mutant of Need: the silence of a coordinator is not noticed.
NeedOnFastPath(i, due) ==
    /\ promise[i] = 0
    /\ \/ Cardinality(heard[i]) < FastQuorum
       \/ stalled[i] \/ Aged(i, due)
       \/ "age" \in due /\ high[i] > executed[i]
Need(i, due) ==
    \/ /\ promise[i] = 0
       /\ \/ Cardinality(heard[i]) < FastQuorum
          \/ stalled[i] \/ Aged(i, due)
          \/ "age" \in due /\ high[i] > executed[i]
    \/ promise[i] > 0 /\ Owner(promise[i]) \notin heard[i]
Begins(i, due) == Need(i, due) /\ Candidate(i) = i /\ Cardinality(heard[i]) >= Majority

Beat(i, due, e) ==
    IF "beat" \in due THEN {Heartbeat(i, j, e, executed[i]) : j \in Replica \ {i}} ELSE {}

NextEpoch(i) == (promise[i] \div N + 1) * N + i

TickBegin(i, due) ==
    /\ Idle /\ i \notin crashed /\ Begins(i, due) /\ NextEpoch(i) \in Epoch
    /\ promise' = [promise EXCEPT ![i] = NextEpoch(i)]
    /\ active' = [active EXCEPT ![i] = FALSE]
    /\ preparing' = [preparing EXCEPT ![i] = TRUE]
    /\ start' = [start EXCEPT ![i] = executed[i] + 1]
    /\ queue' = [queue EXCEPT ![i] = <<>>]
    /\ assigned' = [assigned EXCEPT ![i] = {}]
    /\ pages' = [pages EXCEPT ![i] = {}]
    /\ frozen' = [frozen EXCEPT ![i] = {}]
    /\ stalled' = [stalled EXCEPT ![i] = @ \/ Aged(i, due)]
    /\ Post({}, Beat(i, due, promise[i])
                  \cup {Prepare(i, j, NextEpoch(i), executed[i] + 1) : j \in Replica})
    /\ UNCHANGED <<slotVars, logVars, known, pending, cursor, heard, clientVars, envVars>>

\* The next slot is decided and its payload is missing.
Wanted(i) ==
    {chosen[i][s] : s \in {t \in {executed[i] + 1} \cap Slot :
                              chosen[i][t] \notin known[i] \cup {None, Noop}}}
Retries(i) ==
    {FetchValue(i, j, v) : j \in Replica \ {i}, v \in Wanted(i)}
      \cup (IF promise[i] > 0 /\ Owner(promise[i]) # i
            THEN {Forward(i, Owner(promise[i]), r) : r \in pending[i]} ELSE {})

Leads(i) == active[i] /\ promise[i] > 0 /\ Owner(promise[i]) = i

TickFollow(i, due) ==
    /\ Idle /\ i \notin crashed /\ ~Begins(i, due) /\ ~Leads(i)
    /\ stalled' = [stalled EXCEPT ![i] = @ \/ Aged(i, due)]
    /\ Post({}, Beat(i, due, promise[i])
          \cup (IF Need(i, due) /\ Candidate(i) # i THEN {Recover(i, Candidate(i))} ELSE {})
          \cup (IF "retry" \notin due THEN {}
                ELSE IF preparing[i]
                THEN {Prepare(i, j, promise[i], start[i]) : j \in Replica \ {i}}
                ELSE Retries(i)))
    /\ UNCHANGED <<roleVars, slotVars, logVars, reqVars, pageVars, cursor, heard,
                   clientVars, envVars>>

\* flush: the requests it reads from the queue, and the slots they get.
Fresh(i, k) == Cardinality({a \in 1..k : queue[i][a] \notin Done(i)})
Room(i) == Least(PageSize, InflightWindow - (next[i] - executed[i]))
Reads(i) == {k \in DOMAIN queue[i] : Fresh(i, k - 1) < Room(i)}
Slots(i) == {next[i] + Fresh(i, k - 1) : k \in {a \in Reads(i) : queue[i][a] \notin Done(i)}}
RequestAt(i, s) ==
    queue[i][CHOOSE k \in Reads(i) : queue[i][k] \notin Done(i) /\ next[i] + Fresh(i, k - 1) = s]

TickLead(i, due) ==
    LET S == Slots(i)
        prop == [s \in Slot |-> IF s \in S
                   THEN [epoch |-> promise[i], value |-> RequestAt(i, s)]
                   ELSE proposed[i][s]]
        hi == IF S = {} THEN high[i] ELSE Top(high[i], next[i] + Cardinality(S) - 1)
        repair == "repair" \in due
    IN  /\ Idle /\ i \notin crashed /\ Leads(i) /\ S \subseteq 0..world.last
        /\ queue' = [queue EXCEPT ![i] = SubSeq(@, Cardinality(Reads(i)) + 1, Len(@))]
        /\ next' = [next EXCEPT ![i] = @ + Cardinality(S)]
        /\ high' = [high EXCEPT ![i] = hi]
        /\ proposed' = [proposed EXCEPT ![i] = prop]
        /\ acks' = [acks EXCEPT ![i] = [s \in Slot |-> IF s \in S THEN {} ELSE @[s]]]
        /\ cursor' = [cursor EXCEPT ![i] = IF repair THEN Advance(i, @, hi) ELSE @]
        /\ Post({}, Beat(i, due, promise[i])
              \cup {Accept(i, j, promise[i], s, prop[s].value) : j \in Replica, s \in S}
              \cup (IF repair
                    THEN Resent(i, Scan(i, cursor[i], hi), prop, known[i], promise[i]) ELSE {})
              \cup (IF "retry" \in due THEN Retries(i) ELSE {}))
        /\ UNCHANGED <<roleVars, accepted, chosen, votes, local, executed, values, known,
                       pending, assigned, pageVars, stalled, heard, clientVars, envVars>>

-----------------------------------------------------------------------------
(***************************************************************************)
(* The environment.                                                        *)
(***************************************************************************)
\* Three seconds without a packet from j.
Silence(i, j) ==
    /\ Idle /\ i \notin crashed /\ j \in heard[i] \ {i}
    /\ <<i, j>> \in world.silent \/ j \in crashed
    /\ heard' = [heard EXCEPT ![i] = @ \ {j}]
    /\ UNCHANGED <<roleVars, slotVars, logVars, reqVars, pageVars, cursor, stalled,
                   clientVars, envVars, msgs>>

\* Nothing is persisted, so a crashed replica does not come back; what it has
\* sent arrives or is lost with it.
Crash(i) ==
    /\ i \in world.mortal \ crashed
    /\ crashed' = crashed \cup {i}
    /\ \E gone \in SUBSET {m \in msgs : m.from = i /\ m.kind \in world.reach[m.to]} :
          msgs' = msgs \ ({m \in msgs : m.from = i /\ m.to = i} \cup gone)
    /\ UNCHANGED <<roleVars, slotVars, logVars, reqVars, pageVars, cursor, stalled, heard,
                   clientVars, world, lost>>

Lose(m) ==
    /\ ~Retain /\ m.from # m.to /\ m.kind \in world.reach[m.to] /\ lost < world.losses
    /\ lost' = lost + 1
    /\ msgs' = msgs \ {m}
    /\ UNCHANGED <<roleVars, slotVars, logVars, reqVars, pageVars, cursor, stalled, heard,
                   clientVars, world, crashed>>

\* The early returns of receive.
Handled(i, m) ==
    CASE m.kind = "Vote" -> /\ promise[i] = 0 /\ chosen[i][m.slot] = None
                            /\ \A x \in votes[i][m.slot] : x.from # m.from
      [] m.kind = "Prepare" -> m.epoch = promise[i] => \A p \in frozen[i] : p.start = m.start
      [] m.kind = "Promise" -> PromiseExpected(i, m)
      [] m.kind = "Accepted" -> Counts(i, m)
      [] m.kind = "FetchValue" -> m.value \in known[i]
      [] m.kind = "Forward" -> Leads(i)
      [] m.kind = "Nack" -> m.epoch > promise[i]
      [] m.kind = "Recover" -> promise[i] = 0
      [] OTHER -> TRUE

Ignore(i, m) ==
    /\ ~Handled(i, m)
    /\ Post(Used(m), {})
    /\ UNCHANGED <<roleVars, slotVars, logVars, reqVars, pageVars, cursor, stalled,
                   clientVars, envVars>>

Receive(i, m) ==
    /\ i \notin crashed /\ m.to = i
    /\ m.from = i \/ (Idle /\ m.kind \in world.reach[i])
    /\ heard' = [heard EXCEPT ![i] = @ \cup {m.from}]
    /\ \/ ReceiveVote(i, m)
       \/ ReceivePrepare(i, m)
       \/ CollectPromise(i, m)
       \/ TakeOver(i, m)
       \/ ReceiveAccept(i, m)
       \/ ReceiveAccepted(i, m)
       \/ ReceiveCommit(i, m)
       \/ ReceiveHeartbeat(i, m)
       \/ ReceiveFetchSlots(i, m)
       \/ ReceiveFetchValue(i, m)
       \/ ReceiveData(i, m)
       \/ ReceiveForward(i, m)
       \/ ReceiveNack(i, m)
       \/ ReceiveStale(i, m)
       \/ ReceiveRecover(i, m)
       \/ Ignore(i, m)

Next ==
    \/ \E i \in Replica, r \in Request : Propose(i, r)
    \/ \E i \in Replica : \E due \in SUBSET world.timers[i] :
          TickBegin(i, due) \/ TickFollow(i, due) \/ TickLead(i, due)
    \/ \E m \in msgs : Receive(m.to, m)
    \/ \E m \in msgs : Lose(m)
    \/ \E i, j \in Replica : Silence(i, j)
    \/ \E i \in Replica : Crash(i)

Spec == Init /\ [][Next]_vars

-----------------------------------------------------------------------------
(***************************************************************************)
(* Properties.                                                             *)
(***************************************************************************)
Ballots == {None} \cup [epoch : Epoch, value : Command]
\* Every variable has its type.
TypeOK ==
    /\ promise \in [Replica -> Epoch] /\ active \in [Replica -> BOOLEAN]
    /\ preparing \in [Replica -> BOOLEAN] /\ start \in [Replica -> 0..(MaxSlot + 1)]
    /\ accepted \in [Replica -> [Slot -> Ballots]]
    /\ proposed \in [Replica -> [Slot -> Ballots]]
    /\ chosen \in [Replica -> [Slot -> Command \cup {None}]]
    /\ votes \in [Replica -> [Slot -> SUBSET [from : Replica, value : Request]]]
    /\ acks \in [Replica -> [Slot -> SUBSET Replica]]
    /\ local \in [Replica -> [Slot -> Request \cup {None}]]
    /\ high \in [Replica -> -1..MaxSlot] /\ next \in [Replica -> 0..(MaxSlot + 1)]
    /\ executed \in [Replica -> -1..MaxSlot]
    /\ values \in [Replica -> SUBSET Execution]
    /\ known \in [Replica -> SUBSET Request] /\ pending \in [Replica -> SUBSET Request]
    /\ assigned \in [Replica -> SUBSET Request] /\ queue \in [Replica -> Seq(Request)]
    /\ pages \in [Replica -> SUBSET Page] /\ frozen \in [Replica -> SUBSET Page]
    /\ cursor \in [Replica -> 0..(MaxSlot + 1)] /\ stalled \in [Replica -> BOOLEAN]
    /\ heard \in [Replica -> SUBSET Replica]
    /\ proposals \in [Replica -> SUBSET Request]
    /\ replies \in SUBSET [req : Request, result : SUBSET Execution]
    /\ crashed \in SUBSET Replica /\ lost \in 0..world.losses /\ world \in World
    /\ msgs \in SUBSET Packet

\* Three of the four panics are unreachable: no packet on the wire would make its receiver
\* find a conflicting decision or a coordinator that equivocates, and the
\* promises a coordinator holds never show two values of one classic epoch.
NoPanic ==
    /\ \A m \in msgs :
          /\ m.kind = "Commit" => chosen[m.to][m.slot] \in {None, m.value}
          /\ m.kind = "Accept" /\ m.epoch >= promise[m.to] => ~Equivocates(m.to, m)
    /\ \A i \in Replica, s \in Slot : \A x, y \in Newest(Reports(pages[i], s)) :
          preparing[i] /\ x.epoch > 0 /\ ~x.decided /\ ~y.decided => x.value = y.value

\* The results sent to clients come from one history.
OneHistory ==
    \A x, y \in replies :
        /\ x.result \subseteq y.result \/ y.result \subseteq x.result
        /\ x.req = y.req => x.result = y.result

-----------------------------------------------------------------------------
(***************************************************************************)
(* Fairness: every timer runs out again and again at a replica that is up, *)
(* packets that are not lost arrive, the silence of a crashed replica is   *)
(* noticed, and a proposal reaches the replicas its client is connected to.*)
(***************************************************************************)
Fairness ==
    /\ \A i \in Replica :
          /\ WF_vars(TickBegin(i, {})) /\ WF_vars(TickBegin(i, {"age"}))
          /\ WF_vars(TickLead(i, {}))
          /\ \A t \in UNION {w.timers[i] : w \in World} :
                /\ WF_vars(t \in world.timers[i] /\ TickFollow(i, {t}))
                /\ WF_vars(t \in world.timers[i] /\ TickLead(i, {t}))
          /\ \A k \in UNION {w.reach[i] : w \in World} :
                WF_vars(\E m \in msgs : m.kind = k /\ Receive(i, m))
          /\ WF_vars(\E m \in msgs : m.from = i /\ Receive(i, m))
          /\ WF_vars(\E j \in crashed : Silence(i, j))
    /\ \A i \in Replica, r \in Request : WF_vars(Propose(i, r))

FairSpec == Spec /\ Fairness

\* A request whose replica retries is answered in the end, although a replica
\* crashes (three of three are a fast quorum): the fast path is given up and a
\* coordinator finishes the slot.
Answered ==
    \A r \in Request :
        (\E i \in world.route[r] : "retry" \in world.timers[i])
            ~> ((\E x \in replies : x.req = r) \/ world.route[r] \subseteq crashed)

\* What one replica has executed every replica that is up, and that Commits and
\* heartbeats reach, executes in the end, although it missed a vote or a Commit.
CatchUp ==
    \A s \in Slot :
        (\E i \in Replica : executed[i] >= s)
            ~> (\A j \in Replica : \/ executed[j] >= s \/ j \in crashed
                                  \/ ~({"Commit", "Heartbeat"} \subseteq world.reach[j]))
=============================================================================
