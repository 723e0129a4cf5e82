------------------------------- MODULE Paxos -------------------------------
(***************************************************************************)
(* The leader-directed Paxos log of package paxos: core.go (normal case),  *)
(* recovery.go (leader change), execute.go (in-order execution) and the    *)
(* part of replica.go that ties proposals to replies.                      *)
(*                                                                         *)
(* One step of this specification is one turn of the replica's event loop  *)
(* (replica/transport.go, EventLoop.Run): a client proposal, one received  *)
(* packet, or one maintenance tick.  Packets a replica sends to itself are *)
(* delivered synchronously inside the same turn, as Transport.Send does.   *)
(***************************************************************************)
EXTENDS Integers, Sequences, FiniteSets

CONSTANTS
    N,                \* number of replicas; replicas are 0 .. N-1
    InitLeader,       \* the leader chosen by the deployment plan
    Request,          \* client requests (defs.RequestID with its command)
    Noop,             \* the filler a new leader puts into an unreported slot
    Route,            \* Route[r]: the replicas the client may send r to
    Link,             \* <<i, j>> \in Link: i's connection to j may fail
    PageSize,         \* records per packet (128 in the code)
    AdmissionWindow,  \* unexecuted slots a leader may have open (8192)
    SuffixLimit,      \* slots one sendSuffix call covers (2048)
    Timed,            \* bound: the replicas that heartbeat, repeat a Prepare or fetch, with "loss"
    Retain,           \* TRUE: a packet may be delivered again and again
    MaxSlot,          \* bound: the highest slot of the model
    MaxBallot,        \* bound: the highest ballot of the model
    Fault,            \* bound: a behaviour has crashes ("crash"), or lost packets ("loss")
    Down,             \* bound: the replicas that have crashed before the start, with "loss"
    Mortal,           \* bound: the replicas that may crash (a minority), with "crash"
    Lossy,            \* bound: the kinds of packets that may be lost, with "loss" and ~Retain
    MaxLoss           \* bound: how many of them

ASSUME NAssumption == N \in Nat /\ N >= 3 /\ N % 2 = 1
ASSUME LeaderAssumption == InitLeader \in 0..(N - 1)
ASSUME RequestAssumption == IsFiniteSet(Request) /\ Noop \notin Request
ASSUME RouteAssumption == Route \in [Request -> SUBSET (0..(N - 1))]
ASSUME PageAssumption == PageSize \in Nat \ {0}
ASSUME WindowAssumption == AdmissionWindow \in Nat /\ SuffixLimit \in Nat
ASSUME BoundAssumption == /\ MaxSlot \in Nat
                          /\ MaxBallot \in Nat
                          /\ InitLeader <= MaxBallot
                          /\ MaxLoss \in Nat
ASSUME FaultAssumption == Fault \subseteq {"crash", "loss"}
ASSUME ReplicasAssumption == Timed \cup Down \cup Mortal \subseteq 0..(N - 1)
ASSUME RetainAssumption == Retain \in BOOLEAN

Replica  == 0..(N - 1)
Slot     == 0..MaxSlot
Ballot   == 0..MaxBallot
\* Mutant of Majority: half of the replicas, rounded down.
HalfRoundedDown == N \div 2
Majority == N \div 2 + 1
Command  == Request \cup {Noop}
Record   == [slot : Slot, ballot : Ballot, req : Command, committed : BOOLEAN]

(***************************************************************************)
(* Packets.  A broadcast is one packet per connected peer.                 *)
(***************************************************************************)
Prepare(i, j, b, f) ==
    [kind |-> "Prepare", from |-> i, to |-> j, ballot |-> b, floor |-> f]
Accept(i, j, b, R) ==
    [kind |-> "Accept", from |-> i, to |-> j, ballot |-> b, recs |-> R]
Ack(i, j, b, S) ==
    [kind |-> "Ack", from |-> i, to |-> j, ballot |-> b, slots |-> S]
Commit(i, j, b, R) ==
    [kind |-> "Commit", from |-> i, to |-> j, ballot |-> b, recs |-> R]
Ready(i, j, b, h, on) ==
    [kind |-> "Ready", from |-> i, to |-> j, ballot |-> b, high |-> h, on |-> on]
Fetch(i, j, b, f) ==
    [kind |-> "Fetch", from |-> i, to |-> j, ballot |-> b, floor |-> f]
Forward(i, j, b, r) ==
    [kind |-> "Forward", from |-> i, to |-> j, ballot |-> b, req |-> r]

PromisePacket ==
    [kind : {"Promise"}, from : Replica, to : Replica, ballot : Ballot,
     floor : 0..(MaxSlot + 1), high : -1..MaxSlot, page : Nat, pages : Nat,
     recs : SUBSET Record]

Packet ==
    [kind : {"Prepare"}, from : Replica, to : Replica, ballot : Ballot,
     floor : 0..(MaxSlot + 1)]
  \cup PromisePacket
  \cup [kind : {"Accept", "Commit"}, from : Replica, to : Replica,
        ballot : Ballot, recs : SUBSET Record]
  \cup [kind : {"Ack"}, from : Replica, to : Replica, ballot : Ballot,
        slots : SUBSET Slot]
  \cup [kind : {"Ready"}, from : Replica, to : Replica, ballot : Ballot,
        high : -1..MaxSlot, on : BOOLEAN]
  \cup [kind : {"Fetch"}, from : Replica, to : Replica, ballot : Ballot,
        floor : 0..(MaxSlot + 1)]
  \cup [kind : {"Forward"}, from : Replica, to : Replica, ballot : Ballot,
        req : Request]

Execution == [req : Request, slot : Slot]

VARIABLES
    \* ballot and role of each replica
    ballot, leader, active, preparing, recoveryEnd,
    \* the replicated log: a set of records, at most one per slot
    log, high, executed, assigned,
    \* values[i]: the requests i has executed, each with the slot it ran in
    values,
    \* client requests waiting at a replica
    proposals, pending, queue, resume,
    \* collected by a leader: acknowledgements per slot, promise pages, and
    \* the peers whose promise is complete
    votes, pages, promises,
    \* the promise pages a replica repeats for a repeated Prepare
    frozen,
    \* connections seen as up, crashed replicas
    alive, crashed,
    \* packets that may still be delivered, number of packets lost
    msgs, lost,
    \* the kind of fault of this behaviour, it never changes
    fault,
    \* results sent to clients
    replies

roleVars   == <<ballot, leader, active, preparing, recoveryEnd>>
logVars    == <<log, high, executed, assigned, values>>
clientVars == <<proposals, pending, queue, resume>>
quorumVars == <<votes, pages, promises, frozen>>
envVars    == <<alive, crashed, lost, fault>>
vars == <<roleVars, logVars, clientVars, quorumVars, envVars, msgs, replies>>

-----------------------------------------------------------------------------
(***************************************************************************)
(* Sending.  Transport.Send skips a peer whose connection is down.         *)
(***************************************************************************)
Peers(i) == alive[i] \ {i}
To(i, j, P) == IF j \in alive[i] THEN P ELSE {}

\* Consume m (if packets are not retained) and put the packets out on the wire.
Exchange(m, out) == msgs' = (IF Retain THEN msgs ELSE msgs \ {m}) \cup out
Emit(out) == msgs' = msgs \cup out

-----------------------------------------------------------------------------
(***************************************************************************)
(* The log.                                                                *)
(***************************************************************************)
Slots(R) == {r.slot : r \in R}
Reqs(R)  == {r.req : r \in R}
Done(i)  == {v.req : v \in values[i]}
Decided(L, s) == \E r \in L : r.slot = s /\ r.committed
IsTop(h, H) == h \in H /\ \A x \in H : x <= h

\* install: a committed record is never overwritten, any other one is.
Install(L, R) ==
    {r \in L : r.committed \/ r.slot \notin Slots(R)}
      \cup {r \in R : ~Decided(L, r.slot)}
Stored(L, R) == {r \in R : ~Decided(L, r.slot)}

\* The records of one sendSuffix call, cut into packets of PageSize slots.
Window(L, start, end) == {r \in L : start <= r.slot /\ r.slot <= end}
SuffixEnd(start, h) == IF h > start + SuffixLimit - 1 THEN start + SuffixLimit - 1 ELSE h
Chunks(W, start) ==
    {{r \in W : (r.slot - start) \div PageSize = (q.slot - start) \div PageSize} : q \in W}
Stamp(R, b) == {[r EXCEPT !.ballot = b] : r \in R}
Undecided(R) == {[r EXCEPT !.committed = FALSE] : r \in R}
Suffix(L, start, h, b) ==
    Chunks(Stamp(Window(L, start, SuffixEnd(start, h)), b), start)
OwnSuffix(L, start, h, b) == {Undecided(R) : R \in Suffix(L, start, h, b)}

\* ack: votes for the slots S that are not executed, and what they decide.
Vote(V, S, j, e) ==
    [s \in Slot |-> IF s \in S /\ s > e THEN V[s] \cup {j} ELSE V[s]]
\* Mutant of Chosen: one vote short of a majority is enough.
ChosenEarly(L, V, S, b, e) ==
    {r \in L : /\ r.slot \in S /\ r.slot > e /\ r.ballot = b /\ ~r.committed
               /\ Cardinality(V[r.slot]) + 1 >= Majority}
Chosen(L, V, S, b, e) ==
    {r \in L : /\ r.slot \in S /\ r.slot > e
               /\ r.ballot = b
               /\ ~r.committed
               /\ Cardinality(V[r.slot]) >= Majority}
Decide(L, C) == (L \ C) \cup {[r EXCEPT !.committed = TRUE] : r \in C}

\* apply stops at m: everything up to m is committed, m + 1 is not.
\* Mutant of StopsAt: execution runs past slots that are not committed.
StopsAfterGap(L, e, m) ==
    /\ m > e => Decided(L, m)
    /\ \A s \in Slot : s > m => ~Decided(L, s)
StopsAt(L, e, m) ==
    /\ \A s \in (e + 1)..m : Decided(L, s)
    /\ ~Decided(L, m + 1)

\* What executing the slots e+1 .. m of L adds to the executed requests: a
\* request runs only in the first slot that holds it, a Noop never.
\* Mutant of Executions: every slot runs its request.
ExecutionsAgain(L, e, m, done) ==
    {[req |-> r.req, slot |-> r.slot] :
        r \in {q \in L : q.slot \in (e + 1)..m /\ q.req \in Request}}
Executions(L, e, m, done) ==
    {[req |-> r.req, slot |-> r.slot] :
        r \in {q \in L : /\ q.slot \in (e + 1)..m
                         /\ q.req \in Request \ done
                         /\ \A p \in L : p.slot \in (e + 1)..(q.slot - 1)
                                             => p.req # q.req}}

\* The result of a command is a function of the commands executed up to it.
Result(V, r) == {v \in V : \A w \in V : w.req = r => v.slot <= w.slot}
Reply(V, r) == [req |-> r, result |-> Result(V, r)]

\* apply at replica i, whose log is L after the records of this turn.
Apply(i, L) ==
    \E m \in executed[i]..MaxSlot :
        LET X == Executions(L, executed[i], m, Done(i))
            V == values[i] \cup X
        IN  /\ StopsAt(L, executed[i], m)
            /\ executed' = [executed EXCEPT ![i] = m]
            /\ values' = [values EXCEPT ![i] = V]
            /\ pending' = [pending EXCEPT
                 ![i] = @ \ {r.req : r \in Window(L, executed[i] + 1, m)}]
            /\ replies' = replies \cup {Reply(V, r) : r \in proposals[i] \cap Reqs(X)}
            /\ proposals' = [proposals EXCEPT ![i] = @ \ Reqs(X)]

\* apply also forgets the votes of the slots it executes.
Forget(V, m) == [s \in Slot |-> IF s <= m THEN {} ELSE V[s]]

-----------------------------------------------------------------------------
Init ==
    /\ ballot = [i \in Replica |-> InitLeader]
    /\ leader = [i \in Replica |-> InitLeader]
    /\ active = [i \in Replica |-> TRUE]
    /\ preparing = [i \in Replica |-> FALSE]
    /\ recoveryEnd = [i \in Replica |-> -1]
    /\ log = [i \in Replica |-> {}]
    /\ high = [i \in Replica |-> -1]
    /\ executed = [i \in Replica |-> -1]
    /\ assigned = [i \in Replica |-> {}]
    /\ values = [i \in Replica |-> {}]
    /\ proposals = [i \in Replica |-> {}]
    /\ pending = [i \in Replica |-> {}]
    /\ queue = [i \in Replica |-> <<>>]
    /\ resume = [i \in Replica |-> {}]
    /\ votes = [i \in Replica |-> [s \in Slot |-> {}]]
    /\ pages = [i \in Replica |-> {}]
    /\ promises = [i \in Replica |-> {}]
    /\ frozen = [i \in Replica |-> {}]
    /\ fault \in Fault
    /\ crashed = IF fault = "loss" THEN Down ELSE {}
    /\ alive = [i \in Replica |-> (Replica \ crashed) \cup {i}]
    /\ msgs = {}
    /\ lost = 0
    /\ replies = {}

\* The timers of i (heartbeat, repeated Prepare, fetch budget) run out.
Ticks(i) == fault = "loss" /\ i \in Timed

-----------------------------------------------------------------------------
(***************************************************************************)
(* Client proposals.                                                       *)
(***************************************************************************)
\* enqueue refuses what is executed, has a slot, or is queued already.
Enqueueable(i, r) ==
    r \notin Done(i) /\ r \notin assigned[i] /\ \A k \in DOMAIN queue[i] : queue[i][k] # r

\* submit, for a request that has not been executed here.
Submit(i, r) ==
    /\ pending' = [pending EXCEPT ![i] = @ \cup {r}]
    /\ queue' = IF active[i] /\ leader[i] = i /\ Enqueueable(i, r)
                THEN [queue EXCEPT ![i] = Append(@, r)]
                ELSE queue

ForwardOf(i, R) == {Forward(i, leader[i], ballot[i], r) : r \in R}

\* A proposal arrives from a client; a retry is another arrival of it.
ProposeNew(i, r) ==
    /\ r \notin Done(i)
    /\ proposals' = [proposals EXCEPT ![i] = @ \cup {r}]
    /\ Submit(i, r)
    /\ Emit(IF active[i] /\ leader[i] # i
            THEN To(i, leader[i], ForwardOf(i, {r})) ELSE {})
    /\ UNCHANGED replies

\* The request has run: its saved result is sent again.
ProposeExecuted(i, r) ==
    /\ r \in Done(i)
    /\ replies' = replies \cup {Reply(values[i], r)}
    /\ proposals' = [proposals EXCEPT ![i] = @ \ {r}]
    /\ UNCHANGED <<pending, queue, msgs>>

Propose(i, r) ==
    /\ i \notin crashed /\ i \in Route[r]
    /\ ProposeNew(i, r) \/ ProposeExecuted(i, r)
    /\ UNCHANGED <<roleVars, logVars, resume, quorumVars, envVars>>

ReceiveForward(i, m) ==
    /\ m.kind = "Forward" /\ m.ballot = ballot[i] /\ leader[i] = i /\ active[i]
    /\ IF m.req \in Done(i)
       THEN /\ replies' = IF m.req \in proposals[i]
                          THEN replies \cup {Reply(values[i], m.req)} ELSE replies
            /\ proposals' = [proposals EXCEPT ![i] = @ \ {m.req}]
            /\ UNCHANGED <<pending, queue>>
       ELSE Submit(i, m.req) /\ UNCHANGED <<replies, proposals>>
    /\ Exchange(m, {})
    /\ UNCHANGED <<roleVars, logVars, resume, quorumVars, envVars>>

-----------------------------------------------------------------------------
(***************************************************************************)
(* Acceptors: accept, commit, and the fetch of a missing suffix.           *)
(***************************************************************************)
\* Only the leader of the current ballot may have records accepted or committed.
\* Mutant of FromLeader: the ballot of the packet may be an old one.
FromAnyLeader(i, m) == m.ballot <= ballot[i]
FromLeader(i, m) == m.ballot = ballot[i] /\ m.from = leader[i]

\* requestFetch: never by the leader; the 100 ms budget may suppress it.
FetchFrom(i) == To(i, leader[i], {Fetch(i, leader[i], ballot[i], executed[i] + 1)})

\* A record whose predecessor is missing, when the records before it in the
\* packet have been installed.
Gap(L, R) ==
    \E r \in R : /\ r.slot > 0
                 /\ \A q \in L : q.slot # r.slot - 1
                 /\ \A q \in R : q.slot # r.slot - 1

ReceiveAccept(i, m, fetch) ==
    /\ m.kind = "Accept" /\ FromLeader(i, m)
    /\ LET R == Stamp(m.recs, m.ballot)
       IN  /\ fetch => Ticks(i) /\ Gap(log[i], R)
           /\ log' = [log EXCEPT ![i] = Install(@, R)]
           /\ assigned' = [assigned EXCEPT ![i] = @ \cup Reqs(Stored(log[i], R))]
           /\ \E h \in Slot :
                 /\ IsTop(h, {high[i]} \cup Slots(R))
                 /\ high' = [high EXCEPT ![i] = h]
           /\ Exchange(m, To(i, leader[i], {Ack(i, leader[i], ballot[i], Slots(R))})
                            \cup IF fetch THEN FetchFrom(i) ELSE {})
    /\ UNCHANGED <<roleVars, executed, values, clientVars, quorumVars, envVars, replies>>

ReceiveCommit(i, m) ==
    /\ m.kind = "Commit" /\ FromLeader(i, m)
    /\ LET L == Install(log[i], m.recs)
           L1 == Decide(L, {r \in L : r.slot \in Slots(m.recs)})
       IN  /\ log' = [log EXCEPT ![i] = L1]
           /\ assigned' = [assigned EXCEPT ![i] = @ \cup Reqs(Stored(log[i], m.recs))]
           /\ \E h \in Slot :
                 /\ IsTop(h, {high[i]} \cup Slots(m.recs))
                 /\ high' = [high EXCEPT ![i] = h]
           /\ Apply(i, L1)
    /\ votes' = [votes EXCEPT ![i] = Forget(@, executed'[i])]
    /\ Exchange(m, {})
    /\ UNCHANGED <<roleVars, queue, resume, pages, promises, frozen, envVars>>

\* Ready may raise the ballot; it reactivates a follower and reports what the
\* leader has executed.
ReceiveReady(i, m, fetch) ==
    LET newer == m.ballot > ballot[i]
        on    == active[i] /\ ~newer
    IN  /\ m.kind = "Ready"
        /\ newer \/ (m.ballot = ballot[i] /\ m.from = leader[i])
        /\ fetch => Ticks(i) /\ m.high > executed[i]
        /\ ballot' = [ballot EXCEPT ![i] = m.ballot]
        /\ leader' = [leader EXCEPT ![i] = m.from]
        /\ preparing' = [preparing EXCEPT ![i] = @ /\ ~newer]
        /\ votes' = IF newer THEN [votes EXCEPT ![i] = [s \in Slot |-> {}]] ELSE votes
        /\ active' = [active EXCEPT ![i] = on \/ m.on]
        /\ resume' = IF m.on /\ ~on THEN [resume EXCEPT ![i] = pending[i]] ELSE resume
        /\ Exchange(m, IF fetch
                       THEN To(i, m.from, {Fetch(i, m.from, m.ballot, executed[i] + 1)})
                       ELSE {})
        /\ UNCHANGED <<recoveryEnd, logVars, proposals, pending, queue, pages,
                       promises, frozen, envVars, replies>>

-----------------------------------------------------------------------------
(***************************************************************************)
(* The leader: acknowledgements and fetches.                               *)
(***************************************************************************)
AcceptAll(i, W) == {Accept(i, j, ballot[i], R) : j \in Peers(i), R \in W}
CommitAll(i, W) == {Commit(i, j, ballot[i], R) : j \in Peers(i), R \in W}

\* ack at leader i, whose log is L, for the slots S acknowledged by j: the
\* records it decides, and the step.
Wins(i, j, L, S) ==
    Chosen(L, Vote(votes[i], S, j, executed[i]), S, ballot[i], executed[i])
CountAck(i, j, L, S) ==
    /\ log' = [log EXCEPT ![i] = Decide(L, Wins(i, j, L, S))]
    /\ Apply(i, Decide(L, Wins(i, j, L, S)))
    /\ votes' = [votes EXCEPT
         ![i] = Forget(Vote(votes[i], S, j, executed[i]), executed'[i])]

ReceiveAck(i, m) ==
    /\ m.kind = "Ack" /\ m.ballot = ballot[i] /\ leader[i] = i /\ ~preparing[i]
    /\ CountAck(i, m.from, log[i], m.slots)
    /\ LET C == Wins(i, m.from, log[i], m.slots)
       IN  Exchange(m, CommitAll(i, {Decide(C, C)} \ {{}}))
    /\ UNCHANGED <<roleVars, high, assigned, queue, resume, pages, promises, frozen,
                   envVars>>

ReceiveFetch(i, m) ==
    /\ m.kind = "Fetch" /\ m.ballot = ballot[i] /\ leader[i] = i
    /\ LET W == Suffix(log[i], m.floor, high[i], ballot[i])
           D == {{r \in R : r.committed} : R \in W} \ {{}}
       IN  Exchange(m, To(i, m.from,
               {Accept(i, m.from, ballot[i], R) : R \in W}
                 \cup {Commit(i, m.from, ballot[i], R) : R \in D}))
    /\ UNCHANGED <<roleVars, logVars, clientVars, quorumVars, envVars, replies>>

-----------------------------------------------------------------------------
(***************************************************************************)
(* Leader change.                                                          *)
(***************************************************************************)
\* The snapshot a replica sends as its promise: the records from floor on,
\* in slot order, PageSize records to a page, at least one page.
Rank(r, R) == Cardinality({q \in R : q.slot < r.slot})
PageOf(r, R) == Rank(r, R) \div PageSize
\* Mutant of Snapshot: committed records are taken for known and left out.
SnapshotOfUndecided(i, j, b, floor) ==
    LET R == {r \in log[i] : floor <= r.slot /\ r.slot <= high[i] /\ ~r.committed}
    IN  {[kind |-> "Promise", from |-> i, to |-> j, ballot |-> b, floor |-> floor,
          high |-> high[i], page |-> 0, pages |-> 1, recs |-> R]}
Snapshot(i, j, b, floor) ==
    LET R == {r \in log[i] : floor <= r.slot /\ r.slot <= high[i]}
        K == {0} \cup {PageOf(r, R) : r \in R}
    IN  {[kind |-> "Promise", from |-> i, to |-> j, ballot |-> b, floor |-> floor,
          high |-> high[i], page |-> k, pages |-> Cardinality(K),
          recs |-> {r \in R : PageOf(r, R) = k}] : k \in K}

\* A Prepare that repeats the last one answered gets the frozen pages again.
PromiseTo(i, m) ==
    IF \E p \in frozen[i] : p.ballot = m.ballot /\ p.floor = m.floor
    THEN frozen[i] ELSE Snapshot(i, m.from, m.ballot, m.floor)

ReceivePrepare(i, m) ==
    LET newer == m.ballot > ballot[i]
    IN  /\ m.kind = "Prepare" /\ m.ballot >= ballot[i]
        /\ ballot' = [ballot EXCEPT ![i] = m.ballot]
        /\ leader' = IF newer THEN [leader EXCEPT ![i] = m.from] ELSE leader
        /\ preparing' = [preparing EXCEPT ![i] = @ /\ ~newer]
        /\ votes' = IF newer THEN [votes EXCEPT ![i] = [s \in Slot |-> {}]] ELSE votes
        /\ active' = [active EXCEPT ![i] = FALSE]
        /\ frozen' = [frozen EXCEPT ![i] = PromiseTo(i, m)]
        /\ Exchange(m, To(i, m.from, PromiseTo(i, m)))
        /\ UNCHANGED <<recoveryEnd, logVars, clientVars, pages, promises, envVars, replies>>

\* Mutant of PrepareAll: the floor is the last executed slot.
PrepareFromExecuted(i, b) == {Prepare(i, j, b, executed[i]) : j \in Peers(i)}
PrepareAll(i, b) == {Prepare(i, j, b, executed[i] + 1) : j \in Peers(i)}

\* tick, when the leader's connection is down and i is the first replica that
\* i is connected to: Begin.
LeaderLost(i) ==
    /\ leader[i] \notin alive[i]
    /\ \A j \in alive[i] : i <= j
    /\ ~preparing[i]

NextBallot(i) == (ballot[i] \div N + 1) * N + i

TickBegin(i) ==
    /\ i \notin crashed /\ LeaderLost(i)
    /\ NextBallot(i) <= MaxBallot
    /\ ballot' = [ballot EXCEPT ![i] = NextBallot(i)]
    /\ leader' = [leader EXCEPT ![i] = i]
    /\ active' = [active EXCEPT ![i] = FALSE]
    /\ preparing' = [preparing EXCEPT ![i] = TRUE]
    /\ votes' = [votes EXCEPT ![i] = [s \in Slot |-> {}]]
    /\ LET own == Snapshot(i, i, NextBallot(i), executed[i] + 1)
       IN  /\ frozen' = [frozen EXCEPT ![i] = own]
           /\ pages' = [pages EXCEPT ![i] = own]
    /\ promises' = [promises EXCEPT ![i] = {i}]
    /\ Emit(PrepareAll(i, NextBallot(i)))
    /\ UNCHANGED <<recoveryEnd, logVars, clientVars, envVars, replies>>

\* tick while preparing: Prepare is sent again every second.  The copy it
\* handles itself brings back the pages it already has.
\* Mutant of TickPrepare: Prepare is sent once.
NoRepeatedPrepare(i) == FALSE /\ UNCHANGED vars
TickPrepare(i) ==
    /\ i \notin crashed /\ preparing[i] /\ Ticks(i)
    /\ Emit(PrepareAll(i, ballot[i]))
    /\ UNCHANGED <<roleVars, logVars, clientVars, quorumVars, envVars, replies>>

\* All pages of one snapshot, taken from the slot after the leader's last
\* executed one.
\* Mutant of Complete: the first page is taken for the whole snapshot.
FirstPageComplete(P, m, e) == m.floor = e + 1
Complete(P, m, e) ==
    /\ Cardinality(P) = m.pages
    /\ \A k \in 0..(m.pages - 1) :
          \E p \in P : /\ p.page = k /\ p.pages = m.pages
                       /\ p.floor = e + 1 /\ p.high = m.high

\* The value a new leader takes over for slot s: that of a reported record
\* with the highest ballot, a Noop if none is reported.
Selects(R, s, c) ==
    \/ /\ \A r \in R : r.slot # s
       /\ c = Noop
    \/ \E r \in R : /\ r.slot = s /\ r.req = c
                    /\ \A q \in R : q.slot = s => q.ballot <= r.ballot

\* A page arrives: it replaces the one with its number.
PagesWith(i, m) ==
    {p \in pages[i] : p.from # m.from \/ p.page # m.page} \cup {m}
Completes(i, m) ==
    Complete({p \in PagesWith(i, m) : p.from = m.from}, m, executed[i])
Elects(i, m) ==
    Completes(i, m) /\ Cardinality(promises[i] \cup {m.from}) >= Majority

PromiseExpected(i, m) ==
    m.kind = "Promise" /\ m.ballot = ballot[i] /\ preparing[i] /\ leader[i] = i

\* promiseReply, while no majority has promised in full.
CollectPromise(i, m) ==
    /\ PromiseExpected(i, m) /\ ~Elects(i, m)
    /\ pages' = [pages EXCEPT ![i] = PagesWith(i, m)]
    /\ promises' = IF Completes(i, m)
                   THEN [promises EXCEPT ![i] = @ \cup {m.from}] ELSE promises
    /\ Exchange(m, {})
    /\ UNCHANGED <<roleVars, logVars, clientVars, votes, frozen, envVars, replies>>

\* A new leader activates once everything it took over (up to slot h) has run.
Recovered(e, h) == e >= h

ReadyAll(i, on) == {Ready(i, j, ballot[i], executed[i], on) : j \in Peers(i)}

\* promiseReply with a majority: adopt the reported records (any of them where
\* several have the highest ballot), propose them again, vote for them, and
\* activate at once when there is nothing to recover.
TakeOver(i, m) ==
    /\ PromiseExpected(i, m) /\ Elects(i, m)
    /\ LET P == {p \in PagesWith(i, m) : p.from \in promises[i] \cup {m.from}}
           R == UNION {p.recs : p \in P}
           e == executed[i]
           b == ballot[i]
       IN \E h \in {e} \cup {p.high : p \in P} :
          /\ IsTop(h, {e} \cup {p.high : p \in P})
          /\ \E sel \in [(e + 1)..h -> Command] :
             LET Z == {[slot |-> s, ballot |-> b, req |-> sel[s], committed |-> FALSE] :
                         s \in (e + 1)..h}
                 L == {r \in log[i] : r.slot <= e \/ r.slot > h} \cup Z
                 W == OwnSuffix(L, e + 1, h, b)
             IN /\ \A s \in (e + 1)..h : Selects(R, s, sel[s])
                /\ log' = [log EXCEPT ![i] = Install(L, UNION W)]
                /\ high' = [high EXCEPT ![i] = h]
                /\ assigned' = [assigned EXCEPT
                     ![i] = Reqs({r \in log[i] : r.slot <= e}) \cup Reqs(Z)]
                /\ recoveryEnd' = [recoveryEnd EXCEPT ![i] = h]
                /\ votes' = [votes EXCEPT
                     ![i] = Vote([s \in Slot |-> {}], Slots(UNION W), i, e)]
                /\ active' = [active EXCEPT ![i] = Recovered(e, h)]
                /\ resume' = IF Recovered(e, h) THEN [resume EXCEPT ![i] = pending[i]] ELSE resume
                /\ Exchange(m, AcceptAll(i, W)
                       \cup IF Recovered(e, h) THEN ReadyAll(i, TRUE) ELSE {})
    /\ pages' = [pages EXCEPT ![i] = PagesWith(i, m)]
    /\ promises' = [promises EXCEPT ![i] = @ \cup {m.from}]
    /\ preparing' = [preparing EXCEPT ![i] = FALSE]
    /\ UNCHANGED <<ballot, leader, executed, values, proposals, pending, queue, frozen,
                   envVars, replies>>

-----------------------------------------------------------------------------
(***************************************************************************)
(* The maintenance tick in normal operation.                               *)
(***************************************************************************)
\* While active, up to PageSize of the requests kept over a leader change are
\* submitted again; they were put aside in an arbitrary order.
Drains(i, D) ==
    /\ D \subseteq resume[i]
    /\ IF active[i]
       THEN \/ Cardinality(D) = PageSize
            \/ D = resume[i] /\ Cardinality(D) <= PageSize
       ELSE D = {}
Orders(S) == {f \in [1..Cardinality(S) -> S] : \A x \in S : \E k \in DOMAIN f : f[k] = x}

TickFollower(i) ==
    /\ i \notin crashed /\ leader[i] # i /\ ~LeaderLost(i)
    /\ \E D \in SUBSET resume[i] :
          /\ Drains(i, D)
          /\ resume' = [resume EXCEPT ![i] = @ \ D]
          /\ Emit(To(i, leader[i], ForwardOf(i, D \cap pending[i])))
    /\ UNCHANGED <<roleVars, logVars, proposals, pending, queue, quorumVars, envVars, replies>>

\* flush: the positions of the queue q that get a slot, the new records, and
\* what stays queued.  MaxSlot ends the model's slots.
Eligible(i, q) ==
    {k \in DOMAIN q : q[k] \in pending[i] /\ q[k] \notin assigned[i] /\ q[k] \notin Done(i)}
OrdinalIn(k, K) == Cardinality({j \in K : j <= k})
Open(i) == AdmissionWindow - (high[i] - executed[i])
Admitted(i, q) ==
    {k \in Eligible(i, q) : LET n == OrdinalIn(k, Eligible(i, q))
                            IN  n <= PageSize /\ n <= Open(i) /\ high[i] + n <= MaxSlot}
Admit(i, q) ==
    {[slot |-> high[i] + OrdinalIn(k, Eligible(i, q)), ballot |-> ballot[i],
      req |-> q[k], committed |-> FALSE] : k \in Admitted(i, q)}
\* Position up to which flush reads the queue: to its end, unless the batch or
\* the window fills up first.
ReadTo(i, q, n) ==
    LET A == Admitted(i, q)
    IN  \/ Open(i) <= 0 /\ n = 0
        \/ /\ Open(i) > 0
           /\ IF Cardinality(A) = PageSize \/ Cardinality(A) = Open(i) \/ A # Eligible(i, q)
              THEN IsTop(n, {0} \cup A) ELSE n = Len(q)

\* The turn of a leader: activate when recovery is over, flush the queue q
\* (its old entries and the requests submitted again), and when the heartbeat
\* is due send Ready and propose the unexecuted suffix again.  Its own votes
\* for what it proposes are counted at the end of the turn: for a slot that
\* is new its vote is the first of a majority, so only the votes for the
\* repeated suffix, the last ones, can decide anything.
Wakes(i) == ~active[i] /\ Recovered(executed[i], recoveryEnd[i])
Serves(i) == active[i] \/ Wakes(i)
Flushed(i, q) == IF Serves(i) THEN Admit(i, q) ELSE {}
Repeated(i, L, h, due) ==
    IF due THEN OwnSuffix(L, executed[i] + 1, h, ballot[i]) ELSE {}

LeaderTurn(i, due, q, h) ==
    LET F == Flushed(i, q)
        L == Install(log[i], F)
        W == Repeated(i, L, h, due)
        S == Slots(F) \cup Slots(UNION W)
        C == Wins(i, i, Install(L, UNION W), S)
    IN  /\ CountAck(i, i, Install(L, UNION W), S)
        /\ assigned' = [assigned EXCEPT ![i] = @ \cup Reqs(F) \cup Reqs(Stored(L, UNION W))]
        /\ IsTop(h, {high[i]} \cup Slots(F))
        /\ high' = [high EXCEPT ![i] = h]
        /\ \E n \in 0..Len(q) :
              /\ IF Serves(i) THEN ReadTo(i, q, n) ELSE n = 0
              /\ queue' = [queue EXCEPT ![i] = SubSeq(q, n + 1, Len(q))]
        /\ Emit((IF Wakes(i) THEN ReadyAll(i, TRUE) ELSE {})
                  \cup AcceptAll(i, {F} \ {{}})
                  \cup (IF due THEN ReadyAll(i, Serves(i)) ELSE {})
                  \cup AcceptAll(i, W)
                  \cup CommitAll(i, {{r \in Decide(C, C) : r.slot \in Slots(R)} : R \in W}
                                      \ {{}}))

TickLeader(i, due) ==
    /\ i \notin crashed /\ leader[i] = i /\ ~preparing[i]
    /\ due => Ticks(i)
    /\ \E D \in SUBSET resume[i] :
          /\ Drains(i, D)
          /\ resume' = [resume EXCEPT ![i] = IF Wakes(i) THEN pending[i] ELSE @ \ D]
          /\ \E new \in Orders({r \in D \cap pending[i] : Enqueueable(i, r)}) :
             \E h \in -1..MaxSlot : LeaderTurn(i, due, queue[i] \o new, h)
    /\ active' = [active EXCEPT ![i] = Serves(i)]
    /\ UNCHANGED <<ballot, leader, preparing, recoveryEnd, pages, promises, frozen, envVars>>

-----------------------------------------------------------------------------
(***************************************************************************)
(* The environment: connections that fail, replicas that crash (nothing is *)
(* persisted, so a crashed replica does not come back), lost packets.      *)
(***************************************************************************)
\* The reader of the connection to j ends; Alive[j] stays false for good.
LinkDown(i, j) ==
    /\ i \notin crashed /\ j \in Peers(i)
    /\ <<i, j>> \in Link \/ j \in crashed
    /\ alive' = [alive EXCEPT ![i] = @ \ {j}]
    /\ UNCHANGED <<roleVars, logVars, clientVars, quorumVars, crashed, lost, fault, msgs, replies>>

\* Nothing is persisted, so a crashed replica does not come back; what it has
\* sent arrives or is lost with it.
Crash(i) ==
    /\ fault = "crash" /\ i \in Mortal \ crashed
    /\ crashed' = crashed \cup {i}
    /\ \E gone \in SUBSET {m \in msgs : m.from = i} : msgs' = msgs \ gone
    /\ UNCHANGED <<roleVars, logVars, clientVars, quorumVars, alive, lost, fault, replies>>

\* A frame is dropped by a full send queue, or cut off with its connection.
Lose(m) ==
    /\ fault = "loss" /\ ~Retain /\ m.kind \in Lossy /\ lost < MaxLoss
    /\ lost' = lost + 1
    /\ msgs' = msgs \ {m}
    /\ UNCHANGED <<roleVars, logVars, clientVars, quorumVars, alive, crashed, fault, replies>>

\* The early returns of receive: the packets a replica does nothing with.
Handled(i, m) ==
    CASE m.kind = "Prepare" -> m.ballot >= ballot[i]
      [] m.kind = "Promise" -> PromiseExpected(i, m)
      [] m.kind \in {"Accept", "Commit"} -> FromLeader(i, m)
      [] m.kind = "Ack" -> m.ballot = ballot[i] /\ leader[i] = i /\ ~preparing[i]
      [] m.kind = "Ready" -> \/ m.ballot > ballot[i]
                             \/ m.ballot = ballot[i] /\ m.from = leader[i]
      [] m.kind = "Fetch" -> m.ballot = ballot[i] /\ leader[i] = i
      [] m.kind = "Forward" -> m.ballot = ballot[i] /\ leader[i] = i /\ active[i]

Ignore(i, m) ==
    /\ ~Retain /\ ~Handled(i, m)
    /\ msgs' = msgs \ {m}
    /\ UNCHANGED <<roleVars, logVars, clientVars, quorumVars, envVars, replies>>

Receive(i, m) ==
    /\ i \notin crashed /\ m.to = i
    /\ \/ ReceivePrepare(i, m)
       \/ CollectPromise(i, m)
       \/ TakeOver(i, m)
       \/ \E fetch \in BOOLEAN : ReceiveAccept(i, m, fetch)
       \/ ReceiveAck(i, m)
       \/ ReceiveCommit(i, m)
       \/ \E fetch \in BOOLEAN : ReceiveReady(i, m, fetch)
       \/ ReceiveFetch(i, m)
       \/ ReceiveForward(i, m)
       \/ Ignore(i, m)

Next ==
    \/ \E i \in Replica, r \in Request : Propose(i, r)
    \/ \E i \in Replica : TickBegin(i) \/ TickPrepare(i) \/ TickFollower(i)
    \/ \E i \in Replica, due \in BOOLEAN : TickLeader(i, due)
    \/ \E m \in msgs : Receive(m.to, m)
    \/ \E m \in msgs : Lose(m)
    \/ \E i, j \in Replica : LinkDown(i, j)
    \/ \E i \in Replica : Crash(i)

Spec == Init /\ [][Next]_vars

-----------------------------------------------------------------------------
(***************************************************************************)
(* Properties.                                                             *)
(***************************************************************************)
\* Every variable has its type; in particular no slot is assigned beyond the
\* bound and each page, vote set and packet is well formed.
TypeOK ==
    /\ ballot \in [Replica -> Ballot]
    /\ leader \in [Replica -> Replica]
    /\ active \in [Replica -> BOOLEAN]
    /\ preparing \in [Replica -> BOOLEAN]
    /\ recoveryEnd \in [Replica -> -1..MaxSlot]
    /\ log \in [Replica -> SUBSET Record]
    /\ high \in [Replica -> -1..MaxSlot]
    /\ executed \in [Replica -> -1..MaxSlot]
    /\ assigned \in [Replica -> SUBSET Command]
    /\ values \in [Replica -> SUBSET Execution]
    /\ proposals \in [Replica -> SUBSET Request]
    /\ pending \in [Replica -> SUBSET Request]
    /\ queue \in [Replica -> Seq(Request)]
    /\ resume \in [Replica -> SUBSET Request]
    /\ votes \in [Replica -> [Slot -> SUBSET Replica]]
    /\ pages \in [Replica -> SUBSET PromisePacket]
    /\ promises \in [Replica -> SUBSET Replica]
    /\ frozen \in [Replica -> SUBSET PromisePacket]
    /\ alive \in [Replica -> SUBSET Replica]
    /\ crashed \in SUBSET Replica
    /\ msgs \in SUBSET Packet
    /\ lost \in 0..MaxLoss /\ fault \in Fault
    /\ replies \in SUBSET [req : Request, result : SUBSET Execution]

\* Two replicas never commit different commands in the same slot, whoever led
\* when they did (core.install panics on "conflicting decision").
Agreement ==
    \A i, j \in Replica : \A r \in log[i], q \in log[j] :
        r.slot = q.slot /\ r.committed /\ q.committed => r.req = q.req

\* install's panic is unreachable: no packet a replica may still receive and
\* would install conflicts with what that replica has committed.
NoConflictingDecision ==
    \A m \in msgs :
        m.kind \in {"Accept", "Commit"} /\ Handled(m.to, m) =>
            \A r \in m.recs, q \in log[m.to] :
                r.slot = q.slot /\ q.committed => r.req = q.req

\* A leader that has finished recovery (promiseReply) holds every command
\* committed anywhere under its own or an earlier ballot.
LeaderCompleteness ==
    \A i, j \in Replica : \A r \in log[j] :
        /\ leader[i] = i /\ ~preparing[i]
        /\ r.committed /\ r.ballot <= ballot[i]
        => \E q \in log[i] : q.slot = r.slot /\ q.req = r.req

\* apply runs a request once, although two slots may hold it after a leader
\* change (the values map deduplicates).
ExecutedOnce ==
    \A i \in Replica : \A v, w \in values[i] : v.req = w.req => v = w

\* The results sent to clients come from one history: of any two, one saw all
\* that the other saw.  In particular a request has one result, whoever
\* answers it and however often.
OneHistory ==
    \A x, y \in replies :
        /\ x.result \subseteq y.result \/ y.result \subseteq x.result
        /\ x.req = y.req => x.result = y.result

\* Once a replica has committed a command in a slot, its log keeps that command
\* in that slot, also when a recovery resets the committed flag and chooses
\* the command anew from the promises.
CommittedStays ==
    [][\A i \in Replica : \A r \in log[i] :
          r.committed => \E q \in log'[i] : q.slot = r.slot /\ q.req = r.req]_vars

-----------------------------------------------------------------------------
(***************************************************************************)
(* Fairness: the event loop ticks, packets that are not lost arrive, a     *)
(* closed connection is noticed, and a client repeats an unanswered        *)
(* request.  A heartbeat comes every 200 ms and the fetch budget returns   *)
(* after 100 ms, so a follower that stays behind is not suppressed forever.*)
(***************************************************************************)
Fairness ==
    /\ \A i \in Replica :
          /\ WF_vars(TickBegin(i))
          /\ WF_vars(TickPrepare(i))
          /\ WF_vars(TickFollower(i))
          /\ WF_vars(TickLeader(i, FALSE)) /\ WF_vars(TickLeader(i, TRUE))
          /\ SF_vars(\E m \in msgs : m.to = i /\ ReceiveReady(i, m, TRUE) /\ i \notin crashed)
          /\ \A k \in {"Prepare", "Promise", "Accept", "Ack", "Commit", "Ready",
                       "Fetch", "Forward"} :
                WF_vars(\E m \in msgs : m.kind = k /\ Receive(i, m))
          /\ WF_vars(\E j \in crashed : LinkDown(i, j))
    /\ \A i \in Replica, r \in Request : WF_vars(Propose(i, r))

FairSpec == Spec /\ Fairness

\* A request is answered in the end, although the leader crashes and packets
\* are lost: heartbeats repeat Accepts, Prepare is repeated, Ready lets a
\* follower fetch what it misses, and the client retries (at a replica that
\* has not crashed).
Answered ==
    \A r \in Request : <>((\E x \in replies : x.req = r) \/ Route[r] \subseteq crashed)
=============================================================================
