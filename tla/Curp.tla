-------------------------------- MODULE Curp --------------------------------
(***************************************************************************)
(* Package curp: a replicated log (core.go, recovery.go, execute.go) whose *)
(* leader may answer a request before it is replicated, because witnesses  *)
(* have recorded it (submit), and the client that counts their records     *)
(* (client.go).                                                            *)
(*                                                                         *)
(* One step is one turn of a replica's event loop (a proposal, one packet  *)
(* or one tick) or one message handled by a client.  Packets a replica     *)
(* sends to itself are handled inside the turn.  A connection delivers in  *)
(* order, and its end loses what has not arrived.                          *)
(***************************************************************************)
EXTENDS Integers, Sequences, FiniteSets, SequencesExt

CONSTANTS
    N,                \* number of replicas; replicas are 0 .. N-1
    InitLeader,       \* the leader chosen by the deployment plan
    Request,          \* request identifiers, ordered as recovery sorts them
    Op,               \* Op[r]: "PUT", "GET" or "SCAN"
    Keys,             \* Keys[r]: the keys r writes or reads
    ClientOf,         \* ClientOf[r]: the client that issues r
    None,             \* the filler of an unreported slot; nothing
    PageSize,         \* records per packet (128 in the code)
    AdmissionWindow,  \* unexecuted slots a leader may have open (8192)
    SuffixLimit,      \* slots one sendSuffix call covers (2048)
    Link,             \* <<i, j>>: i's connection to j may fail
    After,            \* bound: After[r]: what has completed when r is issued
    Wire,             \* bound: <<i, j, k>>: packets of kind k from i arrive at j in time
    Timers,           \* bound: <<i, t>>: the timers that run out at i
    MaxSlot,          \* bound: the highest slot of the model
    MaxBallot         \* bound: the highest ballot of the model

ASSUME NAssumption == N \in Nat /\ N >= 3 /\ N % 2 = 1
ASSUME LeaderAssumption == InitLeader \in 0..(N - 1)
ASSUME RequestAssumption == IsFiniteSet(Request) /\ Request \subseteq Nat
ASSUME OpAssumption == Op \in [Request -> {"PUT", "GET", "SCAN"}]
ASSUME SizeAssumption == /\ PageSize \in Nat \ {0}
                         /\ AdmissionWindow \in Nat /\ SuffixLimit \in Nat
ASSUME BoundAssumption == MaxSlot \in Nat /\ MaxBallot \in Nat /\ InitLeader <= MaxBallot

Replica  == 0..(N - 1)
Client   == {ClientOf[r] : r \in Request}
Slot     == 0..MaxSlot
Ballot   == 0..MaxBallot
Command  == Request \cup {None}
\* Mutant of Majority: rounded down.
HalfIsMajority == N \div 2
Majority == N \div 2 + 1
\* The leader and the witnesses a client waits for.
FastQuorum == N \div 2 + (N \div 2 + 1) \div 2 + 1
\* The witnesses among a majority of promises that speak for a request.
\* Mutant of Threshold: one more is asked for.
ThresholdHigh == (N \div 2 + 1) \div 2 + 2
Threshold == (N \div 2 + 1) \div 2 + 1
Record == [slot : Slot, ballot : Ballot, req : Command, committed : BOOLEAN]

\* Two commands on a common key, one of which writes.
Conflict(a, b) == Keys[a] \cap Keys[b] # {} /\ "PUT" \in {Op[a], Op[b]}

(***************************************************************************)
(* Packets; to is the set of replicas a packet is meant for.               *)
(***************************************************************************)
Prepare(J, b, f) == [kind |-> "Prepare", to |-> J, ballot |-> b, floor |-> f]
Accept(J, b, R)  == [kind |-> "Accept", to |-> J, ballot |-> b, recs |-> R]
Ack(J, b, S)     == [kind |-> "Ack", to |-> J, ballot |-> b, slots |-> S]
Commit(J, b, R)  == [kind |-> "Commit", to |-> J, ballot |-> b, recs |-> R]
Ready(J, b, h, on) == [kind |-> "Ready", to |-> J, ballot |-> b, high |-> h, on |-> on]
Fetch(J, b, f)   == [kind |-> "Fetch", to |-> J, ballot |-> b, floor |-> f]

\* Messages to clients: MReply, MRecordAck and MSyncReply.
Fast(i, b, r, v) == [kind |-> "Fast", from |-> i, ballot |-> b, req |-> r, value |-> v]
RecordAck(i, b, r, ok) == [kind |-> "Record", from |-> i, ballot |-> b, req |-> r, ok |-> ok]
Sync(i, b, r, v) == [kind |-> "Sync", from |-> i, ballot |-> b, req |-> r, value |-> v]

VARIABLES
    ballot, leader, active, preparing, recoveryEnd,  \* role
    log, high, executed, assigned,                   \* the log: a set of records
    values,                \* executed requests, each with the slot it ran in
    pending, queue, resume,                          \* requests waiting at a replica
    witness, recorded,     \* recorded requests; the ballot r was last recorded in, or -1
    votes, pages, promises,                          \* collected acks and promises
    alive,                 \* connections seen as up
    net,                   \* net[i][j]: the packets on their way from i to j
    sent,                  \* messages to clients
    known, evidence, done, \* clients: ballot, collected evidence, completed requests
    issued, before         \* history: requests issued; what had completed by then

roleVars   == <<ballot, leader, active, preparing, recoveryEnd>>
logVars    == <<log, high, executed, assigned, values>>
reqVars    == <<pending, queue, resume>>
recordVars == <<witness, recorded>>
quorumVars == <<votes, pages, promises>>
clientVars == <<known, evidence, done, issued, before>>
vars == <<roleVars, logVars, reqVars, recordVars, quorumVars, alive, net, sent, clientVars>>

NoEvidence == [votes |-> {}, reply |-> FALSE, value |-> {}]
NoVotes == [s \in Slot |-> {}]
PerReplica(x) == [i \in Replica |-> x]

Init ==
    /\ ballot = PerReplica(InitLeader) /\ leader = PerReplica(InitLeader)
    /\ active = PerReplica(TRUE) /\ preparing = PerReplica(FALSE)
    /\ recoveryEnd = PerReplica(-1)
    /\ log = PerReplica({}) /\ high = PerReplica(-1) /\ executed = PerReplica(-1)
    /\ assigned = PerReplica({}) /\ values = PerReplica({})
    /\ pending = PerReplica({}) /\ queue = PerReplica(<<>>) /\ resume = PerReplica({})
    /\ witness = PerReplica({}) /\ recorded = PerReplica([r \in Request |-> -1])
    /\ votes = PerReplica(NoVotes) /\ pages = PerReplica({}) /\ promises = PerReplica({})
    /\ alive = PerReplica(Replica)
    /\ net = PerReplica(PerReplica(<<>>))
    /\ sent = {}
    /\ known = [c \in Client |-> -1] /\ evidence = [r \in Request |-> NoEvidence]
    /\ done = [r \in Request |-> None]
    /\ issued = {} /\ before = [r \in Request |-> {}]

-----------------------------------------------------------------------------
(***************************************************************************)
(* Connections.                                                            *)
(***************************************************************************)
Peers(i) == Replica \ {i}
\* The part of s at the positions in K.
Picked(s, K) ==
    LET part[k \in 0..Len(s)] ==
            IF k = 0 THEN <<>> ELSE IF k \in K THEN Append(part[k - 1], s[k]) ELSE part[k - 1]
    IN  part[Len(s)]
\* What j gets of the packets i sends, unless one of them has given up the other.
Addressed(i, j, out) ==
    Picked(out, {k \in DOMAIN out : /\ j \in alive[i] /\ i \in alive[j]
                                    /\ j \in out[k].to /\ <<i, j, out[k].kind>> \in Wire})
\* The network w once i has sent out.
Posted(w, i, out) == [w EXCEPT ![i] = [j \in Replica |-> @[j] \o Addressed(i, j, out)]]
Send(i, out) == net' = Posted(net, i, out)
\* i takes the first packet of j and sends out.
Exchange(i, j, out) == net' = Posted([net EXCEPT ![j][i] = Tail(@)], i, out)
\* Bound: a timer runs out only when the connections are idle, but for one packet.
Expires(i, t) ==
    <<i, t>> \in Timers /\ \A j, k \in Replica : Len(net[j][k]) <= (IF k = i THEN 1 ELSE 0)

If(c, out) == IF c THEN out ELSE <<>>
\* A packet that would carry nothing is for nobody.
Unless(R, J) == IF R = {} THEN {} ELSE J

\* Messages to clients arrive in any order.  One about a completed request or
\* of an old ballot is not heeded, and not kept.
Completed == {r \in Request : done[r] # None}
Heeded(m) == m.req \notin Completed /\ m.ballot >= known[ClientOf[m.req]]
Tell(M) == sent' = sent \cup {m \in M : Heeded(m)}

-----------------------------------------------------------------------------
(***************************************************************************)
(* The log.                                                                *)
(***************************************************************************)
Slots(R) == {r.slot : r \in R}
Reqs(R)  == {r.req : r \in R}
DoneAt(i) == {v.req : v \in values[i]}
Decided(L, s) == \E r \in L : r.slot = s /\ r.committed
IsTop(h, H) == h \in H /\ \A x \in H : x <= h
Least(a, b) == IF a < b THEN a ELSE b

\* install: a committed record is never overwritten, any other one is.
Stored(L, R) == {r \in R : ~Decided(L, r.slot)}
\* Mutant of Install: the overwritten record stays as well.
InstallBeside(L, R) == L \cup Stored(L, R)
Install(L, R) == {r \in L : r.committed \/ r.slot \notin Slots(R)} \cup Stored(L, R)
Stamp(R, b) == {[r EXCEPT !.ballot = b] : r \in R}
Undecided(R) == {[r EXCEPT !.committed = FALSE] : r \in R}

\* ack: the votes of j for S, what they decide, and the log after that.
Vote(V, S, j, e) == [s \in Slot |-> IF s \in S /\ s > e THEN V[s] \cup {j} ELSE V[s]]
Wins(i, j, L, S) ==
    {r \in L : /\ r.slot \in S /\ r.slot > executed[i]
               /\ r.ballot = ballot[i] /\ ~r.committed
               /\ Cardinality(Vote(votes[i], S, j, executed[i])[r.slot]) >= Majority}
Decide(L, C) == (L \ C) \cup {[r EXCEPT !.committed = TRUE] : r \in C}

\* The writes a command that runs after V sees: the last one of each key.
Observed(V, r) ==
    IF Op[r] = "PUT" THEN {}
    ELSE {v.req : v \in {x \in V : /\ Op[x.req] = "PUT" /\ Keys[x.req] \cap Keys[r] # {}
                                   /\ \A y \in V : /\ Op[y.req] = "PUT"
                                                   /\ Keys[y.req] = Keys[x.req]
                                                   => y.slot <= x.slot}}
ResultOf(V, r) ==
    LET s == CHOOSE t \in Slot : [req |-> r, slot |-> t] \in V
    IN  Observed({v \in V : v.slot < s}, r)

\* The requests the slots e+1 .. m of L run, each in its first slot.
Executions(L, e, m, old) ==
    {[req |-> r.req, slot |-> r.slot] :
        r \in {q \in L : /\ q.slot \in (e + 1)..m /\ q.req \in Request \ old
                         /\ \A p \in L : p.slot \in (e + 1)..(q.slot - 1) => p.req # q.req}}

\* apply at i, whose log is L and whose desk is d (see Desk).
Apply(i, L, d) ==
    \E m \in executed[i]..MaxSlot :
        LET X == Executions(L, executed[i], m, DoneAt(i))
            V == values[i] \cup X
            gone == {r.req : r \in {q \in L : q.slot \in (executed[i] + 1)..m}}
        IN  /\ \A s \in (executed[i] + 1)..m : Decided(L, s)
            /\ ~Decided(L, m + 1)
            /\ log' = [log EXCEPT ![i] = L]
            /\ executed' = [executed EXCEPT ![i] = m]
            /\ values' = [values EXCEPT ![i] = V]
            /\ pending' = [pending EXCEPT ![i] = @ \ gone]
            /\ witness' = [witness EXCEPT ![i] = d.witness \ gone]
            /\ recorded' = [recorded EXCEPT
                  ![i] = [r \in Request |-> IF r \in gone THEN -1 ELSE d.recorded[r]]]
            /\ Tell(d.sent \cup {Sync(i, ballot[i], r, ResultOf(V, r)) : r \in Reqs(X)})

CountAck(i, j, L, S, d) ==
    /\ Apply(i, Decide(L, Wins(i, j, L, S)), d)
    /\ votes' = [votes EXCEPT
         ![i] = [s \in Slot |-> IF s <= executed'[i] THEN {}
                                ELSE Vote(@, S, j, executed[i])[s]]]

-----------------------------------------------------------------------------
(***************************************************************************)
(* Proposals: submit at an active replica records the request once in each *)
(* ballot, if it commutes with everything else recorded there, and tells   *)
(* the client; the leader also queues it.                                  *)
(***************************************************************************)
Desk(i) == [witness |-> witness[i], recorded |-> recorded[i], queue |-> queue[i], sent |-> {}]

\* Mutant of Positive: whatever is recorded, the answer is yes.
PositiveAlways(W, r) == TRUE
Positive(W, r) == \A w \in W \ {r} : ~Conflict(w, r)

\* A are those of the requests o that get recorded when they are submitted one
\* after the other: each once in a ballot, if it commutes with what is recorded.
Records(i, o, A) ==
    \A k \in DOMAIN o :
        o[k] \in A <=> /\ recorded[i][o[k]] # ballot[i]
                      /\ Positive(witness[i] \cup (A \cap {o[l] : l \in 1..(k - 1)}), o[k])
Enqueueable(i, r) == r \notin DoneAt(i) \cup assigned[i] \cup Range(queue[i])

Submitted(i, o, A) ==
    LET first == {r \in Range(o) : recorded[i][r] # ballot[i]}
    IN  [witness  |-> witness[i] \cup A,
         recorded |-> [r \in Request |-> IF r \in Range(o) THEN ballot[i] ELSE recorded[i][r]],
         queue    |-> IF leader[i] = i
                      THEN queue[i] \o Picked(o, {k \in DOMAIN o : Enqueueable(i, o[k])})
                      ELSE queue[i],
         sent     |-> IF leader[i] = i THEN {}
                      ELSE {RecordAck(i, ballot[i], r, r \in A) : r \in first}]

\* A proposal arrives from the client; a retry is another arrival of it.
Propose(i, r) ==
    \E A \in SUBSET {r} :
    LET on == active[i] /\ r \notin DoneAt(i)
        d  == IF on THEN Submitted(i, <<r>>, A) ELSE Desk(i)
    IN  /\ r \in issued
        /\ IF on THEN Records(i, <<r>>, A) ELSE A = {}
        /\ pending' = IF r \in DoneAt(i) THEN pending ELSE [pending EXCEPT ![i] = @ \cup {r}]
        /\ witness' = [witness EXCEPT ![i] = d.witness]
        /\ recorded' = [recorded EXCEPT ![i] = d.recorded]
        /\ queue' = [queue EXCEPT ![i] = d.queue]
        /\ Tell(d.sent \cup
             (IF r \in DoneAt(i) THEN {Sync(i, ballot[i], r, ResultOf(values[i], r))} ELSE {}))
        /\ UNCHANGED <<roleVars, logVars, resume, quorumVars, alive, net, clientVars>>

-----------------------------------------------------------------------------
(***************************************************************************)
(* Acceptors.  Acknowledgements go to everyone, and everyone counts them.  *)
(***************************************************************************)
FromLeader(i, j, m) == m.ballot = ballot[i] /\ j = leader[i]

FetchFrom(i) == <<Fetch({leader[i]}, ballot[i], executed[i] + 1)>>

\* A record whose predecessor is missing.
Gap(L, R) ==
    \E r \in R : r.slot > 0 /\ \A q \in L \cup R : q.slot # r.slot - 1

ReceiveAccept(i, j, m, fetch) ==
    LET R == Stamp(m.recs, m.ballot)
    IN  /\ m.kind = "Accept" /\ FromLeader(i, j, m)
        /\ fetch => Expires(i, "fetch") /\ Gap(log[i], R)
        /\ assigned' = [assigned EXCEPT ![i] = @ \cup Reqs(Stored(log[i], R))]
        /\ \E h \in Slot : /\ IsTop(h, {high[i]} \cup Slots(R))
                           /\ high' = [high EXCEPT ![i] = h]
        /\ CountAck(i, i, Install(log[i], R), Slots(R), Desk(i))
        /\ Exchange(i, j, If(fetch, FetchFrom(i)) \o <<Ack(Peers(i), ballot[i], Slots(R))>>)
        /\ UNCHANGED <<roleVars, queue, resume, pages, promises, alive, clientVars>>

ReceiveAck(i, j, m) ==
    LET C == Wins(i, j, log[i], m.slots)
    IN  /\ m.kind = "Ack" /\ m.ballot = ballot[i] /\ ~preparing[i]
        /\ CountAck(i, j, log[i], m.slots, Desk(i))
        /\ Exchange(i, j, If(leader[i] = i /\ C # {},
                             <<Commit(Peers(i), ballot[i], Decide(C, C))>>))
        /\ UNCHANGED <<roleVars, high, assigned, queue, resume, pages, promises, alive,
                       clientVars>>

ReceiveCommit(i, j, m) ==
    LET L == Install(log[i], m.recs)
    IN  /\ m.kind = "Commit" /\ FromLeader(i, j, m)
        /\ assigned' = [assigned EXCEPT ![i] = @ \cup Reqs(Stored(log[i], m.recs))]
        /\ \E h \in Slot : /\ IsTop(h, {high[i]} \cup Slots(m.recs))
                           /\ high' = [high EXCEPT ![i] = h]
        /\ Apply(i, Decide(L, {r \in L : r.slot \in Slots(m.recs)}), Desk(i))
        /\ votes' = [votes EXCEPT ![i] = [s \in Slot |-> IF s <= executed'[i] THEN {} ELSE @[s]]]
        /\ Exchange(i, j, <<>>)
        /\ UNCHANGED <<roleVars, queue, resume, pages, promises, alive, clientVars>>

\* Ready may raise the ballot; it reactivates a follower and reports what the
\* leader has executed.
ReceiveReady(i, j, m, fetch) ==
    LET newer == m.ballot > ballot[i]
        on    == active[i] /\ ~newer
    IN  /\ m.kind = "Ready" /\ (newer \/ FromLeader(i, j, m))
        /\ fetch => Expires(i, "fetch") /\ m.high > executed[i]
        /\ ballot' = [ballot EXCEPT ![i] = m.ballot]
        /\ leader' = [leader EXCEPT ![i] = j]
        /\ preparing' = [preparing EXCEPT ![i] = @ /\ ~newer]
        /\ votes' = IF newer THEN [votes EXCEPT ![i] = NoVotes] ELSE votes
        /\ active' = [active EXCEPT ![i] = on \/ m.on]
        /\ resume' = IF m.on /\ ~on THEN [resume EXCEPT ![i] = pending[i]] ELSE resume
        /\ Exchange(i, j, If(fetch, <<Fetch({j}, m.ballot, executed[i] + 1)>>))
        /\ UNCHANGED <<recoveryEnd, logVars, pending, queue, recordVars, pages, promises,
                       alive, sent, clientVars>>

\* sendSuffix: the records from start on, PageSize slots to a packet.
SuffixEnd(start, h) == Least(h, start + SuffixLimit - 1)
Chunks(L, start, h) ==
    LET end == SuffixEnd(start, h)
        n == IF end < start THEN 0 ELSE (end - start) \div PageSize + 1
    IN  [k \in 1..n |-> {r \in L : /\ r.slot \in start..end
                                   /\ (r.slot - start) \div PageSize = k - 1}]
InChunks(C) == UNION {C[k] : k \in DOMAIN C}

\* The answer to a fetch: each chunk is followed by what is decided of it.
Answer(j, b, C) ==
    [n \in 1..(2 * Len(C)) |->
        LET R == C[(n + 1) \div 2]
            D == {r \in R : r.committed}
        IN  IF n % 2 = 1 THEN Accept(Unless(R, {j}), b, Stamp(R, b))
            ELSE Commit(Unless(D, {j}), b, Stamp(D, b))]

ReceiveFetch(i, j, m) ==
    /\ m.kind = "Fetch" /\ m.ballot = ballot[i] /\ leader[i] = i
    /\ Exchange(i, j, Answer(j, ballot[i], Chunks(log[i], m.floor, high[i])))
    /\ UNCHANGED <<roleVars, logVars, reqVars, recordVars, quorumVars, alive, sent, clientVars>>

\* A broadcast suffix: each chunk is followed by the leader's own vote for it and
\* by the Commit of the records in won, which that vote decides.
Proposed(i, C, won) ==
    [n \in 1..(3 * Len(C)) |->
        LET R == C[(n + 2) \div 3]
            K == {r \in won : r.slot \in Slots(R)}
            J == Peers(i)
        IN  CASE n % 3 = 1 -> Accept(Unless(R, J), ballot[i], Stamp(Undecided(R), ballot[i]))
              [] n % 3 = 2 -> Ack(Unless(R, J), ballot[i], Slots(R))
              [] n % 3 = 0 -> Commit(Unless(K, J), ballot[i], Decide(K, K))]

-----------------------------------------------------------------------------
(***************************************************************************)
(* Leader change.                                                          *)
(***************************************************************************)
\* promise: the records from floor on in slot order and the witness records in
\* the order of their identifiers, PageSize of each to a page.
RankOf(x, X) == Cardinality({y \in X : y < x})
Max3(a, b, c) == CHOOSE m \in {a, b, c} : m >= a /\ m >= b /\ m >= c
Snapshot(i, j, b, floor) ==
    LET R == {r \in log[i] : floor <= r.slot /\ r.slot <= high[i]}
        n == Max3(1, (Cardinality(R) + PageSize - 1) \div PageSize,
                  (Cardinality(witness[i]) + PageSize - 1) \div PageSize)
    IN  [k \in 1..n |->
           [kind |-> "Promise", to |-> {j}, ballot |-> b, floor |-> floor, high |-> high[i],
            page |-> k, pages |-> n,
            recs |-> {r \in R : RankOf(r.slot, Slots(R)) \div PageSize = k - 1},
            reqs |-> {r \in witness[i] : RankOf(r, witness[i]) \div PageSize = k - 1}]]

ReceivePrepare(i, j, m) ==
    LET newer == m.ballot > ballot[i]
    IN  /\ m.kind = "Prepare" /\ m.ballot >= ballot[i]
        /\ ballot' = [ballot EXCEPT ![i] = m.ballot]
        /\ leader' = IF newer THEN [leader EXCEPT ![i] = j] ELSE leader
        /\ preparing' = [preparing EXCEPT ![i] = @ /\ ~newer]
        /\ votes' = IF newer THEN [votes EXCEPT ![i] = NoVotes] ELSE votes
        /\ active' = [active EXCEPT ![i] = FALSE]
        /\ Exchange(i, j, Snapshot(i, j, m.ballot, m.floor))
        /\ UNCHANGED <<recoveryEnd, logVars, reqVars, recordVars, pages, promises, alive, sent,
                       clientVars>>

\* tick: the leader's connection is down and i is the first replica i sees.
LeaderLost(i) == leader[i] \notin alive[i] /\ (\A j \in alive[i] : i <= j) /\ ~preparing[i]
NextBallot(i) == (ballot[i] \div N + 1) * N + i
From(j, P) == {[from |-> j, pkt |-> P[k]] : k \in DOMAIN P}

\* Begin; its own promise is complete at once.
TickBegin(i) ==
    /\ LeaderLost(i) /\ NextBallot(i) <= MaxBallot
    /\ ballot' = [ballot EXCEPT ![i] = NextBallot(i)]
    /\ leader' = [leader EXCEPT ![i] = i]
    /\ active' = [active EXCEPT ![i] = FALSE]
    /\ preparing' = [preparing EXCEPT ![i] = TRUE]
    /\ votes' = [votes EXCEPT ![i] = NoVotes]
    /\ pages' = [pages EXCEPT ![i] = From(i, Snapshot(i, i, NextBallot(i), executed[i] + 1))]
    /\ promises' = [promises EXCEPT ![i] = {i}]
    /\ Send(i, <<Prepare(Peers(i), NextBallot(i), executed[i] + 1)>>)
    /\ UNCHANGED <<recoveryEnd, logVars, reqVars, recordVars, alive, sent, clientVars>>

TickPrepare(i) ==
    /\ preparing[i] /\ Expires(i, "prepare")
    /\ Send(i, <<Prepare(Peers(i), ballot[i], executed[i] + 1)>>)
    /\ UNCHANGED <<roleVars, logVars, reqVars, recordVars, quorumVars, alive, sent, clientVars>>

\* A page arrives and replaces the one with its number.
PromiseExpected(i, m) ==
    m.kind = "Promise" /\ m.ballot = ballot[i] /\ preparing[i] /\ leader[i] = i
PagesWith(i, j, m) ==
    {p \in pages[i] : p.from # j \/ p.pkt.page # m.page} \cup {[from |-> j, pkt |-> m]}
Completes(i, j, m) ==
    LET P == {p.pkt : p \in {q \in PagesWith(i, j, m) : q.from = j}}
    IN  /\ Cardinality(P) = m.pages
        /\ \A p \in P : p.pages = m.pages /\ p.floor = executed[i] + 1 /\ p.high = m.high
Elects(i, j, m) == Completes(i, j, m) /\ Cardinality(promises[i] \cup {j}) >= Majority

CollectPromise(i, j, m) ==
    /\ PromiseExpected(i, m) /\ ~Elects(i, j, m)
    /\ pages' = [pages EXCEPT ![i] = PagesWith(i, j, m)]
    /\ promises' = IF Completes(i, j, m)
                   THEN [promises EXCEPT ![i] = @ \cup {j}] ELSE promises
    /\ Exchange(i, j, <<>>)
    /\ UNCHANGED <<roleVars, logVars, reqVars, recordVars, votes, alive, sent, clientVars>>

\* The value taken over for slot s: that of a reported record with the highest
\* ballot, a filler if none is reported.
Selects(R, s, c) ==
    \/ (\A r \in R : r.slot # s) /\ c = None
    \/ \E r \in R : r.slot = s /\ r.req = c /\ \A q \in R : q.slot = s => q.ballot <= r.ballot

\* The requests that enough of the promises P have recorded.
Witnessed(P) ==
    {r \in Request : Cardinality({p.from : p \in {q \in P : r \in q.pkt.reqs}}) >= Threshold}

\* Fillers of different slots have different identifiers; none is a request.
Named(b, s, c) == [slot |-> s, ballot |-> b, req |-> c, committed |-> FALSE]
ReadyAll(i, on) == <<Ready(Peers(i), ballot[i], executed[i], on)>>

\* promiseReply with a majority: adopt the reported records, add the witnessed
\* requests behind them, and propose all of it again.
TakeOver(i, j, m) ==
    LET P == {p \in PagesWith(i, j, m) : p.from \in promises[i] \cup {j}}
        R == UNION {p.pkt.recs : p \in P}
        e == executed[i]
        b == ballot[i]
    IN /\ PromiseExpected(i, m) /\ Elects(i, j, m)
       /\ \E h \in {e} \cup {p.pkt.high : p \in P} :
          /\ IsTop(h, {e} \cup {p.pkt.high : p \in P})
          /\ \E sel \in [(e + 1)..h -> Command] :
             LET Z == {Named(b, s, sel[s]) : s \in (e + 1)..h}
                 old == {r \in log[i] : r.slot <= e}
                 E == Witnessed(P) \ (Reqs(old) \cup Reqs(Z) \cup DoneAt(i))
                 L == old \cup Z \cup {Named(b, h + 1 + RankOf(r, E), r) : r \in E}
                 top == h + Cardinality(E)
                 C == Chunks(L, e + 1, top)
             IN /\ \A s \in (e + 1)..h : Selects(R, s, sel[s])
                /\ top \in -1..MaxSlot
                /\ log' = [log EXCEPT ![i] = L]
                /\ high' = [high EXCEPT ![i] = top]
                /\ assigned' = [assigned EXCEPT ![i] = Reqs(L)]
                /\ recoveryEnd' = [recoveryEnd EXCEPT ![i] = top]
                /\ votes' = [votes EXCEPT ![i] = Vote(NoVotes, Slots(InChunks(C)), i, e)]
                /\ active' = [active EXCEPT ![i] = e >= top]
                /\ resume' = IF e >= top THEN [resume EXCEPT ![i] = pending[i]] ELSE resume
                /\ Exchange(i, j, Proposed(i, C, {}) \o If(e >= top, ReadyAll(i, TRUE)))
       /\ pages' = [pages EXCEPT ![i] = PagesWith(i, j, m)]
       /\ promises' = [promises EXCEPT ![i] = @ \cup {j}]
       /\ preparing' = [preparing EXCEPT ![i] = FALSE]
       /\ UNCHANGED <<ballot, leader, executed, values, pending, queue, recordVars, alive, sent,
                      clientVars>>

-----------------------------------------------------------------------------
(***************************************************************************)
(* The tick in normal operation.                                           *)
(***************************************************************************)
\* While active, up to PageSize of the requests kept over a leader change are
\* submitted again, in any order.
Drains(i, D) ==
    IF active[i]
    THEN Cardinality(D) = PageSize \/ (D = resume[i] /\ Cardinality(D) <= PageSize)
    ELSE D = {}
Orders(S) == {f \in [1..Cardinality(S) -> S] : \A x \in S : \E k \in DOMAIN f : f[k] = x}

TickFollower(i) ==
    /\ leader[i] # i /\ ~LeaderLost(i)
    /\ \E D \in SUBSET resume[i] :
          /\ Drains(i, D) /\ D # {}
          /\ resume' = [resume EXCEPT ![i] = @ \ D]
          /\ \E o \in Orders(D \cap pending[i]) : \E A \in SUBSET D :
                LET d == Submitted(i, o, A)
                IN  /\ A \subseteq Range(o) /\ Records(i, o, A)
                    /\ witness' = [witness EXCEPT ![i] = d.witness]
                    /\ recorded' = [recorded EXCEPT ![i] = d.recorded]
                    /\ Tell(d.sent)
    /\ UNCHANGED <<roleVars, logVars, pending, queue, quorumVars, alive, net, clientVars>>

\* flush: the positions of the queue that get a slot, and the new records.
Eligible(i, q) ==
    {k \in DOMAIN q : q[k] \in pending[i] /\ q[k] \notin assigned[i] /\ q[k] \notin DoneAt(i)}
Ordinal(k, K) == Cardinality({j \in K : j <= k})
Open(i) == AdmissionWindow - (high[i] - executed[i])
Admitted(i, q) ==
    {k \in Eligible(i, q) : LET n == Ordinal(k, Eligible(i, q))
                            IN  n <= PageSize /\ n <= Open(i) /\ high[i] + n <= MaxSlot}
Admit(i, q) == {Named(ballot[i], high[i] + Ordinal(k, Eligible(i, q)), q[k]) : k \in Admitted(i, q)}
\* The queue is read to its end, unless the batch or the window fills up first.
ReadTo(i, q, n) ==
    LET A == Admitted(i, q)
    IN  IF Open(i) <= 0 THEN n = 0
        ELSE IF Cardinality(A) \in {PageSize, Open(i)} \/ A # Eligible(i, q)
        THEN IsTop(n, {0} \cup A) ELSE n = Len(q)

\* The new record x is answered at once: it is recorded here and commutes with
\* every record before it that has not been executed.
AnsweredFast(i, L, W, x) ==
    /\ x.req \in W /\ Op[x.req] # "SCAN"
    /\ \A r \in L : /\ r.slot > executed[i] /\ r.slot < x.slot /\ r.req # None
                    => ~Conflict(r.req, x.req)

\* A new leader activates once everything it took over has run.
Wakes(i) == ~active[i] /\ executed[i] >= recoveryEnd[i]
Serves(i) == active[i] \/ Wakes(i)

\* flush and the heartbeat: Ready and the suffix that is not executed.
TickLeader(i, due) ==
    /\ leader[i] = i /\ ~preparing[i] /\ (due => Expires(i, "heartbeat"))
    /\ \E D \in SUBSET resume[i] : \E o \in Orders(D \cap pending[i]) : \E A \in SUBSET D :
       LET d == Submitted(i, o, A)
           F == IF Serves(i) THEN Admit(i, d.queue) ELSE {}
           L == log[i] \cup F
           h == high[i] + Cardinality(F)
           C == IF due THEN Chunks(L, executed[i] + 1, h) ELSE <<>>
           S == Slots(F) \cup Slots(InChunks(C))
       IN /\ Drains(i, D) /\ A \subseteq Range(o) /\ Records(i, o, A)
          /\ resume' = [resume EXCEPT ![i] = IF Wakes(i) THEN pending[i] ELSE @ \ D]
          /\ \E n \in 0..Len(d.queue) :
                /\ IF Serves(i) THEN ReadTo(i, d.queue, n) ELSE n = 0
                /\ queue' = [queue EXCEPT ![i] = SubSeq(d.queue, n + 1, Len(d.queue))]
          /\ high' = [high EXCEPT ![i] = h]
          /\ assigned' = [assigned EXCEPT ![i] = @ \cup Reqs(F)]
          /\ CountAck(i, i, L, S, [d EXCEPT !.sent = @ \cup
                {Fast(i, ballot[i], x.req, Observed(values[i], x.req)) :
                   x \in {y \in F : AnsweredFast(i, L, d.witness, y)}}])
          /\ Send(i, If(Wakes(i), ReadyAll(i, TRUE))
                       \o If(F # {}, Proposed(i, <<F>>, {}))
                       \o If(due, ReadyAll(i, Serves(i)) \o Proposed(i, C, Wins(i, i, L, S))))
    /\ active' = [active EXCEPT ![i] = Serves(i)]
    /\ UNCHANGED <<ballot, leader, preparing, recoveryEnd, pages, promises, alive, clientVars>>

-----------------------------------------------------------------------------
(***************************************************************************)
(* Receiving; the early returns of receive.                                *)
(***************************************************************************)
Handled(i, j, m) ==
    CASE m.kind = "Prepare" -> m.ballot >= ballot[i]
      [] m.kind = "Promise" -> PromiseExpected(i, m)
      [] m.kind \in {"Accept", "Commit"} -> FromLeader(i, j, m)
      [] m.kind = "Ack" -> m.ballot = ballot[i] /\ ~preparing[i]
      [] m.kind = "Ready" -> m.ballot > ballot[i] \/ FromLeader(i, j, m)
      [] m.kind = "Fetch" -> m.ballot = ballot[i] /\ leader[i] = i

Ignore(i, j, m) ==
    /\ ~Handled(i, j, m)
    /\ Exchange(i, j, <<>>)
    /\ UNCHANGED <<roleVars, logVars, reqVars, recordVars, quorumVars, alive, sent, clientVars>>

Receive(i, j) ==
    /\ net[j][i] # <<>>
    /\ LET m == Head(net[j][i])
       IN  \/ ReceivePrepare(i, j, m)
           \/ CollectPromise(i, j, m)
           \/ TakeOver(i, j, m)
           \/ \E fetch \in BOOLEAN : ReceiveAccept(i, j, m, fetch)
           \/ ReceiveAck(i, j, m)
           \/ ReceiveCommit(i, j, m)
           \/ \E fetch \in BOOLEAN : ReceiveReady(i, j, m, fetch)
           \/ ReceiveFetch(i, j, m)
           \/ Ignore(i, j, m)

\* The reader of the connection to j ends: nothing more arrives from j.
LinkDown(i, j) ==
    /\ <<i, j>> \in Link /\ j \in alive[i]
    /\ alive' = [alive EXCEPT ![i] = @ \ {j}]
    /\ net' = [net EXCEPT ![j][i] = <<>>]
    /\ UNCHANGED <<roleVars, logVars, reqVars, recordVars, quorumVars, sent, clientVars>>

-----------------------------------------------------------------------------
(***************************************************************************)
(* Clients.                                                                *)
(***************************************************************************)
Issue(r) ==
    /\ r \notin issued /\ After[r] \subseteq Completed
    /\ issued' = issued \cup {r}
    /\ before' = [before EXCEPT ![r] = Completed]
    /\ UNCHANGED <<roleVars, logVars, reqVars, recordVars, quorumVars, alive, net, sent,
                   known, evidence, done>>

\* evidence: a message of a newer ballot discards what was collected before.
Current(m) ==
    LET c == ClientOf[m.req]
    IN  IF m.ballot > known[c]
        THEN [r \in Request |-> IF ClientOf[r] = c THEN NoEvidence ELSE evidence[r]]
        ELSE evidence

Complete(r, v, b, ev) ==
    /\ done' = [done EXCEPT ![r] = [value |-> v, ballot |-> b]]
    /\ evidence' = [ev EXCEPT ![r] = NoEvidence]

\* handleReply, handleRecordAck and tryFast.
Count(m, ev) ==
    LET e == ev[m.req]
        x == IF m.kind = "Fast"
             THEN IF m.from = m.ballot % N
                  THEN [votes |-> e.votes \cup {m.from}, reply |-> TRUE, value |-> m.value]
                  ELSE e
             ELSE IF m.ok THEN [e EXCEPT !.votes = @ \cup {m.from}] ELSE e
    IN  IF x.reply /\ Cardinality(x.votes) >= FastQuorum
        THEN Complete(m.req, x.value, m.ballot, ev)
        ELSE evidence' = [ev EXCEPT ![m.req] = x] /\ UNCHANGED done

\* Bound: a client reads its mail once there is enough of it to complete the
\* request.  Reading changes nothing a replica looks at, so it can wait until then.
Supports(m) == m.kind = "Fast" \/ (m.kind = "Record" /\ m.ok)
Enough(r) ==
    LET M == {m \in sent : m.req = r}
    IN  \/ \E m \in M : m.kind = "Sync"
        \/ /\ evidence[r].reply \/ \E m \in M : m.kind = "Fast"
           /\ Cardinality(evidence[r].votes \cup {m.from : m \in {x \in M : Supports(x)}})
                >= FastQuorum
Hear(m) ==
    LET c == ClientOf[m.req]
    IN  /\ Enough(m.req)
        /\ known' = [known EXCEPT ![c] = m.ballot]
        /\ IF m.kind = "Sync"
           THEN Complete(m.req, m.value, m.ballot, Current(m))
           ELSE Count(m, Current(m))
        /\ sent' = {x \in sent \ {m} : Heeded(x)'}
        /\ UNCHANGED <<roleVars, logVars, reqVars, recordVars, quorumVars, alive, net,
                       issued, before>>

Next ==
    \/ \E r \in Request : Issue(r)
    \/ \E i \in Replica, r \in Request : Propose(i, r)
    \/ \E i \in Replica : TickBegin(i) \/ TickPrepare(i) \/ TickFollower(i)
    \/ \E i \in Replica, due \in BOOLEAN : TickLeader(i, due)
    \/ \E i, j \in Replica : Receive(i, j)
    \/ \E i, j \in Replica : LinkDown(i, j)
    \/ \E m \in sent : Hear(m)

Spec == Init /\ [][Next]_vars

-----------------------------------------------------------------------------
(***************************************************************************)
(* Properties.                                                             *)
(***************************************************************************)
\* Logs, and the packets that carry parts of them, have one record per slot.
Batch == {R \in SUBSET Record : \A r, q \in R : r.slot = q.slot => r = q}
Message == [kind : {"Fast", "Sync"}, from : Replica, ballot : Ballot, req : Request,
            value : SUBSET Request]
        \cup [kind : {"Record"}, from : Replica, ballot : Ballot, req : Request, ok : BOOLEAN]
Promise == [kind : {"Promise"}, to : SUBSET Replica, ballot : Ballot, floor : 0..(MaxSlot + 1),
            high : -1..MaxSlot, page : Nat, pages : Nat,
            recs : SUBSET Record, reqs : SUBSET Request]
Packet ==
    Promise
    \cup [kind : {"Prepare", "Fetch"}, to : SUBSET Replica, ballot : Ballot,
          floor : 0..(MaxSlot + 1)]
    \cup [kind : {"Accept", "Commit"}, to : SUBSET Replica, ballot : Ballot, recs : Batch]
    \cup [kind : {"Ack"}, to : SUBSET Replica, ballot : Ballot, slots : SUBSET Slot]
    \cup [kind : {"Ready"}, to : SUBSET Replica, ballot : Ballot, high : -1..MaxSlot, on : BOOLEAN]

Consistent(i) ==
    /\ executed[i] <= high[i] /\ \A r \in log[i] : r.slot <= high[i]
    /\ \A r \in witness[i] : recorded[i][r] >= 0

TypeOK ==
    /\ ballot \in [Replica -> Ballot] /\ leader \in [Replica -> Replica]
    /\ active \in [Replica -> BOOLEAN] /\ preparing \in [Replica -> BOOLEAN]
    /\ recoveryEnd \in [Replica -> -1..MaxSlot]
    /\ log \in [Replica -> Batch]
    /\ high \in [Replica -> -1..MaxSlot] /\ executed \in [Replica -> -1..MaxSlot]
    /\ values \in [Replica -> SUBSET [req : Request, slot : Slot]]
    /\ witness \in [Replica -> SUBSET Request] /\ queue \in [Replica -> Seq(Request)]
    /\ \A i \in Replica : Consistent(i)
    /\ assigned \in [Replica -> SUBSET Command]
    /\ pending \in [Replica -> SUBSET Request] /\ resume \in [Replica -> SUBSET Request]
    /\ recorded \in [Replica -> [Request -> Ballot \cup {-1}]]
    /\ votes \in [Replica -> [Slot -> SUBSET Replica]]
    /\ pages \in [Replica -> SUBSET [from : Replica, pkt : Promise]]
    /\ promises \in [Replica -> SUBSET Replica] /\ alive \in [Replica -> SUBSET Replica]
    /\ net \in [Replica -> [Replica -> Seq(Packet)]]
    /\ sent \subseteq Message
    /\ known \in [Client -> Ballot \cup {-1}]
    /\ evidence \in [Request -> [votes : SUBSET Replica, reply : BOOLEAN, value : SUBSET Request]]
    /\ done \in [Request -> {None} \cup [value : SUBSET Request, ballot : Ballot]]
    /\ issued \subseteq Request /\ before \in [Request -> SUBSET Request]

\* Two replicas never commit different commands in the same slot, although
\* everyone counts the acknowledgements on its own.
Agreement ==
    \A i, j \in Replica : \A r \in log[i], q \in log[j] :
        r.slot = q.slot /\ r.committed /\ q.committed => r.req = q.req

\* A completed request is not lost with its leader: every later leader that has
\* finished recovery has it in its log, also when the client was answered
\* before anything was replicated.
CompletedSurvives ==
    \A r \in Completed, i \in Replica :
        /\ leader[i] = i /\ ~preparing[i] /\ ballot[i] >= done[r].ballot
        => r \in Reqs(log[i])

\* What the clients have seen is linearizable: the completed requests, and some
\* of the others, have an order that respects who finished before whom was
\* issued and explains every result, whether the leader answered early or a
\* replica after execution.
Linearizable ==
    \E S \in SUBSET issued :
        /\ Completed \subseteq S
        /\ \E o \in Orders(S) :
              /\ \A k, l \in DOMAIN o : o[k] \in before[o[l]] => k < l
              /\ \A k \in DOMAIN o : o[k] \in Completed =>
                    done[o[k]].value =
                        Observed({[req |-> o[l], slot |-> l] : l \in 1..(k - 1)}, o[k])
=============================================================================
