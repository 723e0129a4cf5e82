------------------------------- MODULE EPaxos -------------------------------
(***************************************************************************)
(* Package epaxos with three replicas: core.go (the normal case),          *)
(* recovery.go (taking an instance over, repairing gaps), execute.go (the  *)
(* dependency graph) and the event loop of replica.go.                     *)
(*                                                                         *)
(* One step is one turn of the event loop: a proposal, one message or one  *)
(* tick.  A handler is an operator that maps the state of a replica to its *)
(* new state and the messages it sends.  Every RPC has a channel of its    *)
(* own, so messages overtake each other; none is lost while its connection *)
(* is up.  An instance holds one command (batching is off).                *)
(*                                                                         *)
(* With three replicas every quorum is the replica and one answer: the     *)
(* first valid reply ends a phase, fast quorums need no equal answers, and *)
(* the branch that tries to pre-accept is out of reach.                    *)
(***************************************************************************)
EXTENDS Integers, Sequences, FiniteSets, SequencesExt

CONSTANTS
    N,          \* number of replicas
    Command,    \* client commands
    Write,      \* the commands that are not reads
    Key, KeyOf, \* KeyOf[c]: the key c is about
    Noop,       \* the command of an instance nobody reports a command for
    None,       \* no command
    Home,       \* Home[c]: the replica the client of c sends it to
    World,      \* bound: the environments, records of the commands that are proposed,
                \*   the peers of each replica in the order of their distance, the
                \*   replicas that may crash, the links <<i, j>> on which i may lose
                \*   its connection to j although j is up, and the pairs <<i, v>> such
                \*   that i's timers for instance v may run out
    MaxSlot,    \* bound: the last instance of each replica
    MaxBallot   \* bound: the highest ballot

ASSUME NAssumption == N = 3
ASSUME CommandAssumption ==
    /\ Noop \notin Command /\ None \notin Command \cup {Noop}
    /\ Write \subseteq Command
    /\ KeyOf \in [Command \cup {Noop} -> Key]
    /\ Home \in [Command -> 0..(N - 1)]

Replica  == 0..(N - 1)
Slot     == 0..MaxSlot
Instance == Replica \X Slot
ASSUME WorldAssumption ==
    \A w \in World : /\ w.proposed \subseteq Command /\ w.mortal \subseteq Replica
                      /\ \A i \in Replica : ToSet(w.order[i]) = Replica \ {i}
                      /\ w.link \subseteq Replica \X Replica
                      /\ w.timed \subseteq Replica \X Instance
Ballot   == -1..MaxBallot
Larger(a, b) == IF a < b THEN b ELSE a

\* The status of an instance; the order matters.
NONE == 0
PREACCEPTED == 1
PREACCEPTED_EQ == 2
ACCEPTED == 3
COMMITTED == 4
EXECUTED == 5

\* A no-op has an operation other than GET, so it counts as a write.
IsWrite(c) == c \in Write \cup {Noop}
Conflict(c, d) == KeyOf[c] = KeyOf[d] /\ (IsWrite(c) \/ IsWrite(d))

NilDeps == [q \in Replica |-> -1]
\* LeaderBookkeeping; last = -1 stands for a nil pointer.
NoLb == [last |-> -1, ballot |-> 0, preparing |-> FALSE, status |-> NONE, seq |-> -1,
         deps |-> NilDeps, cmd |-> None, props |-> None]
\* newInstanceDefault; a nil instance behaves like it everywhere.
NewInstance == [cmd |-> None, bal |-> -1, vbal |-> -1, status |-> NONE, seq |-> -1,
                deps |-> NilDeps, lb |-> NoLb]

VARIABLES
    world,    \* the environment
    rep,      \* rep[i]: the core of replica i
    alive,    \* alive[i]: the peers i is connected to
    crashed,  \* replicas that are gone
    msgs,     \* messages on their way
    before    \* <<c, d>>: the reply to c came before d was proposed

vars == <<world, rep, alive, crashed, msgs, before>>

\* The core: instances, crtInstance, executedUpTo, maxRecvBallot, conflicts
\* (per row and key), maxSeqPerKey and the channel of proposals; log is what it
\* has executed and done what it has answered.
NewCore(proposals) ==
    [inst |-> [v \in Instance |-> NewInstance], crt |-> NilDeps, upTo |-> NilDeps,
     maxRecv |-> -1,
     last |-> [q \in Replica |-> [k \in Key |-> -1]],
     lastWrite |-> [q \in Replica |-> [k \in Key |-> -1]],
     maxSeq |-> [k \in Key |-> -1], queue |-> proposals, log |-> <<>>, done |-> {}]

Init ==
    /\ world \in World
    /\ rep = [i \in Replica |-> NewCore({c \in world.proposed : Home[c] = i})]
    /\ alive = [i \in Replica |-> Replica \ {i}]
    /\ crashed = {} /\ msgs = {} /\ before = {}

-----------------------------------------------------------------------------
(***************************************************************************)
(* Sending.  SendToAll skips the peers whose connection is down.           *)
(***************************************************************************)
NearestAlive(i) ==
    LET up == SelectSeq(world.order[i], LAMBDA j : j \in alive[i])
    IN  IF up = <<>> THEN {} ELSE {up[1]}
PreAcceptTo(i, v, lb) ==
    {[kind |-> "PreAccept", from |-> i, to |-> j, v |-> v, bal |-> lb.last, cmd |-> lb.cmd,
      seq |-> lb.seq, deps |-> lb.deps] : j \in NearestAlive(i)}
AcceptTo(i, v, lb) ==
    {[kind |-> "Accept", from |-> i, to |-> j, v |-> v, bal |-> lb.last, cmd |-> lb.cmd,
      seq |-> lb.seq, deps |-> lb.deps] : j \in NearestAlive(i)}
CommitTo(i, v, bal, x) ==
    {[kind |-> "Commit", from |-> i, to |-> j, v |-> v, bal |-> bal, cmd |-> x.cmd,
      seq |-> x.seq, deps |-> x.deps] : j \in alive[i]}
PrepareTo(i, v, bal) ==
    {[kind |-> "Prepare", from |-> i, to |-> j, v |-> v, bal |-> bal] : j \in alive[i]}
To(i, j, m) == IF j \in alive[i] THEN {m} ELSE {}

-----------------------------------------------------------------------------
(***************************************************************************)
(* Attributes.                                                             *)
(***************************************************************************)
Seen(st, v) == [st EXCEPT !.crt[v[1]] = Larger(@, v[2])]
Received(st, b) == [st EXCEPT !.maxRecv = Larger(@, b)]

\* (mutant) Only the sequence number of the key is kept.
ConflictsForgotten(st, c, v, seq) == [st EXCEPT !.maxSeq[KeyOf[c]] = Larger(@, seq)]
UpdateConflicts(st, c, v, seq) ==
    [st EXCEPT !.last[v[1]][KeyOf[c]] = Larger(@, v[2]),
               !.lastWrite[v[1]][KeyOf[c]] = IF IsWrite(c) THEN Larger(@, v[2]) ELSE @,
               !.maxSeq[KeyOf[c]] = Larger(@, seq)]

\* The last instance of row q that c conflicts with.
LastConflict(st, c, q) == IF IsWrite(c) THEN st.last[q][KeyOf[c]] ELSE st.lastWrite[q][KeyOf[c]]

\* updateAttributes at replica i: the rows that add a dependency, the
\* dependencies and the sequence number.
Adds(st, i, c, deps, v) ==
    {q \in Replica : /\ q = v[1] => i = v[1] /\ LastConflict(st, c, q) < v[2]
                     /\ LastConflict(st, c, q) > deps[q]}
NewDeps(st, i, c, deps, v) ==
    [q \in Replica |-> IF q \in Adds(st, i, c, deps, v) THEN LastConflict(st, c, q) ELSE deps[q]]
NewSeq(st, i, c, seq, deps, v) ==
    LET over == {st.inst[<<q, LastConflict(st, c, q)>>].seq + 1 : q \in Adds(st, i, c, deps, v)}
    IN  Max({seq, st.maxSeq[KeyOf[c]] + 1} \cup over)

\* (mutant) The answers' dependencies are not merged.
MergeIgnored(d, e) == d
MergedDeps(d, e) == [q \in Replica |-> Larger(d[q], e[q])]
IsInitialBallot(b, v) == b = v[1]

-----------------------------------------------------------------------------
(***************************************************************************)
(* The normal case.  Each handler returns [st |-> state, out |-> messages].*)
(***************************************************************************)
Result(st, out) == [st |-> st, out |-> out]

StartPhase1(st, i, c, v, b, props) ==
    LET own == [NilDeps EXCEPT ![v[1]] = v[2] - 1]
        deps == NewDeps(st, i, c, own, v)
        seq == NewSeq(st, i, c, 0, own, v)
        lb == [last |-> b, ballot |-> b, preparing |-> FALSE, status |-> PREACCEPTED,
               seq |-> seq, deps |-> deps, cmd |-> c, props |-> props]
        x == [cmd |-> c, bal |-> b, vbal |-> b, status |-> PREACCEPTED, seq |-> seq,
              deps |-> deps, lb |-> lb]
    IN  Result(UpdateConflicts([Seen(st, v) EXCEPT !.inst[v] = x], c, v, seq),
               PreAcceptTo(i, v, lb))

HandlePreAccept(s, i, m) ==
    LET st == Seen(Received(s, m.bal), m.v)
        x == st.inst[m.v]
        fresh == x.status < ACCEPTED /\ (x.vbal # m.bal \/ x.status = NONE)
        deps == NewDeps(st, i, m.cmd, m.deps, m.v)
        seq == NewSeq(st, i, m.cmd, m.seq, m.deps, m.v)
        y == IF ~fresh THEN [x EXCEPT !.bal = m.bal]
             ELSE [x EXCEPT !.cmd = m.cmd, !.seq = seq, !.deps = deps, !.bal = m.bal,
                            !.vbal = m.bal,
                            !.status = IF seq = m.seq /\ deps = m.deps
                                       THEN PREACCEPTED_EQ ELSE PREACCEPTED]
        new == [st EXCEPT !.inst[m.v] = y]
    IN  IF m.bal < x.bal THEN Result(st, {})
        ELSE Result(IF fresh THEN UpdateConflicts(new, m.cmd, m.v, m.seq) ELSE new,
                    To(i, m.from, [kind |-> "PreAcceptReply", from |-> i, to |-> m.from,
                                   v |-> m.v, bal |-> m.bal, seq |-> y.seq, deps |-> y.deps]))

\* The replica commits what its bookkeeping holds and tells everybody.
Commits(st, i, v, lb) ==
    Result([st EXCEPT !.inst[v].lb = [lb EXCEPT !.status = COMMITTED],
                      !.inst[v].status = COMMITTED, !.inst[v].bal = lb.ballot,
                      !.inst[v].cmd = lb.cmd, !.inst[v].seq = lb.seq, !.inst[v].deps = lb.deps],
           CommitTo(i, v, lb.ballot, lb))

HandlePreAcceptReply(s, i, m) ==
    LET x == s.inst[m.v]
        st == Received(s, m.bal)
        lb == [x.lb EXCEPT !.seq = Larger(@, m.seq), !.deps = MergedDeps(@, m.deps)]
        slow == [lb EXCEPT !.status = ACCEPTED]
    IN  IF x.lb.last = -1 \/ x.lb.preparing \/ x.bal # x.lb.last THEN Result(s, {})
        ELSE IF x.lb.last # m.bal \/ x.lb.status \notin {PREACCEPTED, PREACCEPTED_EQ}
        THEN Result(st, {})
        ELSE IF IsInitialBallot(lb.last, m.v) THEN Commits(st, i, m.v, lb)
        ELSE Result([st EXCEPT !.inst[m.v].lb = slow, !.inst[m.v].status = ACCEPTED,
                               !.inst[m.v].bal = lb.ballot, !.inst[m.v].cmd = lb.cmd,
                               !.inst[m.v].seq = lb.seq, !.inst[m.v].deps = lb.deps],
                    AcceptTo(i, m.v, slow))

TakesAccept(x, m) == m.bal >= x.bal /\ x.status < COMMITTED
HandleAccept(s, i, m) ==
    LET st == Seen(Received(s, m.bal), m.v)
        x == st.inst[m.v]
        takes == TakesAccept(x, m)
        y == IF takes THEN [x EXCEPT !.cmd = m.cmd, !.seq = m.seq, !.deps = m.deps,
                                     !.bal = m.bal, !.vbal = m.bal, !.status = ACCEPTED]
             ELSE x
        new == [st EXCEPT !.inst[m.v] = y]
    IN  Result(IF takes THEN UpdateConflicts(new, m.cmd, m.v, m.seq) ELSE new,
               To(i, m.from, [kind |-> "AcceptReply", from |-> i, to |-> m.from, v |-> m.v,
                              bal |-> y.bal]))

HandleAcceptReply(s, i, m) ==
    LET x == s.inst[m.v]
        st == Received(s, m.bal)
        lb == [x.lb EXCEPT !.status = COMMITTED]
    IN  IF x.lb.last = -1 \/ x.lb.preparing \/ x.bal # x.lb.last THEN Result(s, {})
        ELSE IF x.lb.status # ACCEPTED \/ x.lb.last # m.bal THEN Result(st, {})
        ELSE Result([st EXCEPT !.inst[m.v].lb = lb, !.inst[m.v].status = COMMITTED],
                    CommitTo(i, m.v, lb.ballot, lb))

\* The proposal that has lost its instance to a no-op goes back to the channel.
Requeued(st, i, m) ==
    LET x == st.inst[m.v]
    IN  IF x.status < COMMITTED /\ m.v[1] = i /\ m.cmd = Noop /\ x.lb.last # -1
        THEN {x.lb.props} \ {None} ELSE {}
HandleCommit(s, i, m) ==
    LET st == Seen(Received(s, m.bal), m.v)
        x == st.inst[m.v]
        y == [x EXCEPT !.bal = Larger(@, m.bal), !.vbal = m.bal, !.cmd = m.cmd, !.seq = m.seq,
                       !.deps = m.deps, !.status = COMMITTED,
                       !.lb.props = IF Requeued(st, i, m) = {} THEN @ ELSE None]
        new == [st EXCEPT !.inst[m.v] = y, !.queue = @ \cup Requeued(st, i, m)]
    IN  Result(IF x.status >= COMMITTED THEN st ELSE UpdateConflicts(new, m.cmd, m.v, m.seq), {})

-----------------------------------------------------------------------------
(***************************************************************************)
(* Recovery.                                                               *)
(***************************************************************************)
NextBallot(st, i, v) == (Larger(Larger(st.inst[v].bal, st.maxRecv), 0) \div N + 1) * N + i
IsCommitted(st, v) == st.inst[v].status >= COMMITTED /\ st.inst[v].cmd # None

\* startRecoveryForInstance: the bookkeeping starts with the replica's own
\* evidence, which counts as the first PrepareReply.
StartRecovery(st, i, v) ==
    LET x == st.inst[v]
        b == NextBallot(st, i, v)
        lb == [last |-> b, ballot |-> x.vbal, preparing |-> TRUE, status |-> x.status,
               seq |-> x.seq, deps |-> x.deps, cmd |-> x.cmd, props |-> x.lb.props]
    IN  IF IsCommitted(st, v) THEN Result(st, {})
        ELSE Result([st EXCEPT !.inst[v].bal = b, !.inst[v].lb = lb], PrepareTo(i, v, b))

\* PrepareReply.VBallot is a local field that is absent from the wire: the
\* receiver finds a zero in it.
OnWire(vbal) == 0
HandlePrepare(s, i, m) ==
    LET st == Received(s, m.bal)
        x == [st.inst[m.v] EXCEPT !.bal = Larger(@, m.bal)]
    IN  Result([st EXCEPT !.inst[m.v] = x],
               To(i, m.from, [kind |-> "PrepareReply", from |-> i, to |-> m.from, v |-> m.v,
                              bal |-> x.bal, vbal |-> OnWire(x.vbal), status |-> x.status,
                              cmd |-> x.cmd, seq |-> x.seq, deps |-> x.deps]))

\* (mutant) The replica's own evidence is left out.
AnswerOnly(own, other) == other
\* The evidence of two replies, the replica's own first.
Chosen(own, other) ==
    IF other.status >= COMMITTED THEN other
    ELSE IF other.status # NONE /\ (\/ own.status = NONE
                                    \/ other.vbal > own.vbal
                                    \/ other.vbal = own.vbal /\ other.status > own.status)
    THEN other ELSE own
SameEvidence(a, b) ==
    a.vbal = b.vbal /\ a.seq = b.seq /\ a.deps = b.deps /\ a.cmd = b.cmd
IsPreAccepted(a) == a.status \in {PREACCEPTED, PREACCEPTED_EQ}

HandlePrepareReply(s, i, m) ==
    LET st == Received(s, m.bal)
        x == st.inst[m.v]
        own == [from |-> i, vbal |-> x.lb.ballot, status |-> x.lb.status, cmd |-> x.lb.cmd,
                seq |-> x.lb.seq, deps |-> x.lb.deps]
        ch == Chosen(own, m)
        pre == {r \in {own, m} : IsPreAccepted(r)}
        \* the owner has not answered, and the others agree on its proposal
        agreed == /\ IsInitialBallot(ch.vbal, m.v)
                  /\ \A r \in pre : SameEvidence(r, ch)
                  /\ i # m.v[1] /\ m.from # m.v[1]
                  /\ pre # {}
        known == [x EXCEPT !.cmd = ch.cmd, !.seq = ch.seq, !.deps = ch.deps,
                           !.status = ch.status, !.vbal = ch.vbal]
        lb == [last |-> x.lb.last, ballot |-> x.lb.last, preparing |-> FALSE,
               status |-> ACCEPTED, seq |-> ch.seq, deps |-> ch.deps, cmd |-> ch.cmd,
               props |-> x.lb.props]
        commit == [v |-> m.v, bal |-> ch.vbal, cmd |-> ch.cmd, seq |-> ch.seq, deps |-> ch.deps]
    IN  IF x.lb.last = -1 \/ x.bal # x.lb.last THEN Result(s, {})
        ELSE IF ~x.lb.preparing \/ m.bal # x.lb.last THEN Result(st, {})
        ELSE IF ch.status = NONE
        THEN StartPhase1(st, i, Noop, m.v, x.lb.last, x.lb.props)
        ELSE IF ch.status >= COMMITTED
        THEN Result(HandleCommit([st EXCEPT !.inst[m.v].lb =
                                     [lb EXCEPT !.ballot = ch.vbal, !.status = ch.status]], i, commit).st,
                    CommitTo(i, m.v, ch.vbal, ch))
        ELSE IF ch.status = ACCEPTED \/ agreed
        THEN Result([st EXCEPT !.inst[m.v] = [known EXCEPT !.status = ACCEPTED,
                                                           !.vbal = x.lb.last, !.lb = lb]],
                    AcceptTo(i, m.v, lb))
        ELSE StartPhase1([st EXCEPT !.inst[m.v] = known], i, ch.cmd, m.v, x.lb.last, x.lb.props)

Coordinator(i, q) ==
    IF q = i \/ q \in alive[i] THEN q
    ELSE Min(alive[i] \cup {i})
HandleRepairRequest(st, i, m) ==
    IF IsCommitted(st, m.v) THEN Result(st, CommitTo(i, m.v, st.inst[m.v].vbal, st.inst[m.v]))
    ELSE IF Coordinator(i, m.v[1]) = i THEN StartRecovery(st, i, m.v)
    ELSE Result(st, {})

-----------------------------------------------------------------------------
(***************************************************************************)
(* Execution.                                                              *)
(***************************************************************************)
\* The committed instances that v waits for, and those it reaches along them.
Pending(st, w) == IsCommitted(st, w) /\ st.inst[w].status # EXECUTED
Edges(st, v) ==
    {w \in {<<q, st.inst[v].deps[q]>> : q \in {r \in Replica : st.inst[v].deps[r] > st.upTo[r]}} :
        Pending(st, w)}
RECURSIVE Closure(_, _)
Closure(st, found) ==
    LET more == found \cup UNION {Edges(st, w) : w \in found}
    IN  IF more = found THEN found ELSE Closure(st, more)
Reach(st, v) == Closure(st, Edges(st, v))
\* (mutant) Every instance is a component of its own.
Alone(st, v) == {v}
Component(st, v) == {v} \cup {w \in Reach(st, v) : v \in Reach(st, w)}

\* nodeArray.Less
Less(st, v, w) ==
    \/ st.inst[v].seq < st.inst[w].seq
    \/ st.inst[v].seq = st.inst[w].seq /\ v[1] < w[1]
    \/ st.inst[v].seq = st.inst[w].seq /\ v[1] = w[1] /\ v[2] < w[2]
\* A client that waits at this replica gets its reply; a read nobody waits for
\* is not executed.
Waits(x) == x.cmd # Noop /\ x.lb.last # -1 /\ x.lb.props # None
ExecuteOne(st, v) ==
    LET x == st.inst[v]
    IN  [st EXCEPT !.inst[v].status = EXECUTED,
                   !.log = IF Waits(x) \/ x.cmd \in Write THEN Append(@, x.cmd) ELSE @,
                   !.done = IF Waits(x) THEN @ \cup {x.cmd} ELSE @]
Execute(st, comp) ==
    FoldLeft(ExecuteOne, st, SetToSortSeq(comp, LAMBDA v, w : Less(st, v, w)))

\* strongconnect: a traversal carries the instances it has seen; it gives up at
\* the first dependency that is not committed, after the components it has
\* closed on its way have executed.
RECURSIVE Visit(_, _)
Visit(v, trip) ==
    LET deps == trip.st.inst[v].deps
        Follow(t, q) ==
            LET w == <<q, deps[q]>>
            IN  IF ~t.ok \/ deps[q] <= t.st.upTo[q] THEN t
                ELSE IF ~IsCommitted(t.st, w) THEN [t EXCEPT !.ok = FALSE, !.st = Seen(@, w)]
                ELSE IF t.st.inst[w].status = EXECUTED \/ w \in t.seen THEN t
                ELSE Visit(w, t)
        end == FoldLeft(Follow, [trip EXCEPT !.seen = @ \cup {v}], [q \in 1..N |-> q - 1])
        comp == Component(end.st, v)
    IN  IF end.ok /\ comp \cap trip.seen = {} THEN [end EXCEPT !.st = Execute(@, comp)] ELSE end

\* (mutant) A row moves on past an instance that has not executed.
RowSkips(st, q) == IF st.upTo[q] < st.crt[q] THEN [st EXCEPT !.upTo[q] = @ + 1] ELSE st
\* apply on row q
RECURSIVE ApplyRow(_, _)
ApplyRow(st, q) ==
    LET v == <<q, st.upTo[q] + 1>>
        trip == Visit(v, [ok |-> TRUE, seen |-> {}, st |-> st])
    IN  IF v[2] > st.crt[q] THEN st
        ELSE IF st.inst[v].status = EXECUTED THEN ApplyRow([st EXCEPT !.upTo[q] = @ + 1], q)
        ELSE IF ~IsCommitted(st, v) THEN st
        ELSE IF trip.ok THEN ApplyRow(trip.st, q) ELSE trip.st
Apply(st) == FoldLeft(ApplyRow, st, [q \in 1..N |-> q - 1])

-----------------------------------------------------------------------------
(***************************************************************************)
(* The event loop.                                                         *)
(***************************************************************************)
Up == Replica \ crashed
\* What is sent on a connection that the receiver has closed goes nowhere.
Settle(i, result, consumed) ==
    /\ rep' = [rep EXCEPT ![i] = result.st]
    /\ msgs' = (msgs \ consumed) \cup {m \in result.out : i \in alive[m.to] /\ m.to \in Up}

Answered == UNION {rep[i].done : i \in Replica}
Propose(i, c) ==
    LET v == <<i, rep[i].crt[i] + 1>>
        st == [rep[i] EXCEPT !.queue = @ \ {c}]
    IN  /\ i \in Up /\ c \in rep[i].queue
        /\ v[2] <= MaxSlot
        /\ Settle(i, StartPhase1(st, i, c, v, i, c), {})
        /\ before' = before \cup (Answered \X {c})
        /\ UNCHANGED <<world, alive, crashed>>

Handle(st, i, m) ==
    CASE m.kind = "PreAccept" -> HandlePreAccept(st, i, m)
      [] m.kind = "PreAcceptReply" -> HandlePreAcceptReply(st, i, m)
      [] m.kind = "Accept" -> HandleAccept(st, i, m)
      [] m.kind = "AcceptReply" -> HandleAcceptReply(st, i, m)
      [] m.kind = "Commit" -> HandleCommit(st, i, m)
      [] m.kind = "Prepare" -> HandlePrepare(st, i, m)
      [] m.kind = "PrepareReply" -> HandlePrepareReply(st, i, m)
      [] m.kind = "RepairRequest" -> HandleRepairRequest(st, i, m)
\* bound: a recovery starts while a ballot for it is left.
BallotLeft(i, v) == NextBallot(rep[i], i, v) <= MaxBallot
Receive(i, m) ==
    /\ i \in Up /\ m \in msgs /\ m.to = i
    /\ m.kind = "RepairRequest" => BallotLeft(i, m.v)
    /\ Settle(i, Handle(rep[i], i, m), {m})
    /\ UNCHANGED <<world, alive, crashed, before>>

\* repairTick for an instance whose timer has run out: one i executes behind, or
\* one i has itself begun to take through a phase.  It asks nothing else: what a
\* lost owner had sent, its Commit too, may still wait in a channel of i.
Gap(st, v) == ~IsCommitted(st, v) /\ st.upTo[v[1]] < v[2] /\ v[2] <= st.crt[v[1]]
Active(st, v) == st.inst[v].lb.last # -1 /\ st.inst[v].bal = st.inst[v].lb.last
                 /\ st.inst[v].status < COMMITTED
RepairTick(st, i, v) ==
    LET to == Coordinator(i, v[1])
    IN  IF to = i THEN StartRecovery(st, i, v)
        ELSE Result(st, {[kind |-> "RepairRequest", from |-> i, to |-> to, v |-> v] : x \in
                             IF Gap(st, v) THEN {v} ELSE {}})
TickRepair(i, v) ==
    LET repaired == RepairTick(rep[i], i, v)
    IN  /\ i \in Up /\ <<i, v>> \in world.timed
        /\ Gap(rep[i], v) \/ Active(rep[i], v)
        /\ BallotLeft(i, v)
        /\ Settle(i, Result(Apply(repaired.st), repaired.out), {})
        /\ UNCHANGED <<world, alive, crashed, before>>
TickExecute(i) ==
    LET st == Apply(rep[i])
    IN  /\ i \in Up /\ st # rep[i]
        /\ Settle(i, Result(st, {}), {})
        /\ UNCHANGED <<world, alive, crashed, before>>

\* A replica is gone, with any part of what it had not sent yet.
Crash(i) ==
    /\ i \in world.mortal \ crashed
    /\ crashed' = crashed \cup {i}
    /\ \E lost \in SUBSET {m \in msgs : m.from = i} :
          msgs' = {m \in msgs \ lost : m.to # i}
    /\ UNCHANGED <<world, rep, alive, before>>
\* i reads the end of its connection to j, behind what had arrived.
Disconnect(i, j) ==
    /\ i \in Up /\ j \in alive[i]
    /\ j \in crashed \/ <<i, j>> \in world.link
    /\ alive' = [alive EXCEPT ![i] = @ \ {j}]
    /\ \E lost \in SUBSET {m \in msgs : m.from = j /\ m.to = i /\ j \notin crashed} :
          msgs' = msgs \ lost
    /\ UNCHANGED <<world, rep, crashed, before>>

Next ==
    \/ \E i \in Replica, c \in Command : Propose(i, c)
    \/ \E m \in msgs : Receive(m.to, m)
    \/ \E i \in Replica, v \in Instance : TickRepair(i, v)
    \/ \E i \in Replica : TickExecute(i)
    \/ \E i \in Replica : Crash(i)
    \/ \E i, j \in Replica : Disconnect(i, j)

Spec == Init /\ [][Next]_vars

-----------------------------------------------------------------------------
(***************************************************************************)
(* Properties.                                                             *)
(***************************************************************************)
Attributes == [Replica -> -1..MaxSlot]
\* The replica has started a recovery of this instance; it waits for answers of it.
TookOver(x) == x.lb.last >= N
Recovering(x) == /\ TookOver(x) /\ x.bal = x.lb.last
                 /\ x.lb.preparing \/ x.lb.status < COMMITTED
\* A row moves past executed instances; one of them may be open again because of
\* answers to a recovery (CommitIsFinal).
TypeOK ==
    /\ world \in World /\ crashed \subseteq world.mortal
    /\ \A i \in Replica : alive[i] \subseteq Replica \ {i}
    /\ \A i \in Replica, v \in Instance :
          LET x == rep[i].inst[v]
          IN  /\ x.cmd \in Command \cup {Noop, None} /\ x.status \in NONE..EXECUTED
              /\ x.bal \in Ballot /\ x.vbal \in -1..x.bal
              /\ x.deps \in Attributes /\ x.deps[v[1]] < v[2]
              /\ x.status # NONE <=> x.cmd # None
              /\ v[2] <= rep[i].upTo[v[1]] => \/ x.status = EXECUTED
                                              \/ TookOver(x) /\ x.status >= ACCEPTED
              /\ x.status # NONE => v[2] <= rep[i].crt[v[1]]

\* Two replicas that have committed an instance have the same command, the same
\* sequence number and the same dependencies for it.
Agreement ==
    \A i, j \in Replica, v \in Instance :
        LET x == rep[i].inst[v]
            y == rep[j].inst[v]
        IN  x.status >= COMMITTED /\ y.status >= COMMITTED
            => x.cmd = y.cmd /\ x.seq = y.seq /\ x.deps = y.deps

Precedes(log, c, d) == \E p, q \in DOMAIN log : p < q /\ log[p] = c /\ log[q] = d
InLog(c, i) == \E p \in DOMAIN rep[i].log : rep[i].log[p] = c

\* Conflicting commands execute in one order everywhere: when one replica has
\* executed c before d, no replica executes d without having executed c, unless
\* c is a read, which is only ever executed where its client waits.
SameOrder ==
    \A i, j \in Replica, c, d \in Command :
        Conflict(c, d) /\ Precedes(rep[i].log, c, d) /\ InLog(d, j) =>
            IF c \in Write THEN Precedes(rep[j].log, c, d) ELSE ~Precedes(rep[j].log, d, c)

\* A command proposed after the reply to a conflicting write executes behind it,
\* at whatever replica: its own client sees the write.
RealTime ==
    \A p \in before, i \in Replica :
        Conflict(p[1], p[2]) /\ p[1] \in Write /\ InLog(p[2], i)
            => Precedes(rep[i].log, p[1], p[2])

\* What a replica has committed keeps its command, sequence number and
\* dependencies, whatever late message still comes.  handlePrepareReply does not
\* look at the status: when the Commit arrives between the start of a recovery and
\* its answers, they open the instance again, even an executed one, and its status
\* falls back.  Then the value stays, the status does not fall below ACCEPTED, and
\* nothing executes twice.  The messages of others, a late Accept, PreAccept,
\* Prepare or Commit, do not even do that.  (An instance of replica 0 is taken over
\* here; for the others the ballot is missing in the answers, see OnWire.)
CommitIsFinal ==
    [][/\ \A i \in Replica, v \in Instance :
             LET x == rep[i].inst[v]
                 y == rep'[i].inst[v]
             IN  x.status >= COMMITTED =>
                   /\ y.cmd = x.cmd /\ y.seq = x.seq /\ y.deps = x.deps
                   /\ \/ y.status >= x.status
                      \/ Recovering(x) /\ y.status >= ACCEPTED
       /\ \A i \in Replica : IsInjective(rep'[i].log)]_vars
=============================================================================
