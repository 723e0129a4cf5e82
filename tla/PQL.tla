-------------------------------- MODULE PQL --------------------------------
(***************************************************************************)
(* Package pql: core.go, recovery.go, execute.go, configuration.go and     *)
(* policy.go, over the leases of PQLLease.  A write commits once a         *)
(* majority and every holder of its key accepted it; a holder whose lease  *)
(* is valid reads its own copy.                                            *)
(*                                                                         *)
(* One step is one proposal, one packet, one tick or a unit of time; what  *)
(* a replica sends to itself is handled within the step, as Local does.    *)
(* The clocks run at one rate.  Packets with several records are several   *)
(* packets, and every packet may arrive late and again.  There is one key. *)
(* The configuration log is a second instance of this log; here it is the  *)
(* sequence it agrees on, which each replica learns in order.  A read      *)
(* changes no replicated state: Serves(i) is the condition on which i      *)
(* answers one, and the properties look at it in every state.              *)
(***************************************************************************)
EXTENDS PQLLease, SequencesExt

CONSTANTS
    Leader,          \* the leader of the deployment plan
    Put,             \* client writes
    Noop,            \* the filler of a slot
    Hole,            \* a slot without a record
    Holders,         \* the holders of the key in the genesis policy
    DefaultMask,     \* the plan's write quorum
    PageSize,        \* requests one flush orders (128)
    AdmissionWindow, \* unexecuted slots a leader may have open (8192)
    MaxSlot, MaxBallot, MaxEpoch, MaxSequence, MaxTime,  \* bounds
    Punctual,        \* TRUE: no replica is paused for a unit of time
    World            \* bound: the environments of the model, see below

Timer == {"renew", "suspect", "leader", "config", "holders", "read", "send"}
Kind == {"Prepare", "Promise", "Accept", "Ack", "Commit", "Ready", "Fetch", "Forward",
         "ForwardReply", "Guard", "GuardAck", "LeasePromise", "LeaseReply"}
Slot == 0..MaxSlot

ASSUME PutAssumption == Noop \notin Put /\ Hole \notin Put \cup {Noop}
ASSUME PolicyAssumption ==
    /\ Leader \in Replica /\ Holders \subseteq Replica
    /\ DefaultMask \subseteq Replica /\ Leader \in DefaultMask
    /\ Cardinality(DefaultMask) = Quorum
ASSUME BoundAssumption ==
    /\ PageSize \in Nat \ {0} /\ AdmissionWindow \in Nat \ {0}
    /\ {MaxSlot, MaxBallot, MaxEpoch, MaxSequence, MaxTime} \subseteq Nat
    /\ Leader <= MaxBallot /\ Genesis <= MaxEpoch
    /\ Punctual \in BOOLEAN
\* An environment: route[r], the replicas the client sends r to; alive[i], the
\* peers i is connected to; timers[i], the timers of i that may run out;
\* suspect[i], the peers i may find unresponsive; reach[i], the kinds of packets
\* that arrive at i; until, the time the run ends.
ASSUME WorldAssumption ==
    World \subseteq [route : [Put -> SUBSET Replica], alive : [Replica -> SUBSET Replica],
                     timers : [Replica -> SUBSET Timer], suspect : [Replica -> SUBSET Replica],
                     reach : [Replica -> SUBSET Kind], until : 1..MaxTime]

Record == [req : Put \cup {Noop, Hole}, ballot : -1..MaxBallot, committed : BOOLEAN,
           epoch : 0..MaxEpoch, notify : SUBSET Replica]
Empty == [req |-> Hole, ballot |-> -1, committed |-> FALSE, epoch |-> 0, notify |-> {}]
Filler(b, e) == [req |-> Noop, ballot |-> b, committed |-> FALSE, epoch |-> e, notify |-> {}]
Policy == [leader : Replica, holders : SUBSET Replica, excluded : SUBSET Replica]

VARIABLES
    core,      \* per replica: the fields of core
    lease,     \* per replica: its leaseState
    configs,   \* the policies of the configuration log, by epoch
    proposed,  \* the changes proposed to it and not decided
    now,       \* the time
    world,     \* the environment
    msgs,      \* the packets sent
    basis      \* history: the promises i's barrier came from and that stood ever since

vars == <<core, lease, configs, proposed, now, world, msgs, basis>>

NewCore ==
    [ballot |-> Leader, leader |-> Leader, active |-> TRUE, preparing |-> FALSE,
     high |-> -1, executed |-> -1, recoveryEnd |-> -1, catchupTarget |-> -1,
     log |-> [s \in Slot |-> Empty], assigned |-> {}, pending |-> {}, queue |-> <<>>,
     resume |-> {}, votes |-> [s \in Slot |-> {}], promises |-> {},
     forwardResults |-> {}, latestEpoch |-> Genesis, suspected |-> {}]

Init ==
    /\ core = [i \in Replica |-> NewCore]
    /\ lease = [i \in Replica |-> NewLease]
    /\ configs = <<[leader |-> Leader, holders |-> Holders, excluded |-> {}]>>
    /\ proposed = {} /\ now = 1 /\ world \in World /\ msgs = {}
    /\ basis = [i \in Replica |-> {}]

-----------------------------------------------------------------------------
(***************************************************************************)
(* Policies.                                                               *)
(***************************************************************************)
\* A key without an entry belongs to the leader.
HolderMask(p) == (IF p.holders = {} THEN {p.leader} ELSE p.holders) \ p.excluded
\* mask filled up to a majority with the lowest of peers.
Lowest(S, k) == {x \in S : Cardinality({y \in S : y < x}) < k}
Fill(mask, peers) == mask \cup Lowest(peers \ mask, Quorum - Cardinality(mask))
WriteMask(p, req) ==
    LET mask == {p.leader} \cup (IF req \in Put THEN HolderMask(p) ELSE {})
    IN  Fill(Fill(mask, DefaultMask \ p.excluded), Replica \ p.excluded)
NotifyMask(p, req) == IF req \in Put THEN HolderMask(p) ELSE {}

(***************************************************************************)
(* The log of one replica: c is its core.                                  *)
(***************************************************************************)
Executed(c) == {c.log[s].req : s \in 0..c.executed}
Updating(c) == \E s \in Slot : s > c.executed /\ c.log[s].req \in Put

\* Mutant of Install: the highest slot is the leader's business.
InstallHighKept(c, s, r) ==
    IF c.log[s].committed THEN c
    ELSE IF c.log[s].req = r.req THEN [c EXCEPT !.log[s] = r]
    ELSE [c EXCEPT !.log[s] = r,
                   !.assigned = (@ \ {c.log[s].req}) \cup ({r.req} \cap Put)]
Install(c, s, r) ==
    IF c.log[s].committed THEN c
    ELSE IF c.log[s].req = r.req THEN [c EXCEPT !.log[s] = r]
    ELSE [c EXCEPT !.log[s] = r, !.high = Max({@, s}),
                   !.assigned = (@ \ {c.log[s].req}) \cup ({r.req} \cap Put)]

Apply(c) ==
    LET e == CHOOSE x \in c.executed..MaxSlot :
                /\ \A s \in (c.executed + 1)..x : c.log[s].committed
                /\ x = MaxSlot \/ ~c.log[x + 1].committed
    IN  [c EXCEPT !.executed = e, !.pending = @ \ {c.log[s].req : s \in (c.executed + 1)..e},
                  !.votes = [s \in Slot |-> IF s \in (c.executed + 1)..e THEN {} ELSE @[s]]]

\* ack: from voted for the slots S under a lease epoch.
Counted(c, S, epoch) ==
    {s \in S : s > c.executed /\ c.log[s].req # Hole /\ c.log[s].epoch = epoch}
Chosen(c, s) ==
    /\ c.log[s].ballot = c.ballot /\ Cardinality(c.votes[s]) >= Quorum
    /\ c.log[s].notify \subseteq c.votes[s]
Acked(c, from, S, epoch) ==
    LET counted == Counted(c, S, epoch)
        v == [c EXCEPT !.votes =
                [s \in Slot |-> IF s \in counted THEN @[s] \cup {from} ELSE @[s]]]
    IN  Apply([v EXCEPT !.log = [s \in Slot |-> IF s \in counted /\ Chosen(v, s)
                                                THEN [@[s] EXCEPT !.committed = TRUE] ELSE @[s]]])
Newly(c, d) == {s \in Slot : d.log[s].committed /\ ~c.log[s].committed}

(***************************************************************************)
(* Packets.                                                                *)
(***************************************************************************)
Others(i) == Replica \ {i}
Accept(i, j, c, e, s, r) ==
    [kind |-> "Accept", from |-> i, to |-> j, ballot |-> c.ballot, epoch |-> e, slot |-> s, rec |-> r]
Commits(i, to, c, S) ==
    {[kind |-> "Commit", from |-> i, to |-> j, ballot |-> c.ballot, slot |-> s,
      rec |-> [c.log[s] EXCEPT !.ballot = c.ballot]] : j \in to, s \in S}
Ready(i, c) ==
    {[kind |-> "Ready", from |-> i, to |-> j, ballot |-> c.ballot, high |-> c.executed,
      active |-> c.active] : j \in Others(i)}
Fetch(i, c, l) ==
    IF c.leader = i THEN {}
    ELSE {[kind |-> "Fetch", from |-> i, to |-> c.leader, ballot |-> c.ballot,
           floor |-> c.executed + 1, high |-> Max({c.high, l.catchup})]}
Forward(i, c, r) ==
    [kind |-> "Forward", from |-> i, to |-> c.leader, ballot |-> c.ballot, req |-> r]

-----------------------------------------------------------------------------
(***************************************************************************)
(* The leader's part: e is the lease epoch it grants under.                *)
(***************************************************************************)
FillCatchup(c, e) ==
    LET top == Min({c.catchupTarget, c.high + PageSize, c.executed + AdmissionWindow, MaxSlot})
        S == (c.high + 1)..top
    IN  IF S = {} THEN c
        ELSE [c EXCEPT !.high = top,
                       !.log = [s \in Slot |-> IF s \in S THEN Filler(c.ballot, e) ELSE @[s]]]

\* sendSuffix to the acceptors: the unexecuted records under the current policy;
\* votes for a record under another one are void.
Suffix(c) == {s \in (c.executed + 1)..c.high : c.log[s].req # Hole}
Own(i, c, S, e) == {s \in S : i \in WriteMask(configs[e], c.log[s].req)}
Relabelled(c, e) ==
    LET log == [s \in Slot |-> IF s \in Suffix(c)
                 THEN [c.log[s] EXCEPT !.epoch = e,
                                       !.notify = NotifyMask(configs[e], c.log[s].req)]
                 ELSE c.log[s]]
    IN  [c EXCEPT !.log = log,
                  !.votes = [s \in Slot |-> IF log[s] # c.log[s] THEN {} ELSE @[s]]]
Offers(i, c, S, e) ==
    UNION {{Accept(i, j, c, e, s, [c.log[s] EXCEPT !.committed = FALSE, !.ballot = c.ballot]) :
               j \in WriteMask(configs[e], c.log[s].req) \ {i}} : s \in S}
SentSuffix(i, c, e) == LET d == Relabelled(c, e) IN Acked(d, i, Own(i, d, Suffix(d), e), e)
SuffixSends(i, c, e) ==
    Offers(i, Relabelled(c, e), Suffix(c), e)
      \cup Commits(i, Others(i), SentSuffix(i, c, e), Newly(c, SentSuffix(i, c, e)))

\* flush: the requests it reads from the queue, and the slots they get.
Fresh(c, k) == {a \in 1..k : c.queue[a] \in c.pending \ (c.assigned \cup Executed(c))}
Room(c) == Min({PageSize, AdmissionWindow - (c.high - c.executed), MaxSlot - c.high})
Popped(c) == {k \in DOMAIN c.queue : Cardinality(Fresh(c, k - 1)) < Room(c)}
Ordered(c, e) ==
    LET taken == {k \in Popped(c) : k \in Fresh(c, k)}
        at(k) == c.high + Cardinality(Fresh(c, k))
        rec(r) == [req |-> r, ballot |-> c.ballot, committed |-> FALSE, epoch |-> e,
                   notify |-> NotifyMask(configs[e], r)]
    IN  [c EXCEPT !.queue = SubSeq(@, Cardinality(Popped(c)) + 1, Len(@)),
                  !.high = @ + Cardinality(taken),
                  !.assigned = @ \cup {c.queue[k] : k \in taken},
                  !.log = [s \in Slot |-> IF \E k \in taken : at(k) = s
                             THEN rec(c.queue[CHOOSE k \in taken : at(k) = s]) ELSE @[s]]]
Flushed(i, c, e) ==
    LET d == Ordered(c, e) IN Acked(d, i, Own(i, d, (c.high + 1)..d.high, e), e)
FlushSends(i, c, e) == LET d == Ordered(c, e) IN Offers(i, d, (c.high + 1)..d.high, e)

Activate(c) == [c EXCEPT !.active = TRUE, !.resume = c.pending]

(***************************************************************************)
(* submit and forwarding.                                                  *)
(***************************************************************************)
\* The orders in which the requests R may be queued: those that are not ordered yet.
Orders(c, R) == SetToSeqs(R \ (c.assigned \cup Executed(c) \cup ToSet(c.queue)))
\* The requests R, queued in the order q; none of them has a result.
Submitted(i, c, R, q) ==
    LET d == [c EXCEPT !.pending = @ \cup R]
    IN  IF c.active /\ c.leader = i THEN [d EXCEPT !.queue = @ \o q] ELSE d
Finished(c) == Executed(c) \cup c.forwardResults
Forwards(i, c, R) ==
    IF c.active /\ c.leader # i THEN {Forward(i, c, r) : r \in R} ELSE {}

\* What does not reach its destination is lost.
Send(M) == msgs' = msgs \cup {m \in M : m.kind \in world.reach[m.to]}
Only(i, c) == core' = [core EXCEPT ![i] = c]

Propose(i, r) ==
    /\ i \in world.route[r] /\ r \notin Finished(core[i])
    /\ \E q \in Orders(core[i], {r}) : Only(i, Submitted(i, core[i], {r}, q))
    /\ Send(Forwards(i, core[i], {r}))
    /\ UNCHANGED <<lease, configs, proposed, now, world, basis>>

\* The origin of a request is the replica that forwards it: in the environments
\* no replica that was forwarded one has to forward it again.
ReceiveForward(i, m) ==
    /\ m.kind = "Forward" /\ core[i].leader = i /\ core[i].active /\ m.ballot = core[i].ballot
    /\ m.req \in Executed(core[i]) \/ m.req \notin core[i].forwardResults
    /\ IF m.req \in Executed(core[i])
       THEN /\ Send({[kind |-> "ForwardReply", from |-> i, to |-> m.from,
                      ballot |-> m.ballot, req |-> m.req]})
            /\ UNCHANGED core
       ELSE /\ \E q \in Orders(core[i], {m.req}) : Only(i, Submitted(i, core[i], {m.req}, q))
            /\ UNCHANGED msgs
    /\ UNCHANGED <<lease, configs, proposed, now, world, basis>>

ReceiveForwardReply(i, m) ==
    /\ m.kind = "ForwardReply" /\ m.ballot = core[i].ballot /\ m.from = core[i].leader
    /\ Only(i, [core[i] EXCEPT !.pending = @ \ {m.req}, !.forwardResults = @ \cup {m.req}])
    /\ UNCHANGED <<lease, configs, proposed, now, world, basis, msgs>>

(***************************************************************************)
(* Phase two.                                                              *)
(***************************************************************************)
\* Mutant of Admits: promises do not bind the acceptor.
AdmitsAlways(i, m) == m.epoch <= core[i].latestEpoch
Admits(i, m) ==
    /\ m.epoch <= core[i].latestEpoch
    /\ m.epoch = lease[i].promisedBy \/ CanWriteOutside(lease[i], now)

ReceiveAccept(i, m) ==
    LET c == core[i]
        d == Install(c, m.slot, [m.rec EXCEPT !.ballot = m.ballot, !.epoch = m.epoch])
        gap == m.slot > 0 /\ c.log[m.slot - 1].req = Hole
    IN  /\ m.kind = "Accept" /\ m.ballot = c.ballot /\ m.from = c.leader /\ Admits(i, m)
        /\ Only(i, d)
        /\ Send({[kind |-> "Ack", from |-> i, to |-> m.from, ballot |-> m.ballot,
                  epoch |-> m.epoch, slot |-> m.slot]}
                  \cup (IF gap THEN Fetch(i, d, lease[i]) ELSE {}))
        /\ UNCHANGED <<lease, configs, proposed, now, world, basis>>

ReceiveAck(i, m) ==
    LET c == core[i]
        d == Acked(c, m.from, {m.slot}, m.epoch)
    IN  /\ m.kind = "Ack" /\ m.ballot = c.ballot /\ ~c.preparing /\ c.leader = i
        /\ Only(i, d)
        /\ Send(Commits(i, Others(i), d, Newly(c, d)))
        /\ UNCHANGED <<lease, configs, proposed, now, world, basis>>

ReceiveCommit(i, m) ==
    LET d == Install(core[i], m.slot, m.rec)
    IN  /\ m.kind = "Commit" /\ m.ballot = core[i].ballot /\ m.from = core[i].leader
        /\ Only(i, Apply([d EXCEPT !.log[m.slot].committed = TRUE]))
        /\ UNCHANGED <<lease, configs, proposed, now, world, basis, msgs>>

ReceiveReady(i, m) ==
    LET c == core[i]
        d == IF m.ballot > c.ballot
             THEN [c EXCEPT !.ballot = m.ballot, !.leader = m.from, !.preparing = FALSE,
                            !.active = FALSE, !.votes = [s \in Slot |-> {}]]
             ELSE c
    IN  /\ m.kind = "Ready" /\ m.ballot >= c.ballot /\ m.from = d.leader
        /\ Only(i, IF m.active /\ ~d.active THEN Activate(d) ELSE d)
        /\ Send(IF m.high > d.executed THEN Fetch(i, d, lease[i]) ELSE {})
        /\ UNCHANGED <<lease, configs, proposed, now, world, basis>>

ReceiveFetch(i, m) ==
    LET e == lease[i].promisedBy
        c == [core[i] EXCEPT !.catchupTarget = Max({@, m.high})]
        d == FillCatchup(c, e)
        S == {s \in m.floor..d.high : d.log[s].req # Hole}
    IN  /\ m.kind = "Fetch" /\ m.ballot = c.ballot /\ c.leader = i
        /\ IF c.preparing THEN Only(i, c) /\ UNCHANGED msgs
           ELSE /\ Only(i, d)
                /\ Send({Accept(i, m.from, d, e, s, [d.log[s] EXCEPT !.ballot = d.ballot]) :
                             s \in S}
                          \cup Commits(i, {m.from}, d, {s \in S : d.log[s].committed}))
        /\ UNCHANGED <<lease, configs, proposed, now, world, basis>>

-----------------------------------------------------------------------------
(***************************************************************************)
(* Recovery.                                                               *)
(***************************************************************************)
NextBallot(i) == (core[i].ballot \div N + 1) * N + i
\* promise: everything from the floor on, as it was at the first request.
Snapshot(i, j, c, b, floor) ==
    [kind |-> "Promise", from |-> i, to |-> j, ballot |-> b, floor |-> floor, high |-> c.high,
     recs |-> [s \in Slot |-> IF s \in floor..c.high THEN c.log[s] ELSE Empty]]

Begin(i, c) ==
    [c EXCEPT !.ballot = NextBallot(i), !.leader = i, !.active = FALSE, !.preparing = TRUE,
              !.votes = [s \in Slot |-> {}],
              !.promises = {Snapshot(i, i, c, NextBallot(i), c.executed + 1)}]
Prepares(i, c) ==
    {[kind |-> "Prepare", from |-> i, to |-> j, ballot |-> c.ballot, floor |-> c.executed + 1] :
        j \in Others(i)}

ReceivePrepare(i, m) ==
    LET c == core[i]
        d == IF m.ballot > c.ballot
             THEN [c EXCEPT !.ballot = m.ballot, !.leader = m.from, !.preparing = FALSE,
                            !.active = FALSE, !.votes = [s \in Slot |-> {}]]
             ELSE [c EXCEPT !.active = FALSE]
        frozen == {x \in msgs : /\ x.kind = "Promise" /\ x.from = i /\ x.ballot = m.ballot
                                /\ x.floor = m.floor}
    IN  /\ m.kind = "Prepare" /\ m.ballot >= c.ballot
        /\ Only(i, d)
        /\ Send(IF frozen = {} THEN {Snapshot(i, m.from, c, m.ballot, m.floor)} ELSE {})
        /\ UNCHANGED <<lease, configs, proposed, now, world, basis>>

\* The value of the highest ballot, or the filler.
\* Mutant of Selected: only a committed record counts.
SelectedCommitted(P, s) ==
    LET R == {p.recs[s] : p \in {x \in P : x.recs[s].committed}}
    IN  IF R = {} THEN Filler(-1, 0)
        ELSE CHOOSE r \in R : \A q \in R : r.ballot >= q.ballot
Selected(P, s) ==
    LET R == {p.recs[s] : p \in {x \in P : x.recs[s].req # Hole}}
    IN  IF R = {} THEN Filler(-1, 0)
        ELSE CHOOSE r \in R : \A q \in R : r.ballot >= q.ballot
Recovered(c, P) ==
    LET high == Max({c.executed} \cup {p.high : p \in P})
        log == [s \in Slot |->
                  IF s <= c.executed THEN c.log[s]
                  ELSE IF s > high THEN Empty
                  ELSE [Selected(P, s) EXCEPT !.ballot = c.ballot, !.committed = FALSE]]
    IN  [c EXCEPT !.preparing = FALSE, !.promises = {}, !.high = high, !.log = log,
                  !.assigned = {log[s].req : s \in Slot} \cap Put,
                  !.votes = [s \in Slot |-> {}]]

ReceivePromise(i, m) ==
    LET c == core[i]
        P == c.promises \cup {m}
        e == lease[i].promisedBy
        r == FillCatchup(Recovered(c, P), e)
        d == SentSuffix(i, [r EXCEPT !.recoveryEnd = r.high], e)
        done == d.executed >= d.recoveryEnd
    IN  /\ m.kind = "Promise" /\ m.ballot = c.ballot /\ c.preparing /\ c.leader = i
        /\ m.floor = c.executed + 1
        /\ IF Cardinality(P) < Quorum
           THEN Only(i, [c EXCEPT !.promises = P]) /\ UNCHANGED msgs
           ELSE /\ Only(i, IF done THEN Activate(d) ELSE d)
                /\ Send(SuffixSends(i, r, e) \cup (IF done THEN Ready(i, Activate(d)) ELSE {}))
        /\ UNCHANGED <<lease, configs, proposed, now, world, basis>>

-----------------------------------------------------------------------------
(***************************************************************************)
(* The configuration log.                                                  *)
(***************************************************************************)
\* maintainConfigurations proposes a new leader and exclusions, and every ten
\* seconds the holders that read most: any of them, as the counts are not kept.
\* MaxEpoch ends the model's changes.
Latest(i) == configs[core[i].latestEpoch]
Suspects(i, due) ==
    (core[i].suspected
       \cup (IF "suspect" \in due THEN world.suspect[i] \ Latest(i).excluded ELSE {})) \ {i}
Observed(i) ==
    {mask \in {{i} \cup H : H \in kSubset(N \div 2, Replica \ (Latest(i).excluded \cup {i}))} :
        mask # HolderMask(Latest(i))}
Changes(i, due) ==
    LET c == core[i]
        susp == Suspects(i, due)
        settle == {[leader |-> i, excluded |-> susp, holders |-> {}] :
                      x \in {y \in {i} : /\ c.leader = i /\ "config" \in due
                                         /\ ~(susp \subseteq Latest(i).excluded)
                                             \/ Latest(i).leader # i}}
        observe == IF c.leader = i /\ "holders" \in due
                   THEN {{[leader |-> i, excluded |-> Latest(i).excluded, holders |-> mask]} :
                            mask \in Observed(i)}
                   ELSE {}
    IN  IF c.latestEpoch = MaxEpoch THEN {{}}
        ELSE {settle} \cup {settle \cup o : o \in observe}

\* The log decides a change; its leader applies it first.
Decide(i, ch) ==
    LET prev == configs[Len(configs)]
    IN  /\ core[i].leader = i /\ core[i].latestEpoch = Len(configs) /\ Len(configs) < MaxEpoch
        /\ configs' = Append(configs,
              [leader |-> ch.leader, excluded |-> prev.excluded \cup ch.excluded,
               holders |-> IF ch.holders = {} THEN prev.holders ELSE ch.holders])
        /\ proposed' = proposed \ {ch}
        /\ Only(i, [core[i] EXCEPT !.latestEpoch = @ + 1])
        /\ UNCHANGED <<lease, now, world, msgs, basis>>

Learn(i) ==
    /\ core[i].latestEpoch < Len(configs)
    /\ Only(i, [core[i] EXCEPT !.latestEpoch = @ + 1])
    /\ UNCHANGED <<lease, configs, proposed, now, world, msgs, basis>>

-----------------------------------------------------------------------------
(***************************************************************************)
(* Ticks.  Each begins with maintainConfigurations.                        *)
(***************************************************************************)
\* A new era begins once every promise of the old one ran out.
Waits(i) ==
    /\ core[i].latestEpoch > lease[i].promisedBy /\ ~CanWriteOutside(lease[i], now)
Switched(i) ==
    IF core[i].latestEpoch > lease[i].promisedBy /\ ~Waits(i)
    THEN SwitchEpoch(lease[i], core[i].latestEpoch) ELSE lease[i]
Grantees(i, due) ==
    LET policy == configs[Switched(i).promisedBy]
    IN  IF \/ Waits(i) \/ ~(Suspects(i, due) \subseteq Latest(i).excluded)
           \/ i \in policy.excluded \/ (Switched(i) = lease[i] /\ "renew" \notin due)
        THEN {} ELSE world.alive[i] \ (policy.excluded \cup {i})

Maintain(i, due) ==
    LET l == TickLease(Switched(i), Grantees(i, due), now)
    IN  /\ \A p \in Replica : l.sentSequence[p] <= MaxSequence /\ l.guardSequence[p] <= MaxSequence
        /\ lease' = [lease EXCEPT ![i] = l]
        /\ \E new \in Changes(i, due) : proposed' = proposed \cup new
        /\ UNCHANGED <<configs, now, world, basis>>
Grants(i, due) == TickSends(Switched(i), i, Grantees(i, due), now, core[i].high)

\* Waiting reads ask for the records up to the barrier.
Reading(i, c, due) ==
    IF "read" \in due /\ c.leader = i
    THEN [c EXCEPT !.catchupTarget = Max({@, Switched(i).catchup})] ELSE c
\* The requests that waited for a leader are submitted again, in any order.
Waiting(c) == IF c.active THEN c.resume \cap c.pending ELSE {}
Resumed(i, c, q) ==
    IF c.active THEN [Submitted(i, c, Waiting(c), q) EXCEPT !.resume = {}] ELSE c

\* The leader is silent or unreachable: the lowest replica not suspected stands.
Missing(i, due) == core[i].leader # i /\ "leader" \in due
Doubts(i, due) == Suspects(i, due) \cup (IF Missing(i, due) THEN {core[i].leader} ELSE {})
Stands(i, due) ==
    /\ Missing(i, due)
    /\ i = Min({i} \cup {p \in world.alive[i] \ {core[i].leader} :
                             p \notin configs[Switched(i).promisedBy].excluded
                             /\ p \notin Doubts(i, due)})
    /\ i \notin configs[Switched(i).promisedBy].excluded

TickBegin(i, due) ==
    LET c == [core[i] EXCEPT !.suspected = Doubts(i, due)]
    IN  /\ Stands(i, due) /\ NextBallot(i) <= MaxBallot
        /\ Maintain(i, due)
        /\ Only(i, Reading(i, Begin(i, c), due))
        /\ Send(Grants(i, due) \cup Prepares(i, Begin(i, c)))

\* A Prepare that is repeated is the same packet again.
TickFollow(i, due) ==
    LET c == Reading(i, [core[i] EXCEPT !.suspected = Doubts(i, due)], due)
    IN  /\ core[i].leader # i \/ core[i].preparing
        /\ ~Stands(i, due)
        /\ Maintain(i, due)
        /\ \E q \in Orders(c, Waiting(c)) : Only(i, Resumed(i, c, q))
        /\ Send(Grants(i, due) \cup Forwards(i, c, Waiting(c))
                  \cup (IF "read" \in due THEN Fetch(i, c, Switched(i)) ELSE {}))

TickLead(i, due) ==
    LET e == Switched(i).promisedBy
        c == Reading(i, [core[i] EXCEPT !.suspected = Suspects(i, due)], due)
    IN  /\ core[i].leader = i /\ ~core[i].preparing
        /\ Maintain(i, due)
        /\ \E q \in Orders(c, Waiting(c)) :
              LET r == FillCatchup(Resumed(i, c, q), e)
                  a == IF ~r.active /\ r.executed >= r.recoveryEnd THEN Activate(r) ELSE r
                  f == IF a.active THEN Flushed(i, a, e) ELSE a
                  sends == "send" \in due
              IN  /\ Only(i, IF sends THEN SentSuffix(i, f, e) ELSE f)
                  /\ Send(Grants(i, due)
                        \cup (IF a # r THEN Ready(i, a) ELSE {})
                        \cup (IF a.active THEN FlushSends(i, a, e) ELSE {})
                        \cup (IF sends THEN Ready(i, f) \cup SuffixSends(i, f, e) ELSE {}))

-----------------------------------------------------------------------------
(***************************************************************************)
(* Lease packets.                                                          *)
(***************************************************************************)
Keeps(i, l) ==
    /\ lease' = [lease EXCEPT ![i] = l]
    /\ UNCHANGED <<core, configs, proposed, now, world>>

ReceiveGuard(i, m) ==
    /\ m.kind = "Guard" /\ m.stamp > lease[i].receivedGuard[m.from]
    /\ Keeps(i, OnGuard(lease[i], m, now))
    /\ Send({[kind |-> "GuardAck", from |-> i, to |-> m.from, epoch |-> m.epoch,
              stamp |-> m.stamp]})
    /\ UNCHANGED basis

ReceiveGuardAck(i, m) ==
    /\ m.kind = "GuardAck" /\ GuardAcked(lease[i], m)
    /\ core[i].latestEpoch <= lease[i].promisedBy
    /\ core[i].suspected \subseteq Latest(i).excluded
    /\ lease[i].sentSequence[m.from] < MaxSequence
    /\ Keeps(i, OnGuardAck(lease[i], m, now))
    /\ Send({Promise(lease[i], i, m.from, now, core[i].high, TRUE)})
    /\ UNCHANGED basis

\* A promise of an older epoch is answered with the newer one.
ReceiveLeasePromise(i, m) ==
    LET l == lease[i]
        d == OnPromise(l, m, now)
        p == Promised(l, m, now)
    IN  /\ m.kind = "LeasePromise" /\ m.epoch <= core[i].latestEpoch /\ Admissible(l, m, now)
        /\ Keeps(i, d)
        /\ Send({[kind |-> "LeaseReply", from |-> i, to |-> m.from, epoch |-> d.promisedTo,
                  stamp |-> m.stamp]})
        /\ basis' = [basis EXCEPT ![i] =
              IF m.epoch < l.promisedTo THEN @
              ELSE IF Activates(p, now) THEN Longest(p, now)
              ELSE IF m.epoch > l.promisedTo THEN {} ELSE @]

ReceiveLeaseReply(i, m) ==
    /\ m.kind = "LeaseReply" /\ Answers(lease[i], m, now)
    /\ Keeps(i, OnReply(lease[i], m, now))
    /\ UNCHANGED <<msgs, basis>>

Receive(i, m) ==
    \/ ReceivePrepare(i, m)
    \/ ReceivePromise(i, m)
    \/ ReceiveAccept(i, m)
    \/ ReceiveAck(i, m)
    \/ ReceiveCommit(i, m)
    \/ ReceiveReady(i, m)
    \/ ReceiveFetch(i, m)
    \/ ReceiveForward(i, m)
    \/ ReceiveForwardReply(i, m)
    \/ ReceiveGuard(i, m)
    \/ ReceiveGuardAck(i, m)
    \/ ReceiveLeasePromise(i, m)
    \/ ReceiveLeaseReply(i, m)

\* Ticks are milliseconds apart and resends 200ms, which a punctual replica does
\* not put off for a unit of time (seconds).
Overdue(i) ==
    \/ core[i].latestEpoch > lease[i].promisedBy /\ ~Waits(i)
    \/ /\ core[i].leader = i /\ ~core[i].preparing
       /\ Relabelled(core[i], lease[i].promisedBy) # core[i]
\* A promise that runs out leaves the basis of its holder's barrier.
Elapse ==
    /\ now < world.until
    /\ Punctual => \A i \in Replica : ~Overdue(i)
    /\ now' = now + 1
    /\ basis' = [i \in Replica |-> basis[i] \cap Live(lease[i], now + 1)]
    /\ UNCHANGED <<core, lease, configs, proposed, world, msgs>>

Next ==
    \/ \E r \in Put : \E i \in Replica : Propose(i, r)
    \/ \E m \in msgs : Receive(m.to, m)
    \/ \E i \in Replica : \E due \in SUBSET world.timers[i] :
          TickBegin(i, due) \/ TickFollow(i, due) \/ TickLead(i, due)
    \/ \E i \in Replica, ch \in proposed : Decide(i, ch)
    \/ \E i \in Replica : Learn(i)
    \/ Elapse

Spec == Init /\ [][Next]_vars

-----------------------------------------------------------------------------
(***************************************************************************)
(* Properties.                                                             *)
(***************************************************************************)
\* What submit asks of a holder that answers a read from its own copy.
Serves(i) ==
    /\ i \notin Latest(i).excluded /\ lease[i].promisedTo >= 0
    /\ i \in HolderMask(configs[lease[i].promisedTo])
    /\ ~Updating(core[i])
    /\ CanRead(lease[i], now, core[i].executed)

\* The writes some replica executed and i did not.
Missed(i) ==
    {s \in Slot : \E j \in Replica : /\ core[i].executed < s /\ s <= core[j].executed
                                     /\ core[j].log[s].req \in Put}

\* Every variable has its type.
TypeOK ==
    /\ \A i \in Replica :
          LET c == core[i]  l == lease[i] IN
          /\ c.ballot \in 0..MaxBallot /\ c.leader \in Replica
          /\ c.active \in BOOLEAN /\ c.preparing \in BOOLEAN
          /\ {c.high, c.executed, c.recoveryEnd, c.catchupTarget} \subseteq -1..MaxSlot
          /\ c.executed <= c.high
          /\ c.log \in [Slot -> Record] /\ c.votes \in [Slot -> SUBSET Replica]
          /\ c.assigned \cup c.forwardResults \subseteq Put /\ c.pending \subseteq Put /\ c.resume \subseteq Put
          /\ c.queue \in Seq(Put) /\ c.suspected \subseteq Replica \ {i}
          /\ c.latestEpoch \in Genesis..Len(configs)
          /\ l.promisedBy \in Genesis..c.latestEpoch
          /\ l.promisedTo \in {-1} \cup (Genesis..c.latestEpoch)
          /\ basis[i] \subseteq Live(l, now)
    /\ configs \in Seq(Policy) /\ Len(configs) <= MaxEpoch
    /\ proposed \subseteq Policy /\ now \in 1..MaxTime

\* lease.go: "A grantor's obligation encloses the holder's usable interval,
\* including delayed traffic."  While a holder counts a promise, its grantor is
\* in the promise's epoch and still bound by it.
Enclosed ==
    \A h \in Replica : \A g \in Live(lease[h], now) :
        /\ lease[g].promisedBy = lease[h].promisedTo
        /\ now < lease[g].latestReplies[h]

\* One log: what two replicas executed at a slot is the same request, and what
\* one committed no other committed differently (install panics on that).
Agreement ==
    \A i, j \in Replica : \A s \in Slot :
        core[i].log[s].committed /\ core[j].log[s].committed
            => core[i].log[s].req = core[j].log[s].req

\* A holder answers no read before every write that any replica executed, as long
\* as the promises its barrier was computed from stand without interruption.
FreshOnBasis ==
    \A i \in Replica : Serves(i) /\ Cardinality(basis[i]) >= N \div 2 => Missed(i) = {}

\* core.go: "A holder reads only after a majority of promises, catch-up to their
\* frontiers, and execution of every accepted write to this key"; lease.go: "Once
\* active, every interfering write must notify this holder".
FreshOnceActive == \A i \in Replica : Serves(i) => Missed(i) = {}
=============================================================================
