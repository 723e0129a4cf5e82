# Verification of ConsensusArena

ConsensusArena runs eight state-machine-replication protocols (paxos, curp,
fastpaxos, epaxos, swift, bodega, kcensus, pql) on one runtime: a replica
process with an event loop and one sender per connection, a master that
registers replicas and answers "who leads", and clients that keep a window of
requests open.  This directory holds TLA+ models of that code, TLC
configurations that check them, and TLAPS proofs.

## 1. Inventory

| Part | State | Operations | What is hard | What makes it correct |
|---|---|---|---|---|
| `paxos` core, recovery, execute | ballot, leader, active/preparing, log, high, executed, values, pending/queue/resume, votes, promise pages, frozen snapshot | submit, receive (8 packet kinds), tick (begin, re-prepare, drain, flush, heartbeat), apply | leader changes over different majorities with old packets in flight, paged promises, lost packets, gaps, a request in two slots | one command per slot; a new leader holds all decided commands; a request runs once; replies come from one history; a request is answered in the end |
| `replica` event loop, transport, receiver | inbox, ProposeChan, Alive, senders per connection | Run (one turn at a time), Send/SendToAll, replicaListener, clientListener | local delivery inside a turn, Alive read outside the turn, closing while sending | a turn is atomic; a dead peer is skipped; FIFO per connection |
| `replica/sender.go`, `streams.go` | bounded frame queue, closed flag, writer | Enqueue, Take, write, Close; pending frames before Bind | producer, writer and closer race; full queue | written frames are a prefix of the admitted ones; Close ends the writer |
| `curp` | master log plus witnesses at the replicas and the client's votes | propose, record, sync, recover | client completes without the leader; witness state used in recovery | a completed command survives a leader change in its order |
| `fastpaxos` | log with fast and classic rounds | propose to all, fast vote, collision recovery | clients write slots directly; quorums of 3n/4+1 | a value chosen fast is the only one recovery may pick |
| `epaxos` | instances with sequence, dependencies, ballots | preaccept, accept, commit, prepare, execute | per-instance recovery; execution of dependency cycles | conflicting commands execute in the same order everywhere |
| `swift`, `kcensus` | dependency graphs, votes of weighted or sharded groups, checkpoints | propose, vote, commit, recover | fast decisions without a leader | same as epaxos |
| `pql` | leader log whose records name the holders to notify; leases granted and held per peer (guard, promise, acknowledgement, expiry); policies by epoch, a configuration log | write, guard, promise, renew, local read, era change, exclusion, leader change | clocks and expiry, delayed promises, eras that overlap, a holder that joins while a write is under way, a leader change under a lease | a grantor is bound while a holder counts on it; one log; a local read sees every executed write |
| `bodega` | leader log, roster and leases | write, grant, local read, revoke | clocks, expiry, a write that races a local read | a local read sees the last completed write |
| `master` | registered, leader, alive flags | Register, GetLeader, GetReplicaList, ping loop | ping loop runs outside the lock; several leader flags | clients are led to a live leader |
| `client` | outstanding window, reply table, retry timers | propose, reply, retry, failover | duplicated and late replies | every request completes once |
| `state` | key-value map | PUT, GET, SCAN | none (sequential) | deterministic |
| `wireproto`, `wiretypes`, `messages.pb.go` of every package | frames on a connection | Encode, Read, generated Size/Marshal/Unmarshal, the byte scan, each package's field selection and validation | boundary values, nil against empty, optional and reused fields, frames of an older build, a cut connection | what is read is what was sent; nothing a package sends is refused; the predicted size is exact |
| `config`, `placement`, `heatprofile`, `dlog`, `slurm`, `templates` | none at run time | parsing, planning, scripts | none that a model checker reaches | |

The parts interact through packets on TCP connections (FIFO, never
re-established: `Alive[rid]` stays false once the reader ends), through the
channels into the event loop, and through RPC with the master.  Nothing is
persisted, so a crashed replica does not come back.

## 2. Modules

* `Paxos` models package `paxos` and the turns of the event loop.  One action
  is one turn: a client proposal (`Propose`), one received packet (`Receive`,
  one disjunct per `case` of `core.receive`), or one maintenance tick
  (`TickBegin`, `TickPrepare`, `TickFollower`, `TickLeader`).  A packet that a
  replica sends to itself is handled inside the turn, as `Transport.Send` does.
* `DecidedLog` is the abstract specification: slots are decided once,
  executed in order without gaps, a request takes effect in its first slot,
  and replies carry the result of that execution.  One step may execute slots and
  answer requests executed earlier: `submit` of `fastpaxos` does both.
* `PaxosRefinement` maps `Paxos` to `DecidedLog`: a command is decided when
  the leader and the acknowledgements sent for its ballot form a majority.
* `PaxosInvariant` states the inductive invariants of `Paxos` (`Shape`, `Safety`,
  `History`), what a step may do to them (`Advance`, `Runs`), and the refinement
  mapping of the proofs (`Decisions`).  `PaxosProofs` holds the proofs: types, executed
  once, the operators of the invariant, why it implies the properties, one lemma per
  action, the theorems, the refinement.
* `Sender` models `replica/sender.go`: one connection with its bounded queue,
  its producers, the writer goroutine and `Close`, each cut where the code
  releases a lock or blocks (`Offer`/`Admit`, `Take`, `WriteFrame`/`Spill`/
  `Flush`, `CloseFlag`/`CloseQueue`/`CloseConn`).  The peer may stall or go
  away at any time.
* `PeerStreams` composes `Sender` with `replica/streams.go`: frames queued
  before the connection exists, the hand-over in `Bind`, and `ClosePeer`, which
  holds the mutex while it closes the sender.
* `SenderProofs` holds the theorems about `Sender` and `PeerStreams`.
* `FastPaxos` models package `fastpaxos`: fast votes and collisions, the paged
  promises and `selectValue` of a recovery, classic rounds, the repair cursor,
  heartbeats, fetches and forwards.  One action is one proposal, one packet or
  one tick; packets a replica sends to itself are handled before anything else,
  as `drain` does.
* `FastPaxosInvariant` states the inductive invariants of `FastPaxos` (`Shape`,
  `Safety`, `History`) and the refinement mapping of the proofs (`Decisions`); `FastPaxosTheorems`
  (the invariant is kept, and what follows from it) builds on `FastPaxosProofs`
  (types, and what a step may do to the state the invariant speaks of, one lemma
  per action).
* `FastPaxosRefinement` maps it to the same `DecidedLog`: a command is decided
  when a fast quorum has voted for it or a majority has accepted it in an epoch.
* `Curp` models package `curp`, replicas and clients: the witness records of
  `submit`, the leader's early answers in `flush`, acknowledgements that every
  replica counts for itself, the leader change with paged promises, the records
  that `promiseReply` turns back into log entries, and the client, which
  combines records and the leader's reply of one ballot (`evidence`, `tryFast`)
  or takes a `MSyncReply` (`Hear`).  Connections are FIFO and lose packets only
  with their end.  Requests that are submitted one after the other are one
  operation (`Submitted`): `Records` says which of them find nothing in their way.
* `CurpInvariant` states the inductive invariants of `Curp`: `Shape` and `Safety`
  for the log, `Memory` for the witness records, what a step may do to them
  (`Advance`), and what the turn of one replica does (`Effect`, `Recalls`).
  `CurpProofs` (types, and that a step that advances keeps `Safety`) and
  `CurpTheorems` (every action is a good turn; the theorems) build on it.
* `Wire` models the data plane: `wireproto.Encode` and `Read`, the byte scan
  `Shape.Validate`, the readers of the connection, and the field selection and
  validation that `bodega`, `kcensus`, `fastpaxos`, `pql` and `swift` write by
  hand.  `WireRows` gives the vocabulary of tables, and `WireDefs`, `WirePaxos`,
  `WireFastPaxos`, `WireCurp`, `WireEPaxos`, `WireSwift`, `WirePQL`,
  `WireBodega`, `WireKCensus` hold, for every message of `messages.pb.go`, four
  tables read off four separate pieces of generated code: what
  `MarshalToSizedBuffer` writes, what `Size` counts, what `UnmarshalProto`
  reads, and what the shape and `NormalizeProto` check and fill in.  The tables
  disagree wherever the generated methods do; the run is about their agreement.
  `codec` holds the tables of the types on one connection.
  A payload is a sequence of fields (number, wire type, value), not of bytes;
  the number of bytes of a varint is computed, because `Size` predicts it.
* `EPaxos` models package `epaxos` with three replicas.  A handler is an
  operator from the state of a replica to its new state and what it sends;
  `Receive` applies the one for the message's kind.  `Visit` is the depth-first
  traversal of `strongconnect`, with the components executed in the order of
  `nodeArray.Less`, and `ApplyRow` the loop of `core.apply`.  Each kind of
  message has a channel of its own in `replica.run`, so messages overtake each
  other.
* `PQLLease` models `pql/lease.go`: the record of one replica's grants and
  promises and, per packet and tick, how it changes.  `PQL` composes it with the
  rest of package `pql`: the log whose writes commit once a majority and every
  holder of the key accepted, the change of eras in `maintainConfigurations`,
  recovery and catch-up.  Time is a counter that all replicas read (clocks of one
  rate).  The configuration log is the sequence of policies it agrees on
  (`configs`), which each replica learns in order (`Decide`, `Learn`).  A local
  read changes no replicated state, so it is no action: `Serves(i)` is the
  condition on which `submit` answers one.
* `PQLInvariant` states the inductive invariants of the log of `PQL` (`Typed`, `Shape`,
  `Safety`, `Eras`), what a step may do to them (`Advance`) and what the turn of one
  replica does (`GoodTurn`).  `PQLProofs` holds the theorems about the leases, and
  shows that a step that advances keeps `Safety`; `PQLTheorems` shows that every turn
  of `Next` is a good one, and holds the theorems about the log.
* `MCPaxos`, `MCPeerStreams`, `MCFastPaxos`, `MCCurp`, `MCEPaxos`, `MCPQL`
  instantiate the constants.

Correspondence of the state: `log[i]` is `core.log` (a set of records, at most
one per slot), `values[i]` the keys of `core.values` with the slot each ran
in, `resume`, `pending`, `queue`, `assigned`, `votes`, `pages`, `promises`,
`frozen`, `witness` the fields of the same name; `alive[i]` is the connectivity
snapshot that a tick gets; `proposals` is the map in `replica.go`.  A result is
the set of executions up to and including the request (in `Curp`: the writes a
read observes): any deterministic state machine computes its value from that.
In `EPaxos`, `rep[i].inst` is `instanceSpace`, `crt`, `upTo`, `last`,
`lastWrite`, `maxSeq` are `crtInstance`, `executedUpTo`, the two halves of
`conflicts`, and `maxSeqPerKey`; `lb` is `LeaderBookkeeping`.  In `PQL`,
`core[i]` and `lease[i]` hold the fields of `core` and `leaseState`;
`guarding` is a `lastGuard` that is not zero, and the quantities the code
recomputes with every change (`readUntil`, `writeUntil`, `updating`) are
operators.  `basis` is history: the promises a holder's barrier was computed
from, as long as they stand.

## 3. Runs

| Run | Question | Bounds |
|---|---|---|
| `paxos_rotation` | do three leaders in turn, who collect promises page by page and repair slot by slot, keep one log? | 3 replicas, 2 requests, 2 slots, one record a page, ballots to 7 |
| `paxos_faults` | is a request answered although the leader crashes at any point, with any of its packets, or although any one packet of a leader change is lost? | 3 replicas, 1 request, ballots to 4 |
| `stream_bind` | does the wire carry a gapless beginning of what was admitted, with early frames first; does `Close` end the writer and give the mutex back? | 2 producers, 3 frames, queue and batch of 2, one `Bind`, one `ClosePeer` |
| `fastpaxos_takeover` | is a contested slot decided once under two coordinators, without a panic; do losers that vote again in the next slot keep one history? | 3 replicas, 2 requests, 2 slots, fast window 2, epochs to 4 |
| `fastpaxos_five` | does a recovery over any 3 of 5 keep what 4 fast votes decided? | 5 replicas, 1 slot, 1 coordinator |
| `fastpaxos_faults` | is a request answered although the coordinator crashes; does everyone catch up although any one packet is lost? | 1 request, epochs to 7 |
| `curp_witness` | does a request completed on witness records survive a leader that is deposed without noticing, and is what the clients see linearizable? | 3 replicas, a write and a later read of one key, 2 slots, ballots to 3 |
| `wire_stream` | does every message arrive as it was sent, at every field's boundary values? | every type, one field varied at a time to depth `Depth`, `MaxSent` frames |
| `epaxos_faults` | do conflicting commands execute in one order, in real-time order, through crashes, lost connections and takeovers, and does a committed value stay, also when a Commit comes late? | 3 replicas, up to 3 commands on one key, 2 instances a replica, ballots to 5 |
| `epaxos_vballot` | do two replicas commit an instance alike when evidence of two ballots meets in a recovery? (they do not) | 2 commands, one crash |
| `pql_eras` | is a grantor bound as long as a holder counts on it, through delays and changes of era; is there one log; does a holder whose first promises stand see every executed write? | 3 replicas, 2 writes to one key, 2 slots, 2 eras, 2 promises and guards a pair, guard and lease of 2 units, to time 5, ballots to 4 |
| `pql_lapse` | does every local read see every executed write? (it does not) | 1 write, guard and lease of 1 unit, to time 3, no replica paused |

**Safety of `Paxos` and `FastPaxos`.**  The safety runs keep every packet on the
wire (`Retain`), so each may be delivered again and at any later time: this
covers reordering, duplication and (since delivery is never forced) loss.
Three replicas, two slots and three ballots are the smallest instance in which
a command can be decided by one majority, be reported with two different
ballots to a third leader, and reach two slots.

**Environments.**  In `FastPaxos`, `EPaxos` and `PQL` a behaviour starts by choosing
one record of `World`.  For `FastPaxos` the record says which replicas each
client reaches, which timers run out where, which kinds of packets arrive at
which replica (`reach`; the others stay on the wire, which is a packet that is
late for ever), who may crash and how many packets may be lost.  Each
environment gives a role to each replica (who counts the fast votes, who takes
over, who only learns) and keeps the kinds that role needs.  `PQL` has records of
the same form, with the peers each replica is connected to and the time the run
ends.  `Paxos` chooses a `fault` instead: with "crash"
the leader dies at some point and nobody's repetition timer runs, so what the
successor does on its own must suffice; with "loss" the leader is down from the
start, `MaxLoss` packets vanish and the replicas in `Timed` heartbeat, repeat a
Prepare and fetch at any turn.

**`curp_witness`.**  Leader 2 of three loses replica 0, which takes over with 1,
while 2 goes on answering from its own log.  `Wire` names the kinds that arrive
between two replicas, `Timers` who repeats what, `After` that the read is issued
once the write has completed.  A client reads its mail when it holds enough to
complete; what it would have read before changes nothing but its counters.
`Threshold` with one witness more loses the completed write, and an
acknowledgement quorum of one splits the log: the mutants of the run.

**`wire_stream`.**  Integers are scaled: an `int32` has `Int32Bits` = 14 bits and
an `int64` `Int64Bits` = 28 (TLC's own integers are 32 bits wide), both whole
groups of seven and both more than the eight bits whose casts the decoders do
not check.  Every type is sent as its zero value and as a full one, and with
each field, also in nested messages (`Depth` levels), at 0, at the ends of its
range, and on both sides of each change of varint length; slices are nil, empty
and of two elements.  A second
frame follows a zero message, so that one misread length is seen.  External:
an encoder of the earlier build (default fields left out, repeated scalars
packed) and one with a wider field.  PQL's upper bound on a lease duration
(30 s in nanoseconds) does not fit the scaled width and is left out.

**`epaxos_faults`.**  Seven environments: nothing fails and each replica
proposes (`Calm`: every cycle of dependencies, also of three); replica 0
crashes at any point and its instance is taken over or asked for (`CrashOf0`);
a proposer has to take its own instance through again (`OwnRetry`); two
replicas lose each other and both work on one instance (`Split`); one replica
proposes twice (`Row`); replica 0 crashes and the one that takes its instance
over has no evidence of its own (`Unaware`); or two take it over that may lose
each other (`Feud`).  With three replicas a quorum is the replica and one
answer, so the first valid reply ends a phase and `TryPreAccept` is out of
reach.  The queue of `scheduleRecovery` is merged with the timer that fills it.
A timer may run out at any turn (`TickRepair`): nothing is assumed of the 3 s, so
what a lost owner has sent may still be in a channel when its instance is taken
over.  `handlePrepareReply` does not look at the status of the instance: when a
Commit is handled between the start of a recovery and its answers, the answers
open the committed instance again, even an executed one, and its status falls
back to ACCEPTED.  TLC reaches this, also for executed instances, in
`CrashOf0`, `Split`, `Unaware` and `Feud`.
`CommitIsFinal` says what is left: the command, the sequence number and the
dependencies stay the committed ones, since the recovery counts the evidence of
the fast commit; the status falls only by answers to the replica's own recovery,
not by a late Accept, PreAccept, Prepare or Commit of another; and nothing
executes twice, because the row's `executedUpTo` has passed an executed instance
(a row's instances depend on their predecessors).  `TypeOK` therefore allows an
instance below `executedUpTo` to be open when the replica has taken it over.
The mutant that leaves the replica's own evidence out breaks `CommitIsFinal` by
that schedule: with no evidence in the answer a no-op replaces the committed
command.  This is shown for takeovers of instances of replica 0; for those of
replicas 1 and 2 the missing `VBallot` breaks `Agreement` and `CommitIsFinal`
alike (`epaxos_vballot`).  `Requeued` (a Commit of a no-op over a
proposal that waits) is modelled and is not reached in these environments.

**`epaxos_vballot`** shows a disagreement between the code and what it says of
itself ("Corrected EPaxos implementation", `README.md`).  `handlePrepareReply`
uses `PrepareReply.VBallot` to choose among answers and to recognise evidence of
the owner's first ballot, but that field is local: it is not encoded
(`wireproto/README.md`: "intentionally absent from the wire"), so every answer
from a peer carries 0.  For an instance of replica 1 or 2, whose first ballot is
not 0, the branch that keeps the attributes of a possible fast commit is never
taken.  TLC gives the behaviour: replica 1 commits with 2 and crashes before its
Commits arrive; 0 takes the instance over, does not recognise 2's answer as
evidence of a fast commit, and commits other attributes.  The run states
`Agreement` and expects it to fail; with the field on the wire (`OnWire(vbal) ==
vbal`) TLC finds no violation in this environment.  `epaxos_faults` therefore crashes replica 0,
whose first ballot is 0.

**`pql_eras`.**  Five environments: the leader makes replica 2 a holder while a
write is on its way, and its grantors change era one after the other (`Era`); a
holder takes over under a lease (`Succession`); a lease is granted, answered,
renewed and runs out (`Leases`); the new leader excludes the one that fails
(`Exclusion`); a write is forwarded and a replica fetches what it missed
(`Forwarding`).  With a guard and a lease of two units a promise can be late by
one unit and still be admitted, and can be renewed before and after it ran out.
`Enclosed` is the claim of lease.go that a grantor's obligation encloses the
holder's usable interval; without the time a promise may travel it fails.
`FreshOnBasis` looks at every state in which `submit` would answer a read.

**`pql_lapse`** shows a disagreement between lease.go and what it says of itself
("Once active, every interfering write must notify this holder").  The barrier
up to which a holder must have executed is computed for the first majority of
promises of an epoch and kept for the rest of the epoch.  TLC gives the
behaviour: replica 1 is in the new era and grants 2, its new holder, a lease;
the leader 0 is still waiting out a promise of the old era, whose answer was
lost.  The lease of 1 lapses (the link is down for its length).  Bound to nobody,
1 accepts a write of the old era, which names the old holders, and 0 commits it.
0 then changes era and grants 2 a lease; the barrier stays the old one, and 2
answers a read without the write.  `Punctual` keeps out behaviours that need a
replica paused for a whole unit of time: a replica changes era and a leader
resends as soon as it may.  `FreshOnBasis`, which `pql_eras` checks, is the part
that holds: while the promises of the first majority stand.

**A limit of `fastpaxos` that no run keeps.**  A Commit carries no epoch.  A
coordinator that has heard from its promise quorum that slot 0 is free, then
misses the Prepare and the Accept of the next coordinator and receives its
Commit of slot 0, plans its next request for slot 0 all the same; handling its
own Accept it panics with "accept contradicts chosen".  Agreement is not at
stake: the others have promised the newer epoch.  With lossless ordered links
the Prepare arrives first.

**Fairness** (`paxos_faults`, `fastpaxos_faults`, `stream_bind`): the event loop ticks every 2 ms, packets that are not lost are
delivered, a reader notices a closed connection, and the client sends an
unanswered request again every second.  Taking the fetch branch of a Ready is
strongly fair because the fetch budget returns after 100 ms and heartbeats come
every 200 ms.  In `Sender` the goroutines are scheduled and a write to a peer
that reads ends; nothing is assumed of a peer that stalls.  In `FastPaxos` each
timer runs out again and again at a replica that is up (the ticker fires every
millisecond), packets that are not lost arrive, and the silence of a crashed
replica is noticed.  `Curp`, `EPaxos` and `PQL` are checked for
safety only.

Runs that set `CHECK_DEADLOCK FALSE` may stop: their environments send a bounded
number of requests and no timer is left.

## 4. Proofs

The theorems hold for all values of the constants under the assumptions that the
modules name: an odd number of at least three replicas (`NAssumption`), finitely
many requests, sizes and windows that are natural numbers (page and batch sizes
at least one), environments of the right form (`WorldAssumption`), a `None` that is
no vote (`NoneAssumption`), for `PQL` a first ballot and era within the bounds and a first
policy over the replicas (`BoundAssumption`, `PolicyAssumption`), and positive lease durations (`DurationAssumption`).  None
limits the number of slots, ballots, packets, crashes or losses; with `Retain` a packet may be delivered any number of times.

**Paxos, types and execution** (`PaxosProofs`).  `TypeCorrect`:
`Spec => []TypeOK`, one lemma per action.  `ExecutesOnce`: `TypeOK /\ ExecutedOnce`
is inductive, since what `apply` adds holds only requests that were not executed,
each with its first slot.

**Paxos, safety** (`PaxosProofs`).  `PaxosAgreement`, `NoPanic`
(`NoConflictingDecision`), `LeadersComplete` (`LeaderCompleteness`) and
`CommittedForGood` (`CommittedStays`) follow from the inductive invariant
`TypeOK /\ Shape /\ Safety` (`SafetyInvariant`).  None of the four is inductive:
they say nothing of acknowledgements and promises that are under way.

* `Shape` is bookkeeping: a packet of a ballot comes from its owner, a promise
  for a ballot is one snapshot cut into pages, all with the floor asked for, and
  what a candidate has gathered from a replica it counts is the whole snapshot.
* `Safety` is the argument.  `VoteInv`: a replica whose acknowledgement of a slot
  is under way or counted still has a record of that ballot or a newer one (or a
  committed one), and each of its complete promises for a newer ballot tells so.
  `Safe`: while a majority may still choose the command of an older ballot
  (`CanChoose`: each has acknowledged it or not gone past it), every record of a
  newer ballot holds that command.  `Locked`: each committed record stems from a
  ballot and a majority whose logs and promises keep it (`Lock`), and no leader
  of a newer ballot is without it.
* Packets are consumed, lost or repeated, votes are dropped with a ballot and
  records are overwritten, so `Safety` speaks of the current state only: what a
  majority once acknowledged is remembered in the `Lock`, not in a history
  variable.  `Advance` lists what a step may do to these facts; one lemma per
  action shows that it does only that, and `SafetyStays` that
  this preserves `Safety`.

**Paxos, history and refinement** (`PaxosProofs`).  `HistoryInvariant`: what a
replica has executed is what running its slots in order gives (`Ran`), and each
reply is the result at one replica.  With agreement it yields `AllSeeOneHistory`
(`OneHistory`).  `ServesOneLog` is the refinement, `Spec => OneLog!Spec`: `Paxos`
implements `DecidedLog`, with a command decided once a `Lock` exists for it.  The
mapping of `PaxosRefinement`, which a run checks, reads acknowledgements off the
wire and so needs `Retain`; a lock is never lost, so the theorem needs nothing.
The steps are: a lock stays (`LockStays`), two locks of a slot agree
(`LocksAgree`), an executed slot is locked, and the request that runs in a slot is
one that is decided there first.  That there is a first needs the least-number
principle, taken from `WellFoundedInduction`.

**Connections** (`SenderProofs`).  `WireHasNoGap`, `NothingIsDropped`,
`EarlyFramesGoFirst` and `SenderTypes` follow from `StreamInv`, which adds to them
that wire, buffer, batch in hand and queue, in this order, continue one another
until a write has failed, and where each goroutine stands while it holds what.

**Leases** (`PQLProofs`).  `LeasesEnclosed`: a holder that counts on a lease has a
grantor that is bound, in the same epoch and for longer.  `Enclosed` is not
inductive: a promise under way may still be accepted.  `LeaseInv` adds, for each
grantor and holder, that the end of the guard or of the acknowledged promise plus
the lease lies within what the grantor counts (`UnderWay`), that an answer the
grantor would count was given to a promise the holder took (`Answered`), and that
no clock value lies further ahead than a promise made now would put it
(`Horizons`).

**FastPaxos, types** (`FastPaxosProofs`).  `FastPaxosTypes`: `Spec => []TypeOK`.  `TypeOK`
alone is not inductive: a tick sends Recover to the lowest replica heard, and a
set of replicas heard has a lowest one only since a replica always hears itself
(`HearsItself`).  The slots that `flush` plans fit in the log because they are
distinct and follow `next`.

**FastPaxos, safety** (`FastPaxosTheorems`).  `FastPaxosDecidedOnce` (`DecidedOnce`) and
`FastPaxosNoPanic` (`NoPanic`) follow from `FastPaxosInvariance`: the conjunction of
`TypeInv`, `Shape` and `Safety` is inductive.  `Shape` is bookkeeping as for `Paxos`;
`OneSnapshot` says that the pages of a replica for an epoch are cut from one snapshot,
`Preparation` that a candidate's own promise is counted or on its way.  The argument is in `Safety`:

* Epoch 0 is the fast epoch: its votes differ from replica to replica and its
  quorums are the fast ones (`QuorumOf`).  In every other epoch a slot has one value
  (`OneValue`), because only the coordinator plans it and only once (`Owned`).
* What a replica voted for it keeps (`Keeps`): it holds that vote or one of a later
  epoch, and every complete promise of a later epoch reports one or the other, or a
  decision (`VoteInv`).  A coordinator asks for votes before it votes itself; once it
  has left its epoch it has voted, because its own Accept is handled before anything
  else (`PledgeInv`).
* `Safe`: while the quorum of an earlier epoch may still choose a value
  (`MayVote`: each has voted for it or has not gone past that epoch), every later
  epoch plans that value only.  `Established`: in a slot that a leading coordinator
  has not planned, no earlier epoch can choose anything any more.
* `Locked`: each decision stems from an epoch and a quorum that keeps it.

Where a coordinator selects (`Selection`), a value that may have been chosen by fast
votes is reported by at least `Minimum` of the promises, and no other value is, since
two fast quorums and a majority have a replica in common (`FastMeet`); a value of a
later epoch is the only one in the newest epoch reported.  `FastPaxosProofs` shows, one
lemma per action, that every step moves as `Moves` lists; the proofs that `Shape` and
`Safety` are preserved look at `Moves` only.

**FastPaxos, history and refinement** (`FastPaxosTheorems`).  The argument is that of
`Paxos`, on arrays of decisions instead of logs of records: `FastPaxosHistory`
(`History` is kept, because decisions are not taken back, `ChosenKept`),
`FastPaxosOneHistory` (`OneHistory`) and `FastPaxosServesOneLog`
(`Spec => OneLog!Spec`).  A slot counts as decided once some epoch and quorum have a
`Lock` on it.  The votes that made it are overwritten in later epochs, and the
mapping of `FastPaxosRefinement`, which a run checks, needs `Retain` for that reason;
the lock stays (`LockStays`), and what a replica learns in a step is locked before it
(`ChosenDecided`).

**Curp, types** (`CurpProofs`).  `TypeCorrect`: `Spec => []TypeOK`, one lemma per
action.  `TypeOK` is inductive because it also says that a log ends at `high`, that
nothing above it is executed, and that every witness record carries the ballot it was
made in.

**Curp, the log** (`CurpTheorems`).  `LogsAgree` (`Agreement`) follows from
`ReplicasConsistent`: `TypeOK /\ Shape /\ Safety` is inductive.  The names are those of
`Paxos`, and so is the argument, but less may be relied on:

* A vote goes to everyone and everyone counts it, so `Voted` looks at the votes of every
  replica that is in the ballot, and a follower may mark a record committed on its own
  (`Chosen`).
* Connections deliver once and lose the rest when they end.  A promise is therefore
  not a fact that stays: `Whole` says that all pages of a snapshot still exist, under way
  or collected, for a ballot that is not yet taken over, and only whole promises have to
  report what was voted for (`Tells`, `Reports`).
* A follower may enter a ballot on hearing Ready, without having promised anything;
  `Led` says when the owner of a ballot has taken over, and a replica that has promised
  keeps still until then (`Frozen`).

**Curp, answers before replication** (`CurpTheorems`).  `CompletedRequestsSurvive`
(`CompletedSurvives`) follows from `RequestsRemembered`: `Memory` is kept by every step
that keeps the above.  A completed request is either settled (`Settled`: a majority has
locked it) or recorded at a fast quorum of replicas, each of which still holds the record
or knows the request settled, and each whole promise of which names the request
(`Remembers`).  `Backing` says this of every support that a client holds or may still
get, `Answering` that no leader of a newer ballot lacks a request that an older ballot
may still answer.  At a leader change it is arithmetic: of any majority that promises, at
least `Threshold` are in the fast quorum, so `promiseReply` finds the request among its
promises' records or its log.  A record that `apply` discards is one whose request is
settled (`Forgets`).

**PQL, the log** (`PQLTheorems`).  `LogAgreement` (`Agreement`) and `LogTypes` (`TypeOK`)
follow from `LogInvariant`: `Typed /\ Shape /\ Safety /\ Eras /\ LeaseInv` is
inductive.  The argument and most names are those of `Paxos`; packets stay in `msgs`, which
makes them late, repeated or lost as it happens.  What differs:

* A write waits for its holders besides a majority, and the eras that name them
  differ from replica to replica.  The proof needs none of it: an epoch only delays a
  write, so records are looked at without theirs (`Entry`), and whatever the era is, a
  write is committed by votes of a majority at least (`Won`).
* A turn does many things in a row: it may change era, finish a recovery, send its
  suffix again under the new era, count its own votes, commit, apply and take up what
  was pending.  The operators of the model are functions from core to core, each lemma
  says what one of them leaves alone or makes grow (`Still`, `Grows`), and the turn
  is put together from them.
* The core keeps a record of every slot it knows, with the epoch it was last sent in.  A
  leader that sends its suffix again under a new era or a resending timer makes new
  packets of old entries (`Restated`); a leader that takes over makes them of what its
  promises report (`Adopted`).  `TookOver` says that it has then everything that an
  older ballot could still choose, and everything that is locked.
* `Eras` (that the eras in use are policies of the configuration log) is what the types
  rest on: an epoch indexes `configs`.

Each inductive invariant was first checked with TLC, on the constants of the runs:
`Shape` and `Safety` on `paxos_rotation` and `paxos_faults`, `[][Advance]_vars`,
`History`, `Runs` and `OneLog!Spec` on `paxos_faults`, `StreamInv` on
`stream_bind`, `LeaseInv` on `pql_eras`, `HearsItself` on `fastpaxos_takeover`,
`Shape` and `Safety` of `FastPaxos` on all three of its runs, its `History` and
`OneLog!Spec` on `fastpaxos_faults`, `Shape`, `Safety` and `Memory` of `Curp` on
`curp_witness`, and `Typed`, `Shape`, `Safety`, `Eras` and `[][Advance]_vars` of `PQL` on
`pql_eras`.

Only model-checked:

* every liveness property (fairness and ENABLED are out of the prover's reach);
* `Wire` and `EPaxos`, which use recursive operators the prover does not handle;
* `Linearizable` of `Curp`, which asks for an order of all requests, and the existence
  of one is an induction over them;
* `FreshOnBasis` of `PQL`, which needs the log, the eras and the leases in one invariant:
  every write that an acceptor admitted, and the policy it was admitted under, against
  every promise that may still become part of a holder's `basis`.

## 5. Not modelled

* Statistics and logging; `state` (sequential); `config`, `placement`,
  `heatprofile`, `slurm`, `templates` (no run-time state).
* Connection set-up and sender registration in `replica`, the `master` and the
  `client` library's failover: they run over RPC and dialling that the models
  do not have.
* `swift`, `bodega`, `kcensus`: their messages and validation are in `Wire`;
  their protocols (dependency votes and checkpoints, rosters) are not modelled.
* `pql`: the ballots and packets of the configuration log, the read counts
  behind a change of holders (any choice of the right size is proposed), reads
  that go through the log, clocks of different rates, the client.
* `fastpaxos`: deferred fast votes (`core.vote` is only called with a payload at
  hand, so `deferred` is never set), the client's fan-out.
* `epaxos`: `TryPreAccept` and its answer (they need five replicas), batches,
  the durable log, beacons, a full `ProposeChan`.
* `curp`: a send queue that is full in the middle of a connection.
* `wireproto`: no document bounds a client's values, so no property forbids the
  panic on a packet over its type's limit, which `wire_stream` reaches.
* The panics on a reused request identifier (a request is its identifier and
  its command).

## 6. Plan

1. A theorem that `FreshOnBasis` holds of `PQL`.
2. `Bodega`: rosters, local reads racing writes and expiry.
3. `Swift` and `KCensus`: dependency votes, batches, checkpoints.
4. `Master` and the client's failover and retries, with the unlocked ping loop
   against `GetLeader`.
5. Runs still missing: a `FastPaxos` fetch larger than its budget, the answer to
   a request that found the fast window full, that a missing payload is fetched
   in the end, `EPaxos` with five replicas.
