----------------------------- MODULE PQLLease ------------------------------
(***************************************************************************)
(* Package pql, lease.go: what one replica keeps about the leases it       *)
(* grants and the promises it holds, and how a packet or a tick changes    *)
(* it.  Every operator takes the replica's record l and the time t of its  *)
(* clock.                                                                  *)
(*                                                                         *)
(* Expiries are clock values; 0, the zero time, is never in the future.    *)
(* readUntil and writeUntil are recomputed by the code wherever an expiry  *)
(* changes, so they are operators here.  renewAt only paces the renewals:  *)
(* when one is due is for the caller to choose.                            *)
(***************************************************************************)
EXTENDS Integers, FiniteSets, FiniteSetsExt

CONSTANTS
    N,              \* number of replicas; replicas are 0 .. N-1
    GuardDuration,  \* how long a guard admits a promise (2s)
    LeaseDuration,  \* how long a promise lasts (2s)
    FailureGrace    \* how long acknowledged promises are remembered beyond these (5s)

ASSUME NAssumption == N \in Nat /\ N >= 3 /\ N % 2 = 1
ASSUME DurationAssumption ==
    /\ GuardDuration \in Nat \ {0} /\ LeaseDuration \in Nat \ {0} /\ FailureGrace \in Nat

Replica == 0..(N - 1)
Genesis == 1
Quorum == N \div 2 + 1
ToAll(x) == [p \in Replica |-> x]

NewLease ==
    [promisedBy |-> Genesis, promisedTo |-> -1, catchup |-> -1, complete |-> FALSE,
     \* as grantor, per peer
     guardSequence |-> ToAll(0), guarding |-> ToAll(FALSE), sentSequence |-> ToAll(0),
     ackSequence |-> ToAll(0), lastAckTime |-> ToAll(0), latestReplies |-> ToAll(0),
     \* as holder, per peer
     receivedGuard |-> ToAll(0), guardExpires |-> ToAll(0), receivedSequence |-> ToAll(0),
     latestPromises |-> ToAll(0), frontiers |-> ToAll(-1), ackTimes |-> ToAll({})]

-----------------------------------------------------------------------------
(***************************************************************************)
(* The grantor.                                                            *)
(***************************************************************************)
CanWriteOutside(l, t) == \A p \in Replica : t >= l.latestReplies[p]

SwitchEpoch(l, epoch) ==
    [l EXCEPT !.promisedBy = epoch, !.latestReplies = ToAll(0), !.guarding = ToAll(FALSE),
              !.ackSequence = ToAll(0)]

\* sendPromise: guarded after a guard's acknowledgement, else a renewal.
\* Mutant of Obliged: the time a promise may travel is left out.
ObligedBriefly(l, peers, t) ==
    [l EXCEPT !.sentSequence = [p \in Replica |-> IF p \in peers THEN @[p] + 1 ELSE @[p]],
              !.latestReplies =
                 [p \in Replica |-> IF p \in peers THEN t + LeaseDuration ELSE @[p]]]
Obliged(l, peers, t) ==
    [l EXCEPT !.sentSequence = [p \in Replica |-> IF p \in peers THEN @[p] + 1 ELSE @[p]],
              !.latestReplies =
                 [p \in Replica |-> IF p \in peers THEN t + GuardDuration + LeaseDuration
                                    ELSE @[p]]]
\* A negative reference names the guard, a positive one an acknowledged promise.
Promise(l, i, p, t, frontier, guarded) ==
    [kind |-> "LeasePromise", from |-> i, to |-> p, epoch |-> l.promisedBy,
     stamp |-> l.sentSequence[p] + 1, frontier |-> frontier,
     ack |-> IF guarded THEN -l.guardSequence[p] ELSE l.ackSequence[p],
     elapsed |-> IF guarded THEN 0 ELSE t - l.lastAckTime[p]]

\* tick: an acknowledged grant that still stands is renewed, any other starts
\* again with a guard.
Renewed(l, peers, t) == {p \in peers : l.ackSequence[p] > 0 /\ t < l.latestReplies[p]}
TickLease(l, peers, t) ==
    LET r == Renewed(l, peers, t)
    IN  [Obliged(l, r, t) EXCEPT
            !.guardSequence = [p \in Replica |-> IF p \in peers \ r THEN @[p] + 1 ELSE @[p]],
            !.guarding = [p \in Replica |-> p \in peers \ r \/ @[p]]]
TickSends(l, i, peers, t, frontier) ==
    LET r == Renewed(l, peers, t)
    IN  {Promise(l, i, p, t, frontier, FALSE) : p \in r}
          \cup {[kind |-> "Guard", from |-> i, to |-> p, epoch |-> l.promisedBy,
                 stamp |-> l.guardSequence[p] + 1] : p \in peers \ r}

GuardAcked(l, m) ==
    /\ m.epoch = l.promisedBy /\ m.stamp = l.guardSequence[m.from] /\ l.guarding[m.from]
OnGuardAck(l, m, t) == [Obliged(l, {m.from}, t) EXCEPT !.guarding[m.from] = FALSE]

\* An acknowledgement shortens the grant it answers, and never extends it.
Answers(l, m, t) ==
    /\ m.epoch = l.promisedBy /\ m.stamp = l.sentSequence[m.from]
    /\ t < l.latestReplies[m.from]
OnReply(l, m, t) ==
    [l EXCEPT !.ackSequence[m.from] = m.stamp, !.lastAckTime[m.from] = t,
              !.latestReplies[m.from] = Min({@, t + LeaseDuration})]

-----------------------------------------------------------------------------
(***************************************************************************)
(* The holder.                                                             *)
(***************************************************************************)
OnGuard(l, m, t) ==
    [l EXCEPT !.receivedGuard[m.from] = m.stamp,
              !.guardExpires[m.from] = t + GuardDuration]

Admissible(l, m, t) ==
    /\ m.stamp > l.receivedSequence[m.from]
    /\ \/ /\ m.ack < 0 /\ m.ack = -l.receivedGuard[m.from] /\ t < l.guardExpires[m.from]
       \/ \E a \in l.ackTimes[m.from] :
             m.ack = a.stamp /\ t - a.at < m.elapsed + GuardDuration

Live(l, t) == {p \in Replica : t < l.latestPromises[p]}
\* readUntil is the expiry of the last of the N \div 2 promises that last longest.
CanRead(l, t, executed) ==
    /\ l.promisedTo >= 0 /\ Cardinality(Live(l, t)) >= N \div 2
    /\ executed >= l.catchup

\* The promises recomputeReadUntil counts: the ones that last longest, the lower
\* identifier first.
Longest(l, t) ==
    {p \in Live(l, t) :
        Cardinality({q \in Live(l, t) :
            \/ l.latestPromises[q] > l.latestPromises[p]
            \/ l.latestPromises[q] = l.latestPromises[p] /\ q < p}) < N \div 2}
\* Does promise m complete a majority for the first time in its epoch?
Activates(l, t) == ~l.complete /\ Cardinality(Live(l, t)) >= N \div 2
Activated(l, t) ==
    IF Activates(l, t)
    THEN [l EXCEPT !.complete = TRUE, !.catchup = Max({l.frontiers[p] : p \in Longest(l, t)})]
    ELSE l

\* A promise of a newer epoch ends the ones held.
Advanced(l, epoch) ==
    IF epoch > l.promisedTo
    THEN [l EXCEPT !.promisedTo = epoch, !.complete = FALSE, !.catchup = -1,
                   !.latestPromises = ToAll(0), !.frontiers = ToAll(-1)]
    ELSE l
Promised(l, m, t) ==
    [Advanced(l, m.epoch) EXCEPT
        !.receivedSequence[m.from] = m.stamp,
        !.latestPromises[m.from] = t + LeaseDuration,
        !.frontiers[m.from] = m.frontier,
        !.ackTimes[m.from] =
            {a \in @ \cup {[stamp |-> m.stamp, at |-> t]} :
                t - a.at <= FailureGrace + GuardDuration + LeaseDuration}]
OnPromise(l, m, t) ==
    IF m.epoch < l.promisedTo THEN l ELSE Activated(Promised(l, m, t), t)
=============================================================================
