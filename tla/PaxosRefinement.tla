-------------------------- MODULE PaxosRefinement --------------------------
(***************************************************************************)
(* Paxos implements DecidedLog.  A command is decided in a slot when a     *)
(* majority has accepted it in one ballot: the leader, by proposing it,    *)
(* and the replicas whose acknowledgement of that ballot is on the wire.   *)
(* The mapping reads the packets sent so far, so it is meant for Retain.   *)
(***************************************************************************)
EXTENDS Paxos

Ackers(b, s) == {a.from : a \in {m \in msgs : /\ m.kind = "Ack" /\ m.ballot = b
                                              /\ s \in m.slots}}
ChosenCommands ==
    UNION {{<<r.slot, r.req>> : r \in
              {q \in m.recs : Cardinality({m.from} \cup Ackers(m.ballot, q.slot)) >= Majority}}
             : m \in {p \in msgs : p.kind = "Accept"}}

Abstract == INSTANCE DecidedLog WITH decided <- ChosenCommands

\* Decisions are final, executions follow the decided order without gaps and
\* every reply carries the result of the one execution of its request: the
\* replicas together behave as one replicated log.
ImplementsDecidedLog == Abstract!Spec
=============================================================================
