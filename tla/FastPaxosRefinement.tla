------------------------ MODULE FastPaxosRefinement ------------------------
(***************************************************************************)
(* FastPaxos implements DecidedLog.  A command is decided when a fast      *)
(* quorum has voted for it, or a majority has accepted it in one epoch.    *)
(* The mapping reads the packets sent so far, so it is meant for Retain.   *)
(***************************************************************************)
EXTENDS FastPaxos

FastVoters(s, v) ==
    {m.from : m \in {p \in msgs : p.kind = "Vote" /\ p.slot = s /\ p.value = v}}
ClassicVoters(e, s) ==
    {Owner(e)} \cup {m.from : m \in {p \in msgs : /\ p.kind = "Accepted"
                                                   /\ p.epoch = e /\ p.slot = s}}
ChosenCommands ==
    {x \in Slot \X Request : Cardinality(FastVoters(x[1], x[2])) >= FastQuorum}
      \cup {<<m.slot, m.value>> :
              m \in {p \in msgs : /\ p.kind = "Accept"
                                  /\ Cardinality(ClassicVoters(p.epoch, p.slot)) >= Majority}}

\* No slot is decided twice: a command with a fast quorum of votes is the only
\* one a later epoch may decide, also when nobody has counted those votes.
DecidedOnce == \A x, y \in ChosenCommands : x[1] = y[1] => x = y

Abstract == INSTANCE DecidedLog WITH decided <- ChosenCommands

\* A slot is decided once, by fast votes or in a classic epoch, even before
\* anyone knows; executions and replies follow the decided order.
ImplementsDecidedLog == Abstract!Spec
=============================================================================
