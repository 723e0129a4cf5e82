---------------------------- MODULE MCFastPaxos ----------------------------
(***************************************************************************)
(* Instances of FastPaxos for TLC.                                         *)
(***************************************************************************)
EXTENDS FastPaxosRefinement, TLC

CONSTANTS r1, r2

\* Each instance gives a role to each replica and keeps the timers and the kinds
\* of packets that role needs.
Faultless(route, timers, reach) ==
    [route |-> route, timers |-> timers, reach |-> reach, mortal |-> {}, losses |-> 0,
     silent |-> {}, last |-> 0]
NoTimers == [i \in Replica |-> {}]
AgeAt0 == [NoTimers EXCEPT ![0] = {"age"}]

\* 1 stops hearing 0 and takes over from it: two coordinators in turn.  r1 wins
\* the fast path unless r2 comes first at replica 1; only 2 counts the votes.
Duel ==
    [Faultless(r1 :> Replica @@ r2 :> {1}, AgeAt0,
               0 :> {"Promise", "Accepted", "Nack"}
                 @@ 1 :> {"Prepare", "Promise", "Accept", "Accepted"}
                 @@ 2 :> {"Vote", "Prepare", "Accept", "Commit"})
     EXCEPT !.silent = {<<1, 0>>}]
\* Two slots, and 0 hears of r2 from the others only: it takes over while 2 counts.
TwoSlots ==
    [Faultless(r1 :> Replica @@ r2 :> {1, 2}, AgeAt0,
               0 :> {"Promise", "Accepted"} @@ 1 :> {"Prepare", "Accept"}
                 @@ 2 :> {"Vote", "Commit"})
     EXCEPT !.last = 1]
WorldTakeover == {Duel, TwoSlots}
\* Of five replicas, 3 may vote for either request; nobody counts the votes.
Five ==
    Faultless(r1 :> {0, 1, 2, 3} @@ r2 :> {3, 4}, AgeAt0,
              [i \in Replica |-> CASE i = 0 -> {"Promise", "Accepted"}
                                   [] i \in {1, 3} -> {"Prepare"}
                                   [] OTHER -> {"Prepare", "Accept"}])
\* Replica 4 counts the votes and asks 0 for the payload it never got.
Payload ==
    Faultless(r1 :> 0..3 @@ r2 :> {}, [NoTimers EXCEPT ![4] = {"retry"}],
              [i \in Replica |-> CASE i = 4 -> {"Vote", "Data"}
                                   [] i = 0 -> {"Vote", "FetchValue"}
                                   [] OTHER -> {}])
WorldFive == {Five, Payload}
\* Fast votes are late everywhere; the coordinator 0 crashes, and 1 takes over.
CrashOf0 ==
    [route |-> [r \in Request |-> {1}],
     timers |-> [NoTimers EXCEPT ![1] = {"age", "retry"}],
     reach |-> 0 :> {"Promise", "Accepted", "Recover", "Forward"}
                 @@ 1 :> {"Prepare", "Promise", "Accepted", "Commit"}
                 @@ 2 :> {"Prepare", "Accept"},
     mortal |-> {0}, losses |-> 0, silent |-> {}, last |-> 0]
\* 0 takes over with 1, 2 only learns, and one packet is lost.
OnePacketLost ==
    [route |-> [r \in Request |-> {0}],
     timers |-> [NoTimers EXCEPT ![0] = {"age", "beat", "repair"}],
     reach |-> 0 :> {"Promise", "Accepted", "FetchSlots"}
                 @@ 1 :> {"Prepare", "Accept", "Commit"}
                 @@ 2 :> {"Commit", "Heartbeat"},
     mortal |-> {}, losses |-> 1, silent |-> {}, last |-> 0]
WorldFaults == {CrashOf0, OnePacketLost}
=============================================================================
