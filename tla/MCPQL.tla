------------------------------- MODULE MCPQL -------------------------------
(***************************************************************************)
(* Instances of PQL for TLC: replica 0 leads, 1 grants, 2 is to hold.      *)
(***************************************************************************)
EXTENDS PQL

CONSTANTS w1, w2

NoSuspicion == [i \in Replica |-> {}]

\* 0 makes 2 a holder while a write is on its way; 1, and later 0, grant 2 leases.
Era ==
    [route |-> [r \in Put |-> IF r = w1 THEN {0} ELSE {}],
     alive |-> [i \in Replica |-> {2} \ {i}],
     timers |-> [i \in Replica |-> IF i = 0 THEN {"holders", "send"} ELSE {}],
     suspect |-> NoSuspicion,
     reach |-> [i \in Replica |-> CASE i = 0 -> {"Ack", "GuardAck"}
                                    [] i = 1 -> {"Accept", "GuardAck", "LeaseReply"}
                                    [] OTHER -> {"Accept", "Guard", "LeasePromise"}],
     until |-> 3]
\* 0 granted 2 a lease before the change, and 2's answer to it is lost; 1 does not
\* renew the lease it grants 2 after the change; 2 gets no Accept.
WorldLapse == {[Era EXCEPT !.timers[0] = {"renew", "holders"},
                           !.reach[2] = {"Guard", "LeasePromise"}]}
\* 1, a holder under 2's lease, takes over from 0.
Succession ==
    [route |-> [r \in Put |-> IF r = w1 THEN {0, 1} ELSE {}],
     alive |-> [i \in Replica |-> IF i = 2 THEN {1} ELSE {2}],
     timers |-> [i \in Replica |-> CASE i = 1 -> {"leader"} [] i = 2 -> {"renew"}
                                     [] OTHER -> {}],
     suspect |-> NoSuspicion,
     reach |-> [i \in Replica |-> CASE i = 0 -> {"Ack", "Accept", "Prepare"}
                                    [] i = 1 -> {"Ack", "Accept", "Commit", "Promise", "Guard", "LeasePromise"}
                                    [] OTHER -> {"Accept", "Prepare", "GuardAck", "LeaseReply"}],
     until |-> 2]
\* 1 grants leases to 2, whose reads wait.
Leases ==
    [route |-> [r \in Put |-> {}],
     alive |-> [i \in Replica |-> {2} \ {i}],
     timers |-> [i \in Replica |-> CASE i = 1 -> {"renew"} [] i = 2 -> {"read"} [] OTHER -> {}],
     suspect |-> NoSuspicion,
     reach |-> [i \in Replica |-> CASE i = 0 -> {}
                                    [] i = 1 -> {"GuardAck", "LeaseReply"}
                                    [] OTHER -> {"Guard", "LeasePromise"}],
     until |-> 5]
\* 1 takes over, finds 0 unresponsive and excludes it from the policy.
Exclusion ==
    [route |-> [r \in Put |-> IF r = w1 THEN {1} ELSE {}],
     alive |-> [i \in Replica |-> IF i = 2 THEN {1} ELSE {2}],
     timers |-> [i \in Replica |-> CASE i = 1 -> {"leader", "config"} [] i = 2 -> {"renew"}
                                     [] OTHER -> {}],
     suspect |-> NoSuspicion,
     reach |-> [i \in Replica |-> CASE i = 0 -> {}
                                    [] i = 1 -> {"Ack", "Promise", "Guard", "LeasePromise"}
                                    [] OTHER -> {"Accept", "Prepare", "GuardAck"}],
     until |-> 2]
\* 1 forwards one write, 0 orders the other; 1 fetches what it missed.
Forwarding ==
    [route |-> [r \in Put |-> IF r = w1 THEN {1} ELSE {0}],
     alive |-> [i \in Replica |-> Replica \ {i}],
     timers |-> [i \in Replica |-> IF i = 0 THEN {"send"} ELSE {}],
     suspect |-> NoSuspicion,
     reach |-> [i \in Replica |-> CASE i = 0 -> {"Forward", "Ack", "Fetch"}
                                    [] i = 1 -> {"Accept", "Commit", "Ready", "ForwardReply"}
                                    [] OTHER -> {}],
     until |-> 1]
WorldEras == {Era, Succession, Leases, Exclusion, Forwarding}
=============================================================================
