----------------------------- MODULE DecidedLog -----------------------------
(***************************************************************************)
(* What a replicated log of this repository promises (paxos, and the other *)
(* protocols that execute one totally ordered log): slots are decided once *)
(* and for all, a replica executes the decided commands in slot order      *)
(* without gaps, a request takes effect in the first slot that holds it,   *)
(* and a client is answered with the result of that one execution.         *)
(***************************************************************************)
EXTENDS Integers, FiniteSets

CONSTANTS Replica, Request, Noop, MaxSlot

VARIABLES
    decided,   \* the decided commands: a set of <<slot, command>>
    executed,  \* executed[i]: the last slot replica i has executed
    replies    \* the results sent to clients

Slot == 0..MaxSlot
Command == Request \cup {Noop}

\* A request takes effect in the first decided slot that holds it.
First(D, r, s) == <<s, r>> \in D /\ \A t \in 0..(s - 1) : <<t, r>> \notin D
History(D, s) == {[req |-> x[1], slot |-> x[2]] :
                     x \in {y \in Request \X (0..s) : First(D, y[1], y[2])}}

Init ==
    /\ decided = {}
    /\ executed = [i \in Replica |-> -1]
    /\ replies = {}

\* Some slots are decided, each for the first time.
Decide(D) ==
    /\ \A d \in D, x \in D \cup decided : d[1] = x[1] => d = x
    /\ decided' = decided \cup D

Answers(D, S) == {[req |-> x[1], result |-> History(D, x[2])] :
                     x \in {y \in Request \X S : First(D, y[1], y[2])}}

\* Replica i executes the decided slots up to m, and may answer requests that it
\* has executed, now or earlier.
Execute(i) ==
    \E m \in executed[i]..MaxSlot :
        /\ \A s \in 0..m : \E c \in Command : <<s, c>> \in decided
        /\ executed' = [executed EXCEPT ![i] = m]
        /\ \E A \in SUBSET Answers(decided, 0..m) : replies' = replies \cup A

\* A replica that executes what was decided may decide a later slot in the same
\* step.
Next ==
    /\ \E D \in SUBSET (Slot \X Command) : Decide(D)
    /\ UNCHANGED <<executed, replies>> \/ \E i \in Replica : Execute(i)

Spec == Init /\ [][Next]_<<decided, executed, replies>>
=============================================================================
