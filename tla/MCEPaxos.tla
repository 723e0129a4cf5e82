------------------------------ MODULE MCEPaxos ------------------------------
(***************************************************************************)
(* Instances of EPaxos for TLC.                                            *)
(***************************************************************************)
EXTENDS EPaxos, TLC

CONSTANTS c1, c2, c3, c4

\* One key; the no-op is about key 0 and the commands about key 1.
Keys == {0, 1}
KeyOfCommand == [x \in Command \cup {Noop} |-> IF x = Noop THEN 0 ELSE 1]
HomeOf == [x \in Command |-> CASE x \in {c1, c4} -> 0 [] x = c2 -> 1 [] x = c3 -> 2]
\* Everybody asks its right neighbour; or 0 and 1 ask each other.
Cyclic == 0 :> <<1, 2>> @@ 1 :> <<2, 0>> @@ 2 :> <<0, 1>>
Mutual == 0 :> <<1, 2>> @@ 1 :> <<0, 2>> @@ 2 :> <<0, 1>>
\* Or 0 asks 2, and 1 and 2 ask 0.
Far == 0 :> <<2, 1>> @@ 1 :> <<0, 2>> @@ 2 :> <<0, 1>>

Env(proposed, order, mortal, link, timed) ==
    [proposed |-> proposed, order |-> order, mortal |-> mortal, link |-> link, timed |-> timed]
\* Each replica proposes and nothing fails: every dependency cycle.
Calm == Env({c1, c2, c3}, Cyclic, {}, {}, {})
\* 0 crashes at any point; 1 takes its instance over and 2 asks for that.
CrashOf0 == Env({c1, c2}, Mutual, {0}, {}, {<<1, <<0, 0>>>>, <<2, <<0, 0>>>>})
\* 2 proposes through 0, which crashes: 2 takes its own instance through again.
OwnRetry == Env({c3}, Cyclic, {0}, {}, {<<2, <<2, 0>>>>})
\* 0 and 1 lose each other; 1 takes the instance of 0 over while 0 goes on.
Split == Env({c1}, Cyclic, {}, {<<0, 1>>, <<1, 0>>}, {<<1, <<0, 0>>>>})
\* 0 proposes twice.
Row == Env({c1, c2, c4}, Cyclic, {}, {}, {})
\* 0 crashes; 1, which has no evidence of its own, takes its instance over.
Unaware == Env({c1, c2}, Far, {0}, {}, {<<1, <<0, 0>>>>})
\* 0 crashes, 1 may lose everybody and 2 may lose 1: both take the instance of 0
\* over, and each hears of the other's Prepare, Accept and Commit late.
Feud == Env({c1}, Cyclic, {0}, {<<1, 0>>, <<1, 2>>, <<2, 1>>},
            {<<1, <<0, 0>>>>, <<2, <<0, 0>>>>})
WorldFaults == {Calm, CrashOf0, OwnRetry, Split, Row, Unaware, Feud}
\* 1 crashes, and 0 takes its instance over.
WorldVBallot == {Env({c1, c2}, Cyclic, {1}, {}, {<<0, <<1, 0>>>>})}
=============================================================================
