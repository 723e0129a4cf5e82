------------------------------ MODULE MCPaxos ------------------------------
(***************************************************************************)
(* Model-checking instances of Paxos: which replicas the clients send each *)
(* request to, and which connections may fail.                             *)
(***************************************************************************)
EXTENDS PaxosRefinement, TLC

CONSTANTS r1, r2

\* One request reaches the initial leader 2, the other its successor 0.
RouteRotation == r1 :> {0} @@ r2 :> {2}
\* 0 loses its connection to leader 2 and takes over with 1; then 1 loses its
\* connection to 0 and takes over with 2: three leaders, three quorums.
LinkRotation == {<<0, 2>>, <<1, 0>>}

RouteBackups == r1 :> {1, 2}
NoLink == {}
=============================================================================
