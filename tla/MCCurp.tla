------------------------------- MODULE MCCurp -------------------------------
(***************************************************************************)
(* Instances of Curp for TLC.                                              *)
(***************************************************************************)
EXTENDS Curp

\* A write of one client, and the read of the same key by another one, issued
\* once the write has completed.  Recovery orders the read's identifier first.
OpGetPut == (1 :> "GET") @@ (2 :> "PUT")
AfterPut == (1 :> {2}) @@ (2 :> {})
OneKey == [r \in Request |-> {"k"}]
OwnClient == [r \in Request |-> r]
\* 0 loses its connection to leader 2, which may still be up, and takes over.
LinkDeposed == {<<0, 2>>}
Kind == {"Prepare", "Promise", "Accept", "Ack", "Commit", "Ready", "Fetch"}
\* 0 and 1 hear each other and the leader 2, which hears nobody; its votes do
\* not reach 1.
WireDeposed == {<<0, 1, k>> : k \in Kind} \cup {<<1, 0, k>> : k \in Kind}
                 \cup {<<2, 0, "Accept">>, <<2, 0, "Ack">>, <<2, 1, "Accept">>}
\* 0 repeats its Prepare, 1 fetches, and the deposed leader keeps repeating its log.
TimersDeposed == {<<0, "prepare">>, <<1, "fetch">>, <<2, "heartbeat">>}
=============================================================================
