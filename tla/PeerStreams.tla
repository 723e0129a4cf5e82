---------------------------- MODULE PeerStreams ----------------------------
(***************************************************************************)
(* One peer of PeerStreams (replica/streams.go) with its PendingSender and *)
(* Sender: frames queued before the connection is bound are handed to the  *)
(* sender by Bind.  Enqueue, Bind and ClosePeer hold the mutex mu; the     *)
(* sender's writer and the reader of the connection do not take it.  A     *)
(* Transport's connection has the Sender alone: it is there from the start *)
(* and its callers share no mutex (mu = "none").                           *)
(***************************************************************************)
EXTENDS Sender

VARIABLES
    mu,        \* which call holds the mutex, "free" if none; "none": no stream
    bound,     \* the PendingSender has its Sender
    pending,   \* frames queued before
    removed,   \* the peer is in PeerStreams.closed
    accepted   \* history: the frames Enqueue returned nil for

streamVars == <<mu, bound, pending, removed, accepted>>
allVars == <<vars, streamVars>>

Caller == CHOOSE p \in Producer : TRUE

StreamInit ==
    /\ offered = {} /\ holding = [p \in Producer |-> None]
    /\ queue = <<>> /\ ended = FALSE
    /\ batch = <<>> /\ buffer = <<>> /\ wire = <<>> /\ closing = 0
    /\ stalled = FALSE /\ broken = FALSE /\ admitted = <<>>
    /\ pending = <<>> /\ removed = FALSE /\ accepted = <<>>
    /\ \/ mu = "free" /\ bound = FALSE /\ writer = "unbound" /\ capacity = -1
       \/ mu = "none" /\ bound = TRUE /\ writer = "take" /\ capacity = Capacity

-----------------------------------------------------------------------------
\* The callers of Transport.Send.
SendBegin(p, f) == mu = "none" /\ Offer(p, f) /\ UNCHANGED streamVars
SendEnd(p) == mu = "none" /\ Enqueue(p) /\ UNCHANGED streamVars

\* Enqueue of a stream that is not bound: the frame is kept.
EnqueueEarly(f) ==
    /\ mu = "free" /\ ~removed /\ ~bound /\ f \notin offered
    /\ offered' = offered \cup {f}
    /\ pending' = Append(pending, f)
    /\ accepted' = Append(accepted, f)
    /\ UNCHANGED <<holding, senderVars, netVars, admitted, mu, bound, removed>>

\* Mutant of CanEnqueue: the mutex is not taken.
Overtakes == ~removed /\ bound
CanEnqueue == mu = "free" /\ ~removed /\ bound

\* Enqueue of a bound one: its Sender's Enqueue, in two steps, under mu.
EnqueueBegin(f) ==
    /\ CanEnqueue
    /\ Offer(Caller, f)
    /\ mu' = IF Closed THEN mu ELSE "enqueue"
    /\ UNCHANGED <<bound, pending, removed, accepted>>

EnqueueEnd ==
    /\ mu = "enqueue"
    /\ Enqueue(Caller)
    /\ accepted' = IF admitted' = admitted THEN accepted
                   ELSE Append(accepted, holding[Caller])
    /\ mu' = "free"
    /\ UNCHANGED <<bound, pending, removed>>

\* Bind starts the sender, then hands over the early frames in their order; a
\* frame the sender refuses is gone.
Bind ==
    /\ mu = "free" /\ ~removed /\ ~bound
    /\ bound' = TRUE
    /\ writer' = "take"
    /\ mu' = "bind"
    /\ UNCHANGED <<producerVars, queueVars, writerVars, closing, netVars, admitted,
                   pending, removed, accepted>>

HandOver ==
    /\ mu = "bind" /\ pending # <<>>
    /\ pending' = Tail(pending)
    /\ IF Closed THEN UNCHANGED <<queue, admitted, writer>> ELSE Admit(Head(pending))
    /\ UNCHANGED <<producerVars, ended, writerVars, closing, netVars,
                   mu, bound, removed, accepted>>

Bound ==
    /\ mu = "bind" /\ pending = <<>>
    /\ mu' = "free"
    /\ UNCHANGED <<vars, bound, pending, removed, accepted>>

\* ClosePeer and Close: the mark, the Sender's Close if there is one, and the
\* early frames are dropped.
ClosePeer ==
    /\ mu = "free" /\ ~removed
    /\ removed' = TRUE
    /\ mu' = IF bound THEN "close" ELSE "free"
    /\ pending' = <<>>
    /\ UNCHANGED <<vars, bound, accepted>>

Unlock ==
    /\ mu = "close" /\ closing = 3
    /\ mu' = "free"
    /\ UNCHANGED <<vars, bound, pending, removed, accepted>>

\* The Sender's Close is called by ClosePeer or, without a stream, by anyone; by
\* the writer after an error, and by the reader of the connection when it ends.
CallClose ==
    /\ mu \in {"close", "none"} \/ writer \in {"failed", "leave"} \/ (bound /\ broken)
    /\ CloseFlag
    /\ UNCHANGED streamVars

Runs == Run /\ UNCHANGED streamVars
Spills == Spill /\ UNCHANGED streamVars
Closes == Close /\ UNCHANGED streamVars
Network == (Stall \/ Break) /\ UNCHANGED streamVars

StreamNext ==
    \/ \E p \in Producer : SendEnd(p) \/ \E f \in Frame : SendBegin(p, f)
    \/ \E f \in Frame : EnqueueEarly(f) \/ EnqueueBegin(f)
    \/ EnqueueEnd \/ Bind \/ HandOver \/ Bound \/ ClosePeer \/ Unlock
    \/ CallClose \/ Runs \/ Spills \/ Closes \/ Network

StreamSpec == StreamInit /\ [][StreamNext]_allVars

\* A blocked write is not scheduled, and nobody has to call Close; everything
\* else runs on.
StreamFairness ==
    /\ WF_allVars(Runs) /\ WF_allVars(Closes)
    /\ WF_allVars(mu # "none" /\ CallClose) /\ WF_allVars(CloseOnError /\ UNCHANGED streamVars)
    /\ \A p \in Producer : WF_allVars(SendEnd(p))
    /\ WF_allVars(EnqueueEnd) /\ WF_allVars(HandOver) /\ WF_allVars(Bound)
    /\ WF_allVars(Unlock)

FairStreamSpec == StreamSpec /\ StreamFairness

-----------------------------------------------------------------------------
\* Frames accepted before the connection was bound reach it before, and in the
\* order of, those accepted later, without a gap.
EarlyFramesFirst == mu # "none" => Begins(wire, accepted)

\* No call waits for the network while it holds the mutex: it is given back
\* also when the peer does not read.
MutexReleased == []<>(mu \in {"free", "none"})
=============================================================================
