------------------------------- MODULE Sender -------------------------------
(***************************************************************************)
(* One connection's Sender and its frameQueue (replica/sender.go).         *)
(* Producers admit frames without waiting for the network, one goroutine   *)
(* (run) takes batches and writes them, and anyone may close the sender.   *)
(* A step is what happens under one lock or in one atomic operation.       *)
(***************************************************************************)
EXTENDS Integers, Sequences, FiniteSets

CONSTANTS
    Producer,   \* goroutines that call Enqueue
    Frame,      \* frames; each is offered at most once
    None,       \* no frame
    Capacity,   \* frames a bounded queue holds
    BatchSize   \* frames per flush

ASSUME ProducerAssumption == Producer # {}
ASSUME FrameAssumption == None \notin Frame
ASSUME CapacityAssumption == Capacity \in Nat
ASSUME BatchAssumption == BatchSize \in Nat \ {0}

VARIABLES
    offered,   \* frames some producer has offered
    holding,   \* holding[p]: the frame p found the sender open for
    queue,     \* frameQueue.frames from head on
    ended,     \* frameQueue.closed
    writer,    \* where the run goroutine is ("unbound": not started)
    batch,     \* what it took and has not written yet
    buffer,    \* what the bufio.Writer holds
    wire,      \* what the connection has taken
    closing,   \* progress of Close: 0 open, 1 closed, 2 queue closed, 3 all
    stalled,   \* the peer does not read: a write blocks
    broken,    \* the peer is gone: a write fails
    capacity,  \* SenderOptions.Capacity: Capacity, or -1 for an unbounded queue
    admitted   \* history: the frames Enqueue accepted, in their order

producerVars == <<offered, holding>>
queueVars    == <<queue, ended>>
writerVars   == <<batch, buffer, wire>>
senderVars   == <<queue, ended, writer, batch, buffer, wire, closing>>
netVars      == <<stalled, broken, capacity>>
vars == <<producerVars, senderVars, netVars, admitted>>

Closed == closing >= 1

Init ==
    /\ offered = {}
    /\ holding = [p \in Producer |-> None]
    /\ queue = <<>> /\ ended = FALSE
    /\ writer = "take"
    /\ batch = <<>> /\ buffer = <<>> /\ wire = <<>>
    /\ closing = 0
    /\ stalled = FALSE /\ broken = FALSE
    /\ capacity \in {Capacity, -1}
    /\ admitted = <<>>

-----------------------------------------------------------------------------
(***************************************************************************)
(* Enqueue: the closed flag is read first, the queue's lock taken later.   *)
(***************************************************************************)
Offer(p, f) ==
    /\ holding[p] = None /\ f \notin offered
    /\ offered' = offered \cup {f}
    /\ holding' = [holding EXCEPT ![p] = IF Closed THEN None ELSE f]
    /\ UNCHANGED <<senderVars, netVars, admitted>>

\* Mutant of Full: one frame too many.
FullLate == capacity >= 0 /\ Len(queue) > capacity
Full == capacity >= 0 /\ Len(queue) >= capacity

\* frameQueue.enqueue: refuse when closed or full, else append and signal.
\* Mutant of Admit: the writer is not woken.
AdmitQuietly(f) ==
    IF ended \/ Full
    THEN UNCHANGED <<queue, admitted, writer>>
    ELSE /\ queue' = Append(queue, f)
         /\ admitted' = Append(admitted, f)
         /\ UNCHANGED writer
Admit(f) ==
    IF ended \/ Full
    THEN UNCHANGED <<queue, admitted, writer>>
    ELSE /\ queue' = Append(queue, f)
         /\ admitted' = Append(admitted, f)
         /\ writer' = IF writer = "parked" THEN "take" ELSE writer

Enqueue(p) ==
    /\ holding[p] # None
    /\ holding' = [holding EXCEPT ![p] = None]
    /\ Admit(holding[p])
    /\ UNCHANGED <<offered, ended, batch, buffer, wire, closing, netVars>>

-----------------------------------------------------------------------------
(***************************************************************************)
(* run: Take, look at the closed flag, write frame by frame, flush.        *)
(***************************************************************************)
TakeSize == IF Len(queue) > BatchSize THEN BatchSize ELSE Len(queue)

\* Mutant of Taken: the frames stay in the queue.
TakenTwice == queue
Taken == SubSeq(queue, TakeSize + 1, Len(queue))

Take ==
    /\ writer = "take"
    /\ IF ended
       THEN /\ writer' = "leave"
            /\ UNCHANGED <<queue, batch>>
       ELSE IF queue = <<>>
       THEN /\ writer' = "parked"
            /\ UNCHANGED <<queue, batch>>
       ELSE /\ writer' = "check"
            /\ batch' = SubSeq(queue, 1, TakeSize)
            /\ queue' = Taken
    /\ UNCHANGED <<producerVars, ended, buffer, wire, closing, netVars, admitted>>

Check ==
    /\ writer = "check"
    /\ writer' = IF Closed THEN "leave" ELSE "write"
    /\ UNCHANGED <<producerVars, queueVars, writerVars, closing, netVars, admitted>>

\* A write that reaches the network returns an error; closing the connection
\* is what ends a write to a peer that does not read.
WriteFails == broken \/ closing = 3

\* bufio.Writer.Write: the frame is buffered, what the buffer holds may spill.
WriteFrame ==
    /\ writer = "write" /\ batch # <<>>
    /\ buffer' = Append(buffer, Head(batch))
    /\ batch' = Tail(batch)
    /\ UNCHANGED <<producerVars, queueVars, writer, wire, closing, netVars, admitted>>

Spill ==
    /\ writer = "write" /\ buffer # <<>> /\ batch # <<>>
    /\ ~stalled /\ ~WriteFails
    /\ wire' = wire \o buffer
    /\ buffer' = <<>>
    /\ UNCHANGED <<producerVars, queueVars, writer, batch, closing, netVars, admitted>>

Flush ==
    /\ writer = "write" /\ batch = <<>>
    /\ ~stalled /\ ~WriteFails
    /\ wire' = wire \o buffer
    /\ buffer' = <<>>
    /\ writer' = "take"
    /\ UNCHANGED <<producerVars, queueVars, batch, closing, netVars, admitted>>

\* Mutant of AfterError: the failed batch is dropped and the loop goes on.
GoesOn == "take"
AfterError == "failed"

\* Part of what was buffered may have reached the connection.
WriteError ==
    /\ writer = "write" /\ buffer # <<>>
    /\ WriteFails
    /\ writer' = AfterError
    /\ \E k \in 0..Len(buffer) : wire' = wire \o SubSeq(buffer, 1, k)
    /\ batch' = <<>>
    /\ buffer' = <<>>
    /\ UNCHANGED <<producerVars, queueVars, closing, netVars, admitted>>

\* The deferred Close and close(done); another Close under way is waited for.
Leave ==
    /\ writer \in {"failed", "leave"} /\ closing = 3
    /\ writer' = "done"
    /\ UNCHANGED <<producerVars, queueVars, writerVars, closing, netVars, admitted>>

-----------------------------------------------------------------------------
(***************************************************************************)
(* Close runs once: the flag, the queue, the connection.                   *)
(***************************************************************************)
CloseFlag ==
    /\ closing = 0
    /\ closing' = 1
    /\ UNCHANGED <<producerVars, queueVars, writer, writerVars, netVars, admitted>>

CloseQueue ==
    /\ closing = 1
    /\ closing' = 2
    /\ ended' = TRUE
    /\ queue' = <<>>
    /\ writer' = IF writer = "parked" THEN "take" ELSE writer
    /\ UNCHANGED <<producerVars, writerVars, netVars, admitted>>

\* Mutant of CloseConn: the connection stays open.
KeepConn == FALSE /\ UNCHANGED vars
CloseConn ==
    /\ closing = 2
    /\ closing' = 3
    /\ UNCHANGED <<producerVars, queueVars, writer, writerVars, netVars, admitted>>

\* run closes the sender itself after an error.
CloseOnError == writer \in {"failed", "leave"} /\ CloseFlag
Close == CloseQueue \/ CloseConn

-----------------------------------------------------------------------------
(***************************************************************************)
(* The connection: the peer stops reading, reads again, or goes away.      *)
(***************************************************************************)
Stall ==
    /\ stalled' = ~stalled
    /\ UNCHANGED <<producerVars, senderVars, broken, capacity, admitted>>

Break ==
    /\ ~broken
    /\ broken' = TRUE
    /\ UNCHANGED <<producerVars, senderVars, stalled, capacity, admitted>>

Run == Take \/ Check \/ WriteFrame \/ Flush \/ WriteError \/ Leave

Next ==
    \/ \E p \in Producer : Enqueue(p) \/ \E f \in Frame : Offer(p, f)
    \/ Take \/ Check \/ WriteFrame \/ Spill \/ Flush \/ WriteError \/ Leave
    \/ CloseFlag \/ CloseQueue \/ CloseConn
    \/ Stall \/ Break

Spec == Init /\ [][Next]_vars

-----------------------------------------------------------------------------
TypeOK ==
    /\ offered \subseteq Frame
    /\ holding \in [Producer -> Frame \cup {None}]
    /\ queue \in Seq(Frame) /\ batch \in Seq(Frame) /\ buffer \in Seq(Frame)
    /\ wire \in Seq(Frame) /\ admitted \in Seq(Frame)
    /\ capacity >= 0 => Len(queue) <= capacity
    /\ writer \in {"unbound", "take", "parked", "check", "write", "failed", "leave", "done"}
    /\ closing \in 0..3
    /\ ended \in BOOLEAN /\ stalled \in BOOLEAN /\ broken \in BOOLEAN

Begins(s, t) == Len(s) <= Len(t) /\ s = SubSeq(t, 1, Len(s))
InFlight == wire \o buffer \o batch \o queue

\* The connection carries the admitted frames in their order without a gap,
\* whatever races with Close or fails: the peer may miss the end, never the
\* middle.
NoGapOnTheWire == Begins(wire, admitted)

\* While the sender is open and no write has failed, every admitted frame is
\* somewhere between the queue and the wire, once.
NothingDropped ==
    ~ended /\ writer # "failed" => admitted = InFlight

\* Close ends the writer, also one that is blocked in a write to a peer that
\* does not read.
CloseEndsWriter == Closed ~> writer = "done"

\* An admitted frame is written unless the sender is closed or the peer stops
\* reading for good: the writer never sleeps on a queue that holds frames.
Written ==
    <>[]~stalled =>
        \A f \in Frame : (\E k \in DOMAIN admitted : admitted[k] = f)
                             ~> (Closed \/ \E k \in DOMAIN wire : wire[k] = f)
=============================================================================
