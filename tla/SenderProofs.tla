---------------------------- MODULE SenderProofs ----------------------------
(***************************************************************************)
(* Theorems about a connection's Sender and the PeerStreams around it, for *)
(* every set of producers and frames, every capacity and batch size.       *)
(***************************************************************************)
EXTENDS PeerStreams, SequenceTheorems, TLAPS

-----------------------------------------------------------------------------
(***************************************************************************)
(* Prefixes.                                                               *)
(***************************************************************************)
\* What Begins says, element by element.
LEMMA BeginsPointwise ==
    ASSUME NEW S, NEW s \in Seq(S), NEW t \in Seq(S)
    PROVE  Begins(s, t) <=> /\ Len(s) <= Len(t)
                            /\ \A i \in 1..Len(s) : s[i] = t[i]
<1>1. Len(s) \in Nat /\ Len(t) \in Nat BY LenProperties
<1>2. CASE Len(s) <= Len(t)
  <2>1. \A i \in 1..Len(s) : t[i] \in S BY <1>1, <1>2, ElementOfSeq
  <2>2. /\ SubSeq(t, 1, Len(s)) \in Seq(S)
        /\ Len(SubSeq(t, 1, Len(s))) = Len(s)
        /\ \A i \in 1..Len(s) : SubSeq(t, 1, Len(s))[i] = t[i]
    BY <1>1, <2>1, SubSeqProperties
  <2>3. ASSUME \A i \in 1..Len(s) : s[i] = t[i] PROVE s = SubSeq(t, 1, Len(s))
    BY <2>2, <2>3, SeqEqual
  <2>4. ASSUME s = SubSeq(t, 1, Len(s)) PROVE \A i \in 1..Len(s) : s[i] = t[i]
    BY <2>2, <2>4
  <2> QED BY <1>2, <2>3, <2>4 DEF Begins
<1>3. CASE ~(Len(s) <= Len(t)) BY <1>3 DEF Begins
<1> QED BY <1>2, <1>3

\* A sequence is a prefix of what extends it.
LEMMA BeginsConcat ==
    ASSUME NEW S, NEW s \in Seq(S), NEW t \in Seq(S)
    PROVE  Begins(s, s \o t)
<1>1. Len(s) \in Nat /\ Len(t) \in Nat BY LenProperties
<1>2. /\ s \o t \in Seq(S) /\ Len(s \o t) = Len(s) + Len(t)
      /\ \A i \in 1..Len(s) + Len(t) :
             (s \o t)[i] = IF i <= Len(s) THEN s[i] ELSE t[i - Len(s)]
  BY ConcatProperties
<1>3. Len(s) <= Len(s \o t) /\ \A i \in 1..Len(s) : s[i] = (s \o t)[i] BY <1>1, <1>2
<1> QED BY <1>2, <1>3, BeginsPointwise

LEMMA BeginsTransitive ==
    ASSUME NEW S, NEW s \in Seq(S), NEW t \in Seq(S), NEW u \in Seq(S),
           Begins(s, t), Begins(t, u)
    PROVE  Begins(s, u)
<1>1. Len(s) \in Nat /\ Len(t) \in Nat /\ Len(u) \in Nat BY LenProperties
<1>2. /\ Len(s) <= Len(t) /\ Len(t) <= Len(u)
      /\ \A i \in 1..Len(s) : s[i] = t[i]
      /\ \A i \in 1..Len(t) : t[i] = u[i]
  BY BeginsPointwise
<1>3. Len(s) <= Len(u) /\ \A i \in 1..Len(s) : s[i] = u[i] BY <1>1, <1>2
<1> QED BY <1>3, BeginsPointwise

\* A prefix stays one when the longer sequence grows.
LEMMA BeginsAppend ==
    ASSUME NEW S, NEW s \in Seq(S), NEW t \in Seq(S), NEW e \in S, Begins(s, t)
    PROVE  Begins(s, Append(t, e))
<1>1. <<e>> \in Seq(S) OBVIOUS
<1>2. Append(t, e) = t \o <<e>> BY AppendIsConcat
<1>3. Append(t, e) \in Seq(S) BY AppendProperties
<1>4. Begins(t, Append(t, e)) BY <1>1, <1>2, BeginsConcat
<1> QED BY <1>3, <1>4, BeginsTransitive

\* ... and when the shorter one loses its end.
LEMMA BeginsShorter ==
    ASSUME NEW S, NEW s \in Seq(S), NEW u \in Seq(S), NEW t \in Seq(S),
           Begins(s \o u, t)
    PROVE  Begins(s, t)
<1>1. s \o u \in Seq(S) BY ConcatProperties
<1> QED BY <1>1, BeginsConcat, BeginsTransitive

LEMMA BeginsItself ==
    ASSUME NEW S, NEW s \in Seq(S)
    PROVE  Begins(s, s) /\ Begins(<<>>, s)
<1>1. <<>> \in Seq(S) /\ Len(<<>>) = 0 BY EmptySeq
<1>2. Len(s) \in Nat BY LenProperties
<1>3. Begins(s, s) BY <1>2, BeginsPointwise
<1>4. Begins(<<>>, s)
  <2>1. Len(<<>>) <= Len(s) /\ \A i \in 1..Len(<<>>) : <<>>[i] = s[i] BY <1>1, <1>2
  <2> QED BY <1>1, <2>1, BeginsPointwise, Zenon
<1> QED BY <1>3, <1>4

\* The pieces of a cut sequence make up the sequence.
LEMMA Cut ==
    ASSUME NEW S, NEW s \in Seq(S), NEW k \in 0..Len(s)
    PROVE  /\ SubSeq(s, 1, k) \in Seq(S)
           /\ SubSeq(s, k + 1, Len(s)) \in Seq(S)
           /\ SubSeq(s, 1, k) \o SubSeq(s, k + 1, Len(s)) = s
           /\ Len(SubSeq(s, k + 1, Len(s))) = Len(s) - k
<1>1. Len(s) \in Nat BY LenProperties
<1>2. \A i \in 1..Len(s) : s[i] \in S BY ElementOfSeq
<1>3. SubSeq(s, 1, k) \in Seq(S)
  <2>1. \A i \in 1..k : s[i] \in S BY <1>1, <1>2
  <2> QED BY <1>1, <2>1, SubSeqProperties
<1>4. SubSeq(s, k + 1, Len(s)) \in Seq(S) /\ Len(SubSeq(s, k + 1, Len(s))) = Len(s) - k
  <2>1. \A i \in (k + 1)..Len(s) : s[i] \in S BY <1>1, <1>2
  <2>2. k + 1 \in Int /\ Len(s) \in Int BY <1>1
  <2>3. /\ SubSeq(s, k + 1, Len(s)) \in Seq(S)
        /\ Len(SubSeq(s, k + 1, Len(s))) = IF k + 1 <= Len(s) THEN Len(s) - (k + 1) + 1 ELSE 0
    BY <2>1, <2>2, SubSeqProperties
  <2> QED BY <2>3, <1>1
<1>5. SubSeq(s, 1, k) \o SubSeq(s, k + 1, Len(s)) = SubSeq(s, 1, Len(s))
  <2>1. 1 \in 1..Len(s) + 1 /\ k \in (1 - 1)..Len(s) /\ Len(s) \in k..Len(s) BY <1>1
  <2> QED BY <2>1, ConcatAdjacentSubSeq
<1> QED BY <1>3, <1>4, <1>5, SubSeqFull

\* Moving the first frame of one piece to the end of the piece before it.
LEMMA MoveHead ==
    ASSUME NEW S, NEW s \in Seq(S), NEW t \in Seq(S), t # <<>>
    PROVE  /\ Append(s, Head(t)) \in Seq(S) /\ Tail(t) \in Seq(S)
           /\ Append(s, Head(t)) \o Tail(t) = s \o t
<1>1. /\ Head(t) \in S /\ Tail(t) \in Seq(S) /\ Len(Tail(t)) = Len(t) - 1
      /\ \A i \in 1..Len(Tail(t)) : Tail(t)[i] = t[i + 1]
  BY HeadTailProperties
<1>2. Head(t) = t[1] OBVIOUS
<1>3. Len(s) \in Nat /\ Len(t) \in Nat \ {0} BY LenProperties, EmptySeq
<1>4. /\ Append(s, Head(t)) \in Seq(S) /\ Len(Append(s, Head(t))) = Len(s) + 1
      /\ \A i \in 1..Len(s) : Append(s, Head(t))[i] = s[i]
      /\ Append(s, Head(t))[Len(s) + 1] = t[1]
  BY <1>1, <1>2, AppendProperties
<1> DEFINE a == Append(s, Head(t))
           b == Tail(t)
<1> HIDE DEF a, b
<1>5. /\ a \in Seq(S) /\ Len(a) = Len(s) + 1 /\ a[Len(s) + 1] = t[1]
      /\ \A i \in 1..Len(s) : a[i] = s[i]
      /\ b \in Seq(S) /\ Len(b) = Len(t) - 1
      /\ \A i \in 1..Len(b) : b[i] = t[i + 1]
  BY <1>1, <1>4 DEF a, b
<1>6. /\ a \o b \in Seq(S) /\ Len(a \o b) = Len(a) + Len(b)
      /\ \A i \in 1..Len(a) + Len(b) : (a \o b)[i] = IF i <= Len(a) THEN a[i] ELSE b[i - Len(a)]
  BY <1>5, ConcatProperties
<1>7. /\ s \o t \in Seq(S) /\ Len(s \o t) = Len(s) + Len(t)
      /\ \A i \in 1..Len(s) + Len(t) : (s \o t)[i] = IF i <= Len(s) THEN s[i] ELSE t[i - Len(s)]
  BY ConcatProperties
<1>8. Len(a \o b) = Len(s \o t) BY <1>3, <1>5, <1>6, <1>7
<1>9. \A i \in 1..Len(s) + Len(t) : (a \o b)[i] = (s \o t)[i]
  <2> TAKE i \in 1..Len(s) + Len(t)
  <2>1. CASE i <= Len(s) BY <2>1, <1>3, <1>5, <1>6, <1>7
  <2>2. CASE i = Len(s) + 1
    <3>1. (a \o b)[i] = a[i] BY <2>2, <1>3, <1>5, <1>6
    <3>2. (s \o t)[i] = t[1] BY <2>2, <1>3, <1>7
    <3> QED BY <3>1, <3>2, <2>2, <1>5
  <2>3. CASE i > Len(s) + 1
    <3>1. (a \o b)[i] = b[i - Len(s) - 1] BY <2>3, <1>3, <1>5, <1>6
    <3>2. (s \o t)[i] = t[i - Len(s)] BY <2>3, <1>3, <1>7
    <3>3. i - Len(s) - 1 \in 1..Len(b) BY <2>3, <1>3, <1>5
    <3> QED BY <3>1, <3>2, <3>3, <1>5, <1>3
  <2>4. i <= Len(s) \/ i = Len(s) + 1 \/ i > Len(s) + 1 BY <1>3
  <2> QED BY <2>1, <2>2, <2>3, <2>4, Zenon
<1>10. a \o b = s \o t BY <1>6, <1>7, <1>8, <1>9, SeqEqual
<1> QED BY <1>1, <1>4, <1>10 DEF a, b

-----------------------------------------------------------------------------
(***************************************************************************)
(* The inductive invariant.  NoGapOnTheWire alone is not inductive: that   *)
(* the next write continues the wire follows from where the admitted       *)
(* frames are while the writer works.                                      *)
(***************************************************************************)
Working == {"take", "parked", "check", "write"}
OnTheWay == (wire \o buffer) \o batch

\* What the writer has taken continues the wire.
Continues == writer \in Working => Begins(OnTheWay, admitted)

\* Between two batches the writer holds nothing, and Close runs once, in order.
WriterState ==
    /\ writer \in {"take", "parked"} => buffer = <<>> /\ batch = <<>>
    /\ writer = "check" => buffer = <<>>
    /\ writer = "done" => closing = 3
    /\ ended <=> closing >= 2

\* A stream has one caller at a time, an unbounded queue and, once bound and
\* handed over, no early frames; a sender without one has no stream state.
StreamState ==
    /\ mu \in {"free", "bind", "enqueue", "close", "none"}
    /\ bound \in BOOLEAN /\ removed \in BOOLEAN
    /\ pending \in Seq(Frame) /\ accepted \in Seq(Frame)
    /\ capacity \in Int
    /\ mu # "none" => capacity = -1
    /\ bound <=> writer # "unbound"
    /\ ~bound => /\ mu = "free" /\ closing = 0 /\ ~ended
                 /\ queue = <<>> /\ wire = <<>> /\ admitted = <<>>
                 /\ buffer = <<>> /\ batch = <<>>
    /\ bound /\ mu # "bind" => pending = <<>>
    /\ mu = "bind" => bound

\* What was accepted is what was admitted and what still waits, until the
\* sender is closed; a hand-over that Close cuts short admits a prefix.
AcceptedState ==
    /\ mu # "none" => Begins(admitted, accepted)
    /\ mu # "none" /\ ~removed /\ ~bound => accepted = pending
    /\ mu # "none" /\ bound /\ (~Closed \/ mu = "enqueue") => accepted = admitted \o pending

StreamInv ==
    /\ TypeOK /\ NoGapOnTheWire /\ NothingDropped
    /\ Continues /\ WriterState /\ StreamState /\ AcceptedState

\* Concatenation of frames, quantified so that it applies to primed pieces too.
LEMMA Regroup == \A s, t, u \in Seq(Frame) : (s \o t) \o u = s \o (t \o u)
BY ConcatAssociative

-----------------------------------------------------------------------------
(***************************************************************************)
(* One lemma for each group of actions.                                    *)
(***************************************************************************)
Pieces == <<queue, batch, buffer, wire, admitted>>

\* The sequences the invariant is about are sequences of frames.
LEMMA SeqTypes ==
    ASSUME TypeOK
    PROVE  /\ wire \o buffer \in Seq(Frame)
           /\ OnTheWay \in Seq(Frame)
           /\ InFlight \in Seq(Frame)
           /\ InFlight = OnTheWay \o queue
           /\ <<>> \in Seq(Frame)
<1>1. wire \o buffer \in Seq(Frame) BY ConcatProperties DEF TypeOK
<1>2. OnTheWay \in Seq(Frame) BY <1>1, ConcatProperties DEF TypeOK, OnTheWay
<1>3. InFlight = OnTheWay \o queue BY DEF InFlight, OnTheWay
<1>4. InFlight \in Seq(Frame) BY <1>2, <1>3, ConcatProperties DEF TypeOK
<1> QED BY <1>1, <1>2, <1>3, <1>4, EmptySeq

\* Admitting a frame adds it to the end of what is under way.
LEMMA AdmitStep ==
    ASSUME StreamInv, NEW f \in Frame, Admit(f),
           UNCHANGED <<ended, batch, buffer, wire, closing, netVars>>
    PROVE  /\ queue' \in Seq(Frame) /\ admitted' \in Seq(Frame)
           /\ capacity >= 0 => Len(queue') <= capacity
           /\ admitted' = admitted \/ (~ended /\ admitted' = Append(admitted, f))
           /\ ~ended /\ capacity = -1 => admitted' = Append(admitted, f)
           /\ NoGapOnTheWire' /\ NothingDropped' /\ Continues' /\ WriterState'
           /\ writer' = writer \/ (writer = "parked" /\ writer' = "take")
<1> USE DEF StreamInv
<1>1. CASE ended \/ Full
  <2>1. UNCHANGED <<queue, admitted, writer, wire, buffer, batch, ended, closing>>
    BY <1>1 DEF Admit
  <2>2. NoGapOnTheWire' BY <2>1 DEF NoGapOnTheWire
  <2>3. NothingDropped' BY <2>1 DEF NothingDropped, InFlight
  <2>4. Continues' BY <2>1 DEF Continues, OnTheWay
  <2>5. WriterState' BY <2>1 DEF WriterState
  <2>6. ~ended => capacity # -1 BY <1>1 DEF Full
  <2>7. /\ queue' \in Seq(Frame) /\ admitted' \in Seq(Frame)
        /\ capacity >= 0 => Len(queue') <= capacity
    BY <2>1 DEF TypeOK
  <2> QED BY <2>1, <2>2, <2>3, <2>4, <2>5, <2>6, <2>7, Zenon
<1>2. CASE ~(ended \/ Full)
  <2>1. /\ queue' = Append(queue, f) /\ admitted' = Append(admitted, f)
        /\ writer' = IF writer = "parked" THEN "take" ELSE writer
    BY <1>2 DEF Admit
  <2>2. /\ queue \in Seq(Frame) /\ admitted \in Seq(Frame) /\ wire \in Seq(Frame)
        /\ batch \in Seq(Frame) /\ buffer \in Seq(Frame)
    BY DEF TypeOK
  <2>3. queue' \in Seq(Frame) /\ admitted' \in Seq(Frame) /\ Len(queue') = Len(queue) + 1
    BY <2>1, <2>2, AppendProperties
  <2>4. Len(queue) \in Nat BY <2>2, LenProperties
  <2>5. capacity >= 0 => Len(queue') <= capacity
    BY <1>2, <2>3, <2>4 DEF Full, StreamState
  <2>6. NoGapOnTheWire' BY <2>1, <2>2, BeginsAppend DEF NoGapOnTheWire
  <2>7. NothingDropped'
    <3> SUFFICES ASSUME writer # "failed" PROVE admitted' = InFlight'
      BY <2>1 DEF NothingDropped
    <3>1. admitted = OnTheWay \o queue BY <1>2, SeqTypes DEF NothingDropped
    <3>2. <<f>> \in Seq(Frame) /\ OnTheWay \in Seq(Frame) BY SeqTypes
    <3>3. (OnTheWay \o queue) \o <<f>> = OnTheWay \o (queue \o <<f>>)
      <4> DEFINE e == <<f>>
      <4>1. e \in Seq(Frame) /\ OnTheWay \in Seq(Frame) /\ queue \in Seq(Frame)
        BY <2>2, <3>2
      <4> HIDE DEF e
      <4>2. (OnTheWay \o queue) \o e = OnTheWay \o (queue \o e)
        BY <4>1, ConcatAssociative
      <4> QED BY <4>2 DEF e
    <3>4. admitted' = admitted \o <<f>> /\ queue' = queue \o <<f>>
      BY <2>1, <2>2, AppendIsConcat
    <3>5. InFlight' = OnTheWay \o queue' BY DEF InFlight, OnTheWay
    <3> QED BY <3>1, <3>3, <3>4, <3>5
  <2>8. Continues'
    <3>1. writer' \in Working => writer \in Working BY <2>1 DEF Working
    <3>2. OnTheWay' = OnTheWay BY DEF OnTheWay
    <3>3. ASSUME Begins(OnTheWay, admitted) PROVE Begins(OnTheWay, admitted')
      BY <2>1, <2>2, <3>3, SeqTypes, BeginsAppend
    <3> QED BY <3>1, <3>2, <3>3 DEF Continues
  <2>9. WriterState' BY <2>1 DEF WriterState
  <2>10. writer' = writer \/ (writer = "parked" /\ writer' = "take") BY <2>1
  <2> QED BY <1>2, <2>1, <2>3, <2>5, <2>6, <2>7, <2>8, <2>9, <2>10, Zenon
<1> QED BY <1>1, <1>2

\* Where the actions leave the queue, the writer and the wire alone, the
\* sender's part of the invariant stays.
LEMMA SenderUntouched ==
    ASSUME StreamInv, UNCHANGED <<Pieces, ended, writer, capacity>>,
           closing' = closing \/ (closing = 0 /\ closing' = 1) \/ (closing = 2 /\ closing' = 3),
           offered' \subseteq Frame, holding' \in [Producer -> Frame \cup {None}],
           stalled' \in BOOLEAN, broken' \in BOOLEAN
    PROVE  TypeOK' /\ NoGapOnTheWire' /\ NothingDropped' /\ Continues' /\ WriterState'
<1> USE DEF StreamInv, Pieces
<1>1. closing \in 0..3 BY DEF TypeOK
<1>2. TypeOK' BY DEF TypeOK
<1>3. NoGapOnTheWire' BY DEF NoGapOnTheWire
<1>4. NothingDropped' BY DEF NothingDropped, InFlight
<1>5. Continues' BY DEF Continues, OnTheWay
<1>6. WriterState' BY <1>1 DEF WriterState
<1> QED BY <1>2, <1>3, <1>4, <1>5, <1>6

LEMMA CallerType == Caller \in Producer
BY ProducerAssumption DEF Caller

\* Actions that only move the mutex, the marks and the early frames.
LEMMA InvMutex ==
    ASSUME StreamInv, Bound \/ ClosePeer \/ Unlock
    PROVE  StreamInv'
<1> USE DEF StreamInv, vars, producerVars, senderVars, netVars, Pieces
<1>1. UNCHANGED vars BY DEF Bound, ClosePeer, Unlock
<1>2. TypeOK' /\ NoGapOnTheWire' /\ NothingDropped' /\ Continues' /\ WriterState'
  <2>1. /\ offered' \subseteq Frame /\ holding' \in [Producer -> Frame \cup {None}]
        /\ stalled' \in BOOLEAN /\ broken' \in BOOLEAN
    BY <1>1 DEF TypeOK
  <2>2. UNCHANGED <<Pieces, ended, writer, capacity, closing>> BY <1>1
  <2> QED BY <2>1, <2>2, SenderUntouched
<1>3. StreamState'
  <2>1. <<>> \in Seq(Frame) BY EmptySeq
  <2>2. CASE Bound BY <1>1, <2>2 DEF Bound, StreamState
  <2>3. CASE ClosePeer BY <1>1, <2>1, <2>3 DEF ClosePeer, StreamState
  <2>4. CASE Unlock BY <1>1, <2>4 DEF Unlock, StreamState
  <2> QED BY <2>2, <2>3, <2>4
<1>4. AcceptedState'
  BY <1>1 DEF Bound, ClosePeer, Unlock, StreamState, AcceptedState, Closed
<1> QED BY <1>2, <1>3, <1>4

\* Offering a frame, and the connection's own events.
LEMMA InvOffer ==
    ASSUME StreamInv,
           \/ \E p \in Producer, f \in Frame : SendBegin(p, f)
           \/ \E f \in Frame : EnqueueBegin(f) \/ EnqueueEarly(f)
           \/ Network
    PROVE  StreamInv'
<1> USE DEF StreamInv, producerVars, senderVars, netVars, Pieces, streamVars
<1>1. UNCHANGED <<queue, batch, buffer, wire, admitted, ended, writer, capacity, closing>>
  BY DEF SendBegin, EnqueueBegin, EnqueueEarly, Network, Offer, Stall, Break
<1>2. /\ offered' \subseteq Frame /\ holding' \in [Producer -> Frame \cup {None}]
      /\ stalled' \in BOOLEAN /\ broken' \in BOOLEAN
  <2>1. CASE \E p \in Producer, f \in Frame : SendBegin(p, f)
    BY <2>1 DEF SendBegin, Offer, TypeOK
  <2>2. CASE \E f \in Frame : EnqueueBegin(f) BY <2>2 DEF EnqueueBegin, Offer, TypeOK
  <2>3. CASE \E f \in Frame : EnqueueEarly(f) BY <2>3 DEF EnqueueEarly, TypeOK
  <2>4. CASE Network BY <2>4 DEF Network, Stall, Break, TypeOK
  <2> QED BY <2>1, <2>2, <2>3, <2>4
<1>3. TypeOK' /\ NoGapOnTheWire' /\ NothingDropped' /\ Continues' /\ WriterState'
  <2>1. UNCHANGED <<Pieces, ended, writer, capacity, closing>> BY <1>1
  <2> QED BY <1>2, <2>1, SenderUntouched
<1>4. CASE \/ \E p \in Producer, f \in Frame : SendBegin(p, f)
           \/ \E f \in Frame : EnqueueBegin(f)
           \/ Network
  <2>1. UNCHANGED <<bound, pending, removed, accepted>>
    BY <1>4 DEF SendBegin, EnqueueBegin, Network
  <2>2. mu' = mu \/ (mu = "free" /\ bound /\ mu' = "enqueue" /\ ~Closed)
    BY <1>4 DEF SendBegin, EnqueueBegin, Network, CanEnqueue
  <2>3. StreamState' BY <1>1, <2>1, <2>2 DEF StreamState
  <2>4. AcceptedState' BY <1>1, <2>1, <2>2 DEF AcceptedState, Closed
  <2> QED BY <1>3, <2>3, <2>4
<1>5. ASSUME NEW f \in Frame, EnqueueEarly(f) PROVE StreamInv'
  <2>1. /\ UNCHANGED <<mu, bound, removed>> /\ mu = "free" /\ ~removed /\ ~bound
        /\ pending' = Append(pending, f) /\ accepted' = Append(accepted, f)
    BY <1>5 DEF EnqueueEarly
  <2>2. pending \in Seq(Frame) /\ accepted \in Seq(Frame) /\ accepted = pending
    BY <2>1 DEF StreamState, AcceptedState
  <2>3. pending' \in Seq(Frame) /\ accepted' \in Seq(Frame) /\ accepted' = pending'
    BY <2>1, <2>2, AppendProperties
  <2>4. StreamState' BY <1>1, <2>1, <2>3 DEF StreamState
  <2>5. AcceptedState'
    <3>1. admitted' = <<>> BY <1>1, <2>1 DEF StreamState
    <3>2. Begins(admitted', accepted') BY <2>3, <3>1, BeginsItself
    <3> QED BY <2>1, <2>3, <3>2 DEF AcceptedState
  <2> QED BY <1>3, <2>4, <2>5
<1> QED BY <1>4, <1>5

\* The frame is admitted or refused; under a stream the caller is told.
LEMMA InvEnqueue ==
    ASSUME StreamInv, EnqueueEnd \/ \E p \in Producer : SendEnd(p)
    PROVE  StreamInv'
<1> USE DEF StreamInv, producerVars, senderVars, netVars, streamVars
<1>1. PICK p \in Producer : /\ Enqueue(p)
                            /\ \/ EnqueueEnd /\ p = Caller
                               \/ SendEnd(p)
  BY CallerType DEF EnqueueEnd, SendEnd
<1>2. /\ holding[p] \in Frame
      /\ holding' = [holding EXCEPT ![p] = None] /\ Admit(holding[p])
      /\ UNCHANGED <<offered, ended, batch, buffer, wire, closing, stalled, broken, capacity>>
  BY <1>1 DEF Enqueue, TypeOK
<1> DEFINE f == holding[p]
<1>3. /\ queue' \in Seq(Frame) /\ admitted' \in Seq(Frame)
      /\ capacity >= 0 => Len(queue') <= capacity
      /\ admitted' = admitted \/ (~ended /\ admitted' = Append(admitted, f))
      /\ ~ended /\ capacity = -1 => admitted' = Append(admitted, f)
      /\ NoGapOnTheWire' /\ NothingDropped' /\ Continues' /\ WriterState'
      /\ writer' = writer \/ (writer = "parked" /\ writer' = "take")
  <2>1. UNCHANGED <<ended, batch, buffer, wire, closing, netVars>> BY <1>2
  <2>2. f \in Frame /\ Admit(f) BY <1>2
  <2> HIDE DEF f
  <2> QED BY <2>1, <2>2, AdmitStep
<1>4. TypeOK' BY <1>2, <1>3 DEF TypeOK
<1>5. CASE SendEnd(p)
  <2>1. mu = "none" /\ UNCHANGED <<mu, bound, pending, removed, accepted>>
    BY <1>5 DEF SendEnd
  <2>2. bound /\ bound' BY <2>1 DEF StreamState
  <2>3. StreamState' BY <1>2, <1>3, <2>1, <2>2 DEF StreamState
  <2>4. AcceptedState' BY <2>1 DEF AcceptedState
  <2> QED BY <1>3, <1>4, <2>3, <2>4
<1>6. CASE EnqueueEnd /\ p = Caller
  <2>1. /\ mu = "enqueue" /\ mu' = "free" /\ UNCHANGED <<bound, pending, removed>>
        /\ accepted' = IF admitted' = admitted THEN accepted ELSE Append(accepted, f)
    BY <1>6 DEF EnqueueEnd
  <2>2. bound /\ pending = <<>> /\ capacity = -1 BY <2>1 DEF StreamState
  <2>3. admitted \in Seq(Frame) /\ accepted \in Seq(Frame) BY DEF TypeOK, StreamState
  <2>4. accepted = admitted
    BY <2>1, <2>2, <2>3, ConcatEmptySeq DEF AcceptedState
  <2>5. accepted' = admitted'
    BY <1>3, <2>1, <2>4
  <2>6. StreamState' BY <1>2, <1>3, <2>1, <2>2, <2>5 DEF StreamState
  <2>7. AcceptedState'
    <3>1. Begins(admitted', accepted') BY <1>3, <2>5, BeginsItself
    <3>2. accepted' = admitted' \o pending' BY <1>3, <2>1, <2>2, <2>5, ConcatEmptySeq
    <3> QED BY <2>1, <2>2, <3>1, <3>2 DEF AcceptedState
  <2> QED BY <1>3, <1>4, <2>6, <2>7
<1> QED BY <1>1, <1>5, <1>6

\* Bind hands the early frames over in their order; one that Close refuses is
\* gone, and so are all after it.
LEMMA InvBind == ASSUME StreamInv, Bind \/ HandOver PROVE StreamInv'
<1> USE DEF StreamInv, producerVars, senderVars, netVars, queueVars, writerVars
<1>1. CASE Bind
  <2>1. /\ mu = "free" /\ ~removed /\ ~bound /\ bound' = TRUE /\ writer' = "take" /\ mu' = "bind"
        /\ UNCHANGED <<offered, holding, queue, ended, batch, buffer, wire, closing, stalled,
                       broken, capacity, admitted, pending, removed, accepted>>
    BY <1>1 DEF Bind
  <2>2. /\ queue = <<>> /\ wire = <<>> /\ admitted = <<>> /\ buffer = <<>> /\ batch = <<>>
        /\ closing = 0 /\ ~ended /\ writer = "unbound" /\ accepted = pending
        /\ pending \in Seq(Frame) /\ accepted \in Seq(Frame) /\ admitted \in Seq(Frame)
    BY <2>1 DEF StreamState, AcceptedState, TypeOK
  <2>3. TypeOK' BY <2>1 DEF TypeOK
  <2>4. NoGapOnTheWire' BY <2>1 DEF NoGapOnTheWire
  <2>5. NothingDropped' BY <2>1, <2>2 DEF NothingDropped, InFlight
  <2>6. Continues'
    <3>1. OnTheWay = <<>>
      <4>1. <<>> \in Seq(Frame) BY EmptySeq
      <4>2. <<>> \o <<>> = <<>> BY <4>1, ConcatEmptySeq
      <4> QED BY <2>2, <4>2 DEF OnTheWay
    <3>2. Begins(OnTheWay, admitted) BY <2>2, <3>1, BeginsItself
    <3> QED BY <2>1, <3>2 DEF Continues, OnTheWay
  <2>7. WriterState' BY <2>1, <2>2 DEF WriterState
  <2>8. StreamState' BY <2>1 DEF StreamState
  <2>9. AcceptedState'
    <3>1. accepted = admitted \o pending BY <2>2, ConcatEmptySeq
    <3> QED BY <2>1, <2>2, <3>1 DEF AcceptedState
  <2> QED BY <2>3, <2>4, <2>5, <2>6, <2>7, <2>8, <2>9
<1>2. CASE HandOver /\ Closed
  <2>1. /\ mu = "bind" /\ pending # <<>> /\ pending' = Tail(pending)
        /\ UNCHANGED <<offered, holding, queue, ended, writer, batch, buffer, wire, closing,
                       stalled, broken, capacity, admitted, mu, bound, removed, accepted>>
    BY <1>2 DEF HandOver
  <2>2. TypeOK' /\ NoGapOnTheWire' /\ NothingDropped' /\ Continues' /\ WriterState'
    <3>1. /\ offered' \subseteq Frame /\ holding' \in [Producer -> Frame \cup {None}]
          /\ stalled' \in BOOLEAN /\ broken' \in BOOLEAN
      BY <2>1 DEF TypeOK
    <3>2. UNCHANGED <<Pieces, ended, writer, capacity, closing>> BY <2>1 DEF Pieces
    <3> QED BY <3>1, <3>2, SenderUntouched
  <2>3. pending' \in Seq(Frame) BY <2>1, HeadTailProperties DEF StreamState
  <2>4. StreamState' BY <2>1, <2>3 DEF StreamState
  <2>5. AcceptedState' BY <1>2, <2>1 DEF StreamState, AcceptedState, Closed
  <2> QED BY <2>2, <2>4, <2>5
<1>3. CASE HandOver /\ ~Closed
  <2> DEFINE f == Head(pending)
  <2>1. /\ mu = "bind" /\ pending # <<>> /\ pending' = Tail(pending) /\ Admit(f)
        /\ UNCHANGED <<offered, holding, ended, batch, buffer, wire, closing,
                       stalled, broken, capacity, mu, bound, removed, accepted>>
    BY <1>3 DEF HandOver
  <2>2. /\ pending \in Seq(Frame) /\ bound /\ capacity = -1 /\ closing \in 0..3
        /\ admitted \in Seq(Frame) /\ writer # "unbound"
    BY <2>1 DEF StreamState, TypeOK
  <2>3. f \in Frame /\ pending' \in Seq(Frame) BY <2>1, <2>2, HeadTailProperties
  <2>4. ~ended BY <1>3, <2>2 DEF WriterState, Closed
  <2>5. /\ queue' \in Seq(Frame) /\ admitted' \in Seq(Frame)
        /\ capacity >= 0 => Len(queue') <= capacity
        /\ ~ended /\ capacity = -1 => admitted' = Append(admitted, f)
        /\ NoGapOnTheWire' /\ NothingDropped' /\ Continues' /\ WriterState'
        /\ writer' = writer \/ (writer = "parked" /\ writer' = "take")
    <3>1. UNCHANGED <<ended, batch, buffer, wire, closing, netVars>> BY <2>1
    <3>2. f \in Frame /\ Admit(f) BY <2>1, <2>3
    <3> HIDE DEF f
    <3> QED BY <3>1, <3>2, AdmitStep
  <2>6. TypeOK' BY <2>1, <2>5 DEF TypeOK
  <2>7. StreamState' BY <2>1, <2>2, <2>3, <2>5 DEF StreamState
  <2>8. AcceptedState'
    <3>1. accepted = admitted \o pending BY <1>3, <2>1, <2>2 DEF AcceptedState
    <3>2. admitted' \o pending' = admitted \o pending
      BY <2>1, <2>2, <2>4, <2>5, MoveHead
    <3>3. Begins(admitted', accepted') BY <2>1, <2>3, <2>5, <3>1, <3>2, BeginsConcat
    <3> QED BY <2>1, <2>2, <3>1, <3>2, <3>3 DEF AcceptedState
  <2> QED BY <2>5, <2>6, <2>7, <2>8
<1> QED BY <1>1, <1>2, <1>3

\* Closing the sender: the flag, the queue, the connection.
LEMMA InvClose == ASSUME StreamInv, CallClose \/ Closes PROVE StreamInv'
<1> USE DEF StreamInv, producerVars, queueVars, writerVars, netVars, streamVars
<1>1. UNCHANGED <<mu, bound, pending, removed, accepted>> BY DEF CallClose, Closes
<1>2. CASE CallClose \/ CloseConn
  <2>1. /\ (closing = 0 /\ closing' = 1) \/ (closing = 2 /\ closing' = 3)
        /\ UNCHANGED <<offered, holding, queue, ended, writer, batch, buffer, wire, stalled,
                       broken, capacity, admitted>>
    BY <1>2 DEF CallClose, CloseFlag, CloseConn
  <2>2. TypeOK' /\ NoGapOnTheWire' /\ NothingDropped' /\ Continues' /\ WriterState'
    <3>1. /\ offered' \subseteq Frame /\ holding' \in [Producer -> Frame \cup {None}]
          /\ stalled' \in BOOLEAN /\ broken' \in BOOLEAN
      BY <2>1 DEF TypeOK
    <3>2. UNCHANGED <<Pieces, ended, writer, capacity>> BY <2>1 DEF Pieces
    <3> QED BY <2>1, <3>1, <3>2, SenderUntouched
  <2>3. bound
    <3>1. CASE CallClose BY <3>1 DEF CallClose, StreamState
    <3>2. CASE CloseConn BY <3>2 DEF CloseConn, StreamState
    <3> QED BY <1>2, <3>1, <3>2
  <2>4. StreamState' BY <1>1, <2>1, <2>3 DEF StreamState
  <2>5. AcceptedState' BY <1>1, <2>1 DEF AcceptedState, Closed
  <2> QED BY <2>2, <2>4, <2>5
<1>3. CASE CloseQueue
  <2>1. /\ closing = 1 /\ closing' = 2 /\ ended' = TRUE /\ queue' = <<>>
        /\ writer' = IF writer = "parked" THEN "take" ELSE writer
        /\ UNCHANGED <<offered, holding, batch, buffer, wire, stalled, broken, capacity, admitted>>
    BY <1>3 DEF CloseQueue
  <2>2. <<>> \in Seq(Frame) /\ Len(<<>>) = 0 BY EmptySeq
  <2>3. TypeOK' BY <2>1, <2>2 DEF TypeOK
  <2>4. NoGapOnTheWire' BY <2>1 DEF NoGapOnTheWire
  <2>5. NothingDropped' BY <2>1 DEF NothingDropped
  <2>6. Continues'
    <3>1. writer' \in Working => writer \in Working BY <2>1 DEF Working
    <3> QED BY <2>1, <3>1 DEF Continues, OnTheWay
  <2>7. WriterState' BY <2>1 DEF WriterState
  <2>8. StreamState' BY <1>1, <2>1 DEF StreamState
  <2>9. AcceptedState' BY <1>1, <2>1 DEF AcceptedState, Closed
  <2> QED BY <2>3, <2>4, <2>5, <2>6, <2>7, <2>8, <2>9
<1> QED BY <1>2, <1>3 DEF Closes, Close

\* What every step of the writer leaves alone.
WriterFrame == <<offered, holding, ended, closing, stalled, broken, capacity, admitted,
                 mu, bound, pending, removed, accepted>>

\* The writer moves frames on without touching the callers' state, so what is
\* left to show for each of its steps is where the frames are.
LEMMA WriterStep ==
    ASSUME StreamInv, UNCHANGED WriterFrame,
           writer # "unbound", writer' # "unbound",
           queue' \in Seq(Frame), Len(queue') <= Len(queue),
           batch' \in Seq(Frame), buffer' \in Seq(Frame), wire' \in Seq(Frame),
           writer' \in {"take", "parked", "check", "write", "failed", "leave", "done"}
    PROVE  TypeOK' /\ StreamState' /\ AcceptedState'
<1> USE DEF StreamInv, WriterFrame
<1>1. Len(queue) \in Nat /\ Len(queue') \in Nat BY LenProperties DEF TypeOK
<1>2. TypeOK' BY <1>1 DEF TypeOK, StreamState
<1>3. StreamState' BY DEF StreamState
<1>4. AcceptedState' BY DEF AcceptedState, Closed
<1> QED BY <1>2, <1>3, <1>4

LEMMA InvTake == ASSUME StreamInv, Take, UNCHANGED streamVars PROVE StreamInv'
<1> USE DEF StreamInv, producerVars, netVars, streamVars
<1>1. /\ writer = "take" /\ UNCHANGED WriterFrame /\ UNCHANGED <<buffer, wire>>
      /\ buffer = <<>> /\ batch = <<>>
  BY DEF Take, WriterFrame, WriterState
<1>2. /\ queue \in Seq(Frame) /\ batch \in Seq(Frame) /\ buffer \in Seq(Frame)
      /\ wire \in Seq(Frame) /\ admitted \in Seq(Frame) /\ Len(queue) \in Nat
  BY LenProperties DEF TypeOK
<1>3. CASE writer' \in {"leave", "parked"} /\ UNCHANGED <<queue, batch>>
  <2>1. TypeOK' /\ StreamState' /\ AcceptedState' BY <1>1, <1>2, <1>3, WriterStep
  <2>2. NoGapOnTheWire' BY <1>1 DEF NoGapOnTheWire, WriterFrame
  <2>3. NothingDropped' BY <1>1, <1>3 DEF NothingDropped, InFlight, WriterFrame
  <2>4. Continues' BY <1>1, <1>3 DEF Continues, OnTheWay, Working, WriterFrame
  <2>5. WriterState' BY <1>1, <1>3 DEF WriterState, WriterFrame
  <2> QED BY <2>1, <2>2, <2>3, <2>4, <2>5
<1>4. CASE /\ writer' = "check" /\ ~ended
           /\ batch' = SubSeq(queue, 1, TakeSize) /\ queue' = Taken
  <2>1. TakeSize \in 0..Len(queue) BY <1>2, BatchAssumption DEF TakeSize
  <2>2. /\ batch' \in Seq(Frame) /\ queue' \in Seq(Frame) /\ batch' \o queue' = queue
        /\ Len(queue') = Len(queue) - TakeSize
    BY <1>2, <1>4, <2>1, Cut DEF Taken
  <2>3. Len(queue') <= Len(queue) BY <1>2, <2>1, <2>2
  <2>4. TypeOK' /\ StreamState' /\ AcceptedState' BY <1>1, <1>2, <1>4, <2>2, <2>3, WriterStep
  <2>5. NoGapOnTheWire' BY <1>1 DEF NoGapOnTheWire, WriterFrame
  <2>6. wire \o buffer = wire /\ OnTheWay = wire /\ OnTheWay' = wire \o batch'
    BY <1>1, <1>2, ConcatEmptySeq DEF OnTheWay
  <2>7. admitted' = wire \o queue
    BY <1>1, <1>4, <2>6, SeqTypes DEF NothingDropped, WriterFrame
  <2>8. admitted' = OnTheWay' \o queue'
    BY <1>2, <2>2, <2>6, <2>7, Regroup
  <2>9. OnTheWay' \in Seq(Frame) BY <1>2, <2>2, <2>6, ConcatProperties
  <2>10. NothingDropped' BY <2>8 DEF NothingDropped, InFlight, OnTheWay
  <2>11. Continues' BY <2>2, <2>8, <2>9, BeginsConcat DEF Continues
  <2>12. WriterState' BY <1>1, <1>4 DEF WriterState, WriterFrame
  <2> QED BY <2>4, <2>5, <2>10, <2>11, <2>12
<1> QED BY <1>3, <1>4 DEF Take

\* Leaving the loop, or finding the sender open.
LEMMA InvLoop == ASSUME StreamInv, Check \/ Leave, UNCHANGED streamVars PROVE StreamInv'
<1> USE DEF StreamInv, producerVars, queueVars, writerVars, netVars, streamVars
<1>1. /\ UNCHANGED WriterFrame /\ UNCHANGED <<queue, batch, buffer, wire>>
      /\ \/ writer = "check" /\ writer' \in {"leave", "write"}
         \/ writer \in {"failed", "leave"} /\ writer' = "done" /\ closing = 3
  BY DEF Check, Leave, WriterFrame
<1>2. /\ queue \in Seq(Frame) /\ batch \in Seq(Frame) /\ buffer \in Seq(Frame)
      /\ wire \in Seq(Frame) /\ Len(queue) \in Nat
  BY LenProperties DEF TypeOK
<1>3. TypeOK' /\ StreamState' /\ AcceptedState' BY <1>1, <1>2, WriterStep
<1>4. NoGapOnTheWire' BY <1>1 DEF NoGapOnTheWire, WriterFrame
<1>5. NothingDropped' BY <1>1 DEF NothingDropped, InFlight, WriterFrame, WriterState
<1>6. Continues' BY <1>1 DEF Continues, OnTheWay, Working, WriterFrame
<1>7. WriterState' BY <1>1 DEF WriterState, WriterFrame
<1> QED BY <1>3, <1>4, <1>5, <1>6, <1>7

\* Writing, spilling and flushing keep the order of what is on the way.
LEMMA InvWrite ==
    ASSUME StreamInv, WriteFrame \/ Spill \/ Flush, UNCHANGED streamVars
    PROVE  StreamInv'
<1> USE DEF StreamInv, producerVars, queueVars, netVars, streamVars
<1>1. /\ UNCHANGED WriterFrame /\ UNCHANGED queue
      /\ writer = "write" /\ writer' \in {"write", "take"}
  BY DEF WriteFrame, Spill, Flush, WriterFrame
<1>2. /\ queue \in Seq(Frame) /\ batch \in Seq(Frame) /\ buffer \in Seq(Frame)
      /\ wire \in Seq(Frame) /\ admitted \in Seq(Frame) /\ Len(queue) \in Nat
      /\ <<>> \in Seq(Frame)
  BY LenProperties, EmptySeq DEF TypeOK
<1>3. /\ batch' \in Seq(Frame) /\ buffer' \in Seq(Frame) /\ wire' \in Seq(Frame)
      /\ OnTheWay' = OnTheWay
      /\ writer' = "take" => buffer' = <<>> /\ batch' = <<>>
      /\ wire' = wire \/ wire' = wire \o buffer
  <2>1. CASE WriteFrame
    <3>1. /\ batch # <<>> /\ buffer' = Append(buffer, Head(batch)) /\ batch' = Tail(batch)
          /\ wire' = wire /\ writer' = "write"
      BY <2>1 DEF WriteFrame
    <3>2. buffer' \in Seq(Frame) /\ batch' \in Seq(Frame) /\ buffer' \o batch' = buffer \o batch
      BY <1>2, <3>1, MoveHead
    <3>3. OnTheWay = wire \o (buffer \o batch) BY <1>2, ConcatAssociative DEF OnTheWay
    <3>4. (wire \o buffer') \o batch' = wire \o (buffer' \o batch')
      BY <1>2, <3>2, Regroup, Zenon
    <3> QED BY <1>2, <3>1, <3>2, <3>3, <3>4 DEF OnTheWay
  <2>2. CASE Spill \/ Flush
    <3>1. /\ wire' = wire \o buffer /\ buffer' = <<>> /\ batch' = batch
          /\ writer' = "take" => batch = <<>>
      BY <2>2, <1>1 DEF Spill, Flush
    <3>2. wire \o buffer \in Seq(Frame) BY <1>2, ConcatProperties
    <3>3. (wire \o buffer) \o <<>> = wire \o buffer BY <3>2, ConcatEmptySeq
    <3> QED BY <1>2, <3>1, <3>2, <3>3 DEF OnTheWay
  <2> QED BY <2>1, <2>2
<1>4. TypeOK' /\ StreamState' /\ AcceptedState' BY <1>1, <1>2, <1>3, WriterStep
<1>5. Begins(OnTheWay, admitted) BY <1>1 DEF Continues, Working
<1>6. NoGapOnTheWire'
  <2>1. Begins(wire \o buffer, admitted)
    BY <1>2, <1>5, SeqTypes, BeginsShorter DEF OnTheWay
  <2> QED BY <1>1, <1>3, <2>1 DEF NoGapOnTheWire, WriterFrame
<1>7. NothingDropped'
  <2>1. InFlight = OnTheWay \o queue /\ InFlight' = OnTheWay' \o queue'
    BY DEF InFlight, OnTheWay
  <2> QED BY <1>1, <1>3, <2>1 DEF NothingDropped, WriterFrame
<1>8. Continues' BY <1>1, <1>3, <1>5 DEF Continues, WriterFrame
<1>9. WriterState' BY <1>1, <1>3 DEF WriterState, WriterFrame
<1> QED BY <1>4, <1>6, <1>7, <1>8, <1>9

\* A failed write may leave part of the buffer on the wire, and is the last.
LEMMA InvError == ASSUME StreamInv, WriteError, UNCHANGED streamVars PROVE StreamInv'
<1> USE DEF StreamInv, producerVars, queueVars, netVars, streamVars
<1>1. /\ UNCHANGED WriterFrame /\ UNCHANGED queue /\ writer = "write" /\ writer' = "failed"
      /\ batch' = <<>> /\ buffer' = <<>>
  BY DEF WriteError, WriterFrame, AfterError
<1>2. PICK k \in 0..Len(buffer) : wire' = wire \o SubSeq(buffer, 1, k) BY DEF WriteError
<1>3. /\ queue \in Seq(Frame) /\ batch \in Seq(Frame) /\ buffer \in Seq(Frame)
      /\ wire \in Seq(Frame) /\ admitted \in Seq(Frame) /\ Len(queue) \in Nat
      /\ <<>> \in Seq(Frame)
  BY LenProperties, EmptySeq DEF TypeOK
<1> DEFINE a == SubSeq(buffer, 1, k)
           c == SubSeq(buffer, k + 1, Len(buffer))
<1>4. a \in Seq(Frame) /\ c \in Seq(Frame) /\ a \o c = buffer BY <1>3, Cut
<1>5. wire' = wire \o a BY <1>2
<1> HIDE DEF a, c
<1>6. wire' \in Seq(Frame) BY <1>3, <1>4, <1>5, ConcatProperties
<1>7. TypeOK' /\ StreamState' /\ AcceptedState' BY <1>1, <1>3, <1>6, WriterStep
<1>8. NoGapOnTheWire'
  <2>1. Begins(OnTheWay, admitted) BY <1>1 DEF Continues, Working
  <2>2. Begins(wire \o buffer, admitted)
    BY <1>3, <2>1, SeqTypes, BeginsShorter DEF OnTheWay
  <2>3. wire \o buffer = wire' \o c
    <3>0. \A x, y \in Seq(Frame) : (wire \o x) \o y = wire \o (x \o y) BY <1>3, Regroup
    <3>1. (wire \o a) \o c = wire \o (a \o c) BY <1>4, <3>0
    <3> QED BY <3>1, <1>4, <1>5
  <2>4. Begins(wire', admitted) BY <1>3, <1>4, <1>6, <2>2, <2>3, BeginsShorter
  <2> QED BY <1>1, <2>4 DEF NoGapOnTheWire, WriterFrame
<1>9. NothingDropped' BY <1>1 DEF NothingDropped
<1>10. Continues' BY <1>1 DEF Continues, Working
<1>11. WriterState' BY <1>1 DEF WriterState, WriterFrame
<1> QED BY <1>7, <1>8, <1>9, <1>10, <1>11

-----------------------------------------------------------------------------
LEMMA InvInit == StreamInit => StreamInv
<1> SUFFICES ASSUME StreamInit PROVE StreamInv OBVIOUS
<1>1. <<>> \in Seq(Frame) /\ Len(<<>>) = 0 BY EmptySeq
<1>2. <<>> \o <<>> = <<>> BY <1>1, ConcatEmptySeq
<1>3. Begins(<<>>, <<>>) BY <1>1, BeginsItself
<1>0. capacity \in Int /\ (capacity = -1 \/ capacity >= 0) /\ (mu # "none" => capacity = -1)
  BY CapacityAssumption DEF StreamInit
<1>4. TypeOK
  <2>1. queue = <<>> BY DEF StreamInit
  <2>2. capacity >= 0 => Len(queue) <= capacity BY <1>0, <1>1, <2>1
  <2>3. holding \in [Producer -> Frame \cup {None}] BY DEF StreamInit
  <2>4. /\ writer \in {"unbound", "take", "parked", "check", "write", "failed", "leave", "done"}
        /\ closing \in 0..3
    BY DEF StreamInit
  <2>5. /\ offered \subseteq Frame
        /\ ended \in BOOLEAN /\ stalled \in BOOLEAN /\ broken \in BOOLEAN
        /\ queue \in Seq(Frame) /\ batch \in Seq(Frame) /\ buffer \in Seq(Frame)
        /\ wire \in Seq(Frame) /\ admitted \in Seq(Frame)
    BY <1>1 DEF StreamInit
  <2> QED BY <2>2, <2>3, <2>4, <2>5, Zenon DEF TypeOK
<1>5. NoGapOnTheWire BY <1>3 DEF StreamInit, NoGapOnTheWire
<1>6. NothingDropped BY <1>2 DEF StreamInit, NothingDropped, InFlight
<1>7. Continues BY <1>2, <1>3 DEF StreamInit, Continues, OnTheWay
<1>8. WriterState BY DEF StreamInit, WriterState
<1>9. StreamState BY <1>0, <1>1 DEF StreamInit, StreamState
<1>10. AcceptedState BY <1>2, <1>3 DEF StreamInit, AcceptedState
<1> QED BY <1>4, <1>5, <1>6, <1>7, <1>8, <1>9, <1>10 DEF StreamInv

LEMMA InvStutter == StreamInv /\ UNCHANGED allVars => StreamInv'
<1> SUFFICES ASSUME StreamInv, UNCHANGED allVars PROVE StreamInv' OBVIOUS
<1> USE DEF StreamInv, allVars, vars, producerVars, senderVars, netVars, streamVars
<1>1. TypeOK' BY DEF TypeOK
<1>2. NoGapOnTheWire' /\ NothingDropped' /\ Continues'
  BY DEF NoGapOnTheWire, NothingDropped, Continues, OnTheWay, InFlight
<1>3. WriterState' /\ StreamState' BY DEF WriterState, StreamState
<1>4. AcceptedState' BY DEF AcceptedState, Closed
<1> QED BY <1>1, <1>2, <1>3, <1>4

LEMMA InvNext == StreamInv /\ [StreamNext]_allVars => StreamInv'
<1> SUFFICES ASSUME StreamInv, [StreamNext]_allVars PROVE StreamInv' OBVIOUS
<1>1. CASE \E p \in Producer : SendEnd(p) BY <1>1, InvEnqueue
<1>2. CASE EnqueueEnd BY <1>2, InvEnqueue
<1>3. CASE \E p \in Producer, f \in Frame : SendBegin(p, f) BY <1>3, InvOffer
<1>4. CASE \E f \in Frame : EnqueueEarly(f) \/ EnqueueBegin(f) BY <1>4, InvOffer
<1>5. CASE Network BY <1>5, InvOffer
<1>6. CASE Bind \/ HandOver BY <1>6, InvBind
<1>7. CASE Bound \/ ClosePeer \/ Unlock BY <1>7, InvMutex
<1>8. CASE CallClose \/ Closes BY <1>8, InvClose
<1>9. CASE Runs
  <2>1. UNCHANGED streamVars BY <1>9 DEF Runs
  <2>2. CASE Take BY <2>1, <2>2, InvTake
  <2>3. CASE Check \/ Leave BY <2>1, <2>3, InvLoop
  <2>4. CASE WriteFrame \/ Flush BY <2>1, <2>4, InvWrite
  <2>5. CASE WriteError BY <2>1, <2>5, InvError
  <2> QED BY <1>9, <2>2, <2>3, <2>4, <2>5 DEF Runs, Run
<1>10. CASE Spills BY <1>10, InvWrite DEF Spills
<1>11. CASE UNCHANGED allVars BY <1>11, InvStutter
<1> QED BY <1>1, <1>2, <1>3, <1>4, <1>5, <1>6, <1>7, <1>8, <1>9, <1>10, <1>11 DEF StreamNext

\* The state of a sender and of the stream around it, with the inductive
\* invariant the theorems below are read from.
THEOREM StreamInvariant == StreamSpec => []StreamInv
<1>1. StreamInit => StreamInv BY InvInit
<1>2. StreamInv /\ [StreamNext]_allVars => StreamInv' BY InvNext
<1> QED BY <1>1, <1>2, PTL DEF StreamSpec

\* Type correctness; a bounded frameQueue never holds more than its capacity.
THEOREM SenderTypes == StreamSpec => []TypeOK
<1>1. StreamInv => TypeOK BY DEF StreamInv
<1> QED BY <1>1, StreamInvariant, PTL

\* Whatever races with Close and whichever write fails, the connection carries
\* the frames Enqueue admitted in their order, without a gap.
THEOREM WireHasNoGap == StreamSpec => []NoGapOnTheWire
<1>1. StreamInv => NoGapOnTheWire BY DEF StreamInv
<1> QED BY <1>1, StreamInvariant, PTL

\* While the sender is open and no write has failed every admitted frame is in
\* exactly one of the queue, the batch, the buffer and the wire, in order.
THEOREM NothingIsDropped == StreamSpec => []NothingDropped
<1>1. StreamInv => NothingDropped BY DEF StreamInv
<1> QED BY <1>1, StreamInvariant, PTL

\* The frames a stream accepted before Bind precede those accepted after it:
\* the wire is a prefix of the frames in the order Enqueue accepted them.
THEOREM EarlyFramesGoFirst == StreamSpec => []EarlyFramesFirst
<1>1. StreamInv => EarlyFramesFirst
  <2> SUFFICES ASSUME StreamInv, mu # "none" PROVE Begins(wire, accepted)
    BY DEF EarlyFramesFirst
  <2>1. Begins(wire, admitted) BY DEF StreamInv, NoGapOnTheWire
  <2>2. Begins(admitted, accepted) BY DEF StreamInv, AcceptedState
  <2>3. wire \in Seq(Frame) /\ admitted \in Seq(Frame) /\ accepted \in Seq(Frame)
    BY DEF StreamInv, TypeOK, StreamState
  <2> QED BY <2>1, <2>2, <2>3, BeginsTransitive
<1> QED BY <1>1, StreamInvariant, PTL
=============================================================================
