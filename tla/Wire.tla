-------------------------------- MODULE Wire --------------------------------
(***************************************************************************)
(* The data-plane messages of every package on a connection: package       *)
(* wireproto (frames, the byte scan), the generated messages.pb.go and the *)
(* selections and checks of each wire.go.                                  *)
(*                                                                         *)
(* A payload is a sequence of fields, as protobuf reads it: a varint keeps *)
(* its number, a byte string its length, a message inside its own fields.  *)
(* Sizes are those of the real encoding.  A slice is <<>> when it is nil   *)
(* and <<s>> otherwise, a byte string <<length>>, a pointer <<x>>.         *)
(***************************************************************************)
EXTENDS WireDefs, WirePaxos, WireFastPaxos, WireCurp, WireEPaxos, WireSwift,
        WirePQL, WireBodega, WireKCensus, FiniteSets, SequencesExt

CONSTANTS
    Int32Bits,   \* bound: bits of an int32 (32)
    Int64Bits,   \* bound: bits of an int64, uint64 and int (64)
    Depth,       \* bound: levels of messages inside that are varied
    MaxSent      \* bound: frames written to the connection

ASSUME BitsAssumption == Int32Bits \in 9..Int64Bits /\ Int64Bits \in 9..28
ASSUME SentAssumption == MaxSent \in Nat /\ Depth \in Nat

VARIABLES
    type,     \* the type of the first message
    codec,    \* the tables of the messages on the connection
    sent,     \* the messages written, each with the build of its writer
    stream,   \* their frames on the way, the last one perhaps cut short
    broken,   \* the connection is gone
    got,      \* the messages the reader handed over
    failed,   \* the reader gave the connection up
    panicked  \* why Encode failed and the sender panicked

vars == <<type, codec, sent, stream, broken, got, failed, panicked>>

Messages == state_Messages @@ defs_Messages @@ paxos_Messages @@ fastpaxos_Messages
         @@ curp_Messages @@ epaxos_Messages @@ swift_Messages @@ pql_Messages
         @@ bodega_Messages @@ kcensus_Messages
Type == DOMAIN Messages
\* The messages that only occur inside others.
Inside == {"state.Command", "paxos.Record", "paxos.Request", "fastpaxos.Entry", "fastpaxos.Record",
           "curp.Record", "curp.Request", "swift.MSyncPhasesEntry", "swift.MSyncCmdsEntry",
           "swift.MSyncDepsEntry", "pql.Record", "pql.Request", "pql.HolderUpdate",
           "pql.LeaseChange", "bodega.BodegaResponderRange", "bodega.Entry", "bodega.Request",
           "bodega.Roster", "kcensus.Batch", "kcensus.Record", "kcensus.Value",
           "kcensus.NodeReport"}
Root == Type \ Inside

MaxFrame == 67108864
Limit(t) == IF t \in DOMAIN paxos_Messages \cup DOMAIN curp_Messages
                     \cup DOMAIN pql_Messages \cup DOMAIN kcensus_Messages
              THEN 16777216
              ELSE MaxFrame
headerSize == 8

-----------------------------------------------------------------------------
(***************************************************************************)
(* Fields of a payload.                                                    *)
(***************************************************************************)
Field(n, wt, v, l, vs, p) ==
    [num |-> n, wt |-> wt, int |-> v, len |-> l, ints |-> vs, sub |-> p]
VarintField(n, v)  == Field(n, 0, v, 0, <<>>, <<>>)
BytesField(n, l)   == Field(n, 2, 0, l, <<>>, <<>>)
HashField(n, h)    == Field(n, 2, h, 32, <<>>, <<>>)
MessageField(n, p) == Field(n, 2, 0, 0, <<>>, p)
PackedField(n, vs) == Field(n, 2, 0, 0, vs, <<>>)

\* (v << 1) ^ (v >> 31), or 63
ZigZag(x) == IF x >= 0 THEN 2 * x ELSE -2 * x - 1
UnZigZag(u) == IF u % 2 = 0 THEN u \div 2 ELSE -((u + 1) \div 2)
Wrap8(x) == ((x + 128) % 256) - 128

\* Seven bits to the byte.
Sov(x) == 1 + Cardinality({k \in 1..3 : x >= 128^k})
Soz(x) == Sov(ZigZag(x))

SumOver(f(_), s) == FoldLeft(LAMBDA n, x : n + f(x), 0, s)
Elements(slice) == IF slice = <<>> THEN <<>> ELSE slice[1]
Map(f(_), s) == [k \in DOMAIN s |-> f(s[k])]

RECURSIVE FieldBytes(_)
PayloadBytes(p) == SumOver(FieldBytes, p)
FieldBytes(x) ==
    LET body == x.len + SumOver(Sov, x.ints) + PayloadBytes(x.sub)
    IN  Sov(8 * x.num + x.wt) + IF x.wt = 0 THEN Sov(x.int) ELSE Sov(body) + body

-----------------------------------------------------------------------------
(***************************************************************************)
(* Which fields are written.                                               *)
(***************************************************************************)
\* The zero value of a message: what a decoder starts from.
RECURSIVE Zero(_)
ZeroField(r) ==
    CASE r.kind = "Bool"   -> FALSE
      [] r.kind = "Nested" -> Zero(r.type)
      [] r.kind \in {"Varint", "ZigZag32", "ZigZag64", "Uint8", "Int8", "Hash"} -> 0
      [] OTHER -> <<>>
Rows(t) == codec[t].unmarshal
Names(t) == {Rows(t)[k].field : k \in DOMAIN Rows(t)}
RowOf(t, f) == Rows(t)[CHOOSE k \in DOMAIN Rows(t) : Rows(t)[k].field = f]
Zero(t) == [f \in Names(t) |-> ZeroField(RowOf(t, f))]
             @@ IF t = "kcensus.Message" THEN "References" :> FALSE ELSE <<>>

\* bodega: the fields a message of each kind carries besides its header.
KindFields(kind) ==
    CASE kind = 7 -> {"CommitPrefix", "CommitSlot"}
      [] kind = 0 -> {"Roster", "Prefix", "CommitPrefix"}
      [] kind = 15 -> {"Prefix", "CommitPrefix"}
      [] kind = 16 -> {}
      [] kind \in {1, 11, 12} -> {"Sequence"}
      [] kind = 2 -> {"Sequence", "Threshold"}
      [] kind = 3 -> {"PrepareStart"}
      [] kind = 4 -> {"PrepareStart", "Part", "Parts", "Entries"}
      [] kind \in {5, 14} -> {"Entry"}
      [] kind \in {6, 13} -> {"Prefix"}
      [] kind = 8 -> {"Request"}
      [] kind = 9 -> {"Value"}
      [] kind = 10 -> {"RepairStart"}
bodega_Message_wireFields(m) ==
    LET kept == KindFields(m.Kind) \cup {"Kind", "From", "ReadPrefix"}
        zero == [f \in DOMAIN m |-> IF f \in kept THEN m[f] ELSE Zero("bodega.Message")[f]]
    IN  [zero EXCEPT
           !.Roster.Ballot = m.Roster.Ballot,
           !.Entry.Slot = IF m.Kind \in {5, 6, 13, 14} THEN m.Entry.Slot ELSE @,
           !.Request = IF m.Kind # 9 THEN @
                       ELSE [@ EXCEPT !.Origin = m.Request.Origin,
                                      !.Proposal.ClientId = m.Request.Proposal.ClientId,
                                      !.Proposal.CommandId = m.Request.Proposal.CommandId]]
bodega_Entry_wireFields(m) ==
    LET batch == Elements(m.Batch)
    IN  [m EXCEPT !.Request = CASE Len(batch) = 0 -> @
                                [] Len(batch) = 1 -> batch[1]
                                [] OTHER -> Zero("bodega.Request"),
                  !.Batch = IF Len(batch) = 1 THEN <<>> ELSE @]

\* kcensus: a reference carries no payload, a batch no records.
kcensus_Value_Select(m) ==
    [m EXCEPT !.Records = IF m.Reference \/ m.Batch # <<>> THEN <<>> ELSE @,
              !.Batch = IF m.Reference THEN <<>> ELSE @]
\* A pointer to a value, as it goes out; nil is marked absent.
wireValue(v, references) ==
    IF v = <<>> THEN [Zero("kcensus.Value") EXCEPT !.Absent = TRUE]
    ELSE IF references \/ v[1].Reference
           THEN [v[1] EXCEPT !.Reference = TRUE, !.Records = <<>>, !.Batch = <<>>]
           ELSE v[1]
Refs(r, m) == CASE r.type = "always" -> TRUE
                [] r.type = "never"  -> FALSE
                [] OTHER -> m.References

Select(t, m) == CASE t = "bodega.Message" -> bodega_Message_wireFields(m)
                  [] t = "bodega.Entry"   -> bodega_Entry_wireFields(m)
                  [] t = "kcensus.Value"  -> kcensus_Value_Select(m)
                  [] OTHER -> m

\* fastpaxos: votes and no-ops are written without the command.
fastpaxos_Record_MarshalIdentity ==
    <<Nested(1, "ID", "defs.RequestID"), Bool(3, "Noop")>>
fastpaxos_Record_SizeIdentity ==
    <<Nested(1, "ID", "defs.RequestID"), Flag(1)>>
\* Mutant of identityOnly: a no-op is written in full.
payloadOnly(v, payload) == ~payload
identityOnly(v, payload) == ~payload \/ v.Noop

-----------------------------------------------------------------------------
(***************************************************************************)
(* Writing: MarshalToSizedBuffer and Size, by the tables.                  *)
(***************************************************************************)
RECURSIVE MarshalRows(_, _)
Marshal(t, m) == MarshalRows(codec[t].marshal, Select(t, m))
MarshalRow(r, m) ==
    LET x == m[r.field]
        inside(v) == MessageField(r.num, Marshal(r.type, v))
        value(v) == MessageField(r.num, Marshal("kcensus.Value", wireValue(v, Refs(r, m))))
    IN  CASE r.kind = "Varint" -> <<VarintField(r.num, x)>>
          [] r.kind \in {"ZigZag32", "ZigZag64"} -> <<VarintField(r.num, ZigZag(x))>>
          [] r.kind = "Bool" -> <<VarintField(r.num, IF x THEN 1 ELSE 0)>>
          [] r.kind = "OptVarint" -> Map(LAMBDA v : VarintField(r.num, v), x)
          [] r.kind = "Bytes" -> Map(LAMBDA l : BytesField(r.num, l), x)
          [] r.kind = "Hash" -> <<HashField(r.num, x)>>
          [] r.kind = "Nested" -> <<inside(x)>>
          [] r.kind = "Pointer" -> Map(inside, x)
          [] r.kind = "Repeated" -> Map(inside, Elements(x))
          [] r.kind = "Varints" -> Map(LAMBDA v : VarintField(r.num, v), Elements(x))
          [] r.kind \in {"ZigZag32s", "ZigZag64s"} ->
               Map(LAMBDA v : VarintField(r.num, ZigZag(v)), Elements(x))
          [] r.kind = "WireValue" -> IF x = <<>> THEN <<>> ELSE <<value(x)>>
          [] r.kind = "WireValues" -> Map(value, Elements(x))
          [] r.kind = "WireRecord" ->
               <<MessageField(r.num, IF identityOnly(x, m.Payload)
                                       THEN MarshalRows(fastpaxos_Record_MarshalIdentity, x)
                                       ELSE Marshal(r.type, x))>>
MarshalRows(rows, m) == FoldLeft(LAMBDA p, r : p \o MarshalRow(r, m), <<>>, rows)

RECURSIVE SizeRows(_, _)
Size(t, m) == SizeRows(codec[t].size, Select(t, m))
SizeRow(r, m) ==
    LET x == m[r.field]
        delimited(l) == r.num + l + Sov(l)
        inside(v) == delimited(Size(r.type, v))
        value(v) == delimited(Size("kcensus.Value", wireValue(v, Refs(r, m))))
    IN  CASE r.kind = "Varint" -> r.num + Sov(x)
          [] r.kind = "ZigZag64" -> r.num + Soz(x)
          [] r.kind = "Bool" -> r.num + 1
          [] r.kind = "OptVarint" -> SumOver(LAMBDA v : r.num + Sov(v), x)
          [] r.kind = "Bytes" -> SumOver(delimited, x)
          [] r.kind = "Hash" -> delimited(32)
          [] r.kind = "Nested" -> inside(x)
          [] r.kind = "Pointer" -> SumOver(inside, x)
          [] r.kind = "Repeated" -> SumOver(inside, Elements(x))
          [] r.kind = "Varints" -> SumOver(LAMBDA v : r.num + Sov(v), Elements(x))
          [] r.kind = "ZigZag64s" -> SumOver(LAMBDA v : r.num + Soz(v), Elements(x))
          [] r.kind = "WireValue" -> IF x = <<>> THEN 0 ELSE value(x)
          [] r.kind = "WireValues" -> SumOver(value, Elements(x))
          [] r.kind = "WireRecord" ->
               IF identityOnly(x, m.Payload)
                 THEN delimited(SizeRows(fastpaxos_Record_SizeIdentity, x))
                 ELSE inside(x)
SizeRows(rows, m) == FoldLeft(LAMBDA n, r : n + SizeRow(r, m), 0, rows)

-----------------------------------------------------------------------------
(***************************************************************************)
(* Reading: the byte scan, UnmarshalProto and NormalizeProto.              *)
(***************************************************************************)
\* Mutant of check: a signed field is only bounded above.
checkAbove(s, v) == /\ s.unsigned # 0 => v < 2^s.unsigned
                    /\ s.signed # 0 => UnZigZag(v) < 2^(s.signed - 1)
\* Mutant of check: the lowest number is refused.
checkTight(s, v) == /\ s.unsigned # 0 => v < 2^s.unsigned
                    /\ s.signed # 0 => UnZigZag(v) > -(2^(s.signed - 1)) /\ UnZigZag(v) < 2^(s.signed - 1)
check(s, v) == /\ s.unsigned # 0 => v < 2^s.unsigned
               /\ s.signed # 0 => UnZigZag(v) \in -(2^(s.signed - 1))..(2^(s.signed - 1) - 1)

RECURSIVE Validate(_, _, _)
Validate(t, p, depth) ==
    LET shape == codec[t].shape
    IN  /\ depth > 0
        /\ \A k \in DOMAIN p : \A s \in shape : s.num = p[k].num =>
             IF p[k].wt = 0 THEN check(s, p[k].int)
             ELSE /\ s.width # 0 => p[k].len = s.width
                  /\ s.type # "" => Validate(s.type, p[k].sub, depth - 1)
                  /\ s.packed => \A j \in DOMAIN p[k].ints : check(s, p[k].ints[j])
        /\ \A s \in shape : s.width # 0 => \E k \in DOMAIN p : p[k].num = s.num

\* One field read into x, the value the message has so far: wide means
\* without the casts to eight bits.
RECURSIVE UnmarshalInto(_, _, _, _)
Good(x) == [ok |-> TRUE, msg |-> x]
Bad(x)  == [ok |-> FALSE, msg |-> x]
Int32(u) == UnZigZag(u % 2^Int32Bits)
Appended(slice, s) == <<Elements(slice) \o s>>
ReadField(r, x, y, wide) ==
    LET varint(v) == IF y.wt = 0 THEN Good(v) ELSE Bad(x)
        scalars(f(_)) == Good(Appended(x, IF y.wt = 0 THEN <<f(y.int)>> ELSE Map(f, y.ints)))
        inside(v, put(_)) ==
            LET d == UnmarshalInto(r.type, v, y.sub, wide)
            IN  IF y.wt = 2 /\ y.len = 0 /\ d.ok THEN Good(put(d.msg)) ELSE Bad(x)
    IN  CASE r.kind = "Varint" -> varint(y.int)
          [] r.kind = "Uint8" -> varint(IF wide THEN y.int ELSE y.int % 256)
          [] r.kind = "Int8" -> varint(IF wide THEN Int32(y.int) ELSE Wrap8(Int32(y.int)))
          [] r.kind = "ZigZag32" -> varint(Int32(y.int))
          [] r.kind = "ZigZag64" -> varint(UnZigZag(y.int))
          [] r.kind = "Bool" -> varint(y.int # 0)
          [] r.kind = "OptVarint" -> varint(<<y.int>>)
          [] r.kind = "Bytes" -> IF y.wt = 2 THEN Good(<<y.len>>) ELSE Bad(x)
          [] r.kind = "Hash" -> IF y.wt = 2 /\ y.len = 32 THEN Good(y.int) ELSE Bad(x)
          [] r.kind = "Varints" -> scalars(LAMBDA v : v)
          [] r.kind = "ZigZag32s" -> scalars(Int32)
          [] r.kind = "ZigZag64s" -> scalars(UnZigZag)
          [] r.kind = "Nested" -> inside(x, LAMBDA v : v)
          [] r.kind = "Pointer" -> inside(IF x = <<>> THEN Zero(r.type) ELSE x[1], LAMBDA v : <<v>>)
          [] r.kind = "Repeated" -> inside(Zero(r.type), LAMBDA v : Appended(x, <<v>>))
          [] r.kind = "Pointers" -> inside(Zero(r.type), LAMBDA v : Appended(x, << <<v>> >>))

\* A field without a row is skipped.
UnmarshalField(t, acc, y, wide) ==
    LET known == {k \in DOMAIN Rows(t) : Rows(t)[k].num = y.num}
    IN  IF ~acc.ok \/ known = {} THEN acc
        ELSE LET r == Rows(t)[CHOOSE k \in known : TRUE]
                 d == ReadField(r, acc.msg[r.field], y, wide)
             IN  [ok |-> d.ok, msg |-> [acc.msg EXCEPT ![r.field] = d.msg]]
UnmarshalInto(t, m, p, wide) ==
    FoldLeft(LAMBDA acc, y : UnmarshalField(t, acc, y, wide), Good(m), p)
Unmarshal(t, p) == UnmarshalInto(t, Zero(t), p, FALSE)

EmptySlice(slice) == IF slice = <<>> THEN << <<>> >> ELSE slice
EmptyBytes(bytes) == IF bytes = <<>> THEN <<0>> ELSE bytes
NilBytes(bytes) == IF bytes = <<0>> THEN <<>> ELSE bytes
OnSlice(f(_), slice) == IF slice = <<>> THEN <<>> ELSE <<Map(f, slice[1])>>

\* kcensus: the absent marker becomes nil again, and must come alone.
Absent(v) == v # <<>> /\ v[1].Absent
MarkedValues(m) == {m.Value, m.Fast} \cup ToSet(Elements(m.Values))
                     \cup {r.Value : r \in ToSet(Elements(m.Reports))}
clean(v) == IF Absent(v) THEN <<>> ELSE v
normalizeAbsentValues(m) ==
    IF \E v \in MarkedValues(m) : Absent(v) /\ v[1] # [Zero("kcensus.Value") EXCEPT !.Absent = TRUE]
      THEN Bad(m)
      ELSE Good([m EXCEPT !.Value = clean(@), !.Fast = clean(@), !.Values = OnSlice(clean, @),
                          !.Reports = OnSlice(LAMBDA r : [r EXCEPT !.Value = clean(@)], @)])
\* swift: the recovery entries are maps.
Keys(slice) == [k \in DOMAIN Elements(slice) |-> Elements(slice)[k].Key]
validateRecoveryEntries(m) ==
    IF \A f \in {"Phases", "Cmds", "Deps"} : IsInjective(Keys(m[f])) THEN Good(m) ELSE Bad(m)

RECURSIVE Normalize(_, _)
NormalStep(t, acc, s) ==
    LET m == acc.msg
        f == s.field
        put(v) == Good([m EXCEPT ![f] = v])
        row == RowOf(t, f)
        all(slice, g(_)) == \A k \in DOMAIN Elements(slice) : g(Elements(slice)[k]).ok
        fixV(c, g(_)) == [c EXCEPT !.V = g(@)]
        \* the message inside, behind one pointer or two
        deep(v) == Normalize(row.type, v)
        pointed(v) == IF v = <<>> THEN Good(v)
                      ELSE [ok |-> deep(v[1]).ok, msg |-> <<deep(v[1]).msg>>]
        one(v) == IF row.kind \in {"Pointer", "Pointers"} THEN pointed(v) ELSE deep(v)
    IN  CASE ~acc.ok -> acc
          [] s.op = "Inner" -> IF one(m[f]).ok THEN put(one(m[f]).msg) ELSE Bad(m)
          [] s.op = "InnerCommand" -> put(m[f])
          [] s.op = "Each" -> IF all(m[f], one) THEN put(OnSlice(LAMBDA v : one(v).msg, m[f]))
                              ELSE Bad(m)
          [] s.op = "Empty" -> put(IF row.kind = "Bytes" THEN EmptyBytes(m[f]) ELSE EmptySlice(m[f]))
          [] s.op = "EmptyV" -> put(fixV(m[f], EmptyBytes))
          [] s.op = "EachEmptyV" -> put(OnSlice(LAMBDA c : fixV(c, EmptyBytes), m[f]))
          [] s.op = "NilV" -> put(fixV(m[f], NilBytes))
          [] s.op = "EachNilV" -> put(OnSlice(LAMBDA e : [e EXCEPT !.Value = fixV(@, NilBytes)], m[f]))
          [] s.op = "Hook" -> IF f = "normalizeAbsentValues" THEN normalizeAbsentValues(m)
                              ELSE validateRecoveryEntries(m)
Normalize(t, m) == FoldLeft(LAMBDA acc, s : NormalStep(t, acc, s), Good(m), codec[t].normalize)

-----------------------------------------------------------------------------
(***************************************************************************)
(* The protocols' own checks of a message that was read.                   *)
(***************************************************************************)
SCAN == 3
Below(x, n) == x >= 0 /\ x < n

fastpaxos_validateProtoMessage(m) ==
    LET entries == Elements(m.Entries)
        carried(e) == e.Payload /\ ~e.Value.Noop
        length(e) == IF carried(e) THEN EmptyBytes(e.Value.Command.V)[1] ELSE 0
    IN  IF /\ m.Kind <= 11 /\ Len(entries) <= 128
           /\ \A k \in DOMAIN entries :
                /\ entries[k].Slot >= 0
                /\ carried(entries[k]) => /\ entries[k].Value.Command.Op <= SCAN
                                          /\ length(entries[k]) <= 16777216
           /\ SumOver(length, entries) <= 33554432
          THEN Good([m EXCEPT !.Entries =
                 OnSlice(LAMBDA e : IF carried(e) THEN [e EXCEPT !.Value.Command.V = EmptyBytes(@)] ELSE e, @)])
          ELSE Bad(m)

bodega_checkRequest(r) == r.Origin >= -1 /\ r.Origin < 63 /\ r.Proposal.Command.Op <= SCAN
bodega_requests(e) == IF Len(Elements(e.Batch)) > 0 THEN Elements(e.Batch) ELSE <<e.Request>>
bodega_checkEntry(e) ==
    /\ Len(bodega_requests(e)) <= 5000
    /\ \A k \in DOMAIN bodega_requests(e) : bodega_checkRequest(bodega_requests(e)[k])
bodega_Single(e) == IF Len(Elements(e.Batch)) = 1
                      THEN [e EXCEPT !.Request = Elements(e.Batch)[1], !.Batch = <<>>] ELSE e
bodega_validateProtoMessage(m) ==
    LET ok == /\ Below(m.From, 63) /\ m.Kind < 17
              /\ m.Kind = 4 => /\ m.Parts >= 1 /\ Below(m.Part, m.Parts)
                               /\ \A k \in DOMAIN Elements(m.Entries) :
                                    bodega_checkEntry(Elements(m.Entries)[k])
              /\ m.Kind \in {5, 14} => bodega_checkEntry(m.Entry)
              /\ m.Kind = 8 => bodega_checkRequest(m.Request)
    IN  IF ok THEN Good([m EXCEPT !.Entries = IF m.Kind = 4 THEN OnSlice(bodega_Single, @) ELSE @,
                                  !.Entry = CASE m.Kind \in {5, 14} -> bodega_Single(@)
                                              [] m.Kind \in {6, 13} -> [@ EXCEPT !.Ballot = m.Roster.Ballot]
                                              [] OTHER -> @])
        ELSE Bad(m)

kcensus_validateProtoValue(v) ==
    v # <<>> =>
       LET x == v[1]
           records == Elements(x.Records)
           members == Elements(x.Batch[1].Members)
       IN  /\ Below(x.Proposer, 63)
           /\ IF x.Reference THEN x.Batch = <<>> /\ Len(records) = 0
              ELSE IF x.Batch # <<>>
                     THEN /\ x.UID % 2 = 1 /\ x.Batch[1].Slot # 0 /\ Len(records) = 0
                          /\ Len(members) \in 2..4096
                          /\ \A k \in DOMAIN members : members[k] % 2 = 0
                          /\ IsInjective(members)
                     ELSE /\ x.UID % 2 = 0 /\ Len(records) = 1
                          /\ EmptyBytes(records[1].Command.V)[1] <= 65535
\* A single value's missing command bytes become empty.
FullRecord(r) == [r EXCEPT !.Command.V = EmptyBytes(@)]
FullValue(v) == IF v = <<>> \/ v[1].Reference \/ v[1].Batch # <<>> THEN v
                ELSE <<[v[1] EXCEPT !.Records = OnSlice(FullRecord, @)]>>
kcensus_validateProtoMessage(m) ==
    LET reports == Elements(m.Reports)
        ok == /\ m.Kind \in 1..23 /\ Len(Elements(m.Knowledge)) <= 63 /\ Len(reports) <= 63
              /\ Len(Elements(m.UIDs)) <= 4096 /\ Len(Elements(m.Values)) <= 4096
              /\ EmptyBytes(m.Result)[1] <= 65535
              /\ \A v \in MarkedValues(m) : kcensus_validateProtoValue(v)
              /\ \A k \in DOMAIN reports : Below(reports[k].From, 63) /\ reports[k].Proposer \in -1..62
              /\ IsInjective([k \in DOMAIN reports |-> reports[k].From])
              /\ m.Request # <<>> => EmptyBytes(m.Request[1].Command.V)[1] <= 65535
    IN  IF ok THEN Good([m EXCEPT !.Value = FullValue(@), !.Fast = FullValue(@),
                                  !.Values = OnSlice(FullValue, @), !.Result = EmptyBytes(@),
                                  !.Reports = OnSlice(LAMBDA r : [r EXCEPT !.Value = FullValue(@)], @),
                                  !.Request = Map(FullRecord, @)])
        ELSE Bad(m)

pql_validatePacket(m) ==
    LET records == Elements(m.Records)
        change(r) == r.Request.Change
    IN  IF /\ m.Kind <= 13 /\ Below(m.From, 63)
           /\ \A k \in DOMAIN records :
                /\ records[k].Slot >= 0
                /\ change(records[k]) # <<>> =>
                     /\ m.Control /\ Below(change(records[k])[1].Leader, 63)
                     /\ Len(Elements(change(records[k])[1].Updates)) <= 5000
           /\ m.Kind \in {2, 3, 4} => Len(records) \in 1..128
           /\ m.Kind = 7 => Len(Elements(m.Requests)) \in 1..128
           /\ m.Kind = 8 => Len(Elements(m.Requests)) = 1
           /\ m.Kind \in {9, 11} => m.Duration > 0
          THEN Good(m) ELSE Bad(m)

Checked(t, m) == CASE t = "fastpaxos.Message" -> fastpaxos_validateProtoMessage(m)
                   [] t = "bodega.Message" -> bodega_validateProtoMessage(m)
                   [] t = "kcensus.Message" -> kcensus_validateProtoMessage(m)
                   [] t = "pql.Packet" -> pql_validatePacket(m)
                   [] OTHER -> Good(m)

\* Read, after the frame is complete: scan, decode, normalise, check.
Decode(t, p) ==
    IF ~Validate(t, p, 64) THEN Bad(Zero(t))
    ELSE LET u == Unmarshal(t, p)
             n == Normalize(t, u.msg)
         IN  IF ~u.ok \/ ~n.ok THEN Bad(Zero(t)) ELSE Checked(t, n.msg)

-----------------------------------------------------------------------------
(***************************************************************************)
(* The messages tried: of every type the zero message, a full one, and the *)
(* full one with one field, at any depth, at each of its boundary values.  *)
(***************************************************************************)
Top(bits) == 2^(bits - 1) - 1
SignedEdges(bits) == {0, 63, 64, -64, -65, Top(bits), -Top(bits) - 1}
RECURSIVE Full(_)
FullField(t, r) ==
    CASE r.kind = "Bool" -> t # "kcensus.Value"
      [] r.kind = "Nested" -> Full(r.type)
      [] r.kind = "Repeated" -> << <<Full(r.type)>> >>
      [] r.kind = "Pointer" -> IF r.field = "Batch" THEN <<>> ELSE <<Full(r.type)>>
      [] r.kind = "Pointers" -> << << <<Full(r.type)>> >> >>
      [] r.kind \in {"Varints", "ZigZag32s", "ZigZag64s"} -> << <<2, 0, 4>> >>
      [] r.kind = "Bytes" -> <<1>>
      [] r.kind = "OptVarint" -> <<2>>
      [] OTHER -> 2
Full(t) == [f \in Names(t) |-> FullField(t, RowOf(t, f))]
             @@ IF t = "kcensus.Message" THEN "References" :> FALSE ELSE <<>>

\* Values of a varint of the row, as the Go type of the field holds them.
Edges(r) ==
    CASE r.kind = "Uint8" -> {0, 3, 127, 128, 255}
      [] r.kind = "Int8" -> SignedEdges(8)
      [] r.kind \in {"ZigZag32", "ZigZag32s"} -> SignedEdges(Int32Bits)
      [] r.kind \in {"ZigZag64", "ZigZag64s"} -> SignedEdges(Int64Bits)
      [] r.kind = "Hash" -> {0}
      [] OTHER -> {0, 127, 128, 2^Int64Bits - 1}
RECURSIVE Samples(_, _)
Domain(r, depth) ==
    CASE r.kind = "Bool" -> BOOLEAN
      [] r.kind = "Nested" -> Samples(r.type, depth)
      [] r.kind = "Repeated" -> {<<>>, << <<>> >>, << <<Full(r.type), Full(r.type)>> >>,
                                 << <<Full(r.type), Zero(r.type)>> >>}
                                  \cup {<< <<m>> >> : m \in Samples(r.type, depth)}
      [] r.kind = "Pointer" -> {<<>>} \cup {<<m>> : m \in Samples(r.type, depth)}
      [] r.kind = "Pointers" -> {<<>>, << << <<>>, <<Full(r.type)>> >> >>}
                                  \cup {<< << <<m>> >> >> : m \in Samples(r.type, depth)}
      [] r.kind \in {"Varints", "ZigZag32s", "ZigZag64s"} ->
           {<<>>, << <<>> >>} \cup {<< <<v, 2>> >> : v \in Edges(r)}
      [] r.kind = "Bytes" -> {<<>>, <<0>>, <<128>>, <<16777216>>}
      [] r.kind = "OptVarint" -> {<<>>} \cup {<<v>> : v \in Edges(r)}
      [] OTHER -> Edges(r)
\* The kinds of message whose encoding differs.
Bases(t) ==
    CASE t = "bodega.Message" -> {[Full(t) EXCEPT !.Kind = k, !.Part = 1] : k \in 0..16}
      [] t = "pql.Packet" -> {[Full(t) EXCEPT !.Kind = k] : k \in {2, 7, 9}}
      [] t = "kcensus.Message" -> {[Full(t) EXCEPT !.References = b] : b \in BOOLEAN}
      [] t = "kcensus.Value" -> {Full(t), [Full(t) EXCEPT !.UID = 3, !.Records = <<>>,
                                                 !.Batch = << [Full("kcensus.Batch") EXCEPT !.Members = << <<4, 2>> >>] >>]}
      [] OTHER -> {Full(t)}
Varied(t, b, depth) == UNION {{[b EXCEPT ![f] = v] : v \in Domain(RowOf(t, f), depth)} : f \in Names(t)}
Samples(t, depth) == {Zero(t)} \cup Bases(t)
                       \cup IF depth = 0 THEN {} ELSE Varied(t, Full(t), depth - 1)

-----------------------------------------------------------------------------
(***************************************************************************)
(* What a message should look like at the other end.  Nil and empty are    *)
(* one: the encoding of a slice cannot tell them apart.                    *)
(***************************************************************************)
RECURSIVE Alike(_, _)
AlikeField(r, x) ==
    CASE r.kind = "Nested" -> Alike(r.type, x)
      [] r.kind = "Pointer" -> Map(LAMBDA v : Alike(r.type, v), x)
      [] r.kind = "Repeated" -> EmptySlice(OnSlice(LAMBDA v : Alike(r.type, v), x))
      [] r.kind = "Pointers" ->
           EmptySlice(OnSlice(LAMBDA v : Map(LAMBDA y : Alike(r.type, y), v), x))
      [] r.kind \in {"Varints", "ZigZag32s", "ZigZag64s"} -> EmptySlice(x)
      [] r.kind = "Bytes" -> EmptyBytes(x)
      [] OTHER -> x
Alike(t, m) == [f \in Names(t) |-> AlikeField(RowOf(t, f), m[f])]

\* The parts of a message its encoder selects, at every depth.
RECURSIVE Carried(_, _)
CarriedValue(v, references) ==
    IF v = <<>> THEN <<>> ELSE <<Carried("kcensus.Value", wireValue(v, references))>>
CarriedField(r, w, m) ==
    LET x == m[r.field]
        inside(v) == Carried(r.type, v)
    IN  CASE w.kind = "WireValue" -> CarriedValue(x, Refs(w, m))
          [] w.kind = "WireValues" -> OnSlice(LAMBDA v : CarriedValue(v, FALSE), x)
          [] w.kind = "WireRecord" ->
               IF m.Payload /\ ~x.Noop THEN x ELSE [Zero(r.type) EXCEPT !.ID = x.ID, !.Noop = x.Noop]
          [] r.kind = "Nested" -> inside(x)
          [] r.kind = "Pointer" -> Map(inside, x)
          [] r.kind = "Repeated" -> OnSlice(inside, x)
          [] OTHER -> x
Carried(t, m) ==
    LET s == Select(t, m)
        write(f) == CHOOSE w \in ToSet(codec[t].marshal) : w.field = f
    IN  [f \in Names(t) |-> CarriedField(RowOf(t, f), write(f), s)]

\* The message is one its receiver accepts, and kcensus does not panic on a
\* single value without its record.
Single(v) == v # <<>> => \/ v[1].Reference \/ v[1].Batch # <<>>
                         \/ Len(Elements(v[1].Records)) = 1
Sendable(t, m) ==
    /\ t = "bodega.Message" => m.Kind \in 0..16
    /\ t = "kcensus.Message" => \A v \in MarkedValues(m) : ~Absent(v) /\ Single(v)
    /\ t = "swift.MSync" => validateRecoveryEntries(m).ok
    /\ Checked(t, Carried(t, m)).ok

-----------------------------------------------------------------------------
(***************************************************************************)
(* The connection.                                                         *)
(***************************************************************************)
RECURSIVE Within(_)
Within(t) == LET rows == Messages[t].unmarshal
             IN  {t} \cup UNION {Within(rows[k].type) : k \in {j \in DOMAIN rows : rows[j].type # ""}}
Init ==
    /\ type \in Root
    /\ codec = [t \in Within(type) \cup Within("paxos.Packet") |-> Messages[t]]
    /\ sent = <<>>
    /\ stream = <<>>
    /\ broken = FALSE
    /\ got = <<>>
    /\ failed = FALSE
    /\ panicked = "no"

\* A frame: the registered type, the length of the body, what of it arrived.
Frame(t, p) ==
    [type |-> t, size |-> PayloadBytes(p), body |-> p, arrived |-> headerSize + PayloadBytes(p)]
Push(t, m, build, p) ==
    /\ sent' = Append(sent, [type |-> t, msg |-> m, build |-> build])
    /\ stream' = Append(stream, Frame(t, p))

\* Encode: the length is predicted, then compared with what was written.
Outcome(t, m) == CASE Size(t, m) > Limit(t) -> "limit"
                   [] Size(t, m) # PayloadBytes(Marshal(t, m)) -> "mismatch"
                   [] OTHER -> "no"
Write(t, m) ==
    /\ ~broken /\ panicked = "no"
    /\ panicked' = Outcome(t, m)
    /\ IF panicked' = "no" THEN Push(t, m, "this", Marshal(t, m)) ELSE UNCHANGED <<sent, stream>>
    /\ UNCHANGED <<type, codec, broken, got, failed>>

\* The initial Protobuf build: default fields left out, scalars packed.
RECURSIVE Older(_, _)
OlderField(t, y) ==
    LET known == {r \in ToSet(Rows(t)) : r.num = y.num}
        r == CHOOSE r \in known : TRUE
    IN  CASE y.wt = 0 /\ r.kind \in {"Varints", "ZigZag32s", "ZigZag64s"} -> <<PackedField(y.num, <<y.int>>)>>
          [] y.wt = 0 /\ y.int = 0 /\ r.kind # "OptVarint" -> <<>>
          [] r.kind \in {"Nested", "Pointer", "Repeated", "Pointers"} ->
               <<[y EXCEPT !.sub = Older(r.type, @)]>>
          [] OTHER -> <<y>>
Joined(p, y) == IF p # <<>> /\ y # <<>> /\ y[1].ints # <<>> /\ Last(p).num = y[1].num
                  THEN Front(p) \o <<[Last(p) EXCEPT !.ints = @ \o y[1].ints]>>
                  ELSE p \o y
Older(t, p) == FoldLeft(LAMBDA q, y : Joined(q, OlderField(t, y)), <<>>, p)
WriteOlder(t, m) ==
    /\ ~broken
    /\ Outcome(t, m) = "no"
    /\ Push(t, m, "older", Older(t, Marshal(t, m)))
    /\ UNCHANGED <<type, codec, broken, got, failed, panicked>>

WriteOne(m) == Sendable(type, m) /\ (Write(type, m) \/ WriteOlder(type, m))

\* A build whose field is wider: one number, at any depth, is out of range here.
RECURSIVE Widened(_)
Widened(p) ==
    UNION {IF p[k].wt = 0 THEN {[p EXCEPT ![k].int = v] : v \in {255, 256, 257}}
           ELSE {[p EXCEPT ![k].sub = q] : q \in Widened(p[k].sub)} : k \in DOMAIN p}
WriteWider(t, p) ==
    /\ ~broken
    /\ Push(t, Zero(t), "wider", p)
    /\ UNCHANGED <<type, codec, broken, got, failed, panicked>>

\* The connection goes with bytes of the last frame still to come.
Cuts(size) == {0, headerSize - 1, headerSize, headerSize + size - 1}
Break(n) ==
    /\ ~broken /\ stream # <<>>
    /\ broken' = TRUE
    /\ stream' = [stream EXCEPT ![Len(stream)].arrived = n]
    /\ UNCHANGED <<type, codec, sent, got, failed, panicked>>

Complete(x) == /\ x.arrived >= headerSize /\ x.size <= Limit(x.type)
               /\ x.arrived = headerSize + x.size
\* Read, and the reader of the connection: the first error ends it.
Read ==
    /\ stream # <<>> /\ ~failed
    /\ LET x == Head(stream)
           d == Decode(x.type, x.body)
       IN  IF Complete(x) /\ d.ok
             THEN /\ got' = Append(got, [type |-> x.type, msg |-> d.msg])
                  /\ stream' = Tail(stream)
                  /\ UNCHANGED failed
             ELSE failed' = TRUE /\ UNCHANGED <<got, stream>>
    /\ UNCHANGED <<type, codec, sent, broken, panicked>>

\* Bound: more frames and a break only after a zero or a widened message.
LivesOn == sent # <<>> /\ sent[1].msg = Zero(type)

Next ==
    \/ sent = <<>> /\ WriteOne(Zero(type))
    \/ sent = <<>> /\ \E b \in Bases(type) : \E m \in Varied(type, b, Depth) : WriteOne(m)
    \/ sent = <<>> /\ \E p \in Widened(Marshal(type, Full(type))) : WriteWider(type, p)
    \/ LivesOn /\ Len(sent) < MaxSent /\ Write("paxos.Packet", Full("paxos.Packet"))
    \/ LivesOn /\ stream # <<>> /\ \E n \in Cuts(Last(stream).size) : Break(n)
    \/ Read

Spec == Init /\ [][Next]_vars

-----------------------------------------------------------------------------
\* What a reader hands over is what was written, frame by frame: no field is
\* lost, moved or changed by any type's encoder and decoder, a cut frame and
\* a rejected one hand over nothing, and a frame of the older build reads the
\* same.  bodega's receiver fills in the ballot of an acknowledged entry.
RoundTrip ==
    \A k \in DOMAIN got : sent[k].build # "wider" =>
      LET t == sent[k].type
          m == Checked(t, Carried(t, sent[k].msg)).msg
      IN  got[k].type = t /\ Alike(t, got[k].msg) = Alike(t, m)

\* A message its own package would send is never refused: only a frame that
\* was cut short, or a number out of range, ends the reading.
SendableIsRead ==
    failed => LET k == Len(got) + 1
              IN  sent[k].build = "wider" \/ stream[1].arrived < headerSize + stream[1].size

\* The narrowing casts of the decoders change no number: the byte scan lets
\* through only what they hold.
NarrowSafe ==
    stream # <<>> /\ sent[Len(got) + 1].build = "wider" =>
      LET t == Head(stream).type
          p == Head(stream).body
      IN  Validate(t, p, 64) => Unmarshal(t, p) = UnmarshalInto(t, Zero(t), p, TRUE)

\* Encode panics for no message within its type's limit: Size predicts what
\* MarshalToSizedBuffer writes, to the byte.
SizeExact == panicked # "mismatch"
=============================================================================
