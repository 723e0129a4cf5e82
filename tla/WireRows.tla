------------------------------ MODULE WireRows ------------------------------
(***************************************************************************)
(* The rows of the field tables: how one field of a generated message is   *)
(* written, sized, read, scanned and normalised.  A number is a field      *)
(* number, except in a Size table, where it is the bytes of the field's    *)
(* tag.  A row's kind says what the generated code does with the field.    *)
(***************************************************************************)
EXTENDS Integers, Sequences, TLC

Row(kind, n, f, t) == [kind |-> kind, num |-> n, field |-> f, type |-> t]

\* Varints: plain, zigzag, and the reads that narrow to eight bits.
Varint(n, f)   == Row("Varint", n, f, "")
ZigZag32(n, f) == Row("ZigZag32", n, f, "")
ZigZag64(n, f) == Row("ZigZag64", n, f, "")
Uint8(n, f)    == Row("Uint8", n, f, "")
Int8(n, f)     == Row("Int8", n, f, "")
Bool(n, f)     == Row("Bool", n, f, "")
Flag(n)        == Row("Bool", n, "", "")
OptVarint(n, f) == Row("OptVarint", n, f, "")
\* Length-delimited fields.
Bytes(n, f)       == Row("Bytes", n, f, "")
Hash(n, f)        == Row("Hash", n, f, "")
Nested(n, f, t)   == Row("Nested", n, f, t)
Pointer(n, f, t)  == Row("Pointer", n, f, t)
Repeated(n, f, t) == Row("Repeated", n, f, t)
Pointers(n, f, t) == Row("Pointers", n, f, t)
Varints(n, f)     == Row("Varints", n, f, "")
ZigZag32s(n, f)   == Row("ZigZag32s", n, f, "")
ZigZag64s(n, f)   == Row("ZigZag64s", n, f, "")
\* Fields written through a selection of wire.go.
WireRecord(n, f)        == Row("WireRecord", n, f, "fastpaxos.Record")
WireValue(n, f, refs)   == Row("WireValue", n, f, refs)
WireValues(n, f, refs)  == Row("WireValues", n, f, refs)

\* What the byte scan knows of a field (wireproto.Field).
Scan(n, t, u, s, w, p) ==
    [num |-> n, type |-> t, unsigned |-> u, signed |-> s, width |-> w, packed |-> p]
Sub(n, t)      == Scan(n, t, 0, 0, 0, FALSE)
Unsigned(n, b) == Scan(n, "", b, 0, 0, FALSE)
Signed(n, b)   == Scan(n, "", 0, b, 0, FALSE)
Width(n, w)    == Scan(n, "", 0, 0, w, FALSE)
Packed(n)      == Scan(n, "", 0, 0, 0, TRUE)

\* The steps of NormalizeProto.
Inner(f)        == [op |-> "Inner", field |-> f]         \* the message inside
InnerCommand(f) == [op |-> "InnerCommand", field |-> f]  \* its Command only
Each(f)         == [op |-> "Each", field |-> f]          \* every element
Empty(f)        == [op |-> "Empty", field |-> f]         \* nil becomes empty
EmptyV(f)       == [op |-> "EmptyV", field |-> f]        \* the same, for the V inside
EachEmptyV(f)   == [op |-> "EachEmptyV", field |-> f]
NilV(f)         == [op |-> "NilV", field |-> f]          \* an empty V becomes nil
EachNilV(f)     == [op |-> "EachNilV", field |-> f]
Hook(f)         == [op |-> "Hook", field |-> f]          \* a method of wire.go

Codec(marshal, size, unmarshal, check) ==
    [marshal |-> marshal, size |-> size, unmarshal |-> unmarshal,
     shape |-> check.shape, normalize |-> check.normalize]
NoCheck == [shape |-> {}, normalize |-> <<>>]
=============================================================================
