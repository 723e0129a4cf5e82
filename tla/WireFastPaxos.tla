---------------------------- MODULE WireFastPaxos ---------------------------
(***************************************************************************)
(* Package fastpaxos.  Field tables of the generated messages, read off    *)
(* the methods of messages.pb.go.                                          *)
(***************************************************************************)
EXTENDS WireRows

fastpaxos_Entry_Marshal == <<
    ZigZag64(1, "Slot"), Varint(2, "Epoch"), Varint(3, "Round"), WireRecord(4, "Value"),
    Bool(5, "Payload"), Bool(6, "Decided")>>
fastpaxos_Entry_Size == <<
    ZigZag64(1, "Slot"), Varint(1, "Epoch"), Varint(1, "Round"), WireRecord(1, "Value"),
    Flag(1), Flag(1)>>
fastpaxos_Entry_Unmarshal == <<
    ZigZag64(1, "Slot"), Varint(2, "Epoch"), Varint(3, "Round"),
    Nested(4, "Value", "fastpaxos.Record"), Bool(5, "Payload"), Bool(6, "Decided")>>
fastpaxos_Entry_Check == [shape |-> {Sub(4, "fastpaxos.Record")},
    normalize |-> <<Inner("Value")>>]

fastpaxos_Message_Marshal == <<
    Varint(1, "Kind"), ZigZag64(2, "From"), Varint(3, "Epoch"), ZigZag64(4, "Start"),
    ZigZag64(5, "High"), ZigZag64(6, "Page"), ZigZag64(7, "Pages"),
    Repeated(8, "Entries", "fastpaxos.Entry")>>
fastpaxos_Message_Size == <<
    Varint(1, "Kind"), ZigZag64(1, "From"), Varint(1, "Epoch"), ZigZag64(1, "Start"),
    ZigZag64(1, "High"), ZigZag64(1, "Page"), ZigZag64(1, "Pages"),
    Repeated(1, "Entries", "fastpaxos.Entry")>>
fastpaxos_Message_Unmarshal == <<
    Uint8(1, "Kind"), ZigZag64(2, "From"), Varint(3, "Epoch"), ZigZag64(4, "Start"),
    ZigZag64(5, "High"), ZigZag64(6, "Page"), ZigZag64(7, "Pages"),
    Repeated(8, "Entries", "fastpaxos.Entry")>>
fastpaxos_Message_Check == [shape |-> {Unsigned(1, 8), Sub(8, "fastpaxos.Entry")},
    normalize |-> <<Each("Entries"), Empty("Entries")>>]

fastpaxos_Record_Marshal == <<
    Nested(1, "ID", "defs.RequestID"), Nested(2, "Command", "state.Command"), Bool(3, "Noop")>>
fastpaxos_Record_Size == <<
    Nested(1, "ID", "defs.RequestID"), Nested(1, "Command", "state.Command"), Flag(1)>>
fastpaxos_Record_Unmarshal == <<
    Nested(1, "ID", "defs.RequestID"), Nested(2, "Command", "state.Command"), Bool(3, "Noop")>>
fastpaxos_Record_Check == [shape |-> {Sub(1, "defs.RequestID"), Sub(2, "state.Command")},
    normalize |-> <<Inner("ID"), Inner("Command")>>]

fastpaxos_Messages ==
       "fastpaxos.Entry" :> Codec(fastpaxos_Entry_Marshal, fastpaxos_Entry_Size, fastpaxos_Entry_Unmarshal, fastpaxos_Entry_Check)
    @@ "fastpaxos.Message" :> Codec(fastpaxos_Message_Marshal, fastpaxos_Message_Size, fastpaxos_Message_Unmarshal, fastpaxos_Message_Check)
    @@ "fastpaxos.Record" :> Codec(fastpaxos_Record_Marshal, fastpaxos_Record_Size, fastpaxos_Record_Unmarshal, fastpaxos_Record_Check)
=============================================================================
