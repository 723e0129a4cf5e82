----------------------------- MODULE WireKCensus ----------------------------
(***************************************************************************)
(* Package kcensus.  Field tables of the generated messages, read off the  *)
(* methods of messages.pb.go.                                              *)
(***************************************************************************)
EXTENDS WireRows

kcensus_Batch_Marshal == <<Varint(1, "Slot"), Varints(2, "Members")>>
kcensus_Batch_Size == <<Varint(1, "Slot"), Varints(1, "Members")>>
kcensus_Batch_Unmarshal == <<Varint(1, "Slot"), Varints(2, "Members")>>
kcensus_Batch_Check == [shape |-> {Packed(2)}, normalize |-> <<>>]

kcensus_Record_Marshal == <<
    Nested(1, "ID", "defs.RequestID"), Nested(2, "Command", "state.Command")>>
kcensus_Record_Size == <<Nested(1, "ID", "defs.RequestID"), Nested(1, "Command", "state.Command")>>
kcensus_Record_Unmarshal == <<
    Nested(1, "ID", "defs.RequestID"), Nested(2, "Command", "state.Command")>>
kcensus_Record_Check == [shape |-> {Sub(1, "defs.RequestID"), Sub(2, "state.Command")},
    normalize |-> <<Inner("ID"), Inner("Command")>>]

kcensus_Value_Marshal == <<
    Varint(1, "UID"), ZigZag64(2, "Proposer"), Repeated(3, "Records", "kcensus.Record"),
    Pointer(4, "Batch", "kcensus.Batch"), Bool(5, "Reference"), Bool(6, "Absent")>>
kcensus_Value_Size == <<
    Varint(1, "UID"), ZigZag64(1, "Proposer"), Repeated(1, "Records", "kcensus.Record"),
    Pointer(1, "Batch", "kcensus.Batch"), Flag(1), Flag(1)>>
kcensus_Value_Unmarshal == <<
    Varint(1, "UID"), ZigZag64(2, "Proposer"), Repeated(3, "Records", "kcensus.Record"),
    Pointer(4, "Batch", "kcensus.Batch"), Bool(5, "Reference"), Bool(6, "Absent")>>
kcensus_Value_Check == [shape |-> {Sub(3, "kcensus.Record"), Sub(4, "kcensus.Batch")},
    normalize |-> <<Each("Records"), Inner("Batch")>>]

kcensus_Message_Marshal == <<
    Varint(1, "Kind"), ZigZag64(2, "From"), ZigZag64(3, "Proposer"), ZigZag64(4, "Shard"),
    Varint(5, "Slot"), Varint(6, "Ballot"), Varint(7, "AcceptedBallot"), Varint(8, "High"),
    Nested(9, "ID", "defs.RequestID"), WireValue(10, "Value", "References"),
    WireValue(11, "Fast", "References"), Varints(12, "Knowledge"), Varint(13, "Mask"),
    Hash(14, "Digest"), ZigZag64(15, "GraphTime"), Bool(16, "Explicit"), Bool(17, "NewValue"),
    ZigZag64(18, "StateTime"), Repeated(19, "Reports", "kcensus.NodeReport"),
    Varints(20, "UIDs"), WireValues(21, "Values", "never"),
    Pointer(22, "Request", "kcensus.Record"), Bytes(23, "Result"), OptVarint(24, "LastV")>>
kcensus_Message_Size == <<
    Varint(1, "Kind"), ZigZag64(1, "From"), ZigZag64(1, "Proposer"), ZigZag64(1, "Shard"),
    Varint(1, "Slot"), Varint(1, "Ballot"), Varint(1, "AcceptedBallot"), Varint(1, "High"),
    Nested(1, "ID", "defs.RequestID"), WireValue(1, "Value", "References"),
    WireValue(1, "Fast", "References"), Varints(1, "Knowledge"), Varint(1, "Mask"),
    Hash(1, "Digest"), ZigZag64(1, "GraphTime"), Flag(2), Flag(2), ZigZag64(2, "StateTime"),
    Repeated(2, "Reports", "kcensus.NodeReport"), Varints(2, "UIDs"),
    WireValues(2, "Values", "never"), Pointer(2, "Request", "kcensus.Record"),
    Bytes(2, "Result"), OptVarint(2, "LastV")>>
kcensus_Message_Unmarshal == <<
    Uint8(1, "Kind"), ZigZag64(2, "From"), ZigZag64(3, "Proposer"), ZigZag64(4, "Shard"),
    Varint(5, "Slot"), Varint(6, "Ballot"), Varint(7, "AcceptedBallot"), Varint(8, "High"),
    Nested(9, "ID", "defs.RequestID"), Pointer(10, "Value", "kcensus.Value"),
    Pointer(11, "Fast", "kcensus.Value"), Varints(12, "Knowledge"), Varint(13, "Mask"),
    Hash(14, "Digest"), ZigZag64(15, "GraphTime"), Bool(16, "Explicit"), Bool(17, "NewValue"),
    ZigZag64(18, "StateTime"), Repeated(19, "Reports", "kcensus.NodeReport"),
    Varints(20, "UIDs"), Pointers(21, "Values", "kcensus.Value"),
    Pointer(22, "Request", "kcensus.Record"), Bytes(23, "Result"), OptVarint(24, "LastV")>>
kcensus_Message_Check == [shape |-> {Unsigned(1, 8), Sub(9, "defs.RequestID"),
        Sub(10, "kcensus.Value"), Sub(11, "kcensus.Value"), Packed(12), Width(14, 32),
        Sub(19, "kcensus.NodeReport"), Packed(20), Sub(21, "kcensus.Value"),
        Sub(22, "kcensus.Record")},
    normalize |-> <<Inner("ID"), Inner("Value"), Inner("Fast"), Empty("Knowledge"),
        Each("Reports"), Empty("Reports"), Empty("UIDs"), Each("Values"), Empty("Values"),
        Inner("Request"), Hook("normalizeAbsentValues")>>]

kcensus_NodeReport_Marshal == <<
    ZigZag64(1, "From"), ZigZag64(2, "Proposer"), Varint(3, "Ballot"),
    Varint(4, "AcceptedBallot"), Varint(5, "Mask"), ZigZag64(6, "Time"),
    WireValue(7, "Value", "always")>>
kcensus_NodeReport_Size == <<
    ZigZag64(1, "From"), ZigZag64(1, "Proposer"), Varint(1, "Ballot"),
    Varint(1, "AcceptedBallot"), Varint(1, "Mask"), ZigZag64(1, "Time"),
    WireValue(1, "Value", "always")>>
kcensus_NodeReport_Unmarshal == <<
    ZigZag64(1, "From"), ZigZag64(2, "Proposer"), Varint(3, "Ballot"),
    Varint(4, "AcceptedBallot"), Varint(5, "Mask"), ZigZag64(6, "Time"),
    Pointer(7, "Value", "kcensus.Value")>>
kcensus_NodeReport_Check == [shape |-> {Sub(7, "kcensus.Value")},
    normalize |-> <<Inner("Value")>>]

kcensus_Messages ==
       "kcensus.Batch" :> Codec(kcensus_Batch_Marshal, kcensus_Batch_Size, kcensus_Batch_Unmarshal, kcensus_Batch_Check)
    @@ "kcensus.Record" :> Codec(kcensus_Record_Marshal, kcensus_Record_Size, kcensus_Record_Unmarshal, kcensus_Record_Check)
    @@ "kcensus.Value" :> Codec(kcensus_Value_Marshal, kcensus_Value_Size, kcensus_Value_Unmarshal, kcensus_Value_Check)
    @@ "kcensus.Message" :> Codec(kcensus_Message_Marshal, kcensus_Message_Size, kcensus_Message_Unmarshal, kcensus_Message_Check)
    @@ "kcensus.NodeReport" :> Codec(kcensus_NodeReport_Marshal, kcensus_NodeReport_Size, kcensus_NodeReport_Unmarshal, kcensus_NodeReport_Check)
=============================================================================
