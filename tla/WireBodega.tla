----------------------------- MODULE WireBodega -----------------------------
(***************************************************************************)
(* Package bodega.  Field tables of the generated messages, read off the   *)
(* methods of messages.pb.go.                                              *)
(***************************************************************************)
EXTENDS WireRows

bodega_BodegaResponderRange_Marshal == <<
    ZigZag64(1, "Start"), ZigZag64(2, "End"), Varint(3, "Responders")>>
bodega_BodegaResponderRange_Size == <<
    ZigZag64(1, "Start"), ZigZag64(1, "End"), Varint(1, "Responders")>>
bodega_BodegaResponderRange_Unmarshal == <<
    ZigZag64(1, "Start"), ZigZag64(2, "End"), Varint(3, "Responders")>>

bodega_Entry_Marshal == <<
    Varint(1, "Slot"), Varint(2, "Ballot"), Nested(3, "Request", "bodega.Request"),
    Repeated(4, "Batch", "bodega.Request"), Bool(5, "ReadFresh")>>
bodega_Entry_Size == <<
    Varint(1, "Slot"), Varint(1, "Ballot"), Nested(1, "Request", "bodega.Request"),
    Repeated(1, "Batch", "bodega.Request"), Flag(1)>>
bodega_Entry_Unmarshal == <<
    Varint(1, "Slot"), Varint(2, "Ballot"), Nested(3, "Request", "bodega.Request"),
    Repeated(4, "Batch", "bodega.Request"), Bool(5, "ReadFresh")>>
bodega_Entry_Check == [shape |-> {Sub(3, "bodega.Request"), Sub(4, "bodega.Request")},
    normalize |-> <<Inner("Request"), Each("Batch")>>]

bodega_Message_Marshal == <<
    Varint(1, "Kind"), ZigZag64(2, "From"), Nested(3, "Roster", "bodega.Roster"),
    Varint(4, "Sequence"), Varint(5, "Threshold"), Varint(6, "Prefix"), Varint(7, "ReadPrefix"),
    Varint(8, "CommitPrefix"), Varint(9, "CommitSlot"), Varint(10, "RepairStart"),
    Varint(11, "PrepareStart"), ZigZag64(12, "Part"), ZigZag64(13, "Parts"),
    Nested(14, "Entry", "bodega.Entry"), Repeated(15, "Entries", "bodega.Entry"),
    Nested(16, "Request", "bodega.Request"), Bytes(17, "Value")>>
bodega_Message_Size == <<
    Varint(1, "Kind"), ZigZag64(1, "From"), Nested(1, "Roster", "bodega.Roster"),
    Varint(1, "Sequence"), Varint(1, "Threshold"), Varint(1, "Prefix"), Varint(1, "ReadPrefix"),
    Varint(1, "CommitPrefix"), Varint(1, "CommitSlot"), Varint(1, "RepairStart"),
    Varint(1, "PrepareStart"), ZigZag64(1, "Part"), ZigZag64(1, "Parts"),
    Nested(1, "Entry", "bodega.Entry"), Repeated(1, "Entries", "bodega.Entry"),
    Nested(2, "Request", "bodega.Request"), Bytes(2, "Value")>>
bodega_Message_Unmarshal == <<
    Uint8(1, "Kind"), ZigZag64(2, "From"), Nested(3, "Roster", "bodega.Roster"),
    Varint(4, "Sequence"), Varint(5, "Threshold"), Varint(6, "Prefix"), Varint(7, "ReadPrefix"),
    Varint(8, "CommitPrefix"), Varint(9, "CommitSlot"), Varint(10, "RepairStart"),
    Varint(11, "PrepareStart"), ZigZag64(12, "Part"), ZigZag64(13, "Parts"),
    Nested(14, "Entry", "bodega.Entry"), Repeated(15, "Entries", "bodega.Entry"),
    Nested(16, "Request", "bodega.Request"), Bytes(17, "Value")>>
bodega_Message_Check == [shape |-> {Unsigned(1, 8), Sub(3, "bodega.Roster"),
        Sub(14, "bodega.Entry"), Sub(15, "bodega.Entry"), Sub(16, "bodega.Request")},
    normalize |-> <<Inner("Roster"), Inner("Entry"), Each("Entries"), Inner("Request")>>]

bodega_Request_Marshal == <<Nested(1, "Proposal", "defs.Propose"), ZigZag64(2, "Origin")>>
bodega_Request_Size == <<Nested(1, "Proposal", "defs.Propose"), ZigZag64(1, "Origin")>>
bodega_Request_Unmarshal == <<Nested(1, "Proposal", "defs.Propose"), ZigZag64(2, "Origin")>>
bodega_Request_Check == [shape |-> {Sub(1, "defs.Propose")},
    normalize |-> <<InnerCommand("Proposal")>>]

bodega_Roster_Marshal == <<
    Varint(1, "Ballot"), ZigZag64(2, "Leader"), Varint(3, "Responders"),
    Repeated(4, "Ranges", "bodega.BodegaResponderRange")>>
bodega_Roster_Size == <<
    Varint(1, "Ballot"), ZigZag64(1, "Leader"), Varint(1, "Responders"),
    Repeated(1, "Ranges", "bodega.BodegaResponderRange")>>
bodega_Roster_Unmarshal == <<
    Varint(1, "Ballot"), ZigZag64(2, "Leader"), Varint(3, "Responders"),
    Repeated(4, "Ranges", "bodega.BodegaResponderRange")>>
bodega_Roster_Check == [shape |-> {Sub(4, "bodega.BodegaResponderRange")},
    normalize |-> <<Each("Ranges")>>]

bodega_Messages ==
       "bodega.BodegaResponderRange" :> Codec(bodega_BodegaResponderRange_Marshal, bodega_BodegaResponderRange_Size, bodega_BodegaResponderRange_Unmarshal, NoCheck)
    @@ "bodega.Entry" :> Codec(bodega_Entry_Marshal, bodega_Entry_Size, bodega_Entry_Unmarshal, bodega_Entry_Check)
    @@ "bodega.Message" :> Codec(bodega_Message_Marshal, bodega_Message_Size, bodega_Message_Unmarshal, bodega_Message_Check)
    @@ "bodega.Request" :> Codec(bodega_Request_Marshal, bodega_Request_Size, bodega_Request_Unmarshal, bodega_Request_Check)
    @@ "bodega.Roster" :> Codec(bodega_Roster_Marshal, bodega_Roster_Size, bodega_Roster_Unmarshal, bodega_Roster_Check)
=============================================================================
