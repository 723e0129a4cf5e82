------------------------------- MODULE WirePQL ------------------------------
(***************************************************************************)
(* Package pql.  Field tables of the generated messages, read off the      *)
(* methods of messages.pb.go.                                              *)
(***************************************************************************)
EXTENDS WireRows

pql_Packet_Marshal == <<
    Varint(1, "Kind"), ZigZag32(2, "From"), ZigZag64(3, "Ballot"), ZigZag64(4, "Floor"),
    ZigZag64(5, "High"), ZigZag32(6, "Page"), ZigZag32(7, "Pages"),
    Repeated(8, "Records", "pql.Record"), Repeated(9, "Requests", "pql.Request"),
    ZigZag64(10, "LeaseEpoch"), ZigZag64(11, "Timestamp"), ZigZag64(12, "Duration"),
    ZigZag64(13, "Frontier"), Bytes(14, "Result"), Bool(15, "Control"),
    ZigZag64(16, "AckSequence"), ZigZag64(17, "Elapsed"), Varint(19, "Excluded")>>
pql_Packet_Size == <<
    Varint(1, "Kind"), ZigZag64(1, "From"), ZigZag64(1, "Ballot"), ZigZag64(1, "Floor"),
    ZigZag64(1, "High"), ZigZag64(1, "Page"), ZigZag64(1, "Pages"),
    Repeated(1, "Records", "pql.Record"), Repeated(1, "Requests", "pql.Request"),
    ZigZag64(1, "LeaseEpoch"), ZigZag64(1, "Timestamp"), ZigZag64(1, "Duration"),
    ZigZag64(1, "Frontier"), Bytes(1, "Result"), Flag(1), ZigZag64(2, "AckSequence"),
    ZigZag64(2, "Elapsed"), Varint(2, "Excluded")>>
pql_Packet_Unmarshal == <<
    Uint8(1, "Kind"), ZigZag32(2, "From"), ZigZag64(3, "Ballot"), ZigZag64(4, "Floor"),
    ZigZag64(5, "High"), ZigZag32(6, "Page"), ZigZag32(7, "Pages"),
    Repeated(8, "Records", "pql.Record"), Repeated(9, "Requests", "pql.Request"),
    ZigZag64(10, "LeaseEpoch"), ZigZag64(11, "Timestamp"), ZigZag64(12, "Duration"),
    ZigZag64(13, "Frontier"), Bytes(14, "Result"), Bool(15, "Control"),
    ZigZag64(16, "AckSequence"), ZigZag64(17, "Elapsed"), Varint(19, "Excluded")>>
pql_Packet_Check == [shape |-> {Unsigned(1, 8), Sub(8, "pql.Record"), Sub(9, "pql.Request")},
    normalize |-> <<Each("Records"), Each("Requests")>>]

pql_Record_Marshal == <<
    ZigZag64(1, "Slot"), ZigZag64(2, "Ballot"), Nested(3, "Request", "pql.Request"),
    Bool(4, "Committed"), Varint(5, "NotifyMask"), ZigZag64(6, "LeaseEpoch")>>
pql_Record_Size == <<
    ZigZag64(1, "Slot"), ZigZag64(1, "Ballot"), Nested(1, "Request", "pql.Request"), Flag(1),
    Varint(1, "NotifyMask"), ZigZag64(1, "LeaseEpoch")>>
pql_Record_Unmarshal == <<
    ZigZag64(1, "Slot"), ZigZag64(2, "Ballot"), Nested(3, "Request", "pql.Request"),
    Bool(4, "Committed"), Varint(5, "NotifyMask"), ZigZag64(6, "LeaseEpoch")>>
pql_Record_Check == [shape |-> {Sub(3, "pql.Request")}, normalize |-> <<Inner("Request")>>]

pql_Request_Marshal == <<
    Nested(1, "ID", "defs.RequestID"), Nested(2, "Command", "state.Command"),
    ZigZag32(3, "Origin"), ZigZag64(4, "Timestamp"), Pointer(5, "Change", "pql.LeaseChange")>>
pql_Request_Size == <<
    Nested(1, "ID", "defs.RequestID"), Nested(1, "Command", "state.Command"),
    ZigZag64(1, "Origin"), ZigZag64(1, "Timestamp"), Pointer(1, "Change", "pql.LeaseChange")>>
pql_Request_Unmarshal == <<
    Nested(1, "ID", "defs.RequestID"), Nested(2, "Command", "state.Command"),
    ZigZag32(3, "Origin"), ZigZag64(4, "Timestamp"), Pointer(5, "Change", "pql.LeaseChange")>>
pql_Request_Check == [shape |-> {Sub(1, "defs.RequestID"), Sub(2, "state.Command"),
        Sub(5, "pql.LeaseChange")},
    normalize |-> <<Inner("ID"), Inner("Command"), Inner("Change")>>]

pql_HolderUpdate_Marshal == <<ZigZag64(1, "Key"), Varint(2, "Holders")>>
pql_HolderUpdate_Size == <<ZigZag64(1, "Key"), Varint(1, "Holders")>>
pql_HolderUpdate_Unmarshal == <<ZigZag64(1, "Key"), Varint(2, "Holders")>>

pql_LeaseChange_Marshal == <<
    ZigZag32(1, "Leader"), Varint(2, "Excluded"), Repeated(3, "Updates", "pql.HolderUpdate")>>
pql_LeaseChange_Size == <<
    ZigZag64(1, "Leader"), Varint(1, "Excluded"), Repeated(1, "Updates", "pql.HolderUpdate")>>
pql_LeaseChange_Unmarshal == <<
    ZigZag32(1, "Leader"), Varint(2, "Excluded"), Repeated(3, "Updates", "pql.HolderUpdate")>>
pql_LeaseChange_Check == [shape |-> {Sub(3, "pql.HolderUpdate")},
    normalize |-> <<Each("Updates")>>]

pql_Messages ==
       "pql.Packet" :> Codec(pql_Packet_Marshal, pql_Packet_Size, pql_Packet_Unmarshal, pql_Packet_Check)
    @@ "pql.Record" :> Codec(pql_Record_Marshal, pql_Record_Size, pql_Record_Unmarshal, pql_Record_Check)
    @@ "pql.Request" :> Codec(pql_Request_Marshal, pql_Request_Size, pql_Request_Unmarshal, pql_Request_Check)
    @@ "pql.HolderUpdate" :> Codec(pql_HolderUpdate_Marshal, pql_HolderUpdate_Size, pql_HolderUpdate_Unmarshal, NoCheck)
    @@ "pql.LeaseChange" :> Codec(pql_LeaseChange_Marshal, pql_LeaseChange_Size, pql_LeaseChange_Unmarshal, pql_LeaseChange_Check)
=============================================================================
