------------------------------ MODULE WireCurp ------------------------------
(***************************************************************************)
(* Package curp.  Field tables of the generated messages, read off the     *)
(* methods of messages.pb.go.                                              *)
(***************************************************************************)
EXTENDS WireRows

curp_MAAcks_Marshal == <<
    Repeated(1, "Acks", "curp.MAcceptAck"), Repeated(2, "Accepts", "curp.MAccept")>>
curp_MAAcks_Size == <<
    Repeated(1, "Acks", "curp.MAcceptAck"), Repeated(1, "Accepts", "curp.MAccept")>>
curp_MAAcks_Unmarshal == <<
    Repeated(1, "Acks", "curp.MAcceptAck"), Repeated(2, "Accepts", "curp.MAccept")>>
curp_MAAcks_Check == [shape |-> {Sub(1, "curp.MAcceptAck"), Sub(2, "curp.MAccept")},
    normalize |-> <<Each("Acks"), Empty("Acks"), Each("Accepts"), Empty("Accepts")>>]

curp_MAccept_Marshal == <<
    ZigZag32(1, "Replica"), ZigZag32(2, "Ballot"), Nested(3, "Cmd", "state.Command"),
    Nested(4, "CmdId", "defs.RequestID"), ZigZag64(5, "CmdSlot")>>
curp_MAccept_Size == <<
    ZigZag64(1, "Replica"), ZigZag64(1, "Ballot"), Nested(1, "Cmd", "state.Command"),
    Nested(1, "CmdId", "defs.RequestID"), ZigZag64(1, "CmdSlot")>>
curp_MAccept_Unmarshal == <<
    ZigZag32(1, "Replica"), ZigZag32(2, "Ballot"), Nested(3, "Cmd", "state.Command"),
    Nested(4, "CmdId", "defs.RequestID"), ZigZag64(5, "CmdSlot")>>
curp_MAccept_Check == [shape |-> {Sub(3, "state.Command"), Sub(4, "defs.RequestID")},
    normalize |-> <<Inner("Cmd"), Inner("CmdId"), EmptyV("Cmd")>>]

curp_MAcceptAck_Marshal == <<ZigZag32(1, "Replica"), ZigZag32(2, "Ballot"), ZigZag64(3, "CmdSlot")>>
curp_MAcceptAck_Size == <<ZigZag64(1, "Replica"), ZigZag64(1, "Ballot"), ZigZag64(1, "CmdSlot")>>
curp_MAcceptAck_Unmarshal == <<
    ZigZag32(1, "Replica"), ZigZag32(2, "Ballot"), ZigZag64(3, "CmdSlot")>>

curp_MCommit_Marshal == <<ZigZag32(1, "Replica"), ZigZag32(2, "Ballot"), ZigZag64(3, "CmdSlot")>>
curp_MCommit_Size == <<ZigZag64(1, "Replica"), ZigZag64(1, "Ballot"), ZigZag64(1, "CmdSlot")>>
curp_MCommit_Unmarshal == <<ZigZag32(1, "Replica"), ZigZag32(2, "Ballot"), ZigZag64(3, "CmdSlot")>>

curp_MRecordAck_Marshal == <<
    ZigZag32(1, "Replica"), ZigZag32(2, "Ballot"), Nested(3, "CmdId", "defs.RequestID"),
    Varint(4, "Ok")>>
curp_MRecordAck_Size == <<
    ZigZag64(1, "Replica"), ZigZag64(1, "Ballot"), Nested(1, "CmdId", "defs.RequestID"),
    Varint(1, "Ok")>>
curp_MRecordAck_Unmarshal == <<
    ZigZag32(1, "Replica"), ZigZag32(2, "Ballot"), Nested(3, "CmdId", "defs.RequestID"),
    Uint8(4, "Ok")>>
curp_MRecordAck_Check == [shape |-> {Sub(3, "defs.RequestID"), Unsigned(4, 8)},
    normalize |-> <<Inner("CmdId")>>]

curp_MReply_Marshal == <<
    ZigZag32(1, "Replica"), ZigZag32(2, "Ballot"), Nested(3, "CmdId", "defs.RequestID"),
    Bytes(4, "Rep"), Varint(5, "Ok")>>
curp_MReply_Size == <<
    ZigZag64(1, "Replica"), ZigZag64(1, "Ballot"), Nested(1, "CmdId", "defs.RequestID"),
    Bytes(1, "Rep"), Varint(1, "Ok")>>
curp_MReply_Unmarshal == <<
    ZigZag32(1, "Replica"), ZigZag32(2, "Ballot"), Nested(3, "CmdId", "defs.RequestID"),
    Bytes(4, "Rep"), Uint8(5, "Ok")>>
curp_MReply_Check == [shape |-> {Sub(3, "defs.RequestID"), Unsigned(5, 8)},
    normalize |-> <<Inner("CmdId"), Empty("Rep")>>]

curp_MSync_Marshal == <<Nested(1, "CmdId", "defs.RequestID")>>
curp_MSync_Size == <<Nested(1, "CmdId", "defs.RequestID")>>
curp_MSync_Unmarshal == <<Nested(1, "CmdId", "defs.RequestID")>>
curp_MSync_Check == [shape |-> {Sub(1, "defs.RequestID")}, normalize |-> <<Inner("CmdId")>>]

curp_MSyncReply_Marshal == <<
    ZigZag32(1, "Replica"), ZigZag32(2, "Ballot"), Nested(3, "CmdId", "defs.RequestID"),
    Bytes(4, "Rep")>>
curp_MSyncReply_Size == <<
    ZigZag64(1, "Replica"), ZigZag64(1, "Ballot"), Nested(1, "CmdId", "defs.RequestID"),
    Bytes(1, "Rep")>>
curp_MSyncReply_Unmarshal == <<
    ZigZag32(1, "Replica"), ZigZag32(2, "Ballot"), Nested(3, "CmdId", "defs.RequestID"),
    Bytes(4, "Rep")>>
curp_MSyncReply_Check == [shape |-> {Sub(3, "defs.RequestID")},
    normalize |-> <<Inner("CmdId"), Empty("Rep")>>]

curp_Packet_Marshal == <<
    Varint(1, "Kind"), ZigZag32(2, "From"), ZigZag64(3, "Ballot"), ZigZag64(4, "Floor"),
    ZigZag64(5, "High"), ZigZag32(6, "Page"), ZigZag32(7, "Pages"),
    Repeated(8, "Records", "curp.Record"), Repeated(9, "Requests", "curp.Request")>>
curp_Packet_Size == <<
    Varint(1, "Kind"), ZigZag64(1, "From"), ZigZag64(1, "Ballot"), ZigZag64(1, "Floor"),
    ZigZag64(1, "High"), ZigZag64(1, "Page"), ZigZag64(1, "Pages"),
    Repeated(1, "Records", "curp.Record"), Repeated(1, "Requests", "curp.Request")>>
curp_Packet_Unmarshal == <<
    Uint8(1, "Kind"), ZigZag32(2, "From"), ZigZag64(3, "Ballot"), ZigZag64(4, "Floor"),
    ZigZag64(5, "High"), ZigZag32(6, "Page"), ZigZag32(7, "Pages"),
    Repeated(8, "Records", "curp.Record"), Repeated(9, "Requests", "curp.Request")>>
curp_Packet_Check == [shape |-> {Unsigned(1, 8), Sub(8, "curp.Record"), Sub(9, "curp.Request")},
    normalize |-> <<Each("Records"), Each("Requests")>>]

curp_Record_Marshal == <<
    ZigZag64(1, "Slot"), ZigZag64(2, "Ballot"), Nested(3, "Request", "curp.Request"),
    Bool(4, "Committed")>>
curp_Record_Size == <<
    ZigZag64(1, "Slot"), ZigZag64(1, "Ballot"), Nested(1, "Request", "curp.Request"), Flag(1)>>
curp_Record_Unmarshal == <<
    ZigZag64(1, "Slot"), ZigZag64(2, "Ballot"), Nested(3, "Request", "curp.Request"),
    Bool(4, "Committed")>>
curp_Record_Check == [shape |-> {Sub(3, "curp.Request")}, normalize |-> <<Inner("Request")>>]

curp_Request_Marshal == <<Nested(1, "ID", "defs.RequestID"), Nested(2, "Command", "state.Command")>>
curp_Request_Size == <<Nested(1, "ID", "defs.RequestID"), Nested(1, "Command", "state.Command")>>
curp_Request_Unmarshal == <<
    Nested(1, "ID", "defs.RequestID"), Nested(2, "Command", "state.Command")>>
curp_Request_Check == [shape |-> {Sub(1, "defs.RequestID"), Sub(2, "state.Command")},
    normalize |-> <<Inner("ID"), Inner("Command"), NilV("Command")>>]

curp_Messages ==
       "curp.MAAcks" :> Codec(curp_MAAcks_Marshal, curp_MAAcks_Size, curp_MAAcks_Unmarshal, curp_MAAcks_Check)
    @@ "curp.MAccept" :> Codec(curp_MAccept_Marshal, curp_MAccept_Size, curp_MAccept_Unmarshal, curp_MAccept_Check)
    @@ "curp.MAcceptAck" :> Codec(curp_MAcceptAck_Marshal, curp_MAcceptAck_Size, curp_MAcceptAck_Unmarshal, NoCheck)
    @@ "curp.MCommit" :> Codec(curp_MCommit_Marshal, curp_MCommit_Size, curp_MCommit_Unmarshal, NoCheck)
    @@ "curp.MRecordAck" :> Codec(curp_MRecordAck_Marshal, curp_MRecordAck_Size, curp_MRecordAck_Unmarshal, curp_MRecordAck_Check)
    @@ "curp.MReply" :> Codec(curp_MReply_Marshal, curp_MReply_Size, curp_MReply_Unmarshal, curp_MReply_Check)
    @@ "curp.MSync" :> Codec(curp_MSync_Marshal, curp_MSync_Size, curp_MSync_Unmarshal, curp_MSync_Check)
    @@ "curp.MSyncReply" :> Codec(curp_MSyncReply_Marshal, curp_MSyncReply_Size, curp_MSyncReply_Unmarshal, curp_MSyncReply_Check)
    @@ "curp.Packet" :> Codec(curp_Packet_Marshal, curp_Packet_Size, curp_Packet_Unmarshal, curp_Packet_Check)
    @@ "curp.Record" :> Codec(curp_Record_Marshal, curp_Record_Size, curp_Record_Unmarshal, curp_Record_Check)
    @@ "curp.Request" :> Codec(curp_Request_Marshal, curp_Request_Size, curp_Request_Unmarshal, curp_Request_Check)
=============================================================================
