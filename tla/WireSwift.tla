------------------------------ MODULE WireSwift -----------------------------
(***************************************************************************)
(* Package swift.  Field tables of the generated messages, read off the    *)
(* methods of messages.pb.go.                                              *)
(***************************************************************************)
EXTENDS WireRows

swift_Ack_Marshal == <<
    Nested(1, "CmdId", "defs.RequestID"), Repeated(2, "Dep", "defs.RequestID"),
    Repeated(3, "Checksum", "swift.SHash"), ZigZag64(4, "Seqnum")>>
swift_Ack_Size == <<
    Nested(1, "CmdId", "defs.RequestID"), Repeated(1, "Dep", "defs.RequestID"),
    Repeated(1, "Checksum", "swift.SHash"), ZigZag64(1, "Seqnum")>>
swift_Ack_Unmarshal == <<
    Nested(1, "CmdId", "defs.RequestID"), Repeated(2, "Dep", "defs.RequestID"),
    Repeated(3, "Checksum", "swift.SHash"), ZigZag64(4, "Seqnum")>>
swift_Ack_Check == [shape |-> {Sub(1, "defs.RequestID"), Sub(2, "defs.RequestID"),
        Sub(3, "swift.SHash")},
    normalize |-> <<Inner("CmdId"), Each("Dep"), Empty("Dep"), Each("Checksum"),
        Empty("Checksum")>>]

swift_MAccept_Marshal == <<
    ZigZag32(1, "Replica"), ZigZag32(2, "Ballot"), Nested(3, "CmdId", "defs.RequestID"),
    Bytes(4, "Rep")>>
swift_MAccept_Size == <<
    ZigZag64(1, "Replica"), ZigZag64(1, "Ballot"), Nested(1, "CmdId", "defs.RequestID"),
    Bytes(1, "Rep")>>
swift_MAccept_Unmarshal == <<
    ZigZag32(1, "Replica"), ZigZag32(2, "Ballot"), Nested(3, "CmdId", "defs.RequestID"),
    Bytes(4, "Rep")>>
swift_MAccept_Check == [shape |-> {Sub(3, "defs.RequestID")},
    normalize |-> <<Inner("CmdId"), Empty("Rep")>>]

swift_MAcks_Marshal == <<
    Repeated(1, "FastAcks", "swift.MFastAck"),
    Repeated(2, "LightSlowAcks", "swift.MLightSlowAck")>>
swift_MAcks_Size == <<
    Repeated(1, "FastAcks", "swift.MFastAck"),
    Repeated(1, "LightSlowAcks", "swift.MLightSlowAck")>>
swift_MAcks_Unmarshal == <<
    Repeated(1, "FastAcks", "swift.MFastAck"),
    Repeated(2, "LightSlowAcks", "swift.MLightSlowAck")>>
swift_MAcks_Check == [shape |-> {Sub(1, "swift.MFastAck"), Sub(2, "swift.MLightSlowAck")},
    normalize |-> <<Each("FastAcks"), Empty("FastAcks"), Each("LightSlowAcks"),
        Empty("LightSlowAcks")>>]

swift_MCollect_Marshal == <<
    ZigZag32(1, "Replica"), ZigZag32(2, "Ballot"), Repeated(3, "Ids", "defs.RequestID")>>
swift_MCollect_Size == <<
    ZigZag64(1, "Replica"), ZigZag64(1, "Ballot"), Repeated(1, "Ids", "defs.RequestID")>>
swift_MCollect_Unmarshal == <<
    ZigZag32(1, "Replica"), ZigZag32(2, "Ballot"), Repeated(3, "Ids", "defs.RequestID")>>
swift_MCollect_Check == [shape |-> {Sub(3, "defs.RequestID")},
    normalize |-> <<Each("Ids"), Empty("Ids")>>]

swift_MFastAck_Marshal == <<
    ZigZag32(1, "Replica"), ZigZag32(2, "Ballot"), Nested(3, "CmdId", "defs.RequestID"),
    Repeated(4, "Dep", "defs.RequestID"), Repeated(5, "Checksum", "swift.SHash"),
    ZigZag64(6, "Seqnum")>>
swift_MFastAck_Size == <<
    ZigZag64(1, "Replica"), ZigZag64(1, "Ballot"), Nested(1, "CmdId", "defs.RequestID"),
    Repeated(1, "Dep", "defs.RequestID"), Repeated(1, "Checksum", "swift.SHash"),
    ZigZag64(1, "Seqnum")>>
swift_MFastAck_Unmarshal == <<
    ZigZag32(1, "Replica"), ZigZag32(2, "Ballot"), Nested(3, "CmdId", "defs.RequestID"),
    Repeated(4, "Dep", "defs.RequestID"), Repeated(5, "Checksum", "swift.SHash"),
    ZigZag64(6, "Seqnum")>>
swift_MFastAck_Check == [shape |-> {Sub(3, "defs.RequestID"), Sub(4, "defs.RequestID"),
        Sub(5, "swift.SHash")},
    normalize |-> <<Inner("CmdId"), Each("Dep"), Empty("Dep"), Each("Checksum"),
        Empty("Checksum")>>]

swift_MFastAckClient_Marshal == <<
    ZigZag32(1, "Replica"), ZigZag32(2, "Ballot"), Nested(3, "CmdId", "defs.RequestID"),
    Repeated(4, "Checksum", "swift.SHash")>>
swift_MFastAckClient_Size == <<
    ZigZag64(1, "Replica"), ZigZag64(1, "Ballot"), Nested(1, "CmdId", "defs.RequestID"),
    Repeated(1, "Checksum", "swift.SHash")>>
swift_MFastAckClient_Unmarshal == <<
    ZigZag32(1, "Replica"), ZigZag32(2, "Ballot"), Nested(3, "CmdId", "defs.RequestID"),
    Repeated(4, "Checksum", "swift.SHash")>>
swift_MFastAckClient_Check == [shape |-> {Sub(3, "defs.RequestID"), Sub(4, "swift.SHash")},
    normalize |-> <<Inner("CmdId"), Each("Checksum"), Empty("Checksum")>>]

swift_MLightSlowAck_Marshal == <<
    ZigZag32(1, "Replica"), ZigZag32(2, "Ballot"), Nested(3, "CmdId", "defs.RequestID")>>
swift_MLightSlowAck_Size == <<
    ZigZag64(1, "Replica"), ZigZag64(1, "Ballot"), Nested(1, "CmdId", "defs.RequestID")>>
swift_MLightSlowAck_Unmarshal == <<
    ZigZag32(1, "Replica"), ZigZag32(2, "Ballot"), Nested(3, "CmdId", "defs.RequestID")>>
swift_MLightSlowAck_Check == [shape |-> {Sub(3, "defs.RequestID")},
    normalize |-> <<Inner("CmdId")>>]

swift_MLightSync_Marshal == <<ZigZag32(1, "Replica"), ZigZag32(2, "Ballot")>>
swift_MLightSync_Size == <<ZigZag64(1, "Replica"), ZigZag64(1, "Ballot")>>
swift_MLightSync_Unmarshal == <<ZigZag32(1, "Replica"), ZigZag32(2, "Ballot")>>

swift_MNewLeader_Marshal == <<ZigZag32(1, "Replica"), ZigZag32(2, "Ballot")>>
swift_MNewLeader_Size == <<ZigZag64(1, "Replica"), ZigZag64(1, "Ballot")>>
swift_MNewLeader_Unmarshal == <<ZigZag32(1, "Replica"), ZigZag32(2, "Ballot")>>

swift_MNewLeaderAck_Marshal == <<
    ZigZag32(1, "Replica"), ZigZag32(2, "Ballot"), ZigZag32(3, "Cballot")>>
swift_MNewLeaderAck_Size == <<
    ZigZag64(1, "Replica"), ZigZag64(1, "Ballot"), ZigZag64(1, "Cballot")>>
swift_MNewLeaderAck_Unmarshal == <<
    ZigZag32(1, "Replica"), ZigZag32(2, "Ballot"), ZigZag32(3, "Cballot")>>

swift_MNewLeaderAckN_Marshal == <<
    ZigZag32(1, "Replica"), ZigZag32(2, "Ballot"), ZigZag32(3, "Cballot"),
    Repeated(4, "CmdIds", "defs.RequestID"), ZigZag64s(5, "Phases"),
    Repeated(6, "Cmds", "state.Command"), Repeated(7, "Deps", "swift.SDep")>>
swift_MNewLeaderAckN_Size == <<
    ZigZag64(1, "Replica"), ZigZag64(1, "Ballot"), ZigZag64(1, "Cballot"),
    Repeated(1, "CmdIds", "defs.RequestID"), ZigZag64s(1, "Phases"),
    Repeated(1, "Cmds", "state.Command"), Repeated(1, "Deps", "swift.SDep")>>
swift_MNewLeaderAckN_Unmarshal == <<
    ZigZag32(1, "Replica"), ZigZag32(2, "Ballot"), ZigZag32(3, "Cballot"),
    Repeated(4, "CmdIds", "defs.RequestID"), ZigZag64s(5, "Phases"),
    Repeated(6, "Cmds", "state.Command"), Repeated(7, "Deps", "swift.SDep")>>
swift_MNewLeaderAckN_Check == [shape |-> {Sub(4, "defs.RequestID"), Packed(5),
        Sub(6, "state.Command"), Sub(7, "swift.SDep")},
    normalize |-> <<Each("CmdIds"), Empty("CmdIds"), Empty("Phases"), Each("Cmds"),
        Empty("Cmds"), Each("Deps"), Empty("Deps"), EachEmptyV("Cmds")>>]

swift_MOptAcks_Marshal == <<
    ZigZag32(1, "Replica"), ZigZag32(2, "Ballot"), Repeated(3, "Acks", "swift.Ack")>>
swift_MOptAcks_Size == <<
    ZigZag64(1, "Replica"), ZigZag64(1, "Ballot"), Repeated(1, "Acks", "swift.Ack")>>
swift_MOptAcks_Unmarshal == <<
    ZigZag32(1, "Replica"), ZigZag32(2, "Ballot"), Repeated(3, "Acks", "swift.Ack")>>
swift_MOptAcks_Check == [shape |-> {Sub(3, "swift.Ack")},
    normalize |-> <<Each("Acks"), Empty("Acks")>>]

swift_MPing_Marshal == <<ZigZag32(1, "Replica"), ZigZag32(2, "Ballot")>>
swift_MPing_Size == <<ZigZag64(1, "Replica"), ZigZag64(1, "Ballot")>>
swift_MPing_Unmarshal == <<ZigZag32(1, "Replica"), ZigZag32(2, "Ballot")>>

swift_MPingRep_Marshal == <<ZigZag32(1, "Replica"), ZigZag32(2, "Ballot")>>
swift_MPingRep_Size == <<ZigZag64(1, "Replica"), ZigZag64(1, "Ballot")>>
swift_MPingRep_Unmarshal == <<ZigZag32(1, "Replica"), ZigZag32(2, "Ballot")>>

swift_MReply_Marshal == <<
    ZigZag32(1, "Replica"), ZigZag32(2, "Ballot"), Nested(3, "CmdId", "defs.RequestID"),
    Repeated(4, "Checksum", "swift.SHash"), Bytes(5, "Rep")>>
swift_MReply_Size == <<
    ZigZag64(1, "Replica"), ZigZag64(1, "Ballot"), Nested(1, "CmdId", "defs.RequestID"),
    Repeated(1, "Checksum", "swift.SHash"), Bytes(1, "Rep")>>
swift_MReply_Unmarshal == <<
    ZigZag32(1, "Replica"), ZigZag32(2, "Ballot"), Nested(3, "CmdId", "defs.RequestID"),
    Repeated(4, "Checksum", "swift.SHash"), Bytes(5, "Rep")>>
swift_MReply_Check == [shape |-> {Sub(3, "defs.RequestID"), Sub(4, "swift.SHash")},
    normalize |-> <<Inner("CmdId"), Each("Checksum"), Empty("Checksum"), Empty("Rep")>>]

swift_MShareState_Marshal == <<ZigZag32(1, "Replica"), ZigZag32(2, "Ballot")>>
swift_MShareState_Size == <<ZigZag64(1, "Replica"), ZigZag64(1, "Ballot")>>
swift_MShareState_Unmarshal == <<ZigZag32(1, "Replica"), ZigZag32(2, "Ballot")>>

swift_MSlowAck_Marshal == <<
    ZigZag32(1, "Replica"), ZigZag32(2, "Ballot"), Nested(3, "CmdId", "defs.RequestID"),
    Repeated(4, "Dep", "defs.RequestID"), Repeated(5, "Checksum", "swift.SHash")>>
swift_MSlowAck_Size == <<
    ZigZag64(1, "Replica"), ZigZag64(1, "Ballot"), Nested(1, "CmdId", "defs.RequestID"),
    Repeated(1, "Dep", "defs.RequestID"), Repeated(1, "Checksum", "swift.SHash")>>
swift_MSlowAck_Unmarshal == <<
    ZigZag32(1, "Replica"), ZigZag32(2, "Ballot"), Nested(3, "CmdId", "defs.RequestID"),
    Repeated(4, "Dep", "defs.RequestID"), Repeated(5, "Checksum", "swift.SHash")>>
swift_MSlowAck_Check == [shape |-> {Sub(3, "defs.RequestID"), Sub(4, "defs.RequestID"),
        Sub(5, "swift.SHash")},
    normalize |-> <<Inner("CmdId"), Each("Dep"), Empty("Dep"), Each("Checksum"),
        Empty("Checksum")>>]

swift_MSync_Marshal == <<
    ZigZag32(1, "Replica"), ZigZag32(2, "Ballot"),
    Repeated(3, "Phases", "swift.MSyncPhasesEntry"),
    Repeated(4, "Cmds", "swift.MSyncCmdsEntry"), Repeated(5, "Deps", "swift.MSyncDepsEntry"),
    Bool(103, "PhasesPresent"), Bool(104, "CmdsPresent"), Bool(105, "DepsPresent")>>
swift_MSync_Size == <<
    ZigZag64(1, "Replica"), ZigZag64(1, "Ballot"),
    Repeated(1, "Phases", "swift.MSyncPhasesEntry"),
    Repeated(1, "Cmds", "swift.MSyncCmdsEntry"), Repeated(1, "Deps", "swift.MSyncDepsEntry"),
    Flag(2), Flag(2), Flag(2)>>
swift_MSync_Unmarshal == <<
    ZigZag32(1, "Replica"), ZigZag32(2, "Ballot"),
    Repeated(3, "Phases", "swift.MSyncPhasesEntry"),
    Repeated(4, "Cmds", "swift.MSyncCmdsEntry"), Repeated(5, "Deps", "swift.MSyncDepsEntry"),
    Bool(103, "PhasesPresent"), Bool(104, "CmdsPresent"), Bool(105, "DepsPresent")>>
swift_MSync_Check == [shape |-> {Sub(3, "swift.MSyncPhasesEntry"), Sub(4, "swift.MSyncCmdsEntry"),
        Sub(5, "swift.MSyncDepsEntry")},
    normalize |-> <<Each("Phases"), Empty("Phases"), Each("Cmds"), Empty("Cmds"),
        Each("Deps"), Empty("Deps"), Hook("validateRecoveryEntries"), EachNilV("Cmds")>>]

swift_MSyncPhasesEntry_Marshal == <<Nested(1, "Key", "defs.RequestID"), ZigZag64(2, "Value")>>
swift_MSyncPhasesEntry_Size == <<Nested(1, "Key", "defs.RequestID"), ZigZag64(1, "Value")>>
swift_MSyncPhasesEntry_Unmarshal == <<Nested(1, "Key", "defs.RequestID"), ZigZag64(2, "Value")>>
swift_MSyncPhasesEntry_Check == [shape |-> {Sub(1, "defs.RequestID")},
    normalize |-> <<Inner("Key")>>]

swift_MSyncCmdsEntry_Marshal == <<
    Nested(1, "Key", "defs.RequestID"), Nested(2, "Value", "state.Command")>>
swift_MSyncCmdsEntry_Size == <<
    Nested(1, "Key", "defs.RequestID"), Nested(1, "Value", "state.Command")>>
swift_MSyncCmdsEntry_Unmarshal == <<
    Nested(1, "Key", "defs.RequestID"), Nested(2, "Value", "state.Command")>>
swift_MSyncCmdsEntry_Check == [shape |-> {Sub(1, "defs.RequestID"), Sub(2, "state.Command")},
    normalize |-> <<Inner("Key"), Inner("Value")>>]

swift_MSyncDepsEntry_Marshal == <<
    Nested(1, "Key", "defs.RequestID"), Repeated(2, "Value", "defs.RequestID")>>
swift_MSyncDepsEntry_Size == <<
    Nested(1, "Key", "defs.RequestID"), Repeated(1, "Value", "defs.RequestID")>>
swift_MSyncDepsEntry_Unmarshal == <<
    Nested(1, "Key", "defs.RequestID"), Repeated(2, "Value", "defs.RequestID")>>
swift_MSyncDepsEntry_Check == [shape |-> {Sub(1, "defs.RequestID"), Sub(2, "defs.RequestID")},
    normalize |-> <<Inner("Key"), Each("Value")>>]

swift_SDep_Marshal == <<Repeated(1, "Dep", "defs.RequestID")>>
swift_SDep_Size == <<Repeated(1, "Dep", "defs.RequestID")>>
swift_SDep_Unmarshal == <<Repeated(1, "Dep", "defs.RequestID")>>
swift_SDep_Check == [shape |-> {Sub(1, "defs.RequestID")},
    normalize |-> <<Each("Dep"), Empty("Dep")>>]

swift_SHash_Marshal == <<Hash(1, "H")>>
swift_SHash_Size == <<Hash(1, "H")>>
swift_SHash_Unmarshal == <<Hash(1, "H")>>
swift_SHash_Check == [shape |-> {Width(1, 32)}, normalize |-> <<>>]

swift_Messages ==
       "swift.Ack" :> Codec(swift_Ack_Marshal, swift_Ack_Size, swift_Ack_Unmarshal, swift_Ack_Check)
    @@ "swift.MAccept" :> Codec(swift_MAccept_Marshal, swift_MAccept_Size, swift_MAccept_Unmarshal, swift_MAccept_Check)
    @@ "swift.MAcks" :> Codec(swift_MAcks_Marshal, swift_MAcks_Size, swift_MAcks_Unmarshal, swift_MAcks_Check)
    @@ "swift.MCollect" :> Codec(swift_MCollect_Marshal, swift_MCollect_Size, swift_MCollect_Unmarshal, swift_MCollect_Check)
    @@ "swift.MFastAck" :> Codec(swift_MFastAck_Marshal, swift_MFastAck_Size, swift_MFastAck_Unmarshal, swift_MFastAck_Check)
    @@ "swift.MFastAckClient" :> Codec(swift_MFastAckClient_Marshal, swift_MFastAckClient_Size, swift_MFastAckClient_Unmarshal, swift_MFastAckClient_Check)
    @@ "swift.MLightSlowAck" :> Codec(swift_MLightSlowAck_Marshal, swift_MLightSlowAck_Size, swift_MLightSlowAck_Unmarshal, swift_MLightSlowAck_Check)
    @@ "swift.MLightSync" :> Codec(swift_MLightSync_Marshal, swift_MLightSync_Size, swift_MLightSync_Unmarshal, NoCheck)
    @@ "swift.MNewLeader" :> Codec(swift_MNewLeader_Marshal, swift_MNewLeader_Size, swift_MNewLeader_Unmarshal, NoCheck)
    @@ "swift.MNewLeaderAck" :> Codec(swift_MNewLeaderAck_Marshal, swift_MNewLeaderAck_Size, swift_MNewLeaderAck_Unmarshal, NoCheck)
    @@ "swift.MNewLeaderAckN" :> Codec(swift_MNewLeaderAckN_Marshal, swift_MNewLeaderAckN_Size, swift_MNewLeaderAckN_Unmarshal, swift_MNewLeaderAckN_Check)
    @@ "swift.MOptAcks" :> Codec(swift_MOptAcks_Marshal, swift_MOptAcks_Size, swift_MOptAcks_Unmarshal, swift_MOptAcks_Check)
    @@ "swift.MPing" :> Codec(swift_MPing_Marshal, swift_MPing_Size, swift_MPing_Unmarshal, NoCheck)
    @@ "swift.MPingRep" :> Codec(swift_MPingRep_Marshal, swift_MPingRep_Size, swift_MPingRep_Unmarshal, NoCheck)
    @@ "swift.MReply" :> Codec(swift_MReply_Marshal, swift_MReply_Size, swift_MReply_Unmarshal, swift_MReply_Check)
    @@ "swift.MShareState" :> Codec(swift_MShareState_Marshal, swift_MShareState_Size, swift_MShareState_Unmarshal, NoCheck)
    @@ "swift.MSlowAck" :> Codec(swift_MSlowAck_Marshal, swift_MSlowAck_Size, swift_MSlowAck_Unmarshal, swift_MSlowAck_Check)
    @@ "swift.MSync" :> Codec(swift_MSync_Marshal, swift_MSync_Size, swift_MSync_Unmarshal, swift_MSync_Check)
    @@ "swift.MSyncPhasesEntry" :> Codec(swift_MSyncPhasesEntry_Marshal, swift_MSyncPhasesEntry_Size, swift_MSyncPhasesEntry_Unmarshal, swift_MSyncPhasesEntry_Check)
    @@ "swift.MSyncCmdsEntry" :> Codec(swift_MSyncCmdsEntry_Marshal, swift_MSyncCmdsEntry_Size, swift_MSyncCmdsEntry_Unmarshal, swift_MSyncCmdsEntry_Check)
    @@ "swift.MSyncDepsEntry" :> Codec(swift_MSyncDepsEntry_Marshal, swift_MSyncDepsEntry_Size, swift_MSyncDepsEntry_Unmarshal, swift_MSyncDepsEntry_Check)
    @@ "swift.SDep" :> Codec(swift_SDep_Marshal, swift_SDep_Size, swift_SDep_Unmarshal, swift_SDep_Check)
    @@ "swift.SHash" :> Codec(swift_SHash_Marshal, swift_SHash_Size, swift_SHash_Unmarshal, swift_SHash_Check)
=============================================================================
