------------------------------ MODULE WireDefs ------------------------------
(***************************************************************************)
(* Packages state and replica/defs: commands, request identities, client   *)
(* proposals and replies, beacons.  Field tables of the generated          *)
(* messages, read off the methods of messages.pb.go.                       *)
(***************************************************************************)
EXTENDS WireRows

state_Command_Marshal == <<Varint(1, "Op"), ZigZag64(2, "K"), Bytes(3, "V")>>
state_Command_Size == <<Varint(1, "Op"), ZigZag64(1, "K"), Bytes(1, "V")>>
state_Command_Unmarshal == <<Uint8(1, "Op"), ZigZag64(2, "K"), Bytes(3, "V")>>
state_Command_Check == [shape |-> {Unsigned(1, 8)}, normalize |-> <<>>]

state_Messages ==
       "state.Command" :> Codec(state_Command_Marshal, state_Command_Size, state_Command_Unmarshal, state_Command_Check)

defs_BeTheLeaderArgs_Marshal == <<>>
defs_BeTheLeaderArgs_Size == <<>>
defs_BeTheLeaderArgs_Unmarshal == <<>>

defs_BeTheLeaderReply_Marshal == <<ZigZag32(1, "Leader"), ZigZag32(2, "NextLeader")>>
defs_BeTheLeaderReply_Size == <<ZigZag64(1, "Leader"), ZigZag64(1, "NextLeader")>>
defs_BeTheLeaderReply_Unmarshal == <<ZigZag32(1, "Leader"), ZigZag32(2, "NextLeader")>>

defs_Beacon_Marshal == <<ZigZag64(1, "Timestamp")>>
defs_Beacon_Size == <<ZigZag64(1, "Timestamp")>>
defs_Beacon_Unmarshal == <<ZigZag64(1, "Timestamp")>>

defs_BeaconReply_Marshal == <<ZigZag64(1, "Timestamp")>>
defs_BeaconReply_Size == <<ZigZag64(1, "Timestamp")>>
defs_BeaconReply_Unmarshal == <<ZigZag64(1, "Timestamp")>>

defs_PingArgs_Marshal == <<Varint(1, "ActAsLeader")>>
defs_PingArgs_Size == <<Varint(1, "ActAsLeader")>>
defs_PingArgs_Unmarshal == <<Uint8(1, "ActAsLeader")>>
defs_PingArgs_Check == [shape |-> {Unsigned(1, 8)}, normalize |-> <<>>]

defs_PingReply_Marshal == <<>>
defs_PingReply_Size == <<>>
defs_PingReply_Unmarshal == <<>>

defs_Propose_Marshal == <<
    ZigZag32(1, "CommandId"), ZigZag32(2, "ClientId"), Nested(3, "Command", "state.Command"),
    ZigZag64(4, "Timestamp")>>
defs_Propose_Size == <<
    ZigZag64(1, "CommandId"), ZigZag64(1, "ClientId"), Nested(1, "Command", "state.Command"),
    ZigZag64(1, "Timestamp")>>
defs_Propose_Unmarshal == <<
    ZigZag32(1, "CommandId"), ZigZag32(2, "ClientId"), Nested(3, "Command", "state.Command"),
    ZigZag64(4, "Timestamp")>>
defs_Propose_Check == [shape |-> {Sub(3, "state.Command")},
    normalize |-> <<Inner("Command"), EmptyV("Command")>>]

defs_ProposeAndRead_Marshal == <<
    ZigZag32(1, "CommandId"), Nested(2, "Command", "state.Command"), ZigZag64(3, "Key")>>
defs_ProposeAndRead_Size == <<
    ZigZag64(1, "CommandId"), Nested(1, "Command", "state.Command"), ZigZag64(1, "Key")>>
defs_ProposeAndRead_Unmarshal == <<
    ZigZag32(1, "CommandId"), Nested(2, "Command", "state.Command"), ZigZag64(3, "Key")>>
defs_ProposeAndRead_Check == [shape |-> {Sub(2, "state.Command")},
    normalize |-> <<Inner("Command"), EmptyV("Command")>>]

defs_ProposeAndReadReply_Marshal == <<Varint(1, "OK"), ZigZag32(2, "CommandId"), Bytes(3, "Value")>>
defs_ProposeAndReadReply_Size == <<Varint(1, "OK"), ZigZag64(1, "CommandId"), Bytes(1, "Value")>>
defs_ProposeAndReadReply_Unmarshal == <<
    Uint8(1, "OK"), ZigZag32(2, "CommandId"), Bytes(3, "Value")>>
defs_ProposeAndReadReply_Check == [shape |-> {Unsigned(1, 8)}, normalize |-> <<Empty("Value")>>]

defs_ProposeReply_Marshal == <<Varint(1, "OK"), ZigZag32(2, "CommandId")>>
defs_ProposeReply_Size == <<Varint(1, "OK"), ZigZag64(1, "CommandId")>>
defs_ProposeReply_Unmarshal == <<Uint8(1, "OK"), ZigZag32(2, "CommandId")>>
defs_ProposeReply_Check == [shape |-> {Unsigned(1, 8)}, normalize |-> <<>>]

defs_ProposeReplyTS_Marshal == <<
    Varint(1, "OK"), ZigZag32(2, "CommandId"), Bytes(3, "Value"), ZigZag64(4, "Timestamp")>>
defs_ProposeReplyTS_Size == <<
    Varint(1, "OK"), ZigZag64(1, "CommandId"), Bytes(1, "Value"), ZigZag64(1, "Timestamp")>>
defs_ProposeReplyTS_Unmarshal == <<
    Uint8(1, "OK"), ZigZag32(2, "CommandId"), Bytes(3, "Value"), ZigZag64(4, "Timestamp")>>
defs_ProposeReplyTS_Check == [shape |-> {Unsigned(1, 8)}, normalize |-> <<Empty("Value")>>]

defs_Read_Marshal == <<ZigZag32(1, "CommandId"), ZigZag64(2, "Key")>>
defs_Read_Size == <<ZigZag64(1, "CommandId"), ZigZag64(1, "Key")>>
defs_Read_Unmarshal == <<ZigZag32(1, "CommandId"), ZigZag64(2, "Key")>>

defs_ReadReply_Marshal == <<ZigZag32(1, "CommandId"), Bytes(2, "Value")>>
defs_ReadReply_Size == <<ZigZag64(1, "CommandId"), Bytes(1, "Value")>>
defs_ReadReply_Unmarshal == <<ZigZag32(1, "CommandId"), Bytes(2, "Value")>>
defs_ReadReply_Check == [shape |-> {}, normalize |-> <<Empty("Value")>>]

defs_RequestID_Marshal == <<ZigZag32(1, "Client"), ZigZag32(2, "Sequence")>>
defs_RequestID_Size == <<ZigZag64(1, "Client"), ZigZag64(1, "Sequence")>>
defs_RequestID_Unmarshal == <<ZigZag32(1, "Client"), ZigZag32(2, "Sequence")>>

defs_Messages ==
       "defs.BeTheLeaderArgs" :> Codec(defs_BeTheLeaderArgs_Marshal, defs_BeTheLeaderArgs_Size, defs_BeTheLeaderArgs_Unmarshal, NoCheck)
    @@ "defs.BeTheLeaderReply" :> Codec(defs_BeTheLeaderReply_Marshal, defs_BeTheLeaderReply_Size, defs_BeTheLeaderReply_Unmarshal, NoCheck)
    @@ "defs.Beacon" :> Codec(defs_Beacon_Marshal, defs_Beacon_Size, defs_Beacon_Unmarshal, NoCheck)
    @@ "defs.BeaconReply" :> Codec(defs_BeaconReply_Marshal, defs_BeaconReply_Size, defs_BeaconReply_Unmarshal, NoCheck)
    @@ "defs.PingArgs" :> Codec(defs_PingArgs_Marshal, defs_PingArgs_Size, defs_PingArgs_Unmarshal, defs_PingArgs_Check)
    @@ "defs.PingReply" :> Codec(defs_PingReply_Marshal, defs_PingReply_Size, defs_PingReply_Unmarshal, NoCheck)
    @@ "defs.Propose" :> Codec(defs_Propose_Marshal, defs_Propose_Size, defs_Propose_Unmarshal, defs_Propose_Check)
    @@ "defs.ProposeAndRead" :> Codec(defs_ProposeAndRead_Marshal, defs_ProposeAndRead_Size, defs_ProposeAndRead_Unmarshal, defs_ProposeAndRead_Check)
    @@ "defs.ProposeAndReadReply" :> Codec(defs_ProposeAndReadReply_Marshal, defs_ProposeAndReadReply_Size, defs_ProposeAndReadReply_Unmarshal, defs_ProposeAndReadReply_Check)
    @@ "defs.ProposeReply" :> Codec(defs_ProposeReply_Marshal, defs_ProposeReply_Size, defs_ProposeReply_Unmarshal, defs_ProposeReply_Check)
    @@ "defs.ProposeReplyTS" :> Codec(defs_ProposeReplyTS_Marshal, defs_ProposeReplyTS_Size, defs_ProposeReplyTS_Unmarshal, defs_ProposeReplyTS_Check)
    @@ "defs.Read" :> Codec(defs_Read_Marshal, defs_Read_Size, defs_Read_Unmarshal, NoCheck)
    @@ "defs.ReadReply" :> Codec(defs_ReadReply_Marshal, defs_ReadReply_Size, defs_ReadReply_Unmarshal, defs_ReadReply_Check)
    @@ "defs.RequestID" :> Codec(defs_RequestID_Marshal, defs_RequestID_Size, defs_RequestID_Unmarshal, NoCheck)
=============================================================================
