------------------------------ MODULE WirePaxos -----------------------------
(***************************************************************************)
(* Package paxos.  Field tables of the generated messages, read off the    *)
(* methods of messages.pb.go.                                              *)
(***************************************************************************)
EXTENDS WireRows

paxos_Packet_Marshal == <<
    Varint(1, "Kind"), ZigZag32(2, "From"), ZigZag64(3, "Ballot"), ZigZag64(4, "Floor"),
    ZigZag64(5, "High"), ZigZag32(6, "Page"), ZigZag32(7, "Pages"),
    Repeated(8, "Records", "paxos.Record"), Repeated(9, "Requests", "paxos.Request")>>
paxos_Packet_Size == <<
    Varint(1, "Kind"), ZigZag64(1, "From"), ZigZag64(1, "Ballot"), ZigZag64(1, "Floor"),
    ZigZag64(1, "High"), ZigZag64(1, "Page"), ZigZag64(1, "Pages"),
    Repeated(1, "Records", "paxos.Record"), Repeated(1, "Requests", "paxos.Request")>>
paxos_Packet_Unmarshal == <<
    Uint8(1, "Kind"), ZigZag32(2, "From"), ZigZag64(3, "Ballot"), ZigZag64(4, "Floor"),
    ZigZag64(5, "High"), ZigZag32(6, "Page"), ZigZag32(7, "Pages"),
    Repeated(8, "Records", "paxos.Record"), Repeated(9, "Requests", "paxos.Request")>>
paxos_Packet_Check == [shape |-> {Unsigned(1, 8), Sub(8, "paxos.Record"), Sub(9, "paxos.Request")},
    normalize |-> <<Each("Records"), Each("Requests")>>]

paxos_Record_Marshal == <<
    ZigZag64(1, "Slot"), ZigZag64(2, "Ballot"), Nested(3, "Request", "paxos.Request"),
    Bool(4, "Committed")>>
\* Mutant of paxos_Record_Size: the flag is not counted.
paxos_Record_SizeShort == <<
    ZigZag64(1, "Slot"), ZigZag64(1, "Ballot"), Nested(1, "Request", "paxos.Request")>>
paxos_Record_Size == <<
    ZigZag64(1, "Slot"), ZigZag64(1, "Ballot"), Nested(1, "Request", "paxos.Request"), Flag(1)>>
paxos_Record_Unmarshal == <<
    ZigZag64(1, "Slot"), ZigZag64(2, "Ballot"), Nested(3, "Request", "paxos.Request"),
    Bool(4, "Committed")>>
paxos_Record_Check == [shape |-> {Sub(3, "paxos.Request")}, normalize |-> <<Inner("Request")>>]

paxos_Request_Marshal == <<
    Nested(1, "ID", "defs.RequestID"), Nested(2, "Command", "state.Command")>>
paxos_Request_Size == <<Nested(1, "ID", "defs.RequestID"), Nested(1, "Command", "state.Command")>>
paxos_Request_Unmarshal == <<
    Nested(1, "ID", "defs.RequestID"), Nested(2, "Command", "state.Command")>>
paxos_Request_Check == [shape |-> {Sub(1, "defs.RequestID"), Sub(2, "state.Command")},
    normalize |-> <<Inner("ID"), Inner("Command"), NilV("Command")>>]

paxos_Messages ==
       "paxos.Packet" :> Codec(paxos_Packet_Marshal, paxos_Packet_Size, paxos_Packet_Unmarshal, paxos_Packet_Check)
    @@ "paxos.Record" :> Codec(paxos_Record_Marshal, paxos_Record_Size, paxos_Record_Unmarshal, paxos_Record_Check)
    @@ "paxos.Request" :> Codec(paxos_Request_Marshal, paxos_Request_Size, paxos_Request_Unmarshal, paxos_Request_Check)
=============================================================================
