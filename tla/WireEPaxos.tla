----------------------------- MODULE WireEPaxos -----------------------------
(***************************************************************************)
(* Package epaxos.  Field tables of the generated messages, read off the   *)
(* methods of messages.pb.go.                                              *)
(***************************************************************************)
EXTENDS WireRows

epaxos_Accept_Marshal == <<
    ZigZag32(1, "LeaderId"), ZigZag32(2, "Replica"), ZigZag32(3, "Instance"),
    ZigZag32(4, "Ballot"), ZigZag32(5, "Seq"), ZigZag32s(6, "Deps"),
    Repeated(7, "Command", "state.Command")>>
epaxos_Accept_Size == <<
    ZigZag64(1, "LeaderId"), ZigZag64(1, "Replica"), ZigZag64(1, "Instance"),
    ZigZag64(1, "Ballot"), ZigZag64(1, "Seq"), ZigZag64s(1, "Deps"),
    Repeated(1, "Command", "state.Command")>>
epaxos_Accept_Unmarshal == <<
    ZigZag32(1, "LeaderId"), ZigZag32(2, "Replica"), ZigZag32(3, "Instance"),
    ZigZag32(4, "Ballot"), ZigZag32(5, "Seq"), ZigZag32s(6, "Deps"),
    Repeated(7, "Command", "state.Command")>>
epaxos_Accept_Check == [shape |-> {Packed(6), Sub(7, "state.Command")},
    normalize |-> <<Empty("Deps"), Each("Command"), Empty("Command"), EachEmptyV("Command")>>]

epaxos_AcceptReply_Marshal == <<
    ZigZag32(1, "Replica"), ZigZag32(2, "Instance"), ZigZag32(3, "Ballot"),
    ZigZag32(4, "AcceptorId")>>
epaxos_AcceptReply_Size == <<
    ZigZag64(1, "Replica"), ZigZag64(1, "Instance"), ZigZag64(1, "Ballot"),
    ZigZag64(1, "AcceptorId")>>
epaxos_AcceptReply_Unmarshal == <<
    ZigZag32(1, "Replica"), ZigZag32(2, "Instance"), ZigZag32(3, "Ballot"),
    ZigZag32(4, "AcceptorId")>>

epaxos_Commit_Marshal == <<
    ZigZag32(1, "LeaderId"), ZigZag32(2, "Replica"), ZigZag32(3, "Instance"),
    ZigZag32(4, "Ballot"), Repeated(5, "Command", "state.Command"), ZigZag32(6, "Seq"),
    ZigZag32s(7, "Deps")>>
epaxos_Commit_Size == <<
    ZigZag64(1, "LeaderId"), ZigZag64(1, "Replica"), ZigZag64(1, "Instance"),
    ZigZag64(1, "Ballot"), Repeated(1, "Command", "state.Command"), ZigZag64(1, "Seq"),
    ZigZag64s(1, "Deps")>>
epaxos_Commit_Unmarshal == <<
    ZigZag32(1, "LeaderId"), ZigZag32(2, "Replica"), ZigZag32(3, "Instance"),
    ZigZag32(4, "Ballot"), Repeated(5, "Command", "state.Command"), ZigZag32(6, "Seq"),
    ZigZag32s(7, "Deps")>>
epaxos_Commit_Check == [shape |-> {Sub(5, "state.Command"), Packed(7)},
    normalize |-> <<Each("Command"), Empty("Command"), Empty("Deps"), EachEmptyV("Command")>>]

epaxos_PreAccept_Marshal == <<
    ZigZag32(1, "LeaderId"), ZigZag32(2, "Replica"), ZigZag32(3, "Instance"),
    ZigZag32(4, "Ballot"), Repeated(5, "Command", "state.Command"), ZigZag32(6, "Seq"),
    ZigZag32s(7, "Deps")>>
epaxos_PreAccept_Size == <<
    ZigZag64(1, "LeaderId"), ZigZag64(1, "Replica"), ZigZag64(1, "Instance"),
    ZigZag64(1, "Ballot"), Repeated(1, "Command", "state.Command"), ZigZag64(1, "Seq"),
    ZigZag64s(1, "Deps")>>
epaxos_PreAccept_Unmarshal == <<
    ZigZag32(1, "LeaderId"), ZigZag32(2, "Replica"), ZigZag32(3, "Instance"),
    ZigZag32(4, "Ballot"), Repeated(5, "Command", "state.Command"), ZigZag32(6, "Seq"),
    ZigZag32s(7, "Deps")>>
epaxos_PreAccept_Check == [shape |-> {Sub(5, "state.Command"), Packed(7)},
    normalize |-> <<Each("Command"), Empty("Command"), Empty("Deps"), EachEmptyV("Command")>>]

epaxos_PreAcceptOK_Marshal == <<ZigZag32(1, "Instance")>>
epaxos_PreAcceptOK_Size == <<ZigZag64(1, "Instance")>>
epaxos_PreAcceptOK_Unmarshal == <<ZigZag32(1, "Instance")>>

epaxos_PreAcceptReply_Marshal == <<
    ZigZag32(1, "Replica"), ZigZag32(2, "Instance"), ZigZag32(3, "Ballot"),
    ZigZag32(4, "VBallot"), ZigZag32(5, "Seq"), ZigZag32s(6, "Deps"),
    ZigZag32s(7, "CommittedDeps"), ZigZag32(8, "Status"), ZigZag32(9, "AcceptorId")>>
epaxos_PreAcceptReply_Size == <<
    ZigZag64(1, "Replica"), ZigZag64(1, "Instance"), ZigZag64(1, "Ballot"),
    ZigZag64(1, "VBallot"), ZigZag64(1, "Seq"), ZigZag64s(1, "Deps"),
    ZigZag64s(1, "CommittedDeps"), ZigZag64(1, "Status"), ZigZag64(1, "AcceptorId")>>
epaxos_PreAcceptReply_Unmarshal == <<
    ZigZag32(1, "Replica"), ZigZag32(2, "Instance"), ZigZag32(3, "Ballot"),
    ZigZag32(4, "VBallot"), ZigZag32(5, "Seq"), ZigZag32s(6, "Deps"),
    ZigZag32s(7, "CommittedDeps"), Int8(8, "Status"), ZigZag32(9, "AcceptorId")>>
epaxos_PreAcceptReply_Check == [shape |-> {Packed(6), Packed(7), Signed(8, 8)},
    normalize |-> <<Empty("Deps"), Empty("CommittedDeps")>>]

epaxos_Prepare_Marshal == <<
    ZigZag32(1, "LeaderId"), ZigZag32(2, "Replica"), ZigZag32(3, "Instance"),
    ZigZag32(4, "Ballot")>>
epaxos_Prepare_Size == <<
    ZigZag64(1, "LeaderId"), ZigZag64(1, "Replica"), ZigZag64(1, "Instance"),
    ZigZag64(1, "Ballot")>>
epaxos_Prepare_Unmarshal == <<
    ZigZag32(1, "LeaderId"), ZigZag32(2, "Replica"), ZigZag32(3, "Instance"),
    ZigZag32(4, "Ballot")>>

epaxos_PrepareReply_Marshal == <<
    ZigZag32(1, "AcceptorId"), ZigZag32(2, "Replica"), ZigZag32(3, "Instance"),
    ZigZag32(4, "Ballot"), ZigZag32(5, "Status"), Repeated(6, "Command", "state.Command"),
    ZigZag32(7, "Seq"), ZigZag32s(8, "Deps")>>
epaxos_PrepareReply_Size == <<
    ZigZag64(1, "AcceptorId"), ZigZag64(1, "Replica"), ZigZag64(1, "Instance"),
    ZigZag64(1, "Ballot"), ZigZag64(1, "Status"), Repeated(1, "Command", "state.Command"),
    ZigZag64(1, "Seq"), ZigZag64s(1, "Deps")>>
epaxos_PrepareReply_Unmarshal == <<
    ZigZag32(1, "AcceptorId"), ZigZag32(2, "Replica"), ZigZag32(3, "Instance"),
    ZigZag32(4, "Ballot"), Int8(5, "Status"), Repeated(6, "Command", "state.Command"),
    ZigZag32(7, "Seq"), ZigZag32s(8, "Deps")>>
epaxos_PrepareReply_Check == [shape |-> {Signed(5, 8), Sub(6, "state.Command"), Packed(8)},
    normalize |-> <<Each("Command"), Empty("Command"), Empty("Deps"), EachEmptyV("Command")>>]

epaxos_TryPreAccept_Marshal == <<
    ZigZag32(1, "LeaderId"), ZigZag32(2, "Replica"), ZigZag32(3, "Instance"),
    ZigZag32(4, "Ballot"), Repeated(5, "Command", "state.Command"), ZigZag32(6, "Seq"),
    ZigZag32s(7, "Deps")>>
epaxos_TryPreAccept_Size == <<
    ZigZag64(1, "LeaderId"), ZigZag64(1, "Replica"), ZigZag64(1, "Instance"),
    ZigZag64(1, "Ballot"), Repeated(1, "Command", "state.Command"), ZigZag64(1, "Seq"),
    ZigZag64s(1, "Deps")>>
epaxos_TryPreAccept_Unmarshal == <<
    ZigZag32(1, "LeaderId"), ZigZag32(2, "Replica"), ZigZag32(3, "Instance"),
    ZigZag32(4, "Ballot"), Repeated(5, "Command", "state.Command"), ZigZag32(6, "Seq"),
    ZigZag32s(7, "Deps")>>
epaxos_TryPreAccept_Check == [shape |-> {Sub(5, "state.Command"), Packed(7)},
    normalize |-> <<Each("Command"), Empty("Command"), Empty("Deps"), EachEmptyV("Command")>>]

epaxos_TryPreAcceptReply_Marshal == <<
    ZigZag32(1, "AcceptorId"), ZigZag32(2, "Replica"), ZigZag32(3, "Instance"),
    ZigZag32(4, "Ballot"), ZigZag32(5, "VBallot"), ZigZag32(6, "ConflictReplica"),
    ZigZag32(7, "ConflictInstance"), ZigZag32(8, "ConflictStatus")>>
epaxos_TryPreAcceptReply_Size == <<
    ZigZag64(1, "AcceptorId"), ZigZag64(1, "Replica"), ZigZag64(1, "Instance"),
    ZigZag64(1, "Ballot"), ZigZag64(1, "VBallot"), ZigZag64(1, "ConflictReplica"),
    ZigZag64(1, "ConflictInstance"), ZigZag64(1, "ConflictStatus")>>
epaxos_TryPreAcceptReply_Unmarshal == <<
    ZigZag32(1, "AcceptorId"), ZigZag32(2, "Replica"), ZigZag32(3, "Instance"),
    ZigZag32(4, "Ballot"), ZigZag32(5, "VBallot"), ZigZag32(6, "ConflictReplica"),
    ZigZag32(7, "ConflictInstance"), Int8(8, "ConflictStatus")>>
epaxos_TryPreAcceptReply_Check == [shape |-> {Signed(8, 8)}, normalize |-> <<>>]

epaxos_RepairRequest_Marshal == <<ZigZag32(1, "Owner"), ZigZag32(2, "Slot")>>
epaxos_RepairRequest_Size == <<ZigZag64(1, "Owner"), ZigZag64(1, "Slot")>>
epaxos_RepairRequest_Unmarshal == <<ZigZag32(1, "Owner"), ZigZag32(2, "Slot")>>

epaxos_Messages ==
       "epaxos.Accept" :> Codec(epaxos_Accept_Marshal, epaxos_Accept_Size, epaxos_Accept_Unmarshal, epaxos_Accept_Check)
    @@ "epaxos.AcceptReply" :> Codec(epaxos_AcceptReply_Marshal, epaxos_AcceptReply_Size, epaxos_AcceptReply_Unmarshal, NoCheck)
    @@ "epaxos.Commit" :> Codec(epaxos_Commit_Marshal, epaxos_Commit_Size, epaxos_Commit_Unmarshal, epaxos_Commit_Check)
    @@ "epaxos.PreAccept" :> Codec(epaxos_PreAccept_Marshal, epaxos_PreAccept_Size, epaxos_PreAccept_Unmarshal, epaxos_PreAccept_Check)
    @@ "epaxos.PreAcceptOK" :> Codec(epaxos_PreAcceptOK_Marshal, epaxos_PreAcceptOK_Size, epaxos_PreAcceptOK_Unmarshal, NoCheck)
    @@ "epaxos.PreAcceptReply" :> Codec(epaxos_PreAcceptReply_Marshal, epaxos_PreAcceptReply_Size, epaxos_PreAcceptReply_Unmarshal, epaxos_PreAcceptReply_Check)
    @@ "epaxos.Prepare" :> Codec(epaxos_Prepare_Marshal, epaxos_Prepare_Size, epaxos_Prepare_Unmarshal, NoCheck)
    @@ "epaxos.PrepareReply" :> Codec(epaxos_PrepareReply_Marshal, epaxos_PrepareReply_Size, epaxos_PrepareReply_Unmarshal, epaxos_PrepareReply_Check)
    @@ "epaxos.TryPreAccept" :> Codec(epaxos_TryPreAccept_Marshal, epaxos_TryPreAccept_Size, epaxos_TryPreAccept_Unmarshal, epaxos_TryPreAccept_Check)
    @@ "epaxos.TryPreAcceptReply" :> Codec(epaxos_TryPreAcceptReply_Marshal, epaxos_TryPreAcceptReply_Size, epaxos_TryPreAcceptReply_Unmarshal, epaxos_TryPreAcceptReply_Check)
    @@ "epaxos.RepairRequest" :> Codec(epaxos_RepairRequest_Marshal, epaxos_RepairRequest_Size, epaxos_RepairRequest_Unmarshal, NoCheck)
=============================================================================
