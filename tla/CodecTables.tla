----------------------------- MODULE CodecTables -----------------------------
(***************************************************************************)
(* The messages of grafain as the generated codecs know them (codec.pb.go  *)
(* of pkg/app, pkg/rbac and pkg/artifact): which field numbers a message   *)
(* reads, into which part of it, and what is embedded there.               *)
(*                                                                         *)
(* A message is a record of sequences: a scalar is its bytes, an optional  *)
(* message or the choice of a oneof a sequence of at most one, a repeated  *)
(* field the sequence of its elements.  Absent and empty are the same, as  *)
(* they are in the generated structs.                                      *)
(***************************************************************************)
EXTENDS Naturals, Sequences

(* The table of a message is the set of its fields: what has number n goes *)
(* into slot.                                                              *)
Scalar(n, slot) == [n |-> n, slot |-> slot, rule |-> "replace", type |-> "bytes"]
Embedded(n, slot, type) == [n |-> n, slot |-> slot, rule |-> "merge", type |-> type]
Repeated(n, slot, type) == [n |-> n, slot |-> slot, rule |-> "append", type |-> type]
OneOf(types) == {[n |-> t[1], slot |-> "sum", rule |-> "choose", type |-> t[2]] : t \in types}

TxSum ==
  {<<51, "cash.SendMsg">>, <<52, "escrow.CreateMsg">>, <<53, "escrow.ReleaseMsg">>,
   <<54, "escrow.ReturnMsg">>, <<55, "escrow.UpdatePartiesMsg">>, <<56, "multisig.CreateMsg">>,
   <<57, "multisig.UpdateMsg">>, <<58, "validators.ApplyDiffMsg">>, <<59, "currency.CreateMsg">>,
   <<60, "ExecuteBatchMsg">>, <<66, "distribution.CreateMsg">>,
   <<67, "distribution.DistributeMsg">>, <<68, "distribution.ResetMsg">>,
   <<69, "migration.UpgradeSchemaMsg">>, <<70, "aswap.CreateMsg">>, <<71, "aswap.ReleaseMsg">>,
   <<72, "aswap.ReturnMsg">>, <<73, "gov.CreateProposalMsg">>, <<74, "gov.DeleteProposalMsg">>,
   <<75, "gov.VoteMsg">>, <<77, "gov.UpdateElectorateMsg">>, <<78, "gov.UpdateElectionRuleMsg">>,
   <<100, "CreateArtifactMsg">>, <<101, "DeleteArtifactMsg">>}

TxFields ==
  {Embedded(1, "fees", "cash.FeeInfo"), Repeated(2, "signatures", "sigs.StdSignature"),
   Repeated(4, "multisig", "bytes")}
    \cup OneOf(TxSum)

BatchUnionFields == OneOf(
  {<<51, "cash.SendMsg">>, <<52, "escrow.CreateMsg">>, <<53, "escrow.ReleaseMsg">>,
   <<54, "escrow.ReturnMsg">>, <<55, "escrow.UpdatePartiesMsg">>, <<56, "multisig.CreateMsg">>,
   <<57, "multisig.UpdateMsg">>, <<58, "validators.ApplyDiffMsg">>, <<59, "currency.CreateMsg">>,
   <<66, "distribution.CreateMsg">>, <<67, "distribution.DistributeMsg">>,
   <<68, "distribution.ResetMsg">>})

BatchFields == {Repeated(1, "messages", "ExecuteBatchMsg_Union")}

OptionsFields == OneOf(
  {<<51, "cash.SendMsg">>, <<53, "escrow.ReleaseMsg">>, <<55, "escrow.UpdatePartiesMsg">>,
   <<57, "multisig.UpdateMsg">>, <<58, "validators.ApplyDiffMsg">>, <<59, "currency.CreateMsg">>,
   <<60, "ExecuteProposalBatchMsg">>, <<66, "distribution.CreateMsg">>,
   <<67, "distribution.DistributeMsg">>, <<68, "distribution.ResetMsg">>,
   <<69, "migration.UpgradeSchemaMsg">>, <<77, "gov.UpdateElectorateMsg">>,
   <<78, "gov.UpdateElectionRuleMsg">>, <<79, "gov.CreateTextResolutionMsg">>})

OptionsUnionFields == OneOf(
  {<<51, "cash.SendMsg">>, <<53, "escrow.ReleaseMsg">>, <<55, "escrow.UpdatePartiesMsg">>,
   <<57, "multisig.UpdateMsg">>, <<58, "validators.ApplyDiffMsg">>,
   <<66, "distribution.CreateMsg">>, <<67, "distribution.DistributeMsg">>,
   <<68, "distribution.ResetMsg">>, <<77, "gov.UpdateElectorateMsg">>,
   <<78, "gov.UpdateElectionRuleMsg">>, <<79, "gov.CreateTextResolutionMsg">>})

OptionsBatchFields == {Repeated(1, "messages", "ExecuteProposalBatchMsg_Union")}

TaskFields == {Repeated(1, "authenticators", "bytes")} \cup OneOf(
  {<<53, "escrow.ReleaseMsg">>, <<54, "escrow.ReturnMsg">>, <<67, "distribution.DistributeMsg">>,
   <<71, "aswap.ReleaseMsg">>, <<76, "gov.TallyMsg">>})

RoleFields ==
  {Embedded(1, "metadata", "weave.Metadata"), Scalar(2, "name"), Scalar(3, "description"),
   Scalar(4, "address"), Repeated(5, "role_ids", "bytes"), Scalar(6, "owner"),
   Repeated(7, "permissions", "bytes")}

RoleBindingFields ==
  {Embedded(1, "metadata", "weave.Metadata"), Scalar(2, "role_id"), Scalar(3, "signature")}

PrincipalFields ==
  {Embedded(1, "metadata", "weave.Metadata"), Scalar(2, "name"), Scalar(3, "description"),
   Repeated(4, "signatures", "NamedSignature")}

NamedSignatureFields == {Scalar(1, "name"), Scalar(2, "description"), Scalar(3, "signature")}

ArtifactFields ==
  {Embedded(1, "metadata", "weave.Metadata"), Scalar(2, "owner"), Scalar(3, "image"),
   Scalar(4, "checksum")}

CreateArtifactFields ==
  {Embedded(1, "metadata", "weave.Metadata"), Scalar(2, "image"), Scalar(3, "checksum"),
   Scalar(4, "owner")}

DeleteArtifactFields == {Embedded(1, "metadata", "weave.Metadata"), Scalar(2, "image")}

(* A message of the libraries: their codecs come from the same generator;  *)
(* one field stands for all of it.                                         *)
LibraryFields == {Scalar(1, "value")}

Tables ==
  [Tx |-> TxFields, ExecuteBatchMsg |-> BatchFields, ExecuteBatchMsg_Union |-> BatchUnionFields,
   ProposalOptions |-> OptionsFields, ExecuteProposalBatchMsg |-> OptionsBatchFields,
   ExecuteProposalBatchMsg_Union |-> OptionsUnionFields, CronTask |-> TaskFields,
   Role |-> RoleFields, RoleBinding |-> RoleBindingFields, Principal |-> PrincipalFields,
   NamedSignature |-> NamedSignatureFields, Artifact |-> ArtifactFields,
   CreateArtifactMsg |-> CreateArtifactFields, DeleteArtifactMsg |-> DeleteArtifactFields]

Kinds == DOMAIN Tables
Table(kind) == IF kind \in Kinds THEN Tables[kind] ELSE LibraryFields

(* The switch over the field number. *)
Numbered(fields) == [n \in {f.n : f \in fields} |-> CHOOSE f \in fields : f.n = n]
Fields == [kind \in Kinds |-> Numbered(Table(kind))]
FieldsOf(kind) == IF kind \in Kinds THEN Fields[kind] ELSE Numbered(LibraryFields)

(* The zero value of the generated struct. *)
Empty(kind) == [s \in {f.slot : f \in Table(kind)} |-> << >>]
=============================================================================
