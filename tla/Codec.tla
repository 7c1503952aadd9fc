-------------------------------- MODULE Codec --------------------------------
(***************************************************************************)
(* The generated codecs (codec.pb.go of pkg/app, pkg/rbac, pkg/artifact):  *)
(* every transaction, proposal option, cron task, role and artifact goes   *)
(* through them on its way to the chain, into its store and back.          *)
(*                                                                         *)
(* Size and MarshalTo are one operator per message.  Unmarshal and         *)
(* skipCodec are a machine that reads one byte at a step; an embedded      *)
(* message is a frame on the stack, a group that is skipped a depth.  The  *)
(* width of the integers is a parameter: int is as wide as Modulus tells,  *)
(* int32 half of that.                                                     *)
(***************************************************************************)
EXTENDS CodecTables, Integers, SequencesExt

CONSTANTS
  Modulus,       \* 2^64
  FieldModulus,  \* 2^32
  Inputs(_)      \* per kind of message, what is decoded: [written, bytes]

Byte == 0 .. 255

ASSUME CodecAssumption ==
  /\ Modulus \in Nat /\ FieldModulus \in Nat \ {0} /\ 512 <= Modulus
  /\ \A kind \in Kinds : \A i \in Inputs(kind) :
       i.bytes \in Seq(Byte) /\ Len(i.bytes) < Modulus \div 2

VARIABLES
  input,   \* what is being decoded
  stack,   \* the messages being decoded: [kind, field, end, msg], outermost first
  pc,      \* "next", "tag", "length", "skip", "skipvarint", "skiplength", "done", "failed"
  pos,     \* iNdEx: bytes read
  start,   \* preIndex: where the field begins
  number,  \* fieldNum
  num,     \* the varint read so far
  weight,  \* 1 << shift
  depth    \* groups open in skipCodec

vars == <<input, stack, pc, pos, start, number, num, weight, depth>>
-----------------------------------------------------------------------------
EncodeVarint[v \in Nat] ==
  IF v < 128 THEN <<v>> ELSE <<128 + (v % 128)>> \o EncodeVarint[v \div 128]

Sov[v \in Nat] == IF v < 128 THEN 1 ELSE 1 + Sov[v \div 128]

Tag(n, wire) == EncodeVarint[n * 8 + wire]

(* Mutant: every number is taken for a small one. *)
TagSizeOfSmall(n) == 1

(* The tag takes two bytes from number 16 on. *)
TagSize(n) == IF n < 16 THEN 1 ELSE 2

(* A field that carries a length: the size is computed, the bytes follow. *)
Chunk(n, size, bytes) == Tag(n, 2) \o EncodeVarint[size] \o bytes
ChunkSize(n, size) == TagSize(n) + Sov[size] + size

Total(sizes) ==
  LET sum[i \in 0 .. Len(sizes)] == IF i = 0 THEN 0 ELSE sum[i - 1] + sizes[i]
  IN sum[Len(sizes)]

MarshalScalar(n, s) == IF s = << >> THEN << >> ELSE Chunk(n, Len(s), s)
SizeScalar(n, s) == IF s = << >> THEN 0 ELSE ChunkSize(n, Len(s))
MarshalEach(n, s, Size(_), MarshalTo(_)) ==
  FlattenSeq([i \in DOMAIN s |-> Chunk(n, Size(s[i]), MarshalTo(s[i]))])
SizeEach(n, s, Size(_)) == Total([i \in DOMAIN s |-> ChunkSize(n, Size(s[i]))])
MarshalBytes(n, s) == MarshalEach(n, s, Len, LAMBDA b : b)
SizeBytes(n, s) == SizeEach(n, s, Len)

MarshalLibrary(m) == MarshalScalar(1, m.value)
SizeLibrary(m) == SizeScalar(1, m.value)

(* The choice of a oneof, when every alternative is a library's message. *)
MarshalChoice(sum) == FlattenSeq(
  [i \in DOMAIN sum |-> Chunk(sum[i].n, SizeLibrary(sum[i].v), MarshalLibrary(sum[i].v))])
SizeChoice(sum) == Total([i \in DOMAIN sum |-> ChunkSize(sum[i].n, SizeLibrary(sum[i].v))])
-----------------------------------------------------------------------------
(* pkg/artifact *)

MarshalArtifact(m) ==
  MarshalEach(1, m.metadata, SizeLibrary, MarshalLibrary) \o MarshalScalar(2, m.owner)
    \o MarshalScalar(3, m.image) \o MarshalScalar(4, m.checksum)
SizeArtifact(m) ==
  SizeEach(1, m.metadata, SizeLibrary) + SizeScalar(2, m.owner) + SizeScalar(3, m.image)
    + SizeScalar(4, m.checksum)

MarshalCreateArtifact(m) ==
  MarshalEach(1, m.metadata, SizeLibrary, MarshalLibrary) \o MarshalScalar(2, m.image)
    \o MarshalScalar(3, m.checksum) \o MarshalScalar(4, m.owner)
SizeCreateArtifact(m) ==
  SizeEach(1, m.metadata, SizeLibrary) + SizeScalar(2, m.image) + SizeScalar(3, m.checksum)
    + SizeScalar(4, m.owner)

MarshalDeleteArtifact(m) ==
  MarshalEach(1, m.metadata, SizeLibrary, MarshalLibrary) \o MarshalScalar(2, m.image)
SizeDeleteArtifact(m) == SizeEach(1, m.metadata, SizeLibrary) + SizeScalar(2, m.image)

(* pkg/rbac *)

MarshalRole(m) ==
  MarshalEach(1, m.metadata, SizeLibrary, MarshalLibrary) \o MarshalScalar(2, m.name)
    \o MarshalScalar(3, m.description) \o MarshalScalar(4, m.address)
    \o MarshalBytes(5, m.role_ids) \o MarshalScalar(6, m.owner) \o MarshalBytes(7, m.permissions)
SizeRole(m) ==
  SizeEach(1, m.metadata, SizeLibrary) + SizeScalar(2, m.name) + SizeScalar(3, m.description)
    + SizeScalar(4, m.address) + SizeBytes(5, m.role_ids) + SizeScalar(6, m.owner)
    + SizeBytes(7, m.permissions)

MarshalRoleBinding(m) ==
  MarshalEach(1, m.metadata, SizeLibrary, MarshalLibrary) \o MarshalScalar(2, m.role_id)
    \o MarshalScalar(3, m.signature)
SizeRoleBinding(m) ==
  SizeEach(1, m.metadata, SizeLibrary) + SizeScalar(2, m.role_id) + SizeScalar(3, m.signature)

MarshalNamedSignature(m) ==
  MarshalScalar(1, m.name) \o MarshalScalar(2, m.description) \o MarshalScalar(3, m.signature)
SizeNamedSignature(m) ==
  SizeScalar(1, m.name) + SizeScalar(2, m.description) + SizeScalar(3, m.signature)

MarshalPrincipal(m) ==
  MarshalEach(1, m.metadata, SizeLibrary, MarshalLibrary) \o MarshalScalar(2, m.name)
    \o MarshalScalar(3, m.description)
    \o MarshalEach(4, m.signatures, SizeNamedSignature, MarshalNamedSignature)
SizePrincipal(m) ==
  SizeEach(1, m.metadata, SizeLibrary) + SizeScalar(2, m.name) + SizeScalar(3, m.description)
    + SizeEach(4, m.signatures, SizeNamedSignature)

(* pkg/app *)

MarshalBatchUnion(m) == MarshalChoice(m.sum)
SizeBatchUnion(m) == SizeChoice(m.sum)
MarshalBatch(m) == MarshalEach(1, m.messages, SizeBatchUnion, MarshalBatchUnion)
SizeBatch(m) == SizeEach(1, m.messages, SizeBatchUnion)

MarshalOptionsUnion(m) == MarshalChoice(m.sum)
SizeOptionsUnion(m) == SizeChoice(m.sum)
MarshalOptionsBatch(m) == MarshalEach(1, m.messages, SizeOptionsUnion, MarshalOptionsUnion)
SizeOptionsBatch(m) == SizeEach(1, m.messages, SizeOptionsUnion)

MarshalOptions(m) ==
  IF m.sum # << >> /\ m.sum[1].n = 60
  THEN Chunk(60, SizeOptionsBatch(m.sum[1].v), MarshalOptionsBatch(m.sum[1].v))
  ELSE MarshalChoice(m.sum)
SizeOptions(m) ==
  IF m.sum # << >> /\ m.sum[1].n = 60 THEN ChunkSize(60, SizeOptionsBatch(m.sum[1].v))
  ELSE SizeChoice(m.sum)

MarshalTask(m) == MarshalBytes(1, m.authenticators) \o MarshalChoice(m.sum)
SizeTask(m) == SizeBytes(1, m.authenticators) + SizeChoice(m.sum)

SizeTxMsg(n, v) ==
  CASE n = 60 -> SizeBatch(v)
    [] n = 100 -> SizeCreateArtifact(v)
    [] n = 101 -> SizeDeleteArtifact(v)
    [] OTHER -> SizeLibrary(v)
MarshalTxMsg(n, v) ==
  CASE n = 60 -> MarshalBatch(v)
    [] n = 100 -> MarshalCreateArtifact(v)
    [] n = 101 -> MarshalDeleteArtifact(v)
    [] OTHER -> MarshalLibrary(v)

MarshalTx(m) ==
  MarshalEach(1, m.fees, SizeLibrary, MarshalLibrary)
    \o MarshalEach(2, m.signatures, SizeLibrary, MarshalLibrary) \o MarshalBytes(4, m.multisig)
    \o FlattenSeq([i \in DOMAIN m.sum |->
         Chunk(m.sum[i].n, SizeTxMsg(m.sum[i].n, m.sum[i].v), MarshalTxMsg(m.sum[i].n, m.sum[i].v))])
SizeTx(m) ==
  SizeEach(1, m.fees, SizeLibrary) + SizeEach(2, m.signatures, SizeLibrary)
    + SizeBytes(4, m.multisig)
    + Total([i \in DOMAIN m.sum |-> ChunkSize(m.sum[i].n, SizeTxMsg(m.sum[i].n, m.sum[i].v))])

Marshal(kind, m) ==
  CASE kind = "Tx" -> MarshalTx(m)
    [] kind = "ExecuteBatchMsg" -> MarshalBatch(m)
    [] kind = "ExecuteBatchMsg_Union" -> MarshalBatchUnion(m)
    [] kind = "ProposalOptions" -> MarshalOptions(m)
    [] kind = "ExecuteProposalBatchMsg" -> MarshalOptionsBatch(m)
    [] kind = "ExecuteProposalBatchMsg_Union" -> MarshalOptionsUnion(m)
    [] kind = "CronTask" -> MarshalTask(m)
    [] kind = "Role" -> MarshalRole(m)
    [] kind = "RoleBinding" -> MarshalRoleBinding(m)
    [] kind = "Principal" -> MarshalPrincipal(m)
    [] kind = "NamedSignature" -> MarshalNamedSignature(m)
    [] kind = "Artifact" -> MarshalArtifact(m)
    [] kind = "CreateArtifactMsg" -> MarshalCreateArtifact(m)
    [] kind = "DeleteArtifactMsg" -> MarshalDeleteArtifact(m)
    [] OTHER -> MarshalLibrary(m)

SizeOf(kind, m) ==
  CASE kind = "Tx" -> SizeTx(m)
    [] kind = "ExecuteBatchMsg" -> SizeBatch(m)
    [] kind = "ExecuteBatchMsg_Union" -> SizeBatchUnion(m)
    [] kind = "ProposalOptions" -> SizeOptions(m)
    [] kind = "ExecuteProposalBatchMsg" -> SizeOptionsBatch(m)
    [] kind = "ExecuteProposalBatchMsg_Union" -> SizeOptionsUnion(m)
    [] kind = "CronTask" -> SizeTask(m)
    [] kind = "Role" -> SizeRole(m)
    [] kind = "RoleBinding" -> SizeRoleBinding(m)
    [] kind = "Principal" -> SizePrincipal(m)
    [] kind = "NamedSignature" -> SizeNamedSignature(m)
    [] kind = "Artifact" -> SizeArtifact(m)
    [] kind = "CreateArtifactMsg" -> SizeCreateArtifact(m)
    [] kind = "DeleteArtifactMsg" -> SizeDeleteArtifact(m)
    [] OTHER -> SizeLibrary(m)
-----------------------------------------------------------------------------
Data == input.bytes
Root == stack[1].kind
Top == stack[Len(stack)]
End == Top.end

Frame(kind, field, end, msg) == [kind |-> kind, field |-> field, end |-> end, msg |-> msg]

Init ==
  /\ \E kind \in Kinds :
       /\ input \in Inputs(kind)
       /\ stack = <<Frame(kind, 0, Len(input.bytes), Empty(kind))>>
  /\ pc = "next" /\ pos = 0 /\ start = 0 /\ number = 0
  /\ num = 0 /\ weight = 1 /\ depth = 0

Signed(v, modulus) == IF v >= modulus \div 2 THEN v - modulus ELSE v
AsInt(v) == Signed(v % Modulus, Modulus)

(* The varint that is read, with the next byte. *)
InVarint == pc \in {"tag", "length", "skip", "skipvarint", "skiplength"}
HasByte == weight < Modulus /\ pos < End
Value == (num + (Data[pos + 1] % 128) * weight) % Modulus
LastByteOf(place) == pc = place /\ HasByte /\ Data[pos + 1] < 128

Fail ==
  /\ pc' = "failed"
  /\ UNCHANGED <<input, stack, pos, start, number, num, weight, depth>>

(* On to another place, with no varint begun. *)
Goto(place, p) == pc' = place /\ pos' = p /\ num' = 0 /\ weight' = 1

NextByte ==
  /\ InVarint /\ HasByte /\ Data[pos + 1] >= 128
  /\ num' = Value /\ weight' = weight * 128 /\ pos' = pos + 1
  /\ UNCHANGED <<input, stack, pc, start, number, depth>>

(* ErrIntOverflowCodec, io.ErrUnexpectedEOF. *)
BrokenVarint == InVarint /\ ~HasByte /\ Fail

(* The head of the loop. *)
NextField ==
  /\ pc = "next" /\ pos < End
  /\ start' = pos
  /\ Goto("tag", pos)
  /\ UNCHANGED <<input, stack, number, depth>>

Wire == Value % 8
FieldNum == Signed((Value \div 8) % FieldModulus, FieldModulus)
Known == FieldNum \in DOMAIN FieldsOf(Top.kind)
BadTag == Wire = 4 \/ FieldNum <= 0 \/ (Known /\ Wire # 2)

RefuseTag == LastByteOf("tag") /\ BadTag /\ Fail

ReadTag ==
  /\ LastByteOf("tag") /\ ~BadTag /\ Known
  /\ number' = FieldNum
  /\ Goto("length", pos + 1)
  /\ UNCHANGED <<input, stack, start, depth>>

(* Mutant: the index is set back, and nothing is skipped. *)
UnknownFieldStays ==
  /\ LastByteOf("tag") /\ ~BadTag /\ ~Known
  /\ Goto("next", start)
  /\ depth' = 0
  /\ UNCHANGED <<input, stack, start, number>>

(* The default of the switch: iNdEx = preIndex, and skipCodec. *)
UnknownField ==
  /\ LastByteOf("tag") /\ ~BadTag /\ ~Known
  /\ Goto("skip", start)
  /\ depth' = 0
  /\ UNCHANGED <<input, stack, start, number>>

(* Mutant: the end of the field is not compared with the end of the data. *)
FitsAnywhere(len) == len >= 0 /\ AsInt(pos + 1 + len) >= 0

Fits(len) == len >= 0 /\ AsInt(pos + 1 + len) >= 0 /\ pos + 1 + len <= End

RefuseLength == LastByteOf("length") /\ ~Fits(AsInt(Value)) /\ Fail

(* A value v for field n of message m. *)
Put(kind, m, n, v) ==
  LET f == FieldsOf(kind)[n] IN
    [m EXCEPT ![f.slot] =
      CASE f.rule = "replace" -> v
        [] f.rule = "merge" -> <<v>>
        [] f.rule = "append" -> Append(@, v)
        [] f.rule = "choose" -> <<[n |-> n, v |-> v]>>]

Entry == FieldsOf(Top.kind)[number]

ReadBytes ==
  /\ LastByteOf("length") /\ Fits(AsInt(Value)) /\ Entry.type = "bytes"
  /\ stack' = [stack EXCEPT ![Len(stack)].msg =
                 Put(Top.kind, @, number, SubSeq(Data, pos + 2, pos + 1 + AsInt(Value)))]
  /\ Goto("next", pos + 1 + AsInt(Value))
  /\ UNCHANGED <<input, start, number, depth>>

(* Mutant: an optional message that comes twice is replaced. *)
NewInPlaceOf(f, m) == Empty(f.type)

(* What an embedded message is read into: a new one, except that an        *)
(* optional message which is there already is read into again.             *)
ReadInto(f, m) == IF f.rule = "merge" /\ m[f.slot] # << >> THEN m[f.slot][1] ELSE Empty(f.type)

ReadMessage ==
  /\ LastByteOf("length") /\ Fits(AsInt(Value)) /\ Entry.type # "bytes"
  /\ stack' = Append(stack, Frame(Entry.type, number, pos + 1 + AsInt(Value), ReadInto(Entry, Top.msg)))
  /\ Goto("next", pos + 1)
  /\ UNCHANGED <<input, start, number, depth>>

(* The embedded Unmarshal returns; iNdEx = postIndex. *)
Return ==
  /\ pc = "next" /\ pos >= End /\ Len(stack) > 1
  /\ LET n == Len(stack) - 1 IN
       stack' = [SubSeq(stack, 1, n) EXCEPT ![n].msg = Put(stack[n].kind, @, Top.field, Top.msg)]
  /\ Goto("next", End)
  /\ UNCHANGED <<input, start, number, depth>>

Finish ==
  /\ pc = "next" /\ pos >= End /\ Len(stack) = 1
  /\ Goto("done", pos)
  /\ UNCHANGED <<input, stack, start, number, depth>>

(* skipCodec: a field of d open groups ends at p; what is read next. *)
SkipTo(p, d) ==
  IF AsInt(p) < 0 \/ (d = 0 /\ p > End) THEN Fail
  ELSE /\ Goto(IF d = 0 THEN "next" ELSE "skip", p)
       /\ depth' = d
       /\ UNCHANGED <<input, stack, start, number>>

SkipFixed ==
  /\ LastByteOf("skip") /\ Wire \in {1, 5}
  /\ SkipTo(pos + 1 + (IF Wire = 1 THEN 8 ELSE 4), depth)

SkipGroup ==
  /\ LastByteOf("skip") /\ Wire = 3
  /\ Goto("skip", pos + 1)
  /\ depth' = depth + 1
  /\ UNCHANGED <<input, stack, start, number>>

SkipGroupEnd ==
  /\ LastByteOf("skip") /\ Wire = 4
  /\ SkipTo(pos + 1, IF depth = 0 THEN 0 ELSE depth - 1)

SkipValue ==
  /\ LastByteOf("skip") /\ Wire \in {0, 2}
  /\ Goto(IF Wire = 0 THEN "skipvarint" ELSE "skiplength", pos + 1)
  /\ UNCHANGED <<input, stack, start, number, depth>>

RefuseSkip == LastByteOf("skip") /\ Wire \in {6, 7} /\ Fail

SkipVarint == LastByteOf("skipvarint") /\ SkipTo(pos + 1, depth)

SkipLength ==
  /\ LastByteOf("skiplength")
  /\ IF AsInt(Value) < 0 THEN Fail ELSE SkipTo(pos + 1 + AsInt(Value), depth)

Next ==
  \/ NextByte \/ BrokenVarint \/ NextField
  \/ RefuseTag \/ ReadTag \/ UnknownField
  \/ RefuseLength \/ ReadBytes \/ ReadMessage \/ Return \/ Finish
  \/ SkipFixed \/ SkipGroup \/ SkipGroupEnd \/ SkipValue \/ RefuseSkip \/ SkipVarint \/ SkipLength

Spec == Init /\ [][Next]_vars /\ WF_vars(Next)
-----------------------------------------------------------------------------
(* What was written, field by field: [n, v], a field of the message, or    *)
(* [n, wire, v], one of a later version; v.value are the bytes, where it   *)
(* is bytes.                                                               *)
Bytes(kind, f) ==
  IF f.n \notin DOMAIN FieldsOf(kind) THEN Tag(f.n, f.wire) \o f.v.value
  ELSE LET type == FieldsOf(kind)[f.n].type IN
    IF type = "bytes" THEN Chunk(f.n, Len(f.v.value), f.v.value)
    ELSE Chunk(f.n, SizeOf(type, f.v), Marshal(type, f.v))
Encoded(kind, fs) == FlattenSeq([i \in DOMAIN fs |-> Bytes(kind, fs[i])])

(* What a reader has to make of it, part by part. *)
LastOf(s) == IF s = << >> THEN << >> ELSE s[Len(s)]
Meaning(kind, fs) ==
  LET fields == FieldsOf(kind)
      In(s) == SelectSeq(fs, LAMBDA f : f.n \in DOMAIN fields /\ fields[f.n].slot = s)
      Rule(s) == (CHOOSE f \in {fields[n] : n \in DOMAIN fields} : f.slot = s).rule
      Values(s) == [i \in DOMAIN In(s) |->
                     IF fields[In(s)[i].n].type = "bytes" THEN In(s)[i].v.value ELSE In(s)[i].v]
      Merged(vs) == [value |-> LastOf(SelectSeq([i \in DOMAIN vs |-> vs[i].value], LAMBDA v : v # << >>))]
  IN [s \in DOMAIN Empty(kind) |->
       CASE Rule(s) = "append" -> Values(s)
         [] Rule(s) = "replace" -> LastOf(Values(s))
         [] Rule(s) = "choose" -> IF In(s) = << >> THEN << >> ELSE <<LastOf(In(s))>>
         [] Rule(s) = "merge" -> IF In(s) = << >> THEN << >> ELSE <<Merged(Values(s))>>]

(* The data is what was written up to its k-th field. *)
Whole(k) == Data = Encoded(Root, SubSeq(input.written, 1, k))
Cut == IsPrefix(Data, Encoded(Root, input.written))
-----------------------------------------------------------------------------
(* Every message lies within the one it is embedded in and within the      *)
(* data, a field begins and a message returns where it should, and skipCodec *)
(* is only called with something left to skip (else it panics): no index   *)
(* and no slice of the codecs is ever out of range, whatever the data.     *)
InBounds ==
  /\ \A i \in 1 .. Len(stack) :
       stack[i].end <= IF i = 1 THEN Len(Data) ELSE stack[i - 1].end
  /\ pc = "next" => 0 <= pos /\ pos <= End
  /\ pc \in {"tag", "skip", "skipvarint", "skiplength"} => start < End
  /\ pc \in {"tag", "length"} => pos <= End

(* A message is read back as what was written: parts in any order and more *)
(* than once, nested, of any length, with fields of a later version in     *)
(* between.  Data that is cut is noticed exactly if the cut is inside a    *)
(* field; at the end of one it is a shorter message.                       *)
DecodesToMeaning ==
  Cut =>
    /\ pc = "done" => \E k \in 0 .. Len(input.written) :
         Whole(k) /\ stack[1].msg = Meaning(Root, SubSeq(input.written, 1, k))
    /\ pc = "failed" => \A k \in 0 .. Len(input.written) : ~Whole(k)

(* Marshal allocates what Size says and MarshalTo fills it to the last     *)
(* byte, for everything that is read back.                                 *)
SizeIsExact ==
  pc = "done" => Len(Marshal(Root, stack[1].msg)) = SizeOf(Root, stack[1].msg)

(* Unmarshal ends on any data, nested and skipped groups included. *)
Terminates == <>(pc \in {"done", "failed"})
=============================================================================
