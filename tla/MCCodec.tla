------------------------------- MODULE MCCodec -------------------------------
(***************************************************************************)
(* Every field of every message, pairs of fields in both orders, fields of *)
(* a later version, lengths around the size of a byte; each of them cut at *)
(* every byte.  And short data that nobody wrote as a message.             *)
(***************************************************************************)
EXTENDS Codec

Library(v) == [value |-> v]
Choice(n, v) == [sum |-> <<[n |-> n, v |-> v]>>]
Long(n) == [i \in 1 .. n |-> 7]

Unions == {[sum |-> << >>], Choice(51, Library(<<65>>)), Choice(57, Library(<<66>>))}
Batches == {[messages |-> << >>]} \cup {[messages |-> <<u, w>>] : u, w \in Unions}
Signatures == {[name |-> << >>, description |-> << >>, signature |-> <<65>>],
               [name |-> <<66>>, description |-> <<67>>, signature |-> <<65>>]}

Samples(type) ==
  CASE type = "bytes" -> {Library(<< >>), Library(<<65>>)}
    [] type \in {"ExecuteBatchMsg", "ExecuteProposalBatchMsg"} -> Batches
    [] type \in {"ExecuteBatchMsg_Union", "ExecuteProposalBatchMsg_Union"} -> Unions
    [] type = "NamedSignature" -> Signatures
    [] type = "CreateArtifactMsg" ->
         {[metadata |-> <<Library(<<1>>)>>, image |-> <<65>>, checksum |-> <<66>>, owner |-> <<67>>]}
    [] type = "DeleteArtifactMsg" -> {[metadata |-> <<Library(<<1>>)>>, image |-> <<65>>]}
    [] type \in {"cash.SendMsg", "cash.FeeInfo", "weave.Metadata"} -> {Library(<< >>), Library(<<65>>)}
    [] OTHER -> {Library(<<65>>)}

(* Fields of a later version, one of each wire type. *)
Unknown == {
  [n |-> 9, wire |-> 0, v |-> Library(<<150, 1>>)],
  [n |-> 103, wire |-> 1, v |-> Library([i \in 1 .. 8 |-> 255])],
  [n |-> 103, wire |-> 2, v |-> Library(<<2, 10, 1>>)],
  [n |-> 9, wire |-> 5, v |-> Library(<<10, 1, 65, 0>>)],
  [n |-> 9, wire |-> 3, v |-> Library(<<8, 1, 27, 18, 1, 65, 28, 76>>)]}

OfField(kind, n) == {[n |-> n, v |-> v] : v \in Samples(FieldsOf(kind)[n].type)}
OfKind(kind) == UNION {OfField(kind, n) : n \in DOMAIN FieldsOf(kind)}

(* The fields that are paired: of a oneof two alternatives and the batch. *)
Paired(kind) ==
  UNION {OfField(kind, n) : n \in {n \in DOMAIN FieldsOf(kind) : n < 50}}
  \cup (UNION {OfField(kind, n) : n \in {n \in {51, 53, 101} : n \in DOMAIN FieldsOf(kind)}})
  \cup Unknown

(* Where the length, or the length of the length, changes its size. *)
Longs(kind) ==
  {[n |-> n, v |-> Library(Long(l))] :
     l \in {124, 125, 127, 128},
     n \in {n \in DOMAIN FieldsOf(kind) :
              FieldsOf(kind)[n].type \in {"bytes", "cash.FeeInfo", "cash.SendMsg", "weave.Metadata"}}}

Sequence(kind) ==
  {<<f>> : f \in OfKind(kind) \cup Unknown} \cup {<<f, g>> : f, g \in Paired(kind)}

Cuts(kind, fs) ==
  LET all == Encoded(kind, fs) IN
    {[written |-> fs, bytes |-> SubSeq(all, 1, c)] : c \in 0 .. Len(all)}

(* Not a message: the output of another program. *)
Noise ==
  UNION {[1 .. n -> {0, 2, 9, 10, 12, 14, 75, 128, 255}] : n \in 1 .. 3}
    \cup UNION {[1 .. n -> {10, 74, 128, 255}] : n \in 4 .. 5}

MCInputs(kind) ==
  UNION {Cuts(kind, fs) : fs \in Sequence(kind)}
  \cup {[written |-> <<f>>, bytes |-> Encoded(kind, <<f>>)] : f \in IF kind = "Tx" THEN Longs(kind) ELSE {}}
  \cup {[written |-> << >>, bytes |-> b] : b \in IF kind = "Role" THEN Noise ELSE {}}
=============================================================================
