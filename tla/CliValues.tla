------------------------------ MODULE CliValues ------------------------------
(***************************************************************************)
(* What becomes of the numbers typed as arguments of grafaincli            *)
(* (cmd/grafaincli: flag.go, common.go, cmd_sequence.go, cmd_query.go,     *)
(* cmd_distribution.go, cmd_validators.go), on their way into a message.   *)
(*                                                                         *)
(* A text is the set of the numbers it can be read as: {n}, or {} when it  *)
(* is no number; a conversion that can refuse gives the set of its         *)
(* results, {} when it refuses.  The widths of the integers follow from    *)
(* the size of a byte.                                                     *)
(***************************************************************************)
EXTENDS Integers, Sequences, SequencesExt

CONSTANT Byte  \* 256

ASSUME CliValuesAssumption == Byte \in Nat \ {0, 1}

Word == Byte ^ 4
Long == Byte ^ 8

Uint32 == 0 .. Word - 1
Uint64 == 0 .. Long - 1
Int64 == -(Long \div 2) .. (Long \div 2) - 1

ToUint32(n) == n % Word
ToInt32(n) == IF n < Word \div 2 THEN n ELSE n - Word
ToInt64(n) == IF n < Long \div 2 THEN n ELSE n - Long

(* Bytes of a sequence value, the highest first. *)
sequenceBinarySize == 8
sequenceID(n) == [i \in 1 .. sequenceBinarySize |-> (n \div Byte ^ (sequenceBinarySize - i)) % Byte]
fromSequence(b) == FoldLeft(LAMBDA n, d : n * Byte + d, 0, b)

(* as-sequence: a signed number, converted to an unsigned one. *)
asSequence(text) == {sequenceID(n % Long) : n \in text \cap Int64}

(* A key that a query prints. *)
sequenceKey(b) == ToInt64(fromSequence(b))

(* unpackSequence, the decimal format and the two that spell out bytes. *)
Decimal(text) == {sequenceID(n) : n \in text \cap (Uint64 \ {0})}
Binary(b) == {x \in {b} : Len(x) = sequenceBinarySize}

(* An id as it is typed: a number, bytes, the output of as-sequence, or a  *)
(* key that was printed by a query.                                        *)
unpackSequence(id) ==
  CASE id.as = "decimal" -> Decimal(id.text)
    [] id.as = "binary" -> Binary(id.bytes)
    [] id.as = "as-sequence" -> UNION {Binary(b) : b \in asSequence(id.text)}
    [] id.as = "printed" -> Decimal({sequenceKey(id.bytes)})

(* Mutant: the second number is read from the first chunk. *)
unpackFractionOfOne(chunks) ==
  CASE Len(chunks) = 1 ->
         {<<ToUint32(n), IF n = 0 THEN 0 ELSE 1>> : n \in chunks[1] \cap Int64 \cap Nat}
    [] Len(chunks) = 2 ->
         {<<ToUint32(n), ToUint32(n)>> : n \in chunks[1] \cap Int64 \cap Nat}
    [] OTHER -> {}

(* unpackFraction: <<numerator, denominator>>.  Sign and zero are looked   *)
(* at before the numbers are cut to 32 bits.                               *)
unpackFraction(chunks) ==
  CASE Len(chunks) = 1 ->
         {<<ToUint32(n), IF n = 0 THEN 0 ELSE 1>> : n \in chunks[1] \cap Int64 \cap Nat}
    [] Len(chunks) = 2 ->
         {<<ToUint32(n), ToUint32(d)>> :
            n \in chunks[1] \cap Int64 \cap Nat, d \in chunks[2] \cap Int64 \cap (Nat \ {0})}
    [] OTHER -> {}

(* readDestinations: every weight of the file, or an error. *)
readDestinations(texts) ==
  {[i \in DOMAIN w |-> ToInt32(w[i])] :
     w \in {v \in [DOMAIN texts -> Uint32 \cap UNION Range(texts)] :
              \A i \in DOMAIN texts : v[i] \in texts[i]}}

(* The commands: a message, or nothing when an argument is refused. *)
cmdReleaseEscrow(c) ==
  {[kind |-> "escrow/release", value |-> b] : b \in unpackSequence(c.id)}

cmdResetRevenue(c) ==
  {[kind |-> "distribution/reset", value |-> w] : w \in readDestinations(c.weights)}

(* Of its fractions the quorum, which is read by flFraction. *)
cmdUpdateElectionRule(c) ==
  {[kind |-> "gov/updateElectionRule", value |-> f] : f \in unpackFraction(c.quorum)}

(* At the beginning of a chain. *)
cmdSetValidators(c) ==
  {[kind |-> "validators/applyDiff", value |-> <<ToInt64(n)>>] : n \in c.power \cap Uint64}

Message(c) ==
  CASE c.cmd = "release-escrow" -> cmdReleaseEscrow(c)
    [] c.cmd = "reset-revenue" -> cmdResetRevenue(c)
    [] c.cmd = "update-election-rule" -> cmdUpdateElectionRule(c)
    [] c.cmd = "set-validators" -> cmdSetValidators(c)
-----------------------------------------------------------------------------
(* Reference: the commands that make sense, and the numbers in a message   *)
(* read the way the chain reads them.                                      *)

Number(text, range) == \E n \in range : text = {n}

Sensible(c) ==
  CASE c.cmd = "release-escrow" ->
         \/ c.id.as = "decimal" /\ Number(c.id.text, 1 .. Long - 1)
         \/ c.id.as = "as-sequence" /\ Number(c.id.text, 0 .. (Long \div 2) - 1)
         \/ c.id.as = "binary" /\ Len(c.id.bytes) = 8
         \/ c.id.as = "printed" /\ \E i \in 1 .. 8 : c.id.bytes[i] # 0
    [] c.cmd = "reset-revenue" -> \A i \in DOMAIN c.weights : Number(c.weights[i], Uint32)
    [] c.cmd = "update-election-rule" ->
         /\ Len(c.quorum) \in {1, 2}
         /\ Number(c.quorum[1], Nat \cap Int64)
         /\ Len(c.quorum) = 2 => Number(c.quorum[2], (Nat \ {0}) \cap Int64)
    [] c.cmd = "set-validators" -> Number(c.power, Uint64)

(* Numbers past the width that flag.go:235, cmd_distribution.go:77,        *)
(* cmd_query.go:290, cmd_sequence.go:26 and cmd_validators.go:56 keep.     *)
TooWide(c) ==
  CASE c.cmd = "release-escrow" ->
         \/ c.id.as = "as-sequence" /\ ~(c.id.text \subseteq Nat)
         \/ c.id.as = "printed" /\ c.id.bytes[1] >= Byte \div 2
    [] c.cmd = "reset-revenue" ->
         \E i \in DOMAIN c.weights : c.weights[i] \cap (Word \div 2 .. Word - 1) # {}
    [] c.cmd = "update-election-rule" ->
         \E i \in DOMAIN c.quorum : c.quorum[i] \cap (Word .. (Long \div 2) - 1) # {}
    [] c.cmd = "set-validators" -> c.power \cap (Long \div 2 .. Long - 1) # {}

Denotes(msg, c) ==
  CASE c.cmd = "release-escrow" ->
         /\ msg.kind = "escrow/release" /\ Len(msg.value) = 8
         /\ IF c.id.as \in {"binary", "printed"} THEN msg.value = c.id.bytes
            ELSE c.id.text = {fromSequence(msg.value)}
    [] c.cmd = "reset-revenue" ->
         /\ msg.kind = "distribution/reset" /\ Len(msg.value) = Len(c.weights)
         /\ \A i \in DOMAIN c.weights : c.weights[i] = {msg.value[i]}
    [] c.cmd = "update-election-rule" ->
         /\ msg.kind = "gov/updateElectionRule"
         /\ \E n \in c.quorum[1], d \in IF Len(c.quorum) = 2 THEN c.quorum[2] ELSE {1} :
              /\ msg.value[1] * d = n * msg.value[2]
              /\ n # 0 => msg.value[2] # 0
    [] c.cmd = "set-validators" -> msg.kind = "validators/applyDiff" /\ {msg.value[1]} = c.power
=============================================================================
