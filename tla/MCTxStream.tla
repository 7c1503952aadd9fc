------------------------------ MODULE MCTxStream ------------------------------
(* One command with each of the numbers around the limits of its types,    *)
(* for bytes of one bit: a word has 4 bits and a long 8.  And sessions of  *)
(* three commands, some of which are refused, or not taken by the reader.  *)
EXTENDS TxStream

MCSize == <<2, 3, 1>>

Texts(numbers) == {{}} \cup {{n} : n \in numbers}

Release(id) == [cmd |-> "release-escrow", id |-> id]
Ids ==
  [as : {"decimal"}, text : Texts({-1, 0, 1, 127, 128, 255, 256})] \cup
  [as : {"as-sequence"}, text : Texts({-129, -1, 0, 5, 127, 128})] \cup
  [as : {"binary"}, bytes : {<<1, 0, 1>>, <<1, 0, 0, 0, 0, 0, 0, 1>>, <<0, 0, 0, 0, 0, 0, 0, 1, 0>>}] \cup
  [as : {"printed"}, bytes : {sequenceID(n) : n \in {0, 1, 127, 128}}]

Reset(weights) == [cmd |-> "reset-revenue", weights |-> weights]
Weights == UNION {[1 .. k -> Texts({-1, 0, 7, 8, 15, 16})] : k \in 0 .. 2}

Rule(quorum) == [cmd |-> "update-election-rule", quorum |-> quorum]
Quorums ==
  UNION {[1 .. k -> Texts({-1, 0, 1, 3, 15, 16, 18, 127, 128})] : k \in 1 .. 2} \cup
  {<<{1}, {2}, {3}>>}

Power(text) == [cmd |-> "set-validators", power |-> text]

Singles ==
  {Release(i) : i \in Ids} \cup {Reset(w) : w \in Weights} \cup {Rule(q) : q \in Quorums} \cup
  {Power(t) : t \in Texts({-1, 0, 10, 127, 128, 255, 256})}

Some ==
  {Release([as |-> "decimal", text |-> {0}]), Release([as |-> "as-sequence", text |-> {5}]),
   Reset(<<{1}, {6}>>), Rule(<<{2}, {3}>>), Power({10})}

MCSessions == {<<c>> : c \in Singles} \cup [1 .. 3 -> Some]
=============================================================================
