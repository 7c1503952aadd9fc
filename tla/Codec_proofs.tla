----------------------------- MODULE Codec_proofs -----------------------------
(***************************************************************************)
(* The codecs stay within the data, for every message table, every width   *)
(* of the integers and every input (Codec!InBounds).  IInv adds to it the  *)
(* types of what positions are computed from; the contents of the messages *)
(* play no part.  They do for the sizes (Codec!SizeIsExact): every message *)
(* on the stack is one its table allows (Typed), and of those each has as  *)
(* many bytes as its Size says.                                            *)
(***************************************************************************)
EXTENDS Codec, SequenceTheorems, WellFoundedInduction, TLAPS

Places == {"next", "tag", "length", "skip", "skipvarint", "skiplength", "done", "failed"}

(* The stack as the proofs need it: frames that end within each other. *)
IsFrame(f) == \E kind, field, end, msg : f = Frame(kind, field, end, msg)
Nested ==
  /\ \E S : stack \in Seq(S)
  /\ Len(stack) >= 1
  /\ \A i \in 1 .. Len(stack) :
       /\ IsFrame(stack[i]) /\ stack[i].end \in Nat /\ stack[i].end <= Len(Data)
       /\ i > 1 => stack[i].end <= stack[i - 1].end
Positions ==
  /\ pos \in Nat /\ start \in Nat /\ num \in Nat /\ weight \in Nat /\ depth \in Nat
  /\ \E S : Data \in Seq(S)
  /\ \A i \in 1 .. Len(Data) : Data[i] \in Nat
  /\ pc \in Places
Within ==
  /\ pc = "next" => pos <= End
  /\ pc \in {"tag", "skip", "skipvarint", "skiplength"} => start < End
  /\ pc \in {"tag", "length"} => pos <= End
IInv == Nested /\ Positions /\ Within

(* A frame keeps its end when its message changes. *)
WithMsg(f, m) == [f EXCEPT !.msg = m]

LEMMA WithMsgKeepsEnd ==
  ASSUME NEW f, IsFrame(f), NEW m
  PROVE  IsFrame(WithMsg(f, m)) /\ WithMsg(f, m).end = f.end
<1>1. PICK kind, field, end, msg : f = Frame(kind, field, end, msg)
  BY DEF IsFrame
<1>2. [Frame(kind, field, end, msg) EXCEPT !.msg = m] = Frame(kind, field, end, m)
  BY DEF Frame
<1>3. WithMsg(f, m) = Frame(kind, field, end, m)
  BY <1>1, <1>2 DEF WithMsg
<1>4. WithMsg(f, m).end = end /\ f.end = end
  BY <1>1, <1>3 DEF Frame
<1> QED
  BY <1>3, <1>4 DEF IsFrame

LEMMA PutKeepsEnds ==
  ASSUME NEW S, NEW s \in Seq(S), NEW i \in 1 .. Len(s), NEW e, IsFrame(e), e.end = s[i].end,
         \A j \in 1 .. Len(s) : IsFrame(s[j])
  PROVE  /\ [s EXCEPT ![i] = e] \in Seq(S \cup {e})
         /\ Len([s EXCEPT ![i] = e]) = Len(s)
         /\ \A j \in 1 .. Len(s) :
              IsFrame([s EXCEPT ![i] = e][j]) /\ [s EXCEPT ![i] = e][j].end = s[j].end
<1> DEFINE T == S \cup {e}
<1>1. s \in Seq(T)
  OBVIOUS
<1>2. e \in T
  OBVIOUS
<1> HIDE DEF T
<1>3. /\ [s EXCEPT ![i] = e] \in Seq(T)
      /\ Len([s EXCEPT ![i] = e]) = Len(s)
      /\ \A j \in 1 .. Len(s) : [s EXCEPT ![i] = e][j] = IF j = i THEN e ELSE s[j]
  BY <1>1, <1>2, ExceptSeq
<1> QED
  BY <1>3 DEF T

(* The same frames, the first n of them, still nest. *)
LEMMA StillNested ==
  ASSUME Nested, Data' = Data, NEW n \in Nat, 1 <= n, n <= Len(stack), Len(stack) \in Nat,
         Len(Data) \in Nat,
         \E T : stack' \in Seq(T), Len(stack') = n,
         \A j \in 1 .. n : IsFrame(stack'[j]) /\ stack'[j].end = stack[j].end
  PROVE  Nested'
<1>1. ASSUME NEW i \in 1 .. n
      PROVE  /\ IsFrame(stack'[i]) /\ stack'[i].end \in Nat /\ stack'[i].end <= Len(Data)
             /\ i > 1 => stack'[i].end <= stack'[i - 1].end
  <2>1. i \in 1 .. Len(stack) /\ (i > 1 => i - 1 \in 1 .. n)
    OBVIOUS
  <2> QED
    BY <2>1 DEF Nested
<1> QED
  BY <1>1 DEF Nested

LEMMA TopFrame ==
  ASSUME Nested
  PROVE  /\ Len(stack) \in Nat \ {0} /\ Top = stack[Len(stack)]
         /\ IsFrame(Top) /\ End \in Nat /\ End <= Len(Data)
BY DEF Nested, Top, End

LEMMA IntIsInt == ASSUME NEW v \in Int PROVE AsInt(v) \in Int
BY CodecAssumption DEF AsInt, Signed, CodecAssumption

LEMMA ValueIsNat == ASSUME IInv, HasByte PROVE Value \in Nat
<1>1. End \in Nat /\ End <= Len(Data)
  BY TopFrame DEF IInv
<1>2. Len(Data) \in Nat
  BY DEF IInv, Positions
<1>3. pos + 1 \in 1 .. Len(Data)
  BY <1>1, <1>2 DEF HasByte, IInv, Positions
<1>4. Data[pos + 1] % 128 \in Nat
  BY <1>3 DEF IInv, Positions
<1>5. num + (Data[pos + 1] % 128) * weight \in Nat
  <2> DEFINE b == Data[pos + 1] % 128
  <2> HIDE DEF b
  <2>1. b \in Nat /\ num \in Nat /\ weight \in Nat
    BY <1>4 DEF IInv, Positions, b
  <2>2. b * weight \in Nat
    BY <2>1
  <2> QED
    BY <2>1, <2>2 DEF b
<1>6. \A v \in Nat : v % Modulus \in Nat
  BY CodecAssumption DEF CodecAssumption
<1> QED
  BY <1>5, <1>6 DEF Value

LEMMA SameStack ==
  ASSUME IInv, UNCHANGED <<input, stack>>
  PROVE  Nested' /\ End' = End /\ Data' = Data
BY DEF IInv, Nested, Data, End, Top

LEMMA FailStep == ASSUME IInv, Fail PROVE IInv'
BY SameStack DEF IInv, Fail, Positions, Within, Places

(* On to a place in the same frames. *)
LEMMA GotoStep ==
  ASSUME IInv, UNCHANGED <<input, stack>>,
         NEW place \in {"next", "tag", "length", "skip", "skipvarint", "skiplength", "done"},
         NEW p \in Nat, Goto(place, p), start' \in Nat, depth' \in Nat,
         place \in {"next", "tag", "length"} => p <= End,
         place \in {"tag", "skip", "skipvarint", "skiplength"} => start' < End
  PROVE  IInv'
<1>1. Nested' /\ End' = End /\ Data' = Data
  BY SameStack
<1>2. Positions'
  BY <1>1 DEF Goto, IInv, Positions, Places
<1>3. Within'
  BY <1>1 DEF Goto, Within
<1> QED
  BY <1>1, <1>2, <1>3 DEF IInv

LEMMA SkipStep ==
  ASSUME IInv, NEW p \in Nat, NEW d \in Nat, start < End, SkipTo(p, d)
  PROVE  IInv'
<1>1. CASE Fail
  BY <1>1, FailStep
<1>2. CASE ~Fail
  <2>1. /\ Goto(IF d = 0 THEN "next" ELSE "skip", p) /\ depth' = d
        /\ UNCHANGED <<input, stack, start, number>> /\ ~(d = 0 /\ p > End)
    BY <1>2 DEF SkipTo
  <2>2. start \in Nat /\ End \in Nat
    BY TopFrame DEF IInv, Positions
  <2>3. CASE d = 0
    BY <2>1, <2>2, <2>3, GotoStep
  <2>4. CASE d # 0
    BY <2>1, <2>2, <2>4, GotoStep
  <2> QED
    BY <2>3, <2>4
<1> QED
  BY <1>1, <1>2

LEMMA BeforeSkipped ==
  ASSUME IInv, NEW place \in {"tag", "skip", "skipvarint", "skiplength"}, LastByteOf(place)
  PROVE  start < End /\ Value \in Nat /\ pos + 1 <= End
<1>1. Value \in Nat
  BY ValueIsNat DEF LastByteOf
<1>2. start < End
  BY DEF LastByteOf, IInv, Within
<1>3. pos + 1 <= End
  BY TopFrame DEF LastByteOf, HasByte, IInv, Positions
<1> QED
  BY <1>1, <1>2, <1>3

LEMMA Step == ASSUME IInv, [Next]_vars PROVE IInv'
<1> USE DEF IInv
<1>1. CASE NextByte
  <2>1. Nested' /\ End' = End /\ Data' = Data
    BY <1>1, SameStack DEF NextByte
  <2>2. Value \in Nat /\ weight * 128 \in Nat /\ pos + 1 <= End /\ pos + 1 \in Nat
    BY <1>1, ValueIsNat, TopFrame DEF NextByte, HasByte, Positions
  <2>3. Positions'
    BY <1>1, <2>1, <2>2 DEF NextByte, Positions
  <2>4. Within'
    BY <1>1, <2>1, <2>2 DEF NextByte, Within, InVarint
  <2> QED
    BY <2>1, <2>3, <2>4
<1>2. CASE BrokenVarint
  BY <1>2, FailStep DEF BrokenVarint
<1>3. CASE NextField
  <2>1. End \in Nat /\ pos \in Nat
    BY TopFrame DEF Positions
  <2> QED
    BY <1>3, <2>1, GotoStep DEF NextField, Positions
<1>4. CASE RefuseTag
  BY <1>4, FailStep DEF RefuseTag
<1>5. CASE ReadTag
  <2>1. pos + 1 <= End /\ pos + 1 \in Nat
    BY <1>5, BeforeSkipped DEF ReadTag, Positions
  <2> QED
    BY <1>5, <2>1, GotoStep DEF ReadTag, Positions
<1>6. CASE UnknownField
  <2>1. start < End
    BY <1>6, BeforeSkipped DEF UnknownField
  <2> QED
    BY <1>6, <2>1, GotoStep DEF UnknownField, Positions
<1>7. CASE RefuseLength
  BY <1>7, FailStep DEF RefuseLength
<1>8. CASE ReadBytes
  <2> DEFINE n == Len(stack)
             v == Put(Top.kind, stack[n].msg, number, SubSeq(Data, pos + 2, pos + 1 + AsInt(Value)))
             post == pos + 1 + AsInt(Value)
  <2> HIDE DEF v
  <2>1. AsInt(Value) \in Int /\ AsInt(Value) >= 0 /\ post <= End /\ post \in Nat
    <3>1. Value \in Nat
      BY <1>8, ValueIsNat DEF ReadBytes, LastByteOf
    <3> QED
      BY <1>8, <3>1, IntIsInt DEF ReadBytes, Fits, Positions
  <2> DEFINE e == WithMsg(stack[n], v)
  <2>2. stack' = [stack EXCEPT ![n] = e]
    BY <1>8 DEF ReadBytes, WithMsg, v
  <2>3. PICK S : stack \in Seq(S)
    BY DEF Nested
  <2>4. /\ \E T : stack' \in Seq(T)
        /\ Len(stack') = n
        /\ \A j \in 1 .. n : IsFrame(stack'[j]) /\ stack'[j].end = stack[j].end
    <3>1. n \in 1 .. Len(stack)
      BY TopFrame
    <3>2. IsFrame(e) /\ e.end = stack[n].end
      BY <3>1, WithMsgKeepsEnd DEF Nested
    <3>3. \A j \in 1 .. Len(stack) : IsFrame(stack[j])
      BY DEF Nested
    <3>4. Len(stack) = n
      OBVIOUS
    <3> HIDE DEF e, n
    <3>5. /\ [stack EXCEPT ![n] = e] \in Seq(S \cup {e})
          /\ Len([stack EXCEPT ![n] = e]) = Len(stack)
          /\ \A j \in 1 .. Len(stack) :
               /\ IsFrame([stack EXCEPT ![n] = e][j])
               /\ [stack EXCEPT ![n] = e][j].end = stack[j].end
      BY <2>3, <3>1, <3>2, <3>3, PutKeepsEnds
    <3> QED
      BY <2>2, <3>4, <3>5
  <2>5. Data' = Data /\ End' = End
    BY <1>8, <2>4, TopFrame DEF ReadBytes, Data, End, Top
  <2>6. Nested'
    BY <2>4, <2>5, TopFrame, StillNested
  <2>7. Positions' /\ Within'
    BY <1>8, <2>1, <2>5 DEF ReadBytes, Goto, Positions, Within, Places
  <2> QED
    BY <2>6, <2>7
<1>9. CASE ReadMessage
  <2> DEFINE n == Len(stack)
             post == pos + 1 + AsInt(Value)
             f == Frame(Entry.type, number, post, ReadInto(Entry, Top.msg))
  <2>1. AsInt(Value) \in Int /\ AsInt(Value) >= 0 /\ post <= End /\ post \in Nat /\ pos + 1 <= post
    <3>1. Value \in Nat
      BY <1>9, ValueIsNat DEF ReadMessage, LastByteOf
    <3>2. AsInt(Value) \in Int
      BY <3>1, IntIsInt
    <3>3. Fits(AsInt(Value))
      BY <1>9 DEF ReadMessage
    <3> QED
      BY <3>2, <3>3 DEF Fits, Positions
  <2>2. stack' = Append(stack, f)
    BY <1>9 DEF ReadMessage
  <2>3. IsFrame(f) /\ f.end = post
    <3>1. IsFrame(f)
      BY DEF IsFrame
    <3>2. f.end = post
      BY DEF Frame
    <3> QED
      BY <3>1, <3>2
  <2> HIDE DEF f
  <2>4. PICK S : stack \in Seq(S)
    BY DEF Nested
  <2>5. stack \in Seq(S \cup {f})
    BY <2>4
  <2>6. /\ stack' \in Seq(S \cup {f}) /\ Len(stack') = n + 1
        /\ \A j \in 1 .. n : stack'[j] = stack[j]
        /\ stack'[n + 1] = f
    BY <2>2, <2>5, AppendProperties
  <2>7. Data' = Data /\ End' = post
    BY <1>9, <2>3, <2>6 DEF ReadMessage, Data, End, Top
  <2>8. post <= Len(Data) /\ post <= stack[n].end
    BY <2>1, TopFrame DEF End, Top, Positions
  <2>9. Nested'
    <3>1. n \in Nat /\ n >= 1
      BY TopFrame
    <3>2. ASSUME NEW i \in 1 .. n + 1
          PROVE  /\ IsFrame(stack'[i]) /\ stack'[i].end \in Nat /\ stack'[i].end <= Len(Data)
                 /\ i > 1 => stack'[i].end <= stack'[i - 1].end
      <4>1. CASE i = n + 1
        BY <2>1, <2>3, <2>6, <2>8, <3>1, <4>1
      <4>2. CASE i # n + 1
        <5>1. i \in 1 .. n /\ (i > 1 => i - 1 \in 1 .. n)
          BY <3>1, <4>2
        <5> QED
          BY <2>6, <5>1 DEF Nested
      <4> QED
        BY <4>1, <4>2
    <3>3. /\ \E T : stack' \in Seq(T)
          /\ Len(stack') >= 1
      BY <2>6, <3>1
    <3>4. Len(stack') = n + 1 /\ Data' = Data
      BY <2>6, <2>7
    <3> QED
      BY <3>2, <3>3, <3>4 DEF Nested
  <2>10. Positions' /\ Within'
    BY <1>9, <2>1, <2>7 DEF ReadMessage, Goto, Positions, Within, Places
  <2> QED
    BY <2>9, <2>10
<1>10. CASE Return
  <2> DEFINE n == Len(stack) - 1
             s == SubSeq(stack, 1, n)
             v == Put(stack[n].kind, s[n].msg, Top.field, Top.msg)
  <2>1. n \in Nat /\ n >= 1 /\ Len(stack) \in Nat
    BY <1>10, TopFrame DEF Return
  <2>2. PICK S : stack \in Seq(S)
    BY DEF Nested
  <2>3. s \in Seq(S) /\ Len(s) = n /\ \A j \in 1 .. n : s[j] = stack[j]
    BY <2>1, <2>2, SubSeqProperties
  <2> DEFINE e == WithMsg(s[n], v)
  <2>4. stack' = [s EXCEPT ![n] = e]
    BY <1>10 DEF Return, WithMsg
  <2> HIDE DEF v, s
  <2>5. \A j \in 1 .. Len(s) : IsFrame(s[j])
    BY <2>1, <2>3 DEF Nested
  <2>6. /\ \E T : stack' \in Seq(T)
        /\ Len(stack') = n
        /\ \A j \in 1 .. n : IsFrame(stack'[j]) /\ stack'[j].end = s[j].end
    <3>1. n \in 1 .. Len(s)
      BY <2>1, <2>3
    <3>2. IsFrame(e) /\ e.end = s[n].end
      BY <2>5, <3>1, WithMsgKeepsEnd
    <3> HIDE DEF e, n
    <3>3. /\ [s EXCEPT ![n] = e] \in Seq(S \cup {e})
          /\ Len([s EXCEPT ![n] = e]) = Len(s)
          /\ \A j \in 1 .. Len(s) :
               /\ IsFrame([s EXCEPT ![n] = e][j])
               /\ [s EXCEPT ![n] = e][j].end = s[j].end
      BY <2>3, <2>5, <3>1, <3>2, PutKeepsEnds
    <3> QED
      BY <2>3, <2>4, <3>3
  <2>7. Data' = Data /\ End' = stack[n].end
    <3>1. n \in 1 .. n
      BY <2>1
    <3> QED
      BY <1>10, <2>3, <2>6, <3>1 DEF Return, Data, End, Top
  <2>8. End <= stack[n].end /\ End \in Nat
    BY <2>1, TopFrame DEF Nested, End, Top
  <2>9. Nested'
    <3>1. \A j \in 1 .. n : IsFrame(stack'[j]) /\ stack'[j].end = stack[j].end
      BY <2>3, <2>6
    <3> QED
      BY <2>1, <2>6, <2>7, <3>1, TopFrame, StillNested
  <2>10. Positions' /\ Within'
    BY <1>10, <2>7, <2>8 DEF Return, Goto, Positions, Within, Places
  <2> QED
    BY <2>9, <2>10
<1>11. CASE Finish
  BY <1>11, GotoStep DEF Finish, Positions
<1>12. CASE SkipFixed
  BY <1>12, BeforeSkipped, SkipStep DEF SkipFixed, Positions
<1>13. CASE SkipGroup
  BY <1>13, BeforeSkipped, GotoStep DEF SkipGroup, Positions
<1>14. CASE SkipGroupEnd
  BY <1>14, BeforeSkipped, SkipStep DEF SkipGroupEnd, Positions
<1>15. CASE SkipValue
  <2>1. start < End
    BY <1>15, BeforeSkipped DEF SkipValue
  <2> QED
    BY <1>15, <2>1, GotoStep DEF SkipValue, Positions
<1>16. CASE RefuseSkip
  BY <1>16, FailStep DEF RefuseSkip
<1>17. CASE SkipVarint
  BY <1>17, BeforeSkipped, SkipStep DEF SkipVarint, Positions
<1>18. CASE SkipLength
  <2>1. start < End /\ Value \in Nat
    BY <1>18, BeforeSkipped DEF SkipLength
  <2>2. AsInt(Value) \in Int
    BY <2>1, IntIsInt
  <2>3. CASE AsInt(Value) < 0
    BY <1>18, <2>3, FailStep DEF SkipLength
  <2>4. CASE AsInt(Value) >= 0
    <3>1. pos + 1 + AsInt(Value) \in Nat /\ SkipTo(pos + 1 + AsInt(Value), depth)
      BY <1>18, <2>2, <2>4 DEF SkipLength, Positions
    <3> QED
      BY <2>1, <3>1, SkipStep DEF Positions
  <2> QED
    BY <2>2, <2>3, <2>4
<1>19. CASE UNCHANGED vars
  BY <1>19, SameStack DEF vars, Positions, Within
<1> QED
  BY <1>1, <1>2, <1>3, <1>4, <1>5, <1>6, <1>7, <1>8, <1>9, <1>10, <1>11, <1>12, <1>13,
     <1>14, <1>15, <1>16, <1>17, <1>18, <1>19 DEF Next

LEMMA Start == ASSUME Init PROVE IInv
<1>1. PICK kind \in Kinds :
        /\ input \in Inputs(kind)
        /\ stack = <<Frame(kind, 0, Len(input.bytes), Empty(kind))>>
  BY DEF Init
<1>2. input.bytes \in Seq(Byte)
  BY <1>1, CodecAssumption DEF CodecAssumption
<1> DEFINE f == Frame(kind, 0, Len(input.bytes), Empty(kind))
<1>3. IsFrame(f) /\ f.end = Len(Data)
  <2>1. IsFrame(f)
    BY DEF IsFrame
  <2>2. f.end = Len(Data)
    BY DEF Frame, Data
  <2> QED
    BY <2>1, <2>2
<1> HIDE DEF f
<1>4. stack = <<f>>
  BY <1>1 DEF f
<1>5. stack \in Seq({f}) /\ Len(stack) = 1 /\ stack[1] = f
  BY <1>4
<1>6. Len(Data) \in Nat
  BY <1>2 DEF Data
<1>7. Nested
  BY <1>3, <1>5, <1>6 DEF Nested
<1>8. Positions
  <2>1. \A i \in 1 .. Len(Data) : Data[i] \in Nat
    <3>1. \A i \in 1 .. Len(input.bytes) : input.bytes[i] \in Byte
      BY <1>2
    <3>2. \A b \in Byte : b \in Nat
      BY DEF Byte
    <3>3. Data = input.bytes
      BY DEF Data
    <3> QED
      BY <3>1, <3>2, <3>3
  <2>2. \E S : Data \in Seq(S)
    BY <1>2 DEF Data
  <2> QED
    BY <2>1, <2>2 DEF Init, Positions, Places
<1>9. Within
  BY <1>3, <1>5, <1>6 DEF Init, Within, End, Top
<1> QED
  BY <1>7, <1>8, <1>9 DEF IInv

LEMMA IInvInBounds == ASSUME IInv PROVE InBounds
BY TopFrame DEF IInv, Nested, Positions, Within, InBounds

(* No read and no slice of the codecs is out of range: embedded messages   *)
(* lie within each other and within the data, and skipCodec is not called  *)
(* on nothing, for every table of messages, every width and all data.      *)
THEOREM CodecInBounds == Spec => []InBounds
<1>1. Spec => []IInv
  BY Start, Step, PTL DEF Spec
<1> QED
  BY <1>1, IInvInBounds, PTL
-----------------------------------------------------------------------------
(* Sizes.  First, loops in general, and the recursion over the digits of a *)
(* number to the base 128.                                                 *)

(* Induction up to N, for a set instead of a predicate. *)
LEMMA UpTo ==
  ASSUME NEW N \in Nat, NEW S, 0 \in S,
         \A n \in 0 .. N - 1 : n \in S => n + 1 \in S
  PROVE  0 .. N \subseteq S
<1> DEFINE bad == (0 .. N) \ S
<1> SUFFICES ASSUME bad # {} PROVE FALSE
  OBVIOUS
<1>1. bad \subseteq Nat
  OBVIOUS
<1>2. PICK m \in bad : \A j \in bad : ~(<<j, m>> \in OpToRel(<, Nat))
  BY <1>1, NatLessThanWellFounded, WFMin
<1>3. m \in 0 .. N /\ m \notin S /\ \A j \in bad : ~(j < m)
  BY <1>1, <1>2 DEF OpToRel
<1>4. m - 1 \in 0 .. N - 1 /\ m - 1 \notin bad
  BY <1>3
<1>5. QED
  BY <1>3, <1>4

(* f records a loop over 1 .. N that starts at a and goes from x to        *)
(* step[n][x].                                                             *)
IsLoop(f, N, S, a, step) ==
  /\ f \in [0 .. N -> S]
  /\ f = [n \in 0 .. N |-> IF n = 0 THEN a ELSE step[n][f[n - 1]]]

LEMMA LoopExists ==
  ASSUME NEW N \in Nat, NEW S, NEW a \in S, NEW step \in [1 .. N -> [S -> S]]
  PROVE  \E f : IsLoop(f, N, S, a, step)
<1> DEFINE Loop(f, n) == IsLoop(f, n, S, a, step)
           Reached == {n \in 0 .. N : \E f : Loop(f, n)}
<1>1. 0 \in Reached
  <2> DEFINE f == [i \in 0 .. 0 |-> a]
  <2>1. Loop(f, 0)
    BY DEF IsLoop
  <2> HIDE DEF Loop, f
  <2>2. QED
    BY <2>1
<1>2. ASSUME NEW n \in 0 .. N - 1, n \in Reached PROVE n + 1 \in Reached
  <2>1. PICK f : Loop(f, n)
    BY <1>2
  <2> USE DEF IsLoop
  <2> DEFINE g == [i \in 0 .. n + 1 |-> IF i = n + 1 THEN step[n + 1][f[n]] ELSE f[i]]
             h == [i \in 0 .. n + 1 |-> IF i = 0 THEN a ELSE step[i][g[i - 1]]]
  <2>2. f[n] \in S /\ n + 1 \in 1 .. N
    BY <2>1
  <2>3. step[n + 1] \in [S -> S]
    BY <2>2
  <2>4. step[n + 1][f[n]] \in S
    BY <2>2, <2>3
  <2>5. g \in [0 .. n + 1 -> S]
    BY <2>1, <2>4
  <2>6. ASSUME NEW i \in 0 .. n + 1 PROVE g[i] = h[i]
    <3>1. CASE i = n + 1
      <4>1. g[i - 1] = f[n]
        BY <3>1
      <4>2. QED
        BY <3>1, <4>1
    <3>2. CASE i # n + 1
      <4>1. i \in 0 .. n
        BY <3>2
      <4>2. g[i] = f[i] /\ (i # 0 => g[i - 1] = f[i - 1])
        BY <4>1
      <4>3. f[i] = IF i = 0 THEN a ELSE step[i][f[i - 1]]
        BY <2>1, <4>1
      <4>4. QED
        BY <4>2, <4>3
    <3>3. QED
      BY <3>1, <3>2
  <2>7. g = h
    BY <2>6
  <2> HIDE DEF g
  <2>8. Loop(g, n + 1)
    BY <2>5, <2>7
  <2> HIDE DEF Loop
  <2>9. QED
    BY <2>8
<1>3. N \in Reached
  <2> HIDE DEF Reached
  <2>1. 0 .. N \subseteq Reached
    BY <1>1, <1>2, UpTo
  <2>2. QED
    BY <2>1
<1>4. QED
  BY <1>3

Small == 0 .. 127

IsTable(t, N, S, small, step) ==
  /\ t \in [0 .. N -> S]
  /\ \A v \in 0 .. N : t[v] = IF v < 128 THEN small[v] ELSE step[v][t[v \div 128]]

LEMMA Quotient ==
  ASSUME NEW v \in Nat, v >= 128
  PROVE  v \div 128 \in Nat /\ v \div 128 < v /\ v % 128 \in 0 .. 127
OBVIOUS

LEMMA OneTable ==
  ASSUME NEW N \in Nat, NEW M \in Nat, M <= N, NEW S, NEW small, NEW step, NEW t, NEW u,
         IsTable(t, N, S, small, step), IsTable(u, M, S, small, step)
  PROVE  \A v \in 0 .. M : t[v] = u[v]
<1> DEFINE Same == {n \in 0 .. M : \A v \in 0 .. n : t[v] = u[v]}
<1>1. 0 \in Same
  BY DEF IsTable
<1>2. ASSUME NEW n \in 0 .. M - 1, n \in Same PROVE n + 1 \in Same
  <2>1. CASE n + 1 < 128
    BY <1>2, <2>1 DEF IsTable
  <2>2. CASE n + 1 >= 128
    <3> DEFINE q == (n + 1) \div 128
    <3>1. q \in 0 .. n
      BY <2>2, Quotient
    <3> HIDE DEF q
    <3>2. t[q] = u[q]
      BY <1>2, <3>1
    <3>3. t[n + 1] = step[n + 1][t[q]] /\ u[n + 1] = step[n + 1][u[q]]
      BY <2>2 DEF IsTable, q
    <3>4. QED
      BY <1>2, <3>2, <3>3
  <2>3. QED
    BY <2>1, <2>2
<1> HIDE DEF Same
<1>3. 0 .. M \subseteq Same
  BY <1>1, <1>2, UpTo
<1>4. QED
  BY <1>3 DEF Same

LEMMA TableExists ==
  ASSUME NEW N \in Nat, NEW S, NEW small \in [Small -> S], NEW step \in [Nat -> [S -> S]]
  PROVE  \E t : IsTable(t, N, S, small, step)
<1> DEFINE Reached == {n \in 0 .. N : \E t : IsTable(t, n, S, small, step)}
<1>1. 0 \in Reached
  <2> DEFINE t == [v \in 0 .. 0 |-> small[0]]
  <2>1. IsTable(t, 0, S, small, step)
    BY DEF IsTable, Small
  <2>2. QED
    BY <2>1
<1>2. ASSUME NEW n \in 0 .. N - 1, n \in Reached PROVE n + 1 \in Reached
  <2>1. PICK t : IsTable(t, n, S, small, step)
    BY <1>2
  <2> DEFINE q == (n + 1) \div 128
             x == IF n + 1 < 128 THEN small[n + 1] ELSE step[n + 1][t[q]]
             u == [v \in 0 .. n + 1 |-> IF v = n + 1 THEN x ELSE t[v]]
  <2>2. n + 1 >= 128 => q \in 0 .. n
    BY Quotient
  <2> HIDE DEF q
  <2>3. x \in S
    <3>1. CASE n + 1 < 128
      <4>1. n + 1 \in Small
        BY <3>1 DEF Small
      <4>2. QED
        BY <3>1, <4>1
    <3>2. CASE n + 1 >= 128
      <4>1. t[q] \in S /\ n + 1 \in Nat
        BY <2>1, <2>2, <3>2 DEF IsTable
      <4>2. QED
        BY <3>2, <4>1
    <3>3. QED
      BY <3>1, <3>2
  <2> HIDE DEF x
  <2>4. u \in [0 .. n + 1 -> S]
    BY <2>1, <2>3 DEF IsTable
  <2>5. ASSUME NEW v \in 0 .. n + 1
        PROVE  u[v] = IF v < 128 THEN small[v] ELSE step[v][u[v \div 128]]
    <3>1. CASE v = n + 1
      BY <2>2, <3>1 DEF x, q
    <3>2. CASE v # n + 1
      <4>1. v \in 0 .. n /\ (v >= 128 => v \div 128 \in 0 .. n)
        <5>1. v \in 0 .. n
          BY <3>2
        <5>2. QED
          BY <5>1, Quotient
      <4>2. u[v] = t[v] /\ (v >= 128 => u[v \div 128] = t[v \div 128])
        BY <4>1
      <4>3. QED
        BY <2>1, <4>1, <4>2 DEF IsTable
    <3>3. QED
      BY <3>1, <3>2
  <2>6. IsTable(u, n + 1, S, small, step)
    BY <2>4, <2>5 DEF IsTable
  <2> HIDE DEF u
  <2>7. QED
    BY <2>6
<1> HIDE DEF Reached
<1>3. 0 .. N \subseteq Reached
  BY <1>1, <1>2, UpTo
<1>4. QED
  BY <1>3 DEF Reached

IsDigits(f, S, small, step) ==
  /\ f \in [Nat -> S]
  /\ \A v \in Nat : f[v] = IF v < 128 THEN small[v] ELSE step[v][f[v \div 128]]

LEMMA DigitsExist ==
  ASSUME NEW S, NEW small \in [Small -> S], NEW step \in [Nat -> [S -> S]]
  PROVE  \E f : IsDigits(f, S, small, step)
<1> DEFINE table[N \in Nat] == CHOOSE t : IsTable(t, N, S, small, step)
           f == [v \in Nat |-> table[v][v]]
           g == [v \in Nat |-> IF v < 128 THEN small[v] ELSE step[v][f[v \div 128]]]
<1>1. \A N \in Nat : IsTable(table[N], N, S, small, step)
  BY TableExists
<1> HIDE DEF table
<1>2. f \in [Nat -> S]
  BY <1>1 DEF IsTable
<1>3. ASSUME NEW v \in Nat PROVE f[v] = g[v]
  <2>1. IsTable(table[v], v, S, small, step) /\ f[v] = table[v][v] /\ v \in 0 .. v
    BY <1>1
  <2>2. CASE v < 128
    BY <2>1, <2>2 DEF IsTable
  <2>3. CASE v >= 128
    <3> DEFINE q == v \div 128
    <3>1. q \in Nat /\ q <= v /\ q \in 0 .. q
      BY <2>3, Quotient
    <3> HIDE DEF q
    <3>2. table[v][q] = table[q][q]
      BY <1>1, <3>1, OneTable
    <3>3. table[v][v] = step[v][table[v][q]]
      BY <2>1, <2>3 DEF IsTable, q
    <3>4. f[q] = table[q][q]
      BY <3>1
    <3>5. g[v] = step[v][f[q]]
      BY <2>3 DEF q
    <3>6. QED
      BY <2>1, <3>2, <3>3, <3>4, <3>5
  <2>4. QED
    BY <2>2, <2>3
<1> HIDE DEF f
<1>4. \A v \in Nat : f[v] = IF v < 128 THEN small[v] ELSE step[v][f[v \div 128]]
  BY <1>3
<1>5. QED
  BY <1>2, <1>4 DEF IsDigits

LEMMA VarintUnfolds ==
  \A v \in Nat : EncodeVarint[v] =
    IF v < 128 THEN <<v>> ELSE <<128 + (v % 128)>> \o EncodeVarint[v \div 128]
<1> DEFINE small == [v \in Small |-> <<v>>]
           step == [v \in Nat |-> [b \in Seq(Nat) |-> <<128 + (v % 128)>> \o b]]
           IsVarint(f) == f = [v \in Nat |->
             IF v < 128 THEN <<v>> ELSE <<128 + (v % 128)>> \o f[v \div 128]]
<1>1. small \in [Small -> Seq(Nat)] /\ \A v \in Nat : v < 128 => small[v] = <<v>>
  <2>1. \A v \in Small : v \in Nat /\ <<v>> \in Seq(Nat)
    BY DEF Small
  <2>2. \A v \in Nat : v < 128 => v \in Small
    BY DEF Small
  <2>3. QED
    BY <2>1, <2>2
<1>2. /\ step \in [Nat -> [Seq(Nat) -> Seq(Nat)]]
      /\ \A v \in Nat, b \in Seq(Nat) : step[v][b] = <<128 + (v % 128)>> \o b
  <2>1. ASSUME NEW v \in Nat, NEW b \in Seq(Nat) PROVE <<128 + (v % 128)>> \o b \in Seq(Nat)
    <3>1. 128 + (v % 128) \in Nat
      OBVIOUS
    <3>2. QED
      BY <3>1
  <2>2. QED
    BY <2>1
<1> HIDE DEF small, step
<1>3. PICK f : IsDigits(f, Seq(Nat), small, step)
  BY <1>1, <1>2, DigitsExist
<1>4. IsVarint(f)
  <2>1. ASSUME NEW v \in Nat
        PROVE  f[v] = IF v < 128 THEN <<v>> ELSE <<128 + (v % 128)>> \o f[v \div 128]
    <3>1. f[v] = IF v < 128 THEN small[v] ELSE step[v][f[v \div 128]]
      BY <1>3 DEF IsDigits
    <3>2. CASE v < 128
      BY <1>1, <3>1, <3>2
    <3>3. CASE v >= 128
      <4> DEFINE q == v \div 128
      <4>1. q \in Nat
        BY <3>3, Quotient
      <4> HIDE DEF q
      <4>2. f[q] \in Seq(Nat)
        BY <1>3, <4>1 DEF IsDigits
      <4>3. step[v][f[q]] = <<128 + (v % 128)>> \o f[q]
        <5>1. \A w \in Nat, b \in Seq(Nat) : step[w][b] = <<128 + (w % 128)>> \o b
          BY <1>2
        <5>2. QED
          BY <4>2, <5>1, Zenon
      <4>4. f[v] = step[v][f[q]]
        BY <3>1, <3>3 DEF q
      <4>5. f[v] = <<128 + (v % 128)>> \o f[q]
        BY <4>3, <4>4
      <4>6. QED
        BY <3>3, <4>5 DEF q
    <3>4. QED
      BY <3>2, <3>3
  <2>2. f = [v \in Nat |-> f[v]]
    BY <1>3 DEF IsDigits
  <2>3. QED
    BY <2>1, <2>2
<1>5. IsVarint(EncodeVarint)
  <2>1. EncodeVarint = CHOOSE g : IsVarint(g)
    BY DEF EncodeVarint
  <2> HIDE DEF IsVarint
  <2>2. QED
    BY <1>4, <2>1
<1>6. QED
  BY <1>5

LEMMA SovUnfolds ==
  \A v \in Nat : Sov[v] = IF v < 128 THEN 1 ELSE 1 + Sov[v \div 128]
<1> DEFINE small == [v \in Small |-> 1]
           step == [v \in Nat |-> [k \in Nat |-> 1 + k]]
           IsSov(f) == f = [v \in Nat |-> IF v < 128 THEN 1 ELSE 1 + f[v \div 128]]
<1>1. small \in [Small -> Nat] /\ \A v \in Nat : v < 128 => small[v] = 1
  BY DEF Small
<1>2. step \in [Nat -> [Nat -> Nat]] /\ \A v \in Nat, k \in Nat : step[v][k] = 1 + k
  OBVIOUS
<1> HIDE DEF small, step
<1>3. PICK f : IsDigits(f, Nat, small, step)
  BY <1>1, <1>2, DigitsExist
<1>4. IsSov(f)
  <2>1. ASSUME NEW v \in Nat
        PROVE  f[v] = IF v < 128 THEN 1 ELSE 1 + f[v \div 128]
    <3>1. f[v] = IF v < 128 THEN small[v] ELSE step[v][f[v \div 128]]
      BY <1>3 DEF IsDigits
    <3>2. CASE v < 128
      BY <1>1, <3>1, <3>2
    <3>3. CASE v >= 128
      <4>1. f[v \div 128] \in Nat
        BY <1>3, <3>3, Quotient DEF IsDigits
      <4>2. step[v][f[v \div 128]] = 1 + f[v \div 128]
        BY <1>2, <4>1
      <4>3. QED
        BY <3>1, <3>3, <4>2
    <3>4. QED
      BY <3>2, <3>3
  <2>2. f = [v \in Nat |-> f[v]]
    BY <1>3 DEF IsDigits
  <2>3. QED
    BY <2>1, <2>2
<1>5. IsSov(Sov)
  <2>1. Sov = CHOOSE g : IsSov(g)
    BY DEF Sov
  <2> HIDE DEF IsSov
  <2>2. QED
    BY <1>4, <2>1
<1>6. QED
  BY <1>5

(* The size a codec computes for what it writes. *)
Exact(bytes, size) == bytes \in Seq(Nat) /\ size = Len(bytes)

LEMMA ExactConcat ==
  ASSUME NEW b, NEW s, NEW c, NEW t, Exact(b, s), Exact(c, t)
  PROVE  Exact(b \o c, s + t)
BY DEF Exact

LEMMA VarintIsExact == \A v \in Nat : Exact(EncodeVarint[v], Sov[v])
<1> SUFFICES ASSUME NEW N \in Nat PROVE Exact(EncodeVarint[N], Sov[N])
  OBVIOUS
<1> DEFINE Done == {n \in 0 .. N : \A v \in 0 .. n : Exact(EncodeVarint[v], Sov[v])}
<1>1. ASSUME NEW v \in Nat, v < 128 PROVE Exact(EncodeVarint[v], Sov[v])
  <2>1. EncodeVarint[v] = <<v>>
    BY <1>1, VarintUnfolds
  <2>2. Sov[v] = 1
    BY <1>1, SovUnfolds
  <2>3. QED
    BY <2>1, <2>2 DEF Exact
<1>2. 0 \in Done
  BY <1>1
<1>3. ASSUME NEW n \in 0 .. N - 1, n \in Done PROVE n + 1 \in Done
  <2> DEFINE k == n + 1
             q == k \div 128
  <2>1. Exact(EncodeVarint[k], Sov[k])
    <3>1. CASE k < 128
      BY <1>1, <3>1
    <3>2. CASE k >= 128
      <4>1. q \in 0 .. n /\ 128 + (k % 128) \in Nat
        BY <3>2, Quotient
      <4>2. EncodeVarint[k] = <<128 + (k % 128)>> \o EncodeVarint[q] /\ Sov[k] = 1 + Sov[q]
        <5>1. k \in Nat /\ ~(k < 128)
          BY <3>2
        <5> HIDE DEF k
        <5>2. QED
          BY <5>1, VarintUnfolds, SovUnfolds
      <4>3. Exact(<<128 + (k % 128)>>, 1)
        BY <4>1 DEF Exact
      <4>4. Exact(EncodeVarint[q], Sov[q])
        BY <1>3, <4>1
      <4> HIDE DEF q, k
      <4>5. QED
        BY <4>2, <4>3, <4>4, ExactConcat
    <3>3. QED
      BY <3>1, <3>2
  <2> HIDE DEF k
  <2>2. QED
    BY <1>3, <2>1 DEF k
<1> HIDE DEF Done
<1>4. 0 .. N \subseteq Done
  BY <1>2, <1>3, UpTo
<1>5. QED
  BY <1>4 DEF Done

LEMMA TotalIsLoop ==
  ASSUME NEW k \in Nat, NEW sizes \in [1 .. k -> Nat]
  PROVE  \E sum \in [0 .. k -> Nat] :
           /\ Total(sizes) = sum[k] /\ sum[0] = 0
           /\ \A i \in 1 .. k : sum[i] = sum[i - 1] + sizes[i]
<1> DEFINE step == [i \in 1 .. k |-> [t \in Nat |-> t + sizes[i]]]
           IsSum(f) == f = [i \in 0 .. k |-> IF i = 0 THEN 0 ELSE f[i - 1] + sizes[i]]
<1>1. step \in [1 .. k -> [Nat -> Nat]] /\ \A i \in 1 .. k, t \in Nat : step[i][t] = t + sizes[i]
  OBVIOUS
<1> HIDE DEF step
<1>2. PICK f : IsLoop(f, k, Nat, 0, step)
  BY <1>1, LoopExists
<1>3. f \in [0 .. k -> Nat] /\ IsSum(f)
  <2>1. ASSUME NEW i \in 0 .. k PROVE f[i] = IF i = 0 THEN 0 ELSE f[i - 1] + sizes[i]
    <3>1. CASE i = 0
      BY <1>2, <3>1 DEF IsLoop
    <3>2. CASE i # 0
      <4>1. i \in 1 .. k /\ i - 1 \in 0 .. k
        BY <3>2
      <4>2. f[i] = step[i][f[i - 1]] /\ f[i - 1] \in Nat
        BY <1>2, <3>2, <4>1 DEF IsLoop
      <4>3. QED
        BY <1>1, <3>2, <4>1, <4>2
    <3>3. QED
      BY <3>1, <3>2
  <2>2. f \in [0 .. k -> Nat]
    BY <1>2 DEF IsLoop
  <2>3. f = [i \in 0 .. k |-> f[i]]
    BY <2>2
  <2>4. QED
    BY <2>1, <2>2, <2>3
<1>4. Len(sizes) = k
  OBVIOUS
<1> DEFINE g == CHOOSE h : IsSum(h)
<1>5. Total(sizes) = g[k]
  BY <1>4 DEF Total
<1>6. IsSum(g)
  <2> HIDE DEF IsSum
  <2>1. QED
    BY <1>3
<1> HIDE DEF g
<1>7. \A i \in 0 .. k : g[i] = IF i = 0 THEN 0 ELSE g[i - 1] + sizes[i]
  BY <1>6
<1>8. DOMAIN g = 0 .. k /\ g = [i \in 0 .. k |-> g[i]]
  BY <1>6
<1> DEFINE Done == {i \in 0 .. k : g[i] \in Nat}
<1>9. 0 \in Done
  BY <1>7
<1>10. ASSUME NEW i \in 0 .. k - 1, i \in Done PROVE i + 1 \in Done
  <2>1. i + 1 \in 0 .. k /\ i + 1 # 0 /\ i + 1 - 1 = i /\ sizes[i + 1] \in Nat
    OBVIOUS
  <2>2. g[i + 1] = g[i] + sizes[i + 1]
    BY <1>7, <2>1
  <2>3. QED
    BY <1>10, <2>1, <2>2
<1> HIDE DEF Done
<1>11. 0 .. k \subseteq Done
  BY <1>9, <1>10, UpTo
<1>12. g \in [0 .. k -> Nat]
  BY <1>8, <1>11 DEF Done
<1>13. g[0] = 0 /\ \A i \in 1 .. k : g[i] = g[i - 1] + sizes[i]
  BY <1>7
<1>14. QED
  BY <1>5, <1>12, <1>13

LEMMA FlattenIsLoop ==
  ASSUME NEW k \in Nat \ {0}, NEW parts \in [1 .. k -> Seq(Nat)]
  PROVE  \E flat :
           /\ FlattenSeq(parts) = flat[k] /\ flat[1] = parts[1]
           /\ \A i \in 2 .. k : flat[i] = flat[i - 1] \o parts[i]
<1> DEFINE step == [i \in 1 .. k |-> [b \in Seq(Nat) |-> IF i = 1 THEN parts[i] ELSE b \o parts[i]]]
           IsFlat(f) == f = [i \in 1 .. k |-> IF i = 1 THEN parts[i] ELSE f[i - 1] \o parts[i]]
<1>1. /\ step \in [1 .. k -> [Seq(Nat) -> Seq(Nat)]]
      /\ \A i \in 1 .. k, b \in Seq(Nat) : step[i][b] = IF i = 1 THEN parts[i] ELSE b \o parts[i]
  <2>1. ASSUME NEW i \in 1 .. k, NEW b \in Seq(Nat) PROVE b \o parts[i] \in Seq(Nat)
    <3>1. parts[i] \in Seq(Nat)
      OBVIOUS
    <3>2. QED
      BY <3>1
  <2>2. QED
    BY <2>1
<1> HIDE DEF step
<1>2. PICK h : IsLoop(h, k, Seq(Nat), << >>, step)
  <2>1. << >> \in Seq(Nat) /\ k \in Nat
    OBVIOUS
  <2>2. QED
    BY <1>1, <2>1, LoopExists
<1> DEFINE f == [i \in 1 .. k |-> h[i]]
<1>3. IsFlat(f)
  <2>1. ASSUME NEW i \in 1 .. k PROVE f[i] = IF i = 1 THEN parts[i] ELSE f[i - 1] \o parts[i]
    <3>1. h[i] = step[i][h[i - 1]] /\ h[i - 1] \in Seq(Nat)
      <4>1. i \in 0 .. k /\ i # 0 /\ i - 1 \in 0 .. k
        OBVIOUS
      <4>2. QED
        BY <1>2, <4>1 DEF IsLoop
    <3>2. h[i] = IF i = 1 THEN parts[i] ELSE h[i - 1] \o parts[i]
      BY <1>1, <3>1
    <3>3. i # 1 => f[i - 1] = h[i - 1]
      OBVIOUS
    <3>4. QED
      BY <3>2, <3>3
  <2>2. f = [i \in 1 .. k |-> f[i]]
    OBVIOUS
  <2> HIDE DEF f
  <2>3. QED
    BY <2>1, <2>2
<1> HIDE DEF f
<1>4. Len(parts) = k
  OBVIOUS
<1> DEFINE g == CHOOSE e : IsFlat(e)
<1>5. FlattenSeq(parts) = g[k]
  BY <1>4 DEF FlattenSeq
<1>6. IsFlat(g)
  <2> HIDE DEF IsFlat
  <2>1. QED
    BY <1>3
<1> HIDE DEF g
<1>7. \A i \in 1 .. k : g[i] = IF i = 1 THEN parts[i] ELSE g[i - 1] \o parts[i]
  BY <1>6
<1>8. g[1] = parts[1] /\ \A i \in 2 .. k : g[i] = g[i - 1] \o parts[i]
  <2>1. 1 \in 1 .. k /\ \A i \in 2 .. k : i \in 1 .. k /\ i # 1
    OBVIOUS
  <2>2. QED
    BY <1>7, <2>1
<1>9. QED
  BY <1>5, <1>8

LEMMA ExactFlatten ==
  ASSUME NEW k \in Nat, NEW parts, NEW sizes, DOMAIN parts = 1 .. k, DOMAIN sizes = 1 .. k,
         parts = [i \in 1 .. k |-> parts[i]], sizes = [i \in 1 .. k |-> sizes[i]],
         \A i \in 1 .. k : Exact(parts[i], sizes[i])
  PROVE  Exact(FlattenSeq(parts), Total(sizes))
<1>1. parts \in [1 .. k -> Seq(Nat)] /\ sizes \in [1 .. k -> Nat]
  BY DEF Exact
<1>2. PICK sum \in [0 .. k -> Nat] :
        /\ Total(sizes) = sum[k] /\ sum[0] = 0
        /\ \A i \in 1 .. k : sum[i] = sum[i - 1] + sizes[i]
  BY <1>1, TotalIsLoop
<1>3. CASE k = 0
  <2>1. parts = << >>
    BY <1>1, <1>3
  <2>2. FlattenSeq(parts) = << >>
    BY <2>1 DEF FlattenSeq
  <2>3. QED
    BY <1>2, <1>3, <2>2 DEF Exact
<1>4. CASE k # 0
  <2>1. PICK flat :
          /\ FlattenSeq(parts) = flat[k] /\ flat[1] = parts[1]
          /\ \A i \in 2 .. k : flat[i] = flat[i - 1] \o parts[i]
    <3>1. k \in Nat \ {0}
      BY <1>4
    <3>2. QED
      BY <1>1, <3>1, FlattenIsLoop
  <2> DEFINE Done == {i \in 0 .. k : i > 0 => Exact(flat[i], sum[i])}
  <2>2. 0 \in Done
    OBVIOUS
  <2>3. ASSUME NEW i \in 0 .. k - 1, i \in Done PROVE i + 1 \in Done
    <3> DEFINE j == i + 1
    <3>1. j \in 1 .. k /\ j - 1 = i /\ sum[j] = sum[i] + sizes[j]
      BY <1>2
    <3>2. Exact(parts[j], sizes[j])
      BY <3>1
    <3>3. CASE i = 0
      <4>1. sum[j] = sizes[j] /\ flat[j] = parts[j]
        BY <1>2, <2>1, <3>1, <3>2, <3>3 DEF Exact
      <4>2. QED
        BY <3>1, <3>2, <4>1
    <3>4. CASE i # 0
      <4>1. flat[j] = flat[i] \o parts[j]
        <5>1. j \in 2 .. k
          BY <3>1, <3>4
        <5> HIDE DEF j
        <5>2. QED
          BY <2>1, <3>1, <5>1
      <4>2. Exact(flat[i], sum[i])
        BY <2>3, <3>4
      <4> HIDE DEF j
      <4>3. Exact(flat[j], sum[j])
        BY <3>1, <3>2, <4>1, <4>2, ExactConcat
      <4>4. QED
        BY <3>1, <4>3 DEF j
    <3>5. QED
      BY <3>3, <3>4
  <2> HIDE DEF Done
  <2>4. 0 .. k \subseteq Done
    BY <2>2, <2>3, UpTo
  <2>5. QED
    BY <1>2, <1>4, <2>1, <2>4 DEF Done
<1>5. QED
  BY <1>3, <1>4

(* The numbers whose tag is one byte or two. *)
Numbers == 1 .. 2047

LEMMA ExactTag == ASSUME NEW n \in Numbers PROVE Exact(Tag(n, 2), TagSize(n))
<1> DEFINE t == n * 8 + 2
<1>1. t \in Nat /\ (n < 16 => t < 128) /\ (n >= 16 => t >= 128 /\ t < 16384)
  BY DEF Numbers
<1> HIDE DEF t
<1>2. CASE n < 16
  <2>1. EncodeVarint[t] = <<t>>
    <3>1. t \in Nat /\ t < 128
      BY <1>1, <1>2
    <3>2. QED
      BY <3>1, VarintUnfolds
  <2>2. TagSize(n) = 1
    BY <1>2 DEF TagSize
  <2>3. QED
    BY <1>1, <2>1, <2>2 DEF Tag, Exact, t
<1>3. CASE n >= 16
  <2> DEFINE q == t \div 128
             r == 128 + (t % 128)
  <2>1. q \in Nat /\ q < 128 /\ r \in Nat
    BY <1>1, <1>3
  <2>2. EncodeVarint[t] = <<r>> \o EncodeVarint[q]
    <3>1. t \in Nat /\ ~(t < 128)
      BY <1>1, <1>3
    <3>2. QED
      BY <3>1, VarintUnfolds
  <2> HIDE DEF q, r
  <2>3. EncodeVarint[q] = <<q>>
    BY <2>1, VarintUnfolds
  <2>4. Exact(<<r>>, 1) /\ Exact(EncodeVarint[q], 1)
    BY <2>1, <2>3 DEF Exact
  <2>5. Exact(EncodeVarint[t], 1 + 1)
    BY <2>2, <2>4, ExactConcat
  <2>6. TagSize(n) = 2
    BY <1>3 DEF TagSize, Numbers
  <2>7. QED
    BY <2>5, <2>6 DEF Tag, t
<1>4. QED
  BY <1>2, <1>3 DEF Numbers

LEMMA ExactChunk ==
  ASSUME NEW n \in Numbers, NEW b, NEW s, Exact(b, s)
  PROVE  Exact(Chunk(n, s, b), ChunkSize(n, s))
<1>1. s \in Nat
  BY DEF Exact
<1>2. Exact(EncodeVarint[s], Sov[s])
  BY <1>1, VarintIsExact
<1>3. Exact(Tag(n, 2) \o EncodeVarint[s], TagSize(n) + Sov[s])
  BY <1>2, ExactTag, ExactConcat
<1>4. Exact((Tag(n, 2) \o EncodeVarint[s]) \o b, (TagSize(n) + Sov[s]) + s)
  BY <1>3, ExactConcat
<1>5. QED
  BY <1>4 DEF Chunk, ChunkSize

LEMMA ExactScalar ==
  ASSUME NEW n \in Numbers, NEW x \in Seq(Nat)
  PROVE  Exact(MarshalScalar(n, x), SizeScalar(n, x))
<1>1. Exact(x, Len(x)) /\ Exact(<< >>, 0)
  BY DEF Exact
<1>2. Exact(Chunk(n, Len(x), x), ChunkSize(n, Len(x)))
  BY <1>1, ExactChunk
<1>3. QED
  BY <1>1, <1>2 DEF MarshalScalar, SizeScalar

-----------------------------------------------------------------------------
(* The tables, and the messages they allow. *)

LEMMA FieldsAreTable ==
  ASSUME NEW kind
  PROVE  /\ DOMAIN FieldsOf(kind) = {f.n : f \in Table(kind)}
         /\ \A n \in DOMAIN FieldsOf(kind) : FieldsOf(kind)[n] \in Table(kind) /\ FieldsOf(kind)[n].n = n
<1>1. FieldsOf(kind) = Numbered(Table(kind))
  BY DEF FieldsOf, Fields, Table
<1>2. ASSUME NEW T
      PROVE  /\ DOMAIN Numbered(T) = {f.n : f \in T}
             /\ \A n \in DOMAIN Numbered(T) : Numbered(T)[n] \in T /\ Numbered(T)[n].n = n
  BY DEF Numbered
<1>3. QED
  BY <1>1, <1>2

KindNames == {"Tx", "ExecuteBatchMsg", "ExecuteBatchMsg_Union", "ProposalOptions",
  "ExecuteProposalBatchMsg", "ExecuteProposalBatchMsg_Union", "CronTask", "Role", "RoleBinding",
  "Principal", "NamedSignature", "Artifact", "CreateArtifactMsg", "DeleteArtifactMsg"}

LEMMA KindsAre == Kinds = KindNames
BY DEF Kinds, Tables, KindNames

LEMMA TablesAre ==
  /\ Table("Tx") = TxFields /\ Table("ExecuteBatchMsg") = BatchFields
  /\ Table("ExecuteBatchMsg_Union") = BatchUnionFields /\ Table("ProposalOptions") = OptionsFields
  /\ Table("ExecuteProposalBatchMsg") = OptionsBatchFields
  /\ Table("ExecuteProposalBatchMsg_Union") = OptionsUnionFields /\ Table("CronTask") = TaskFields
  /\ Table("Role") = RoleFields /\ Table("RoleBinding") = RoleBindingFields
  /\ Table("Principal") = PrincipalFields /\ Table("NamedSignature") = NamedSignatureFields
  /\ Table("Artifact") = ArtifactFields /\ Table("CreateArtifactMsg") = CreateArtifactFields
  /\ Table("DeleteArtifactMsg") = DeleteArtifactFields
BY KindsAre DEF Table, Tables, KindNames

(* What the generator sees to: small numbers, one type of value to a slot. *)
GoodTable(T) ==
  /\ \A f \in T :
       /\ f.n \in Numbers /\ f.rule \in {"replace", "merge", "append", "choose"}
       /\ f.rule = "replace" => f.type = "bytes"
       /\ f.rule = "merge" => f.type # "bytes" /\ f.type \notin Kinds
  /\ \A f, g \in T : f.slot = g.slot => f = g \/ (f.rule = "choose" /\ g.rule = "choose")

LEMMA GoodUnion ==
  ASSUME NEW T, NEW types, GoodTable(T), \A f \in T : f.slot # "sum",
         \A t \in types : t[1] \in Numbers
  PROVE  GoodTable(T \cup OneOf(types))
BY DEF GoodTable, OneOf

LEMMA TablesAreGood == ASSUME NEW kind PROVE GoodTable(Table(kind))
<1> USE DEF Scalar, Embedded, Repeated
<1>1. GoodTable({})
  BY DEF GoodTable
<1>2. ASSUME NEW types, \A t \in types : t[1] \in Numbers PROVE GoodTable(OneOf(types))
  <2>1. GoodTable({} \cup OneOf(types))
    BY <1>1, <1>2, GoodUnion
  <2>2. QED
    BY <2>1
<1>3. GoodTable(LibraryFields)
  BY DEF LibraryFields, GoodTable, Numbers
<1>4. GoodTable(TxFields)
  <2> DEFINE T == {Embedded(1, "fees", "cash.FeeInfo"), Repeated(2, "signatures", "sigs.StdSignature"),
                   Repeated(4, "multisig", "bytes")}
  <2>1. GoodTable(T) /\ \A f \in T : f.slot # "sum"
    BY KindsAre DEF GoodTable, Numbers, KindNames
  <2>2. \A t \in TxSum : t[1] \in Numbers
    BY DEF TxSum, Numbers
  <2>3. QED
    BY <2>1, <2>2, GoodUnion DEF TxFields
<1>5. GoodTable(BatchFields) /\ GoodTable(OptionsBatchFields)
  BY DEF BatchFields, OptionsBatchFields, GoodTable, Numbers
<1>6. GoodTable(BatchUnionFields)
  BY <1>2 DEF BatchUnionFields, Numbers
<1>7. GoodTable(OptionsFields)
  BY <1>2 DEF OptionsFields, Numbers
<1>8. GoodTable(OptionsUnionFields)
  BY <1>2 DEF OptionsUnionFields, Numbers
<1>9. GoodTable(TaskFields)
  <2> DEFINE T == {Repeated(1, "authenticators", "bytes")}
             types == {<<53, "escrow.ReleaseMsg">>, <<54, "escrow.ReturnMsg">>,
                       <<67, "distribution.DistributeMsg">>, <<71, "aswap.ReleaseMsg">>, <<76, "gov.TallyMsg">>}
  <2>1. GoodTable(T) /\ \A f \in T : f.slot # "sum"
    BY DEF GoodTable, Numbers
  <2>2. \A t \in types : t[1] \in Numbers
    BY DEF Numbers
  <2>3. TaskFields = T \cup OneOf(types)
    BY DEF TaskFields
  <2> HIDE DEF T, types
  <2>4. QED
    BY <2>1, <2>2, <2>3, GoodUnion
<1>10. GoodTable(RoleFields)
  BY KindsAre DEF RoleFields, GoodTable, Numbers, KindNames
<1>11. GoodTable(RoleBindingFields) /\ GoodTable(PrincipalFields)
  BY KindsAre DEF RoleBindingFields, PrincipalFields, GoodTable, Numbers, KindNames
<1>12. GoodTable(NamedSignatureFields) /\ GoodTable(DeleteArtifactFields)
  BY KindsAre DEF NamedSignatureFields, DeleteArtifactFields, GoodTable, Numbers, KindNames
<1>13. GoodTable(ArtifactFields) /\ GoodTable(CreateArtifactFields)
  BY KindsAre DEF ArtifactFields, CreateArtifactFields, GoodTable, Numbers, KindNames
<1>14. CASE kind \notin Kinds
  BY <1>3, <1>14 DEF Table
<1>15. CASE kind \in KindNames
  <2> HIDE DEF Scalar, Embedded, Repeated
  <2>1. QED
    BY <1>4, <1>5, <1>6, <1>7, <1>8, <1>9, <1>10, <1>11, <1>12, <1>13, <1>15, TablesAre DEF KindNames
<1>16. QED
  BY <1>14, <1>15, KindsAre

(* A value that was read for a field, and the part of a message it is in. *)
Sound(type, v) ==
  IF type = "bytes" THEN v \in Seq(Nat)
  ELSE IF type \in Kinds THEN Exact(Marshal(type, v), SizeOf(type, v))
  ELSE DOMAIN v = {"value"} /\ v.value \in Seq(Nat)

Elements(type, x) == (\E S : x \in Seq(S)) /\ \A i \in 1 .. Len(x) : Sound(type, x[i])
Chosen(kind, x) ==
  x # << >> => \E g \in Table(kind) : \E v :
                 g.rule = "choose" /\ Sound(g.type, v) /\ x = <<[n |-> g.n, v |-> v]>>

WellTyped(kind, m) ==
  /\ DOMAIN m = {f.slot : f \in Table(kind)}
  /\ \A f \in Table(kind) :
       /\ f.rule = "replace" => m[f.slot] \in Seq(Nat)
       /\ f.rule \in {"merge", "append"} => Elements(f.type, m[f.slot])
       /\ f.rule = "choose" => Chosen(kind, m[f.slot])

LEMMA EmptyIsWellTyped == ASSUME NEW kind PROVE WellTyped(kind, Empty(kind))
<1>1. \A f \in Table(kind) : Empty(kind)[f.slot] = << >>
  BY DEF Empty
<1>2. DOMAIN Empty(kind) = {f.slot : f \in Table(kind)}
  BY DEF Empty
<1>3. \A type : Elements(type, << >>)
  BY EmptySeq DEF Elements
<1>4. Chosen(kind, << >>) /\ << >> \in Seq(Nat)
  BY DEF Chosen
<1>5. QED
  BY <1>1, <1>2, <1>3, <1>4 DEF WellTyped

LEMMA ElementsAppend ==
  ASSUME NEW type, NEW x, NEW v, Elements(type, x), Sound(type, v)
  PROVE  Elements(type, Append(x, v))
<1>1. PICK S : x \in Seq(S)
  BY DEF Elements
<1>2. x \in Seq(S \cup {v})
  BY <1>1
<1>3. /\ Append(x, v) \in Seq(S \cup {v}) /\ Len(Append(x, v)) = Len(x) + 1
      /\ \A i \in 1 .. Len(x) : Append(x, v)[i] = x[i]
      /\ Append(x, v)[Len(x) + 1] = v
  BY <1>2, AppendProperties
<1>4. Len(x) \in Nat
  BY <1>1
<1>5. ASSUME NEW i \in 1 .. Len(x) + 1 PROVE Sound(type, Append(x, v)[i])
  <2>1. CASE i = Len(x) + 1
    BY <1>3, <2>1
  <2>2. CASE i # Len(x) + 1
    <3>1. i \in 1 .. Len(x)
      BY <1>4, <2>2
    <3>2. QED
      BY <1>3, <3>1 DEF Elements
  <2>3. QED
    BY <2>1, <2>2
<1>6. QED
  BY <1>3, <1>5 DEF Elements

LEMMA ElementsOne ==
  ASSUME NEW type, NEW v, Sound(type, v)
  PROVE  Elements(type, <<v>>)
<1>1. Elements(type, << >>)
  BY EmptySeq DEF Elements
<1>2. Elements(type, Append(<< >>, v))
  BY <1>1, ElementsAppend
<1>3. QED
  BY <1>2

LEMMA PutIsWellTyped ==
  ASSUME NEW kind, NEW m, WellTyped(kind, m), NEW n \in DOMAIN FieldsOf(kind), NEW v,
         Sound(FieldsOf(kind)[n].type, v)
  PROVE  WellTyped(kind, Put(kind, m, n, v))
<1> DEFINE f == FieldsOf(kind)[n]
           x == CASE f.rule = "replace" -> v
                  [] f.rule = "merge" -> <<v>>
                  [] f.rule = "append" -> Append(m[f.slot], v)
                  [] f.rule = "choose" -> <<[n |-> n, v |-> v]>>
           p == Put(kind, m, n, v)
<1>1. f \in Table(kind) /\ f.n = n /\ Sound(f.type, v)
  BY FieldsAreTable
<1>2. p = [m EXCEPT ![f.slot] = x]
  BY DEF Put
<1> HIDE DEF f, x, p
<1>3. f.slot \in DOMAIN m
  BY <1>1 DEF WellTyped
<1>4. DOMAIN p = DOMAIN m /\ p[f.slot] = x /\ \A s \in DOMAIN m : s # f.slot => p[s] = m[s]
  BY <1>2, <1>3
<1>5. /\ f.rule \in {"replace", "merge", "append", "choose"}
      /\ f.rule = "replace" => f.type = "bytes"
  BY <1>1, TablesAreGood DEF GoodTable
<1>6. /\ f.rule = "replace" => x \in Seq(Nat)
      /\ f.rule \in {"merge", "append"} => Elements(f.type, x)
      /\ f.rule = "choose" => Chosen(kind, x)
  <2>1. CASE f.rule = "replace"
    BY <1>1, <1>5, <2>1 DEF Sound, x
  <2>2. CASE f.rule = "merge"
    BY <1>1, <2>2, ElementsOne DEF x
  <2>3. CASE f.rule = "append"
    <3>1. Elements(f.type, m[f.slot])
      BY <1>1, <2>3 DEF WellTyped
    <3>2. x = Append(m[f.slot], v)
      BY <2>3 DEF x
    <3>3. QED
      BY <1>1, <2>3, <3>1, <3>2, ElementsAppend
  <2>4. CASE f.rule = "choose"
    <3>1. x = <<[n |-> f.n, v |-> v]>>
      BY <1>1, <2>4 DEF x
    <3>2. QED
      BY <1>1, <2>4, <3>1 DEF Chosen
  <2>5. QED
    BY <1>5, <2>1, <2>2, <2>3, <2>4
<1>7. ASSUME NEW g \in Table(kind)
      PROVE  /\ g.rule = "replace" => p[g.slot] \in Seq(Nat)
             /\ g.rule \in {"merge", "append"} => Elements(g.type, p[g.slot])
             /\ g.rule = "choose" => Chosen(kind, p[g.slot])
  <2>1. CASE g.slot = f.slot
    <3>1. g = f \/ (g.rule = "choose" /\ f.rule = "choose")
      BY <1>1, <2>1, TablesAreGood DEF GoodTable
    <3>2. QED
      BY <1>4, <1>6, <2>1, <3>1
  <2>2. CASE g.slot # f.slot
    <3>1. g.slot \in DOMAIN m
      BY DEF WellTyped
    <3>2. p[g.slot] = m[g.slot]
      BY <1>4, <2>2, <3>1
    <3>3. QED
      BY <3>2 DEF WellTyped
  <2>3. QED
    BY <2>1, <2>2
<1>8. QED
  BY <1>4, <1>7 DEF WellTyped, p

LEMMA LibraryIsWellTyped ==
  ASSUME NEW type, type \notin Kinds, type # "bytes", NEW v
  PROVE  Sound(type, v) <=> WellTyped(type, v)
<1>1. Table(type) = {Scalar(1, "value")}
  BY DEF Table, LibraryFields
<1>2. \A f \in Table(type) : f.slot = "value" /\ f.rule = "replace"
  BY <1>1 DEF Scalar
<1>3. {f.slot : f \in Table(type)} = {"value"}
  BY <1>1 DEF Scalar
<1>4. WellTyped(type, v) <=> (DOMAIN v = {"value"} /\ v["value"] \in Seq(Nat))
  BY <1>1, <1>2, <1>3 DEF WellTyped
<1>5. QED
  BY <1>4 DEF Sound

LEMMA ReadIntoIsWellTyped ==
  ASSUME NEW kind, NEW m, WellTyped(kind, m), NEW f \in Table(kind)
  PROVE  WellTyped(f.type, ReadInto(f, m))
<1>1. CASE f.rule = "merge" /\ m[f.slot] # << >>
  <2>1. f.type \notin Kinds /\ f.type # "bytes"
    BY <1>1, TablesAreGood DEF GoodTable
  <2>2. Elements(f.type, m[f.slot])
    BY <1>1 DEF WellTyped
  <2>3. 1 \in 1 .. Len(m[f.slot])
    <3>1. PICK S : m[f.slot] \in Seq(S)
      BY <2>2 DEF Elements
    <3>2. QED
      BY <1>1, <3>1, EmptySeq
  <2>4. Sound(f.type, m[f.slot][1])
    BY <2>2, <2>3 DEF Elements
  <2>5. QED
    BY <1>1, <2>1, <2>4, LibraryIsWellTyped DEF ReadInto
<1>2. CASE ~(f.rule = "merge" /\ m[f.slot] # << >>)
  BY <1>2, EmptyIsWellTyped DEF ReadInto
<1>3. QED
  BY <1>1, <1>2

-----------------------------------------------------------------------------
(* The messages, part by part. *)

LEMMA ScalarPart ==
  ASSUME NEW kind, NEW m, WellTyped(kind, m), NEW n, NEW slot, Scalar(n, slot) \in Table(kind)
  PROVE  n \in Numbers /\ Exact(MarshalScalar(n, m[slot]), SizeScalar(n, m[slot]))
<1> DEFINE f == Scalar(n, slot)
<1>1. f.n = n /\ f.slot = slot /\ f.rule = "replace"
  BY DEF Scalar
<1> HIDE DEF f
<1>2. f \in Table(kind)
  BY DEF f
<1>3. n \in Numbers
  BY <1>1, <1>2, TablesAreGood DEF GoodTable
<1>4. m[slot] \in Seq(Nat)
  BY <1>1, <1>2 DEF WellTyped
<1>5. QED
  BY <1>3, <1>4, ExactScalar

LEMMA ElementsPart ==
  ASSUME NEW kind, NEW m, WellTyped(kind, m), NEW n, NEW slot, NEW type,
         Embedded(n, slot, type) \in Table(kind) \/ Repeated(n, slot, type) \in Table(kind)
  PROVE  n \in Numbers /\ Elements(type, m[slot])
<1>1. PICK f \in Table(kind) :
        f.n = n /\ f.slot = slot /\ f.type = type /\ f.rule \in {"merge", "append"}
  BY DEF Embedded, Repeated
<1>2. n \in Numbers
  BY <1>1, TablesAreGood DEF GoodTable
<1>3. QED
  BY <1>1, <1>2 DEF WellTyped

(* Chunks, one for each element. *)
LEMMA ExactChunks ==
  ASSUME NEW s, NEW S, s \in Seq(S), NEW n \in Numbers, NEW b, NEW z,
         \A i \in 1 .. Len(s) : Exact(b[i], z[i])
  PROVE  Exact(FlattenSeq([i \in DOMAIN s |-> Chunk(n, z[i], b[i])]),
               Total([i \in DOMAIN s |-> ChunkSize(n, z[i])]))
<1> DEFINE k == Len(s)
           parts == [i \in DOMAIN s |-> Chunk(n, z[i], b[i])]
           sizes == [i \in DOMAIN s |-> ChunkSize(n, z[i])]
<1>1. k \in Nat /\ DOMAIN s = 1 .. k
  OBVIOUS
<1>2. DOMAIN parts = 1 .. k /\ DOMAIN sizes = 1 .. k
      /\ parts = [i \in 1 .. k |-> parts[i]] /\ sizes = [i \in 1 .. k |-> sizes[i]]
  BY <1>1
<1>3. \A i \in 1 .. k : Exact(parts[i], sizes[i])
  <2> SUFFICES ASSUME NEW i \in 1 .. k PROVE Exact(Chunk(n, z[i], b[i]), ChunkSize(n, z[i]))
    BY <1>1
  <2>1. QED
    BY ExactChunk
<1> HIDE DEF k, parts, sizes
<1>4. Exact(FlattenSeq(parts), Total(sizes))
  BY <1>1, <1>2, <1>3, ExactFlatten
<1>5. QED
  BY <1>4 DEF parts, sizes

LEMMA ExactLibrary ==
  ASSUME NEW m, m.value \in Seq(Nat)
  PROVE  Exact(MarshalLibrary(m), SizeLibrary(m))
BY ExactScalar DEF MarshalLibrary, SizeLibrary, Numbers

LEMMA LibraryPart ==
  ASSUME NEW n \in Numbers, NEW type, type \notin Kinds, type # "bytes", NEW s, Elements(type, s)
  PROVE  Exact(MarshalEach(n, s, SizeLibrary, MarshalLibrary), SizeEach(n, s, SizeLibrary))
<1> DEFINE b == [i \in DOMAIN s |-> MarshalLibrary(s[i])]
           z == [i \in DOMAIN s |-> SizeLibrary(s[i])]
<1>1. PICK S : s \in Seq(S)
  BY DEF Elements
<1>2. DOMAIN s = 1 .. Len(s)
  BY <1>1
<1>3. \A i \in 1 .. Len(s) : Exact(b[i], z[i])
  BY <1>2, ExactLibrary DEF Elements, Sound
<1>4. \A i \in DOMAIN s : b[i] = MarshalLibrary(s[i]) /\ z[i] = SizeLibrary(s[i])
  OBVIOUS
<1> HIDE DEF b, z
<1>5. Exact(FlattenSeq([i \in DOMAIN s |-> Chunk(n, z[i], b[i])]),
            Total([i \in DOMAIN s |-> ChunkSize(n, z[i])]))
  BY <1>1, <1>3, ExactChunks
<1>6. QED
  BY <1>4, <1>5 DEF MarshalEach, SizeEach

LEMMA BytesPart ==
  ASSUME NEW n \in Numbers, NEW s, Elements("bytes", s)
  PROVE  Exact(MarshalBytes(n, s), SizeBytes(n, s))
<1> DEFINE z == [i \in DOMAIN s |-> Len(s[i])]
<1>1. PICK S : s \in Seq(S)
  BY DEF Elements
<1>2. DOMAIN s = 1 .. Len(s)
  BY <1>1
<1>3. \A i \in 1 .. Len(s) : Exact(s[i], z[i])
  BY <1>2 DEF Elements, Sound, Exact
<1>4. \A i \in DOMAIN s : z[i] = Len(s[i])
  OBVIOUS
<1> HIDE DEF z
<1>5. Exact(FlattenSeq([i \in DOMAIN s |-> Chunk(n, z[i], s[i])]),
            Total([i \in DOMAIN s |-> ChunkSize(n, z[i])]))
  BY <1>1, <1>3, ExactChunks
<1>6. QED
  BY <1>4, <1>5 DEF MarshalEach, SizeEach, MarshalBytes, SizeBytes

LEMMA MetadataPart ==
  ASSUME NEW kind, NEW m, WellTyped(kind, m), Embedded(1, "metadata", "weave.Metadata") \in Table(kind)
  PROVE  Exact(MarshalEach(1, m.metadata, SizeLibrary, MarshalLibrary),
               SizeEach(1, m.metadata, SizeLibrary))
<1>1. 1 \in Numbers /\ Elements("weave.Metadata", m.metadata)
  BY ElementsPart
<1>2. QED
  BY <1>1, KindsAre, LibraryPart DEF KindNames

(* Embedded messages of grafain itself, which are exact. *)
LEMMA MessagePart ==
  ASSUME NEW n \in Numbers, NEW type \in Kinds, NEW s, Elements(type, s)
  PROVE  Exact(FlattenSeq([i \in DOMAIN s |-> Chunk(n, SizeOf(type, s[i]), Marshal(type, s[i]))]),
               Total([i \in DOMAIN s |-> ChunkSize(n, SizeOf(type, s[i]))]))
<1> DEFINE b == [i \in DOMAIN s |-> Marshal(type, s[i])]
           z == [i \in DOMAIN s |-> SizeOf(type, s[i])]
<1>1. PICK S : s \in Seq(S)
  BY DEF Elements
<1>2. DOMAIN s = 1 .. Len(s) /\ type # "bytes"
  BY <1>1, KindsAre DEF KindNames
<1>3. \A i \in 1 .. Len(s) : Exact(b[i], z[i])
  BY <1>2 DEF Elements, Sound
<1>4. \A i \in DOMAIN s : b[i] = Marshal(type, s[i]) /\ z[i] = SizeOf(type, s[i])
  OBVIOUS
<1> HIDE DEF b, z
<1>5. Exact(FlattenSeq([i \in DOMAIN s |-> Chunk(n, z[i], b[i])]),
            Total([i \in DOMAIN s |-> ChunkSize(n, z[i])]))
  BY <1>1, <1>3, ExactChunks
<1>6. QED
  BY <1>4, <1>5

(* What is chosen of a oneof. *)
LEMMA ChosenPart ==
  ASSUME NEW sum, NEW b, NEW z,
         sum # << >> => /\ \E x : sum = <<x>>
                        /\ sum[1].n \in Numbers /\ Exact(b[1], z[1])
  PROVE  Exact(FlattenSeq([i \in DOMAIN sum |-> Chunk(sum[i].n, z[i], b[i])]),
               Total([i \in DOMAIN sum |-> ChunkSize(sum[i].n, z[i])]))
<1> DEFINE k == Len(sum)
           parts == [i \in DOMAIN sum |-> Chunk(sum[i].n, z[i], b[i])]
           sizes == [i \in DOMAIN sum |-> ChunkSize(sum[i].n, z[i])]
<1>1. k \in Nat /\ DOMAIN sum = 1 .. k /\ \A i \in 1 .. k : i = 1 /\ sum # << >>
  <2>1. CASE sum = << >>
    BY <2>1
  <2>2. CASE sum # << >>
    <3>1. PICK x : sum = <<x>>
      BY <2>2
    <3>2. k = 1 /\ DOMAIN sum = 1 .. 1
      BY <3>1
    <3>3. QED
      BY <2>2, <3>2
  <2>3. QED
    BY <2>1, <2>2
<1>2. DOMAIN parts = 1 .. k /\ DOMAIN sizes = 1 .. k
      /\ parts = [i \in 1 .. k |-> parts[i]] /\ sizes = [i \in 1 .. k |-> sizes[i]]
  BY <1>1
<1>3. \A i \in 1 .. k : Exact(parts[i], sizes[i])
  <2> SUFFICES ASSUME NEW i \in 1 .. k
               PROVE  Exact(Chunk(sum[i].n, z[i], b[i]), ChunkSize(sum[i].n, z[i]))
    BY <1>1
  <2>1. i = 1 /\ sum # << >>
    BY <1>1
  <2>2. QED
    BY <2>1, ExactChunk
<1> HIDE DEF k, parts, sizes
<1>4. Exact(FlattenSeq(parts), Total(sizes))
  BY <1>1, <1>2, <1>3, ExactFlatten
<1>5. QED
  BY <1>4 DEF parts, sizes

LEMMA SumIsChosen ==
  ASSUME NEW kind, NEW m, WellTyped(kind, m), \E f \in Table(kind) : f.rule = "choose" /\ f.slot = "sum"
  PROVE  m.sum # << >> =>
           \E g, v :
             /\ g \in Table(kind)
             /\ m.sum = <<[n |-> g.n, v |-> v]>>
             /\ g.rule = "choose" /\ g.n \in Numbers /\ Sound(g.type, v)
BY TablesAreGood DEF WellTyped, Chosen, GoodTable

LEMMA OneOfChooses ==
  ASSUME NEW types, NEW t \in types
  PROVE  \E f \in OneOf(types) : f.rule = "choose" /\ f.slot = "sum"
<1> DEFINE f == [n |-> t[1], slot |-> "sum", rule |-> "choose", type |-> t[2]]
<1>1. f \in OneOf(types) /\ f.rule = "choose" /\ f.slot = "sum"
  BY DEF OneOf
<1> HIDE DEF f
<1>2. QED
  BY <1>1

LEMMA ChoicePart ==
  ASSUME NEW sum,
         sum # << >> => \E x : sum = <<x>> /\ x.n \in Numbers /\ x.v.value \in Seq(Nat)
  PROVE  Exact(MarshalChoice(sum), SizeChoice(sum))
<1> DEFINE b == [i \in DOMAIN sum |-> MarshalLibrary(sum[i].v)]
           z == [i \in DOMAIN sum |-> SizeLibrary(sum[i].v)]
<1>1. sum # << >> => /\ \E x : sum = <<x>>
                     /\ sum[1].n \in Numbers /\ Exact(b[1], z[1])
  <2> SUFFICES ASSUME NEW x, sum = <<x>>, x.n \in Numbers, x.v.value \in Seq(Nat)
               PROVE  sum[1].n \in Numbers /\ Exact(b[1], z[1])
    OBVIOUS
  <2>1. b[1] = MarshalLibrary(x.v) /\ z[1] = SizeLibrary(x.v) /\ sum[1].n = x.n
    OBVIOUS
  <2>2. QED
    BY <2>1, ExactLibrary
<1>2. \A i \in DOMAIN sum : b[i] = MarshalLibrary(sum[i].v) /\ z[i] = SizeLibrary(sum[i].v)
  OBVIOUS
<1> HIDE DEF b, z
<1>3. Exact(FlattenSeq([i \in DOMAIN sum |-> Chunk(sum[i].n, z[i], b[i])]),
            Total([i \in DOMAIN sum |-> ChunkSize(sum[i].n, z[i])]))
  BY <1>1, ChosenPart
<1>4. QED
  BY <1>2, <1>3 DEF MarshalChoice, SizeChoice

(* A oneof of library messages only. *)
LEMMA LibraryChoicePart ==
  ASSUME NEW kind, NEW m, WellTyped(kind, m), \E f \in Table(kind) : f.rule = "choose" /\ f.slot = "sum",
         \A f \in Table(kind) : f.rule = "choose" => f.type # "bytes" /\ f.type \notin Kinds
  PROVE  Exact(MarshalChoice(m.sum), SizeChoice(m.sum))
<1>1. ASSUME m.sum # << >>
      PROVE  \E x : m.sum = <<x>> /\ x.n \in Numbers /\ x.v.value \in Seq(Nat)
  <2>1. PICK g, v :
          /\ g \in Table(kind)
          /\ m.sum = <<[n |-> g.n, v |-> v]>>
          /\ g.rule = "choose" /\ g.n \in Numbers /\ Sound(g.type, v)
    BY <1>1, SumIsChosen
  <2>2. v.value \in Seq(Nat)
    BY <2>1 DEF Sound
  <2>3. [n |-> g.n, v |-> v].n \in Numbers /\ [n |-> g.n, v |-> v].v.value \in Seq(Nat)
    BY <2>1, <2>2
  <2>4. QED
    BY <2>1, <2>3
<1>2. QED
  BY <1>1, ChoicePart

LEMMA ArtifactIsExact ==
  ASSUME NEW m, WellTyped("Artifact", m) PROVE Exact(MarshalArtifact(m), SizeArtifact(m))
<1>1. Table("Artifact") = ArtifactFields
  BY TablesAre
<1>2. Exact(MarshalEach(1, m.metadata, SizeLibrary, MarshalLibrary),
           SizeEach(1, m.metadata, SizeLibrary))
  BY <1>1, MetadataPart DEF ArtifactFields
<1>3. /\ Exact(MarshalScalar(2, m.owner), SizeScalar(2, m.owner))
      /\ Exact(MarshalScalar(3, m.image), SizeScalar(3, m.image))
      /\ Exact(MarshalScalar(4, m.checksum), SizeScalar(4, m.checksum))
  BY <1>1, ScalarPart DEF ArtifactFields
<1>4. QED
  BY <1>2, <1>3, ExactConcat DEF MarshalArtifact, SizeArtifact

LEMMA CreateArtifactIsExact ==
  ASSUME NEW m, WellTyped("CreateArtifactMsg", m) PROVE Exact(MarshalCreateArtifact(m), SizeCreateArtifact(m))
<1>1. Table("CreateArtifactMsg") = CreateArtifactFields
  BY TablesAre
<1>2. Exact(MarshalEach(1, m.metadata, SizeLibrary, MarshalLibrary),
           SizeEach(1, m.metadata, SizeLibrary))
  BY <1>1, MetadataPart DEF CreateArtifactFields
<1>3. /\ Exact(MarshalScalar(2, m.image), SizeScalar(2, m.image))
      /\ Exact(MarshalScalar(3, m.checksum), SizeScalar(3, m.checksum))
      /\ Exact(MarshalScalar(4, m.owner), SizeScalar(4, m.owner))
  BY <1>1, ScalarPart DEF CreateArtifactFields
<1>4. QED
  BY <1>2, <1>3, ExactConcat DEF MarshalCreateArtifact, SizeCreateArtifact

LEMMA DeleteArtifactIsExact ==
  ASSUME NEW m, WellTyped("DeleteArtifactMsg", m) PROVE Exact(MarshalDeleteArtifact(m), SizeDeleteArtifact(m))
<1>1. Table("DeleteArtifactMsg") = DeleteArtifactFields
  BY TablesAre
<1>2. Exact(MarshalEach(1, m.metadata, SizeLibrary, MarshalLibrary),
           SizeEach(1, m.metadata, SizeLibrary))
  BY <1>1, MetadataPart DEF DeleteArtifactFields
<1>3. Exact(MarshalScalar(2, m.image), SizeScalar(2, m.image))
  BY <1>1, ScalarPart DEF DeleteArtifactFields
<1>4. QED
  BY <1>2, <1>3, ExactConcat DEF MarshalDeleteArtifact, SizeDeleteArtifact

LEMMA RoleIsExact ==
  ASSUME NEW m, WellTyped("Role", m) PROVE Exact(MarshalRole(m), SizeRole(m))
<1>1. Table("Role") = RoleFields
  BY TablesAre
<1>2. Exact(MarshalEach(1, m.metadata, SizeLibrary, MarshalLibrary),
           SizeEach(1, m.metadata, SizeLibrary))
  BY <1>1, MetadataPart DEF RoleFields
<1>3. /\ Exact(MarshalScalar(2, m.name), SizeScalar(2, m.name))
      /\ Exact(MarshalScalar(3, m.description), SizeScalar(3, m.description))
      /\ Exact(MarshalScalar(4, m.address), SizeScalar(4, m.address))
      /\ Exact(MarshalScalar(6, m.owner), SizeScalar(6, m.owner))
  BY <1>1, ScalarPart DEF RoleFields
<1>4. /\ Exact(MarshalBytes(5, m.role_ids), SizeBytes(5, m.role_ids))
      /\ Exact(MarshalBytes(7, m.permissions), SizeBytes(7, m.permissions))
  BY <1>1, ElementsPart, BytesPart DEF RoleFields
<1>5. QED
  BY <1>2, <1>3, <1>4, ExactConcat DEF MarshalRole, SizeRole

LEMMA RoleBindingIsExact ==
  ASSUME NEW m, WellTyped("RoleBinding", m) PROVE Exact(MarshalRoleBinding(m), SizeRoleBinding(m))
<1>1. Table("RoleBinding") = RoleBindingFields
  BY TablesAre
<1>2. Exact(MarshalEach(1, m.metadata, SizeLibrary, MarshalLibrary),
           SizeEach(1, m.metadata, SizeLibrary))
  BY <1>1, MetadataPart DEF RoleBindingFields
<1>3. /\ Exact(MarshalScalar(2, m.role_id), SizeScalar(2, m.role_id))
      /\ Exact(MarshalScalar(3, m.signature), SizeScalar(3, m.signature))
  BY <1>1, ScalarPart DEF RoleBindingFields
<1>4. QED
  BY <1>2, <1>3, ExactConcat DEF MarshalRoleBinding, SizeRoleBinding

LEMMA NamedSignatureIsExact ==
  ASSUME NEW m, WellTyped("NamedSignature", m) PROVE Exact(MarshalNamedSignature(m), SizeNamedSignature(m))
<1>1. Table("NamedSignature") = NamedSignatureFields
  BY TablesAre
<1>2. /\ Exact(MarshalScalar(1, m.name), SizeScalar(1, m.name))
      /\ Exact(MarshalScalar(2, m.description), SizeScalar(2, m.description))
      /\ Exact(MarshalScalar(3, m.signature), SizeScalar(3, m.signature))
  BY <1>1, ScalarPart DEF NamedSignatureFields
<1>3. QED
  BY <1>2, ExactConcat DEF MarshalNamedSignature, SizeNamedSignature

LEMMA PrincipalIsExact ==
  ASSUME NEW m, WellTyped("Principal", m) PROVE Exact(MarshalPrincipal(m), SizePrincipal(m))
<1>1. Table("Principal") = PrincipalFields
  BY TablesAre
<1>2. Exact(MarshalEach(1, m.metadata, SizeLibrary, MarshalLibrary),
           SizeEach(1, m.metadata, SizeLibrary))
  BY <1>1, MetadataPart DEF PrincipalFields
<1>3. /\ Exact(MarshalScalar(2, m.name), SizeScalar(2, m.name))
      /\ Exact(MarshalScalar(3, m.description), SizeScalar(3, m.description))
  BY <1>1, ScalarPart DEF PrincipalFields
<1>4. Exact(MarshalEach(4, m.signatures, SizeNamedSignature, MarshalNamedSignature),
           SizeEach(4, m.signatures, SizeNamedSignature))
  <2>1. 4 \in Numbers /\ Elements("NamedSignature", m.signatures)
    BY <1>1, ElementsPart DEF PrincipalFields
  <2>2. "NamedSignature" \in Kinds
    BY KindsAre DEF KindNames
  <2>3. QED
    BY <2>1, <2>2, MessagePart DEF MarshalEach, SizeEach, Marshal, SizeOf
<1>5. QED
  BY <1>2, <1>3, <1>4, ExactConcat DEF MarshalPrincipal, SizePrincipal

LEMMA BatchUnionIsExact ==
  ASSUME NEW m, WellTyped("ExecuteBatchMsg_Union", m) PROVE Exact(MarshalBatchUnion(m), SizeBatchUnion(m))
<1>1. Table("ExecuteBatchMsg_Union") = BatchUnionFields
  BY TablesAre
<1>2. \A f \in BatchUnionFields : f.rule = "choose" /\ f.slot = "sum" /\ f.type # "bytes" /\ f.type \notin Kinds
  BY KindsAre DEF BatchUnionFields, OneOf, KindNames
<1>3. \E f \in BatchUnionFields : f.rule = "choose" /\ f.slot = "sum"
  BY OneOfChooses DEF BatchUnionFields
<1>4. QED
  BY <1>1, <1>2, <1>3, LibraryChoicePart DEF MarshalBatchUnion, SizeBatchUnion

LEMMA OptionsUnionIsExact ==
  ASSUME NEW m, WellTyped("ExecuteProposalBatchMsg_Union", m) PROVE Exact(MarshalOptionsUnion(m), SizeOptionsUnion(m))
<1>1. Table("ExecuteProposalBatchMsg_Union") = OptionsUnionFields
  BY TablesAre
<1>2. \A f \in OptionsUnionFields : f.rule = "choose" /\ f.slot = "sum" /\ f.type # "bytes" /\ f.type \notin Kinds
  BY KindsAre DEF OptionsUnionFields, OneOf, KindNames
<1>3. \E f \in OptionsUnionFields : f.rule = "choose" /\ f.slot = "sum"
  BY OneOfChooses DEF OptionsUnionFields
<1>4. QED
  BY <1>1, <1>2, <1>3, LibraryChoicePart DEF MarshalOptionsUnion, SizeOptionsUnion

LEMMA BatchIsExact ==
  ASSUME NEW m, WellTyped("ExecuteBatchMsg", m) PROVE Exact(MarshalBatch(m), SizeBatch(m))
<1>1. Table("ExecuteBatchMsg") = BatchFields /\ "ExecuteBatchMsg_Union" \in Kinds
  BY TablesAre, KindsAre DEF KindNames
<1>2. 1 \in Numbers /\ Elements("ExecuteBatchMsg_Union", m.messages)
  BY <1>1, ElementsPart DEF BatchFields
<1>3. QED
  BY <1>1, <1>2, MessagePart DEF MarshalBatch, SizeBatch, MarshalEach, SizeEach, Marshal, SizeOf

LEMMA OptionsBatchIsExact ==
  ASSUME NEW m, WellTyped("ExecuteProposalBatchMsg", m) PROVE Exact(MarshalOptionsBatch(m), SizeOptionsBatch(m))
<1>1. Table("ExecuteProposalBatchMsg") = OptionsBatchFields /\ "ExecuteProposalBatchMsg_Union" \in Kinds
  BY TablesAre, KindsAre DEF KindNames
<1>2. 1 \in Numbers /\ Elements("ExecuteProposalBatchMsg_Union", m.messages)
  BY <1>1, ElementsPart DEF OptionsBatchFields
<1>3. QED
  BY <1>1, <1>2, MessagePart DEF MarshalOptionsBatch, SizeOptionsBatch, MarshalEach, SizeEach, Marshal, SizeOf

LEMMA TaskIsExact ==
  ASSUME NEW m, WellTyped("CronTask", m) PROVE Exact(MarshalTask(m), SizeTask(m))
<1>1. Table("CronTask") = TaskFields
  BY TablesAre
<1>2. Exact(MarshalBytes(1, m.authenticators), SizeBytes(1, m.authenticators))
  BY <1>1, ElementsPart, BytesPart DEF TaskFields
<1>3. \A f \in TaskFields :
        f.rule = "choose" => f.slot = "sum" /\ f.type # "bytes" /\ f.type \notin Kinds
  BY KindsAre DEF TaskFields, OneOf, Repeated, KindNames
<1>4. \E f \in TaskFields : f.rule = "choose" /\ f.slot = "sum"
  BY OneOfChooses DEF TaskFields
<1>5. Exact(MarshalChoice(m.sum), SizeChoice(m.sum))
  BY <1>1, <1>3, <1>4, LibraryChoicePart
<1>6. QED
  BY <1>2, <1>5, ExactConcat DEF MarshalTask, SizeTask

LEMMA OptionsIsExact ==
  ASSUME NEW m, WellTyped("ProposalOptions", m) PROVE Exact(MarshalOptions(m), SizeOptions(m))
<1>1. Table("ProposalOptions") = OptionsFields /\ "ExecuteProposalBatchMsg" \in Kinds
  BY TablesAre, KindsAre DEF KindNames
<1>2. \A f \in OptionsFields :
        /\ f.n = 60 => f.type = "ExecuteProposalBatchMsg"
        /\ f.n # 60 => f.type # "bytes" /\ f.type \notin Kinds
  BY KindsAre DEF OptionsFields, OneOf, KindNames
<1>3. \E f \in OptionsFields : f.rule = "choose" /\ f.slot = "sum"
  BY OneOfChooses DEF OptionsFields
<1>4. CASE m.sum = << >>
  BY <1>4, ChoicePart DEF MarshalOptions, SizeOptions
<1>5. CASE m.sum # << >>
  <2>1. PICK g, v :
          /\ g \in OptionsFields
          /\ m.sum = <<[n |-> g.n, v |-> v]>>
          /\ g.rule = "choose" /\ g.n \in Numbers /\ Sound(g.type, v)
    BY <1>1, <1>3, <1>5, SumIsChosen
  <2> DEFINE x == [n |-> g.n, v |-> v]
  <2>2. m.sum = <<x>> /\ x.n = g.n /\ x.v = v
    BY <2>1
  <2> HIDE DEF x
  <2>3. CASE g.n = 60
    <3>1. Exact(MarshalOptionsBatch(v), SizeOptionsBatch(v))
      BY <1>1, <1>2, <2>1, <2>3 DEF Sound, Marshal, SizeOf
    <3>2. Exact(Chunk(60, SizeOptionsBatch(v), MarshalOptionsBatch(v)),
                ChunkSize(60, SizeOptionsBatch(v)))
      BY <2>1, <2>3, <3>1, ExactChunk
    <3>3. QED
      BY <1>5, <2>2, <2>3, <3>2 DEF MarshalOptions, SizeOptions
  <2>4. CASE g.n # 60
    <3>1. v.value \in Seq(Nat)
      BY <1>2, <2>1, <2>4 DEF Sound
    <3>2. Exact(MarshalChoice(m.sum), SizeChoice(m.sum))
      BY <2>1, <2>2, <3>1, ChoicePart
    <3>3. QED
      BY <2>2, <2>4, <3>2 DEF MarshalOptions, SizeOptions
  <2>5. QED
    BY <2>3, <2>4
<1>6. QED
  BY <1>4, <1>5

LEMMA TxIsExact ==
  ASSUME NEW m, WellTyped("Tx", m) PROVE Exact(MarshalTx(m), SizeTx(m))
<1>1. Table("Tx") = TxFields /\ {"ExecuteBatchMsg", "CreateArtifactMsg", "DeleteArtifactMsg"} \subseteq Kinds
  BY TablesAre, KindsAre DEF KindNames
<1>2. /\ Exact(MarshalEach(1, m.fees, SizeLibrary, MarshalLibrary), SizeEach(1, m.fees, SizeLibrary))
      /\ Exact(MarshalEach(2, m.signatures, SizeLibrary, MarshalLibrary),
               SizeEach(2, m.signatures, SizeLibrary))
  <2>1. /\ Embedded(1, "fees", "cash.FeeInfo") \in TxFields
        /\ Repeated(2, "signatures", "sigs.StdSignature") \in TxFields
    BY DEF TxFields
  <2>2. /\ 1 \in Numbers /\ Elements("cash.FeeInfo", m.fees)
        /\ 2 \in Numbers /\ Elements("sigs.StdSignature", m.signatures)
    BY <1>1, <2>1, ElementsPart
  <2>3. "cash.FeeInfo" \notin Kinds /\ "sigs.StdSignature" \notin Kinds
    BY KindsAre DEF KindNames
  <2>4. QED
    BY <2>2, <2>3, LibraryPart
<1>3. Exact(MarshalBytes(4, m.multisig), SizeBytes(4, m.multisig))
  <2>1. Repeated(4, "multisig", "bytes") \in TxFields
    BY DEF TxFields
  <2>2. QED
    BY <1>1, <2>1, ElementsPart, BytesPart
<1>4. \A f \in TxFields : f.rule = "choose" =>
        /\ f.n = 60 => f.type = "ExecuteBatchMsg"
        /\ f.n = 100 => f.type = "CreateArtifactMsg"
        /\ f.n = 101 => f.type = "DeleteArtifactMsg"
        /\ f.n \notin {60, 100, 101} => f.type # "bytes" /\ f.type \notin Kinds
  <2>1. \A t \in TxSum :
          /\ t[1] = 60 => t[2] = "ExecuteBatchMsg"
          /\ t[1] = 100 => t[2] = "CreateArtifactMsg"
          /\ t[1] = 101 => t[2] = "DeleteArtifactMsg"
          /\ t[1] \notin {60, 100, 101} => t[2] # "bytes" /\ t[2] \notin Kinds
    BY KindsAre DEF TxSum, KindNames
  <2>2. \A f \in TxFields : f.rule = "choose" => \E t \in TxSum : f.n = t[1] /\ f.type = t[2]
    BY DEF TxFields, OneOf, Embedded, Repeated
  <2>3. QED
    BY <2>1, <2>2
<1>5. \E f \in TxFields : f.rule = "choose" /\ f.slot = "sum"
  <2>1. <<51, "cash.SendMsg">> \in TxSum
    BY DEF TxSum
  <2>2. QED
    BY <2>1, OneOfChooses DEF TxFields
<1> DEFINE b == [i \in DOMAIN m.sum |-> MarshalTxMsg(m.sum[i].n, m.sum[i].v)]
           z == [i \in DOMAIN m.sum |-> SizeTxMsg(m.sum[i].n, m.sum[i].v)]
<1>6. ASSUME m.sum # << >>
      PROVE  (\E x : m.sum = <<x>>) /\ m.sum[1].n \in Numbers /\ Exact(b[1], z[1])
  <2>1. PICK g, v :
          /\ g \in TxFields
          /\ m.sum = <<[n |-> g.n, v |-> v]>>
          /\ g.rule = "choose" /\ g.n \in Numbers /\ Sound(g.type, v)
    BY <1>1, <1>5, <1>6, SumIsChosen
  <2> DEFINE x == [n |-> g.n, v |-> v]
  <2>2. m.sum = <<x>> /\ x.n = g.n /\ x.v = v
    BY <2>1
  <2> HIDE DEF x
  <2>3. b[1] = MarshalTxMsg(g.n, v) /\ z[1] = SizeTxMsg(g.n, v) /\ m.sum[1].n = g.n
    BY <2>2
  <2>4. Exact(MarshalTxMsg(g.n, v), SizeTxMsg(g.n, v))
    <3>1. CASE g.n = 60
      <4>1. g.type = "ExecuteBatchMsg"
        BY <1>4, <2>1, <3>1
      <4>2. Exact(MarshalBatch(v), SizeBatch(v))
        BY <1>1, <2>1, <4>1 DEF Sound, Marshal, SizeOf
      <4>3. QED
        BY <3>1, <4>2 DEF MarshalTxMsg, SizeTxMsg
    <3>2. CASE g.n = 100
      <4>1. g.type = "CreateArtifactMsg"
        BY <1>4, <2>1, <3>2
      <4>2. Exact(MarshalCreateArtifact(v), SizeCreateArtifact(v))
        BY <1>1, <2>1, <4>1 DEF Sound, Marshal, SizeOf
      <4>3. QED
        BY <3>2, <4>2 DEF MarshalTxMsg, SizeTxMsg
    <3>3. CASE g.n = 101
      <4>1. g.type = "DeleteArtifactMsg"
        BY <1>4, <2>1, <3>3
      <4>2. Exact(MarshalDeleteArtifact(v), SizeDeleteArtifact(v))
        BY <1>1, <2>1, <4>1 DEF Sound, Marshal, SizeOf
      <4>3. QED
        BY <3>3, <4>2 DEF MarshalTxMsg, SizeTxMsg
    <3>4. CASE g.n \notin {60, 100, 101}
      <4>1. g.type # "bytes" /\ g.type \notin Kinds
        BY <1>4, <2>1, <3>4
      <4>2. v.value \in Seq(Nat)
        BY <2>1, <4>1 DEF Sound
      <4>3. Exact(MarshalLibrary(v), SizeLibrary(v))
        BY <4>2, ExactLibrary
      <4>4. QED
        BY <3>4, <4>3 DEF MarshalTxMsg, SizeTxMsg
    <3>5. QED
      BY <3>1, <3>2, <3>3, <3>4
  <2>5. QED
    BY <2>1, <2>2, <2>3, <2>4
<1>7. /\ b = [i \in DOMAIN m.sum |-> MarshalTxMsg(m.sum[i].n, m.sum[i].v)]
      /\ z = [i \in DOMAIN m.sum |-> SizeTxMsg(m.sum[i].n, m.sum[i].v)]
  OBVIOUS
<1> HIDE DEF b, z
<1>8. Exact(FlattenSeq([i \in DOMAIN m.sum |-> Chunk(m.sum[i].n, z[i], b[i])]),
            Total([i \in DOMAIN m.sum |-> ChunkSize(m.sum[i].n, z[i])]))
  BY <1>6, ChosenPart
<1>9. Exact(FlattenSeq([i \in DOMAIN m.sum |->
              Chunk(m.sum[i].n, SizeTxMsg(m.sum[i].n, m.sum[i].v), MarshalTxMsg(m.sum[i].n, m.sum[i].v))]),
            Total([i \in DOMAIN m.sum |-> ChunkSize(m.sum[i].n, SizeTxMsg(m.sum[i].n, m.sum[i].v))]))
  BY <1>7, <1>8
<1>10. QED
  BY <1>2, <1>3, <1>9, ExactConcat DEF MarshalTx, SizeTx

(* Whatever message its table allows has the size that is computed for it. *)
LEMMA MessageIsExact ==
  ASSUME NEW kind, NEW m, WellTyped(kind, m)
  PROVE  Exact(Marshal(kind, m), SizeOf(kind, m))
<1>1. CASE kind \in KindNames
  BY <1>1, ArtifactIsExact, CreateArtifactIsExact, DeleteArtifactIsExact, RoleIsExact,
     RoleBindingIsExact, NamedSignatureIsExact, PrincipalIsExact, BatchUnionIsExact,
     OptionsUnionIsExact, BatchIsExact, OptionsBatchIsExact, TaskIsExact, OptionsIsExact, TxIsExact
     DEF KindNames, Marshal, SizeOf
<1>2. CASE kind \notin KindNames
  <2>1. Scalar(1, "value") \in Table(kind)
    BY <1>2, KindsAre DEF Table, LibraryFields
  <2>2. Exact(MarshalLibrary(m), SizeLibrary(m))
    BY <2>1, ScalarPart DEF MarshalLibrary, SizeLibrary
  <2>3. QED
    BY <1>2, <2>2 DEF KindNames, Marshal, SizeOf
<1>3. QED
  BY <1>1, <1>2

LEMMA MessageIsSound ==
  ASSUME NEW kind, kind # "bytes", NEW m, WellTyped(kind, m)
  PROVE  Sound(kind, m)
<1>1. CASE kind \in Kinds
  BY <1>1, MessageIsExact DEF Sound
<1>2. CASE kind \notin Kinds
  BY <1>2, LibraryIsWellTyped
<1>3. QED
  BY <1>1, <1>2

-----------------------------------------------------------------------------
(* What is read is what the tables allow. *)

LEMMA WithMsgParts ==
  ASSUME NEW f, IsFrame(f), NEW m
  PROVE  /\ WithMsg(f, m).kind = f.kind /\ WithMsg(f, m).field = f.field
         /\ WithMsg(f, m).msg = m
<1>1. PICK kind, field, end, msg : f = Frame(kind, field, end, msg)
  BY DEF IsFrame
<1>2. WithMsg(f, m) = Frame(kind, field, end, m)
  BY <1>1 DEF WithMsg, Frame
<1>3. QED
  BY <1>1, <1>2 DEF Frame

(* Every message on the stack is one its table allows, and goes into the   *)
(* field it was read for.                                                  *)
FrameTyped(f) == f.kind # "bytes" /\ WellTyped(f.kind, f.msg)
FieldTyped(f, g) ==
  /\ g.field \in DOMAIN FieldsOf(f.kind)
  /\ FieldsOf(f.kind)[g.field].type = g.kind
Typed ==
  /\ \A i \in 1 .. Len(stack) : FrameTyped(stack[i])
  /\ \A i \in 2 .. Len(stack) : FieldTyped(stack[i - 1], stack[i])
  /\ pc = "length" => number \in DOMAIN FieldsOf(Top.kind)

LEMMA TypedTop == ASSUME IInv, Typed PROVE FrameTyped(Top)
<1>1. Len(stack) \in 1 .. Len(stack) /\ Top = stack[Len(stack)]
  BY TopFrame DEF IInv
<1>2. QED
  BY <1>1 DEF Typed

LEMMA SameStackTyped ==
  ASSUME Typed, UNCHANGED stack, pc' = "length" => number' \in DOMAIN FieldsOf(Top.kind)
  PROVE  Typed'
BY DEF Typed, Top

(* The first n frames, the last of them with another message. *)
LEMMA PutTyped ==
  ASSUME IInv, Typed, NEW n \in 1 .. Len(stack), NEW s, NEW S, s \in Seq(S), Len(s) = n,
         \A j \in 1 .. n : s[j] = stack[j],
         NEW v, WellTyped(stack[n].kind, v),
         stack' = [s EXCEPT ![n] = WithMsg(stack[n], v)], pc' # "length"
  PROVE  Typed'
<1> DEFINE e == WithMsg(stack[n], v)
<1>1. Len(stack) \in Nat /\ n \in Nat /\ n \in 1 .. Len(s)
  BY TopFrame DEF IInv
<1>2. IsFrame(stack[n])
  BY DEF IInv, Nested
<1>3. e.kind = stack[n].kind /\ e.field = stack[n].field /\ e.msg = v
  BY <1>2, WithMsgParts
<1> HIDE DEF e
<1>4. /\ Len(stack') = n
      /\ \A j \in 1 .. n : stack'[j] = IF j = n THEN e ELSE stack[j]
  <2>1. s \in Seq(S \cup {e}) /\ e \in S \cup {e}
    OBVIOUS
  <2>2. stack' = [s EXCEPT ![n] = e]
    BY DEF e
  <2>3. /\ Len([s EXCEPT ![n] = e]) = Len(s)
        /\ \A j \in 1 .. Len(s) : [s EXCEPT ![n] = e][j] = IF j = n THEN e ELSE s[j]
    BY <1>1, <2>1, ExceptSeq
  <2>4. QED
    BY <2>2, <2>3
<1>5. \A j \in 1 .. n : FrameTyped(stack'[j]) /\ stack'[j].kind = stack[j].kind
                       /\ stack'[j].field = stack[j].field
  <2> SUFFICES ASSUME NEW j \in 1 .. n
               PROVE  FrameTyped(stack'[j]) /\ stack'[j].kind = stack[j].kind
                       /\ stack'[j].field = stack[j].field
    OBVIOUS
  <2>1. j \in 1 .. Len(stack)
    BY <1>1
  <2>2. FrameTyped(stack[j])
    BY <2>1 DEF Typed
  <2>3. QED
    BY <1>3, <1>4, <2>2 DEF FrameTyped
<1>6. ASSUME NEW i \in 2 .. n PROVE FieldTyped(stack'[i - 1], stack'[i])
  <2>1. i \in 1 .. n /\ i - 1 \in 1 .. n /\ i \in 2 .. Len(stack)
    BY <1>1
  <2>2. FieldTyped(stack[i - 1], stack[i])
    BY <2>1 DEF Typed
  <2>3. QED
    BY <1>5, <2>1, <2>2 DEF FieldTyped
<1>7. QED
  BY <1>4, <1>5, <1>6 DEF Typed

LEMMA TypedStep == ASSUME IInv, Typed, [Next]_vars PROVE Typed'
<1>1. CASE NextByte
  BY <1>1, SameStackTyped DEF NextByte, Typed
<1>2. CASE BrokenVarint \/ RefuseTag \/ RefuseLength \/ RefuseSkip
  BY <1>2, SameStackTyped DEF BrokenVarint, RefuseTag, RefuseLength, RefuseSkip, Fail
<1>3. CASE NextField \/ UnknownField \/ Finish \/ SkipGroup \/ SkipValue
  BY <1>3, SameStackTyped DEF NextField, UnknownField, Finish, SkipGroup, SkipValue, Goto
<1>4. CASE ReadTag
  BY <1>4, SameStackTyped DEF ReadTag, Known
<1>5. CASE ReadBytes
  <2> DEFINE n == Len(stack)
             len == AsInt(Value)
             bytes == SubSeq(Data, pos + 2, pos + 1 + len)
             v == Put(Top.kind, stack[n].msg, number, bytes)
  <2>1. number \in DOMAIN FieldsOf(Top.kind) /\ Entry.type = "bytes"
    BY <1>5 DEF ReadBytes, LastByteOf, Typed
  <2>2. n \in 1 .. Len(stack) /\ Top = stack[n] /\ End <= Len(Data) /\ End \in Nat
    BY TopFrame DEF IInv
  <2>3. bytes \in Seq(Nat)
    <3>1. len \in Int /\ len >= 0 /\ pos + 1 + len <= End
      <4>1. Value \in Nat
        BY <1>5, ValueIsNat DEF ReadBytes, LastByteOf
      <4>2. QED
        BY <1>5, <4>1, IntIsInt DEF ReadBytes, Fits
    <3>2. Data \in Seq(Nat)
      <4>1. PICK S : Data \in Seq(S)
        BY DEF IInv, Positions
      <4>2. Data \in [1 .. Len(Data) -> Nat] /\ Len(Data) \in Nat
        BY <4>1 DEF IInv, Positions
      <4>3. QED
        BY <4>2, IsASeq
    <3>3. pos \in Nat /\ Len(Data) \in Nat
      BY <3>2 DEF IInv, Positions
    <3> HIDE DEF len
    <3>4. pos + 2 \in 1 .. Len(Data) + 1 /\ pos + 1 + len \in (pos + 2) - 1 .. Len(Data)
      BY <2>2, <3>1, <3>3
    <3>5. QED
      BY <3>2, <3>4, SubSeqProperties
  <2>4. WellTyped(Top.kind, Put(Top.kind, Top.msg, number, bytes))
    <3>1. Sound(FieldsOf(Top.kind)[number].type, bytes)
      BY <2>1, <2>3 DEF Sound, Entry
    <3>2. WellTyped(Top.kind, Top.msg)
      BY TypedTop DEF FrameTyped
    <3> HIDE DEF bytes
    <3>3. QED
      BY <2>1, <3>1, <3>2, PutIsWellTyped
  <2>5. WellTyped(stack[n].kind, v)
    BY <2>2, <2>4
  <2>6. stack' = [stack EXCEPT ![n] = WithMsg(stack[n], v)] /\ pc' # "length"
    BY <1>5 DEF ReadBytes, WithMsg, Goto
  <2>7. PICK S : stack \in Seq(S)
    BY DEF IInv, Nested
  <2>8. Len(stack) = n
    OBVIOUS
  <2> HIDE DEF n, v
  <2>9. QED
    BY <2>2, <2>5, <2>6, <2>7, <2>8, PutTyped
<1>6. CASE ReadMessage
  <2> DEFINE n == Len(stack)
             f == Frame(Entry.type, number, pos + 1 + AsInt(Value), ReadInto(Entry, Top.msg))
  <2>1. number \in DOMAIN FieldsOf(Top.kind) /\ Entry.type # "bytes"
    BY <1>6 DEF ReadMessage, LastByteOf, Typed
  <2>2. Top = stack[n] /\ n \in Nat
    BY TopFrame DEF IInv
  <2>3. Entry \in Table(Top.kind)
    BY <2>1, FieldsAreTable DEF Entry
  <2>4. WellTyped(Entry.type, ReadInto(Entry, Top.msg))
    BY <2>3, TypedTop, ReadIntoIsWellTyped DEF FrameTyped
  <2>5. f.kind = Entry.type /\ f.field = number /\ f.msg = ReadInto(Entry, Top.msg)
    BY DEF Frame
  <2>6. stack' = Append(stack, f) /\ pc' # "length"
    BY <1>6 DEF ReadMessage, Goto
  <2> HIDE DEF f
  <2>7. PICK S : stack \in Seq(S)
    BY DEF IInv, Nested
  <2>8. /\ Len(stack') = n + 1 /\ stack'[n + 1] = f
        /\ \A j \in 1 .. n : stack'[j] = stack[j]
    <3>1. stack \in Seq(S \cup {f}) /\ f \in S \cup {f}
      BY <2>7
    <3>2. QED
      BY <2>6, <3>1, AppendProperties
  <2>9. ASSUME NEW i \in 1 .. n + 1 PROVE FrameTyped(stack'[i])
    <3>1. CASE i = n + 1
      BY <2>1, <2>4, <2>5, <2>8, <3>1 DEF FrameTyped
    <3>2. CASE i # n + 1
      <4>1. i \in 1 .. n
        BY <2>2, <3>2
      <4>2. QED
        BY <2>8, <4>1 DEF Typed
    <3>3. QED
      BY <3>1, <3>2
  <2>10. ASSUME NEW i \in 2 .. n + 1 PROVE FieldTyped(stack'[i - 1], stack'[i])
    <3>1. CASE i = n + 1
      <4>1. n \in 1 .. n
        BY <2>2, <3>1
      <4>2. stack'[i - 1] = Top /\ stack'[i] = f
        BY <2>2, <2>8, <3>1, <4>1
      <4>3. QED
        BY <2>1, <2>5, <4>2 DEF FieldTyped, Entry
    <3>2. CASE i # n + 1
      <4>1. i \in 2 .. n /\ i \in 1 .. n /\ i - 1 \in 1 .. n
        BY <2>2, <3>2
      <4>2. FieldTyped(stack[i - 1], stack[i])
        BY <4>1 DEF Typed
      <4>3. QED
        BY <2>8, <4>1, <4>2
    <3>3. QED
      BY <3>1, <3>2
  <2>11. QED
    BY <2>6, <2>8, <2>9, <2>10 DEF Typed
<1>7. CASE Return
  <2> DEFINE n == Len(stack) - 1
             s == SubSeq(stack, 1, n)
             v == Put(stack[n].kind, stack[n].msg, Top.field, Top.msg)
  <2>1. n \in Nat /\ n >= 1 /\ Len(stack) = n + 1 /\ n \in 1 .. Len(stack) /\ n + 1 \in 2 .. Len(stack)
    BY <1>7, TopFrame DEF Return, IInv
  <2>2. PICK S : stack \in Seq(S)
    BY DEF IInv, Nested
  <2>3. s \in Seq(S) /\ Len(s) = n /\ \A j \in 1 .. n : s[j] = stack[j]
    BY <2>1, <2>2, SubSeqProperties
  <2>4. stack[n + 1] = Top
    BY <2>1 DEF Top
  <2>5. FieldTyped(stack[n], Top) /\ FrameTyped(stack[n])
    BY <2>1, <2>4 DEF Typed
  <2>6. FrameTyped(Top)
    BY TypedTop
  <2>7. Sound(Top.kind, Top.msg)
    BY <2>6, MessageIsSound DEF FrameTyped
  <2>8. WellTyped(stack[n].kind, v)
    <3> HIDE DEF n
    <3>1. QED
      BY <2>5, <2>7, PutIsWellTyped DEF FieldTyped, FrameTyped
  <2>9. stack' = [s EXCEPT ![n] = WithMsg(s[n], v)] /\ pc' # "length"
    <3>1. n \in 1 .. n
      BY <2>1
    <3>2. s[n] = stack[n]
      BY <2>3, <3>1
    <3>3. stack' = [s EXCEPT ![n].msg = Put(stack[n].kind, s[n].msg, Top.field, Top.msg)]
      BY <1>7 DEF Return
    <3>4. pc' # "length"
      BY <1>7 DEF Return, Goto
    <3> HIDE DEF s, n
    <3>5. QED
      BY <3>2, <3>3, <3>4 DEF WithMsg
  <2>10. s[n] = stack[n]
    <3>1. n \in 1 .. n
      BY <2>1
    <3>2. QED
      BY <2>3, <3>1
  <2> HIDE DEF n, s, v
  <2>11. QED
    BY <2>1, <2>3, <2>8, <2>9, <2>10, PutTyped
<1>8. CASE SkipFixed \/ SkipGroupEnd \/ SkipVarint \/ SkipLength
  <2>1. UNCHANGED stack /\ pc' # "length"
    BY <1>8 DEF SkipFixed, SkipGroupEnd, SkipVarint, SkipLength, SkipTo, Fail, Goto
  <2>2. QED
    BY <2>1, SameStackTyped
<1>9. CASE UNCHANGED vars
  BY <1>9, SameStackTyped DEF vars, Typed
<1>10. QED
  BY <1>1, <1>2, <1>3, <1>4, <1>5, <1>6, <1>7, <1>8, <1>9 DEF Next

LEMMA StartTyped == ASSUME Init PROVE Typed
<1>1. PICK kind \in Kinds : stack = <<Frame(kind, 0, Len(input.bytes), Empty(kind))>>
  BY DEF Init
<1> DEFINE f == Frame(kind, 0, Len(input.bytes), Empty(kind))
<1>2. f.kind = kind /\ f.msg = Empty(kind)
  BY DEF Frame
<1>3. FrameTyped(f)
  BY <1>2, EmptyIsWellTyped, KindsAre DEF FrameTyped, KindNames
<1> HIDE DEF f
<1>4. stack = <<f>>
  BY <1>1 DEF f
<1>5. Len(stack) = 1 /\ stack[1] = f
  BY <1>4
<1>6. QED
  BY <1>3, <1>5 DEF Init, Typed

LEMMA TypedIsExact == ASSUME IInv, Typed PROVE SizeIsExact
<1>1. 1 \in 1 .. Len(stack)
  BY TopFrame DEF IInv
<1>2. FrameTyped(stack[1])
  BY <1>1 DEF Typed
<1>3. Exact(Marshal(Root, stack[1].msg), SizeOf(Root, stack[1].msg))
  BY <1>2, MessageIsExact DEF FrameTyped, Root
<1>4. QED
  BY <1>3 DEF Exact, SizeIsExact

(* Marshal allocates what Size says and fills it to the last byte, for    *)
(* whatever was read back: every kind of message, of any size.             *)
THEOREM CodecSizeIsExact == Spec => []SizeIsExact
<1>1. Spec => [](IInv /\ Typed)
  <2>1. Init => IInv /\ Typed
    BY Start, StartTyped
  <2>2. IInv /\ Typed /\ [Next]_vars => (IInv /\ Typed)'
    BY Step, TypedStep
  <2>3. QED
    BY <2>1, <2>2, PTL DEF Spec
<1>2. IInv /\ Typed => SizeIsExact
  BY TypedIsExact
<1>3. QED
  BY <1>1, <1>2, PTL
=============================================================================
