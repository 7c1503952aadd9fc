------------------------- MODULE CommandLine_proofs -------------------------
(***************************************************************************)
(* The command line: transactions that are made and signed, for any number *)
(* of keys, kinds of messages, contracts and copies; and the stream        *)
(* between commands, for sessions of any length, data of any size, and     *)
(* every way in which the pipe cuts it.                                    *)
(*                                                                         *)
(* Copies: a command writes a new file or the chain moves a sequence       *)
(* number up, so what a file says of its signatures stays true: each is    *)
(* over the content its signer had (Genuine), with a sequence number that  *)
(* its key had then, hence never ahead of the chain (NotAhead).            *)
(*                                                                         *)
(* Stream: the commands of a session say what the whole stream is, thing   *)
(* by thing (Thing: a size or data of the i-th command, by where its       *)
(* transaction ends in the stream).  What is in the pipe is the part       *)
(* between what was taken and what was put (Flow), so a reader knows where *)
(* it is from how much it has taken: between two transactions (AtSize) or  *)
(* in the data of one (AtData), with the messages of those before it.  A   *)
(* size with no data after it is at one place only, the end (AtDone).      *)
(***************************************************************************)
EXTENDS TxPipeline, TxStream, FiniteSetTheorems, SequenceTheorems, WellFoundedInduction, TLAPS

(* Transactions that are made and signed. *)

ContentOf(sigs) ==
  [form : {"single", "batch", "proposal"}, msgs : Seq(PlainMessage), fee : BOOLEAN,
   multisig : SUBSET Contracts, sigs : sigs]
Statement == ContentOf({<< >>})
Sig == [key : Keys, over : Statement, seq : Nat, had : Statement]
Tx == ContentOf(Seq(Sig))

(* A single transaction has one message. *)
Shaped(tx) == tx.form = "single" => Len(tx.msgs) = 1

(* A signature is over what its signer had. *)
Genuine(tx) == \A i \in DOMAIN tx.sigs : tx.sigs[i].over = tx.sigs[i].had

NotAhead(tx) == \A i \in DOMAIN tx.sigs : tx.sigs[i].seq <= seq[tx.sigs[i].key]

Good(tx) == tx \in Tx /\ Shaped(tx) /\ Genuine(tx) /\ NotAhead(tx)

FilesAreGood == seq \in [Keys -> Nat] /\ \A tx \in files : Good(tx)

LEMMA ContentTypes ==
  ASSUME NEW tx \in Tx
  PROVE  Content(tx) \in Statement
BY DEF Content, Statement, Tx, ContentOf

LEMMA TimesInNat ==
  ASSUME NEW tx \in Tx, NEW k, NEW n \in Nat
  PROVE  Times(tx, k, n) \in Nat
<1>1. IsFiniteSet(1 .. n)
  BY FS_Interval
<1>2. IsFiniteSet({i \in 1 .. n : tx.sigs[i].key = k})
  BY <1>1, FS_Subset
<1>3. QED
  BY <1>2, FS_CardinalityType DEF Times

-----------------------------------------------------------------------------
(* Every command writes a good transaction. *)

LEMMA BareIsGood ==
  ASSUME NEW form \in {"single", "batch", "proposal"}, NEW ms \in Seq(PlainMessage),
         form = "single" => Len(ms) = 1
  PROVE  Good(Bare(form, ms))
BY DEF Good, Bare, Tx, ContentOf, Shaped, Genuine, NotAhead

(* with-fee, with-multisig: the signatures are kept. *)
LEMMA SameSignaturesGood ==
  ASSUME NEW tx, Good(tx), NEW ty \in Tx, ty.sigs = tx.sigs, Shaped(ty)
  PROVE  Good(ty)
BY DEF Good, Genuine, NotAhead

LEMMA ParticipantTypes ==
  ASSUME NEW tx \in Tx, Shaped(tx), tx.form = "single", NEW a \in Keys
  PROVE  LET ty == [tx EXCEPT !.msgs[1].participants = @ \cup {a}]
         IN ty \in Tx /\ ty.sigs = tx.sigs /\ Shaped(ty)
<1> DEFINE m == [tx.msgs[1] EXCEPT !.participants = @ \cup {a}]
           ms == [tx.msgs EXCEPT ![1] = m]
           ty == [tx EXCEPT !.msgs = ms]
<1>1. tx.msgs \in Seq(PlainMessage) /\ Len(tx.msgs) = 1
  BY DEF Tx, ContentOf, Shaped
<1>2. tx.msgs[1] \in PlainMessage
  BY <1>1
<1>3. m \in PlainMessage
  BY <1>2 DEF PlainMessage
<1> HIDE DEF m
<1>4. ms \in Seq(PlainMessage) /\ Len(ms) = 1
  <2>1. ms = <<m>>
    BY <1>1
  <2> HIDE DEF ms
  <2>2. QED
    BY <1>3, <2>1
<1>5. ty \in Tx /\ ty.sigs = tx.sigs /\ Shaped(ty)
  <2> HIDE DEF ms
  <2>1. QED
    BY <1>4 DEF Tx, ContentOf, Shaped
<1>6. [tx EXCEPT !.msgs[1].participants = @ \cup {a}] = ty
  BY DEF m
<1>7. QED
  BY <1>5, <1>6

LEMMA SignedIsGood ==
  ASSUME FilesAreGood, NEW tx, Good(tx), NEW k \in Keys
  PROVE  Good([tx EXCEPT !.sigs = Append(@, Signature(tx, k, seq[k]))])
<1> DEFINE new == Signature(tx, k, seq[k])
           sigs == Append(tx.sigs, new)
           ty == [tx EXCEPT !.sigs = sigs]
<1>1. tx \in Tx /\ tx.sigs \in Seq(Sig) /\ seq \in [Keys -> Nat]
  BY DEF Good, Tx, ContentOf, FilesAreGood
<1>2. /\ new \in Sig /\ new.over = new.had /\ new.key = k /\ new.seq = seq[k]
  BY <1>1, ContentTypes DEF Signature, Sig, GetSignBytes
<1> HIDE DEF new
<1>3. /\ sigs \in Seq(Sig) /\ Len(sigs) = Len(tx.sigs) + 1
      /\ sigs[Len(tx.sigs) + 1] = new
      /\ \A i \in 1 .. Len(tx.sigs) : sigs[i] = tx.sigs[i]
  BY <1>1, <1>2
<1> HIDE DEF sigs
<1>4. ty \in Tx /\ ty.sigs = sigs /\ Shaped(ty)
  BY <1>1, <1>3 DEF Tx, ContentOf, Shaped, Good
<1>5. \A i \in DOMAIN sigs : i \in 1 .. Len(tx.sigs) \/ i = Len(tx.sigs) + 1
  BY <1>1, <1>3
<1>6. Genuine(ty)
  BY <1>1, <1>2, <1>3, <1>4, <1>5 DEF Genuine, Good
<1>7. NotAhead(ty)
  <2>1. \A i \in 1 .. Len(tx.sigs) : tx.sigs[i].seq <= seq[tx.sigs[i].key]
    BY <1>1 DEF NotAhead, Good
  <2>2. seq[k] <= seq[k]
    BY <1>1
  <2>3. QED
    BY <1>2, <1>3, <1>4, <1>5, <2>1, <2>2 DEF NotAhead
<1>8. [tx EXCEPT !.sigs = Append(@, Signature(tx, k, seq[k]))] = ty
  BY DEF new, sigs
<1>9. QED
  BY <1>4, <1>6, <1>7, <1>8 DEF Good

-----------------------------------------------------------------------------
LEMMA CommandKeeps ==
  ASSUME FilesAreGood, NEW tx, Good(tx), Command(tx)
  PROVE  FilesAreGood'
<1>1. seq' = seq /\ files' = files \cup {tx}
  BY DEF Command
<1>2. QED
  BY <1>1 DEF FilesAreGood, Good, NotAhead, Genuine, Shaped

LEMMA SubmitKeeps ==
  ASSUME FilesAreGood, NEW tx \in files, Submit(tx)
  PROVE  FilesAreGood'
<1>1. tx \in Tx /\ Len(tx.sigs) \in Nat /\ seq \in [Keys -> Nat]
  BY DEF FilesAreGood, Good, Tx, ContentOf
<1>2. \A k \in Keys : Times(tx, k, Len(tx.sigs)) \in Nat
  BY <1>1, TimesInNat
<1>3. /\ seq' \in [Keys -> Nat] /\ files' = files
      /\ \A k \in Keys : seq[k] <= seq'[k]
  BY <1>1, <1>2 DEF Submit
<1>4. ASSUME NEW ty \in files PROVE NotAhead(ty)'
  <2>1. /\ ty.sigs \in Seq(Sig)
        /\ \A i \in DOMAIN ty.sigs : ty.sigs[i].seq <= seq[ty.sigs[i].key]
    BY DEF FilesAreGood, Good, NotAhead, Tx, ContentOf
  <2>2. ASSUME NEW i \in DOMAIN ty.sigs PROVE ty.sigs[i].seq <= seq'[ty.sigs[i].key]
    <3>1. ty.sigs[i] \in Sig
      BY <2>1
    <3>2. ty.sigs[i].seq \in Nat /\ ty.sigs[i].key \in Keys
      BY <3>1 DEF Sig
    <3>3. seq[ty.sigs[i].key] \in Nat /\ seq'[ty.sigs[i].key] \in Nat
      BY <1>1, <1>3, <3>2
    <3>4. QED
      BY <1>3, <2>1, <3>2, <3>3
  <2>3. QED
    BY <2>2 DEF NotAhead
<1>5. QED
  BY <1>3, <1>4 DEF FilesAreGood, Good, Genuine, Shaped

LEMMA FilesInit == PipelineInit => FilesAreGood
BY DEF PipelineInit, FilesAreGood

LEMMA FilesStep == FilesAreGood /\ [PipelineNext]_pipelineVars => FilesAreGood'
<1> SUFFICES ASSUME FilesAreGood, [PipelineNext]_pipelineVars PROVE FilesAreGood'
  OBVIOUS
<1>0. \A tx \in files : Good(tx) /\ tx \in Tx /\ Shaped(tx) /\ tx.msgs \in Seq(PlainMessage)
  BY DEF FilesAreGood, Good, Tx, ContentOf
<1>1. ASSUME NEW m \in Messages, Create(m) PROVE FilesAreGood'
  <2>1. <<m>> \in Seq(PlainMessage) /\ Len(<<m>>) = 1
    BY TxPipelineAssumption
  <2>2. QED
    BY <1>1, <2>1, BareIsGood, CommandKeeps DEF Create
<1>2. ASSUME NEW tx \in files, WithFee(tx) PROVE FilesAreGood'
  <2> DEFINE ty == [tx EXCEPT !.fee = TRUE]
  <2>1. ty \in Tx /\ ty.sigs = tx.sigs /\ Shaped(ty)
    BY <1>0 DEF Tx, ContentOf, Shaped
  <2>2. QED
    BY <1>0, <1>2, <2>1, SameSignaturesGood, CommandKeeps DEF WithFee
<1>3. ASSUME NEW tx \in files, NEW c \in Contracts, WithMultisig(tx, c) PROVE FilesAreGood'
  <2> DEFINE ty == [tx EXCEPT !.multisig = @ \cup {c}]
  <2>1. ty \in Tx /\ ty.sigs = tx.sigs /\ Shaped(ty)
    BY <1>0 DEF Tx, ContentOf, Shaped
  <2>2. QED
    BY <1>0, <1>3, <2>1, SameSignaturesGood, CommandKeeps DEF WithMultisig
<1>4. ASSUME NEW tx \in files, NEW a \in Keys, WithParticipant(tx, a) PROVE FilesAreGood'
  <2> DEFINE ty == [tx EXCEPT !.msgs[1].participants = @ \cup {a}]
  <2>1. tx.form = "single" /\ Command(ty)
    BY <1>4 DEF WithParticipant
  <2>2. ty \in Tx /\ ty.sigs = tx.sigs /\ Shaped(ty)
    BY <1>0, <2>1, ParticipantTypes
  <2>3. QED
    BY <1>0, <2>1, <2>2, SameSignaturesGood, CommandKeeps
<1>5. ASSUME NEW tx \in files, NEW ty \in files, AsBatch(tx, ty) PROVE FilesAreGood'
  <2>1. tx.msgs \o ty.msgs \in Seq(PlainMessage)
    BY <1>0
  <2>2. QED
    BY <1>5, <2>1, BareIsGood, CommandKeeps DEF AsBatch
<1>6. ASSUME NEW tx \in files, AsProposal(tx) PROVE FilesAreGood'
  BY <1>0, <1>6, BareIsGood, CommandKeeps DEF AsProposal
<1>7. ASSUME NEW tx \in files, NEW k \in Keys, Sign(tx, k) PROVE FilesAreGood'
  BY <1>0, <1>7, SignedIsGood, CommandKeeps DEF Sign
<1>8. ASSUME NEW tx \in files, Submit(tx) PROVE FilesAreGood'
  BY <1>8, SubmitKeeps
<1>9. CASE UNCHANGED pipelineVars
  BY <1>9 DEF pipelineVars, FilesAreGood, Good, NotAhead, Genuine, Shaped
<1>10. QED
  BY <1>1, <1>2, <1>3, <1>4, <1>5, <1>6, <1>7, <1>8, <1>9 DEF PipelineNext

LEMMA FilesStayGood == PipelineSpec => []FilesAreGood
BY FilesInit, FilesStep, PTL DEF PipelineSpec

-----------------------------------------------------------------------------
(* What the chain accepts is what its signers had before them, with fee    *)
(* and contracts, and the owners of its messages signed it, whatever       *)
(* commands ran in between (cmd_sign.go, cmd_multisig.go, cmd_batch.go).   *)
THEOREM PipelineAcceptedAsSigned == PipelineSpec => []AcceptedAsSigned
<1>1. ASSUME FilesAreGood PROVE AcceptedAsSigned
  <2> SUFFICES ASSUME NEW tx \in files, Accepted(tx)
               PROVE  /\ \A i \in DOMAIN tx.sigs : tx.sigs[i].had = Content(tx)
                      /\ tx.form # "proposal" =>
                           \A i \in DOMAIN tx.msgs :
                             \E j \in DOMAIN tx.sigs : tx.sigs[j].key = tx.msgs[i].owner
    BY DEF AcceptedAsSigned
  <2>1. \A i \in DOMAIN tx.sigs : tx.sigs[i].had = Content(tx)
    BY <1>1 DEF FilesAreGood, Good, Genuine, Accepted, Verified, GetSignBytes
  <2>2. tx.form # "proposal" => \A i \in DOMAIN tx.msgs : tx.msgs[i].owner \in Signers(tx)
    BY DEF Accepted, Consented
  <2>3. QED
    BY <2>1, <2>2 DEF Signers
<1>2. QED
  BY <1>1, FilesStayGood, PTL

(* What is refused was changed after it was signed, or overtaken by        *)
(* another transaction of a signer, or signed twice by one key, or not     *)
(* signed by an owner: people may sign one after the other.                *)
THEOREM PipelineRefusedForCause == PipelineSpec => []RefusedForCause
<1>1. ASSUME FilesAreGood PROVE RefusedForCause
  <2> SUFFICES ASSUME NEW tx \in files, Consented(tx),
                      \A i \in DOMAIN tx.sigs :
                        tx.sigs[i].had = Content(tx) /\ ~(tx.sigs[i].seq < seq[tx.sigs[i].key]),
                      \A i, j \in DOMAIN tx.sigs : i # j => tx.sigs[i].key # tx.sigs[j].key
               PROVE  Accepted(tx)
    BY DEF RefusedForCause
  <2>1. tx.sigs \in Seq(Sig) /\ seq \in [Keys -> Nat] /\ Genuine(tx) /\ NotAhead(tx)
    BY <1>1 DEF FilesAreGood, Good, Tx, ContentOf
  <2>2. ASSUME NEW i \in DOMAIN tx.sigs
        PROVE  /\ tx.sigs[i].over = GetSignBytes(tx)
               /\ tx.sigs[i].seq = seq[tx.sigs[i].key] + Times(tx, tx.sigs[i].key, i - 1)
    <3>1. i \in 1 .. Len(tx.sigs) /\ tx.sigs[i] \in Sig
      BY <2>1
    <3>2. tx.sigs[i].seq = seq[tx.sigs[i].key] /\ seq[tx.sigs[i].key] \in Nat
      <4>1. tx.sigs[i].seq \in Nat /\ seq[tx.sigs[i].key] \in Nat
        BY <2>1, <3>1 DEF Sig
      <4>2. tx.sigs[i].seq <= seq[tx.sigs[i].key] /\ ~(tx.sigs[i].seq < seq[tx.sigs[i].key])
        BY <2>1 DEF NotAhead
      <4>3. QED
        BY <4>1, <4>2
    <3>3. {j \in 1 .. i - 1 : tx.sigs[j].key = tx.sigs[i].key} = {}
      <4>1. \A j \in 1 .. i - 1 : j \in DOMAIN tx.sigs /\ j # i
        BY <2>1, <3>1
      <4>2. QED
        BY <4>1
    <3>4. Times(tx, tx.sigs[i].key, i - 1) = 0
      BY <3>3, FS_EmptySet DEF Times
    <3>5. QED
      BY <2>1, <3>2, <3>4 DEF Genuine, GetSignBytes
  <2>3. QED
    BY <2>2 DEF Accepted, Verified
<1>2. QED
  BY <1>1, FilesStayGood, PTL

-----------------------------------------------------------------------------
(* The stream.  First, loops in general. *)

(* Induction up to N, for a set instead of a predicate. *)
LEMMA UpTo ==
  ASSUME NEW N \in Nat, NEW S, 0 \in S,
         \A n \in 0 .. N - 1 : n \in S => n + 1 \in S
  PROVE  0 .. N \subseteq S
<1> DEFINE bad == (0 .. N) \ S
<1> SUFFICES ASSUME bad # {} PROVE FALSE
  OBVIOUS
<1>1. bad \subseteq Nat
  OBVIOUS
<1>2. PICK m \in bad : \A j \in bad : ~(<<j, m>> \in OpToRel(<, Nat))
  BY <1>1, NatLessThanWellFounded, WFMin
<1>3. m \in 0 .. N /\ m \notin S /\ \A j \in bad : ~(j < m)
  BY <1>1, <1>2 DEF OpToRel
<1>4. m - 1 \in 0 .. N - 1 /\ m - 1 \notin bad
  BY <1>3
<1>5. QED
  BY <1>3, <1>4

(* f records a loop over 1 .. N that starts at a and goes from x to        *)
(* step[n][x].                                                             *)
IsLoop(f, N, S, a, step) ==
  /\ f \in [0 .. N -> S]
  /\ f = [n \in 0 .. N |-> IF n = 0 THEN a ELSE step[n][f[n - 1]]]

LEMMA LoopExists ==
  ASSUME NEW N \in Nat, NEW S, NEW a \in S, NEW step \in [1 .. N -> [S -> S]]
  PROVE  \E f : IsLoop(f, N, S, a, step)
<1> DEFINE Loop(f, n) == IsLoop(f, n, S, a, step)
           Reached == {n \in 0 .. N : \E f : Loop(f, n)}
<1>1. 0 \in Reached
  <2> DEFINE f == [i \in 0 .. 0 |-> a]
  <2>1. Loop(f, 0)
    BY DEF IsLoop
  <2> HIDE DEF Loop, f
  <2>2. QED
    BY <2>1
<1>2. ASSUME NEW n \in 0 .. N - 1, n \in Reached PROVE n + 1 \in Reached
  <2>1. PICK f : Loop(f, n)
    BY <1>2
  <2> USE DEF IsLoop
  <2> DEFINE g == [i \in 0 .. n + 1 |-> IF i = n + 1 THEN step[n + 1][f[n]] ELSE f[i]]
             h == [i \in 0 .. n + 1 |-> IF i = 0 THEN a ELSE step[i][g[i - 1]]]
  <2>2. f[n] \in S /\ n + 1 \in 1 .. N
    BY <2>1
  <2>3. step[n + 1] \in [S -> S]
    BY <2>2
  <2>4. step[n + 1][f[n]] \in S
    BY <2>2, <2>3
  <2>5. g \in [0 .. n + 1 -> S]
    BY <2>1, <2>4
  <2>6. ASSUME NEW i \in 0 .. n + 1 PROVE g[i] = h[i]
    <3>1. CASE i = n + 1
      <4>1. g[i - 1] = f[n]
        BY <3>1
      <4>2. QED
        BY <3>1, <4>1
    <3>2. CASE i # n + 1
      <4>1. i \in 0 .. n
        BY <3>2
      <4>2. g[i] = f[i] /\ (i # 0 => g[i - 1] = f[i - 1])
        BY <4>1
      <4>3. f[i] = IF i = 0 THEN a ELSE step[i][f[i - 1]]
        BY <2>1, <4>1
      <4>4. QED
        BY <4>2, <4>3
    <3>3. QED
      BY <3>1, <3>2
  <2>7. g = h
    BY <2>6
  <2> HIDE DEF g
  <2>8. Loop(g, n + 1)
    BY <2>5, <2>7
  <2> HIDE DEF Loop
  <2>9. QED
    BY <2>8
<1>3. N \in Reached
  <2> HIDE DEF Reached
  <2>1. 0 .. N \subseteq Reached
    BY <1>1, <1>2, UpTo
  <2>2. QED
    BY <2>1
<1>4. QED
  BY <1>3

-----------------------------------------------------------------------------
(* The session. *)

Commands == Range(typed)
Upto == 0 .. Len(typed)
Prints(i) == Message(typed[i]) # {}

(* Where the transaction of the n-th command ends in the stream. *)
ends[n \in 0 .. Len(typed)] ==
  IF n = 0 THEN 0 ELSE IF Prints(n) THEN ends[n - 1] + 1 + Size[n] ELSE ends[n - 1]

SessionOK ==
  /\ typed \in Seq(Commands) /\ Len(typed) <= Len(Size)
  /\ reader \in {"as-batch", "set-validators", "as-proposal"} /\ piped \in BOOLEAN

LEMMA SizeTypes == ASSUME SessionOK, NEW i \in 1 .. Len(typed) PROVE Size[i] \in Nat \ {0}
BY TxStreamAssumption DEF SessionOK

LEMMA PrintedLoop ==
  ASSUME SessionOK
  PROVE  /\ printed \in [Upto -> Seq(Commands)] /\ printed[0] = << >>
         /\ \A n \in 1 .. Len(typed) :
              printed[n] = IF Prints(n) THEN Append(printed[n - 1], typed[n]) ELSE printed[n - 1]
<1> DEFINE S == Seq(Commands)
           N == Len(typed)
           step == [n \in 1 .. N |-> [s \in S |->
                     IF Message(typed[n]) = {} THEN s ELSE Append(s, typed[n])]]
           IsPrinted(f) == f = [n \in 0 .. N |->
             IF n = 0 THEN << >>
             ELSE IF Message(typed[n]) = {} THEN f[n - 1] ELSE Append(f[n - 1], typed[n])]
<1>1. N \in Nat /\ << >> \in S /\ \A n \in 1 .. N : typed[n] \in Commands
  BY DEF SessionOK
<1>2. step \in [1 .. N -> [S -> S]]
  <2> SUFFICES ASSUME NEW n \in 1 .. N, NEW s \in S
               PROVE  (IF Message(typed[n]) = {} THEN s ELSE Append(s, typed[n])) \in S
    OBVIOUS
  <2>1. QED
    BY <1>1
<1>3. \A n \in 1 .. N, s \in S :
        step[n][s] = IF Message(typed[n]) = {} THEN s ELSE Append(s, typed[n])
  OBVIOUS
<1> HIDE DEF step
<1>4. PICK f \in [0 .. N -> S] : f = [n \in 0 .. N |-> IF n = 0 THEN << >> ELSE step[n][f[n - 1]]]
  <2> HIDE DEF S, N
  <2>1. \E f : IsLoop(f, N, S, << >>, step)
    BY <1>1, <1>2, LoopExists
  <2>2. QED
    BY <2>1 DEF IsLoop
<1>5. IsPrinted(f)
  <2>1. \A n \in 0 .. N : n # 0 =>
          step[n][f[n - 1]] = IF Message(typed[n]) = {} THEN f[n - 1] ELSE Append(f[n - 1], typed[n])
    <3> SUFFICES ASSUME NEW n \in 0 .. N, n # 0
                 PROVE  n \in 1 .. N /\ f[n - 1] \in S
      BY <1>3
    <3>1. QED
      BY <1>1, <1>4
  <2>2. QED
    BY <1>4, <2>1
<1>6. IsPrinted(printed)
  <2>1. printed = CHOOSE g : IsPrinted(g)
    BY DEF printed
  <2> HIDE DEF IsPrinted
  <2>2. QED
    BY <1>5, <2>1
<1>7. DOMAIN printed = 0 .. N /\ printed[0] = << >>
      /\ \A n \in 1 .. N : printed[n] =
           IF Message(typed[n]) = {} THEN printed[n - 1] ELSE Append(printed[n - 1], typed[n])
  <2>1. \A n \in 0 .. N : printed[n] =
          IF n = 0 THEN << >>
          ELSE IF Message(typed[n]) = {} THEN printed[n - 1] ELSE Append(printed[n - 1], typed[n])
    BY <1>6
  <2>2. DOMAIN printed = 0 .. N
    BY <1>6
  <2>3. \A n \in 1 .. N : n \in 0 .. N /\ n # 0
    OBVIOUS
  <2>4. printed[0] = << >>
    BY <1>1, <2>1
  <2> HIDE DEF N
  <2>5. QED
    BY <2>1, <2>2, <2>3, <2>4
<1> DEFINE T == {n \in 0 .. N : printed[n] \in S}
<1>8. 0 \in T
  <2>1. 0 \in 0 .. N /\ printed[0] \in S
    BY <1>1, <1>7
  <2> HIDE DEF S
  <2>2. QED
    BY <2>1
<1>9. ASSUME NEW n \in 0 .. N - 1, n \in T PROVE n + 1 \in T
  <2>1. n + 1 \in 1 .. N /\ n + 1 - 1 = n /\ typed[n + 1] \in Commands /\ printed[n] \in Seq(Commands)
    BY <1>1, <1>9
  <2>2. printed[n + 1] = IF Message(typed[n + 1]) = {} THEN printed[n] ELSE Append(printed[n], typed[n + 1])
    <3> DEFINE k == n + 1
    <3>1. k \in 1 .. N /\ k - 1 = n
      BY <2>1
    <3> HIDE DEF k, N
    <3>2. printed[k] = IF Message(typed[k]) = {} THEN printed[n] ELSE Append(printed[n], typed[k])
      BY <1>7, <3>1
    <3>3. QED
      BY <3>2 DEF k
  <2>3. printed[n + 1] \in Seq(Commands)
    BY <2>1, <2>2
  <2>4. QED
    BY <2>1, <2>3
<1>10. 0 .. N \subseteq T
  <2> HIDE DEF T, N
  <2>1. QED
    BY <1>1, <1>8, <1>9, UpTo
<1>11. printed = [n \in 0 .. N |-> printed[n]]
  BY <1>6
<1>12. printed \in [0 .. N -> S]
  BY <1>10, <1>11
<1>13. QED
  BY <1>7, <1>12 DEF Upto, Prints

LEMMA EndsLoop ==
  ASSUME SessionOK
  PROVE  /\ ends \in [Upto -> Nat] /\ ends[0] = 0
         /\ \A n \in 1 .. Len(typed) :
              ends[n] = IF Prints(n) THEN ends[n - 1] + 1 + Size[n] ELSE ends[n - 1]
<1> DEFINE N == Len(typed)
           step == [n \in 1 .. N |-> [s \in Nat |-> IF Prints(n) THEN s + 1 + Size[n] ELSE s]]
           IsEnds(f) == f = [n \in 0 .. N |->
             IF n = 0 THEN 0 ELSE IF Prints(n) THEN f[n - 1] + 1 + Size[n] ELSE f[n - 1]]
<1>1. N \in Nat /\ \A n \in 1 .. N : Size[n] \in Nat
  BY SizeTypes DEF SessionOK
<1>2. step \in [1 .. N -> [Nat -> Nat]]
  BY <1>1
<1>3. \A n \in 1 .. N, s \in Nat : step[n][s] = IF Prints(n) THEN s + 1 + Size[n] ELSE s
  OBVIOUS
<1> HIDE DEF step
<1>4. PICK f \in [0 .. N -> Nat] : f = [n \in 0 .. N |-> IF n = 0 THEN 0 ELSE step[n][f[n - 1]]]
  <2>1. 0 \in Nat
    OBVIOUS
  <2> HIDE DEF N
  <2>2. \E f : IsLoop(f, N, Nat, 0, step)
    BY <1>1, <1>2, <2>1, LoopExists
  <2>3. QED
    BY <2>2 DEF IsLoop
<1>5. IsEnds(f)
  <2>1. \A n \in 0 .. N : n # 0 =>
          step[n][f[n - 1]] = IF Prints(n) THEN f[n - 1] + 1 + Size[n] ELSE f[n - 1]
    <3> SUFFICES ASSUME NEW n \in 0 .. N, n # 0
                 PROVE  n \in 1 .. N /\ f[n - 1] \in Nat
      BY <1>3
    <3>1. QED
      BY <1>1, <1>4
  <2>2. QED
    BY <1>4, <2>1
<1>6. IsEnds(ends)
  <2>1. ends = CHOOSE g : IsEnds(g)
    BY DEF ends
  <2> HIDE DEF IsEnds
  <2>2. QED
    BY <1>5, <2>1
<1>7. ends[0] = 0
      /\ \A n \in 1 .. N : ends[n] = IF Prints(n) THEN ends[n - 1] + 1 + Size[n] ELSE ends[n - 1]
  <2>1. \A n \in 0 .. N : ends[n] =
          IF n = 0 THEN 0 ELSE IF Prints(n) THEN ends[n - 1] + 1 + Size[n] ELSE ends[n - 1]
    BY <1>6
  <2>2. \A n \in 1 .. N : n \in 0 .. N /\ n # 0
    OBVIOUS
  <2>3. QED
    BY <1>1, <2>1, <2>2
<1> DEFINE T == {n \in 0 .. N : ends[n] \in Nat}
<1>8. 0 \in T
  BY <1>1, <1>7
<1>9. ASSUME NEW n \in 0 .. N - 1, n \in T PROVE n + 1 \in T
  <2>1. n + 1 \in 1 .. N /\ n + 1 - 1 = n /\ Size[n + 1] \in Nat /\ ends[n] \in Nat
    BY <1>1, <1>9
  <2>2. QED
    BY <1>7, <2>1
<1>10. 0 .. N \subseteq T
  <2> HIDE DEF T, N
  <2>1. QED
    BY <1>1, <1>8, <1>9, UpTo
<1>11. ends = [n \in 0 .. N |-> ends[n]]
  BY <1>6
<1>12. ends \in [0 .. N -> Nat]
  BY <1>10, <1>11
<1>13. QED
  BY <1>7, <1>12 DEF Upto

LEMMA AppendKeepsFirst ==
  ASSUME NEW S, NEW s \in Seq(S), s # << >>, NEW x \in S
  PROVE  Append(s, x) # << >> /\ Append(s, x)[1] = s[1]
<1>1. Len(s) \in Nat /\ Len(s) >= 1
  OBVIOUS
<1>2. 1 \in 1 .. Len(s)
  BY <1>1
<1>3. QED
  BY <1>2

(* A later transaction ends later, and between equal ends nothing was     *)
(* written.                                                                *)
LEMMA EndsGrow ==
  ASSUME SessionOK, NEW i \in Upto, NEW j \in Upto, i <= j
  PROVE  /\ ends[i] <= ends[j]
         /\ ends[i] = ends[j] => printed[i] = printed[j]
         /\ printed[i] # << >> => printed[j] # << >> /\ printed[j][1] = printed[i][1]
<1> DEFINE N == Len(typed)
           Fine(k) == /\ ends[i] <= ends[k]
                      /\ ends[i] = ends[k] => printed[i] = printed[k]
                      /\ printed[i] # << >> => printed[k] # << >> /\ printed[k][1] = printed[i][1]
           T == {d \in 0 .. N - i : Fine(i + d)}
<1>1. N \in Nat /\ i \in 0 .. N /\ j \in 0 .. N /\ N - i \in Nat /\ j - i \in 0 .. N - i
  BY DEF Upto, SessionOK
<1>2. 0 \in T
  <2>1. ends[i] \in Nat /\ i + 0 = i
    BY <1>1, EndsLoop
  <2>2. QED
    BY <1>1, <2>1
<1>3. ASSUME NEW d \in 0 .. (N - i) - 1, d \in T PROVE d + 1 \in T
  <2> DEFINE k == i + d
  <2>1. k + 1 \in 1 .. N /\ k \in Upto /\ k + 1 \in Upto /\ k + 1 - 1 = k /\ i + (d + 1) = k + 1
    BY <1>1 DEF Upto
  <2>2. Fine(k)
    BY <1>3
  <2> HIDE DEF k
  <2>3. /\ ends[k] \in Nat /\ ends[i] \in Nat
        /\ ends[k + 1] = IF Prints(k + 1) THEN ends[k] + 1 + Size[k + 1] ELSE ends[k]
        /\ printed[k] \in Seq(Commands)
        /\ printed[k + 1] = IF Prints(k + 1) THEN Append(printed[k], typed[k + 1]) ELSE printed[k]
    <3> DEFINE l == k + 1
    <3>1. l \in 1 .. Len(typed) /\ l - 1 = k
      BY <2>1 DEF l, N, Upto
    <3> HIDE DEF l
    <3>2. /\ ends[k] \in Nat /\ ends[i] \in Nat /\ printed[k] \in Seq(Commands)
      BY <2>1, EndsLoop, PrintedLoop
    <3>3. ends[l] = IF Prints(l) THEN ends[k] + 1 + Size[l] ELSE ends[k]
      BY <3>1, EndsLoop
    <3>4. printed[l] = IF Prints(l) THEN Append(printed[k], typed[l]) ELSE printed[k]
      BY <3>1, PrintedLoop
    <3>5. QED
      BY <3>2, <3>3, <3>4 DEF l
  <2>4. Size[k + 1] \in Nat /\ typed[k + 1] \in Commands
    BY <2>1, SizeTypes DEF SessionOK
  <2>5. printed[k] # << >> /\ Prints(k + 1) => printed[k + 1] # << >> /\ printed[k + 1][1] = printed[k][1]
    <3> SUFFICES ASSUME printed[k] # << >>, Prints(k + 1)
                 PROVE  printed[k + 1] # << >> /\ printed[k + 1][1] = printed[k][1]
      OBVIOUS
    <3>1. /\ Append(printed[k], typed[k + 1]) # << >>
          /\ Append(printed[k], typed[k + 1])[1] = printed[k][1]
      BY <2>3, <2>4, AppendKeepsFirst
    <3>2. QED
      BY <2>3, <3>1
  <2>6. Fine(k + 1)
    <3>1. CASE Prints(k + 1)
      <4>1. ends[k + 1] = ends[k] + 1 + Size[k + 1]
        BY <2>3, <3>1
      <4>2. ends[i] <= ends[k + 1] /\ ends[i] # ends[k + 1]
        <5>1. ends[i] \in Nat /\ ends[k] \in Nat /\ ends[i] <= ends[k]
          BY <2>2, <2>3
        <5>2. QED
          BY <2>4, <4>1, <5>1
      <4>3. printed[i] # << >> => printed[k + 1] # << >> /\ printed[k + 1][1] = printed[i][1]
        BY <2>2, <2>5, <3>1
      <4>4. QED
        BY <4>2, <4>3
    <3>2. CASE ~Prints(k + 1)
      <4>1. ends[k + 1] = ends[k] /\ printed[k + 1] = printed[k]
        BY <2>3, <3>2
      <4>2. QED
        BY <2>2, <4>1
    <3>3. QED
      BY <3>1, <3>2
  <2>7. QED
    BY <1>1, <2>1, <2>6
<1>4. j - i \in T
  <2> HIDE DEF T, N
  <2>1. 0 .. N - i \subseteq T
    BY <1>1, <1>2, <1>3, UpTo
  <2>2. QED
    BY <1>1, <2>1
<1>5. i + (j - i) = j
  BY <1>1
<1>6. QED
  BY <1>4, <1>5

-----------------------------------------------------------------------------
(* The invariant. *)

Item == (1 .. Len(typed)) \X {"size", "data"}
AnyMessage == (UNION {Message(c) : c \in Commands}) \cup {EmptyResolution}

(* x is what the stream has at offset o. *)
Thing(x, o) == \E i \in 1 .. Len(typed) :
  /\ ends[i - 1] < o /\ o <= ends[i]
  /\ x = <<i, IF o = ends[i - 1] + 1 THEN "size" ELSE "data">>

(* How much was written, and how much of it was taken out of the pipe. *)
Wrote == ends[writing.cmd - 1]
  + (IF writing.left = 0 THEN 0 ELSE 1 + Size[writing.cmd] - writing.left)
Gone == Wrote - Len(pipe)

TypeOK ==
  /\ SessionOK
  /\ writing \in [cmd : 1 .. Len(typed) + 1, left : Nat]
  /\ writing.left > 0 =>
       /\ writing.cmd <= Len(typed) /\ Prints(writing.cmd)
       /\ writing.left <= Size[writing.cmd]
  /\ closed \in {"no", "finished", "died"}
  /\ pipe \in Seq(Item)
  /\ reading \in {"size", "data", "done", "failed"}
  /\ raw \in Seq(Item) /\ need \in Nat
  /\ msgs \in Seq(AnyMessage)

(* The pipe holds the stream from where it was taken to where it was put. *)
Flow == Len(pipe) <= Wrote /\ \A k \in 1 .. Len(pipe) : Thing(pipe[k], Gone + k)

Matches(ms, cs) == Len(ms) = Len(cs) /\ \A i \in DOMAIN ms : ms[i] \in Message(cs[i])

(* The reader has taken the messages of the first i commands. *)
Before(i) == Matches(msgs, printed[i]) /\ (reader = "set-validators" => printed[i] = << >>)

(* It waits for a size, between two transactions. *)
AtSize == reading = "size" /\ reader # "as-proposal" =>
  \E i \in 0 .. writing.cmd - 1 : Gone = ends[i] /\ Before(i)

(* It is in the data of the i-th. *)
Inside(i) ==
  /\ Prints(i) /\ need = Size[i]
  /\ Gone = ends[i - 1] + 1 + Len(raw) /\ Len(raw) < need
  /\ \A k \in 1 .. Len(raw) : raw[k] = <<i, "data">>
  /\ Before(i - 1)
AtData == reading = "data" => reader # "as-proposal" /\ \E i \in 1 .. Len(typed) : Inside(i)

Collecting == reading = "size" /\ reader = "as-proposal" =>
  /\ Gone = Len(raw) /\ msgs = << >>
  /\ \A k \in 1 .. Len(raw) : Thing(raw[k], k)

(* A reader that takes one transaction has the first that was written. *)
FirstOnly ==
  /\ reader # "as-batch" /\ Written # << >>
  /\ Len(msgs) = 1 /\ msgs[1] \in Message(Written[1])

Outcome ==
  /\ \/ Matches(msgs, Taken(Written))
     \/ reader = "as-proposal" /\ Written = << >> /\ msgs = <<EmptyResolution>>
  /\ reader = "as-batch" \/ Written = << >> =>
       writing.left \in {0} \cup {Size[i] : i \in {writing.cmd} \cap DOMAIN typed}

AtDone == reading = "done" /\ piped => (closed # "no" /\ Outcome) \/ FirstOnly

IInv == TypeOK /\ Flow /\ AtSize /\ AtData /\ Collecting /\ AtDone

-----------------------------------------------------------------------------
(* Offsets. *)

LEMMA SameSession ==
  ASSUME UNCHANGED typed
  PROVE  printed' = printed /\ ends' = ends /\ Commands' = Commands /\ Item' = Item
         /\ AnyMessage' = AnyMessage
BY DEF printed, ends, Commands, Item, AnyMessage, Prints

LEMMA OneEnd ==
  ASSUME SessionOK, NEW i \in 1 .. Len(typed)
  PROVE  /\ i \in Upto /\ i - 1 \in Upto /\ i \in Nat
         /\ ends[i] \in Nat /\ ends[i - 1] \in Nat /\ Size[i] \in Nat /\ Size[i] >= 1
         /\ printed[i] \in Seq(Commands) /\ printed[i - 1] \in Seq(Commands)
         /\ typed[i] \in Commands
         /\ Prints(i) => ends[i] = ends[i - 1] + 1 + Size[i]
                         /\ printed[i] = Append(printed[i - 1], typed[i])
         /\ ~Prints(i) => ends[i] = ends[i - 1] /\ printed[i] = printed[i - 1]
<1>1. i \in Upto /\ i - 1 \in Upto /\ typed[i] \in Commands /\ i \in Nat
  BY DEF Upto, SessionOK
<1>2. Size[i] \in Nat /\ Size[i] >= 1
  BY SizeTypes
<1> DEFINE h == i - 1
<1>3. h \in Upto
  BY <1>1
<1>4. ends[i] = IF Prints(i) THEN ends[h] + 1 + Size[i] ELSE ends[h]
  BY EndsLoop
<1>5. printed[i] = IF Prints(i) THEN Append(printed[h], typed[i]) ELSE printed[h]
  BY PrintedLoop
<1> HIDE DEF h
<1>6. /\ ends[i] \in Nat /\ ends[h] \in Nat
      /\ printed[i] \in Seq(Commands) /\ printed[h] \in Seq(Commands)
  BY <1>1, <1>3, EndsLoop, PrintedLoop
<1>7. QED
  BY <1>1, <1>2, <1>3, <1>4, <1>5, <1>6 DEF h

(* An offset belongs to one transaction. *)
LEMMA OneThing ==
  ASSUME SessionOK, NEW i \in 1 .. Len(typed), NEW j \in 1 .. Len(typed), NEW o \in Int,
         ends[i - 1] < o, o <= ends[i], ends[j - 1] < o, o <= ends[j]
  PROVE  i = j
<1>1. /\ i - 1 \in Upto /\ j - 1 \in Upto /\ i \in Upto /\ j \in Upto
      /\ ends[i] \in Nat /\ ends[j] \in Nat /\ ends[i - 1] \in Nat /\ ends[j - 1] \in Nat
  BY OneEnd
<1>2. ASSUME i < j PROVE FALSE
  <2>1. i <= j - 1
    BY <1>2
  <2>2. ends[i] <= ends[j - 1]
    BY <1>1, <2>1, EndsGrow
  <2>3. QED
    BY <1>1, <2>2
<1>3. ASSUME j < i PROVE FALSE
  <2>1. j <= i - 1
    BY <1>3
  <2>2. ends[j] <= ends[i - 1]
    BY <1>1, <2>1, EndsGrow
  <2>3. QED
    BY <1>1, <2>2
<1>4. QED
  BY <1>2, <1>3

LEMMA WroteTypes ==
  ASSUME TypeOK
  PROVE  /\ SessionOK /\ Len(typed) \in Nat /\ Len(pipe) \in Nat /\ Len(raw) \in Nat
         /\ writing.cmd \in Nat /\ writing.cmd >= 1 /\ writing.cmd <= Len(typed) + 1
         /\ writing.left \in Nat /\ writing.cmd - 1 \in Upto
         /\ ends[writing.cmd - 1] \in Nat /\ Wrote \in Nat /\ Gone \in Int
         /\ Written \in Seq(Commands)
         /\ writing.left = 0 => Wrote = ends[writing.cmd - 1]
         /\ writing.left > 0 =>
              /\ writing.cmd \in 1 .. Len(typed) /\ Prints(writing.cmd)
              /\ ends[writing.cmd - 1] < Wrote /\ Wrote < ends[writing.cmd]
              /\ Wrote = ends[writing.cmd - 1] + 1 + Size[writing.cmd] - writing.left
              /\ ends[writing.cmd] = ends[writing.cmd - 1] + 1 + Size[writing.cmd]
<1>1. /\ SessionOK /\ Len(typed) \in Nat /\ Len(pipe) \in Nat /\ Len(raw) \in Nat
      /\ writing.cmd \in Nat /\ writing.cmd >= 1 /\ writing.cmd <= Len(typed) + 1
      /\ writing.left \in Nat
  BY DEF TypeOK, SessionOK
<1>2. writing.cmd - 1 \in Upto
  BY <1>1 DEF Upto
<1>3. ends[writing.cmd - 1] \in Nat /\ Written \in Seq(Commands)
  BY <1>1, <1>2, EndsLoop, PrintedLoop DEF Written
<1>4. CASE writing.left = 0
  <2>1. Wrote = ends[writing.cmd - 1]
    BY <1>3, <1>4 DEF Wrote
  <2>2. QED
    BY <1>1, <1>2, <1>3, <1>4, <2>1 DEF Gone
<1>5. CASE writing.left > 0
  <2>1. writing.cmd \in 1 .. Len(typed) /\ Prints(writing.cmd) /\ writing.left <= Size[writing.cmd]
    BY <1>1, <1>5 DEF TypeOK
  <2>2. /\ Size[writing.cmd] \in Nat
        /\ ends[writing.cmd] = ends[writing.cmd - 1] + 1 + Size[writing.cmd]
    BY <1>1, <2>1, OneEnd
  <2>3. Wrote = ends[writing.cmd - 1] + 1 + Size[writing.cmd] - writing.left
    <3>1. writing.left # 0
      BY <1>5
    <3> DEFINE e == ends[writing.cmd - 1]
               l == writing.left
               z == Size[writing.cmd]
    <3>2. Wrote = e + (1 + z - l)
      BY <3>1 DEF Wrote
    <3>3. e \in Nat /\ l \in Nat /\ z \in Nat
      BY <1>1, <1>3, <2>2
    <3> HIDE DEF e, l, z
    <3>4. e + (1 + z - l) = e + 1 + z - l
      BY <3>3
    <3>5. QED
      BY <3>2, <3>4 DEF e, l, z
  <2> HIDE DEF Wrote
  <2>4. Wrote \in Nat /\ ends[writing.cmd - 1] < Wrote /\ Wrote < ends[writing.cmd]
    <3> DEFINE e == ends[writing.cmd - 1]
               l == writing.left
               z == Size[writing.cmd]
    <3>1. e \in Nat /\ l \in Nat /\ l > 0 /\ z \in Nat /\ l <= z
          /\ ends[writing.cmd] = e + 1 + z /\ Wrote = e + 1 + z - l
      BY <1>1, <1>3, <1>5, <2>1, <2>2, <2>3
    <3> HIDE DEF e, l, z
    <3>2. Wrote \in Nat /\ e < Wrote /\ Wrote < ends[writing.cmd]
      BY <3>1
    <3>3. QED
      BY <3>2 DEF e
  <2>5. Gone \in Int
    BY <1>1, <2>4 DEF Gone
  <2>6. writing.left # 0
    BY <1>5
  <2>7. QED
    BY <1>1, <1>2, <1>3, <2>1, <2>2, <2>3, <2>4, <2>5, <2>6
<1>6. QED
  BY <1>1, <1>4, <1>5

(* A transaction all of which was written is one of a command before. *)
LEMMA WrittenWhole ==
  ASSUME TypeOK, NEW i \in 1 .. Len(typed), Prints(i), ends[i] <= Wrote
  PROVE  i \in 0 .. writing.cmd - 1
<1>0. SessionOK
  BY WroteTypes
<1>1. /\ i \in Upto /\ i - 1 \in Upto /\ i \in Nat /\ ends[i - 1] \in Nat /\ ends[i] \in Nat
      /\ ends[i - 1] < ends[i]
  <2>1. /\ i \in Upto /\ i - 1 \in Upto /\ i \in Nat /\ ends[i - 1] \in Nat /\ ends[i] \in Nat
        /\ ends[i] = ends[i - 1] + 1 + Size[i] /\ Size[i] \in Nat
    BY <1>0, OneEnd
  <2>2. QED
    BY <2>1
<1>2. SUFFICES ASSUME writing.cmd <= i PROVE FALSE
  BY <1>1, WroteTypes
<1>3. CASE writing.left = 0
  <2>1. writing.cmd - 1 <= i - 1
    BY <1>1, <1>2, WroteTypes
  <2>2. ends[writing.cmd - 1] <= ends[i - 1]
    BY <1>1, <2>1, WroteTypes, EndsGrow
  <2>3. QED
    BY <1>1, <1>3, <2>2, WroteTypes
<1>4. CASE writing.left > 0
  <2>1. writing.cmd \in Upto /\ ends[writing.cmd] \in Nat /\ Wrote < ends[writing.cmd] /\ Wrote \in Nat
    BY <1>4, WroteTypes, OneEnd
  <2>2. ends[writing.cmd] <= ends[i]
    BY <1>1, <1>2, <2>1, WroteTypes, EndsGrow
  <2>3. QED
    BY <1>1, <2>1, <2>2
<1>5. QED
  BY <1>3, <1>4, WroteTypes

(* A transaction of which anything was written is not a later one. *)
LEMMA WrittenPartly ==
  ASSUME TypeOK, NEW i \in 1 .. Len(typed), ends[i - 1] < Wrote
  PROVE  i <= writing.cmd
<1>1. i \in Upto /\ i - 1 \in Upto /\ i \in Nat /\ ends[i - 1] \in Nat
  BY WroteTypes, OneEnd
<1>2. SUFFICES ASSUME writing.cmd <= i - 1 PROVE FALSE
  BY <1>1, WroteTypes
<1>3. writing.cmd \in 1 .. Len(typed)
  BY <1>1, <1>2, WroteTypes
<1>4. writing.cmd \in Upto /\ ends[writing.cmd] \in Nat /\ ends[writing.cmd] <= ends[i - 1]
  BY <1>1, <1>2, <1>3, WroteTypes, OneEnd, EndsGrow
<1>5. Wrote <= ends[writing.cmd]
  <2>1. /\ writing.cmd \in Nat /\ writing.cmd - 1 \in Upto /\ SessionOK /\ Wrote \in Nat
        /\ ends[writing.cmd - 1] \in Nat /\ writing.left \in Nat
    BY WroteTypes
  <2>2. ends[writing.cmd - 1] <= ends[writing.cmd]
    <3>1. writing.cmd - 1 <= writing.cmd
      BY <2>1
    <3>2. QED
      BY <1>4, <2>1, <3>1, EndsGrow
  <2>3. CASE writing.left = 0
    <3>1. Wrote = ends[writing.cmd - 1]
      BY <2>3, WroteTypes
    <3>2. QED
      BY <2>2, <3>1
  <2>4. CASE writing.left > 0
    <3>1. Wrote < ends[writing.cmd]
      BY <2>4, WroteTypes
    <3>2. QED
      BY <1>4, <2>1, <3>1
  <2>5. QED
    BY <2>1, <2>3, <2>4
<1>7. QED
  BY <1>1, <1>4, <1>5, WroteTypes

LEMMA FirstIsOutcome == ASSUME TypeOK, FirstOnly PROVE Outcome
<1>1. Written \in Seq(Commands) /\ Written # << >> /\ Len(Written) >= 1
  BY WroteTypes DEF FirstOnly
<1>2. Taken(Written) = SubSeq(Written, 1, 1)
  BY <1>1 DEF Taken, FirstOnly
<1>3. Len(Taken(Written)) = 1 /\ Taken(Written)[1] = Written[1]
  BY <1>1, <1>2
<1>4. Matches(msgs, Taken(Written))
  <2>1. DOMAIN msgs = 1 .. 1
    BY DEF FirstOnly, TypeOK
  <2>2. QED
    BY <1>3, <2>1 DEF Matches, FirstOnly
<1>5. QED
  BY <1>1, <1>4 DEF Outcome, FirstOnly

-----------------------------------------------------------------------------
(* The writer. *)

(* What the writer does takes nothing out of the pipe. *)
LEMMA WriterKeepsReader ==
  ASSUME IInv, UNCHANGED <<session, reading, raw, need, msgs>>, TypeOK',
         Gone' = Gone, writing.cmd <= writing'.cmd
  PROVE  AtSize' /\ AtData' /\ Collecting'
<1>1. printed' = printed /\ ends' = ends
  BY SameSession DEF session
<1>2. /\ typed' = typed /\ reader' = reader /\ piped' = piped /\ reading' = reading
      /\ raw' = raw /\ need' = need /\ msgs' = msgs
  BY DEF session
<1>3. \A i : Before(i)' = Before(i)
  BY <1>1, <1>2 DEF Before, Matches
<1>4. \A i : Inside(i)' = Inside(i)
  BY <1>1, <1>2, <1>3 DEF Inside, Prints
<1>5. AtSize'
  <2> SUFFICES ASSUME reading' = "size", reader' # "as-proposal"
               PROVE  \E i \in 0 .. writing'.cmd - 1 : Gone' = ends'[i] /\ Before(i)'
    BY DEF AtSize
  <2>1. PICK i \in 0 .. writing.cmd - 1 : Gone = ends[i] /\ Before(i)
    BY <1>2 DEF IInv, AtSize
  <2>2. i \in 0 .. writing'.cmd - 1
    BY <2>1 DEF IInv, TypeOK
  <2>3. QED
    BY <1>1, <1>3, <2>1, <2>2
<1>6. AtData'
  BY <1>2, <1>4 DEF IInv, AtData
<1>7. Collecting'
  BY <1>1, <1>2 DEF IInv, Collecting, Thing
<1>8. QED
  BY <1>5, <1>6, <1>7

(* Nor does it change the first transaction. *)
LEMMA WriterKeepsDone ==
  ASSUME IInv, closed = "no", UNCHANGED <<session, reading, msgs>>,
         TypeOK', writing.cmd <= writing'.cmd
  PROVE  AtDone'
<1>1. printed' = printed /\ ends' = ends /\ reader' = reader /\ msgs' = msgs
  BY SameSession DEF session
<1>2. SUFFICES ASSUME reading = "done", piped PROVE FirstOnly'
  BY DEF AtDone, session
<1>3. FirstOnly
  BY <1>2 DEF IInv, AtDone
<1>4. /\ writing.cmd - 1 \in Upto /\ writing'.cmd - 1 \in Upto
      /\ writing.cmd - 1 <= writing'.cmd - 1
  <2>1. SessionOK /\ writing.cmd - 1 \in Upto /\ typed' = typed /\ Len(typed) \in Nat
    BY WroteTypes DEF IInv, session
  <2>2. writing.cmd \in 1 .. Len(typed) + 1 /\ writing'.cmd \in 1 .. Len(typed) + 1
    BY <2>1 DEF IInv, TypeOK
  <2>3. QED
    BY <2>1, <2>2 DEF Upto
<1>5. SessionOK
  BY DEF IInv, TypeOK
<1>6. Written' = printed[writing'.cmd - 1]
  BY <1>1 DEF Written
<1>7. printed[writing.cmd - 1] # << >> =>
        /\ printed[writing'.cmd - 1] # << >>
        /\ printed[writing'.cmd - 1][1] = printed[writing.cmd - 1][1]
  BY <1>4, <1>5, EndsGrow
<1>8. Written' # << >> /\ Written'[1] = Written[1]
  BY <1>3, <1>6, <1>7 DEF Written, FirstOnly
<1>9. QED
  BY <1>1, <1>3, <1>8 DEF FirstOnly

LEMMA RefuseKeeps == ASSUME IInv, Refuse PROVE IInv'
<1>1. /\ writing.left = 0 /\ writing.cmd <= Len(typed) /\ ~Prints(writing.cmd)
      /\ writing' = [writing EXCEPT !.cmd = @ + 1] /\ closed = "no"
      /\ UNCHANGED <<session, closed, pipe, reading, raw, need, msgs>>
  BY DEF Refuse, Running, Prints
<1>2. typed' = typed /\ printed' = printed /\ ends' = ends /\ Item' = Item
      /\ AnyMessage' = AnyMessage /\ Commands' = Commands
  BY <1>1, SameSession DEF session
<1>3. /\ writing.cmd \in 1 .. Len(typed) /\ writing'.cmd = writing.cmd + 1 /\ writing'.left = 0
      /\ writing' \in [cmd : 1 .. Len(typed) + 1, left : Nat]
  <2>1. TypeOK /\ Len(typed) \in Nat /\ writing \in [cmd : 1 .. Len(typed) + 1, left : Nat]
    BY WroteTypes DEF IInv, TypeOK
  <2>2. QED
    BY <1>1, <2>1
<1>4. TypeOK'
  BY <1>1, <1>2, <1>3 DEF IInv, TypeOK, SessionOK, session
<1>5. Wrote' = Wrote
  <2>2. writing.cmd + 1 - 1 = writing.cmd /\ ends[writing.cmd] \in Nat
    BY <1>3, OneEnd DEF IInv, TypeOK
  <2>1. Wrote' = ends[writing.cmd + 1 - 1]
    BY <1>2, <1>3, <2>2 DEF Wrote
  <2>3. ends[writing.cmd] = ends[writing.cmd - 1]
    BY <1>1, <1>3, OneEnd DEF IInv, TypeOK
  <2>4. Wrote = ends[writing.cmd - 1]
    BY <1>1, WroteTypes DEF IInv
  <2>5. QED
    BY <2>1, <2>2, <2>3, <2>4
<1>6. Gone' = Gone /\ Flow'
  BY <1>1, <1>2, <1>5 DEF Gone, Flow, Thing, IInv
<1>7. AtSize' /\ AtData' /\ Collecting' /\ AtDone'
  BY <1>1, <1>3, <1>4, <1>6, WriterKeepsReader, WriterKeepsDone
<1>8. QED
  BY <1>4, <1>6, <1>7 DEF IInv

(* n things are put into the pipe, each where it belongs. *)
LEMMA PutKeepsFlow ==
  ASSUME IInv, typed' = typed, NEW s \in Seq(Item), pipe' = pipe \o s,
         Wrote' = Wrote + Len(s), \A k \in 1 .. Len(s) : Thing(s[k], Wrote + k)
  PROVE  pipe' \in Seq(Item) /\ Gone' = Gone /\ Flow'
<1>1. printed' = printed /\ ends' = ends
  BY SameSession
<1>2. pipe \in Seq(Item) /\ Wrote \in Nat /\ Len(pipe) <= Wrote /\ Len(pipe) \in Nat /\ Len(s) \in Nat
  BY WroteTypes DEF IInv, TypeOK, Flow
<1>3. /\ pipe' \in Seq(Item) /\ Len(pipe') = Len(pipe) + Len(s)
      /\ \A k \in 1 .. Len(pipe) : pipe'[k] = pipe[k]
      /\ \A k \in Len(pipe) + 1 .. Len(pipe) + Len(s) : pipe'[k] = s[k - Len(pipe)]
  BY <1>2
<1>4. Gone' = Gone
  BY <1>2, <1>3 DEF Gone
<1>5. ASSUME NEW k \in 1 .. Len(pipe') PROVE Thing(pipe'[k], Gone + k)
  <2>1. CASE k \in 1 .. Len(pipe)
    BY <1>3, <2>1 DEF IInv, Flow
  <2>2. CASE k \notin 1 .. Len(pipe)
    <3> DEFINE d == k - Len(pipe)
    <3>1. k \in Len(pipe) + 1 .. Len(pipe) + Len(s) /\ d \in 1 .. Len(s) /\ Wrote + d = Gone + k
      BY <1>2, <1>3, <2>2 DEF Gone
    <3>2. pipe'[k] = s[d]
      BY <1>3, <3>1
    <3> HIDE DEF d
    <3>3. Thing(s[d], Wrote + d)
      BY <3>1
    <3>4. QED
      BY <3>1, <3>2, <3>3
  <2>3. QED
    BY <2>1, <2>2
<1>6. \A x, o : Thing(x, o)' = Thing(x, o)
  BY <1>1 DEF Thing
<1>7. Flow'
  <2>1. Len(pipe') <= Wrote'
    BY <1>2, <1>3
  <2>2. \A k \in 1 .. Len(pipe') : Thing(pipe'[k], Gone' + k)
    BY <1>4, <1>5
  <2>3. QED
    BY <1>1, <2>1, <2>2 DEF Flow, Thing
<1>8. QED
  BY <1>3, <1>4, <1>7

LEMMA WriteSizeKeeps == ASSUME IInv, WriteSize PROVE IInv'
<1> DEFINE c == writing.cmd
<1>1. /\ writing.left = 0 /\ c <= Len(typed) /\ Prints(c) /\ closed = "no"
      /\ pipe' = Append(pipe, <<c, "size">>)
      /\ writing' = [writing EXCEPT !.left = Size[c]]
      /\ UNCHANGED <<session, closed, reading, raw, need, msgs>>
  BY DEF WriteSize, Running, Prints
<1>2. typed' = typed /\ printed' = printed /\ ends' = ends /\ Item' = Item
      /\ AnyMessage' = AnyMessage /\ Commands' = Commands
  BY <1>1, SameSession DEF session
<1>3. TypeOK /\ SessionOK /\ Len(typed) \in Nat /\ writing \in [cmd : 1 .. Len(typed) + 1, left : Nat]
  BY WroteTypes DEF IInv, TypeOK
<1>4. c \in 1 .. Len(typed)
  BY <1>1, <1>3
<1>5. /\ Size[c] \in Nat /\ Size[c] >= 1 /\ ends[c - 1] \in Nat
      /\ ends[c] = ends[c - 1] + 1 + Size[c]
  BY <1>1, <1>3, <1>4, OneEnd
<1>6. /\ writing' \in [cmd : 1 .. Len(typed) + 1, left : Nat]
      /\ writing'.cmd = c /\ writing'.left = Size[c]
  BY <1>1, <1>3, <1>5
<1>7. Wrote = ends[c - 1]
  BY <1>1, <1>3, WroteTypes
<1>8. Wrote' = Wrote + 1
  <2> DEFINE e == ends[c - 1]
             z == Size[c]
  <2>1. Wrote' = e + (IF z = 0 THEN 0 ELSE 1 + z - z)
    BY <1>2, <1>6 DEF Wrote
  <2>2. e \in Nat /\ z \in Nat /\ z # 0
    BY <1>5
  <2> HIDE DEF e, z
  <2>3. Wrote' = e + 1
    BY <2>1, <2>2
  <2>4. QED
    BY <1>7, <2>3 DEF e
<1>9. Thing(<<c, "size">>, Wrote + 1)
  <2>1. ends[c - 1] < ends[c - 1] + 1 /\ ends[c - 1] + 1 <= ends[c]
    BY <1>5
  <2>2. QED
    BY <1>4, <1>7, <2>1 DEF Thing
<1> DEFINE s == <<<<c, "size">>>>
<1>10. s \in Seq(Item) /\ Len(s) = 1 /\ s[1] = <<c, "size">>
  BY <1>4 DEF Item
<1>11. pipe' = pipe \o s
  <2>1. pipe \in Seq(Item) /\ <<c, "size">> \in Item
    BY <1>4 DEF IInv, TypeOK, Item
  <2>2. QED
    BY <1>1, <2>1, AppendIsConcat
<1>12. \A k \in 1 .. Len(s) : Thing(s[k], Wrote + k)
  BY <1>9, <1>10
<1> HIDE DEF s
<1>13. pipe' \in Seq(Item) /\ Gone' = Gone /\ Flow'
  BY <1>2, <1>8, <1>10, <1>11, <1>12, PutKeepsFlow
<1>14. TypeOK'
  <2>1. writing'.left > 0 =>
          /\ writing'.cmd <= Len(typed) /\ Prints(writing'.cmd) /\ writing'.left <= Size[writing'.cmd]
    BY <1>1, <1>4, <1>5, <1>6
  <2>2. QED
    BY <1>1, <1>2, <1>3, <1>6, <1>13, <2>1 DEF TypeOK, SessionOK, session, Prints
<1>15. writing.cmd <= writing'.cmd
  BY <1>4, <1>6
<1>16. AtSize' /\ AtData' /\ Collecting' /\ AtDone'
  BY <1>1, <1>13, <1>14, <1>15, WriterKeepsReader, WriterKeepsDone
<1>17. QED
  BY <1>13, <1>14, <1>16 DEF IInv

LEMMA WriteDataKeeps == ASSUME IInv, WriteData PROVE IInv'
<1> DEFINE c == writing.cmd
           l == writing.left
           z == Size[c]
           e == ends[c - 1]
<1>1. PICK n \in 1 .. l :
        /\ pipe' = pipe \o [k \in 1 .. n |-> <<c, "data">>]
        /\ writing' = [left |-> l - n, cmd |-> IF n = l THEN c + 1 ELSE c]
  BY DEF WriteData
<1>2. /\ l > 0 /\ closed = "no"
      /\ UNCHANGED <<session, closed, reading, raw, need, msgs>>
  BY DEF WriteData
<1>3. typed' = typed /\ printed' = printed /\ ends' = ends /\ Item' = Item
      /\ AnyMessage' = AnyMessage /\ Commands' = Commands
  BY <1>2, SameSession DEF session
<1>4. TypeOK /\ SessionOK /\ Len(typed) \in Nat /\ l \in Nat /\ c \in 1 .. Len(typed) /\ Prints(c)
      /\ l <= z /\ Wrote = e + 1 + z - l /\ ends[c] = e + 1 + z
  BY <1>2, WroteTypes DEF IInv, TypeOK
<1>5. z \in Nat /\ z >= 1 /\ e \in Nat /\ c \in Nat /\ ends[c] \in Nat
  BY <1>4, OneEnd
<1>6. n \in Nat /\ n >= 1 /\ n <= l
  BY <1>4
<1>7. Wrote' = Wrote + n
  <2>1. CASE n = l
    <3>1. writing'.cmd = c + 1 /\ writing'.left = 0 /\ c + 1 - 1 = c
      BY <1>1, <1>5, <1>6, <2>1
    <3>2. Wrote' = ends[c]
      BY <1>3, <1>5, <3>1 DEF Wrote
    <3> HIDE DEF c, l, z, e
    <3>3. QED
      BY <1>4, <1>5, <1>6, <2>1, <3>2
  <2>2. CASE n # l
    <3>1. writing'.cmd = c /\ writing'.left = l - n
      BY <1>1, <2>2
    <3>2. Wrote' = e + (IF l - n = 0 THEN 0 ELSE 1 + z - (l - n))
      BY <1>3, <3>1 DEF Wrote
    <3> HIDE DEF c, l, z, e
    <3>3. QED
      BY <1>4, <1>5, <1>6, <2>2, <3>2
  <2>3. QED
    BY <2>1, <2>2
<1> DEFINE s == [k \in 1 .. n |-> <<c, "data">>]
<1>8. s \in Seq(Item) /\ Len(s) = n /\ \A k \in 1 .. n : s[k] = <<c, "data">>
  <2>1. <<c, "data">> \in Item
    BY <1>4 DEF Item
  <2>2. QED
    BY <1>6, <2>1
<1>9. ASSUME NEW k \in 1 .. n PROVE Thing(<<c, "data">>, Wrote + k)
  <2>1. e < Wrote + k /\ Wrote + k <= ends[c] /\ Wrote + k # e + 1
    <3> HIDE DEF c, l, z, e
    <3>1. QED
      BY <1>4, <1>5, <1>6
  <2>2. QED
    BY <1>4, <2>1 DEF Thing
<1>10. \A k \in 1 .. Len(s) : Thing(s[k], Wrote + k)
  BY <1>8, <1>9
<1>11. pipe' \in Seq(Item) /\ Gone' = Gone /\ Flow'
  <2> HIDE DEF s
  <2>1. pipe' = pipe \o s
    BY <1>1 DEF s
  <2>2. QED
    BY <1>3, <1>7, <1>8, <1>10, <2>1, PutKeepsFlow
<1>12. /\ writing' \in [cmd : 1 .. Len(typed) + 1, left : Nat]
       /\ writing'.left = l - n /\ c <= writing'.cmd
       /\ writing'.left > 0 => writing'.cmd = c
  <2> HIDE DEF c, l
  <2>1. QED
    BY <1>1, <1>4, <1>6
<1>13. TypeOK'
  <2>1. writing'.left > 0 =>
          /\ writing'.cmd <= Len(typed) /\ Prints(writing'.cmd) /\ writing'.left <= Size[writing'.cmd]
    <3> HIDE DEF l
    <3>1. QED
      BY <1>4, <1>5, <1>6, <1>12
  <2>2. QED
    BY <1>2, <1>3, <1>4, <1>11, <1>12, <2>1 DEF TypeOK, SessionOK, session, Prints
<1>14. AtSize' /\ AtData' /\ Collecting' /\ AtDone'
  BY <1>2, <1>11, <1>12, <1>13, WriterKeepsReader, WriterKeepsDone
<1>15. QED
  BY <1>11, <1>13, <1>14 DEF IInv

LEMMA EndOfSessionKeeps == ASSUME IInv, Close \/ Die PROVE IInv'
<1>1. /\ closed = "no" /\ closed' \in {"finished", "died"}
      /\ UNCHANGED <<session, writing, pipe, reading, raw, need, msgs>>
  BY DEF Close, Die
<1>2. typed' = typed /\ printed' = printed /\ ends' = ends /\ Item' = Item
      /\ AnyMessage' = AnyMessage /\ Commands' = Commands
  BY <1>1, SameSession DEF session
<1>3. TypeOK'
  BY <1>1, <1>2 DEF IInv, TypeOK, SessionOK, session, Prints
<1>4. Wrote' = Wrote /\ Gone' = Gone
  BY <1>1, <1>2 DEF Wrote, Gone
<1>5. Flow'
  BY <1>1, <1>2, <1>4 DEF IInv, Flow, Thing
<1>6. writing.cmd <= writing'.cmd
  BY <1>1, WroteTypes DEF IInv
<1>7. AtSize' /\ AtData' /\ Collecting' /\ AtDone'
  BY <1>1, <1>3, <1>4, <1>6, WriterKeepsReader, WriterKeepsDone
<1>8. QED
  BY <1>3, <1>5, <1>7 DEF IInv

-----------------------------------------------------------------------------
(* The reader. *)

LEMMA ReaderFrame ==
  ASSUME UNCHANGED <<session, writer>>
  PROVE  /\ typed' = typed /\ reader' = reader /\ piped' = piped
         /\ writing' = writing /\ closed' = closed
         /\ printed' = printed /\ ends' = ends /\ Commands' = Commands /\ Item' = Item
         /\ AnyMessage' = AnyMessage /\ Wrote' = Wrote /\ Written' = Written
<1>1. typed' = typed /\ reader' = reader /\ piped' = piped /\ writing' = writing /\ closed' = closed
  BY DEF session, writer
<1>2. printed' = printed /\ ends' = ends /\ Commands' = Commands /\ Item' = Item
      /\ AnyMessage' = AnyMessage
  BY <1>1, SameSession
<1>3. Wrote' = Wrote /\ Written' = Written
  BY <1>1, <1>2 DEF Wrote, Written
<1>4. QED
  BY <1>1, <1>2, <1>3

LEMMA ReaderTypes ==
  ASSUME TypeOK, UNCHANGED <<session, writer>>,
         pipe' \in Seq(Item), reading' \in {"size", "data", "done", "failed"},
         raw' \in Seq(Item), need' \in Nat, msgs' \in Seq(AnyMessage)
  PROVE  TypeOK'
<1>1. typed' = typed /\ reader' = reader /\ piped' = piped /\ writing' = writing
      /\ closed' = closed /\ Commands' = Commands /\ Item' = Item /\ AnyMessage' = AnyMessage
  BY ReaderFrame
<1>2. QED
  BY <1>1 DEF TypeOK, SessionOK, Prints

(* The first n things are taken out of the pipe. *)
LEMMA TakeKeepsFlow ==
  ASSUME IInv, UNCHANGED <<session, writer>>, NEW n \in 0 .. Len(pipe),
         pipe' = SubSeq(pipe, n + 1, Len(pipe))
  PROVE  pipe' \in Seq(Item) /\ Gone' = Gone + n /\ Flow'
<1>1. ends' = ends /\ Wrote' = Wrote /\ typed' = typed
  BY ReaderFrame
<1>2. pipe \in Seq(Item) /\ Wrote \in Nat /\ Len(pipe) <= Wrote /\ Len(pipe) \in Nat /\ n \in Nat
  BY WroteTypes DEF IInv, TypeOK, Flow
<1>3. /\ pipe' \in Seq(Item) /\ Len(pipe') = Len(pipe) - n
      /\ \A k \in 1 .. Len(pipe) - n : pipe'[k] = pipe[n + k]
  BY <1>2
<1>4. Gone' = Gone + n
  <2> DEFINE w == Wrote
             l == Len(pipe)
  <2>1. Gone = w - l /\ Gone' = w - (l - n) /\ w \in Nat /\ l \in Nat
    BY <1>1, <1>2, <1>3 DEF Gone
  <2> HIDE DEF w, l
  <2>2. QED
    BY <1>2, <2>1
<1>5. ASSUME NEW k \in 1 .. Len(pipe') PROVE Thing(pipe'[k], Gone' + k)
  <2>1. n + k \in 1 .. Len(pipe) /\ Gone' + k = Gone + (n + k) /\ pipe'[k] = pipe[n + k]
    <3>1. k \in 1 .. Len(pipe) - n /\ k \in Nat /\ Gone \in Int
      BY <1>2, <1>3 DEF Gone
    <3>2. pipe'[k] = pipe[n + k]
      BY <1>3, <3>1
    <3>3. n + k \in 1 .. Len(pipe)
      BY <1>2, <3>1
    <3>4. QED
      BY <1>2, <1>4, <3>1, <3>2, <3>3
  <2> DEFINE h == n + k
  <2>2. h \in 1 .. Len(pipe) /\ Gone' + k = Gone + h /\ pipe'[k] = pipe[h]
    BY <2>1
  <2> HIDE DEF h
  <2>3. QED
    BY <2>2 DEF IInv, Flow
<1>6. Flow'
  <2>1. Len(pipe') <= Wrote'
    BY <1>1, <1>2, <1>3
  <2>2. QED
    BY <1>1, <1>5, <2>1 DEF Flow, Thing
<1>7. QED
  BY <1>3, <1>4, <1>6

(* At the end of a stream nothing of which is left all was taken. *)
LEMMA NothingLeft ==
  ASSUME IInv, pipe = << >>
  PROVE  Gone = Wrote /\ pipe \in Seq(Item)
<1>1. Wrote \in Nat /\ Len(pipe) = 0 /\ pipe \in Seq(Item)
  BY WroteTypes DEF IInv, TypeOK
<1>2. QED
  BY <1>1 DEF Gone

(* The reader stops. *)
LEMMA EndKeeps ==
  ASSUME IInv, NEW how \in {"done", "failed"}, End(how),
         how = "done" /\ piped => (closed # "no" /\ Outcome) \/ FirstOnly
  PROVE  IInv'
<1>1. reading' = how /\ UNCHANGED <<session, writer, pipe, raw, need, msgs>>
  BY DEF End
<1>2. typed' = typed /\ reader' = reader /\ piped' = piped /\ writing' = writing
      /\ closed' = closed /\ ends' = ends /\ Wrote' = Wrote /\ Written' = Written
  BY <1>1, ReaderFrame
<1>3. TypeOK'
  BY <1>1, ReaderTypes DEF IInv, TypeOK
<1>4. Flow'
  BY <1>1, <1>2 DEF IInv, Flow, Thing, Gone
<1>5. AtDone'
  BY <1>1, <1>2 DEF AtDone, Outcome, FirstOnly, Matches, Taken
<1>6. AtSize' /\ AtData' /\ Collecting'
  BY <1>1 DEF AtSize, AtData, Collecting
<1>7. QED
  BY <1>3, <1>4, <1>5, <1>6 DEF IInv

LEMMA NotPipedKeeps == ASSUME IInv, NotPiped PROVE IInv'
BY EndKeeps DEF NotPiped

(* Messages match what was written when the stream ends between two of     *)
(* its transactions.                                                       *)
LEMMA BetweenIsOutcome ==
  ASSUME TypeOK, NEW i \in Upto, Wrote = ends[i], i <= writing.cmd - 1, Before(i),
         reader # "as-proposal"
  PROVE  Outcome
<1>1. SessionOK /\ writing.cmd - 1 \in Upto /\ ends[writing.cmd - 1] \in Nat /\ Wrote \in Nat
      /\ writing.left \in Nat
  BY WroteTypes
<1>2. ends[i] <= ends[writing.cmd - 1]
  BY <1>1, EndsGrow
<1>3. writing.left = 0
  BY <1>1, <1>2, WroteTypes
<1>4. Written = printed[i]
  BY <1>1, <1>3, WroteTypes, EndsGrow DEF Written
<1>5. Matches(msgs, Taken(Written))
  <2>1. CASE reader = "as-batch"
    BY <1>4, <2>1 DEF Taken, Before
  <2>2. CASE reader = "set-validators"
    <3>1. Written = << >> /\ Matches(msgs, Written)
      BY <1>4, <2>2 DEF Before
    <3>2. Taken(Written) = << >>
      BY <2>2, <3>1 DEF Taken
    <3>3. QED
      BY <3>1, <3>2
  <2>3. QED
    BY <1>1, <2>1, <2>2 DEF SessionOK
<1>6. QED
  BY <1>3, <1>5 DEF Outcome

LEMMA ReadSizeKeeps == ASSUME IInv, ReadSize PROVE IInv'
<1>1. reader # "as-proposal" /\ reading = "size" /\ piped /\ TypeOK /\ SessionOK
  BY WroteTypes DEF ReadSize, IInv
<1>2. PICK i \in 0 .. writing.cmd - 1 : Gone = ends[i] /\ Before(i)
  BY <1>1 DEF IInv, AtSize
<1>3. i \in Upto /\ i <= writing.cmd - 1 /\ ends[i] \in Nat
  <2>1. i \in Upto /\ i <= writing.cmd - 1
    BY <1>1, WroteTypes DEF Upto
  <2>2. QED
    BY <1>1, <2>1, EndsLoop
<1>4. CASE AtEnd /\ End("done")
  <2>1. Outcome
    <3>1. Gone = Wrote
      BY <1>4, NothingLeft DEF AtEnd
    <3>2. QED
      BY <1>1, <1>2, <1>3, <3>1, BetweenIsOutcome
  <2>2. QED
    BY <1>4, <2>1, EndKeeps DEF AtEnd
<1>5. CASE /\ pipe # << >> /\ Head(pipe)[2] = "size"
           /\ pipe' = Tail(pipe) /\ need' = Size[Head(pipe)[1]]
           /\ raw' = << >> /\ reading' = "data"
           /\ UNCHANGED <<session, writer, msgs>>
  <2>1. /\ pipe \in Seq(Item) /\ Len(pipe) >= 1 /\ 1 \in 0 .. Len(pipe) /\ 1 \in 1 .. Len(pipe)
        /\ Head(pipe) = pipe[1] /\ pipe' = SubSeq(pipe, 1 + 1, Len(pipe))
    BY <1>1, <1>5 DEF TypeOK
  <2>2. pipe' \in Seq(Item) /\ Gone' = Gone + 1 /\ Flow'
    BY <1>5, <2>1, TakeKeepsFlow
  <2>3. PICK j \in 1 .. Len(typed) :
          /\ ends[j - 1] < Gone + 1 /\ Gone + 1 <= ends[j]
          /\ pipe[1] = <<j, IF Gone + 1 = ends[j - 1] + 1 THEN "size" ELSE "data">>
    BY <2>1 DEF IInv, Flow, Thing
  <2>4. /\ j - 1 \in Upto /\ ends[j] \in Nat /\ ends[j - 1] \in Nat /\ Size[j] \in Nat /\ Size[j] >= 1
        /\ ~Prints(j) => ends[j] = ends[j - 1]
    BY <1>1, OneEnd
  <2>5. Gone + 1 = ends[j - 1] + 1 /\ pipe[1][1] = j
    BY <1>5, <2>1, <2>3
  <2>6. Gone = ends[j - 1]
    BY <1>2, <1>3, <2>4, <2>5
  <2>7. Prints(j)
    BY <1>2, <1>3, <2>3, <2>4, <2>6
  <2>8. printed[i] = printed[j - 1]
    <3>1. i \in Int /\ j - 1 \in Int
      BY <1>3, <2>4 DEF Upto
    <3>2. i <= j - 1 \/ j - 1 <= i
      BY <3>1
    <3>3. QED
      BY <1>1, <1>2, <1>3, <2>4, <2>6, <3>2, EndsGrow
  <2>9. /\ typed' = typed /\ reader' = reader /\ piped' = piped /\ writing' = writing
        /\ printed' = printed /\ ends' = ends /\ msgs' = msgs /\ need' = Size[j]
        /\ raw' = << >> /\ reading' = "data"
    BY <1>5, <2>1, <2>5, ReaderFrame
  <2>10. Inside(j)'
    <3>1. Gone' = ends[j - 1] + 1 + Len(raw')
      BY <2>2, <2>4, <2>6, <2>9
    <3>2. Before(j - 1)'
      BY <1>2, <2>8, <2>9 DEF Before, Matches
    <3>3. Len(raw') = 0 /\ Len(raw') < need'
      BY <2>4, <2>9
    <3>4. QED
      BY <2>7, <2>9, <3>1, <3>2, <3>3 DEF Inside, Prints
  <2>11. TypeOK'
    BY <1>1, <1>5, <2>2, <2>4, <2>9, ReaderTypes DEF TypeOK
  <2>12. AtSize' /\ AtData' /\ Collecting' /\ AtDone'
    BY <1>1, <2>9, <2>10 DEF AtSize, AtData, Collecting, AtDone
  <2>13. QED
    BY <2>2, <2>11, <2>12 DEF IInv
<1>6. QED
  BY <1>4, <1>5 DEF ReadSize

(* One more transaction is taken. *)
LEMMA MatchOneMore ==
  ASSUME NEW ms \in Seq(AnyMessage), NEW cs \in Seq(Commands), NEW c \in Commands,
         NEW m \in Message(c), Matches(ms, cs)
  PROVE  Append(ms, m) \in Seq(AnyMessage) /\ Matches(Append(ms, m), Append(cs, c))
<1>1. m \in AnyMessage
  BY DEF AnyMessage
<1>2. /\ Append(ms, m) \in Seq(AnyMessage) /\ Len(Append(ms, m)) = Len(ms) + 1
      /\ Append(cs, c) \in Seq(Commands) /\ Len(Append(cs, c)) = Len(cs) + 1
      /\ Len(ms) = Len(cs) /\ Len(ms) \in Nat
      /\ DOMAIN ms = 1 .. Len(ms) /\ DOMAIN Append(ms, m) = 1 .. Len(ms) + 1
  BY <1>1 DEF Matches
<1>3. ASSUME NEW k \in 1 .. Len(ms) + 1 PROVE Append(ms, m)[k] \in Message(Append(cs, c)[k])
  <2>1. CASE k = Len(ms) + 1
    <3>1. Append(ms, m)[k] = m /\ Append(cs, c)[k] = c
      BY <1>1, <1>2, <2>1
    <3>2. QED
      BY <3>1
  <2>2. CASE k # Len(ms) + 1
    <3>1. k \in 1 .. Len(ms)
      BY <1>2, <2>2
    <3>2. Append(ms, m)[k] = ms[k] /\ Append(cs, c)[k] = cs[k]
      BY <1>1, <1>2, <3>1
    <3>3. ms[k] \in Message(cs[k])
      BY <1>2, <3>1 DEF Matches
    <3>4. QED
      BY <3>2, <3>3
  <2>3. QED
    BY <2>1, <2>2
<1>4. QED
  BY <1>2, <1>3 DEF Matches

(* The first transaction that was written is that of the i-th command. *)
LEMMA FirstWritten ==
  ASSUME TypeOK, NEW i \in 1 .. Len(typed), Prints(i), printed[i - 1] = << >>,
         ends[i] <= Wrote
  PROVE  Written # << >> /\ Written[1] = typed[i]
<1>1. SessionOK /\ writing.cmd - 1 \in Upto /\ i \in Upto /\ typed[i] \in Commands
      /\ printed[i] = Append(printed[i - 1], typed[i])
  BY WroteTypes, OneEnd
<1>2. i <= writing.cmd - 1
  BY WroteTypes, WrittenWhole
<1>3. printed[i] # << >> /\ printed[i][1] = typed[i]
  BY <1>1
<1>4. QED
  BY <1>1, <1>2, <1>3, EndsGrow DEF Written

(* The data of the i-th transaction, all of which was read, is taken or    *)
(* refused as a whole.                                                     *)
LEMMA TakeTypes ==
  ASSUME TypeOK, NEW r, NEW n, NEW i \in 1 .. Len(typed),
         Len(r) = n => r[1][1] = i, Take(r, n)
  PROVE  \/ /\ \E m \in Message(typed[i]) : msgs' = Append(msgs, m) /\ msgs' \in Seq(AnyMessage)
            /\ reading' = IF reader = "as-batch" THEN "size" ELSE "done"
         \/ msgs' = msgs /\ reading' = "failed"
<1>1. CASE Extract(r, n)
  <2>1. PICK m \in IF Decodes(r, n) THEN Message(typed[r[1][1]]) ELSE {} :
          /\ msgs' = Append(msgs, m)
          /\ reading' = IF reader = "as-batch" THEN "size" ELSE "done"
    BY <1>1 DEF Extract
  <2>2. m \in Message(typed[i])
    BY <2>1 DEF Decodes
  <2>3. m \in AnyMessage /\ msgs \in Seq(AnyMessage)
    <3>1. typed[i] \in Commands
      BY DEF TypeOK, SessionOK
    <3>2. QED
      BY <2>2, <3>1 DEF AnyMessage, TypeOK
  <2>4. QED
    BY <2>1, <2>2, <2>3
<1>2. QED
  BY <1>1 DEF Take

LEMMA ReadDataKeeps == ASSUME IInv, ReadData PROVE IInv'
<1>1. reading = "data" /\ reader # "as-proposal" /\ TypeOK /\ SessionOK
  BY WroteTypes DEF ReadData, IInv, AtData
<1>2. PICK i \in 1 .. Len(typed) : Inside(i)
  BY <1>1 DEF IInv, AtData
<1> DEFINE e == ends[i - 1]
<1>3. /\ i \in Nat /\ i - 1 \in Upto /\ i \in Upto /\ e \in Nat
      /\ Size[i] \in Nat /\ Size[i] >= 1 /\ ends[i] = e + 1 + Size[i] /\ ends[i] \in Nat
      /\ printed[i - 1] \in Seq(Commands) /\ printed[i] = Append(printed[i - 1], typed[i])
      /\ typed[i] \in Commands
  BY <1>1, <1>2, OneEnd DEF Inside
<1>4. /\ Prints(i) /\ need = Size[i] /\ Gone = e + 1 + Len(raw) /\ Len(raw) < need
      /\ \A k \in 1 .. Len(raw) : raw[k] = <<i, "data">>
      /\ Before(i - 1)
  BY <1>2 DEF Inside
<1> HIDE DEF e
<1>5. ASSUME NEW n \in Available, Chunk(n), UNCHANGED <<session, writer, need>>,
             \/ Len(raw') < need /\ UNCHANGED <<msgs, reading>>
             \/ Len(raw') = need /\ Take(raw', need)
      PROVE  IInv'
  <2>1. /\ pipe \in Seq(Item) /\ raw \in Seq(Item) /\ Len(pipe) \in Nat /\ Len(raw) \in Nat
        /\ n \in 1 .. Len(pipe) /\ n \in 0 .. Len(pipe) /\ n <= need - Len(raw) /\ n >= 1
        /\ need \in Nat /\ msgs \in Seq(AnyMessage) /\ Gone \in Int
    <3> DEFINE lp == Len(pipe)
               lr == Len(raw)
    <3>1. /\ pipe \in Seq(Item) /\ raw \in Seq(Item) /\ msgs \in Seq(AnyMessage) /\ need \in Nat
      BY <1>1 DEF TypeOK
    <3>2. lp \in Nat /\ lr \in Nat /\ Gone \in Int
      BY <1>1, WroteTypes
    <3>3. n \in 1 .. (IF need - lr < lp THEN need - lr ELSE lp)
      BY <1>5 DEF Available
    <3> HIDE DEF lp, lr
    <3>4. n \in 1 .. lp /\ n \in 0 .. lp /\ n <= need - lr /\ n >= 1
      BY <3>1, <3>2, <3>3
    <3>5. QED
      BY <3>1, <3>2, <3>4 DEF lp, lr
  <2>2. pipe' \in Seq(Item) /\ Gone' = Gone + n /\ Flow'
    BY <1>5, <2>1, TakeKeepsFlow DEF Chunk
  <2>3. /\ typed' = typed /\ reader' = reader /\ piped' = piped /\ writing' = writing
        /\ printed' = printed /\ ends' = ends /\ Wrote' = Wrote /\ Written' = Written
        /\ need' = need
    BY <1>5, ReaderFrame
  <2> DEFINE s == SubSeq(pipe, 1, n)
  <2>4. s \in Seq(Item) /\ Len(s) = n /\ \A k \in 1 .. n : s[k] = pipe[k]
    BY <2>1
  <2> HIDE DEF s
  <2>5. /\ raw' \in Seq(Item) /\ Len(raw') = Len(raw) + n
        /\ \A k \in 1 .. Len(raw) : raw'[k] = raw[k]
        /\ \A k \in Len(raw) + 1 .. Len(raw) + n : raw'[k] = s[k - Len(raw)]
    <3>1. raw' = raw \o s
      BY <1>5 DEF Chunk, s
    <3>2. raw \in Seq(Item) /\ s \in Seq(Item) /\ Len(s) = n
      BY <2>1, <2>4
    <3>3. /\ raw \o s \in Seq(Item) /\ Len(raw \o s) = Len(raw) + Len(s)
          /\ \A k \in 1 .. Len(raw) + Len(s) :
               (raw \o s)[k] = IF k <= Len(raw) THEN raw[k] ELSE s[k - Len(raw)]
      BY <3>2, ConcatProperties
    <3>4. \A k \in 1 .. Len(raw) : k \in 1 .. Len(raw) + n /\ k <= Len(raw)
      BY <2>1
    <3>5. \A k \in Len(raw) + 1 .. Len(raw) + n : k \in 1 .. Len(raw) + n /\ ~(k <= Len(raw))
      BY <2>1
    <3> HIDE DEF s
    <3>6. QED
      BY <3>1, <3>2, <3>3, <3>4, <3>5
  <2>6. \A k \in 1 .. Len(raw') : raw'[k] = <<i, "data">>
    <3>1. ASSUME NEW k \in 1 .. Len(raw'), k \notin 1 .. Len(raw) PROVE raw'[k] = <<i, "data">>
      <4> DEFINE d == k - Len(raw)
      <4>1. k \in Len(raw) + 1 .. Len(raw) + n /\ d \in 1 .. n /\ d \in 1 .. Len(pipe)
            /\ Gone + d = e + 1 + k
        <5> DEFINE lp == Len(pipe)
                   lr == Len(raw)
        <5>1. k \in 1 .. lr + n /\ k \notin 1 .. lr /\ lr \in Nat /\ lp \in Nat /\ n \in 1 .. lp
              /\ Gone = e + 1 + lr /\ d = k - lr
          BY <1>4, <2>1, <2>5, <3>1
        <5> HIDE DEF lp, lr, d
        <5>2. k \in lr + 1 .. lr + n /\ d \in 1 .. n /\ d \in 1 .. lp /\ Gone + d = e + 1 + k
          BY <1>3, <5>1
        <5>3. QED
          BY <5>2 DEF lp, lr
      <4>2. raw'[k] = pipe[d]
        BY <2>4, <2>5, <4>1
      <4> HIDE DEF d
      <4>3. PICK j \in 1 .. Len(typed) :
              /\ ends[j - 1] < e + 1 + k /\ e + 1 + k <= ends[j]
              /\ pipe[d] = <<j, IF e + 1 + k = ends[j - 1] + 1 THEN "size" ELSE "data">>
        BY <4>1 DEF IInv, Flow, Thing
      <4>4. e < e + 1 + k /\ e + 1 + k <= ends[i] /\ e + 1 + k # e + 1 /\ e + 1 + k \in Int
        <5> DEFINE lr == Len(raw)
        <5>1. /\ k \in 1 .. lr + n /\ lr \in Nat /\ n \in Nat /\ n <= Size[i] - lr
          BY <1>4, <2>1, <2>5
        <5> HIDE DEF lr
        <5>2. k \in Nat /\ k >= 1 /\ k <= Size[i]
          BY <1>3, <5>1
        <5>3. QED
          BY <1>3, <5>2
      <4>5. j = i
        BY <1>1, <4>3, <4>4, OneThing DEF e
      <4>6. QED
        BY <4>2, <4>3, <4>4, <4>5 DEF e
    <3>2. QED
      BY <1>4, <2>5, <3>1
  <2>7. CASE Len(raw') < need /\ UNCHANGED <<msgs, reading>>
    <3>1. Inside(i)'
      <4>1. Gone' = e + 1 + Len(raw')
        BY <1>3, <1>4, <2>1, <2>2, <2>5
      <4>2. Before(i - 1)'
        BY <1>4, <2>3, <2>7 DEF Before, Matches
      <4>3. QED
        BY <1>4, <2>3, <2>6, <2>7, <4>1, <4>2 DEF Inside, Prints, e
    <3>2. TypeOK'
      BY <1>1, <1>5, <2>1, <2>2, <2>3, <2>5, <2>7, ReaderTypes
    <3>3. AtSize' /\ AtData' /\ Collecting' /\ AtDone'
      BY <1>1, <2>3, <2>7, <3>1 DEF AtSize, AtData, Collecting, AtDone
    <3>4. QED
      BY <2>2, <3>2, <3>3 DEF IInv
  <2>8. CASE Len(raw') = need /\ Take(raw', need)
    <3>1. raw'[1][1] = i
      <4>1. 1 \in 1 .. Len(raw')
        BY <1>3, <1>4, <2>8
      <4>2. raw'[1] = <<i, "data">>
        BY <2>6, <4>1
      <4>3. QED
        BY <4>2
    <3>2. \/ /\ \E m \in Message(typed[i]) : msgs' = Append(msgs, m) /\ msgs' \in Seq(AnyMessage)
             /\ reading' = IF reader = "as-batch" THEN "size" ELSE "done"
          \/ msgs' = msgs /\ reading' = "failed"
      BY <1>1, <2>8, <3>1, TakeTypes
    <3>3. TypeOK'
      BY <1>1, <1>5, <2>1, <2>2, <2>3, <2>5, <3>2, ReaderTypes
    <3>4. Gone' = ends[i] /\ ends[i] <= Wrote
      <4>1. Gone' = ends[i]
        <5> DEFINE lr == Len(raw)
        <5>1. lr \in Nat /\ n \in Nat /\ lr + n = Size[i]
          <6>1. lr + n = Size[i]
            BY <1>4, <2>5, <2>8, Zenon
          <6> HIDE DEF lr
          <6>2. QED
            BY <2>1, <6>1 DEF lr
        <5>2. Gone = e + 1 + lr /\ Gone' = Gone + n
          BY <1>4, <2>2
        <5> HIDE DEF lr
        <5>3. QED
          BY <1>3, <5>1, <5>2
      <4>2. Gone' <= Wrote
        <5>1. Gone' = Wrote' - Len(pipe') /\ Len(pipe') \in Nat /\ Wrote' \in Nat
          BY <1>1, <2>2, <2>3, WroteTypes DEF Gone
        <5>2. QED
          BY <2>3, <5>1
      <4>3. QED
        BY <4>1, <4>2
    <3>5. i \in 0 .. writing.cmd - 1
      BY <1>1, <1>4, <3>4, WrittenWhole
    <3>6. CASE msgs' = msgs /\ reading' = "failed"
      <4>1. AtSize' /\ AtData' /\ Collecting' /\ AtDone'
        BY <3>6 DEF AtSize, AtData, Collecting, AtDone
      <4>2. QED
        BY <2>2, <3>3, <4>1 DEF IInv
    <3>7. ASSUME NEW m \in Message(typed[i]), msgs' = Append(msgs, m), reader = "as-batch",
                 reading' = "size"
          PROVE  IInv'
      <4>1. Matches(msgs', printed[i])
        BY <1>3, <1>4, <2>1, <3>7, MatchOneMore DEF Before
      <4>2. Before(i)'
        BY <2>3, <3>7, <4>1 DEF Before, Matches
      <4>3. AtSize' /\ AtData' /\ Collecting' /\ AtDone'
        BY <2>3, <3>4, <3>5, <3>7, <4>2 DEF AtSize, AtData, Collecting, AtDone
      <4>4. QED
        BY <2>2, <3>3, <4>3 DEF IInv
    <3>8. ASSUME NEW m \in Message(typed[i]), msgs' = Append(msgs, m), reader # "as-batch",
                 reading' = "done"
          PROVE  IInv'
      <4>1. printed[i - 1] = << >> /\ Len(msgs) = 0
        <5>1. reader = "set-validators"
          BY <1>1, <3>8 DEF SessionOK
        <5>2. QED
          BY <1>4, <5>1 DEF Before, Matches
      <4>2. Written # << >> /\ Written[1] = typed[i]
        BY <1>1, <1>4, <3>4, <4>1, FirstWritten
      <4>3. Len(msgs') = 1 /\ msgs'[1] = m
        BY <2>1, <3>8, <4>1
      <4>4. FirstOnly'
        BY <2>3, <3>8, <4>2, <4>3 DEF FirstOnly
      <4>5. AtSize' /\ AtData' /\ Collecting' /\ AtDone'
        BY <3>8, <4>4 DEF AtSize, AtData, Collecting, AtDone
      <4>6. QED
        BY <2>2, <3>3, <4>5 DEF IInv
    <3>9. QED
      BY <3>2, <3>6, <3>7, <3>8
  <2>9. QED
    BY <1>5, <2>7, <2>8
<1>6. ASSUME AtEnd, End("done"), raw = << >> PROVE IInv'
  <2>1. Gone = Wrote /\ Wrote = e + 1
    <3>1. Gone = Wrote
      BY <1>6, NothingLeft DEF AtEnd
    <3>2. QED
      BY <1>3, <1>4, <1>6, <3>1
  <2>2. e < Wrote /\ Wrote < ends[i]
    BY <1>3, <2>1
  <2>3. i <= writing.cmd
    BY <1>1, <2>2, WrittenPartly DEF e
  <2>4. i = writing.cmd
    <3>1. SUFFICES ASSUME i <= writing.cmd - 1 PROVE FALSE
      BY <1>1, <1>3, <2>3, WroteTypes
    <3>2. writing.cmd - 1 \in Upto /\ ends[writing.cmd - 1] \in Nat
          /\ ends[writing.cmd - 1] <= Wrote /\ Wrote \in Nat
      BY <1>1, WroteTypes
    <3>3. ends[i] <= ends[writing.cmd - 1]
      BY <1>1, <1>3, <3>1, <3>2, EndsGrow
    <3>4. QED
      BY <1>3, <2>2, <3>2, <3>3
  <2>5. writing.left > 0
    BY <1>1, <1>3, <2>2, <2>4, WroteTypes DEF e
  <2>6. writing.left = Size[i]
    <3> DEFINE l == writing.left
    <3>1. Wrote = e + 1 + Size[i] - l /\ l \in Nat
      BY <1>1, <2>4, <2>5, WroteTypes DEF e
    <3> HIDE DEF l
    <3>2. l = Size[i]
      BY <1>3, <2>1, <3>1
    <3>3. QED
      BY <3>2 DEF l
  <2>7. Written = printed[i - 1]
    BY <2>4 DEF Written
  <2>8. Matches(msgs, Taken(Written))
    <3>1. CASE reader = "as-batch"
      BY <1>4, <2>7, <3>1 DEF Taken, Before
    <3>2. CASE reader = "set-validators"
      <4>1. Written = << >> /\ Matches(msgs, Written)
        BY <1>4, <2>7, <3>2 DEF Before
      <4>2. Taken(Written) = << >>
        BY <3>2, <4>1 DEF Taken
      <4>3. QED
        BY <4>1, <4>2
    <3>3. QED
      BY <1>1, <3>1, <3>2 DEF SessionOK
  <2>9. Outcome
    <3>1. writing.cmd \in DOMAIN typed
      BY <1>1, <2>4 DEF SessionOK
    <3>2. QED
      BY <2>4, <2>6, <2>8, <3>1 DEF Outcome
  <2>10. QED
    BY <1>6, <2>9, EndKeeps DEF AtEnd
<1>7. ASSUME AtEnd, End("failed") PROVE IInv'
  BY <1>7, EndKeeps
<1>8. CASE \E n \in Available :
             /\ Chunk(n)
             /\ \/ Len(raw') < need /\ UNCHANGED <<msgs, reading>>
                \/ Len(raw') = need /\ Take(raw', need)
             /\ UNCHANGED <<session, writer, need>>
  <2> USE <1>8
  <2>1. PICK n \in Available :
             /\ Chunk(n)
             /\ \/ Len(raw') < need /\ UNCHANGED <<msgs, reading>>
                \/ Len(raw') = need /\ Take(raw', need)
             /\ UNCHANGED <<session, writer, need>>
    OBVIOUS
  <2>2. QED
    BY <1>5, <2>1
<1>9. CASE AtEnd /\ End(IF raw = << >> THEN "done" ELSE "failed")
  BY <1>6, <1>7, <1>9
<1>10. QED
  BY <1>8, <1>9 DEF ReadData

LEMMA CollectKeeps == ASSUME IInv, Collect PROVE IInv'
<1>1. /\ reader = "as-proposal" /\ reading = "size" /\ pipe' = << >> /\ raw' = raw \o pipe
      /\ UNCHANGED <<session, writer, reading, need, msgs>>
  BY DEF Collect
<1>2. /\ TypeOK /\ pipe \in Seq(Item) /\ raw \in Seq(Item) /\ Len(pipe) \in Nat /\ Len(raw) \in Nat
      /\ Wrote \in Nat /\ Len(pipe) <= Wrote
      /\ Gone = Len(raw) /\ msgs = << >>
  BY <1>1, WroteTypes DEF IInv, TypeOK, Flow, Collecting
<1>3. /\ raw' \in Seq(Item) /\ Len(raw') = Len(raw) + Len(pipe)
      /\ \A k \in 1 .. Len(raw) + Len(pipe) :
           raw'[k] = IF k <= Len(raw) THEN raw[k] ELSE pipe[k - Len(raw)]
  BY <1>1, <1>2, ConcatProperties
<1>4. ends' = ends /\ typed' = typed /\ reader' = reader /\ Wrote' = Wrote
      /\ reading' = reading /\ msgs' = msgs
  BY <1>1, ReaderFrame
<1>5. pipe' \in Seq(Item) /\ Gone' = Gone + Len(pipe) /\ Flow'
  <2>1. Len(pipe) \in 0 .. Len(pipe) /\ pipe' = SubSeq(pipe, Len(pipe) + 1, Len(pipe))
    BY <1>1, <1>2
  <2>2. QED
    BY <1>1, <2>1, TakeKeepsFlow
<1>6. Gone' = Len(raw')
  BY <1>2, <1>3, <1>5
<1>7. ASSUME NEW k \in 1 .. Len(raw') PROVE Thing(raw'[k], k)
  <2> DEFINE d == k - Len(raw)
  <2>1. CASE k <= Len(raw)
    <3>1. k \in 1 .. Len(raw) /\ raw'[k] = raw[k]
      BY <1>2, <1>3, <2>1
    <3>2. QED
      BY <1>1, <3>1 DEF IInv, Collecting
  <2>2. CASE ~(k <= Len(raw))
    <3>1. d \in 1 .. Len(pipe) /\ Gone + d = k /\ raw'[k] = pipe[d]
      BY <1>2, <1>3, <2>2
    <3> HIDE DEF d
    <3>2. QED
      BY <3>1 DEF IInv, Flow
  <2>3. QED
    BY <2>1, <2>2
<1>8. TypeOK'
  BY <1>1, <1>2, <1>3, <1>5, ReaderTypes DEF TypeOK
<1>9. AtSize' /\ AtData' /\ Collecting' /\ AtDone'
  BY <1>1, <1>2, <1>4, <1>6, <1>7 DEF AtSize, AtData, Collecting, AtDone, Thing
<1>10. QED
  BY <1>5, <1>8, <1>9 DEF IInv

(* The first two things of a stream are of one transaction, and there was  *)
(* none before it.                                                         *)
LEMMA FirstThings ==
  ASSUME SessionOK, NEW x, Thing(x, 1)
  PROVE  \E i \in 1 .. Len(typed) :
           /\ x = <<i, "size">> /\ Prints(i) /\ printed[i - 1] = << >>
           /\ ends[i] = 1 + Size[i] /\ Size[i] \in Nat /\ Size[i] >= 1
           /\ \A y : Thing(y, 2) => y = <<i, "data">>
<1>1. PICK i \in 1 .. Len(typed) :
        /\ ends[i - 1] < 1 /\ 1 <= ends[i]
        /\ x = <<i, IF 1 = ends[i - 1] + 1 THEN "size" ELSE "data">>
  BY DEF Thing
<1>2. /\ i - 1 \in Upto /\ ends[i] \in Nat /\ ends[i - 1] \in Nat /\ Size[i] \in Nat /\ Size[i] >= 1
      /\ Prints(i) => ends[i] = ends[i - 1] + 1 + Size[i]
      /\ ~Prints(i) => ends[i] = ends[i - 1]
  BY OneEnd
<1>3. ends[i - 1] = 0 /\ Prints(i)
  BY <1>1, <1>2
<1>4. ends[i] = 1 + Size[i]
  BY <1>2, <1>3
<1>5. x = <<i, "size">>
  BY <1>1, <1>3
<1>6. printed[i - 1] = << >>
  <2>1. 0 \in Upto /\ 0 <= i - 1 /\ ends[0] = 0 /\ printed[0] = << >>
    BY <1>2, EndsLoop, PrintedLoop DEF Upto, SessionOK
  <2>2. ends[0] = ends[i - 1]
    BY <1>3, <2>1
  <2>3. printed[0] = printed[i - 1]
    BY <1>2, <2>1, <2>2, EndsGrow
  <2>4. QED
    BY <2>1, <2>3
<1>7. ASSUME NEW y, Thing(y, 2) PROVE y = <<i, "data">>
  <2>1. PICK j \in 1 .. Len(typed) :
          /\ ends[j - 1] < 2 /\ 2 <= ends[j]
          /\ y = <<j, IF 2 = ends[j - 1] + 1 THEN "size" ELSE "data">>
    BY <1>7 DEF Thing
  <2>2. ends[i - 1] < 2 /\ 2 <= ends[i] /\ 2 \in Int
    BY <1>2, <1>3, <1>4
  <2>3. j = i
    BY <2>1, <2>2, OneThing
  <2>4. QED
    BY <1>3, <2>1, <2>3
<1>8. QED
  BY <1>2, <1>3, <1>4, <1>5, <1>6, <1>7

LEMMA ProposeKeeps == ASSUME IInv, Propose PROVE IInv'
<1>1. /\ reader = "as-proposal" /\ reading = "size" /\ pipe = << >> /\ closed # "no"
      /\ UNCHANGED <<session, writer, pipe, raw, need>>
  BY DEF Propose, AtEnd
<1>2. /\ TypeOK /\ SessionOK /\ pipe \in Seq(Item) /\ raw \in Seq(Item) /\ Len(raw) \in Nat
      /\ Gone = Len(raw) /\ msgs = << >> /\ Gone = Wrote /\ need \in Nat
      /\ \A k \in 1 .. Len(raw) : Thing(raw[k], k)
  BY <1>1, WroteTypes, NothingLeft DEF IInv, TypeOK, Collecting
<1>3. /\ typed' = typed /\ reader' = reader /\ piped' = piped /\ writing' = writing
      /\ closed' = closed /\ ends' = ends /\ Wrote' = Wrote /\ Written' = Written
      /\ AnyMessage' = AnyMessage
  BY <1>1, ReaderFrame
<1>4. Flow'
  BY <1>1, <1>3 DEF IInv, Flow, Thing, Gone
<1>5. ASSUME reading' \in {"done", "failed"}, msgs' \in Seq(AnyMessage), AtDone' PROVE IInv'
  <2>1. TypeOK'
    BY <1>1, <1>2, <1>5, ReaderTypes
  <2>2. AtSize' /\ AtData' /\ Collecting'
    BY <1>5 DEF AtSize, AtData, Collecting
  <2>3. QED
    BY <1>4, <1>5, <2>1, <2>2 DEF IInv
<1>6. CASE raw = << >>
  <2>1. msgs' = <<EmptyResolution>> /\ reading' = "done"
    BY <1>6 DEF Propose
  <2>2. Wrote = 0
    BY <1>2, <1>6
  <2>3. Written = << >> /\ writing.left = 0
    <3>1. /\ writing.cmd - 1 \in Upto /\ ends[writing.cmd - 1] \in Nat /\ writing.left \in Nat
      BY <1>2, WroteTypes
    <3>2. writing.left = 0 /\ ends[writing.cmd - 1] = 0
      BY <1>2, <2>2, <3>1, WroteTypes
    <3>3. 0 \in Upto /\ 0 <= writing.cmd - 1 /\ ends[0] = 0 /\ printed[0] = << >>
      BY <1>2, <3>1, EndsLoop, PrintedLoop DEF Upto, SessionOK
    <3>4. printed[0] = printed[writing.cmd - 1]
      BY <1>2, <3>1, <3>2, <3>3, EndsGrow
    <3>5. QED
      BY <3>2, <3>3, <3>4 DEF Written
  <2>4. Outcome'
    BY <1>1, <1>3, <2>1, <2>3 DEF Outcome
  <2>5. msgs' \in Seq(AnyMessage)
    <3>1. EmptyResolution \in AnyMessage
      BY DEF AnyMessage
    <3>2. QED
      BY <2>1, <3>1
  <2>6. QED
    BY <1>1, <1>3, <1>5, <2>1, <2>4, <2>5 DEF AtDone
<1>7. CASE raw # << >>
  <2>1. Len(raw) >= 1 /\ Thing(raw[1], 1)
    <3>1. Len(raw) >= 1
      <4>1. raw \in Seq(Item) /\ raw # << >>
        BY <1>2, <1>7
      <4>2. QED
        BY <4>1
    <3>2. 1 \in 1 .. Len(raw)
      BY <1>2, <3>1
    <3>3. QED
      BY <1>2, <3>1, <3>2
  <2>2. PICK i \in 1 .. Len(typed) :
          /\ raw[1] = <<i, "size">> /\ Prints(i) /\ printed[i - 1] = << >>
          /\ ends[i] = 1 + Size[i] /\ Size[i] \in Nat /\ Size[i] >= 1
          /\ \A y : Thing(y, 2) => y = <<i, "data">>
    BY <1>2, <2>1, FirstThings
  <2> DEFINE n == Size[i]
             r == SubSeq(raw, 2, IF Len(raw) > n THEN n + 1 ELSE Len(raw))
  <2>3. Take(r, n)
    <3>1. raw[1][1] = i
      BY <2>2
    <3>2. QED
      BY <1>7, <3>1 DEF Propose
  <2>4. Len(r) = n => Len(raw) >= n + 1 /\ r[1] = raw[2]
    <3> DEFINE b == IF Len(raw) > n THEN n + 1 ELSE Len(raw)
    <3>1. b \in Nat /\ b <= Len(raw) /\ b >= 1 /\ n \in Nat /\ n >= 1
          /\ (b - 1 = n => Len(raw) >= n + 1)
      BY <1>2, <2>1, <2>2
    <3> HIDE DEF b
    <3>2. Len(SubSeq(raw, 2, b)) = b - 1 /\ (b >= 2 => SubSeq(raw, 2, b)[1] = raw[2])
      BY <1>2, <3>1
    <3>3. b - 1 = n => b >= 2
      BY <3>1
    <3> HIDE DEF n
    <3>4. QED
      BY <3>1, <3>2, <3>3 DEF b
  <2>5. Len(r) = n => r[1] = <<i, "data">>
    <3>1. SUFFICES ASSUME Len(r) = n PROVE raw[2] = <<i, "data">>
      BY <2>4
    <3>2. 2 \in 1 .. Len(raw)
      BY <1>2, <2>2, <2>4, <3>1
    <3>3. QED
      BY <1>2, <2>2, <3>2
  <2> HIDE DEF n, r
  <2>6. Len(r) = n => r[1][1] = i
    BY <2>5
  <2>7. CASE Rejects(r, n) /\ UNCHANGED msgs /\ reading' = "failed"
    <3>1. AtDone' /\ msgs' \in Seq(AnyMessage)
      BY <1>2, <2>7 DEF AtDone
    <3>2. QED
      BY <1>5, <2>7, <3>1
  <2>8. CASE Extract(r, n)
    <3>1. PICK m \in IF Decodes(r, n) THEN Message(typed[r[1][1]]) ELSE {} :
            msgs' = Append(msgs, m) /\ reading' = "done"
      BY <1>1, <2>8 DEF Extract
    <3>2. Len(r) = n /\ m \in Message(typed[i])
      BY <2>6, <3>1 DEF Decodes
    <3>3. ends[i] <= Wrote
      BY <1>2, <2>2, <2>4, <3>2 DEF n
    <3>4. Written # << >> /\ Written[1] = typed[i]
      BY <1>2, <2>2, <3>3, FirstWritten
    <3>5. m \in AnyMessage
      <4>1. typed[i] \in Commands
        BY <1>2, OneEnd
      <4>2. QED
        BY <3>2, <4>1 DEF AnyMessage
    <3>6. msgs' \in Seq(AnyMessage) /\ Len(msgs') = 1 /\ msgs'[1] = m
      BY <1>2, <3>1, <3>5
    <3>7. FirstOnly'
      BY <1>1, <1>3, <3>2, <3>4, <3>6 DEF FirstOnly
    <3>8. QED
      BY <1>5, <3>1, <3>6, <3>7 DEF AtDone
  <2>9. QED
    BY <2>3, <2>7, <2>8 DEF Take
<1>8. QED
  BY <1>6, <1>7

-----------------------------------------------------------------------------
(* The invariant holds at the beginning and is kept by every step. *)

LEMMA InitIInv == ASSUME Init PROVE IInv
<1>1. /\ typed \in Sessions /\ reader \in {"as-batch", "set-validators", "as-proposal"}
      /\ piped \in BOOLEAN /\ writing = [cmd |-> 1, left |-> 0] /\ closed = "no"
      /\ pipe = << >> /\ reading = "size" /\ raw = << >> /\ need = 0 /\ msgs = << >>
  BY DEF Init
<1>2. SessionOK /\ Len(typed) \in Nat
  BY <1>1, TxStreamAssumption DEF SessionOK, Commands
<1>3. TypeOK
  BY <1>1, <1>2 DEF TypeOK
<1>4. ends[0] = 0 /\ printed[0] = << >>
  BY <1>2, EndsLoop, PrintedLoop
<1>5. writing.cmd - 1 = 0 /\ writing.left = 0
  BY <1>1
<1>6. Wrote = 0 /\ Gone = 0
  <2>1. Wrote = ends[0]
    BY <1>3, <1>5, WroteTypes
  <2>2. Wrote = 0 /\ Len(pipe) = 0
    BY <1>1, <1>4, <2>1
  <2> HIDE DEF Wrote
  <2>3. QED
    BY <2>2 DEF Gone
<1>7. Flow /\ Collecting
  BY <1>1, <1>6 DEF Flow, Collecting
<1>8. AtSize
  <2>1. Before(0)
    BY <1>1, <1>4 DEF Before, Matches
  <2>2. QED
    BY <1>1, <1>4, <1>6, <2>1 DEF AtSize
<1>9. AtData /\ AtDone
  BY <1>1 DEF AtData, AtDone
<1>10. QED
  BY <1>3, <1>7, <1>8, <1>9 DEF IInv

LEMMA NextIInv == ASSUME IInv, [Next]_vars PROVE IInv'
<1>1. CASE Refuse
  BY <1>1, RefuseKeeps
<1>2. CASE WriteSize
  BY <1>2, WriteSizeKeeps
<1>3. CASE WriteData
  BY <1>3, WriteDataKeeps
<1>4. CASE Close \/ Die
  BY <1>4, EndOfSessionKeeps
<1>5. CASE NotPiped
  BY <1>5, NotPipedKeeps
<1>6. CASE ReadSize
  BY <1>6, ReadSizeKeeps
<1>7. CASE ReadData
  BY <1>7, ReadDataKeeps
<1>8. CASE Collect
  BY <1>8, CollectKeeps
<1>9. CASE Propose
  BY <1>9, ProposeKeeps
<1>10. CASE UNCHANGED vars
  <2>1. /\ typed' = typed /\ reader' = reader /\ piped' = piped /\ writing' = writing
        /\ closed' = closed /\ pipe' = pipe /\ reading' = reading /\ raw' = raw
        /\ need' = need /\ msgs' = msgs /\ UNCHANGED <<session, writer>>
    BY <1>10 DEF vars, session, writer
  <2>2. /\ printed' = printed /\ ends' = ends /\ Wrote' = Wrote /\ Written' = Written
    BY <2>1, ReaderFrame
  <2>3. Gone' = Gone
    BY <2>1, <2>2 DEF Gone
  <2>4. TypeOK'
    BY <2>1, ReaderTypes DEF IInv, TypeOK
  <2>5. Flow'
    BY <2>1, <2>2, <2>3 DEF IInv, Flow, Thing
  <2>6. AtSize' /\ AtData'
    BY <2>1, <2>2, <2>3 DEF IInv, AtSize, AtData, Inside, Before, Matches, Prints
  <2>7. Collecting' /\ AtDone'
    BY <2>1, <2>2, <2>3 DEF IInv, Collecting, AtDone, Outcome, FirstOnly, Matches, Taken, Thing
  <2>8. QED
    BY <2>4, <2>5, <2>6, <2>7 DEF IInv
<1>11. QED
  BY <1>1, <1>2, <1>3, <1>4, <1>5, <1>6, <1>7, <1>8, <1>9, <1>10 DEF Next

(* What a reader passes on is every transaction of which data was written, *)
(* whole and in order, wherever the session ended and however the pipe cut *)
(* it (writeTx, readTx and the readers of cmd/grafaincli).                 *)
THEOREM StreamCutDataIsNoticed == Spec => []CutDataIsNoticed
<1>1. Init => IInv
  BY InitIInv
<1>2. IInv /\ [Next]_vars => IInv'
  BY NextIInv
<1>3. IInv => CutDataIsNoticed
  <2>1. SUFFICES ASSUME IInv, piped, reading = "done" PROVE CutDataIsNoticed
    BY DEF CutDataIsNoticed
  <2>2. Outcome
    BY <2>1, FirstIsOutcome DEF IInv, AtDone
  <2>3. QED
    BY <2>2 DEF CutDataIsNoticed, Outcome, Matches
<1>4. QED
  BY <1>1, <1>2, <1>3, PTL DEF Spec
=============================================================================
