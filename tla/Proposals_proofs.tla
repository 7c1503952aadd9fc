-------------------------- MODULE Proposals_proofs --------------------------
(***************************************************************************)
(* Governance for any number of proposals, rules, electors and block       *)
(* times, and for transactions of any length.                              *)
(*                                                                         *)
(* The argument: what as-proposal makes of a transaction (Kept) picks      *)
(* messages of it in their order, all of them if the inner switch names    *)
(* their kinds.  A tally that is queued belongs to a proposal under vote   *)
(* and is due when its vote is over (Queue), and every proposal under vote *)
(* has one (Scheduled); so a proposal is decided once, by the votes it     *)
(* ends with (Decided), and in time, and before that it has no effects     *)
(* (Open).                                                                 *)
(***************************************************************************)
EXTENDS Proposals, FiniteSetTheorems, WellFoundedInduction, TLAPS

-----------------------------------------------------------------------------
(* Induction up to N, for a set instead of a predicate. *)
LEMMA UpTo ==
  ASSUME NEW N \in Nat, NEW S, 0 \in S,
         \A n \in 0 .. N - 1 : n \in S => n + 1 \in S
  PROVE  0 .. N \subseteq S
<1> DEFINE bad == (0 .. N) \ S
<1> SUFFICES ASSUME bad # {} PROVE FALSE
  OBVIOUS
<1>1. bad \subseteq Nat
  OBVIOUS
<1>2. PICK m \in bad : \A j \in bad : ~(<<j, m>> \in OpToRel(<, Nat))
  BY <1>1, NatLessThanWellFounded, WFMin
<1>3. m \in 0 .. N /\ m \notin S /\ \A j \in bad : ~(j < m)
  BY <1>1, <1>2 DEF OpToRel
<1>4. m - 1 \in 0 .. N - 1 /\ m - 1 \notin bad
  BY <1>3
<1>5. QED
  BY <1>3, <1>4

-----------------------------------------------------------------------------
(* The loop over a batch. *)

Message == [kind : Kinds, owner : Accounts]

(* What the loop has kept of the first n messages of s, for each n. *)
IsLoop(f, s, N) ==
  f = [n \in 0 .. N |->
    IF n = 0 THEN << >>
    ELSE IF Carries(s[n]) THEN Append(f[n - 1], s[n]) ELSE f[n - 1]]

(* The loop ends: it has a state after every message. *)
LEMMA LoopExists ==
  ASSUME NEW s \in Seq(Message)
  PROVE  \E f : IsLoop(f, s, Len(s))
<1> DEFINE S == {n \in 0 .. Len(s) : \E f : IsLoop(f, s, n)}
<1>1. 0 \in S
  <2> DEFINE f == [n \in 0 .. 0 |-> << >>]
  <2>1. IsLoop(f, s, 0)
    BY DEF IsLoop
  <2>2. QED
    BY <2>1
<1>2. ASSUME NEW n \in 0 .. Len(s) - 1, n \in S PROVE n + 1 \in S
  <2>1. PICK f : IsLoop(f, s, n)
    BY <1>2
  <2> DEFINE new == IF Carries(s[n + 1]) THEN Append(f[n], s[n + 1]) ELSE f[n]
             g == [i \in 0 .. n + 1 |-> IF i = n + 1 THEN new ELSE f[i]]
             h == [i \in 0 .. n + 1 |->
                    IF i = 0 THEN << >>
                    ELSE IF Carries(s[i]) THEN Append(g[i - 1], s[i]) ELSE g[i - 1]]
  <2>2. ASSUME NEW i \in 0 .. n + 1 PROVE g[i] = h[i]
    <3>1. CASE i = n + 1
      <4>1. g[i - 1] = f[n]
        BY <3>1
      <4>2. QED
        BY <3>1, <4>1
    <3>2. CASE i # n + 1
      <4>1. i \in 0 .. n
        BY <3>2
      <4>2. g[i] = f[i]
        BY <4>1
      <4>3. f[i] = IF i = 0 THEN << >>
                   ELSE IF Carries(s[i]) THEN Append(f[i - 1], s[i]) ELSE f[i - 1]
        BY <2>1, <4>1 DEF IsLoop
      <4>4. i # 0 => g[i - 1] = f[i - 1]
        BY <4>1
      <4>5. QED
        BY <4>2, <4>3, <4>4
    <3>3. QED
      BY <3>1, <3>2
  <2>3. g = h
    BY <2>2
  <2>4. IsLoop(g, s, n + 1)
    BY <2>3 DEF IsLoop
  <2>5. QED
    BY <2>4
<1>3. 0 .. Len(s) \subseteq S
  <2>1. Len(s) \in Nat
    OBVIOUS
  <2> HIDE DEF S
  <2>2. QED
    BY <1>1, <1>2, <2>1, UpTo
<1>4. Len(s) \in S
  <2>1. Len(s) \in 0 .. Len(s)
    OBVIOUS
  <2> HIDE DEF S
  <2>2. QED
    BY <1>3, <2>1
<1>5. QED
  BY <1>4

(* Kept is the state the loop ends in. *)
LEMMA KeptIsLoop ==
  ASSUME NEW s \in Seq(Message)
  PROVE  \E f : IsLoop(f, s, Len(s)) /\ Kept(s) = f[Len(s)]
<1> DEFINE f == CHOOSE f : IsLoop(f, s, Len(s))
<1>1. IsLoop(f, s, Len(s))
  BY LoopExists
<1>2. Kept(s) = f[Len(s)]
  BY DEF Kept, IsLoop
<1>3. QED
  BY <1>1, <1>2

LEMMA LoopSteps ==
  ASSUME NEW s \in Seq(Message), NEW f, IsLoop(f, s, Len(s))
  PROVE  /\ f[0] = << >>
         /\ \A n \in 1 .. Len(s) :
              f[n] = IF Carries(s[n]) THEN Append(f[n - 1], s[n]) ELSE f[n - 1]
<1>1. Len(s) \in Nat
  OBVIOUS
<1>2. \A n \in 0 .. Len(s) :
        f[n] = IF n = 0 THEN << >>
               ELSE IF Carries(s[n]) THEN Append(f[n - 1], s[n]) ELSE f[n - 1]
  BY DEF IsLoop
<1>3. \A n \in 1 .. Len(s) : n \in 0 .. Len(s) /\ n # 0
  OBVIOUS
<1>4. QED
  BY <1>1, <1>2, <1>3

(* h picks the messages of t that are s, in their order. *)
Picks(h, s, t) ==
  /\ h \in [1 .. Len(s) -> 1 .. Len(t)]
  /\ \A i, j \in 1 .. Len(s) : i < j => h[i] < h[j]
  /\ \A i \in 1 .. Len(s) : s[i] = t[h[i]]

(* The first k positions h picks are k positions. *)
LEMMA PickedSoFar ==
  ASSUME NEW s \in Seq(Message), NEW t \in Seq(Message), NEW h, Picks(h, s, t),
         NEW k \in 0 .. Len(s)
  PROVE  Cardinality({h[m] : m \in 1 .. k}) = k
<1> DEFINE T == {h[m] : m \in 1 .. k}
           b == [m \in 1 .. k |-> h[m]]
<1>1. b \in Surjection(1 .. k, T)
  BY DEF Surjection
<1>2. \A i, j \in 1 .. k : b[i] = b[j] => i = j
  <2> SUFFICES ASSUME NEW i \in 1 .. k, NEW j \in 1 .. k, b[i] = b[j], i # j PROVE FALSE
    OBVIOUS
  <2>1. h[i] = h[j] /\ h[i] \in Nat /\ h[j] \in Nat
    BY DEF Picks
  <2>2. i < j \/ j < i
    OBVIOUS
  <2>3. h[i] < h[j] \/ h[j] < h[i]
    BY <2>2 DEF Picks
  <2>4. QED
    BY <2>1, <2>3
<1>3. b \in Injection(1 .. k, T)
  BY <1>2 DEF Injection, IsInjective
<1>4. ExistsBijection(1 .. k, T)
  BY <1>1, <1>3 DEF ExistsBijection, Bijection
<1>5. QED
  BY <1>4, FS_CountingElements

(* What is picked in order is a subsequence. *)
LEMMA PickedSubsequence ==
  ASSUME NEW s \in Seq(Message), NEW t \in Seq(Message), NEW h, Picks(h, s, t)
  PROVE  Subsequence(s, t)
<1> DEFINE I == {h[m] : m \in 1 .. Len(s)}
           UpToIn(i) == {j \in I : j <= i}
<1>1. I \in SUBSET DOMAIN t
  <2>1. \A m \in 1 .. Len(s) : h[m] \in 1 .. Len(t)
    BY DEF Picks
  <2>2. DOMAIN t = 1 .. Len(t)
    OBVIOUS
  <2>3. QED
    BY <2>1, <2>2
<1>2. Cardinality(I) = Len(s)
  BY PickedSoFar
<1>3. ASSUME NEW k \in 1 .. Len(s)
      PROVE  UpToIn(h[k]) = {h[m] : m \in 1 .. k}
  <2>1. ASSUME NEW m \in 1 .. Len(s) PROVE h[m] <= h[k] <=> m <= k
    <3>1. h[m] \in Nat /\ h[k] \in Nat
      BY DEF Picks
    <3>2. m < k => h[m] < h[k]
      BY DEF Picks
    <3>3. k < m => h[k] < h[m]
      BY DEF Picks
    <3>4. m = k \/ m < k \/ k < m
      OBVIOUS
    <3>5. QED
      BY <3>1, <3>2, <3>3, <3>4
  <2>2. 1 .. k \subseteq 1 .. Len(s)
    OBVIOUS
  <2>3. \A m \in 1 .. k : m \in 1 .. Len(s) /\ m <= k
    OBVIOUS
  <2>4. \A m \in 1 .. Len(s) : m <= k => m \in 1 .. k
    OBVIOUS
  <2>5. QED
    BY <2>1, <2>3, <2>4
<1>4. ASSUME NEW k \in 1 .. Len(s)
      PROVE  (CHOOSE i \in I : Cardinality(UpToIn(i)) = k) = h[k]
  <2>1. \A m \in 1 .. Len(s) : Cardinality(UpToIn(h[m])) = m
    BY <1>3, PickedSoFar
  <2>2. h[k] \in I
    OBVIOUS
  <2>3. \A i \in I : \E m \in 1 .. Len(s) : i = h[m]
    OBVIOUS
  <2> HIDE DEF UpToIn, I
  <2>4. \A i \in I : Cardinality(UpToIn(i)) = k => i = h[k]
    BY <2>1, <2>3
  <2>5. Cardinality(UpToIn(h[k])) = k
    BY <2>1
  <2>6. QED
    BY <2>2, <2>4, <2>5
<1> DEFINE r == [k \in 1 .. Cardinality(I) |->
                  t[CHOOSE i \in I : Cardinality(UpToIn(i)) = k]]
<1>5. s = r
  <2>1. s = [k \in 1 .. Len(s) |-> s[k]]
    OBVIOUS
  <2>2. \A k \in 1 .. Len(s) : s[k] = t[CHOOSE i \in I : Cardinality(UpToIn(i)) = k]
    BY <1>4 DEF Picks
  <2> HIDE DEF UpToIn, I
  <2>3. QED
    BY <1>2, <2>1, <2>2
<1>6. QED
  BY <1>1, <1>5 DEF Subsequence

(* The loop picks from what it reads. *)
LEMMA LoopPicks ==
  ASSUME NEW s \in Seq(Message), NEW f, IsLoop(f, s, Len(s))
  PROVE  /\ f[Len(s)] \in Seq(Message)
         /\ \E h : Picks(h, f[Len(s)], s)
<1> DEFINE upTo(h, n) ==
             /\ h \in [1 .. Len(f[n]) -> 1 .. n]
             /\ \A i, j \in 1 .. Len(f[n]) : i < j => h[i] < h[j]
             /\ \A i \in 1 .. Len(f[n]) : f[n][i] = s[h[i]]
           S == {n \in 0 .. Len(s) : f[n] \in Seq(Message) /\ \E h : upTo(h, n)}
<1>0. f[0] = << >> /\ \A n \in 1 .. Len(s) :
        f[n] = IF Carries(s[n]) THEN Append(f[n - 1], s[n]) ELSE f[n - 1]
  BY LoopSteps
<1>1. 0 \in S
  <2>1. f[0] \in Seq(Message) /\ Len(f[0]) = 0
    BY <1>0
  <2> DEFINE h == [i \in 1 .. 0 |-> 0]
  <2>2. h \in [1 .. Len(f[0]) -> 1 .. 0]
    BY <2>1
  <2>3. upTo(h, 0)
    BY <2>1, <2>2
  <2>4. QED
    BY <2>1, <2>3
<1>2. ASSUME NEW n \in 0 .. Len(s) - 1, n \in S PROVE n + 1 \in S
  <2>1. PICK h : upTo(h, n)
    BY <1>2
  <2>2. f[n] \in Seq(Message) /\ Len(f[n]) \in Nat
    BY <1>2
  <2>3. f[n + 1] = IF Carries(s[n + 1]) THEN Append(f[n], s[n + 1]) ELSE f[n]
    BY <1>0
  <2>4. CASE Carries(s[n + 1])
    <3> DEFINE l == Len(f[n])
               g == [i \in 1 .. l + 1 |-> IF i = l + 1 THEN n + 1 ELSE h[i]]
    <3>1. s[n + 1] \in Message
      OBVIOUS
    <3>2. /\ f[n + 1] \in Seq(Message) /\ Len(f[n + 1]) = l + 1
          /\ f[n + 1][l + 1] = s[n + 1]
          /\ \A i \in 1 .. l : f[n + 1][i] = f[n][i]
      BY <2>2, <2>3, <2>4, <3>1
    <3>3. \A i \in 1 .. l : h[i] \in 1 .. n
      BY <2>1
    <3>4. g \in [1 .. Len(f[n + 1]) -> 1 .. n + 1]
      BY <2>2, <3>2, <3>3
    <3>5. ASSUME NEW i \in 1 .. l + 1, NEW j \in 1 .. l + 1, i < j PROVE g[i] < g[j]
      <4>1. i \in 1 .. l /\ g[i] = h[i] /\ h[i] \in 1 .. n
        BY <2>2, <3>3, <3>5
      <4>2. CASE j = l + 1
        BY <4>1, <4>2
      <4>3. CASE j # l + 1
        <5>1. j \in 1 .. l /\ g[j] = h[j]
          BY <2>2, <4>3
        <5>2. QED
          BY <2>1, <3>5, <4>1, <5>1
      <4>4. QED
        BY <4>2, <4>3
    <3>6. ASSUME NEW i \in 1 .. l + 1 PROVE f[n + 1][i] = s[g[i]]
      <4>1. CASE i = l + 1
        BY <3>2, <4>1
      <4>2. CASE i # l + 1
        <5>1. i \in 1 .. l /\ g[i] = h[i]
          BY <2>2, <4>2
        <5>2. f[n][i] = s[h[i]]
          BY <2>1, <5>1
        <5>3. QED
          BY <3>2, <5>1, <5>2
      <4>3. QED
        BY <4>1, <4>2
    <3>7. upTo(g, n + 1)
      BY <3>2, <3>4, <3>5, <3>6
    <3>8. n + 1 \in 0 .. Len(s)
      OBVIOUS
    <3> HIDE DEF upTo, g
    <3>9. \E u : upTo(u, n + 1)
      BY <3>7
    <3>10. QED
      BY <3>2, <3>8, <3>9
  <2>5. CASE ~Carries(s[n + 1])
    <3>1. f[n + 1] = f[n]
      BY <2>3, <2>5
    <3>2. h \in [1 .. Len(f[n]) -> 1 .. n + 1]
      BY <2>1
    <3>3. upTo(h, n + 1)
      BY <2>1, <3>1, <3>2
    <3>4. n + 1 \in 0 .. Len(s)
      OBVIOUS
    <3> HIDE DEF upTo
    <3>5. \E u : upTo(u, n + 1)
      BY <3>3
    <3>6. QED
      BY <2>2, <3>1, <3>4, <3>5
  <2>6. QED
    BY <2>4, <2>5
<1>3. Len(s) \in S
  <2>1. Len(s) \in Nat
    OBVIOUS
  <2> HIDE DEF S
  <2>2. 0 .. Len(s) \subseteq S
    BY <1>1, <1>2, <2>1, UpTo
  <2>3. QED
    BY <2>1, <2>2
<1>4. PICK h : upTo(h, Len(s))
  BY <1>3
<1>5. Picks(h, f[Len(s)], s)
  BY <1>4 DEF Picks
<1>6. QED
  BY <1>3, <1>5

(* A batch keeps messages of the transaction, in its order. *)
LEMMA KeptIsSubsequence ==
  ASSUME NEW s \in Seq(Message)
  PROVE  Kept(s) \in Seq(Message) /\ Subsequence(Kept(s), s)
BY KeptIsLoop, LoopPicks, PickedSubsequence

(* A batch keeps everything if the inner switch names everything. *)
LEMMA KeptWhole ==
  ASSUME NEW s \in Seq(Message), \A i \in DOMAIN s : Carries(s[i])
  PROVE  Kept(s) = s
<1>1. PICK f : IsLoop(f, s, Len(s)) /\ Kept(s) = f[Len(s)]
  BY KeptIsLoop
<1> DEFINE S == {n \in 0 .. Len(s) : f[n] = [i \in 1 .. n |-> s[i]]}
<1>2. f[0] = << >> /\ \A n \in 1 .. Len(s) : f[n] = Append(f[n - 1], s[n])
  <2>1. \A n \in 1 .. Len(s) : Carries(s[n])
    OBVIOUS
  <2>2. QED
    BY <1>1, <2>1, LoopSteps
<1>3. 0 \in S
  BY <1>2
<1>4. ASSUME NEW n \in 0 .. Len(s) - 1, n \in S PROVE n + 1 \in S
  <2> DEFINE prefix == [i \in 1 .. n |-> s[i]]
             longer == [i \in 1 .. n + 1 |-> s[i]]
  <2>1. \A i \in 1 .. n + 1 : s[i] \in Message
    OBVIOUS
  <2>2. prefix \in Seq(Message) /\ Len(prefix) = n
    BY <2>1
  <2>3. longer \in Seq(Message) /\ Len(longer) = n + 1
    BY <2>1
  <2>4. Append(prefix, s[n + 1]) \in Seq(Message) /\ Len(Append(prefix, s[n + 1])) = n + 1
    BY <2>1, <2>2
  <2>5. \A i \in 1 .. n + 1 : Append(prefix, s[n + 1])[i] = longer[i]
    BY <2>1, <2>2
  <2>6. Append(prefix, s[n + 1]) = longer
    BY <2>3, <2>4, <2>5
  <2>7. n + 1 \in 1 .. Len(s) /\ n + 1 - 1 = n
    OBVIOUS
  <2>8. f[n + 1] = Append(f[n], s[n + 1])
    BY <1>2, <2>7
  <2>9. f[n] = prefix
    BY <1>4
  <2>10. f[n + 1] = longer
    <3> HIDE DEF prefix, longer
    <3>1. QED
      BY <2>6, <2>8, <2>9
  <2>11. n + 1 \in 0 .. Len(s)
    OBVIOUS
  <2>12. QED
    BY <2>10, <2>11
<1>5. Len(s) \in S
  <2>1. Len(s) \in Nat
    OBVIOUS
  <2> HIDE DEF S
  <2>2. 0 .. Len(s) \subseteq S
    BY <1>3, <1>4, <2>1, UpTo
  <2>3. QED
    BY <2>1, <2>2
<1>6. QED
  BY <1>1, <1>5

-----------------------------------------------------------------------------
(* What a proposal carries, by what was given to as-proposal. *)

LEMMA PayloadTypes ==
  ASSUME NEW tx \in Payloads
  PROVE  tx \in Transaction /\ tx.msgs \in Seq(Message) /\ tx.batch \in BOOLEAN
BY ProposalsAssumption DEF Transaction, Message

LEMMA OptionCarries ==
  ASSUME NEW tx \in Payloads
  PROVE  /\ toOption(tx) \in Transaction
         /\ Subsequence(toOption(tx).msgs, tx.msgs)
         /\ (\A i \in DOMAIN tx.msgs : tx.msgs[i].kind \in BatchKinds)
              => toOption(tx).msgs = tx.msgs
<1>1. tx \in Transaction /\ tx.msgs \in Seq(Message)
  BY PayloadTypes
<1>2. CASE tx.batch
  <2>1. toOption(tx) = [tx EXCEPT !.msgs = Kept(tx.msgs)]
    BY <1>2 DEF toOption, MsgList
  <2>2. Kept(tx.msgs) \in Seq(Message) /\ Subsequence(Kept(tx.msgs), tx.msgs)
    BY <1>1, KeptIsSubsequence
  <2>3. toOption(tx) \in Transaction /\ toOption(tx).msgs = Kept(tx.msgs)
    BY <1>1, <2>1, <2>2 DEF Transaction, Message
  <2>4. ASSUME \A i \in DOMAIN tx.msgs : tx.msgs[i].kind \in BatchKinds
        PROVE  Kept(tx.msgs) = tx.msgs
    BY <1>1, <2>4, KeptWhole DEF Carries
  <2>5. QED
    BY <2>2, <2>3, <2>4
<1>3. CASE ~tx.batch
  <2>1. toOption(tx) = tx
    BY <1>3 DEF toOption
  <2> DEFINE h == [i \in 1 .. Len(tx.msgs) |-> i]
  <2>2. Picks(h, tx.msgs, tx.msgs)
    BY <1>1 DEF Picks
  <2>3. QED
    BY <1>1, <2>1, <2>2, PickedSubsequence
<1>4. QED
  BY <1>2, <1>3

-----------------------------------------------------------------------------
Statuses == {"none", "submitted", "withdrawn", "accepted", "rejected"}

(* A task is a tally of a proposal or the timer of another module. *)
Task ==
  [at : Nat, kind : {"gov/tally"}, id : Ids]
  \cup [at : Nat, kind : CronTask \ {"gov/tally"}, id : {"timer"}]

TypeOK ==
  /\ now \in 0 .. MaxTime
  /\ payload \in [Ids -> Payloads \cup {<< >>}]
  /\ option \in [Ids -> Transaction \cup {<< >>}]
  /\ rule \in [Ids -> Rules]
  /\ start \in [Ids -> Nat]
  /\ status \in [Ids -> Statuses]
  /\ yes \in [Ids -> SUBSET Electors]
  /\ tasks \subseteq Task
  /\ effects \in [Ids -> Seq(Message)]
  /\ blamed \subseteq Ids

(* A tally that is queued is the one of a proposal under vote, due one     *)
(* period after the vote starts.                                           *)
Queue == \A t \in tasks :
  t.kind = "gov/tally" => status[t.id] = "submitted" /\ t.at = start[t.id] + 1

(* A proposal under vote has its tally queued, for a time to come. *)
Scheduled == \A p \in Ids : status[p] = "submitted" =>
  Tally(p, start[p] + 1) \in tasks /\ now < start[p] + 1

(* What was submitted is what as-proposal made of its transaction. *)
Carried == \A p \in Ids : status[p] # "none" =>
  payload[p] \in Payloads /\ option[p] = toOption(payload[p])

(* A proposal that is not decided has no effects and nobody to blame. *)
Open == \A p \in Ids :
  /\ status[p] # "accepted" => effects[p] = << >>
  /\ p \in blamed => status[p] \in {"accepted", "rejected"}

AllAuthorized(p) ==
  \A i \in DOMAIN option[p].msgs :
    option[p].msgs[i].kind \in Executable /\ Authorized(option[p].msgs[i], rule[p])

(* A proposal that was accepted won its vote; it has all its effects or    *)
(* none, and none only for a reason.                                       *)
Decided == \A p \in Ids : status[p] = "accepted" =>
  /\ Wins(p)
  /\ effects[p] = << >> \/ (effects[p] = option[p].msgs /\ AllAuthorized(p))
  /\ p \notin blamed /\ AllAuthorized(p) => effects[p] = option[p].msgs

IInv == TypeOK /\ Queue /\ Scheduled /\ Carried /\ Open /\ Decided /\ TasksFindHandlers

LEMMA TallyInTask ==
  ASSUME NEW p \in Ids, NEW t \in Nat
  PROVE  Tally(p, t) \in Task /\ Tally(p, t).kind = "gov/tally"
         /\ Tally(p, t).id = p /\ Tally(p, t).at = t
BY DEF Tally, Task

LEMMA InitIInv == Init => IInv
<1> SUFFICES ASSUME Init PROVE IInv
  OBVIOUS
<1>1. (CHOOSE r \in Rules : TRUE) \in Rules
  BY ProposalsAssumption
<1>2. TypeOK
  BY <1>1, ProposalsAssumption DEF Init, TypeOK, Statuses
<1>3. \A p \in Ids : status[p] = "none" /\ effects[p] = << >>
  BY DEF Init
<1>4. Queue /\ Scheduled /\ TasksFindHandlers /\ Carried /\ Open /\ Decided
  BY <1>3 DEF Init, Queue, Scheduled, TasksFindHandlers, Carried, Open, Decided
<1>5. QED
  BY <1>2, <1>4 DEF IInv

LEMMA ProposeKeeps ==
  ASSUME IInv, NEW p \in Ids, NEW tx \in Payloads, NEW r \in Rules, NEW s \in 1 .. MaxTime,
         Propose(p, tx, r, s)
  PROVE  IInv'
<1> USE DEF IInv
<1>1. toOption(tx) \in Transaction
  BY OptionCarries
<1>2. s \in Nat /\ s + 1 \in Nat
  OBVIOUS
<1>3. tasks' = tasks \cup {Tally(p, s + 1)} /\ Tally(p, s + 1) \in Task
  BY <1>2, TallyInTask DEF Propose
<1>4. TypeOK'
  <2>1. tasks' \subseteq Task
    BY <1>3 DEF TypeOK
  <2>2. QED
    BY <1>1, <1>2, <2>1 DEF TypeOK, Propose, Statuses
<1>5. \A q \in Ids : q # p =>
        /\ payload'[q] = payload[q] /\ option'[q] = option[q] /\ rule'[q] = rule[q]
        /\ start'[q] = start[q] /\ status'[q] = status[q]
  BY DEF TypeOK, Propose
<1>6. /\ status[p] = "none" /\ payload'[p] = tx /\ option'[p] = toOption(tx)
      /\ start'[p] = s /\ status'[p] = "submitted"
      /\ yes' = yes /\ effects' = effects /\ blamed' = blamed /\ unrouted' = unrouted
  BY DEF TypeOK, Propose
<1>7. Queue'
  <2> SUFFICES ASSUME NEW t \in tasks', t.kind = "gov/tally"
               PROVE  status'[t.id] = "submitted" /\ t.at = start'[t.id] + 1
    BY DEF Queue
  <2>1. CASE t \in tasks
    <3>1. t.id \in Ids /\ status[t.id] = "submitted" /\ t.at = start[t.id] + 1
      BY <2>1 DEF Queue, TypeOK, Task
    <3>2. QED
      BY <1>5, <1>6, <3>1
  <2>2. CASE t = Tally(p, s + 1)
    BY <1>2, <1>6, <2>2, TallyInTask
  <2>3. QED
    BY <1>3, <2>1, <2>2
<1>8. Carried'
  BY <1>5, <1>6 DEF Carried
<1>9. Open'
  BY <1>5, <1>6 DEF Open
<1>10. Decided'
  BY <1>5, <1>6 DEF Decided, Wins, AllAuthorized
<1>11. Scheduled'
  <2>1. now' = now /\ now < s + 1
    BY DEF Propose, TypeOK
  <2>2. \A q \in Ids : q # p => Tally(q, start[q] + 1)' = Tally(q, start[q] + 1)
    BY <1>5 DEF Tally
  <2>3. Tally(p, start[p] + 1)' = Tally(p, s + 1)
    BY <1>6 DEF Tally
  <2>. QED  BY <1>3, <1>5, <1>6, <2>1, <2>2, <2>3 DEF Scheduled
<1>12. QED
  BY <1>4, <1>6, <1>7, <1>8, <1>9, <1>10, <1>11 DEF TasksFindHandlers

LEMMA WithdrawKeeps ==
  ASSUME IInv, NEW p \in Ids, Withdraw(p)
  PROVE  IInv'
<1> USE DEF IInv
<1>1. /\ status[p] = "submitted" /\ status'[p] = "withdrawn"
      /\ \A q \in Ids : q # p => status'[q] = status[q]
      /\ UNCHANGED <<now, payload, option, rule, start, yes, effects, blamed, unrouted>>
  BY DEF TypeOK, Withdraw
<1>2. TypeOK'
  BY DEF TypeOK, Withdraw, Statuses
<1>3. Queue'
  <2> SUFFICES ASSUME NEW t \in tasks', t.kind = "gov/tally"
               PROVE  status'[t.id] = "submitted" /\ t.at = start'[t.id] + 1
    BY DEF Queue
  <2>1. t \in tasks /\ t # Tally(p, start[p] + 1)
    BY DEF Withdraw
  <2>2. t.id \in Ids /\ status[t.id] = "submitted" /\ t.at = start[t.id] + 1
        /\ t = [at |-> t.at, kind |-> t.kind, id |-> t.id]
    BY <2>1 DEF Queue, TypeOK, Task
  <2>3. t.id # p
    BY <2>1, <2>2 DEF Tally
  <2>4. QED
    BY <1>1, <2>2, <2>3
<1>4. Carried' /\ Open'
  BY <1>1 DEF Carried, Open
<1>5. Decided'
  BY <1>1 DEF Decided, Wins, AllAuthorized
<1>6. Scheduled'
  <2>1. \A q \in Ids : q # p => Tally(q, start[q] + 1) # Tally(p, start[p] + 1)
    BY DEF Tally
  <2>2. \A q \in Ids : Tally(q, start[q] + 1)' = Tally(q, start[q] + 1)
    BY <1>1 DEF Tally
  <2>3. tasks' = tasks \ {Tally(p, start[p] + 1)}
    BY DEF Withdraw
  <2>. QED  BY <1>1, <2>1, <2>2, <2>3 DEF Scheduled
<1>7. QED
  BY <1>1, <1>2, <1>3, <1>4, <1>5, <1>6 DEF TasksFindHandlers

LEMMA VoteKeeps ==
  ASSUME IInv, NEW p \in Ids, NEW e \in Electors, NEW o \in {"yes", "no"}, Vote(p, e, o)
  PROVE  IInv'
<1> USE DEF IInv
<1>1. /\ status[p] = "submitted"
      /\ \A q \in Ids : q # p => yes'[q] = yes[q]
      /\ UNCHANGED <<now, payload, option, rule, start, status, tasks, effects, blamed, unrouted>>
  BY DEF TypeOK, Vote
<1>2. TypeOK'
  BY DEF TypeOK, Vote
<1>3. Queue' /\ Scheduled' /\ Carried' /\ Open' /\ TasksFindHandlers'
  BY <1>1 DEF Queue, Scheduled, Tally, Carried, Open, TasksFindHandlers
<1>4. Decided'
  BY <1>1 DEF Decided, Wins, AllAuthorized
<1>5. QED
  BY <1>2, <1>3, <1>4

LEMMA ScheduleKeeps ==
  ASSUME IInv, NEW k \in Timers, NEW t \in 1 .. MaxTime, Schedule(k, t)
  PROVE  IInv'
<1> USE DEF IInv
<1> DEFINE new == [at |-> t, kind |-> k, id |-> "timer"]
<1>1. /\ tasks' = tasks \cup {new} /\ k \in CronTask \ {"gov/tally"}
      /\ UNCHANGED <<now, payload, option, rule, start, status, yes, effects, blamed, unrouted>>
  BY DEF Schedule
<1>2. new \in Task /\ new.kind # "gov/tally"
  BY <1>1 DEF Task
<1>3. TypeOK'
  BY <1>1, <1>2 DEF TypeOK
<1>4. Queue'
  BY <1>1, <1>2 DEF Queue
<1>5. Scheduled' /\ Carried' /\ Open' /\ TasksFindHandlers' /\ Decided'
  BY <1>1 DEF Scheduled, Tally, Carried, Open, TasksFindHandlers, Decided, Wins, AllAuthorized
<1>6. QED
  BY <1>3, <1>4, <1>5

LEMMA BlockKeeps ==
  ASSUME IInv, NEW b \in 1 .. MaxTime, NEW refusing \in SUBSET Ids, Block(b, refusing)
  PROVE  IInv'
<1> USE DEF IInv
<1> DEFINE due == {t \in tasks : t.at <= b}
           tallied == {p \in Ids : \E t \in due :
             t.kind = "gov/tally" /\ t.kind \in CronRoutes /\ t.id = p}
<1>1. /\ refusing \subseteq tallied /\ tasks' = tasks \ due
      /\ blamed' = blamed \cup refusing
      /\ unrouted' = unrouted \cup ({t.kind : t \in due} \ CronRoutes)
      /\ UNCHANGED <<payload, option, rule, start, yes>>
  BY DEF Block
<1>2. now' = b /\ now < b /\ now' \in 0 .. MaxTime
  BY ProposalsAssumption DEF TypeOK, Block
<1>3. \A p \in Ids :
        /\ status'[p] = IF p \in tallied THEN IF Wins(p) THEN "accepted" ELSE "rejected"
                        ELSE status[p]
        /\ effects'[p] = IF p \in tallied /\ Wins(p) /\ Succeeds(p, refusing)
                         THEN option[p].msgs ELSE effects[p]
  BY DEF Block, MsgList
<1>4. \A p \in tallied : p \in Ids /\ status[p] = "submitted"
  BY DEF Queue
<1>5. \A p \in Ids : status[p] # "none" => option[p].msgs \in Seq(Message)
  <2>1. \A p \in Ids : status[p] # "none" => option[p] \in Transaction
    BY OptionCarries DEF Carried
  <2>2. QED
    BY <2>1 DEF Transaction, Message
<1> HIDE DEF due
<1>6. TypeOK'
  <2>1. status' \in [Ids -> Statuses]
    <3>1. DOMAIN status' = Ids /\ status' = [p \in Ids |-> status'[p]]
      BY DEF Block
    <3>2. \A p \in Ids : status'[p] \in Statuses
      BY <1>3 DEF TypeOK, Statuses
    <3>3. QED
      BY <3>1, <3>2
  <2>2. effects' \in [Ids -> Seq(Message)]
    <3>1. effects' = [p \in Ids |-> effects'[p]]
      BY DEF Block
    <3>2. \A p \in Ids : effects'[p] \in Seq(Message)
      BY <1>3, <1>4, <1>5 DEF TypeOK
    <3>3. QED
      BY <3>1, <3>2
  <2>3. QED
    BY <1>1, <1>2, <2>1, <2>2 DEF TypeOK
<1>7. Queue'
  <2> SUFFICES ASSUME NEW t \in tasks', t.kind = "gov/tally"
               PROVE  status'[t.id] = "submitted" /\ t.at = start'[t.id] + 1
    BY DEF Queue
  <2>1. t \in tasks /\ t \notin due
    BY <1>1
  <2>2. t \in Task /\ t.id \in Ids /\ status[t.id] = "submitted" /\ t.at = start[t.id] + 1
    BY <2>1 DEF Queue, TypeOK, Task
  <2>3. t.id \notin tallied
    <3> SUFFICES ASSUME NEW u \in due, u.kind = "gov/tally", u.id = t.id PROVE FALSE
      OBVIOUS
    <3>1. u \in tasks /\ u \in Task /\ u.at = start[u.id] + 1
      BY DEF due, Queue, TypeOK
    <3>2. u = t
      BY <2>2, <3>1 DEF Task
    <3>3. QED
      BY <2>1, <3>2
  <2>4. QED
    BY <1>1, <1>3, <2>2, <2>3
<1>8. Carried'
  BY <1>1, <1>3, <1>4 DEF Carried
<1>9. Open'
  BY <1>1, <1>3, <1>4 DEF Open
<1>10. Decided'
  <2> SUFFICES ASSUME NEW p \in Ids, status'[p] = "accepted"
               PROVE  /\ Wins(p)'
                      /\ effects'[p] = << >> \/ (effects'[p] = option'[p].msgs /\ AllAuthorized(p)')
                      /\ p \notin blamed' /\ AllAuthorized(p)' => effects'[p] = option'[p].msgs
    BY DEF Decided
  <2>1. Wins(p)' = Wins(p) /\ AllAuthorized(p)' = AllAuthorized(p) /\ option' = option
    BY <1>1 DEF Wins, AllAuthorized
  <2>2. CASE p \in tallied
    <3>1. Wins(p) /\ effects[p] = << >>
      BY <1>3, <1>4, <2>2 DEF Open
    <3>2. Succeeds(p, refusing) <=> p \notin refusing /\ AllAuthorized(p)
      BY DEF Succeeds, AllAuthorized
    <3>3. p \notin blamed' => p \notin refusing
      BY <1>1
    <3>4. effects'[p] = IF Succeeds(p, refusing) THEN option[p].msgs ELSE << >>
      BY <1>3, <2>2, <3>1
    <3>5. QED
      BY <2>1, <3>1, <3>2, <3>3, <3>4
  <2>3. CASE p \notin tallied
    <3>1. status[p] = "accepted" /\ effects'[p] = effects[p]
      BY <1>3, <2>3
    <3>2. p \notin blamed' => p \notin blamed
      BY <1>1
    <3>3. QED
      BY <2>1, <3>1, <3>2 DEF Decided
  <2>4. QED
    BY <2>2, <2>3
<1>11. TasksFindHandlers'
  <2>1. \A t \in due : t.kind \in CronTask
    BY DEF due, TypeOK, Task, CronTask
  <2>2. CronTask \subseteq CronRoutes
    BY DEF CronTask, CronRoutes
  <2>3. QED
    BY <1>1, <2>1, <2>2 DEF TasksFindHandlers
<1>12. Scheduled'
  <2> SUFFICES ASSUME NEW p \in Ids, status'[p] = "submitted"
               PROVE  Tally(p, start[p] + 1) \in tasks' /\ now' < start[p] + 1
    BY <1>1 DEF Scheduled, Tally
  <2>1. p \notin tallied /\ status[p] = "submitted"
    BY <1>3
  <2>2. Tally(p, start[p] + 1) \in tasks /\ start[p] + 1 \in Nat
    BY <2>1 DEF Scheduled, TypeOK
  <2>3. Tally(p, start[p] + 1).kind \in CronRoutes
    BY <2>2, TallyInTask DEF CronRoutes
  <2>4. Tally(p, start[p] + 1) \notin due
    BY <2>1, <2>2, <2>3, TallyInTask
  <2>5. ~(start[p] + 1 <= b)
    BY <2>2, <2>4, TallyInTask DEF due
  <2>. QED  BY <1>1, <1>2, <2>2, <2>4, <2>5
<1>13. QED
  BY <1>6, <1>7, <1>8, <1>9, <1>10, <1>11, <1>12

LEMMA NextIInv == IInv /\ [Next]_vars => IInv'
<1> SUFFICES ASSUME IInv, [Next]_vars PROVE IInv'
  OBVIOUS
<1>1. ASSUME NEW p \in Ids, NEW tx \in Payloads, NEW r \in Rules, NEW s \in 1 .. MaxTime,
             Propose(p, tx, r, s)
      PROVE  IInv'
  BY <1>1, ProposeKeeps
<1>2. ASSUME NEW p \in Ids, Withdraw(p) PROVE IInv'
  BY <1>2, WithdrawKeeps
<1>3. ASSUME NEW p \in Ids, NEW e \in Electors, NEW o \in {"yes", "no"}, Vote(p, e, o)
      PROVE  IInv'
  BY <1>3, VoteKeeps
<1>4. ASSUME NEW k \in Timers, NEW t \in 1 .. MaxTime, Schedule(k, t) PROVE IInv'
  BY <1>4, ScheduleKeeps
<1>5. ASSUME NEW b \in 1 .. MaxTime, NEW refusing \in SUBSET Ids, Block(b, refusing) PROVE IInv'
  BY <1>5, BlockKeeps
<1>6. CASE UNCHANGED vars
  BY <1>6 DEF vars, IInv, TypeOK, Queue, Scheduled, Tally, Carried, Open, Decided, Wins, AllAuthorized, TasksFindHandlers
<1>7. QED
  BY <1>1, <1>2, <1>3, <1>4, <1>5, <1>6 DEF Next

LEMMA Inductive == Spec => []IInv
BY InitIInv, NextIInv, PTL DEF Spec

-----------------------------------------------------------------------------
(* What takes effect was voted for, is part of what was proposed and in    *)
(* its order, and is under the authority of the rule of its election, for  *)
(* any number of proposals and transactions of any length                  *)
(* (cmd_gov.go:110-184, gov_handler.go:29-51).                             *)
THEOREM ProposalEffectsAreVoted == Spec => []EffectsAreVoted
<1>1. ASSUME IInv PROVE EffectsAreVoted
  <2> USE <1>1 DEF IInv
  <2> SUFFICES ASSUME NEW p \in Ids, effects[p] # << >>
               PROVE  /\ status[p] = "accepted" /\ Wins(p)
                      /\ Subsequence(effects[p], payload[p].msgs)
                      /\ \A i \in DOMAIN effects[p] : effects[p][i].owner = rule[p]
    BY DEF EffectsAreVoted
  <2>1. status[p] = "accepted"
    BY DEF Open
  <2>2. Wins(p) /\ effects[p] = option[p].msgs /\ AllAuthorized(p)
    BY <2>1 DEF Decided
  <2>3. payload[p] \in Payloads /\ option[p] = toOption(payload[p])
    BY <2>1 DEF Carried
  <2>4. Subsequence(effects[p], payload[p].msgs)
    BY <2>2, <2>3, OptionCarries
  <2>5. QED
    BY <2>1, <2>2, <2>4 DEF AllAuthorized, Authorized
<1>2. QED
  BY <1>1, Inductive, PTL

(* What won takes effect whole and in its order unless a handler refused   *)
(* it or the rule has no authority over it: no table between as-proposal   *)
(* and the executor loses a message (cmd_gov.go:86-219,                    *)
(* gov_handler.go:36-41).                                                  *)
THEOREM ProposalWonTakesEffect == Spec => []WonTakesEffect
<1>1. ASSUME IInv PROVE WonTakesEffect
  <2> USE <1>1 DEF IInv
  <2> SUFFICES ASSUME NEW p \in Ids, status[p] = "accepted", p \notin blamed,
                      \A i \in DOMAIN payload[p].msgs :
                        payload[p].msgs[i].kind \in Agreed /\ payload[p].msgs[i].owner = rule[p]
               PROVE  effects[p] = payload[p].msgs
    BY DEF WonTakesEffect
  <2>1. payload[p] \in Payloads /\ option[p] = toOption(payload[p])
    BY DEF Carried
  <2>2. Agreed \subseteq BatchKinds /\ Agreed \subseteq Executable
    BY DEF Agreed, BatchKinds, Executable, OptionKinds, Kinds
  <2>3. option[p].msgs = payload[p].msgs
    BY <2>1, <2>2, OptionCarries
  <2>4. AllAuthorized(p)
    BY <2>2, <2>3 DEF AllAuthorized, Authorized
  <2>5. QED
    BY <2>3, <2>4 DEF Decided
<1>2. QED
  BY <1>1, Inductive, PTL

(* Whatever the marshaler lets into the queue of tasks finds a handler     *)
(* when it is due (crontask.go:20-57, app.go:136-155).                     *)
THEOREM ProposalTasksFindHandlers == Spec => []TasksFindHandlers
<1>1. IInv => TasksFindHandlers
  BY DEF IInv
<1>2. QED
  BY <1>1, Inductive, PTL

(* The first block past the end of a vote, however late it is, closes it:  *)
(* no proposal is open after that, for any number of proposals and tasks   *)
(* (cmd_gov.go:23-65, crontask.go:46-49, app.go:136-155).                  *)
THEOREM ProposalClosedOnTime == Spec => []ClosedOnTime
<1>1. IInv => ClosedOnTime
  BY DEF IInv, Scheduled, TypeOK, ClosedOnTime
<1>2. QED
  BY <1>1, Inductive, PTL
=============================================================================
