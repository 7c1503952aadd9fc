------------------------- MODULE ClientNonce_proofs -------------------------
(* A Nonce that is used the way its comments allow for gives consecutive   *)
(* numbers, however many callers there are and however long they run.      *)
EXTENDS ClientNonce, TLAPS

Filling == {"first", "query", "set", "read"}

(* The cache is the last number given out, unless somebody is about to     *)
(* read what it has just put there; and nobody who shares the Nonce is on  *)
(* its way to fill the cache again, which is what the second critical      *)
(* section of Next relies on.                                              *)
ProperInv ==
  /\ TypeOK
  /\ handed # << >> => nonce = handed[Len(handed)]
  /\ (\E c \in Callers : Alone(c)) \/ ~(~fromQuery /\ nonce = 0)
  /\ \A c \in Callers : pc[c] # "idle" => c \in users
  /\ \A c \in Callers : pc[c] \in Filling => Alone(c)
  /\ \A c \in Callers : pc[c] = "read" => handed = << >>
  /\ AlwaysIncrements

LEMMA ProperInvInit == UsedProperly => ProperInv
<1> SUFFICES ASSUME UsedProperly PROVE ProperInv
  OBVIOUS
<1>1. TypeOK
  <2>1. CASE Init
    <3>1. fromQuery \in BOOLEAN /\ unsure \in BOOLEAN
      BY <2>1, Zenon DEF Init
    <3>2. \A x \in 0 .. 1 : x \in Nat
      OBVIOUS
    <3>. QED  BY <2>1, <3>1, <3>2 DEF Init, TypeOK, Locations
  <2>2. CASE WarmInit
    <3>1. fromQuery \in BOOLEAN /\ unsure \in BOOLEAN
      BY <2>2, Zenon DEF WarmInit
    <3>2. \A x \in 0 .. 1 : x \in Nat
      OBVIOUS
    <3>. QED  BY <2>2, <3>1, <3>2 DEF WarmInit, TypeOK, Locations
  <2>. QED  BY <2>1, <2>2 DEF UsedProperly
<1>2. (\E c \in Callers : Alone(c)) \/ ~(~fromQuery /\ nonce = 0)
  BY Zenon DEF UsedProperly, WarmInit
<1>3. /\ handed # << >> => nonce = handed[Len(handed)]
      /\ \A c \in Callers : (pc[c] # "idle" => c \in users) /\ pc[c] \notin Filling
      /\ Len(handed) <= 1
  <2>1. CASE Init
    BY <2>1, SMT DEF Init, Filling
  <2>2. CASE WarmInit
    BY <2>2, SMT DEF WarmInit, Filling
  <2>. QED  BY <2>1, <2>2 DEF UsedProperly
<1>4. AlwaysIncrements
  BY <1>1, <1>3, SMT DEF AlwaysIncrements, TypeOK
<1>. QED  BY <1>1, <1>2, <1>3, <1>4 DEF ProperInv, Filling

(* A number that follows the last one extends the run of numbers. *)
LEMMA NextNumberExtends ==
  ASSUME handed \in Seq(Nat), AlwaysIncrements, NEW n \in Nat,
         handed # << >> => n = handed[Len(handed)] + 1,
         handed' = Append(handed, n)
  PROVE  /\ handed' \in Seq(Nat) /\ handed' # << >> /\ handed'[Len(handed')] = n
         /\ AlwaysIncrements'
<1>1. /\ handed' \in Seq(Nat) /\ Len(handed') = Len(handed) + 1
      /\ handed'[Len(handed) + 1] = n
      /\ \A i \in 1 .. Len(handed) : handed'[i] = handed[i]
  BY SMT
<1>2. handed' # << >> /\ handed'[Len(handed')] = n
  BY <1>1, SMT
<1>3. ASSUME NEW i \in 1 .. Len(handed') - 1
      PROVE  handed'[i + 1] = handed'[i] + 1
  <2>1. CASE i = Len(handed)
    <3>1. handed # << >> /\ i \in 1 .. Len(handed)
      BY <2>1, SMT
    <3>. QED  BY <2>1, <3>1, <1>1
  <2>2. CASE i # Len(handed)
    <3>1. /\ i \in 1 .. Len(handed) - 1 /\ i \in 1 .. Len(handed)
          /\ i + 1 \in 1 .. Len(handed)
      BY <2>2, <1>1, SMT
    <3>. QED  BY <3>1, <1>1 DEF AlwaysIncrements
  <2>. QED  BY <2>1, <2>2
<1>. QED  BY <1>1, <1>2, <1>3 DEF AlwaysIncrements

(* Where a number is handed out. *)
LEMMA HandOutKeepsInv ==
  ASSUME ProperInv, NEW c \in Callers, NEW n \in Nat,
         pc[c] \in {"read", "take"}, HandOut(c, n),
         handed # << >> => n = handed[Len(handed)] + 1,
         nonce' = n, fromQuery' \in BOOLEAN, n = 0 => fromQuery' = fromQuery,
         n = 0 => nonce = 0,
         UNCHANGED <<chain, caller>>
  PROVE  ProperInv'
<1>1. /\ handed' \in Seq(Nat) /\ handed' # << >> /\ handed'[Len(handed')] = n
      /\ AlwaysIncrements'
  BY NextNumberExtends DEF ProperInv, TypeOK, HandOut
<1>2. /\ pc' = [pc EXCEPT ![c] = "send"] /\ got' = [got EXCEPT ![c] = n]
      /\ users' = users /\ UNCHANGED <<seq, pool, refused, lost, unsure>>
  BY DEF HandOut, Goto, chain, caller
<1>3. pc' \in [Callers -> Locations] /\ got' \in [Callers -> Nat]
  BY <1>2, SMT DEF ProperInv, TypeOK, Locations
<1>4. TypeOK'
  BY <1>1, <1>2, <1>3 DEF ProperInv, TypeOK
<1>5. c \in users
  BY DEF ProperInv
<1>6. \A d \in Callers : pc'[d] = "read" => FALSE
  <2> SUFFICES ASSUME NEW d \in Callers, pc'[d] = "read" PROVE FALSE
    OBVIOUS
  <2>1. d # c /\ pc[d] = "read"
    BY <1>2 DEF ProperInv, TypeOK
  <2>2. users = {d}
    BY <2>1 DEF ProperInv, Filling, Alone
  <2>. QED  BY <2>1, <2>2, <1>5
<1>7. \A d \in Callers : (pc'[d] # "idle" => d \in users) /\ (pc'[d] \in Filling => Alone(d))
  BY <1>2, <1>5 DEF ProperInv, TypeOK, Filling
<1>8. (\E d \in Callers : Alone(d)) \/ ~(~fromQuery' /\ nonce' = 0)
  BY DEF ProperInv
<1>. QED  BY <1>1, <1>2, <1>4, <1>6, <1>7, <1>8 DEF ProperInv, Alone

LEMMA ProperInvStep == ProperInv /\ [ProperNext]_vars => ProperInv'
<1> SUFFICES ASSUME ProperInv, [ProperNext]_vars PROVE ProperInv'
  OBVIOUS
<1>1. CASE UNCHANGED vars
  BY <1>1, Zenon DEF vars, ProperInv, TypeOK, AlwaysIncrements, Alone
<1>2. ASSUME NEW c \in Callers, StartNext(c) PROVE ProperInv'
  <2>1. /\ UNCHANGED <<users, nonce, fromQuery, got, seq, pool, refused, lost, unsure, handed>>
        /\ c \in users
        /\ pc' = [pc EXCEPT ![c] = IF ~fromQuery /\ nonce = 0 THEN "first" ELSE "take"]
    BY <1>2 DEF StartNext, Goto, cache, chain, caller
  <2>2. ~fromQuery /\ nonce = 0 => Alone(c)
    BY <2>1 DEF ProperInv, Alone
  <2>3. CASE ~fromQuery /\ nonce = 0
    BY <2>1, <2>2, <2>3 DEF ProperInv, TypeOK, AlwaysIncrements, Locations, Filling, Alone
  <2>4. CASE ~(~fromQuery /\ nonce = 0)
    <3>1. pc' = [pc EXCEPT ![c] = "take"]
      BY <2>1, <2>4, Zenon
    <3>. QED  BY <2>1, <3>1 DEF ProperInv, TypeOK, AlwaysIncrements, Locations, Filling, Alone
  <2>. QED  BY <2>3, <2>4
<1>3. ASSUME NEW c \in Callers, Alone(c), StartQuery(c) PROVE ProperInv'
  BY <1>3 DEF StartQuery, At, Goto, cache, chain, caller, ProperInv, TypeOK, AlwaysIncrements,
              Locations, Filling, Alone
<1>4. ASSUME NEW c \in Callers, GetUser(c) PROVE ProperInv'
  <2>1. unsure' \in BOOLEAN
    BY <1>4, Zenon DEF GetUser, ProperInv, TypeOK
  <2>2. /\ pc[c] \in {"first", "query"} /\ c \in users
        /\ \/ got' = [got EXCEPT ![c] = seq] /\ pc' = [pc EXCEPT ![c] = "set"]
           \/ UNCHANGED got /\ pc' = [pc EXCEPT ![c] = "idle"]
        /\ UNCHANGED <<users, nonce, fromQuery, seq, pool, refused, lost, handed>>
    <3>1. pc[c] \in {"first", "query"}
      BY <1>4, Zenon DEF GetUser
    <3>2. c \in users
      BY <3>1 DEF ProperInv
    <3>3. UNCHANGED <<users, nonce, fromQuery, seq, pool, refused, lost, handed>>
      BY <1>4, SMT DEF GetUser, cache, chain
    <3>4. \/ got' = [got EXCEPT ![c] = seq] /\ pc' = [pc EXCEPT ![c] = "set"]
          \/ UNCHANGED got /\ pc' = [pc EXCEPT ![c] = "idle"]
      BY <1>4, Zenon DEF GetUser, Goto
    <3>. QED  BY <3>1, <3>2, <3>3, <3>4
  <2>3. pc' \in [Callers -> Locations] /\ got' \in [Callers -> Nat]
    <3>1. pc \in [Callers -> Locations] /\ got \in [Callers -> Nat] /\ seq \in Nat
      BY DEF ProperInv, TypeOK
    <3>2. CASE got' = [got EXCEPT ![c] = seq] /\ pc' = [pc EXCEPT ![c] = "set"]
      BY <3>1, <3>2 DEF Locations
    <3>3. CASE UNCHANGED got /\ pc' = [pc EXCEPT ![c] = "idle"]
      BY <3>1, <3>3 DEF Locations
    <3>. QED  BY <2>2, <3>2, <3>3, Zenon
  <2>4. TypeOK'
    BY <2>1, <2>2, <2>3, Zenon DEF ProperInv, TypeOK
  <2>5. users' = users /\ nonce' = nonce /\ fromQuery' = fromQuery /\ handed' = handed
    BY <2>2, Zenon
  <2>6. AlwaysIncrements' /\ (handed' # << >> => nonce' = handed'[Len(handed')])
    BY <2>5 DEF ProperInv, AlwaysIncrements
  <2>7. (\E d \in Callers : Alone(d)') \/ ~(~fromQuery' /\ nonce' = 0)
    BY <2>5 DEF ProperInv, Alone
  <2>8. /\ \A d \in Callers : pc'[d] # "idle" => d \in users'
        /\ \A d \in Callers : pc'[d] \in Filling => Alone(d)'
        /\ \A d \in Callers : pc'[d] = "read" => handed' = << >>
    BY <2>2, SMT DEF ProperInv, TypeOK, Filling, Alone
  <2>. QED  BY <2>4, <2>6, <2>7, <2>8, Zenon DEF ProperInv
<1>5. ASSUME NEW c \in Callers, SetNonce(c) PROVE ProperInv'
  <2>1. /\ pc[c] = "set" /\ pc' = [pc EXCEPT ![c] = "read"]
        /\ nonce' = got[c] /\ fromQuery' = TRUE /\ handed' = << >>
        /\ UNCHANGED <<users, got, seq, pool, refused, lost, unsure>>
    BY <1>5 DEF SetNonce, At, Goto, chain, caller
  <2>2. AlwaysIncrements' /\ handed' \in Seq(Nat)
    BY <2>1, SMT DEF AlwaysIncrements
  <2>. QED  BY <2>1, <2>2 DEF ProperInv, TypeOK, Locations, Filling, Alone
<1>6. ASSUME NEW c \in Callers, ReadNonce(c) PROVE ProperInv'
  <2>1. /\ pc[c] = "read" /\ HandOut(c, nonce) /\ handed = << >>
        /\ UNCHANGED <<nonce, fromQuery, chain, caller>>
    BY <1>6 DEF ReadNonce, At, cache, ProperInv
  <2>2. nonce \in Nat /\ fromQuery \in BOOLEAN
    BY DEF ProperInv, TypeOK
  <2>. QED  BY <2>1, <2>2, HandOutKeepsInv, Zenon
<1>7. ASSUME NEW c \in Callers, Take(c) PROVE ProperInv'
  <2>1. /\ pc[c] = "take" /\ HandOut(c, nonce + 1)
        /\ nonce' = nonce + 1 /\ fromQuery' = FALSE /\ UNCHANGED <<chain, caller>>
    BY <1>7 DEF Take, At
  <2>2. nonce + 1 \in Nat /\ nonce + 1 # 0
    BY SMT DEF ProperInv, TypeOK
  <2>3. handed # << >> => nonce + 1 = handed[Len(handed)] + 1
    BY DEF ProperInv
  <2>. QED  BY <2>1, <2>2, <2>3, HandOutKeepsInv, Zenon
<1>8. ASSUME NEW c \in Callers, Send(c) PROVE ProperInv'
  BY <1>8, SMT DEF Send, At, Goto, cache, ProperInv, TypeOK, AlwaysIncrements, Locations, Filling, Alone
<1>9. ASSUME NEW c \in Callers, Lose(c) PROVE ProperInv'
  BY <1>9, SMT DEF Lose, At, Goto, cache, chain, ProperInv, TypeOK, AlwaysIncrements,
                   Locations, Filling, Alone
<1>10. CASE Commit
  BY <1>10, SMT DEF Commit, cache, caller, ProperInv, TypeOK, AlwaysIncrements, Filling, Alone
<1>. QED  BY <1>1, <1>2, <1>3, <1>4, <1>5, <1>6, <1>7, <1>8, <1>9, <1>10
         DEF ProperNext, Work

(* base_client.go:89, "It will always increment by 1": true of one caller, *)
(* who calls Next and Query as it likes, from one Query to the next; and   *)
(* of any number of callers of Next, once one of them alone has filled the *)
(* cache.                                                                  *)
THEOREM NonceAlwaysIncrements == ProperSpec => []AlwaysIncrements
<1>1. ProperInv => AlwaysIncrements
  BY DEF ProperInv
<1>. QED  BY <1>1, ProperInvInit, ProperInvStep, PTL DEF ProperSpec

(* Type correctness of the cache and its callers. *)
THEOREM NonceTypeCorrect == ProperSpec => []TypeOK
<1>1. ProperInv => TypeOK
  BY DEF ProperInv
<1>. QED  BY <1>1, ProperInvInit, ProperInvStep, PTL DEF ProperSpec

-----------------------------------------------------------------------------
(* A caller with the Nonce to itself.  Next queries only before the first  *)
(* number; and as long as the caller is not unsure, what it hands out is   *)
(* what the chain takes next, with the mempool counted.                    *)
Filled == fromQuery \/ nonce # 0

Fresh(c) ==
  /\ ~Filled => handed = << >> /\ pc[c] \in {"idle", "first", "query", "set"}
  /\ pc[c] = "first" => ~Filled

InStep(c) ==
  LET due == seq + pool
  IN /\ Filled /\ pc[c] \in {"idle", "query", "take"} => nonce + 1 = due
     /\ pc[c] = "set" => got[c] = due
     /\ pc[c] \in {"read", "send"} => nonce = due
     /\ pc[c] = "send" => got[c] = due

LoneInv == \A c \in Callers : Alone(c) => Fresh(c) /\ (~unsure => InStep(c))

LEMMA LoneInvInit == UsedProperly => LoneInv
<1> USE DEF Fresh, InStep, Filled
<1>1. CASE Init
  <2>1. ~Filled /\ handed = << >> /\ \A c \in Callers : pc[c] = "idle"
    BY <1>1, SMT DEF Init
  <2>. QED  BY <2>1 DEF LoneInv
<1>2. CASE WarmInit
  <2> SUFFICES ASSUME NEW c \in Callers, users = {c} PROVE Fresh(c) /\ InStep(c)
    BY DEF LoneInv, Alone
  <2>1. PICK d \in users : pc = [e \in Callers |-> IF e = d THEN "send" ELSE "idle"]
    BY <1>2 DEF WarmInit
  <2>2. pc[c] = "send"
    BY <2>1
  <2>3. got[c] = seq /\ nonce = seq /\ fromQuery = TRUE /\ pool = 0 /\ seq \in Nat
    BY <1>2 DEF WarmInit
  <2>. QED  BY <2>2, <2>3
<1>. QED  BY <1>1, <1>2 DEF UsedProperly

LEMMA LoneInvStep == ProperInv /\ LoneInv /\ [ProperNext]_vars => LoneInv'
<1> SUFFICES ASSUME ProperInv, LoneInv, [ProperNext]_vars, NEW c \in Callers, Alone(c)'
             PROVE  Fresh(c)' /\ (~unsure' => InStep(c)')
  BY DEF LoneInv
<1>1. users' = users
  BY DEF ProperNext, Work, vars, StartNext, StartQuery, GetUser, SetNonce, ReadNonce, Take, Send,
         Lose, Commit, caller
<1>2. Alone(c) /\ Fresh(c) /\ (~unsure => InStep(c))
  BY <1>1 DEF Alone, LoneInv
<1>3. \A d \in Callers : d # c => pc[d] = "idle" /\ d \notin users
  BY <1>2 DEF ProperInv, Alone
<1>4. TypeOK
  BY DEF ProperInv
<1> USE DEF At, Goto, cache, chain, caller, Fresh, Filled
<1>5. CASE UNCHANGED vars
  BY <1>2, <1>5, Zenon DEF vars, InStep
<1>6. ASSUME NEW d \in Callers, StartNext(d) PROVE Fresh(c)' /\ (~unsure' => InStep(c)')
  <2>1. d = c /\ pc[c] = "idle"
        /\ UNCHANGED <<nonce, fromQuery, got, seq, pool, unsure, handed>>
    BY <1>3, <1>6 DEF StartNext
  <2>2. CASE ~Filled
    <3>1. pc' = [pc EXCEPT ![c] = "first"]
      BY <1>6, <2>1, <2>2, Zenon DEF StartNext
    <3>. QED  BY <1>2, <1>4, <2>1, <2>2, <3>1 DEF InStep, TypeOK
  <2>3. CASE Filled
    <3>1. pc' = [pc EXCEPT ![c] = "take"]
      BY <1>6, <2>1, <2>3, Zenon DEF StartNext
    <3>. QED  BY <1>2, <1>4, <2>1, <2>3, <3>1 DEF InStep, TypeOK
  <2>. QED  BY <2>2, <2>3
<1>7. ASSUME NEW d \in Callers, StartQuery(d) PROVE Fresh(c)' /\ (~unsure' => InStep(c)')
  <2>1. d = c
    BY <1>3, <1>7 DEF StartQuery
  <2>. QED  BY <1>2, <1>4, <1>7, <2>1 DEF StartQuery, InStep, TypeOK
<1>8. ASSUME NEW d \in Callers, GetUser(d) PROVE Fresh(c)' /\ (~unsure' => InStep(c)')
  <2>1. d = c /\ UNCHANGED <<nonce, fromQuery, seq, pool, handed>>
    BY <1>3, <1>8 DEF GetUser
  <2>2. CASE pc' = [pc EXCEPT ![c] = "set"] /\ got' = [got EXCEPT ![c] = seq]
             /\ unsure' = (pool > 0 /\ (unsure \/ At(c, "query") \/ handed = << >>))
    <3>1. pc[c] = "query" \/ handed = << >>
      BY <1>2, <1>8, <2>1 DEF GetUser
    <3>2. ~unsure' => ~(pool > 0)
      BY <2>2, <3>1, Zenon DEF At
    <3>3. ~unsure' => pool = 0
      <4>1. pool \in Nat
        BY <1>4 DEF TypeOK
      <4>2. ~(pool > 0) => pool = 0
        BY <4>1, SMT
      <4>. QED  BY <3>2, <4>2, Zenon
    <3>. QED  BY <1>2, <1>4, <2>1, <2>2, <3>3 DEF InStep, TypeOK
  <2>3. CASE pc' = [pc EXCEPT ![c] = "idle"] /\ UNCHANGED <<got, unsure>>
    BY <1>2, <1>4, <1>8, <2>1, <2>3 DEF GetUser, InStep, TypeOK
  <2>. QED  BY <1>8, <2>1, <2>2, <2>3 DEF GetUser
<1>9. ASSUME NEW d \in Callers, SetNonce(d) PROVE Fresh(c)' /\ (~unsure' => InStep(c)')
  <2>1. d = c
    BY <1>3, <1>9 DEF SetNonce
  <2>. QED  BY <1>2, <1>4, <1>9, <2>1 DEF SetNonce, InStep, TypeOK
<1>10. ASSUME NEW d \in Callers, ReadNonce(d) PROVE Fresh(c)' /\ (~unsure' => InStep(c)')
  <2>1. d = c
    BY <1>3, <1>10 DEF ReadNonce
  <2>. QED  BY <1>2, <1>4, <1>10, <2>1 DEF ReadNonce, HandOut, InStep, TypeOK
<1>11. ASSUME NEW d \in Callers, Take(d) PROVE Fresh(c)' /\ (~unsure' => InStep(c)')
  <2>1. d = c
    BY <1>3, <1>11 DEF Take
  <2>. QED  BY <1>2, <1>4, <1>11, <2>1 DEF Take, HandOut, InStep, TypeOK
<1>12. ASSUME NEW d \in Callers, Send(d) PROVE Fresh(c)' /\ (~unsure' => InStep(c)')
  <2>1. d = c
    BY <1>3, <1>12 DEF Send
  <2>. QED  BY <1>2, <1>4, <1>12, <2>1 DEF Send, InStep, TypeOK
<1>13. ASSUME NEW d \in Callers, Lose(d) PROVE Fresh(c)' /\ (~unsure' => InStep(c)')
  <2>1. d = c
    BY <1>3, <1>13 DEF Lose
  <2>. QED  BY <1>2, <1>4, <1>13, <2>1 DEF Lose, TypeOK
<1>14. CASE Commit
  BY <1>2, <1>4, <1>14 DEF Commit, InStep, TypeOK
<1>. QED  BY <1>5, <1>6, <1>7, <1>8, <1>9, <1>10, <1>11, <1>12, <1>13, <1>14
         DEF ProperNext, Work

(* A caller with a Nonce of its own, who calls Next and Query as it likes, *)
(* is refused only after it lost a number or asked the chain while one of  *)
(* the signer's transactions waited in the mempool, however late the chain *)
(* commits.                                                                *)
THEOREM NonceRefusedOnlyForCause == ProperSpec => []RefusedOnlyForCause
<1>1. ProperInv /\ LoneInv => RefusedOnlyForCause
  BY DEF RefusedOnlyForCause, LoneInv, InStep, At
<1>. QED  BY <1>1, ProperInvInit, ProperInvStep, LoneInvInit, LoneInvStep, PTL DEF ProperSpec
=============================================================================
