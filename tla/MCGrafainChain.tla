--------------------------- MODULE MCGrafainChain ---------------------------
(* A small instance of GrafainChain: many chains, and nodes on few of them. *)
EXTENDS GrafainChain, TLC

MCRoleIds == {"publisher", "admin"}
MCImages == {"app"}
MCLower == [s \in {"artifacts", "create", "delete", "multisig", "update", "batch", "execute"} |-> s]

(* An admin may also do what a publisher may. *)
MCRoleStore == "publisher" :> {} @@ "admin" :> {"publisher"}
MCRolePermissions ==
  "publisher" :> {<<"_grafain", ".", "artifacts", ".", "*">>} @@
  "admin" :> {<<"_grafain", ".", "multisig", ".", "update">>,
              <<"_grafain", ".", "batch", ".", "execute">>}
MCBinds == {<<"team", "publisher">>, <<"bert", "admin">>}

(* team needs both keys, or ops in place of one; ops needs team or bert. *)
Team == [participants |-> {"alice", "bert", "ops"}, activation |-> 2, admin |-> 1]
Ops == [participants |-> {"team", "bert"}, activation |-> 1, admin |-> 1]
MCGenesisStore ==
  [nonces |-> [k \in {"alice", "bert"} |-> 0],
   artifacts |-> [x \in MCImages |-> NoArtifact],
   contracts |-> "team" :> Team @@ "ops" :> Ops]

Sig(k, s) == [key |-> k, sequence |-> s, genuine |-> TRUE]
Forged(k, s) == [key |-> k, sequence |-> s, genuine |-> FALSE]
MakeTx(sigs, ids, msg) == [signatures |-> sigs, multisig |-> ids, msg |-> msg]
Create(sum, owner) ==
  [op |-> "create", image |-> "app", checksum |-> sum, owner |-> owner, valid |-> TRUE]
Delete == [op |-> "delete", image |-> "app", valid |-> TRUE]
Update(c, new) == [op |-> "update", contract |-> c, new |-> new, valid |-> TRUE]
Batch(first, second) == [op |-> "batch", first |-> first, second |-> second, valid |-> TRUE]

OnlyAlice == [participants |-> {"alice"}, activation |-> 1, admin |-> 1]

ByTeam == MakeTx(<<Sig("alice", 0), Sig("bert", 0)>>, <<"team">>, Create("sum1", "team"))
ByBert == MakeTx(<<Sig("bert", 1)>>, << >>, Create("sum2", "bert"))
ByRole == MakeTx(<<Sig("bert", 0)>>, << >>, Create("sum1", "publisher"))
Drop == MakeTx(<<Sig("bert", 1)>>, <<"ops">>, Delete)
DropTwice == MakeTx(<<Sig("bert", 1), Sig("bert", 2)>>, << >>, Delete)
HandOver == MakeTx(<<Sig("bert", 0)>>, << >>, Update("team", OnlyAlice))
AfterHandOver == MakeTx(<<Sig("alice", 0)>>, <<"team">>, Create("sum2", "team"))
Circular == MakeTx(<<Sig("alice", 0)>>, <<"ops", "team">>, Create("sum2", "ops"))
NoRole == MakeTx(<<Sig("alice", 0)>>, << >>, Create("sum1", "alice"))
HalfForged == MakeTx(<<Sig("alice", 0), Forged("bert", 0)>>, <<"team">>, Delete)
Malformed == MakeTx(<<Sig("bert", 0)>>, << >>, [Create("sum1", "bert") EXCEPT !.valid = FALSE])
Unsigned == MakeTx(<< >>, << >>, Delete)
Stranger == MakeTx(<<Sig("alice", 1), Sig("bert", 1)>>, <<"team">>, Delete)

(* With the first message of the second batch bert loses his say in the second. *)
HandOverBoth ==
  MakeTx(<<Sig("bert", 0)>>, << >>, Batch(Update("team", OnlyAlice), Update("ops", OnlyAlice)))
LockedOut(s) ==
  MakeTx(<<Sig("bert", s)>>, << >>, Batch(Update("team", OnlyAlice), Update("team", Ops)))

AllTxs == {ByTeam, ByBert, ByRole, Drop, DropTwice, HandOver, AfterHandOver,
           Circular, NoRole, HalfForged, Malformed, Unsigned, Stranger, HandOverBoth, LockedOut(0)}

(* bert registers an artifact and deletes it.  His batch in between passes  *)
(* CheckTx, where each message is judged by itself, and fails in a block;   *)
(* one node has a pool for all three.                                       *)
NodesTxs ==
  {MakeTx(<<Sig("bert", 0)>>, << >>, Create("sum1", "bert")), LockedOut(1),
   MakeTx(<<Sig("bert", 2)>>, << >>, Delete)}
MCTxs == AllTxs \cup NodesTxs
OnePool == [n \in Nodes |-> IF n = "n1" THEN 3 ELSE 0]
NoPool == [n \in Nodes |-> 0]

(* All chains of four of AllTxs, while no node has anything to do; chains   *)
(* of three of NodesTxs, with all that two nodes do at any time.            *)
Of(s, S) == \A i \in DOMAIN s : s[i] \in S
Quiet == ends = << >> /\ crashes = 0 /\ \A n \in Nodes : mempool[n] = << >>
MCNext ==
  \/ Quiet /\ Of(chain, AllTxs) /\ \E tx \in AllTxs : Propose(tx)
  \/ /\ Of(chain, NodesTxs)
     /\ \/ Len(chain) < 3 /\ \E tx \in NodesTxs : Propose(tx)
        \/ Decide
        \/ \E n \in Nodes :
             \/ \E tx \in NodesTxs : CheckTx(n, tx)
             \/ DeliverTx(n) \/ Commit(n) \/ Crash(n) \/ Restart(n)
MCSpec == Init /\ [][MCNext]_vars /\ Fairness
=============================================================================
