-------------------------- MODULE MCCollectorCycle --------------------------
(***************************************************************************)
(* CollectorCycle for TLC: one cluster with states that differ in every    *)
(* way a delta can express; one has an edge to a resource of another       *)
(* cluster.                                                                *)
(***************************************************************************)
EXTENDS CollectorCycle, TLC

Res(n, d) == [uid |-> <<"a", n>>, data |-> d]
Uses(source, dest) == [source |-> source, dest |-> dest, type |-> "uses"]
State(rs, es) == [resources |-> rs, edges |-> es]

Pair == State({Res("p", "x"), Res("q", "x")}, {Uses(<<"a", "p">>, <<"a", "q">>)})
Changed == State({Res("p", "y"), Res("q", "x")}, {Uses(<<"a", "q">>, <<"a", "p">>)})
Linked == State({Res("p", "y")}, {Uses(<<"a", "p">>, <<"b", "p">>)})

ClusterStates == ("a" :> {Pair, Changed, Linked}) @@ ("b" :> {})

Databases ==
  {[resources |-> {[uid |-> Node("a"), cluster |-> "a", data |-> "x"],
                   [uid |-> <<"a", "q">>, cluster |-> "a", data |-> "y"]},
    edges |-> {[edge |-> [source |-> <<"a", "p">>, dest |-> <<"b", "p">>,
                          type |-> "interCluster"], cluster |-> "a"],
               [edge |-> Uses(<<"a", "q">>, <<"a", "p">>), cluster |-> "a"]}]}

(* What TrustEarned requires of the states.                                *)
ASSUME StatesAreConsistent == ConsistentStates
=============================================================================
