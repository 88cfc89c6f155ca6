---------------------------- MODULE MCSyncRequest ----------------------------
(***************************************************************************)
(* SyncRequest for TLC: one or two clusters with up to two resources each. *)
(* The states of cluster "a" differ in every way a delta can express (a    *)
(* resource is added, changed or removed, an edge is added or removed), one*)
(* names a resource of cluster "b", and the clusters have edges into each  *)
(* other.                                                                  *)
(***************************************************************************)
EXTENDS SyncRequest, TLC

Res(c, n, d) == [uid |-> <<c, n>>, data |-> d]
Uses(source, dest) == [source |-> source, dest |-> dest, type |-> "uses"]
State(rs, es) == [resources |-> rs, edges |-> es]

Both == State({Res("a", "p", "x"), Res("a", "q", "x")},
              {Uses(<<"a", "p">>, <<"a", "q">>)})
Pointing == State({Res("b", "p", "x")}, {Uses(<<"b", "p">>, <<"a", "p">>)})

(* The delta from Both to Across changes p, removes q with its edge, and   *)
(* adds an edge of p.                                                      *)
Across == State({Res("a", "p", "y")}, {Uses(<<"a", "p">>, <<"b", "p">>)})

(* A resource of the other cluster, and also the node of its own cluster:  *)
(* a delta that starts from Usurper deletes the node.                      *)
Intruder == State({Res("a", "p", "y"), Res("b", "p", "y")}, {})
Usurper == State(Intruder.resources \cup {[uid |-> Node("a"), data |-> "y"]}, {})

OneWriter == ("a" :> {Both, Across, Intruder}) @@ ("b" :> {})
TwoWriters == ("a" :> {Both, Usurper}) @@ ("b" :> {Pointing})

(* What the README, section 5, uses besides.                               *)
Turned == State({Res("a", "p", "y"), Res("a", "q", "x")},
                {Uses(<<"a", "q">>, <<"a", "p">>)})
Turning == ("a" :> {Both, Turned}) @@ ("b" :> {})
Crossing == ("a" :> {Both, Across}) @@ ("b" :> {Pointing})

Row(c, uid, d) == [uid |-> uid, cluster |-> c, data |-> d]
NodeRows == {Row(c, Node(c), "x") : c \in {"a", "b"}}
InterCluster == [edge |-> [source |-> <<"a", "p">>, dest |-> <<"b", "p">>,
                           type |-> "interCluster"],
                 cluster |-> "a"]

(* The database has rows of earlier requests.                              *)
Used == [resources |-> NodeRows \cup {Row("a", <<"a", "p">>, "y"),
                                     Row("b", <<"b", "p">>, "x")},
         edges |-> {InterCluster,
                    [edge |-> Uses(<<"a", "q">>, <<"a", "p">>), cluster |-> "a"],
                    [edge |-> Uses(<<"b", "p">>, <<"a", "p">>), cluster |-> "b"]}]
UsedDatabase == {Used}

(* What InSync and StoreSpec require of the states.                        *)
ASSUME StatesAreConsistent == ConsistentStates
=============================================================================
