----------------------------- MODULE ClusterNode -----------------------------
(***************************************************************************)
(* The leader of the indexer pods follows the ManagedCluster,              *)
(* ManagedClusterInfo and ManagedClusterAddOn objects of the hub           *)
(* (pkg/clustersync) and keeps, for each managed cluster, a row that       *)
(* stands for the cluster: its node (pkg/database/upsertCluster.go).  It   *)
(* also deletes the rows of clusters that went away.  Each pod has a cache *)
(* of the nodes (pkg/database/cache.go).                                   *)
(*                                                                         *)
(* An object or a node is a function from property keys to values.         *)
(***************************************************************************)
EXTENDS Integers

CONSTANTS Clusters,    \* names of managed clusters
          Pods,        \* pods of the indexer
          Status,      \* values of a condition of a ManagedCluster
          Infos,       \* contents of a ManagedClusterInfo
          None,        \* no object, no row, no value, nobody
          MaxChanges,  \* changes of the objects (bound)
          MaxTerms,    \* terms of leadership (bound)
          MaxFailures, \* failures of the database or the API (bound)
          Faults       \* what may go wrong

(* "delete"   ManagedClusters are deleted                                  *)
(* "exec"     the statement that writes a node fails                       *)
(* "commit"   it fails although the database executed it                   *)
(* "list"     the queries of the cleanup at the start of a term fail       *)
(* "restart"  a pod restarts                                               *)
(* "late"     a request of a collector outlives the add-on                 *)
(* "offline"  a cluster is offline for a while                             *)
(* "drop"     a condition of a ManagedCluster disappears                   *)
(* "tombstone" an informer lost its watch and reports a delete late        *)
(* "zombie"   a statement in flight when a term ends takes effect later    *)
ASSUME ClusterNodeAssumption ==
    /\ MaxChanges \in Nat /\ MaxTerms \in Nat /\ MaxFailures \in Nat
    /\ Faults \subseteq {"delete", "exec", "commit", "list", "restart",
                         "late", "offline", "drop", "tombstone", "zombie"}
    /\ None \notin Status \cup Infos \cup Pods \cup Nat
    /\ "available" \notin Status \cup Infos

Kinds == {"ManagedCluster", "ManagedClusterInfo", "ManagedClusterAddOn"}

(* created stands for the creation time, status for any other property of  *)
(* a ManagedCluster, info for the properties of a ManagedClusterInfo.      *)
Props == [created : 0 .. MaxChanges \cup {None}, status : Status \cup {None},
          info : Infos \cup {None}]
Managed(created, status) == [created |-> created, status |-> status, info |-> None]
Info(info) == [created |-> None, status |-> None, info |-> info]

(* A cache entry.  The numbers among the properties that were read from    *)
(* the database are float64 where those of an object are int64; loaded     *)
(* names the kinds of object whose properties are such.                    *)
Entry == [props : Props, loaded : SUBSET Kinds]
ASSUME NoneAssumption == None \notin Props \cup Entry

VARIABLES object,    \* [Kinds -> [Clusters -> the object or None]]
          changes,   \* number of changes so far
          overlooked, \* clusters whose end the present term cannot notice
          request,   \* clusters with a collector request in progress
          node,      \* [Clusters -> the node's row or None]
          rows,      \* clusters with other rows in the tables
          leader,    \* the pod that leads, or None
          terms,     \* number of terms so far
          cleanup,   \* deleteStaleClusterResources of the leader
          seen,      \* [Kinds -> clusters whose object the informer has]
          handler,   \* [Pods -> [Kinds -> the event being handled]]
          cache,     \* [Pods -> [Clusters -> Entry or None]]
          failures   \* number of failures so far

kube == <<object, changes, overlooked>>
lead == <<leader, terms, cleanup>>
vars == <<kube, request, node, rows, lead, seen, handler, cache, failures>>

Idle == [pc |-> "idle"]
Events == {Idle}
            \cup [pc : {"ready", "check", "exec", "cache"}, cluster : Clusters,
                  props : Props, loaded : SUBSET Kinds]
            \cup [pc : {"load"}, cluster : Clusters, props : Props,
                  loaded : SUBSET Kinds, found : Props]
            \cup [pc : {"rows", "node", "uncache"}, cluster : Clusters]

(* mux: one upsert at a time in a pod.                                     *)
Upserting == {"check", "load", "exec", "cache"}
Locked(p) == \E k \in Kinds : handler[p][k].pc \in Upserting

Objects == [ManagedCluster |-> Props,
            ManagedClusterInfo |-> Props,
            ManagedClusterAddOn |-> {"available", "other"}]

TypeOK ==
    /\ DOMAIN object = Kinds
    /\ \A k \in Kinds : object[k] \in [Clusters -> Objects[k] \cup {None}]
    /\ changes \in 0 .. MaxChanges
    /\ overlooked \subseteq Clusters
    /\ request \subseteq Clusters
    /\ node \in [Clusters -> Props \cup {None}]
    /\ rows \subseteq Clusters
    /\ leader \in Pods \cup {None}
    /\ terms \in 0 .. MaxTerms
    /\ cleanup \in [step : {"list", "query", "delete", "done"}, clusters : SUBSET Clusters]
    /\ seen \in [Kinds -> SUBSET Clusters]
    /\ handler \in [Pods -> [Kinds -> Events]]
    /\ \A p \in Pods, k, l \in Kinds :
         {handler[p][k].pc, handler[p][l].pc} \subseteq Upserting => k = l
    /\ cache \in [Pods -> [Clusters -> Entry \cup {None}]]
    /\ failures \in 0 .. MaxFailures

Init == /\ object = [k \in Kinds |-> [c \in Clusters |-> None]]
        /\ changes = 0
        /\ overlooked = {}
        /\ request = {}
        /\ node = [c \in Clusters |-> None]
        /\ rows = {}
        /\ leader = None
        /\ terms = 0
        /\ cleanup = [step |-> "done", clusters |-> {}]
        /\ seen = [k \in Kinds |-> {}]
        /\ handler = [p \in Pods |-> [k \in Kinds |-> Idle]]
        /\ cache = [p \in Pods |-> [c \in Clusters |-> None]]
        /\ failures = 0

FailureOf(kind) == /\ kind \in Faults
                   /\ failures < MaxFailures
                   /\ failures' = failures + 1

------------------------------------------------------------------------------
(* The environment: the objects of the hub, and the collectors.            *)

(* An object that goes away after a new leader asked for the clusters and   *)
(* before its informer knows the object is overlooked by both.             *)
Set(k, c, o) == /\ changes < MaxChanges
                /\ changes' = changes + 1
                /\ object' = [object EXCEPT ![k][c] = o]
                /\ overlooked' =
                     IF o = None /\ leader # None /\ cleanup.step # "list" /\ c \notin seen[k]
                       THEN overlooked \cup {c} ELSE overlooked
                /\ UNCHANGED <<request, node, rows, lead, seen, handler, cache,
                               failures>>

ChangeManagedCluster(c) ==
    LET mc == object["ManagedCluster"][c]
    IN  \/ /\ mc = None
           /\ \E s \in Status : Set("ManagedCluster", c, Managed(changes, s))
        \/ /\ mc # None
           /\ \E s \in (Status \cup IF "drop" \in Faults THEN {None} ELSE {}) \ {mc.status} :
                 Set("ManagedCluster", c, Managed(mc.created, s))
        \/ /\ mc # None
           /\ "delete" \in Faults
           /\ object["ManagedClusterInfo"][c] = None
           /\ Set("ManagedCluster", c, None)

(* It exists only while the ManagedCluster does (clusterSync.go:348).      *)
ChangeManagedClusterInfo(c) ==
    \E o \in {Info(i) : i \in Infos} \cup {None} :
        /\ object["ManagedCluster"][c] # None
        /\ o # object["ManagedClusterInfo"][c]
        /\ Set("ManagedClusterInfo", c, o)

(* The value of the label feature.open-cluster-management.io/              *)
(* addon-search-collector, None without the add-on.                        *)
ChangeAddOn(c) ==
    \E o \in {"available", None}
               \cup (IF "offline" \in Faults THEN {"other"} ELSE {}) :
        /\ o # object["ManagedClusterAddOn"][c]
        /\ Set("ManagedClusterAddOn", c, o)

Enabled(c) == /\ object["ManagedCluster"][c] # None
              /\ object["ManagedClusterAddOn"][c] # None

(* A collector sends a request, which writes rows while it is in progress. *)
StartRequest(c) == /\ Enabled(c)
                   /\ c \notin request
                   /\ request' = request \cup {c}
                   /\ UNCHANGED <<kube, node, rows, lead, seen, handler, cache,
                                  failures>>
RequestWrites(c) == /\ c \in request
                    /\ Enabled(c) \/ "late" \in Faults
                    /\ rows' = rows \cup {c}
                    /\ UNCHANGED <<kube, request, node, lead, seen, handler,
                                   cache, failures>>
RequestEnds(c) == /\ c \in request
                  /\ request' = request \ {c}
                  /\ UNCHANGED <<kube, node, rows, lead, seen, handler, cache,
                                 failures>>

------------------------------------------------------------------------------
(* Leadership and the start of syncClusters.  A pod begins a term when the *)
(* handlers of its last one are through (bound).                           *)

StartLeading(p) ==
    /\ leader = None
    /\ terms < MaxTerms
    /\ \A k \in Kinds : handler[p][k] = Idle
    /\ leader' = p
    /\ terms' = terms + 1
    /\ cleanup' = [step |-> "list", clusters |-> {}]
    /\ seen' = [k \in Kinds |-> {}]
    /\ overlooked' = {}
    /\ UNCHANGED <<object, changes, request, node, rows, handler, cache, failures>>

(* The context of the term is cancelled.  The last term (bound) lasts.     *)
StopLeading == /\ leader # None
               /\ terms < MaxTerms
               /\ leader' = None
               /\ cleanup' = [step |-> "done", clusters |-> {}]
               /\ UNCHANGED <<kube, request, node, rows, terms, seen, handler,
                              cache, failures>>

Die(p) == /\ terms < MaxTerms
          /\ leader' = IF leader = p THEN None ELSE leader
          /\ cleanup' = IF leader = p THEN [step |-> "done", clusters |-> {}]
                          ELSE cleanup
          /\ handler' = [handler EXCEPT ![p] = [k \in Kinds |-> Idle]]
          /\ cache' = [cache EXCEPT ![p] = [c \in Clusters |-> None]]
          /\ UNCHANGED <<kube, request, node, rows, terms, seen>>

Restart(p) == FailureOf("restart") /\ Die(p)

Cleanup(step, next, clusters) ==
    /\ leader # None
    /\ cleanup.step = step
    /\ cleanup' = [step |-> next, clusters |-> clusters]
    /\ UNCHANGED <<object, changes, request, node, leader, terms, seen, handler, cache>>

(* findStaleClusterResources: the clusters of the API, ...                 *)
ListClusters ==
    /\ Cleanup("list", "query",
         {c \in Clusters : /\ object["ManagedCluster"][c] # None
                           /\ object["ManagedClusterAddOn"][c] = "available"})
    /\ UNCHANGED <<overlooked, rows, failures>>

(* ... and the clusters found in the database that are not among them.     *)
Stale(found) == found \ cleanup.clusters

(* Mutant of GetManagedClusters: the difference is taken the other way.    *)
GetManagedClustersSwapped ==
    /\ Cleanup("query", "delete", cleanup.clusters \ rows)
    /\ UNCHANGED <<overlooked, rows, failures>>

GetManagedClusters ==
    /\ Cleanup("query", "delete", Stale(rows))
    /\ UNCHANGED <<overlooked, rows, failures>>

(* Either fails: the error is logged, and the term goes on without cleanup.*)
(* A query that breaks off half way has its rows taken for the answer.     *)
CleanupFails ==
    /\ FailureOf("list")
    /\ \/ Cleanup("list", "done", {})
       \/ Cleanup("query", "done", {})
       \/ \E read \in SUBSET rows : Cleanup("query", "delete", Stale(read))
    /\ overlooked' = Clusters
    /\ UNCHANGED rows

(* DeleteClusterAndResources(c, false), one cluster after the other.       *)
DeleteStale(c) == /\ c \in cleanup.clusters
                  /\ Cleanup("delete", "delete", cleanup.clusters \ {c})
                  /\ rows' = rows \ {c}
                  /\ UNCHANGED <<overlooked, failures>>

CleanupDone == /\ cleanup.clusters = {}
               /\ Cleanup("delete", "done", {})
               /\ UNCHANGED <<overlooked, rows, failures>>

------------------------------------------------------------------------------
(* The informers call one handler per kind.                                *)

Handle(p, k, event) == handler' = [handler EXCEPT ![p][k] = event]

(* The informer reports the object as it is, when it changed and           *)
(* periodically, or that it is gone.                                       *)
Deliver(p, k, c) ==
    /\ leader = p
    /\ cleanup.step = "done"
    /\ handler[p][k] = Idle
    /\ LET o == object[k][c]
       IN  \/ /\ o # None
              /\ seen' = [seen EXCEPT ![k] = @ \cup {c}]
              /\ IF k = "ManagedClusterAddOn" THEN UNCHANGED handler
                   ELSE Handle(p, k, [pc |-> "ready", cluster |-> c, props |-> o,
                                      loaded |-> {}])
           \/ /\ o = None
              /\ c \in seen[k]
              /\ seen' = [seen EXCEPT ![k] = @ \ {c}]
              /\ IF k = "ManagedClusterInfo" THEN UNCHANGED handler
                   ELSE Handle(p, k, [pc |-> "rows", cluster |-> c])
    /\ UNCHANGED <<kube, request, node, rows, lead, cache, failures>>

(* After a lost watch the handler gets a tombstone in place of the object, *)
(* and its type assertion panics.                                          *)
Tombstone(p, k, c) == /\ FailureOf("tombstone")
                      /\ leader = p
                      /\ cleanup.step = "done"
                      /\ handler[p][k] = Idle
                      /\ object[k][c] = None
                      /\ c \in seen[k]
                      /\ Die(p)

At(p, k, pc) == handler[p][k].pc = pc

(* Mutant of AddAdditionalProperties: nothing is taken from the cache.     *)
NoAdditionalProperties(props, entry) == [props |-> props, loaded |-> {}]

(* addAdditionalProperties: what the object lacks comes from the cache.    *)
AddAdditionalProperties(props, entry) ==
    IF entry = None THEN [props |-> props, loaded |-> {}]
      ELSE [props |-> [key \in DOMAIN props |->
                         IF props[key] # None THEN props[key] ELSE entry.props[key]],
            loaded |-> entry.loaded]

(* Mutant of Transform: the lock is missing.                               *)
TransformUnlocked(p, k) ==
    /\ At(p, k, "ready")
    /\ LET h == handler[p][k]
           merged == AddAdditionalProperties(h.props, cache[p][h.cluster])
       IN  Handle(p, k, [pc |-> "check", cluster |-> h.cluster,
                         props |-> merged.props, loaded |-> merged.loaded \ {k}])
    /\ UNCHANGED <<kube, request, node, rows, lead, seen, cache, failures>>

(* processClusterUpsert takes the lock and transforms the object.          *)
Transform(p, k) ==
    /\ At(p, k, "ready")
    /\ ~Locked(p)
    /\ LET h == handler[p][k]
           merged == AddAdditionalProperties(h.props, cache[p][h.cluster])
       IN  Handle(p, k, [pc |-> "check", cluster |-> h.cluster,
                         props |-> merged.props, loaded |-> merged.loaded \ {k}])
    /\ UNCHANGED <<kube, request, node, rows, lead, seen, cache, failures>>

Load(props) == [props |-> props, loaded |-> Kinds]

(* UpsertCluster ends at once when the context is cancelled.               *)
SkipCancelled(p, k) ==
    /\ At(p, k, "check")
    /\ leader # p
    /\ Handle(p, k, Idle)
    /\ UNCHANGED <<kube, request, node, rows, lead, seen, cache, failures>>

(* clusterPropsUpToDate: the cached numbers of a node that was loaded      *)
(* differ from those of the object.                                        *)
UpToDate(p, k) == LET h == handler[p][k]
                      entry == cache[p][h.cluster]
                  IN  entry.props = h.props /\ k \notin entry.loaded

(* The node is in the cache.                                               *)
CheckCached(p, k) ==
    /\ At(p, k, "check")
    /\ leader = p
    /\ cache[p][handler[p][k].cluster] # None
    /\ handler' = [handler EXCEPT ![p][k] =
         IF UpToDate(p, k) THEN Idle ELSE [@ EXCEPT !.pc = "exec"]]
    /\ UNCHANGED <<kube, request, node, rows, lead, seen, cache, failures>>

(* The node is not in the cache: it is read from the database, and then    *)
(* put there.  Whatever the query finds, and when it fails, the node is    *)
(* written.                                                                *)
CheckDatabase(p, k) ==
    /\ At(p, k, "check")
    /\ leader = p
    /\ LET h == handler[p][k]
       IN  /\ cache[p][h.cluster] = None
           /\ \/ /\ node[h.cluster] # None
                 /\ Handle(p, k, [pc |-> "load", cluster |-> h.cluster, props |-> h.props,
                                  loaded |-> h.loaded, found |-> node[h.cluster]])
                 /\ UNCHANGED failures
              \/ /\ (node[h.cluster] = None /\ UNCHANGED failures) \/ FailureOf("exec")
                 /\ Handle(p, k, [h EXCEPT !.pc = "exec"])
    /\ UNCHANGED <<kube, request, node, rows, lead, seen, cache>>

LoadClustersCache(p, k) ==
    /\ At(p, k, "load")
    /\ LET h == handler[p][k]
       IN  /\ cache' = [cache EXCEPT ![p][h.cluster] = Load(h.found)]
           /\ Handle(p, k, [pc |-> "exec", cluster |-> h.cluster, props |-> h.props,
                            loaded |-> h.loaded])
    /\ UNCHANGED <<kube, request, node, rows, lead, seen, failures>>

(* The context of the handler is not cancelled, or the statement was sent  *)
(* before it was.                                                          *)
Effective(p) == leader = p \/ "zombie" \in Faults

Write(h) == node' = [node EXCEPT ![h.cluster] = h.props]

Exec(p, k) ==
    /\ At(p, k, "exec")
    /\ Effective(p)
    /\ Write(handler[p][k])
    /\ handler' = [handler EXCEPT ![p][k].pc = "cache"]
    /\ UNCHANGED <<kube, request, rows, lead, seen, cache, failures>>

(* Mutant of ExecFails: the error does not end UpsertCluster.              *)
ExecFailsUnnoticed(p, k) ==
    /\ At(p, k, "exec")
    /\ \/ FailureOf("exec") /\ UNCHANGED node
       \/ FailureOf("commit") /\ Write(handler[p][k])
    /\ handler' = [handler EXCEPT ![p][k].pc = "cache"]
    /\ UNCHANGED <<kube, request, rows, lead, seen, cache>>

(* Nobody tries again, until the informer reports the object once more.    *)
ExecFails(p, k) ==
    /\ At(p, k, "exec")
    /\ \/ FailureOf("exec") /\ UNCHANGED node
       \/ FailureOf("commit") /\ Write(handler[p][k])
    /\ Handle(p, k, Idle)
    /\ UNCHANGED <<kube, request, rows, lead, seen, cache>>

(* Mutant of UpdateClustersCache: an entry is not overwritten.             *)
KeepClustersCache(p, k) ==
    /\ At(p, k, "cache")
    /\ LET h == handler[p][k]
       IN  cache' = [cache EXCEPT ![p][h.cluster] =
             IF @ = None THEN [props |-> h.props, loaded |-> h.loaded] ELSE @]
    /\ Handle(p, k, Idle)
    /\ UNCHANGED <<kube, request, node, rows, lead, seen, failures>>

UpdateClustersCache(p, k) ==
    /\ At(p, k, "cache")
    /\ LET h == handler[p][k]
       IN  cache' = [cache EXCEPT ![p][h.cluster] =
             [props |-> h.props, loaded |-> h.loaded]]
    /\ Handle(p, k, Idle)
    /\ UNCHANGED <<kube, request, node, rows, lead, seen, failures>>

------------------------------------------------------------------------------
(* processClusterDelete.  A transaction that fails is tried again, which   *)
(* changes nothing, until the context is cancelled.                        *)

(* DeleteClusterResourcesTxn for the cluster; the node is kept when only   *)
(* the add-on was deleted.                                                 *)
DeleteRows(p, k) ==
    /\ At(p, k, "rows")
    /\ Effective(p)
    /\ rows' = rows \ {handler[p][k].cluster}
    /\ Handle(p, k, IF k = "ManagedCluster"
                      THEN [handler[p][k] EXCEPT !.pc = "node"] ELSE Idle)
    /\ UNCHANGED <<kube, request, node, lead, seen, cache, failures>>

DeleteNode(p, k) ==
    /\ At(p, k, "node")
    /\ Effective(p)
    /\ node' = [node EXCEPT ![handler[p][k].cluster] = None]
    /\ Handle(p, k, [handler[p][k] EXCEPT !.pc = "uncache"])
    /\ UNCHANGED <<kube, request, rows, lead, seen, cache, failures>>

DeleteClustersCache(p, k) ==
    /\ At(p, k, "uncache")
    /\ cache' = [cache EXCEPT ![p][handler[p][k].cluster] = None]
    /\ Handle(p, k, Idle)
    /\ UNCHANGED <<kube, request, node, rows, lead, seen, failures>>

(* The context is cancelled while a statement runs, or before the next.    *)
Cancelled(p, k) ==
    /\ leader # p
    /\ \E pc \in {"exec", "rows", "node"} : At(p, k, pc)
    /\ Handle(p, k, Idle)
    /\ UNCHANGED <<kube, request, node, rows, lead, seen, cache, failures>>

------------------------------------------------------------------------------
Term == \/ \E p \in Pods : StartLeading(p)
        \/ ListClusters \/ GetManagedClusters \/ CleanupDone
        \/ \E c \in Clusters : DeleteStale(c)

Handler(p, k) ==
    \/ Transform(p, k) \/ SkipCancelled(p, k)
    \/ CheckCached(p, k) \/ CheckDatabase(p, k) \/ LoadClustersCache(p, k)
    \/ Exec(p, k) \/ UpdateClustersCache(p, k)
    \/ DeleteRows(p, k) \/ DeleteNode(p, k) \/ DeleteClustersCache(p, k)
    \/ Cancelled(p, k)

Environment(c) ==
    \/ ChangeManagedCluster(c) \/ ChangeManagedClusterInfo(c) \/ ChangeAddOn(c)
    \/ StartRequest(c) \/ RequestWrites(c) \/ RequestEnds(c)

Next == \/ Term \/ StopLeading \/ CleanupFails
        \/ \E c \in Clusters : Environment(c)
        \/ \E p \in Pods :
             \/ Restart(p)
             \/ \E k \in Kinds :
                  \/ Handler(p, k) \/ ExecFails(p, k)
                  \/ \E c \in Clusters : Deliver(p, k, c) \/ Tombstone(p, k, c)

(* Pods go on and elect a leader.  The informers report each object again  *)
(* and again: they resync periodically, and their queue is fair.           *)
Fairness == /\ WF_vars(Term)
            /\ \A k \in Kinds :
                 /\ SF_vars(\E p \in Pods : Handler(p, k))
                 /\ \A c \in Clusters : SF_vars(\E p \in Pods : Deliver(p, k, c))

Spec == Init /\ [][Next]_vars /\ Fairness

------------------------------------------------------------------------------
(* Properties.                                                             *)

(* What the cache of the leader holds of a node is what the database has,  *)
(* although upserts and deletes of a cluster overlap and only upserts take *)
(* the lock (clusterSync.go:190-193, upsertCluster.go:27-30, 176-187): an  *)
(* upsert that trusts the cache overlooks nothing.                         *)
CacheAgrees == \A p \in Pods, c \in Clusters :
    /\ leader = p
    /\ \A k \in Kinds : ~At(p, k, "cache")
    /\ cache[p][c] # None
    /\ node[c] # None
    => cache[p][c].props = node[c]

(* No pod but p has handled an event: there is none, or p leads in the     *)
(* first term.                                                             *)
Sole(p) == Pods = {p} \/ (leader = p /\ terms <= 1)

Caching(p, k, c) == At(p, k, "cache") /\ handler[p][k].cluster = c
Loading(p, k, c) == At(p, k, "load") /\ handler[p][k].cluster = c

(* An upsert that wrote or read the node still finds the same properties   *)
(* there, unless a delete came in between.                                 *)
Agrees(p) == \A c \in Clusters :
    /\ \A k \in Kinds : Caching(p, k, c) => node[c] \in {None, handler[p][k].props}
    /\ \A k \in Kinds : Loading(p, k, c) => node[c] \in {None, handler[p][k].found}
    /\ /\ cache[p][c] # None
       /\ node[c] # None
       /\ \A k \in Kinds : ~Caching(p, k, c)
       => cache[p][c].props = node[c]

(* The invariant that CacheAgrees rests on, as long as no statement takes  *)
(* effect and reports a failure.                                           *)
CacheInv ==
    /\ terms = 0 =>
         /\ leader = None
         /\ \A p \in Pods : /\ \A k \in Kinds : handler[p][k] = Idle
                            /\ \A c \in Clusters : cache[p][c] = None
    /\ \A p \in Pods : Sole(p) =>
         /\ \A q \in Pods \ {p} : \A k \in Kinds : handler[q][k] = Idle
         /\ Agrees(p)

(* The leader "keeps the Cluster pseudo-node in PostgreSQL in sync"        *)
(* (docs/ARCHITECTURE.md:25): once the objects stop changing, the node of  *)
(* each cluster has the properties of both objects, also when statements   *)
(* failed, which UpsertCluster does not try again (upsertCluster.go:171).  *)
Current(c) ==
    LET mc == object["ManagedCluster"][c]
        info == object["ManagedClusterInfo"][c]
    IN  mc # None =>
          /\ node[c] # None
          /\ node[c].created = mc.created
          /\ node[c].status = mc.status
          /\ info # None => node[c].info = info.info
NodeFollows == <>[](\A c \in Clusters : Current(c))

(* "delete events remove the cluster node" (docs/ARCHITECTURE.md:52), and  *)
(* it does not come back.                                                  *)
DeletedNodeGoes == <>[](\A c \in Clusters :
    object["ManagedCluster"][c] = None => node[c] = None)

(* "Confirm delete event not missed if indexer OR db goes offline"         *)
(* (clusterSync.go:87): the rows of a cluster that went away, or whose     *)
(* add-on did, go too, whether or not somebody was the leader then.  What  *)
(* a term overlooks goes in the next one, which starts with none overlooked*)
(* (variable overlooked; clusterSync.go:88-91, 104).                       *)
RowsGo == <>[](\A c \in Clusters :
    ~Enabled(c) => c \notin rows \/ c \in overlooked)

(* "merging fields" (docs/ARCHITECTURE.md:50): in the first term an event  *)
(* of one object changes nothing in the node that comes from the other,    *)
(* and loses nothing of its own (clusterSync.go:246-262).  The node is one *)
(* of the present ManagedCluster: deleted and created anew, a cluster may  *)
(* have the node that an upsert under way left behind of the one before.   *)
OwnKeys(k) == IF k = "ManagedClusterInfo" THEN {"info"} ELSE {"created", "status"}
Extends(k, old, new) == \A key \in {"created", "status", "info"} :
    IF key \in OwnKeys(k) THEN old[key] # None => new[key] # None
      ELSE new[key] = old[key]
Present(c) == LET mc == object["ManagedCluster"][c]
              IN  mc # None /\ node[c] # None /\ node[c].created = mc.created
FirstTerm == leader # None /\ terms <= 1
FieldsMerged == [][\A c \in Clusters : FirstTerm /\ Present(c) /\ node'[c] # None
    => \E k \in Kinds : Extends(k, node[c], node'[c])]_vars

(* Nobody has a copy of the properties of the ManagedCluster that was      *)
(* created at the given time.                                              *)
Unknown(c, created) ==
    /\ node[c] # None => node[c].created # created
    /\ \A p \in Pods :
         /\ cache[p][c] # None => cache[p][c].props.created # created
         /\ \A k \in Kinds :
              /\ handler[p][k].pc \in {"ready"} \cup Upserting
              /\ handler[p][k].cluster = c
              => /\ handler[p][k].props.created # created
                 /\ At(p, k, "load") => handler[p][k].found.created # created

(* A ManagedCluster that is created has another creation time than all     *)
(* that went before it.                                                    *)
Dated == \A c \in Clusters :
    /\ object["ManagedCluster"][c] # None =>
         object["ManagedCluster"][c].created \in 0 .. changes - 1
    /\ \A created \in changes .. MaxChanges : Unknown(c, created)

(* An object has only the properties of its kind, until they are merged,   *)
(* and only the end of a ManagedCluster takes a node away.                 *)
OnlyOwn(k, props) == \A key \in {"created", "status", "info"} \ OwnKeys(k) :
    props[key] = None
Separated ==
    /\ \A k \in Kinds \ {"ManagedClusterAddOn"}, c \in Clusters :
         object[k][c] # None => OnlyOwn(k, object[k][c])
    /\ \A p \in Pods, k \in Kinds :
         /\ At(p, k, "ready") => OnlyOwn(k, handler[p][k].props)
         /\ At(p, k, "node") \/ At(p, k, "uncache") => k = "ManagedCluster"

(* A delete under way is of a ManagedCluster before the present one, and   *)
(* the leader has the node in its cache when an event is merged with it.   *)
Ending(p, c) == LET h == handler[p]["ManagedCluster"]
                IN  h.pc \in {"rows", "node", "uncache"} /\ h.cluster = c
MergesInTerm(c) ==
    /\ Ending(leader, c) => Unknown(c, object["ManagedCluster"][c].created)
    /\ Present(c) =>
         /\ cache[leader][c] # None \/ \E k \in Kinds : Caching(leader, k, c)
         /\ \A k \in Kinds :
              /\ handler[leader][k].pc \in {"check", "load", "exec"}
              /\ handler[leader][k].cluster = c
              => Extends(k, node[c], handler[leader][k].props)

(* The invariant that FieldsMerged rests on, together with CacheInv.       *)
MergeInv == /\ terms = 0 => \A c \in Clusters : node[c] = None
            /\ Dated
            /\ Separated
            /\ FirstTerm => \A c \in Clusters :
                 object["ManagedCluster"][c] # None => MergesInTerm(c)

(* The same in every term, and whatever became of the cluster in between.  *)
FieldsKept == [][\A c \in Clusters : node[c] # None /\ node'[c] # None =>
    \E k \in Kinds : Extends(k, node[c], node'[c])]_vars

(* "We are not deleting the cluster or resources if a cluster is offline"  *)
(* (clusterSync.go:231-232): a cluster with the add-on is not stale.       *)
OfflineSpared == [][cleanup.step = "list" /\ cleanup'.step = "query" =>
    \A c \in rows : Enabled(c) => c \in cleanup'.clusters]_vars
=============================================================================
