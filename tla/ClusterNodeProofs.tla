-------------------------- MODULE ClusterNodeProofs --------------------------
(***************************************************************************)
(* Proofs about the nodes of the clusters and their cache, for every set   *)
(* of clusters and pods and every number of changes, terms and failures.   *)
(***************************************************************************)
EXTENDS ClusterNode, TLAPS

------------------------------------------------------------------------------
(* Events and properties.                                                  *)

(* The steps of an upsert that hold nothing read from the database.        *)
Plain == {"check", "exec", "cache"}

LEMMA EventFacts ==
    ASSUME NEW e \in Events
    PROVE  /\ e.pc \in {"ready"} \cup Upserting =>
                e.cluster \in Clusters /\ e.props \in Props /\ e.loaded \subseteq Kinds
           /\ e.pc \in Plain => \A pc \in Plain : [e EXCEPT !.pc = pc] \in Events
           /\ e.pc = "load" => e.found \in Props
           /\ e.pc \in {"rows", "node", "uncache"} =>
                /\ e.cluster \in Clusters
                /\ \A pc \in {"node", "uncache"} : [e EXCEPT !.pc = pc] \in Events
BY DEF Events, Idle, Upserting, Plain

LEMMA NewEvents ==
    /\ Idle \in Events /\ Idle.pc = "idle"
    /\ \A pc \in {"ready"} \cup Plain, c \in Clusters, props \in Props,
          loaded \in SUBSET Kinds :
         [pc |-> pc, cluster |-> c, props |-> props, loaded |-> loaded] \in Events
    /\ \A c \in Clusters, props \in Props, loaded \in SUBSET Kinds, found \in Props :
         [pc |-> "load", cluster |-> c, props |-> props, loaded |-> loaded,
          found |-> found] \in Events
    /\ \A c \in Clusters : [pc |-> "rows", cluster |-> c] \in Events
BY DEF Events, Idle, Plain

LEMMA MergedProps ==
    ASSUME NEW props \in Props, NEW entry \in Entry \cup {None}
    PROVE  LET merged == AddAdditionalProperties(props, entry)
           IN  merged.props \in Props /\ merged.loaded \subseteq Kinds
<1>1. CASE entry = None
  BY <1>1 DEF AddAdditionalProperties
<1>2. CASE entry # None
  <2> DEFINE merged == [key \in DOMAIN props |->
                          IF props[key] # None THEN props[key] ELSE entry.props[key]]
  <2>1. entry.props \in Props /\ entry.loaded \subseteq Kinds
    BY <1>2 DEF Entry
  <2>2. DOMAIN props = {"created", "status", "info"}
    BY DEF Props
  <2>3. merged = [created |-> merged.created, status |-> merged.status, info |-> merged.info]
    BY <2>2
  <2>4. /\ merged.created \in (0 .. MaxChanges) \cup {None}
        /\ merged.status \in Status \cup {None}
        /\ merged.info \in Infos \cup {None}
    BY <2>1, <2>2 DEF Props
  <2> HIDE DEF merged
  <2>5. merged \in Props
    BY <2>3, <2>4 DEF Props
  <2> QED BY <1>2, <2>1, <2>5 DEF AddAdditionalProperties, merged
<1> QED BY <1>1, <1>2

(* A handler goes on to its next event, and takes the lock only if it is   *)
(* free.                                                                   *)
LEMMA HandleTyped ==
    ASSUME TypeOK, NEW p \in Pods, NEW k \in Kinds, NEW event \in Events,
           handler' = [handler EXCEPT ![p][k] = event],
           event.pc \in Upserting => handler[p][k].pc \in Upserting \/ ~Locked(p)
    PROVE  /\ handler' \in [Pods -> [Kinds -> Events]]
           /\ \A q \in Pods, m, l \in Kinds :
                {handler'[q][m].pc, handler'[q][l].pc} \subseteq Upserting => m = l
           /\ handler'[p][k] = event
           /\ \A q \in Pods, l \in Kinds :
                q # p \/ l # k => handler'[q][l] = handler[q][l]
<1>1. handler \in [Pods -> [Kinds -> Events]]
  BY DEF TypeOK
<1>2. handler' \in [Pods -> [Kinds -> Events]]
  BY <1>1
<1>3. handler'[p][k] = event
  BY <1>1
<1>4. \A q \in Pods, l \in Kinds : q # p \/ l # k => handler'[q][l] = handler[q][l]
  BY <1>1
<1>5. \A q \in Pods, m, l \in Kinds :
        {handler[q][m].pc, handler[q][l].pc} \subseteq Upserting => m = l
  BY DEF TypeOK, Upserting
<1>6. ASSUME NEW q \in Pods, NEW m \in Kinds, NEW l \in Kinds,
             {handler'[q][m].pc, handler'[q][l].pc} \subseteq Upserting
      PROVE  m = l
  BY <1>3, <1>4, <1>5, <1>6 DEF Locked, Upserting
<1> QED BY <1>2, <1>3, <1>4, <1>6
------------------------------------------------------------------------------
(* The types.                                                              *)

LEMMA InitTypeOK == Init => TypeOK
<1> SUFFICES ASSUME Init PROVE TypeOK
  OBVIOUS
<1>1. /\ changes \in 0 .. MaxChanges /\ terms \in 0 .. MaxTerms
      /\ failures \in 0 .. MaxFailures
  BY ClusterNodeAssumption DEF Init
<1>2. /\ handler \in [Pods -> [Kinds -> Events]]
      /\ \A p \in Pods, k \in Kinds : handler[p][k].pc = "idle"
  BY NewEvents DEF Init
<1>3. /\ DOMAIN object = Kinds
      /\ \A k \in Kinds : object[k] \in [Clusters -> Objects[k] \cup {None}]
  BY DEF Init
<1>4. /\ cache \in [Pods -> [Clusters -> Entry \cup {None}]]
      /\ node \in [Clusters -> Props \cup {None}]
      /\ seen \in [Kinds -> SUBSET Clusters]
      /\ cleanup \in [step : {"list", "query", "delete", "done"}, clusters : SUBSET Clusters]
      /\ overlooked = {} /\ request = {} /\ rows = {} /\ leader = None
  BY DEF Init
<1> QED BY <1>1, <1>2, <1>3, <1>4 DEF TypeOK, Upserting

(* What a step does that is not about the handlers.                        *)
LEMMA SetKeepsTypeOK ==
    ASSUME TypeOK, NEW k \in Kinds, NEW c \in Clusters,
           NEW o \in Objects[k] \cup {None}, Set(k, c, o)
    PROVE  TypeOK'
<1>1. /\ DOMAIN object' = Kinds
      /\ \A l \in Kinds : object'[l] \in [Clusters -> Objects[l] \cup {None}]
  <2>1. object' = [object EXCEPT ![k][c] = o] /\ DOMAIN object = Kinds
    BY DEF Set, TypeOK
  <2>2. DOMAIN object' = Kinds /\ object'[k] = [object[k] EXCEPT ![c] = o]
        /\ \A l \in Kinds \ {k} : object'[l] = object[l]
    BY <2>1
  <2>3. object'[k] \in [Clusters -> Objects[k] \cup {None}]
    BY <2>2 DEF TypeOK
  <2>4. \A l \in Kinds \ {k} : object'[l] \in [Clusters -> Objects[l] \cup {None}]
    BY <2>2 DEF TypeOK
  <2> QED BY <2>2, <2>3, <2>4
<1>2. changes' \in 0 .. MaxChanges
  BY ClusterNodeAssumption DEF Set, TypeOK
<1>3. overlooked' \subseteq Clusters
  BY DEF Set, TypeOK
<1> QED BY <1>1, <1>2, <1>3 DEF Set, TypeOK, lead

LEMMA EnvironmentKeepsTypeOK ==
    ASSUME TypeOK, NEW c \in Clusters, Environment(c)
    PROVE  TypeOK'
<1>1. CASE ChangeManagedCluster(c)
  <2>1. /\ object["ManagedCluster"][c] \in Props \cup {None}
        /\ changes < MaxChanges => changes \in 0 .. MaxChanges
    BY ClusterNodeAssumption DEF TypeOK, Objects, Kinds
  <2>2. ASSUME NEW o \in Props \cup {None}, Set("ManagedCluster", c, o) PROVE TypeOK'
    BY <2>2, SetKeepsTypeOK DEF Objects, Kinds
  <2>3. ASSUME NEW s \in Status, Set("ManagedCluster", c, Managed(changes, s)) PROVE TypeOK'
    <3>1. Managed(changes, s) \in Props
      BY <2>1, <2>3 DEF Set, Managed, Props
    <3> QED BY <2>2, <2>3, <3>1
  <2>4. ASSUME object["ManagedCluster"][c] # None, NEW s \in Status \cup {None},
               Set("ManagedCluster", c, Managed(object["ManagedCluster"][c].created, s))
        PROVE  TypeOK'
    <3>1. Managed(object["ManagedCluster"][c].created, s) \in Props
      BY <2>1, <2>4 DEF Managed, Props
    <3> QED BY <2>2, <2>4, <3>1
  <2> QED BY <1>1, <2>2, <2>3, <2>4 DEF ChangeManagedCluster
<1>2. CASE ChangeManagedClusterInfo(c)
  <2>1. PICK o \in {Info(i) : i \in Infos} \cup {None} : Set("ManagedClusterInfo", c, o)
    BY <1>2 DEF ChangeManagedClusterInfo
  <2>2. o \in Props \cup {None}
    BY DEF Info, Props
  <2> QED BY <2>1, <2>2, SetKeepsTypeOK DEF Objects, Kinds
<1>3. CASE ChangeAddOn(c)
  <2>1. PICK o \in {"available", "other", None} : Set("ManagedClusterAddOn", c, o)
    BY <1>3 DEF ChangeAddOn
  <2> QED BY <2>1, SetKeepsTypeOK DEF Objects, Kinds
<1>4. CASE StartRequest(c) \/ RequestWrites(c) \/ RequestEnds(c)
  BY <1>4 DEF StartRequest, RequestWrites, RequestEnds, TypeOK, kube, lead
<1> QED BY <1>1, <1>2, <1>3, <1>4 DEF Environment

LEMMA TermKeepsTypeOK ==
    ASSUME TypeOK, Term \/ StopLeading \/ CleanupFails
    PROVE  TypeOK'
<1>1. ASSUME NEW p \in Pods, StartLeading(p) PROVE TypeOK'
  <2>1. terms' \in 0 .. MaxTerms
    BY <1>1, ClusterNodeAssumption DEF StartLeading, TypeOK
  <2> QED BY <1>1, <2>1 DEF StartLeading, TypeOK
<1>2. CASE StopLeading
  BY <1>2 DEF StopLeading, TypeOK, kube
<1>3. ASSUME NEW step, NEW next \in {"list", "query", "delete", "done"},
             NEW clusters \in SUBSET Clusters, Cleanup(step, next, clusters),
             overlooked' \in SUBSET Clusters, rows' \in SUBSET Clusters,
             failures' \in 0 .. MaxFailures
      PROVE  TypeOK'
  BY <1>3 DEF Cleanup, TypeOK
<1>4. /\ overlooked \in SUBSET Clusters /\ rows \in SUBSET Clusters
      /\ failures \in 0 .. MaxFailures /\ cleanup.clusters \in SUBSET Clusters
  BY DEF TypeOK
<1>5. CASE ListClusters
  BY <1>3, <1>4, <1>5 DEF ListClusters
<1>6. CASE GetManagedClusters
  BY <1>3, <1>4, <1>6 DEF GetManagedClusters, Stale
<1>7. CASE CleanupDone
  BY <1>3, <1>4, <1>7 DEF CleanupDone
<1>8. ASSUME NEW c \in Clusters, DeleteStale(c) PROVE TypeOK'
  BY <1>3, <1>4, <1>8 DEF DeleteStale
<1>9. CASE CleanupFails
  <2>1. /\ failures' \in 0 .. MaxFailures
        /\ overlooked' \in SUBSET Clusters /\ rows' \in SUBSET Clusters
    BY <1>4, <1>9, ClusterNodeAssumption DEF CleanupFails, FailureOf
  <2>2. \A read \in SUBSET rows : read \ cleanup.clusters \in SUBSET Clusters
    BY <1>4
  <2>3. ASSUME NEW step, NEW next \in {"done", "delete"}, NEW clusters \in SUBSET Clusters,
               Cleanup(step, next, clusters)
        PROVE  TypeOK'
    BY <1>3, <2>1, <2>3
  <2>4. {} \in SUBSET Clusters
    OBVIOUS
  <2> QED BY <1>9, <2>2, <2>3, <2>4 DEF CleanupFails, Stale
<1> QED BY <1>1, <1>2, <1>5, <1>6, <1>7, <1>8, <1>9 DEF Term

LEMMA DieKeepsTypeOK ==
    ASSUME TypeOK, NEW p \in Pods, Die(p), failures' \in 0 .. MaxFailures
    PROVE  TypeOK'
<1>1. \A q \in Pods : handler'[q] = IF q = p THEN [k \in Kinds |-> Idle] ELSE handler[q]
  BY DEF Die, TypeOK
<1>2. handler' \in [Pods -> [Kinds -> Events]]
  BY NewEvents DEF Die, TypeOK
<1>3. \A q \in Pods, k, l \in Kinds :
        {handler'[q][k].pc, handler'[q][l].pc} \subseteq Upserting => k = l
  <2> SUFFICES ASSUME NEW q \in Pods, NEW k \in Kinds, NEW l \in Kinds,
                      {handler'[q][k].pc, handler'[q][l].pc} \subseteq Upserting
               PROVE  k = l
    OBVIOUS
  <2>1. q # p
    BY <1>1, NewEvents DEF Upserting
  <2> QED BY <1>1, <2>1 DEF TypeOK, Upserting
<1>4. cache' \in [Pods -> [Clusters -> Entry \cup {None}]]
  BY DEF Die, TypeOK
<1> QED BY <1>2, <1>3, <1>4 DEF Die, TypeOK, kube, Upserting

LEMMA DeliverKeepsTypeOK ==
    ASSUME TypeOK, NEW p \in Pods, NEW k \in Kinds, NEW c \in Clusters, Deliver(p, k, c)
    PROVE  TypeOK'
<1>1. seen' \in [Kinds -> SUBSET Clusters]
  BY DEF Deliver, TypeOK
<1>2. /\ handler' \in [Pods -> [Kinds -> Events]]
      /\ \A q \in Pods, m, l \in Kinds :
           {handler'[q][m].pc, handler'[q][l].pc} \subseteq Upserting => m = l
  <2>1. CASE UNCHANGED handler
    BY <2>1 DEF TypeOK, Upserting
  <2>2. ASSUME NEW event \in Events, Handle(p, k, event), event.pc \notin Upserting
        PROVE  <1>2!1 /\ <1>2!2
    BY <2>2, HandleTyped DEF Handle
  <2>3. CASE ~UNCHANGED handler
    <3>1. \/ /\ object[k][c] # None /\ k # "ManagedClusterAddOn"
             /\ Handle(p, k, [pc |-> "ready", cluster |-> c, props |-> object[k][c],
                              loaded |-> {}])
          \/ Handle(p, k, [pc |-> "rows", cluster |-> c])
      BY <2>3 DEF Deliver
    <3>2. object[k][c] # None /\ k # "ManagedClusterAddOn" => object[k][c] \in Props
      BY DEF TypeOK, Kinds, Objects
    <3> QED BY <2>2, <3>1, <3>2, NewEvents DEF Upserting
  <2> QED BY <2>1, <2>3
<1> QED BY <1>1, <1>2 DEF Deliver, TypeOK, kube, lead, Upserting
LEMMA HandlerKeepsTypeOK ==
    ASSUME TypeOK, NEW p \in Pods, NEW k \in Kinds, Handler(p, k) \/ ExecFails(p, k)
    PROVE  TypeOK'
<1> DEFINE h == handler[p][k]
           c == h.cluster
<1>0. h \in Events
  BY DEF TypeOK
<1>1. ASSUME NEW event \in Events, handler' = [handler EXCEPT ![p][k] = event],
             event.pc \in Upserting => h.pc \in Upserting \/ ~Locked(p),
             UNCHANGED <<object, changes, overlooked, request, leader, terms, cleanup, seen>>,
             node' \in [Clusters -> Props \cup {None}],
             rows' \subseteq Clusters,
             cache' \in [Pods -> [Clusters -> Entry \cup {None}]],
             failures' \in 0 .. MaxFailures
      PROVE  TypeOK'
  <2>1. /\ handler' \in [Pods -> [Kinds -> Events]]
        /\ \A q \in Pods, m, l \in Kinds :
             {handler'[q][m].pc, handler'[q][l].pc} \subseteq Upserting => m = l
    BY <1>1, HandleTyped
  <2> QED BY <1>1, <2>1 DEF TypeOK, Upserting
<1>2. /\ node \in [Clusters -> Props \cup {None}] /\ rows \subseteq Clusters
      /\ cache \in [Pods -> [Clusters -> Entry \cup {None}]]
      /\ failures \in 0 .. MaxFailures
  BY DEF TypeOK
<1>3. \A kind : FailureOf(kind) => failures' \in 0 .. MaxFailures
  BY <1>2, ClusterNodeAssumption DEF FailureOf
<1>4. /\ h.pc \in {"ready"} \cup Upserting =>
           c \in Clusters /\ h.props \in Props /\ h.loaded \subseteq Kinds
      /\ h.pc \in Plain => \A pc \in Plain : [h EXCEPT !.pc = pc] \in Events
      /\ h.pc = "load" => h.found \in Props
      /\ h.pc \in {"rows", "node", "uncache"} =>
           /\ c \in Clusters
           /\ \A pc \in {"node", "uncache"} : [h EXCEPT !.pc = pc] \in Events
  BY <1>0, EventFacts
<1>5. handler \in [Pods -> [Kinds -> Events]]
  BY DEF TypeOK
<1>6. Idle \in Events /\ Idle.pc \notin Upserting
  BY NewEvents DEF Upserting
<1> HIDE DEF h
<1>7. CASE Transform(p, k)
  <2> DEFINE merged == AddAdditionalProperties(h.props, cache[p][c])
             event == [pc |-> "check", cluster |-> c, props |-> merged.props,
                       loaded |-> merged.loaded \ {k}]
  <2>1. h.pc = "ready" /\ cache[p][c] \in Entry \cup {None}
    BY <1>2, <1>4, <1>7 DEF Transform, At, h
  <2>2. merged.props \in Props /\ merged.loaded \subseteq Kinds
    BY <1>4, <2>1, MergedProps
  <2>3. event \in Events
    BY <1>4, <2>1, <2>2, NewEvents DEF Plain
  <2>4. /\ handler' = [handler EXCEPT ![p][k] = event] /\ ~Locked(p)
        /\ UNCHANGED <<kube, request, node, rows, lead, seen, cache, failures>>
    BY <1>7 DEF Transform, Handle, h
  <2> HIDE DEF event
  <2> QED BY <1>1, <1>2, <2>3, <2>4 DEF kube, lead
<1>8. CASE SkipCancelled(p, k) \/ Cancelled(p, k)
  BY <1>1, <1>2, <1>6, <1>8 DEF SkipCancelled, Cancelled, Handle, kube, lead
<1>9. CASE CheckCached(p, k)
  <2> DEFINE event == IF UpToDate(p, k) THEN Idle ELSE [h EXCEPT !.pc = "exec"]
  <2>1. h.pc = "check" /\ event \in Events
    BY <1>4, <1>6, <1>9 DEF CheckCached, At, h, Plain
  <2>2. /\ handler' = [handler EXCEPT ![p][k] = event]
        /\ UNCHANGED <<kube, request, node, rows, lead, seen, cache, failures>>
    BY <1>9 DEF CheckCached, h
  <2> HIDE DEF event
  <2> QED BY <1>1, <1>2, <2>1, <2>2 DEF kube, lead, Upserting
<1>10. CASE CheckDatabase(p, k)
  <2>1. h.pc = "check"
    BY <1>10 DEF CheckDatabase, At, h
  <2>2. PICK event : /\ handler' = [handler EXCEPT ![p][k] = event]
                     /\ \/ /\ node[c] # None
                           /\ event = [pc |-> "load", cluster |-> c, props |-> h.props,
                                       loaded |-> h.loaded, found |-> node[c]]
                        \/ event = [h EXCEPT !.pc = "exec"]
    BY <1>10 DEF CheckDatabase, Handle, h
  <2>3. event \in Events
    <3>1. c \in Clusters /\ h.props \in Props /\ h.loaded \in SUBSET Kinds
      BY <1>4, <2>1 DEF Upserting
    <3>2. CASE event = [h EXCEPT !.pc = "exec"]
      BY <1>4, <2>1, <3>2 DEF Plain
    <3>3. CASE node[c] # None /\ event = [pc |-> "load", cluster |-> c, props |-> h.props,
                                          loaded |-> h.loaded, found |-> node[c]]
      <4>1. node[c] \in Props
        BY <1>2, <3>1, <3>3
      <4> QED BY <3>1, <3>3, <4>1, NewEvents
    <3> QED BY <2>2, <3>2, <3>3
  <2>4. /\ UNCHANGED <<kube, request, node, rows, lead, seen, cache>>
        /\ failures' \in 0 .. MaxFailures
    BY <1>2, <1>3, <1>10 DEF CheckDatabase
  <2> QED BY <1>1, <1>2, <2>1, <2>2, <2>3, <2>4 DEF kube, lead, Upserting
<1>17. CASE LoadClustersCache(p, k)
  <2> DEFINE event == [pc |-> "exec", cluster |-> c, props |-> h.props,
                       loaded |-> h.loaded]
             entry == Load(h.found)
  <2>1. h.pc = "load" /\ c \in Clusters /\ event \in Events /\ entry \in Entry
    BY <1>4, <1>17, NewEvents DEF LoadClustersCache, At, h, Upserting, Plain, Load, Entry
  <2>2. /\ handler' = [handler EXCEPT ![p][k] = event]
        /\ cache' = [cache EXCEPT ![p][c] = entry]
        /\ UNCHANGED <<kube, request, node, rows, lead, seen, failures>>
    BY <1>17 DEF LoadClustersCache, Handle, h
  <2> HIDE DEF event, entry
  <2>3. cache' \in [Pods -> [Clusters -> Entry \cup {None}]]
    BY <1>2, <2>1, <2>2
  <2> QED BY <1>1, <1>2, <2>1, <2>2, <2>3 DEF kube, lead, Upserting
<1>11. CASE Exec(p, k)
  <2> DEFINE event == [h EXCEPT !.pc = "cache"]
  <2>1. h.pc = "exec" /\ event \in Events /\ c \in Clusters /\ h.props \in Props
    BY <1>4, <1>11 DEF Exec, At, h, Upserting, Plain
  <2>2. /\ handler' = [handler EXCEPT ![p][k] = event]
        /\ node' = [node EXCEPT ![c] = h.props]
        /\ UNCHANGED <<kube, request, rows, lead, seen, cache, failures>>
    BY <1>5, <1>11 DEF Exec, Write, h
  <2>3. node' \in [Clusters -> Props \cup {None}]
    BY <1>2, <2>1, <2>2
  <2> HIDE DEF event
  <2> QED BY <1>1, <1>2, <2>1, <2>2, <2>3 DEF kube, lead, Upserting
<1>12. CASE ExecFails(p, k)
  <2>1. h.pc = "exec" /\ c \in Clusters /\ h.props \in Props
    BY <1>4, <1>12 DEF ExecFails, At, h, Upserting
  <2>2. /\ handler' = [handler EXCEPT ![p][k] = Idle]
        /\ node' = node \/ node' = [node EXCEPT ![c] = h.props]
        /\ UNCHANGED <<kube, request, rows, lead, seen, cache>>
        /\ failures' \in 0 .. MaxFailures
    BY <1>3, <1>12 DEF ExecFails, Write, Handle, h
  <2>3. node' \in [Clusters -> Props \cup {None}]
    BY <1>2, <2>1, <2>2
  <2> QED BY <1>1, <1>2, <1>6, <2>2, <2>3 DEF kube, lead
<1>13. CASE UpdateClustersCache(p, k)
  <2> DEFINE entry == [props |-> h.props, loaded |-> h.loaded]
  <2>1. c \in Clusters /\ entry \in Entry
    BY <1>4, <1>13 DEF UpdateClustersCache, At, h, Upserting, Entry
  <2>2. /\ handler' = [handler EXCEPT ![p][k] = Idle]
        /\ cache' = [cache EXCEPT ![p][c] = entry]
        /\ UNCHANGED <<kube, request, node, rows, lead, seen, failures>>
    BY <1>13 DEF UpdateClustersCache, Handle, h
  <2>3. cache' \in [Pods -> [Clusters -> Entry \cup {None}]]
    BY <1>2, <2>1, <2>2
  <2> HIDE DEF entry
  <2> QED BY <1>1, <1>2, <1>6, <2>2, <2>3 DEF kube, lead
<1>14. CASE DeleteRows(p, k)
  <2> DEFINE event == IF k = "ManagedCluster" THEN [h EXCEPT !.pc = "node"] ELSE Idle
  <2>1. h.pc = "rows" /\ event \in Events /\ event.pc \notin Upserting
    BY <1>4, <1>6, <1>14 DEF DeleteRows, At, h, Upserting, Events
  <2>2. /\ handler' = [handler EXCEPT ![p][k] = event]
        /\ rows' \subseteq rows
        /\ UNCHANGED <<kube, request, node, lead, seen, cache, failures>>
    BY <1>14 DEF DeleteRows, Handle, h
  <2> HIDE DEF event
  <2> QED BY <1>1, <1>2, <2>1, <2>2 DEF kube, lead
<1>15. CASE DeleteNode(p, k)
  <2> DEFINE event == [h EXCEPT !.pc = "uncache"]
  <2>1. h.pc = "node" /\ event \in Events /\ event.pc \notin Upserting /\ c \in Clusters
    BY <1>0, <1>4, <1>15 DEF DeleteNode, At, h, Upserting, Events
  <2>2. /\ handler' = [handler EXCEPT ![p][k] = event]
        /\ node' = [node EXCEPT ![c] = None]
        /\ UNCHANGED <<kube, request, rows, lead, seen, cache, failures>>
    BY <1>15 DEF DeleteNode, Handle, h
  <2>3. node' \in [Clusters -> Props \cup {None}]
    BY <1>2, <2>1, <2>2
  <2> HIDE DEF event
  <2> QED BY <1>1, <1>2, <2>1, <2>2, <2>3 DEF kube, lead
<1>16. CASE DeleteClustersCache(p, k)
  <2>1. c \in Clusters
    BY <1>4, <1>16 DEF DeleteClustersCache, At, h
  <2>2. /\ handler' = [handler EXCEPT ![p][k] = Idle]
        /\ cache' = [cache EXCEPT ![p][c] = None]
        /\ UNCHANGED <<kube, request, node, rows, lead, seen, failures>>
    BY <1>16 DEF DeleteClustersCache, Handle, h
  <2>3. cache' \in [Pods -> [Clusters -> Entry \cup {None}]]
    BY <1>2, <2>1, <2>2
  <2> QED BY <1>1, <1>2, <1>6, <2>2, <2>3 DEF kube, lead
<1> QED BY <1>7, <1>8, <1>9, <1>10, <1>11, <1>12, <1>13, <1>14, <1>15, <1>16, <1>17
       DEF Handler

LEMMA NextKeepsTypeOK == TypeOK /\ [Next]_vars => TypeOK'
<1> SUFFICES ASSUME TypeOK, [Next]_vars PROVE TypeOK'
  OBVIOUS
<1>1. ASSUME NEW p \in Pods, Restart(p) PROVE TypeOK'
  <2>1. failures' \in 0 .. MaxFailures
    BY <1>1, ClusterNodeAssumption DEF Restart, FailureOf, TypeOK
  <2> QED BY <1>1, <2>1, DieKeepsTypeOK DEF Restart
<1>2. ASSUME NEW p \in Pods, NEW k \in Kinds, NEW c \in Clusters, Tombstone(p, k, c)
      PROVE  TypeOK'
  <2>1. failures' \in 0 .. MaxFailures
    BY <1>2, ClusterNodeAssumption DEF Tombstone, FailureOf, TypeOK
  <2> QED BY <1>2, <2>1, DieKeepsTypeOK DEF Tombstone
<1>3. CASE UNCHANGED vars
  BY <1>3 DEF vars, kube, lead, TypeOK
<1> QED BY <1>1, <1>2, <1>3, TermKeepsTypeOK, EnvironmentKeepsTypeOK,
           DeliverKeepsTypeOK, HandlerKeepsTypeOK DEF Next

(* Every variable keeps its type, and the lock of each pod lets one upsert *)
(* through at a time.                                                      *)
THEOREM TypeCorrect == Spec => []TypeOK
BY InitTypeOK, NextKeepsTypeOK, PTL DEF Spec
------------------------------------------------------------------------------
(* The cache of the only pod that has handled events.                      *)

LEMMA InitCacheInv == Init => CacheInv
BY DEF Init, CacheInv, Agrees, Caching, Loading, At, Idle

(* Steps that do not touch the handlers, the nodes or the cache.           *)
LEMMA OtherStepsKeepCacheInv ==
    ASSUME CacheInv, UNCHANGED <<handler, node, cache, leader, terms>>
    PROVE  CacheInv'
<1>1. \A p \in Pods : Sole(p)' = Sole(p) /\ Agrees(p)' = Agrees(p)
  BY DEF Sole, Agrees, Caching, Loading, At
<1> QED BY <1>1 DEF CacheInv

LEMMA StartLeadingKeepsCacheInv ==
    ASSUME TypeOK, CacheInv, NEW p \in Pods, StartLeading(p)
    PROVE  CacheInv'
<1>1. /\ terms' = terms + 1 /\ leader' = p /\ terms \in Nat
      /\ UNCHANGED <<node, handler, cache>>
  BY ClusterNodeAssumption DEF StartLeading, TypeOK
<1>2. ASSUME NEW q \in Pods, Sole(q)'
      PROVE  /\ \A r \in Pods \ {q} : \A k \in Kinds : handler'[r][k] = Idle
             /\ Agrees(q)'
  <2>1. CASE Pods = {q}
    BY <1>1, <2>1 DEF CacheInv, Sole, Agrees, Caching, Loading, At
  <2>2. CASE Pods # {q}
    <3>1. terms = 0
      BY <1>1, <1>2, <2>2 DEF Sole
    <3> QED BY <1>1, <3>1 DEF CacheInv, Agrees, Caching, Loading, At, Idle
  <2> QED BY <2>1, <2>2
<1> QED BY <1>1, <1>2 DEF CacheInv

LEMMA StopLeadingKeepsCacheInv ==
    ASSUME TypeOK, CacheInv, StopLeading
    PROVE  CacheInv'
<1>1. /\ leader # None /\ leader' = None
      /\ UNCHANGED <<node, handler, cache, terms>>
  BY DEF StopLeading
<1>2. ASSUME NEW p \in Pods, Sole(p)'
      PROVE  Sole(p) /\ Agrees(p)' = Agrees(p)
  BY <1>1, <1>2, ClusterNodeAssumption DEF Sole, Agrees, Caching, Loading, At
<1> QED BY <1>1, <1>2 DEF CacheInv

LEMMA DieKeepsCacheInv ==
    ASSUME TypeOK, CacheInv, NEW p \in Pods, Die(p)
    PROVE  CacheInv'
<1>1. /\ \A q \in Pods : handler'[q] = IF q = p THEN [k \in Kinds |-> Idle] ELSE handler[q]
      /\ \A q \in Pods : cache'[q] = IF q = p THEN [c \in Clusters |-> None] ELSE cache[q]
      /\ leader' = IF leader = p THEN None ELSE leader
      /\ UNCHANGED <<node, terms>>
  BY DEF Die, TypeOK
<1>2. ASSUME NEW q \in Pods, Sole(q)'
      PROVE  /\ \A r \in Pods \ {q} : \A k \in Kinds : handler'[r][k] = Idle
             /\ Agrees(q)'
  <2>1. CASE Pods = {q}
    <3>1. q = p
      BY <2>1
    <3> QED BY <1>1, <2>1, <3>1 DEF Agrees, Caching, Loading, At, Idle
  <2>2. CASE Pods # {q}
    <3>1. q # p /\ Sole(q)
      BY <1>1, <1>2, <2>2, ClusterNodeAssumption DEF Sole
    <3>2. Agrees(q)' = Agrees(q)
      BY <1>1, <3>1 DEF Agrees, Caching, Loading, At
    <3> QED BY <1>1, <3>1, <3>2 DEF CacheInv
  <2> QED BY <2>1, <2>2
<1> QED BY <1>1, <1>2 DEF CacheInv

(* A handler of pod p goes on, or an event is delivered to it: then no     *)
(* other pod is the only one.                                              *)
LEMMA HandlerStep ==
    ASSUME TypeOK, CacheInv, NEW p \in Pods, NEW k \in Kinds, NEW event \in Events,
           handler' = [handler EXCEPT ![p][k] = event],
           handler[p][k].pc # "idle" \/ leader = p,
           UNCHANGED <<leader, terms>>,
           Agrees(p) => Agrees(p)'
    PROVE  CacheInv'
<1>1. handler[p][k].pc # "idle" => handler[p][k] # Idle
  BY DEF Idle
<1>2. terms # 0
  BY <1>1, ClusterNodeAssumption DEF CacheInv
<1>3. ASSUME NEW q \in Pods, Sole(q) PROVE q = p
  BY <1>1, <1>3, ClusterNodeAssumption DEF CacheInv, Sole
<1>4. \A q \in Pods : Sole(q)' = Sole(q)
  BY DEF Sole
<1>5. \A q \in Pods \ {p} : handler'[q] = handler[q]
  BY DEF TypeOK
<1> QED BY <1>2, <1>3, <1>4, <1>5 DEF CacheInv

LEMMA HandlerKeepsCacheInv ==
    ASSUME "commit" \notin Faults, TypeOK, CacheInv, NEW p \in Pods, NEW k \in Kinds,
           Handler(p, k) \/ ExecFails(p, k)
    PROVE  CacheInv'
<1> DEFINE h == handler[p][k]
           c == h.cluster
<1>0. h \in Events /\ handler \in [Pods -> [Kinds -> Events]]
      /\ node \in [Clusters -> Props \cup {None}]
      /\ cache \in [Pods -> [Clusters -> Entry \cup {None}]]
  BY DEF TypeOK
<1>1. ASSUME NEW event \in Events, handler' = [handler EXCEPT ![p][k] = event],
             UNCHANGED <<leader, terms>>,
             h.pc # "idle", Agrees(p) => Agrees(p)'
      PROVE  CacheInv'
  BY <1>1, HandlerStep
<1>2. ASSUME NEW event \in Events, handler' = [handler EXCEPT ![p][k] = event]
      PROVE  /\ handler'[p][k] = event
             /\ \A l \in Kinds \ {k} : handler'[p][l] = handler[p][l]
  BY <1>0, <1>2
<1>3. /\ h.pc \in {"ready"} \cup Upserting =>
           c \in Clusters /\ h.props \in Props /\ h.loaded \subseteq Kinds
      /\ h.pc \in Plain => \A pc \in Plain : [h EXCEPT !.pc = pc] \in Events
      /\ h.pc = "load" => h.found \in Props
      /\ h.pc \in {"rows", "node", "uncache"} =>
           /\ c \in Clusters
           /\ \A pc \in {"node", "uncache"} : [h EXCEPT !.pc = pc] \in Events
  BY <1>0, EventFacts
<1>4. h.pc \in Upserting => \A l \in Kinds \ {k} : handler[p][l].pc \notin Upserting
  BY DEF TypeOK, Upserting
<1>5. Idle \in Events /\ Idle.pc = "idle"
  BY NewEvents
<1> HIDE DEF h
<1>6. ASSUME NEW event \in Events, handler' = [handler EXCEPT ![p][k] = event],
             UNCHANGED <<leader, terms, node, cache>>,
             h.pc \notin {"idle", "load", "cache"}, event.pc \notin {"load", "cache"}
      PROVE  CacheInv'
  <2>1. \A l \in Kinds, d \in Clusters :
          /\ Caching(p, l, d)' = Caching(p, l, d) /\ Loading(p, l, d)' = Loading(p, l, d)
          /\ Caching(p, l, d) \/ Loading(p, l, d) => handler'[p][l] = handler[p][l]
    BY <1>2, <1>6 DEF Caching, Loading, At, h
  <2>2. Agrees(p) => Agrees(p)'
    BY <1>6, <2>1 DEF Agrees
  <2> QED BY <1>1, <1>6, <2>2
<1>7. CASE Transform(p, k)
  <2> DEFINE merged == AddAdditionalProperties(h.props, cache[p][c])
             event == [pc |-> "check", cluster |-> c, props |-> merged.props,
                       loaded |-> merged.loaded \ {k}]
  <2>1. h.pc = "ready" /\ cache[p][c] \in Entry \cup {None}
    BY <1>0, <1>3, <1>7 DEF Transform, At, h
  <2>2. merged.props \in Props /\ merged.loaded \subseteq Kinds
    BY <1>3, <2>1, MergedProps
  <2>3. event \in Events /\ event.pc = "check"
    BY <1>3, <2>1, <2>2, NewEvents DEF Plain
  <2>4. /\ handler' = [handler EXCEPT ![p][k] = event]
        /\ UNCHANGED <<leader, terms, node, cache>>
    BY <1>7 DEF Transform, Handle, h, lead
  <2> HIDE DEF event
  <2> QED BY <1>6, <2>1, <2>3, <2>4
<1>8. CASE SkipCancelled(p, k) \/ Cancelled(p, k)
  <2>1. /\ h.pc \in {"check", "exec", "rows", "node"}
        /\ handler' = [handler EXCEPT ![p][k] = Idle]
        /\ UNCHANGED <<leader, terms, node, cache>>
    BY <1>8 DEF SkipCancelled, Cancelled, Handle, At, h, lead
  <2> QED BY <1>5, <1>6, <2>1
<1>9. CASE CheckCached(p, k)
  <2> DEFINE event == IF UpToDate(p, k) THEN Idle ELSE [h EXCEPT !.pc = "exec"]
  <2>1. h.pc = "check" /\ event \in Events /\ event.pc \in {"idle", "exec"}
    BY <1>0, <1>3, <1>5, <1>9 DEF CheckCached, At, h, Plain, Events
  <2>2. /\ handler' = [handler EXCEPT ![p][k] = event]
        /\ UNCHANGED <<leader, terms, node, cache>>
    BY <1>9 DEF CheckCached, h, lead
  <2> HIDE DEF event
  <2> QED BY <1>6, <2>1, <2>2
<1>10. CASE DeleteRows(p, k)
  <2> DEFINE event == IF k = "ManagedCluster" THEN [h EXCEPT !.pc = "node"] ELSE Idle
  <2>1. h.pc = "rows" /\ event \in Events /\ event.pc \in {"idle", "node"}
    BY <1>0, <1>3, <1>5, <1>10 DEF DeleteRows, At, h, Events
  <2>2. /\ handler' = [handler EXCEPT ![p][k] = event]
        /\ UNCHANGED <<leader, terms, node, cache>>
    BY <1>10 DEF DeleteRows, Handle, h, lead
  <2> HIDE DEF event
  <2> QED BY <1>6, <2>1, <2>2
<1>11. CASE ExecFails(p, k)
  <2>1. /\ h.pc = "exec"
        /\ handler' = [handler EXCEPT ![p][k] = Idle]
        /\ UNCHANGED <<leader, terms, node, cache>>
    BY <1>11 DEF ExecFails, FailureOf, Handle, At, h, lead
  <2> QED BY <1>5, <1>6, <2>1
<1>12. CASE CheckDatabase(p, k)
  <2> DEFINE read == [pc |-> "load", cluster |-> c, props |-> h.props,
                      loaded |-> h.loaded, found |-> node[c]]
             event == [h EXCEPT !.pc = "exec"]
  <2>1. h.pc = "check" /\ c \in Clusters
        /\ UNCHANGED <<leader, terms, node, cache>>
        /\ \/ node[c] # None /\ handler' = [handler EXCEPT ![p][k] = read]
           \/ handler' = [handler EXCEPT ![p][k] = event]
    BY <1>3, <1>12 DEF CheckDatabase, Handle, At, h, lead, Upserting
  <2>2. CASE handler' = [handler EXCEPT ![p][k] = event]
    <3>1. event \in Events
      BY <1>3, <2>1 DEF Plain
    <3>2. event.pc = "exec"
      BY <1>0, <2>1 DEF Events, Idle
    <3> HIDE DEF event
    <3> QED BY <1>6, <2>1, <2>2, <3>1, <3>2
  <2>3. CASE node[c] # None /\ handler' = [handler EXCEPT ![p][k] = read]
    <3>1. read \in Events
      BY <1>0, <1>3, <2>1, <2>3, NewEvents DEF Upserting
    <3>2. read.pc = "load" /\ read.cluster = c /\ read.found = node[c]
      OBVIOUS
    <3> HIDE DEF read
    <3>3. \A l \in Kinds, d \in Clusters :
            /\ Caching(p, l, d)' = Caching(p, l, d)
            /\ Caching(p, l, d) => handler'[p][l] = handler[p][l]
            /\ Loading(p, l, d)' => \/ l = k /\ d = c
                                    \/ Loading(p, l, d) /\ handler'[p][l] = handler[p][l]
      BY <1>2, <2>1, <2>3, <3>1, <3>2 DEF Caching, Loading, At, h
    <3>4. handler'[p][k] = read
      BY <1>2, <2>3, <3>1
    <3>5. Agrees(p) => Agrees(p)'
      BY <2>1, <3>2, <3>3, <3>4 DEF Agrees
    <3> QED BY <1>1, <2>1, <2>3, <3>1, <3>5
  <2> QED BY <2>1, <2>2, <2>3
<1>17. CASE LoadClustersCache(p, k)
  <2> DEFINE event == [pc |-> "exec", cluster |-> c, props |-> h.props,
                       loaded |-> h.loaded]
             entry == Load(h.found)
  <2>1. h.pc = "load" /\ c \in Clusters /\ event \in Events
    BY <1>3, <1>17, NewEvents DEF LoadClustersCache, At, h, Upserting, Plain
  <2>2. /\ handler' = [handler EXCEPT ![p][k] = event]
        /\ cache' = [cache EXCEPT ![p][c] = entry]
        /\ UNCHANGED <<leader, terms, node>>
    BY <1>17 DEF LoadClustersCache, Handle, h, lead
  <2>3. event.pc = "exec" /\ entry.props = h.found
    BY DEF Load
  <2> HIDE DEF event, entry
  <2>4. \A l \in Kinds, d \in Clusters :
          /\ Caching(p, l, d)' = Caching(p, l, d)
          /\ Caching(p, l, d) => handler'[p][l] = handler[p][l]
          /\ Loading(p, l, d) <=> l = k /\ d = c
          /\ ~Loading(p, l, d)'
    BY <1>2, <1>4, <2>1, <2>2, <2>3 DEF Caching, Loading, At, h, Upserting
  <2>5. /\ cache'[p][c].props = h.found
        /\ \A d \in Clusters \ {c} : cache'[p][d] = cache[p][d]
    BY <1>0, <2>1, <2>2, <2>3
  <2>6. Agrees(p) => Agrees(p)'
    BY <2>1, <2>2, <2>4, <2>5 DEF Agrees, h
  <2> QED BY <1>1, <2>1, <2>2, <2>6
<1>13. CASE Exec(p, k)
  <2> DEFINE event == [h EXCEPT !.pc = "cache"]
  <2>1. h.pc = "exec" /\ event \in Events /\ c \in Clusters
        /\ event.cluster = c /\ event.props = h.props /\ event.pc = "cache"
    BY <1>0, <1>3, <1>13 DEF Exec, At, h, Upserting, Plain, Events, Idle
  <2>2. /\ handler' = [handler EXCEPT ![p][k] = event]
        /\ node' = [node EXCEPT ![c] = h.props]
        /\ UNCHANGED <<leader, terms, cache>>
    BY <1>0, <1>13 DEF Exec, Write, h, lead
  <2> HIDE DEF event
  <2>3. \A l \in Kinds, d \in Clusters :
          /\ ~Caching(p, l, d) /\ ~Loading(p, l, d)'
          /\ Caching(p, l, d)' <=> l = k /\ d = c
    BY <1>2, <1>4, <2>1, <2>2 DEF Caching, Loading, At, h, Upserting
  <2>4. /\ node'[c] = h.props /\ handler'[p][k].props = h.props
        /\ \A d \in Clusters \ {c} : node'[d] = node[d]
    BY <1>0, <1>2, <2>1, <2>2
  <2>5. Agrees(p) => Agrees(p)'
    BY <2>2, <2>3, <2>4 DEF Agrees
  <2> QED BY <1>1, <2>1, <2>2, <2>5
<1>14. CASE UpdateClustersCache(p, k)
  <2> DEFINE entry == [props |-> h.props, loaded |-> h.loaded]
  <2>1. h.pc = "cache" /\ c \in Clusters
    BY <1>3, <1>14 DEF UpdateClustersCache, At, h, Upserting
  <2>2. /\ handler' = [handler EXCEPT ![p][k] = Idle]
        /\ cache' = [cache EXCEPT ![p][c] = entry]
        /\ UNCHANGED <<leader, terms, node>>
    BY <1>14 DEF UpdateClustersCache, Handle, h, lead
  <2>3. \A l \in Kinds, d \in Clusters :
          /\ Caching(p, l, d) <=> l = k /\ d = c
          /\ ~Caching(p, l, d)' /\ ~Loading(p, l, d)'
    BY <1>2, <1>4, <1>5, <2>1, <2>2 DEF Caching, Loading, At, h, Upserting
  <2>4. /\ cache'[p][c].props = h.props
        /\ \A d \in Clusters \ {c} : cache'[p][d] = cache[p][d]
    BY <1>0, <2>1, <2>2
  <2>5. Agrees(p) => Agrees(p)'
    BY <2>1, <2>2, <2>3, <2>4 DEF Agrees, h
  <2> QED BY <1>1, <1>5, <2>1, <2>2, <2>5
<1>15. CASE DeleteNode(p, k)
  <2> DEFINE event == [h EXCEPT !.pc = "uncache"]
  <2>1. h.pc = "node" /\ event \in Events /\ c \in Clusters /\ event.pc = "uncache"
    BY <1>0, <1>3, <1>15 DEF DeleteNode, At, h, Events
  <2>2. /\ handler' = [handler EXCEPT ![p][k] = event]
        /\ node' = [node EXCEPT ![c] = None]
        /\ UNCHANGED <<leader, terms, cache>>
    BY <1>15 DEF DeleteNode, Handle, h, lead
  <2> HIDE DEF event
  <2>3. \A l \in Kinds, d \in Clusters :
          /\ Caching(p, l, d)' = Caching(p, l, d) /\ Loading(p, l, d)' = Loading(p, l, d)
          /\ Caching(p, l, d) \/ Loading(p, l, d) => handler'[p][l] = handler[p][l]
    BY <1>2, <2>1, <2>2 DEF Caching, Loading, At, h
  <2>4. \A d \in Clusters : node'[d] = node[d] \/ node'[d] = None
    BY <1>0, <2>2
  <2>5. Agrees(p) => Agrees(p)'
    BY <2>2, <2>3, <2>4 DEF Agrees
  <2> QED BY <1>1, <2>1, <2>2, <2>5
<1>16. CASE DeleteClustersCache(p, k)
  <2>1. h.pc = "uncache" /\ c \in Clusters
    BY <1>3, <1>16 DEF DeleteClustersCache, At, h
  <2>2. /\ handler' = [handler EXCEPT ![p][k] = Idle]
        /\ cache' = [cache EXCEPT ![p][c] = None]
        /\ UNCHANGED <<leader, terms, node>>
    BY <1>16 DEF DeleteClustersCache, Handle, h, lead
  <2>3. \A l \in Kinds, d \in Clusters :
          /\ Caching(p, l, d)' = Caching(p, l, d) /\ Loading(p, l, d)' = Loading(p, l, d)
          /\ Caching(p, l, d) \/ Loading(p, l, d) => handler'[p][l] = handler[p][l]
    BY <1>2, <1>5, <2>1, <2>2 DEF Caching, Loading, At, h
  <2>4. \A d \in Clusters : cache'[p][d] = cache[p][d] \/ cache'[p][d] = None
    BY <1>0, <2>2
  <2>5. Agrees(p) => Agrees(p)'
    BY <2>2, <2>3, <2>4 DEF Agrees
  <2> QED BY <1>1, <1>5, <2>1, <2>2, <2>5
<1> QED BY <1>7, <1>8, <1>9, <1>10, <1>11, <1>12, <1>13, <1>14, <1>15, <1>16, <1>17
       DEF Handler

LEMMA DeliverKeepsCacheInv ==
    ASSUME TypeOK, CacheInv, NEW p \in Pods, NEW k \in Kinds, NEW c \in Clusters,
           Deliver(p, k, c)
    PROVE  CacheInv'
<1>1. /\ leader = p /\ handler[p][k] = Idle
      /\ UNCHANGED <<leader, terms, node, cache>>
  BY DEF Deliver, lead
<1>2. CASE UNCHANGED handler
  BY <1>1, <1>2, OtherStepsKeepCacheInv
<1>3. ASSUME NEW event \in Events, handler' = [handler EXCEPT ![p][k] = event],
             event.pc \notin {"load", "cache"}
      PROVE  CacheInv'
  <2>1. /\ handler'[p][k] = event
        /\ \A l \in Kinds \ {k} : handler'[p][l] = handler[p][l]
    BY <1>3 DEF TypeOK
  <2>2. \A l \in Kinds, d \in Clusters :
          /\ Caching(p, l, d)' = Caching(p, l, d) /\ Loading(p, l, d)' = Loading(p, l, d)
          /\ Caching(p, l, d) \/ Loading(p, l, d) => handler'[p][l] = handler[p][l]
    BY <1>1, <1>3, <2>1 DEF Caching, Loading, At, Idle
  <2>3. Agrees(p) => Agrees(p)'
    BY <1>1, <2>2 DEF Agrees
  <2> QED BY <1>1, <1>3, <2>3, HandlerStep
<1>4. CASE ~UNCHANGED handler
  <2>1. \/ /\ object[k][c] # None /\ k # "ManagedClusterAddOn"
           /\ handler' = [handler EXCEPT ![p][k] =
                [pc |-> "ready", cluster |-> c, props |-> object[k][c], loaded |-> {}]]
        \/ handler' = [handler EXCEPT ![p][k] = [pc |-> "rows", cluster |-> c]]
    BY <1>4 DEF Deliver, Handle
  <2>2. object[k][c] # None /\ k # "ManagedClusterAddOn" => object[k][c] \in Props
    BY DEF TypeOK, Kinds, Objects
  <2> QED BY <1>3, <2>1, <2>2, NewEvents
<1> QED BY <1>2, <1>4

LEMMA NextKeepsCacheInv ==
    ASSUME "commit" \notin Faults, TypeOK, CacheInv, [Next]_vars
    PROVE  CacheInv'
<1>1. CASE ListClusters \/ GetManagedClusters \/ CleanupDone \/ CleanupFails
             \/ \E c \in Clusters : DeleteStale(c)
  BY <1>1, OtherStepsKeepCacheInv
     DEF ListClusters, GetManagedClusters, CleanupDone, CleanupFails, DeleteStale, Cleanup
<1>2. ASSUME NEW c \in Clusters, Environment(c) PROVE CacheInv'
  BY <1>2, OtherStepsKeepCacheInv
     DEF Environment, ChangeManagedCluster, ChangeManagedClusterInfo, ChangeAddOn, Set,
         StartRequest, RequestWrites, RequestEnds, lead
<1>3. CASE UNCHANGED vars
  BY <1>3, OtherStepsKeepCacheInv DEF vars, lead
<1>4. ASSUME NEW p \in Pods, NEW k \in Kinds, NEW c \in Clusters,
             Restart(p) \/ Tombstone(p, k, c)
      PROVE  CacheInv'
  BY <1>4, DieKeepsCacheInv DEF Restart, Tombstone
<1>5. ASSUME NEW p \in Pods, Restart(p) PROVE CacheInv'
  BY <1>5, DieKeepsCacheInv DEF Restart
<1> QED BY <1>1, <1>2, <1>3, <1>4, <1>5, StartLeadingKeepsCacheInv,
           StopLeadingKeepsCacheInv, HandlerKeepsCacheInv, DeliverKeepsCacheInv
        DEF Next, Term

(* An upsert under way of the only pod that has handled events still finds *)
(* its properties in the node, and the cache, once no upsert is about to   *)
(* change it, holds what the node does.                                    *)
THEOREM CacheInvariance ==
    ASSUME "commit" \notin Faults
    PROVE  Spec => [](TypeOK /\ CacheInv)
<1>1. Init => TypeOK /\ CacheInv
  BY InitTypeOK, InitCacheInv
<1>2. TypeOK /\ CacheInv /\ [Next]_vars => (TypeOK /\ CacheInv)'
  BY NextKeepsTypeOK, NextKeepsCacheInv
<1> QED BY <1>1, <1>2, PTL DEF Spec

LEMMA SoleAgrees ==
    ASSUME CacheInv, \A p \in Pods : leader = p => Sole(p)
    PROVE  CacheAgrees
BY DEF CacheInv, CacheAgrees, Agrees, Caching

(* In the first term the cache of the leader agrees with the nodes,        *)
(* although upserts and deletes of a cluster overlap.                      *)
THEOREM FirstLeaderAgrees ==
    ASSUME "commit" \notin Faults
    PROVE  Spec => [](terms <= 1 => CacheAgrees)
<1>1. CacheInv => (terms <= 1 => CacheAgrees)
  BY SoleAgrees DEF Sole
<1> QED BY <1>1, CacheInvariance, PTL

(* With one pod it does in every term, also after restarts and when a      *)
(* statement of the term before takes effect late.                         *)
THEOREM OnlyPodAgrees ==
    ASSUME "commit" \notin Faults, NEW pod, Pods = {pod}
    PROVE  Spec => []CacheAgrees
<1>1. CacheInv => CacheAgrees
  BY SoleAgrees DEF Sole
<1> QED BY <1>1, CacheInvariance, PTL

------------------------------------------------------------------------------
(* What a step of a handler does to its event, to the node of its cluster  *)
(* and to the entry of the cache.                                          *)
Effect(p, k) ==
    LET h == handler[p][k]
        g == handler'[p][k]
        c == h.cluster
        merged == AddAdditionalProperties(h.props, cache[p][c])
        Becomes(pc) == g.pc = pc /\ g.cluster = c
    IN  \/ /\ h.pc = "ready" /\ ~Locked(p)
           /\ Becomes("check") /\ g.props = merged.props
           /\ UNCHANGED <<node, cache>>
        \/ /\ h.pc = "check"
           /\ \/ Becomes("exec")
              \/ Becomes("load") /\ node[c] # None /\ g.found = node[c]
           /\ g.props = h.props
           /\ UNCHANGED <<node, cache>>
        \/ /\ h.pc = "load"
           /\ Becomes("exec") /\ g.props = h.props
           /\ node' = node /\ cache'[p][c] # None /\ cache'[p][c].props = h.found
        \/ /\ h.pc = "exec"
           /\ \/ Becomes("cache") /\ g.props = h.props
              \/ g = Idle /\ "commit" \in Faults
           /\ node'[c] = h.props /\ cache' = cache
        \/ /\ h.pc = "cache" /\ g = Idle
           /\ node' = node /\ cache'[p][c] # None /\ cache'[p][c].props = h.props
        \/ /\ h.pc = "rows" /\ Becomes("node") /\ k = "ManagedCluster"
           /\ UNCHANGED <<node, cache>>
        \/ /\ h.pc = "node" /\ Becomes("uncache")
           /\ node'[c] = None /\ cache' = cache
        \/ /\ h.pc = "uncache" /\ g = Idle
           /\ node' = node /\ cache'[p][c] = None
        \/ /\ h.pc \in {"check", "exec", "rows", "node"} /\ g = Idle
           /\ UNCHANGED <<node, cache>>

Frame(p, k) ==
    LET c == handler[p][k].cluster
    IN  /\ c \in Clusters
        /\ handler[p][k].pc # "idle"
        /\ UNCHANGED <<object, changes, leader, terms>>
        /\ \A q \in Pods, l \in Kinds :
             q # p \/ l # k => handler'[q][l] = handler[q][l]
        /\ \A q \in Pods, d \in Clusters :
             q # p \/ d # c => cache'[q][d] = cache[q][d]
        /\ \A d \in Clusters \ {c} : node'[d] = node[d]

LEMMA HandlerEffect ==
    ASSUME TypeOK, NEW p \in Pods, NEW k \in Kinds, Handler(p, k) \/ ExecFails(p, k)
    PROVE  Frame(p, k) /\ Effect(p, k)
<1> DEFINE h == handler[p][k]
           c == h.cluster
<1>0. h \in Events /\ handler \in [Pods -> [Kinds -> Events]]
      /\ node \in [Clusters -> Props \cup {None}]
      /\ cache \in [Pods -> [Clusters -> Entry \cup {None}]]
  BY DEF TypeOK
<1>1. /\ h.pc \in {"ready"} \cup Upserting =>
           c \in Clusters /\ h.props \in Props /\ h.loaded \subseteq Kinds
      /\ h.pc = "load" => h.found \in Props
      /\ h.pc \in {"rows", "node", "uncache"} =>
           /\ c \in Clusters
           /\ \A pc \in {"node", "uncache"} : [h EXCEPT !.pc = pc] \in Events
  BY <1>0, EventFacts
<1>2. \A pc : h.pc \in Upserting =>
        LET g == [h EXCEPT !.pc = pc]
        IN  g.pc = pc /\ g.cluster = c /\ g.props = h.props
  BY <1>0 DEF Events, Idle, Upserting
<1>3. \A pc \in {"node", "uncache"} : h.pc \in {"rows", "node", "uncache"} =>
        LET g == [h EXCEPT !.pc = pc] IN g.pc = pc /\ g.cluster = c
  BY <1>0 DEF Events, Idle
<1>4. ASSUME NEW event, handler' = [handler EXCEPT ![p][k] = event]
      PROVE  /\ handler'[p][k] = event
             /\ \A q \in Pods, l \in Kinds :
                  q # p \/ l # k => handler'[q][l] = handler[q][l]
  BY <1>0, <1>4
<1>5. ASSUME NEW new, NEW d \in Clusters, cache' = [cache EXCEPT ![p][d] = new]
      PROVE  /\ cache'[p][d] = new
             /\ \A q \in Pods, e \in Clusters :
                  q # p \/ e # d => cache'[q][e] = cache[q][e]
  BY <1>0, <1>5
<1>6. ASSUME NEW new, NEW d \in Clusters, node' = [node EXCEPT ![d] = new]
      PROVE  node'[d] = new /\ \A e \in Clusters \ {d} : node'[e] = node[e]
  BY <1>0, <1>6
<1> HIDE DEF h
<1>7. CASE Transform(p, k)
  <2> DEFINE merged == AddAdditionalProperties(h.props, cache[p][c])
             event == [pc |-> "check", cluster |-> c, props |-> merged.props,
                       loaded |-> merged.loaded \ {k}]
  <2>1. /\ h.pc = "ready" /\ ~Locked(p) /\ handler' = [handler EXCEPT ![p][k] = event]
        /\ UNCHANGED <<object, changes, leader, terms, node, cache>>
    BY <1>7 DEF Transform, At, Handle, h, kube, lead
  <2>2. event.pc = "check" /\ event.cluster = c /\ event.props = merged.props
    OBVIOUS
  <2> HIDE DEF event
  <2>3. handler'[p][k] = event
    BY <1>4, <2>1
  <2>4. Frame(p, k)
    BY <1>1, <1>4, <2>1 DEF Frame, h
  <2>5. Effect(p, k)
    BY <2>1, <2>2, <2>3 DEF Effect, h
  <2> QED BY <2>4, <2>5
<1>8. CASE SkipCancelled(p, k) \/ Cancelled(p, k)
  <2>1. /\ h.pc \in {"check", "exec", "rows", "node"}
        /\ handler' = [handler EXCEPT ![p][k] = Idle]
        /\ UNCHANGED <<object, changes, leader, terms, node, cache>>
    BY <1>8 DEF SkipCancelled, Cancelled, Handle, At, h, kube, lead
  <2>2. Frame(p, k)
    BY <1>1, <1>4, <2>1 DEF Frame, h, Upserting
  <2> QED BY <1>4, <2>1, <2>2 DEF Effect, h
<1>9. CASE CheckCached(p, k)
  <2> DEFINE event == IF UpToDate(p, k) THEN Idle ELSE [h EXCEPT !.pc = "exec"]
  <2>1. /\ h.pc = "check" /\ handler' = [handler EXCEPT ![p][k] = event]
        /\ UNCHANGED <<object, changes, leader, terms, node, cache>>
    BY <1>9 DEF CheckCached, At, h, kube, lead
  <2>2. event = Idle \/ (event.pc = "exec" /\ event.cluster = c /\ event.props = h.props)
    BY <1>2, <2>1 DEF Upserting
  <2> HIDE DEF event
  <2>3. Frame(p, k)
    BY <1>1, <1>4, <2>1 DEF Frame, h, Upserting
  <2> QED BY <1>4, <2>1, <2>2, <2>3 DEF Effect, h
<1>10. CASE CheckDatabase(p, k)
  <2>1. h.pc = "check" /\ UNCHANGED <<object, changes, leader, terms, node, cache>>
    BY <1>10 DEF CheckDatabase, At, h, kube, lead
  <2>2. PICK event : /\ handler' = [handler EXCEPT ![p][k] = event]
                     /\ \/ /\ node[c] # None
                           /\ event = [pc |-> "load", cluster |-> c, props |-> h.props,
                                       loaded |-> h.loaded, found |-> node[c]]
                        \/ event = [h EXCEPT !.pc = "exec"]
    BY <1>10 DEF CheckDatabase, Handle, h
  <2>3. /\ event.cluster = c /\ event.props = h.props
        /\ \/ event.pc = "exec"
           \/ event.pc = "load" /\ node[c] # None /\ event.found = node[c]
    <3>1. CASE event = [h EXCEPT !.pc = "exec"]
      BY <1>2, <2>1, <3>1 DEF Upserting
    <3>2. CASE node[c] # None /\ event = [pc |-> "load", cluster |-> c, props |-> h.props,
                                          loaded |-> h.loaded, found |-> node[c]]
      BY <3>2
    <3> QED BY <2>2, <3>1, <3>2
  <2>4. Frame(p, k)
    BY <1>1, <1>4, <2>1, <2>2 DEF Frame, h, Upserting
  <2> QED BY <1>4, <2>1, <2>2, <2>3, <2>4 DEF Effect, h
<1>17. CASE LoadClustersCache(p, k)
  <2> DEFINE event == [pc |-> "exec", cluster |-> c, props |-> h.props,
                       loaded |-> h.loaded]
             entry == Load(h.found)
  <2>1. /\ h.pc = "load" /\ handler' = [handler EXCEPT ![p][k] = event]
        /\ cache' = [cache EXCEPT ![p][c] = entry]
        /\ UNCHANGED <<object, changes, leader, terms, node>>
    BY <1>17 DEF LoadClustersCache, Handle, At, h, kube, lead
  <2>2. c \in Clusters /\ entry # None /\ entry.props = h.found
    BY <1>1, <2>1, NoneAssumption DEF Upserting, Load, Entry
  <2>3. event.pc = "exec" /\ event.cluster = c /\ event.props = h.props
    OBVIOUS
  <2> HIDE DEF event, entry
  <2>4. Frame(p, k)
    BY <1>4, <1>5, <2>1, <2>2 DEF Frame, h
  <2>5. handler'[p][k] = event /\ cache'[p][c] = entry
    BY <1>4, <1>5, <2>1, <2>2
  <2> QED BY <2>1, <2>2, <2>3, <2>4, <2>5 DEF Effect, h
<1>11. CASE Exec(p, k)
  <2> DEFINE event == [h EXCEPT !.pc = "cache"]
  <2>1. /\ h.pc = "exec" /\ handler' = [handler EXCEPT ![p][k] = event]
        /\ node' = [node EXCEPT ![c] = h.props]
        /\ UNCHANGED <<object, changes, leader, terms, cache>>
    BY <1>0, <1>11 DEF Exec, Write, At, h, kube, lead
  <2>2. event.pc = "cache" /\ event.cluster = c /\ event.props = h.props /\ c \in Clusters
    BY <1>1, <1>2, <2>1 DEF Upserting
  <2> HIDE DEF event
  <2>3. node'[c] = h.props /\ \A d \in Clusters \ {c} : node'[d] = node[d]
    BY <1>6, <2>1, <2>2
  <2>4. Frame(p, k)
    BY <1>4, <2>1, <2>2, <2>3 DEF Frame, h
  <2> QED BY <1>4, <2>1, <2>2, <2>3, <2>4 DEF Effect, h
<1>12. CASE ExecFails(p, k)
  <2>1. /\ h.pc = "exec" /\ handler' = [handler EXCEPT ![p][k] = Idle]
        /\ node' = node \/ ("commit" \in Faults /\ node' = [node EXCEPT ![c] = h.props])
        /\ UNCHANGED <<object, changes, leader, terms, cache>>
    BY <1>12 DEF ExecFails, FailureOf, Write, Handle, At, h, kube, lead
  <2>2. c \in Clusters
    BY <1>1, <2>1 DEF Upserting
  <2>3. \/ node' = node
        \/ /\ "commit" \in Faults /\ node'[c] = h.props
           /\ \A d \in Clusters \ {c} : node'[d] = node[d]
    BY <1>6, <2>1, <2>2
  <2>4. Frame(p, k)
    BY <1>4, <2>1, <2>2, <2>3 DEF Frame, h
  <2> QED BY <1>4, <2>1, <2>3, <2>4 DEF Effect, h
<1>13. CASE UpdateClustersCache(p, k)
  <2> DEFINE entry == [props |-> h.props, loaded |-> h.loaded]
  <2>1. /\ h.pc = "cache" /\ handler' = [handler EXCEPT ![p][k] = Idle]
        /\ cache' = [cache EXCEPT ![p][c] = entry]
        /\ UNCHANGED <<object, changes, leader, terms, node>>
    BY <1>13 DEF UpdateClustersCache, Handle, At, h, kube, lead
  <2>2. c \in Clusters /\ entry # None /\ entry.props = h.props
    BY <1>1, <2>1, NoneAssumption DEF Upserting, Entry
  <2> HIDE DEF entry
  <2>3. Frame(p, k)
    BY <1>4, <1>5, <2>1, <2>2 DEF Frame, h
  <2>4. handler'[p][k] = Idle /\ cache'[p][c] = entry
    BY <1>4, <1>5, <2>1, <2>2
  <2> QED BY <2>1, <2>2, <2>3, <2>4 DEF Effect, h
<1>14. CASE DeleteRows(p, k)
  <2> DEFINE event == IF k = "ManagedCluster" THEN [h EXCEPT !.pc = "node"] ELSE Idle
  <2>1. /\ h.pc = "rows" /\ handler' = [handler EXCEPT ![p][k] = event]
        /\ UNCHANGED <<object, changes, leader, terms, node, cache>>
    BY <1>14 DEF DeleteRows, Handle, At, h, kube, lead
  <2>2. c \in Clusters /\ IF k = "ManagedCluster" THEN event.pc = "node" /\ event.cluster = c
                            ELSE event = Idle
    BY <1>1, <1>3, <2>1
  <2> HIDE DEF event
  <2>3. Frame(p, k)
    BY <1>4, <2>1, <2>2 DEF Frame, h
  <2> QED BY <1>4, <2>1, <2>2, <2>3 DEF Effect, h
<1>15. CASE DeleteNode(p, k)
  <2> DEFINE event == [h EXCEPT !.pc = "uncache"]
  <2>1. /\ h.pc = "node" /\ handler' = [handler EXCEPT ![p][k] = event]
        /\ node' = [node EXCEPT ![c] = None]
        /\ UNCHANGED <<object, changes, leader, terms, cache>>
    BY <1>15 DEF DeleteNode, Handle, At, h, kube, lead
  <2>2. event.pc = "uncache" /\ event.cluster = c /\ c \in Clusters
    BY <1>1, <1>3, <2>1
  <2> HIDE DEF event
  <2>3. node'[c] = None /\ \A d \in Clusters \ {c} : node'[d] = node[d]
    BY <1>6, <2>1, <2>2
  <2>4. Frame(p, k)
    BY <1>4, <2>1, <2>2, <2>3 DEF Frame, h
  <2> QED BY <1>4, <2>1, <2>2, <2>3, <2>4 DEF Effect, h
<1>16. CASE DeleteClustersCache(p, k)
  <2>1. /\ h.pc = "uncache" /\ handler' = [handler EXCEPT ![p][k] = Idle]
        /\ cache' = [cache EXCEPT ![p][c] = None]
        /\ UNCHANGED <<object, changes, leader, terms, node>>
    BY <1>16 DEF DeleteClustersCache, Handle, At, h, kube, lead
  <2>2. c \in Clusters
    BY <1>1, <2>1
  <2>3. Frame(p, k)
    BY <1>4, <1>5, <2>1, <2>2 DEF Frame, h
  <2>4. handler'[p][k] = Idle /\ cache'[p][c] = None
    BY <1>4, <1>5, <2>1, <2>2
  <2> QED BY <2>1, <2>3, <2>4 DEF Effect, h
<1> QED BY <1>7, <1>8, <1>9, <1>10, <1>11, <1>12, <1>13, <1>14, <1>15, <1>16, <1>17
       DEF Handler

(* An event that is delivered is about the object as it is.                *)
LEMMA DeliverEffect ==
    ASSUME TypeOK, NEW p \in Pods, NEW k \in Kinds, NEW c \in Clusters, Deliver(p, k, c)
    PROVE  LET g == handler'[p][k]
           IN  /\ leader = p /\ handler[p][k] = Idle
               /\ UNCHANGED <<object, changes, leader, terms, node, cache>>
               /\ \A q \in Pods, l \in Kinds :
                    q # p \/ l # k => handler'[q][l] = handler[q][l]
               /\ \/ g = Idle
                  \/ /\ k # "ManagedClusterAddOn" /\ object[k][c] # None
                     /\ g.pc = "ready" /\ g.cluster = c /\ g.props = object[k][c]
                  \/ object[k][c] = None /\ g.pc = "rows" /\ g.cluster = c
<1>1. /\ leader = p /\ handler[p][k] = Idle
      /\ UNCHANGED <<object, changes, leader, terms, node, cache>>
  BY DEF Deliver, kube, lead
<1>2. ASSUME NEW event, handler' = [handler EXCEPT ![p][k] = event]
      PROVE  /\ handler'[p][k] = event
             /\ \A q \in Pods, l \in Kinds :
                  q # p \/ l # k => handler'[q][l] = handler[q][l]
  BY <1>2 DEF TypeOK
<1>3. \/ UNCHANGED handler
      \/ /\ object[k][c] # None /\ k # "ManagedClusterAddOn"
         /\ handler' = [handler EXCEPT ![p][k] =
              [pc |-> "ready", cluster |-> c, props |-> object[k][c], loaded |-> {}]]
      \/ object[k][c] = None /\ handler' = [handler EXCEPT ![p][k] = [pc |-> "rows", cluster |-> c]]
  BY DEF Deliver, Handle
<1>4. \/ UNCHANGED handler
      \/ /\ \A q \in Pods, l \in Kinds :
              q # p \/ l # k => handler'[q][l] = handler[q][l]
         /\ \/ /\ object[k][c] # None /\ k # "ManagedClusterAddOn"
               /\ handler'[p][k] = [pc |-> "ready", cluster |-> c, props |-> object[k][c],
                                    loaded |-> {}]
            \/ object[k][c] = None /\ handler'[p][k] = [pc |-> "rows", cluster |-> c]
  BY <1>2, <1>3
<1> QED BY <1>1, <1>4

------------------------------------------------------------------------------
(* The creation times that are known.                                      *)

LEMMA MergedCreated ==
    ASSUME NEW props \in Props, NEW entry \in Entry \cup {None}, NEW created,
           props.created # created, entry # None => entry.props.created # created
    PROVE  AddAdditionalProperties(props, entry).props.created # created
<1>1. "created" \in DOMAIN props
  BY DEF Props
<1> QED BY <1>1 DEF AddAdditionalProperties

LEMMA HandlerKeepsUnknown ==
    ASSUME TypeOK, NEW p \in Pods, NEW k \in Kinds, Frame(p, k), Effect(p, k),
           NEW c \in Clusters, NEW created, Unknown(c, created)
    PROVE  Unknown(c, created)'
<1> DEFINE h == handler[p][k]
           g == handler'[p][k]
           Copies(event) == event.pc \in {"ready"} \cup Upserting /\ event.cluster = c
           Away(event) == /\ event.props.created # created
                          /\ event.pc = "load" => event.found.created # created
<1>0. h \in Events /\ \A q \in Pods, d \in Clusters : cache[q][d] \in Entry \cup {None}
  BY DEF TypeOK
<1>1. node'[c] # None => node'[c].created # created
  BY <1>0 DEF Frame, Effect, Unknown, Upserting
<1>2. \A q \in Pods : cache'[q][c] # None => cache'[q][c].props.created # created
  BY DEF Frame, Effect, Unknown, At, Upserting
<1>3. ASSUME Copies(g) PROVE Away(g)
  <2>1. CASE h.pc = "ready"
    <3>1. /\ h.cluster = c /\ h.props.created # created
          /\ g.props = AddAdditionalProperties(h.props, cache[p][c]).props
          /\ g.pc = "check"
          /\ cache[p][c] # None => cache[p][c].props.created # created
      BY <1>3, <2>1 DEF Effect, Unknown, Idle
    <3>2. h.props \in Props
      BY <1>0, <2>1, EventFacts
    <3> QED BY <1>0, <3>1, <3>2, MergedCreated
  <2>2. CASE h.pc # "ready"
    <3>1. /\ h.cluster = c /\ h.pc \in Upserting /\ g.props = h.props
          /\ g.pc = "load" => node[c] # None /\ g.found = node[c]
      BY <1>3, <2>2 DEF Effect, Idle, Upserting
    <3> QED BY <3>1 DEF Unknown
  <2> QED BY <2>1, <2>2
<1>4. \A q \in Pods, l \in Kinds : Copies(handler'[q][l]) => Away(handler'[q][l])
  BY <1>3 DEF Frame, Unknown, At
<1> QED BY <1>1, <1>2, <1>4 DEF Unknown, At

LEMMA DeliverKeepsUnknown ==
    ASSUME TypeOK, NEW p \in Pods, NEW k \in Kinds, NEW d \in Clusters, Deliver(p, k, d),
           NEW c \in Clusters, NEW created, Unknown(c, created),
           k # "ManagedClusterAddOn" /\ object[k][c] # None => object[k][c].created # created
    PROVE  Unknown(c, created)'
BY DeliverEffect DEF Unknown, Idle, At, Upserting

LEMMA DieKeepsUnknown ==
    ASSUME TypeOK, NEW p \in Pods, Die(p), NEW c \in Clusters, NEW created,
           Unknown(c, created)
    PROVE  Unknown(c, created)'
<1>1. /\ \A q \in Pods : handler'[q] = IF q = p THEN [k \in Kinds |-> Idle] ELSE handler[q]
      /\ \A q \in Pods : cache'[q] = IF q = p THEN [d \in Clusters |-> None] ELSE cache[q]
      /\ UNCHANGED node
  BY DEF Die, TypeOK
<1> QED BY <1>1 DEF Unknown, Idle, At, Upserting

(* What the environment does to the objects.                               *)
LEMMA EnvironmentEffect ==
    ASSUME TypeOK, NEW d \in Clusters, Environment(d)
    PROVE  /\ UNCHANGED <<handler, node, cache, leader, terms>>
           /\ changes' \in {changes, changes + 1} /\ changes' <= MaxChanges
           /\ \A c \in Clusters :
                LET mc == object["ManagedCluster"][c]
                    new == object'["ManagedCluster"][c]
                IN  \/ new = None
                    \/ mc # None /\ new.created = mc.created
                    \/ /\ new.created = changes
                       /\ changes < MaxChanges /\ changes' = changes + 1
           /\ Separated => Separated'
<1>0. /\ changes \in 0 .. MaxChanges
      /\ DOMAIN object = Kinds
      /\ \A k \in Kinds : object[k] \in [Clusters -> Objects[k] \cup {None}]
  BY DEF TypeOK
<1>1. ASSUME NEW k \in Kinds, NEW o, Set(k, d, o),
             o # None /\ k # "ManagedClusterAddOn" => OnlyOwn(k, o),
             k = "ManagedCluster" => LET mc == object[k][d] IN
                \/ o = None
                \/ mc # None /\ o.created = mc.created
                \/ o.created = changes
      PROVE  /\ UNCHANGED <<handler, node, cache, leader, terms>>
             /\ changes' \in {changes, changes + 1} /\ changes' <= MaxChanges
             /\ \A c \in Clusters :
                  LET mc == object["ManagedCluster"][c]
                      new == object'["ManagedCluster"][c]
                  IN  \/ new = None
                      \/ mc # None /\ new.created = mc.created
                      \/ /\ new.created = changes
                         /\ changes < MaxChanges /\ changes' = changes + 1
             /\ Separated => Separated'
  <2>1. /\ changes < MaxChanges /\ changes' = changes + 1
        /\ object' = [object EXCEPT ![k][d] = o]
        /\ UNCHANGED <<handler, node, cache, leader, terms>>
    BY <1>1 DEF Set, lead
  <2>2. \A l \in Kinds, c \in Clusters :
          object'[l][c] = IF l = k /\ c = d THEN o ELSE object[l][c]
    BY <1>0, <2>1
  <2>3. changes' \in {changes, changes + 1} /\ changes' <= MaxChanges
    BY <1>0, <2>1, ClusterNodeAssumption
  <2>4. Separated => Separated'
    BY <1>1, <2>1, <2>2 DEF Separated, At
  <2>5. "ManagedCluster" \in Kinds
    BY DEF Kinds
  <2> QED BY <1>1, <2>1, <2>2, <2>3, <2>4, <2>5
<1>2. CASE ChangeManagedCluster(d)
  <2>1. \A created, status : /\ OnlyOwn("ManagedCluster", Managed(created, status))
                             /\ Managed(created, status).created = created
    BY DEF OnlyOwn, OwnKeys, Managed
  <2>2. PICK o : /\ Set("ManagedCluster", d, o)
                 /\ \/ \E s : o = Managed(changes, s)
                    \/ /\ object["ManagedCluster"][d] # None
                       /\ \E s : o = Managed(object["ManagedCluster"][d].created, s)
                    \/ o = None
    BY <1>2 DEF ChangeManagedCluster
  <2>3. "ManagedCluster" \in Kinds
    BY DEF Kinds
  <2> QED BY <1>1, <2>1, <2>2, <2>3
<1>3. CASE ChangeManagedClusterInfo(d)
  <2>1. \A i : OnlyOwn("ManagedClusterInfo", Info(i))
    BY DEF OnlyOwn, OwnKeys, Info
  <2>2. PICK o \in {Info(i) : i \in Infos} \cup {None} : Set("ManagedClusterInfo", d, o)
    BY <1>3 DEF ChangeManagedClusterInfo
  <2>3. "ManagedClusterInfo" \in Kinds
    BY DEF Kinds
  <2> QED BY <1>1, <2>1, <2>2, <2>3
<1>4. CASE ChangeAddOn(d)
  <2>1. PICK o : Set("ManagedClusterAddOn", d, o)
    BY <1>4 DEF ChangeAddOn
  <2>2. "ManagedClusterAddOn" \in Kinds
    BY DEF Kinds
  <2> QED BY <1>1, <2>1, <2>2
<1>5. CASE StartRequest(d) \/ RequestWrites(d) \/ RequestEnds(d)
  <2>1. UNCHANGED <<object, changes, handler, node, cache, leader, terms>>
    BY <1>5 DEF StartRequest, RequestWrites, RequestEnds, kube, lead
  <2>2. Separated => Separated'
    BY <2>1 DEF Separated, At
  <2> QED BY <1>0, <2>1, <2>2, ClusterNodeAssumption
<1> QED BY <1>2, <1>3, <1>4, <1>5 DEF Environment


(* All steps, by what they do to the handlers, the nodes and the cache.    *)
Quiet == UNCHANGED <<object, changes, handler, node, cache, leader, terms>>

LEMMA StepCases ==
    ASSUME TypeOK, [Next]_vars
    PROVE  \/ Quiet
           \/ StopLeading
           \/ \E p \in Pods : StartLeading(p) \/ Die(p)
           \/ \E c \in Clusters : Environment(c)
           \/ \E p \in Pods, k \in Kinds :
                \/ Frame(p, k) /\ Effect(p, k)
                \/ \E c \in Clusters : Deliver(p, k, c)
<1>1. CASE ListClusters \/ GetManagedClusters \/ CleanupDone \/ CleanupFails
             \/ \E c \in Clusters : DeleteStale(c)
  BY <1>1 DEF ListClusters, GetManagedClusters, CleanupDone, CleanupFails, DeleteStale,
              Cleanup, Quiet
<1>2. CASE UNCHANGED vars
  BY <1>2 DEF vars, kube, lead, Quiet
<1>3. ASSUME NEW p \in Pods, NEW k \in Kinds, Handler(p, k) \/ ExecFails(p, k)
      PROVE  Frame(p, k) /\ Effect(p, k)
  BY <1>3, HandlerEffect
<1>4. ASSUME NEW p \in Pods, NEW k \in Kinds, NEW c \in Clusters,
             Tombstone(p, k, c)
      PROVE  Die(p)
  BY <1>4 DEF Tombstone
<1>5. ASSUME NEW p \in Pods, Restart(p) PROVE Die(p)
  BY <1>5 DEF Restart
<1> QED BY <1>1, <1>2, <1>3, <1>4, <1>5 DEF Next, Term

LEMMA StartStopUnchanged ==
    ASSUME StopLeading \/ \E p \in Pods : StartLeading(p)
    PROVE  UNCHANGED <<object, changes, handler, node, cache>>
BY DEF StopLeading, StartLeading, kube

LEMMA DieUnchanged ==
    ASSUME NEW p \in Pods, Die(p)
    PROVE  UNCHANGED <<object, changes, node, terms>>
BY DEF Die, kube

LEMMA UnknownUnchanged ==
    ASSUME UNCHANGED <<handler, node, cache>>, NEW c \in Clusters, NEW created,
           Unknown(c, created)
    PROVE  Unknown(c, created)'
BY DEF Unknown, At

------------------------------------------------------------------------------
(* The parts of MergeInv.                                                  *)

LEMMA InitMergeInv == Init => MergeInv
<1> SUFFICES ASSUME Init PROVE MergeInv
  OBVIOUS
<1>1. /\ \A p \in Pods, k \in Kinds : handler[p][k].pc = "idle"
      /\ \A p \in Pods, c \in Clusters : cache[p][c] = None
      /\ \A c \in Clusters : node[c] = None
      /\ \A k \in Kinds, c \in Clusters : object[k][c] = None
  BY DEF Init, Idle
<1>2. Dated
  BY <1>1 DEF Dated, Unknown, Upserting, Kinds
<1>3. Separated
  BY <1>1 DEF Separated, At
<1>4. ~FirstTerm
  BY DEF Init, FirstTerm
<1> QED BY <1>1, <1>2, <1>3, <1>4 DEF MergeInv

LEMMA DatedStep ==
    ASSUME TypeOK, Dated, Separated, [Next]_vars
    PROVE  Dated'
<1> DEFINE mc(c) == object["ManagedCluster"][c]
<1>0. changes \in Nat /\ changes <= MaxChanges /\ MaxChanges \in Nat
  BY ClusterNodeAssumption DEF TypeOK
<1>1. ASSUME UNCHANGED <<object, changes>>,
             \A c \in Clusters : \A created \in changes .. MaxChanges : Unknown(c, created)'
      PROVE  Dated'
  BY <1>1 DEF Dated
<1>2. ASSUME UNCHANGED <<object, changes, handler, node, cache>> PROVE Dated'
  BY <1>1, <1>2, UnknownUnchanged DEF Dated
<1>3. CASE Quiet \/ StopLeading \/ \E p \in Pods : StartLeading(p)
  BY <1>2, <1>3, StartStopUnchanged DEF Quiet
<1>4. ASSUME NEW p \in Pods, Die(p) PROVE Dated'
  BY <1>1, <1>4, DieUnchanged, DieKeepsUnknown DEF Dated
<1>5. ASSUME NEW p \in Pods, NEW k \in Kinds, Frame(p, k), Effect(p, k) PROVE Dated'
  <2>1. UNCHANGED <<object, changes>>
    BY <1>5 DEF Frame
  <2> QED BY <1>1, <1>5, <2>1, HandlerKeepsUnknown DEF Dated
<1>6. ASSUME NEW p \in Pods, NEW k \in Kinds, NEW d \in Clusters, Deliver(p, k, d)
      PROVE  Dated'
  <2>1. ASSUME NEW c \in Clusters, NEW created \in changes .. MaxChanges,
               k # "ManagedClusterAddOn", object[k][c] # None
        PROVE  object[k][c].created # created
    <3>1. CASE k = "ManagedCluster"
      BY <1>0, <2>1, <3>1 DEF Dated
    <3>2. CASE k = "ManagedClusterInfo"
      <4>1. object[k][c].created = None
        BY <2>1, <3>2 DEF Separated, OnlyOwn, OwnKeys
      <4> QED BY <1>0, <4>1, ClusterNodeAssumption
    <3> QED BY <2>1, <3>1, <3>2 DEF Kinds
  <2>2. ASSUME NEW c \in Clusters, NEW created \in changes .. MaxChanges
        PROVE  Unknown(c, created)'
    <3>1. Unknown(c, created)
      BY DEF Dated
    <3> QED BY <1>6, <2>1, <3>1, DeliverKeepsUnknown
  <2> QED BY <1>1, <1>6, <2>2, DeliverEffect
<1>7. ASSUME NEW d \in Clusters, Environment(d) PROVE Dated'
  <2>1. /\ UNCHANGED <<handler, node, cache>>
        /\ changes' \in {changes, changes + 1}
        /\ \A c \in Clusters : \/ mc(c)' = None
                               \/ mc(c) # None /\ mc(c)'.created = mc(c).created
                               \/ mc(c)'.created = changes /\ changes' = changes + 1
    BY <1>7, EnvironmentEffect
  <2>2. ASSUME NEW c \in Clusters, mc(c)' # None
        PROVE  mc(c)'.created \in 0 .. changes' - 1
    BY <1>0, <2>1, <2>2 DEF Dated
  <2>3. ASSUME NEW c \in Clusters, NEW created \in changes' .. MaxChanges
        PROVE  Unknown(c, created)'
    <3>1. created \in changes .. MaxChanges
      BY <1>0, <2>1
    <3> QED BY <2>1, <3>1, UnknownUnchanged DEF Dated
  <2> QED BY <2>2, <2>3 DEF Dated
<1> QED BY <1>3, <1>4, <1>5, <1>6, <1>7, StepCases

LEMMA SeparatedStep ==
    ASSUME TypeOK, Separated, [Next]_vars
    PROVE  Separated'
<1>1. CASE Quiet \/ StopLeading \/ \E p \in Pods : StartLeading(p)
  <2>1. UNCHANGED <<object, handler>>
    BY <1>1, StartStopUnchanged DEF Quiet
  <2> QED BY <2>1 DEF Separated, At
<1>2. ASSUME NEW p \in Pods, Die(p) PROVE Separated'
  <2>1. /\ UNCHANGED object
        /\ \A q \in Pods : handler'[q] = IF q = p THEN [k \in Kinds |-> Idle] ELSE handler[q]
    BY <1>2 DEF Die, TypeOK, kube
  <2> QED BY <2>1 DEF Separated, At, Idle
<1>3. ASSUME NEW p \in Pods, NEW k \in Kinds, Frame(p, k), Effect(p, k) PROVE Separated'
  <2>1. /\ UNCHANGED object
        /\ \A q \in Pods, l \in Kinds : q # p \/ l # k => handler'[q][l] = handler[q][l]
    BY <1>3 DEF Frame
  <2>2. /\ handler'[p][k].pc # "ready"
        /\ handler'[p][k].pc \in {"node", "uncache"} =>
             k = "ManagedCluster" \/ handler[p][k].pc = "node"
    BY <1>3 DEF Effect, Idle
  <2> QED BY <2>1, <2>2 DEF Separated, At
<1>4. ASSUME NEW p \in Pods, NEW k \in Kinds, NEW c \in Clusters, Deliver(p, k, c)
      PROVE  Separated'
  BY <1>4, DeliverEffect DEF Separated, At, Idle
<1>5. ASSUME NEW d \in Clusters, Environment(d) PROVE Separated'
  BY <1>5, EnvironmentEffect
<1> QED BY <1>1, <1>2, <1>3, <1>4, <1>5, StepCases

(* Before the first term there are no nodes.                               *)
LEMMA UnwrittenStep ==
    ASSUME TypeOK, CacheInv, terms = 0 => \A c \in Clusters : node[c] = None,
           [Next]_vars, terms' = 0
    PROVE  \A c \in Clusters : node'[c] = None
<1>1. ASSUME NEW p \in Pods, StartLeading(p) PROVE FALSE
  BY <1>1, ClusterNodeAssumption DEF StartLeading, TypeOK
<1>2. ASSUME NEW p \in Pods, NEW k \in Kinds, Frame(p, k) PROVE FALSE
  BY <1>2 DEF Frame, CacheInv, Idle
<1>3. UNCHANGED <<node, terms>>
  <2>1. CASE Quiet \/ StopLeading
    BY <2>1 DEF Quiet, StopLeading
  <2>2. ASSUME NEW p \in Pods, Die(p) PROVE UNCHANGED <<node, terms>>
    BY <2>2, DieUnchanged
  <2>3. ASSUME NEW c \in Clusters, Environment(c) PROVE UNCHANGED <<node, terms>>
    BY <2>3, EnvironmentEffect
  <2>4. ASSUME NEW p \in Pods, NEW k \in Kinds, NEW c \in Clusters, Deliver(p, k, c)
        PROVE  UNCHANGED <<node, terms>>
    BY <2>4, DeliverEffect
  <2> QED BY <1>1, <1>2, <2>1, <2>2, <2>3, <2>4, StepCases
<1> QED BY <1>3

LEMMA MergedExtends ==
    ASSUME NEW k \in Kinds, NEW props \in Props, OnlyOwn(k, props), NEW entry \in Entry,
           entry # None
    PROVE  Extends(k, entry.props, AddAdditionalProperties(props, entry).props)
<1>1. DOMAIN props = {"created", "status", "info"}
  BY DEF Props
<1>2. \A key \in {"created", "status", "info"} :
        AddAdditionalProperties(props, entry).props[key] =
          IF props[key] # None THEN props[key] ELSE entry.props[key]
  BY <1>1 DEF AddAdditionalProperties
<1> QED BY <1>2 DEF Extends, OnlyOwn

(* In the first term only the leader handles events, and its cache agrees. *)
LEMMA FirstTermFacts ==
    ASSUME TypeOK, CacheInv, FirstTerm
    PROVE  /\ leader \in Pods /\ Agrees(leader)
           /\ \A p \in Pods \ {leader} : \A k \in Kinds : handler[p][k].pc = "idle"
BY DEF FirstTerm, TypeOK, CacheInv, Sole, Idle

LEMMA HandlerKeepsMerges ==
    ASSUME "commit" \notin Faults, TypeOK, CacheInv, MergeInv, FirstTerm,
           NEW k \in Kinds, Frame(leader, k), Effect(leader, k),
           NEW d \in Clusters, object["ManagedCluster"][d] # None
    PROVE  MergesInTerm(d)'
<1> DEFINE p == leader
           h == handler[p][k]
           g == handler'[p][k]
           c == h.cluster
           created == object["ManagedCluster"][d].created
<1>0. /\ p \in Pods /\ Agrees(p) /\ MergesInTerm(d) /\ Separated
      /\ \A e \in Clusters : cache[p][e] \in Entry \cup {None}
      /\ h \in Events
  BY FirstTermFacts DEF MergeInv, TypeOK
<1>1. /\ UNCHANGED <<object, leader>> /\ c \in Clusters
      /\ \A l \in Kinds \ {k} : handler'[p][l] = handler[p][l]
      /\ \A e \in Clusters \ {c} : cache'[p][e] = cache[p][e] /\ node'[e] = node[e]
  BY <1>0 DEF Frame
<1>2. ASSUME Ending(p, d)' PROVE Unknown(d, created)'
  <2>0. PICK n : n = created
    OBVIOUS
  <2>1. CASE k # "ManagedCluster"
    <3>1. Ending(p, d)
      BY <1>1, <1>2, <2>1 DEF Ending, Kinds
    <3>2. Unknown(d, n)
      BY <1>0, <2>0, <3>1 DEF MergesInTerm
    <3>3. Unknown(d, n)'
      BY <1>0, <3>2, HandlerKeepsUnknown
    <3> QED BY <1>1, <2>0, <3>3 DEF Unknown
  <2>2. CASE k = "ManagedCluster"
    <3>1. g.pc \in {"rows", "node", "uncache"} /\ g.cluster = d
      BY <1>1, <1>2, <2>2 DEF Ending
    <3>2. h.pc \in {"rows", "node"} /\ h.cluster = d
      BY <3>1 DEF Effect, Idle
    <3>3. Ending(p, d)
      BY <2>2, <3>2 DEF Ending
    <3>4. Unknown(d, n)
      BY <1>0, <2>0, <3>3 DEF MergesInTerm
    <3>5. Unknown(d, n)'
      BY <1>0, <3>4, HandlerKeepsUnknown
    <3> QED BY <1>1, <2>0, <3>5 DEF Unknown
  <2> QED BY <2>1, <2>2
<1>3. \A l \in Kinds \ {k} : Caching(p, l, d)' = Caching(p, l, d)
  BY <1>1 DEF Caching, At
<1>4. Present(d)' => \/ Present(d) /\ node'[d] = node[d]
                     \/ d = c /\ h.pc = "exec" /\ g.pc = "cache" /\ g.cluster = c
  BY <1>1 DEF Present, Effect
<1>5. ASSUME Present(d)'
      PROVE  cache'[p][d] # None \/ \E l \in Kinds : Caching(p, l, d)'
  <2>1. CASE g.pc = "cache" /\ g.cluster = d
    BY <1>1, <2>1 DEF Caching, At
  <2>2. CASE ~(g.pc = "cache" /\ g.cluster = d)
    <3>1. Present(d) /\ node'[d] = node[d]
      BY <1>4, <1>5, <2>2
    <3>2. CASE d = c /\ h.pc = "uncache"
      <4>1. k = "ManagedCluster"
        BY <1>0, <3>2 DEF Separated, At
      <4>2. Unknown(d, created)
        BY <1>0, <3>2, <4>1 DEF MergesInTerm, Ending
      <4> QED BY <3>1, <4>2 DEF Unknown, Present
    <3>3. CASE ~(d = c /\ h.pc = "uncache")
      <4>1. cache[p][d] # None => cache'[p][d] # None
        BY <1>1, <3>3 DEF Effect
      <4>2. Caching(p, k, d) => cache'[p][d] # None
        BY <1>1 DEF Caching, At, Effect
      <4> QED BY <1>0, <1>3, <3>1, <4>1, <4>2 DEF MergesInTerm
    <3> QED BY <3>2, <3>3
  <2> QED BY <2>1, <2>2
<1>6. ASSUME Present(d)', NEW l \in Kinds, handler'[p][l].pc \in {"check", "load", "exec"},
             handler'[p][l].cluster = d
      PROVE  Extends(l, node'[d], handler'[p][l].props)
  <2>1. CASE l # k
    <3>1. handler'[p][l] = handler[p][l]
      BY <1>1, <2>1
    <3>2. h.pc # "exec"
      BY <1>0, <1>6, <2>1, <3>1 DEF TypeOK, Upserting
    <3>3. Present(d) /\ node'[d] = node[d]
      BY <1>4, <1>6, <3>2
    <3> QED BY <1>0, <1>6, <3>1, <3>3 DEF MergesInTerm
  <2>2. CASE l = k
    <3>1. Present(d) /\ node'[d] = node[d]
      BY <1>4, <1>6, <2>2
    <3>2. CASE h.pc \in {"check", "load"}
      <4>1. h.cluster = d /\ g.props = h.props
        BY <1>6, <2>2, <3>2 DEF Effect, Idle
      <4> QED BY <1>0, <2>2, <3>1, <3>2, <4>1 DEF MergesInTerm
    <3>3. CASE h.pc = "ready"
      <4>1. /\ h.cluster = d /\ ~Locked(p)
            /\ g.props = AddAdditionalProperties(h.props, cache[p][d]).props
        BY <1>6, <2>2, <3>3 DEF Effect, Idle
      <4>2. \A m \in Kinds : ~Caching(p, m, d)
        BY <4>1 DEF Locked, Upserting, Caching, At
      <4>3. cache[p][d] \in Entry /\ cache[p][d] # None
        BY <1>0, <3>1, <4>2 DEF MergesInTerm
      <4>4. cache[p][d].props = node[d]
        BY <1>0, <3>1, <4>2, <4>3 DEF Agrees, Present
      <4>5. h.props \in Props /\ OnlyOwn(k, h.props)
        BY <1>0, <3>3, EventFacts DEF Separated, At
      <4>6. Extends(k, cache[p][d].props, AddAdditionalProperties(h.props, cache[p][d]).props)
        BY <4>3, <4>5, MergedExtends
      <4> QED BY <2>2, <3>1, <4>1, <4>4, <4>6
    <3> QED BY <1>6, <2>2, <3>2, <3>3 DEF Effect, Idle
  <2> QED BY <2>1, <2>2
<1> QED BY <1>1, <1>2, <1>5, <1>6 DEF MergesInTerm

(* Steps that leave the handlers, the nodes and the cache of the leader.   *)
LEMMA MergesUnchanged ==
    ASSUME NEW c \in Clusters, MergesInTerm(c), leader' = leader,
           handler'[leader] = handler[leader], cache'[leader] = cache[leader],
           UNCHANGED node,
           object'["ManagedCluster"][c] # None, object["ManagedCluster"][c] # None,
           object'["ManagedCluster"][c].created = object["ManagedCluster"][c].created,
           \A created : Unknown(c, created) => Unknown(c, created)'
    PROVE  MergesInTerm(c)'
<1>1. /\ Ending(leader, c)' = Ending(leader, c)
      /\ Present(c)' = Present(c)
      /\ \A k \in Kinds : Caching(leader, k, c)' = Caching(leader, k, c)
  BY DEF Ending, Present, Caching, At
<1> QED BY <1>1 DEF MergesInTerm

LEMMA MergesStep ==
    ASSUME "commit" \notin Faults, TypeOK, CacheInv, MergeInv, [Next]_vars, FirstTerm',
           NEW d \in Clusters, object'["ManagedCluster"][d] # None
    PROVE  MergesInTerm(d)'
<1> DEFINE mc == object["ManagedCluster"][d]
<1>0. changes \in 0 .. MaxChanges /\ terms \in Nat
  BY ClusterNodeAssumption DEF TypeOK
<1>1. CASE Quiet
  <2>1. FirstTerm /\ mc # None /\ UNCHANGED <<handler, node, cache, leader, object>>
    BY <1>1 DEF Quiet, FirstTerm
  <2>2. \A created : Unknown(d, created) => Unknown(d, created)'
    BY <2>1, UnknownUnchanged
  <2> QED BY <2>1, <2>2, MergesUnchanged DEF MergeInv
<1>2. CASE StopLeading
  BY <1>2 DEF StopLeading, FirstTerm
<1>3. ASSUME NEW p \in Pods, StartLeading(p) PROVE MergesInTerm(d)'
  <2>1. terms = 0 /\ leader' = p /\ UNCHANGED <<handler, node>>
    BY <1>0, <1>3 DEF StartLeading, FirstTerm
  <2>2. node'[d] = None /\ \A k \in Kinds : handler'[p][k] = Idle
    BY <2>1 DEF MergeInv, CacheInv
  <2> QED BY <2>1, <2>2 DEF MergesInTerm, Present, Ending, Idle, Kinds
<1>4. ASSUME NEW p \in Pods, Die(p) PROVE MergesInTerm(d)'
  <2>1. /\ leader # p /\ leader' = leader
        /\ UNCHANGED <<object, node, terms>>
    BY <1>4 DEF Die, kube, FirstTerm
  <2>2. FirstTerm /\ leader \in Pods
    BY <2>1 DEF FirstTerm, TypeOK
  <2>3. handler'[leader] = handler[leader] /\ cache'[leader] = cache[leader]
    BY <1>4, <2>1, <2>2 DEF Die, TypeOK
  <2> QED BY <1>4, <2>1, <2>2, <2>3, DieKeepsUnknown, MergesUnchanged DEF MergeInv
<1>5. ASSUME NEW p \in Pods, NEW k \in Kinds, Frame(p, k), Effect(p, k)
      PROVE  MergesInTerm(d)'
  <2>1. FirstTerm /\ mc # None
    BY <1>5 DEF Frame, FirstTerm
  <2>2. p = leader
    BY <1>5, <2>1, FirstTermFacts DEF Frame
  <2> QED BY <1>5, <2>1, <2>2, HandlerKeepsMerges
<1>6. ASSUME NEW p \in Pods, NEW k \in Kinds, NEW c \in Clusters, Deliver(p, k, c)
      PROVE  MergesInTerm(d)'
  <2> DEFINE g == handler'[p][k]
  <2>1. /\ FirstTerm /\ mc # None /\ leader = p /\ leader' = p /\ handler[p][k] = Idle
        /\ UNCHANGED <<object, node, cache>>
        /\ \A l \in Kinds \ {k} : handler'[p][l] = handler[p][l]
        /\ \/ g = Idle
           \/ /\ k # "ManagedClusterAddOn" /\ object[k][c] # None
              /\ g.pc = "ready" /\ g.cluster = c /\ g.props = object[k][c]
           \/ object[k][c] = None /\ g.pc = "rows" /\ g.cluster = c
    BY <1>6, DeliverEffect DEF FirstTerm
  <2>2. MergesInTerm(d) /\ Dated /\ Separated
    BY <2>1 DEF MergeInv
  <2>3. ASSUME Ending(p, d)' PROVE Unknown(d, mc.created)'
    <3>1. k # "ManagedCluster" /\ Ending(p, d)
      BY <2>1, <2>3 DEF Ending, Idle, Kinds
    <3>2. k # "ManagedClusterAddOn" /\ object[k][d] # None => object[k][d].created = None
      BY <2>2, <3>1 DEF Separated, OnlyOwn, OwnKeys, Kinds
    <3>3. PICK n : n = mc.created
      OBVIOUS
    <3>4. n # None
      BY <1>0, <2>1, <2>2, <3>3, ClusterNodeAssumption DEF Dated
    <3>5. Unknown(d, n)
      BY <2>1, <2>2, <3>1, <3>3 DEF MergesInTerm
    <3>6. Unknown(d, n)'
      BY <1>6, <3>2, <3>4, <3>5, DeliverKeepsUnknown
    <3> QED BY <2>1, <3>3, <3>6 DEF Unknown
  <2>4. \A l \in Kinds : /\ Caching(p, l, d)' = Caching(p, l, d)
                         /\ handler'[p][l].pc \in {"check", "load", "exec"} =>
                              handler'[p][l] = handler[p][l]
    BY <2>1 DEF Caching, At, Idle
  <2>5. Present(d)' = Present(d)
    BY <2>1 DEF Present
  <2> QED BY <2>1, <2>2, <2>3, <2>4, <2>5 DEF MergesInTerm
<1>7. ASSUME NEW c \in Clusters, Environment(c) PROVE MergesInTerm(d)'
  <2>1. /\ UNCHANGED <<handler, node, cache, leader, terms>>
        /\ \/ mc # None /\ mc'.created = mc.created
           \/ mc'.created = changes /\ changes < MaxChanges
    BY <1>7, EnvironmentEffect
  <2>2. FirstTerm
    BY <2>1 DEF FirstTerm
  <2>3. \A created : Unknown(d, created) => Unknown(d, created)'
    BY <2>1, UnknownUnchanged
  <2>4. CASE mc # None /\ mc'.created = mc.created
    BY <2>1, <2>2, <2>3, <2>4, MergesUnchanged DEF MergeInv
  <2>5. CASE mc'.created = changes /\ changes < MaxChanges
    <3>1. PICK n : n = changes
      OBVIOUS
    <3>2. Unknown(d, n)
      BY <1>0, <2>5, <3>1, ClusterNodeAssumption DEF MergeInv, Dated
    <3>3. Unknown(d, n)' /\ mc'.created = n
      BY <2>3, <2>5, <3>1, <3>2
    <3>4. ~Present(d)'
      BY <3>3 DEF Present, Unknown
    <3> QED BY <3>3, <3>4 DEF MergesInTerm, Unknown
  <2> QED BY <2>1, <2>4, <2>5
<1> QED BY <1>1, <1>2, <1>3, <1>4, <1>5, <1>6, <1>7, StepCases

(* In the first term the leader merges the events of a cluster with a cache*)
(* that holds its node, and no delete under way is of the cluster as it is *)
(* now: a ManagedCluster that is created again has a creation time that    *)
(* nothing left from the one before has.                                   *)
THEOREM MergeInvariance ==
    ASSUME "commit" \notin Faults
    PROVE  Spec => [](TypeOK /\ CacheInv /\ MergeInv)
<1>1. Init => MergeInv
  BY InitMergeInv
<1>2. TypeOK /\ CacheInv /\ MergeInv /\ [Next]_vars => MergeInv'
  BY DatedStep, SeparatedStep, UnwrittenStep, MergesStep DEF MergeInv
<1> QED BY <1>1, <1>2, CacheInvariance, PTL DEF Spec

(* An event of one object changes nothing that the node of the present     *)
(* cluster has from the other, and loses nothing of its own, although the  *)
(* handlers of both kinds and deletes run at the same time.                *)
THEOREM MergesKeepFields ==
    ASSUME "commit" \notin Faults
    PROVE  Spec => FieldsMerged
<1> DEFINE Kept(c) == FirstTerm /\ Present(c) /\ node'[c] # None
                        => \E k \in Kinds : Extends(k, node[c], node'[c])
<1>1. ASSUME TypeOK, CacheInv, MergeInv, [Next]_vars, NEW c \in Clusters PROVE Kept(c)
  <2>1. ASSUME node'[c] = node[c] PROVE Kept(c)
    BY <2>1 DEF Extends, Kinds, OwnKeys
  <2>2. ASSUME NEW p \in Pods, NEW k \in Kinds, Frame(p, k), Effect(p, k),
               FirstTerm, Present(c), node'[c] # None, node'[c] # node[c]
        PROVE  Extends(k, node[c], node'[c])
    <3>1. p = leader /\ MergesInTerm(c)
      BY <1>1, <2>2, FirstTermFacts DEF Frame, MergeInv, Present
    <3>2. /\ handler[p][k].pc = "exec" /\ handler[p][k].cluster = c
          /\ node'[c] = handler[p][k].props
      BY <2>2 DEF Frame, Effect
    <3> QED BY <2>2, <3>1, <3>2 DEF MergesInTerm
  <2>3. \/ UNCHANGED node
        \/ \E p \in Pods, k \in Kinds : Frame(p, k) /\ Effect(p, k)
    BY <1>1, StepCases, StartStopUnchanged, DieUnchanged, EnvironmentEffect, DeliverEffect
       DEF Quiet
  <2> QED BY <2>1, <2>2, <2>3
<1>2. TypeOK /\ CacheInv /\ MergeInv /\ [Next]_vars => [\A c \in Clusters : Kept(c)]_vars
  BY <1>1
<1> QED BY <1>2, MergeInvariance, PTL DEF Spec, FieldsMerged
=============================================================================
