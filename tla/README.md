# A verification of search-indexer

search-indexer keeps a PostgreSQL database with the resources and edges of many
Kubernetes clusters. A collector in each cluster sends complete states (*resync*)
and differences (*sync*) over HTTP. Besides, the one leader among the indexer's
pods follows the cluster objects of the hub, keeps one row per managed cluster
(its *node*) and deletes the rows of clusters that went away.

This directory holds TLA+ modules for that program, configurations for the model
checker TLC, and proofs for TLAPS. `PROJECT.json` maps each definition to the lines
of the code that it models. Line numbers here are those of the mapped commit; paths
are relative to `pkg/` where they do not start with `docs/`.

## 1. The system

| Component | State | Operations | Interacts with |
|---|---|---|---|
| Batch with retry (`database/batch.go`) | queue, WaitGroup, `connError`, error arrays of the response | `Queue`, `flush`, `sendBatch` (recursive) | one goroutine per batch; callers are the three functions below |
| Delta sync (`database/sync.go`) | the two tables | `SyncData` | queues statements in a batch, waits for them |
| Full resync (`database/resync.go`, `goquHelper.go`) | the two tables | `resetResources`, `upsertResources`, `resetEdges`, `addEdges` | two batches in sequence; starts the hub cleanup |
| Hub rename cleanup (`database/resync.go:230-316`) | the two tables | `hubClusterCleanUpWithRetry` | a goroutine that outlives its request |
| Cluster totals (`database/dataValidation.go`) | reads the tables | `ClusterTotals` | called by the handler after a request |
| Sync handler (`server/syncHandler.go`) | one response | `SyncResources` | calls sync or resync, then totals |
| Request limiters (`server/requestLimiter.go`, `largeRequestLimiter.go`) | map of clusters in progress, counter of large requests | two middlewares | wrap the handler |
| Cluster watch (`clustersync/clusterSync.go`) | informer stores (client-go), a mutex | `deleteStaleClusterResources`, `processClusterUpsert`, `processClusterDelete` | one goroutine per informer; calls the DAO |
| Node upsert and delete (`database/upsertCluster.go`) | node rows, rows of a cluster | `UpsertCluster`, `DeleteClusterAndResources`, `GetManagedClusters` | cache, tables |
| Clusters cache (`database/cache.go`) | map uid → properties, per pod | read, update, delete | lives as long as the process |
| Leader election (`clustersync/leaderElection.go`) | a Lease | start and end of a term, terms of one pod overlap | starts and cancels the watch |
| Main, server, pool and schema (`main.go`, `server/server.go`, `database/connection.go`) | process, listener, the tables themselves | start in order, signal, exit after 5 seconds | starts the election and the server, cancels the context of everything |
| Data model, configuration, metrics, test utilities | | | see `PROJECT.json`, *components* |

What is hard in it:

* **Concurrency.** Batches of one request run in goroutines that share the error
  arrays and `connError`; requests of several clusters interleave; three informer
  goroutines share a cache, of which only the upserts take a lock; cleanup goroutines
  of several resyncs overlap.
* **Failure.** A statement may be rejected, or be lost with its connection before or
  after it was committed; a request body may end early; a pod restarts or loses the
  lease in the middle of a handler; a cleanup fails or breaks off and is not tried again.
* **Ordering.** The statements of a request run in any order; the events of two objects
  write the same node.
* **Check, then act.** The limiters, the stale-cluster list and `UpsertCluster` decide
  on what they read before.

The `hazards` in `PROJECT.json` name each of these at its line, with the properties that
cover it, or why none does.

What makes each component correct:

* *batch*: every query is settled exactly once, `Wait` covers all retries, bad queries
  are isolated and reported, a nil result means that nothing got lost;
* *sync and resync*: a collector that was told that all went well has its state in the
  tables, rows of other clusters and the nodes are untouched; what goes wrong without
  being reported is repaired by the collector's protocol;
* *limiters*: entries and counter follow the requests in flight, nobody is shut out,
  the limits hold;
* *hub cleanup*: everything under old names goes, nothing under the present one does;
* *cluster watch*: the node follows the objects, the cache tells the truth, rows of
  clusters that went away go;
* *pods*: a pod listens when it has its tables and leads at most once at a time, a term
  takes its goroutines with it, and some pod watches in the end.

## 2. The modules

| Module | Models |
|---|---|
| `BatchContract` | What a batch promises its caller: accept, settle once, return. |
| `BatchRetry` | `batch.go` and its callers' queue loop. A call of `sendBatch` is the range of queries that it sends. Implements `BatchContract`. |
| `BatchRetryProofs` | Theorems about `BatchRetry`. |
| `RequestLimiter`, `RequestLimiterProofs` | Both middlewares; theorems. |
| `SearchTables` | `search.resources` and `search.edges`, and what each kind of statement does to them. |
| `SyncRequest`, `SyncRequestProofs` | Handler, sync, resync and totals for several clusters over `SearchTables`, and the collector as their environment; theorems about types and isolation. |
| `SyncStoreProofs` | Theorems about what a confirmed state means: `InSync` and the refinement of `ClusterStore`. |
| `ClusterStore` | What the indexer promises the collectors: one state per cluster, changed by nobody but a request of the cluster, and a confirmed state that is the stored one. `SyncRequest` implements it (`StoreSpec`). |
| `CollectorCycle`, `CollectorCycleProofs` | Composition: `SyncRequest` with collectors that follow the protocol, clusters that change, and clustersync's delete of a cluster's rows; theorems. |
| `HubCleanup`, `HubCleanupProofs` | Renames of the hub and the cleanup goroutines; theorems. |
| `ClusterNode`, `ClusterNodeProofs` | Cluster watch, node upserts and deletes, caches of the pods, terms of leadership, and collector requests as far as they write rows; theorems. |
| `IndexerPods`, `IndexerPodsProofs` | Processes, tables, server, the election loop, and the loops that start and stop the informers; theorems. |
| `MC…` | Instances for TLC. |

`SyncRequest` extends `SearchTables`. It uses the result of `BatchRetry` rather than
composing with it: each statement is a batch of its own that is executed, isolated, lost,
dropped (`batch.go:83`, the fault `"close"`) or refused. These are the outcomes that
`BatchRetry` has for each query of a larger batch.
`CollectorCycle` extends `SyncRequest` and adds the environment that closes the loop: the
collector, which compares the totals, and `DeleteClusterResourcesTxn`. `IndexerPods` is
where the terms of `ClusterNode` come from: it shows that a pod has one live term and that
the goroutines of a cancelled one end, which `ClusterNode` assumes of `leader` and of the
handlers of a former term.
`ClusterNode` reduces a collector request to "it writes rows while in progress", and
`HubCleanup` reduces the tables to the names with rows.

### How state and actions correspond to the code

*BatchRetry.* `QueueItem` and `QueueAndSend` are the two outcomes of an accepted
`Queue`; `QueueRefused` is its early return; `Flush`/`FlushNothing` and `Wait` end the
caller. In `sendBatch` the round trip to the database is one step with the outcomes
`SendOk`, `CloseFails`, `Isolate` and `Split`. The unlocked `append` is two steps
(`AppendRead`, `AppendWrite`), as the data race allows. The five error arrays are one set.
`wg` is the counter of the WaitGroup: `Add` happens in the step that starts the goroutine
or decides on the retry, `Done` in `Return`.

*RequestLimiter.* The stages of a request are the points between the locked sections:
`Accept`/`Reject` read the tracker, `Track` writes it, `Untrack` is the deferred delete;
likewise for the counter.

*SyncRequest.* `todo` holds the statements of the running request, `errors` whether any
error array is not empty, `connError` and `decodeErr` the errors the functions collect,
`phase` the place in the handler. `known` is the collector's: the state that it
may rely on. It is `Unknown` from the start of a request until a response with status 200
and no error arrives, and for a delta also when the delta did not start from a
known state. `late` holds statements of abandoned batches (`resync.go:158`).
Tables are sets of rows; an `ON CONFLICT` clause is the condition of `Upsert` or of the
insert of an edge. The uids that a request names are unrestricted: they may belong to other
clusters, and a delta may delete the node of its own cluster (`sync.go:75-92` checks none).
A body that is not decoded to its end gives any subset of its contents, with an error
(`decodeErr`) or, if it ends between two elements, without one (`resync.go:185`, `193`, `324`,
`332`). The phases `totals`, `count` and `respond` lie before the two counts of
`ClusterTotals` and before the response, so that deletes by others may come between them.
`lapses` is a history variable: what went wrong since the last resync of the cluster began and
is in no response. It has four members: a batch was dropped, a body ended between two
elements, the query for the existing edges failed, a statement of an abandoned request took
effect. Properties that a lapse breaks mention it; section 5 shows that each one does.

*ClusterStore.* Its `store` is what `OwnResources` and `OwnEdges` select from the tables of
`SyncRequest`, `busy` the clusters with a phase other than `idle`; a statement is a `Write`
or a stutter, `RespondOk` is `Confirm` or `Disappoint`, `Fail` is `Disappoint`. A response
after a lapse confirms nothing: its `known` counts as `Unknown`.

*CollectorCycle.* `actual` is the state of a cluster. The collector sends a delta from the
state confirmed last while the totals of the last response are those of that state, and its
whole state otherwise (`docs/ARCHITECTURE.md` and `syncHandler.go:77`: "for validation by the
collector"). `Work` is what goes as intended, `Disturb` what goes wrong: bodies that cannot
be decoded or end early, statements that are isolated, lost or dropped, the edge query that
breaks off, totals that fail, a request that ends without a response (`Break`), and
`DeleteClusterResources`, also between the two counts and the response. `Visible` excepts the
lapses that equal totals can hide: a dropped batch, in which an insert and a delete
balance, and a resync of which both the body ended early and the query for the edges failed,
when the edges that are missing and those that are left over balance.

*HubCleanup.* `resync` is the place of a resync of a name, `task` the cleanup goroutines
with the name they were started for, the name they are deleting and those left to do. A
resync starts its cleanup only if the resource decoded last is marked as one of the hub
(`resync.go:42`); `ResetEdgesUnmarked` is the other case.

*ClusterNode.* `object` is the API server, `seen` what an informer has in its store,
`handler` one event per informer goroutine and pod, `cache` per pod, `node` and `rows` the
database, `cleanup` the stale-cluster search at the start of a term. Handlers are split at
each database call and each cache access. A pod's upserts exclude each other
(`Locked`), its deletes do not. `overlooked` is a history variable: the clusters whose end
the present term cannot notice, because its cleanup failed or broke off, or because the
object went away between the cleanup's list and the informer's. It is empty at the start of
every term. A tombstone in the delete handler ends the process (`Tombstone`).

*IndexerPods.* `process` is the place in `main`, with the statements of `InitializeTables`
one by one (the indexes together); `missed` remembers that one of them failed. `elector` is
the place in the loop around `RunOrDie`: when a renewal fails the lease is given up
(`released`) before the context of the term is cancelled, as client-go does it. A term is a
place of its pod; `live` are the terms whose context is not cancelled. `loop` holds the
variables of `stopAndStartInformer`; `stopper` is `used` if the informer was run with it and
`unused` if client-go refused to run the informer a second time.

## 3. The runs

Runs that pass:

| Run | Bounds | Shows |
|---|---|---|
| `BatchFaults` | 5 queries, batches of 3, all 32 sets of bad queries, connection errors at any time | One full batch and one flushed rest of two in flight together; batches of 3 and 2 split into uneven and even parts and reach single queries at depth one and two. The inductive invariant, the wait, the exact isolation, reports of failed queries only, the clean return, single settlement, termination, and the refinement of `BatchContract`. |
| `LimiterRaces` | 3 requests, 2 clusters, limits of 1 | Two requests of one cluster and one of another meet in every step of both middlewares; limits of 1 make "full" reachable for both. |
| `SyncFaults` | 1 cluster that sends, another that has rows; 2 names each, 2 values; three states, two of which differ by a delta that updates a resource, deletes another with its edge and inserts an edge at once, and one that names a resource of the other cluster; all faults but `"late"` | Any order of statements, deltas with and without a known base, rejected, lost, dropped and refused statements, bodies that cannot be decoded or end early, failing queries. A confirmed state is stored, with its totals, unless there was a lapse; `SyncInv`, which this rests on: the waiting statements lead to the state whatever their order; every step is one of `ClusterStore`. |
| `SyncStragglers` | 2 clusters that send; *a* has two states, one with resources named like one of *b* and like the node of *a*, and *b* has an edge into *a*; a dead connection, late statements | Statements of both clusters in any order, and some of requests that are over. Types and primary keys, isolation of the two clusters, the nodes until a delta names one; the inductive invariants `IInv` and `SyncInv`. |
| `CollectorConverges` | 1 collector with 3 states (one with an edge to another cluster's resource), 3 changes, 3 disturbances | Three failures of any kind in any order, each within or between requests: a collector that trusts the totals has its state in the tables, or they were emptied since the count (`TrustEarned`), and finds nothing there that is not in its state (`TrustHolds`), unless a lapse occurred that equal totals can hide; both rest on `TrustInv`. The tables converge to the cluster, or have its totals after such a lapse; the resyncs cease, and the node stays. Three changes lead from a state to any other and back. |
| `HubRename` | 3 names, 2 renames, 2 goroutines, 1 failure, broken-off query, restart or resync without a marked last resource | Cleanups of several names overlap; the failure may hit any statement. `OldResourcesPursued`: what a cleanup is on its way to stays pursued until it is gone. `OldResourcesGo` is claimed for behaviours in which no goroutine is ended too early (`missed`). |
| `NodeOneTerm` | 1 cluster, 1 pod, 5 changes, 1 failure | All orders of the events of both objects with deletes and failures in between; the cache agrees with the node, also in the middle of an upsert (`CacheInv`); an event of one object leaves what the node has from the other (`FieldsMerged`, with its invariant `MergeInv`), also when the cluster is deleted and created again within the five changes. |
| `ClusterFailover` | 1 cluster, 2 pods, 2 terms, 3 changes (both objects are created and one goes), 1 failure: a cleanup that fails or breaks off, a write that was committed and failed, a restart, a tombstone | End of a term at every step; statements that land after their term; objects that go away at any time, also unnoticed by the first term. |
| `PodTerms` | 2 pods with places for 2 terms, 1 kind, 2 failures or changes of the CRD | Two failures are a CRD that goes and returns, both pods losing the lease, or a crash in the middle of a shutdown. Processes restart and terms recur without bound. The three kinds of the code have loops that share nothing but their context; one is enough. |

Type invariants: `SyncRequest`'s is a conjunct of `IInv` (`SyncStragglers`) and of `TrustInv`, which
also contains `CycleTypeOK` (`CollectorConverges`); those of `BatchRetry` and `IndexerPods` are
conjuncts of their `IInv`. `RequestLimiter!TypeOK` is proved for all constants and has no
run: `LargeCountExact` gives the counter its exact value.

Clusters do not share state in `ClusterNode` but the mutex, which only delays; one cluster
is enough for its properties, and likewise one collector for `SyncFaults` and
`CollectorConverges`, since `SyncStragglers` (`ForeignRowsKept`, and `SyncInv` with two
clusters) shows that the others do not touch its state. The initial database of the sync runs is
one that the indexer leaves behind, with the nodes, rows of earlier requests and an interCluster
edge.

Runs that find a property violated, each a disagreement between a statement in the
repository and the code (`findings` in `PROJECT.json` quotes them):

| Run | What happens |
|---|---|
| `BatchReportLost` | Two batches each isolate a bad query and append at once: one report is lost, and the request answers 200 with one error of two. |
| `NodeStaleCache` | A pod leads, loses the lease to one that writes a newer node, leads again and skips the write because its old cache agrees with the object. |
| `NodeResurrected` | An upsert that has decided to write is overtaken by the delete of the cluster, and writes the node back for good. |

### Fairness

* `BatchRetry`, `RequestLimiter`: weak fairness of each goroutine. The Go scheduler runs
  them, and database calls return since they use the context of the request. Nobody has
  to send a request.
* `HubCleanup`: weak fairness of each goroutine; strong fairness of a resync under way,
  because in the model it waits for one of a bounded number of task slots, which the
  code does not. Failures are bounded, which is the assumption that the database
  comes back. Starting a resync is not fair.
* `ClusterNode`: weak fairness of the steps of a term; strong fairness of handlers (they
  wait for the mutex) and of the delivery of each object, since informers resync
  periodically (`AddEventHandlerWithResyncPeriod`) and list again after a start. Changes, terms
  and failures are bounded, so "eventually" means "once they cease".
  A removal or a failure in the last term (`overlooked`) would be repaired by a next one, which
  the bound on the terms excludes; nothing in the code ends a term on its own.
* `CollectorCycle`: weak fairness of `Work` per collector: requests are processed, since
  statements run with the context of the request and the retries of a batch end
  (`BatchCompletes`), and the collector sends its next request, also when nothing changed.
  Disturbances and changes are bounded.
* `IndexerPods`: weak fairness of `main`, of the loops and of the informers; an expired lease
  is noticed, and somebody gets it; a pod that ended is started again. No fairness of crashes,
  signals and failing renewals, which are bounded.
* `RequestLimiter`'s `EntryDeleted` assumes that the handler returns. It does unless a token loop
  spins on a malformed body (`resync.go:184`, `323`).
* `SyncRequest` by itself has safety properties only.

`CHECK_DEADLOCK FALSE` appears where the modelled system really stops: a batch ends with
its request, the bounded environment of `ClusterNode` runs out, and `IndexerPods` comes to
rest when a leader watches.

## 4. What is proved

The proofs hold for every value of the constants that satisfies the `ASSUME`s of the
modules, in particular any number of queries and any batch size above zero, any finite set
of requests, and any clusters, states and contents of the tables.

**BatchRetryProofs.** The invariant `IInv` consists of: *Nested* (two calls in flight have
disjoint ranges, or one is a retry the other waits for), *Counted* (`wg` is the number of
calls in flight plus the number of second halves to come), *Ownership* (a query is pending
exactly while it is in the queue or some call owns it), *Shapes*, *Phases* and *LossNoticed*.
Neither *wait is complete* nor *settled once* is inductive without *Counted* and
*Nested*: from `wg = 0` one concludes that nothing is in flight only by *Counted*, and from
this that nothing is pending only by *Ownership*. Theorems: `Invariance`, `TypeCorrect`,
`WaitIsComplete` (unless the caller abandons its batch), `SettlesOnce`, `NothingLost`
(assumes that `Close` reports no errors but those of the connection, since the code drops
the batch otherwise) and `KeepsContract` (a caller that waits implements `BatchContract`).
`SearchIsExact` adds to the clean return that the database stores no bad query and that a good
one is never isolated (`FatesExact`); a transient error of `Exec`, which the code cannot tell
from a bad query, would break the latter and is excluded. `ReportsAreTrue` needs no such
hypothesis: a call that appends a report has a failed query (`ReportsTrue`), and a lost append
loses a report but makes none up.

**RequestLimiterProofs.** `EntryHasOwner` and `LargeCountExact` are inductive together
with the fact that only large requests take the branch for large ones. `PatientEntriesKept`
assumes that a collector awaits its response, which keeps two requests of a
cluster from being in flight together.

**SyncRequestProofs.** `IInv` says that every waiting or late statement is one its
cluster may send; that no statement touches a foreign row then follows from what each kind
of statement does to the tables, case by case. Type correctness includes the primary keys of both
tables. `ForeignRowsSafe` and `NodesSafe` are the action properties of the runs. `NodesSafe`
holds for whatever uids a request names, with the one exception that the code leaves open: a
delta of the cluster itself that has its node among the resources to delete.

**SyncStoreProofs.** `InSync` speaks of idle clusters only and says nothing about a request
under way; `SyncInv` says what makes it true in the end. For a request that can still end
without an error (*Clean*: no report, no lost statement, no failed decoding, a known base, and
no lapse since the last resync began), *Progress* states what the waiting statements will do, in whatever order: each resource and edge
of the state is stored or has its insert or update waiting, each other row of the cluster has a
statement waiting that removes it, and no waiting statement removes or overwrites what belongs
to the state. When none waits, the tables hold the state, and what was counted so far are its
totals (*Counted*). The rows of one cluster must also be out of the reach of the others, although the primary keys do not contain
the cluster: *RowsOwned* (a uid starts with its cluster; an edge is claimed by one cluster).
The lemmas follow a statement through both tables, kind by kind, and a phase through its
transitions: a delta from the known base, a resync, and the edges of a resync, for which the
resources must be complete. Theorems: `SyncInvariance`, `InSyncHolds` and `ImplementsStore`, which
uses `InSync` for the step that confirms a state and `ApplyStatement` for the others. The first two
hold under all faults of the module, since the state that they speak of is one without a lapse.
Their hypotheses are

* `ConsistentStates`, about the environment: a uid occurs once in a state, no two
  clusters send the same edge, an edge into the cluster's own resources names one that is in the
  state, and none has the type `interCluster`, which the resync leaves alone
  (`resync.go:121`); the rows at the start are where requests would put them. The instances of TLC satisfy it (`StatesAreConsistent`);
* for `ImplementsStore` also that `"late"` is not among the faults: a statement that outlives its
  request changes the state of its cluster while no request is under way (section 5).

**CollectorCycleProofs.** Each step of the composition is one of `SyncRequest`, and keeps its
`IInv`, or a request that breaks off, or the delete of the rows of a cluster (`CycleStep`).
`CycleTypeCorrect`, and `CycleNodesSafe`: the node survives all three, with the exception of
`NodesSafe`.

The second half is about the totals. A response gives two counts, and `TotalsAreEnough` says how far a
collector that finds its own two counts in them may trust the tables. It may not if a batch was
dropped since the last resync began, or if in one resync the body ended early and the query for the
edges failed: then what is missing and what is left over can balance, and section 5 has a run for
each. In all other cases (*Visible*: a failing query alone, a body that ends early alone, deletes
by clustersync at any time, broken-off requests and everything that is reported) the
tables hold the state of the collector when the response is given, or clustersync has
emptied them, in its one transaction, since they were counted; the totals are older than the
response by that much (`syncHandler.go:78`, `88-94`).

The argument is not that the tables are right, as in `SyncInv`, which fails here, but
that they are wrong in one direction only. `TrustInv` follows a request: while it can still
be acknowledged, what it has done and what its waiting statements will do, in any order, leave
no resource but those of the collector's state (some are missing if clustersync deleted rows in the
middle, or the body ended early), and either no edge but those of the state or all of them (old
ones stay if the query for them broke off). A finite set that is a part of another and has as many
elements is the same set (`FiniteSetTheorems`), so that equal counts give equal tables; *CountsHold*
carries this from the two counts to the response. `TrustIsSafe` is the invariant `TrustHolds`: as
long as the collector trusts, the tables hold nothing of its cluster that is not in its state. The
theorems assume `ConsistentStates`, as those of `SyncStoreProofs` do. They are the safety half of
`Converges`.

**ClusterNodeProofs.** `TypeCorrect` includes that at most one upsert of a pod is past the lock.
`CacheAgrees` says nothing while an upsert is between its write and its update of
the cache, when deletes may run, or between its query of the node and putting the answer into
the cache; `CacheInv` adds that such an upsert then finds the properties that it wrote or read
in the node, or no node. This holds of a pod that alone has handled events (*Sole*: the
only pod, or the leader of the first term); no other pod can write then. So `FirstLeaderAgrees`
is about the first term and `OnlyPodAgrees` about a single pod and all terms; with two pods and two terms
the claim fails, and an old cache of this kind is what `NodeStaleCache` needs. Both exclude `"commit"`, a write that takes effect
and reports a failure, after which the cache is older than the node (section 5).

`MergesKeepFields` (`FieldsMerged`) is about the merge of the two objects. A handler reads the cache,
the database and writes in separate steps, and its merge is right if it saw the node of the
present cluster. `MergeInv` has what this takes: *Separated* (an object has the properties of its
kind only, and only the end of a ManagedCluster takes a node away), *Dated* (a ManagedCluster that is
created has a creation time of which no node, cache or event has a copy yet), and
*MergesInTerm* (while a delete is under way nobody has a copy of the present creation time; a
node that has it is in the cache of the leader, or an upsert is about to put it there; an upsert past the merge
extends the node it will replace). Without *Dated* a delete could take the entry of a cluster that was
created again. `HandlerEffect` and `StepCases` reduce the steps to what they do to the event, the
node and the cache, which is what the lemmas after them use. The theorem is about the first
term, since a restart empties the cache, after which the code loses fields (`FieldsKept` in section 5).

**HubCleanupProofs.** `TypeOK` includes that no goroutine has the name it works for among the
names it is deleting or has left to do; with this it is inductive (`TypeCorrect`). `NothingEscapes` (`OldResourcesPursued`) is the safety half of
`OldResourcesGo`: the names that a goroutine is yet to delete cover those with resources, each
round of its loop keeps this, a retry starts again with all names, and other goroutines can
only take names away.

**IndexerPodsProofs.** For any pods, places, kinds and number of failures. `IInv` has four
parts with a lemma each: types; *Led* (`OneLiveTerm`, and that a pod leads only while `main` is
up, and has no live term while it stops: without this `ExitElection` would break it);
`InformersOwned`, which is inductive with the types; *Made* (what exists when `main` is at a
statement, if none failed). *Made* does not mention the other pods: what exists is never
dropped, so that pods that start together only help each other.

Every safety property of a passing run is stated by a theorem. **Only model-checked:** liveness
(`BatchCompletes`, `EntryDeleted`, `OldResourcesGo`, `NodeFollows`, `RowsGo`, `Converges`,
`ResyncsCease`, `TermEnds`, `LeaderWatches`), which with `ENABLED` is beyond TLAPS.

## 5. Other departures of the code

The modules contain further properties that the code does not have. Each is reproduced by a
configuration with the property and the constants below, the others small (one
or two elements).

| Property | Constants | What happens |
|---|---|---|
| `BatchRetry!ErrorsReported` | `N = 2`, `BatchSize = 2`, `Faults = {"close"}` | `Close` fails with another text than the two known ones: the batch is neither retried nor reported (`batch.go:83-84`). |
| `RequestLimiter!AtMostRequestLimit` | 2 clusters, 2 requests, limits 1, `Patient = TRUE` | Two requests read the tracker before either is entered: both are handled with a limit of 1, unlike `docs/ARCHITECTURE.md:68` says. |
| `RequestLimiter!OneRequestPerCluster` | `Clusters = {c1}`, 2 requests, limits 2, `Patient = FALSE` | Two requests of one cluster that arrive together are both handled, unlike `requestLimiter_test.go:33` says. |
| `RequestLimiter!AtMostLargeRequestLimit` | 2 clusters, `RequestLimit = 2`, `LargeRequestLimit = 1` | Likewise for large requests (`docs/ARCHITECTURE.md:69`). |
| `SyncRequest!InSync` without `lapses` | `States <- OneWriter`, `Faults = {"close"}` | A batch is dropped and the request answers 200 without an error (`batch.go:83-84`). |
| `SyncRequest!InSync` without `lapses` | `States <- OneWriter`, `Faults = {"cut"}` | The body of a resync ends between two elements: what was not decoded is deleted, and the answer is 200 (`resync.go:193`, `332`). |
| `SyncRequest!InSync` without `lapses` | `States <- OneWriter`, `Faults = {"query"}` | An error of the query for the existing edges is only logged, and one in the middle of its rows is not looked at: old edges stay and the answer is 200 (`resync.go:124-137`). |
| `SyncRequest!InSync` without `lapses`, `StoreSpec` | `States <- Turning`, `Faults = {"conn", "late"}` | `resetEdges` returns without waiting for its batches; a statement of it lands in the state of a later request (`resync.go:158-161`). |
| `SyncRequest!NodesKept` without `DeletesNode` | `States <- TwoWriters`, `Faults = {}` | A delta that names the node of its own cluster among the resources to delete deletes it (`sync.go:75-92`). |
| `SyncRequest!LinkedEdgesKept` | `States <- OneWriter`, `Faults = {}` | A resync deletes edges to resources of other clusters that exist (`resync.go:80-94`). |
| `CollectorCycle!TrustEarned` without `Visible`, `Converges` without its second case | `Faults = {"close"}` or `{"cut", "query"}`, `MaxChanges = 1`, `MaxDisturbances = 2` or `3` | Dropped statements, or edges that were not decoded and edges that the query did not return, leave other tables with the same totals: the collector trusts them, and nothing repairs them (`batch.go:83-84`, `resync.go:124-137`, `332`). |
| `CollectorCycle!TrustEarned` without `Nothing` | `Faults = {}`, `MaxChanges = 1`, `MaxDisturbances = 1` | The rows of the cluster are deleted after they were counted and before the response is given (`syncHandler.go:78`, `88-94`). |
| `CollectorCycle!Converges` with late statements | `Faults = {"conn", "query", "late"}`, `MaxDisturbances = 3`, the assumption on `Faults` dropped and `LateStatement` added to `CycleNext` | A resync whose query for the existing edges fails keeps an old edge (`resync.go:124-127`), a late statement of the request before it deletes a new one, and the totals agree: the collector does not notice (`resync.go:158-161`). |
| `HubCleanup!OldEdgesGo` | 2 names, 2 tasks, 1 rename, 1 failure, `Faults = {"exec"}` | Resources of the old name are deleted, the delete of its edges fails, the retry reads the names from `search.resources` and finds none: the edges stay, unlike `resync.go:230-231` says. |
| `HubCleanup!HubKept` | 2 names, 1 rename, `Faults = {}` | A cleanup that was started under the old name deletes the resources stored under the new one (`resync.go:43`, `281`). |
| `HubCleanup!OldResourcesGo` without the condition on other resyncs | 3 names, 2 renames, `Faults = {"overlap"}` | A resync of an old name that is still writing puts rows back after the cleanup. |
| `HubCleanup!OldResourcesGo` without `[](~missed)` | 2 names, 1 rename, 1 failure, `Faults = {"rows"}` or `{"restart"}` | The query for the names breaks off, which is taken for its end (`resync.go:275`), or the indexer restarts: old rows stay until the next resync. |
| `ClusterNode!DeletedNodeGoes` | `Infos = {}`, `MaxTerms = 2`, `Faults = {"delete"}` | A cluster deleted while nobody leads: the cleanup removes its rows and keeps its node (`clusterSync.go:146`). |
| `ClusterNode!NodeFollows` | `Infos = {}`, 2 values of `Status`, 3 changes, 1 failure, `Faults = {"commit"}` | A write was committed but reported as a failure; the cache is older than the node, and when the object returns to the cached state the node is not written (`upsertCluster.go:177-187`). |
| `ClusterNode!RowsGo` without `overlooked` | constants of `ClusterFailover`, `Faults = {"delete"}` or `{"delete", "list"}` | The cluster goes away between the cleanup's list and the informers' first, or the cleanup fails or breaks off (`upsertCluster.go:329`): within the term nobody notices (`clusterSync.go:88-115`). |
| `ClusterNode!RowsGo` | same, `Faults = {"delete", "late"}` | A request in progress writes rows after the add-on's rows were deleted. |
| `ClusterNode!NodeFollows` | constants of `NodeOneTerm`, `Faults = {"drop"}` | A condition that disappears from the object is merged back from the cache and stays in the node (`clusterSync.go:253`). |
| `IndexerPods!InformerRestarts` | constants of `PodTerms`, `Faults = {"crd"}` | A CRD is removed and installed again: the loop runs the informer a second time, client-go does nothing, and nothing is watched until the next term (`clusterSync.go:177-181`). |
| `IndexerPods!ListeningHasTables` without `missed` | constants of `PodTerms`, `Faults = {"exec"}` | A failed `CREATE` is only logged: the pod listens without the table (`connection.go:122-129`). |
| `ClusterNode!OfflineSpared` | 2 terms, `Faults = {"offline"}` | The cleanup takes a cluster whose label is not `available` for stale (`clusterSync.go:390`). |
| `ClusterNode!FieldsMerged` | constants of `NodeOneTerm`, `Faults = {"commit"}` | A write that was committed but reported as a failure leaves the cache older than the node; the next event of the other object merges the older properties into the node (`upsertCluster.go:177-187`, `clusterSync.go:250`). |
| `ClusterNode!FieldsKept` | `Infos` of one element, 2 terms, 1 failure, `Faults = {"restart"}` | After a restart the merge reads a cache that is not loaded yet, and the write takes the other object's properties from the node until its next event (`clusterSync.go:250`). |

Five more hold with other constants than those of the runs: `RequestLimiter!EntryKept` with
`Patient = TRUE` (also proved); `SettledOnce`, `IInv` and `BatchCompletes` of `BatchRetry` with
`Abandons = TRUE` and all faults; `SyncRequest!InSync`, `SyncInv` and `StoreSpec` with
two clusters that send, `States <- Crossing` and `Faults = {"bad", "conn"}`; `ClusterNode!CacheInv` with two terms, of one pod (4 changes)
or of two (3 changes), and `Faults = {"delete", "exec", "restart", "drop", "zombie"}`; and `MergeInv` and `FieldsMerged`
with two pods, two terms, 4 changes and these faults with `"tombstone"`.

## 6. Limits of the models

* `BatchRetry`: the database executes a batch as one transaction, as `batch.go:88` says.
  Whether a rejected query surfaces in `Exec` only, or in `Close` as well, is up to the driver
  (that of the code, pgx v4, is not part of this repository; if its `Close` repeats the error,
  every rejected query is the second case);
  the fault `"close"` is the second case. The passing run excludes it and `"transient"`.
* `SyncRequest`: a cluster has one request in progress at a time, as the tracker intends.
  A batch is one statement: one that is dropped (`"close"`) takes a single statement with it, and
  several are dropped one by one. Of a body that ends early any part may have been decoded, also
  parts of both lists that no order of them in the body gives. Names, kinds and property bags are
  values from small sets. A body on which the token loops (`resync.go:184`, `323`) never
  end is not modelled. The counts of added and deleted items in a response are not.
* `HubCleanup`: at most `Tasks` goroutines at a time. A resync whose last resource is not marked
  counts as a failure (bound). Rows of managed clusters are left
  out; `checkHubClusterRename` selects rows of the hub only.
* `ClusterNode`: an informer may skip intermediate versions of an object; a transaction
  that fails and is tried again changes nothing and is not a step. `created`
  is the number of the change that created the object. A tombstone is met only by the pod that
  leads, and a restart or a tombstone is not modelled in the last term (bound).
* `CollectorCycle`: how a collector uses the totals is not in this repository; it is modelled
  as the handler's comment says it is meant.
* `IndexerPods`: the lease is one variable with expiry, as client-go keeps it if clocks run at
  about the same rate. A look at the CRDs and what follows from it are one step. Discovery
  errors other than "not found" change nothing. The variable `leader` is written by two
  goroutines without a lock, and only logged. The `DROP SCHEMA` of the development mode, the
  settings of the pool and the health checks of its connections are left out.

**Not modelled.** Configuration (environment variables and clients, read once at the start),
metrics (nothing depends on them), TLS, routing and probes (library configuration), test utilities; the
counts of added and deleted items in a response, and `encodeError`, on which nothing depends;
the token loops on malformed JSON, which are a matter of the decoder.

## 7. Plan

Done: the batch with its contract and proofs; the limiters with proofs; sync and resync with
proofs of isolation, of `InSync` and of their refinement of `ClusterStore`; the composition
with collectors and with the deletes of clustersync, with proofs of what the totals tell; hub cleanup with
proofs; cluster watch with proofs about types, caches and the merge; the pods, the election and the life
cycle of the informers with proofs.

What a next step would be:

1. `ClusterNode`: an invariant for two pods that says which entries of a cache may be old.
2. `RequestLimiter`: bounds for how far the limits can be exceeded.
3. `CollectorCycle` with two collectors whose clusters share resources.
