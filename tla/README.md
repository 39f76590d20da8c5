# A TLA+ verification of the UpCloud Kubernetes operator

The operator reconciles 25 kinds of Kubernetes custom resources with resources
of the UpCloud API. Every kind is served by the same generic loop
(`internal/reconciler`) and by an adapter of its own
(`internal/controller/<group>/<kind>_adapter.go`) with four calls: Observe,
Create, Update, Delete. This project models that loop at three levels, checks
each with TLC, and proves with TLAPS all the safety properties that hold, among
them that the second level implements its abstract specification:

- **one object, every remote call** (`Reconciler`): the generic loop over the
  adapters of the seven kinds at the root of the dependency tree, with a lagging
  cache, crashes and lost answers;
- **objects that refer to each other** (`Stack`): all 25 kinds, parents and
  children, references, watches, and UpCloud's refusals, shown to implement the
  abstract specification `Lifecycle`;
- **adapters with a protocol of their own** (`AccessKey`, `DatabaseUser`,
  `Database`, `Rotation`, `StorageUser`): those that make several calls in one
  pass, or keep a Secret in step with UpCloud, call by call.

## 1. Inventory

| Component | State it keeps | Operations | Made correct by |
|---|---|---|---|
| generic reconciler (`reconciler.go`, `conditions.go`) | nothing between passes; in a pass the object read from the cache and a copy of its status | dispatch, finalizer, observe / create / update / delete, status patch | one resource per object, finalizer before the first create, deletion confirmed, truthful Ready |
| root adapters: Router, Network, Gateway, NetworkPeering, FloatingIP, ManagedObjectStorage, LoadBalancer | `status.uuid` (`status.address`) on the API server; the resource in UpCloud | lookup by id or by label, compare, create, modify, delete | adoption instead of duplicates, no leak, edits applied |
| child adapters: GatewayConnection, GatewayTunnel, database users and logical databases, object storage policies, users, access keys, buckets, domains, load balancer backends, members, resolvers, frontends, rules, TLS configs | name and the parent's identifier in status; some a Secret | the same four, addressed by (parent, name) | parent still the same, one-time secrets not lost, replace is repeatable |
| ManagedDatabase, certificate bundles | `status.uuid`; a connection Secret or a certificate Secret read | several update calls, transitional states | calls only in a legal state, Secret in step with the service |
| reference resolution (`internal/resolve`) | none | is the referenced object there and Ready | nothing is created for a reference that is not ready |
| dependent watch (`watch.go`), controllers | none | queue the dependents of a changed object | no missed wake-up |
| connection Secrets (`internal/k8s`) | Secrets of the cluster, owned by the object | write, read | a Ready object's Secret belongs to its resource |
| labels, error classes (`internal/upcloudapi`) | none | owner labels, 404 and 409 | ownership cannot be confused |
| fakes (`internal/upcloudapi/fake`) | in-memory resources | what each request does to a resource | (they document the API the adapters expect) |
| manager (`cmd/main.go`), client | process state | registration, flags, one API call each | not modelled |

Components interact through two remote stores. Users and the operator write
objects on the Kubernetes API server; the server's watch fills the operator's
informer cache and work queue; the operator reads only that cache. The operator
also calls UpCloud, which changes resources at once or asynchronously, and which
other people use as well. The hard behaviours are therefore: a cache that lags
behind; calls that fail, or succeed with their answer lost; a crash between a
create and the patch that records its identifier; an object deleted and made
anew under the same name; edits in the middle of a pass; deletions that are
blocked, asynchronous or repeated; resources changed or removed elsewhere; a
parent replaced under a living child; several calls of one pass of which one
fails; a secret the API shows once or never.
`PROJECT.json` lists them as hazards with the line where each one bites and the
properties that cover it.

## 2. Modules

### One object, every call

- `Kinds` describes each root adapter as a record of traits: does lookup adopt
  by label, which fields Observe compares, which of them the create, modify and
  attach requests carry, where references are resolved, whether Ready waits for
  an operational state, whether Update reads again and sends only differences,
  whether Delete confirms. A spec has two abstract fields: `body`, everything the
  ordinary modify request carries, and `link`, the one field the kind treats
  differently (router of a Network, features of a Gateway, PTR record of a
  FloatingIP, plan of a LoadBalancer).
- `Reconciler` is the loop over those traits, for one object name. Users
  (`UserCreate`, `UserEdit`, `UserDelete`), the watch (`WatchSend`,
  `WatchDeliver`), the worker, failures and the cloud are separate actions. Each
  remote call of a pass is one action, so anything can happen between two calls:

  | Code | Actions |
  |---|---|
  | `Reconcile` | `Reconcile`, `ReconcileNothing`, `AddFinalizer` |
  | `reconcileNormal` | `ObserveMissing`, `ObserveDrifted`, `ObserveInSync`, `Create`, `CreateRefused`, `Update`, `Push`, `PushNotFound`, `DependencyNotReady` |
  | `reconcileDelete` | `Delete`, `Destroy`, `DestroyNotFound`, `DestroyBlocked`, `RemoveFinalizer` |
  | `patchStatus`, `fail` | `PatchStatus`, `CallFailed` |
  | lost answers, crashes | `CreateAnswerLost`, `PushAnswerLost`, `DestroyAnswerLost`, `PassLost` |

  `fresh` is the model of `resourceVersion`: it holds the copies (on the watch, in
  the cache, in the pass) that are the server's current version. An `Update` of
  the object succeeds only from a fresh copy; the status merge patch succeeds
  from any copy, on whatever object has the name, and carries only the fields
  that changed in the pass.
- `MCReconciler` instantiates it for TLC; `ReconcilerProofs` holds the theorems on
  ownership and identity, `ReadyProofs` the one on the Ready condition.

### Objects that refer to each other

The 25 kinds differ in data, hardly in control, so four modules describe them as
records, and one interprets the records:

- `Schema` (the CRD types): how a resource is identified, its parent, its other
  reference, whether anything can be edited.
- `Catalog` (the adapters): how Observe, Create, Update and Delete find parent,
  reference and resource; what is compared and what is sent; replacing instead of
  modifying; waiting for an operational state or for a confirmed deletion.
- `Contracts` (the fakes): unique names, what blocks a deletion, checked links,
  deletions that linger.
- `Controllers` (`Setup*Controller`): which kinds a controller watches, and the
  names `DependentsOf` compares. `Wakes(k)` is who an event of `k` queues.
- `Stack`: one object of each kind of a *scene*. The `moving` kinds of a scene
  start without a resource; the `given` ones are Ready and stay so. A pass over a
  live object is two steps, `Observe` and then the `Create`, `Modify` or `Replace`
  it decided on, together with its status patch; other objects' passes, users and
  the account act in between. `Finalize` is a pass over an object under deletion,
  `Crash` a pass that ends with its status unsaved, also between the two calls of a
  replacement. `Seed` and `Vanish` are other people in the account, and take a
  container's contents along. The deletion policy is Delete and the reads of the
  cluster are current: both are varied in `Reconciler`.
  Identifier 0 is an empty status field; a kind that is identified by its name
  has identifier 1, because there is one object of each kind. `home` is the
  parent's identifier in status; connections and tunnels resolve it
  anew in every pass, all others keep it.
- `Lifecycle`: the abstract specification, of one object: `stage` and whether it
  `has` a resource. A resource only comes to an object with the finalizer, Ready
  is only said of an object that has one, and the finalizer goes only when none is
  left. `Stack` maps each of its objects to it (`First`, `Second`, `Third`).
- `MCStack`: seventeen scenes that between them have every kind and every
  reference between two kinds. `StackProofs` holds the theorems, for any scenes.
  `ScenesAssumption` says what a scene is: a kind comes with its parent and with
  what it must refer to, is moving or given and not both, and the parent of a given
  kind is given.

### Adapters with a protocol of their own

`Budget` holds the bounds these five share. Parents and references are Ready in
them, unless said otherwise; `Stack` varies those. In `AccessKey` and `Database` a
pass starts from the version of the object in a lagging cache (`KeyStart`,
`DbStart`), its status patch carries what differs from that version (`KeySave`,
`DbSave`), and the Update that removes the finalizer conflicts unless that version
is the server's (`KeyRelease`, `DbRelease`).

| Module | Code | What it follows |
|---|---|---|
| `AccessKey` | `objectstorageaccesskey_adapter.go` | create, read of the endpoint, Secret, and undoing the key when one of them fails; a key cannot be adopted, so a pass that reads no id makes one |
| `DatabaseUser` | `manageddatabaseuser_adapter.go` | password from a referenced Secret or generated; healing the credentials Secret; password and access control pushed by two calls; primary users |
| `Database` | `manageddatabase_adapter.go` | power and modify in one Update from one reading, calls refused in transitional states, networks, connection Secret (written only for a ready service with a host), protection, deletion that lingers |
| `Rotation` | `gatewaytunnel_adapter.go`, `loadbalancercertificatebundle_adapter.go` | material the API never returns, resent when `rotationToken` changes |
| `StorageUser` | `objectstorageuser_adapter.go` | policies attached and detached one by one; deletion that strips policies and keys one by one |

`MCServices` runs one of them in each behaviour (`flow`), the others at rest;
`ServicesProofs` holds theorems about three of them.

Operators whose comment begins with "Mutant of" are deliberately wrong forms of
the definition after them. No specification uses them; substituting one makes the
property it is listed with fail.

### Assumptions about the environment

- One manager is active (leader election, one replica), and controller-runtime
  runs one pass per name at a time; nothing else is assumed about scheduling.
- The cache may lag arbitrarily and skip versions but does not go back; one
  version is in flight at a time. After a restart the operator may start again
  from an old version, as the API server's own watch cache allows.
- No other finalizers. UpCloud never reuses identifiers, and nobody edits the
  `k8s-uid` label of a resource.
- The cache lags in `Reconciler`, `AccessKey` and `Database`. In `DatabaseUser`,
  `Rotation`, `StorageUser` and `Stack` a pass starts from the current object: an
  outdated spec or status is one more thing they do not vary.
- A pass that ends without failure may or may not bump `resourceVersion` when the
  modelled status is unchanged: addresses and messages are status fields too.
- Requeue intervals are abstracted: a requeued name may run at any time.
- The owner of a FloatingIP is a history value (the API has no label for it).
- `Stack`: the API behaves as the fakes do. The fake accepts two certificate
  bundles with one name, so `Contracts` does too; in `Rotation` the second one is
  refused, which is the answer `Create` is written for.
- `Rotation`: users do not set a token twice, and the cache of Secrets has caught
  up when a new token arrives. `Database`: `spec.networks` has no repetitions
  (`DbListsAssumption`), see the notes below; a service in state "error" recovers.

## 3. Runs

Constants bound the number of objects (`MaxUid`), spec generations (`MaxGen`),
identifiers handed out (`MaxIds`, a bound of the model and not a limit of the code),
failures (`MaxFaults`, in the services also passes that start from an outdated
copy), drifts and removals outside the operator. `CHECK_DEADLOCK FALSE` everywhere: with
the object gone and the queue empty the operator rightly does nothing.

| Run | Kinds and bounds | Checks | States |
|---|---|---|---|
| `ownership` | Router, Network, NetworkPeering, ManagedObjectStorage, LoadBalancer; 2 objects of the name, 2 generations, 2 resources, 1 failure | `OwnIdentity`, `FinalizerGuard`, `OneResource`, `NoLeak`, `RemovalConfirmed`, `OrphanKept` | 3.0 M |
| `applied` | Network, Gateway, ManagedObjectStorage, LoadBalancer; 2 values, 2 generations, 1 failure | `ReadyMeansApplied`, `IdentityStable` | 1.5 M |
| `out_of_band` | FloatingIP, Gateway; 2 values, 2 resources, 1 drift, 1 removal; fair | `Heals` | 1.9 M |
| `recovery` | Router, Network, ManagedObjectStorage; 2 values, 2 generations, 1 failure; fair | `Converges`, `DeletionCompletes` | 1.3 M |
| `lost_create` | Router; 1 failure | `DeleteRemovesResource` is violated | |
| `vanished` | Router; 1 removal | `AdoptsByLabel` is violated | |
| `plan_edit` | LoadBalancer; 2 values; fair | `EditsApplied` is violated | |
| `stack` | all 25 kinds in 17 scenes of up to 3 moving objects; 2 moves of users or others, 1 pass cut short; fair | `TypeOK`, `NothingStray`, `Settles`, `Drains`, `ImplementsLifecycle` | 0.29 M |
| `missed_wakeup` | the two scenes with certificates; no moves | `WakesDependents` is violated | |
| `services` | the five adapters; 2 moves, 2 failures; with and without `passwordSecretRef`, primary and ordinary user, tunnel and bundle, 2 policies, 4 lists of networks; fair | `KeyReadyMeansSecret`, `DbReadyMeansSecret`, `RotTokenVouches`, `KeySettles`, `UserSettles`, `DbSettles`, `RotSettles`, `SuSettles` | 0.99 M |
| `stale_key` | an access key; 2 failures | `KeySecretInStep` is violated | |
| `lost_secret` | a user with `passwordSecretRef`; 1 failure | `UserSecretWritten` is violated | |

The bounds are chosen so that the cases at stake occur: two objects are needed
for a patch to land on a successor, two resources for a duplicate, two
generations and two values for an edit overtaking a pass, one failure for a lost
answer or a crash; every property has a mutant of the code that TLC catches
within the run's own bounds. Values are symmetric in the safety runs. In a stack,
two moves are a parent deleted and submitted again under its child, both ends of a
reference deleted in either order, or an edit and a removal; three objects are the
longest chain of parents (gateway, connection, tunnel). Two failures in `services`
are a call that fails and its undoing that fails too, or a pass from
an outdated copy whose status patch is lost.

**Fairness** (`FairSpec` of `Reconciler`): weak fairness of the worker's failure-free steps (the
work queue hands out queued names, and requests are answered), of the watch, and
of UpCloud finishing what it has begun. Users, failures and drift owe nothing;
they are bounded, so they stop. `Converges` and `DeletionCompletes` are checked
without changes and removals outside the operator, `Heals` with one of each. After
a removal a cache that has not caught up makes creation repeat (the `vanished` run
shows the first such step), so `Heals` excepts an object that has used up the
identifiers the model has (`Exhausted`). In `Stack` and `MCServices` each object's
passes are weakly fair: every result of `reconcileNormal` and `reconcileDelete` is
an error, which the work queue retries, or asks for a requeue
(`PendingRequeue`, `DependencyRequeue`, `SteadyRequeue`), and the patch that adds
the finalizer is itself an event. So are UpCloud bringing a resource to its steady
state and giving a database its host, the delivery of an object's current version to
the cache (`KeyDeliver`, `DbDeliver`) and, in `Database`, a Network becoming Ready
again.

**What holds by restriction, and why.** `OneResource`, `NoLeak`, `IdentityStable`
and `ReadyMeansApplied` are about adopting kinds: a FloatingIP with an empty
`status.address` is re-allocated, as the repository's README says, and TLC finds
that Ready may then be about the forgotten address. `NoLeak` is for runs without
failures, because of the first finding. `Converges` and `Heals` except a difference
in a field Update never sends (features of a Gateway, plan of a LoadBalancer). In `Stack`,
`NothingStray` is about creations whose status patch went through (see the first
finding); `Settles` excepts, and demands not to be Ready, an object that is

- `Pinned`: its status keeps the identifier of a container that is gone. All
  children but connections and tunnels keep it, and so do not follow a parent that
  was replaced;
- `Starved`: its parent or reference is not Ready;
- `Frozen`: its resource is linked to something the reference no longer resolves
  to, by a link Observe compares and Update does not send (the network of a
  NetworkPeering, the networks of a LoadBalancer).

`Drains` excepts a resource whose deletion UpCloud refuses because of one that a
live object records, that the operator did not make, or whose creation was not
saved: such a stray child blocks its parent for good. In the services,
`KeyReadyMeansSecret` excepts a key whose undoing failed (`keyLost`) and one that was
in status when a pass that had read another id wrote its own key to the Secret
(`keyBuried`; the `stale_key` run shows that this does happen to a Ready key).
`DbReadyMeansSecret` is about a database with a host in its status, since Observe
reports a service without one Ready and writes no Secret for it, and excepts the
time from a pass that started from an outdated status to the next one that saves to
the status it read (`dbOutdated`); without that exception TLC finds a pass that
patches back the uuid of a service that is gone. `DbSettles` has neither exception:
in the end there is a Secret, and it is that of the service in status.
`UserSettles` excepts a primary user under deletion (Delete always refuses it), `DbSettles` a protected service
under deletion (Delete clears no protection and Update does not run any more, so
editing the spec at that point has no effect), and `RotSettles` a bundle that is
`RotDisplaced`.

**Findings.** (1) `lost_create`: Delete returns success for an empty
`status.uuid` without the label lookup that Observe would do, so a resource whose
create was not recorded survives `deletionPolicy: Delete`. (2) `vanished`: after
a 404 on the saved UUID the label is not consulted, so a lagging cache leads to a
second replacement. (3) `plan_edit`: the LoadBalancer's plan is documented as
mutable, is compared by Observe and never sent by Update. (4) `missed_wakeup`:
the controllers of the two TLS configurations (and of frontend rules) watch
certificate bundles (and backends) but return only the parent's name to
`DependentsOf`, so such an event queues nobody, and only the requeue notices.
(5) `lost_secret`: with `passwordSecretRef` only Create writes the credentials
Secret; if that write fails, or the user is adopted, the object becomes Ready and
the Secret is never written. (6) `stale_key`: an access key has no label to adopt it
by. A pass that still reads an empty `status.accessKeyID` from its cache makes a
second key and overwrites the Secret; when its status patch is lost, the object is
Ready for the first key with the Secret of the second, and no later pass notices.

**Met while modelling, without a run of their own.**

- A certificate bundle made by a pass whose status was lost, while status names a
  bundle that is gone, is never adopted: Create takes the 409 for an adoption, and
  the next Observe looks for the uuid (`RotDisplaced`).
- The access key's Create leaves the id in status when reading the service fails.
  If the undoing fails as well, the key is Ready without a Secret (`keyLost`).
- A ManagedDatabase whose service runs but has no host yet is Ready without a
  connection Secret (`ready && db.ServiceURIParams.Host != ""` in Observe); the next
  pass after the host is known writes it.
- The list comparisons (`networksEqual`, `mosNetworksEqual`, `gatewayRoutesEqual`)
  compare lengths and one inclusion, which is equality only for desired lists
  without repetitions.
- `frontendMatches` takes a resource with properties as out of date when the spec
  has none.
- NetworkPeering watches no Network and the backend no resolver: they rely on
  requeues. `docs/resources.md` says a BackendTLSConfig is replaced and a bundle
  adopted by `status.uuid`; the code modifies the first and adopts the second by
  name.

## 4. Proofs

`ReconcilerProofs` proves, for every subset of the root kinds, every set of
values and every bound, `Spec => []P` for `TypeOK`, `OwnIdentity`,
`FinalizerGuard`, `OneResource` and `NoLeak`, and `Spec => P` for the action
properties `RemovalConfirmed`, `OrphanKept` and `IdentityStable`. The only
assumptions are `KindsAssumption`, `UnsetAssumption` and `BoundsAssumption`,
which TLC evaluates in every run.

None of these is inductive by itself. The inductive invariant `Inv` adds

- `Versions`: a fresh copy equals the server's object; a pass that holds a fresh
  copy has read the server's present status;
- `Copies`: every stale copy is well formed; one that is finalized and not under
  deletion belongs to the object that is on the server now (nothing can have
  removed that object without a delete pass, which is only run on a later copy);
  deletion is never revoked from an older to a newer copy;
- `Pass`: what is known at each step of a pass, for example that a released
  object with policy Delete has no resource under its identifier;
- `Owners`, `Retirement`: owners are known uids, and a resource goes only after
  its object is under deletion in every copy that is left;
- `Vacancy`: between the lookup and the create no resource of the object appears;
- `Recorded`: without failures a resource is named in the server's status or is
  about to be, by the pass that made it.

The some thirty actions are first reduced to a dozen shapes (`StepShape`): a step
within a pass, a birth or a death of a resource, the end of a pass without a
write, each of the worker's three writes, the start of a pass, a move of the
cloud, and the users' and watch's steps. Each part of `Inv` then has one lemma
with a case per shape.

`ServicesProofs` proves `Spec => []P` of `MCServices` for `KeyReadyMeansSecret`,
`DbReadyMeansSecret` and `RotTokenVouches`, for every bound on moves and faults,
every set of network lists and both kinds of key material; `BudgetAssumption`,
`DbListsAssumption` and `RotKindsAssumption` are evaluated by the `services` run.
The invariants hold for every lag of the cache in `AccessKey` and `Database`.
Each is strengthened to an invariant that also speaks of the pass under way:

- `KeyInv`: no version of the object, on the server, in the cache, on its way there
  or in the pass, has an id that was not handed out, so that a new key is none that
  any of them names; a pass that has begun to create a key does so because the key
  in the version it read is gone. The key in status then may not be that one: if it
  is not, the write of the Secret puts it in `keyBuried`. What a pass is about to
  save, if it is not what it read, is kept in the Secret, was undone, or is in
  `keyLost` or `keyBuried`;
- `DbInv`: unless `dbOutdated`, a pass has read the status that is on the server; a
  pass that judges a service judges the one in the status it read, if there is one,
  so that the Secret it writes is never that of another; a pass about to save Ready
  and a host has written the Secret of its own service;
- `RotInv`: the status that a pass would save vouches for the material as the one
  on the server does; a bundle without a uuid has recorded no token (it may be
  found by name with anybody's key); material about to be sent is not older than
  what was asked for, unless the user has set another token since, in which case
  the token that the pass records is not the user's.

A behaviour is about one adapter, so a step preserves `ServicesInv`, the
conjunction of the three, by one case on each: it is a step of the adapter, or
leaves its variables alone.

`ReadyProofs` proves `Spec => []ReadyMeansApplied` of `Reconciler` from the same
assumptions. Ready for the current generation is written by one pass, long after it
looked; meanwhile users edit, older passes of a restarted operator push older
specs, and the patch lands on whatever object has the name. On top of `Inv`,
`ReadyInv` says

- `Ages`: of two copies of one object the one nearer to the server is not the older,
  and a copy of the server's generation has the server's spec;
- `Sightings`: once the server says Available of a generation, no copy from which a
  pass works or will work is of an earlier one;
- `Holdings`: an identifier that any copy holds is the one on the server, so that a
  pass judges the resource the server's status names;
- `Verdict`: a pass about to patch Available has seen its own generation's spec on
  a resource that exists and works, and it still is so;
- `Truthful`: the property itself, and that the object is not under deletion.

The argument: only `ObserveInSync` reports Available (`OnlyObserveSaysAvailable`);
an edit makes the condition one of an earlier generation (`UserAges`), so it is
no longer claimed; a push that comes after the verdict is of the same generation by
`Sightings` and `Ages`, and so of the same spec (`SameMeaning`,
`PushIsIdempotent`); a resource is destroyed only for an object under deletion,
which the server's object then is too. `Verdict` becomes `Truthful` when the patch
is applied (`PatchTellsTruth`), because a pass that saw a live, finalized object
still finds that object under the name (`Copies` of `Inv`).

`StackProofs` proves, for every set of scenes of the 25 kinds and every bound,
`Spec => []TypeOK`, `Spec => []NothingStray` and `Spec => ImplementsLifecycle` of
`Stack`, from `ScenesAssumption` and `MovesAssumption`. The table modules enter by a few
lemmas only (`SchemaFields`, `CatalogFields`, `ContractsFields`), from which
`KindFacts` and `LooseFacts` state what the proofs need of a kind: for example that
one identified by name keeps its container in status and that UpCloud refuses a
second resource of that name, or that the parent of a connection or tunnel has a
uuid and is never replaced. The inductive invariant
`StackInv` is `TypeOK` and

- `Sound`: a root's resource is in no container; two resources of a kind
  with the same identifier (and, for names, the same container) are one; a resource
  of a connection or tunnel is inside one of its parent's;
- `ObjectOK`, of each object: status is empty before the finalizer, and an
  identifier never comes without its container;
- `Known`: a saved resource is the one in status, and one with the uuid in status
  is in the container of status, for connections and tunnels that of the parent's
  present resource;
- `PassOK`: what Observe found is still true when the pass calls. A pass
  about to create has no saved resource that the new one could displace; the
  resource a pass is about to update is where the pass takes it to be. This is what
  makes `NothingStray` true under interleaving: without it, `Create` could overwrite
  an identifier that is in use.

Every action is shown to be a `StepOf` one object: it changes that object, its
pass and the resources of its kind; of other kinds it may only take resources away.
`StepKeeps` then says once, for all actions, that the other objects keep their part
of the invariant (also the child whose parent is lost and made anew), so that the
lemma of each action is about its own object. For the refinement, `Turn` lists what an action may do to the
phase, readiness and record of its object; with `StackInv` before and after, each
turn is a step of `Lifecycle` or none (`TurnEvolves`), also for the objects that a
step takes a resource from without being about them. `Evolution` states this of
every object; the theorem of the three slots that a scene has.

An attempt at these proofs showed that `Found` was a `CASE` with overlapping
arms (an identifier in status, and adoption), of which TLC takes the first and TLA+
takes any; it is now an `IF`, as in the adapters' `lookup`, which return by the
identifier before they search.

Only model-checked: the liveness properties (`Converges`, `DeletionCompletes`,
`Heals`, `Settles`, `Drains` and the five of the services), which need fairness and
`ENABLED` and are outside the prover's reach, and the six properties that runs
show violated. `TypeOK` of `Reconciler` is the other way round: it is proved, and no
run checks it.

## 5. Not modelled, and plan

- The conversions between CRD and SDK types (`convert.go`, `convert_rules.go`) and
  the comparison of single fields: pure functions without state. The fields of a
  spec are grouped by what the adapters do with them.
- Generated deep copies; the SDK client; flags and registration (pure I/O); the
  clean-up tool of the cloud tests.
- Dynamic certificate bundles (their existence is all that is compared), the
  objects in a bucket, and the stopped or disabled states a spec may ask for of a NetworkPeering or a
  LoadBalancer (which then never report Ready, since their adapters accept one
  state only).
- In `Stack`: several objects of one kind, `deletionPolicy: Orphan`, and a lagging
  cache, which is left out of `DatabaseUser`, `Rotation` and `StorageUser` too.

1. (done) Root kinds: `Kinds`, `Reconciler`, four passing runs, the proofs.
2. (done) Parents and children: `Stack` with its data modules, `Lifecycle`.
3. (done) Adapters with a protocol of their own: the five service modules.
4. (done) Proofs of the services' safety invariants: `ServicesProofs`.
5. (done) Proofs of `ReadyMeansApplied` (`ReadyProofs`), and of `TypeOK`,
   `NothingStray` and the refinement of `Lifecycle` (`StackProofs`).
6. Proofs of further safety properties of the services: the database user's
   credentials Secret where a password is generated, the storage user's policies; a
   lagging cache in the three service modules that start from the current object.
