------------------------------- MODULE Stack -------------------------------
(***************************************************************************)
(* Objects of different kinds that refer to each other, reconciled side by *)
(* side: a gateway, its connections and their tunnels; a database and its  *)
(* users; a load balancer with backends, frontends and certificates; ...   *)
(* Each kind has one object.  Its adapter is interpreted from the records  *)
(* of Catalog, its references from Schema, the API's answers from          *)
(* Contracts.                                                              *)
(*                                                                         *)
(* Module Reconciler follows the single calls of one pass over one object; *)
(* here a pass over a live object takes two steps, Observe and then the    *)
(* Create or Update it decides on (with the status patch that ends it), so *)
(* that the passes over different objects, the users and the cloud can act *)
(* in between; a pass that only reports, and a pass over an object under   *)
(* deletion, takes one.  deletionPolicy is Delete, and the reads of the    *)
(* Kubernetes API are current: both are varied in Reconciler.              *)
(*                                                                         *)
(* An identifier 0 is an empty status field.  A kind identified by name    *)
(* has identifier 1: the name its only object gives it.  "home" is the     *)
(* identifier of the container: the parent's uuid, or for the child of a   *)
(* named resource the uuid of the service both are in.                     *)
(***************************************************************************)
EXTENDS Naturals, Sequences, FiniteSets, Schema, Catalog, Contracts, Controllers

CONSTANTS
    Scenes,     \* which kinds there are: [moving |-> a sequence of kinds,
                \* given |-> the kinds that are Ready and stay so]
    MaxMoves,   \* bound: what users do, and others do in the account
    MaxFaults   \* bound: passes that end before their status is saved

MovingOf(sc)  == {sc.moving[i] : i \in DOMAIN sc.moving}
MembersOf(sc) == MovingOf(sc) \cup sc.given

\* A kind is in a scene with its parent and the kind it has to refer to; a
\* kind that is given has a parent that is given.
ASSUME ScenesAssumption ==
    \A sc \in Scenes :
        /\ MovingOf(sc) \cap sc.given = {}
        /\ \A k \in MembersOf(sc) :
              /\ k \in AllKinds
              /\ Schema[k].parent \in MembersOf(sc) \cup {None}
              /\ Schema[k].needs => Schema[k].uses \in MembersOf(sc)
        /\ \A k \in sc.given : Schema[k].parent \in sc.given \cup {None}
ASSUME MovesAssumption == MaxMoves \in Nat /\ MaxFaults \in Nat

VARIABLES
    scene,   \* the scene; fixed by Init
    api,     \* the objects
    cloud,   \* the UpCloud resources
    pass,    \* the running pass over each object
    made,    \* the identifiers handed out for each kind are 1..made[k]
    moves,   \* how much of MaxMoves is used
    faults   \* how much of MaxFaults is used

vars == <<scene, api, cloud, pass, made, moves, faults>>

Members == MembersOf(scene)
Moving  == MovingOf(scene)

\* Values of the editable fields of a spec, 1 is the default; a resource the
\* operator did not make has 0.
Bodies == {1, 2}

Idle == [step |-> "idle", spec |-> 1, home |-> 0, id |-> 0]
NoObject == [phase |-> "absent", uid |-> 0, spec |-> 1, home |-> 0, id |-> 0,
             ready |-> FALSE]
Object(uid) == [NoObject EXCEPT !.phase = "new", !.uid = uid]

-----------------------------------------------------------------------------
(* The UpCloud API. *)

IsRoot(k) == Schema[k].parent = None

\* Whether the container of a resource of kind k exists.
Container(k, home, c) ==
    LET p == Schema[k].parent IN
    IsRoot(k) \/ \E r \in c : /\ r.kind = p
                              /\ home = IF Schema[p].id = "uuid" THEN r.id ELSE r.home

At(k, home, id, c) == {r \in c : r.kind = k /\ r.home = home /\ r.id = id}

\* The key children of a resource have as their home.
Key(r) == IF Schema[r.kind].id = "uuid" THEN r.id ELSE r.home

\* What goes with a resource: its contents, and theirs.
Inside(r, c) == {s \in c : Schema[s.kind].parent = r.kind /\ s.home = Key(r)}
Without(r, c) ==
    LET gone == {r} \cup Inside(r, c)
    IN  c \ (gone \cup UNION {Inside(s, c) : s \in gone})

\* What makes the API refuse to delete a resource.
Blockers(r, c) ==
    {s \in c : \/ s.kind \in Contracts[r.kind].blockedBy /\ s.home = Key(r)
               \/ s.kind \in Contracts[r.kind].heldBy /\ s.link = r.id
                  /\ (IsRoot(r.kind) \/ s.home = r.home)}

LinkExists(k, link, home, c) ==
    \E r \in c : /\ r.kind = Schema[k].uses
                 /\ r.id = link
                 /\ IsRoot(r.kind) \/ r.home = home

-----------------------------------------------------------------------------
(* Resolving references. *)

\* resolve.Ready: the object exists, has an external id and is Ready.  It
\* may be under deletion.
RefReady(k) == api[k].phase # "absent" /\ api[k].id # 0 /\ api[k].ready

\* resolve.ExternalID
RefHasId(k) == api[k].phase # "absent" /\ api[k].id # 0

\* The optional reference is set when there is an object to refer to.
Wants(k) == Schema[k].uses \in Members
Link(k) == IF Wants(k) THEN api[Schema[k].uses].id ELSE 0
RefResolves(k) == Wants(k) => RefReady(Schema[k].uses)

\* The container a pass addresses: the one kept in status, or the parent's;
\* empty while the parent does not resolve.
Homes(k, home, asks) ==
    LET p == Schema[k].parent IN
    IF IsRoot(k) THEN {0}
    ELSE IF Catalog[k].keeps /\ home # 0 THEN {home}
    ELSE IF IF asks = "id" THEN RefHasId(p) ELSE RefReady(p)
         THEN {IF Schema[p].id = "uuid" THEN api[p].id ELSE api[p].home}
         ELSE {}

-----------------------------------------------------------------------------
(* A pass over a live object: Observe. *)

Save(k, home, id, ready) ==
    api' = [api EXCEPT ![k].home = home, ![k].id = id, ![k].ready = ready]

\* Observe reports and the pass ends.
Report(k, home, id, ready) == Save(k, home, id, ready) /\ UNCHANGED pass

\* Observe calls for Create or Update; nothing is saved yet.
Begin(k, step, home, id) ==
    /\ pass' = [pass EXCEPT ![k] =
                   [step |-> step, spec |-> api[k].spec, home |-> home, id |-> id]]
    /\ UNCHANGED api

\* lookup: by the identifier in status, or as the kind adopts.
Found(k, home) ==
    LET o == api[k] IN
    IF o.id # 0 THEN At(k, home, o.id, cloud)
    ELSE CASE Catalog[k].adopts = "label" -> {r \in cloud : r.kind = k /\ r.owner = o.uid}
           [] Catalog[k].adopts = "name"  -> {r \in cloud : r.kind = k /\ r.home = home}
           [] OTHER                       -> {}

\* Mutant: a changed reference is not drift.
UpToDateIgnoringLink(k, r) ==
    "body" \in Catalog[k].compares => r.spec = api[k].spec

UpToDate(k, r) ==
    /\ "body" \in Catalog[k].compares => r.spec = api[k].spec
    /\ "link" \in Catalog[k].compares => r.link = Link(k)

\* A 404 of the container is an error to an adapter that has to list.
ListFails(k, home) ==
    /\ Catalog[k].strict
    /\ Schema[k].id = "name" \/ api[k].id = 0
    /\ ~Container(k, home, cloud)

ObserveFound(k, home, r) ==
    IF Catalog[k].waits \in {"after", "attach"} /\ ~RefResolves(k)
    THEN Report(k, home, r.id, FALSE)
    ELSE IF UpToDate(k, r)
         THEN Report(k, home, r.id, r.up)
         ELSE Begin(k, "update", home, r.id)

ObserveIn(k, home) ==
    IF \/ Catalog[k].waits = "before" /\ ~RefResolves(k)
       \/ ListFails(k, home)
    THEN Report(k, home, api[k].id, FALSE)
    ELSE IF Found(k, home) = {}
         THEN Begin(k, "create", home, api[k].id)
         ELSE \E r \in Found(k, home) : ObserveFound(k, home, r)

Observing(k) ==
    /\ IF Catalog[k].asks = "later" /\ api[k].id = 0
       THEN Begin(k, "create", api[k].home, 0)
       ELSE LET homes == Homes(k, api[k].home, Catalog[k].asks) IN
            IF homes = {} THEN Report(k, api[k].home, api[k].id, FALSE)
                          ELSE \E h \in homes : ObserveIn(k, h)
    /\ UNCHANGED <<scene, cloud, made, moves, faults>>

\* Mutant: the pass does not wait for the finalizer.
ObserveUnfinalized(k) ==
    api[k].phase \in {"new", "live"} /\ pass[k].step = "idle" /\ Observing(k)

Observe(k) == api[k].phase = "live" /\ pass[k].step = "idle" /\ Observing(k)

-----------------------------------------------------------------------------
(* A pass over a live object: Create and Update. *)

\* Whether the policies of a new user, which are attached by calls of their
\* own, get attached; any other link is part of the create request.
Attaches(k, home, c) ==
    Catalog[k].waits = "attach" /\ Wants(k)
        => RefResolves(k) /\ LinkExists(k, Link(k), home, c)

\* Whether a create call in container home succeeds on cloud c.
Creatable(k, home, c) ==
    /\ Catalog[k].waits # "attach" => RefResolves(k)
    /\ Container(k, home, c)
    /\ Contracts[k].unique => ~\E r \in c : r.kind = k /\ r.home = home
    /\ Contracts[k].checks /\ Catalog[k].waits # "attach" =>
           LinkExists(k, Link(k), home, c)

\* Mutant: the identifier handed out last is handed out again.
NewIdReused(k) == IF Schema[k].id = "uuid" THEN made[k] ELSE 1

NewId(k) == IF Schema[k].id = "uuid" THEN made[k] + 1 ELSE 1

Created(k, home, c, saved) ==
    [kind  |-> k, id |-> NewId(k), home |-> home, owner |-> api[k].uid,
     link  |-> IF Attaches(k, home, c) THEN Link(k) ELSE 0,
     spec  |-> IF ~Attaches(k, home, c) THEN 0
               ELSE IF Catalog[k].carries THEN pass[k].spec ELSE 1,
     up    |-> ~Catalog[k].awaits, going |-> FALSE, saved |-> saved]

\* The container Create addresses, and the one the status keeps when the
\* create call fails: an adapter that does not keep it sets it last.
CreateHomes(k) == Homes(k, pass[k].home, "ready")
KeptHome(k) ==
    IF Catalog[k].keeps /\ CreateHomes(k) # {}
    THEN CHOOSE h \in CreateHomes(k) : TRUE
    ELSE pass[k].home

\* Create on cloud c, with identifier id in status.  A 409 adopts nothing
\* yet: the next Observe finds the resource.
CreateOn(k, c, id) ==
    IF \E h \in CreateHomes(k) : Creatable(k, h, c)
    THEN \E h \in CreateHomes(k) :
            /\ cloud' = c \cup {Created(k, h, c, TRUE)}
            /\ made'  = [made EXCEPT ![k] = NewId(k)]
            /\ Save(k, h, NewId(k), FALSE)
    ELSE /\ cloud' = c
         /\ Save(k, KeptHome(k), id, FALSE)
         /\ UNCHANGED made

Create(k) ==
    /\ pass[k].step = "create"
    /\ CreateOn(k, cloud, pass[k].id)
    /\ pass' = [pass EXCEPT ![k] = Idle]
    /\ UNCHANGED <<scene, moves, faults>>

\* What a modify call does, {} where Update gives up before it or the call
\* is refused.
Modified(k) ==
    LET s == Catalog[k].sends
        homes == Homes(k, pass[k].home, "id")
    IN  {[r EXCEPT !.spec = IF "body" \in s THEN pass[k].spec ELSE @,
                   !.link = IF "link" \in s THEN Link(k) ELSE @] :
            r \in {q \in cloud :
                     /\ q.kind = k /\ q.id = pass[k].id /\ q.home \in homes
                     /\ "link" \in s =>
                            RefResolves(k) /\ (q.link = Link(k) \/ Attaches(k, q.home, cloud))}}

\* Update by a modify call.
Modify(k) ==
    /\ pass[k].step = "update" /\ ~Catalog[k].replaces
    /\ cloud' = IF Modified(k) = {} THEN cloud
                ELSE (cloud \ At(k, pass[k].home, pass[k].id, cloud)) \cup Modified(k)
    /\ Save(k, pass[k].home, pass[k].id, FALSE)
    /\ pass' = [pass EXCEPT ![k] = Idle]
    /\ UNCHANGED <<scene, made, moves, faults>>

\* Mutant: the old resource is not deleted before the new one is created.
ReplaceWithoutDelete(k) ==
    /\ pass[k].step = "update" /\ Catalog[k].replaces
    /\ CreateOn(k, cloud, 0)
    /\ pass' = [pass EXCEPT ![k] = Idle]
    /\ UNCHANGED <<scene, moves, faults>>

\* Update by delete and create: the id is cleared in between, so a create
\* that fails leaves the object without a resource and without an id.
Replace(k) ==
    /\ pass[k].step = "update" /\ Catalog[k].replaces
    /\ CreateOn(k, cloud \ At(k, pass[k].home, pass[k].id, cloud), 0)
    /\ pass' = [pass EXCEPT ![k] = Idle]
    /\ UNCHANGED <<scene, moves, faults>>

-----------------------------------------------------------------------------
(* The other passes. *)

\* The pass over a new object puts the finalizer on it.
AddFinalizer(k) ==
    /\ api[k].phase = "new"
    /\ api' = [api EXCEPT ![k].phase = "live"]
    /\ UNCHANGED <<scene, cloud, pass, made, moves, faults>>

Release(k) == api' = [api EXCEPT ![k] = [NoObject EXCEPT !.uid = api[k].uid]]

Pending(k) == api' = [api EXCEPT ![k].ready = FALSE]

\* Delete of an adapter and what the reconciler makes of its answer.
DeleteResource(k, r) ==
    \/ /\ Blockers(r, cloud) # {}
       /\ Pending(k)
       /\ UNCHANGED cloud
    \/ /\ Blockers(r, cloud) = {}
       /\ Contracts[k].lingers /\ ~r.going
       /\ cloud' = (cloud \ {r}) \cup {[r EXCEPT !.going = TRUE, !.up = FALSE]}
       /\ Pending(k)
    \/ /\ Blockers(r, cloud) = {}
       /\ ~Contracts[k].lingers \/ r.going
       /\ cloud' = Without(r, cloud)
       /\ IF Catalog[k].confirms /\ ~r.going THEN Pending(k) ELSE Release(k)

\* Mutant: Delete resolves the parent, as Observe does.
FinalizeResolvingParent(k) ==
    LET o == api[k]
        found == At(k, o.home, o.id, cloud)
    IN  /\ o.phase = "deleting" /\ pass[k].step = "idle"
        /\ IF o.id = 0 \/ found = {}
           THEN Release(k) /\ UNCHANGED cloud
           ELSE IF IsRoot(k) \/ RefReady(Schema[k].parent)
                THEN \E r \in found : DeleteResource(k, r)
                ELSE Pending(k) /\ UNCHANGED cloud
        /\ UNCHANGED <<scene, pass, made, moves, faults>>

\* The pass over an object under deletion.  Without an identifier and a
\* container in status there is nothing to delete.
Finalize(k) ==
    LET o == api[k]
        found == At(k, o.home, o.id, cloud)
    IN  /\ o.phase = "deleting" /\ pass[k].step = "idle"
        /\ IF o.id = 0 \/ found = {}
           THEN Release(k) /\ UNCHANGED cloud
           ELSE \E r \in found : DeleteResource(k, r)
        /\ UNCHANGED <<scene, pass, made, moves, faults>>

\* The pass ends without saving its status (the patch fails, or the operator
\* is restarted) after its calls, or after the first of the two calls that
\* replace a resource.
Crash(k) ==
    /\ pass[k].step # "idle" /\ faults < MaxFaults
    /\ LET c == IF pass[k].step = "update" /\ Catalog[k].replaces
                THEN cloud \ At(k, pass[k].home, pass[k].id, cloud)
                ELSE cloud
           creates == pass[k].step = "create" \/ Catalog[k].replaces
       IN \/ /\ creates
             /\ \E h \in CreateHomes(k) :
                   /\ Creatable(k, h, c)
                   /\ cloud' = c \cup {Created(k, h, c, FALSE)}
                   /\ made'  = [made EXCEPT ![k] = NewId(k)]
          \/ /\ pass[k].step = "update" /\ Catalog[k].replaces
             /\ cloud' = c
             /\ UNCHANGED made
          \/ /\ ~creates
             /\ cloud' = (cloud \ At(k, pass[k].home, pass[k].id, cloud))
                             \cup (IF Modified(k) = {}
                                   THEN At(k, pass[k].home, pass[k].id, cloud)
                                   ELSE Modified(k))
             /\ UNCHANGED made
    /\ pass'   = [pass EXCEPT ![k] = Idle]
    /\ faults' = faults + 1
    /\ UNCHANGED <<scene, api, moves>>

-----------------------------------------------------------------------------
(* Users, and what happens in the UpCloud account. *)

Move == moves < MaxMoves /\ moves' = moves + 1

Submit(k) ==
    /\ api[k].phase = "absent"
    /\ api' = [api EXCEPT ![k] = Object(@.uid + 1)]
    /\ Move
    /\ UNCHANGED <<scene, cloud, pass, made, faults>>

\* A user deletes the object: it goes at once without the finalizer.
Delete(k) ==
    /\ \/ api[k].phase = "new"  /\ Release(k)
       \/ api[k].phase = "live" /\ api' = [api EXCEPT ![k].phase = "deleting"]
    /\ Move
    /\ UNCHANGED <<scene, cloud, pass, made, faults>>

Edit(k) ==
    /\ api[k].phase \in {"new", "live"}
    /\ Schema[k].body
    /\ \E b \in Bodies \ {api[k].spec} : api' = [api EXCEPT ![k].spec = b]
    /\ Move
    /\ UNCHANGED <<scene, cloud, pass, made, faults>>

\* Somebody else makes a resource with the name the object asks for.
Seed(k) ==
    /\ api[k].id = 0 /\ Catalog[k].adopts = "name"
    /\ \E h \in {0} \cup {Key(r) : r \in cloud} :
          /\ IsRoot(k) <=> h = 0
          /\ Container(k, h, cloud)
          /\ ~\E r \in cloud : r.kind = k /\ r.home = h
          /\ cloud' = cloud \cup
                {[kind |-> k, id |-> NewId(k), home |-> h, owner |-> 0, link |-> 0,
                  spec |-> 0, up |-> TRUE, going |-> FALSE, saved |-> TRUE]}
    /\ made' = [made EXCEPT ![k] = NewId(k)]
    /\ Move
    /\ UNCHANGED <<scene, api, pass, faults>>

\* Somebody else removes a resource, and its contents with it.
Vanish(k) ==
    /\ \E r \in {q \in cloud : q.kind = k} : cloud' = Without(r, cloud)
    /\ Move
    /\ UNCHANGED <<scene, api, pass, made, faults>>

\* A resource reaches its steady operational state.
ComeUp(k) ==
    /\ \E r \in {q \in cloud : q.kind = k /\ ~q.up /\ ~q.going} :
          cloud' = (cloud \ {r}) \cup {[r EXCEPT !.up = TRUE]}
    /\ UNCHANGED <<scene, api, pass, made, moves, faults>>

-----------------------------------------------------------------------------
\* The home of a given object is the identifier 1 of the service it is in.
Given(k) == [NoObject EXCEPT !.phase = "live", !.uid = 1, !.id = 1, !.ready = TRUE,
                             !.home = IF IsRoot(k) THEN 0 ELSE 1]

GivenLink(k, sc) == IF Schema[k].uses \in sc.given THEN 1 ELSE 0

Init ==
    /\ scene \in Scenes
    /\ api = [k \in Members |-> IF k \in scene.given THEN Given(k) ELSE Object(1)]
    /\ cloud = {[kind |-> k, id |-> 1, home |-> Given(k).home, owner |-> 1,
                 link |-> GivenLink(k, scene), spec |-> 1, up |-> TRUE,
                 going |-> FALSE, saved |-> TRUE] : k \in scene.given}
    /\ pass = [k \in Members |-> Idle]
    /\ made = [k \in Members |-> IF k \in scene.given THEN 1 ELSE 0]
    /\ moves = 0
    /\ faults = 0

\* A worker takes the object's key from the queue, or goes on with its pass.
Reconcile(k) ==
    AddFinalizer(k) \/ Observe(k) \/ Create(k) \/ Modify(k) \/ Replace(k) \/ Finalize(k)

Next ==
    \/ \E k \in Moving : AddFinalizer(k)
    \/ \E k \in Moving : Observe(k)
    \/ \E k \in Moving : Create(k)
    \/ \E k \in Moving : Modify(k)
    \/ \E k \in Moving : Replace(k)
    \/ \E k \in Moving : Finalize(k)
    \/ \E k \in Moving : ComeUp(k)
    \/ \E k \in Moving : Crash(k)
    \/ \E k \in Moving : Submit(k)
    \/ \E k \in Moving : Delete(k)
    \/ \E k \in Moving : Edit(k)
    \/ \E k \in Moving : Seed(k)
    \/ \E k \in Moving : Vanish(k)

(***************************************************************************)
(* Every result of a pass leads to another one: an error is retried, every *)
(* other result asks for a requeue after PendingRequeue, DependencyRequeue *)
(* or SteadyRequeue, and the finalizer patch is itself an event.  UpCloud  *)
(* brings a resource to its steady state in the end.                       *)
(***************************************************************************)
Slots == 1..3

SlotReconciles(i) == i \in DOMAIN scene.moving /\ Reconcile(scene.moving[i])
SlotComesUp(i)    == i \in DOMAIN scene.moving /\ ComeUp(scene.moving[i])

Fairness == \A i \in Slots : WF_vars(SlotReconciles(i)) /\ WF_vars(SlotComesUp(i))

Spec == Init /\ [][Next]_vars /\ Fairness

-----------------------------------------------------------------------------
(* Properties. *)

Resource == [kind : Members, id : Nat, home : Nat, owner : Nat, link : Nat,
             spec : {0} \cup Bodies, up : BOOLEAN, going : BOOLEAN, saved : BOOLEAN]

\* Type correctness of the objects, the resources and the running passes;
\* every identifier that is kept or in use is one that was handed out.
TypeOK ==
    /\ scene \in Scenes
    /\ api \in [Members -> [phase : {"absent", "new", "live", "deleting"}, uid : Nat,
                            spec : Bodies, home : Nat, id : Nat, ready : BOOLEAN]]
    /\ \A k \in Members : {api[k].id, pass[k].id} \subseteq 0..made[k]
    /\ \A r \in cloud : r \in Resource /\ r.id \in 1..made[r.kind]
    /\ pass \in [Members -> [step : {"idle", "create", "update"}, spec : Bodies,
                             home : Nat, id : Nat]]
    /\ made \in [Members -> Nat]
    /\ moves \in 0..MaxMoves /\ faults \in 0..MaxFaults

\* The resource whose identifier and container the object's status holds.
Recorded(k) == IF api[k].id = 0 THEN {} ELSE At(k, api[k].home, api[k].id, cloud)

(***************************************************************************)
(* Every resource the operator made, and whose creation it could save, is  *)
(* recorded by an object that still exists: whatever happens to parents,   *)
(* references and homes meanwhile, no pass forgets a resource it would     *)
(* have to delete later (reconcileNormal, reconcileDelete and the status   *)
(* helpers of the adapters).                                               *)
(***************************************************************************)
NothingStray ==
    \A r \in cloud : r.owner # 0 /\ r.saved => r \in Recorded(r.kind)

\* A child whose status holds a container that is gone, and is never cleared.
Pinned(k) ==
    ~IsRoot(k) /\ Catalog[k].keeps /\ api[k].home # 0
        /\ ~Container(k, api[k].home, cloud)

\* An object whose parent or reference is not Ready (or not there).
Starved(k) ==
    \/ ~IsRoot(k) /\ ~RefReady(Schema[k].parent)
    \/ ~RefResolves(k)

\* A resource linked to another one than the reference now resolves to, by a
\* link Observe compares and Update cannot change.
Frozen(k) ==
    /\ "link" \in Catalog[k].compares \ Catalog[k].sends
    /\ \E r \in Recorded(k) : r.link # Link(k)

\* The object is Ready, and its resource exists and is as the spec asks.
Fulfilled(k) ==
    /\ api[k].ready
    /\ \E r \in Recorded(k) :
          /\ r.up
          /\ Schema[k].body => r.spec = api[k].spec
          /\ "link" \in Catalog[k].compares => r.link = Link(k)

(***************************************************************************)
(* Once users and the account are quiet, every object the users want ends  *)
(* up Ready with its resource as specified, unless it is pinned to a       *)
(* container that is gone, waits for a reference that is not Ready, or its *)
(* resource is frozen to an old link; and then it does not say Ready (the  *)
(* requeues of reconcileNormal).                                           *)
(***************************************************************************)
Settles ==
    <>[](\A k \in Moving :
            /\ api[k].phase # "new"
            /\ api[k].phase = "live" =>
                  \/ Fulfilled(k)
                  \/ ~api[k].ready /\ (Pinned(k) \/ Starved(k) \/ Frozen(k)))

(***************************************************************************)
(* Once users and the account are quiet, every object under deletion is    *)
(* gone, unless UpCloud refuses to delete its resource because of one that *)
(* a live object records, that the operator did not make, or whose         *)
(* creation it could not save: objects of a stack that are deleted         *)
(* together never wait for each other (reconcileDelete's PendingRequeue).  *)
(***************************************************************************)
Drains ==
    <>[](\A k \in Moving : api[k].phase = "deleting" =>
            \E r \in Recorded(k) : \E s \in Blockers(r, cloud) :
                \/ s.owner = 0 \/ ~s.saved
                \/ s \in Recorded(s.kind) /\ api[s.kind].phase = "live")

(***************************************************************************)
(* The refinement: every object of the stack behaves as Lifecycle says.    *)
(***************************************************************************)
StageOf(k) == IF api[k].phase = "live"
              THEN IF api[k].ready THEN "ready" ELSE "waiting"
              ELSE api[k].phase
HasResource(k) ==
    \E r \in cloud : r.kind = k /\ (r \in Recorded(k) \/ (r.owner = api[k].uid /\ r.saved))

SlotStage(i) == IF i \in DOMAIN scene.moving THEN StageOf(scene.moving[i]) ELSE "absent"
SlotHas(i)   == i \in DOMAIN scene.moving /\ HasResource(scene.moving[i])

First  == INSTANCE Lifecycle WITH stage <- SlotStage(1), has <- SlotHas(1)
Second == INSTANCE Lifecycle WITH stage <- SlotStage(2), has <- SlotHas(2)
Third  == INSTANCE Lifecycle WITH stage <- SlotStage(3), has <- SlotHas(3)

(***************************************************************************)
(* Every object implements Lifecycle: a resource is only made for an       *)
(* object that carries the finalizer, Ready is only reported of an object  *)
(* that has one, and the finalizer is only removed when none is left.      *)
(***************************************************************************)
ImplementsLifecycle == First!Spec /\ Second!Spec /\ Third!Spec

(***************************************************************************)
(* A change of what an object's adapter resolves (the identifier and       *)
(* readiness of its parent and of its reference) is a change of an object  *)
(* whose events queue it: DependentsOf is there to "re-reconcile children  *)
(* when a parent changes".                                                 *)
(***************************************************************************)
Resolution(k) ==
    <<IF IsRoot(k) THEN 0 ELSE IF RefReady(Schema[k].parent) THEN api[Schema[k].parent].id ELSE 0,
      IF Wants(k) /\ RefResolves(k) THEN Link(k) ELSE 0>>

WakesDependents ==
    [][\A k \in Moving :
          /\ api[k].phase = "live" /\ Resolution(k)' # Resolution(k)
          => \E j \in Members : api[j]' # api[j] /\ k \in Wakes(j)]_vars
=============================================================================
