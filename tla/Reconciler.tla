----------------------------- MODULE Reconciler -----------------------------
(***************************************************************************)
(* The generic reconcile loop (internal/reconciler) driving the adapter of *)
(* one root kind against the Kubernetes API server and the UpCloud API.    *)
(*                                                                         *)
(* The module follows one object name.  The API server holds at most one   *)
(* object of that name at a time; successive objects have different uids.  *)
(* The worker reads that object from an informer cache that lags behind    *)
(* the server, and controller-runtime runs at most one pass per name.  A   *)
(* pass is a sequence of remote calls; every call is one action, so that   *)
(* users, the watch, the cloud and a crash can act between any two of      *)
(* them.  Identifiers of cloud resources are 1..MaxIds, 0 is the empty     *)
(* status.uuid (status.address for FloatingIP).                            *)
(***************************************************************************)
EXTENDS Kinds

CONSTANTS
    Kinds,        \* the kinds under test, a subset of RootKinds
    Values,       \* values of a spec field
    Unset,        \* the value of a field that is left out
    MaxUid,       \* bound: objects created under the name
    MaxGen,       \* bound: metadata.generation reached by spec edits
    MaxIds,       \* bound: identifiers the cloud hands out
    MaxFaults,    \* bound: failed or lost calls, unready references, crashes
    MaxDrifts,    \* bound: resources changed behind the operator's back
    MaxVanishes   \* bound: resources removed behind the operator's back

ASSUME KindsAssumption == Kinds \subseteq RootKinds
ASSUME UnsetAssumption == Unset \notin Values
ASSUME BoundsAssumption ==
    /\ MaxUid \in Nat /\ MaxGen \in Nat /\ MaxIds \in Nat
    /\ MaxFaults \in Nat /\ MaxDrifts \in Nat /\ MaxVanishes \in Nat

VARIABLES
    kind,      \* the adapter the reconciler drives; fixed by Init
    api,       \* the object on the API server
    watch,     \* the version of it on its way to the informer
    sent,      \* whether watch is on its way
    cache,     \* the version the informer cache holds
    fresh,     \* the copies among "watch", "cache", "obj" whose
               \* resourceVersion is the server's
    queued,    \* whether the work queue holds the name
    pc,        \* the next remote call of the running pass, or "idle"
    obj,       \* the pass's working copy of the object
    before,    \* the status it was read with (before.DeepCopyObject)
    todo,      \* the update calls the pass has still to make
    cloud,     \* the UpCloud resources
    created,   \* the identifiers handed out are 1..created
    uids,      \* the uids handed out are 1..uids
    faults, drifts, vanishes,  \* how much of each bound is used
    doomed,    \* history: uids once under deletion with policy Delete
    orphaned   \* history: uids released with policy Orphan

apiVars    == <<api, uids, doomed>>
watchVars  == <<watch, sent, cache>>
workerVars == <<pc, obj, before, todo, queued>>
cloudVars  == <<cloud, created>>
envVars    == <<faults, drifts, vanishes>>
vars == <<kind, api, watch, sent, cache, fresh, queued, pc, obj, before, todo,
          cloud, created, uids, faults, drifts, vanishes, doomed, orphaned>>

-----------------------------------------------------------------------------
Ids      == 1 .. MaxIds
Policies == {"Delete", "Orphan"}
Calls    == {"modify", "attach"}

Reasons == {"None", "Available", "Creating", "Updating", "Pending", "Deleting",
            "WaitingForDependency", "ObserveFailed", "CreateFailed",
            "UpdateFailed", "DeleteFailed"}

Steps == {"idle", "finalize", "observe", "create", "update", "push",
          "delete", "destroy", "release", "patch"}

\* The passes of reconcileNormal, and of reconcileDelete, before the patch.
NormalSteps == {"observe", "create", "update", "push"}
DeleteSteps == {"delete", "destroy", "release"}

CloudStates == {"none", "pending", "running", "deleting", "gone"}

Specs    == [Fields -> Values \cup {Unset}]
Statuses == [id : 0 .. MaxIds, ready : [reason : Reasons, gen : Nat]]
Objects  == [uid : Nat, gen : Nat, spec : Specs, policy : Policies,
             deleting : BOOLEAN, fin : BOOLEAN, status : Statuses]
Resources == [state : CloudStates, owner : Nat, spec : Specs]

\* The object has no other status than its identifier and Ready condition:
\* Ready is True exactly when the reason is Available.
NoStatus == [id |-> 0, ready |-> [reason |-> "None", gen |-> 0]]
NoSpec   == [f \in Fields |-> Unset]
NoObject == [uid |-> 0, gen |-> 0, spec |-> NoSpec, policy |-> "Delete",
             deleting |-> FALSE, fin |-> FALSE, status |-> NoStatus]
NoResource == [state |-> "none", owner |-> 0, spec |-> NoSpec]

T == Traits[kind]

Exists(r) == cloud[r].state \in {"pending", "running", "deleting"}

\* Mutants of Lookup: the label's value is not compared; no label lookup.
LookupAnyOwner(o) ==
    IF o.status.id # 0
    THEN {r \in {o.status.id} : Exists(r)}
    ELSE {r \in Ids : T.adopts /\ Exists(r)}

\* Mutant of Lookup: a 404 of the identifier in status goes unnoticed.
LookupTrusting(o) ==
    IF o.status.id # 0
    THEN {o.status.id}
    ELSE {r \in Ids : T.adopts /\ Exists(r) /\ cloud[r].owner = o.uid}

LookupByIdOnly(o) == {r \in {o.status.id} \ {0} : Exists(r)}

\* The adapter's lookup: by the identifier in status, and only when there is
\* none by the k8s-uid label.  The result is a set: the first match of a list
\* whose order the API does not promise is any of its members.
Lookup(o) ==
    IF o.status.id # 0
    THEN {r \in {o.status.id} : Exists(r)}
    ELSE {r \in Ids : T.adopts /\ Exists(r) /\ cloud[r].owner = o.uid}

Sends(want, f) == ~(f \in T.sticky /\ want[f] = Unset)

UpToDate(want, have) ==
    \A f \in T.fields : Sends(want, f) => have[f] = want[f]

\* Ready as Observe reports it.  "running" stands for the operational state
\* the spec asks for ("stopped" where the kind accepts it).
Operational(r) == T.awaits => cloud[r].state = "running"

\* A spec a user can submit for the kind.
ValidSpec(s) ==
    \A f \in Fields :
        /\ f \notin T.fields => s[f] = Unset
        /\ f \in T.fields \ T.optional => s[f] # Unset

-----------------------------------------------------------------------------
(* Steps shared by the actions. *)

\* Mutant of SetReady: the condition claims the newest generation.
SetReadyLatest(o, reason) ==
    [o EXCEPT !.status.ready = [reason |-> reason, gen |-> api.gen]]

SetReady(o, reason) ==
    [o EXCEPT !.status.ready = [reason |-> reason, gen |-> o.gen]]

\* Every pass of reconcileNormal, and every unfinished pass of
\* reconcileDelete, ends by setting Ready and patching status.
Report(o, reason) ==
    /\ obj' = SetReady(o, reason)
    /\ pc' = "patch"
    /\ todo' = {}
    /\ UNCHANGED <<before, queued, fresh>>

Goto(step) ==
    /\ pc' = step
    /\ UNCHANGED <<obj, before, todo, queued, fresh>>

\* Mutant of Finish: no pass asks for another one.
FinishForGood(requeue) ==
    /\ pc' = "idle"
    /\ obj' = NoObject
    /\ before' = NoStatus
    /\ todo' = {}
    /\ UNCHANGED queued

\* The pass is over; requeue says whether its result asks for another one.
Finish(requeue) ==
    /\ pc' = "idle"
    /\ obj' = NoObject
    /\ before' = NoStatus
    /\ todo' = {}
    /\ queued' = (queued \/ requeue)

\* A remote call that fails, or whose answer is lost, uses up one fault.
Fault ==
    /\ faults < MaxFaults
    /\ faults' = faults + 1
    /\ UNCHANGED <<drifts, vanishes>>

NoFault == UNCHANGED envVars

OnlyWorker == UNCHANGED <<kind, apiVars, watchVars, cloudVars, orphaned>>
OnlyWorkerAndCloud == UNCHANGED <<kind, apiVars, watchVars, orphaned>>

-----------------------------------------------------------------------------
(* The user and the API server. *)

Doom(o) == IF o.deleting /\ o.policy # "Orphan" THEN {o.uid} ELSE {}

\* A write bumps resourceVersion: no copy is current any more.
Write(o) ==
    /\ api' = o
    /\ fresh' = {}
    /\ doomed' = doomed \cup Doom(o)

OnlyServer == UNCHANGED <<kind, watchVars, workerVars, cloudVars, envVars, orphaned>>

UserCreate ==
    /\ api.uid = 0
    /\ uids < MaxUid
    /\ uids' = uids + 1
    /\ \E s \in Specs, p \in Policies :
           /\ ValidSpec(s)
           /\ Write([NoObject EXCEPT !.uid = uids + 1, !.gen = 1,
                                     !.spec = s, !.policy = p])
    /\ OnlyServer

UserEdit ==
    /\ api.uid # 0
    /\ api.gen < MaxGen
    /\ \E s \in Specs, p \in Policies :
           /\ ValidSpec(s)
           /\ \A f \in T.immutable : s[f] = api.spec[f]
           /\ <<s, p>> # <<api.spec, api.policy>>
           /\ Write([api EXCEPT !.spec = s, !.policy = p, !.gen = @ + 1])
    /\ UNCHANGED uids
    /\ OnlyServer

\* An object without finalizers goes at once; one with a finalizer gets a
\* deletionTimestamp, which also bumps its generation.
UserDelete ==
    /\ api.uid # 0
    /\ ~api.deleting
    /\ Write(IF api.fin THEN [api EXCEPT !.deleting = TRUE, !.gen = @ + 1]
                        ELSE NoObject)
    /\ UNCHANGED uids
    /\ OnlyServer

-----------------------------------------------------------------------------
(* The watch.  A version is sent, and later delivered: the cache may see   *)
(* an old version long after the server has moved on, and may miss some,   *)
(* but never goes back.                                                    *)

WatchSend ==
    /\ ~sent
    /\ "cache" \notin fresh
    /\ watch' = api
    /\ sent' = TRUE
    /\ fresh' = fresh \cup {"watch"}
    /\ UNCHANGED <<kind, apiVars, cache, workerVars, cloudVars, envVars, orphaned>>

WatchDeliver ==
    /\ sent
    /\ cache' = watch
    /\ watch' = NoObject
    /\ sent' = FALSE
    /\ fresh' = (fresh \ {"watch", "cache"})
                    \cup (IF "watch" \in fresh THEN {"cache"} ELSE {})
    /\ queued' = TRUE
    /\ UNCHANGED <<kind, apiVars, pc, obj, before, todo, cloudVars, envVars, orphaned>>

-----------------------------------------------------------------------------
(* The worker: Reconcile. *)

\* Mutants of FirstStep: no finalizer before the first call; Orphan ignored.
FirstStepUnguarded(o) ==
    CASE o.deleting /\ o.policy = "Orphan" -> "release"
      [] o.deleting /\ o.policy # "Orphan" -> "delete"
      [] OTHER -> "observe"

FirstStepIgnoringPolicy(o) ==
    CASE o.deleting -> "delete"
      [] ~o.deleting /\ ~o.fin -> "finalize"
      [] OTHER -> "observe"

\* Reconcile's dispatch on the object it read.
FirstStep(o) ==
    CASE o.deleting /\ o.policy = "Orphan" -> "release"
      [] o.deleting /\ o.policy # "Orphan" -> "delete"
      [] ~o.deleting /\ ~o.fin -> "finalize"
      [] OTHER -> "observe"

\* Nothing to do: the object is gone, or is deleted without our finalizer.
Skip(o) == o.uid = 0 \/ (o.deleting /\ ~o.fin)

Dequeue ==
    /\ pc = "idle"
    /\ queued
    /\ queued' = FALSE
    /\ NoFault /\ OnlyWorker

ReconcileNothing ==
    /\ Dequeue
    /\ Skip(cache)
    /\ UNCHANGED <<pc, obj, before, todo, fresh>>

Reconcile ==
    /\ Dequeue
    /\ ~Skip(cache)
    /\ obj' = cache
    /\ before' = cache.status
    /\ fresh' = (fresh \ {"obj"}) \cup (IF "cache" \in fresh THEN {"obj"} ELSE {})
    /\ pc' = FirstStep(cache)
    /\ UNCHANGED todo

\* Add the finalizer and stop: the write's own watch event starts the next
\* pass.  Update carries the resourceVersion that was read, so it conflicts
\* when the object has changed or gone, and the error requeues.
AddFinalizer ==
    /\ pc = "finalize"
    /\ IF "obj" \in fresh
       THEN Write([api EXCEPT !.fin = TRUE]) /\ Finish(FALSE)
       ELSE /\ fresh' = fresh \ {"obj"}
            /\ UNCHANGED <<api, doomed>>
            /\ Finish(TRUE)
    /\ NoFault
    /\ UNCHANGED <<kind, uids, watchVars, cloudVars, orphaned>>

-----------------------------------------------------------------------------
(* The worker: reconcileNormal.  Each adapter call is one action. *)

ObserveMissing ==
    /\ pc = "observe"
    /\ Lookup(obj) = {}
    /\ Goto("create")
    /\ NoFault /\ OnlyWorker

Adopted(r) == [obj EXCEPT !.status.id = r]

ObserveDrifted ==
    /\ pc = "observe"
    /\ \E r \in Lookup(obj) :
           /\ ~UpToDate(obj.spec, cloud[r].spec)
           /\ obj' = Adopted(r)
    /\ pc' = "update"
    /\ UNCHANGED <<before, todo, queued, fresh>>
    /\ NoFault /\ OnlyWorker

ObserveInSync ==
    /\ pc = "observe"
    /\ \E r \in Lookup(obj) :
           /\ UpToDate(obj.spec, cloud[r].spec)
           /\ Report(Adopted(r), IF Operational(r) THEN "Available" ELSE "Pending")
    /\ NoFault /\ OnlyWorker

\* A referenced object is missing or not Ready (resolve.Ready and friends
\* return ErrDependencyNotReady).  Create does not tell it from any error.
DependencyNotReady ==
    /\ \/ pc = "observe" /\ "observe" \in T.resolves
          /\ Report(obj, "WaitingForDependency")
       \/ pc = "observe" /\ "observed" \in T.resolves
          /\ \E r \in Lookup(obj) : Report(Adopted(r), "WaitingForDependency")
       \/ pc = "create" /\ "create" \in T.resolves
          /\ Report(obj, "CreateFailed")
       \/ pc = "update" /\ "update" \in T.resolves
          /\ Report(obj, "WaitingForDependency")
       \/ pc = "update" /\ "updated" \in T.resolves /\ Lookup(obj) # {}
          /\ Report(obj, "WaitingForDependency")
    /\ Fault /\ OnlyWorker

NewResource(o) ==
    [state |-> IF T.awaits THEN "pending" ELSE "running",
     owner |-> o.uid,
     spec  |-> [f \in Fields |-> IF f \in T.creates THEN o.spec[f] ELSE Unset]]

CreateAccepted ==
    /\ pc = "create"
    /\ created < MaxIds
    /\ created' = created + 1
    /\ cloud' = [cloud EXCEPT ![created + 1] = NewResource(obj)]

\* The identifier is only in the pass's memory until the status patch.
Create ==
    /\ CreateAccepted
    /\ Report(Adopted(created + 1), "Creating")
    /\ NoFault /\ OnlyWorkerAndCloud

CreateAnswerLost ==
    /\ CreateAccepted
    /\ Report(obj, "CreateFailed")
    /\ Fault /\ OnlyWorkerAndCloud

\* A create that fails.  Beyond the bound MaxIds every one does, as any call
\* can.
CreateRefused ==
    /\ pc = "create"
    /\ created = MaxIds
    /\ Report(obj, "CreateFailed")
    /\ NoFault /\ OnlyWorker

Differs(o, f) == cloud[o.status.id].spec[f] # o.spec[f]

UpdateCalls(o) ==
    {c \in Calls : /\ T[c] # {}
                   /\ T.diffs => \E f \in T[c] : Differs(o, f)}

\* Update up to its first call: it reads the resource again (not found is
\* ErrPending), refuses a changed immutable field, and decides what to send.
Update ==
    /\ pc = "update"
    /\ \/ T.rereads /\ Lookup(obj) = {} /\ Report(obj, "Pending")
       \/ /\ T.rereads => Lookup(obj) # {}
          /\ \/ /\ \E f \in T.immutable : Differs(obj, f)
                /\ Report(obj, "UpdateFailed")
             \/ /\ \A f \in T.immutable : ~Differs(obj, f)
                /\ \/ UpdateCalls(obj) = {} /\ Report(obj, "Updating")
                   \/ /\ UpdateCalls(obj) # {}
                      /\ pc' = "push"
                      /\ todo' = UpdateCalls(obj)
                      /\ UNCHANGED <<obj, before, queued, fresh>>
    /\ NoFault /\ OnlyWorker

\* The network is modified first and its router attached last.
NextCall == IF "modify" \in todo THEN "modify" ELSE "attach"

Applied(o, have) ==
    [f \in Fields |-> IF f \in T[NextCall] /\ Sends(o.spec, f)
                      THEN o.spec[f] ELSE have[f]]

PushAccepted ==
    /\ pc = "push"
    /\ Exists(obj.status.id)
    /\ cloud' = [cloud EXCEPT ![obj.status.id].spec = Applied(obj, @)]
    /\ UNCHANGED created

Push ==
    /\ PushAccepted
    /\ \/ todo = {NextCall} /\ Report(obj, "Updating")
       \/ /\ todo # {NextCall}
          /\ todo' = todo \ {NextCall}
          /\ UNCHANGED <<pc, obj, before, queued, fresh>>
    /\ NoFault /\ OnlyWorkerAndCloud

PushAnswerLost ==
    /\ PushAccepted
    /\ Report(obj, "UpdateFailed")
    /\ Fault /\ OnlyWorkerAndCloud

PushNotFound ==
    /\ pc = "push"
    /\ ~Exists(obj.status.id)
    /\ Report(obj, "UpdateFailed")
    /\ NoFault /\ OnlyWorker

-----------------------------------------------------------------------------
(* The worker: reconcileDelete. *)

\* Delete up to its delete request.  Without an identifier there is nothing
\* to delete; a kind that confirms reads the resource first.
DeleteNext(o) ==
    IF o.status.id = 0 THEN "release"
    ELSE IF T.confirms /\ ~Exists(o.status.id) THEN "release"
    ELSE "destroy"

DeleteUnderWay(o) ==
    o.status.id # 0 /\ T.confirms /\ cloud[o.status.id].state = "deleting"

Delete ==
    /\ pc = "delete"
    /\ IF DeleteUnderWay(obj) THEN Report(obj, "Deleting")
                              ELSE Goto(DeleteNext(obj))
    /\ NoFault /\ OnlyWorker

DestroyAccepted ==
    /\ pc = "destroy"
    /\ Exists(obj.status.id)
    /\ cloud' = [cloud EXCEPT ![obj.status.id].state =
                     IF T.confirms THEN "deleting" ELSE "gone"]
    /\ UNCHANGED created

\* An accepted request counts as deleted, except for a kind that confirms.
Destroy ==
    /\ DestroyAccepted
    /\ IF T.confirms THEN Report(obj, "Deleting") ELSE Goto("release")
    /\ NoFault /\ OnlyWorkerAndCloud

DestroyAnswerLost ==
    /\ DestroyAccepted
    /\ Report(obj, "DeleteFailed")
    /\ Fault /\ OnlyWorkerAndCloud

\* Mutant of DestroyNotFound: 404 is an error like any other.
DestroyNotFoundFails ==
    /\ pc = "destroy"
    /\ ~Exists(obj.status.id)
    /\ Report(obj, "DeleteFailed")
    /\ NoFault /\ OnlyWorker

\* 404: somebody else, or an earlier request of ours, has deleted it.
DestroyNotFound ==
    /\ pc = "destroy"
    /\ ~Exists(obj.status.id)
    /\ Goto("release")
    /\ NoFault /\ OnlyWorker

\* Mutant of DestroyBlocked: 409 passes for deleted.
DestroyBlockedIgnored ==
    /\ pc = "destroy"
    /\ Exists(obj.status.id)
    /\ Goto("release")
    /\ Fault /\ OnlyWorker

\* 409: children or attachments block the deletion; reported as pending.
DestroyBlocked ==
    /\ pc = "destroy"
    /\ Exists(obj.status.id)
    /\ Report(obj, "Deleting")
    /\ Fault /\ OnlyWorker

\* Mutant of RemoveFinalizer: no optimistic lock, as with a merge patch.
RemoveFinalizerUnlocked ==
    /\ pc = "release"
    /\ IF api.uid = obj.uid
       THEN /\ Write(NoObject)
            /\ orphaned' = orphaned \cup (IF obj.policy = "Orphan" THEN {obj.uid} ELSE {})
            /\ Finish(FALSE)
       ELSE /\ fresh' = fresh \ {"obj"}
            /\ UNCHANGED <<api, doomed, orphaned>>
            /\ Finish(TRUE)
    /\ NoFault
    /\ UNCHANGED <<kind, uids, watchVars, cloudVars>>

\* RemoveFinalizer and Update, under the same optimistic lock: the last
\* finalizer gone, the API server removes the object.
RemoveFinalizer ==
    /\ pc = "release"
    /\ IF "obj" \in fresh
       THEN /\ Write(NoObject)
            /\ orphaned' = orphaned \cup (IF obj.policy = "Orphan" THEN {obj.uid} ELSE {})
            /\ Finish(FALSE)
       ELSE /\ fresh' = fresh \ {"obj"}
            /\ UNCHANGED <<api, doomed, orphaned>>
            /\ Finish(TRUE)
    /\ NoFault
    /\ UNCHANGED <<kind, uids, watchVars, cloudVars>>

-----------------------------------------------------------------------------
(* The worker: patchStatus, errors and crashes. *)

\* Mutant of Merge: the whole status is sent, as with an unlocked update.
MergeWhole(status, reworded) == obj.status

\* The merge patch carries the fields that differ from what was read, no
\* resourceVersion and no uid: it changes those fields of whatever object
\* has the name now.  The Ready condition is one such field, its message
\* included: reworded says that only the message differs.
Merge(status, reworded) ==
    [id    |-> IF obj.status.id # before.id THEN obj.status.id ELSE status.id,
     ready |-> IF obj.status.ready # before.ready \/ reworded
               THEN obj.status.ready ELSE status.ready]

\* The reasons whose message is not always the same.
Wordy == Reasons \ {"None", "Available", "Creating", "Updating"}

\* A patch that changes nothing here may still change a status field the
\* model leaves out (addresses, messages), and so bump resourceVersion.
PatchStatus ==
    /\ pc = "patch"
    /\ IF api.uid = 0
       THEN fresh' = fresh \ {"obj"} /\ UNCHANGED <<api, doomed>>
       ELSE \/ \E reworded \in BOOLEAN :
                  /\ reworded => obj.status.ready.reason \in Wordy
                  /\ Write([api EXCEPT !.status = Merge(@, reworded)])
            \/ /\ Merge(api.status, FALSE) = api.status
               /\ fresh' = fresh \ {"obj"}
               /\ UNCHANGED <<api, doomed>>
    /\ Finish(TRUE)
    /\ NoFault
    /\ UNCHANGED <<kind, uids, watchVars, cloudVars, orphaned>>

\* An UpCloud call that fails without effect.
CallFailed ==
    /\ \/ pc = "observe" /\ Report(obj, "ObserveFailed")
       \/ pc = "create" /\ Report(obj, "CreateFailed")
       \/ pc = "update" /\ T.rereads /\ Report(obj, "UpdateFailed")
       \/ pc = "push" /\ Report(obj, "UpdateFailed")
       \/ /\ pc = "destroy" \/ (pc = "delete" /\ T.confirms /\ obj.status.id # 0)
          /\ Report(obj, "DeleteFailed")
    /\ Fault /\ OnlyWorker

\* The API server refuses a write, or the operator restarts: the pass is
\* lost, and the name is queued again.
PassLost ==
    /\ pc # "idle"
    /\ fresh' = fresh \ {"obj"}
    /\ Finish(TRUE)
    /\ Fault /\ OnlyWorker

-----------------------------------------------------------------------------
(* The cloud. *)

OnlyCloud == UNCHANGED <<kind, apiVars, watchVars, workerVars, fresh, created, orphaned>>

CloudSettle ==
    /\ \E r \in Ids : /\ cloud[r].state = "pending"
                      /\ cloud' = [cloud EXCEPT ![r].state = "running"]
    /\ NoFault /\ OnlyCloud

CloudPurge ==
    /\ \E r \in Ids : /\ cloud[r].state = "deleting"
                      /\ cloud' = [cloud EXCEPT ![r].state = "gone"]
    /\ NoFault /\ OnlyCloud

\* Somebody changes a resource, or deletes it, outside the operator.
Drift ==
    /\ drifts < MaxDrifts
    /\ drifts' = drifts + 1
    /\ \E r \in Ids, f \in T.fields, v \in Values :
           /\ Exists(r)
           /\ cloud[r].spec[f] # v
           /\ cloud' = [cloud EXCEPT ![r].spec[f] = v]
    /\ UNCHANGED <<faults, vanishes>> /\ OnlyCloud

Vanish ==
    /\ vanishes < MaxVanishes
    /\ vanishes' = vanishes + 1
    /\ \E r \in Ids : /\ Exists(r)
                      /\ cloud' = [cloud EXCEPT ![r].state = "gone"]
    /\ UNCHANGED <<faults, drifts>> /\ OnlyCloud

-----------------------------------------------------------------------------
Init ==
    /\ kind \in Kinds
    /\ api = NoObject
    /\ watch = NoObject /\ sent = FALSE
    /\ cache = NoObject /\ fresh = {"cache"}
    /\ queued = FALSE
    /\ pc = "idle" /\ obj = NoObject /\ before = NoStatus /\ todo = {}
    /\ cloud = [r \in Ids |-> NoResource] /\ created = 0
    /\ uids = 0
    /\ faults = 0 /\ drifts = 0 /\ vanishes = 0
    /\ doomed = {} /\ orphaned = {}

User == UserCreate \/ UserEdit \/ UserDelete

\* What the worker does when nothing fails.
Worker ==
    \/ ReconcileNothing \/ Reconcile \/ AddFinalizer
    \/ ObserveMissing \/ ObserveDrifted \/ ObserveInSync
    \/ Create \/ CreateRefused
    \/ Update \/ Push \/ PushNotFound
    \/ Delete \/ Destroy \/ DestroyNotFound \/ RemoveFinalizer
    \/ PatchStatus

Failure ==
    \/ DependencyNotReady \/ CallFailed \/ PassLost
    \/ CreateAnswerLost \/ PushAnswerLost \/ DestroyAnswerLost \/ DestroyBlocked

Cloud == CloudSettle \/ CloudPurge \/ Drift \/ Vanish

Next == User \/ WatchSend \/ WatchDeliver \/ Worker \/ Failure \/ Cloud

\* The queue hands out a queued name, the watch delivers, and the cloud
\* finishes what it has started.  Users, failures and drift owe nothing.
Fairness ==
    /\ WF_vars(Worker)
    /\ WF_vars(WatchSend) /\ WF_vars(WatchDeliver)
    /\ WF_vars(CloudSettle) /\ WF_vars(CloudPurge)

Spec == Init /\ [][Next]_vars
FairSpec == Spec /\ Fairness
-----------------------------------------------------------------------------
(* Properties. *)

\* Every variable has its type, identifiers are handed out in order, and an
\* idle worker holds nothing of an earlier pass.  The other invariants rest on
\* it: the proofs show it for every instance.
TypeOK ==
    /\ kind \in Kinds
    /\ api \in Objects /\ watch \in Objects /\ cache \in Objects /\ obj \in Objects
    /\ before \in Statuses
    /\ sent \in BOOLEAN /\ queued \in BOOLEAN
    /\ fresh \subseteq {"watch", "cache", "obj"}
    /\ pc \in Steps
    /\ todo \subseteq Calls
    /\ cloud \in [Ids -> Resources]
    /\ created \in 0 .. MaxIds
    /\ uids \in Nat
    /\ faults \in Nat /\ drifts \in Nat /\ vanishes \in Nat
    /\ doomed \subseteq Nat /\ orphaned \subseteq Nat
    /\ \A r \in Ids : cloud[r].state = "none" <=> r > created
    /\ pc = "idle" => obj = NoObject /\ before = NoStatus /\ todo = {}

\* The resource a status names was made for the object with that status.
Owned(o) ==
    o.status.id # 0 => /\ cloud[o.status.id].state # "none"
                       /\ cloud[o.status.id].owner = o.uid

\* A status never names a resource that was made for another object: not the
\* server's copy, and none of the stale copies on their way to a delete call.
\* A status patch has no uid precondition and could land on the successor of
\* the object it was computed for.
OwnIdentity == \A o \in {api, watch, cache, obj} : Owned(o)

\* While a resource of the live object exists the object carries the
\* finalizer, so that no deletion can skip the adapter's Delete.
FinalizerGuard ==
    \A r \in Ids : Exists(r) /\ api.uid # 0 /\ cloud[r].owner = api.uid => api.fin

\* However late the cache and whatever call fails, an object of an adopting
\* kind never has two resources, unless one was removed outside the operator.
OneResource ==
    T.adopts /\ vanishes = 0 =>
        \A r, q \in Ids :
            Exists(r) /\ Exists(q) /\ cloud[r].owner = cloud[q].owner => r = q

\* If nothing failed and nothing was removed outside the operator, a resource
\* of an adopting kind outlives its object only if the object was released
\* with policy Orphan.  A delete pass that read the object before its
\* identifier was recorded must not be able to release it.
NoLeak ==
    T.adopts /\ faults = 0 /\ vanishes = 0 =>
        \A r \in Ids : Exists(r) => cloud[r].owner \in {api.uid} \cup orphaned

\* A Ready condition for the current generation tells the truth: the resource
\* exists, works, and has the spec, as long as nobody changes it elsewhere.
\* (Not so for FloatingIP: two passes that both read an empty status.address
\* allocate two addresses, and Ready may be about the one that is forgotten.)
ReadyMeansApplied ==
    /\ T.adopts
    /\ drifts = 0 /\ vanishes = 0
    /\ api.uid # 0 /\ api.status.ready = [reason |-> "Available", gen |-> api.gen]
    => /\ api.status.id # 0
       /\ cloud[api.status.id].state \in
              IF T.awaits THEN {"running"} ELSE {"running", "pending"}
       /\ UpToDate(api.spec, cloud[api.status.id].spec)

\* An object with the finalizer and policy Delete leaves the server only when
\* the resource its status names is gone, not merely asked to go.
RemovalConfirmed ==
    [][ /\ api.fin /\ api.policy = "Delete" /\ api.status.id # 0
        /\ api'.uid # api.uid
        => ~Exists(api.status.id) ]_vars

\* The operator asks for the deletion only of resources whose object has been
\* under deletion with policy Delete: a policy read before the deletion, or
\* for another object of the name, must not be acted on.
OrphanKept ==
    [][ \A r \in Ids :
            /\ Exists(r) /\ cloud[r].state # "deleting"
            /\ cloud'[r].state \in {"deleting", "gone"}
            /\ vanishes' = vanishes
            => cloud[r].owner \in doomed ]_vars

\* A recorded identifier is never lost or replaced during the object's life
\* (adopting kinds, nothing removed outside the operator), although every
\* pass patches status from a copy that may be stale.
IdentityStable ==
    [][ /\ T.adopts /\ vanishes = 0
        /\ api.uid # 0 /\ api'.uid = api.uid /\ api.status.id # 0
        => api'.status.id = api.status.id ]_vars

Live == api.uid # 0 /\ ~api.deleting

\* The fields no update call of the kind carries.
Unsendable == T.fields \ (T.modify \cup T.attach)

\* The resource differs from the spec in a field that Update never sends.
Stuck ==
    \E f \in Unsendable :
        api.status.id # 0 /\ cloud[api.status.id].spec[f] # api.spec[f]

Current == api.status.ready = [reason |-> "Available", gen |-> api.gen]

\* Once users and failures stop, a live object becomes and stays Ready for its
\* last generation, unless it differs in a field Update never sends.
Converges == <>[](Live /\ ~Stuck => Current)

\* The recorded resource is gone, or there is none, and the bound MaxIds does
\* not let the object have another.
Exhausted ==
    created = MaxIds /\ (api.status.id # 0 => ~Exists(api.status.id))

\* What was changed or removed outside the operator is put right: in the end a
\* live object is Ready for its last generation, and the resource in its status
\* is there with its spec.  A pass that has observed a resource may find it gone
\* at its next call, and a copy of the status may name one that is gone.
Heals ==
    <>[](Live /\ ~Stuck /\ ~Exhausted =>
            /\ Current /\ api.status.id # 0
            /\ Exists(api.status.id)
            /\ UpToDate(api.spec, cloud[api.status.id].spec))

\* No object stays under deletion for good: nothing waits for an event that
\* never comes.
DeletionCompletes ==
    \A u \in 1 .. MaxUid : []<>~(api.uid = u /\ api.deleting)

-----------------------------------------------------------------------------
(* Statements of the documentation that the code does not keep. *)

\* README.md:178: "deleting the CR removes the UpCloud resource" (policy
\* Delete): whatever failed before, no resource outlives its object.
DeleteRemovesResource ==
    T.adopts /\ vanishes = 0 =>
        \A r \in Ids : Exists(r) => cloud[r].owner \in {api.uid} \cup orphaned

\* README.md:256: the kind is "adopted by the k8s-uid label": no resource is
\* created for an object while one with its label exists.
AdoptsByLabel ==
    [][ T.adopts /\ created' # created =>
            \A r \in Ids : Exists(r) => cloud[r].owner # obj.uid ]_vars

\* docs/resources.md:31: "plan is the only mutable spec field" of a
\* LoadBalancer: an edit of it is carried out, as any edit.
EditsApplied == <>[](Live => Current)
=============================================================================
