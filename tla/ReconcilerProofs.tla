-------------------------- MODULE ReconcilerProofs --------------------------
(***************************************************************************)
(* Theorems about Reconciler, for every kind and every bound.              *)
(***************************************************************************)
EXTENDS Reconciler, TLAPS

\* What resourceVersion equality says: a fresh copy is the server's object,
\* and a pass that holds a fresh copy was started from a fresh cache.
SameMeta(o, p) ==
    /\ o.uid = p.uid /\ o.gen = p.gen /\ o.spec = p.spec /\ o.policy = p.policy
    /\ o.deleting = p.deleting /\ o.fin = p.fin

Versions ==
    /\ "cache" \in fresh => cache = api
    /\ "watch" \in fresh => sent /\ watch = api
    /\ sent => "cache" \notin fresh
    /\ ~sent => watch = NoObject
    /\ "obj" \in fresh => /\ "cache" \in fresh
                          /\ pc # "idle"
                          /\ SameMeta(obj, api)
                          /\ before = api.status

\* Well-formedness of any copy of the object.
WellFormed(o) ==
    /\ o.uid <= uids
    /\ o.uid = 0 => o = NoObject
    /\ o.deleting => o.fin

\* Deletion is irrevocable: a later copy of an object under deletion is under
\* deletion.
Later(o, p) == o.deleting /\ p.uid = o.uid => p.deleting

\* A finalized, undeleted copy, however old, stands for the server's object.
Attached(o) ==
    o.uid # 0 /\ o.fin /\ ~o.deleting => api.uid = o.uid /\ api.fin

\* A copy under deletion with policy Delete was so on the server.
Condemned(o) == o.deleting /\ o.policy # "Orphan" => o.uid \in doomed

Copies ==
    /\ WellFormed(api) /\ WellFormed(watch) /\ WellFormed(cache) /\ WellFormed(obj)
    /\ Attached(watch) /\ Attached(cache) /\ Attached(obj)
    /\ Condemned(api) /\ Condemned(watch) /\ Condemned(cache) /\ Condemned(obj)
    /\ Later(obj, cache) /\ Later(obj, watch) /\ Later(obj, api)
    /\ Later(cache, watch) /\ Later(cache, api) /\ Later(watch, api)

\* What a pass knows at each of its steps.
Pass ==
    /\ pc # "idle" => obj.uid # 0
    /\ obj.status.id = 0 => before.id = 0
    /\ pc \in {"observe", "create"} => obj.status = before
    /\ pc = "finalize" => ~obj.deleting /\ ~obj.fin
    /\ pc \in NormalSteps => ~obj.deleting /\ obj.fin
    /\ pc \in DeleteSteps => obj.deleting /\ obj.fin /\ obj.status = before
    /\ pc = "patch" => obj.fin /\ (obj.deleting => obj.status.id = before.id)
    /\ pc \in {"delete", "destroy"} => obj.policy # "Orphan"
    /\ pc \in {"update", "push", "destroy"} => obj.status.id # 0
    /\ pc = "release" /\ obj.policy # "Orphan" /\ obj.status.id # 0
           => ~Exists(obj.status.id)

Owners == \A r \in Ids : cloud[r].owner <= uids /\ (Exists(r) => cloud[r].owner # 0)

\* Unless something was removed outside the operator, a resource goes only
\* after its object was deleted, and every copy of that object knows it.
Retired(r, o) == o.uid = cloud[r].owner => o.deleting

Retirement ==
    vanishes = 0 =>
        \A r \in Ids : cloud[r].state \in {"deleting", "gone"} =>
            /\ cloud[r].owner # 0
            /\ Retired(r, api) /\ Retired(r, watch) /\ Retired(r, cache) /\ Retired(r, obj)

\* A pass about to create knows that the object has no resource.
Vacancy ==
    T.adopts /\ vanishes = 0 /\ pc = "create" =>
        \A r \in Ids : Exists(r) => cloud[r].owner # obj.uid

\* Without failures, the only resource whose identifier is not in the
\* server's status is the one the running pass is about to record.
Recorded ==
    T.adopts /\ faults = 0 /\ vanishes = 0 =>
        \A r \in Ids : Exists(r) /\ api.uid # 0 /\ cloud[r].owner = api.uid =>
            \/ api.status.id = r
            \/ pc = "patch" /\ obj.status.id = r /\ before.id # r

Inv ==
    /\ TypeOK /\ Versions /\ Copies /\ Pass /\ Owners
    /\ OwnIdentity /\ FinalizerGuard
    /\ Retirement /\ Vacancy /\ OneResource /\ Recorded /\ NoLeak

-----------------------------------------------------------------------------
(* Facts about the operators the actions are built from. *)

\* The blank object, status and resource are well typed.
LEMMA Blanks ==
    /\ NoStatus \in Statuses /\ NoSpec \in Specs
    /\ NoObject \in Objects /\ NoResource \in Resources
  BY BoundsAssumption
     DEF NoStatus, NoSpec, NoObject, NoResource, Statuses, Specs, Objects,
         Resources, Reasons, Policies, CloudStates

\* SetReady changes nothing but the Ready condition.
LEMMA SetReadyFacts ==
    ASSUME NEW o \in Objects, NEW reason \in Reasons
    PROVE  /\ SetReady(o, reason) \in Objects
           /\ SameMeta(SetReady(o, reason), o)
           /\ SetReady(o, reason).status.id = o.status.id
  BY DEF SetReady, Objects, Statuses, SameMeta

\* A nonempty identifier in status is an identifier.
LEMMA IdType ==
    ASSUME NEW o \in Objects
    PROVE  /\ o.status.id \in 0 .. MaxIds
           /\ o.status.id # 0 => o.status.id \in Ids
  BY BoundsAssumption DEF Objects, Statuses, Ids

\* Adopting a resource changes nothing but the identifier.
LEMMA AdoptedFacts ==
    ASSUME obj \in Objects, NEW r \in 0 .. MaxIds
    PROVE  /\ Adopted(r) \in Objects
           /\ SameMeta(Adopted(r), obj)
           /\ Adopted(r).status.id = r
           /\ Adopted(r).status.ready = obj.status.ready
  BY DEF Adopted, Objects, Statuses, SameMeta

\* Reporting a condition on o leads to the status patch of o.
LEMMA ReportFacts ==
    ASSUME NEW o \in Objects, NEW reason \in Reasons, Report(o, reason)
    PROVE  /\ obj' \in Objects
           /\ SameMeta(obj', o)
           /\ obj'.status.id = o.status.id
           /\ pc' = "patch" /\ todo' = {}
           /\ before' = before /\ queued' = queued /\ fresh' = fresh
  BY SetReadyFacts DEF Report

\* Lookup finds existing resources: the one named by status, or else one that
\* carries the object's uid.
LEMMA LookupFacts ==
    ASSUME NEW o \in Objects, NEW r \in Lookup(o)
    PROVE  /\ r \in Ids /\ r # 0
           /\ Exists(r)
           /\ IF o.status.id # 0 THEN r = o.status.id
                                 ELSE T.adopts /\ cloud[r].owner = o.uid
  BY BoundsAssumption DEF Lookup, Objects, Statuses, Ids

-----------------------------------------------------------------------------
(* The shapes of a step.  Thirty actions differ in what they report, but   *)
(* for the invariant they do one of the following things.                  *)

SameCloud == \A r \in Ids : /\ cloud'[r].state = cloud[r].state
                            /\ cloud'[r].owner = cloud[r].owner

\* A step of a pass that does not write to the API server.
PassStep ==
    /\ pc # "idle"
    /\ UNCHANGED <<kind, api, uids, doomed, watch, sent, cache, orphaned,
                   before, queued, fresh, drifts, vanishes>>
    /\ faults' \in Nat /\ faults <= faults'
    /\ obj' \in Objects /\ SameMeta(obj', obj)
    /\ todo' \subseteq Calls
    /\ pc' \in Steps /\ pc' # "idle"
    /\ cloud' \in [Ids -> Resources]

\* ... and leaves owners and states of resources alone.
Quiet ==
    /\ PassStep
    /\ created' = created
    /\ SameCloud
    /\ \/ /\ pc = "observe" /\ pc' = "create"
          /\ Lookup(obj) = {} /\ obj' = obj
       \/ /\ pc \in NormalSteps /\ pc' \in {"update", "push"}
          /\ obj'.status.id \in {obj.status.id} \cup Lookup(obj)
          /\ obj'.status.id # 0
       \/ /\ pc \in NormalSteps /\ pc' = "patch"
          /\ obj'.status.id \in {obj.status.id} \cup Lookup(obj)
       \/ /\ pc \in {"delete", "destroy"} /\ pc' = "patch"
          /\ obj'.status.id = obj.status.id
       \/ /\ pc \in {"delete", "destroy"} /\ pc' = "destroy"
          /\ obj' = obj /\ obj.status.id # 0
       \/ /\ pc \in {"delete", "destroy"} /\ pc' = "release"
          /\ obj' = obj
          /\ obj.status.id = 0 \/ ~Exists(obj.status.id)

\* ... and creates a resource, whose identifier it may fail to learn.
Birth ==
    /\ PassStep
    /\ pc = "create" /\ pc' = "patch"
    /\ created + 1 \in Ids /\ created' = created + 1
    /\ cloud'[created + 1].owner = obj.uid
    /\ cloud'[created + 1].state \in {"pending", "running"}
    /\ \A r \in Ids \ {created + 1} : cloud'[r] = cloud[r]
    /\ \/ obj'.status.id = created + 1
       \/ obj'.status.id = obj.status.id /\ faults < faults'

\* ... and has a resource deleted.
Death ==
    /\ PassStep
    /\ pc = "destroy"
    /\ created' = created
    /\ Exists(obj.status.id)
    /\ cloud'[obj.status.id].owner = cloud[obj.status.id].owner
    /\ cloud'[obj.status.id].state \in {"deleting", "gone"}
    /\ \A r \in Ids \ {obj.status.id} : cloud'[r] = cloud[r]
    /\ \/ pc' = "patch" /\ obj'.status.id = obj.status.id
       \/ pc' = "release" /\ obj' = obj /\ cloud'[obj.status.id].state = "gone"

Blank == pc' = "idle" /\ obj' = NoObject /\ before' = NoStatus /\ todo' = {}

\* The pass ends without a write.
Ending ==
    /\ pc # "idle" /\ Blank
    /\ UNCHANGED <<kind, api, uids, doomed, watch, sent, cache, cloud, created,
                   orphaned, drifts, vanishes>>
    /\ faults' \in Nat /\ faults <= faults'
    /\ fresh' = fresh \ {"obj"}
    /\ queued' \in BOOLEAN
    /\ pc = "patch" /\ faults' = faults /\ api.uid # 0
           => Merge(api.status, FALSE) = api.status

\* The pass ends with a write; api' is given by the action.
Written ==
    /\ Blank
    /\ fresh' = {}
    /\ doomed' = doomed \cup Doom(api')
    /\ queued' \in BOOLEAN
    /\ UNCHANGED <<kind, uids, watch, sent, cache, cloud, created, faults, drifts, vanishes>>

Finalized ==
    /\ pc = "finalize" /\ "obj" \in fresh
    /\ Written
    /\ api' = [api EXCEPT !.fin = TRUE]
    /\ orphaned' = orphaned

Released ==
    /\ pc = "release" /\ "obj" \in fresh
    /\ Written
    /\ api' = NoObject
    /\ orphaned' = orphaned \cup (IF obj.policy = "Orphan" THEN {obj.uid} ELSE {})

Patched ==
    /\ pc = "patch" /\ api.uid # 0
    /\ Written
    /\ \E reworded \in BOOLEAN : api' = [api EXCEPT !.status = Merge(@, reworded)]
    /\ orphaned' = orphaned

Started ==
    /\ pc = "idle"
    /\ ~Skip(cache)
    /\ obj' = cache /\ before' = cache.status
    /\ pc' = FirstStep(cache)
    /\ fresh' = (fresh \ {"obj"}) \cup (IF "cache" \in fresh THEN {"obj"} ELSE {})
    /\ queued' = FALSE
    /\ UNCHANGED <<kind, api, uids, doomed, watch, sent, cache, cloud, created,
                   orphaned, faults, drifts, vanishes, todo>>

\* The cloud moves: nothing comes into being and nothing changes hands.
Weather ==
    /\ UNCHANGED <<kind, api, uids, doomed, watch, sent, cache, created, orphaned,
                   faults, pc, obj, before, todo, queued, fresh>>
    /\ cloud' \in [Ids -> Resources]
    /\ drifts' \in Nat /\ drifts <= drifts'
    /\ vanishes' \in Nat /\ vanishes <= vanishes'
    /\ \A r \in Ids :
           /\ cloud'[r].owner = cloud[r].owner
           /\ cloud'[r].state = "none" <=> cloud[r].state = "none"
           /\ cloud'[r].state \in {"pending", "running", "deleting"} => Exists(r)
           /\ cloud'[r].state \in {"deleting", "gone"} =>
                  \/ cloud[r].state \in {"deleting", "gone"}
                  \/ vanishes < vanishes'

\* Nothing but the queue.
Idling ==
    /\ queued' \in BOOLEAN
    /\ UNCHANGED <<kind, api, watch, sent, cache, fresh, pc, obj, before, todo,
                   cloud, created, uids, faults, drifts, vanishes, doomed, orphaned>>

Shape ==
    \/ Quiet \/ Birth \/ Death \/ Ending \/ Finalized \/ Released \/ Patched
    \/ Started \/ Weather \/ Idling
    \/ UserCreate \/ UserEdit \/ UserDelete \/ WatchSend \/ WatchDeliver

\* The reports of a pass, as steps of it.
LEMMA ReportIsPassStep ==
    ASSUME TypeOK, pc # "idle",
           NEW o \in Objects, SameMeta(o, obj), NEW reason \in Reasons,
           Report(o, reason),
           UNCHANGED <<kind, apiVars, watchVars, orphaned, drifts, vanishes>>,
           faults' \in Nat, faults <= faults',
           cloud' \in [Ids -> Resources]
    PROVE  PassStep /\ pc' = "patch" /\ obj'.status.id = o.status.id
  BY ReportFacts DEF PassStep, TypeOK, SameMeta, Steps, apiVars, watchVars

\* Changing the spec of a resource keeps its state and owner.
LEMMA PushFacts ==
    ASSUME TypeOK, Pass, PushAccepted
    PROVE  /\ cloud' \in [Ids -> Resources]
           /\ SameCloud /\ created' = created
  <1>1. obj.status.id \in Ids
    BY IdType DEF TypeOK, Pass, PushAccepted
  <1>2. Applied(obj, cloud[obj.status.id].spec) \in Specs
    BY <1>1 DEF Applied, TypeOK, Objects, Specs, Resources
  <1>3. cloud' = [cloud EXCEPT ![obj.status.id] =
                      [@ EXCEPT !.spec = Applied(obj, cloud[obj.status.id].spec)]]
    BY DEF PushAccepted
  <1> QED
    BY <1>1, <1>2, <1>3 DEF TypeOK, Resources, SameCloud, PushAccepted

\* Deleting a resource keeps its owner and leaves the others alone.
LEMMA DestroyFacts ==
    ASSUME TypeOK, Pass, DestroyAccepted
    PROVE  /\ obj.status.id \in Ids
           /\ cloud' \in [Ids -> Resources]
           /\ created' = created
           /\ cloud'[obj.status.id].owner = cloud[obj.status.id].owner
           /\ cloud'[obj.status.id].state = IF T.confirms THEN "deleting" ELSE "gone"
           /\ \A r \in Ids \ {obj.status.id} : cloud'[r] = cloud[r]
  <1>1. obj.status.id \in Ids
    BY IdType DEF TypeOK, Pass, DestroyAccepted
  <1> DEFINE st == IF T.confirms THEN "deleting" ELSE "gone"
  <1>2. st \in CloudStates
    BY DEF CloudStates
  <1>3. cloud' = [cloud EXCEPT ![obj.status.id] = [@ EXCEPT !.state = st]]
    BY DEF DestroyAccepted
  <1> HIDE DEF st
  <1>4. cloud' \in [Ids -> Resources] /\ cloud'[obj.status.id].state = st
    BY <1>1, <1>2, <1>3 DEF TypeOK, Resources
  <1>5. /\ cloud'[obj.status.id].owner = cloud[obj.status.id].owner
        /\ \A r \in Ids \ {obj.status.id} : cloud'[r] = cloud[r]
    BY <1>1, <1>3 DEF TypeOK, Resources
  <1> QED
    BY <1>1, <1>4, <1>5 DEF DestroyAccepted, st

\* A new resource belongs to the object of the pass.
LEMMA CreateFacts ==
    ASSUME TypeOK, CreateAccepted
    PROVE  /\ created + 1 \in Ids /\ created' = created + 1
           /\ cloud' \in [Ids -> Resources]
           /\ cloud'[created + 1].owner = obj.uid
           /\ cloud'[created + 1].state \in {"pending", "running"}
           /\ \A r \in Ids \ {created + 1} : cloud'[r] = cloud[r]
  <1>1. created + 1 \in Ids
    BY BoundsAssumption DEF TypeOK, CreateAccepted, Ids
  <1>2. /\ NewResource(obj) \in Resources
        /\ NewResource(obj).owner = obj.uid
        /\ NewResource(obj).state \in {"pending", "running"}
    BY DEF NewResource, TypeOK, Objects, Specs, Resources, CloudStates
  <1> QED
    BY <1>1, <1>2 DEF CreateAccepted, TypeOK

\* Every step has one of the shapes.
LEMMA StepShape ==
    ASSUME TypeOK, Pass, [Next]_vars
    PROVE  Shape
  <1> USE DEF Shape
  <1>0. /\ pc # "idle" /\ UNCHANGED <<kind, apiVars, watchVars, orphaned, drifts, vanishes>>
        /\ UNCHANGED cloudVars
        /\ faults' \in Nat /\ faults <= faults'
        => \A o \in Objects, reason \in Reasons :
               SameMeta(o, obj) /\ Report(o, reason)
               => /\ PassStep /\ created' = created /\ SameCloud
                  /\ pc' = "patch" /\ obj'.status.id = o.status.id
    BY ReportIsPassStep DEF cloudVars, SameCloud, TypeOK
  <1>1. Fault \/ NoFault => /\ faults' \in Nat /\ faults <= faults'
                            /\ UNCHANGED <<drifts, vanishes>>
    BY DEF Fault, NoFault, envVars, TypeOK
  <1>2. ASSUME ObserveMissing PROVE Quiet
    BY <1>1, <1>2 DEF ObserveMissing, Goto, OnlyWorker, Quiet, PassStep, SameCloud,
        apiVars, watchVars, cloudVars, TypeOK, SameMeta, Steps
  <1>3. ASSUME ObserveDrifted PROVE Quiet
    <2>1. PICK r \in Lookup(obj) : obj' = Adopted(r)
      BY <1>3 DEF ObserveDrifted
    <2>2. r \in 0 .. MaxIds /\ r # 0
      BY LookupFacts, BoundsAssumption DEF TypeOK, Ids
    <2>3. obj' \in Objects /\ SameMeta(obj', obj) /\ obj'.status.id = r
      BY <2>1, <2>2, AdoptedFacts DEF TypeOK
    <2> QED
      BY <1>1, <1>3, <2>2, <2>3 DEF ObserveDrifted, OnlyWorker, Quiet, PassStep,
         SameCloud, apiVars, watchVars, cloudVars, TypeOK, Steps, NormalSteps
  <1>4. \A r \in Lookup(obj) : /\ Adopted(r) \in Objects /\ SameMeta(Adopted(r), obj)
                               /\ Adopted(r).status.id = r
    BY LookupFacts, AdoptedFacts, BoundsAssumption DEF TypeOK, Ids
  <1>5. SameMeta(obj, obj) /\ obj \in Objects
    BY DEF SameMeta, TypeOK
  <1>6. ASSUME ObserveInSync PROVE Quiet
    BY <1>0, <1>1, <1>4, <1>6 DEF ObserveInSync, OnlyWorker, Quiet, Reasons, NormalSteps
  <1>7. ASSUME DependencyNotReady PROVE Quiet
    BY <1>0, <1>1, <1>4, <1>5, <1>7 DEF DependencyNotReady, OnlyWorker, Quiet, Reasons, NormalSteps
  <1>8. ASSUME CreateRefused PROVE Quiet
    BY <1>0, <1>1, <1>5, <1>8 DEF CreateRefused, OnlyWorker, Quiet, Reasons, NormalSteps
  <1>9. ASSUME Update PROVE Quiet
    <2>1. ASSUME NEW reason \in {"Pending", "UpdateFailed", "Updating"}, Report(obj, reason)
          PROVE Quiet
      BY <1>0, <1>1, <1>5, <1>9, <2>1 DEF Update, OnlyWorker, Quiet, Reasons, NormalSteps
    <2>2. ASSUME pc' = "push", todo' = UpdateCalls(obj), UNCHANGED <<obj, before, queued, fresh>>
          PROVE Quiet
      BY <1>1, <1>5, <1>9, <2>2 DEF Update, OnlyWorker, Quiet, PassStep, SameCloud,
         apiVars, watchVars, cloudVars, TypeOK, Steps, NormalSteps, UpdateCalls, Pass
    <2> QED
      BY <1>9, <2>1, <2>2 DEF Update
  <1>10. ASSUME Push \/ PushAnswerLost PROVE Quiet
    <2>1. PushAccepted /\ pc = "push"
      BY <1>10 DEF Push, PushAnswerLost, PushAccepted
    <2>2. cloud' \in [Ids -> Resources] /\ SameCloud /\ created' = created
      BY <2>1, PushFacts
    <2>3. ASSUME NEW reason \in {"UpdateFailed", "Updating"}, Report(obj, reason)
          PROVE Quiet
      <3>1. PassStep /\ pc' = "patch" /\ obj'.status.id = obj.status.id
        BY <1>1, <1>5, <1>10, <2>1, <2>2, <2>3, ReportIsPassStep
           DEF Push, PushAnswerLost, OnlyWorkerAndCloud, Reasons
      <3> QED
        BY <2>1, <2>2, <3>1 DEF Quiet, NormalSteps
    <2>4. ASSUME todo' = todo \ {NextCall}, UNCHANGED <<pc, obj, before, queued, fresh>>
          PROVE Quiet
      BY <1>1, <1>5, <1>10, <2>1, <2>2, <2>4
         DEF Push, PushAnswerLost, OnlyWorkerAndCloud, Quiet, PassStep, apiVars,
             watchVars, TypeOK, Steps, NormalSteps, Pass
    <2> QED
      BY <1>10, <2>3, <2>4 DEF Push, PushAnswerLost
  <1>11. ASSUME PushNotFound PROVE Quiet
    BY <1>0, <1>1, <1>5, <1>11 DEF PushNotFound, OnlyWorker, Quiet, Reasons, NormalSteps
  <1>12. ASSUME NEW step \in {"release", "destroy"}, pc \in {"delete", "destroy"},
                Goto(step), NoFault, OnlyWorker,
                step = "destroy" => obj.status.id # 0,
                step = "release" => obj.status.id = 0 \/ ~Exists(obj.status.id)
         PROVE Quiet
    BY <1>1, <1>5, <1>12 DEF Goto, OnlyWorker, Quiet, PassStep, SameCloud,
       apiVars, watchVars, cloudVars, TypeOK, Steps
  <1>13. ASSUME Delete PROVE Quiet
    <2>1. CASE DeleteUnderWay(obj)
      BY <1>0, <1>1, <1>5, <1>13, <2>1 DEF Delete, OnlyWorker, Quiet, Reasons
    <2>2. CASE ~DeleteUnderWay(obj)
      BY <1>12, <1>13, <2>2 DEF Delete, DeleteNext
    <2> QED
      BY <2>1, <2>2
  <1>14. ASSUME DestroyNotFound PROVE Quiet
    BY <1>12, <1>14 DEF DestroyNotFound
  <1>15. ASSUME DestroyBlocked PROVE Quiet
    BY <1>0, <1>1, <1>5, <1>15 DEF DestroyBlocked, OnlyWorker, Quiet, Reasons
  <1>16. ASSUME CallFailed PROVE Quiet
    BY <1>0, <1>1, <1>5, <1>16 DEF CallFailed, OnlyWorker, Quiet, Reasons, NormalSteps
  <1>17. ASSUME Create PROVE Birth
    <2>1. /\ created + 1 \in 0 .. MaxIds
          /\ Adopted(created + 1) \in Objects
          /\ SameMeta(Adopted(created + 1), obj)
          /\ Adopted(created + 1).status.id = created + 1
      BY <1>17, CreateFacts, AdoptedFacts, BoundsAssumption DEF Create, TypeOK, Ids
    <2> QED
      BY <1>1, <1>17, <2>1, CreateFacts, ReportIsPassStep
         DEF Create, CreateAccepted, OnlyWorkerAndCloud, Birth, Reasons
  <1>18. ASSUME CreateAnswerLost PROVE Birth
    BY <1>1, <1>5, <1>18, CreateFacts, ReportIsPassStep
       DEF CreateAnswerLost, CreateAccepted, OnlyWorkerAndCloud, Birth, Reasons, Fault, TypeOK
  <1>19. ASSUME DestroyAccepted, NEW reason \in {"Deleting", "DeleteFailed"},
                Report(obj, reason), Fault \/ NoFault, OnlyWorkerAndCloud
         PROVE Death
    BY <1>1, <1>5, <1>19, DestroyFacts, ReportIsPassStep
       DEF DestroyAccepted, OnlyWorkerAndCloud, Death, Reasons
  <1>20. ASSUME Destroy \/ DestroyAnswerLost PROVE Death
    <2>1. CASE T.confirms \/ DestroyAnswerLost
      BY <1>19, <1>20, <2>1 DEF Destroy, DestroyAnswerLost
    <2>2. CASE Destroy /\ ~T.confirms
      BY <1>1, <1>5, <2>2, DestroyFacts
         DEF Destroy, DestroyAccepted, Goto, OnlyWorkerAndCloud, Death, PassStep,
             apiVars, watchVars, TypeOK, Steps
    <2> QED
      BY <1>20, <2>1, <2>2
  <1>29. \A requeue \in BOOLEAN : Finish(requeue) => queued' \in BOOLEAN
    BY DEF Finish, TypeOK
  <1>21. ASSUME AddFinalizer PROVE Finalized \/ Ending
    <2>1. CASE "obj" \in fresh
      BY <1>21, <1>29, <2>1 DEF AddFinalizer, Finish, Write, Finalized, Written, Blank,
         NoFault, envVars, watchVars, cloudVars
    <2>2. CASE "obj" \notin fresh
      BY <1>21, <1>29, <2>2 DEF AddFinalizer, Finish, Ending, Blank,
         NoFault, envVars, watchVars, cloudVars, TypeOK
    <2> QED
      BY <2>1, <2>2
  <1>22. ASSUME RemoveFinalizer PROVE Released \/ Ending
    <2>1. CASE "obj" \in fresh
      BY <1>22, <1>29, <2>1 DEF RemoveFinalizer, Finish, Write, Released, Written, Blank,
         NoFault, envVars, watchVars, cloudVars
    <2>2. CASE "obj" \notin fresh
      BY <1>22, <1>29, <2>2 DEF RemoveFinalizer, Finish, Ending, Blank,
         NoFault, envVars, watchVars, cloudVars, TypeOK
    <2> QED
      BY <2>1, <2>2
  <1>23. ASSUME PatchStatus PROVE Patched \/ Ending
    <2>1. /\ pc = "patch" /\ Blank /\ queued' \in BOOLEAN
          /\ UNCHANGED <<kind, uids, watch, sent, cache, cloud, created, orphaned,
                         faults, drifts, vanishes>>
      BY <1>23 DEF PatchStatus, Finish, Blank, NoFault, envVars, watchVars, cloudVars, TypeOK
    <2>2. CASE \E reworded \in BOOLEAN :
                   api.uid # 0 /\ Write([api EXCEPT !.status = Merge(@, reworded)])
      BY <2>1, <2>2 DEF Write, Patched, Written
    <2>3. CASE /\ fresh' = fresh \ {"obj"} /\ UNCHANGED <<api, doomed>>
               /\ api.uid # 0 => Merge(api.status, FALSE) = api.status
      <3>1. faults' \in Nat /\ faults <= faults'
        BY <2>1 DEF TypeOK
      <3> QED
        BY <2>1, <2>3, <3>1 DEF Ending
    <2> QED
      BY <1>23, <2>2, <2>3, Zenon DEF PatchStatus
  <1>24. ASSUME PassLost PROVE Ending
    <2>1. faults' \in Nat /\ faults <= faults' /\ faults' # faults
      BY <1>24 DEF PassLost, Fault, TypeOK
    <2>2. /\ pc # "idle" /\ Blank /\ fresh' = fresh \ {"obj"} /\ queued' \in BOOLEAN
          /\ UNCHANGED <<kind, api, uids, doomed, watch, sent, cache, cloud, created,
                         orphaned, drifts, vanishes>>
      BY <1>24 DEF PassLost, Finish, Fault, Blank, OnlyWorker, apiVars, watchVars,
         cloudVars, TypeOK
    <2> QED
      BY <2>1, <2>2 DEF Ending
  <1>25. ASSUME Reconcile PROVE Started
    BY <1>25 DEF Reconcile, Dequeue, Started, NoFault, OnlyWorker, envVars, apiVars,
       watchVars, cloudVars
  <1>26. ASSUME ReconcileNothing PROVE Idling
    BY <1>26 DEF ReconcileNothing, Dequeue, Idling, NoFault, OnlyWorker, envVars,
       apiVars, watchVars, cloudVars
  <1>27. ASSUME Cloud PROVE Weather
    <2> DEFINE Becomes(r, st) ==
                   /\ cloud' \in [Ids -> Resources]
                   /\ cloud'[r].owner = cloud[r].owner /\ cloud'[r].state = st
                   /\ \A q \in Ids \ {r} : cloud'[q] = cloud[q]
    <2>1. ASSUME NEW r \in Ids, NEW st \in {"running", "gone"},
                 Becomes(r, st),
                 \/ cloud[r].state = "pending" /\ st = "running"
                 \/ cloud[r].state = "deleting"
                 \/ Exists(r) /\ vanishes < vanishes',
                 drifts' \in Nat, drifts <= drifts', vanishes' \in Nat, vanishes <= vanishes',
                 faults' = faults, OnlyCloud
          PROVE Weather
      BY <2>1 DEF Becomes, Weather, Exists, OnlyCloud, apiVars, watchVars, workerVars
    <2>2. ASSUME CloudSettle PROVE Weather
      <3>1. PICK r \in Ids : /\ cloud[r].state = "pending"
                             /\ cloud' = [cloud EXCEPT ![r].state = "running"]
        BY <2>2 DEF CloudSettle
      <3>2. cloud' = [cloud EXCEPT ![r] = [@ EXCEPT !.state = "running"]]
        BY <3>1
      <3>3. Becomes(r, "running")
        BY <3>2 DEF TypeOK, Resources, CloudStates
      <3> HIDE DEF Becomes
      <3> QED
        BY <2>1, <2>2, <3>1, <3>3 DEF CloudSettle, NoFault, envVars, TypeOK
    <2>3. ASSUME CloudPurge PROVE Weather
      <3>1. PICK r \in Ids : /\ cloud[r].state = "deleting"
                             /\ cloud' = [cloud EXCEPT ![r].state = "gone"]
        BY <2>3 DEF CloudPurge
      <3>2. cloud' = [cloud EXCEPT ![r] = [@ EXCEPT !.state = "gone"]]
        BY <3>1
      <3>3. Becomes(r, "gone")
        BY <3>2 DEF TypeOK, Resources, CloudStates
      <3> HIDE DEF Becomes
      <3> QED
        BY <2>1, <2>3, <3>1, <3>3 DEF CloudPurge, NoFault, envVars, TypeOK
    <2>4. ASSUME Vanish PROVE Weather
      <3>1. PICK r \in Ids : /\ Exists(r)
                             /\ cloud' = [cloud EXCEPT ![r].state = "gone"]
        BY <2>4 DEF Vanish
      <3>2. cloud' = [cloud EXCEPT ![r] = [@ EXCEPT !.state = "gone"]]
        BY <3>1
      <3>3. Becomes(r, "gone")
        BY <3>2 DEF TypeOK, Resources, CloudStates
      <3> HIDE DEF Becomes
      <3> QED
        BY <2>1, <2>4, <3>1, <3>3 DEF Vanish, TypeOK
    <2>5. ASSUME Drift PROVE Weather
      <3>1. PICK r \in Ids, f \in T.fields, v \in Values :
                cloud' = [cloud EXCEPT ![r].spec[f] = v]
        BY <2>5 DEF Drift
      <3>2. cloud' = [cloud EXCEPT ![r] =
                          [@ EXCEPT !.spec = [cloud[r].spec EXCEPT ![f] = v]]]
        BY <3>1
      <3>3. [cloud[r].spec EXCEPT ![f] = v] \in Specs
        BY DEF TypeOK, Resources, Specs
      <3>4. cloud' \in [Ids -> Resources] /\ SameCloud
        BY <3>2, <3>3 DEF TypeOK, Resources, SameCloud
      <3> QED
        BY <2>5, <3>4 DEF Drift, Weather, SameCloud, Exists, OnlyCloud, apiVars,
           watchVars, workerVars, TypeOK
    <2> QED
      BY <1>27, <2>2, <2>3, <2>4, <2>5 DEF Cloud
  <1>28. ASSUME UNCHANGED vars PROVE Idling
    BY <1>28 DEF vars, Idling, TypeOK
  <1> QED
    BY <1>2, <1>3, <1>6, <1>7, <1>8, <1>9, <1>10, <1>11, <1>13, <1>14, <1>15, <1>16,
       <1>17, <1>18, <1>20, <1>21, <1>22, <1>23, <1>24, <1>25, <1>26, <1>27, <1>28
       DEF Next, User, Worker, Failure

-----------------------------------------------------------------------------
(* Preservation, one lemma for each part of the invariant. *)

\* The identifier a status patch leaves on the server.
MergedId == IF obj.status.id # before.id THEN obj.status.id ELSE api.status.id

\* What a status patch puts on the server is a status.
LEMMA MergeFacts ==
    ASSUME TypeOK, NEW reworded \in BOOLEAN
    PROVE  /\ Merge(api.status, reworded) \in Statuses
           /\ Merge(api.status, reworded).id = MergedId
  BY DEF Merge, MergedId, TypeOK, Objects, Statuses

\* The users' writes, field by field.
LEMMA UserFacts ==
    ASSUME TypeOK, UserCreate \/ UserEdit \/ UserDelete
    PROVE  /\ api' \in Objects
           /\ fresh' = {}
           /\ doomed' = doomed \cup Doom(api') /\ doomed' \subseteq Nat
           /\ uids' \in Nat /\ uids <= uids'
           /\ UNCHANGED <<kind, watch, sent, cache, pc, obj, before, todo, queued,
                          cloud, created, faults, drifts, vanishes, orphaned>>
           /\ \/ /\ api.uid = 0 /\ uids' = uids + 1 /\ api'.uid = uids'
                 /\ ~api'.deleting /\ ~api'.fin /\ api'.status = NoStatus
              \/ /\ api.uid # 0 /\ uids' = uids /\ api'.uid = api.uid
                 /\ api'.fin = api.fin /\ api'.status = api.status
                 /\ api'.deleting = api.deleting \/ (api.fin /\ api'.deleting)
              \/ /\ api.uid # 0 /\ ~api.fin /\ uids' = uids /\ api' = NoObject
  <1>1. /\ fresh' = {} /\ doomed' = doomed \cup Doom(api')
        /\ UNCHANGED <<kind, watch, sent, cache, pc, obj, before, todo, queued,
                       cloud, created, faults, drifts, vanishes, orphaned>>
    BY DEF UserCreate, UserEdit, UserDelete, Write, OnlyServer, watchVars,
       workerVars, cloudVars, envVars
  <1>2. api' \in Objects => doomed' \subseteq Nat
    BY <1>1 DEF Doom, TypeOK, Objects
  <1>3. CASE UserCreate
    <2>1. PICK sp \in Specs, p \in Policies :
              api' = [NoObject EXCEPT !.uid = uids + 1, !.gen = 1, !.spec = sp, !.policy = p]
      BY <1>3 DEF UserCreate, Write
    <2>2. /\ api' \in Objects /\ api'.uid = uids + 1 /\ ~api'.deleting /\ ~api'.fin
          /\ api'.status = NoStatus
      <3>1. api' = [uid |-> uids + 1, gen |-> 1, spec |-> sp, policy |-> p,
                    deleting |-> FALSE, fin |-> FALSE, status |-> NoStatus]
        BY <2>1 DEF NoObject
      <3>2. uids + 1 \in Nat
        BY DEF TypeOK
      <3> QED
        BY <3>1, <3>2, Blanks DEF Objects
    <2>3. api.uid = 0 /\ uids' = uids + 1 /\ uids \in Nat
      BY <1>3 DEF UserCreate, TypeOK
    <2> QED
      BY <1>1, <1>2, <2>2, <2>3
  <1>4. CASE UserEdit
    <2>1. PICK sp \in Specs, p \in Policies :
              api' = [api EXCEPT !.spec = sp, !.policy = p, !.gen = @ + 1]
      BY <1>4 DEF UserEdit, Write
    <2>2. /\ api' \in Objects /\ api'.uid = api.uid /\ api'.deleting = api.deleting
          /\ api'.fin = api.fin /\ api'.status = api.status
      <3>1. api' = [uid |-> api.uid, gen |-> api.gen + 1, spec |-> sp, policy |-> p,
                    deleting |-> api.deleting, fin |-> api.fin, status |-> api.status]
        BY <2>1 DEF Objects, TypeOK
      <3>2. api.gen + 1 \in Nat
        BY DEF TypeOK, Objects
      <3> QED
        BY <3>1, <3>2 DEF Objects, TypeOK
    <2>3. api.uid # 0 /\ uids' = uids /\ uids \in Nat
      BY <1>4 DEF UserEdit, TypeOK
    <2> QED
      BY <1>1, <1>2, <2>2, <2>3
  <1>5. CASE UserDelete
    <2>1. CASE api.fin
      <3>1. api' = [api EXCEPT !.deleting = TRUE, !.gen = @ + 1]
        BY <1>5, <2>1 DEF UserDelete, Write
      <3>2. /\ api' \in Objects /\ api'.uid = api.uid /\ api'.deleting
            /\ api'.fin = api.fin /\ api'.status = api.status
        <4>1. api' = [uid |-> api.uid, gen |-> api.gen + 1, spec |-> api.spec,
                      policy |-> api.policy, deleting |-> TRUE, fin |-> api.fin,
                      status |-> api.status]
          BY <3>1 DEF Objects, TypeOK
        <4>2. api.gen + 1 \in Nat
          BY DEF TypeOK, Objects
        <4> QED
          BY <4>1, <4>2 DEF Objects, TypeOK
      <3> QED
        BY <1>1, <1>2, <1>5, <2>1, <3>2 DEF UserDelete, TypeOK
    <2>2. CASE ~api.fin
      BY <1>1, <1>2, <1>5, <2>2, Blanks DEF UserDelete, Write, TypeOK
    <2> QED
      BY <2>1, <2>2
  <1> QED
    BY <1>3, <1>4, <1>5

\* The worker's writes, field by field.
LEMMA WriteFacts ==
    ASSUME TypeOK, Finalized \/ Released \/ Patched
    PROVE  /\ api' \in Objects
           /\ Blank /\ fresh' = {} /\ queued' \in BOOLEAN
           /\ doomed' = doomed \cup Doom(api') /\ doomed' \subseteq Nat
           /\ orphaned \subseteq orphaned' /\ orphaned' \subseteq Nat
           /\ UNCHANGED <<kind, uids, watch, sent, cache, cloud, created, faults,
                          drifts, vanishes>>
           /\ Finalized => /\ api'.uid = api.uid /\ api'.deleting = api.deleting
                           /\ api'.policy = api.policy
                           /\ api'.fin /\ api'.status = api.status
           /\ Released => api' = NoObject
           /\ Patched => /\ api'.uid = api.uid /\ api'.deleting = api.deleting
                         /\ api'.policy = api.policy
                         /\ api'.fin = api.fin /\ api'.status.id = MergedId
  <1>1. /\ Blank /\ fresh' = {} /\ queued' \in BOOLEAN
        /\ doomed' = doomed \cup Doom(api')
        /\ UNCHANGED <<kind, uids, watch, sent, cache, cloud, created, faults,
                       drifts, vanishes>>
    BY DEF Finalized, Released, Patched, Written
  <1>2. api' \in Objects => doomed' \subseteq Nat
    BY <1>1 DEF Doom, TypeOK, Objects
  <1>3. orphaned \subseteq orphaned' /\ orphaned' \subseteq Nat
    BY DEF Finalized, Released, Patched, TypeOK, Objects
  <1>4. Finalized => /\ api' \in Objects
                     /\ api'.uid = api.uid /\ api'.deleting = api.deleting
                     /\ api'.policy = api.policy
                     /\ api'.fin /\ api'.status = api.status
    BY DEF Finalized, TypeOK, Objects
  <1>5. Released => api' = NoObject /\ api' \in Objects
    BY Blanks DEF Released
  <1>6. Patched => /\ api' \in Objects
                   /\ api'.uid = api.uid /\ api'.deleting = api.deleting
                   /\ api'.policy = api.policy
                   /\ api'.fin = api.fin /\ api'.status.id = MergedId
    <2> SUFFICES ASSUME Patched
                 PROVE  /\ api' \in Objects
                        /\ api'.uid = api.uid /\ api'.deleting = api.deleting
                        /\ api'.policy = api.policy
                        /\ api'.fin = api.fin /\ api'.status.id = MergedId
      OBVIOUS
    <2>1. PICK reworded \in BOOLEAN :
              api' = [api EXCEPT !.status = Merge(api.status, reworded)]
      BY DEF Patched
    <2>2. /\ Merge(api.status, reworded) \in Statuses
          /\ Merge(api.status, reworded).id = MergedId
      BY MergeFacts
    <2> QED
      BY <2>1, <2>2 DEF TypeOK, Objects
  <1> QED
    BY <1>1, <1>2, <1>3, <1>4, <1>5, <1>6

\* Every step keeps the types, and the identifiers handed out in order.
LEMMA TypeStep ==
    ASSUME TypeOK, Pass, Shape
    PROVE  TypeOK'
  <1>1. CASE Quiet
    BY <1>1 DEF Quiet, PassStep, SameCloud, TypeOK
  <1>2. CASE Birth
    <2>1. created' \in 0 .. MaxIds
      BY <1>2, BoundsAssumption DEF Birth, Ids
    <2>2. \A r \in Ids : cloud'[r].state = "none" <=> r > created'
      BY <1>2, BoundsAssumption DEF Birth, TypeOK, Ids
    <2> QED
      BY <1>2, <2>1, <2>2 DEF Birth, PassStep, TypeOK
  <1>3. CASE Death
    <2>1. \A r \in Ids : cloud'[r].state = "none" <=> r > created'
      BY <1>3 DEF Death, TypeOK, Exists
    <2> QED
      BY <1>3, <2>1 DEF Death, PassStep, TypeOK
  <1>4. CASE Ending
    BY <1>4, Blanks DEF Ending, Blank, TypeOK, Steps
  <1>5. CASE Finalized \/ Released \/ Patched
    BY <1>5, Blanks, WriteFacts DEF Blank, TypeOK, Steps
  <1>6. CASE Started
    <2>1. pc' \in Steps /\ pc' # "idle"
      BY <1>6 DEF Started, FirstStep, Steps
    <2> QED
      BY <1>6, <2>1 DEF Started, TypeOK, Objects
  <1>7. CASE Weather
    BY <1>7 DEF Weather, TypeOK
  <1>8. CASE Idling
    BY <1>8 DEF Idling, TypeOK
  <1>9. CASE UserCreate \/ UserEdit \/ UserDelete
    BY <1>9, UserFacts DEF TypeOK
  <1>10. CASE WatchSend
    BY <1>10 DEF WatchSend, apiVars, workerVars, cloudVars, envVars, TypeOK
  <1>11. CASE WatchDeliver
    BY <1>11, Blanks DEF WatchDeliver, apiVars, cloudVars, envVars, TypeOK
  <1> QED
    BY <1>1, <1>2, <1>3, <1>4, <1>5, <1>6, <1>7, <1>8, <1>9, <1>10, <1>11 DEF Shape

\* Every step keeps the bookkeeping of resourceVersions: a copy counted as
\* current equals the server's object.
LEMMA VersionsStep ==
    ASSUME Inv, Shape
    PROVE  Versions'
  <1> USE DEF Inv
  <1>1. CASE PassStep
    BY <1>1 DEF PassStep, Versions, SameMeta
  <1>2. CASE Ending
    BY <1>2 DEF Ending, Versions
  <1>3. CASE Finalized \/ Released \/ Patched
    BY <1>3, WriteFacts DEF Versions
  <1>4. CASE Started
    <2>1. pc' # "idle"
      BY <1>4 DEF Started, FirstStep
    <2>2. "obj" \in fresh' => "cache" \in fresh
      BY <1>4 DEF Started
    <2> QED
      BY <1>4, <2>1, <2>2 DEF Started, Versions, SameMeta
  <1>5. CASE Weather
    BY <1>5 DEF Weather, Versions, SameMeta
  <1>6. CASE Idling
    BY <1>6 DEF Idling, Versions, SameMeta
  <1>7. CASE UserCreate \/ UserEdit \/ UserDelete
    BY <1>7, UserFacts DEF Versions
  <1>8. CASE WatchSend
    BY <1>8 DEF WatchSend, apiVars, workerVars, Versions, SameMeta
  <1>9. CASE WatchDeliver
    <2>1. "obj" \notin fresh
      BY <1>9 DEF WatchDeliver, Versions
    <2> QED
      BY <1>9, <2>1 DEF WatchDeliver, apiVars, Versions
  <1> QED
    BY <1>1, <1>2, <1>3, <1>4, <1>5, <1>6, <1>7, <1>8, <1>9
       DEF Shape, Quiet, Birth, Death

\* Every step keeps the copies of the object well formed and no newer than the
\* server: the watch and the cache lag, but invent nothing.
LEMMA CopiesStep ==
    ASSUME Inv, Shape
    PROVE  Copies'
  <1> USE DEF Inv
  <1>0. /\ ~NoObject.deleting /\ NoObject.uid = 0 /\ 0 <= uids
        /\ \A o \in {watch, cache, obj} : o.deleting => o.uid # 0
    BY DEF Copies, WellFormed, NoObject, TypeOK
  <1>1. CASE PassStep
    <2>1. obj.uid # 0 /\ SameMeta(obj', obj)
      BY <1>1 DEF PassStep, Pass
    <2>2. WellFormed(obj)' /\ Attached(obj)' /\ Condemned(obj)'
      BY <1>1, <2>1 DEF PassStep, SameMeta, Copies, WellFormed, Attached, Condemned
    <2>3. Later(obj, cache)' /\ Later(obj, watch)' /\ Later(obj, api)'
      BY <1>1, <2>1 DEF PassStep, SameMeta, Copies, Later
    <2> QED
      BY <1>1, <2>2, <2>3 DEF PassStep, Copies, WellFormed, Attached, Condemned, Later
  <1>2. CASE Ending
    BY <1>0, <1>2 DEF Ending, Blank, Copies, WellFormed, Attached, Condemned, Later
  <1>3. CASE Finalized
    <2>1. api.uid # 0 /\ ~api.deleting
      BY <1>3 DEF Finalized, Versions, SameMeta, Pass
    <2> QED
      BY <1>0, <1>3, <2>1, WriteFacts
         DEF Blank, Copies, WellFormed, Attached, Condemned, Later, Doom
  <1>4. CASE Released
    <2>1. "cache" \in fresh /\ ~sent /\ watch = NoObject /\ cache = api /\ api.deleting
      BY <1>4 DEF Released, Versions, SameMeta, Pass, DeleteSteps
    <2> QED
      BY <1>0, <1>4, <2>1, WriteFacts
         DEF Blank, Copies, WellFormed, Attached, Condemned, Later, Doom
  <1>5. CASE Patched
    <2>1. api.uid # 0
      BY <1>5 DEF Patched
    <2> QED
      BY <1>0, <1>5, <2>1, WriteFacts
         DEF Blank, Copies, WellFormed, Attached, Condemned, Later, Doom
  <1>6. CASE Started
    BY <1>0, <1>6 DEF Started, Copies, WellFormed, Attached, Condemned, Later
  <1>7. CASE Weather
    BY <1>7 DEF Weather, Copies, WellFormed, Attached, Condemned, Later
  <1>8. CASE Idling
    BY <1>8 DEF Idling, Copies, WellFormed, Attached, Condemned, Later
  <1>9. CASE UserCreate \/ UserEdit \/ UserDelete
    <2>1. api'.uid = 0 => api' = NoObject
      BY <1>9, UserFacts DEF TypeOK
    <2>2. WellFormed(api)'
      BY <1>0, <1>9, <2>1, UserFacts DEF Copies, WellFormed, TypeOK
    <2>3. WellFormed(watch)' /\ WellFormed(cache)' /\ WellFormed(obj)'
      BY <1>9, UserFacts DEF Copies, WellFormed, TypeOK, Objects
    <2>4. Attached(watch)' /\ Attached(cache)' /\ Attached(obj)'
      BY <1>9, UserFacts DEF Copies, Attached
    <2>5. Condemned(api)' /\ Condemned(watch)' /\ Condemned(cache)' /\ Condemned(obj)'
      BY <1>9, UserFacts DEF Copies, Condemned, Doom
    <2>6. \A o \in {watch, cache, obj} : o.uid <= uids /\ o.uid \in Nat
      BY DEF Copies, WellFormed, TypeOK, Objects
    <2>7. \A o \in {watch, cache, obj} : Later(o, api) => (o.deleting /\ api'.uid = o.uid => api'.deleting)
      BY <1>0, <1>9, <2>6, UserFacts DEF Later, TypeOK
    <2>8. Later(watch, api)' /\ Later(cache, api)' /\ Later(obj, api)'
      BY <1>9, <2>7, UserFacts DEF Copies, Later
    <2> QED
      BY <1>9, <2>2, <2>3, <2>4, <2>5, <2>8, UserFacts DEF Copies, Later
  <1>10. CASE WatchSend
    BY <1>10 DEF WatchSend, apiVars, workerVars, Copies, WellFormed, Attached, Condemned, Later
  <1>11. CASE WatchDeliver
    BY <1>0, <1>11 DEF WatchDeliver, apiVars, Copies, WellFormed, Attached, Condemned, Later
  <1> QED
    BY <1>1, <1>2, <1>3, <1>4, <1>5, <1>6, <1>7, <1>8, <1>9, <1>10, <1>11
       DEF Shape, Quiet, Birth, Death

\* Every step keeps what the worker's position says about its working copy
\* (reconcileNormal, reconcileDelete and the status patch after them).
LEMMA PassPreserved ==
    ASSUME Inv, Shape
    PROVE  Pass'
  <1> USE DEF Inv
  <1>1. CASE Quiet
    <2>1. SameMeta(obj', obj) /\ before' = before /\ obj.uid # 0
      BY <1>1 DEF Quiet, PassStep, Pass
    <2>2. \A r \in Ids : Exists(r)' <=> Exists(r)
      BY <1>1 DEF Quiet, SameCloud, Exists
    <2>3. obj'.status.id # 0 => obj'.status.id \in Ids
      BY <1>1, IdType DEF Quiet, PassStep
    <2>4. obj'.status.id = 0 => before.id = 0
      BY <1>1, LookupFacts DEF Quiet, Pass, TypeOK
    <2> QED
      BY <1>1, <2>1, <2>2, <2>3, <2>4 DEF Quiet, SameMeta, Pass, NormalSteps, DeleteSteps
  <1>2. CASE Birth
    <2>1. created + 1 # 0
      BY DEF TypeOK
    <2> QED
      BY <1>2, <2>1 DEF Birth, PassStep, SameMeta, Pass, NormalSteps, DeleteSteps
  <1>3. CASE Death
    BY <1>3 DEF Death, PassStep, SameMeta, Pass, NormalSteps, DeleteSteps, Exists
  <1>4. CASE Blank
    BY <1>4 DEF Blank, Pass, NormalSteps, DeleteSteps, NoStatus
  <1>5. CASE Started
    <2>1. cache.uid # 0 /\ (cache.deleting => cache.fin)
      BY <1>5 DEF Started, Skip
    <2>2. /\ cache.deleting => pc' \in {"release", "delete"}
          /\ pc' = "release" => cache.deleting /\ cache.policy = "Orphan"
          /\ pc' = "delete" => cache.deleting /\ cache.policy # "Orphan"
          /\ pc' = "finalize" => ~cache.deleting /\ ~cache.fin
          /\ pc' = "observe" => ~cache.deleting /\ cache.fin
          /\ pc' \in {"release", "delete", "finalize", "observe"}
      BY <1>5 DEF Started, FirstStep
    <2> QED
      BY <1>5, <2>1, <2>2 DEF Started, Pass, NormalSteps, DeleteSteps
  <1>6. CASE Weather
    <2>1. \A r \in Ids : Exists(r)' => Exists(r)
      BY <1>6 DEF Weather, Exists
    <2>2. obj.status.id # 0 => obj.status.id \in Ids
      BY IdType DEF TypeOK
    <2> QED
      BY <1>6, <2>1, <2>2 DEF Weather, Pass
  <1>7. CASE UNCHANGED <<pc, obj, before, cloud>>
    BY <1>7 DEF Pass, Exists
  <1> QED
    BY <1>1, <1>2, <1>3, <1>4, <1>5, <1>6, <1>7, UserFacts
       DEF Shape, Ending, Finalized, Released, Patched, Written, Idling, WatchSend,
           WatchDeliver, workerVars, cloudVars

\* Every step keeps the owner label of a resource one of the uids handed out.
LEMMA OwnersStep ==
    ASSUME Inv, Shape
    PROVE  Owners'
  <1> USE DEF Inv
  <1>1. CASE Quiet
    BY <1>1 DEF Quiet, PassStep, SameCloud, Owners, Exists
  <1>2. CASE Birth
    <2>1. obj.uid # 0 /\ obj.uid <= uids
      BY <1>2 DEF Birth, Pass, Copies, WellFormed
    <2> QED
      BY <1>2, <2>1 DEF Birth, PassStep, Owners, Exists
  <1>3. CASE Death
    BY <1>3 DEF Death, PassStep, Owners, Exists
  <1>4. CASE Weather
    BY <1>4 DEF Weather, Owners, Exists
  <1>5. CASE UserCreate \/ UserEdit \/ UserDelete
    BY <1>5, UserFacts DEF Owners, Exists, TypeOK, Resources
  <1>6. CASE UNCHANGED <<cloud, uids>>
    BY <1>6 DEF Owners, Exists
  <1> QED
    BY <1>1, <1>2, <1>3, <1>4, <1>5, <1>6
       DEF Shape, Ending, Finalized, Released, Patched, Written, Started, Idling,
           WatchSend, WatchDeliver, apiVars, cloudVars

\* A resource, once there, keeps its owner and leaves a trace.
LEMMA CloudHistory ==
    ASSUME TypeOK, Pass, Shape
    PROVE  \A r \in Ids : cloud[r].state # "none" =>
               cloud'[r].state # "none" /\ cloud'[r].owner = cloud[r].owner
  <1>1. CASE Quiet
    BY <1>1 DEF Quiet, SameCloud
  <1>2. CASE Birth
    BY <1>2 DEF Birth, TypeOK
  <1>3. CASE Death
    BY <1>3 DEF Death
  <1>4. CASE Weather
    BY <1>4 DEF Weather
  <1>5. CASE UNCHANGED cloud
    BY <1>5
  <1> QED
    BY <1>1, <1>2, <1>3, <1>4, <1>5, UserFacts
       DEF Shape, Ending, Finalized, Released, Patched, Written, Started, Idling,
           WatchSend, WatchDeliver, cloudVars

\* A status patch that changes the identifier is from a live pass over the
\* very object it lands on.
LEMMA PatchTarget ==
    ASSUME Inv, pc = "patch", obj.status.id # before.id
    PROVE  /\ ~obj.deleting /\ obj.fin /\ api.uid = obj.uid
           /\ obj.status.id # 0 /\ obj.status.id \in Ids
  <1>1. obj.fin /\ ~obj.deleting /\ obj.uid # 0 /\ obj.status.id # 0
    BY DEF Inv, Pass
  <1>2. obj.status.id \in Ids
    BY <1>1, IdType DEF Inv, TypeOK
  <1> QED
    BY <1>1, <1>2 DEF Inv, Copies, Attached

\* Every step keeps the identifiers in all copies those of own resources.
LEMMA OwnIdentityStep ==
    ASSUME Inv, Shape
    PROVE  OwnIdentity'
  <1> USE DEF Inv
  <1>0. /\ Owned(api) /\ Owned(watch) /\ Owned(cache) /\ Owned(obj)
        /\ \A o \in Objects : o.status.id # 0 => o.status.id \in Ids
    BY IdType DEF OwnIdentity
  <1>1. ASSUME NEW o \in Objects, NEW p \in Objects, Owned(o),
               p.status.id = o.status.id, p.uid = o.uid
        PROVE p.status.id # 0 => /\ cloud'[p.status.id].state # "none"
                                 /\ cloud'[p.status.id].owner = p.uid
    BY <1>0, <1>1, CloudHistory DEF Owned
  <1>2. \A o \in {api, watch, cache, obj, NoObject} : o \in Objects
    BY Blanks DEF TypeOK
  <1>3. NoObject.status.id = 0
    BY DEF NoObject, NoStatus
  <1>4. /\ api' = api => Owned(api)'
        /\ watch' \in {watch, api, NoObject} => Owned(watch)'
        /\ cache' \in {cache, watch} => Owned(cache)'
        /\ obj' \in {obj, cache, NoObject} => Owned(obj)'
    BY <1>0, <1>1, <1>2, <1>3 DEF Owned
  <1>5. CASE Quiet
    <2>1. obj' \in Objects /\ obj'.uid = obj.uid
      BY <1>5 DEF Quiet, PassStep, SameMeta
    <2>2. ASSUME obj'.status.id = obj.status.id PROVE Owned(obj)'
      BY <1>0, <1>1, <1>2, <2>1, <2>2, Zenon DEF Owned
    <2>3. ASSUME obj'.status.id \in Lookup(obj) PROVE Owned(obj)'
      <3>1. /\ obj'.status.id \in Ids /\ Exists(obj'.status.id)
            /\ obj.status.id # 0 => obj'.status.id = obj.status.id
            /\ obj.status.id = 0 => cloud[obj'.status.id].owner = obj.uid
        BY <1>2, <2>3, LookupFacts
      <3>2. cloud[obj'.status.id].state # "none" /\ cloud[obj'.status.id].owner = obj.uid
        BY <1>0, <3>1 DEF Owned, Exists
      <3> QED
        BY <2>1, <3>1, <3>2, CloudHistory DEF Owned
    <2>4. Owned(obj)'
      BY <1>4, <1>5, <2>2, <2>3 DEF Quiet
    <2> QED
      BY <1>4, <1>5, <2>4 DEF Quiet, PassStep, OwnIdentity
  <1>6. CASE Birth
    <2>1. obj' \in Objects /\ obj'.uid = obj.uid
      BY <1>6 DEF Birth, PassStep, SameMeta
    <2>2. ASSUME obj'.status.id = obj.status.id PROVE Owned(obj)'
      BY <1>0, <1>1, <1>2, <2>1, <2>2, Zenon DEF Owned
    <2>3. ASSUME obj'.status.id = created + 1 PROVE Owned(obj)'
      BY <1>6, <2>1, <2>3 DEF Birth, Owned
    <2>4. Owned(obj)'
      BY <1>6, <2>2, <2>3 DEF Birth
    <2> QED
      BY <1>4, <1>6, <2>4 DEF Birth, PassStep, OwnIdentity
  <1>7. CASE Death
    <2>1. obj' \in Objects /\ obj'.uid = obj.uid /\ obj'.status.id = obj.status.id
      BY <1>7 DEF Death, PassStep, SameMeta
    <2>2. Owned(obj)'
      BY <1>0, <1>1, <1>2, <2>1, Zenon DEF Owned
    <2> QED
      BY <1>4, <1>7, <2>2 DEF Death, PassStep, OwnIdentity
  <1>8. CASE Finalized \/ Released \/ Patched
    <2>1. ASSUME Finalized PROVE Owned(api)'
      BY <1>0, <1>1, <1>2, <2>1, WriteFacts, Zenon DEF Owned
    <2>2. ASSUME Released PROVE Owned(api)'
      BY <1>3, <2>2, WriteFacts DEF Owned
    <2>3. ASSUME Patched PROVE Owned(api)'
      <3>1. CASE obj.status.id # before.id
        <4>1. api.uid = obj.uid /\ api'.uid = obj.uid /\ api'.status.id = obj.status.id
          BY <2>3, <3>1, PatchTarget, WriteFacts DEF MergedId, Patched
        <4> QED
          BY <1>0, <1>1, <1>2, <2>3, <4>1, WriteFacts, Zenon DEF Owned
      <3>2. CASE obj.status.id = before.id
        <4>1. api'.uid = api.uid /\ api'.status.id = api.status.id
          BY <2>3, <3>2, WriteFacts DEF MergedId
        <4> QED
          BY <1>0, <1>1, <1>2, <2>3, <4>1, WriteFacts, Zenon DEF Owned
      <3> QED
        BY <3>1, <3>2
    <2>4. Owned(api)'
      BY <1>8, <2>1, <2>2, <2>3
    <2> QED
      BY <1>4, <1>8, <2>4, WriteFacts DEF Blank, OwnIdentity
  <1>9. CASE UserCreate \/ UserEdit \/ UserDelete
    <2>1. \/ api'.status.id = 0
          \/ api'.uid = api.uid /\ api'.status.id = api.status.id
      BY <1>3, <1>9, UserFacts DEF NoStatus
    <2>2. Owned(api)'
      BY <1>0, <1>1, <1>2, <1>9, <2>1, UserFacts, Zenon DEF Owned
    <2> QED
      BY <1>4, <1>9, <2>2, UserFacts DEF OwnIdentity
  <1>10. CASE /\ api' = api /\ watch' \in {watch, api, NoObject}
              /\ cache' \in {cache, watch} /\ obj' \in {obj, cache, NoObject}
    BY <1>4, <1>10 DEF OwnIdentity
  <1> QED
    BY <1>5, <1>6, <1>7, <1>8, <1>9, <1>10
       DEF Shape, Ending, Blank, Started, Weather, Idling, WatchSend, WatchDeliver,
           apiVars, workerVars

\* Every step keeps the finalizer on an object that has a resource.
LEMMA FinalizerGuardStep ==
    ASSUME Inv, Shape
    PROVE  FinalizerGuard'
  <1> USE DEF Inv
  <1>1. CASE Quiet
    BY <1>1 DEF Quiet, PassStep, SameCloud, FinalizerGuard, Exists
  <1>2. CASE Birth
    <2>1. api.uid = obj.uid /\ api.fin
      BY <1>2 DEF Birth, Pass, NormalSteps, Copies, Attached
    <2> QED
      BY <1>2, <2>1 DEF Birth, PassStep, FinalizerGuard, Exists
  <1>3. CASE Death
    BY <1>3 DEF Death, PassStep, FinalizerGuard, Exists
  <1>4. CASE Finalized \/ Released \/ Patched
    <2>1. Finalized => api'.fin
      BY WriteFacts
    <2>2. Released => api'.uid = 0
      BY WriteFacts DEF NoObject
    <2>3. Patched => api'.uid = api.uid /\ api'.fin = api.fin
      BY WriteFacts
    <2> QED
      BY <1>4, <2>1, <2>2, <2>3, WriteFacts DEF FinalizerGuard, Exists
  <1>5. CASE Weather
    BY <1>5 DEF Weather, FinalizerGuard, Exists
  <1>6. CASE UserCreate \/ UserEdit \/ UserDelete
    <2>1. \A r \in Ids : cloud[r].owner # uids + 1
      BY DEF Owners, TypeOK, Resources
    <2> QED
      BY <1>6, <2>1, UserFacts DEF FinalizerGuard, Exists, NoObject
  <1>7. CASE UNCHANGED <<api, cloud>>
    BY <1>7 DEF FinalizerGuard, Exists
  <1> QED
    BY <1>1, <1>2, <1>3, <1>4, <1>5, <1>6, <1>7
       DEF Shape, Ending, Started, Idling, WatchSend, WatchDeliver, apiVars, cloudVars

\* Every step keeps the resources of objects under deletion under that object's
\* policy: only a doomed object's resources are being deleted.
LEMMA RetirementStep ==
    ASSUME Inv, Shape
    PROVE  Retirement'
  <1> USE DEF Inv
  <1>1. CASE Quiet
    BY <1>1 DEF Quiet, PassStep, SameCloud, SameMeta, Retirement, Retired
  <1>2. CASE Birth
    BY <1>2 DEF Birth, PassStep, SameMeta, Retirement, Retired
  <1>3. CASE Death
    <2>1. obj.deleting /\ obj.uid # 0 /\ cloud[obj.status.id].owner = obj.uid
      BY <1>3 DEF Death, Pass, DeleteSteps, OwnIdentity, Owned
    <2>2. \A o \in {api, watch, cache} : o.uid = obj.uid => o.deleting
      BY <2>1 DEF Copies, Later
    <2>3. obj'.deleting = obj.deleting /\ obj'.uid = obj.uid
      BY <1>3 DEF Death, PassStep, SameMeta
    <2> QED
      BY <1>3, <2>1, <2>2, <2>3 DEF Death, PassStep, Retirement, Retired
  <1>4. CASE Ending
    BY <1>4 DEF Ending, Blank, Retirement, Retired, NoObject
  <1>5. CASE Finalized \/ Released \/ Patched
    <2>1. api'.uid = 0 \/ (api'.uid = api.uid /\ api'.deleting = api.deleting)
      BY <1>5, WriteFacts DEF NoObject
    <2> QED
      BY <1>5, <2>1, WriteFacts DEF Blank, Retirement, Retired, NoObject
  <1>6. CASE Started
    BY <1>6 DEF Started, Retirement, Retired
  <1>7. CASE Weather
    <2>1. vanishes' = 0 => vanishes = 0 /\ ~(vanishes < vanishes')
      BY <1>7 DEF Weather, TypeOK
    <2> QED
      BY <1>7, <2>1 DEF Weather, Retirement, Retired
  <1>8. CASE UserCreate \/ UserEdit \/ UserDelete
    <2>1. \A r \in Ids : cloud[r].owner # uids + 1
      BY DEF Owners, TypeOK, Resources
    <2>2. \/ api'.uid = uids + 1 \/ api'.uid = 0
          \/ api'.uid = api.uid /\ (api.deleting => api'.deleting)
      BY <1>8, UserFacts DEF NoObject
    <2> QED
      BY <1>8, <2>1, <2>2, UserFacts DEF Retirement, Retired
  <1>9. CASE Idling
    BY <1>9 DEF Idling, Retirement, Retired
  <1>10. CASE WatchSend
    BY <1>10 DEF WatchSend, apiVars, workerVars, cloudVars, envVars, Retirement, Retired
  <1>11. CASE WatchDeliver
    BY <1>11 DEF WatchDeliver, apiVars, cloudVars, envVars, Retirement, Retired, NoObject
  <1> QED
    BY <1>1, <1>2, <1>3, <1>4, <1>5, <1>6, <1>7, <1>8, <1>9, <1>10, <1>11 DEF Shape

\* A resource a live pass knows by its identifier exists, unless something
\* was removed outside the operator.
LEMMA KnownExists ==
    ASSUME Inv, vanishes = 0,
           NEW o \in {api, obj}, o.status.id # 0, obj.uid = o.uid, ~obj.deleting
    PROVE  /\ o.status.id \in Ids /\ Exists(o.status.id)
           /\ cloud[o.status.id].owner = obj.uid
  <1>1. o.status.id \in Ids
    BY IdType DEF Inv, TypeOK
  <1>2. cloud[o.status.id].owner = obj.uid /\ cloud[o.status.id].state # "none"
    BY DEF Inv, OwnIdentity, Owned
  <1>3. cloud[o.status.id].state \in CloudStates
    BY <1>1 DEF Inv, TypeOK, Resources
  <1>4. cloud[o.status.id].state \notin {"deleting", "gone"}
    BY <1>1, <1>2 DEF Inv, Retirement, Retired
  <1> QED
    BY <1>1, <1>2, <1>3, <1>4 DEF Exists, CloudStates

\* Every step keeps this: when a pass is about to create, no resource with the
\* label of its object exists.
LEMMA VacancyStep ==
    ASSUME Inv, Shape
    PROVE  Vacancy'
  <1> USE DEF Inv
  <1>1. CASE Quiet
    <2> SUFFICES ASSUME T'.adopts, vanishes' = 0, pc' = "create"
                 PROVE  \A r \in Ids : Exists(r)' => cloud'[r].owner # obj'.uid
      BY DEF Vacancy
    <2>1. /\ pc = "observe" /\ Lookup(obj) = {} /\ obj' = obj /\ T.adopts /\ vanishes = 0
      BY <1>1 DEF Quiet, PassStep, T
    <2>2. ~obj.deleting
      BY <2>1 DEF Pass, NormalSteps
    <2>3. obj.status.id = 0
      BY <2>1, <2>2, KnownExists DEF Lookup
    <2>4. \A r \in Ids : Exists(r) => cloud[r].owner # obj.uid
      BY <2>1, <2>3 DEF Lookup
    <2> QED
      BY <1>1, <2>1, <2>4 DEF Quiet, SameCloud, Exists
  <1>2. CASE Birth \/ Death
    BY <1>2 DEF Birth, Death, Vacancy
  <1>3. CASE Blank
    BY <1>3 DEF Blank, Vacancy
  <1>4. CASE Started
    BY <1>4 DEF Started, FirstStep, Vacancy
  <1>5. CASE Weather
    BY <1>5 DEF Weather, Vacancy, Exists, TypeOK, T
  <1>6. CASE UNCHANGED <<kind, vanishes, pc, obj, cloud>>
    BY <1>6 DEF Vacancy, Exists, T
  <1> QED
    BY <1>1, <1>2, <1>3, <1>4, <1>5, <1>6, UserFacts
       DEF Shape, Ending, Finalized, Released, Patched, Written, Idling, WatchSend,
           WatchDeliver, workerVars, cloudVars, envVars

\* Every step keeps at most one resource per object.
LEMMA OneResourceStep ==
    ASSUME Inv, Shape
    PROVE  OneResource'
  <1> USE DEF Inv
  <1>1. CASE Quiet
    BY <1>1 DEF Quiet, PassStep, SameCloud, OneResource, Exists, T
  <1>2. CASE Birth
    <2>1. T.adopts /\ vanishes = 0 =>
              \A r \in Ids : Exists(r) => cloud[r].owner # obj.uid
      BY <1>2 DEF Birth, Vacancy
    <2> QED
      BY <1>2, <2>1 DEF Birth, PassStep, OneResource, Exists, T
  <1>3. CASE Death
    BY <1>3 DEF Death, PassStep, OneResource, Exists, T
  <1>4. CASE Weather
    BY <1>4 DEF Weather, OneResource, Exists, TypeOK, T
  <1>5. CASE UNCHANGED <<kind, vanishes, cloud>>
    BY <1>5 DEF OneResource, Exists, T
  <1> QED
    BY <1>1, <1>2, <1>3, <1>4, <1>5, UserFacts
       DEF Shape, Ending, Finalized, Released, Patched, Written, Started, Idling,
           WatchSend, WatchDeliver, cloudVars, envVars

\* A status patch never replaces a recorded identifier by another one.
LEMMA PatchKeepsId ==
    ASSUME Inv, Patched, T.adopts, vanishes = 0, api.status.id # 0
    PROVE  api'.status.id = api.status.id
  <1>1. CASE obj.status.id = before.id
    BY <1>1, WriteFacts DEF MergedId, Inv
  <1>2. CASE obj.status.id # before.id
    <2>1. pc = "patch"
      BY DEF Patched
    <2>2. ~obj.deleting /\ api.uid = obj.uid /\ obj.status.id # 0
      BY <1>2, <2>1, PatchTarget
    <2>3. /\ obj.status.id \in Ids /\ Exists(obj.status.id)
          /\ cloud[obj.status.id].owner = obj.uid
      BY <2>2, KnownExists
    <2>4. /\ api.status.id \in Ids /\ Exists(api.status.id)
          /\ cloud[api.status.id].owner = obj.uid
      BY <2>2, KnownExists
    <2>5. obj.status.id = api.status.id
      BY <2>3, <2>4 DEF Inv, OneResource
    <2> QED
      BY <1>2, <2>5, WriteFacts DEF MergedId, Inv
  <1> QED
    BY <1>1, <1>2

\* Every step keeps a resource known: to the server, or to the pass that made or
\* found it, or to a failure that lost its identifier.
LEMMA RecordedStep ==
    ASSUME Inv, Shape
    PROVE  Recorded'
  <1> USE DEF Inv
  <1> SUFFICES ASSUME T'.adopts, faults' = 0, vanishes' = 0,
                      NEW r \in Ids, Exists(r)', api'.uid # 0, cloud'[r].owner = api'.uid
               PROVE  \/ api'.status.id = r
                      \/ pc' = "patch" /\ obj'.status.id = r /\ before'.id # r
    BY DEF Recorded
  <1>1. CASE Quiet
    <2>1. T.adopts /\ faults = 0 /\ vanishes = 0 /\ api' = api
      BY <1>1 DEF Quiet, PassStep, TypeOK, T
    <2>2. Exists(r) /\ cloud[r].owner = api.uid
      BY <1>1, <2>1 DEF Quiet, SameCloud, Exists
    <2>3. pc # "patch"
      BY <1>1 DEF Quiet, NormalSteps
    <2> QED
      BY <2>1, <2>2, <2>3 DEF Recorded
  <1>2. CASE Birth
    <2>1. /\ T.adopts /\ faults = 0 /\ vanishes = 0 /\ api' = api /\ before' = before
          /\ ~(faults < faults')
      BY <1>2 DEF Birth, PassStep, TypeOK, T
    <2>2. api.uid = obj.uid /\ obj.status = before
      BY <1>2 DEF Birth, Pass, NormalSteps, Copies, Attached
    <2>3. r = created + 1
      BY <1>2, <2>1, <2>2 DEF Birth, Vacancy, Exists
    <2>4. before.id # created + 1
      <3>1. cloud[created + 1].state = "none"
        BY <1>2 DEF Birth, TypeOK
      <3>2. obj.status.id # created + 1
        BY <1>2, <3>1 DEF Birth, OwnIdentity, Owned, TypeOK
      <3> QED
        BY <2>2, <3>2
    <2> QED
      BY <1>2, <2>1, <2>3, <2>4 DEF Birth
  <1>3. CASE Death
    <2>1. T.adopts /\ faults = 0 /\ vanishes = 0 /\ api' = api
      BY <1>3 DEF Death, PassStep, TypeOK, T
    <2>2. Exists(r) /\ cloud[r].owner = api.uid
      BY <1>3, <2>1 DEF Death, Exists
    <2> QED
      BY <1>3, <2>1, <2>2 DEF Death, Recorded
  <1>4. CASE Ending
    <2>1. T.adopts /\ faults = 0 /\ vanishes = 0 /\ api' = api /\ Exists(r)
      BY <1>4 DEF Ending, TypeOK, T, Exists
    <2>2. \/ api.status.id = r
          \/ pc = "patch" /\ obj.status.id = r /\ before.id # r
      BY <1>4, <2>1 DEF Ending, Recorded
    <2>3. CASE pc = "patch" /\ obj.status.id = r /\ before.id # r
      <3>1. Merge(api.status, FALSE) = api.status
        BY <1>4, <2>1, <2>3 DEF Ending
      <3>2. Merge(api.status, FALSE).id = MergedId
        BY MergeFacts
      <3> QED
        BY <2>1, <2>3, <3>1, <3>2 DEF MergedId
    <2> QED
      BY <2>1, <2>2, <2>3
  <1>5. CASE Finalized \/ Released \/ Patched
    <2>1. T.adopts /\ faults = 0 /\ vanishes = 0 /\ Exists(r)
      BY <1>5, WriteFacts DEF TypeOK, T, Exists
    <2>2. ~Released
      BY WriteFacts DEF NoObject
    <2>3. api.uid # 0 /\ cloud[r].owner = api.uid /\ r # 0
      BY <1>5, <2>2, WriteFacts, BoundsAssumption DEF Ids
    <2>4. \/ api.status.id = r
          \/ pc = "patch" /\ obj.status.id = r /\ before.id # r
      BY <2>1, <2>3 DEF Recorded
    <2>5. CASE Finalized
      BY <2>4, <2>5, WriteFacts DEF Finalized
    <2>6. CASE Patched
      <3>1. CASE api.status.id = r
        BY <2>1, <2>3, <2>6, <3>1, PatchKeepsId
      <3>2. CASE obj.status.id = r /\ before.id # r
        BY <2>6, <3>2, WriteFacts DEF MergedId
      <3> QED
        BY <2>4, <3>1, <3>2
    <2> QED
      BY <1>5, <2>2, <2>5, <2>6
  <1>6. CASE Started
    BY <1>6 DEF Started, Recorded, Exists, T
  <1>7. CASE Weather
    BY <1>7 DEF Weather, Recorded, Exists, TypeOK, T
  <1>8. CASE UserCreate \/ UserEdit \/ UserDelete
    <2>1. cloud[r].owner # uids + 1
      BY DEF Owners, TypeOK, Resources
    <2>2. api.uid # 0 /\ api'.uid = api.uid /\ api'.status = api.status
      BY <1>8, <2>1, UserFacts DEF NoObject
    <2> QED
      BY <1>8, <2>2, UserFacts DEF Recorded, Exists, T
  <1>9. CASE UNCHANGED <<kind, api, pc, obj, before, cloud, faults, vanishes>>
    BY <1>9 DEF Recorded, Exists, T
  <1> QED
    BY <1>1, <1>2, <1>3, <1>4, <1>5, <1>6, <1>7, <1>8, <1>9
       DEF Shape, Idling, WatchSend, WatchDeliver, apiVars, workerVars, cloudVars, envVars

\* A released object with policy Delete has no resource left.
LEMMA ReleaseConfirmed ==
    ASSUME Inv, Released
    PROVE  /\ obj.uid = api.uid /\ obj.policy = api.policy /\ api.uid # 0
           /\ api.policy # "Orphan" /\ api.status.id # 0 => ~Exists(api.status.id)
  <1>1. /\ pc = "release" /\ SameMeta(obj, api) /\ before = api.status
        /\ obj.status = before /\ obj.uid # 0
    BY DEF Released, Inv, Versions, Pass, DeleteSteps
  <1> QED
    BY <1>1 DEF SameMeta, Inv, Pass

\* Every step keeps resources owned by the live or by an orphaned object.
LEMMA NoLeakStep ==
    ASSUME Inv, Shape
    PROVE  NoLeak'
  <1> USE DEF Inv
  <1> SUFFICES ASSUME T'.adopts, faults' = 0, vanishes' = 0, NEW r \in Ids, Exists(r)'
               PROVE  cloud'[r].owner \in {api'.uid} \cup orphaned'
    BY DEF NoLeak
  <1>1. CASE Quiet
    BY <1>1 DEF Quiet, PassStep, SameCloud, NoLeak, Exists, TypeOK, T
  <1>2. CASE Birth
    <2>1. api.uid = obj.uid
      BY <1>2 DEF Birth, Pass, NormalSteps, Copies, Attached
    <2> QED
      BY <1>2, <2>1 DEF Birth, PassStep, NoLeak, Exists, TypeOK, T
  <1>3. CASE Death
    BY <1>3 DEF Death, PassStep, NoLeak, Exists, TypeOK, T
  <1>4. CASE Ending
    BY <1>4 DEF Ending, NoLeak, Exists, TypeOK, T
  <1>5. CASE Finalized \/ Patched
    <2>1. api'.uid = api.uid /\ orphaned' = orphaned
      BY <1>5, WriteFacts DEF Finalized, Patched
    <2> QED
      BY <1>5, <2>1, WriteFacts DEF NoLeak, Exists, T
  <1>6. CASE Released
    <2>1. T.adopts /\ faults = 0 /\ vanishes = 0 /\ Exists(r) /\ cloud' = cloud
      BY <1>6, WriteFacts DEF T, Exists
    <2>2. CASE cloud[r].owner = api.uid
      <3>1. pc = "release" /\ api.uid # 0
        BY <1>6, ReleaseConfirmed DEF Released
      <3>2. api.status.id = r /\ r # 0
        BY <2>1, <2>2, <3>1, BoundsAssumption DEF Recorded, Ids
      <3>3. obj.policy = "Orphan"
        BY <1>6, <2>1, <3>2, ReleaseConfirmed
      <3> QED
        BY <1>6, <2>1, <2>2, <3>3, ReleaseConfirmed DEF Released
    <2>3. CASE cloud[r].owner \in orphaned
      BY <1>6, <2>1, <2>3, WriteFacts
    <2> QED
      BY <2>1, <2>2, <2>3 DEF NoLeak
  <1>7. CASE Started
    BY <1>7 DEF Started, NoLeak, Exists, T
  <1>8. CASE Weather
    BY <1>8 DEF Weather, NoLeak, Exists, TypeOK, T
  <1>9. CASE UserCreate \/ UserEdit \/ UserDelete
    <2>1. /\ T.adopts /\ faults = 0 /\ vanishes = 0 /\ Exists(r) /\ cloud' = cloud
          /\ orphaned' = orphaned
      BY <1>9, UserFacts DEF T, Exists
    <2>2. cloud[r].owner \in {api.uid} \cup orphaned /\ cloud[r].owner # 0
      BY <2>1 DEF NoLeak, Owners
    <2>3. api.uid # 0 /\ ~api.fin => cloud[r].owner # api.uid
      BY <2>1 DEF FinalizerGuard
    <2> QED
      BY <1>9, <2>1, <2>2, <2>3, UserFacts
  <1>10. CASE UNCHANGED <<kind, api, cloud, faults, vanishes, orphaned>>
    BY <1>10 DEF NoLeak, Exists, T
  <1> QED
    BY <1>1, <1>2, <1>3, <1>4, <1>5, <1>6, <1>7, <1>8, <1>9, <1>10
       DEF Shape, Idling, WatchSend, WatchDeliver, apiVars, cloudVars, envVars

-----------------------------------------------------------------------------
(* The theorems. *)

\* The inductive invariant holds when the operator starts in an empty cluster.
LEMMA InitInv ==
    ASSUME Init
    PROVE  Inv
  <1> USE Blanks, BoundsAssumption DEF Init
  <1>1. \A r \in Ids : cloud[r] = NoResource /\ cloud[r].state = "none" /\ cloud[r].owner = 0
    BY DEF NoResource
  <1>2. \A r \in Ids : ~Exists(r)
    BY <1>1 DEF Exists
  <1>3. TypeOK
    <2>1. cloud \in [Ids -> Resources] /\ created \in 0 .. MaxIds
      OBVIOUS
    <2>2. \A r \in Ids : cloud[r].state = "none" <=> r > created
      BY <1>1 DEF Ids
    <2>3. pc \in Steps /\ fresh \subseteq {"watch", "cache", "obj"}
      BY DEF Steps
    <2>4. /\ api \in Objects /\ watch \in Objects /\ cache \in Objects /\ obj \in Objects
          /\ before \in Statuses
      OBVIOUS
    <2> QED
      BY <2>1, <2>2, <2>3, <2>4 DEF TypeOK
  <1>4. Versions /\ Pass /\ Owners
    BY <1>1, <1>2 DEF Versions, Pass, Owners, NormalSteps, DeleteSteps, NoObject, NoStatus
  <1>5. Copies /\ OwnIdentity
    BY DEF Copies, WellFormed, Attached, Condemned, Later, OwnIdentity, Owned, NoObject, NoStatus
  <1>6. FinalizerGuard /\ Retirement /\ Vacancy /\ OneResource /\ Recorded /\ NoLeak
    BY <1>1, <1>2 DEF FinalizerGuard, Retirement, Vacancy, OneResource, Recorded, NoLeak
  <1> QED
    BY <1>3, <1>4, <1>5, <1>6 DEF Inv

\* Every step of users, watch, worker and cloud keeps the inductive invariant.
LEMMA InvStep ==
    ASSUME Inv, [Next]_vars
    PROVE  Inv'
  <1>1. Shape
    BY StepShape DEF Inv
  <1>2. TypeOK'
    BY <1>1, TypeStep DEF Inv
  <1> QED
    BY <1>1, <1>2, VersionsStep, CopiesStep, PassPreserved, OwnersStep, OwnIdentityStep,
       FinalizerGuardStep, RetirementStep, VacancyStep, OneResourceStep, RecordedStep,
       NoLeakStep DEF Inv

\* The inductive invariant holds in every reachable state, for every kind and
\* every bound.
THEOREM Invariance == Spec => []Inv
  BY InitInv, InvStep, PTL DEF Spec

\* Every variable keeps its type (the shape of the reconciler's state).
THEOREM TypeCorrect == Spec => []TypeOK
  <1>1. Inv => TypeOK
    BY DEF Inv
  <1> QED
    BY <1>1, Invariance, PTL

\* No copy of the object, however stale, names another object's resource:
\* neither lookup nor the unlocked status patch mixes objects up.
THEOREM IdentityIsOwn == Spec => []OwnIdentity
  <1>1. Inv => OwnIdentity
    BY DEF Inv
  <1> QED
    BY <1>1, Invariance, PTL

\* A resource of the live object exists only behind the finalizer that
\* Reconcile adds in a pass of its own.
THEOREM FinalizerFirst == Spec => []FinalizerGuard
  <1>1. Inv => FinalizerGuard
    BY DEF Inv
  <1> QED
    BY <1>1, Invariance, PTL

\* The label lookup makes Create happen once, however stale the cache and
\* whatever answer or status patch is lost.
THEOREM NoDuplicates == Spec => []OneResource
  <1>1. Inv => OneResource
    BY DEF Inv
  <1> QED
    BY <1>1, Invariance, PTL

\* Without failures the optimistic lock of the finalizer's removal keeps a
\* delete pass that has not seen the identifier from losing the resource.
THEOREM LeakFree == Spec => []NoLeak
  <1>1. Inv => NoLeak
    BY DEF Inv
  <1> QED
    BY <1>1, Invariance, PTL

\* Deletion with policy Delete is complete when the object goes.
THEOREM DeletionConfirmed == Spec => RemovalConfirmed
  <1>1. Inv /\ [Next]_vars
        => [ /\ api.fin /\ api.policy = "Delete" /\ api.status.id # 0
             /\ api'.uid # api.uid
             => ~Exists(api.status.id) ]_vars
    <2> SUFFICES ASSUME Inv, [Next]_vars,
                        api.fin, api.policy = "Delete", api.status.id # 0,
                        api'.uid # api.uid
                 PROVE  ~Exists(api.status.id)
      OBVIOUS
    <2>1. Shape
      BY StepShape DEF Inv
    <2>2. CASE Released
      BY <2>2, ReleaseConfirmed
    <2>3. CASE Finalized \/ Patched
      BY <2>3, WriteFacts DEF Inv
    <2>4. CASE UserCreate \/ UserEdit \/ UserDelete
      <3>1. api.uid # 0
        BY DEF Inv, Copies, WellFormed, NoObject
      <3> QED
        BY <2>4, <3>1, UserFacts DEF Inv
    <2> QED
      BY <2>1, <2>2, <2>3, <2>4
         DEF Shape, Quiet, Birth, Death, PassStep, Ending, Started, Weather, Idling,
             WatchSend, WatchDeliver, apiVars
  <1> QED
    BY <1>1, Invariance, PTL DEF Spec, RemovalConfirmed

\* The operator deletes nothing whose object was not deleted with policy
\* Delete.
THEOREM OrphansKept == Spec => OrphanKept
  <1>1. Inv /\ [Next]_vars
        => [ \A r \in Ids :
                 /\ Exists(r) /\ cloud[r].state # "deleting"
                 /\ cloud'[r].state \in {"deleting", "gone"}
                 /\ vanishes' = vanishes
                 => cloud[r].owner \in doomed ]_vars
    <2> SUFFICES ASSUME Inv, [Next]_vars, NEW r \in Ids,
                        Exists(r), cloud[r].state # "deleting",
                        cloud'[r].state \in {"deleting", "gone"}, vanishes' = vanishes
                 PROVE  cloud[r].owner \in doomed
      OBVIOUS
    <2>1. Shape
      BY StepShape DEF Inv
    <2>2. ~Weather
      BY DEF Weather, Exists, Inv, TypeOK
    <2>3. cloud'[r].state # cloud[r].state
      BY DEF Exists
    <2>4. CASE Death
      <3>1. r = obj.status.id
        BY <2>3, <2>4 DEF Death
      <3>2. obj.deleting /\ obj.policy # "Orphan" /\ obj.status.id # 0
        BY <2>4 DEF Death, Inv, Pass, DeleteSteps
      <3> QED
        BY <3>1, <3>2 DEF Inv, OwnIdentity, Owned, Copies, Condemned
    <2>5. CASE Birth
      BY <2>3, <2>5 DEF Birth
    <2>6. CASE cloud' = cloud \/ SameCloud
      BY <2>3, <2>6 DEF SameCloud
    <2> QED
      BY <2>1, <2>2, <2>4, <2>5, <2>6, UserFacts
         DEF Inv, Shape, Quiet, Ending, Finalized, Released, Patched, Written, Started,
             Idling, WatchSend, WatchDeliver, cloudVars
  <1> QED
    BY <1>1, Invariance, PTL DEF Spec, OrphanKept

\* Passes over stale copies never lose or replace a recorded identifier.
THEOREM IdentityKept == Spec => IdentityStable
  <1>1. Inv /\ [Next]_vars
        => [ /\ T.adopts /\ vanishes = 0
             /\ api.uid # 0 /\ api'.uid = api.uid /\ api.status.id # 0
             => api'.status.id = api.status.id ]_vars
    <2> SUFFICES ASSUME Inv, [Next]_vars, T.adopts, vanishes = 0,
                        api.uid # 0, api'.uid = api.uid, api.status.id # 0
                 PROVE  api'.status.id = api.status.id
      OBVIOUS
    <2>1. Shape
      BY StepShape DEF Inv
    <2>2. CASE Patched
      BY <2>2, PatchKeepsId
    <2>3. CASE Finalized \/ Released
      BY <2>3, WriteFacts DEF Inv, NoObject
    <2>4. CASE UserCreate \/ UserEdit \/ UserDelete
      BY <2>4, UserFacts DEF Inv, NoObject
    <2> QED
      BY <2>1, <2>2, <2>3, <2>4
         DEF Shape, Quiet, Birth, Death, PassStep, Ending, Started, Weather, Idling,
             WatchSend, WatchDeliver, apiVars
  <1> QED
    BY <1>1, Invariance, PTL DEF Spec, IdentityStable
=============================================================================
