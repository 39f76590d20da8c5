---------------------------- MODULE ReadyProofs ----------------------------
(***************************************************************************)
(* A Ready condition for the current generation tells the truth, for every *)
(* kind that adopts and every bound.  The invariant of ReconcilerProofs    *)
(* says who owns what; this module adds how old each copy of the object    *)
(* is, what a pass about to report Available has seen, and that no later   *)
(* step takes it back.                                                     *)
(***************************************************************************)
EXTENDS ReconcilerProofs

\* Copies of one object are ordered by generation: o is not younger than p.
Older(o, p) == o.uid # 0 /\ o.uid = p.uid => o.gen <= p.gen

\* A copy of the server's generation has the server's spec.
Twin(o) ==
    o.uid # 0 /\ o.uid = api.uid /\ o.gen = api.gen
        => o.spec = api.spec /\ o.deleting = api.deleting

Ages ==
    /\ Older(obj, cache) /\ Older(obj, watch) /\ Older(obj, api)
    /\ Older(cache, watch) /\ Older(cache, api) /\ Older(watch, api)
    /\ Twin(obj) /\ Twin(cache) /\ Twin(watch)

\* The generation a condition on the server is about is one that every copy
\* of the object has reached: no pass still works for an older one.
Seen(o) ==
    o.uid # 0 /\ o.uid = api.uid /\ api.status.ready.reason = "Available"
        => api.status.ready.gen <= o.gen

Sightings == Seen(api) /\ Seen(watch) /\ Seen(cache) /\ Seen(obj)

\* An identifier that some copy of the object holds is the server's.
Held(uid, id) == uid # 0 /\ uid = api.uid /\ id # 0 => api.status.id = id

Holdings ==
    T.adopts /\ vanishes = 0 =>
        /\ Held(cache.uid, cache.status.id)
        /\ Held(watch.uid, watch.status.id)
        /\ Held(obj.uid, before.id)

\* The states in which Observe reports a resource as Ready.
Working == IF T.awaits THEN {"running"} ELSE {"running", "pending"}

\* The resource of o exists, works and has the spec of o.
Served(o) ==
    /\ o.status.id # 0 /\ ~o.deleting
    /\ cloud[o.status.id].state \in Working
    /\ UpToDate(o.spec, cloud[o.status.id].spec)

Undisturbed == T.adopts /\ drifts = 0 /\ vanishes = 0

\* A pass about to patch Available is right about the object it has read.
Verdict ==
    pc = "patch" /\ obj.status.ready.reason = "Available" =>
        /\ obj.status.ready.gen = obj.gen /\ ~obj.deleting
        /\ Undisturbed => Served(obj)

\* The server's condition is right, and the object is not under deletion.
Truthful == Undisturbed /\ api.uid # 0 /\ Current => Served(api)

ReadyInv == Ages /\ Sightings /\ Holdings /\ Verdict /\ Truthful

-----------------------------------------------------------------------------
(* What the writes do to generation, spec and condition. *)

\* A user's write to a living object bumps its generation.
LEMMA UserAges ==
    ASSUME TypeOK, UserCreate \/ UserEdit \/ UserDelete, api.uid # 0, api'.uid # 0
    PROVE  api'.gen = api.gen + 1
  <1>1. ~UserCreate
    BY DEF UserCreate
  <1>2. CASE UserEdit
    <2>1. PICK sp \in Specs, p \in Policies :
              api' = [api EXCEPT !.spec = sp, !.policy = p, !.gen = @ + 1]
      BY <1>2 DEF UserEdit, Write
    <2> QED
      BY <2>1 DEF TypeOK, Objects
  <1>3. CASE UserDelete
    <2>1. api.fin
      BY <1>3 DEF UserDelete, Write, NoObject
    <2>2. api' = [api EXCEPT !.deleting = TRUE, !.gen = @ + 1]
      BY <1>3, <2>1 DEF UserDelete, Write
    <2> QED
      BY <2>2 DEF TypeOK, Objects
  <1> QED
    BY <1>1, <1>2, <1>3

\* A merge patch leaves the server with the pass's condition or its own.
LEMMA MergeReady ==
    ASSUME TypeOK, NEW reworded \in BOOLEAN
    PROVE  Merge(api.status, reworded).ready \in {obj.status.ready, api.status.ready}
  BY DEF Merge

\* The worker's writes change neither generation nor spec.
LEMMA WriteAges ==
    ASSUME TypeOK, Finalized \/ Patched
    PROVE  /\ api'.gen = api.gen /\ api'.spec = api.spec
           /\ Patched => api'.status.ready \in {obj.status.ready, api.status.ready}
  <1>1. CASE Finalized
    <2>1. pc # "patch"
      BY <1>1 DEF Finalized
    <2> QED
      BY <1>1, <2>1 DEF Finalized, Patched, TypeOK, Objects
  <1>2. CASE Patched
    <2>1. PICK reworded \in BOOLEAN :
              api' = [api EXCEPT !.status = Merge(api.status, reworded)]
      BY <1>2 DEF Patched
    <2>2. Merge(api.status, reworded).ready \in {obj.status.ready, api.status.ready}
      BY MergeReady
    <2> QED
      BY <2>1, <2>2 DEF TypeOK, Objects
  <1> QED
    BY <1>1, <1>2

\* The condition a report leaves is the one reported, for the generation read.
LEMMA ReportReady ==
    ASSUME NEW o \in Objects, NEW reason \in Reasons, Report(o, reason)
    PROVE  obj'.status.ready.reason = reason /\ obj'.status.ready.gen = o.gen
  BY DEF Report, SetReady, Objects, Statuses

\* The condition is current when it says Available for the last generation.
LEMMA CurrentFacts ==
    ASSUME TypeOK
    PROVE  Current <=> /\ api.status.ready.reason = "Available"
                       /\ api.status.ready.gen = api.gen
  BY DEF Current, TypeOK, Objects, Statuses

\* Only ObserveInSync reports Available: create, update, delete and every
\* failure report another reason.
LEMMA OnlyObserveSaysAvailable ==
    ASSUME TypeOK, Pass, [Next]_vars, pc' = "patch",
           obj'.status.ready.reason = "Available"
    PROVE  ObserveInSync \/ (pc = "patch" /\ obj' = obj)
  <1>0. obj \in Objects /\ \A r \in Lookup(obj) : Adopted(r) \in Objects
    BY LookupFacts, AdoptedFacts, BoundsAssumption DEF TypeOK, Ids
  <1>1. \A o \in Objects, reason \in Reasons \ {"Available"} : ~Report(o, reason)
    BY ReportReady
  <1>2. ~(DependencyNotReady \/ CallFailed)
    BY <1>0, <1>1 DEF DependencyNotReady, CallFailed, Reasons
  <1>3. ~Create
    <2>1. CreateAccepted => Adopted(created + 1) \in Objects
      BY CreateFacts, AdoptedFacts, BoundsAssumption DEF TypeOK, Ids
    <2> QED
      BY <1>1, <2>1 DEF Create, Reasons
  <1>4. ~(CreateRefused \/ CreateAnswerLost \/ PushNotFound \/ PushAnswerLost
          \/ DestroyAnswerLost \/ DestroyBlocked)
    BY <1>0, <1>1 DEF CreateRefused, CreateAnswerLost, PushNotFound, PushAnswerLost,
       DestroyAnswerLost, DestroyBlocked, Reasons
  <1>5. ~(Update \/ Push \/ Delete \/ Destroy)
    BY <1>0, <1>1 DEF Update, Push, PushAccepted, Delete, DeleteNext, Destroy, Goto, Reasons
  <1>6. ~(ObserveMissing \/ ObserveDrifted \/ DestroyNotFound)
    BY DEF ObserveMissing, ObserveDrifted, DestroyNotFound, Goto
  <1>7. ~(AddFinalizer \/ RemoveFinalizer \/ PatchStatus \/ PassLost)
    BY DEF AddFinalizer, RemoveFinalizer, PatchStatus, PassLost, Finish
  <1>8. ~Reconcile
    BY DEF Reconcile, FirstStep
  <1>9. ASSUME ReconcileNothing \/ User \/ WatchSend \/ WatchDeliver \/ Cloud \/ UNCHANGED vars
        PROVE  pc = "patch" /\ obj' = obj
    BY <1>9 DEF ReconcileNothing, User, UserCreate, UserEdit, UserDelete, OnlyServer,
       WatchSend, WatchDeliver, workerVars, Cloud, CloudSettle, CloudPurge, Drift, Vanish,
       OnlyCloud, vars
  <1> QED
    BY <1>2, <1>3, <1>4, <1>5, <1>6, <1>7, <1>8, <1>9 DEF Next, Worker, Failure

-----------------------------------------------------------------------------
(* The copies: generations, conditions and identifiers. *)

\* Every step keeps the copies in order of age: the watch never goes back,
\* and a pass works on what the cache held when it began.
LEMMA AgesStep ==
    ASSUME Inv, Ages, Shape
    PROVE  Ages'
  <1> USE DEF Inv
  <1>0. /\ NoObject.uid = 0
        /\ \A o \in {api, watch, cache, obj} : o.uid \in Nat /\ o.gen \in Nat /\ o.uid <= uids
    BY DEF NoObject, TypeOK, Objects, Copies, WellFormed
  <1>1. CASE PassStep
    BY <1>1 DEF PassStep, SameMeta, Ages, Older, Twin
  <1>2. CASE Ending
    BY <1>0, <1>2 DEF Ending, Blank, Ages, Older, Twin
  <1>3. CASE Finalized \/ Patched
    BY <1>0, <1>3, WriteFacts, WriteAges DEF Blank, Ages, Older, Twin
  <1>4. CASE Released
    BY <1>0, <1>4, WriteFacts DEF Blank, Ages, Older, Twin
  <1>5. CASE Started
    BY <1>0, <1>5 DEF Started, Ages, Older, Twin
  <1>6. CASE UserCreate \/ UserEdit \/ UserDelete
    <2>1. UNCHANGED <<obj, cache, watch>>
      BY <1>6, UserFacts
    <2>2. ASSUME NEW o \in {watch, cache, obj}, o.uid # 0, o.uid = api'.uid
          PROVE  o.uid = api.uid /\ api'.gen = api.gen + 1
      <3>1. api.uid # 0 /\ api'.uid = api.uid
        BY <1>0, <1>6, <2>2, UserFacts DEF TypeOK
      <3> QED
        BY <1>6, <2>2, <3>1, UserAges
    <2>3. \A o \in {watch, cache, obj} :
              Older(o, api) /\ o.uid # 0 /\ o.uid = api'.uid => o.gen < api'.gen
      BY <1>0, <2>2 DEF Older
    <2>4. \A o \in {watch, cache, obj} :
              o.uid # 0 /\ o.uid = api'.uid => o.gen <= api'.gen /\ o.gen # api'.gen
      BY <1>0, <2>2, <2>3 DEF Ages
    <2> QED
      BY <2>1, <2>4 DEF Ages, Older, Twin
  <1>7. CASE WatchSend
    BY <1>0, <1>7 DEF WatchSend, apiVars, workerVars, Ages, Older, Twin
  <1>8. CASE WatchDeliver
    BY <1>0, <1>8 DEF WatchDeliver, apiVars, Ages, Older, Twin
  <1>9. CASE UNCHANGED <<api, watch, cache, obj>>
    BY <1>9 DEF Ages, Older, Twin
  <1> QED
    BY <1>1, <1>2, <1>3, <1>4, <1>5, <1>6, <1>7, <1>8, <1>9
       DEF Shape, Quiet, Birth, Death, Weather, Idling

\* A pass that patches Available patches the object it has read.
LEMMA VerdictTarget ==
    ASSUME Inv, Verdict, pc = "patch", obj.status.ready.reason = "Available"
    PROVE  /\ api.uid = obj.uid /\ obj.uid # 0 /\ ~obj.deleting
           /\ obj.status.ready.gen = obj.gen
  BY DEF Inv, Verdict, Pass, Copies, Attached

\* Every step keeps this: the condition on the server is about a generation
\* that no copy of the object lags behind.
LEMMA SightingsStep ==
    ASSUME Inv, Ages, Verdict, Sightings, Shape
    PROVE  Sightings'
  <1> USE DEF Inv
  <1>0. /\ NoObject.uid = 0
        /\ \A o \in {api, watch, cache, obj} : o.uid \in Nat /\ o.gen \in Nat /\ o.uid <= uids
    BY DEF NoObject, TypeOK, Objects, Copies, WellFormed
  <1>1. CASE PassStep
    BY <1>1 DEF PassStep, SameMeta, Sightings, Seen
  <1>2. CASE Ending
    BY <1>0, <1>2 DEF Ending, Blank, Sightings, Seen
  <1>3. CASE Finalized
    BY <1>0, <1>3, WriteFacts, WriteAges DEF Blank, Sightings, Seen
  <1>4. CASE Patched
    <2>1. /\ pc = "patch" /\ obj' = NoObject /\ UNCHANGED <<watch, cache>>
          /\ api'.uid = api.uid /\ api'.gen = api.gen
      BY <1>4, WriteFacts, WriteAges DEF Patched, Blank
    <2>2. CASE api'.status.ready = api.status.ready
      BY <1>0, <2>1, <2>2 DEF Sightings, Seen
    <2>3. CASE api'.status.ready = obj.status.ready
      <3> SUFFICES ASSUME obj.status.ready.reason = "Available"
                   PROVE  Sightings'
        BY <1>0, <2>1, <2>3 DEF Sightings, Seen
      <3>1. api.uid = obj.uid /\ obj.uid # 0 /\ api'.status.ready.gen = obj.gen
        BY <2>1, <2>3, VerdictTarget
      <3> QED
        BY <1>0, <2>1, <3>1 DEF Ages, Older, Sightings, Seen
    <2> QED
      BY <1>4, <2>2, <2>3, WriteAges
  <1>5. CASE Released
    BY <1>0, <1>5, WriteFacts DEF Blank, Sightings, Seen
  <1>6. CASE Started
    BY <1>0, <1>6 DEF Started, Sightings, Seen
  <1>7. CASE UserCreate \/ UserEdit \/ UserDelete
    <2>1. UNCHANGED <<obj, cache, watch>>
      BY <1>7, UserFacts
    <2>2. CASE api.uid # 0 /\ api'.uid = api.uid
      <3>1. api'.status = api.status /\ api'.gen = api.gen + 1
        BY <1>7, <2>2, UserFacts, UserAges DEF NoObject
      <3>2. api.status.ready.gen \in Nat
        BY DEF TypeOK, Objects, Statuses
      <3> QED
        BY <1>0, <2>1, <2>2, <3>1, <3>2 DEF Sightings, Seen
    <2>3. CASE api.uid = 0
      BY <1>7, <2>1, <2>3, UserFacts DEF Sightings, Seen, NoStatus, TypeOK
    <2>4. CASE api' = NoObject
      BY <1>0, <2>1, <2>4 DEF Sightings, Seen
    <2> QED
      BY <1>7, <2>2, <2>3, <2>4, UserFacts
  <1>8. CASE WatchSend
    BY <1>0, <1>8 DEF WatchSend, apiVars, workerVars, Sightings, Seen
  <1>9. CASE WatchDeliver
    BY <1>0, <1>9 DEF WatchDeliver, apiVars, Sightings, Seen
  <1>10. CASE UNCHANGED <<api, watch, cache, obj>>
    BY <1>10 DEF Sightings, Seen
  <1> QED
    BY <1>1, <1>2, <1>3, <1>4, <1>5, <1>6, <1>7, <1>8, <1>9, <1>10
       DEF Shape, Quiet, Birth, Death, Weather, Idling

\* An identifier on the server stays there as long as the object does.
LEMMA IdKept ==
    ASSUME Inv, Shape, T.adopts, vanishes = 0, api.uid # 0, api'.uid = api.uid,
           api.status.id # 0
    PROVE  api'.status.id = api.status.id
  <1>1. CASE Patched
    BY <1>1, PatchKeepsId
  <1>2. CASE Finalized \/ Released
    BY <1>2, WriteFacts DEF Inv, NoObject
  <1>3. CASE UserCreate \/ UserEdit \/ UserDelete
    BY <1>3, UserFacts DEF Inv, NoObject
  <1> QED
    BY <1>1, <1>2, <1>3
       DEF Shape, Quiet, Birth, Death, PassStep, Ending, Started, Weather, Idling,
           WatchSend, WatchDeliver, apiVars

\* What no step does: change the kind, undo a removal, or give the server an
\* object with a uid that was handed out before.
LEMMA StepScope ==
    ASSUME TypeOK, Shape
    PROVE  /\ kind' = kind
           /\ drifts <= drifts' /\ drifts' \in Nat
           /\ vanishes <= vanishes' /\ vanishes' \in Nat
           /\ api'.uid = api.uid \/ api'.uid = 0 \/ api'.uid = uids + 1
  <1>1. CASE UserCreate \/ UserEdit \/ UserDelete
    BY <1>1, UserFacts DEF TypeOK, NoObject
  <1>2. CASE Finalized \/ Released \/ Patched
    BY <1>2, WriteFacts DEF TypeOK, NoObject
  <1>3. CASE Quiet \/ Birth \/ Death
    BY <1>3 DEF Quiet, Birth, Death, PassStep, TypeOK
  <1>4. CASE Ending
    BY <1>4 DEF Ending, TypeOK
  <1>5. CASE Started \/ Idling
    BY <1>5 DEF Started, Idling, TypeOK
  <1>6. CASE Weather
    BY <1>6 DEF Weather
  <1>7. CASE WatchSend \/ WatchDeliver
    BY <1>7 DEF WatchSend, WatchDeliver, apiVars, envVars, TypeOK
  <1> QED
    BY <1>1, <1>2, <1>3, <1>4, <1>5, <1>6, <1>7 DEF Shape

\* Every step keeps this: the copies hold no identifier but the server's.
LEMMA HoldingsStep ==
    ASSUME Inv, Holdings, Shape
    PROVE  Holdings'
  <1> USE DEF Inv
  <1> SUFFICES ASSUME T'.adopts, vanishes' = 0
               PROVE  /\ Held(cache.uid, cache.status.id)'
                      /\ Held(watch.uid, watch.status.id)'
                      /\ Held(obj.uid, before.id)'
    BY DEF Holdings
  <1>0. T.adopts /\ vanishes = 0 /\ NoObject.uid = 0
    BY StepScope DEF T, TypeOK, NoObject
  <1>1. \A o \in {watch, cache, obj} : o.uid \in Nat /\ o.uid <= uids
    BY DEF TypeOK, Objects, Copies, WellFormed
  <1>2. \A o \in {watch, cache, obj} : o.uid # 0 /\ o.uid = api'.uid => o.uid = api.uid
    BY <1>1, StepScope DEF TypeOK
  <1>3. ASSUME NEW o \in {watch, cache, obj}, NEW i \in 0 .. MaxIds,
               Held(o.uid, i), o.uid # 0, o.uid = api'.uid, i # 0
        PROVE  api'.status.id = i
    BY <1>0, <1>2, <1>3, IdKept DEF Held
  <1>4. /\ watch.status.id \in 0 .. MaxIds /\ cache.status.id \in 0 .. MaxIds
        /\ before.id \in 0 .. MaxIds
    BY DEF TypeOK, Objects, Statuses
  <1>5. /\ Held(cache.uid, cache.status.id) /\ Held(watch.uid, watch.status.id)
        /\ Held(obj.uid, before.id)
    BY <1>0 DEF Holdings
  <1>6. /\ cache.uid # 0 /\ cache.uid = api'.uid /\ cache.status.id # 0
               => api'.status.id = cache.status.id
        /\ watch.uid # 0 /\ watch.uid = api'.uid /\ watch.status.id # 0
               => api'.status.id = watch.status.id
        /\ obj.uid # 0 /\ obj.uid = api'.uid /\ before.id # 0
               => api'.status.id = before.id
    BY <1>3, <1>4, <1>5
  <1>7. cache' = cache \/ WatchDeliver
    BY UserFacts, WriteFacts
       DEF Shape, Quiet, Birth, Death, PassStep, Ending, Started, Weather, Idling,
           WatchSend
  <1>8. watch' = watch \/ WatchDeliver \/ WatchSend
    BY UserFacts, WriteFacts
       DEF Shape, Quiet, Birth, Death, PassStep, Ending, Started, Weather, Idling
  <1>9. \/ obj'.uid = obj.uid /\ before' = before
        \/ obj' = NoObject
        \/ Started
    BY UserFacts, WriteFacts
       DEF Shape, Quiet, Birth, Death, PassStep, SameMeta, Ending, Blank, Weather, Idling,
           WatchSend, WatchDeliver, workerVars
  <1>10. Held(cache.uid, cache.status.id)'
    BY <1>6, <1>7 DEF Held, WatchDeliver
  <1>11. Held(watch.uid, watch.status.id)'
    BY <1>0, <1>6, <1>8 DEF Held, WatchDeliver, WatchSend, apiVars
  <1>12. Held(obj.uid, before.id)'
    BY <1>0, <1>6, <1>9 DEF Held, Started
  <1> QED
    BY <1>10, <1>11, <1>12

-----------------------------------------------------------------------------
(* The cloud: who may take the truth of a condition back. *)

\* The fields of every kind are spec fields.
LEMMA TraitFields ==
    ASSUME kind \in Kinds
    PROVE  T.fields \subseteq Fields
  <1>1. "fields" \in DOMAIN Router /\ Router.fields \subseteq Fields
    BY DEF Router, Fields
  <1>2. /\ Network.fields \subseteq Fields /\ Gateway.fields \subseteq Fields
        /\ NetworkPeering.fields \subseteq Fields /\ FloatingIP.fields \subseteq Fields
    BY <1>1 DEF Network, Gateway, NetworkPeering, FloatingIP, Fields
  <1>3. /\ "fields" \in DOMAIN ManagedObjectStorage
        /\ ManagedObjectStorage.fields \subseteq Fields
    BY <1>1 DEF ManagedObjectStorage, Fields
  <1>4. LoadBalancer.fields \subseteq Fields
    BY <1>3 DEF LoadBalancer, Fields
  <1>5. kind \in DOMAIN Traits
    BY KindsAssumption DEF RootKinds
  <1> QED
    BY <1>1, <1>2, <1>3, <1>4, <1>5 DEF T, Traits

\* A resource stays as it is, works or begins to work, unless it is new, or
\* the running pass modifies or deletes the one its copy names.
LEMMA CloudChange ==
    ASSUME TypeOK, Pass, [Next]_vars, drifts' = 0, vanishes' = 0, NEW r \in Ids
    PROVE  \/ /\ cloud'[r].spec = cloud[r].spec
              /\ cloud[r].state \in Working => cloud'[r].state \in Working
           \/ /\ pc = "push" /\ r = obj.status.id
              /\ cloud'[r].state = cloud[r].state
              /\ cloud'[r].spec = Applied(obj, cloud[r].spec)
           \/ pc = "destroy" /\ r = obj.status.id
           \/ cloud[r].state = "none"
  <1>1. CASE cloud' = cloud
    BY <1>1
  <1>2. CASE CreateAccepted
    <2>1. r # created + 1 => cloud'[r] = cloud[r]
      BY <1>2, CreateFacts
    <2>2. created + 1 \in Ids /\ cloud[created + 1].state = "none"
      BY <1>2, CreateFacts DEF TypeOK
    <2> QED
      BY <2>1, <2>2
  <1>3. CASE PushAccepted
    <2>1. obj.status.id \in Ids /\ pc = "push"
      BY <1>3, IdType DEF TypeOK, Pass, PushAccepted
    <2>2. cloud' = [cloud EXCEPT ![obj.status.id] =
                        [@ EXCEPT !.spec = Applied(obj, cloud[obj.status.id].spec)]]
      BY <1>3 DEF PushAccepted
    <2> QED
      BY <2>1, <2>2 DEF TypeOK, Resources
  <1>4. CASE DestroyAccepted
    BY <1>4, DestroyFacts DEF DestroyAccepted
  <1>5. CASE CloudSettle
    <2>1. PICK q \in Ids : /\ cloud[q].state = "pending"
                           /\ cloud' = [cloud EXCEPT ![q].state = "running"]
      BY <1>5 DEF CloudSettle
    <2>2. cloud' = [cloud EXCEPT ![q] = [@ EXCEPT !.state = "running"]]
      BY <2>1
    <2>3. /\ cloud'[q].spec = cloud[q].spec /\ cloud'[q].state = "running"
          /\ \A p \in Ids \ {q} : cloud'[p] = cloud[p]
      BY <2>2 DEF TypeOK, Resources
    <2> QED
      BY <2>3 DEF Working
  <1>6. CASE CloudPurge
    <2>1. PICK q \in Ids : /\ cloud[q].state = "deleting"
                           /\ cloud' = [cloud EXCEPT ![q].state = "gone"]
      BY <1>6 DEF CloudPurge
    <2>2. cloud' = [cloud EXCEPT ![q] = [@ EXCEPT !.state = "gone"]]
      BY <2>1
    <2>3. /\ cloud'[q].spec = cloud[q].spec
          /\ \A p \in Ids \ {q} : cloud'[p] = cloud[p]
      BY <2>2 DEF TypeOK, Resources
    <2> QED
      BY <2>1, <2>3 DEF Working
  <1>7. ~Drift /\ ~Vanish
    BY DEF Drift, Vanish, TypeOK
  <1>8. CASE Create \/ CreateAnswerLost
    BY <1>2, <1>8 DEF Create, CreateAnswerLost
  <1>9. CASE Push \/ PushAnswerLost
    BY <1>3, <1>9 DEF Push, PushAnswerLost
  <1>10. CASE Destroy \/ DestroyAnswerLost
    BY <1>4, <1>10 DEF Destroy, DestroyAnswerLost
  <1>11. CASE User \/ WatchSend \/ WatchDeliver \/ UNCHANGED vars
    BY <1>11 DEF User, UserCreate, UserEdit, UserDelete, OnlyServer, WatchSend, WatchDeliver,
       cloudVars, vars
  <1>12. CASE ReconcileNothing \/ Reconcile \/ AddFinalizer \/ RemoveFinalizer \/ PatchStatus
    BY <1>12 DEF ReconcileNothing, Reconcile, Dequeue, OnlyWorker, AddFinalizer,
       RemoveFinalizer, PatchStatus, cloudVars
  <1>13. CASE \/ ObserveMissing \/ ObserveDrifted \/ ObserveInSync \/ CreateRefused \/ Update
              \/ PushNotFound \/ Delete \/ DestroyNotFound \/ DependencyNotReady
              \/ CallFailed \/ PassLost \/ DestroyBlocked
    BY <1>13 DEF ObserveMissing, ObserveDrifted, ObserveInSync, CreateRefused, Update,
       PushNotFound, Delete, DestroyNotFound, DependencyNotReady, CallFailed, PassLost,
       DestroyBlocked, OnlyWorker, cloudVars
  <1>14. CASE Worker
    BY <1>8, <1>9, <1>10, <1>12, <1>13, <1>14 DEF Worker
  <1>15. CASE Failure
    BY <1>8, <1>9, <1>10, <1>13, <1>15 DEF Failure
  <1>16. CASE Cloud
    BY <1>5, <1>6, <1>7, <1>16 DEF Cloud
  <1> QED
    BY <1>11, <1>14, <1>15, <1>16 DEF Next

\* Pushing a spec to a resource that has it changes nothing that Observe
\* compares.
LEMMA PushIsIdempotent ==
    ASSUME TypeOK, NEW o \in Objects, NEW have \in Specs, UpToDate(o.spec, have)
    PROVE  UpToDate(o.spec, Applied(o, have))
  <1>1. T.fields \subseteq Fields
    BY TraitFields DEF TypeOK
  <1> QED
    BY <1>1 DEF UpToDate, Applied

-----------------------------------------------------------------------------
(* The condition. *)

\* A resource that serves a copy goes on serving it, whatever step is taken,
\* if a pass that modifies or deletes that resource has read the same spec.
LEMMA ServedKept ==
    ASSUME Inv, [Next]_vars, drifts' = 0, vanishes' = 0, NEW o \in {api, obj}, Served(o),
           pc = "push" /\ obj.status.id = o.status.id => obj.spec = o.spec,
           pc = "destroy" => obj.status.id # o.status.id
    PROVE  /\ cloud'[o.status.id].state \in Working
           /\ UpToDate(o.spec, cloud'[o.status.id].spec)
  <1>1. o \in Objects /\ o.status.id \in Ids /\ cloud[o.status.id].spec \in Specs
    BY IdType DEF Inv, TypeOK, Served, Resources
  <1>2. cloud[o.status.id].state # "none"
    BY DEF Served, Working
  <1>3. CASE /\ pc = "push" /\ o.status.id = obj.status.id
             /\ cloud'[o.status.id].state = cloud[o.status.id].state
             /\ cloud'[o.status.id].spec = Applied(obj, cloud[o.status.id].spec)
    <2>1. obj \in Objects /\ UpToDate(obj.spec, cloud[o.status.id].spec)
      BY <1>3 DEF Served, Inv, TypeOK
    <2>2. UpToDate(obj.spec, Applied(obj, cloud[o.status.id].spec))
      BY <1>1, <2>1, PushIsIdempotent DEF Inv
    <2> QED
      BY <1>3, <2>2 DEF Served
  <1>4. CASE /\ cloud'[o.status.id].spec = cloud[o.status.id].spec
             /\ cloud[o.status.id].state \in Working => cloud'[o.status.id].state \in Working
    BY <1>4 DEF Served
  <1> QED
    BY <1>1, <1>2, <1>3, <1>4, CloudChange DEF Inv

\* The kind fixed, the definitions that depend on it mean the same after a
\* step.
LEMMA SameMeaning ==
    ASSUME kind' = kind
    PROVE  /\ T' = T /\ Working' = Working
           /\ Undisturbed' <=> T.adopts /\ drifts' = 0 /\ vanishes' = 0
  BY DEF T, Working, Undisturbed

\* Nothing is disturbed before a step if nothing is after it.
LEMMA QuietBefore ==
    ASSUME TypeOK, Shape, Undisturbed'
    PROVE  Undisturbed /\ drifts' = 0 /\ vanishes' = 0
  BY StepScope DEF Undisturbed, T, TypeOK

\* Every step keeps the verdict of a pass true until it is patched: Observe
\* saw the resource work with the spec it has read, and between Observe and
\* the patch nobody but the cloud touches it.
LEMMA VerdictStep ==
    ASSUME Inv, Verdict, [Next]_vars
    PROVE  Verdict'
  <1>0. Shape /\ TypeOK /\ Pass /\ kind' = kind
    BY StepShape, StepScope DEF Inv
  <1> SUFFICES ASSUME pc' = "patch", obj'.status.ready.reason = "Available"
               PROVE  /\ obj'.status.ready.gen = obj'.gen /\ ~obj'.deleting
                      /\ Undisturbed' => Served(obj)'
    BY DEF Verdict
  <1>1. CASE pc = "patch" /\ obj' = obj
    <2>1. obj.status.ready.gen = obj.gen /\ ~obj.deleting
      BY <1>1 DEF Verdict
    <2>2. ASSUME Undisturbed' PROVE Served(obj)'
      <3>1. drifts' = 0 /\ vanishes' = 0 /\ Undisturbed
        BY <1>0, <2>2, QuietBefore
      <3>2. Served(obj)
        BY <1>1, <3>1 DEF Verdict
      <3> QED
        BY <1>0, <1>1, <3>1, <3>2, ServedKept, SameMeaning DEF Served, UpToDate, Sends
    <2> QED
      BY <1>1, <2>1, <2>2
  <1>2. CASE ObserveInSync
    <2>1. PICK r \in Lookup(obj) :
              /\ UpToDate(obj.spec, cloud[r].spec)
              /\ Report(Adopted(r), IF Operational(r) THEN "Available" ELSE "Pending")
      BY <1>2 DEF ObserveInSync
    <2>2. /\ r \in Ids /\ r \in 0 .. MaxIds /\ r # 0 /\ Exists(r)
          /\ cloud[r].owner = obj.uid
      BY <1>0, LookupFacts, BoundsAssumption DEF Inv, TypeOK, Ids, OwnIdentity, Owned
    <2>3. Adopted(r) \in Objects /\ SameMeta(Adopted(r), obj) /\ Adopted(r).status.id = r
      BY <1>0, <2>2, AdoptedFacts DEF TypeOK
    <2>4. Operational(r)
      BY <2>1, <2>3, ReportReady DEF Reasons
    <2>5. /\ obj'.status.ready.gen = obj.gen /\ SameMeta(obj', obj) /\ obj'.status.id = r
      BY <2>1, <2>3, <2>4, ReportReady, ReportFacts DEF Reasons, SameMeta
    <2>6. ~obj.deleting
      BY <1>0, <1>2 DEF ObserveInSync, Pass, NormalSteps
    <2>7. ASSUME Undisturbed PROVE cloud[r].state \in Working
      <3>1. cloud[r].state \in {"pending", "running"}
        BY <2>2, <2>6, <2>7 DEF Inv, Retirement, Retired, Exists, Undisturbed
      <3> QED
        BY <2>4, <3>1 DEF Operational, Working
    <2>8. cloud' = cloud
      BY <1>2 DEF ObserveInSync, OnlyWorker, cloudVars
    <2> QED
      BY <1>0, <2>1, <2>2, <2>5, <2>6, <2>7, <2>8, SameMeaning, QuietBefore
         DEF SameMeta, Served, UpToDate, Sends
  <1> QED
    BY <1>0, <1>1, <1>2, OnlyObserveSaysAvailable

\* A pass that pushes to the resource of a current object has its spec: the
\* condition is about a generation that the pass has reached.  A pass that
\* deletes it has seen the object's deletion.
LEMMA PassAgrees ==
    ASSUME Inv, Ages, Sightings, Truthful, Undisturbed, api.uid # 0, Current,
           obj.status.id = api.status.id, pc # "idle"
    PROVE  obj.uid = api.uid /\ obj.spec = api.spec /\ ~obj.deleting
  <1>1. Served(api)
    BY DEF Truthful
  <1>2. obj.uid = api.uid
    BY <1>1 DEF Served, Inv, OwnIdentity, Owned
  <1>3. /\ api.status.ready.reason = "Available" /\ api.status.ready.gen = api.gen
        /\ obj.gen \in Nat /\ api.gen \in Nat
    BY CurrentFacts DEF Inv, TypeOK, Objects
  <1>4. obj.gen = api.gen
    BY <1>2, <1>3 DEF Sightings, Seen, Ages, Older
  <1> QED
    BY <1>1, <1>2, <1>4 DEF Ages, Twin, Served

\* A status patch that says Available for the server's generation leaves the
\* server with the identifier of the resource that was observed.
LEMMA PatchTellsTruth ==
    ASSUME Inv, Ages, Holdings, Verdict, Undisturbed, Patched,
           obj.status.ready.reason = "Available", obj.status.ready.gen = api.gen
    PROVE  /\ Served(obj) /\ api'.status.id = obj.status.id
           /\ api.spec = obj.spec /\ ~api.deleting
  <1>1. pc = "patch" /\ Served(obj)
    BY DEF Patched, Verdict
  <1>2. /\ api.uid = obj.uid /\ obj.uid # 0 /\ ~obj.deleting /\ obj.gen = api.gen
    BY <1>1, VerdictTarget
  <1>3. obj.spec = api.spec /\ ~api.deleting
    BY <1>2 DEF Ages, Twin
  <1>4. obj.status.id = before.id => api.status.id = obj.status.id
    BY <1>1, <1>2 DEF Holdings, Held, Undisturbed, Served
  <1>5. api'.status.id = obj.status.id
    BY <1>4, WriteFacts DEF MergedId, Inv
  <1> QED
    BY <1>1, <1>3, <1>5

\* Every step keeps a current condition true.
LEMMA TruthfulStep ==
    ASSUME Inv, ReadyInv, [Next]_vars
    PROVE  Truthful'
  <1>0. Shape /\ TypeOK /\ Pass /\ kind' = kind
    BY StepShape, StepScope DEF Inv
  <1> USE DEF ReadyInv
  <1> SUFFICES ASSUME Undisturbed', api'.uid # 0, Current'
               PROVE  Served(api)'
    BY DEF Truthful
  <1>1. Undisturbed /\ drifts' = 0 /\ vanishes' = 0
    BY <1>0, QuietBefore
  <1>2. TypeOK'
    BY <1>0, TypeStep
  <1>3. api'.status.ready.reason = "Available" /\ api'.status.ready.gen = api'.gen
    <2>1. TypeOK' => (Current' <=> /\ api'.status.ready.reason = "Available"
                                   /\ api'.status.ready.gen = api'.gen)
      BY DEF Current, TypeOK, Objects, Statuses
    <2> QED
      BY <1>2, <2>1
  <1>4. ASSUME api'.uid = api.uid, api'.gen = api.gen, api'.spec = api.spec,
               api'.deleting = api.deleting, api'.status.ready = api.status.ready
        PROVE  Served(api)'
    <2>1. api.uid # 0 /\ Current
      BY <1>0, <1>3, <1>4, CurrentFacts
    <2>2. Served(api)
      BY <1>1, <2>1 DEF Truthful
    <2>3. api'.status.id = api.status.id
      BY <1>0, <1>1, <1>4, <2>1, <2>2, IdKept DEF Served, Undisturbed
    <2>4. pc = "push" /\ obj.status.id = api.status.id => obj.spec = api.spec
      BY <1>1, <2>1, PassAgrees
    <2>5. pc = "destroy" => obj.status.id # api.status.id
      BY <1>0, <1>1, <2>1, PassAgrees DEF Pass, DeleteSteps
    <2>6. /\ cloud'[api.status.id].state \in Working
          /\ UpToDate(api.spec, cloud'[api.status.id].spec)
      BY <1>1, <2>2, <2>4, <2>5, ServedKept
    <2> QED
      BY <1>0, <1>4, <2>2, <2>3, <2>6, SameMeaning DEF Served, UpToDate, Sends
  <1>5. CASE Patched
    <2>1. /\ api'.uid = api.uid /\ api'.gen = api.gen /\ api'.spec = api.spec
          /\ api'.deleting = api.deleting /\ cloud' = cloud
      BY <1>0, <1>5, WriteFacts, WriteAges
    <2>2. CASE api'.status.ready = obj.status.ready
      <3>1. /\ Served(obj) /\ api'.status.id = obj.status.id
            /\ api.spec = obj.spec /\ ~api.deleting
        BY <1>1, <1>3, <1>5, <2>1, <2>2, PatchTellsTruth
      <3> QED
        BY <1>0, <2>1, <3>1, SameMeaning DEF Served, UpToDate, Sends
    <2>3. CASE api'.status.ready = api.status.ready
      BY <1>4, <2>1, <2>3
    <2> QED
      BY <1>0, <1>5, <2>2, <2>3, WriteAges
  <1>6. CASE Finalized
    BY <1>0, <1>4, <1>6, WriteFacts, WriteAges
  <1>7. ~Released
    BY <1>0, WriteFacts DEF NoObject
  <1>8. ~(UserCreate \/ UserEdit \/ UserDelete)
    <2> SUFFICES ASSUME UserCreate \/ UserEdit \/ UserDelete PROVE FALSE
      OBVIOUS
    <2>1. api.uid = 0 => api'.status = NoStatus
      BY <1>0, UserFacts DEF NoObject
    <2>2. api.uid # 0 => api'.uid = api.uid /\ api'.status = api.status /\ api'.gen = api.gen + 1
      BY <1>0, UserFacts, UserAges DEF NoObject
    <2>3. api.uid # 0
      BY <1>3, <2>1 DEF NoStatus
    <2>4. api.status.ready.gen <= api.gen /\ api.gen \in Nat
      BY <1>0, <1>3, <2>2, <2>3 DEF Sightings, Seen, TypeOK, Objects
    <2> QED
      BY <1>3, <2>2, <2>3, <2>4
  <1>9. CASE api' = api
    BY <1>4, <1>9
  <1> QED
    BY <1>0, <1>5, <1>6, <1>7, <1>8, <1>9
       DEF Shape, Quiet, Birth, Death, PassStep, Ending, Started, Weather, Idling,
           WatchSend, WatchDeliver, apiVars

\* The invariant holds when the operator starts in an empty cluster.
LEMMA ReadyInit ==
    ASSUME Init
    PROVE  ReadyInv
  <1>1. NoObject.uid = 0 /\ api = NoObject /\ watch = NoObject /\ cache = NoObject
        /\ obj = NoObject /\ pc = "idle"
    BY DEF Init, NoObject
  <1> QED
    BY <1>1 DEF ReadyInv, Ages, Older, Twin, Sightings, Seen, Holdings, Held, Verdict, Truthful

\* Every step of users, watch, worker and cloud keeps the invariant.
LEMMA ReadyStep ==
    ASSUME Inv, ReadyInv, [Next]_vars
    PROVE  ReadyInv'
  <1>1. Shape
    BY StepShape DEF Inv
  <1> QED
    BY <1>1, AgesStep, SightingsStep, HoldingsStep, VerdictStep, TruthfulStep DEF ReadyInv

\* Generations, conditions and identifiers in all copies stay consistent, for
\* every kind and every bound.
THEOREM ReadyInvariance == Spec => []ReadyInv
  BY Invariance, ReadyInit, ReadyStep, PTL DEF Spec

\* Ready is only ever patched after Observe saw the resource work with the
\* spec of that generation, and neither a stale pass nor a patch that lands
\* late makes a current condition false.
THEOREM ReadyIsTrue == Spec => []ReadyMeansApplied
  <1>1. ReadyInv => ReadyMeansApplied
    BY DEF ReadyInv, Truthful, Undisturbed, Current, Served, Working, ReadyMeansApplied
  <1> QED
    BY <1>1, ReadyInvariance, PTL
=============================================================================
