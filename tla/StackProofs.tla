---------------------------- MODULE StackProofs ----------------------------
(***************************************************************************)
(* Theorems about Stack, for every scene and every bound: type             *)
(* correctness, NothingStray, and the refinement of Lifecycle.             *)
(*                                                                         *)
(* A step is about the object of one kind.  It is shown to be one, StepOf, *)
(* action by action; StepKeeps then shows once that such a step keeps the  *)
(* invariant of that kind and of every other.                              *)
(***************************************************************************)
EXTENDS Stack, TLAPS

-----------------------------------------------------------------------------
(* The kinds.  What the proofs use of the tables Schema, Catalog and       *)
(* Contracts: a kind identified by name is a child that keeps its          *)
(* container in status and whose name the API lets nobody take twice; the  *)
(* kinds that do not keep it are the connections and tunnels of a gateway. *)

Roots == {"Router", "Network", "NetworkPeering", "FloatingIP", "Gateway",
          "ManagedDatabase", "ManagedObjectStorage", "LoadBalancer",
          "LoadBalancerCertificateBundle"}
Named == {"ManagedDatabaseUser", "ManagedDatabaseLogicalDatabase",
          "ObjectStorageBucket", "ObjectStoragePolicy", "ObjectStorageCustomDomain",
          "ObjectStorageUser", "LoadBalancerResolver", "LoadBalancerBackend",
          "LoadBalancerBackendMember", "LoadBalancerBackendTLSConfig",
          "LoadBalancerFrontend", "LoadBalancerFrontendRule",
          "LoadBalancerFrontendTLSConfig"}
Parts == {"GatewayConnection", "GatewayTunnel", "ObjectStorageAccessKey"}

\* The kinds of the CRDs: roots, children identified by name, and children
\* with a uuid of their own.
LEMMA KindNames == AllKinds = Roots \cup Named \cup Parts
  BY DEF AllKinds, Schema, Roots, Named, Parts

\* How each kind is identified and what contains it.
LEMMA SchemaFields ==
    /\ \A k \in Roots : Schema[k].id = "uuid" /\ Schema[k].parent = None
    /\ \A k \in Named : Schema[k].id = "name" /\ Schema[k].parent # None
    /\ \A k \in Parts : Schema[k].id = "uuid"
    /\ Schema["GatewayConnection"].parent = "Gateway"
    /\ Schema["GatewayTunnel"].parent = "GatewayConnection"
    /\ Schema["ObjectStorageAccessKey"].parent = "ObjectStorageUser"
  <1> DEFINE roots == {RouterSpec, NetworkSpec, NetworkPeeringSpec, FloatingIPSpec,
                       GatewaySpec, ManagedDatabaseSpec, ManagedObjectStorageSpec,
                       LoadBalancerSpec, LoadBalancerCertificateBundleSpec}
             named == {ManagedDatabaseUserSpec, ManagedDatabaseLogicalDatabaseSpec,
                       ObjectStorageBucketSpec, ObjectStoragePolicySpec,
                       ObjectStorageCustomDomainSpec, ObjectStorageUserSpec,
                       LoadBalancerResolverSpec, LoadBalancerBackendSpec,
                       LoadBalancerBackendMemberSpec, LoadBalancerBackendTLSConfigSpec,
                       LoadBalancerFrontendSpec, LoadBalancerFrontendRuleSpec,
                       LoadBalancerFrontendTLSConfigSpec}
  <1>1. \A s \in roots : s.id = "uuid" /\ s.parent = None
    <2>1. /\ RouterSpec.id = "uuid" /\ RouterSpec.parent = None
          /\ {"id", "parent"} \subseteq DOMAIN RouterSpec
      BY DEF RouterSpec
    <2> QED
      BY <2>1 DEF NetworkSpec, NetworkPeeringSpec, FloatingIPSpec, GatewaySpec,
         ManagedDatabaseSpec, ManagedObjectStorageSpec, LoadBalancerSpec,
         LoadBalancerCertificateBundleSpec
  <1>2. \A s \in named : s.id = "name" /\ s.parent # None
    BY DEF RouterSpec, None, ManagedDatabaseUserSpec, ManagedDatabaseLogicalDatabaseSpec,
       ObjectStorageBucketSpec, ObjectStoragePolicySpec, ObjectStorageCustomDomainSpec,
       ObjectStorageUserSpec, LoadBalancerResolverSpec, LoadBalancerBackendSpec,
       LoadBalancerBackendMemberSpec, LoadBalancerBackendTLSConfigSpec,
       LoadBalancerFrontendSpec, LoadBalancerFrontendRuleSpec,
       LoadBalancerFrontendTLSConfigSpec
  <1>3. \A k \in Roots : Schema[k] \in roots
    BY DEF Roots, Schema
  <1>4. \A k \in Named : Schema[k] \in named
    BY DEF Named, Schema
  <1>5. \A k \in Parts : Schema[k].id = "uuid"
    BY DEF Parts, Schema, RouterSpec, GatewayConnectionSpec, GatewayTunnelSpec,
       ObjectStorageAccessKeySpec
  <1>6. /\ Schema["GatewayConnection"].parent = "Gateway"
        /\ Schema["GatewayTunnel"].parent = "GatewayConnection"
        /\ Schema["ObjectStorageAccessKey"].parent = "ObjectStorageUser"
    BY DEF Schema, RouterSpec, GatewayConnectionSpec, GatewayTunnelSpec,
       ObjectStorageAccessKeySpec
  <1> HIDE DEF roots, named
  <1> QED
    BY <1>1, <1>2, <1>3, <1>4, <1>5, <1>6

\* How the adapters keep the container, adopt and replace.
LEMMA CatalogFields ==
    /\ \A k \in Roots : Catalog[k].keeps /\ ~Catalog[k].replaces /\ Catalog[k].awaits \in BOOLEAN
    /\ \A k \in Named : /\ Catalog[k].keeps /\ ~Catalog[k].replaces
                        /\ Catalog[k].awaits \in BOOLEAN /\ Catalog[k].adopts = "name"
    /\ \A k \in Parts : Catalog[k].awaits \in BOOLEAN /\ Catalog[k].adopts \in {"name", "none"}
    /\ ~Catalog["GatewayConnection"].keeps /\ ~Catalog["GatewayConnection"].replaces
    /\ ~Catalog["GatewayTunnel"].keeps
    /\ Catalog["ObjectStorageAccessKey"].keeps /\ ~Catalog["ObjectStorageAccessKey"].replaces
  <1> DEFINE roots == {RouterAdapter, NetworkAdapter, NetworkPeeringAdapter,
                       FloatingIPAdapter, GatewayAdapter, ManagedDatabaseAdapter,
                       ManagedObjectStorageAdapter, LoadBalancerAdapter,
                       LoadBalancerCertificateBundleAdapter}
             named == {ManagedDatabaseUserAdapter, LogicalDatabaseAdapter,
                       ObjectStorageBucketAdapter, ObjectStoragePolicyAdapter,
                       ObjectStorageCustomDomainAdapter, ObjectStorageUserAdapter,
                       LoadBalancerResolverAdapter, LoadBalancerBackendAdapter,
                       LoadBalancerBackendMemberAdapter, LoadBalancerBackendTLSConfigAdapter,
                       LoadBalancerFrontendAdapter, LoadBalancerFrontendRuleAdapter,
                       LoadBalancerFrontendTLSConfigAdapter}
  <1>1. \A a \in roots : a.keeps /\ ~a.replaces /\ a.awaits \in BOOLEAN
    <2>1. /\ RouterAdapter.keeps /\ ~RouterAdapter.replaces /\ RouterAdapter.awaits \in BOOLEAN
          /\ {"keeps", "replaces", "awaits", "adopts"} \subseteq DOMAIN RouterAdapter
      BY DEF RouterAdapter
    <2> QED
      BY <2>1 DEF NetworkAdapter, NetworkPeeringAdapter, FloatingIPAdapter,
         GatewayAdapter, ManagedDatabaseAdapter, ManagedObjectStorageAdapter,
         LoadBalancerAdapter, LoadBalancerCertificateBundleAdapter
  <1>2. \A a \in named : a.keeps /\ ~a.replaces /\ a.awaits \in BOOLEAN /\ a.adopts = "name"
    BY DEF RouterAdapter, ManagedDatabaseUserAdapter, LogicalDatabaseAdapter,
       ObjectStorageBucketAdapter, ObjectStoragePolicyAdapter,
       ObjectStorageCustomDomainAdapter, ObjectStorageUserAdapter,
       LoadBalancerResolverAdapter, LoadBalancerBackendAdapter,
       LoadBalancerBackendMemberAdapter, LoadBalancerBackendTLSConfigAdapter,
       LoadBalancerFrontendAdapter, LoadBalancerFrontendRuleAdapter,
       LoadBalancerFrontendTLSConfigAdapter
  <1>3. \A k \in Roots : Catalog[k] \in roots
    BY DEF Roots, Catalog
  <1>4. \A k \in Named : Catalog[k] \in named
    BY DEF Named, Catalog
  <1>5. /\ ~Catalog["GatewayConnection"].keeps /\ ~Catalog["GatewayConnection"].replaces
        /\ ~Catalog["GatewayTunnel"].keeps
        /\ Catalog["ObjectStorageAccessKey"].keeps /\ ~Catalog["ObjectStorageAccessKey"].replaces
    BY DEF Catalog, RouterAdapter, GatewayConnectionAdapter, GatewayTunnelAdapter,
       ObjectStorageAccessKeyAdapter
  <1>6. \A k \in Parts : Catalog[k].awaits \in BOOLEAN /\ Catalog[k].adopts \in {"name", "none"}
    <2>1. \A a \in {GatewayConnectionAdapter, GatewayTunnelAdapter, ObjectStorageAccessKeyAdapter} :
              a.awaits \in BOOLEAN /\ a.adopts \in {"name", "none"}
      BY DEF RouterAdapter, GatewayConnectionAdapter, GatewayTunnelAdapter,
         ObjectStorageAccessKeyAdapter
    <2> QED
      BY <2>1 DEF Parts, Catalog
  <1> HIDE DEF roots, named
  <1> QED
    BY <1>1, <1>2, <1>3, <1>4, <1>5, <1>6

\* A create call for a name that is taken is refused.
LEMMA ContractsFields == \A k \in Named : Contracts[k].unique
  <1>1. /\ ManagedDatabaseUserAPI.unique /\ LogicalDatabaseAPI.unique
        /\ ObjectStorageBucketAPI.unique /\ ObjectStoragePolicyAPI.unique
        /\ ObjectStorageCustomDomainAPI.unique /\ ObjectStorageUserAPI.unique
    BY DEF RouterAPI, NetworkAPI, ManagedDatabaseUserAPI, LogicalDatabaseAPI,
       ObjectStorageBucketAPI, ObjectStoragePolicyAPI, ObjectStorageCustomDomainAPI,
       ObjectStorageUserAPI
  <1> SUFFICES ASSUME NEW k \in Named PROVE Contracts[k].unique
    OBVIOUS
  <1> QED
    BY <1>1 DEF Contracts, Named, LoadBalancerResolverAPI, LoadBalancerBackendAPI,
       LoadBalancerBackendMemberAPI, LoadBalancerBackendTLSConfigAPI,
       LoadBalancerFrontendAPI, LoadBalancerFrontendRuleAPI,
       LoadBalancerFrontendTLSConfigAPI

\* What every kind has in common, from the three tables.
LEMMA KindFacts ==
    ASSUME NEW k \in AllKinds
    PROVE  /\ Schema[k].id \in {"uuid", "name"}
           /\ Schema[k].id = "name" =>
                  Schema[k].parent # None /\ Catalog[k].keeps /\ Contracts[k].unique
           /\ Schema[k].parent # None /\ ~Catalog[k].keeps => Schema[k].id = "uuid"
           /\ Catalog[k].replaces => Schema[k].id = "uuid"
           /\ Catalog[k].adopts = "label" => Schema[k].parent = None
           /\ Catalog[k].awaits \in BOOLEAN
           /\ k # None
  <1>1. k \notin Named /\ k \notin Parts => k \in Roots
    BY KindNames
  <1>3. k # None
    BY KindNames DEF Roots, Named, Parts, None
  <1>4. CASE k \in Roots
    BY <1>3, <1>4, SchemaFields, CatalogFields
  <1>5. CASE k \in Named
    BY <1>3, <1>5, SchemaFields, CatalogFields, ContractsFields
  <1>6. CASE k \in Parts
    BY <1>3, <1>6, SchemaFields, CatalogFields DEF Parts, None
  <1> QED
    BY <1>1, <1>4, <1>5, <1>6

\* A child that does not keep its container in status has a parent with a
\* uuid, which is never replaced.
LEMMA LooseFacts ==
    ASSUME NEW k \in AllKinds, Schema[k].parent # None, ~Catalog[k].keeps
    PROVE  LET p == Schema[k].parent IN
           /\ p \in AllKinds /\ p # k /\ Schema[p].id = "uuid" /\ ~Catalog[p].replaces
           /\ Schema[p].parent # None => Schema[Schema[p].parent].parent = None
  <1>1. k \in {"GatewayConnection", "GatewayTunnel"}
    BY KindNames, SchemaFields, CatalogFields DEF Parts
  <1>2. "Gateway" \in Roots /\ "GatewayConnection" \in Parts
    BY DEF Roots, Parts
  <1> QED
    BY <1>1, <1>2, KindNames, SchemaFields, CatalogFields

-----------------------------------------------------------------------------
(* What the actions do to one object or one pass, field by field. *)

\* A kind identified by a uuid; a child that does not keep its container in
\* status, but finds it anew in its parent.
Uuid(k)  == Schema[k].id = "uuid"
Loose(k) == ~IsRoot(k) /\ ~Catalog[k].keeps

\* The types of an object and of a pass.
Phases == {"absent", "new", "live", "deleting"}
ObjectTypes == [phase : Phases, uid : Nat, spec : Bodies, home : Nat, id : Nat,
                ready : BOOLEAN]
PassTypes == [step : {"idle", "create", "update"}, spec : Bodies, home : Nat, id : Nat]

\* No object, or no pass, changes but that of kind k.
OnlyObject(k) == /\ api' \in [Members -> ObjectTypes]
                 /\ \A j \in Members : j # k => api'[j] = api[j]
OnlyPass(k)   == /\ pass' \in [Members -> PassTypes]
                 /\ \A j \in Members : j # k => pass'[j] = pass[j]

\* A status patch changes identifier, container and readiness of one object.
LEMMA SaveFacts ==
    ASSUME NEW k \in Members, api \in [Members -> ObjectTypes],
           NEW home \in Nat, NEW id \in Nat, NEW ready \in BOOLEAN,
           Save(k, home, id, ready)
    PROVE  /\ OnlyObject(k)
           /\ api'[k].home = home /\ api'[k].id = id /\ api'[k].ready = ready
           /\ api'[k].phase = api[k].phase /\ api'[k].uid = api[k].uid
           /\ api'[k].spec = api[k].spec
  BY DEF Save, OnlyObject, ObjectTypes

\* A deletion that is not done leaves everything but readiness.
LEMMA PendingFacts ==
    ASSUME NEW k \in Members, api \in [Members -> ObjectTypes], Pending(k)
    PROVE  /\ OnlyObject(k)
           /\ api'[k].home = api[k].home /\ api'[k].id = api[k].id /\ ~api'[k].ready
           /\ api'[k].phase = api[k].phase /\ api'[k].uid = api[k].uid
  BY DEF Pending, OnlyObject, ObjectTypes

\* The finalizer and the deletion timestamp change the phase alone.
LEMMA PhaseFacts ==
    ASSUME NEW k \in Members, api \in [Members -> ObjectTypes], NEW p \in Phases,
           api' = [api EXCEPT ![k].phase = p]
    PROVE  /\ OnlyObject(k)
           /\ api'[k].home = api[k].home /\ api'[k].id = api[k].id
           /\ api'[k].ready = api[k].ready
           /\ api'[k].phase = p /\ api'[k].uid = api[k].uid
  BY DEF OnlyObject, ObjectTypes

\* An edit changes the spec alone.
LEMMA EditFacts ==
    ASSUME NEW k \in Members, api \in [Members -> ObjectTypes], NEW b \in Bodies,
           api' = [api EXCEPT ![k].spec = b]
    PROVE  /\ OnlyObject(k)
           /\ api'[k].home = api[k].home /\ api'[k].id = api[k].id
           /\ api'[k].ready = api[k].ready
           /\ api'[k].phase = api[k].phase /\ api'[k].uid = api[k].uid
  BY DEF OnlyObject, ObjectTypes

\* An object without status has no identifier and no container.
LEMMA BlankFacts ==
    ASSUME NEW u \in Nat, NEW p \in Phases
    PROVE  LET o == [NoObject EXCEPT !.phase = p, !.uid = u] IN
           /\ o \in ObjectTypes
           /\ o.home = 0 /\ o.id = 0 /\ ~o.ready /\ o.phase = p /\ o.uid = u
  BY DEF NoObject, ObjectTypes, Phases, Bodies

\* An object that is released leaves its uid behind and nothing else.
LEMMA ReleaseFacts ==
    ASSUME NEW k \in Members, api \in [Members -> ObjectTypes], Release(k)
    PROVE  /\ OnlyObject(k)
           /\ api'[k].home = 0 /\ api'[k].id = 0 /\ ~api'[k].ready
           /\ api'[k].phase = "absent" /\ api'[k].uid = api[k].uid
  <1>1. PICK o : o = [NoObject EXCEPT !.uid = api[k].uid]
    OBVIOUS
  <1>2. /\ o \in ObjectTypes
        /\ o.home = 0 /\ o.id = 0 /\ ~o.ready /\ o.phase = "absent" /\ o.uid = api[k].uid
    <2>1. api[k].uid \in Nat
      BY DEF ObjectTypes
    <2>2. QED
      BY <1>1, <2>1 DEF NoObject, ObjectTypes, Phases, Bodies
  <1>3. api' = [api EXCEPT ![k] = o]
    BY <1>1 DEF Release
  <1>4. QED
    BY <1>2, <1>3 DEF OnlyObject

\* An object that is submitted again has a uid of its own.
LEMMA SubmitFacts ==
    ASSUME NEW k \in Members, api \in [Members -> ObjectTypes],
           api' = [api EXCEPT ![k] = Object(@.uid + 1)]
    PROVE  /\ OnlyObject(k)
           /\ api'[k].home = 0 /\ api'[k].id = 0 /\ ~api'[k].ready
           /\ api'[k].phase = "new" /\ api'[k].uid = api[k].uid + 1
  <1>1. PICK o : o = Object(api[k].uid + 1)
    OBVIOUS
  <1>2. /\ o \in ObjectTypes
        /\ o.home = 0 /\ o.id = 0 /\ ~o.ready /\ o.phase = "new" /\ o.uid = api[k].uid + 1
    <2>1. api[k].uid + 1 \in Nat
      BY DEF ObjectTypes
    <2>2. QED
      BY <1>1, <2>1, BlankFacts DEF Object, Phases
  <1>3. api' = [api EXCEPT ![k] = o]
    BY <1>1
  <1>4. QED
    BY <1>2, <1>3 DEF OnlyObject

\* A pass that goes on to Create or Update remembers what Observe saw.
LEMMA BeginFacts ==
    ASSUME NEW k \in Members, api \in [Members -> ObjectTypes],
           pass \in [Members -> PassTypes], NEW step \in {"create", "update"},
           NEW home \in Nat, NEW id \in Nat, Begin(k, step, home, id)
    PROVE  /\ OnlyPass(k) /\ api' = api
           /\ pass'[k].step = step /\ pass'[k].home = home /\ pass'[k].id = id
           /\ pass'[k].spec = api[k].spec
  BY DEF Begin, OnlyPass, PassTypes, ObjectTypes

\* A pass that is over remembers nothing.
LEMMA IdleFacts ==
    ASSUME NEW k \in Members, pass \in [Members -> PassTypes],
           pass' = [pass EXCEPT ![k] = Idle]
    PROVE  OnlyPass(k) /\ pass'[k].step = "idle" /\ pass'[k].id = 0
  BY DEF Idle, OnlyPass, PassTypes, Bodies

-----------------------------------------------------------------------------
(* The cloud as a whole: identifiers are unique, roots are in nothing,     *)
(* and what has to be found in its parent's resource is.                   *)

\* Two resources, or two states of one, that differ in nothing but their body,
\* link and operational state.
Kin(r, s) == /\ r.kind = s.kind /\ r.id = s.id /\ r.home = s.home
             /\ r.owner = s.owner /\ r.saved = s.saved

\* A root is in no container, an identifier is used once (a name once in each
\* container), and the resource a loose child is in exists.
Rooted(c)    == \A r \in c : IsRoot(r.kind) => r.home = 0
Distinct(c)  == \A r, s \in c : r.kind = s.kind /\ r.id = s.id
                                /\ (Uuid(r.kind) \/ r.home = s.home) => r = s
Contained(c) == \A r \in c : Loose(r.kind) =>
                    \E g \in c : g.kind = Schema[r.kind].parent /\ g.id = r.home
Sound(c) == Rooted(c) /\ Distinct(c) /\ Contained(c)

\* A resource may change its body, link or operational state.
LEMMA SoundSwap ==
    ASSUME NEW c, Sound(c), NEW q \in c, NEW n, Kin(n, q)
    PROVE  Sound((c \ {q}) \cup {n})
  <1> DEFINE d == (c \ {q}) \cup {n}
  <1>1. Rooted(d)
    BY DEF Sound, Rooted, Kin, IsRoot
  <1>2. Distinct(d)
    <2> SUFFICES ASSUME NEW r \in d, NEW s \in d, r.kind = s.kind, r.id = s.id,
                        Uuid(r.kind) \/ r.home = s.home
                 PROVE  r = s
      BY DEF Distinct
    <2>1. CASE r = n /\ s = n
      BY <2>1
    <2>2. CASE r = n /\ s # n
      <3>1. s \in c /\ s # q
        BY <2>2
      <3>2. q.kind = s.kind /\ q.id = s.id /\ (Uuid(q.kind) \/ q.home = s.home)
        BY <2>2 DEF Kin
      <3>3. QED
        BY <3>1, <3>2 DEF Sound, Distinct
    <2>3. CASE r # n /\ s = n
      <3>1. r \in c /\ r # q
        BY <2>3
      <3>2. r.kind = q.kind /\ r.id = q.id /\ (Uuid(r.kind) \/ r.home = q.home)
        BY <2>3 DEF Kin
      <3>3. QED
        BY <3>1, <3>2 DEF Sound, Distinct
    <2>4. CASE r # n /\ s # n
      BY <2>4 DEF Sound, Distinct
    <2>5. QED
      BY <2>1, <2>2, <2>3, <2>4
  <1>3. Contained(d)
    <2> SUFFICES ASSUME NEW r \in d, Loose(r.kind)
                 PROVE  \E g \in d : g.kind = Schema[r.kind].parent /\ g.id = r.home
      BY DEF Contained
    <2>1. PICK s \in c : s.kind = r.kind /\ s.home = r.home
      BY DEF Kin
    <2>2. PICK g \in c : g.kind = Schema[r.kind].parent /\ g.id = r.home
      BY <2>1 DEF Sound, Contained
    <2>3. CASE g = q
      BY <2>2, <2>3 DEF Kin
    <2>4. CASE g # q
      BY <2>2, <2>4
    <2>5. QED
      BY <2>3, <2>4
  <1>4. QED
    BY <1>1, <1>2, <1>3 DEF Sound

\* A resource may go with its contents: the deletion of a container takes
\* along what is in it, so nothing is left without one.
LEMMA SoundWithout ==
    ASSUME NEW c, Sound(c), \A s \in c : s.kind \in AllKinds, NEW r \in c
    PROVE  Sound(Without(r, c)) /\ Without(r, c) \subseteq c /\ r \notin Without(r, c)
  <1> DEFINE d == Without(r, c)
  <1> DEFINE gone == {r} \cup Inside(r, c)
  <1>1. d = c \ (gone \cup UNION {Inside(s, c) : s \in gone})
    BY DEF Without
  <1>2. d \subseteq c /\ r \notin d
    BY <1>1
  <1>3. Rooted(d) /\ Distinct(d)
    BY <1>2 DEF Sound, Rooted, Distinct
  <1>4. Contained(d)
    <2> SUFFICES ASSUME NEW t \in d, Loose(t.kind)
                 PROVE  \E g \in d : g.kind = Schema[t.kind].parent /\ g.id = t.home
      BY DEF Contained
    <2>1. t \in c
      BY <1>2
    <2>2. PICK g \in c : g.kind = Schema[t.kind].parent /\ g.id = t.home
      BY <2>1 DEF Sound, Contained
    <2>3. /\ Schema[g.kind].id = "uuid"
          /\ Schema[g.kind].parent # None => Schema[Schema[g.kind].parent].parent = None
      BY <2>1, <2>2, LooseFacts DEF Loose, IsRoot
    <2>4. t \in Inside(g, c)
      BY <2>1, <2>2, <2>3 DEF Inside, Key
    <2>5. g \notin gone
      BY <1>1, <2>4
    <2>6. ASSUME NEW s \in gone, g \in Inside(s, c)
          PROVE  FALSE
      <3>1. s \in c /\ s # r => Schema[s.kind].parent = r.kind
        BY DEF Inside
      <3>2. CASE s = r
        BY <2>5, <2>6, <3>2
      <3>3. CASE s # r
        <4>1. Schema[g.kind].parent = s.kind
          BY <2>6 DEF Inside
        <4>2. s \in c
          BY <2>6 DEF Inside
        <4>3. s.kind \in AllKinds /\ r.kind \in AllKinds
          BY <4>2
        <4>4. s.kind # None /\ r.kind # None
          BY <4>3, KindFacts
        <4>5. QED
          BY <3>1, <3>3, <4>1, <4>2, <4>4, <2>3
      <3>4. QED
        BY <3>2, <3>3
    <2>7. g \in d
      BY <1>1, <2>5, <2>6
    <2>8. QED
      BY <2>2, <2>7
  <1>5. QED
    BY <1>2, <1>3, <1>4 DEF Sound

\* The resources that Update replaces contain nothing, and may go.
LEMMA SoundReplaced ==
    ASSUME NEW c, Sound(c), \A s \in c : s.kind \in AllKinds,
           NEW k \in AllKinds, Catalog[k].replaces, NEW h, NEW i
    PROVE  Sound(c \ At(k, h, i, c))
  <1> DEFINE d == c \ At(k, h, i, c)
  <1>1. Rooted(d) /\ Distinct(d)
    BY DEF Sound, Rooted, Distinct
  <1>2. Contained(d)
    <2> SUFFICES ASSUME NEW t \in d, Loose(t.kind)
                 PROVE  \E g \in d : g.kind = Schema[t.kind].parent /\ g.id = t.home
      BY DEF Contained
    <2>1. PICK g \in c : g.kind = Schema[t.kind].parent /\ g.id = t.home
      BY DEF Sound, Contained
    <2>2. ~Catalog[g.kind].replaces
      BY <2>1, LooseFacts DEF Loose, IsRoot
    <2>3. g \in d
      BY <2>2 DEF At
    <2>4. QED
      BY <2>1, <2>3
  <1>3. QED
    BY <1>1, <1>2 DEF Sound

\* A resource may come with an identifier of its own in a container that
\* exists.
LEMMA SoundGrow ==
    ASSUME NEW c, Sound(c), NEW n,
           IsRoot(n.kind) => n.home = 0,
           Loose(n.kind) => \E g \in c : g.kind = Schema[n.kind].parent /\ g.id = n.home,
           \A r \in c : r.kind = n.kind =>
               (IF Uuid(n.kind) THEN r.id # n.id ELSE r.home # n.home)
    PROVE  Sound(c \cup {n})
  <1>1. Rooted(c \cup {n})
    BY DEF Sound, Rooted
  <1>2. Distinct(c \cup {n})
    BY DEF Sound, Distinct
  <1>3. Contained(c \cup {n})
    <2> SUFFICES ASSUME NEW t \in c \cup {n}, Loose(t.kind)
                 PROVE  \E g \in c \cup {n} : g.kind = Schema[t.kind].parent /\ g.id = t.home
      BY DEF Contained
    <2>1. \E g \in c : g.kind = Schema[t.kind].parent /\ g.id = t.home
      BY DEF Sound, Contained
    <2>2. QED
      BY <2>1
  <1>4. QED
    BY <1>1, <1>2, <1>3 DEF Sound

-----------------------------------------------------------------------------
(* The inductive invariant. *)

\* An object has a container as soon as it has an identifier, and neither
\* identifier nor pass before it has the finalizer.
ObjectOK(k) ==
    /\ api[k].uid # 0
    /\ ~Uuid(k) => made[k] <= 1
    /\ IsRoot(k) => api[k].home = 0
    /\ ~IsRoot(k) /\ api[k].id # 0 => api[k].home # 0
    /\ api[k].phase \in {"absent", "new"} =>
          api[k].id = 0 /\ ~api[k].ready /\ pass[k].step = "idle"

\* r is in the container k's object names, and in its parent's resource.
Housed(k, r, home) == r.home = home /\ (Loose(k) => home = api[Schema[k].parent].id)

\* The resources of k agree with its status: one the operator made and saved
\* is the one in status, and one with the identifier in status is in the
\* container in status.
Known(k) ==
    \A r \in cloud : r.kind = k =>
        /\ r.owner # 0 /\ r.saved => r.id = api[k].id /\ r.home = api[k].home
        /\ Uuid(k) /\ r.id = api[k].id => Housed(k, r, api[k].home)

\* What a pass remembers of its Observe is still true when it calls: a pass
\* about to create has no resource to remember, and the resource of a pass
\* about to update is where the pass takes it to be.
PassOK(k) ==
    pass[k].step # "idle" =>
        /\ IsRoot(k) => pass[k].home = 0
        /\ ~IsRoot(k) /\ pass[k].id # 0 => pass[k].home # 0
        /\ Catalog[k].keeps /\ api[k].home # 0 => pass[k].home = api[k].home
        /\ api[k].id # 0 => pass[k].id = api[k].id
        /\ pass[k].step = "create" =>
              /\ pass[k].id = api[k].id
              /\ \A r \in cloud : r.kind = k =>
                    ~(r.owner # 0 /\ r.saved) /\ (Uuid(k) => r.id # api[k].id)
        /\ pass[k].step = "update" =>
              /\ pass[k].id # 0
              /\ \A r \in cloud : r.kind = k /\ Uuid(k) /\ r.id = pass[k].id =>
                    Housed(k, r, pass[k].home)

KindOK(k) == ObjectOK(k) /\ Known(k) /\ PassOK(k)

\* NothingStray is the first conjunct of Known; the others make it inductive.
StackInv == TypeOK /\ Sound(cloud) /\ \A k \in Members : KindOK(k)

\* Every resource has its type and an identifier that was handed out.
InRange == \A r \in cloud : r \in Resource /\ r.id \in 1..made[r.kind]

\* The types of what the state holds, one by one.
LEMMA TypeFacts ==
    ASSUME TypeOK
    PROVE  /\ api \in [Members -> ObjectTypes] /\ pass \in [Members -> PassTypes]
           /\ made \in [Members -> Nat]
           /\ \A k \in Members :
                 /\ api[k].uid \in Nat /\ api[k].home \in Nat /\ api[k].id \in Nat
                 /\ api[k].ready \in BOOLEAN /\ api[k].phase \in Phases
                 /\ api[k].spec \in Bodies /\ pass[k].spec \in Bodies
                 /\ pass[k].step \in {"idle", "create", "update"}
                 /\ pass[k].home \in Nat /\ pass[k].id \in Nat /\ made[k] \in Nat
                 /\ api[k].id <= made[k] /\ pass[k].id <= made[k]
           /\ InRange
           /\ \A r \in cloud :
                 /\ r.kind \in Members /\ r.id \in Nat /\ r.home \in Nat
                 /\ r.id # 0 /\ r.id <= made[r.kind]
  <1>1. /\ api \in [Members -> ObjectTypes] /\ pass \in [Members -> PassTypes]
        /\ made \in [Members -> Nat] /\ InRange
    BY DEF TypeOK, ObjectTypes, PassTypes, Phases, InRange
  <1>2. ASSUME NEW k \in Members
        PROVE  /\ api[k].uid \in Nat /\ api[k].home \in Nat /\ api[k].id \in Nat
               /\ api[k].ready \in BOOLEAN /\ api[k].phase \in Phases
               /\ api[k].spec \in Bodies /\ pass[k].spec \in Bodies
               /\ pass[k].step \in {"idle", "create", "update"}
               /\ pass[k].home \in Nat /\ pass[k].id \in Nat /\ made[k] \in Nat
    <2>1. api[k] \in ObjectTypes /\ pass[k] \in PassTypes /\ made[k] \in Nat
      BY <1>1
    <2>2. QED
      BY <2>1 DEF ObjectTypes, PassTypes
  <1>3. ASSUME NEW k \in Members
        PROVE  api[k].id <= made[k] /\ pass[k].id <= made[k]
    BY <1>2 DEF TypeOK
  <1>4. ASSUME NEW r \in cloud
        PROVE  r.kind \in Members /\ r.id \in Nat /\ r.home \in Nat
    <2>1. r \in Resource
      BY <1>1 DEF InRange
    <2>2. QED
      BY <2>1 DEF Resource
  <1>5. ASSUME NEW r \in cloud
        PROVE  r.id # 0 /\ r.id <= made[r.kind]
    <2>1. r.id \in 1..made[r.kind] /\ made[r.kind] \in Nat
      BY <1>1, <1>2, <1>4 DEF InRange
    <2>2. QED
      BY <2>1
  <1>6. QED
    BY <1>1, <1>2, <1>3, <1>4, <1>5

\* The parent of an object in the scene is in the scene.
LEMMA MemberFacts ==
    ASSUME scene \in Scenes, NEW k \in Members
    PROVE  /\ k \in AllKinds
           /\ Schema[k].parent \in Members \cup {None}
           /\ Loose(k) => /\ Schema[k].parent \in Members /\ Schema[k].parent # k
                          /\ Uuid(Schema[k].parent)
  <1>1. k \in AllKinds /\ Schema[k].parent \in Members \cup {None}
    BY ScenesAssumption DEF Members
  <1>2. QED
    BY <1>1, LooseFacts DEF Loose, IsRoot, Uuid

\* The objects that move are in the scene.
LEMMA MovingFacts ==
    ASSUME NEW k \in Moving
    PROVE  k \in Members
  BY DEF Moving, Members, MembersOf

\* The step of a pass, a user or the cloud that is about the object of kind k.
StepOf(k) ==
    /\ scene' = scene
    /\ OnlyObject(k) /\ OnlyPass(k)
    /\ made' \in [Members -> Nat]
    /\ \A j \in Members : j # k => made'[j] = made[j]
    /\ api'[k].id <= made'[k] /\ pass'[k].id <= made'[k]
    /\ InRange'
    /\ Sound(cloud)'
    /\ \A r \in cloud' : r.kind # k => \E s \in cloud : Kin(r, s)
    /\ ObjectOK(k)' /\ Known(k)' /\ PassOK(k)'
    /\ Uuid(k) => \/ api'[k].id = api[k].id
                  \/ \A r \in cloud' : r.kind = k => r.id # api[k].id
    /\ moves' \in 0..MaxMoves /\ faults' \in 0..MaxFaults

\* A step about one kind keeps the types of all.
LEMMA StepTypes ==
    ASSUME TypeOK, NEW k \in Members, StepOf(k)
    PROVE  TypeOK'
  <1>1. Members' = Members /\ scene' \in Scenes
    BY DEF StepOf, Members, TypeOK
  <1>2. api' \in [Members -> ObjectTypes] /\ pass' \in [Members -> PassTypes]
    BY DEF StepOf, OnlyObject, OnlyPass
  <1>3. ASSUME NEW j \in Members
        PROVE  api'[j].id \in 0..made'[j] /\ pass'[j].id \in 0..made'[j]
    <2>1. api'[j].id \in Nat /\ pass'[j].id \in Nat /\ made'[j] \in Nat
      <3>1. api'[j] \in ObjectTypes /\ pass'[j] \in PassTypes /\ made'[j] \in Nat
        BY <1>2 DEF StepOf
      <3>2. QED
        BY <3>1 DEF ObjectTypes, PassTypes
    <2>2. CASE j = k
      BY <2>1, <2>2 DEF StepOf
    <2>3. CASE j # k
      <3>1. api'[j] = api[j] /\ pass'[j] = pass[j] /\ made'[j] = made[j]
        BY <2>3 DEF StepOf, OnlyObject, OnlyPass
      <3>2. QED
        BY <2>1, <3>1, TypeFacts
    <2>4. QED
      BY <2>2, <2>3
  <1>4. /\ made' \in [Members -> Nat] /\ moves' \in 0..MaxMoves /\ faults' \in 0..MaxFaults
        /\ InRange'
    BY DEF StepOf
  <1>5. QED
    BY <1>1, <1>2, <1>3, <1>4 DEF TypeOK, ObjectTypes, PassTypes, Phases, InRange

\* A step about one kind keeps the invariant of all: what it does to the
\* object and resources of k, it has to answer for; the other kinds only see
\* resources go, and a parent's identifier change when no child is left.
LEMMA StepKeeps ==
    ASSUME StackInv, NEW k \in Members, StepOf(k)
    PROVE  StackInv'
  <1>1. TypeOK' /\ Sound(cloud)'
    BY StepTypes DEF StackInv, StepOf
  <1>2. Members' = Members
    BY DEF StepOf, Members
  <1>3. ASSUME NEW j \in Members, j # k
        PROVE  ObjectOK(j)' /\ Known(j)' /\ PassOK(j)'
    <2>1. api'[j] = api[j] /\ pass'[j] = pass[j] /\ made'[j] = made[j]
      BY <1>3 DEF StepOf, OnlyObject, OnlyPass
    <2>2. ObjectOK(j)'
      BY <2>1 DEF StackInv, KindOK, ObjectOK
    <2>3. ASSUME NEW r \in cloud', r.kind = j
          PROVE  \E s \in cloud : Kin(r, s)
      BY <1>3, <2>3 DEF StepOf
    <2>4. ASSUME NEW r \in cloud', r.kind = j, NEW home, NEW s, r.home = s.home,
                 Housed(j, s, home)
          PROVE  Housed(j, r, home)'
      <3>1. r.home = home
        BY <2>4 DEF Housed
      <3>2. ASSUME Loose(j)
            PROVE  api'[Schema[j].parent].id = home
        <4>1. PICK p \in Members : p = Schema[j].parent /\ p # j /\ Uuid(p)
          BY <3>2, MemberFacts DEF StackInv, TypeOK
        <4>2. home = api[p].id
          BY <2>4, <3>2, <4>1 DEF Housed
        <4>3. CASE p # k
          BY <4>1, <4>2, <4>3 DEF StepOf, OnlyObject
        <4>4. CASE p = k
          <5>1. PICK g \in cloud' : g.kind = p /\ g.id = r.home
            BY <1>1, <2>4, <3>2, <4>1 DEF Sound, Contained
          <5>2. api'[k].id = api[k].id
            BY <3>1, <4>1, <4>2, <4>4, <5>1 DEF StepOf
          <5>3. QED
            BY <4>1, <4>2, <4>4, <5>2
        <4>5. QED
          BY <4>3, <4>4
      <3>3. QED
        BY <3>1, <3>2 DEF Housed
    <2>5. Known(j)'
      <3> SUFFICES ASSUME NEW r \in cloud', r.kind = j
                   PROVE  /\ r.owner # 0 /\ r.saved => r.id = api'[j].id /\ r.home = api'[j].home
                          /\ Uuid(j) /\ r.id = api'[j].id => Housed(j, r, api[j].home)'
        BY DEF Known
      <3>1. PICK s \in cloud : Kin(r, s)
        BY <2>3
      <3>2. /\ s.owner # 0 /\ s.saved => s.id = api[j].id /\ s.home = api[j].home
            /\ Uuid(j) /\ s.id = api[j].id => Housed(j, s, api[j].home)
        BY <3>1 DEF StackInv, KindOK, Known, Kin
      <3>3. ASSUME Uuid(j), r.id = api'[j].id
            PROVE  Housed(j, r, api[j].home)'
        <4>1. Housed(j, s, api[j].home)
          BY <2>1, <3>1, <3>2, <3>3 DEF Kin
        <4>2. r.home = s.home
          BY <3>1 DEF Kin
        <4>3. api'[j].home = api[j].home
          BY <2>1
        <4>4. r.home = api[j].home /\ (Loose(j) => api[j].home = api'[Schema[j].parent].id)
          BY <2>4, <4>1, <4>2 DEF Housed
        <4>5. QED
          BY <4>3, <4>4 DEF Housed
      <3>4. QED
        BY <2>1, <3>1, <3>2, <3>3 DEF Kin
    <2>6. PassOK(j)'
      <3> SUFFICES ASSUME pass'[j].step # "idle"
                   PROVE  PassOK(j)'
        BY DEF PassOK
      <3>0. PassOK(j) /\ pass[j].step # "idle"
        BY <2>1 DEF StackInv, KindOK
      <3>1. ASSUME NEW r \in cloud', r.kind = j, pass[j].step = "create"
            PROVE  ~(r.owner # 0 /\ r.saved) /\ (Uuid(j) => r.id # api[j].id)
        <4>1. PICK s \in cloud : Kin(r, s)
          BY <2>3, <3>1
        <4>2. QED
          BY <3>0, <3>1, <4>1 DEF PassOK, Kin
      <3>2. ASSUME NEW r \in cloud', r.kind = j, Uuid(j), r.id = pass[j].id,
                   pass[j].step = "update"
            PROVE  Housed(j, r, pass[j].home)'
        <4>1. PICK s \in cloud : Kin(r, s)
          BY <2>3, <3>2
        <4>2. Housed(j, s, pass[j].home)
          BY <3>0, <3>2, <4>1 DEF PassOK, Kin
        <4>3. r.home = pass[j].home /\ (Loose(j) => pass[j].home = api'[Schema[j].parent].id)
          <5>1. r.home = s.home
            BY <4>1 DEF Kin
          <5>2. QED
            BY <2>4, <3>2, <4>2, <5>1 DEF Housed
        <4>4. QED
          BY <2>1, <4>3 DEF Housed
      <3>3. QED
        BY <2>1, <3>0, <3>1, <3>2 DEF PassOK
    <2>7. QED
      BY <2>2, <2>5, <2>6
  <1>4. ASSUME NEW j \in Members
        PROVE  KindOK(j)'
    BY <1>3 DEF StepOf, KindOK
  <1>5. QED
    BY <1>1, <1>2, <1>4 DEF StackInv

-----------------------------------------------------------------------------
(* Containers, and what a step may do to the resources. *)

\* Where a pass looks: a root nowhere, a child that keeps its container there,
\* any other in its parent's resource.
LEMMA HomesFacts ==
    ASSUME StackInv, NEW k \in Members, NEW home \in Nat, NEW asks,
           NEW h \in Homes(k, home, asks)
    PROVE  /\ h \in Nat
           /\ IsRoot(k) => h = 0
           /\ ~IsRoot(k) => h # 0
           /\ ~IsRoot(k) /\ Catalog[k].keeps /\ home # 0 => h = home
           /\ Loose(k) => h = api[Schema[k].parent].id
  <1>1. CASE IsRoot(k)
    BY <1>1 DEF Homes, Loose
  <1>2. CASE ~IsRoot(k) /\ Catalog[k].keeps /\ home # 0
    BY <1>2 DEF Homes, Loose
  <1>3. CASE ~IsRoot(k) /\ ~(Catalog[k].keeps /\ home # 0)
    <2>1. PICK p \in Members : p = Schema[k].parent
      BY <1>3, MemberFacts DEF StackInv, TypeOK, IsRoot
    <2>2. api[p].id # 0 /\ h = IF Schema[p].id = "uuid" THEN api[p].id ELSE api[p].home
      BY <1>3, <2>1 DEF Homes, RefReady, RefHasId
    <2>3. api[p].id \in Nat /\ api[p].home \in Nat
      BY TypeFacts DEF StackInv
    <2>4. CASE Schema[p].id = "uuid"
      BY <1>3, <2>1, <2>2, <2>3, <2>4
    <2>5. CASE Schema[p].id # "uuid"
      <3>1. p \in AllKinds
        BY MemberFacts DEF StackInv, TypeOK
      <3>2. ~IsRoot(p)
        BY <2>5, <3>1, KindFacts DEF IsRoot
      <3>3. api[p].home # 0
        BY <2>2, <3>2 DEF StackInv, KindOK, ObjectOK
      <3>4. ~Loose(k)
        BY <2>1, <2>5, MemberFacts DEF StackInv, TypeOK, Uuid
      <3>5. QED
        BY <1>3, <2>1, <2>2, <2>3, <2>5, <3>3, <3>4
    <2>6. QED
      BY <2>4, <2>5
  <1>4. QED
    BY <1>1, <1>2, <1>3

\* The resource with the identifier in status is in the container that the
\* pass addresses, kept or resolved.
LEMMA HomeAgrees ==
    ASSUME StackInv, NEW k \in Members, NEW asks, NEW h \in Homes(k, api[k].home, asks),
           NEW r \in cloud, r.kind = k, r.id = api[k].id,
           Uuid(k) \/ r.home = api[k].home
    PROVE  r.home = h /\ r.home = api[k].home
  <1>0. api[k].home \in Nat /\ r.id # 0
    BY TypeFacts DEF StackInv
  <1>1. r.home = api[k].home /\ (Loose(k) /\ Uuid(k) => r.home = api[Schema[k].parent].id)
    BY DEF StackInv, KindOK, Known, Housed
  <1>2. k \in AllKinds
    BY MemberFacts DEF StackInv, TypeOK
  <1>3. CASE IsRoot(k)
    BY <1>0, <1>1, <1>3, HomesFacts DEF StackInv, KindOK, ObjectOK
  <1>4. CASE ~IsRoot(k) /\ Catalog[k].keeps
    <2>1. api[k].home # 0
      BY <1>0, <1>4 DEF StackInv, KindOK, ObjectOK
    <2>2. QED
      BY <1>0, <1>1, <1>4, <2>1, HomesFacts
  <1>5. CASE Loose(k)
    <2>1. Uuid(k)
      BY <1>2, <1>5, KindFacts DEF Loose, IsRoot, Uuid
    <2>2. h = api[Schema[k].parent].id
      BY <1>0, <1>5, HomesFacts
    <2>3. QED
      BY <1>1, <1>5, <2>1, <2>2
  <1>6. QED
    BY <1>3, <1>4, <1>5 DEF Loose

\* What a step about kind k leaves of the resources.
CloudPart(k) ==
    /\ scene' = scene
    /\ made' \in [Members -> Nat]
    /\ \A j \in Members : j # k => made'[j] = made[j]
    /\ made[k] <= made'[k]
    /\ ~Uuid(k) => made'[k] <= 1
    /\ InRange'
    /\ Sound(cloud)'
    /\ \A r \in cloud' : r.kind # k => \E s \in cloud : Kin(r, s)

\* The scene fixed, the types mean the same after a step.
LEMMA ResourceStable ==
    ASSUME scene' = scene
    PROVE  Members' = Members /\ Resource' = Resource
  BY DEF Members, Resource

\* A step that hands out no identifier leaves the counters in order.
LEMMA MadeSame ==
    ASSUME StackInv, NEW k \in Members, made' = made
    PROVE  /\ made' \in [Members -> Nat]
           /\ \A j \in Members : j # k => made'[j] = made[j]
           /\ made[k] <= made'[k]
           /\ ~Uuid(k) => made'[k] <= 1
  <1>1. made \in [Members -> Nat] /\ made[k] \in Nat
    BY TypeFacts DEF StackInv
  <1>2. ~Uuid(k) => made[k] <= 1
    BY DEF StackInv, KindOK, ObjectOK
  <1>3. QED
    BY <1>1, <1>2

\* A step that only removes resources is fine if the rest is sound.
LEMMA CloudFewer ==
    ASSUME StackInv, NEW k \in Members, scene' = scene, made' = made,
           cloud' \subseteq cloud, Sound(cloud')
    PROVE  CloudPart(k)
  <1>1. InRange'
    <2>1. InRange
      BY TypeFacts DEF StackInv
    <2>2. QED
      BY <2>1, ResourceStable DEF InRange
  <1>2. \A r \in cloud' : \E s \in cloud : Kin(r, s)
    BY DEF Kin
  <1>3. QED
    BY <1>1, <1>2, MadeSame DEF CloudPart

\* A step that leaves the cloud alone is fine.
LEMMA CloudSame ==
    ASSUME StackInv, NEW k \in Members, scene' = scene, made' = made, cloud' = cloud
    PROVE  CloudPart(k)
  BY CloudFewer DEF StackInv

\* Every resource is of a kind of the operator.
LEMMA KindsKnown ==
    ASSUME StackInv
    PROVE  \A s \in cloud : s.kind \in AllKinds
  <1>1. \A s \in cloud : s.kind \in Members
    BY TypeFacts DEF StackInv
  <1>2. QED
    BY <1>1, MemberFacts DEF StackInv, TypeOK

\* The deletion of a resource with its contents is fine.
LEMMA CloudFall ==
    ASSUME StackInv, NEW k \in Members, scene' = scene, made' = made,
           NEW r \in cloud, cloud' = Without(r, cloud)
    PROVE  CloudPart(k) /\ cloud' \subseteq cloud /\ r \notin cloud'
  <1>1. Sound(cloud') /\ cloud' \subseteq cloud /\ r \notin cloud'
    BY SoundWithout, KindsKnown DEF StackInv
  <1>2. QED
    BY <1>1, CloudFewer

\* A change of body, link or operational state is fine.
LEMMA CloudSwap ==
    ASSUME StackInv, NEW k \in Members, scene' = scene, made' = made,
           NEW q \in cloud, NEW n \in Resource, Kin(n, q),
           cloud' = (cloud \ {q}) \cup {n}
    PROVE  CloudPart(k) /\ \A r \in cloud' : \E s \in cloud : Kin(r, s)
  <1>1. Sound(cloud')
    BY SoundSwap DEF StackInv
  <1>2. InRange'
    <2>1. InRange
      BY TypeFacts DEF StackInv
    <2>2. n.id \in 1..made[n.kind]
      BY <2>1 DEF InRange, Kin
    <2>3. QED
      BY <2>1, <2>2, ResourceStable DEF InRange
  <1>3. \A r \in cloud' : \E s \in cloud : Kin(r, s)
    BY DEF Kin
  <1>4. QED
    BY <1>1, <1>2, <1>3, MadeSame DEF CloudPart

\* A new uuid is none that was handed out before; a name is 1.
LEMMA NewIdFacts ==
    ASSUME StackInv, NEW k \in Members
    PROVE  /\ NewId(k) \in Nat /\ NewId(k) # 0 /\ made[k] <= NewId(k)
           /\ ~Uuid(k) => NewId(k) = 1
           /\ Uuid(k) => NewId(k) = made[k] + 1
  <1>1. made[k] \in Nat /\ (~Uuid(k) => made[k] <= 1)
    BY TypeFacts DEF StackInv, KindOK, ObjectOK
  <1>2. CASE Uuid(k)
    BY <1>1, <1>2 DEF NewId, Uuid
  <1>3. CASE ~Uuid(k)
    BY <1>1, <1>3 DEF NewId, Uuid
  <1>4. QED
    BY <1>2, <1>3

\* A create call is fine if the container exists and the name is free.
LEMMA CloudGrow ==
    ASSUME StackInv, NEW k \in Members, scene' = scene,
           made' = [made EXCEPT ![k] = NewId(k)],
           NEW c, c \subseteq cloud, Sound(c),
           NEW n \in Resource, n.kind = k, n.id = NewId(k),
           cloud' = c \cup {n},
           IsRoot(k) => n.home = 0,
           Container(k, n.home, c),
           ~Uuid(k) => \A r \in c : r.kind = k => r.home # n.home
    PROVE  CloudPart(k) /\ made'[k] = NewId(k)
  <1>1. /\ made' \in [Members -> Nat] /\ made'[k] = NewId(k)
        /\ \A j \in Members : j # k => made'[j] = made[j]
    <2>1. made \in [Members -> Nat] /\ NewId(k) \in Nat
      BY TypeFacts, NewIdFacts DEF StackInv
    <2>2. QED
      BY <2>1
  <1>2. made[k] <= made'[k] /\ (~Uuid(k) => made'[k] <= 1)
    BY <1>1, NewIdFacts
  <1>3. \A r \in c : r.kind = k /\ Uuid(k) => r.id # n.id
    <2>1. \A r \in cloud : r.kind = k => r.id \in Nat /\ made[k] \in Nat /\ r.id <= made[k]
      BY TypeFacts DEF StackInv
    <2>2. QED
      BY <2>1, NewIdFacts
  <1>4. ASSUME Loose(k)
        PROVE  \E g \in c : g.kind = Schema[k].parent /\ g.id = n.home
    <2>1. Uuid(Schema[k].parent) /\ ~IsRoot(k)
      BY <1>4, MemberFacts DEF StackInv, TypeOK, Loose
    <2>2. QED
      BY <2>1 DEF Container, Uuid
  <1>5. Sound(cloud')
    BY <1>3, <1>4, SoundGrow
  <1>6. InRange'
    <2>1. /\ InRange
          /\ \A r \in cloud : /\ r.kind \in Members /\ r.id \in Nat
                              /\ r.id # 0 /\ r.id <= made[r.kind]
      BY TypeFacts DEF StackInv
    <2>2. n.id \in 1..made'[n.kind]
      BY <1>1, NewIdFacts
    <2>3. ASSUME NEW r \in c
          PROVE  r.id \in 1..made'[r.kind]
      <3>1. r.kind \in Members /\ made[r.kind] \in Nat /\ made'[r.kind] \in Nat
        BY <1>1, <2>1, TypeFacts DEF StackInv
      <3>2. made[r.kind] <= made'[r.kind]
        BY <1>1, <1>2, <3>1
      <3>3. QED
        BY <2>1, <3>1, <3>2
    <2>4. QED
      BY <2>1, <2>2, <2>3, ResourceStable DEF InRange
  <1>7. \A r \in cloud' : r.kind # k => \E s \in cloud : Kin(r, s)
    BY DEF Kin
  <1>8. QED
    BY <1>1, <1>2, <1>5, <1>6, <1>7 DEF CloudPart

-----------------------------------------------------------------------------
(* The steps that leave the identifier in status, and deletion. *)

\* The bounds on moves and faults are kept.
Budgeted == moves' \in 0..MaxMoves /\ faults' \in 0..MaxFaults

\* The counters of moves and faults stay within their bounds.
LEMMA BudgetKept ==
    ASSUME StackInv,
           UNCHANGED moves \/ Move,
           UNCHANGED faults \/ (faults < MaxFaults /\ faults' = faults + 1)
    PROVE  Budgeted
  <1>1. moves \in 0..MaxMoves /\ faults \in 0..MaxFaults
    BY DEF StackInv, TypeOK
  <1>2. QED
    BY <1>1, MovesAssumption DEF Budgeted, Move

\* The parent's object is another one, which the step leaves alone.
LEMMA ParentStays ==
    ASSUME StackInv, NEW k \in Members, OnlyObject(k), Loose(k)
    PROVE  api'[Schema[k].parent] = api[Schema[k].parent]
  BY MemberFacts DEF StackInv, TypeOK, OnlyObject

\* A step that leaves the identifier in status, makes no resource and starts
\* no pass is a step about k.
LEMMA SameIdentity ==
    ASSUME StackInv, NEW k \in Members, OnlyObject(k), OnlyPass(k), CloudPart(k), Budgeted,
           \A r \in cloud' : \E s \in cloud : Kin(r, s),
           api'[k].id = api[k].id, api'[k].uid # 0,
           pass'[k] = pass[k] \/ (pass'[k].step = "idle" /\ pass'[k].id = 0),
           \/ api'[k].home = api[k].home
           \/ api[k].id = 0 /\ pass'[k].step = "idle" /\ api'[k].home = 0,
           api'[k].phase \in {"absent", "new"} =>
               api'[k].id = 0 /\ ~api'[k].ready /\ pass'[k].step = "idle"
    PROVE  StepOf(k)
  <1>0. KindOK(k) /\ TypeOK
    BY DEF StackInv
  <1>1. api'[k].id <= made'[k] /\ pass'[k].id <= made'[k]
    <2>1. /\ api[k].id \in Nat /\ pass[k].id \in Nat /\ made[k] \in Nat
          /\ api[k].id <= made[k] /\ pass[k].id <= made[k]
      BY <1>0, TypeFacts
    <2>2. made'[k] \in Nat /\ made[k] <= made'[k]
      BY DEF CloudPart
    <2>3. QED
      BY <2>1, <2>2
  <1>2. ObjectOK(k)'
    BY <1>0 DEF KindOK, ObjectOK, CloudPart
  <1>3. Known(k)'
    <2> SUFFICES ASSUME NEW r \in cloud', r.kind = k
                 PROVE  /\ r.owner # 0 /\ r.saved => r.id = api'[k].id /\ r.home = api'[k].home
                        /\ Uuid(k) /\ r.id = api'[k].id => Housed(k, r, api[k].home)'
      BY DEF Known
    <2>1. PICK s \in cloud : Kin(r, s)
      OBVIOUS
    <2>2. s.id # 0
      BY <1>0, TypeFacts
    <2>3. /\ s.owner # 0 /\ s.saved => s.id = api[k].id /\ s.home = api[k].home
          /\ Uuid(k) /\ s.id = api[k].id => Housed(k, s, api[k].home)
      BY <1>0, <2>1 DEF KindOK, Known, Kin
    <2>4. CASE api[k].id = 0
      BY <2>1, <2>2, <2>3, <2>4 DEF Kin
    <2>5. CASE api[k].id # 0
      <3>1. api'[k].home = api[k].home
        BY <2>5
      <3>2. QED
        BY <2>1, <2>3, <3>1, ParentStays DEF Kin, Housed
    <2>6. QED
      BY <2>4, <2>5
  <1>4. PassOK(k)'
    <2>1. CASE pass'[k].step = "idle"
      BY <2>1 DEF PassOK
    <2>2. CASE pass'[k].step # "idle"
      <3>1. PassOK(k) /\ pass[k].step # "idle" /\ pass'[k] = pass[k]
        BY <1>0, <2>2 DEF KindOK
      <3>2. api'[k].home = api[k].home
        BY <2>2
      <3>3. ASSUME NEW r \in cloud', r.kind = k
            PROVE  /\ pass[k].step = "create" =>
                         ~(r.owner # 0 /\ r.saved) /\ (Uuid(k) => r.id # api[k].id)
                   /\ pass[k].step = "update" /\ Uuid(k) /\ r.id = pass[k].id =>
                         /\ r.home = pass[k].home
                         /\ Loose(k) => pass[k].home = api'[Schema[k].parent].id
        <4>1. PICK s \in cloud : Kin(r, s)
          OBVIOUS
        <4>2. QED
          BY <3>1, <3>3, <4>1, ParentStays DEF PassOK, Housed, Kin
      <3>4. QED
        BY <3>1, <3>2, <3>3 DEF PassOK, Housed
    <2>3. QED
      BY <2>1, <2>2
  <1>5. QED
    BY <1>1, <1>2, <1>3, <1>4 DEF StepOf, CloudPart, Budgeted

\* Leaving the objects alone changes one of them at most.
LEMMA ObjectSame ==
    ASSUME StackInv, NEW k \in Members, UNCHANGED api
    PROVE  OnlyObject(k)
  BY TypeFacts DEF StackInv, OnlyObject

\* Leaving the passes alone changes one of them at most.
LEMMA PassSame ==
    ASSUME StackInv, NEW k \in Members, UNCHANGED pass
    PROVE  OnlyPass(k)
  BY TypeFacts DEF StackInv, OnlyPass

\* Removing resources changes none of the others.
LEMMA KinSame ==
    ASSUME cloud' \subseteq cloud
    PROVE  \A r \in cloud' : \E s \in cloud : Kin(r, s)
  BY DEF Kin

\* The pass that adds the finalizer is a step about k.
LEMMA AddFinalizerStep ==
    ASSUME StackInv, NEW k \in Members, AddFinalizer(k)
    PROVE  StepOf(k)
  <1>0. KindOK(k) /\ api \in [Members -> ObjectTypes]
    BY TypeFacts DEF StackInv
  <1>1. OnlyObject(k) /\ api'[k].home = api[k].home /\ api'[k].id = api[k].id
        /\ api'[k].phase = "live" /\ api'[k].uid = api[k].uid
    <2>1. api' = [api EXCEPT ![k].phase = "live"] /\ "live" \in Phases
      BY DEF AddFinalizer, Phases
    <2>2. QED
      BY <1>0, <2>1, PhaseFacts
  <1>2. OnlyPass(k) /\ CloudPart(k) /\ Budgeted
    BY PassSame, CloudSame, BudgetKept DEF AddFinalizer
  <1>3. cloud' = cloud /\ pass' = pass
    BY DEF AddFinalizer
  <1>4. QED
    BY <1>0, <1>1, <1>2, <1>3, SameIdentity, KinSame DEF KindOK, ObjectOK

\* The submission of an object is a step about k: all resources of the one
\* before it that it recorded are gone.
LEMMA SubmitStep ==
    ASSUME StackInv, NEW k \in Members, Submit(k)
    PROVE  StepOf(k)
  <1>0. KindOK(k) /\ api \in [Members -> ObjectTypes] /\ api[k].uid \in Nat
    BY TypeFacts DEF StackInv
  <1>1. /\ OnlyObject(k)
        /\ api'[k].home = 0 /\ api'[k].id = 0 /\ ~api'[k].ready
        /\ api'[k].phase = "new" /\ api'[k].uid = api[k].uid + 1
    BY <1>0, SubmitFacts DEF Submit
  <1>2. OnlyPass(k) /\ CloudPart(k) /\ Budgeted
    BY PassSame, CloudSame, BudgetKept DEF Submit
  <1>3. cloud' = cloud /\ pass' = pass /\ api[k].phase = "absent"
    BY DEF Submit
  <1>4. api[k].id = 0 /\ pass[k].step = "idle"
    BY <1>0, <1>3 DEF KindOK, ObjectOK
  <1>5. api'[k].uid # 0
    BY <1>0, <1>1
  <1>6. QED
    BY <1>1, <1>2, <1>3, <1>4, <1>5, SameIdentity, KinSame

\* The deletion of an object by a user is a step about k.
LEMMA DeleteStep ==
    ASSUME StackInv, NEW k \in Members, Delete(k)
    PROVE  StepOf(k)
  <1>0. KindOK(k) /\ api \in [Members -> ObjectTypes] /\ api[k].uid # 0
    BY TypeFacts DEF StackInv, KindOK, ObjectOK
  <1>1. OnlyPass(k) /\ CloudPart(k) /\ Budgeted
    BY PassSame, CloudSame, BudgetKept DEF Delete
  <1>2. cloud' = cloud /\ pass' = pass
    BY DEF Delete
  <1>3. CASE api[k].phase = "new" /\ Release(k)
    <2>1. api[k].id = 0 /\ pass[k].step = "idle"
      BY <1>0, <1>3 DEF KindOK, ObjectOK
    <2>2. QED
      BY <1>0, <1>1, <1>2, <1>3, <2>1, ReleaseFacts, SameIdentity, KinSame
  <1>4. CASE api[k].phase = "live" /\ api' = [api EXCEPT ![k].phase = "deleting"]
    <2>1. "deleting" \in Phases
      BY DEF Phases
    <2>2. OnlyObject(k) /\ api'[k].home = api[k].home /\ api'[k].id = api[k].id
          /\ api'[k].phase = "deleting" /\ api'[k].uid = api[k].uid
      BY <1>0, <1>4, <2>1, PhaseFacts
    <2>3. QED
      BY <1>0, <1>1, <1>2, <2>2, SameIdentity, KinSame
  <1>5. QED
    BY <1>3, <1>4 DEF Delete

\* The edit of a spec is a step about k.
LEMMA EditStep ==
    ASSUME StackInv, NEW k \in Members, Edit(k)
    PROVE  StepOf(k)
  <1>0. KindOK(k) /\ api \in [Members -> ObjectTypes] /\ api[k].uid # 0
    BY TypeFacts DEF StackInv, KindOK, ObjectOK
  <1>1. OnlyPass(k) /\ CloudPart(k) /\ Budgeted
    BY PassSame, CloudSame, BudgetKept DEF Edit
  <1>2. cloud' = cloud /\ pass' = pass
    BY DEF Edit
  <1>3. PICK b \in Bodies : api' = [api EXCEPT ![k].spec = b]
    BY DEF Edit
  <1>4. /\ OnlyObject(k)
        /\ api'[k].home = api[k].home /\ api'[k].id = api[k].id
        /\ api'[k].ready = api[k].ready
        /\ api'[k].phase = api[k].phase /\ api'[k].uid = api[k].uid
    BY <1>0, <1>3, EditFacts
  <1>5. QED
    BY <1>0, <1>1, <1>2, <1>4, SameIdentity, KinSame DEF KindOK, ObjectOK

\* The removal of a resource by others is a step about k.
LEMMA VanishStep ==
    ASSUME StackInv, NEW k \in Members, Vanish(k)
    PROVE  StepOf(k)
  <1>0. KindOK(k) /\ api[k].uid # 0
    BY DEF StackInv, KindOK, ObjectOK
  <1>1. PICK r \in cloud : cloud' = Without(r, cloud)
    BY DEF Vanish
  <1>2. CloudPart(k) /\ cloud' \subseteq cloud
    BY <1>1, CloudFall DEF Vanish
  <1>3. OnlyObject(k) /\ OnlyPass(k) /\ Budgeted /\ api' = api /\ pass' = pass
    BY ObjectSame, PassSame, BudgetKept DEF Vanish
  <1>4. QED
    BY <1>0, <1>2, <1>3, SameIdentity, KinSame DEF KindOK, ObjectOK

\* The operational state of a resource is none of its identity.
LEMMA UpFacts ==
    ASSUME NEW r \in Resource, NEW up \in BOOLEAN, NEW going \in BOOLEAN
    PROVE  LET n == [r EXCEPT !.going = going, !.up = up] IN n \in Resource /\ Kin(n, r)
  BY DEF Resource, Kin

\* A resource that comes up is a step about k.
LEMMA ComeUpStep ==
    ASSUME StackInv, NEW k \in Members, ComeUp(k)
    PROVE  StepOf(k)
  <1>0. KindOK(k) /\ api[k].uid # 0 /\ InRange
    BY TypeFacts DEF StackInv, KindOK, ObjectOK
  <1>1. PICK r \in cloud : cloud' = (cloud \ {r}) \cup {[r EXCEPT !.up = TRUE]}
    BY DEF ComeUp
  <1>2. PICK n : n = [r EXCEPT !.up = TRUE]
    OBVIOUS
  <1>3. n \in Resource /\ Kin(n, r)
    <2>1. r \in Resource
      BY <1>0 DEF InRange
    <2>2. QED
      BY <1>2, <2>1 DEF Resource, Kin
  <1>4. CloudPart(k) /\ \A s \in cloud' : \E t \in cloud : Kin(s, t)
    BY <1>1, <1>2, <1>3, CloudSwap DEF ComeUp
  <1>5. OnlyObject(k) /\ OnlyPass(k) /\ Budgeted /\ api' = api /\ pass' = pass
    BY ObjectSame, PassSame, BudgetKept DEF ComeUp
  <1>6. QED
    BY <1>0, <1>4, <1>5, SameIdentity DEF KindOK, ObjectOK

\* The finalizer may go when the resource that the status names is gone: it
\* was the only one to remember.
LEMMA ReleaseStep ==
    ASSUME StackInv, NEW k \in Members, Release(k), OnlyPass(k), CloudPart(k), Budgeted,
           pass'[k] = pass[k], pass[k].step = "idle", made' = made,
           cloud' \subseteq cloud,
           api[k].id = 0 \/ At(k, api[k].home, api[k].id, cloud') = {}
    PROVE  StepOf(k)
  <1>0. KindOK(k) /\ TypeOK /\ api \in [Members -> ObjectTypes] /\ api[k].uid # 0
    BY TypeFacts DEF StackInv, KindOK, ObjectOK
  <1>1. /\ OnlyObject(k)
        /\ api'[k].home = 0 /\ api'[k].id = 0 /\ ~api'[k].ready
        /\ api'[k].phase = "absent" /\ api'[k].uid = api[k].uid
    BY <1>0, ReleaseFacts
  <1>2. api'[k].id <= made'[k] /\ pass'[k].id <= made'[k]
    BY <1>0, <1>1, TypeFacts
  <1>3. ASSUME NEW r \in cloud', r.kind = k
        PROVE  ~(r.owner # 0 /\ r.saved) /\ r.id # 0 /\ (Uuid(k) => r.id # api[k].id)
    <2>1. r \in cloud /\ r.id # 0
      BY <1>0, TypeFacts
    <2>2. /\ r.owner # 0 /\ r.saved => r.id = api[k].id /\ r.home = api[k].home
          /\ Uuid(k) /\ r.id = api[k].id => r.home = api[k].home
      BY <1>0, <1>3, <2>1 DEF KindOK, Known, Housed
    <2>3. QED
      BY <1>3, <2>1, <2>2 DEF At
  <1>4. ObjectOK(k)' /\ Known(k)' /\ PassOK(k)'
    BY <1>0, <1>1, <1>3 DEF ObjectOK, Known, PassOK, CloudPart
  <1>5. QED
    BY <1>1, <1>2, <1>3, <1>4 DEF StepOf, CloudPart, Budgeted

\* The pass over an object under deletion is a step about k, whether the
\* resource is blocked, lingers, is confirmed gone or not found.
LEMMA FinalizeStep ==
    ASSUME StackInv, NEW k \in Members, Finalize(k)
    PROVE  StepOf(k)
  <1>0. KindOK(k) /\ api \in [Members -> ObjectTypes] /\ api[k].uid # 0 /\ InRange
    BY TypeFacts DEF StackInv, KindOK, ObjectOK
  <1>1. /\ OnlyPass(k) /\ Budgeted /\ pass' = pass /\ made' = made /\ scene' = scene
        /\ pass[k].step = "idle" /\ api[k].phase = "deleting"
    BY PassSame, BudgetKept DEF Finalize
  <1> DEFINE found == At(k, api[k].home, api[k].id, cloud)
  <1>2. CASE api[k].id = 0 \/ found = {}
    <2>1. Release(k) /\ cloud' = cloud
      BY <1>2 DEF Finalize
    <2>2. CloudPart(k)
      BY <1>1, <2>1, CloudSame
    <2>3. QED
      BY <1>1, <1>2, <2>1, <2>2, ReleaseStep
  <1>3. CASE ~(api[k].id = 0 \/ found = {})
    <2>1. PICK r \in found : DeleteResource(k, r)
      BY <1>3 DEF Finalize
    <2>2. r \in cloud /\ r.kind = k /\ r.home = api[k].home /\ r.id = api[k].id
      BY DEF At
    <2>3. ASSUME Pending(k), CloudPart(k), \A s \in cloud' : \E t \in cloud : Kin(s, t)
          PROVE  StepOf(k)
      <3>1. /\ OnlyObject(k)
            /\ api'[k].home = api[k].home /\ api'[k].id = api[k].id
            /\ api'[k].phase = api[k].phase /\ api'[k].uid = api[k].uid
        BY <1>0, <2>3, PendingFacts
      <3>2. QED
        BY <1>0, <1>1, <2>3, <3>1, SameIdentity
    <2>4. CASE Pending(k) /\ cloud' = cloud
      BY <1>1, <2>3, <2>4, CloudSame, KinSame
    <2>5. CASE /\ cloud' = (cloud \ {r}) \cup {[r EXCEPT !.going = TRUE, !.up = FALSE]}
               /\ Pending(k)
      <3>1. PICK n : n = [r EXCEPT !.going = TRUE, !.up = FALSE]
        OBVIOUS
      <3>2. n \in Resource /\ Kin(n, r)
        <4>1. r \in Resource
          BY <1>0, <2>2 DEF InRange
        <4>2. QED
          BY <3>1, <4>1, UpFacts
      <3>3. CloudPart(k) /\ \A s \in cloud' : \E t \in cloud : Kin(s, t)
        BY <1>1, <2>2, <2>5, <3>1, <3>2, CloudSwap
      <3>4. QED
        BY <2>3, <2>5, <3>3
    <2>6. CASE cloud' = Without(r, cloud) /\ (Pending(k) \/ Release(k))
      <3>1. CloudPart(k) /\ cloud' \subseteq cloud /\ r \notin cloud'
        BY <1>1, <2>2, <2>6, CloudFall
      <3>2. CASE Pending(k)
        BY <2>3, <3>1, <3>2, KinSame
      <3>3. CASE Release(k)
        <4>1. At(k, api[k].home, api[k].id, cloud') = {}
          BY <2>2, <3>1 DEF At, StackInv, Sound, Distinct
        <4>2. QED
          BY <1>1, <3>1, <3>3, <4>1, ReleaseStep
      <3>4. QED
        BY <2>6, <3>2, <3>3
    <2>7. QED
      BY <2>1, <2>4, <2>5, <2>6 DEF DeleteResource
  <1>4. QED
    BY <1>2, <1>3

-----------------------------------------------------------------------------
(* Observe. *)

\* Every resource of kind k agrees with a status that holds id and home.
Agrees(k, id, home) ==
    \A r \in cloud' : r.kind = k =>
        /\ r.owner # 0 /\ r.saved => r.id = id /\ r.home = home
        /\ Uuid(k) /\ r.id = id => Housed(k, r, home)

\* A status patch that agrees with the resources is a step about k.
LEMMA SaveStep ==
    ASSUME StackInv, NEW k \in Members, NEW home \in Nat, NEW id \in Nat,
           NEW ready \in BOOLEAN, Save(k, home, id, ready),
           OnlyPass(k), pass'[k].step = "idle", pass'[k].id <= made'[k],
           CloudPart(k), Budgeted,
           id <= made'[k], api[k].phase \notin {"absent", "new"},
           IsRoot(k) => home = 0,
           ~IsRoot(k) /\ id # 0 => home # 0,
           Agrees(k, id, home),
           Uuid(k) => id = api[k].id \/ \A r \in cloud' : r.kind = k => r.id # api[k].id
    PROVE  StepOf(k)
  <1>0. KindOK(k) /\ api \in [Members -> ObjectTypes] /\ api[k].uid # 0
    BY TypeFacts DEF StackInv, KindOK, ObjectOK
  <1>1. /\ OnlyObject(k)
        /\ api'[k].home = home /\ api'[k].id = id
        /\ api'[k].phase = api[k].phase /\ api'[k].uid = api[k].uid
    BY <1>0, SaveFacts
  <1>2. ObjectOK(k)'
    BY <1>0, <1>1 DEF ObjectOK, CloudPart
  <1>3. Known(k)'
    BY <1>1, ParentStays DEF Known, Agrees, Housed
  <1>4. PassOK(k)'
    BY DEF PassOK
  <1>5. QED
    BY <1>1, <1>2, <1>3, <1>4 DEF StepOf, CloudPart, Budgeted

\* A pass that ends without its status patch is a step about k, if the status
\* as it is agrees with the resources.
LEMMA QuitStep ==
    ASSUME StackInv, NEW k \in Members, api' = api,
           OnlyPass(k), pass'[k].step = "idle", pass'[k].id <= made'[k],
           CloudPart(k), Budgeted, Agrees(k, api[k].id, api[k].home)
    PROVE  StepOf(k)
  <1>0. KindOK(k) /\ OnlyObject(k)
    BY ObjectSame DEF StackInv
  <1>1. api'[k].id <= made'[k]
    <2>1. api[k].id \in Nat /\ made[k] \in Nat /\ api[k].id <= made[k]
      BY TypeFacts DEF StackInv
    <2>2. made'[k] \in Nat /\ made[k] <= made'[k]
      BY DEF CloudPart
    <2>3. QED
      BY <2>1, <2>2
  <1>2. ObjectOK(k)'
    BY <1>0 DEF KindOK, ObjectOK, CloudPart
  <1>3. Known(k)'
    BY DEF Known, Agrees, Housed
  <1>4. PassOK(k)'
    BY DEF PassOK
  <1>5. QED
    BY <1>0, <1>1, <1>2, <1>3, <1>4 DEF StepOf, CloudPart, Budgeted

  -----------------------------------------------------------------------------

\* What Observe leaves alone.
Looks(k) == /\ api[k].phase = "live" /\ pass[k].step = "idle"
            /\ UNCHANGED <<scene, cloud, made, moves, faults>>

\* An Observe that reports is a step about k.
LEMMA ReportStep ==
    ASSUME StackInv, NEW k \in Members, NEW home \in Nat, NEW id \in Nat,
           NEW ready \in BOOLEAN, Looks(k), Report(k, home, id, ready),
           id <= made[k],
           IsRoot(k) => home = 0,
           ~IsRoot(k) /\ id # 0 => home # 0,
           api[k].id # 0 => id = api[k].id,
           \A r \in cloud : r.kind = k =>
               /\ r.owner # 0 /\ r.saved => r.id = id /\ r.home = home
               /\ Uuid(k) /\ r.id = id => Housed(k, r, home)
    PROVE  StepOf(k)
  <1>1. /\ OnlyPass(k) /\ CloudPart(k) /\ Budgeted /\ pass' = pass /\ cloud' = cloud
        /\ made' = made /\ Save(k, home, id, ready)
    BY PassSame, CloudSame, BudgetKept DEF Looks, Report
  <1>2. pass[k].id <= made[k] /\ \A r \in cloud : r.id # 0
    BY TypeFacts DEF StackInv
  <1>3. Agrees(k, id, home)
    BY <1>1 DEF Agrees
  <1>4. pass[k].step = "idle" /\ api[k].phase = "live"
    BY DEF Looks
  <1>5. QED
    BY <1>1, <1>2, <1>3, <1>4, SaveStep

\* An Observe that goes on to Create or Update is a step about k.
LEMMA BeginStep ==
    ASSUME StackInv, NEW k \in Members, NEW step \in {"create", "update"},
           NEW home \in Nat, NEW id \in Nat, Looks(k), Begin(k, step, home, id),
           id <= made[k],
           IsRoot(k) => home = 0,
           ~IsRoot(k) /\ id # 0 => home # 0,
           Catalog[k].keeps /\ api[k].home # 0 => home = api[k].home,
           api[k].id # 0 => id = api[k].id,
           step = "create" =>
               /\ id = api[k].id
               /\ \A r \in cloud : r.kind = k =>
                     ~(r.owner # 0 /\ r.saved) /\ (Uuid(k) => r.id # api[k].id),
           step = "update" =>
               /\ id # 0
               /\ \A r \in cloud : r.kind = k /\ Uuid(k) /\ r.id = id => Housed(k, r, home)
    PROVE  StepOf(k)
  <1>0. /\ KindOK(k) /\ api \in [Members -> ObjectTypes] /\ pass \in [Members -> PassTypes]
        /\ api[k].id <= made[k]
    BY TypeFacts DEF StackInv
  <1>1. /\ OnlyPass(k) /\ api' = api
        /\ pass'[k].step = step /\ pass'[k].home = home /\ pass'[k].id = id
    BY <1>0, BeginFacts
  <1>2. /\ OnlyObject(k) /\ CloudPart(k) /\ Budgeted /\ cloud' = cloud /\ made' = made
        /\ api[k].phase = "live"
    BY <1>1, ObjectSame, CloudSame, BudgetKept DEF Looks
  <1>3. ObjectOK(k)' /\ Known(k)'
    BY <1>0, <1>1, <1>2 DEF KindOK, ObjectOK, Known, Housed
  <1>4. PassOK(k)'
    BY <1>1, <1>2 DEF PassOK, Housed
  <1>5. QED
    BY <1>0, <1>1, <1>2, <1>3, <1>4 DEF StepOf, CloudPart, Budgeted

\* What Observe finds is in the container it looks in, and is the resource
\* with the identifier the status holds, if it holds one.
LEMMA FoundFacts ==
    ASSUME StackInv, NEW k \in Members, NEW h, IsRoot(k) => h = 0,
           NEW r \in Found(k, h)
    PROVE  /\ r \in cloud /\ r.kind = k /\ r.home = h
           /\ api[k].id # 0 => r.id = api[k].id
  <1>1. CASE api[k].id # 0
    BY <1>1 DEF Found, At
  <1>2. CASE api[k].id = 0 /\ Catalog[k].adopts = "label"
    <2>1. r \in cloud /\ r.kind = k
      BY <1>2 DEF Found
    <2>2. IsRoot(k)
      BY <1>2, MemberFacts, KindFacts DEF StackInv, TypeOK, IsRoot
    <2>3. h = 0
      BY <2>2
    <2>4. r.home = 0
      BY <2>1, <2>2 DEF StackInv, Sound, Rooted
    <2>5. QED
      BY <1>2, <2>1, <2>3, <2>4
  <1>3. CASE api[k].id = 0 /\ Catalog[k].adopts = "name" /\ Catalog[k].adopts # "label"
    BY <1>3 DEF Found
  <1>4. CASE api[k].id = 0 /\ Catalog[k].adopts # "label" /\ Catalog[k].adopts # "name"
    BY <1>4 DEF Found
  <1>5. QED
    BY <1>1, <1>2, <1>3, <1>4

\* Observe is a step about k, whether the parent resolves or not, and
\* whatever lookup, adoption or comparison comes to.
LEMMA ObserveStep ==
    ASSUME StackInv, NEW k \in Members, Observe(k)
    PROVE  StepOf(k)
  <1>0. /\ KindOK(k) /\ Looks(k) /\ InRange
        /\ api[k].home \in Nat /\ api[k].id \in Nat /\ api[k].id <= made[k] /\ 0 <= made[k]
        /\ \A r \in cloud : r.id # 0 /\ r.id \in Nat /\ r.id <= made[r.kind]
    BY TypeFacts DEF StackInv, Observe, Observing, Looks
  <1>1. ASSUME NEW r \in cloud, r.kind = k
        PROVE  /\ r.owner # 0 /\ r.saved => r.id = api[k].id /\ r.home = api[k].home
               /\ Uuid(k) /\ r.id = api[k].id => Housed(k, r, api[k].home)
    BY <1>0, <1>1 DEF KindOK, Known
  <1>2. CASE Catalog[k].asks = "later" /\ api[k].id = 0
    <2>1. Begin(k, "create", api[k].home, 0)
      BY <1>2 DEF Observe, Observing
    <2>2. QED
      BY <1>0, <1>1, <1>2, <2>1, BeginStep DEF KindOK, ObjectOK
  <1>3. CASE ~(Catalog[k].asks = "later" /\ api[k].id = 0)
    <2> DEFINE homes == Homes(k, api[k].home, Catalog[k].asks)
    <2>1. CASE homes = {}
      <3>1. Report(k, api[k].home, api[k].id, FALSE)
        BY <1>3, <2>1 DEF Observe, Observing
      <3>2. QED
        BY <1>0, <1>1, <3>1, ReportStep DEF KindOK, ObjectOK
    <2>2. CASE homes # {}
      <3>1. PICK h \in homes : ObserveIn(k, h)
        BY <1>3, <2>2 DEF Observe, Observing
      <3>2. /\ h \in Nat
            /\ IsRoot(k) => h = 0
            /\ ~IsRoot(k) => h # 0
            /\ ~IsRoot(k) /\ Catalog[k].keeps /\ api[k].home # 0 => h = api[k].home
            /\ Loose(k) => h = api[Schema[k].parent].id
        BY <1>0, HomesFacts
      <3>3. Catalog[k].keeps /\ api[k].home # 0 => h = api[k].home
        BY <1>0, <3>2 DEF KindOK, ObjectOK
      <3>4. ASSUME NEW r \in cloud, r.kind = k
            PROVE  /\ r.owner # 0 /\ r.saved => r.id = api[k].id /\ r.home = h
                   /\ Uuid(k) /\ r.id = api[k].id => Housed(k, r, h)
        <4>1. ASSUME r.id = api[k].id, Uuid(k) \/ r.home = api[k].home
              PROVE  r.home = h
          BY <3>4, <4>1, HomeAgrees
        <4>2. QED
          BY <1>1, <3>2, <3>4, <4>1 DEF Housed
      <3>5. CASE Report(k, h, api[k].id, FALSE)
        BY <1>0, <3>2, <3>4, <3>5, ReportStep
      <3>6. CASE Found(k, h) = {} /\ Begin(k, "create", h, api[k].id)
        <4>1. ASSUME NEW r \in cloud, r.kind = k
              PROVE  ~(r.owner # 0 /\ r.saved) /\ (Uuid(k) => r.id # api[k].id)
          <5>1. ASSUME r.id = api[k].id, r.home = h
                PROVE  FALSE
            <6>1. api[k].id # 0
              BY <1>0, <5>1
            <6>2. r \in Found(k, h)
              BY <4>1, <5>1, <6>1 DEF Found, At
            <6>3. QED
              BY <3>6, <6>2
          <5>2. QED
            BY <3>4, <4>1, <5>1 DEF Housed
        <4>2. QED
          BY <1>0, <3>2, <3>3, <3>6, <4>1, BeginStep
      <3>7. ASSUME NEW r \in Found(k, h), ObserveFound(k, h, r)
            PROVE  StepOf(k)
        <4>1. r \in cloud /\ r.kind = k /\ r.home = h /\ (api[k].id # 0 => r.id = api[k].id)
          BY <3>2, <3>7, FoundFacts
        <4>2. r.id # 0 /\ r.id \in Nat /\ r.id <= made[k]
          BY <1>0, <4>1
        <4>3. r.up \in BOOLEAN
          <5>1. r \in Resource
            BY <1>0, <4>1 DEF InRange
          <5>2. QED
            BY <5>1 DEF Resource
        <4>4. ASSUME NEW s \in cloud, s.kind = k
              PROVE  /\ s.owner # 0 /\ s.saved => s.id = r.id /\ s.home = h
                     /\ Uuid(k) /\ s.id = r.id => Housed(k, s, h)
          <5>1. ASSUME s.owner # 0, s.saved
                PROVE  s.id = r.id /\ s.home = h
            BY <1>0, <3>4, <4>1, <4>4, <5>1
          <5>2. ASSUME Uuid(k), s.id = r.id
                PROVE  Housed(k, s, h)
            <6>1. s = r
              BY <4>1, <4>4, <5>2 DEF StackInv, Sound, Distinct
            <6>2. QED
              BY <3>2, <4>1, <6>1 DEF Housed
          <5>3. QED
            BY <5>1, <5>2
        <4>5. ASSUME NEW b \in BOOLEAN, Report(k, h, r.id, b)
              PROVE  StepOf(k)
          BY <1>0, <3>2, <4>1, <4>2, <4>4, <4>5, ReportStep
        <4>7. CASE Begin(k, "update", h, r.id)
          BY <1>0, <3>2, <3>3, <4>1, <4>2, <4>4, <4>7, BeginStep
        <4>8. QED
          BY <3>7, <4>3, <4>5, <4>7 DEF ObserveFound
      <3>8. QED
        BY <3>1, <3>5, <3>6, <3>7 DEF ObserveIn
    <2>3. QED
      BY <2>1, <2>2
  <1>4. QED
    BY <1>2, <1>3

-----------------------------------------------------------------------------
(* Create and Update. *)

\* The identifier a reference resolves to is a number.
LEMMA LinkFacts ==
    ASSUME StackInv, NEW k \in Members
    PROVE  Link(k) \in Nat
  BY TypeFacts DEF StackInv, Link, Wants

\* A new resource is the object's, with the identifier handed out last.
LEMMA CreatedFacts ==
    ASSUME StackInv, NEW k \in Members, NEW h \in Nat, NEW c, NEW saved \in BOOLEAN
    PROVE  LET n == Created(k, h, c, saved) IN
           /\ n \in Resource
           /\ n.kind = k /\ n.id = NewId(k) /\ n.home = h /\ n.owner = api[k].uid
           /\ n.saved = saved
  <1>1. NewId(k) \in Nat /\ api[k].uid \in Nat
    BY NewIdFacts, TypeFacts DEF StackInv
  <1>2. PICK link \in Nat : link = IF Attaches(k, h, c) THEN Link(k) ELSE 0
    BY LinkFacts
  <1>3. PICK spec \in {0} \cup Bodies :
            spec = IF ~Attaches(k, h, c) THEN 0
                   ELSE IF Catalog[k].carries THEN pass[k].spec ELSE 1
    <2>1. pass[k].spec \in Bodies /\ 1 \in Bodies
      BY TypeFacts DEF StackInv, Bodies
    <2>2. QED
      BY <2>1
  <1>4. PICK up \in BOOLEAN : up = ~Catalog[k].awaits
    OBVIOUS
  <1>5. PICK going \in BOOLEAN : going = FALSE
    OBVIOUS
  <1>6. Created(k, h, c, saved) =
            [kind |-> k, id |-> NewId(k), home |-> h, owner |-> api[k].uid, link |-> link,
             spec |-> spec, up |-> up, going |-> going, saved |-> saved]
    BY <1>2, <1>3, <1>4, <1>5 DEF Created
  <1>7. QED
    BY <1>1, <1>6 DEF Resource

\* A create call that is accepted is fine.
LEMMA CreateGrows ==
    ASSUME StackInv, NEW k \in Members, scene' = scene, NEW c, c \subseteq cloud, Sound(c),
           NEW h \in CreateHomes(k), Creatable(k, h, c), NEW saved \in BOOLEAN,
           cloud' = c \cup {Created(k, h, c, saved)},
           made' = [made EXCEPT ![k] = NewId(k)]
    PROVE  CloudPart(k) /\ made'[k] = NewId(k)
  <1>1. h \in Nat /\ (IsRoot(k) => h = 0)
    BY HomesFacts, TypeFacts DEF CreateHomes, StackInv
  <1>2. PICK n \in Resource :
            /\ n = Created(k, h, c, saved)
            /\ n.kind = k /\ n.id = NewId(k) /\ n.home = h
    BY <1>1, CreatedFacts
  <1>3. Container(k, n.home, c)
    BY <1>2 DEF Creatable
  <1>4. ~Uuid(k) => \A r \in c : r.kind = k => r.home # n.home
    <2>1. ~Uuid(k) => Contracts[k].unique
      BY MemberFacts, KindFacts DEF StackInv, TypeOK, Uuid
    <2>2. QED
      BY <1>2, <2>1 DEF Creatable
  <1>5. QED
    BY <1>1, <1>2, <1>3, <1>4, CloudGrow

\* A running pass belongs to an object that carries the finalizer.
LEMMA RunningFacts ==
    ASSUME StackInv, NEW k \in Members, pass[k].step # "idle"
    PROVE  /\ api[k].phase \notin {"absent", "new"}
           /\ IsRoot(k) => pass[k].home = 0 /\ api[k].home = 0
           /\ ~IsRoot(k) /\ pass[k].id # 0 => pass[k].home # 0
           /\ api[k].id # 0 => pass[k].id = api[k].id
           /\ api[k].uid # 0
  BY DEF StackInv, KindOK, ObjectOK, PassOK

\* No resource in c is one the operator would have to remember.
Clear(k, c) == \A r \in c : r.kind = k =>
                   ~(r.owner # 0 /\ r.saved) /\ (Uuid(k) => r.id # api[k].id)

\* When Observe has called for Create there is no resource to remember, and
\* none comes by another way before the call.
LEMMA CreateClear ==
    ASSUME StackInv, NEW k \in Members, pass[k].step = "create"
    PROVE  Clear(k, cloud) /\ Sound(cloud)
  BY DEF StackInv, KindOK, PassOK, Clear

\* When Update has deleted the resource it replaces, there is none to
\* remember.
LEMMA ReplaceClear ==
    ASSUME StackInv, NEW k \in Members, pass[k].step = "update", Catalog[k].replaces,
           NEW c, c = cloud \ At(k, pass[k].home, pass[k].id, cloud)
    PROVE  Clear(k, c) /\ Sound(c) /\ c \subseteq cloud
  <1>1. Uuid(k) /\ k \in AllKinds
    BY MemberFacts, KindFacts DEF StackInv, TypeOK, Uuid
  <1>2. Sound(c)
    BY <1>1, SoundReplaced, KindsKnown DEF StackInv
  <1>3. ASSUME NEW r \in c, r.kind = k
        PROVE  ~(r.owner # 0 /\ r.saved) /\ r.id # api[k].id
    <2>1. r \in cloud /\ r.id # 0
      BY TypeFacts DEF StackInv
    <2>2. r.id # pass[k].id
      <3>1. r.id = pass[k].id => r.home = pass[k].home
        BY <1>1, <1>3, <2>1 DEF StackInv, KindOK, PassOK, Housed
      <3>2. QED
        BY <1>3, <2>1, <3>1 DEF At
    <2>3. r.id # api[k].id
      BY <2>1, <2>2, RunningFacts
    <2>4. r.owner # 0 /\ r.saved => r.id = api[k].id
      BY <1>3, <2>1 DEF StackInv, KindOK, Known
    <2>5. QED
      BY <2>3, <2>4
  <1>4. QED
    BY <1>2, <1>3 DEF Clear

\* Create, alone or as the second call of a replacement.
LEMMA CreateOnStep ==
    ASSUME StackInv, NEW k \in Members, pass[k].step # "idle",
           pass' = [pass EXCEPT ![k] = Idle], scene' = scene, Budgeted,
           NEW c, c \subseteq cloud, Sound(c), Clear(k, c),
           NEW id, id = 0 \/ (id = pass[k].id /\ id = api[k].id),
           CreateOn(k, c, id)
    PROVE  StepOf(k)
  <1>0. /\ pass \in [Members -> PassTypes] /\ pass[k].home \in Nat /\ pass[k].id \in Nat
        /\ api[k].id \in Nat /\ made[k] \in Nat
        /\ api[k].id <= made[k]
        /\ \A r \in cloud : r.id # 0 /\ r.id \in Nat
        /\ \A r \in cloud : r.kind = k => r.id <= made[k]
    BY TypeFacts DEF StackInv
  <1>1. OnlyPass(k) /\ pass'[k].step = "idle" /\ pass'[k].id = 0
    BY <1>0, IdleFacts
  <1>2. PICK yes \in BOOLEAN, no \in BOOLEAN : yes = TRUE /\ no = FALSE
    OBVIOUS
  <1>3. ASSUME NEW h \in CreateHomes(k)
        PROVE  /\ h \in Nat /\ (IsRoot(k) => h = 0) /\ (~IsRoot(k) => h # 0)
               /\ Loose(k) => h = api[Schema[k].parent].id
    BY <1>0, HomesFacts DEF CreateHomes
  <1>4. CASE \E h \in CreateHomes(k) : Creatable(k, h, c)
    <2>1. PICK h \in CreateHomes(k) :
              /\ cloud' = c \cup {Created(k, h, c, yes)}
              /\ made'  = [made EXCEPT ![k] = NewId(k)]
              /\ Save(k, h, NewId(k), no)
      BY <1>2, <1>4 DEF CreateOn
    <2>2. Creatable(k, h, c)
      <3>1. PICK g \in CreateHomes(k) : Creatable(k, g, c)
        BY <1>4
      <3>2. g = h
        BY DEF CreateHomes, Homes
      <3>3. QED
        BY <3>1, <3>2
    <2>3. CloudPart(k) /\ made'[k] = NewId(k)
      BY <2>1, <2>2, CreateGrows
    <2>4. PICK n : n = Created(k, h, c, yes) /\ n.kind = k /\ n.id = NewId(k) /\ n.home = h
      BY <1>3, CreatedFacts
    <2>5. NewId(k) \in Nat /\ NewId(k) # 0 /\ NewId(k) <= made'[k]
          /\ (Uuid(k) => NewId(k) = made[k] + 1)
      BY <2>3, NewIdFacts
    <2>6. Agrees(k, NewId(k), h)
      <3> SUFFICES ASSUME NEW r \in cloud', r.kind = k
                   PROVE  /\ r.owner # 0 /\ r.saved => r.id = NewId(k) /\ r.home = h
                          /\ Uuid(k) /\ r.id = NewId(k) => Housed(k, r, h)
        BY DEF Agrees
      <3>1. CASE r = n
        BY <1>3, <2>4, <3>1 DEF Housed
      <3>2. CASE r \in c
        BY <1>0, <2>5, <3>2 DEF Clear
      <3>3. QED
        BY <2>1, <2>4, <3>1, <3>2
    <2>7. Uuid(k) => \A r \in cloud' : r.kind = k => r.id # api[k].id
      <3> SUFFICES ASSUME Uuid(k), NEW r \in cloud', r.kind = k
                   PROVE  r.id # api[k].id
        OBVIOUS
      <3>1. CASE r = n
        <4>1. r.id = made[k] + 1
          BY <2>4, <2>5, <3>1
        <4>2. QED
          BY <1>0, <4>1
      <3>2. CASE r \in c
        BY <3>2 DEF Clear
      <3>3. QED
        BY <2>1, <2>4, <3>1, <3>2
    <2>8. 0 <= made'[k]
      BY <2>3, <2>5
    <2>9. /\ h \in Nat /\ (IsRoot(k) => h = 0) /\ (~IsRoot(k) => h # 0)
          /\ api[k].phase \notin {"absent", "new"}
      BY <1>3, RunningFacts
    <2>10. QED
      BY <1>1, <2>1, <2>3, <2>5, <2>6, <2>7, <2>8, <2>9, SaveStep
  <1>5. CASE ~\E h \in CreateHomes(k) : Creatable(k, h, c)
    <2>1. cloud' = c /\ Save(k, KeptHome(k), id, no) /\ made' = made
      BY <1>2, <1>5 DEF CreateOn
    <2>2. CloudPart(k)
      BY <2>1, CloudFewer
    <2>3. KeptHome(k) \in CreateHomes(k) \cup {pass[k].home}
      BY DEF KeptHome
    <2>4. /\ KeptHome(k) \in Nat /\ (IsRoot(k) => KeptHome(k) = 0)
          /\ ~IsRoot(k) /\ id # 0 => KeptHome(k) # 0
      BY <1>0, <1>3, <2>3, RunningFacts
    <2>5. Agrees(k, id, KeptHome(k))
      <3> SUFFICES ASSUME NEW r \in cloud', r.kind = k
                   PROVE  ~(r.owner # 0 /\ r.saved) /\ ~(Uuid(k) /\ r.id = id)
        BY DEF Agrees
      <3>1. r \in cloud /\ r.id # 0 /\ ~(r.owner # 0 /\ r.saved) /\ (Uuid(k) => r.id # api[k].id)
        BY <1>0, <2>1 DEF Clear
      <3>2. QED
        BY <3>1
    <2>6. Uuid(k) => \A r \in cloud' : r.kind = k => r.id # api[k].id
      BY <2>1 DEF Clear
    <2>7. id \in Nat /\ id <= made'[k] /\ 0 <= made'[k]
      BY <1>0, <2>1
    <2>8. QED
      BY <1>1, <2>1, <2>2, <2>4, <2>5, <2>6, <2>7, RunningFacts, SaveStep
  <1>6. QED
    BY <1>4, <1>5

\* Create is a step about k.
LEMMA CreateStep ==
    ASSUME StackInv, NEW k \in Members, Create(k)
    PROVE  StepOf(k)
  <1>1. /\ pass[k].step = "create" /\ CreateOn(k, cloud, pass[k].id)
        /\ pass' = [pass EXCEPT ![k] = Idle] /\ scene' = scene
    BY DEF Create
  <1>2. pass[k].id = api[k].id
    BY <1>1 DEF StackInv, KindOK, PassOK
  <1>3. Budgeted
    BY BudgetKept DEF Create
  <1>4. Clear(k, cloud) /\ Sound(cloud)
    BY <1>1, CreateClear
  <1>5. QED
    BY <1>1, <1>2, <1>3, <1>4, CreateOnStep

\* Update by delete and create is a step about k.
LEMMA ReplaceStep ==
    ASSUME StackInv, NEW k \in Members, Replace(k)
    PROVE  StepOf(k)
  <1>1. PICK c : c = cloud \ At(k, pass[k].home, pass[k].id, cloud)
    OBVIOUS
  <1>2. /\ pass[k].step = "update" /\ Catalog[k].replaces /\ CreateOn(k, c, 0)
        /\ pass' = [pass EXCEPT ![k] = Idle] /\ scene' = scene
    BY <1>1 DEF Replace
  <1>3. Budgeted
    BY BudgetKept DEF Replace
  <1>4. Clear(k, c) /\ Sound(c) /\ c \subseteq cloud
    BY <1>1, <1>2, ReplaceClear
  <1>5. QED
    BY <1>2, <1>3, <1>4, CreateOnStep

\* Body and link of a resource are none of its identity.
LEMMA SentFacts ==
    ASSUME NEW r \in Resource, NEW spec \in {0} \cup Bodies, NEW link \in Nat
    PROVE  LET n == [r EXCEPT !.spec = spec, !.link = link] IN n \in Resource /\ Kin(n, r)
  BY DEF Resource, Kin

\* A modify call that is not refused changes one resource, the one found by
\* Observe, in nothing but its body and link.
LEMMA ModifyShape ==
    ASSUME StackInv, NEW k \in Members, pass[k].step = "update", Modified(k) # {}
    PROVE  \E q \in cloud, n \in Resource :
              /\ At(k, pass[k].home, pass[k].id, cloud) = {q}
              /\ Modified(k) = {n}
              /\ Kin(n, q)
  <1> DEFINE homes == Homes(k, pass[k].home, "id")
             Sent(r) == [r EXCEPT !.spec = IF "body" \in Catalog[k].sends THEN pass[k].spec ELSE @,
                                  !.link = IF "link" \in Catalog[k].sends THEN Link(k) ELSE @]
             Takes(q) == /\ q.kind = k /\ q.id = pass[k].id /\ q.home \in homes
                         /\ "link" \in Catalog[k].sends =>
                                RefResolves(k) /\ (q.link = Link(k) \/ Attaches(k, q.home, cloud))
  <1>1. Modified(k) = {Sent(r) : r \in {q \in cloud : Takes(q)}}
    BY DEF Modified
  <1>2. PICK q \in cloud : Takes(q)
    BY <1>1
  <1>3. ASSUME NEW s \in cloud, Takes(s)
        PROVE  s \in At(k, pass[k].home, pass[k].id, cloud)
    <2>0. pass[k].home \in Nat /\ k \in AllKinds /\ s.id # 0
      BY TypeFacts, MemberFacts DEF StackInv, TypeOK
    <2>1. CASE IsRoot(k)
      BY <1>3, <2>0, <2>1, HomesFacts, RunningFacts DEF At
    <2>2. CASE ~IsRoot(k) /\ Catalog[k].keeps
      <3>1. pass[k].home # 0
        BY <1>3, <2>0, <2>2, RunningFacts
      <3>2. QED
        BY <1>3, <2>0, <2>2, <3>1, HomesFacts DEF At
    <2>3. CASE Loose(k)
      <3>1. Uuid(k)
        BY <2>0, <2>3, KindFacts DEF Loose, IsRoot, Uuid
      <3>2. s.home = pass[k].home
        BY <1>3, <3>1 DEF StackInv, KindOK, PassOK, Housed
      <3>3. QED
        BY <1>3, <3>2 DEF At
    <2>4. QED
      BY <2>1, <2>2, <2>3 DEF Loose
  <1>4. At(k, pass[k].home, pass[k].id, cloud) = {q}
    BY <1>2, <1>3 DEF At, StackInv, Sound, Distinct
  <1>5. Modified(k) = {Sent(q)}
    <2>1. {s \in cloud : Takes(s)} = {q}
      BY <1>2, <1>3, <1>4
    <2> HIDE DEF Sent, Takes
    <2>2. QED
      BY <1>1, <2>1
  <1>6. Sent(q) \in Resource /\ Kin(Sent(q), q)
    <2>1. q \in Resource
      BY TypeFacts DEF StackInv, InRange
    <2>2. PICK spec \in {0} \cup Bodies :
              spec = IF "body" \in Catalog[k].sends THEN pass[k].spec ELSE q.spec
      <3>1. pass[k].spec \in Bodies
        BY TypeFacts DEF StackInv
      <3>2. q.spec \in {0} \cup Bodies
        BY <2>1 DEF Resource
      <3>3. QED
        BY <3>1, <3>2
    <2>3. PICK link \in Nat : link = IF "link" \in Catalog[k].sends THEN Link(k) ELSE q.link
      <3>1. q.link \in Nat
        BY <2>1 DEF Resource
      <3>2. QED
        BY <3>1, LinkFacts
    <2>4. Sent(q) = [q EXCEPT !.spec = spec, !.link = link]
      BY <2>2, <2>3
    <2>5. QED
      BY <2>1, <2>4, SentFacts
  <1>7. QED
    BY <1>4, <1>5, <1>6

\* A modify call leaves every resource what it is but for body and link.
LEMMA ModifyCloud ==
    ASSUME StackInv, NEW k \in Members, pass[k].step = "update", scene' = scene, made' = made,
           \/ cloud' = cloud
           \/ /\ Modified(k) # {}
              /\ cloud' = (cloud \ At(k, pass[k].home, pass[k].id, cloud)) \cup Modified(k)
    PROVE  CloudPart(k) /\ \A r \in cloud' : \E s \in cloud : Kin(r, s)
  <1>1. CASE cloud' = cloud
    BY <1>1, CloudSame, KinSame
  <1>2. CASE /\ Modified(k) # {}
             /\ cloud' = (cloud \ At(k, pass[k].home, pass[k].id, cloud)) \cup Modified(k)
    <2>1. PICK q \in cloud, n \in Resource :
                /\ At(k, pass[k].home, pass[k].id, cloud) = {q}
                /\ Modified(k) = {n}
                /\ Kin(n, q)
      BY <1>2, ModifyShape
    <2>2. cloud' = (cloud \ {q}) \cup {n}
      BY <1>2, <2>1
    <2>3. QED
      BY <2>1, <2>2, CloudSwap
  <1>3. QED
    BY <1>1, <1>2

\* Update by a modify call is a step about k.
LEMMA ModifyStep ==
    ASSUME StackInv, NEW k \in Members, Modify(k)
    PROVE  StepOf(k)
  <1>0. /\ pass \in [Members -> PassTypes] /\ pass[k].home \in Nat /\ pass[k].id \in Nat
        /\ pass[k].id <= made[k] /\ made[k] \in Nat
        /\ \A r \in cloud : r.id # 0
        /\ KindOK(k) /\ k \in AllKinds
    BY TypeFacts, MemberFacts DEF StackInv, TypeOK
  <1>1. /\ pass[k].step = "update" /\ Save(k, pass[k].home, pass[k].id, FALSE)
        /\ pass' = [pass EXCEPT ![k] = Idle] /\ scene' = scene /\ made' = made
    BY DEF Modify
  <1>2. CloudPart(k) /\ \A r \in cloud' : \E s \in cloud : Kin(r, s)
    BY <1>1, ModifyCloud DEF Modify
  <1>3. OnlyPass(k) /\ pass'[k].step = "idle" /\ pass'[k].id = 0
    BY <1>0, <1>1, IdleFacts
  <1>4. Budgeted
    BY BudgetKept DEF Modify
  <1>5. ASSUME NEW s \in cloud, s.kind = k
        PROVE  /\ s.owner # 0 /\ s.saved => s.id = pass[k].id /\ s.home = pass[k].home
               /\ Uuid(k) /\ s.id = pass[k].id => Housed(k, s, pass[k].home)
    <2>1. Uuid(k) /\ s.id = pass[k].id => Housed(k, s, pass[k].home)
      BY <1>0, <1>1, <1>5 DEF KindOK, PassOK
    <2>2. ASSUME s.owner # 0, s.saved
          PROVE  s.id = pass[k].id /\ s.home = pass[k].home
      <3>1. s.id = api[k].id /\ s.home = api[k].home /\ s.id # 0
        BY <1>0, <1>5, <2>2 DEF KindOK, Known
      <3>2. s.id = pass[k].id
        BY <1>1, <3>1, RunningFacts
      <3>3. CASE IsRoot(k)
        BY <1>1, <3>1, <3>2, <3>3, RunningFacts
      <3>4. CASE ~IsRoot(k) /\ Catalog[k].keeps
        BY <1>0, <1>1, <3>1, <3>2, <3>4 DEF KindOK, ObjectOK, PassOK
      <3>5. CASE Loose(k)
        <4>1. Uuid(k)
          BY <1>0, <3>5, KindFacts DEF Loose, IsRoot, Uuid
        <4>2. QED
          BY <2>1, <3>2, <4>1 DEF Housed
      <3>6. QED
        BY <3>3, <3>4, <3>5 DEF Loose
    <2>3. QED
      BY <2>1, <2>2
  <1>6. Agrees(k, pass[k].id, pass[k].home)
    <2> SUFFICES ASSUME NEW r \in cloud', r.kind = k
                 PROVE  /\ r.owner # 0 /\ r.saved => r.id = pass[k].id /\ r.home = pass[k].home
                        /\ Uuid(k) /\ r.id = pass[k].id => Housed(k, r, pass[k].home)
      BY DEF Agrees
    <2>1. PICK s \in cloud : Kin(r, s)
      BY <1>2
    <2>2. QED
      BY <1>5, <2>1 DEF Kin, Housed
  <1>7. pass[k].id = api[k].id \/ \A r \in cloud' : r.kind = k => r.id # api[k].id
    <2>1. CASE api[k].id # 0
      BY <1>1, <2>1, RunningFacts
    <2>2. CASE api[k].id = 0
      BY <1>0, <1>2, <2>2 DEF Kin
    <2>3. QED
      BY <2>1, <2>2
  <1>8. pass[k].id <= made'[k] /\ 0 <= made'[k]
    BY <1>0, <1>1
  <1>9. QED
    BY <1>0, <1>1, <1>2, <1>3, <1>4, <1>6, <1>7, <1>8, RunningFacts, SaveStep

-----------------------------------------------------------------------------
(* Lost passes, the account, and the invariant. *)

\* A pass that is lost after its calls is a step about k: what it made is
\* marked as not saved, and what it deleted is gone.
LEMMA CrashStep ==
    ASSUME StackInv, NEW k \in Members, Crash(k)
    PROVE  StepOf(k)
  <1>0. /\ pass \in [Members -> PassTypes] /\ api[k].id \in Nat /\ made[k] \in Nat
        /\ api[k].id <= made[k]
        /\ \A r \in cloud : r.id # 0
        /\ KindOK(k) /\ pass[k].home \in Nat
    BY TypeFacts DEF StackInv
  <1>1. /\ pass[k].step # "idle" /\ pass' = [pass EXCEPT ![k] = Idle]
        /\ scene' = scene /\ api' = api /\ Budgeted
        /\ pass[k].step \in {"create", "update"}
    BY BudgetKept, TypeFacts DEF Crash, StackInv
  <1>2. OnlyPass(k) /\ pass'[k].step = "idle" /\ pass'[k].id = 0
    BY <1>0, <1>1, IdleFacts
  <1>3. PICK no \in BOOLEAN : no = FALSE
    OBVIOUS
  <1>4. PICK c : c = IF pass[k].step = "update" /\ Catalog[k].replaces
                     THEN cloud \ At(k, pass[k].home, pass[k].id, cloud)
                     ELSE cloud
    OBVIOUS
  <1>5. ASSUME CloudPart(k), Clear(k, cloud')
        PROVE  StepOf(k)
    <2>1. Agrees(k, api[k].id, api[k].home)
      BY <1>5 DEF Agrees, Clear
    <2>2. 0 <= made'[k]
      BY <1>5, <1>0 DEF CloudPart
    <2>3. QED
      BY <1>1, <1>2, <1>5, <2>1, <2>2, QuitStep
  <1>6. ASSUME pass[k].step = "create" \/ Catalog[k].replaces
        PROVE  Clear(k, c) /\ Sound(c) /\ c \subseteq cloud
    <2>1. CASE pass[k].step = "create"
      BY <1>4, <2>1, CreateClear
    <2>2. CASE pass[k].step # "create"
      BY <1>1, <1>4, <1>6, <2>2, ReplaceClear
    <2>3. QED
      BY <2>1, <2>2
  <1>7. ASSUME pass[k].step = "create" \/ Catalog[k].replaces,
               NEW h \in CreateHomes(k), Creatable(k, h, c),
               cloud' = c \cup {Created(k, h, c, no)},
               made' = [made EXCEPT ![k] = NewId(k)]
        PROVE  StepOf(k)
    <2>1. CloudPart(k)
      BY <1>1, <1>6, <1>7, CreateGrows
    <2>2. h \in Nat
      BY <1>0, HomesFacts DEF CreateHomes
    <2>3. PICK n : n = Created(k, h, c, no) /\ n.id = NewId(k) /\ n.saved = no
      BY <2>2, CreatedFacts
    <2>4. Uuid(k) => NewId(k) # api[k].id
      BY <1>0, NewIdFacts
    <2>5. Clear(k, cloud')
      BY <1>3, <1>6, <1>7, <2>3, <2>4 DEF Clear
    <2>6. QED
      BY <1>5, <2>1, <2>5
  <1>8. CASE pass[k].step = "update" /\ Catalog[k].replaces /\ cloud' = c /\ made' = made
    <2>1. Clear(k, c) /\ Sound(c) /\ c \subseteq cloud
      BY <1>6, <1>8
    <2>2. CloudPart(k)
      BY <1>1, <1>8, <2>1, CloudFewer
    <2>3. QED
      BY <1>5, <1>8, <2>1, <2>2
  <1>9. CASE /\ ~(pass[k].step = "create" \/ Catalog[k].replaces)
             /\ cloud' = (cloud \ At(k, pass[k].home, pass[k].id, cloud))
                               \cup (IF Modified(k) = {}
                                     THEN At(k, pass[k].home, pass[k].id, cloud)
                                     ELSE Modified(k))
             /\ made' = made
    <2>1. pass[k].step = "update"
      BY <1>1, <1>9
    <2>2. \/ cloud' = cloud
          \/ /\ Modified(k) # {}
             /\ cloud' = (cloud \ At(k, pass[k].home, pass[k].id, cloud)) \cup Modified(k)
      <3>1. At(k, pass[k].home, pass[k].id, cloud) \subseteq cloud
        BY DEF At
      <3>2. CASE Modified(k) = {}
        BY <1>9, <3>1, <3>2
      <3>3. CASE Modified(k) # {}
        BY <1>9, <3>3
      <3>4. QED
        BY <3>2, <3>3
    <2>3. CloudPart(k) /\ \A r \in cloud' : \E s \in cloud : Kin(r, s)
      BY <1>1, <1>9, <2>1, <2>2, ModifyCloud
    <2>4. QED
      BY <1>0, <1>1, <1>2, <2>3, ObjectSame, SameIdentity DEF KindOK, ObjectOK
  <1>10. QED
    <2>1. \/ /\ pass[k].step = "create" \/ Catalog[k].replaces
             /\ \E h \in CreateHomes(k) :
                     /\ Creatable(k, h, c)
                     /\ cloud' = c \cup {Created(k, h, c, no)}
                     /\ made'  = [made EXCEPT ![k] = NewId(k)]
          \/ pass[k].step = "update" /\ Catalog[k].replaces /\ cloud' = c /\ made' = made
          \/ /\ ~(pass[k].step = "create" \/ Catalog[k].replaces)
             /\ cloud' = (cloud \ At(k, pass[k].home, pass[k].id, cloud))
                               \cup (IF Modified(k) = {}
                                     THEN At(k, pass[k].home, pass[k].id, cloud)
                                     ELSE Modified(k))
             /\ made' = made
      BY <1>3, <1>4 DEF Crash
    <2>2. QED
      BY <1>7, <1>8, <1>9, <2>1

\* A resource that others make under the name is a step about k.
LEMMA SeedStep ==
    ASSUME StackInv, NEW k \in Members, Seed(k)
    PROVE  StepOf(k)
  <1>0. /\ api[k].id = 0 /\ made' = [made EXCEPT ![k] = NewId(k)]
        /\ scene' = scene /\ api' = api /\ pass' = pass
        /\ KindOK(k) /\ OnlyObject(k) /\ OnlyPass(k) /\ Budgeted
    BY ObjectSame, PassSame, BudgetKept DEF Seed, StackInv
  <1>1. PICK yes \in BOOLEAN, no \in BOOLEAN : yes = TRUE /\ no = FALSE
    OBVIOUS
  <1>2. PICK h \in {0} \cup {Key(r) : r \in cloud} :
            /\ IsRoot(k) <=> h = 0
            /\ Container(k, h, cloud)
            /\ ~\E r \in cloud : r.kind = k /\ r.home = h
            /\ cloud' = cloud \cup
                  {[kind |-> k, id |-> NewId(k), home |-> h, owner |-> 0, link |-> 0,
                    spec |-> 0, up |-> yes, going |-> no, saved |-> yes]}
    BY <1>1 DEF Seed
  <1>3. h \in Nat
    <2>1. ASSUME NEW r \in cloud
          PROVE  Key(r) \in Nat
      BY TypeFacts DEF StackInv, Key
    <2>2. QED
      BY <2>1
  <1>4. PICK n \in Resource :
            /\ n = [kind |-> k, id |-> NewId(k), home |-> h, owner |-> 0, link |-> 0,
                    spec |-> 0, up |-> yes, going |-> no, saved |-> yes]
            /\ n.kind = k /\ n.id = NewId(k) /\ n.home = h /\ n.owner = 0
    <2>1. NewId(k) \in Nat
      BY NewIdFacts
    <2>2. PICK n : n = [kind |-> k, id |-> NewId(k), home |-> h, owner |-> 0, link |-> 0,
                        spec |-> 0, up |-> yes, going |-> no, saved |-> yes]
      OBVIOUS
    <2>3. n \in Resource /\ n.kind = k /\ n.id = NewId(k) /\ n.home = h /\ n.owner = 0
      BY <1>3, <2>1, <2>2 DEF Resource
    <2>4. QED
      BY <2>2, <2>3
  <1>5. cloud' = cloud \cup {n}
    BY <1>2, <1>4
  <1>6. CloudPart(k) /\ made'[k] = NewId(k)
    <2>1. /\ IsRoot(k) => n.home = 0
          /\ Container(k, n.home, cloud)
          /\ \A r \in cloud : r.kind = k => r.home # n.home
      BY <1>2, <1>4
    <2>2. Sound(cloud)
      BY DEF StackInv
    <2>3. QED
      BY <1>0, <1>4, <1>5, <2>1, <2>2, CloudGrow
  <1>7. /\ api[k].id <= made'[k] /\ pass[k].id <= made'[k] /\ NewId(k) # 0
        /\ Uuid(k) => pass[k].id # NewId(k)
    <2>1. /\ pass[k].id \in Nat /\ made[k] \in Nat /\ pass[k].id <= made[k]
          /\ NewId(k) \in Nat /\ made[k] <= NewId(k)
          /\ NewId(k) # 0 /\ (Uuid(k) => NewId(k) = made[k] + 1)
      BY TypeFacts, NewIdFacts DEF StackInv
    <2>2. QED
      BY <1>0, <1>6, <2>1
  <1>8. ObjectOK(k)'
    BY <1>0, <1>6 DEF KindOK, ObjectOK, CloudPart
  <1>9. Known(k)'
    BY <1>0, <1>4, <1>5, <1>7 DEF KindOK, Known, Housed
  <1>10. PassOK(k)'
    <2> SUFFICES ASSUME pass[k].step # "idle"
                 PROVE  PassOK(k)'
      BY <1>0 DEF PassOK
    <2>1. PassOK(k)
      BY <1>0 DEF KindOK
    <2>2. ASSUME NEW r \in cloud', r.kind = k
          PROVE  /\ pass[k].step = "create" =>
                       ~(r.owner # 0 /\ r.saved) /\ (Uuid(k) => r.id # api[k].id)
                 /\ pass[k].step = "update" /\ Uuid(k) /\ r.id = pass[k].id =>
                       Housed(k, r, pass[k].home)
      <3>1. CASE r = n
        BY <1>0, <1>4, <1>7, <3>1
      <3>2. CASE r \in cloud
        BY <2>1, <2>2, <3>2 DEF PassOK
      <3>3. QED
        BY <1>5, <3>1, <3>2
    <2>3. QED
      BY <1>0, <2>1, <2>2 DEF PassOK, Housed
  <1>11. QED
    BY <1>0, <1>6, <1>7, <1>8, <1>9, <1>10 DEF StepOf, CloudPart, Budgeted

  -----------------------------------------------------------------------------

\* Every step is about one of the moving objects.
LEMMA StepTaken ==
    ASSUME StackInv, Next
    PROVE  \E k \in Moving : StepOf(k)
  BY MovingFacts, AddFinalizerStep, ObserveStep, CreateStep, ModifyStep, ReplaceStep,
     FinalizeStep, ComeUpStep, CrashStep, SubmitStep, DeleteStep, EditStep, SeedStep,
     VanishStep DEF Next

\* The invariant is about the variables of the module.
LEMMA Stutters ==
    ASSUME StackInv, UNCHANGED vars
    PROVE  StackInv'
  BY DEF vars, StackInv, TypeOK, Members, Resource, Sound, Rooted, Distinct, Contained,
         KindOK, ObjectOK, Known, PassOK, Housed

\* A given object is Ready, with identifier 1.
LEMMA GivenFacts ==
    ASSUME NEW k
    PROVE  /\ Given(k) \in ObjectTypes
           /\ Given(k).phase = "live" /\ Given(k).uid = 1 /\ Given(k).id = 1
           /\ Given(k).home = IF IsRoot(k) THEN 0 ELSE 1
  <1>1. PICK h \in Nat : h = IF IsRoot(k) THEN 0 ELSE 1
    OBVIOUS
  <1>2. PICK yes \in BOOLEAN : yes = TRUE
    OBVIOUS
  <1>3. PICK o : o = [NoObject EXCEPT !.phase = "live", !.uid = 1, !.id = 1, !.ready = yes,
                                      !.home = h]
    OBVIOUS
  <1>4. /\ o \in ObjectTypes
        /\ o.phase = "live" /\ o.uid = 1 /\ o.id = 1 /\ o.home = h
    BY <1>3 DEF NoObject, ObjectTypes, Phases, Bodies
  <1>5. o = Given(k)
    BY <1>1, <1>2, <1>3 DEF Given
  <1>6. QED
    BY <1>1, <1>4, <1>5

\* A new object has an empty status.
LEMMA ObjectFacts ==
    /\ Object(1) \in ObjectTypes
    /\ Object(1).phase = "new" /\ Object(1).uid = 1 /\ Object(1).id = 0
    /\ Object(1).home = 0 /\ ~Object(1).ready
  BY BlankFacts DEF Object, Phases

\* The invariant holds with the given objects Ready and the others new.
LEMMA InitOK ==
    ASSUME Init
    PROVE  StackInv
  <1>1. scene \in Scenes /\ scene.given \subseteq Members
    BY DEF Init, Members, MembersOf
  <1>2. ASSUME NEW k \in Members
        PROVE  k \in AllKinds
    BY <1>1, <1>2, MemberFacts
  <1>3. ASSUME NEW k \in Members
        PROVE  /\ api[k] \in ObjectTypes /\ api[k].uid = 1
               /\ k \in scene.given =>
                     /\ api[k].id = 1 /\ api[k].phase = "live" /\ made[k] = 1
                     /\ api[k].home = Given(k).home
               /\ k \notin scene.given =>
                     /\ api[k].id = 0 /\ api[k].phase = "new" /\ ~api[k].ready
                     /\ made[k] = 0 /\ api[k].home = 0
               /\ pass[k] = Idle
    BY <1>3, GivenFacts, ObjectFacts DEF Init
  <1>4. Idle \in PassTypes /\ Idle.id = 0 /\ Idle.step = "idle"
    BY DEF Idle, PassTypes, Bodies
  <1>5. ASSUME NEW k \in scene.given
        PROVE  LET r == [kind |-> k, id |-> 1, home |-> Given(k).home, owner |-> 1,
                         link |-> GivenLink(k, scene), spec |-> 1, up |-> TRUE,
                         going |-> FALSE, saved |-> TRUE]
               IN r \in Resource /\ r.kind = k /\ r.id = 1 /\ r.home = Given(k).home
    <2>1. Given(k).home \in Nat
      BY GivenFacts
    <2>2. PICK h \in Nat : h = Given(k).home
      BY <2>1
    <2>3. PICK l \in Nat : l = GivenLink(k, scene)
      BY DEF GivenLink
    <2>4. PICK yes \in BOOLEAN, no \in BOOLEAN : yes = TRUE /\ no = FALSE
      OBVIOUS
    <2>5. PICK r : r = [kind |-> k, id |-> 1, home |-> h, owner |-> 1, link |-> l, spec |-> 1,
                        up |-> yes, going |-> no, saved |-> yes]
      OBVIOUS
    <2>6. r \in Resource /\ r.kind = k /\ r.id = 1 /\ r.home = h
      BY <1>1, <2>5 DEF Resource, Bodies
    <2>7. QED
      BY <2>2, <2>3, <2>4, <2>5, <2>6
  <1>6. ASSUME NEW r \in cloud
        PROVE  /\ r \in Resource /\ r.kind \in scene.given /\ r.id = 1
               /\ r.home = Given(r.kind).home
    <2>1. PICK k \in scene.given :
              r = [kind |-> k, id |-> 1, home |-> Given(k).home, owner |-> 1,
                   link |-> GivenLink(k, scene), spec |-> 1, up |-> TRUE,
                   going |-> FALSE, saved |-> TRUE]
      BY <1>6 DEF Init
    <2>2. QED
      BY <1>5, <2>1
  <1>7. ASSUME NEW k \in scene.given
        PROVE  \E r \in cloud : r.kind = k /\ r.id = 1
    BY <1>5 DEF Init
  <1>8. ASSUME NEW r \in cloud, NEW s \in cloud, r.kind = s.kind
        PROVE  r = s
    <2>1. PICK k \in scene.given :
              r = [kind |-> k, id |-> 1, home |-> Given(k).home, owner |-> 1,
                   link |-> GivenLink(k, scene), spec |-> 1, up |-> TRUE,
                   going |-> FALSE, saved |-> TRUE]
      BY DEF Init
    <2>2. PICK j \in scene.given :
              s = [kind |-> j, id |-> 1, home |-> Given(j).home, owner |-> 1,
                   link |-> GivenLink(j, scene), spec |-> 1, up |-> TRUE,
                   going |-> FALSE, saved |-> TRUE]
      BY DEF Init
    <2>3. r.kind = k /\ s.kind = j
      BY <2>1, <2>2
    <2>4. QED
      BY <1>8, <2>1, <2>2, <2>3
  <1>9. TypeOK
    <2>1. api \in [Members -> ObjectTypes] /\ pass \in [Members -> PassTypes]
          /\ made \in [Members -> Nat]
      BY <1>3, <1>4 DEF Init
    <2>2. ASSUME NEW k \in Members
          PROVE  {api[k].id, pass[k].id} \subseteq 0..made[k]
      BY <1>3, <1>4
    <2>3. ASSUME NEW r \in cloud
          PROVE  r \in Resource /\ r.id \in 1..made[r.kind]
      BY <1>1, <1>3, <1>6
    <2>4. moves \in 0..MaxMoves /\ faults \in 0..MaxFaults
      BY MovesAssumption DEF Init
    <2>5. QED
      BY <1>1, <2>1, <2>2, <2>3, <2>4 DEF TypeOK, ObjectTypes, PassTypes, Phases
  <1>10. Sound(cloud)
    <2>1. Rooted(cloud)
      BY <1>6, GivenFacts DEF Rooted
    <2>2. Distinct(cloud)
      BY <1>8 DEF Distinct
    <2>3. ASSUME NEW r \in cloud, Loose(r.kind)
          PROVE  \E g \in cloud : g.kind = Schema[r.kind].parent /\ g.id = r.home
      <3>1. Schema[r.kind].parent \in scene.given
        BY <1>1, <1>6, <2>3, ScenesAssumption DEF Loose, IsRoot
      <3>2. r.home = 1
        BY <1>6, <2>3, GivenFacts DEF Loose
      <3>3. QED
        BY <1>7, <3>1, <3>2
    <2>4. QED
      BY <2>1, <2>2, <2>3 DEF Sound, Contained
  <1>11. ASSUME NEW k \in Members
         PROVE  KindOK(k)
    <2>1. ObjectOK(k)
      BY <1>3, <1>4, GivenFacts DEF ObjectOK
    <2>2. Known(k)
      <3> SUFFICES ASSUME NEW r \in cloud, r.kind = k
                   PROVE  /\ r.id = api[k].id /\ r.home = api[k].home
                          /\ Loose(k) => r.home = api[Schema[k].parent].id
        BY DEF Known, Housed
      <3>1. k \in scene.given /\ r.id = api[k].id /\ r.home = api[k].home
        BY <1>3, <1>6
      <3>2. ASSUME Loose(k)
            PROVE  r.home = api[Schema[k].parent].id
        <4>1. Schema[k].parent \in scene.given
          BY <1>1, <3>1, <3>2, ScenesAssumption DEF Loose, IsRoot
        <4>2. r.home = 1
          BY <1>6, <3>2, GivenFacts DEF Loose
        <4>3. QED
          BY <1>1, <1>3, <4>1, <4>2
      <3>3. QED
        BY <3>1, <3>2
    <2>3. PassOK(k)
      BY <1>3, <1>4 DEF PassOK
    <2>4. QED
      BY <2>1, <2>2, <2>3 DEF KindOK
  <1>12. QED
    BY <1>9, <1>10, <1>11 DEF StackInv

\* Whatever users, workers, failures and the account do, in every scene: the
\* identifiers, containers and running passes of all objects stay consistent
\* with each other and with the resources.
THEOREM StackInvariant == Spec => []StackInv
  <1>1. Init => StackInv
    BY InitOK
  <1>2. StackInv /\ [Next]_vars => StackInv'
    <2> SUFFICES ASSUME StackInv, [Next]_vars
                 PROVE  StackInv'
      OBVIOUS
    <2>1. CASE Next
      BY <2>1, StepTaken, StepKeeps, MovingFacts
    <2>2. CASE UNCHANGED vars
      BY <2>2, Stutters
    <2>3. QED
      BY <2>1, <2>2
  <1>3. QED
    BY <1>1, <1>2, PTL DEF Spec

\* Objects, resources and passes keep their types, and no identifier is in
\* use that was not handed out.
THEOREM StackTypes == Spec => []TypeOK
  <1>1. StackInv => TypeOK
    BY DEF StackInv
  <1>2. QED
    BY <1>1, StackInvariant, PTL

\* No pass forgets a resource it has saved: it stays recorded in the status
\* of its object until it is deleted, however parents and references change.
THEOREM NoStray == Spec => []NothingStray
  <1>1. StackInv => NothingStray
    <2> SUFFICES ASSUME StackInv, NEW r \in cloud, r.owner # 0, r.saved
                 PROVE  r \in Recorded(r.kind)
      BY DEF NothingStray
    <2>1. r.kind \in Members /\ r.id # 0
      BY TypeFacts DEF StackInv
    <2>2. r.id = api[r.kind].id /\ r.home = api[r.kind].home
      BY <2>1 DEF StackInv, KindOK, Known
    <2>3. QED
      BY <2>1, <2>2 DEF Recorded, At
  <1>2. QED
    BY <1>1, StackInvariant, PTL

-----------------------------------------------------------------------------
(* The refinement: what one step does to one object. *)

\* The object has a resource exactly when its status names one that exists.
LEMMA HasFacts ==
    ASSUME StackInv, NEW k \in Members
    PROVE  /\ HasResource(k) <=> Recorded(k) # {}
           /\ HasResource(k) \in BOOLEAN
           /\ api[k].id = 0 => ~HasResource(k)
  <1>1. ASSUME NEW r \in Recorded(k)
        PROVE  r \in cloud /\ r.kind = k
    BY <1>1 DEF Recorded, At
  <1>2. ASSUME NEW r \in cloud, r.kind = k, r.owner = api[k].uid, r.saved
        PROVE  r \in Recorded(k)
    <2>1. r.owner # 0 /\ r.id # 0
      BY <1>2, TypeFacts DEF StackInv, KindOK, ObjectOK
    <2>2. r.id = api[k].id /\ r.home = api[k].home
      BY <1>2, <2>1 DEF StackInv, KindOK, Known
    <2>3. QED
      BY <1>2, <2>1, <2>2 DEF Recorded, At
  <1>3. HasResource(k) <=> Recorded(k) # {}
    BY <1>1, <1>2 DEF HasResource
  <1>4. api[k].id = 0 => Recorded(k) = {}
    BY DEF Recorded
  <1>5. HasResource(k) \in BOOLEAN
    BY DEF HasResource
  <1>6. QED
    BY <1>3, <1>4, <1>5

\* What a step does to the object of kind k, of all that Lifecycle shows.
Turn(k) ==
    \/ /\ api'[k].phase = api[k].phase
       /\ api'[k].ready => api[k].ready \/ Recorded(k)' # {}
    \/ api[k].phase = "new" /\ api'[k].phase = "live" /\ api'[k].id = 0 /\ ~api'[k].ready
    \/ api[k].phase = "absent" /\ api'[k].phase = "new"
    \/ api[k].phase = "new" /\ api'[k].phase = "absent"
    \/ api[k].phase = "deleting" /\ api'[k].phase = "absent"
    \/ /\ api[k].phase = "live" /\ api'[k].phase = "deleting"
       /\ Recorded(k)' = Recorded(k)

\* A step of Lifecycle over the object of kind k, or none.
LifeStep(s, h, t, g) ==
    \/ s = t /\ g = h
    \/ s = "absent" /\ ~h /\ t = "new" /\ g = h
    \/ s = "new" /\ t = "waiting" /\ g = h
    \/ s = "new" /\ t = "absent" /\ g = h
    \/ /\ s \in {"waiting", "ready", "deleting"} /\ g
       /\ t = IF s = "deleting" THEN "deleting" ELSE "waiting"
    \/ s \in {"waiting", "ready"} /\ g /\ t = "ready"
    \/ s \in {"waiting", "ready"} /\ t = "waiting" /\ (g = h \/ ~g)
    \/ h /\ ~g /\ t = s
    \/ s \in {"waiting", "ready"} /\ t = "deleting" /\ g = h
    \/ s = "deleting" /\ t = "absent" /\ ~g

\* ... as the step takes the object of kind k from one to the other.
Evolves(k) == LifeStep(StageOf(k), HasResource(k), StageOf(k)', HasResource(k)')

\* What the invariant says of the two things Lifecycle shows of an object.
Shown ==
    \A k \in Members :
        /\ HasResource(k) \in BOOLEAN
        /\ HasResource(k) <=> Recorded(k) # {}
        /\ api[k].id = 0 => ~HasResource(k)
        /\ api[k].phase \in Phases /\ api[k].ready \in BOOLEAN
        /\ api[k].phase \in {"absent", "new"} => api[k].id = 0 /\ ~api[k].ready

\* The invariant says what Lifecycle shows of an object ...
LEMMA ShownNow == StackInv => Shown
  <1> SUFFICES ASSUME StackInv, NEW k \in Members
               PROVE  /\ HasResource(k) \in BOOLEAN
                      /\ HasResource(k) <=> Recorded(k) # {}
                      /\ api[k].id = 0 => ~HasResource(k)
                      /\ api[k].phase \in Phases /\ api[k].ready \in BOOLEAN
                      /\ api[k].phase \in {"absent", "new"} => api[k].id = 0 /\ ~api[k].ready
    BY DEF Shown
  <1>1. /\ api[k].phase \in Phases /\ api[k].ready \in BOOLEAN
        /\ api[k].phase \in {"absent", "new"} => api[k].id = 0 /\ ~api[k].ready
    BY TypeFacts DEF StackInv, KindOK, ObjectOK
  <1>2. QED
    BY <1>1, HasFacts

\* ... and says it after the step, too.
LEMMA ShownNext == StackInv' => Shown'
  BY ShownNow, PTL

\* What a step does to one object is a step of Lifecycle or none.
LEMMA TurnEvolves ==
    ASSUME StackInv, StackInv', scene' = scene, NEW k \in Members, Turn(k)
    PROVE  Evolves(k)
  <1>0. Members' = Members
    BY DEF Members
  <1>1. PICK h \in BOOLEAN, g \in BOOLEAN : h = HasResource(k) /\ g = HasResource(k)'
    BY <1>0, ShownNow, ShownNext DEF Shown
  <1>2. PICK b \in BOOLEAN, c \in BOOLEAN : b = api[k].ready /\ c = api'[k].ready
    BY <1>0, ShownNow, ShownNext DEF Shown
  <1>3. PICK p \in Phases, q \in Phases : p = api[k].phase /\ q = api'[k].phase
    BY <1>0, ShownNow, ShownNext DEF Shown
  <1>4. /\ p \in {"absent", "new"} => ~h /\ ~b
        /\ q \in {"absent", "new"} => ~g /\ ~c
    BY <1>0, <1>1, <1>2, <1>3, ShownNow, ShownNext DEF Shown
  <1>5. \/ q = p /\ (c => b \/ g)
        \/ p = "new" /\ q = "live" /\ ~g /\ ~c
        \/ p = "absent" /\ q = "new"
        \/ p = "new" /\ q = "absent"
        \/ p = "deleting" /\ q = "absent"
        \/ p = "live" /\ q = "deleting" /\ g = h
    BY <1>0, <1>1, <1>2, <1>3, ShownNow, ShownNext DEF Shown, Turn
  <1> DEFINE s == IF p = "live" THEN IF b THEN "ready" ELSE "waiting" ELSE p
             t == IF q = "live" THEN IF c THEN "ready" ELSE "waiting" ELSE q
  <1>6. LifeStep(s, h, t, g)
    BY <1>4, <1>5 DEF LifeStep, Phases
  <1>7. StageOf(k) = s /\ StageOf(k)' = t
    BY <1>2, <1>3 DEF StageOf
  <1>8. QED
    BY <1>1, <1>6, <1>7 DEF Evolves

-----------------------------------------------------------------------------
(* The refinement: every step, every object. *)

\* Finalizer, Create, Update and a lost pass: none of them reports Ready.
LEMMA ReconcileTurns ==
    ASSUME StackInv, NEW k \in Members,
           AddFinalizer(k) \/ Create(k) \/ Modify(k) \/ Replace(k) \/ Crash(k)
    PROVE  Turn(k)
  <1>0. api \in [Members -> ObjectTypes] /\ KindOK(k) /\ pass[k].home \in Nat /\ pass[k].id \in Nat
    BY TypeFacts DEF StackInv
  <1>1. PICK no \in BOOLEAN : no = FALSE
    OBVIOUS
  <1>2. ASSUME NEW home \in Nat, NEW id \in Nat, Save(k, home, id, no)
        PROVE  Turn(k)
    <2>1. api'[k].phase = api[k].phase /\ api'[k].ready = no
      BY <1>0, <1>2, SaveFacts
    <2>2. QED
      BY <1>1, <2>1 DEF Turn
  <1>3. CASE AddFinalizer(k)
    <2>1. api' = [api EXCEPT ![k].phase = "live"] /\ "live" \in Phases /\ api[k].phase = "new"
      BY <1>3 DEF AddFinalizer, Phases
    <2>2. /\ api'[k].phase = "live" /\ api'[k].id = api[k].id /\ api'[k].ready = api[k].ready
      BY <1>0, <2>1, PhaseFacts
    <2>3. QED
      BY <1>0, <2>1, <2>2 DEF Turn, KindOK, ObjectOK
  <1>4. ASSUME NEW c, NEW id \in Nat, CreateOn(k, c, id)
        PROVE  Turn(k)
    <2>1. ASSUME NEW h \in CreateHomes(k)
          PROVE  h \in Nat
      BY <1>0, HomesFacts DEF CreateHomes
    <2>2. NewId(k) \in Nat
      BY NewIdFacts
    <2>3. KeptHome(k) \in Nat
      BY <1>0, <2>1 DEF KeptHome
    <2>4. \/ \E h \in CreateHomes(k) : Save(k, h, NewId(k), no)
          \/ Save(k, KeptHome(k), id, no)
      BY <1>1, <1>4 DEF CreateOn
    <2>5. QED
      BY <1>2, <1>4, <2>1, <2>2, <2>3, <2>4
  <1>5. CASE Create(k)
    BY <1>0, <1>4, <1>5 DEF Create
  <1>6. CASE Replace(k)
    BY <1>4, <1>6 DEF Replace
  <1>7. CASE Modify(k)
    BY <1>0, <1>1, <1>2, <1>7 DEF Modify
  <1>8. CASE Crash(k)
    BY <1>8 DEF Crash, Turn
  <1>9. QED
    BY <1>3, <1>5, <1>6, <1>7, <1>8

\* Observe reports Ready only of a resource it found, and recorded.
LEMMA ObserveTurns ==
    ASSUME StackInv, NEW k \in Members, Observe(k)
    PROVE  Turn(k)
  <1>0. /\ api \in [Members -> ObjectTypes] /\ KindOK(k) /\ cloud' = cloud
        /\ api[k].home \in Nat /\ api[k].id \in Nat
        /\ \A r \in cloud : r.id # 0 /\ r.id \in Nat
        /\ InRange
    BY TypeFacts DEF StackInv, Observe, Observing
  <1>1. PICK no \in BOOLEAN : no = FALSE
    OBVIOUS
  <1>2. ASSUME UNCHANGED api
        PROVE  Turn(k)
    BY <1>2 DEF Turn
  <1>3. ASSUME NEW home \in Nat, NEW id \in Nat, NEW b \in BOOLEAN, Report(k, home, id, b),
               b => \E r \in cloud : r.kind = k /\ r.home = home /\ r.id = id
        PROVE  Turn(k)
    <2>1. /\ api'[k].phase = api[k].phase /\ api'[k].ready = b
          /\ api'[k].home = home /\ api'[k].id = id
      BY <1>0, <1>3, SaveFacts DEF Report
    <2>2. b => Recorded(k)' # {}
      BY <1>0, <1>3, <2>1 DEF Recorded, At
    <2>3. QED
      BY <2>1, <2>2 DEF Turn
  <1>4. CASE Catalog[k].asks = "later" /\ api[k].id = 0
    BY <1>2, <1>4 DEF Observe, Observing, Begin
  <1>5. CASE ~(Catalog[k].asks = "later" /\ api[k].id = 0)
    <2> DEFINE homes == Homes(k, api[k].home, Catalog[k].asks)
    <2>1. CASE homes = {}
      <3>1. Report(k, api[k].home, api[k].id, no)
        BY <1>1, <1>5, <2>1 DEF Observe, Observing
      <3>2. QED
        BY <1>0, <1>1, <1>3, <3>1
    <2>2. CASE homes # {}
      <3>1. PICK h \in homes : ObserveIn(k, h)
        BY <1>5, <2>2 DEF Observe, Observing
      <3>2. h \in Nat /\ (IsRoot(k) => h = 0)
        BY <1>0, HomesFacts
      <3>3. \/ Report(k, h, api[k].id, no)
            \/ Begin(k, "create", h, api[k].id)
            \/ \E r \in Found(k, h) : ObserveFound(k, h, r)
        BY <1>1, <3>1 DEF ObserveIn
      <3>4. CASE Report(k, h, api[k].id, no)
        BY <1>0, <1>1, <1>3, <3>2, <3>4
      <3>5. CASE Begin(k, "create", h, api[k].id)
        BY <1>2, <3>5 DEF Begin
      <3>6. ASSUME NEW r \in Found(k, h), ObserveFound(k, h, r)
            PROVE  Turn(k)
        <4>1. r \in cloud /\ r.kind = k /\ r.home = h
          BY <3>2, <3>6, FoundFacts
        <4>2. r.id \in Nat
          BY <1>0, <4>1
        <4>3. r.up \in BOOLEAN
          <5>1. r \in Resource
            BY <1>0, <4>1 DEF InRange
          <5>2. QED
            BY <5>1 DEF Resource
        <4>4. \/ Report(k, h, r.id, no) \/ Report(k, h, r.id, r.up) \/ UNCHANGED api
          BY <1>1, <3>6 DEF ObserveFound, Begin
        <4>5. ASSUME NEW b \in BOOLEAN, Report(k, h, r.id, b)
              PROVE  Turn(k)
          BY <1>3, <3>2, <4>1, <4>2, <4>5
        <4>6. QED
          BY <1>2, <4>3, <4>4, <4>5
      <3>7. QED
        BY <3>3, <3>4, <3>5, <3>6
    <2>3. QED
      BY <2>1, <2>2
  <1>6. QED
    BY <1>4, <1>5

\* The other steps of an object: a deletion ends when no resource is left,
\* and what users and the account do reports nothing.
LEMMA OtherTurns ==
    ASSUME StackInv, NEW k \in Members,
           Finalize(k) \/ ComeUp(k) \/ Submit(k) \/ Delete(k) \/ Edit(k) \/ Seed(k) \/ Vanish(k)
    PROVE  Turn(k)
  <1>0. api \in [Members -> ObjectTypes]
    BY TypeFacts DEF StackInv
  <1>1. CASE Finalize(k)
    <2>1. api[k].phase = "deleting" /\ (Pending(k) \/ Release(k))
      BY <1>1 DEF Finalize, DeleteResource
    <2>2. CASE Pending(k)
      BY <1>0, <2>2, PendingFacts DEF Turn
    <2>3. CASE Release(k)
      BY <1>0, <2>1, <2>3, ReleaseFacts DEF Turn
    <2>4. QED
      BY <2>1, <2>2, <2>3
  <1>2. CASE ComeUp(k) \/ Seed(k) \/ Vanish(k)
    BY <1>2 DEF ComeUp, Seed, Vanish, Turn
  <1>3. CASE Submit(k)
    BY <1>0, <1>3, SubmitFacts DEF Submit, Turn
  <1>4. CASE Delete(k)
    <2>1. CASE api[k].phase = "new" /\ Release(k)
      BY <1>0, <2>1, ReleaseFacts DEF Turn
    <2>2. CASE api[k].phase = "live" /\ api' = [api EXCEPT ![k].phase = "deleting"]
      <3>1. "deleting" \in Phases
        BY DEF Phases
      <3>2. /\ api'[k].home = api[k].home /\ api'[k].id = api[k].id
            /\ api'[k].phase = "deleting"
        BY <1>0, <2>2, <3>1, PhaseFacts
      <3>3. cloud' = cloud
        BY <1>4 DEF Delete
      <3>4. QED
        BY <2>2, <3>2, <3>3 DEF Turn, Recorded, At
    <2>3. QED
      BY <1>4, <2>1, <2>2 DEF Delete
  <1>5. CASE Edit(k)
    <2>1. PICK b \in Bodies : api' = [api EXCEPT ![k].spec = b]
      BY <1>5 DEF Edit
    <2>2. api'[k].phase = api[k].phase /\ api'[k].ready = api[k].ready
      BY <1>0, <2>1, EditFacts
    <2>3. QED
      BY <2>2 DEF Turn
  <1>6. QED
    BY <1>1, <1>2, <1>3, <1>4, <1>5

\* The step of one object leaves what Lifecycle shows of another one, except
\* that it may take its resource away with a container.
LEMMA BystanderTurns ==
    ASSUME StackInv, NEW k \in Members, StepOf(k), NEW j \in Members, j # k
    PROVE  Turn(j)
  <1>1. api'[j] = api[j]
    BY DEF StepOf, OnlyObject
  <1>2. QED
    BY <1>1 DEF Turn

\* Every step is, for every object, a step of Lifecycle or none.
LEMMA Evolution ==
    ASSUME StackInv, [Next]_vars, NEW k \in Members
    PROVE  scene' = scene /\ Evolves(k)
  <1>1. CASE Next
    <2>1. PICK j \in Members : StepOf(j) /\ Turn(j)
      BY <1>1, MovingFacts, AddFinalizerStep, ObserveStep, CreateStep, ModifyStep, ReplaceStep,
         FinalizeStep, ComeUpStep, CrashStep, SubmitStep, DeleteStep, EditStep, SeedStep,
         VanishStep, ReconcileTurns, ObserveTurns, OtherTurns DEF Next
    <2>2. StackInv' /\ scene' = scene
      BY <2>1, StepKeeps DEF StepOf
    <2>3. Turn(k)
      BY <2>1, BystanderTurns
    <2>4. QED
      BY <2>2, <2>3, TurnEvolves
  <1>2. CASE UNCHANGED vars
    BY <1>2 DEF vars, Evolves, LifeStep, StageOf, HasResource, Recorded, At
  <1>3. QED
    BY <1>1, <1>2

\* ... and so for every slot of the scene, used or not.
LEMMA SlotEvolution ==
    ASSUME StackInv, [Next]_vars, NEW i
    PROVE  LifeStep(SlotStage(i), SlotHas(i), SlotStage(i)', SlotHas(i)')
  <1>1. CASE i \in DOMAIN scene.moving
    <2>1. PICK k : k = scene.moving[i]
      OBVIOUS
    <2>2. k \in Members
      BY <1>1, <2>1 DEF Members, MembersOf, MovingOf
    <2>3. scene' = scene /\ Evolves(k)
      BY <2>2, Evolution
    <2>4. /\ SlotStage(i) = StageOf(k) /\ SlotStage(i)' = StageOf(k)'
          /\ SlotHas(i) = HasResource(k) /\ SlotHas(i)' = HasResource(k)'
      BY <1>1, <2>1, <2>3 DEF SlotStage, SlotHas, HasResource, StageOf, Recorded
    <2>5. QED
      BY <2>3, <2>4 DEF Evolves
  <1>2. CASE i \notin DOMAIN scene.moving
    <2>1. scene' = scene
      BY StepTaken DEF StepOf, vars
    <2>2. QED
      BY <1>2, <2>1 DEF SlotStage, SlotHas, LifeStep
  <1>3. QED
    BY <1>1, <1>2

\* Every slot starts without a resource.
LEMMA SlotInit ==
    ASSUME Init, NEW i
    PROVE  SlotStage(i) \in {"absent", "new"} /\ SlotHas(i) = FALSE
  <1>1. CASE i \in DOMAIN scene.moving
    <2>1. PICK k : k = scene.moving[i]
      OBVIOUS
    <2>2. k \in Members /\ k \notin scene.given
      BY <1>1, <2>1, ScenesAssumption DEF Init, Members, MembersOf, MovingOf
    <2>3. api[k] = Object(1)
      BY <2>2 DEF Init
    <2>4. api[k].phase = "new" /\ api[k].id = 0
      BY <2>3, ObjectFacts
    <2>5. StackInv
      BY InitOK
    <2>6. ~HasResource(k)
      BY <2>2, <2>4, <2>5, HasFacts
    <2>7. QED
      BY <1>1, <2>1, <2>4, <2>6 DEF SlotStage, SlotHas, StageOf
  <1>2. CASE i \notin DOMAIN scene.moving
    BY <1>2 DEF SlotStage, SlotHas
  <1>3. QED
    BY <1>1, <1>2

\* Whether a slot holds a resource is a truth value.
LEMMA SlotHolds ==
    ASSUME NEW i
    PROVE  SlotHas(i) \in BOOLEAN /\ SlotHas(i)' \in BOOLEAN
  BY DEF SlotHas, HasResource

\* Every object of the stack implements Lifecycle: a resource is only made
\* behind the finalizer, Ready is only reported of an object that has one, and
\* the finalizer only goes when none is left.
THEOREM Refinement == Spec => ImplementsLifecycle
  <1>1. Init => First!Init /\ Second!Init /\ Third!Init
    BY SlotInit DEF First!Init, Second!Init, Third!Init
  <1>2. StackInv /\ [Next]_vars => [First!Next]_<<SlotStage(1), SlotHas(1)>>
    <2> SUFFICES ASSUME StackInv, [Next]_vars
                 PROVE  [First!Next]_<<SlotStage(1), SlotHas(1)>>
      OBVIOUS
    <2>1. PICK h \in BOOLEAN, g \in BOOLEAN : h = SlotHas(1) /\ g = SlotHas(1)'
      BY SlotHolds
    <2>2. LifeStep(SlotStage(1), h, SlotStage(1)', g)
      BY <2>1, SlotEvolution
    <2>3. QED
      BY <2>1, <2>2 DEF LifeStep, First!Next, First!Submit, First!Accept, First!Abandon,
         First!Provision, First!Succeed, First!Falter, First!Lose, First!Withdraw, First!Leave
  <1>3. StackInv /\ [Next]_vars => [Second!Next]_<<SlotStage(2), SlotHas(2)>>
    <2> SUFFICES ASSUME StackInv, [Next]_vars
                 PROVE  [Second!Next]_<<SlotStage(2), SlotHas(2)>>
      OBVIOUS
    <2>1. PICK h \in BOOLEAN, g \in BOOLEAN : h = SlotHas(2) /\ g = SlotHas(2)'
      BY SlotHolds
    <2>2. LifeStep(SlotStage(2), h, SlotStage(2)', g)
      BY <2>1, SlotEvolution
    <2>3. QED
      BY <2>1, <2>2 DEF LifeStep, Second!Next, Second!Submit, Second!Accept, Second!Abandon,
         Second!Provision, Second!Succeed, Second!Falter, Second!Lose, Second!Withdraw, Second!Leave
  <1>4. StackInv /\ [Next]_vars => [Third!Next]_<<SlotStage(3), SlotHas(3)>>
    <2> SUFFICES ASSUME StackInv, [Next]_vars
                 PROVE  [Third!Next]_<<SlotStage(3), SlotHas(3)>>
      OBVIOUS
    <2>1. PICK h \in BOOLEAN, g \in BOOLEAN : h = SlotHas(3) /\ g = SlotHas(3)'
      BY SlotHolds
    <2>2. LifeStep(SlotStage(3), h, SlotStage(3)', g)
      BY <2>1, SlotEvolution
    <2>3. QED
      BY <2>1, <2>2 DEF LifeStep, Third!Next, Third!Submit, Third!Accept, Third!Abandon,
         Third!Provision, Third!Succeed, Third!Falter, Third!Lose, Third!Withdraw, Third!Leave
  <1>5. QED
    BY <1>1, <1>2, <1>3, <1>4, StackInvariant, PTL
       DEF Spec, ImplementsLifecycle, First!Spec, Second!Spec, Third!Spec
=============================================================================
