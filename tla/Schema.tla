------------------------------- MODULE Schema -------------------------------
(***************************************************************************)
(* The custom resource definitions of the four API groups, as data: what   *)
(* an object of each kind refers to and how it is identified in UpCloud.   *)
(*                                                                         *)
(* id     what GetExternalID returns: an identifier UpCloud hands out      *)
(*        ("uuid"; a FloatingIP's address and an access key's id too), or  *)
(*        the object's own name within its parent ("name")                 *)
(* parent the kind whose resource contains this one (an immutable,         *)
(*        required reference), or None                                     *)
(* uses   another kind the spec refers to (a router, a network, a policy,  *)
(*        a resolver, a certificate bundle, a default backend), or None    *)
(* needs  whether that reference is required; an optional one is left out  *)
(*        where no object of the kind is at hand                           *)
(* body   whether a field other than the references can be edited, that    *)
(*        is, is not pinned by a "self == oldSelf" rule                    *)
(***************************************************************************)

None == "none"

RouterSpec == [
    id     |-> "uuid",
    parent |-> None,
    uses   |-> None,
    needs  |-> FALSE,
    body   |-> TRUE]

NetworkSpec == [RouterSpec EXCEPT !.uses = "Router"]

NetworkPeeringSpec == [RouterSpec EXCEPT !.uses = "Network", !.needs = TRUE]

FloatingIPSpec == RouterSpec

GatewaySpec == [RouterSpec EXCEPT !.uses = "Router", !.needs = TRUE]

GatewayConnectionSpec == [RouterSpec EXCEPT !.parent = "Gateway"]

GatewayTunnelSpec == [RouterSpec EXCEPT !.parent = "GatewayConnection"]

ManagedDatabaseSpec == [RouterSpec EXCEPT !.uses = "Network"]

ManagedDatabaseUserSpec == [RouterSpec EXCEPT
    !.id     = "name",
    !.parent = "ManagedDatabase"]

ManagedDatabaseLogicalDatabaseSpec == [RouterSpec EXCEPT
    !.id     = "name",
    !.parent = "ManagedDatabase",
    !.body   = FALSE]

ManagedObjectStorageSpec == [RouterSpec EXCEPT !.uses = "Network"]

ObjectStorageBucketSpec == [RouterSpec EXCEPT
    !.id     = "name",
    !.parent = "ManagedObjectStorage",
    !.body   = FALSE]

ObjectStoragePolicySpec == [RouterSpec EXCEPT
    !.id     = "name",
    !.parent = "ManagedObjectStorage",
    !.body   = FALSE]

ObjectStorageCustomDomainSpec == [RouterSpec EXCEPT
    !.id     = "name",
    !.parent = "ManagedObjectStorage"]

\* spec.policies can be edited, spec.policyRefs is the reference.
ObjectStorageUserSpec == [RouterSpec EXCEPT
    !.id     = "name",
    !.parent = "ManagedObjectStorage",
    !.uses   = "ObjectStoragePolicy"]

\* spec.status toggles the key between Active and Inactive.
ObjectStorageAccessKeySpec == [RouterSpec EXCEPT !.parent = "ObjectStorageUser"]

LoadBalancerSpec == [RouterSpec EXCEPT !.uses = "Network"]

LoadBalancerResolverSpec == [RouterSpec EXCEPT
    !.id     = "name",
    !.parent = "LoadBalancer"]

LoadBalancerBackendSpec == [RouterSpec EXCEPT
    !.id     = "name",
    !.parent = "LoadBalancer",
    !.uses   = "LoadBalancerResolver"]

LoadBalancerBackendMemberSpec == [RouterSpec EXCEPT
    !.id     = "name",
    !.parent = "LoadBalancerBackend"]

LoadBalancerCertificateBundleSpec == RouterSpec

\* The certificate bundle is the only field that is not pinned.
LoadBalancerBackendTLSConfigSpec == [RouterSpec EXCEPT
    !.id     = "name",
    !.parent = "LoadBalancerBackend",
    !.uses   = "LoadBalancerCertificateBundle",
    !.needs  = TRUE,
    !.body   = FALSE]

LoadBalancerFrontendSpec == [RouterSpec EXCEPT
    !.id     = "name",
    !.parent = "LoadBalancer",
    !.uses   = "LoadBalancerBackend",
    !.needs  = TRUE]

\* A rule's use_backend action holds a plain name, not a reference.
LoadBalancerFrontendRuleSpec == [RouterSpec EXCEPT
    !.id     = "name",
    !.parent = "LoadBalancerFrontend"]

LoadBalancerFrontendTLSConfigSpec == [RouterSpec EXCEPT
    !.id     = "name",
    !.parent = "LoadBalancerFrontend",
    !.uses   = "LoadBalancerCertificateBundle",
    !.needs  = TRUE,
    !.body   = FALSE]

-----------------------------------------------------------------------------
Schema == [
    Router                         |-> RouterSpec,
    Network                        |-> NetworkSpec,
    NetworkPeering                 |-> NetworkPeeringSpec,
    FloatingIP                     |-> FloatingIPSpec,
    Gateway                        |-> GatewaySpec,
    GatewayConnection              |-> GatewayConnectionSpec,
    GatewayTunnel                  |-> GatewayTunnelSpec,
    ManagedDatabase                |-> ManagedDatabaseSpec,
    ManagedDatabaseUser            |-> ManagedDatabaseUserSpec,
    ManagedDatabaseLogicalDatabase |-> ManagedDatabaseLogicalDatabaseSpec,
    ManagedObjectStorage           |-> ManagedObjectStorageSpec,
    ObjectStorageBucket            |-> ObjectStorageBucketSpec,
    ObjectStoragePolicy            |-> ObjectStoragePolicySpec,
    ObjectStorageCustomDomain      |-> ObjectStorageCustomDomainSpec,
    ObjectStorageUser              |-> ObjectStorageUserSpec,
    ObjectStorageAccessKey         |-> ObjectStorageAccessKeySpec,
    LoadBalancer                   |-> LoadBalancerSpec,
    LoadBalancerResolver           |-> LoadBalancerResolverSpec,
    LoadBalancerBackend            |-> LoadBalancerBackendSpec,
    LoadBalancerBackendMember      |-> LoadBalancerBackendMemberSpec,
    LoadBalancerCertificateBundle  |-> LoadBalancerCertificateBundleSpec,
    LoadBalancerBackendTLSConfig   |-> LoadBalancerBackendTLSConfigSpec,
    LoadBalancerFrontend           |-> LoadBalancerFrontendSpec,
    LoadBalancerFrontendRule       |-> LoadBalancerFrontendRuleSpec,
    LoadBalancerFrontendTLSConfig  |-> LoadBalancerFrontendTLSConfigSpec]

AllKinds == DOMAIN Schema
=============================================================================
