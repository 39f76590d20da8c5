---------------------------- MODULE Controllers ----------------------------
(***************************************************************************)
(* How the Set*Controller functions register the 25 reconcilers, as data.  *)
(* Every controller is queued by the events of its own kind; in addition   *)
(*                                                                         *)
(* watches  the kinds whose events are mapped to objects of this kind      *)
(* names    the kinds the names handed to DependentsOf belong to: an       *)
(*          event maps to the objects that return the changed object's     *)
(*          name                                                           *)
(*                                                                         *)
(* A watch on a kind whose names are not returned maps to nothing, unless  *)
(* objects of different kinds happen to share a name.                      *)
(***************************************************************************)

RouterController == [watches |-> {}, names |-> {}]

NetworkController == [watches |-> {"Router"}, names |-> {"Router"}]

NetworkPeeringController == RouterController

FloatingIPController == RouterController

GatewayController == NetworkController

GatewayConnectionController == [watches |-> {"Gateway"}, names |-> {"Gateway"}]

GatewayTunnelController == [
    watches |-> {"GatewayConnection"},
    names   |-> {"GatewayConnection"}]

ManagedDatabaseController == RouterController

ManagedDatabaseUserController == [
    watches |-> {"ManagedDatabase"},
    names   |-> {"ManagedDatabase"}]

LogicalDatabaseController == ManagedDatabaseUserController

ManagedObjectStorageController == RouterController

ObjectStorageBucketController == [
    watches |-> {"ManagedObjectStorage"},
    names   |-> {"ManagedObjectStorage"}]

ObjectStoragePolicyController == ObjectStorageBucketController

ObjectStorageCustomDomainController == ObjectStorageBucketController

ObjectStorageUserController == [
    watches |-> {"ManagedObjectStorage", "ObjectStoragePolicy"},
    names   |-> {"ManagedObjectStorage", "ObjectStoragePolicy"}]

ObjectStorageAccessKeyController == [
    watches |-> {"ObjectStorageUser"},
    names   |-> {"ObjectStorageUser"}]

LoadBalancerController == RouterController

LoadBalancerResolverController == [
    watches |-> {"LoadBalancer"},
    names   |-> {"LoadBalancer"}]

\* The resolver a backend refers to is not watched.
LoadBalancerBackendController == LoadBalancerResolverController

LoadBalancerBackendMemberController == [
    watches |-> {"LoadBalancerBackend"},
    names   |-> {"LoadBalancerBackend"}]

LoadBalancerCertificateBundleController == RouterController

\* Both watches use RefNames, which returns the backend's name only.
LoadBalancerBackendTLSConfigController == [
    watches |-> {"LoadBalancerBackend", "LoadBalancerCertificateBundle"},
    names   |-> {"LoadBalancerBackend"}]

LoadBalancerFrontendController == [
    watches |-> {"LoadBalancer", "LoadBalancerBackend"},
    names   |-> {"LoadBalancer", "LoadBalancerBackend"}]

\* RefNames returns the frontend's name only.
LoadBalancerFrontendRuleController == [
    watches |-> {"LoadBalancerFrontend", "LoadBalancerBackend"},
    names   |-> {"LoadBalancerFrontend"}]

\* RefNames returns the frontend's name only.
LoadBalancerFrontendTLSConfigController == [
    watches |-> {"LoadBalancerFrontend", "LoadBalancerCertificateBundle"},
    names   |-> {"LoadBalancerFrontend"}]

-----------------------------------------------------------------------------
Controllers == [
    Router                         |-> RouterController,
    Network                        |-> NetworkController,
    NetworkPeering                 |-> NetworkPeeringController,
    FloatingIP                     |-> FloatingIPController,
    Gateway                        |-> GatewayController,
    GatewayConnection              |-> GatewayConnectionController,
    GatewayTunnel                  |-> GatewayTunnelController,
    ManagedDatabase                |-> ManagedDatabaseController,
    ManagedDatabaseUser            |-> ManagedDatabaseUserController,
    ManagedDatabaseLogicalDatabase |-> LogicalDatabaseController,
    ManagedObjectStorage           |-> ManagedObjectStorageController,
    ObjectStorageBucket            |-> ObjectStorageBucketController,
    ObjectStoragePolicy            |-> ObjectStoragePolicyController,
    ObjectStorageCustomDomain      |-> ObjectStorageCustomDomainController,
    ObjectStorageUser              |-> ObjectStorageUserController,
    ObjectStorageAccessKey         |-> ObjectStorageAccessKeyController,
    LoadBalancer                   |-> LoadBalancerController,
    LoadBalancerResolver           |-> LoadBalancerResolverController,
    LoadBalancerBackend            |-> LoadBalancerBackendController,
    LoadBalancerBackendMember      |-> LoadBalancerBackendMemberController,
    LoadBalancerCertificateBundle  |-> LoadBalancerCertificateBundleController,
    LoadBalancerBackendTLSConfig   |-> LoadBalancerBackendTLSConfigController,
    LoadBalancerFrontend           |-> LoadBalancerFrontendController,
    LoadBalancerFrontendRule       |-> LoadBalancerFrontendRuleController,
    LoadBalancerFrontendTLSConfig  |-> LoadBalancerFrontendTLSConfigController]

\* DependentsOf: the kinds whose objects an event of kind k queues.
Wakes(k) == {j \in DOMAIN Controllers :
                k \in Controllers[j].watches \cap Controllers[j].names}
=============================================================================
