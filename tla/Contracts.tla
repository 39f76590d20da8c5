----------------------------- MODULE Contracts -----------------------------
(***************************************************************************)
(* What the UpCloud API promises of each kind of resource, as data, taken  *)
(* from the in-memory implementation the operator is tested against        *)
(* (internal/upcloudapi/fake).  What a resource contains goes with it, and *)
(* every call on a resource whose container is gone answers 404.           *)
(*                                                                         *)
(* unique    a create whose name is taken in the container answers 409     *)
(* blockedBy the kinds of resources that must not be left in it: delete    *)
(*           answers 409 while there is one                                *)
(* heldBy    the kinds of resources whose link to it makes delete answer   *)
(*           409                                                           *)
(* checks    linking it to a resource that does not exist answers 404      *)
(* lingers   the first delete only marks the resource, the next one        *)
(*           removes it and answers 404                                    *)
(***************************************************************************)

RouterAPI == [
    unique    |-> FALSE,
    blockedBy |-> {},
    heldBy    |-> {"Network"},
    checks    |-> FALSE,
    lingers   |-> FALSE]

NetworkAPI == [RouterAPI EXCEPT !.heldBy = {}]

NetworkPeeringAPI == [NetworkAPI EXCEPT !.checks = TRUE]

FloatingIPAPI == NetworkAPI

GatewayAPI == [NetworkAPI EXCEPT !.blockedBy = {"GatewayConnection"}]

GatewayConnectionAPI == NetworkAPI

GatewayTunnelAPI == NetworkAPI

ManagedDatabaseAPI == [NetworkAPI EXCEPT !.lingers = TRUE]

ManagedDatabaseUserAPI == [NetworkAPI EXCEPT !.unique = TRUE]

LogicalDatabaseAPI == ManagedDatabaseUserAPI

ManagedObjectStorageAPI == [NetworkAPI EXCEPT
    !.blockedBy = {"ObjectStorageBucket"}]

ObjectStorageBucketAPI == ManagedDatabaseUserAPI

ObjectStoragePolicyAPI == [ManagedDatabaseUserAPI EXCEPT
    !.heldBy = {"ObjectStorageUser"}]

ObjectStorageCustomDomainAPI == ManagedDatabaseUserAPI

ObjectStorageUserAPI == [ManagedDatabaseUserAPI EXCEPT !.checks = TRUE]

ObjectStorageAccessKeyAPI == NetworkAPI

LoadBalancerAPI == [NetworkAPI EXCEPT
    !.blockedBy = {"LoadBalancerFrontend", "LoadBalancerBackend",
                   "LoadBalancerResolver"}]

LoadBalancerResolverAPI == ManagedDatabaseUserAPI

LoadBalancerBackendAPI == ManagedDatabaseUserAPI

LoadBalancerBackendMemberAPI == ManagedDatabaseUserAPI

LoadBalancerCertificateBundleAPI == NetworkAPI

LoadBalancerBackendTLSConfigAPI == ManagedDatabaseUserAPI

LoadBalancerFrontendAPI == ManagedDatabaseUserAPI

LoadBalancerFrontendRuleAPI == ManagedDatabaseUserAPI

LoadBalancerFrontendTLSConfigAPI == ManagedDatabaseUserAPI

-----------------------------------------------------------------------------
Contracts == [
    Router                         |-> RouterAPI,
    Network                        |-> NetworkAPI,
    NetworkPeering                 |-> NetworkPeeringAPI,
    FloatingIP                     |-> FloatingIPAPI,
    Gateway                        |-> GatewayAPI,
    GatewayConnection              |-> GatewayConnectionAPI,
    GatewayTunnel                  |-> GatewayTunnelAPI,
    ManagedDatabase                |-> ManagedDatabaseAPI,
    ManagedDatabaseUser            |-> ManagedDatabaseUserAPI,
    ManagedDatabaseLogicalDatabase |-> LogicalDatabaseAPI,
    ManagedObjectStorage           |-> ManagedObjectStorageAPI,
    ObjectStorageBucket            |-> ObjectStorageBucketAPI,
    ObjectStoragePolicy            |-> ObjectStoragePolicyAPI,
    ObjectStorageCustomDomain      |-> ObjectStorageCustomDomainAPI,
    ObjectStorageUser              |-> ObjectStorageUserAPI,
    ObjectStorageAccessKey         |-> ObjectStorageAccessKeyAPI,
    LoadBalancer                   |-> LoadBalancerAPI,
    LoadBalancerResolver           |-> LoadBalancerResolverAPI,
    LoadBalancerBackend            |-> LoadBalancerBackendAPI,
    LoadBalancerBackendMember      |-> LoadBalancerBackendMemberAPI,
    LoadBalancerCertificateBundle  |-> LoadBalancerCertificateBundleAPI,
    LoadBalancerBackendTLSConfig   |-> LoadBalancerBackendTLSConfigAPI,
    LoadBalancerFrontend           |-> LoadBalancerFrontendAPI,
    LoadBalancerFrontendRule       |-> LoadBalancerFrontendRuleAPI,
    LoadBalancerFrontendTLSConfig  |-> LoadBalancerFrontendTLSConfigAPI]
=============================================================================
