------------------------------ MODULE MCStack ------------------------------
(***************************************************************************)
(* Instances of Stack for TLC: scenes that between them hold every kind    *)
(* and every reference between two kinds.                                  *)
(***************************************************************************)
EXTENDS Stack, TLC

Scene(moving, given) == [moving |-> moving, given |-> given]

NetworkScenes == {
    Scene(<<"Router", "Network", "NetworkPeering">>, {}),
    Scene(<<"Gateway", "GatewayConnection", "GatewayTunnel">>, {"Router"}),
    Scene(<<"Router", "Gateway">>, {}),
    Scene(<<"FloatingIP">>, {})}

DatabaseScenes == {
    Scene(<<"ManagedDatabase", "ManagedDatabaseUser",
            "ManagedDatabaseLogicalDatabase">>, {}),
    Scene(<<"Network", "ManagedDatabase">>, {})}

StorageScenes == {
    Scene(<<"ManagedObjectStorage", "ObjectStorageBucket",
            "ObjectStorageCustomDomain">>, {}),
    Scene(<<"ObjectStoragePolicy", "ObjectStorageUser">>, {"ManagedObjectStorage"}),
    Scene(<<"ObjectStorageUser", "ObjectStorageAccessKey">>, {"ManagedObjectStorage"}),
    Scene(<<"Network", "ManagedObjectStorage">>, {})}

BalancerScenes == {
    Scene(<<"LoadBalancer", "LoadBalancerResolver", "LoadBalancerBackend">>, {}),
    Scene(<<"LoadBalancerBackend", "LoadBalancerBackendMember">>, {"LoadBalancer"}),
    Scene(<<"LoadBalancerBackend", "LoadBalancerFrontend">>, {"LoadBalancer"}),
    Scene(<<"LoadBalancerFrontend", "LoadBalancerFrontendRule">>,
          {"LoadBalancer", "LoadBalancerBackend"}),
    Scene(<<"Network", "LoadBalancer">>, {})}

CertificateScenes == {
    Scene(<<"LoadBalancerCertificateBundle", "LoadBalancerBackendTLSConfig">>,
          {"LoadBalancer", "LoadBalancerBackend"}),
    Scene(<<"LoadBalancerCertificateBundle", "LoadBalancerFrontendTLSConfig">>,
          {"LoadBalancer", "LoadBalancerBackend", "LoadBalancerFrontend"})}

AllScenes == NetworkScenes \cup DatabaseScenes \cup StorageScenes
                \cup BalancerScenes \cup CertificateScenes
=============================================================================
