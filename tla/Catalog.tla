------------------------------ MODULE Catalog ------------------------------
(***************************************************************************)
(* The adapters of the 25 kinds, as data: how each one's Observe, Create,  *)
(* Update and Delete find the parent, the reference and the resource.      *)
(* Module Stack interprets the records.                                    *)
(*                                                                         *)
(* keeps    the parent's identifier is resolved once and kept in status    *)
(*          (a "first use" helper); otherwise every pass resolves it       *)
(* asks     what Observe asks of the parent when it resolves it: that it   *)
(*          is Ready ("ready"), that it has an id ("id"), or nothing       *)
(*          while the object itself has no id ("later"); Create always     *)
(*          asks for Ready                                                 *)
(* waits    when the reference has to resolve: before Observe looks the    *)
(*          resource up ("before"), once it is found ("after"), only when  *)
(*          it is created ("create"), or once it is found and right after  *)
(*          it was created ("attach")                                      *)
(* adopts   how a resource is found while status holds no id: by the       *)
(*          k8s-uid label, by its name, or not at all                      *)
(* compares the parts of the spec Observe compares with the resource       *)
(* carries  the create request carries the editable fields; otherwise the  *)
(*          resource is made with the default ones                         *)
(* sends    the parts of the spec Update sends                             *)
(* replaces Update deletes the resource and creates another one            *)
(* strict   Observe fails when the container itself answers 404            *)
(* awaits   Ready also needs the right operational state                   *)
(* confirms an accepted Delete is reported as pending, and the object is   *)
(*          released by a later pass that is answered 404                  *)
(***************************************************************************)

RouterAdapter == [
    keeps    |-> TRUE,
    asks     |-> "ready",
    waits    |-> "after",
    adopts   |-> "label",
    compares |-> {"body"},
    carries  |-> TRUE,
    sends    |-> {"body"},
    replaces |-> FALSE,
    strict   |-> FALSE,
    awaits   |-> FALSE,
    confirms |-> FALSE]

NetworkAdapter == [RouterAdapter EXCEPT
    !.waits    = "before",
    !.compares = {"body", "link"},
    !.sends    = {"body", "link"}]

\* The local network is compared and never sent: the networks of a peering
\* are fixed at create.
NetworkPeeringAdapter == [RouterAdapter EXCEPT
    !.waits    = "before",
    !.compares = {"body", "link"},
    !.awaits   = TRUE]

FloatingIPAdapter == [RouterAdapter EXCEPT !.adopts = "none"]

GatewayAdapter == [RouterAdapter EXCEPT
    !.waits  = "create",
    !.awaits = TRUE]

GatewayConnectionAdapter == [RouterAdapter EXCEPT
    !.keeps  = FALSE,
    !.asks   = "id",
    !.adopts = "name",
    !.strict = TRUE]

GatewayTunnelAdapter == [RouterAdapter EXCEPT
    !.keeps    = FALSE,
    !.adopts   = "none",
    !.replaces = TRUE,
    !.awaits   = TRUE]

ManagedDatabaseAdapter == [RouterAdapter EXCEPT
    !.compares = {"body", "link"},
    !.sends    = {"body", "link"},
    !.awaits   = TRUE,
    !.confirms = TRUE]

ManagedDatabaseUserAdapter == [RouterAdapter EXCEPT !.adopts = "name"]

LogicalDatabaseAdapter == [ManagedDatabaseUserAdapter EXCEPT
    !.compares = {},
    !.sends    = {}]

ManagedObjectStorageAdapter == ManagedDatabaseAdapter

ObjectStorageBucketAdapter == [LogicalDatabaseAdapter EXCEPT
    !.strict   = TRUE,
    !.confirms = TRUE]

ObjectStoragePolicyAdapter == LogicalDatabaseAdapter

ObjectStorageCustomDomainAdapter == ManagedDatabaseUserAdapter

\* Create makes the user first and resolves the policies afterwards.
ObjectStorageUserAdapter == [ManagedDatabaseUserAdapter EXCEPT
    !.waits    = "attach",
    !.compares = {"body", "link"},
    !.sends    = {"body", "link"}]

\* A new key is Active, whatever spec.status says.
ObjectStorageAccessKeyAdapter == [RouterAdapter EXCEPT
    !.asks    = "later",
    !.adopts  = "none",
    !.carries = FALSE]

\* The networks are compared and never sent.
LoadBalancerAdapter == [ManagedDatabaseAdapter EXCEPT !.sends = {"body"}]

LoadBalancerResolverAdapter == ManagedDatabaseUserAdapter

LoadBalancerBackendAdapter == [ManagedDatabaseUserAdapter EXCEPT
    !.compares = {"body", "link"},
    !.sends    = {"body", "link"}]

LoadBalancerBackendMemberAdapter == ManagedDatabaseUserAdapter

\* A manual or authority bundle; a dynamic one is never compared.
LoadBalancerCertificateBundleAdapter == [RouterAdapter EXCEPT
    !.adopts = "name",
    !.awaits = TRUE]

LoadBalancerBackendTLSConfigAdapter == [ManagedDatabaseUserAdapter EXCEPT
    !.compares = {"link"},
    !.sends    = {"link"}]

LoadBalancerFrontendAdapter == LoadBalancerBackendAdapter

LoadBalancerFrontendRuleAdapter == ManagedDatabaseUserAdapter

LoadBalancerFrontendTLSConfigAdapter == LoadBalancerBackendTLSConfigAdapter

-----------------------------------------------------------------------------
Catalog == [
    Router                         |-> RouterAdapter,
    Network                        |-> NetworkAdapter,
    NetworkPeering                 |-> NetworkPeeringAdapter,
    FloatingIP                     |-> FloatingIPAdapter,
    Gateway                        |-> GatewayAdapter,
    GatewayConnection              |-> GatewayConnectionAdapter,
    GatewayTunnel                  |-> GatewayTunnelAdapter,
    ManagedDatabase                |-> ManagedDatabaseAdapter,
    ManagedDatabaseUser            |-> ManagedDatabaseUserAdapter,
    ManagedDatabaseLogicalDatabase |-> LogicalDatabaseAdapter,
    ManagedObjectStorage           |-> ManagedObjectStorageAdapter,
    ObjectStorageBucket            |-> ObjectStorageBucketAdapter,
    ObjectStoragePolicy            |-> ObjectStoragePolicyAdapter,
    ObjectStorageCustomDomain      |-> ObjectStorageCustomDomainAdapter,
    ObjectStorageUser              |-> ObjectStorageUserAdapter,
    ObjectStorageAccessKey         |-> ObjectStorageAccessKeyAdapter,
    LoadBalancer                   |-> LoadBalancerAdapter,
    LoadBalancerResolver           |-> LoadBalancerResolverAdapter,
    LoadBalancerBackend            |-> LoadBalancerBackendAdapter,
    LoadBalancerBackendMember      |-> LoadBalancerBackendMemberAdapter,
    LoadBalancerCertificateBundle  |-> LoadBalancerCertificateBundleAdapter,
    LoadBalancerBackendTLSConfig   |-> LoadBalancerBackendTLSConfigAdapter,
    LoadBalancerFrontend           |-> LoadBalancerFrontendAdapter,
    LoadBalancerFrontendRule       |-> LoadBalancerFrontendRuleAdapter,
    LoadBalancerFrontendTLSConfig  |-> LoadBalancerFrontendTLSConfigAdapter]
=============================================================================
