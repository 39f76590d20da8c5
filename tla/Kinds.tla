------------------------------- MODULE Kinds -------------------------------
(***************************************************************************)
(* The seven root kinds of the operator, as data.  Each adapter under      *)
(* internal/controller implements the same four calls (Observe, Create,    *)
(* Update, Delete); what differs between them is captured by the traits    *)
(* below, and module Reconciler interprets the traits.                     *)
(*                                                                         *)
(* A spec has two abstract fields.  "body" is everything the main modify   *)
(* call of the kind carries (name, labels, routes, ...).  "link" is the    *)
(* one field the kind treats differently: the router attachment of a       *)
(* Network, the features of a Gateway, the ptrRecord of a FloatingIP, the  *)
(* plan of a LoadBalancer.                                                 *)
(***************************************************************************)
EXTENDS Naturals

Fields == {"body", "link"}

(***************************************************************************)
(* adopts    lookup falls back on the k8s-uid label when status has no id  *)
(* fields    the fields Observe compares                                   *)
(* immutable the fields the CRD pins and Update refuses to reconcile       *)
(* optional  the fields a spec may leave unset                             *)
(* sticky    the fields whose unset value is neither drift nor sent        *)
(* creates   the fields the create request carries                         *)
(* modify    the fields the modify request carries                         *)
(* attach    the fields the second update request carries, after modify    *)
(* resolves  where a reference to another object is resolved: "observe"    *)
(*           (before the lookup), "observed" (once found), "create",       *)
(*           "update" (before Update's lookup), "updated" (once found)     *)
(* awaits    Ready also needs the right operational state                  *)
(* rereads   Update looks the resource up again before it calls            *)
(* diffs     Update sends only what differs, nothing when nothing does     *)
(* confirms  Delete reads first and is done only on 404                    *)
(***************************************************************************)

Router == [
    adopts    |-> TRUE,
    fields    |-> {"body"},
    immutable |-> {},
    optional  |-> {},
    sticky    |-> {},
    creates   |-> {"body"},
    modify    |-> {"body"},
    attach    |-> {},
    resolves  |-> {},
    awaits    |-> FALSE,
    rereads   |-> FALSE,
    diffs     |-> FALSE,
    confirms  |-> FALSE]

Network == [Router EXCEPT
    !.fields   = {"body", "link"},
    !.optional = {"link"},
    !.creates  = {"body", "link"},
    !.attach   = {"link"},
    !.resolves = {"observe", "create", "update"},
    !.rereads  = TRUE,
    !.diffs    = TRUE]

Gateway == [Router EXCEPT
    !.fields    = {"body", "link"},
    !.immutable = {"link"},
    !.creates   = {"body", "link"},
    !.resolves  = {"create"},
    !.awaits    = TRUE,
    !.rereads   = TRUE]

NetworkPeering == [Router EXCEPT
    !.resolves = {"observe", "create"},
    !.awaits   = TRUE]

FloatingIP == [Router EXCEPT
    !.adopts   = FALSE,
    !.fields   = {"body", "link"},
    !.optional = {"link"},
    !.sticky   = {"link"},
    !.modify   = {"body", "link"}]

ManagedObjectStorage == [Router EXCEPT
    !.resolves = {"observed", "create", "updated"},
    !.awaits   = TRUE,
    !.rereads  = TRUE,
    !.diffs    = TRUE,
    !.confirms = TRUE]

LoadBalancer == [ManagedObjectStorage EXCEPT
    !.fields   = {"body", "link"},
    !.creates  = {"body", "link"},
    !.resolves = {"observed", "create"}]

Traits == [
    Router               |-> Router,
    Network              |-> Network,
    Gateway              |-> Gateway,
    NetworkPeering       |-> NetworkPeering,
    FloatingIP           |-> FloatingIP,
    ManagedObjectStorage |-> ManagedObjectStorage,
    LoadBalancer         |-> LoadBalancer]

RootKinds == DOMAIN Traits
=============================================================================
