------------------------------ MODULE Rotation ------------------------------
(***************************************************************************)
(* Key material the API never returns: the pre-shared key of a             *)
(* GatewayTunnel and the private key of a LoadBalancerCertificateBundle.   *)
(* A user who changes it in the Secret sets a new spec.rotationToken; the  *)
(* adapter sends the Secret again whenever status.rotationToken differs.   *)
(* A tunnel is replaced, a bundle modified.                                *)
(*                                                                         *)
(* Material is numbered in the order users write it, 0 is foreign; tokens  *)
(* are numbers and are not used twice.  The reads of the Secret are        *)
(* current: the operator's cache has caught up when the token arrives.  A  *)
(* pass starts from the current object: AccessKey and Database let its     *)
(* cache lag.                                                              *)
(***************************************************************************)
EXTENDS Budget

CONSTANTS
    RotKinds    \* a subset of {"tunnel", "bundle"}

ASSUME RotKindsAssumption == RotKinds \subseteq {"tunnel", "bundle"}

VARIABLES
    rotKind,    \* which of the two; fixed by Init
    rotObj,     \* the object: spec and status token, uuid (0: empty), Ready,
                \* and the material the Secret had when the spec token was set
    rotSecret,  \* the Secret: [key, cert], key 0 while there is none
    rotCloud,   \* the resources in UpCloud: [id, key, cert]
    rotPass,    \* the running pass: its copy of the object, the material read
    rotMade     \* the uuids handed out are 1..rotMade

rotVars == <<rotKind, rotObj, rotSecret, rotCloud, rotPass, rotMade>>

RotIdle == [step |-> "idle", id |-> 0, token |-> 0, seen |-> 0, key |-> 0, cert |-> 0,
            there |-> FALSE, ready |-> FALSE]

\* A bundle with the name may be there, made by somebody else.
RotInit ==
    /\ rotKind \in RotKinds
    /\ rotObj = [id |-> 0, token |-> 0, seen |-> 0, asked |-> 0, ready |-> FALSE]
    /\ rotSecret \in {[key |-> 0, cert |-> 0], [key |-> 1, cert |-> 1]}
    /\ \/ rotCloud = {} /\ rotMade = 0
       \/ /\ rotKind = "bundle"
          /\ rotCloud = {[id |-> 1, key |-> 0, cert |-> 1]} /\ rotMade = 1
    /\ rotPass = RotIdle

\* The pass p goes on, or is left with its status patch to make.
RotGo(p, step)   == rotPass' = [p EXCEPT !.step = step]
RotEnd(p, ready) == rotPass' = [p EXCEPT !.step = "save", !.ready = ready]

-----------------------------------------------------------------------------
\* lookup: by uuid, and for a bundle without one by name.
RotFound ==
    IF rotObj.id = 0 /\ rotKind = "bundle" THEN rotCloud
    ELSE {r \in rotCloud : r.id = rotObj.id}

\* Mutant: the token is not looked at.
RotStaleByCert(r) == rotKind = "bundle" /\ r.cert # rotSecret.cert

\* The API returns the certificate of a bundle, no key of either.
RotStale(r) ==
    \/ rotKind = "bundle" /\ r.cert # rotSecret.cert
    \/ rotObj.seen # rotObj.token

\* What Observe makes of the resource it found.  Only that of a bundle reads
\* the Secret.
RotCompare(p, r) ==
    IF rotKind = "bundle" /\ rotSecret.key = 0 THEN RotEnd(p, FALSE)
    ELSE IF ~RotStale(r) THEN RotEnd(p, TRUE)
    ELSE RotGo(p, IF rotKind = "tunnel" THEN "delete" ELSE "read")

RotObserve ==
    /\ rotPass.step = "idle"
    /\ LET p == [RotIdle EXCEPT !.id = rotObj.id, !.token = rotObj.token,
                                !.seen = rotObj.seen]
       IN \/ Free  /\ RotFound = {} /\ RotGo(p, "read")
          \/ Free  /\ \E r \in RotFound :
                         RotCompare([p EXCEPT !.id = r.id, !.there = TRUE], r)
          \/ Fault /\ RotEnd(p, FALSE)
    /\ UNCHANGED <<rotKind, rotObj, rotSecret, rotCloud, rotMade>>

\* Update of a tunnel deletes it first and clears the uuid.
RotDelete ==
    /\ rotPass.step = "delete"
    /\ \/ /\ Free
          /\ rotCloud' = {r \in rotCloud : r.id # rotPass.id}
          /\ RotGo([rotPass EXCEPT !.id = 0, !.there = FALSE], "read")
       \/ Fault /\ RotEnd(rotPass, FALSE) /\ UNCHANGED rotCloud
    /\ UNCHANGED <<rotKind, rotObj, rotSecret, rotMade>>

\* Mutant: the token is recorded before the material is sent.
RotReadRecording ==
    /\ rotPass.step = "read" /\ Free
    /\ IF rotSecret.key = 0 THEN RotEnd(rotPass, FALSE)
       ELSE RotGo([rotPass EXCEPT !.key = rotSecret.key, !.cert = rotSecret.cert,
                                  !.seen = rotPass.token], "send")
    /\ UNCHANGED <<rotKind, rotObj, rotSecret, rotCloud, rotMade>>

\* Create and Update read the Secret; without it they fail.
RotRead ==
    /\ rotPass.step = "read" /\ Free
    /\ IF rotSecret.key = 0 THEN RotEnd(rotPass, FALSE)
       ELSE RotGo([rotPass EXCEPT !.key = rotSecret.key, !.cert = rotSecret.cert], "send")
    /\ UNCHANGED <<rotKind, rotObj, rotSecret, rotCloud, rotMade>>

\* The pass's token is recorded with the material it sent.
RotSent(p) == RotEnd([p EXCEPT !.seen = p.token], FALSE)

\* The create call.  A bundle whose name is taken is left to the next pass.
RotCreate ==
    /\ rotPass.step = "send" /\ ~rotPass.there
    /\ LET taken == rotKind = "bundle" /\ rotCloud # {} IN
       \/ /\ Free /\ ~taken
          /\ rotMade' = rotMade + 1
          /\ rotCloud' = rotCloud \cup
                {[id |-> rotMade', key |-> rotPass.key, cert |-> rotPass.cert]}
          /\ RotSent([rotPass EXCEPT !.id = rotMade'])
       \/ /\ IF taken THEN Free ELSE Fault
          /\ RotEnd(rotPass, FALSE)
          /\ UNCHANGED <<rotCloud, rotMade>>
    /\ UNCHANGED <<rotKind, rotObj, rotSecret>>

\* The modify call of a bundle; a 404 is an error.
RotModify ==
    /\ rotPass.step = "send" /\ rotPass.there
    /\ LET found == {r \in rotCloud : r.id = rotPass.id} IN
       \/ /\ Free /\ found # {}
          /\ rotCloud' = (rotCloud \ found) \cup
                {[id |-> rotPass.id, key |-> rotPass.key, cert |-> rotPass.cert]}
          /\ RotSent(rotPass)
       \/ /\ IF found = {} THEN Free ELSE Fault
          /\ RotEnd(rotPass, FALSE)
          /\ UNCHANGED rotCloud
    /\ UNCHANGED <<rotKind, rotObj, rotSecret, rotMade>>

\* The status patch that ends a pass.
RotSave ==
    /\ rotPass.step = "save"
    /\ rotObj'  = [rotObj EXCEPT !.id = rotPass.id, !.seen = rotPass.seen,
                                 !.ready = rotPass.ready]
    /\ rotPass' = RotIdle
    /\ Free /\ UNCHANGED <<rotKind, rotSecret, rotCloud, rotMade>>

\* The operator is restarted, or the patch fails.
RotCrash ==
    /\ rotPass.step # "idle"
    /\ rotPass' = RotIdle
    /\ Fault /\ UNCHANGED <<rotKind, rotObj, rotSecret, rotCloud, rotMade>>

-----------------------------------------------------------------------------
(* Users, and what happens in the account. *)

\* New material, with the old certificate or with a new one.
RotSecretSet ==
    /\ \E c \in {rotSecret.cert, rotSecret.cert + 1} \ {0} :
          rotSecret' = [key |-> rotSecret.key + 1, cert |-> c]
    /\ Move /\ UNCHANGED <<rotKind, rotObj, rotCloud, rotPass, rotMade>>

RotBump ==
    /\ rotObj' = [rotObj EXCEPT !.token = @ + 1, !.asked = rotSecret.key]
    /\ Move /\ UNCHANGED <<rotKind, rotSecret, rotCloud, rotPass, rotMade>>

RotVanish ==
    /\ \E r \in rotCloud : rotCloud' = rotCloud \ {r}
    /\ Move /\ UNCHANGED <<rotKind, rotObj, rotSecret, rotPass, rotMade>>

RotReconcile == \/ RotObserve \/ RotDelete \/ RotRead \/ RotCreate \/ RotModify
                \/ RotSave
RotNext == RotReconcile \/ RotCrash \/ RotSecretSet \/ RotBump \/ RotVanish

-----------------------------------------------------------------------------
(* Properties. *)

\* A token in status vouches for the material: once status.rotationToken is
\* the one the user set, the resource in status has the material the Secret
\* had then, or a later one, whatever failed in between (Create and Update of
\* gatewaytunnel_adapter.go and loadbalancercertificatebundle_adapter.go
\* record the token of the pass after the call that carries the material).
RotTokenVouches ==
    rotObj.seen = rotObj.token =>
        \A r \in rotCloud : r.id = rotObj.id => r.key >= rotObj.asked

\* A bundle whose status names one that is gone while another has its name:
\* Create is told 409 and leaves the bundle to the next Observe, which looks
\* for the uuid in status and not for the name.
RotDisplaced ==
    /\ rotKind = "bundle" /\ rotCloud # {} /\ rotObj.id # 0
    /\ \A r \in rotCloud : r.id # rotObj.id

\* What RotSettles of MCServices says of the end.
RotSettled ==
    rotSecret.key # 0 =>
       \/ RotDisplaced /\ ~rotObj.ready
       \/ /\ rotObj.ready
          /\ \E r \in rotCloud : /\ r.id = rotObj.id
                                 /\ r.key >= rotObj.asked
                                 /\ rotKind = "bundle" => r.cert = rotSecret.cert

=============================================================================
