---------------------------- MODULE StorageUser ----------------------------
(***************************************************************************)
(* An ObjectStorageUser, call by call: its policies are attached and       *)
(* detached one by one, and its deletion takes its policies and access     *)
(* keys away one by one before the user.  The service is Ready and the     *)
(* policies resolve: module Stack has the references.  A pass starts from  *)
(* the current object: AccessKey and Database let the operator's cache     *)
(* lag.                                                                    *)
(***************************************************************************)
EXTENDS Budget, FiniteSets

CONSTANTS
    Policies    \* names of policies

ASSUME PoliciesAssumption == IsFiniteSet(Policies)

VARIABLES
    suObj,    \* the object: phase, spec policies, status.username known, Ready
    suCloud,  \* the user in UpCloud: there, its policies, its access keys
    suPass,   \* the running pass: its copy of the spec, and the calls it has
              \* still to make
    suKeys    \* access keys made so far

suVars == <<suObj, suCloud, suPass, suKeys>>

SuIdle == [step |-> "idle", want |-> {}, known |-> FALSE, attach |-> {},
           detach |-> {}, keys |-> {}, ready |-> FALSE]
SuNone == [there |-> FALSE, policies |-> {}, keys |-> {}]

SuInit ==
    /\ suObj \in [phase : {"live"}, want : SUBSET Policies, known : {FALSE},
                  ready : {FALSE}]
    /\ suCloud \in {SuNone} \cup [there : {TRUE}, policies : SUBSET Policies, keys : {{}}]
    /\ suPass = SuIdle
    /\ suKeys = 0

SuGo(p, step)   == suPass' = [p EXCEPT !.step = step]
SuEnd(p, ready) == suPass' = [p EXCEPT !.step = "save", !.ready = ready]

-----------------------------------------------------------------------------
(* A pass over a live object. *)

SuObserve ==
    /\ suObj.phase = "live" /\ suPass.step = "idle"
    /\ LET p == [SuIdle EXCEPT !.want = suObj.want, !.known = suObj.known]
           q == [p EXCEPT !.known = TRUE]
       IN \/ Free  /\ ~suCloud.there /\ SuGo(p, "create")
          \/ Free  /\ suCloud.there
                   /\ IF suCloud.policies = p.want THEN SuEnd(q, TRUE)
                                                   ELSE SuGo(q, "plan")
          \/ Fault /\ SuEnd(p, FALSE)
    /\ UNCHANGED <<suObj, suCloud, suKeys>>

\* Create; attachDesired follows.  A 409 is left to the next pass.
SuCreate ==
    /\ suPass.step = "create"
    /\ \/ /\ Free /\ ~suCloud.there
          /\ suCloud' = [SuNone EXCEPT !.there = TRUE]
          /\ SuGo([suPass EXCEPT !.known = TRUE], "attach desired")
       \/ /\ IF suCloud.there THEN Free ELSE Fault
          /\ SuEnd(suPass, FALSE)
          /\ UNCHANGED suCloud
    /\ UNCHANGED <<suObj, suKeys>>

\* attachDesired and Update read what is attached; only Update detaches.
SuPlan ==
    /\ suPass.step \in {"attach desired", "plan"}
    /\ \/ /\ Free /\ suCloud.there
          /\ SuGo([suPass EXCEPT
                     !.attach = suPass.want \ suCloud.policies,
                     !.detach = IF suPass.step = "plan"
                                THEN suCloud.policies \ suPass.want ELSE {}], "change")
       \/ (IF suCloud.there THEN Fault ELSE Free) /\ SuEnd(suPass, FALSE)
    /\ UNCHANGED <<suObj, suCloud, suKeys>>

\* One call: first the missing policies are attached, then the others are
\* detached.  Detaching what somebody detached meanwhile is an error.
SuChange ==
    /\ suPass.step = "change"
    /\ \/ /\ Free /\ suPass.attach \cup suPass.detach = {}
          /\ SuEnd(suPass, FALSE)
          /\ UNCHANGED suCloud
       \/ \E p \in suPass.attach :
             /\ Free /\ suCloud.there
             /\ suCloud' = [suCloud EXCEPT !.policies = @ \cup {p}]
             /\ SuGo([suPass EXCEPT !.attach = @ \ {p}], "change")
       \/ \E p \in suPass.detach \cap suCloud.policies :
             /\ Free /\ suPass.attach = {}
             /\ suCloud' = [suCloud EXCEPT !.policies = @ \ {p}]
             /\ SuGo([suPass EXCEPT !.detach = @ \ {p}], "change")
       \/ /\ Free
          /\ \/ suPass.attach # {} /\ ~suCloud.there
             \/ suPass.attach = {} /\ ~(suPass.detach \subseteq suCloud.policies)
          /\ SuEnd(suPass, FALSE)
          /\ UNCHANGED suCloud
       \/ /\ Fault /\ suPass.attach \cup suPass.detach # {}
          /\ SuEnd(suPass, FALSE)
          /\ UNCHANGED suCloud
    /\ UNCHANGED <<suObj, suKeys>>

SuSave ==
    /\ suPass.step = "save"
    /\ suObj'  = [suObj EXCEPT !.known = suPass.known, !.ready = suPass.ready]
    /\ suPass' = SuIdle
    /\ Free /\ UNCHANGED <<suCloud, suKeys>>

SuCrash ==
    /\ suPass.step # "idle"
    /\ suPass' = SuIdle
    /\ Fault /\ UNCHANGED <<suObj, suCloud, suKeys>>

-----------------------------------------------------------------------------
(* A pass over an object under deletion. *)

SuRelease == /\ suObj'  = [suObj EXCEPT !.phase = "gone", !.ready = FALSE]
             /\ suPass' = SuIdle

\* The user is read, with its policies and keys; a 404, and a status without
\* a username, let the object go.
SuFinalize ==
    /\ suObj.phase = "deleting" /\ suPass.step = "idle"
    /\ LET p == [SuIdle EXCEPT !.known = TRUE, !.detach = suCloud.policies,
                               !.keys = suCloud.keys]
       IN \/ /\ Free /\ ~(suObj.known /\ suCloud.there)
             /\ SuRelease
          \/ /\ Free /\ suObj.known /\ suCloud.there
             /\ SuGo(p, "strip") /\ UNCHANGED suObj
          \/ /\ Fault /\ suObj.known
             /\ SuEnd(p, FALSE) /\ UNCHANGED suObj
    /\ UNCHANGED <<suCloud, suKeys>>

\* Mutant: the access keys are left to the API.
SuStripPolicies ==
    /\ suPass.step = "strip"
    /\ \/ \E p \in suPass.detach :
             /\ suCloud' = [suCloud EXCEPT !.policies = @ \ {p}]
             /\ suPass'  = [suPass EXCEPT !.detach = @ \ {p}]
       \/ /\ suPass.detach = {} /\ suPass.keys # {}
          /\ suPass' = [suPass EXCEPT !.keys = {}]
          /\ UNCHANGED suCloud
    /\ Free
    /\ UNCHANGED <<suObj, suKeys>>

\* One call: the policies, then the keys.  A 404 counts as done.
SuStrip ==
    /\ suPass.step = "strip"
    /\ \/ \E p \in suPass.detach :
             /\ Free
             /\ suCloud' = [suCloud EXCEPT !.policies = @ \ {p}]
             /\ suPass'  = [suPass EXCEPT !.detach = @ \ {p}]
       \/ \E k \in suPass.keys :
             /\ Free /\ suPass.detach = {}
             /\ suCloud' = [suCloud EXCEPT !.keys = @ \ {k}]
             /\ suPass'  = [suPass EXCEPT !.keys = @ \ {k}]
       \/ /\ Fault
          /\ suPass.detach # {} \/ suPass.keys # {}
          /\ SuEnd(suPass, FALSE)
          /\ UNCHANGED suCloud
    /\ UNCHANGED <<suObj, suKeys>>

\* The user itself, refused (409) while it has policies or keys: some may be
\* new since the user was read.
SuRemove ==
    /\ suPass.step = "strip" /\ suPass.detach = {} /\ suPass.keys = {}
    /\ LET bare == suCloud.policies = {} /\ suCloud.keys = {} IN
       \/ Free /\ bare /\ suCloud' = SuNone /\ SuRelease
       \/ /\ IF bare THEN Fault ELSE Free
          /\ SuEnd(suPass, FALSE)
          /\ UNCHANGED <<suObj, suCloud>>
    /\ UNCHANGED suKeys

-----------------------------------------------------------------------------
(* Users, other objects, and what happens in the account. *)

SuEdit ==
    /\ suObj.phase = "live"
    /\ \/ \E w \in SUBSET Policies : w # suObj.want /\ suObj' = [suObj EXCEPT !.want = w]
       \/ suObj' = [suObj EXCEPT !.phase = "deleting"]
    /\ Move /\ UNCHANGED <<suCloud, suPass, suKeys>>

\* An ObjectStorageAccessKey of the user makes its key.
SuKeyMade ==
    /\ suCloud.there
    /\ suKeys' = suKeys + 1
    /\ suCloud' = [suCloud EXCEPT !.keys = @ \cup {suKeys'}]
    /\ Move /\ UNCHANGED <<suObj, suPass>>

\* Somebody makes or removes the user, or attaches or detaches a policy.
SuDrift ==
    /\ \/ suCloud' = [SuNone EXCEPT !.there = ~suCloud.there]
       \/ \E p \in Policies :
             /\ suCloud.there
             /\ suCloud' = [suCloud EXCEPT !.policies =
                              IF p \in @ THEN @ \ {p} ELSE @ \cup {p}]
    /\ Move /\ UNCHANGED <<suObj, suPass, suKeys>>

SuReconcile == \/ SuObserve \/ SuCreate \/ SuPlan \/ SuChange \/ SuSave
               \/ SuFinalize \/ SuStrip \/ SuRemove
SuNext == SuReconcile \/ SuCrash \/ SuEdit \/ SuKeyMade \/ SuDrift

-----------------------------------------------------------------------------
(* Properties. *)

\* What SuSettles of MCServices says of the end.
SuSettled ==
    /\ suObj.phase # "deleting"
    /\ suObj.phase = "live" =>
          suObj.ready /\ suCloud.there /\ suCloud.policies = suObj.want

=============================================================================
