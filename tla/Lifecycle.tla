----------------------------- MODULE Lifecycle -----------------------------
(***************************************************************************)
(* What the operator promises of one object, whatever its kind: the        *)
(* abstract specification that module Stack implements for every object    *)
(* of a stack.                                                             *)
(*                                                                         *)
(* stage is what a user sees of the object: it is absent, "new" (without   *)
(* the operator's finalizer), "waiting" (Ready is not True), "ready" or    *)
(* "deleting".  has says whether the object has a resource: one whose      *)
(* identifier it recorded, or one made for it by a pass that reported its  *)
(* success.                                                                *)
(***************************************************************************)

VARIABLES stage, has

Stages == {"absent", "new", "waiting", "ready", "deleting"}

TypeOK == stage \in Stages /\ has \in BOOLEAN

Init == stage \in {"absent", "new"} /\ has = FALSE

Submit == stage = "absent" /\ ~has /\ stage' = "new" /\ UNCHANGED has

\* The operator puts its finalizer on the object before it does anything.
Accept == stage = "new" /\ stage' = "waiting" /\ UNCHANGED has

\* A user deletes an object the operator has not put its finalizer on.
Abandon == stage = "new" /\ stage' = "absent" /\ UNCHANGED has

\* A resource is created or adopted.  It may come late: the object may have
\* been marked for deletion since the pass began.
Provision ==
    /\ stage \in {"waiting", "ready", "deleting"}
    /\ has' = TRUE
    /\ stage' = IF stage = "deleting" THEN "deleting" ELSE "waiting"

\* Ready is only reported of an object that has a resource.
Succeed == stage \in {"waiting", "ready"} /\ has' /\ stage' = "ready"

\* Ready is withdrawn, and the resource may be gone (it was replaced and
\* creating the new one failed).
Falter ==
    /\ stage \in {"waiting", "ready"}
    /\ stage' = "waiting"
    /\ has' \in {has, FALSE}

\* The resource goes: its container was removed, or somebody removed it.
Lose == has /\ ~has' /\ UNCHANGED stage

Withdraw ==
    /\ stage \in {"waiting", "ready"}
    /\ stage' = "deleting"
    /\ UNCHANGED has

\* The finalizer is taken off, and no resource is left behind.
Leave == stage = "deleting" /\ stage' = "absent" /\ ~has'

Next ==
    \/ Submit \/ Accept \/ Abandon \/ Provision \/ Succeed
    \/ Falter \/ Lose \/ Withdraw \/ Leave

Spec == Init /\ [][Next]_<<stage, has>>
=============================================================================
