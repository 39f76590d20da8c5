----------------------------- MODULE MCServices -----------------------------
(***************************************************************************)
(* The adapters that are modelled call by call, one at a time: flow says   *)
(* which one a behaviour is about, the others rest in an initial state.    *)
(***************************************************************************)
EXTENDS AccessKey, DatabaseUser, Database, Rotation, StorageUser

CONSTANTS
    Flows   \* a subset of {"key", "user", "db", "rotation", "storage user"}

VARIABLE flow

vars == <<flow, budget, keyVars, userVars, dbVars, rotVars, suVars>>

MCDbLists == {<<>>, <<"a">>, <<"a", "b">>, <<"b", "a">>}

Init ==
    /\ flow \in Flows
    /\ BudgetInit /\ KeyInit /\ UserInit /\ DbInit /\ RotInit /\ SuInit
    /\ flow # "user" => /\ userObj.ref = CHOOSE ref \in UserRefs : TRUE
                        /\ userSource = 0
                        /\ userCloud.there = CHOOSE b \in UserPrimary : TRUE
    /\ flow # "rotation" => /\ rotKind = CHOOSE k \in RotKinds : TRUE
                            /\ rotCloud = {} /\ rotSecret.key = 0
    /\ flow # "storage user" => suObj.want = {} /\ suCloud = SuNone

Next ==
    /\ UNCHANGED flow
    /\ \/ /\ flow = "key" /\ KeyNext
          /\ UNCHANGED <<userVars, dbVars, rotVars, suVars>>
       \/ /\ flow = "user" /\ UserNext
          /\ UNCHANGED <<keyVars, dbVars, rotVars, suVars>>
       \/ /\ flow = "db" /\ DbNext
          /\ UNCHANGED <<keyVars, userVars, rotVars, suVars>>
       \/ /\ flow = "rotation" /\ RotNext
          /\ UNCHANGED <<keyVars, userVars, dbVars, suVars>>
       \/ /\ flow = "storage user" /\ SuNext
          /\ UNCHANGED <<keyVars, userVars, dbVars, rotVars>>

\* A pass goes on, and an object gets another pass: the workqueue retries a
\* failed one and RequeueAfter brings the next.  The API finishes what it was
\* asked to do.
Fairness ==
    /\ WF_vars(flow = "key" /\ KeyReconcile /\ UNCHANGED <<flow, userVars, dbVars, rotVars, suVars>>)
    /\ WF_vars(flow = "key" /\ KeyDeliver /\ UNCHANGED <<flow, userVars, dbVars, rotVars, suVars>>)
    /\ WF_vars(flow = "user" /\ UserReconcile /\ UNCHANGED <<flow, keyVars, dbVars, rotVars, suVars>>)
    /\ WF_vars(flow = "db" /\ DbReconcile /\ UNCHANGED <<flow, keyVars, userVars, rotVars, suVars>>)
    /\ WF_vars(flow = "db" /\ DbDeliver /\ UNCHANGED <<flow, keyVars, userVars, rotVars, suVars>>)
    /\ WF_vars(flow = "db" /\ DbComeUp /\ UNCHANGED <<flow, keyVars, userVars, rotVars, suVars>>)
    /\ WF_vars(flow = "db" /\ DbHostUp /\ UNCHANGED <<flow, keyVars, userVars, rotVars, suVars>>)
    /\ WF_vars(flow = "db" /\ DbNetworkUp /\ UNCHANGED <<flow, keyVars, userVars, rotVars, suVars>>)
    /\ WF_vars(flow = "rotation" /\ RotReconcile /\ UNCHANGED <<flow, keyVars, userVars, dbVars, suVars>>)
    /\ WF_vars(flow = "storage user" /\ SuReconcile /\ UNCHANGED <<flow, keyVars, userVars, dbVars, rotVars>>)

Spec == Init /\ [][Next]_vars /\ Fairness

-----------------------------------------------------------------------------
(* Properties.  Each of the modules has the invariants on its own state. *)

\* In the end a live key is there with the status its spec asks for, also
\* when it was deleted by others or its creation was undone, and an object
\* under deletion is gone (objectstorageaccesskey_adapter.go).
KeySettles == <>[](flow = "key" => KeySettled)

\* In the end the user in the database has the desired password and access
\* control and the object is Ready; when the API generated the password, the
\* credentials Secret has that password, whatever was lost, cut short or
\* changed by others on the way (manageddatabaseuser_adapter.go, Observe heals
\* the Secret, Update pushes the password).  With passwordSecretRef this takes
\* the referenced Secret; an object under deletion goes unless its user is
\* the primary one.
UserSettles == <>[](flow = "user" => UserSettled)

\* In the end a live database has the power state, the networks and the
\* protection its spec asks for, though the calls for them are refused at
\* times and are made by one Update from one reading, and its connection
\* Secret is that of its service, though the host may come after Ready; an
\* object under deletion goes unless its service is protected
\* (manageddatabase_adapter.go, Observe, Update, Delete, networksEqual).
DbSettles == <>[](flow = "db" => DbSettled)

\* In the end the object is Ready and its resource has the material the user
\* asked for, for a bundle with the Secret's certificate; but a bundle that
\* was made anew by a pass whose status was lost stays displaced, and says so.
RotSettles == <>[](flow = "rotation" => RotSettled)

\* In the end a live user has the policies of its spec and no others, and an
\* object under deletion is gone: calls that fail halfway through attaching,
\* detaching or stripping, and keys or policies that appear meanwhile, are
\* made up for by later passes (objectstorageuser_adapter.go).
SuSettles == <>[](flow = "storage user" => SuSettled)

=============================================================================
