---------------------------- MODULE DatabaseUser ----------------------------
(***************************************************************************)
(* A ManagedDatabaseUser, call by call.  Its password comes from the       *)
(* Secret that passwordSecretRef names, or is generated by the API; the    *)
(* operator writes it to a credentials Secret.  The parent database is     *)
(* Ready and stays: module Stack has the rest of the references.           *)
(*                                                                         *)
(* A password is a number; 0 stands for a Secret that is not there.  A     *)
(* pass starts from the current object: AccessKey and Database let the     *)
(* operator's cache lag.                                                   *)
(***************************************************************************)
EXTENDS Budget

CONSTANTS
    UserRefs,    \* whether passwordSecretRef is set: a subset of BOOLEAN
    UserPrimary  \* whether the name is that of the primary user, which every
                 \* database has: a subset of BOOLEAN

ASSUME UserRefsAssumption == UserRefs \subseteq BOOLEAN /\ UserPrimary \subseteq BOOLEAN

VARIABLES
    userObj,     \* the object: phase, passwordSecretRef set, spec access control,
                 \* status.username known, status.type primary, Ready
    userCloud,   \* the user in UpCloud
    userSource,  \* the password in the referenced Secret
    userCreds,   \* the password in the credentials Secret
    userPass     \* the running pass: its copy of spec and status, and what it
                 \* has read

userVars == <<userObj, userCloud, userSource, userCreds, userPass>>

Given     == {1, 2}   \* passwords users put into the referenced Secret
Generated == 3        \* the one the API comes up with
Foreign   == 4        \* one somebody sets in the account

UserIdle == [step |-> "idle", want |-> 1, known |-> FALSE, primary |-> FALSE,
             password |-> 0, access |-> 1, ready |-> FALSE]
NoUser   == [there |-> FALSE, password |-> 0, access |-> 1, primary |-> FALSE]

UserInit ==
    /\ \E ref \in UserRefs :
          userObj = [phase |-> "live", ref |-> ref, access |-> 1,
                     known |-> FALSE, primary |-> FALSE, ready |-> FALSE]
    /\ userSource \in {0, 1}
    /\ userCreds = 0
    /\ \E primary \in UserPrimary :
          userCloud = IF primary THEN [there |-> TRUE, password |-> Generated,
                                       access |-> 1, primary |-> TRUE]
                                 ELSE NoUser
    /\ userPass = UserIdle

DesiredPassword == IF userObj.ref THEN userSource ELSE userCreds

\* The pass p goes on, or is left with its status patch to make.
UserGo(p, step)   == userPass' = [p EXCEPT !.step = step]
UserEnd(p, ready) == userPass' = [p EXCEPT !.step = "save", !.ready = ready]

-----------------------------------------------------------------------------
(* Observe. *)

\* The pass's copies before and after the GET of the user.
UserStart == [UserIdle EXCEPT !.want = userObj.access, !.known = userObj.known,
                              !.primary = userObj.primary]
UserRead  == [UserStart EXCEPT !.known = TRUE, !.primary = userCloud.primary,
                               !.password = userCloud.password,
                               !.access = userCloud.access]

UserObserve ==
    /\ userObj.phase = "live" /\ userPass.step = "idle"
    /\ LET desired == DesiredPassword
           drift == userCloud.password # desired \/ userCloud.access # userObj.access
       IN \/ Fault /\ UserEnd(UserStart, FALSE)
          \/ /\ Free /\ ~userCloud.there
             /\ UserGo(UserStart, "create")
          \/ /\ Free /\ userCloud.there /\ desired = 0
             /\ IF userObj.ref THEN UserEnd(UserRead, FALSE)
                               ELSE UserGo(UserRead, "heal")
          \/ /\ Free /\ userCloud.there /\ desired # 0
             /\ IF drift THEN UserGo(UserRead, "update") ELSE UserEnd(UserRead, TRUE)
    /\ UNCHANGED <<userObj, userCloud, userSource, userCreds>>

\* Mutant: a missing credentials Secret is noticed and not written.
UserHealForgetting ==
    /\ userPass.step = "heal"
    /\ Free
    /\ UserEnd(userPass, TRUE)
    /\ UNCHANGED <<userObj, userCloud, userSource, userCreds>>

\* The credentials Secret is gone: Observe writes it anew with the password
\* it has read, and goes on to the access control it has read.
UserHeal ==
    /\ userPass.step = "heal"
    /\ \/ /\ Free
          /\ userCreds' = userPass.password
          /\ IF userPass.access # userPass.want THEN UserGo(userPass, "update")
                                                ELSE UserEnd(userPass, TRUE)
       \/ Fault /\ UserEnd(userPass, FALSE) /\ UNCHANGED userCreds
    /\ UNCHANGED <<userObj, userCloud, userSource>>

-----------------------------------------------------------------------------
(* Create, Update, Delete. *)

\* A user that is there by now (409) is adopted by the next pass.
UserCreate ==
    /\ userPass.step = "create"
    /\ LET password == IF userObj.ref THEN userSource ELSE Generated IN
       \/ /\ Free /\ password # 0 /\ ~userCloud.there
          /\ userCloud' = [there |-> TRUE, password |-> password,
                           access |-> userPass.want, primary |-> FALSE]
          /\ UserGo([userPass EXCEPT !.known = TRUE, !.primary = FALSE,
                                     !.password = password], "write")
       \/ /\ IF password = 0 \/ userCloud.there THEN Free ELSE Fault
          /\ UserEnd(userPass, FALSE)
          /\ UNCHANGED userCloud
    /\ UNCHANGED <<userObj, userSource, userCreds>>

\* writeCredentialsSecret at the end of Create.
UserWrite ==
    /\ userPass.step = "write"
    /\ \/ Free  /\ userCreds' = userPass.password
       \/ Fault /\ UNCHANGED userCreds
    /\ UserEnd(userPass, FALSE)
    /\ UNCHANGED <<userObj, userCloud, userSource>>

\* Update reads user and Secret again and pushes the password; the access
\* control is compared with what was read before that.
UserPush ==
    /\ userPass.step = "update"
    /\ \/ /\ Free /\ userCloud.there /\ DesiredPassword # 0
          /\ userCloud' = [userCloud EXCEPT !.password = DesiredPassword]
          /\ IF userCloud.access # userPass.want THEN UserGo(userPass, "access")
                                                 ELSE UserEnd(userPass, FALSE)
       \/ /\ IF userCloud.there /\ DesiredPassword # 0 THEN Fault ELSE Free
          /\ UserEnd(userPass, FALSE)
          /\ UNCHANGED userCloud
    /\ UNCHANGED <<userObj, userSource, userCreds>>

UserAccess ==
    /\ userPass.step = "access"
    /\ \/ /\ Free
          /\ userCloud' = IF userCloud.there
                          THEN [userCloud EXCEPT !.access = userPass.want]
                          ELSE userCloud
       \/ Fault /\ UNCHANGED userCloud
    /\ UserEnd(userPass, FALSE)
    /\ UNCHANGED <<userObj, userSource, userCreds>>

\* The status patch that ends a pass.
UserSave ==
    /\ userPass.step = "save"
    /\ userObj'  = [userObj EXCEPT !.ready = userPass.ready, !.known = userPass.known,
                                   !.primary = userPass.primary]
    /\ userPass' = UserIdle
    /\ Free /\ UNCHANGED <<userCloud, userSource, userCreds>>

\* The operator is restarted, or the patch fails.
UserCrash ==
    /\ userPass.step # "idle"
    /\ userPass' = UserIdle
    /\ Fault /\ UNCHANGED <<userObj, userCloud, userSource, userCreds>>

\* Delete: refused for a primary user, nothing to do for an unknown one.  The
\* credentials Secret, owned by the object, goes with it.
UserFinalize ==
    /\ userObj.phase = "deleting" /\ userPass.step = "idle"
    /\ \/ /\ Free /\ ~(userObj.known /\ userObj.primary)
          /\ userCloud' = IF userObj.known THEN NoUser ELSE userCloud
          /\ userObj'   = [userObj EXCEPT !.phase = "gone", !.ready = FALSE]
          /\ userCreds' = 0
       \/ /\ IF userObj.known /\ userObj.primary THEN Free ELSE Fault
          /\ userObj' = [userObj EXCEPT !.ready = FALSE]
          /\ UNCHANGED <<userCloud, userCreds>>
    /\ UNCHANGED <<userSource, userPass>>

-----------------------------------------------------------------------------
(* Users, and what happens in the account. *)

UserDelete ==
    /\ userObj.phase = "live"
    /\ userObj' = [userObj EXCEPT !.phase = "deleting"]
    /\ Move /\ UNCHANGED <<userCloud, userSource, userCreds, userPass>>

UserEdit ==
    /\ userObj.phase = "live"
    /\ userObj' = [userObj EXCEPT !.access = 3 - @]
    /\ Move /\ UNCHANGED <<userCloud, userSource, userCreds, userPass>>

\* The referenced Secret gets a new password; the credentials Secret is
\* deleted by somebody.
UserSourceSet ==
    /\ userObj.ref
    /\ userSource' \in Given \ {userSource}
    /\ Move /\ UNCHANGED <<userObj, userCloud, userCreds, userPass>>

UserCredsLost ==
    /\ userCreds # 0
    /\ userCreds' = 0
    /\ Move /\ UNCHANGED <<userObj, userCloud, userSource, userPass>>

\* Somebody sets the user's password, removes the user, or makes it.
UserDrift ==
    /\ \/ /\ userCloud.there
          /\ userCloud' = [userCloud EXCEPT !.password = Foreign]
       \/ /\ userCloud.there /\ ~userCloud.primary
          /\ userCloud' = NoUser
       \/ /\ ~userCloud.there
          /\ userCloud' = [NoUser EXCEPT !.there = TRUE, !.password = Foreign]
    /\ Move /\ UNCHANGED <<userObj, userSource, userCreds, userPass>>

UserReconcile == \/ UserObserve \/ UserHeal \/ UserCreate \/ UserWrite
                 \/ UserPush \/ UserAccess \/ UserSave \/ UserFinalize
UserNext == \/ UserReconcile \/ UserCrash \/ UserDelete \/ UserEdit
            \/ UserSourceSet \/ UserCredsLost \/ UserDrift

-----------------------------------------------------------------------------
(* Properties. *)

\* What UserSettles of MCServices says of the end.
UserSettled ==
    /\ userObj.phase = "live" /\ (userObj.ref => userSource # 0) =>
         /\ userObj.ready /\ userCloud.there
         /\ userCloud.password = DesiredPassword
         /\ userCloud.access = userObj.access
         /\ ~userObj.ref => userCreds = userCloud.password
    /\ userObj.phase = "deleting" => userCloud.primary

\* What the README says of a Ready user: its credentials Secret was written.
UserSecretWritten == userObj.ready => userCreds # 0

=============================================================================
