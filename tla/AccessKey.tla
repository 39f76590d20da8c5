----------------------------- MODULE AccessKey -----------------------------
(***************************************************************************)
(* An ObjectStorageAccessKey, call by call.  The API returns the secret    *)
(* part of a key once, in the answer to the create call; Create puts it in *)
(* a Secret of the cluster, and deletes the key again when it cannot.  The *)
(* parent user is Ready: module Stack has the rest of the references.      *)
(*                                                                         *)
(* Nothing marks a key as that of an object, so a pass that finds no id in *)
(* its copy of the status makes a key.  The copy comes from the operator's *)
(* cache, which lags behind the server: a pass that starts from an         *)
(* outdated copy uses up a fault.                                          *)
(***************************************************************************)
EXTENDS Budget

VARIABLES
    keyObj,     \* the object on the server: phase, status.accessKeyID (0: empty),
                \* spec.status, Ready, resourceVersion
    keyCache,   \* the version of it in the operator's cache
    keyEvents,  \* the versions the watch has yet to deliver
    keys,       \* the keys of the user in UpCloud: [id, active]
    keySecret,  \* the access key id in the Secret, 0 while there is none
    keyPass,    \* the running pass: the version read, its own id and Ready
    keyMade,    \* the ids handed out are 1..keyMade
    keyLost,    \* history: keys whose deletion by Create failed too
    keyBuried   \* history: keys in status when a pass that had read another id
                \* wrote the Secret

keyVars == <<keyObj, keyCache, keyEvents, keys, keySecret, keyPass, keyMade, keyLost,
             keyBuried>>

NoKey   == [phase |-> "gone", id |-> 0, active |-> TRUE, ready |-> FALSE, rv |-> 0]
KeyIdle == [step |-> "idle", id |-> 0, ready |-> FALSE, read |-> NoKey]

KeyInit ==
    /\ keyObj = [NoKey EXCEPT !.phase = "live", !.rv = 1]
    /\ keyCache = keyObj /\ keyEvents = {}
    /\ keys = {} /\ keySecret = 0 /\ keyMade = 0 /\ keyLost = {} /\ keyBuried = {}
    /\ keyPass = KeyIdle

KeyAt(id) == {r \in keys : r.id = id}

\* The pass goes on, or is left with its status patch to make.
KeyStep(step) == keyPass' = [keyPass EXCEPT !.step = step]
KeyEnd(ready) == keyPass' = [keyPass EXCEPT !.step = "save", !.ready = ready]

\* A write that changes the object makes a new version and an event.
KeyPut(o) ==
    IF o = keyObj THEN UNCHANGED <<keyObj, keyEvents>>
    ELSE /\ keyObj' = [o EXCEPT !.rv = @ + 1]
         /\ keyEvents' = keyEvents \cup {keyObj'}

\* The cache moves on, and may skip versions; it does not go back.
KeyDeliver ==
    /\ \E e \in keyEvents :
          /\ keyCache' = e
          /\ keyEvents' = {f \in keyEvents : f.rv > e.rv}
    /\ Free /\ UNCHANGED <<keyObj, keys, keySecret, keyPass, keyMade, keyLost, keyBuried>>

-----------------------------------------------------------------------------
\* Reconcile reads the object from the cache.
KeyStart ==
    /\ keyPass.step = "idle" /\ keyCache.phase # "gone"
    /\ IF keyEvents = {} THEN Free ELSE Fault
    /\ keyPass' = [step |-> IF keyCache.phase = "live" THEN "observe" ELSE "delete",
                   id |-> keyCache.id, ready |-> keyCache.ready, read |-> keyCache]
    /\ UNCHANGED <<keyObj, keyCache, keyEvents, keys, keySecret, keyMade, keyLost, keyBuried>>

\* The GET by the id in status; a 404, or no id, calls for Create.  Failing
\* otherwise, the pass reports and leaves the id alone.
KeyObserve ==
    /\ keyPass.step = "observe"
    /\ \/ Free  /\ KeyAt(keyPass.id) = {} /\ KeyStep("create")
       \/ Free  /\ \E r \in KeyAt(keyPass.id) :
                      IF r.active = keyPass.read.active THEN KeyEnd(TRUE) ELSE KeyStep("update")
       \/ Fault /\ keyPass.id # 0 /\ KeyEnd(FALSE)
    /\ UNCHANGED <<keyObj, keyCache, keyEvents, keys, keySecret, keyMade, keyLost, keyBuried>>

\* The create call; the id goes into the pass's copy of the status.
KeyCreate ==
    /\ keyPass.step = "create"
    /\ \/ /\ Free
          /\ keyMade' = keyMade + 1
          /\ keys' = keys \cup {[id |-> keyMade', active |-> TRUE]}
          /\ keyPass' = [keyPass EXCEPT !.step = "describe", !.id = keyMade']
       \/ /\ Fault
          /\ KeyEnd(FALSE)
          /\ UNCHANGED <<keys, keyMade>>
    /\ UNCHANGED <<keyObj, keyCache, keyEvents, keySecret, keyLost, keyBuried>>

\* secretData: the service's endpoint is read.  When that fails the key is
\* deleted but its id stays in the status.
KeyDescribe ==
    /\ keyPass.step = "describe"
    /\ \/ Free  /\ KeyStep("write")
       \/ Fault /\ KeyStep("undo")
    /\ UNCHANGED <<keyObj, keyCache, keyEvents, keys, keySecret, keyMade, keyLost, keyBuried>>

\* Mutant: a failed write neither deletes the key nor clears its id.
KeyWriteKeeping ==
    /\ keyPass.step = "write"
    /\ \/ Free  /\ keySecret' = keyPass.id
       \/ Fault /\ UNCHANGED keySecret
    /\ KeyEnd(FALSE)
    /\ UNCHANGED <<keyObj, keyCache, keyEvents, keys, keyMade, keyLost, keyBuried>>

\* WriteOwnedSecret.  When that fails the key is deleted and its id cleared.
KeyWrite ==
    /\ keyPass.step = "write"
    /\ \/ /\ Free
          /\ keySecret' = keyPass.id
          /\ keyBuried' = keyBuried \cup ({keyObj.id} \ {keyPass.read.id})
          /\ KeyEnd(FALSE)
       \/ Fault /\ KeyStep("undo and clear") /\ UNCHANGED <<keySecret, keyBuried>>
    /\ UNCHANGED <<keyObj, keyCache, keyEvents, keys, keyMade, keyLost>>

\* deleteKey, its error ignored.
KeyUndo ==
    /\ keyPass.step \in {"undo", "undo and clear"}
    /\ \/ Free  /\ keys' = keys \ KeyAt(keyPass.id) /\ UNCHANGED keyLost
       \/ Fault /\ keyLost' = keyLost \cup {keyPass.id} /\ UNCHANGED keys
    /\ keyPass' = [keyPass EXCEPT !.step = "save", !.ready = FALSE,
                                  !.id = IF keyPass.step = "undo" THEN @ ELSE 0]
    /\ UNCHANGED <<keyObj, keyCache, keyEvents, keySecret, keyMade, keyBuried>>

\* Mutant: the default is sent, whatever the spec says.
KeyUpdateDefault ==
    /\ keyPass.step = "update" /\ Free
    /\ keys' = {[r EXCEPT !.active = TRUE] : r \in keys}
    /\ KeyEnd(FALSE)
    /\ UNCHANGED <<keyObj, keyCache, keyEvents, keySecret, keyMade, keyLost, keyBuried>>

\* Update: the key's status is modified; a 404 is an error.
KeyUpdate ==
    /\ keyPass.step = "update"
    /\ \/ /\ Free
          /\ keys' = {IF r.id = keyPass.id THEN [r EXCEPT !.active = keyPass.read.active]
                                           ELSE r : r \in keys}
       \/ Fault /\ UNCHANGED keys
    /\ KeyEnd(FALSE)
    /\ UNCHANGED <<keyObj, keyCache, keyEvents, keySecret, keyMade, keyLost, keyBuried>>

\* The merge patch carries what differs from the version read, on whatever
\* version the server has.  A Ready condition that is what it was may still
\* be sent, for its reason or message.
KeySave ==
    /\ keyPass.step = "save"
    /\ IF keyObj.phase = "gone" THEN UNCHANGED <<keyObj, keyEvents>>
       ELSE \E ready \in {keyPass.ready, keyObj.ready} :
              /\ keyPass.ready # keyPass.read.ready => ready = keyPass.ready
              /\ KeyPut([keyObj EXCEPT
                     !.id = IF keyPass.id # keyPass.read.id THEN keyPass.id ELSE @,
                     !.ready = ready])
    /\ keyPass' = KeyIdle
    /\ Free /\ UNCHANGED <<keyCache, keys, keySecret, keyMade, keyLost, keyBuried>>

\* The patch fails, or the operator is restarted.
KeyCrash ==
    /\ keyPass.step # "idle"
    /\ keyPass' = KeyIdle
    /\ Fault
    /\ UNCHANGED <<keyObj, keyCache, keyEvents, keys, keySecret, keyMade, keyLost, keyBuried>>

\* Delete: without an id there is nothing to do, and a 404 counts as deleted.
KeyDestroy ==
    /\ keyPass.step = "delete"
    /\ \/ Free  /\ keys' = keys \ KeyAt(keyPass.id) /\ KeyStep("release")
       \/ Fault /\ keyPass.id # 0 /\ KeyEnd(FALSE) /\ UNCHANGED keys
    /\ UNCHANGED <<keyObj, keyCache, keyEvents, keySecret, keyMade, keyLost, keyBuried>>

\* The finalizer is removed by an Update, which conflicts unless the version
\* read is the server's; the object goes, and its Secret, which it owns.
KeyRelease ==
    /\ keyPass.step = "release"
    /\ IF keyPass.read.rv = keyObj.rv
       THEN KeyPut([keyObj EXCEPT !.phase = "gone", !.id = 0, !.ready = FALSE]) /\ keySecret' = 0
       ELSE UNCHANGED <<keyObj, keyEvents, keySecret>>
    /\ keyPass' = KeyIdle
    /\ Free /\ UNCHANGED <<keyCache, keys, keyMade, keyLost, keyBuried>>

-----------------------------------------------------------------------------
\* A user deletes the object or edits it; somebody deletes the key.
KeyDelete ==
    /\ keyObj.phase = "live"
    /\ KeyPut([keyObj EXCEPT !.phase = "deleting"])
    /\ Move /\ UNCHANGED <<keyCache, keys, keySecret, keyPass, keyMade, keyLost, keyBuried>>

KeyEdit ==
    /\ keyObj.phase # "gone"
    /\ KeyPut([keyObj EXCEPT !.active = ~@])
    /\ Move /\ UNCHANGED <<keyCache, keys, keySecret, keyPass, keyMade, keyLost, keyBuried>>

KeyVanish ==
    /\ \E r \in keys : keys' = keys \ {r}
    /\ Move
    /\ UNCHANGED <<keyObj, keyCache, keyEvents, keySecret, keyPass, keyMade, keyLost, keyBuried>>

KeyReconcile == \/ KeyStart \/ KeyObserve \/ KeyCreate \/ KeyDescribe \/ KeyWrite
                \/ KeyUndo \/ KeyUpdate \/ KeySave \/ KeyDestroy \/ KeyRelease
KeyNext == KeyReconcile \/ KeyDeliver \/ KeyCrash \/ KeyDelete \/ KeyEdit \/ KeyVanish

-----------------------------------------------------------------------------
(* Properties. *)

\* A Ready key is one whose secret part the cluster has: the Secret holds the
\* key that status.accessKeyID names (Create writes the Secret before the
\* status is saved, or undoes the key), as long as there is such a key.  Two
\* keys are excepted: one whose undoing failed as well, and one that was in
\* status when a pass that had read another id put its own key in the Secret.
\* If that pass saves its id, the status names the key in the Secret again.
\* objectstorageaccesskey_adapter.go, Create and Observe.
KeyReadyMeansSecret ==
    keyObj.ready /\ KeyAt(keyObj.id) # {} /\ keyObj.id \notin keyLost \cup keyBuried
        => keySecret = keyObj.id

\* What KeySettles of MCServices says of the end.
KeySettled ==
    /\ keyObj.phase # "deleting"
    /\ keyObj.phase = "live" =>
          keyObj.ready /\ [id |-> keyObj.id, active |-> keyObj.active] \in keys

\* objectstorageaccesskey_adapter_test.go:52 expects the Secret's
\* AWS_ACCESS_KEY_ID to equal status.accessKeyID: of a Ready key whose undoing
\* did not fail this should always be so.
KeySecretInStep ==
    keyObj.ready /\ KeyAt(keyObj.id) # {} /\ keyObj.id \notin keyLost
        => keySecret = keyObj.id

=============================================================================
