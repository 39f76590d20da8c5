--------------------------- MODULE ServicesProofs ---------------------------
(***************************************************************************)
(* Proofs about the adapters that are modelled call by call.  Each of the  *)
(* three invariants is strengthened to an inductive one that speaks of the *)
(* running pass; the adapters a behaviour is not about stay as they are.   *)
(***************************************************************************)
EXTENDS MCServices, TLAPS

-----------------------------------------------------------------------------
(* The access key. *)

KeySteps   == {"idle", "observe", "create", "describe", "write", "undo",
               "undo and clear", "update", "save", "delete", "release"}
KeyObjects == [phase : {"live", "deleting", "gone"}, id : Nat,
               active : BOOLEAN, ready : BOOLEAN, rv : Nat]
KeyPasses  == [step : KeySteps, id : Nat, ready : BOOLEAN, read : KeyObjects]
KeyRecords == [id : Nat, active : BOOLEAN]

\* No version of the object, on the server, in the cache or on its way there,
\* has an id that was not handed out.
KeyVersion(o) == o \in KeyObjects /\ o.id <= keyMade
KeyVersions   == /\ KeyVersion(keyObj) /\ KeyVersion(keyCache)
                 /\ \A e \in keyEvents : KeyVersion(e)
KeyCopies     == /\ keyPass \in KeyPasses /\ keyPass.id <= keyMade
                 /\ keyPass.read.id <= keyMade
KeyStored     == \A r \in keys : r \in KeyRecords /\ r.id # 0 /\ r.id <= keyMade

KeyTypes == keyMade \in Nat /\ KeyVersions /\ KeyCopies /\ KeyStored

\* The key with the id is gone; or the Secret has it, unless its undoing failed
\* or a pass that had read another id put its own key there.
KeyGone(id) == \A r \in keys : r.id # id
KeyKept(id) == KeyGone(id) \/ id \in keyLost \cup keyBuried \/ keySecret = id

\* A pass that has begun to create a key does so because the one it read the
\* id of is gone; the id a pass is about to save is the one it read, or kept.
KeyRest ==
    /\ KeyKept(keyObj.id)
    /\ keyPass.step \in {"observe", "create", "update", "delete", "release"} =>
           keyPass.id = keyPass.read.id
    /\ keyPass.step \in {"create", "describe", "write", "undo", "undo and clear"} =>
           KeyGone(keyPass.read.id)
    /\ keyPass.step = "save" => keyPass.id = keyPass.read.id \/ KeyKept(keyPass.id)

KeyInv == KeyTypes /\ KeyRest

\* Between passes the access key has no copy of its object.
LEMMA KeyIdleFacts ==
    /\ KeyIdle \in KeyPasses
    /\ KeyIdle.step = "idle" /\ KeyIdle.id = 0 /\ KeyIdle.read.id = 0
BY DEF KeyIdle, KeyPasses, KeySteps, NoKey, KeyObjects

\* A pass of the access key that goes on to its next call keeps its ids.
LEMMA KeyStepFacts ==
    ASSUME NEW s \in KeySteps, keyPass \in KeyPasses, KeyStep(s)
    PROVE  /\ keyPass' \in KeyPasses /\ keyPass'.step = s
           /\ keyPass'.id = keyPass.id /\ keyPass'.read = keyPass.read
BY DEF KeyStep, KeyPasses

\* A pass of the access key that is left with its status patch keeps its ids.
LEMMA KeyEndFacts ==
    ASSUME NEW b \in BOOLEAN, keyPass \in KeyPasses, KeyEnd(b)
    PROVE  /\ keyPass' \in KeyPasses /\ keyPass'.step = "save"
           /\ keyPass'.id = keyPass.id /\ keyPass'.read = keyPass.read
BY DEF KeyEnd, KeyPasses, KeySteps

\* The create call puts the new id in the copy of the status that the pass has.
LEMMA KeyPassFacts ==
    ASSUME NEW n \in Nat, keyPass \in KeyPasses,
           keyPass' = [keyPass EXCEPT !.step = "describe", !.id = n]
    PROVE  /\ keyPass' \in KeyPasses /\ keyPass'.step = "describe"
           /\ keyPass'.id = n /\ keyPass'.read = keyPass.read
BY DEF KeyPasses, KeySteps

\* A key that the create call returns is an active one.
LEMMA KeyRecordFacts ==
    ASSUME NEW n \in Nat
    PROVE  [id |-> n, active |-> TRUE] \in KeyRecords /\ [id |-> n, active |-> TRUE].id = n
BY DEF KeyRecords

\* An object that goes has no id.
LEMMA KeyReleaseFacts ==
    ASSUME NEW o, keyObj \in KeyObjects,
           o = [keyObj EXCEPT !.phase = "gone", !.id = 0, !.ready = FALSE]
    PROVE  o \in KeyObjects /\ o.id = 0
BY DEF KeyObjects

\* A write leaves a version with the id that was written, and at most an event
\* for it.
LEMMA KeyPutFacts ==
    ASSUME NEW o \in KeyObjects, KeyPut(o)
    PROVE  /\ keyObj' \in KeyObjects /\ keyObj'.id = o.id
           /\ keyEvents' \subseteq keyEvents \cup {keyObj'}
<1>1. CASE o = keyObj
  BY <1>1 DEF KeyPut
<1>2. CASE o # keyObj
  <2>1. keyObj' = [o EXCEPT !.rv = o.rv + 1] /\ keyEvents' = keyEvents \cup {keyObj'}
    BY <1>2 DEF KeyPut
  <2>2. QED
    BY <2>1 DEF KeyObjects
<1>3. QED
  BY <1>1, <1>2

\* A write by the status patch, the finalizer's removal or a user leaves the
\* versions well formed.
LEMMA KeyPutVersions ==
    ASSUME KeyTypes, NEW o \in KeyObjects, o.id <= keyMade, KeyPut(o),
           UNCHANGED <<keyCache, keyMade>>
    PROVE  KeyVersions' /\ keyObj'.id = o.id
BY KeyPutFacts DEF KeyTypes, KeyVersions, KeyVersion

\* A step of the pass that leaves the versions alone, and what is kept, and
\* goes on to a call that is made with the id that was read.
LEMMA KeyPassive ==
    ASSUME KeyInv, UNCHANGED <<keyObj, keyCache, keyEvents, keySecret, keyMade, keyBuried>>,
           keys' \subseteq keys, keyLost \subseteq keyLost',
           keyPass' \in KeyPasses, keyPass'.id <= keyMade, keyPass'.read.id <= keyMade,
           keyPass'.step \in {"observe", "create", "update", "delete", "release"} =>
               keyPass'.id = keyPass'.read.id,
           keyPass'.step \in {"create", "describe", "write", "undo", "undo and clear"} =>
               \A r \in keys' : r.id # keyPass'.read.id,
           keyPass'.step = "save" =>
               \/ keyPass'.id = keyPass'.read.id
               \/ \A r \in keys' : r.id # keyPass'.id
               \/ keyPass'.id \in keyLost' \cup keyBuried'
    PROVE  KeyInv'
<1>1. KeyTypes'
  BY DEF KeyInv, KeyTypes, KeyVersions, KeyVersion, KeyCopies, KeyStored
<1>2. KeyKept(keyObj.id)'
  BY DEF KeyInv, KeyRest, KeyKept, KeyGone
<1>3. KeyRest'
  BY <1>2 DEF KeyRest, KeyKept, KeyGone
<1>4. QED
  BY <1>1, <1>3 DEF KeyInv

\* A new access key object, without an id and without a pass, satisfies the
\* invariant.
LEMMA KeyInvInit == KeyInit => KeyInv
<1> SUFFICES ASSUME KeyInit PROVE KeyInv
  OBVIOUS
<1>1. keyObj \in KeyObjects /\ keyObj.id = 0 /\ keyCache = keyObj /\ keyEvents = {}
  BY DEF KeyInit, KeyObjects, NoKey
<1>2. keyPass = KeyIdle
  BY DEF KeyInit
<1>3. keys = {} /\ keyMade = 0
  BY DEF KeyInit
<1>4. KeyTypes
  BY <1>1, <1>2, <1>3, KeyIdleFacts
  DEF KeyTypes, KeyVersions, KeyVersion, KeyCopies, KeyStored
<1>5. KeyRest
  BY <1>2, <1>3, KeyIdleFacts DEF KeyRest, KeyKept, KeyGone
<1>6. QED
  BY <1>4, <1>5 DEF KeyInv

\* Every call of the access key's pass, the cache's progress, a restart, and
\* what users and others do, preserve the invariant.
LEMMA KeyInvStep == KeyInv /\ KeyNext => KeyInv'
<1> SUFFICES ASSUME KeyInv, KeyNext PROVE KeyInv'
  OBVIOUS
<1>s. KeyTypes /\ KeyRest
  BY DEF KeyInv
<1>t. /\ keyMade \in Nat /\ keyObj \in KeyObjects /\ keyObj.id <= keyMade
      /\ keyPass \in KeyPasses /\ keyPass.id <= keyMade /\ keyPass.read \in KeyObjects
      /\ keyPass.read.id <= keyMade
  BY <1>s DEF KeyTypes, KeyVersions, KeyVersion, KeyCopies, KeyPasses
<1>i. ASSUME keyPass' = KeyIdle, keys' \subseteq keys,
             UNCHANGED <<keyObj, keyCache, keyEvents, keySecret, keyMade, keyLost, keyBuried>>
      PROVE  KeyInv'
  BY <1>t, <1>i, KeyIdleFacts, KeyPassive
<1>1. CASE KeyDeliver
  <2>1. PICK e \in keyEvents : /\ keyCache' = e
                               /\ keyEvents' = {f \in keyEvents : f.rv > e.rv}
    BY <1>1 DEF KeyDeliver
  <2>2. UNCHANGED <<keyObj, keys, keySecret, keyPass, keyMade, keyLost, keyBuried>>
    BY <1>1 DEF KeyDeliver
  <2>3. KeyTypes'
    BY <1>s, <2>1, <2>2 DEF KeyTypes, KeyVersions, KeyVersion, KeyCopies, KeyStored
  <2>4. KeyRest'
    BY <1>s, <2>2 DEF KeyRest, KeyKept, KeyGone
  <2>5. QED
    BY <2>3, <2>4 DEF KeyInv
<1>2. CASE KeyStart
  <2>1. UNCHANGED <<keyObj, keyCache, keyEvents, keys, keySecret, keyMade, keyLost, keyBuried>>
    BY <1>2 DEF KeyStart
  <2>2. keyCache \in KeyObjects /\ keyCache.id <= keyMade
    BY <1>s DEF KeyTypes, KeyVersions, KeyVersion
  <2>3. /\ keyPass' \in KeyPasses /\ keyPass'.step \in {"observe", "delete"}
        /\ keyPass'.id = keyCache.id /\ keyPass'.read = keyCache
    BY <1>2, <2>2 DEF KeyStart, KeyPasses, KeySteps, KeyObjects
  <2>4. QED
    BY <2>1, <2>2, <2>3, KeyPassive
<1>3. CASE KeyObserve
  <2>1. /\ UNCHANGED <<keyObj, keyCache, keyEvents, keys, keySecret, keyMade, keyLost, keyBuried>>
        /\ keyPass.id = keyPass.read.id
    BY <1>s, <1>3 DEF KeyObserve, KeyRest
  <2>2. CASE KeyAt(keyPass.id) = {} /\ KeyStep("create")
    <3>1. \A r \in keys' : r.id # keyPass.read.id
      BY <2>1, <2>2 DEF KeyAt
    <3>2. QED
      BY <1>t, <2>1, <2>2, <3>1, KeyStepFacts, KeyPassive DEF KeySteps
  <2>3. CASE KeyStep("update")
    BY <1>t, <2>1, <2>3, KeyStepFacts, KeyPassive DEF KeySteps
  <2>4. CASE \E b \in BOOLEAN : KeyEnd(b)
    BY <1>t, <2>1, <2>4, KeyEndFacts, KeyPassive
  <2>5. QED
    BY <1>3, <2>2, <2>3, <2>4 DEF KeyObserve
<1>4. CASE KeyCreate
  <2>1. /\ UNCHANGED <<keyObj, keyCache, keyEvents, keySecret, keyLost, keyBuried>>
        /\ keyPass.step = "create" /\ keyPass.id = keyPass.read.id
        /\ KeyGone(keyPass.read.id)
    BY <1>s, <1>4 DEF KeyCreate, KeyRest
  <2>2. CASE KeyEnd(FALSE) /\ UNCHANGED <<keys, keyMade>>
    BY <1>t, <2>1, <2>2, KeyEndFacts, KeyPassive
  <2>3. ASSUME NEW new, keyMade' = keyMade + 1, keys' = keys \cup {new},
               new \in KeyRecords, new.id = keyMade',
               keyPass' = [keyPass EXCEPT !.step = "describe", !.id = keyMade']
        PROVE  KeyInv'
    <3>0. keyMade' \in Nat /\ keyMade < keyMade'
      BY <1>t, <2>3
    <3>1. /\ keyPass' \in KeyPasses /\ keyPass'.step = "describe"
          /\ keyPass'.id = keyMade' /\ keyPass'.read = keyPass.read
      BY <1>t, <2>3, <3>0, KeyPassFacts
    <3>a. \A o : KeyVersion(o) => o \in KeyObjects /\ o.id <= keyMade'
      BY <1>t, <3>0 DEF KeyVersion, KeyObjects
    <3>b. KeyVersions'
      BY <1>s, <2>1, <3>a DEF KeyTypes, KeyVersions, KeyVersion
    <3>c. KeyCopies' /\ KeyStored'
      BY <1>s, <1>t, <2>3, <3>0, <3>1 DEF KeyTypes, KeyCopies, KeyStored, KeyRecords, KeyObjects
    <3>2. KeyTypes'
      BY <3>0, <3>b, <3>c DEF KeyTypes
    <3>3. new.id # keyObj.id /\ new.id # keyPass.read.id
      BY <1>t, <2>3, <3>0 DEF KeyObjects
    <3>4. KeyKept(keyObj.id)' /\ KeyGone(keyPass.read.id)'
      BY <1>s, <2>1, <2>3, <3>1, <3>3 DEF KeyRest, KeyKept, KeyGone
    <3>5. QED
      BY <3>1, <3>2, <3>4 DEF KeyInv, KeyRest
  <2>4. keyMade + 1 \in Nat
    BY <1>t
  <2>5. QED
    BY <1>4, <2>2, <2>3, <2>4, KeyRecordFacts DEF KeyCreate
<1>5. CASE KeyDescribe
  <2>1. \E s \in {"write", "undo"} : KeyStep(s)
    BY <1>5 DEF KeyDescribe
  <2>2. /\ UNCHANGED <<keyObj, keyCache, keyEvents, keys, keySecret, keyMade, keyLost, keyBuried>>
        /\ KeyGone(keyPass.read.id)
    BY <1>s, <1>5 DEF KeyDescribe, KeyRest
  <2>3. QED
    BY <1>t, <2>1, <2>2, KeyStepFacts, KeyPassive DEF KeySteps, KeyGone
<1>6. CASE KeyWrite
  <2>1. /\ UNCHANGED <<keyObj, keyCache, keyEvents, keys, keyMade, keyLost>>
        /\ KeyGone(keyPass.read.id)
    BY <1>s, <1>6 DEF KeyWrite, KeyRest
  <2>2. CASE /\ keySecret' = keyPass.id /\ KeyEnd(FALSE)
             /\ keyBuried' = keyBuried \cup ({keyObj.id} \ {keyPass.read.id})
    <3>1. /\ keyPass' \in KeyPasses /\ keyPass'.step = "save"
          /\ keyPass'.id = keyPass.id /\ keyPass'.read = keyPass.read
      BY <1>t, <2>2, KeyEndFacts
    <3>2. KeyTypes'
      BY <1>s, <2>1, <3>1 DEF KeyTypes, KeyVersions, KeyVersion, KeyCopies, KeyStored
    <3>3. KeyKept(keyObj.id)' /\ KeyKept(keyPass.id)'
      BY <2>1, <2>2, <3>1 DEF KeyKept, KeyGone
    <3>4. QED
      BY <3>1, <3>2, <3>3 DEF KeyInv, KeyRest
  <2>3. CASE KeyStep("undo and clear") /\ UNCHANGED <<keySecret, keyBuried>>
    BY <1>t, <2>1, <2>3, KeyStepFacts, KeyPassive DEF KeySteps, KeyGone
  <2>4. QED
    BY <1>6, <2>2, <2>3 DEF KeyWrite
<1>7. CASE KeyUndo
  <2>1. /\ keyPass' \in KeyPasses /\ keyPass'.step = "save"
        /\ keyPass'.id \in {0, keyPass.id} /\ keyPass'.read = keyPass.read
    BY <1>t, <1>7 DEF KeyUndo, KeyPasses, KeySteps
  <2>2. /\ keys' \subseteq keys /\ keyLost \subseteq keyLost'
        /\ (\A r \in keys' : r.id # keyPass.id) \/ keyPass.id \in keyLost'
    BY <1>7 DEF KeyUndo, KeyAt
  <2>3. UNCHANGED <<keyObj, keyCache, keyEvents, keySecret, keyMade, keyBuried>>
    BY <1>7 DEF KeyUndo
  <2>4. \A r \in keys' : r.id # 0
    BY <1>s, <2>2 DEF KeyTypes, KeyStored
  <2>5. \/ \A r \in keys' : r.id # keyPass'.id
        \/ keyPass'.id \in keyLost'
    BY <2>1, <2>2, <2>4
  <2>6. keyPass'.id <= keyMade
    BY <1>t, <2>1
  <2>7. QED
    BY <1>t, <2>1, <2>2, <2>3, <2>5, <2>6, KeyPassive
<1>8. CASE KeyUpdate
  <2>1. /\ KeyEnd(FALSE)
        /\ UNCHANGED <<keyObj, keyCache, keyEvents, keySecret, keyMade, keyLost, keyBuried>>
        /\ keyPass.id = keyPass.read.id
    BY <1>s, <1>8 DEF KeyUpdate, KeyRest
  <2>2. \A r \in keys' : r \in KeyRecords /\ \E q \in keys : q.id = r.id
    BY <1>s, <1>t, <1>8 DEF KeyUpdate, KeyTypes, KeyStored, KeyRecords, KeyObjects
  <2>3. /\ keyPass' \in KeyPasses /\ keyPass'.step = "save"
        /\ keyPass'.id = keyPass.id /\ keyPass'.read = keyPass.read
    BY <1>t, <2>1, KeyEndFacts
  <2>4. KeyTypes'
    BY <1>s, <2>1, <2>2, <2>3 DEF KeyTypes, KeyVersions, KeyVersion, KeyCopies, KeyStored
  <2>5. KeyRest'
    BY <1>s, <2>1, <2>2, <2>3 DEF KeyRest, KeyKept, KeyGone
  <2>6. QED
    BY <2>4, <2>5 DEF KeyInv
<1>9. CASE KeySave
  <2>1. /\ UNCHANGED <<keyCache, keys, keySecret, keyMade, keyLost, keyBuried>>
        /\ keyPass' = KeyIdle /\ keyPass.step = "save"
    BY <1>9 DEF KeySave
  <2>2. CASE UNCHANGED <<keyObj, keyEvents>>
    BY <1>i, <2>1, <2>2
  <2>3. ASSUME NEW ready \in BOOLEAN,
               KeyPut([keyObj EXCEPT
                   !.id = IF keyPass.id # keyPass.read.id THEN keyPass.id ELSE @,
                   !.ready = ready])
        PROVE  KeyInv'
    <3>1. PICK n : n = IF keyPass.id # keyPass.read.id THEN keyPass.id ELSE keyObj.id
      OBVIOUS
    <3>2. n \in Nat /\ n <= keyMade /\ KeyKept(n)
      BY <1>s, <1>t, <2>1, <3>1 DEF KeyRest, KeyPasses, KeyObjects
    <3>3. PICK o : o = [keyObj EXCEPT !.id = n, !.ready = ready]
      OBVIOUS
    <3>4. o \in KeyObjects /\ o.id = n
      BY <1>t, <3>2, <3>3 DEF KeyObjects
    <3>5. KeyPut(o)
      BY <2>3, <3>1, <3>3
    <3>6. KeyVersions' /\ keyObj'.id = n
      BY <1>s, <2>1, <3>2, <3>4, <3>5, KeyPutVersions
    <3>7. KeyTypes'
      BY <1>s, <1>t, <2>1, <3>6, KeyIdleFacts DEF KeyTypes, KeyCopies, KeyStored
    <3>8. KeyRest'
      BY <2>1, <3>2, <3>6, KeyIdleFacts DEF KeyRest, KeyKept, KeyGone
    <3>9. QED
      BY <3>7, <3>8 DEF KeyInv
  <2>4. keyPass.ready \in BOOLEAN /\ keyObj.ready \in BOOLEAN
    BY <1>t DEF KeyPasses, KeyObjects
  <2>5. QED
    BY <1>9, <2>2, <2>3, <2>4 DEF KeySave
<1>10. CASE KeyCrash
  BY <1>i, <1>10 DEF KeyCrash
<1>11. CASE KeyDestroy
  <2>1. /\ UNCHANGED <<keyObj, keyCache, keyEvents, keySecret, keyMade, keyLost, keyBuried>>
        /\ keys' \subseteq keys /\ keyPass.id = keyPass.read.id
    BY <1>s, <1>11 DEF KeyDestroy, KeyRest
  <2>2. CASE KeyStep("release")
    BY <1>t, <2>1, <2>2, KeyStepFacts, KeyPassive DEF KeySteps
  <2>3. CASE KeyEnd(FALSE)
    BY <1>t, <2>1, <2>3, KeyEndFacts, KeyPassive
  <2>4. QED
    BY <1>11, <2>2, <2>3 DEF KeyDestroy
<1>12. CASE KeyRelease
  <2>1. UNCHANGED <<keyCache, keys, keyMade, keyLost, keyBuried>> /\ keyPass' = KeyIdle
    BY <1>12 DEF KeyRelease
  <2>2. CASE UNCHANGED <<keyObj, keyEvents, keySecret>>
    BY <1>i, <2>1, <2>2
  <2>3. CASE KeyPut([keyObj EXCEPT !.phase = "gone", !.id = 0, !.ready = FALSE])
    <3>1. PICK o : o = [keyObj EXCEPT !.phase = "gone", !.id = 0, !.ready = FALSE]
      OBVIOUS
    <3>a. o \in KeyObjects /\ o.id = 0
      BY <1>t, <3>1, KeyReleaseFacts
    <3>2. o.id <= keyMade
      BY <1>t, <3>a
    <3>3. KeyVersions' /\ keyObj'.id = 0
      BY <1>s, <2>1, <2>3, <3>1, <3>a, <3>2, KeyPutVersions
    <3>4. KeyTypes'
      BY <1>s, <1>t, <2>1, <3>3, KeyIdleFacts DEF KeyTypes, KeyCopies, KeyStored
    <3>5. KeyRest'
      BY <1>s, <2>1, <3>3, KeyIdleFacts DEF KeyTypes, KeyStored, KeyRest, KeyKept, KeyGone
    <3>6. QED
      BY <3>4, <3>5 DEF KeyInv
  <2>4. QED
    BY <1>12, <2>2, <2>3 DEF KeyRelease
<1>13. CASE KeyDelete \/ KeyEdit
  <2>1. UNCHANGED <<keyCache, keys, keySecret, keyPass, keyMade, keyLost, keyBuried>>
    BY <1>13 DEF KeyDelete, KeyEdit
  <2>2. PICK o \in KeyObjects : o.id = keyObj.id /\ KeyPut(o)
    <3>1. [keyObj EXCEPT !.phase = "deleting"] \in KeyObjects
      BY <1>t DEF KeyObjects
    <3>2. [keyObj EXCEPT !.active = ~keyObj.active] \in KeyObjects
      BY <1>t DEF KeyObjects
    <3>3. QED
      BY <1>t, <1>13, <3>1, <3>2 DEF KeyDelete, KeyEdit, KeyObjects
  <2>3. KeyVersions' /\ keyObj'.id = keyObj.id
    BY <1>s, <1>t, <2>1, <2>2, KeyPutVersions
  <2>4. KeyTypes'
    BY <1>s, <2>1, <2>3 DEF KeyTypes, KeyCopies, KeyStored
  <2>5. KeyRest'
    BY <1>s, <2>1, <2>3 DEF KeyRest, KeyKept, KeyGone
  <2>6. QED
    BY <2>4, <2>5 DEF KeyInv
<1>14. CASE KeyVanish
  <2>1. /\ UNCHANGED <<keyObj, keyCache, keyEvents, keySecret, keyPass, keyMade, keyLost,
                       keyBuried>>
        /\ keys' \subseteq keys
    BY <1>14 DEF KeyVanish
  <2>2. KeyTypes'
    BY <1>s, <2>1 DEF KeyTypes, KeyVersions, KeyVersion, KeyCopies, KeyStored
  <2>3. KeyRest'
    BY <1>s, <2>1 DEF KeyRest, KeyKept, KeyGone
  <2>4. QED
    BY <2>2, <2>3 DEF KeyInv
<1>15. QED
  BY <1>1, <1>2, <1>3, <1>4, <1>5, <1>6, <1>7, <1>8, <1>9, <1>10, <1>11, <1>12,
     <1>13, <1>14
  DEF KeyNext, KeyReconcile

-----------------------------------------------------------------------------
(* The database. *)

DbRecordFields == {"id", "state", "powered", "nets", "protected", "host"}
DbObjectFields == {"phase", "id", "host", "ready", "powered", "nets", "protected"}
DbPassFields   == {"step", "id", "host", "ready", "obj", "read"}

DbWell(c) == \A db \in c : DOMAIN db = DbRecordFields /\ db.id # 0

\* The argument needs the fields of the records and not their types.
DbShapes ==
    /\ dbMade \in Nat /\ dbOutdated \in BOOLEAN
    /\ DOMAIN dbObj = DbObjectFields
    /\ DOMAIN dbPass = DbPassFields
    /\ DbWell(dbs)

\* Only passes write the status: unless one was outdated, the running one has
\* read what the status is.  A pass that judges a service judges the one it read
\* the uuid of, if there is a uuid; a pass about to save Ready and a host has
\* written the Secret of its service.
DbRest ==
    /\ ~dbOutdated /\ dbObj.ready /\ dbObj.host => dbSecret = dbObj.id /\ dbObj.id # 0
    /\ ~dbOutdated /\ dbPass.step # "idle" => DbStatus(dbPass.obj) = DbStatus(dbObj)
    /\ dbPass.step = "observe" => dbPass.id = dbPass.obj.id
    /\ dbPass.step = "judge" =>
           dbPass.id # 0 /\ (dbPass.obj.id # 0 => dbPass.id = dbPass.obj.id)
    /\ dbPass.step = "save" /\ dbPass.ready /\ dbPass.host =>
           dbSecret = dbPass.id /\ dbPass.id # 0

DbInv == DbShapes /\ DbRest

\* Between passes the database has no copy of its object.
LEMMA DbIdleFacts == DOMAIN DbIdle = DbPassFields /\ DbIdle.step = "idle"
BY DEF DbIdle, DbPassFields

\* A pass of the database that goes on keeps what it read and its uuid.
LEMMA DbGoFacts ==
    ASSUME NEW p, NEW s, DOMAIN p = DbPassFields, DbGo(p, s)
    PROVE  /\ DOMAIN dbPass' = DbPassFields /\ dbPass'.step = s
           /\ dbPass'.id = p.id /\ dbPass'.obj = p.obj
BY DEF DbGo, DbPassFields

\* A pass of the database ends with a uuid, a host and a Ready condition to save.
LEMMA DbEndFacts ==
    ASSUME NEW p, NEW b \in BOOLEAN, DOMAIN p = DbPassFields, DbEnd(p, b)
    PROVE  /\ DOMAIN dbPass' = DbPassFields /\ dbPass'.step = "save" /\ dbPass'.ready = b
           /\ dbPass'.id = p.id /\ dbPass'.host = p.host /\ dbPass'.obj = p.obj
BY DEF DbEnd, DbPassFields

\* Observe takes the uuid and the host of the service it found.
LEMMA DbReadFacts ==
    ASSUME NEW q, NEW db, DOMAIN dbPass = DbPassFields,
           q = [dbPass EXCEPT !.id = db.id, !.host = db.host, !.read = db]
    PROVE  DOMAIN q = DbPassFields /\ q.id = db.id /\ q.obj = dbPass.obj
BY DEF DbPassFields

\* A step of a pass, or the end of one, that leaves the object and the Secret
\* alone, and does not start, judge or save Ready, preserves the invariant.
LEMMA DbPassive ==
    ASSUME DbInv, UNCHANGED <<dbObj, dbSecret, dbOutdated>>, dbMade' \in Nat,
           DOMAIN dbPass' = DbPassFields,
           dbPass'.step = "idle" \/ (dbPass.step # "idle" /\ dbPass'.obj = dbPass.obj),
           dbPass'.step \notin {"observe", "judge"}, dbPass'.step = "save" => ~dbPass'.ready,
           DbWell(dbs')
    PROVE  DbInv'
<1>1. DbShapes'
  BY DEF DbInv, DbShapes
<1>2. DbRest'
  BY DEF DbInv, DbRest, DbStatus
<1>3. QED
  BY <1>1, <1>2 DEF DbInv

\* The service that the create call returns has the new uuid.
LEMMA DbNewFacts ==
    ASSUME NEW n, NEW s, NEW h, NEW nets, NEW prot
    PROVE  LET db == [id |-> n, state |-> s, powered |-> TRUE, host |-> h, nets |-> nets,
                      protected |-> prot]
           IN  DOMAIN db = DbRecordFields /\ db.id = n
BY DEF DbRecordFields

\* Power and modify requests leave the uuid of a service alone.
LEMMA DbChangeFacts ==
    ASSUME NEW db, DOMAIN db = DbRecordFields, NEW s, NEW u, NEW v
    PROVE  /\ DOMAIN [db EXCEPT !.powered = u, !.state = s] = DbRecordFields
           /\ [db EXCEPT !.powered = u, !.state = s].id = db.id
           /\ DOMAIN [db EXCEPT !.nets = u, !.state = s, !.protected = v] = DbRecordFields
           /\ [db EXCEPT !.nets = u, !.state = s, !.protected = v].id = db.id
BY DEF DbRecordFields

\* A service replaced by one with its uuid leaves the services well formed.
LEMMA DbWellChanged ==
    ASSUME DbWell(dbs), NEW db \in dbs, NEW new, DOMAIN new = DbRecordFields,
           new.id = db.id, dbs' = (dbs \ {db}) \cup {new}
    PROVE  DbWell(dbs')
BY DEF DbWell

\* The services that come up, fail, get a host or are removed, and those whose
\* deletion starts, leave the services well formed.
LEMMA DbWellOn ==
    ASSUME DbWell(dbs),
           \/ dbs' \subseteq dbs
           \/ \E db \in dbs : \E s :
                 \/ dbs' = (dbs \ {db}) \cup {[db EXCEPT !.state = s]}
                 \/ dbs' = (dbs \ {db}) \cup {[db EXCEPT !.host = s]}
    PROVE  DbWell(dbs')
<1>1. CASE dbs' \subseteq dbs
  BY <1>1 DEF DbWell
<1>2. ASSUME NEW db \in dbs, NEW new, dbs' = (dbs \ {db}) \cup {new},
             \E s : new = [db EXCEPT !.state = s] \/ new = [db EXCEPT !.host = s]
      PROVE  DbWell(dbs')
  <2>1. DOMAIN db = DbRecordFields
    BY DEF DbWell
  <2>2. DOMAIN new = DbRecordFields /\ new.id = db.id
    <3>1. PICK s : new = [db EXCEPT !.state = s] \/ new = [db EXCEPT !.host = s]
      BY <1>2
    <3>2. QED
      BY <2>1, <3>1 DEF DbRecordFields
  <2>3. QED
    BY <1>2, <2>2, DbWellChanged
<1>3. QED
  BY <1>1, <1>2

\* A new database object, without a uuid and without a pass, satisfies the
\* invariant.
LEMMA DbInvInit == DbInit => DbInv
<1> SUFFICES ASSUME DbInit PROVE DbInv
  OBVIOUS
<1>1. DOMAIN dbObj = DbObjectFields /\ ~dbObj.ready
  BY DEF DbInit, NewDb, DbObjectFields
<1>2. DOMAIN dbPass = DbPassFields /\ dbPass.step = "idle"
  BY DbIdleFacts DEF DbInit
<1>3. dbs = {} /\ dbMade = 0 /\ dbOutdated = FALSE
  BY DEF DbInit
<1>4. QED
  BY <1>1, <1>2, <1>3 DEF DbInv, DbShapes, DbRest, DbWell

\* Every call of the database's pass, the cache's progress, a restart, the
\* service's own steps, and what users and others do, preserve the invariant.
LEMMA DbInvStep == DbInv /\ DbNext => DbInv'
<1> SUFFICES ASSUME DbInv, DbNext PROVE DbInv'
  OBVIOUS
<1>s. DbShapes /\ DbRest
  BY DEF DbInv
<1>f. DOMAIN dbPass = DbPassFields /\ dbMade \in Nat /\ DbWell(dbs)
  BY <1>s DEF DbShapes
<1>1. CASE DbStart
  <2>1. /\ UNCHANGED <<dbObj, dbs, dbSecret, dbMade>>
        /\ dbOutdated' = (dbOutdated \/ DbStatus(dbCache) # DbStatus(dbObj))
    BY <1>1 DEF DbStart
  <2>2. /\ DOMAIN dbPass' = DbPassFields /\ dbPass'.step \in {"observe", "delete"}
        /\ dbPass'.obj = dbCache /\ dbPass'.id = dbCache.id
    BY <1>1, DbIdleFacts DEF DbStart, DbPassFields
  <2>3. DbShapes'
    BY <1>s, <2>1, <2>2 DEF DbShapes
  <2>4. DbRest'
    BY <1>s, <2>1, <2>2 DEF DbRest, DbStatus
  <2>5. QED
    BY <2>3, <2>4 DEF DbInv
<1>2. CASE DbObserve
  <2>1. /\ UNCHANGED <<dbObj, dbs, dbSecret, dbMade, dbOutdated>> /\ dbPass.step = "observe"
        /\ dbPass.id = dbPass.obj.id
    BY <1>s, <1>2 DEF DbObserve, DbRest
  <2>2. CASE DbGo(dbPass, "create")
    BY <1>f, <2>1, <2>2, DbGoFacts, DbPassive
  <2>3. CASE DbEnd(dbPass, FALSE)
    BY <1>f, <2>1, <2>3, DbEndFacts, DbPassive
  <2>4. ASSUME NEW db \in DbLookup(dbPass.id),
               DbGo([dbPass EXCEPT !.id = db.id, !.host = db.host, !.read = db], "judge")
        PROVE  DbInv'
    <3>1. PICK q : q = [dbPass EXCEPT !.id = db.id, !.host = db.host, !.read = db]
      OBVIOUS
    <3>2. DOMAIN q = DbPassFields /\ q.id = db.id /\ q.obj = dbPass.obj
      BY <1>f, <3>1, DbReadFacts
    <3>3. /\ DOMAIN dbPass' = DbPassFields /\ dbPass'.step = "judge"
          /\ dbPass'.id = db.id /\ dbPass'.obj = dbPass.obj
      BY <2>4, <3>1, <3>2, DbGoFacts
    <3>4. db.id # 0 /\ (dbPass.obj.id # 0 => db.id = dbPass.obj.id)
      BY <1>f, <2>1, <2>4 DEF DbLookup, DbWell
    <3>5. DbShapes'
      BY <1>s, <2>1, <3>3 DEF DbShapes
    <3>6. DbRest'
      BY <1>s, <2>1, <3>3, <3>4 DEF DbRest, DbStatus
    <3>7. QED
      BY <3>5, <3>6 DEF DbInv
  <2>5. QED
    BY <1>2, <2>2, <2>3, <2>4 DEF DbObserve
<1>3. CASE DbJudge
  <2>1. UNCHANGED <<dbObj, dbs, dbMade, dbOutdated>> /\ dbPass.step = "judge"
    BY <1>3 DEF DbJudge
  <2>2. CASE DbEnd(dbPass, FALSE) /\ UNCHANGED dbSecret
    BY <1>f, <2>1, <2>2, DbEndFacts, DbPassive
  <2>3. ASSUME NEW ready \in BOOLEAN,
               dbSecret' = IF ready /\ dbPass.host THEN dbPass.id ELSE dbSecret,
               DbEnd(dbPass, ready) \/ DbGo(dbPass, "power")
        PROVE  DbInv'
    <3>1. /\ DOMAIN dbPass' = DbPassFields /\ dbPass'.id = dbPass.id
          /\ dbPass'.obj = dbPass.obj /\ dbPass'.step \in {"save", "power"}
          /\ dbPass'.step = "save" => dbPass'.ready = ready /\ dbPass'.host = dbPass.host
      BY <1>f, <2>3, DbEndFacts, DbGoFacts
    <3>2. ~dbOutdated /\ dbObj.ready /\ dbObj.host => dbSecret' = dbObj.id /\ dbObj.id # 0
      BY <1>s, <2>1, <2>3 DEF DbRest, DbStatus
    <3>3. DbShapes'
      BY <1>s, <2>1, <3>1 DEF DbShapes
    <3>4. DbRest'
      BY <1>s, <2>1, <2>3, <3>1, <3>2 DEF DbRest, DbStatus
    <3>5. QED
      BY <3>3, <3>4 DEF DbInv
  <2>4. StateReady(dbPass.read, dbPass.obj) \in BOOLEAN
    BY DEF StateReady
  <2>5. QED
    BY <1>3, <2>2, <2>3, <2>4 DEF DbJudge
<1>4. CASE DbCreate
  <2>1. UNCHANGED <<dbObj, dbSecret, dbOutdated>> /\ dbPass.step = "create"
    BY <1>4 DEF DbCreate
  <2>2. CASE DbEnd(dbPass, FALSE) /\ UNCHANGED <<dbs, dbMade>>
    BY <1>f, <2>1, <2>2, DbEndFacts, DbPassive
  <2>3. ASSUME NEW db, DOMAIN db = DbRecordFields, db.id = dbMade',
               dbMade' = dbMade + 1, dbs' = dbs \cup {db},
               DbEnd([dbPass EXCEPT !.id = dbMade'], FALSE)
        PROVE  DbInv'
    <3>1. PICK q : q = [dbPass EXCEPT !.id = dbMade']
      OBVIOUS
    <3>2. DOMAIN q = DbPassFields /\ q.obj = dbPass.obj
      BY <1>f, <3>1 DEF DbPassFields
    <3>3. /\ DOMAIN dbPass' = DbPassFields /\ dbPass'.step = "save" /\ ~dbPass'.ready
          /\ dbPass'.obj = dbPass.obj
      BY <2>3, <3>1, <3>2, DbEndFacts
    <3>4. dbMade' \in Nat /\ DbWell(dbs')
      BY <1>f, <2>3 DEF DbWell
    <3>5. QED
      BY <2>1, <3>3, <3>4, DbPassive
  <2>4. ASSUME NEW s, NEW h, dbMade' = dbMade + 1,
               dbs' = dbs \cup {[id |-> dbMade', state |-> s, powered |-> TRUE, host |-> h,
                                 nets |-> dbPass.obj.nets, protected |-> dbPass.obj.protected]},
               DbEnd([dbPass EXCEPT !.id = dbMade'], FALSE)
        PROVE  DbInv'
    <3>1. PICK db : db = [id |-> dbMade', state |-> s, powered |-> TRUE, host |-> h,
                          nets |-> dbPass.obj.nets, protected |-> dbPass.obj.protected]
      OBVIOUS
    <3>2. DOMAIN db = DbRecordFields /\ db.id = dbMade'
      BY <3>1, DbNewFacts
    <3>3. dbs' = dbs \cup {db}
      BY <2>4, <3>1
    <3>4. QED
      BY <2>3, <2>4, <3>2, <3>3
  <2>5. QED
    BY <1>4, <2>2, <2>4 DEF DbCreate
<1>5. CASE DbPower
  <2>1. UNCHANGED <<dbObj, dbSecret, dbMade, dbOutdated>> /\ dbPass.step = "power"
    BY <1>5 DEF DbPower
  <2>2. DbWell(dbs')
    <3>1. CASE UNCHANGED dbs
      BY <1>f, <3>1
    <3>2. ASSUME NEW db \in DbAccepting, NEW s,
                 dbs' = (dbs \ {db}) \cup
                           {[db EXCEPT !.powered = dbPass.obj.powered, !.state = s]}
          PROVE  DbWell(dbs')
      <4>1. db \in dbs /\ DOMAIN db = DbRecordFields
        BY <1>f DEF DbAccepting, DbWell
      <4>2. QED
        BY <1>f, <3>2, <4>1, DbChangeFacts, DbWellChanged
    <3>3. QED
      BY <1>5, <3>1, <3>2 DEF DbPower
  <2>3. /\ DOMAIN dbPass' = DbPassFields /\ dbPass'.obj = dbPass.obj
        /\ dbPass'.step \in {"modify", "save"} /\ (dbPass'.step = "save" => ~dbPass'.ready)
    <3>1. CASE DbEnd(dbPass, FALSE)
      BY <1>f, <3>1, DbEndFacts
    <3>2. CASE \E db \in DbAccepting : DbGo([dbPass EXCEPT !.read = db], "modify")
      <4>1. PICK q : (\E db \in DbAccepting : q = [dbPass EXCEPT !.read = db])
                        /\ DbGo(q, "modify")
        BY <3>2
      <4>2. DOMAIN q = DbPassFields /\ q.obj = dbPass.obj
        BY <1>f, <4>1 DEF DbPassFields
      <4>3. /\ DOMAIN dbPass' = DbPassFields /\ dbPass'.obj = dbPass.obj
            /\ dbPass'.step = "modify"
        BY <4>1, <4>2, DbGoFacts
      <4>4. QED
        BY <4>3
    <3>3. QED
      BY <1>5, <3>1, <3>2 DEF DbPower
  <2>4. QED
    BY <1>f, <2>1, <2>2, <2>3, DbPassive
<1>6. CASE DbModify
  <2>1. /\ UNCHANGED <<dbObj, dbSecret, dbMade, dbOutdated>> /\ DbEnd(dbPass, FALSE)
        /\ dbPass.step = "modify"
    BY <1>6 DEF DbModify
  <2>2. DbWell(dbs')
    <3>1. CASE UNCHANGED dbs
      BY <1>f, <3>1
    <3>2. ASSUME NEW db \in DbAccepting, NEW s,
                 dbs' = (dbs \ {db}) \cup
                           {[db EXCEPT !.nets = dbPass.obj.nets, !.state = s,
                                       !.protected = dbPass.obj.protected]}
          PROVE  DbWell(dbs')
      <4>1. db \in dbs /\ DOMAIN db = DbRecordFields
        BY <1>f DEF DbAccepting, DbWell
      <4>2. PICK new : new = [db EXCEPT !.nets = dbPass.obj.nets, !.state = s,
                                        !.protected = dbPass.obj.protected]
        OBVIOUS
      <4>3. DOMAIN new = DbRecordFields /\ new.id = db.id
        BY <4>1, <4>2, DbChangeFacts
      <4>4. dbs' = (dbs \ {db}) \cup {new}
        BY <3>2, <4>2
      <4>5. QED
        BY <1>f, <4>1, <4>3, <4>4, DbWellChanged
    <3>3. QED
      BY <1>6, <3>1, <3>2 DEF DbModify
  <2>3. QED
    BY <1>f, <2>1, <2>2, DbEndFacts, DbPassive
<1>7. CASE DbSave
  <2>1. /\ UNCHANGED <<dbs, dbSecret, dbMade>> /\ dbPass.step = "save"
        /\ dbPass' = DbIdle
    BY <1>7 DEF DbSave
  <2>2. CASE UNCHANGED <<dbObj, dbOutdated>>
    BY <1>f, <2>1, <2>2, DbIdleFacts, DbPassive
  <2>3. ASSUME NEW ready \in {dbPass.ready, dbObj.ready},
               dbPass.ready # dbPass.obj.ready => ready = dbPass.ready,
               dbObj' = [dbObj EXCEPT
                   !.id   = IF dbPass.id # dbPass.obj.id THEN dbPass.id ELSE @,
                   !.host = IF dbPass.host # dbPass.obj.host THEN dbPass.host ELSE @,
                   !.ready = ready],
               dbOutdated' = (dbOutdated /\ DbStatus(dbPass.obj) # DbStatus(dbObj))
        PROVE  DbInv'
    <3>1. /\ DOMAIN dbObj' = DbObjectFields /\ dbObj'.ready = ready
          /\ dbObj'.id = IF dbPass.id # dbPass.obj.id THEN dbPass.id ELSE dbObj.id
          /\ dbObj'.host = IF dbPass.host # dbPass.obj.host THEN dbPass.host ELSE dbObj.host
      BY <1>s, <2>3 DEF DbShapes, DbObjectFields
    <3>2. CASE DbStatus(dbPass.obj) = DbStatus(dbObj)
      <4>1. dbObj'.id = dbPass.id /\ dbObj'.host = dbPass.host /\ dbObj'.ready = dbPass.ready
        BY <2>3, <3>1, <3>2 DEF DbStatus
      <4>2. QED
        BY <1>s, <2>1, <2>3, <3>1, <4>1, DbIdleFacts DEF DbInv, DbShapes, DbRest
    <3>3. CASE DbStatus(dbPass.obj) # DbStatus(dbObj)
      <4>1. dbOutdated' = TRUE
        BY <1>s, <2>1, <2>3, <3>3 DEF DbShapes, DbRest
      <4>2. QED
        BY <1>s, <2>1, <3>1, <4>1, DbIdleFacts DEF DbInv, DbShapes, DbRest
    <3>4. QED
      BY <3>2, <3>3
  <2>4. QED
    BY <1>7, <2>2, <2>3 DEF DbSave
<1>8. CASE DbCrash
  BY <1>f, <1>8, DbIdleFacts, DbPassive DEF DbCrash
<1>9. CASE DbFinalize
  <2>1. UNCHANGED <<dbObj, dbSecret, dbMade, dbOutdated>> /\ dbPass.step = "delete"
    BY <1>9 DEF DbFinalize
  <2>2. DbWell(dbs')
    BY <1>f, <1>9, DbWellOn DEF DbFinalize
  <2>3. CASE DbGo(dbPass, "release")
    BY <1>f, <2>1, <2>2, <2>3, DbGoFacts, DbPassive
  <2>4. CASE DbEnd(dbPass, FALSE)
    BY <1>f, <2>1, <2>2, <2>4, DbEndFacts, DbPassive
  <2>5. QED
    BY <1>9, <2>3, <2>4 DEF DbFinalize
<1>10. CASE DbRelease
  <2>1. /\ UNCHANGED <<dbs, dbMade, dbOutdated>> /\ dbPass' = DbIdle
    BY <1>10 DEF DbRelease
  <2>2. CASE UNCHANGED <<dbObj, dbSecret>>
    BY <1>f, <2>1, <2>2, DbIdleFacts, DbPassive
  <2>3. CASE dbObj' = [dbObj EXCEPT !.phase = "gone", !.ready = FALSE]
    <3>1. DOMAIN dbObj' = DbObjectFields /\ ~dbObj'.ready
      BY <1>s, <2>3 DEF DbShapes, DbObjectFields
    <3>2. QED
      BY <1>s, <2>1, <3>1, DbIdleFacts DEF DbInv, DbShapes, DbRest
  <2>4. QED
    BY <1>10, <2>2, <2>3 DEF DbRelease
<1>11. CASE DbComeUp \/ DbHostUp \/ DbDrift
  <2>1. UNCHANGED <<dbObj, dbSecret, dbPass, dbMade, dbOutdated>>
    BY <1>11 DEF DbComeUp, DbHostUp, DbDrift
  <2>2. DbWell(dbs')
    BY <1>f, <1>11, DbWellOn DEF DbComeUp, DbHostUp, DbDrift
  <2>3. QED
    BY <1>s, <2>1, <2>2 DEF DbInv, DbShapes, DbRest, DbStatus
<1>12. CASE DbEdit
  <2>1. UNCHANGED <<dbs, dbSecret, dbPass, dbMade, dbOutdated>>
    BY <1>12 DEF DbEdit
  <2>2. /\ DOMAIN dbObj' = DbObjectFields /\ dbObj'.id = dbObj.id
        /\ dbObj'.host = dbObj.host /\ dbObj'.ready = dbObj.ready
    BY <1>12, <1>s DEF DbEdit, DbShapes, DbObjectFields
  <2>3. QED
    BY <1>s, <2>1, <2>2 DEF DbInv, DbShapes, DbRest, DbStatus
<1>13. CASE DbDeliver \/ DbNetworkDown \/ DbNetworkUp
  BY <1>s, <1>13 DEF DbDeliver, DbNetworkDown, DbNetworkUp, DbInv, DbShapes, DbRest, DbStatus
<1>14. QED
  BY <1>1, <1>2, <1>3, <1>4, <1>5, <1>6, <1>7, <1>8, <1>9, <1>10, <1>11, <1>12, <1>13
  DEF DbNext, DbReconcile

-----------------------------------------------------------------------------
(* The key material of a tunnel or a bundle. *)

RotSteps   == {"idle", "delete", "read", "send", "save"}
RotObjects == [id : Nat, token : Nat, seen : Nat, asked : Nat, ready : BOOLEAN]
RotRecords == [id : Nat, key : Nat, cert : Nat]
RotPasses  == [step : RotSteps, id : Nat, token : Nat, seen : Nat, key : Nat,
               cert : Nat, there : BOOLEAN, ready : BOOLEAN]

\* A token that is the user's vouches for the resource with the given uuid.
RotVouches(id, seen) ==
    seen = rotObj.token =>
        \A r \in rotCloud : r.id = id => r.key >= rotObj.asked

\* The stores.  Tokens only grow, and the material asked for is in the Secret;
\* a bundle without a uuid has recorded no token.
RotStores ==
    /\ rotMade \in Nat
    /\ rotObj \in RotObjects /\ rotObj.id <= rotMade
    /\ rotSecret \in [key : Nat, cert : Nat]
    /\ \A r \in rotCloud : r \in RotRecords /\ r.id # 0 /\ r.id <= rotMade
    /\ rotObj.seen <= rotObj.token
    /\ rotObj.asked <= rotSecret.key
    /\ rotObj.token = 0 => rotObj.asked = 0
    /\ rotKind = "bundle" /\ rotObj.id = 0 => rotObj.seen = 0
    /\ RotVouches(rotObj.id, rotObj.seen)

\* The pass.  What it would save vouches as well; the material it is about to
\* send is not older than what was asked for, unless the token has changed.
RotPassOK(p) ==
    /\ p \in RotPasses
    /\ p.id <= rotMade /\ p.seen <= rotObj.token /\ p.token <= rotObj.token
    /\ rotKind = "bundle" /\ p.id = 0 => p.seen = 0
    /\ p.step = "delete" => rotKind # "bundle"
    /\ p.step # "idle" => RotVouches(p.id, p.seen)
    /\ p.step = "send" /\ (rotObj.token = p.token \/ rotObj.token = rotObj.seen) =>
           p.key >= rotObj.asked

RotInv == RotStores /\ RotPassOK(rotPass)

\* Between passes the tunnel or bundle has no copy of its object.
LEMMA RotIdleFacts ==
    /\ RotIdle \in RotPasses /\ RotIdle.step = "idle" /\ RotIdle.id = 0
    /\ RotIdle.seen = 0 /\ RotIdle.token = 0
BY DEF RotIdle, RotPasses, RotSteps

\* A pass that goes on keeps its uuid, its tokens and the material it read.
LEMMA RotGoFacts ==
    ASSUME NEW p \in RotPasses, NEW s \in RotSteps, RotGo(p, s)
    PROVE  /\ rotPass' \in RotPasses /\ rotPass'.step = s
           /\ rotPass'.id = p.id /\ rotPass'.token = p.token
           /\ rotPass'.seen = p.seen /\ rotPass'.key = p.key
BY DEF RotGo, RotPasses

\* A pass ends with a uuid and a status token to save.
LEMMA RotEndFacts ==
    ASSUME NEW p \in RotPasses, NEW b \in BOOLEAN, RotEnd(p, b)
    PROVE  /\ rotPass' \in RotPasses /\ rotPass'.step = "save"
           /\ rotPass'.id = p.id /\ rotPass'.token = p.token
           /\ rotPass'.seen = p.seen
BY DEF RotEnd, RotPasses, RotSteps

\* Observe starts from the uuid and the tokens that the object has.
LEMMA RotStartFacts ==
    ASSUME rotObj \in RotObjects, NEW p,
           p = [RotIdle EXCEPT !.id = rotObj.id, !.token = rotObj.token,
                               !.seen = rotObj.seen]
    PROVE  /\ p \in RotPasses /\ p.id = rotObj.id
           /\ p.token = rotObj.token /\ p.seen = rotObj.seen
BY RotIdleFacts DEF RotPasses, RotObjects

\* Observe takes the uuid of the resource it found.
LEMMA RotFoundFacts ==
    ASSUME NEW p \in RotPasses, NEW n \in Nat, NEW b \in BOOLEAN
    PROVE  /\ [p EXCEPT !.id = n, !.there = b] \in RotPasses
           /\ [p EXCEPT !.id = n, !.there = b].id = n
           /\ [p EXCEPT !.id = n, !.there = b].token = p.token
           /\ [p EXCEPT !.id = n, !.there = b].seen = p.seen
BY DEF RotPasses

\* A new spec.rotationToken asks for the material the Secret has now.
LEMMA RotBumpFacts ==
    ASSUME rotObj \in RotObjects, NEW n \in Nat, NEW m \in Nat,
           rotObj' = [rotObj EXCEPT !.token = n, !.asked = m]
    PROVE  /\ rotObj' \in RotObjects
           /\ rotObj'.id = rotObj.id /\ rotObj'.seen = rotObj.seen
           /\ rotObj'.token = n /\ rotObj'.asked = m
BY DEF RotObjects

\* Create and Update record the token of the pass once the material is sent.
LEMMA RotSentFacts ==
    ASSUME NEW p \in RotPasses, RotSent(p)
    PROVE  /\ rotPass' \in RotPasses /\ rotPass'.step = "save"
           /\ rotPass'.id = p.id /\ rotPass'.token = p.token
           /\ rotPass'.seen = p.token
<1>1. PICK q : q = [p EXCEPT !.seen = p.token]
  OBVIOUS
<1>2. q \in RotPasses /\ q.id = p.id /\ q.token = p.token /\ q.seen = p.token
  BY <1>1 DEF RotPasses
<1>3. QED
  BY <1>1, <1>2, RotEndFacts DEF RotSent

\* The pass goes on with the same record, or ends, and the stores are the
\* same but for resources that are gone.
LEMMA RotGoesOn ==
    ASSUME RotInv, UNCHANGED <<rotKind, rotObj, rotSecret, rotMade>>,
           rotCloud' \subseteq rotCloud,
           rotPass' \in RotPasses, rotPass'.step # "send",
           rotPass'.id <= rotMade, rotPass'.token <= rotObj.token,
           rotPass'.seen <= rotObj.token,
           rotKind = "bundle" /\ rotPass'.id = 0 => rotPass'.seen = 0,
           rotPass'.step = "delete" => rotKind # "bundle",
           rotPass'.step # "idle" => RotVouches(rotPass'.id, rotPass'.seen)
    PROVE  RotInv'
BY DEF RotInv, RotStores, RotPassOK, RotVouches

\* A new tunnel or bundle object satisfies the invariant, also when there is a
\* bundle with its name that somebody else made.
LEMMA RotInvInit == RotInit => RotInv
<1> SUFFICES ASSUME RotInit PROVE RotInv
  OBVIOUS
<1>1. /\ rotObj \in RotObjects /\ rotObj.id = 0 /\ rotObj.seen = 0
      /\ rotObj.token = 0 /\ rotObj.asked = 0
  BY DEF RotInit, RotObjects
<1>2. rotPass = RotIdle /\ rotMade \in Nat
  BY DEF RotInit
<1>3. rotSecret \in [key : Nat, cert : Nat]
  BY DEF RotInit
<1>4. \A r \in rotCloud : r \in RotRecords /\ r.id # 0 /\ r.id <= rotMade
  BY DEF RotInit, RotRecords
<1>5. RotStores
  BY <1>1, <1>2, <1>3, <1>4 DEF RotStores, RotVouches, RotRecords
<1>6. RotPassOK(rotPass)
  BY <1>1, <1>2, RotIdleFacts DEF RotPassOK
<1>7. QED
  BY <1>5, <1>6 DEF RotInv

\* Every call of the pass, a restart, and what users and others do, preserve the
\* invariant.
LEMMA RotInvStep == RotInv /\ RotNext => RotInv'
<1> SUFFICES ASSUME RotInv, RotNext PROVE RotInv'
  OBVIOUS
<1>s. RotStores /\ RotPassOK(rotPass)
  BY DEF RotInv
<1>t. rotObj \in RotObjects /\ rotPass \in RotPasses /\ rotMade \in Nat
  BY <1>s DEF RotStores, RotPassOK
<1>1. CASE RotObserve
  <2>1. UNCHANGED <<rotKind, rotObj, rotSecret, rotCloud, rotMade>>
    BY <1>1 DEF RotObserve
  <2>2. PICK p : p = [RotIdle EXCEPT !.id = rotObj.id, !.token = rotObj.token,
                                     !.seen = rotObj.seen]
    OBVIOUS
  <2>3. /\ p \in RotPasses /\ p.id = rotObj.id
        /\ p.token = rotObj.token /\ p.seen = rotObj.seen
    BY <1>t, <2>2, RotStartFacts
  <2>4. ASSUME NEW q \in RotPasses, q.id = rotObj.id \/ q.id \in {r.id : r \in RotFound},
               q.token = rotObj.token, q.seen = rotObj.seen,
               \/ \E s \in {"read", "delete"} :
                     RotGo(q, s) /\ (s = "delete" => rotKind # "bundle")
               \/ \E b \in BOOLEAN : RotEnd(q, b)
        PROVE  RotInv'
    <3>1. /\ rotPass' \in RotPasses /\ rotPass'.step \in {"read", "delete", "save"}
          /\ rotPass'.id = q.id /\ rotPass'.token = rotObj.token
          /\ rotPass'.seen = rotObj.seen
          /\ rotPass'.step = "delete" => rotKind # "bundle"
      BY <2>4, RotGoFacts, RotEndFacts DEF RotSteps
    <3>2. q.id <= rotMade /\ (rotKind = "bundle" /\ q.id = 0 => rotObj.seen = 0)
      BY <1>s, <2>4 DEF RotStores, RotFound
    <3>3. RotVouches(q.id, rotObj.seen)
      <4>1. CASE q.id = rotObj.id
        BY <1>s, <4>1 DEF RotStores
      <4>2. CASE rotObj.id = 0 /\ rotKind = "bundle"
        BY <1>s, <4>2 DEF RotStores, RotVouches, RotRecords, RotObjects
      <4>3. QED
        BY <2>4, <4>1, <4>2 DEF RotFound
    <3>4. QED
      BY <1>s, <1>t, <2>1, <3>1, <3>2, <3>3, RotGoesOn DEF RotStores, RotObjects
  <2>5. CASE RotGo(p, "read") \/ RotEnd(p, FALSE)
    BY <2>3, <2>4, <2>5
  <2>6. ASSUME NEW r \in RotFound, RotCompare([p EXCEPT !.id = r.id, !.there = TRUE], r)
        PROVE  RotInv'
    <3>1. PICK q : q = [p EXCEPT !.id = r.id, !.there = TRUE]
      OBVIOUS
    <3>2. r.id \in Nat
      BY <1>s DEF RotStores, RotFound, RotRecords
    <3>3. q \in RotPasses /\ q.id = r.id /\ q.token = p.token /\ q.seen = p.seen
      BY <2>3, <3>1, <3>2, RotFoundFacts
    <3>4. PICK s : s = IF rotKind = "tunnel" THEN "delete" ELSE "read"
      OBVIOUS
    <3>5. s \in {"read", "delete"} /\ (s = "delete" => rotKind # "bundle")
      BY <3>4
    <3>6. RotCompare(q, r)
      BY <2>6, <3>1
    <3>7. RotGo(q, s) \/ RotEnd(q, FALSE) \/ RotEnd(q, TRUE)
      BY <3>4, <3>6, Zenon DEF RotCompare
    <3>8. QED
      BY <2>3, <2>4, <3>3, <3>5, <3>7
  <2>7. QED
    BY <1>1, <2>2, <2>5, <2>6 DEF RotObserve
<1>2. CASE RotDelete
  <2>1. /\ UNCHANGED <<rotKind, rotObj, rotSecret, rotMade>>
        /\ rotCloud' \subseteq rotCloud /\ rotPass.step = "delete"
    BY <1>2 DEF RotDelete
  <2>2. CASE RotEnd(rotPass, FALSE)
    BY <1>s, <1>t, <2>1, <2>2, RotEndFacts, RotGoesOn DEF RotPassOK
  <2>3. CASE RotGo([rotPass EXCEPT !.id = 0, !.there = FALSE], "read")
    <3>1. PICK q : q = [rotPass EXCEPT !.id = 0, !.there = FALSE]
      OBVIOUS
    <3>2. q \in RotPasses /\ q.id = 0 /\ q.token = rotPass.token /\ q.seen = rotPass.seen
      BY <1>t, <3>1, RotFoundFacts
    <3>3. RotGo(q, "read")
      BY <2>3, <3>1
    <3>4. /\ rotPass' \in RotPasses /\ rotPass'.step = "read" /\ rotPass'.id = 0
          /\ rotPass'.token = rotPass.token /\ rotPass'.seen = rotPass.seen
      BY <3>2, <3>3, RotGoFacts DEF RotSteps
    <3>5. RotVouches(0, rotPass.seen) /\ rotKind # "bundle"
      BY <1>s, <2>1 DEF RotStores, RotVouches, RotPassOK
    <3>6. QED
      BY <1>s, <1>t, <2>1, <3>4, <3>5, RotGoesOn DEF RotPassOK
  <2>4. QED
    BY <1>2, <2>2, <2>3 DEF RotDelete
<1>3. CASE RotRead
  <2>1. UNCHANGED <<rotKind, rotObj, rotSecret, rotCloud, rotMade>> /\ rotPass.step = "read"
    BY <1>3 DEF RotRead
  <2>2. CASE RotEnd(rotPass, FALSE)
    BY <1>s, <1>t, <2>1, <2>2, RotEndFacts, RotGoesOn DEF RotPassOK
  <2>3. CASE RotGo([rotPass EXCEPT !.key = rotSecret.key, !.cert = rotSecret.cert], "send")
    <3>1. PICK q : q = [rotPass EXCEPT !.key = rotSecret.key, !.cert = rotSecret.cert]
      OBVIOUS
    <3>2. /\ q \in RotPasses /\ q.id = rotPass.id /\ q.token = rotPass.token
          /\ q.seen = rotPass.seen /\ q.key = rotSecret.key
      BY <1>s, <1>t, <3>1 DEF RotPasses, RotStores
    <3>3. RotGo(q, "send")
      BY <2>3, <3>1
    <3>4. /\ rotPass' \in RotPasses /\ rotPass'.step = "send" /\ rotPass'.id = rotPass.id
          /\ rotPass'.token = rotPass.token /\ rotPass'.seen = rotPass.seen
          /\ rotPass'.key = rotSecret.key
      BY <3>2, <3>3, RotGoFacts DEF RotSteps
    <3>5. rotSecret.key >= rotObj.asked
      BY <1>s DEF RotStores, RotObjects
    <3>6. QED
      BY <1>s, <2>1, <3>4, <3>5 DEF RotInv, RotStores, RotPassOK, RotVouches
  <2>4. QED
    BY <1>3, <2>2, <2>3 DEF RotRead
<1>4. ASSUME NEW new, rotPass.step = "send",
             UNCHANGED <<rotKind, rotObj, rotSecret>>,
             rotMade' \in Nat, rotMade <= rotMade',
             new \in RotRecords, new.id # 0, new.id <= rotMade', new.key = rotPass.key,
             rotCloud' \subseteq rotCloud \cup {new},
             \A r \in rotCloud' : r.id = new.id => r = new,
             new.id = rotObj.id => new.id <= rotMade,
             rotPass' \in RotPasses, rotPass'.step = "save", rotPass'.id = new.id,
             rotPass'.token = rotPass.token, rotPass'.seen = rotPass.token
      PROVE  RotInv'
  <2>1. rotObj.token \in {rotPass.token, rotObj.seen} => new.key >= rotObj.asked
    BY <1>s, <1>4 DEF RotPassOK
  <2>2. RotVouches(rotPass.id, rotPass.seen)'
    BY <1>4, <2>1 DEF RotVouches
  <2>3. RotVouches(rotObj.id, rotObj.seen)'
    BY <1>s, <1>4, <2>1 DEF RotStores, RotVouches
  <2>4. RotStores'
    BY <1>s, <1>t, <1>4, <2>3 DEF RotStores, RotObjects, RotRecords
  <2>5. RotPassOK(rotPass)'
    BY <1>s, <1>t, <1>4, <2>2 DEF RotPassOK
  <2>6. QED
    BY <2>4, <2>5 DEF RotInv
<1>5. CASE RotCreate
  <2>1. UNCHANGED <<rotKind, rotObj, rotSecret>> /\ rotPass.step = "send"
    BY <1>5 DEF RotCreate
  <2>2. CASE RotEnd(rotPass, FALSE) /\ UNCHANGED <<rotCloud, rotMade>>
    BY <1>s, <1>t, <2>1, <2>2, RotEndFacts, RotGoesOn DEF RotPassOK
  <2>3. CASE /\ rotMade' = rotMade + 1
             /\ rotCloud' = rotCloud \cup
                    {[id |-> rotMade', key |-> rotPass.key, cert |-> rotPass.cert]}
             /\ RotSent([rotPass EXCEPT !.id = rotMade'])
    <3>1. PICK new : new = [id |-> rotMade', key |-> rotPass.key, cert |-> rotPass.cert]
      OBVIOUS
    <3>2. PICK q : q = [rotPass EXCEPT !.id = rotMade']
      OBVIOUS
    <3>3. rotMade' \in Nat /\ rotMade < rotMade'
      BY <1>t, <2>3
    <3>4. new \in RotRecords /\ new.id = rotMade' /\ new.key = rotPass.key
      BY <1>t, <3>1, <3>3 DEF RotRecords, RotPasses
    <3>5. q \in RotPasses /\ q.id = rotMade' /\ q.token = rotPass.token
      BY <1>t, <3>2, <3>3 DEF RotPasses
    <3>6. /\ rotPass' \in RotPasses /\ rotPass'.step = "save" /\ rotPass'.id = new.id
          /\ rotPass'.token = rotPass.token /\ rotPass'.seen = rotPass.token
      BY <2>3, <3>2, <3>4, <3>5, RotSentFacts
    <3>7. rotCloud' = rotCloud \cup {new}
      BY <2>3, <3>1
    <3>8. /\ \A r \in rotCloud' : r.id = new.id => r = new
          /\ new.id # rotObj.id /\ new.id # 0
      BY <1>s, <1>t, <3>3, <3>4, <3>7 DEF RotStores, RotRecords, RotObjects
    <3>9. QED
      BY <1>t, <1>4, <2>1, <3>3, <3>4, <3>6, <3>7, <3>8
  <2>4. QED
    BY <1>5, <2>2, <2>3 DEF RotCreate
<1>6. CASE RotModify
  <2>1. UNCHANGED <<rotKind, rotObj, rotSecret, rotMade>> /\ rotPass.step = "send"
    BY <1>6 DEF RotModify
  <2>2. CASE RotEnd(rotPass, FALSE) /\ UNCHANGED rotCloud
    BY <1>s, <1>t, <2>1, <2>2, RotEndFacts, RotGoesOn DEF RotPassOK
  <2>3. CASE /\ {r \in rotCloud : r.id = rotPass.id} # {}
             /\ rotCloud' = (rotCloud \ {r \in rotCloud : r.id = rotPass.id}) \cup
                    {[id |-> rotPass.id, key |-> rotPass.key, cert |-> rotPass.cert]}
             /\ RotSent(rotPass)
    <3>1. PICK new : new = [id |-> rotPass.id, key |-> rotPass.key, cert |-> rotPass.cert]
      OBVIOUS
    <3>2. new \in RotRecords /\ new.id = rotPass.id /\ new.key = rotPass.key
      BY <1>t, <3>1 DEF RotRecords, RotPasses
    <3>3. rotCloud' = (rotCloud \ {r \in rotCloud : r.id = rotPass.id}) \cup {new}
      BY <2>3, <3>1
    <3>4. /\ \A r \in rotCloud' : r.id = new.id => r = new
          /\ rotCloud' \subseteq rotCloud \cup {new}
      BY <3>2, <3>3
    <3>5. new.id # 0 /\ new.id <= rotMade
      BY <1>s, <2>3, <3>2 DEF RotStores
    <3>6. /\ rotPass' \in RotPasses /\ rotPass'.step = "save" /\ rotPass'.id = new.id
          /\ rotPass'.token = rotPass.token /\ rotPass'.seen = rotPass.token
      BY <1>t, <2>3, <3>2, RotSentFacts
    <3>7. QED
      BY <1>t, <1>4, <2>1, <3>2, <3>4, <3>5, <3>6
  <2>4. QED
    BY <1>6, <2>2, <2>3 DEF RotModify
<1>7. CASE RotSave
  <2>1. /\ rotObj' \in RotObjects /\ rotObj'.id = rotPass.id
        /\ rotObj'.seen = rotPass.seen
        /\ rotObj'.token = rotObj.token /\ rotObj'.asked = rotObj.asked
    BY <1>t, <1>7 DEF RotSave, RotObjects, RotPasses
  <2>2. /\ UNCHANGED <<rotKind, rotSecret, rotCloud, rotMade>>
        /\ rotPass.step = "save" /\ rotPass' = RotIdle
    BY <1>7 DEF RotSave
  <2>3. RotStores'
    BY <1>s, <2>1, <2>2 DEF RotStores, RotPassOK, RotVouches
  <2>4. RotPassOK(rotPass)'
    BY <1>s, <1>t, <2>1, <2>2, RotIdleFacts DEF RotPassOK, RotObjects
  <2>5. QED
    BY <2>3, <2>4 DEF RotInv
<1>8. CASE RotCrash
  <2>1. UNCHANGED <<rotKind, rotObj, rotSecret, rotCloud, rotMade>> /\ rotPass' = RotIdle
    BY <1>8 DEF RotCrash
  <2>2. 0 <= rotMade /\ 0 <= rotObj.token
    BY <1>t DEF RotObjects
  <2>3. QED
    BY <2>1, <2>2, RotIdleFacts, RotGoesOn
<1>9. CASE RotSecretSet
  <2>1. /\ UNCHANGED <<rotKind, rotObj, rotCloud, rotPass, rotMade>>
        /\ rotSecret' \in [key : Nat, cert : Nat] /\ rotSecret'.key = rotSecret.key + 1
    BY <1>s, <1>9 DEF RotSecretSet, RotStores
  <2>2. RotStores'
    BY <1>s, <1>t, <2>1 DEF RotStores, RotVouches, RotObjects
  <2>3. QED
    BY <1>s, <2>1, <2>2 DEF RotInv, RotPassOK, RotVouches
<1>10. CASE RotBump
  <2>0. rotSecret.key \in Nat /\ rotObj.token + 1 \in Nat
    BY <1>s, <1>t DEF RotStores, RotObjects
  <2>1. /\ rotObj' \in RotObjects /\ rotObj'.id = rotObj.id /\ rotObj'.seen = rotObj.seen
        /\ rotObj'.token = rotObj.token + 1 /\ rotObj'.asked = rotSecret.key
    <3>1. PICK n \in Nat, m \in Nat : n = rotObj.token + 1 /\ m = rotSecret.key
      BY <2>0
    <3>2. rotObj' = [rotObj EXCEPT !.token = n, !.asked = m]
      BY <1>10, <3>1 DEF RotBump
    <3>3. /\ rotObj' \in RotObjects
          /\ rotObj'.id = rotObj.id /\ rotObj'.seen = rotObj.seen
          /\ rotObj'.token = n /\ rotObj'.asked = m
      BY <1>t, <3>2, RotBumpFacts
    <3>4. QED
      BY <3>1, <3>3
  <2>2. UNCHANGED <<rotKind, rotSecret, rotCloud, rotPass, rotMade>>
    BY <1>10 DEF RotBump
  <2>3. /\ rotObj.seen < rotObj'.token /\ rotPass.seen < rotObj'.token
        /\ rotPass.token < rotObj'.token /\ rotObj'.token # 0
    BY <1>s, <1>t, <2>1 DEF RotStores, RotPassOK, RotObjects, RotPasses
  <2>4. RotStores'
    BY <1>s, <1>t, <2>1, <2>2, <2>3 DEF RotStores, RotVouches, RotObjects
  <2>5. RotPassOK(rotPass)'
    BY <1>s, <1>t, <2>1, <2>2, <2>3 DEF RotPassOK, RotVouches, RotObjects, RotPasses
  <2>6. QED
    BY <2>4, <2>5 DEF RotInv
<1>11. CASE RotVanish
  <2>1. UNCHANGED <<rotKind, rotObj, rotSecret, rotPass, rotMade>> /\ rotCloud' \subseteq rotCloud
    BY <1>11 DEF RotVanish
  <2>2. QED
    BY <1>s, <2>1 DEF RotInv, RotStores, RotPassOK, RotVouches
<1>12. QED
  BY <1>1, <1>2, <1>3, <1>5, <1>6, <1>7, <1>8, <1>9, <1>10, <1>11
  DEF RotNext, RotReconcile

-----------------------------------------------------------------------------
(* The specification. *)

ServicesInv == KeyInv /\ DbInv /\ RotInv

\* In every behaviour of the specification the three invariants hold: a step is
\* one of one adapter, and the others stay as they are.
THEOREM ServicesInvariant == Spec => []ServicesInv
<1>1. Init => ServicesInv
  BY KeyInvInit, DbInvInit, RotInvInit DEF Init, ServicesInv
<1>2. ServicesInv /\ [Next]_vars => ServicesInv'
  <2> SUFFICES ASSUME ServicesInv, [Next]_vars PROVE ServicesInv'
    OBVIOUS
  <2>1. KeyInv'
    <3>1. CASE KeyNext
      BY <3>1, KeyInvStep DEF ServicesInv
    <3>2. CASE UNCHANGED keyVars
      BY <3>2 DEF ServicesInv, keyVars, KeyInv, KeyTypes, KeyVersions, KeyVersion,
                 KeyCopies, KeyStored, KeyRest, KeyKept, KeyGone
    <3>3. QED
      BY <3>1, <3>2 DEF Next, vars
  <2>2. DbInv'
    <3>1. CASE DbNext
      BY <3>1, DbInvStep DEF ServicesInv
    <3>2. CASE UNCHANGED dbVars
      BY <3>2 DEF ServicesInv, dbVars, DbInv, DbShapes, DbRest, DbWell, DbStatus
    <3>3. QED
      BY <3>1, <3>2 DEF Next, vars
  <2>3. RotInv'
    <3>1. CASE RotNext
      BY <3>1, RotInvStep DEF ServicesInv
    <3>2. CASE UNCHANGED rotVars
      BY <3>2 DEF ServicesInv, rotVars, RotInv, RotStores, RotPassOK, RotVouches
    <3>3. QED
      BY <3>1, <3>2 DEF Next, vars
  <2>4. QED
    BY <2>1, <2>2, <2>3 DEF ServicesInv
<1>3. QED
  BY <1>1, <1>2, PTL DEF Spec

\* A Ready access key is one whose secret part the cluster has, for any number
\* of failures and of passes that start from an outdated copy, except a key whose
\* undoing failed and one a pass with another id displaced from the Secret:
\* Create of objectstorageaccesskey_adapter.go writes the Secret or undoes the
\* key before the status is saved.
THEOREM KeySecretSafe == Spec => []KeyReadyMeansSecret
<1>1. ServicesInv => KeyReadyMeansSecret
  BY DEF ServicesInv, KeyInv, KeyRest, KeyKept, KeyGone, KeyAt, KeyReadyMeansSecret
<1>2. QED
  BY <1>1, ServicesInvariant, PTL

\* The connection Secret of a Ready database with a host in its status is that of
\* the service in status, for any number of failures, replacements and passes
\* that start from an outdated copy; after such a pass it is so again once a pass
\* has saved to the status it read (manageddatabase_adapter.go, Observe).
THEOREM DbSecretSafe == Spec => []DbReadyMeansSecret
<1>1. ServicesInv => DbReadyMeansSecret
  BY DEF ServicesInv, DbInv, DbRest, DbReadyMeansSecret
<1>2. QED
  BY <1>1, ServicesInvariant, PTL

\* A rotation token in status that is the user's vouches for the material of the
\* tunnel or bundle in status, for any number of failures and rotations, when
\* passes start from the current object (gatewaytunnel_adapter.go,
\* loadbalancercertificatebundle_adapter.go).
THEOREM TokenVouches == Spec => []RotTokenVouches
<1>1. ServicesInv => RotTokenVouches
  BY DEF ServicesInv, RotInv, RotStores, RotVouches, RotTokenVouches
<1>2. QED
  BY <1>1, ServicesInvariant, PTL
=============================================================================
