------------------------------ MODULE Database ------------------------------
(***************************************************************************)
(* A ManagedDatabase, call by call: power, networks and the connection     *)
(* Secret.  The service accepts requests in some of its states only, and   *)
(* one Update may start it and modify it.                                  *)
(*                                                                         *)
(* spec.networks is a sequence of references to Network objects; what the  *)
(* modify call sends besides it (plan, title, disk, labels, properties) is *)
(* sent and compared with it, in terminationProtection's company.          *)
(*                                                                         *)
(* A pass starts from the version of the object in the operator's cache;   *)
(* starting from an outdated one uses up a fault.  Versions with the same  *)
(* content are one version here.                                           *)
(***************************************************************************)
EXTENDS Budget, Sequences

CONSTANTS
    DbLists     \* the values of spec.networks, without repetitions

ASSUME DbListsAssumption ==
    /\ <<>> \in DbLists
    /\ \A l \in DbLists : \A i, j \in DOMAIN l : l[i] = l[j] => i = j

VARIABLES
    dbObj,      \* the object: phase, spec, Ready, status.uuid (0: empty), whether
                \* status.primaryHost is set
    dbCache,    \* the version of it in the operator's cache
    dbs,        \* the services in UpCloud this object had made; a service may be
                \* running before it has a host
    dbNetsUp,   \* whether the referenced Networks are Ready
    dbSecret,   \* the service whose host the connection Secret has; 0: none
    dbPass,     \* the running pass: the version and the service it read, its own
                \* uuid, host and Ready
    dbMade,     \* the uuids handed out are 1..dbMade
    dbOutdated  \* history: a pass started from an outdated status, and none since
                \* has saved to the status it read

dbVars == <<dbObj, dbCache, dbs, dbNetsUp, dbSecret, dbPass, dbMade, dbOutdated>>

NoDb   == [id |-> 0, state |-> "running", powered |-> TRUE, nets |-> <<>>,
           protected |-> FALSE, host |-> FALSE]
NewDb  == [phase |-> "live", id |-> 0, host |-> FALSE, ready |-> FALSE, powered |-> TRUE,
           nets |-> <<>>, protected |-> FALSE]
DbIdle == [step |-> "idle", id |-> 0, host |-> FALSE, ready |-> FALSE, obj |-> NewDb,
           read |-> NoDb]

updateOKStates == {"running", "stopped", "error"}
deleteOKStates == updateOKStates \cup {"delete-service"}

DbInit ==
    /\ dbObj = NewDb /\ dbCache = dbObj
    /\ dbs = {} /\ dbNetsUp = TRUE /\ dbSecret = 0 /\ dbMade = 0
    /\ dbPass = DbIdle /\ dbOutdated = FALSE

\* Mutant: the lengths are not compared.
NetworksEqualOneWay(got, want) ==
    \A i \in DOMAIN want : \E j \in DOMAIN got : got[j] = want[i]

\* networksEqual; gatewayRoutesEqual and mosNetworksEqual read the same.
NetworksEqual(got, want) ==
    /\ Len(got) = Len(want)
    /\ \A i \in DOMAIN want : \E j \in DOMAIN got : got[j] = want[i]

SpecMatches(db, o) ==
    db.protected = o.protected /\ NetworksEqual(db.nets, o.nets)

StateReady(db, o) == db.state = "running" \/ (db.state = "stopped" /\ ~o.powered)

\* desiredNetworks resolves every reference.
DbResolves == dbPass.obj.nets # <<>> => dbNetsUp

DbStatus(o) == <<o.id, o.host, o.ready>>

\* The pass p goes on, or is left with its status patch to make.
DbGo(p, step)   == dbPass' = [p EXCEPT !.step = step]
DbEnd(p, ready) == dbPass' = [p EXCEPT !.step = "save", !.ready = ready]

-----------------------------------------------------------------------------
(* A pass over a live object. *)

DbDeliver ==
    /\ dbCache # dbObj /\ dbCache' = dbObj
    /\ Free /\ UNCHANGED <<dbObj, dbs, dbNetsUp, dbSecret, dbPass, dbMade, dbOutdated>>

\* Reconcile reads the object from the cache.
DbStart ==
    /\ dbPass.step = "idle" /\ dbCache.phase # "gone"
    /\ IF dbCache = dbObj THEN Free ELSE Fault
    /\ dbPass' = [DbIdle EXCEPT !.step = IF dbCache.phase = "live" THEN "observe" ELSE "delete",
                                !.id = dbCache.id, !.host = dbCache.host, !.obj = dbCache]
    /\ dbOutdated' = (dbOutdated \/ DbStatus(dbCache) # DbStatus(dbObj))
    /\ UNCHANGED <<dbObj, dbCache, dbs, dbNetsUp, dbSecret, dbMade>>

\* lookup: by the uuid in status, or by label.
DbLookup(id) == IF id # 0 THEN {db \in dbs : db.id = id} ELSE dbs

\* Observe; the uuid and the host of the service go into the status (syncStatus).
DbObserve ==
    /\ dbPass.step = "observe"
    /\ \/ Free  /\ DbLookup(dbPass.id) = {} /\ DbGo(dbPass, "create")
       \/ Free  /\ \E db \in DbLookup(dbPass.id) :
                      DbGo([dbPass EXCEPT !.id = db.id, !.host = db.host, !.read = db], "judge")
       \/ Fault /\ DbEnd(dbPass, FALSE)
    /\ UNCHANGED <<dbObj, dbCache, dbs, dbNetsUp, dbSecret, dbMade, dbOutdated>>

DbUpToDate == SpecMatches(dbPass.read, dbPass.obj) /\ dbPass.read.powered = dbPass.obj.powered

\* Mutant: a connection Secret that is there is not written again.
DbJudgeOnce ==
    /\ dbPass.step = "judge" /\ Free
    /\ LET ready == StateReady(dbPass.read, dbPass.obj) IN
       /\ dbSecret' = IF DbResolves /\ ready /\ dbPass.host /\ dbSecret = 0
                      THEN dbPass.id ELSE dbSecret
       /\ IF DbResolves /\ ~DbUpToDate THEN DbGo(dbPass, "power")
          ELSE DbEnd(dbPass, DbResolves /\ ready)
    /\ UNCHANGED <<dbObj, dbCache, dbs, dbNetsUp, dbMade, dbOutdated>>

\* The rest of Observe: the networks are resolved, the connection Secret of a
\* ready service that has a host is written, and the service is compared with
\* the spec.  Without a host the service may be Ready all the same.
DbJudge ==
    /\ dbPass.step = "judge"
    /\ LET ready == StateReady(dbPass.read, dbPass.obj) IN
       \/ /\ Free /\ ~DbResolves
          /\ DbEnd(dbPass, FALSE)
          /\ UNCHANGED dbSecret
       \/ /\ Free /\ DbResolves
          /\ dbSecret' = IF ready /\ dbPass.host THEN dbPass.id ELSE dbSecret
          /\ IF DbUpToDate THEN DbEnd(dbPass, ready) ELSE DbGo(dbPass, "power")
       \/ /\ Fault /\ DbResolves /\ ready /\ dbPass.host
          /\ DbEnd(dbPass, FALSE)
          /\ UNCHANGED dbSecret
    /\ UNCHANGED <<dbObj, dbCache, dbs, dbNetsUp, dbMade, dbOutdated>>

\* The state a request leaves the service in: the new one, or one in which
\* it works on the request.
DbStates(powered) == {"rebuilding", IF powered THEN "running" ELSE "stopped"}

\* A new service is powered whatever the spec says.
DbCreate ==
    /\ dbPass.step = "create"
    /\ \/ /\ Free /\ DbResolves
          /\ dbMade' = dbMade + 1
          /\ \E s \in DbStates(TRUE), host \in BOOLEAN :
                dbs' = dbs \cup {[id |-> dbMade', state |-> s, powered |-> TRUE, host |-> host,
                                  nets |-> dbPass.obj.nets, protected |-> dbPass.obj.protected]}
          /\ DbEnd([dbPass EXCEPT !.id = dbMade'], FALSE)
       \/ /\ IF DbResolves THEN Fault ELSE Free
          /\ DbEnd(dbPass, FALSE)
          /\ UNCHANGED <<dbs, dbMade>>
    /\ UNCHANGED <<dbObj, dbCache, dbNetsUp, dbSecret, dbOutdated>>

\* The service the pass works on, while it accepts requests.
DbAccepting == {db \in dbs : db.id = dbPass.id /\ db.state \in updateOKStates}

\* Update reads the service again and gives up unless it accepts requests;
\* it starts it or shuts it down when that is what the spec asks for.
DbPower ==
    /\ dbPass.step = "power"
    /\ \/ /\ Free /\ DbAccepting = {}
          /\ DbEnd(dbPass, FALSE)
          /\ UNCHANGED dbs
       \/ /\ Free
          /\ \E db \in DbAccepting :
                /\ DbGo([dbPass EXCEPT !.read = db], "modify")
                /\ IF db.powered = dbPass.obj.powered THEN UNCHANGED dbs
                   ELSE \E s \in DbStates(dbPass.obj.powered) :
                           dbs' = (dbs \ {db}) \cup
                              {[db EXCEPT !.powered = dbPass.obj.powered, !.state = s]}
       \/ /\ Fault /\ DbAccepting # {}
          /\ DbEnd(dbPass, FALSE)
          /\ UNCHANGED dbs
    /\ UNCHANGED <<dbObj, dbCache, dbNetsUp, dbSecret, dbMade, dbOutdated>>

\* The modify call of the same Update, for what was read before the service
\* was started; it is refused while the service works on that.
DbModify ==
    /\ dbPass.step = "modify"
    /\ LET sent == DbResolves /\ ~SpecMatches(dbPass.read, dbPass.obj) IN
       \/ /\ Free
          /\ ~sent \/ DbAccepting = {}
          /\ UNCHANGED dbs
       \/ /\ Free /\ sent
          /\ \E db \in DbAccepting : \E s \in {"rebuilding", db.state} :
                dbs' = (dbs \ {db}) \cup
                   {[db EXCEPT !.nets = dbPass.obj.nets, !.state = s,
                               !.protected = dbPass.obj.protected]}
       \/ Fault /\ sent /\ DbAccepting # {} /\ UNCHANGED dbs
    /\ DbEnd(dbPass, FALSE)
    /\ UNCHANGED <<dbObj, dbCache, dbNetsUp, dbSecret, dbMade, dbOutdated>>

\* The merge patch that ends a pass carries what differs from the version
\* read.  A Ready condition that is what it was may still be sent, for its
\* reason or message.
DbSave ==
    /\ dbPass.step = "save"
    /\ IF dbObj.phase = "gone" THEN UNCHANGED <<dbObj, dbOutdated>>
       ELSE /\ \E ready \in {dbPass.ready, dbObj.ready} :
                 /\ dbPass.ready # dbPass.obj.ready => ready = dbPass.ready
                 /\ dbObj' = [dbObj EXCEPT
                       !.id   = IF dbPass.id # dbPass.obj.id THEN dbPass.id ELSE @,
                       !.host = IF dbPass.host # dbPass.obj.host THEN dbPass.host ELSE @,
                       !.ready = ready]
            /\ dbOutdated' = (dbOutdated /\ DbStatus(dbPass.obj) # DbStatus(dbObj))
    /\ dbPass' = DbIdle
    /\ Free /\ UNCHANGED <<dbCache, dbs, dbNetsUp, dbSecret, dbMade>>

\* The operator is restarted, or the patch fails.
DbCrash ==
    /\ dbPass.step # "idle"
    /\ dbPass' = DbIdle
    /\ Fault /\ UNCHANGED <<dbObj, dbCache, dbs, dbNetsUp, dbSecret, dbMade, dbOutdated>>

-----------------------------------------------------------------------------
(* A pass over an object under deletion. *)

\* Delete: the first call starts the deletion, a later one finds it done.  A
\* protected service refuses; the spec is not applied to an object under
\* deletion, so only somebody else can lift the protection.
DbFinalize ==
    /\ dbPass.step = "delete"
    /\ LET found == {db \in dbs : db.id = dbPass.id} IN
       \/ Free /\ found = {} /\ DbGo(dbPass, "release") /\ UNCHANGED dbs
       \/ /\ Free /\ DbEnd(dbPass, FALSE) /\ UNCHANGED dbs
          /\ \E db \in found : db.state \notin deleteOKStates \/ db.protected
       \/ \E db \in found :
             /\ Free /\ db.state \in updateOKStates /\ ~db.protected
             /\ dbs' = (dbs \ {db}) \cup {[db EXCEPT !.state = "delete-service"]}
             /\ DbEnd(dbPass, FALSE)
       \/ \E db \in found :
             /\ Free /\ db.state = "delete-service" /\ ~db.protected
             /\ dbs' = dbs \ {db}
             /\ DbGo(dbPass, "release")
       \/ Fault /\ found # {} /\ DbEnd(dbPass, FALSE) /\ UNCHANGED dbs
    /\ UNCHANGED <<dbObj, dbCache, dbNetsUp, dbSecret, dbMade, dbOutdated>>

\* The finalizer is removed by an Update, which conflicts unless the version
\* read is the server's; the object goes, and its connection Secret with it.
DbRelease ==
    /\ dbPass.step = "release"
    /\ IF dbPass.obj = dbObj
       THEN dbObj' = [dbObj EXCEPT !.phase = "gone", !.ready = FALSE] /\ dbSecret' = 0
       ELSE UNCHANGED <<dbObj, dbSecret>>
    /\ dbPass' = DbIdle
    /\ Free /\ UNCHANGED <<dbCache, dbs, dbNetsUp, dbMade, dbOutdated>>

-----------------------------------------------------------------------------
(* The service, users, and what others do. *)

DbComeUp ==
    /\ \E db \in dbs :
          /\ db.state \in {"rebuilding", "error"}
          /\ dbs' = (dbs \ {db}) \cup
                {[db EXCEPT !.state = IF db.powered THEN "running" ELSE "stopped"]}
    /\ Free /\ UNCHANGED <<dbObj, dbCache, dbNetsUp, dbSecret, dbPass, dbMade, dbOutdated>>

DbHostUp ==
    /\ \E db \in dbs :
          /\ ~db.host
          /\ dbs' = (dbs \ {db}) \cup {[db EXCEPT !.host = TRUE]}
    /\ Free /\ UNCHANGED <<dbObj, dbCache, dbNetsUp, dbSecret, dbPass, dbMade, dbOutdated>>

DbEdit ==
    /\ dbObj.phase = "live"
    /\ \/ dbObj' = [dbObj EXCEPT !.powered = ~@]
       \/ dbObj' = [dbObj EXCEPT !.protected = ~@]
       \/ \E l \in DbLists \ {dbObj.nets} : dbObj' = [dbObj EXCEPT !.nets = l]
       \/ dbObj' = [dbObj EXCEPT !.phase = "deleting"]
    /\ Move /\ UNCHANGED <<dbCache, dbs, dbNetsUp, dbSecret, dbPass, dbMade, dbOutdated>>

\* The service fails or is removed by somebody.
DbDrift ==
    /\ \E db \in dbs :
          \/ dbs' = dbs \ {db}
          \/ /\ db.state \in {"running", "stopped"}
             /\ dbs' = (dbs \ {db}) \cup {[db EXCEPT !.state = "error"]}
    /\ Move /\ UNCHANGED <<dbObj, dbCache, dbNetsUp, dbSecret, dbPass, dbMade, dbOutdated>>

\* A referenced Network is not Ready for a while.
DbNetworkDown ==
    /\ dbNetsUp /\ dbNetsUp' = FALSE
    /\ Move /\ UNCHANGED <<dbObj, dbCache, dbs, dbSecret, dbPass, dbMade, dbOutdated>>

DbNetworkUp ==
    /\ ~dbNetsUp /\ dbNetsUp' = TRUE
    /\ Free /\ UNCHANGED <<dbObj, dbCache, dbs, dbSecret, dbPass, dbMade, dbOutdated>>

DbReconcile == \/ DbStart \/ DbObserve \/ DbJudge \/ DbCreate \/ DbPower \/ DbModify
               \/ DbSave \/ DbFinalize \/ DbRelease
DbNext == \/ DbReconcile \/ DbDeliver \/ DbCrash \/ DbComeUp \/ DbHostUp \/ DbEdit \/ DbDrift
          \/ DbNetworkDown \/ DbNetworkUp

-----------------------------------------------------------------------------
(* Properties. *)

\* The connection Secret of a Ready database with a host in its status is that
\* of the service in its status, also when the service was lost and made anew:
\* Observe writes the Secret before it reports Ready.  A service without a host
\* is reported Ready with no Secret, or with that of the service before it.
\* After a pass from an outdated status this holds again once a pass has saved
\* to the status it read (manageddatabase_adapter.go, Observe).
DbReadyMeansSecret == dbObj.ready /\ dbObj.host /\ ~dbOutdated => dbSecret = dbObj.id

\* The networks of two lists, however often each is there.
DbSameNetworks(a, b) == {a[i] : i \in DOMAIN a} = {b[i] : i \in DOMAIN b}

\* What DbSettles of MCServices says of the end.
DbSettled ==
    /\ dbObj.phase = "live" =>
         /\ dbObj.ready /\ dbSecret = dbObj.id
         /\ \E db \in dbs : /\ db.id = dbObj.id
                            /\ db.powered = dbObj.powered
                            /\ db.protected = dbObj.protected
                            /\ DbSameNetworks(db.nets, dbObj.nets)
    /\ dbObj.phase = "deleting" => \E db \in dbs : db.protected

=============================================================================
