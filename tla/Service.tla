------------------------------- MODULE Service -------------------------------
(***************************************************************************)
(* rime::Service (service.h, service.cc) and the calls of the C API that   *)
(* start, maintain and stop it (rime_api_impl.h), on the client's thread,  *)
(* with what the work thread of Deployer does meanwhile: it sends messages *)
(* to the front end, recovers damaged databases (user_db_recovery_task.cc) *)
(* and synchronizes user dictionaries (user_dict_manager.cc).              *)
(*                                                                         *)
(* The front end calls the API from one thread, between RimeInitialize and *)
(* RimeFinalize, in any order.  Its notification handler returns and calls *)
(* nothing in turn.                                                        *)
(***************************************************************************)
EXTENDS Deployer, FiniteSets

CONSTANT Sessions      \* the identifiers of sessions

VARIABLES
  started,             \* Service::started_
  levers,              \* the module "levers" is loaded
  sessions,            \* Service::sessions_
  notification_handler,\* Service::notification_handler_ is not empty
  mutex,               \* Service::mutex_: the thread that holds it, or "free"
  notify,              \* where a thread is in Service::Notify()
  client,              \* where the client's thread is in a call of the API
  todo,                \* the tasks that the call has still to schedule
  mode,                \* the maintenance_mode with which it will start the work
  loading,             \* the database that Load could not open, until it looks again
  users,               \* for each session the databases of its dictionaries
  loaded,              \* Db::loaded_: the databases that the sessions have open
  disabled,            \* Db::disabled_
  damaged,             \* the databases whose files cannot be opened
  syncing,             \* the database that user_dict_sync has open
  unsynced             \* the databases that user_dict_sync has still to open

serviceVars == <<started, levers, sessions, notification_handler, mutex, notify>>
clientVars  == <<client, todo, mode, loading>>
dictVars    == <<users, loaded, disabled, damaged, syncing, unsynced>>
vars == <<pending_tasks, maintenance_mode, work, run_pc, task,
          started, levers, sessions, notification_handler, mutex, notify,
          client, todo, mode, loading,
          users, loaded, disabled, damaged, syncing, unsynced>>

Thread      == {"client", "worker"}
NotifyPoint == {"none", "lock", "call"}
ClientPoint == {"idle", "recover", "schedule", "start_work", "join", "finalize", "notify"}

TypeOK ==
  /\ DeployerTypeOK
  /\ started \in BOOLEAN
  /\ levers \in BOOLEAN
  /\ sessions \subseteq Sessions
  /\ notification_handler \in BOOLEAN
  /\ mutex \in Thread \cup {"free"}
  /\ notify \in [Thread -> NotifyPoint]
  /\ client \in ClientPoint
  /\ todo \in Seq(Tasks)
  /\ mode \in BOOLEAN
  /\ loading \in Dbs \cup {NoDb}
  /\ users \in [Sessions -> SUBSET Dbs]
  /\ loaded \subseteq Dbs
  /\ disabled \subseteq Dbs
  /\ damaged \subseteq Dbs
  /\ syncing \in Dbs \cup {NoDb}
  /\ unsynced \subseteq Dbs

Init ==
  /\ DeployerInit
  /\ started = FALSE
  /\ levers = FALSE
  /\ sessions = {}
  /\ notification_handler = FALSE
  /\ mutex = "free"
  /\ notify = [ t \in Thread |-> "none" ]
  /\ client = "idle"
  /\ todo = <<>>
  /\ mode = FALSE
  /\ loading = NoDb
  /\ users = [ s \in Sessions |-> {} ]
  /\ loaded = {}
  /\ disabled = {}
  /\ damaged \in SUBSET Dbs
  /\ syncing = NoDb
  /\ unsynced = {}

-----------------------------------------------------------------------------
(* Service::Notify, on either thread: the handler is looked at before the  *)
(* mutex is taken, and called under it.                                    *)

\* Where Notify begins: it returns at once when there is no handler.
NotifyPointAtEntry == IF notification_handler THEN "lock" ELSE "none"

CanLock(t) == notify[t] = "lock" /\ mutex = "free"

Lock(t) ==
  /\ CanLock(t)
  /\ mutex' = t
  /\ notify' = [ notify EXCEPT ![t] = "call" ]
  /\ UNCHANGED <<deployerVars, started, levers, sessions, notification_handler,
                 clientVars, dictVars>>

\* Mutant of Unlock: the mutex is not released when the handler throws.
UnlockAfterHandler(t) ==
  /\ notify[t] = "call"
  /\ mutex' = IF notification_handler THEN "free" ELSE mutex
  /\ notify' = [ notify EXCEPT ![t] = "none" ]
  /\ UNCHANGED <<started, levers, sessions, notification_handler>>

Unlock(t) ==
  /\ notify[t] = "call"
  /\ mutex' = "free"
  /\ notify' = [ notify EXCEPT ![t] = "none" ]
  /\ UNCHANGED <<started, levers, sessions, notification_handler>>

\* The message of an option that the client has switched in a session.
ClientNotified ==
  /\ Unlock("client")
  /\ client' = "idle"
  /\ UNCHANGED <<deployerVars, todo, mode, loading, dictVars>>

-----------------------------------------------------------------------------
(* The work thread                                                         *)

\* Run() sends a message and there is no handler.
WorkerUnheard ==
  /\ run_pc \in {"announce", "report"}
  /\ notify["worker"] = "none"
  /\ NotifyPointAtEntry = "none"
  /\ MessageSent
  /\ UNCHANGED <<serviceVars, clientVars, dictVars>>

WorkerNotifies ==
  /\ run_pc \in {"announce", "report"}
  /\ notify["worker"] = "none"
  /\ NotifyPointAtEntry = "lock"
  /\ notify' = [ notify EXCEPT !["worker"] = "lock" ]
  /\ UNCHANGED <<deployerVars, started, levers, sessions, notification_handler,
                 mutex, clientVars, dictVars>>

\* Calling an empty std::function throws.
WorkerNotified ==
  /\ Unlock("worker")
  /\ IF notification_handler THEN MessageSent ELSE MessageThrew
  /\ UNCHANGED <<clientVars, dictVars>>

WorkerNextTask ==
  /\ NextTask
  /\ unsynced' = IF task'.name = "user_dict_sync" THEN Dbs ELSE unsynced
  /\ UNCHANGED <<serviceVars, clientVars, users, loaded, disabled, damaged, syncing>>

\* Any task but the two that follow.
RunPlainTask ==
  /\ task.name \notin {"user_dict_sync", "userdb_recovery_task"}
  /\ TaskDone
  /\ UNCHANGED <<serviceVars, clientVars, dictVars>>

\* UserDictManager::Synchronize opens a database by itself; LevelDB refuses that
\* while a session has it open.
SyncOpen(db) ==
  /\ run_pc = "task" /\ task.name = "user_dict_sync"
  /\ db \in unsynced
  /\ syncing = NoDb
  /\ syncing' = IF db \in loaded \cup damaged THEN NoDb ELSE db
  /\ unsynced' = unsynced \ {db}
  /\ UNCHANGED <<deployerVars, serviceVars, clientVars,
                 users, loaded, disabled, damaged>>

SyncClose ==
  /\ syncing # NoDb
  /\ syncing' = NoDb
  /\ UNCHANGED <<deployerVars, serviceVars, clientVars,
                 users, loaded, disabled, damaged, unsynced>>

SyncDone ==
  /\ task.name = "user_dict_sync"
  /\ unsynced = {} /\ syncing = NoDb
  /\ TaskDone
  /\ UNCHANGED <<serviceVars, clientVars, dictVars>>

\* A database object lives as long as the dictionaries of some session use it.
Used(db) == \E s \in sessions : db \in users[s]

\* UserDbRecoveryTask::Run: repair the files, else recreate and open them.
RecoveryOutcomes(db) ==
  IF db \in loaded THEN {"failed"} ELSE {"repaired", "recreated", "failed"}

\* Mutant of Recover: the database is not enabled when its recovery has failed.
RecoverStaysDisabled(db, outcome) ==
  /\ outcome \in RecoveryOutcomes(db)
  /\ damaged' = IF outcome = "failed" THEN damaged ELSE damaged \ {db}
  /\ disabled' = IF outcome = "failed" THEN disabled ELSE disabled \ {db}
  /\ loaded' = IF outcome = "recreated" /\ Used(db) THEN loaded \cup {db} ELSE loaded

Recover(db, outcome) ==
  /\ outcome \in RecoveryOutcomes(db)
  /\ damaged' = IF outcome = "failed" THEN damaged ELSE damaged \ {db}
  /\ disabled' = disabled \ {db}
  /\ loaded' = IF outcome = "recreated" /\ Used(db) THEN loaded \cup {db} ELSE loaded

RunRecoveryTask ==
  /\ task.name = "userdb_recovery_task"
  /\ TaskDone
  /\ \E outcome \in {"repaired", "recreated", "failed"} : Recover(task.db, outcome)
  /\ UNCHANGED <<serviceVars, clientVars, users, syncing, unsynced>>

WorkerDoubleCheck ==
  (DoubleCheck \/ Quit) /\ UNCHANGED <<serviceVars, clientVars, dictVars>>

Worker ==
  \/ WorkerUnheard
  \/ WorkerNotifies
  \/ WorkerNotified
  \/ WorkerNextTask
  \/ RunPlainTask
  \/ \E db \in Dbs : SyncOpen(db)
  \/ SyncClose
  \/ SyncDone
  \/ RunRecoveryTask
  \/ WorkerDoubleCheck

-----------------------------------------------------------------------------
(* The C API                                                               *)

Idle    == client = "idle"
Serving == Idle /\ started

\* Service::disabled()
Disabled == ~started \/ IsMaintenanceMode

RimeSetNotificationHandler(handler) ==
  /\ Idle
  /\ notification_handler' = handler
  /\ UNCHANGED <<deployerVars, started, levers, sessions, mutex, notify,
                 clientVars, dictVars>>

RimeInitialize ==
  /\ Idle
  /\ ~started
  /\ started' = TRUE
  /\ UNCHANGED <<deployerVars, levers, sessions, notification_handler, mutex,
                 notify, clientVars, dictVars>>

\* What happens to the databases when the sessions in "gone" are destroyed.
Destroy(gone) ==
  /\ sessions' = sessions \ gone
  /\ users' = [ s \in Sessions |-> IF s \in gone THEN {} ELSE users[s] ]
  /\ loaded' = { db \in loaded : \E s \in sessions \ gone : db \in users[s] }

\* The bound: the front end does not start what the queue has no room for.
HasRoom(tasks) == Len(pending_tasks) + Len(tasks) <= MaxPending

\* The tasks that run at once, on this thread, may fail and end the call.
RimeStartMaintenance ==
  /\ Serving
  /\ levers' = TRUE
  /\ \/ UNCHANGED clientVars
     \/ /\ HasRoom(MaintenanceTasks)
        /\ client' = "schedule"
        /\ todo' = MaintenanceTasks
        /\ mode' = TRUE
        /\ UNCHANGED loading
  /\ UNCHANGED <<deployerVars, started, sessions, notification_handler, mutex,
                 notify, dictVars>>

\* ScheduleTask fails for a task that is not registered.
RimeSyncUserData ==
  /\ Serving
  /\ HasRoom(SyncTasks)
  /\ Destroy(sessions)
  /\ client' = IF levers THEN "schedule" ELSE "start_work"
  /\ todo' = IF levers THEN SyncTasks ELSE <<>>
  /\ mode' = TRUE
  /\ UNCHANGED <<deployerVars, started, levers, notification_handler, mutex,
                 notify, loading, disabled, damaged, syncing, unsynced>>

Schedule ==
  /\ client = "schedule"
  /\ ScheduleTask(Head(todo))
  /\ todo' = Tail(todo)
  /\ client' = IF Len(todo) = 1 THEN "start_work" ELSE "schedule"
  /\ UNCHANGED <<mode, loading, serviceVars, dictVars>>

ClientStartsWork ==
  /\ client = "start_work"
  /\ StartWork(mode)
  /\ client' = "idle"
  /\ mode' = FALSE
  /\ UNCHANGED <<todo, loading, serviceVars, dictVars>>

RimeJoinMaintenanceThread ==
  /\ Serving
  /\ client' = "join"
  /\ UNCHANGED <<deployerVars, serviceVars, todo, mode, loading, dictVars>>

Joined ==
  /\ client = "join"
  /\ JoinWorkThread
  /\ client' = "idle"
  /\ UNCHANGED <<serviceVars, todo, mode, loading, dictVars>>

RimeFinalize ==
  /\ Serving
  /\ client' = "finalize"
  /\ UNCHANGED <<deployerVars, serviceVars, todo, mode, loading, dictVars>>

\* The work thread is joined before the sessions and the components go.  What it
\* had thrown ends the call there.
Finalized ==
  /\ client = "finalize"
  /\ JoinWorkThread
  /\ client' = "idle"
  /\ IF work = "threw"
     THEN UNCHANGED <<started, levers, sessions, users, loaded>>
     ELSE started' = FALSE /\ levers' = FALSE /\ Destroy(sessions)
  /\ UNCHANGED <<notification_handler, mutex, notify, todo, mode, loading,
                 disabled, damaged, syncing, unsynced>>

CreateSession(s) ==
  /\ Serving
  /\ ~Disabled
  /\ s \notin sessions
  /\ sessions' = sessions \cup {s}
  /\ UNCHANGED <<deployerVars, started, levers, notification_handler, mutex,
                 notify, clientVars, dictVars>>

\* RimeDestroySession, RimeCleanupStaleSessions and RimeCleanupAllSessions do not
\* ask whether the service is disabled.
DestroySessions(gone) ==
  /\ Serving
  /\ gone # {}
  /\ Destroy(gone)
  /\ UNCHANGED <<deployerVars, started, levers, notification_handler, mutex,
                 notify, clientVars, disabled, damaged, syncing, unsynced>>

\* RimeSetOption, and a key that switches an option.
RimeSetOption(s) ==
  /\ Serving
  /\ ~Disabled
  /\ s \in sessions
  /\ NotifyPointAtEntry = "lock"
  /\ client' = "notify"
  /\ notify' = [ notify EXCEPT !["client"] = "lock" ]
  /\ UNCHANGED <<deployerVars, started, levers, sessions, notification_handler,
                 mutex, todo, mode, loading, dictVars>>

\* Mutant of MayRecover: whether a work thread is running is not asked.
MayRecoverAnytime == TRUE

\* UserDictionary::Load tries to recover a database "in available work thread".
MayRecover == ~IsWorking

CanOpen(db) == db \notin damaged /\ db # syncing

\* UserDictionary::Load, when an engine is set up: by CreateSession, or when the
\* session switches to another schema.  Open fails for a database that is damaged, or
\* that the work thread has open.
LoadUserDictionary(s, db) ==
  /\ Serving
  /\ ~Disabled
  /\ s \in sessions
  /\ users' = [ users EXCEPT ![s] = @ \cup {db} ]
  /\ \/ /\ db \in disabled \cup loaded
        /\ UNCHANGED <<loaded, clientVars>>
     \/ /\ db \notin disabled \cup loaded
        /\ CanOpen(db)
        /\ loaded' = loaded \cup {db}
        /\ UNCHANGED clientVars
     \/ /\ db \notin disabled \cup loaded
        /\ ~CanOpen(db)
        /\ HasRoom(<<Recovery(db)>>)
        /\ client' = "recover"
        /\ loading' = db
        /\ UNCHANGED <<loaded, todo, mode>>
  /\ UNCHANGED <<deployerVars, serviceVars, disabled, damaged, syncing, unsynced>>

\* Load asks for the work thread only now, when that may have closed the database and
\* come to its end.  The task disables the database when it is created.
RecoverLoading ==
  /\ client = "recover"
  /\ loading' = NoDb
  /\ \/ /\ ~MayRecover
        /\ client' = "idle"
        /\ UNCHANGED <<disabled, todo, mode>>
     \/ /\ MayRecover
        /\ disabled' = disabled \cup {loading}
        /\ client' = "schedule"
        /\ todo' = <<Recovery(loading)>>
        /\ mode' = FALSE
  /\ UNCHANGED <<deployerVars, serviceVars, users, loaded, damaged, syncing, unsynced>>

\* What a call does until it returns.
ClientContinues ==
  \/ RecoverLoading
  \/ Schedule
  \/ ClientStartsWork
  \/ Joined
  \/ Finalized
  \/ Lock("client")
  \/ ClientNotified

API ==
  \/ \E handler \in BOOLEAN : RimeSetNotificationHandler(handler)
  \/ RimeInitialize
  \/ RimeStartMaintenance
  \/ RimeSyncUserData
  \/ RimeJoinMaintenanceThread
  \/ RimeFinalize
  \/ \E s \in Sessions : CreateSession(s) \/ RimeSetOption(s)
  \/ \E gone \in SUBSET sessions : DestroySessions(gone)
  \/ \E s \in Sessions, db \in Dbs : LoadUserDictionary(s, db)

Next == ClientContinues \/ API \/ Worker \/ Lock("worker")

\* A call goes on until it returns, the work thread runs, tasks and the handler
\* return.  A thread that waits for the mutex gets it in the end, though the other
\* one may take it again and again.
Fairness ==
  /\ WF_vars(ClientContinues)
  /\ WF_vars(Worker)
  /\ SF_vars(Lock("worker"))

Spec == Init /\ [][Next]_vars /\ Fairness
=============================================================================
