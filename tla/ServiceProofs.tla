---------------------------- MODULE ServiceProofs ----------------------------
(***************************************************************************)
(* For any number of sessions, databases and pending tasks: the two        *)
(* threads keep their types, the handler is called by one of them at a     *)
(* time, nothing goes on after RimeFinalize, tasks are run in order, and no      *)
(* session opens a database that is to be recovered.                       *)
(***************************************************************************)
EXTENDS ServiceProperties, SequenceTheorems, TLAPS

\* Whoever holds the mutex calls the handler.  The client is in Notify while it
\* switches an option, and the work thread only when Run() sends a message.
NotifyInv ==
  /\ \A t \in Thread : notify[t] = "call" <=> mutex = t
  /\ notify["client"] # "none" <=> client = "notify"
  /\ notify["worker"] # "none" => run_pc \in {"announce", "report"}

\* A call that has not returned is made between RimeInitialize and RimeFinalize.  It has
\* tasks to schedule until it has scheduled the last one, and a database to think of
\* between its two looks.
CallInv ==
  /\ client # "idle" => started
  /\ client = "schedule" <=> todo # <<>>
  /\ client = "recover" <=> loading # NoDb

\* user_dict_sync has a database open only while it runs.
SyncInv == syncing # NoDb => run_pc = "task" /\ task.name = "user_dict_sync"

IInv == TypeOK /\ NotifyInv /\ CallInv /\ SyncInv /\ QuietAfterFinalize

-----------------------------------------------------------------------------
\* What each task is.
LEMMA TasksFacts ==
  /\ MaintenanceTasks \in Seq(Tasks) /\ MaintenanceTasks # <<>>
  /\ SyncTasks \in Seq(Tasks) /\ SyncTasks # <<>>
  /\ \A db \in Dbs : Recovery(db) \in Tasks
  /\ NoTask \notin Tasks
  /\ \A t \in Tasks : t.name = "userdb_recovery_task" => t.db \in Dbs /\ t = Recovery(t.db)
<1>1. \A i \in 1 .. 3 : MaintenanceTasks[i] \in Tasks /\ SyncTasks[i] \in Tasks
  BY DEF Tasks
<1>2. MaintenanceTasks \in Seq(Tasks) /\ MaintenanceTasks # <<>>
  BY <1>1 DEF MaintenanceTasks
<1>3. SyncTasks \in Seq(Tasks) /\ SyncTasks # <<>>
  BY <1>1 DEF SyncTasks
<1>4. \A db \in Dbs : Recovery(db) \in Tasks
  BY DEF Tasks
<1>5. NoTask \notin Tasks
  <2>1. \A t \in Tasks : t.name # "none"
    BY DEF Tasks, Task, Recovery, MaintenanceTasks, SyncTasks
  <2> QED
    BY <2>1 DEF NoTask, Task
<1>6. \A t \in Tasks : t.name = "userdb_recovery_task" => t.db \in Dbs /\ t = Recovery(t.db)
  BY DEF Tasks, Task, Recovery, MaintenanceTasks, SyncTasks
<1> QED
  BY <1>2, <1>3, <1>4, <1>5, <1>6

\* Taking the first of the tasks.
LEMMA HeadTail ==
  ASSUME NEW queue \in Seq(Tasks), queue # <<>>
  PROVE  /\ Head(queue) \in Tasks
         /\ Tail(queue) \in Seq(Tasks)
         /\ Len(queue) = 1 <=> Tail(queue) = <<>>
<1>1. Head(queue) \in Tasks /\ Tail(queue) \in Seq(Tasks)
  OBVIOUS
<1>2. Len(queue) \in Nat /\ Len(queue) # 0 /\ Len(Tail(queue)) = Len(queue) - 1
  OBVIOUS
<1>3. \A q \in Seq(Tasks) : q = <<>> <=> Len(q) = 0
  OBVIOUS
<1> QED
  BY <1>1, <1>2, <1>3

\* The library starts with nothing scheduled and nobody running.
LEMMA InitIInv == Init => IInv
<1> SUFFICES ASSUME Init PROVE IInv
  OBVIOUS
<1> USE DEF Init, DeployerInit
<1>1. DeployerTypeOK
  <2>1. pending_tasks \in Seq(Tasks)
    OBVIOUS
  <2>2. task \in IF run_pc = "task" THEN Tasks ELSE {NoTask}
    OBVIOUS
  <2> QED
    BY <2>1, <2>2 DEF DeployerTypeOK, WorkState, RunPoint
<1>2. TypeOK
  <2>1. todo \in Seq(Tasks)
    OBVIOUS
  <2>2. notify \in [Thread -> NotifyPoint] /\ users \in [Sessions -> SUBSET Dbs]
    BY DEF NotifyPoint
  <2> QED
    BY <1>1, <2>1, <2>2 DEF TypeOK, Thread, ClientPoint
<1>3. NotifyInv /\ CallInv /\ SyncInv
  BY DEF NotifyInv, CallInv, SyncInv, Thread
<1>4. QuietAfterFinalize
  BY DEF QuietAfterFinalize
<1> QED
  BY <1>2, <1>3, <1>4 DEF IInv
-----------------------------------------------------------------------------
(* The steps                                                               *)

\* Every step of the client and of the work thread keeps the invariant.
LEMMA NextIInv == IInv /\ [Next]_vars => IInv'
<1> SUFFICES ASSUME IInv, [Next]_vars PROVE IInv'
  OBVIOUS
<1> USE DEF IInv, TypeOK, DeployerTypeOK, NotifyInv, CallInv, SyncInv, QuietAfterFinalize,
            Thread, NotifyPoint, ClientPoint, WorkState, RunPoint,
            vars, deployerVars, serviceVars, clientVars, dictVars
<1>1. CASE \E handler \in BOOLEAN : RimeSetNotificationHandler(handler)
  BY <1>1 DEF RimeSetNotificationHandler, Idle
<1>2. CASE RimeInitialize
  BY <1>2 DEF RimeInitialize, Idle
<1>3. CASE RimeStartMaintenance
  BY <1>3, TasksFacts DEF RimeStartMaintenance, Serving, Idle
<1>4. CASE RimeSyncUserData
  BY <1>4, TasksFacts DEF RimeSyncUserData, Serving, Idle, Destroy
<1>5. CASE RimeJoinMaintenanceThread
  BY <1>5 DEF RimeJoinMaintenanceThread, Serving, Idle
<1>6. CASE RimeFinalize
  BY <1>6 DEF RimeFinalize, Serving, Idle
<1>7. CASE \E s \in Sessions : CreateSession(s)
  BY <1>7 DEF CreateSession, Serving, Idle
<1>8. CASE \E s \in Sessions : RimeSetOption(s)
  BY <1>8 DEF RimeSetOption, Serving, Idle
<1>9. CASE \E gone \in SUBSET sessions : DestroySessions(gone)
  BY <1>9 DEF DestroySessions, Destroy, Serving, Idle
<1>10. CASE \E s \in Sessions, db \in Dbs : LoadUserDictionary(s, db)
  <2> PICK s \in Sessions, db \in Dbs : LoadUserDictionary(s, db)
    BY <1>10
  <2>1. /\ UNCHANGED <<deployerVars, serviceVars, damaged, syncing, unsynced>>
        /\ started /\ client = "idle" /\ s \in sessions
    BY DEF LoadUserDictionary, Serving, Idle
  <2>2. /\ users' \in [Sessions -> SUBSET Dbs]
        /\ loaded' \subseteq Dbs /\ UNCHANGED disabled
    BY DEF LoadUserDictionary
  <2>3. \/ UNCHANGED clientVars
        \/ client' = "recover" /\ loading' = db /\ UNCHANGED <<todo, mode>>
    BY DEF LoadUserDictionary
  <2>4. /\ loading' \in Dbs \cup {NoDb} /\ client' \in {"idle", "recover"}
        /\ client' = "recover" <=> loading' # NoDb
        /\ UNCHANGED <<todo, mode>>
    BY <2>1, <2>3, DbsAssumption
  <2> QED
    BY <2>1, <2>2, <2>4
<1>11. CASE Schedule
  <2>1. todo \in Seq(Tasks) /\ todo # <<>> /\ pending_tasks \in Seq(Tasks)
    BY <1>11 DEF Schedule
  <2>2. /\ todo' = Tail(todo) /\ todo' \in Seq(Tasks)
        /\ client' = "schedule" <=> todo' # <<>>
        /\ client' \in {"schedule", "start_work"}
    BY <1>11, <2>1, HeadTail DEF Schedule
  <2>3. pending_tasks' \in Seq(Tasks)
    BY <1>11, <2>1, HeadTail DEF Schedule, ScheduleTask
  <2>4. /\ UNCHANGED <<maintenance_mode, work, run_pc, task, mode, loading, serviceVars, dictVars>>
        /\ client = "schedule"
    BY <1>11 DEF Schedule, ScheduleTask
  <2> QED
    BY <2>2, <2>3, <2>4
<1>12. CASE ClientStartsWork
  BY <1>12 DEF ClientStartsWork, StartWork, CanStartWork, IsWorking
<1>13. CASE Joined
  BY <1>13 DEF Joined, JoinWorkThread, CanJoin, IsWorking
<1>14. CASE Finalized
  BY <1>14 DEF Finalized, JoinWorkThread, CanJoin, IsWorking, Destroy
<1>15. CASE \E t \in Thread : Lock(t)
  BY <1>15 DEF Lock, CanLock
<1>16. CASE ClientNotified
  BY <1>16 DEF ClientNotified, Unlock
<1>17. CASE WorkerUnheard
  BY <1>17 DEF WorkerUnheard, MessageSent
<1>18. CASE WorkerNotifies
  BY <1>18 DEF WorkerNotifies
<1>19. CASE WorkerNotified
  BY <1>19 DEF WorkerNotified, Unlock, MessageSent, MessageThrew
<1>20. CASE WorkerNextTask
  <2>1. /\ run_pc = "next"
        /\ UNCHANGED <<maintenance_mode, work, serviceVars, clientVars, users, loaded,
                       disabled, damaged, syncing>>
    BY <1>20 DEF WorkerNextTask, NextTask
  <2>2. /\ pending_tasks' \in Seq(Tasks)
        /\ run_pc' \in {"report", "task"}
        /\ task' \in IF run_pc' = "task" THEN Tasks ELSE {NoTask}
    BY <1>20, HeadTail DEF WorkerNextTask, NextTask
  <2>3. unsynced' \in SUBSET Dbs
    BY <1>20 DEF WorkerNextTask
  <2> QED
    BY <2>1, <2>2, <2>3
<1>21. CASE RunPlainTask
  BY <1>21 DEF RunPlainTask, TaskDone
<1>22. CASE \E db \in Dbs : SyncOpen(db)
  BY <1>22 DEF SyncOpen
<1>23. CASE SyncClose
  BY <1>23 DEF SyncClose
<1>24. CASE SyncDone
  BY <1>24 DEF SyncDone, TaskDone
<1>25. CASE RunRecoveryTask
  BY <1>25, TasksFacts DEF RunRecoveryTask, Recover, TaskDone
<1>26. CASE WorkerDoubleCheck
  BY <1>26 DEF WorkerDoubleCheck, DoubleCheck, Quit
<1>27. CASE RecoverLoading
  <2>1. /\ UNCHANGED <<deployerVars, serviceVars, users, loaded, damaged, syncing, unsynced>>
        /\ client = "recover" /\ started /\ loading \in Dbs /\ loading' = NoDb
    BY <1>27 DEF RecoverLoading
  <2>2. <<Recovery(loading)>> \in Seq(Tasks) /\ <<Recovery(loading)>> # <<>>
    BY <2>1, TasksFacts
  <2>3. \/ client' = "idle" /\ UNCHANGED <<disabled, todo, mode>>
        \/ /\ client' = "schedule" /\ todo' = <<Recovery(loading)>> /\ mode' = FALSE
           /\ disabled' = disabled \cup {loading}
    BY <1>27 DEF RecoverLoading
  <2>4. /\ todo' \in Seq(Tasks) /\ mode' \in BOOLEAN /\ client' \in {"idle", "schedule"}
        /\ client' = "schedule" <=> todo' # <<>>
        /\ disabled' \subseteq Dbs
    BY <2>1, <2>2, <2>3
  <2> QED
    BY <2>1, <2>4
<1>28. CASE UNCHANGED vars
  BY <1>28
<1> QED
  BY <1>1, <1>2, <1>3, <1>4, <1>5, <1>6, <1>7, <1>8, <1>9, <1>10, <1>11, <1>12, <1>13,
     <1>14, <1>15, <1>16, <1>17, <1>18, <1>19, <1>20, <1>21, <1>22, <1>23, <1>24, <1>25, <1>26, <1>27, <1>28
     DEF Next, ClientContinues, API, Worker

-----------------------------------------------------------------------------
(* The queue of tasks                                                      *)

LEMMA UnfinishedType == IInv => Unfinished \in Seq(Tasks) /\ todo \in Seq(Tasks)
<1> SUFFICES ASSUME IInv PROVE Unfinished \in Seq(Tasks)
  BY DEF IInv, TypeOK
<1>1. pending_tasks \in Seq(Tasks)
  BY DEF IInv, TypeOK, DeployerTypeOK
<1>2. CASE run_pc = "task"
  <2>1. task \in Tasks
    BY <1>2 DEF IInv, TypeOK, DeployerTypeOK
  <2>2. <<task>> \in Seq(Tasks)
    BY <2>1
  <2> QED
    BY <1>1, <1>2, <2>2, ConcatProperties DEF Unfinished
<1> QED
  BY <1>1, <1>2 DEF Unfinished

\* Five kinds of steps: a call schedules the next of its tasks; the task that runs
\* is done; a call begins, with tasks of its own or to recover a database; the others
\* leave the queue alone.
SchedulesOne ==
  /\ todo # <<>>
  /\ Unfinished' = Append(Unfinished, Head(todo))
  /\ todo' = Tail(todo)
FinishesOne ==
  /\ run_pc = "task"
  /\ Unfinished # <<>>
  /\ task = Head(Unfinished)
  /\ Unfinished' = Tail(Unfinished)
  /\ todo' = todo
BeginsCall ==
  /\ todo = <<>>
  /\ Unfinished' = Unfinished
  /\ todo' \in {<<>>, MaintenanceTasks, SyncTasks}
BeginsRecovery(db) ==
  /\ todo = <<>>
  /\ Unfinished' = Unfinished
  /\ todo' = <<Recovery(db)>>
  /\ ~IsWorking
  /\ db = loading
  /\ disabled' = disabled \cup {db}
  /\ UNCHANGED <<loaded, work, syncing>>
LeavesQueue == Unfinished' = Unfinished /\ todo' = todo

\* Nothing is done to the queue by a step that leaves the work thread in its task
\* or out of it.
LEMMA SameQueue ==
  ASSUME UNCHANGED <<pending_tasks, task>>, run_pc = "task" <=> run_pc' = "task"
  PROVE  Unfinished' = Unfinished
BY DEF Unfinished

LEMMA ScheduleStep == ASSUME IInv, Schedule PROVE SchedulesOne
<1>1. pending_tasks \in Seq(Tasks) /\ todo \in Seq(Tasks) /\ todo # <<>>
  BY DEF IInv, TypeOK, DeployerTypeOK, CallInv, Schedule
<1>2. /\ pending_tasks' = Append(pending_tasks, Head(todo)) /\ todo' = Tail(todo)
      /\ UNCHANGED <<run_pc, task>>
  BY DEF Schedule, ScheduleTask
<1>3. Head(todo) \in Tasks
  BY <1>1, HeadTail
<1>4. CASE run_pc = "task"
  <2>1. task \in Tasks
    BY <1>4 DEF IInv, TypeOK, DeployerTypeOK
  <2>2. <<task>> \o Append(pending_tasks, Head(todo))
          = Append(<<task>> \o pending_tasks, Head(todo))
    BY <1>1, <1>3, <2>1
  <2> QED
    BY <1>1, <1>2, <1>4, <2>2 DEF SchedulesOne, Unfinished
<1>5. CASE run_pc # "task"
  BY <1>1, <1>2, <1>5 DEF SchedulesOne, Unfinished
<1> QED
  BY <1>4, <1>5

LEMMA FinishStep ==
  ASSUME IInv, TaskDone, UNCHANGED clientVars
  PROVE  FinishesOne
<1>1. pending_tasks \in Seq(Tasks) /\ task \in Tasks
  BY DEF IInv, TypeOK, DeployerTypeOK, TaskDone
<1>2. /\ Unfinished = <<task>> \o pending_tasks
      /\ Unfinished' = pending_tasks
  BY DEF TaskDone, Unfinished
<1>3. /\ <<task>> \o pending_tasks # <<>>
      /\ Head(<<task>> \o pending_tasks) = task
      /\ Tail(<<task>> \o pending_tasks) = pending_tasks
  BY <1>1
<1> QED
  BY <1>2, <1>3 DEF FinishesOne, TaskDone, clientVars

\* The task that the work thread takes from the queue stays the first of those that
\* are not finished.
LEMMA TakeStep == ASSUME IInv, WorkerNextTask PROVE LeavesQueue
<1>1. pending_tasks \in Seq(Tasks) /\ run_pc = "next" /\ UNCHANGED todo
  BY DEF IInv, TypeOK, DeployerTypeOK, WorkerNextTask, NextTask, clientVars
<1>2. CASE pending_tasks = <<>>
  BY <1>1, <1>2 DEF WorkerNextTask, NextTask, Unfinished, LeavesQueue
<1>3. CASE pending_tasks # <<>>
  <2>1. <<Head(pending_tasks)>> \o Tail(pending_tasks) = pending_tasks
    BY <1>1, <1>3
  <2> QED
    BY <1>1, <1>3, <2>1 DEF WorkerNextTask, NextTask, Unfinished, LeavesQueue
<1> QED
  BY <1>2, <1>3

\* What each step does to the queue.
LEMMA QueueStep ==
  ASSUME IInv, [Next]_vars
  PROVE  \/ SchedulesOne \/ FinishesOne \/ BeginsCall \/ LeavesQueue
         \/ \E db \in Dbs : BeginsRecovery(db)
<1> USE DEF vars, deployerVars, serviceVars, clientVars, dictVars
<1>1. CASE Schedule
  BY <1>1, ScheduleStep
<1>2. CASE RunPlainTask \/ SyncDone \/ RunRecoveryTask
  BY <1>2, FinishStep DEF RunPlainTask, SyncDone, RunRecoveryTask
<1>3. CASE WorkerNextTask
  BY <1>3, TakeStep
<1>4. CASE RimeStartMaintenance \/ RimeSyncUserData
  <2>1. UNCHANGED deployerVars /\ client = "idle"
    BY <1>4 DEF RimeStartMaintenance, RimeSyncUserData, Serving, Idle
  <2>2. todo = <<>>
    BY <2>1 DEF IInv, CallInv
  <2>3. todo' \in {<<>>, MaintenanceTasks, SyncTasks}
    BY <1>4, <2>2 DEF RimeStartMaintenance, RimeSyncUserData
  <2> QED
    BY <2>1, <2>2, <2>3, SameQueue DEF BeginsCall
<1>5. CASE RecoverLoading
  <2>1. /\ UNCHANGED deployerVars /\ client = "recover"
        /\ loading \in Dbs /\ todo = <<>>
    BY <1>5 DEF RecoverLoading, IInv, TypeOK, CallInv
  <2>2. Unfinished' = Unfinished
    BY <2>1, SameQueue
  <2>3. CASE todo' = todo
    BY <2>2, <2>3 DEF LeavesQueue
  <2>4. CASE todo' # todo
    BY <1>5, <2>1, <2>2, <2>4 DEF RecoverLoading, MayRecover, BeginsRecovery
  <2> QED
    BY <2>3, <2>4
<1>6. CASE WorkerUnheard \/ WorkerNotified \/ WorkerDoubleCheck
  <2>1. run_pc # "task" /\ run_pc' # "task"
    BY <1>6 DEF WorkerUnheard, WorkerNotified, WorkerDoubleCheck, MessageSent, MessageThrew,
                DoubleCheck, Quit, Unlock, IInv, NotifyInv, Thread
  <2>2. UNCHANGED <<pending_tasks, task, todo>>
    BY <1>6 DEF WorkerUnheard, WorkerNotified, WorkerDoubleCheck, MessageSent, MessageThrew,
                DoubleCheck, Quit
  <2> QED
    BY <2>1, <2>2, SameQueue DEF LeavesQueue
<1>7. CASE ClientStartsWork
  <2>1. run_pc = "task" => work = "running"
    BY DEF IInv, TypeOK, DeployerTypeOK
  <2>2. UNCHANGED <<pending_tasks, task, todo>> /\ (run_pc = "task" <=> run_pc' = "task")
    BY <1>7, <2>1 DEF ClientStartsWork, StartWork, CanStartWork, IsWorking
  <2> QED
    BY <2>2, SameQueue DEF LeavesQueue
<1>8. CASE UNCHANGED <<pending_tasks, run_pc, task, todo>>
  BY <1>8, SameQueue DEF LeavesQueue
<1>9. CASE \/ Joined \/ Finalized \/ ClientNotified \/ \E t \in Thread : Lock(t)
           \/ \E handler \in BOOLEAN : RimeSetNotificationHandler(handler)
           \/ RimeInitialize \/ RimeJoinMaintenanceThread \/ RimeFinalize
           \/ \E s \in Sessions : CreateSession(s) \/ RimeSetOption(s)
           \/ \E gone \in SUBSET sessions : DestroySessions(gone)
           \/ \E s \in Sessions, db \in Dbs : LoadUserDictionary(s, db)
           \/ WorkerNotifies \/ (\E db \in Dbs : SyncOpen(db)) \/ SyncClose
  <2>1. UNCHANGED <<pending_tasks, run_pc, task, todo>>
    BY <1>9 DEF Joined, Finalized, JoinWorkThread, ClientNotified, Lock,
                RimeSetNotificationHandler, RimeInitialize, RimeJoinMaintenanceThread,
                RimeFinalize, CreateSession, RimeSetOption, DestroySessions,
                LoadUserDictionary, WorkerNotifies, SyncOpen, SyncClose
  <2> QED
    BY <1>8, <2>1
<1> QED
  BY <1>1, <1>2, <1>3, <1>4, <1>5, <1>6, <1>7, <1>8, <1>9
     DEF Next, ClientContinues, API, Worker, Thread
-----------------------------------------------------------------------------
(* Recoveries                                                              *)

\* No session opens a database that is disabled.
Exclusive(db) == db \in disabled \ loaded

\* The database that Load looks at again is still not disabled: nobody else asks for
\* its recovery meanwhile.  A call has a recovery to schedule only while no thread works.
RecoveryInv ==
  /\ Once(Coming)
  /\ \A db \in Dbs : HasTask(Coming, Recovery(db)) => Exclusive(db)
  /\ loading \notin disabled \cup loaded
  /\ \A db \in Dbs : HasTask(todo, Recovery(db)) => ~IsWorking

LEMMA HasTaskConcat ==
  ASSUME NEW q1 \in Seq(Tasks), NEW q2 \in Seq(Tasks), NEW t
  PROVE  HasTask(q1 \o q2, t) <=> HasTask(q1, t) \/ HasTask(q2, t)
<1>1. /\ q1 \o q2 \in Seq(Tasks)
      /\ Len(q1 \o q2) = Len(q1) + Len(q2)
      /\ Len(q1) \in Nat /\ Len(q2) \in Nat
      /\ \A i \in 1 .. Len(q1) + Len(q2) :
           (q1 \o q2)[i] = IF i <= Len(q1) THEN q1[i] ELSE q2[i - Len(q1)]
  BY ConcatProperties, LenProperties
<1>2. /\ DOMAIN q1 = 1 .. Len(q1) /\ DOMAIN q2 = 1 .. Len(q2)
      /\ DOMAIN (q1 \o q2) = 1 .. (Len(q1) + Len(q2))
  BY <1>1, LenProperties
<1>3. ASSUME HasTask(q1 \o q2, t) PROVE HasTask(q1, t) \/ HasTask(q2, t)
  <2> PICK i \in 1 .. (Len(q1) + Len(q2)) : (q1 \o q2)[i] = t
    BY <1>2, <1>3 DEF HasTask
  <2>1. CASE i <= Len(q1)
    BY <1>1, <1>2, <2>1 DEF HasTask
  <2>2. CASE i > Len(q1)
    <3>1. i - Len(q1) \in 1 .. Len(q2) /\ q2[i - Len(q1)] = t
      BY <1>1, <2>2
    <3> QED
      BY <1>2, <3>1 DEF HasTask
  <2> QED
    BY <1>1, <2>1, <2>2
<1>4. ASSUME HasTask(q1, t) PROVE HasTask(q1 \o q2, t)
  BY <1>1, <1>2, <1>4 DEF HasTask
<1>5. ASSUME HasTask(q2, t) PROVE HasTask(q1 \o q2, t)
  <2> PICK i \in 1 .. Len(q2) : q2[i] = t
    BY <1>2, <1>5 DEF HasTask
  <2>1. i + Len(q1) \in 1 .. (Len(q1) + Len(q2)) /\ (q1 \o q2)[i + Len(q1)] = t
    BY <1>1
  <2> QED
    BY <1>2, <2>1 DEF HasTask
<1> QED
  BY <1>3, <1>4, <1>5

LEMMA MoveOne ==
  ASSUME NEW q1 \in Seq(Tasks), NEW q2 \in Seq(Tasks), q2 # <<>>
  PROVE  Append(q1, Head(q2)) \o Tail(q2) = q1 \o q2
<1>1. Head(q2) \in Tasks /\ Tail(q2) \in Seq(Tasks)
  BY HeadTail
<1>2. Append(q1, Head(q2)) = q1 \o <<Head(q2)>> /\ <<Head(q2)>> \in Seq(Tasks)
  BY <1>1
<1>3. <<Head(q2)>> \o Tail(q2) = q2
  BY <1>1
<1> QED
  BY <1>1, <1>2, <1>3, ConcatAssociative

LEMMA TailOfConcat ==
  ASSUME NEW q1 \in Seq(Tasks), NEW q2 \in Seq(Tasks), q1 # <<>>
  PROVE  /\ q1 \o q2 \in Seq(Tasks) /\ q1 \o q2 # <<>>
         /\ Head(q1 \o q2) = Head(q1)
         /\ Tail(q1) \o q2 = Tail(q1 \o q2)
<1>1. Head(q1) \in Tasks /\ Tail(q1) \in Seq(Tasks)
  BY HeadTail
<1>2. <<Head(q1)>> \o Tail(q1) = q1 /\ <<Head(q1)>> \in Seq(Tasks)
  BY <1>1
<1> DEFINE rest == Tail(q1) \o q2
<1>3. rest \in Seq(Tasks)
  BY <1>1, ConcatProperties
<1>4. q1 \o q2 = <<Head(q1)>> \o rest
  BY <1>1, <1>2, ConcatAssociative
<1> HIDE DEF rest
<1>5. /\ <<Head(q1)>> \o rest \in Seq(Tasks) /\ <<Head(q1)>> \o rest # <<>>
      /\ Head(<<Head(q1)>> \o rest) = Head(q1)
      /\ Tail(<<Head(q1)>> \o rest) = rest
  BY <1>1, <1>3
<1> QED
  BY <1>4, <1>5 DEF rest

\* A recovery that is done does not come again.
LEMMA OnceTail ==
  ASSUME NEW queue \in Seq(Tasks), queue # <<>>, Once(queue)
  PROVE  /\ Once(Tail(queue))
         /\ \A t : HasTask(Tail(queue), t) => HasTask(queue, t)
         /\ \A db \in Dbs : Head(queue) = Recovery(db) => ~HasTask(Tail(queue), Recovery(db))
<1>1. /\ Tail(queue) \in Seq(Tasks) /\ Len(queue) \in Nat /\ Len(queue) # 0
      /\ Len(Tail(queue)) = Len(queue) - 1
      /\ \A i \in 1 .. Len(Tail(queue)) : Tail(queue)[i] = queue[i + 1]
      /\ Head(queue) = queue[1]
  BY HeadTailProperties, LenProperties, EmptySeq
<1>2. DOMAIN queue = 1 .. Len(queue) /\ DOMAIN Tail(queue) = 1 .. (Len(queue) - 1)
  BY <1>1, LenProperties
<1> HIDE DEF Recovery
<1>3. Once(Tail(queue))
  BY <1>1, <1>2 DEF Once
<1>4. \A t : HasTask(Tail(queue), t) => HasTask(queue, t)
  BY <1>1, <1>2 DEF HasTask
<1>5. \A db \in Dbs : Head(queue) = Recovery(db) => ~HasTask(Tail(queue), Recovery(db))
  BY <1>1, <1>2 DEF Once, HasTask
<1> QED
  BY <1>3, <1>4, <1>5

\* Adding a recovery that does not come yet.
LEMMA OnceAppend ==
  ASSUME NEW queue \in Seq(Tasks), Once(queue),
         NEW new \in Dbs, ~HasTask(queue, Recovery(new))
  PROVE  Once(queue \o <<Recovery(new)>>)
<1>1. Recovery(new) \in Tasks /\ \A db \in Dbs : Recovery(db) = Recovery(new) => db = new
  BY TasksFacts DEF Recovery
<1>2. /\ queue \o <<Recovery(new)>> = Append(queue, Recovery(new))
      /\ Len(queue) \in Nat
      /\ DOMAIN queue = 1 .. Len(queue)
      /\ DOMAIN Append(queue, Recovery(new)) = 1 .. (Len(queue) + 1)
      /\ \A i \in 1 .. Len(queue) : Append(queue, Recovery(new))[i] = queue[i]
  BY <1>1, LenProperties
<1>3. SUFFICES ASSUME NEW db \in Dbs,
                      NEW i \in 1 .. (Len(queue) + 1), NEW j \in 1 .. (Len(queue) + 1),
                      Append(queue, Recovery(new))[i] = Recovery(db),
                      Append(queue, Recovery(new))[j] = Recovery(db)
               PROVE  i = j
  BY <1>2 DEF Once
<1>4. i \in 1 .. Len(queue) /\ j \in 1 .. Len(queue) => i = j
  BY <1>2, <1>3 DEF Once
<1>5. Append(queue, Recovery(new))[Len(queue) + 1] = Recovery(new)
  BY <1>1, <1>2
<1>6. db = new => i \notin 1 .. Len(queue) /\ j \notin 1 .. Len(queue)
  BY <1>2, <1>3 DEF HasTask
<1>7. db # new => i # Len(queue) + 1 /\ j # Len(queue) + 1
  BY <1>1, <1>3, <1>5
<1> QED
  BY <1>2, <1>4, <1>6, <1>7

\* Adding tasks that recover nothing.
LEMMA OnceConcat ==
  ASSUME NEW queue \in Seq(Tasks), Once(queue),
         NEW new \in Seq(Tasks), \A i \in DOMAIN new : new[i].name # "userdb_recovery_task"
  PROVE  Once(queue \o new) /\ \A db : ~HasTask(new, Recovery(db))
<1>1. \A db : \A i \in DOMAIN new : new[i] # Recovery(db)
  BY DEF Recovery
<1>2. /\ queue \o new \in Seq(Tasks)
      /\ Len(queue \o new) = Len(queue) + Len(new)
      /\ Len(queue) \in Nat /\ Len(new) \in Nat
      /\ \A i \in 1 .. Len(queue) + Len(new) :
           (queue \o new)[i] = IF i <= Len(queue) THEN queue[i] ELSE new[i - Len(queue)]
  BY ConcatProperties, LenProperties
<1>3. /\ DOMAIN queue = 1 .. Len(queue) /\ DOMAIN new = 1 .. Len(new)
      /\ DOMAIN (queue \o new) = 1 .. (Len(queue) + Len(new))
  BY <1>2, LenProperties
<1>4. ASSUME NEW db \in Dbs, NEW i \in 1 .. (Len(queue) + Len(new)),
             (queue \o new)[i] = Recovery(db)
      PROVE  i \in 1 .. Len(queue) /\ queue[i] = Recovery(db)
  <2>1. CASE i > Len(queue)
    <3>1. i - Len(queue) \in 1 .. Len(new) /\ new[i - Len(queue)] = Recovery(db)
      BY <1>2, <1>4, <2>1
    <3> QED
      BY <1>1, <1>3, <3>1
  <2> QED
    BY <1>2, <1>4, <2>1
<1>5. Once(queue \o new)
  BY <1>3, <1>4 DEF Once
<1> QED
  BY <1>1, <1>5 DEF HasTask
\* Nobody but its recovery enables a database that is disabled, and no session opens it.
LEMMA ExclusiveStep ==
  ASSUME IInv, [Next]_vars, NEW db \in Dbs, Exclusive(db)
  PROVE  Exclusive(db)' \/ (RunRecoveryTask /\ task = Recovery(db))
<1> USE DEF Exclusive, vars, deployerVars, serviceVars, clientVars, dictVars
<1>1. CASE UNCHANGED <<loaded, disabled>>
  BY <1>1
<1>2. CASE /\ UNCHANGED disabled
           /\ loaded' \subseteq loaded
  BY <1>2
<1>3. CASE RimeSyncUserData \/ Finalized \/ \E gone \in SUBSET sessions : DestroySessions(gone)
  BY <1>2, <1>3 DEF RimeSyncUserData, Finalized, DestroySessions, Destroy
<1>4. CASE \E s \in Sessions, other \in Dbs : LoadUserDictionary(s, other)
  BY <1>4 DEF LoadUserDictionary
<1>5. CASE RecoverLoading \/ (\E other \in Dbs : SyncOpen(other)) \/ SyncClose
  BY <1>5 DEF RecoverLoading, SyncOpen, SyncClose
<1>6. CASE RunRecoveryTask
  <2>1. task \in Tasks /\ task.name = "userdb_recovery_task"
    BY <1>6 DEF RunRecoveryTask, TaskDone, IInv, TypeOK, DeployerTypeOK
  <2>2. task = Recovery(task.db)
    BY <2>1, TasksFacts
  <2>3. CASE task.db = db
    BY <1>6, <2>2, <2>3
  <2>4. CASE task.db # db
    BY <1>6, <2>4 DEF RunRecoveryTask, Recover
  <2> QED
    BY <2>3, <2>4
<1>7. CASE \/ Schedule \/ ClientStartsWork \/ Joined \/ ClientNotified
           \/ \E t \in Thread : Lock(t)
           \/ \E handler \in BOOLEAN : RimeSetNotificationHandler(handler)
           \/ RimeInitialize \/ RimeStartMaintenance \/ RimeJoinMaintenanceThread
           \/ RimeFinalize \/ \E s \in Sessions : CreateSession(s) \/ RimeSetOption(s)
  BY <1>1, <1>7
     DEF Schedule, ClientStartsWork, Joined, ClientNotified, Lock,
         RimeSetNotificationHandler, RimeInitialize, RimeStartMaintenance,
         RimeJoinMaintenanceThread, RimeFinalize, CreateSession, RimeSetOption
<1>8. CASE \/ WorkerUnheard \/ WorkerNotifies \/ WorkerNotified \/ WorkerNextTask
           \/ RunPlainTask \/ SyncDone \/ WorkerDoubleCheck
  BY <1>1, <1>8
     DEF WorkerUnheard, WorkerNotifies, WorkerNotified, WorkerNextTask, RunPlainTask,
         SyncDone, WorkerDoubleCheck
<1> QED
  BY <1>1, <1>3, <1>4, <1>5, <1>6, <1>7, <1>8
     DEF Next, ClientContinues, API, Worker, Thread

\* The task that runs is one of those to come.
LEMMA RunningIsComing ==
  ASSUME IInv, RunRecoveryTask
  PROVE  task.db \in Dbs /\ HasTask(Coming, Recovery(task.db))
<1>1. task \in Tasks /\ task.name = "userdb_recovery_task"
  BY DEF RunRecoveryTask, TaskDone, IInv, TypeOK, DeployerTypeOK
<1>2. task.db \in Dbs /\ task = Recovery(task.db)
  BY <1>1, TasksFacts
<1>3. FinishesOne
  BY FinishStep DEF RunRecoveryTask
<1>4. Coming \in Seq(Tasks) /\ Coming # <<>> /\ Head(Coming) = task
  BY <1>3, UnfinishedType, TailOfConcat DEF FinishesOne, Coming
<1>5. 1 \in DOMAIN Coming /\ Coming[1] = task
  BY <1>4
<1> QED
  BY <1>2, <1>5 DEF HasTask

\* Between the two looks of Load nobody disables or opens its database.
LEMMA LoadingStep ==
  ASSUME IInv, RecoveryInv, [Next]_vars
  PROVE  loading' \notin disabled' \cup loaded'
<1> USE DEF vars, deployerVars, serviceVars, clientVars, dictVars
<1>1. IInv'
  BY NextIInv
<1>2. loading \notin disabled \cup loaded
  BY DEF RecoveryInv
<1>3. CASE loading' = NoDb
  BY <1>1, <1>3, DbsAssumption DEF IInv, TypeOK
<1>4. CASE UNCHANGED <<loading, disabled>> /\ loaded' \subseteq loaded
  BY <1>2, <1>4
<1>5. CASE RimeSyncUserData \/ Finalized \/ \E gone \in SUBSET sessions : DestroySessions(gone)
  BY <1>4, <1>5 DEF RimeSyncUserData, Finalized, DestroySessions, Destroy
<1>6. CASE \E s \in Sessions, db \in Dbs : LoadUserDictionary(s, db)
  <2>1. loading = NoDb
    BY <1>6 DEF LoadUserDictionary, Serving, Idle, IInv, CallInv
  <2> QED
    BY <1>3, <1>6, <2>1 DEF LoadUserDictionary
<1>7. CASE RecoverLoading
  BY <1>3, <1>7 DEF RecoverLoading
<1>8. CASE RunRecoveryTask
  <2>1. task.db \in disabled
    BY <1>8, RunningIsComing DEF RecoveryInv, Exclusive
  <2> QED
    BY <1>2, <1>8, <2>1 DEF RunRecoveryTask, Recover
<1>9. CASE \/ Schedule \/ ClientStartsWork \/ Joined \/ ClientNotified
           \/ \E t \in Thread : Lock(t)
           \/ \E handler \in BOOLEAN : RimeSetNotificationHandler(handler)
           \/ RimeInitialize \/ RimeStartMaintenance \/ RimeJoinMaintenanceThread
           \/ RimeFinalize \/ \E s \in Sessions : CreateSession(s) \/ RimeSetOption(s)
  BY <1>4, <1>9
     DEF Schedule, ClientStartsWork, Joined, ClientNotified, Lock,
         RimeSetNotificationHandler, RimeInitialize, RimeStartMaintenance,
         RimeJoinMaintenanceThread, RimeFinalize, CreateSession, RimeSetOption
<1>10. CASE \/ WorkerUnheard \/ WorkerNotifies \/ WorkerNotified \/ WorkerNextTask
            \/ RunPlainTask \/ SyncDone \/ WorkerDoubleCheck
            \/ (\E other \in Dbs : SyncOpen(other)) \/ SyncClose
  BY <1>4, <1>10
     DEF WorkerUnheard, WorkerNotifies, WorkerNotified, WorkerNextTask, RunPlainTask,
         SyncDone, WorkerDoubleCheck, SyncOpen, SyncClose
<1>11. CASE UNCHANGED vars
  BY <1>4, <1>11
<1> QED
  BY <1>5, <1>6, <1>7, <1>8, <1>9, <1>10, <1>11 DEF Next, ClientContinues, API, Worker, Thread

\* A work thread is started only by the client's, when it has nothing left to schedule.
LEMMA StartsIdle ==
  ASSUME IInv, [Next]_vars, ~IsWorking, IsWorking'
  PROVE  todo = <<>> /\ todo' = todo
<1> USE DEF vars, deployerVars, serviceVars, clientVars, dictVars, IsWorking
<1>1. run_pc = "none" /\ notify["worker"] = "none"
  BY DEF IInv, TypeOK, DeployerTypeOK, NotifyInv
<1>2. CASE ClientStartsWork
  BY <1>2 DEF ClientStartsWork, IInv, CallInv
<1>3. CASE UNCHANGED work
  BY <1>3
<1>4. CASE Joined \/ Finalized
  BY <1>4 DEF Joined, Finalized, JoinWorkThread
<1>5. CASE \/ Schedule \/ RecoverLoading \/ ClientNotified
           \/ \E t \in Thread : Lock(t)
           \/ API
  BY <1>3, <1>5
     DEF Schedule, ScheduleTask, RecoverLoading, ClientNotified, Lock, API,
         RimeSetNotificationHandler, RimeInitialize, RimeStartMaintenance, RimeSyncUserData,
         RimeJoinMaintenanceThread, RimeFinalize, CreateSession, RimeSetOption,
         DestroySessions, LoadUserDictionary
<1>6. CASE Worker
  BY <1>1, <1>3, <1>6, DbsAssumption
     DEF Worker, WorkerUnheard, WorkerNotifies, WorkerNotified, Unlock, WorkerNextTask,
         NextTask, RunPlainTask, TaskDone, SyncDone, SyncOpen, SyncClose, RunRecoveryTask,
         WorkerDoubleCheck, DoubleCheck, Quit
<1> QED
  BY <1>2, <1>3, <1>4, <1>5, <1>6 DEF Next, ClientContinues, Thread

\* The tasks of a call that has begun.
LEMMA CallTasks ==
  ASSUME todo' \in {<<>>, MaintenanceTasks, SyncTasks}
  PROVE  todo' \in Seq(Tasks) /\ \A i \in DOMAIN todo' : todo'[i].name # "userdb_recovery_task"
<1>1. CASE todo' = <<>>
  BY <1>1
<1>2. CASE todo' = MaintenanceTasks \/ todo' = SyncTasks
  <2>1. /\ DOMAIN MaintenanceTasks = 1 .. 3 /\ DOMAIN SyncTasks = 1 .. 3
        /\ \A i \in 1 .. 3 : /\ MaintenanceTasks[i].name # "userdb_recovery_task"
                             /\ SyncTasks[i].name # "userdb_recovery_task"
    BY DEF MaintenanceTasks, SyncTasks, Task
  <2> QED
    BY <1>2, <2>1, TasksFacts
<1> QED
  BY <1>1, <1>2

\* A call has no recovery to schedule while a thread works.
LEMMA AsksStep ==
  ASSUME IInv, RecoveryInv, [Next]_vars, NEW db \in Dbs, HasTask(todo', Recovery(db))
  PROVE  ~IsWorking'
<1> HIDE DEF Recovery, Tasks, MaintenanceTasks, SyncTasks
<1>1. todo \in Seq(Tasks)
  BY DEF IInv, TypeOK
<1>2. SUFFICES ASSUME IsWorking, IsWorking' PROVE FALSE
  <2>1. ASSUME ~IsWorking, IsWorking' PROVE FALSE
    BY <2>1, StartsIdle DEF HasTask
  <2> QED
    BY <1>2, <2>1
<1>3. ~HasTask(todo, Recovery(db))
  BY <1>2 DEF RecoveryInv
<1>4. CASE todo' = todo
  BY <1>3, <1>4
<1>5. CASE SchedulesOne
  <2>1. todo # <<>> /\ todo' = Tail(todo)
    BY <1>5 DEF SchedulesOne
  <2>2. /\ DOMAIN todo = 1 .. Len(todo) /\ DOMAIN Tail(todo) = 1 .. (Len(todo) - 1)
        /\ Len(todo) \in Nat
        /\ \A i \in 1 .. (Len(todo) - 1) : Tail(todo)[i] = todo[i + 1]
    BY <1>1, <2>1
  <2> QED
    BY <1>3, <2>1, <2>2 DEF HasTask
<1>6. CASE BeginsCall
  BY <1>6, CallTasks DEF BeginsCall, HasTask, Recovery
<1>7. ASSUME NEW new \in Dbs, BeginsRecovery(new) PROVE FALSE
  BY <1>2, <1>7 DEF BeginsRecovery
<1> QED
  BY <1>4, <1>5, <1>6, <1>7, QueueStep DEF FinishesOne, LeavesQueue

LEMMA NextRecoveryInv ==
  ASSUME IInv, RecoveryInv, [Next]_vars
  PROVE  RecoveryInv'
<1>0. /\ loading' \notin disabled' \cup loaded'
      /\ \A db \in Dbs : HasTask(todo', Recovery(db)) => ~IsWorking'
  BY LoadingStep, AsksStep
<1>1. Unfinished \in Seq(Tasks) /\ todo \in Seq(Tasks) /\ Coming \in Seq(Tasks)
  BY UnfinishedType, ConcatProperties DEF Coming
<1>2. CASE FinishesOne
  <2>1. /\ Coming # <<>> /\ Head(Coming) = task
        /\ Coming' = Tail(Coming)
    BY <1>1, <1>2, TailOfConcat DEF FinishesOne, Coming
  <2>2. Once(Coming) /\ Once(Coming')
    BY <1>1, <2>1, OnceTail DEF RecoveryInv
  <2>3. ASSUME NEW db \in Dbs, HasTask(Coming', Recovery(db)) PROVE Exclusive(db)'
    <3>1. HasTask(Coming, Recovery(db)) /\ task # Recovery(db)
      BY <1>1, <2>1, <2>2, <2>3, OnceTail
    <3> QED
      BY <3>1, ExclusiveStep DEF RecoveryInv
  <2>4. Once(Coming)' = Once(Coming')
    BY DEF Once
  <2> QED
    BY <1>0, <2>2, <2>3, <2>4 DEF RecoveryInv, HasTask, IsWorking
<1>3. CASE ~FinishesOne
  <2>1. ~RunRecoveryTask
    BY <1>3, FinishStep DEF RunRecoveryTask
  <2>2. \A db \in Dbs : Exclusive(db) => Exclusive(db)'
    BY <2>1, ExclusiveStep
  <2>3. CASE SchedulesOne \/ LeavesQueue
    <3>1. Coming' = Coming
      BY <1>1, <2>3, MoveOne DEF SchedulesOne, LeavesQueue, Coming
    <3> QED
      BY <1>0, <2>2, <3>1 DEF RecoveryInv, Once, HasTask, IsWorking
  <2>4. CASE BeginsCall
    <3>1. Coming = Unfinished /\ Coming' = Unfinished \o todo'
      BY <1>1, <2>4, ConcatEmptySeq DEF BeginsCall, Coming
    <3>2. todo' \in Seq(Tasks) /\ \A i \in DOMAIN todo' : todo'[i].name # "userdb_recovery_task"
      BY <2>4, CallTasks DEF BeginsCall
    <3>3. /\ Once(Coming')
          /\ \A db : HasTask(Coming', Recovery(db)) => HasTask(Coming, Recovery(db))
      BY <1>1, <3>1, <3>2, OnceConcat, HasTaskConcat DEF RecoveryInv
    <3> QED
      BY <1>0, <2>2, <3>3 DEF RecoveryInv, Once, HasTask, IsWorking
  <2>5. ASSUME NEW new \in Dbs, BeginsRecovery(new) PROVE RecoveryInv'
    <3>1. Coming = Unfinished /\ Coming' = Coming \o <<Recovery(new)>>
      BY <1>1, <2>5, ConcatEmptySeq DEF BeginsRecovery, Coming
    <3>2. Once(Coming) /\ ~HasTask(Coming, Recovery(new))
      BY <2>5 DEF RecoveryInv, Exclusive, BeginsRecovery
    <3>3. Once(Coming')
      BY <1>1, <3>1, <3>2, OnceAppend
    <3>4. Exclusive(new)'
      BY <2>5 DEF BeginsRecovery, RecoveryInv, Exclusive
    <3>5. ASSUME NEW db \in Dbs, HasTask(Coming', Recovery(db)) PROVE Exclusive(db)'
      <4>1. <<Recovery(new)>> \in Seq(Tasks)
        BY TasksFacts
      <4>2. HasTask(Coming, Recovery(db)) \/ HasTask(<<Recovery(new)>>, Recovery(db))
        BY <1>1, <3>1, <3>5, <4>1, HasTaskConcat
      <4>3. HasTask(<<Recovery(new)>>, Recovery(db)) => db = new
        BY DEF HasTask, Recovery
      <4> QED
        BY <2>2, <3>4, <4>2, <4>3 DEF RecoveryInv
    <3> QED
      BY <1>0, <3>3, <3>5 DEF RecoveryInv, Once, HasTask, IsWorking
  <2> QED
    BY <1>3, <2>3, <2>4, <2>5, QueueStep
<1> QED
  BY <1>2, <1>3

-----------------------------------------------------------------------------
(* The theorems                                                            *)

\* Nothing is being recovered when the library starts.
LEMMA InitRecoveryInv == Init => RecoveryInv
BY DbsAssumption DEF Init, DeployerInit, RecoveryInv, Once, HasTask, Coming, Unfinished

\* The inductive invariant of the two threads.
THEOREM Invariance == Spec => [](IInv /\ RecoveryInv)
<1>1. Init => IInv /\ RecoveryInv
  BY InitIInv, InitRecoveryInv
<1>2. IInv /\ RecoveryInv /\ [Next]_vars => (IInv /\ RecoveryInv)'
  BY NextIInv, NextRecoveryInv
<1> QED
  BY <1>1, <1>2, PTL DEF Spec

\* The variables keep their types; the future is not ready, and the work thread is
\* in Run(), at the same time (Deployer::IsWorking).
THEOREM TypeCorrect == Spec => []TypeOK
<1>1. IInv => TypeOK
  BY DEF IInv
<1> QED
  BY <1>1, Invariance, PTL

\* The two threads never call the notification handler at once (Service::Notify).
THEOREM Serialized == Spec => []HandlerSerialized
<1>1. IInv => HandlerSerialized
  BY DEF IInv, NotifyInv, Thread, HandlerSerialized
<1> QED
  BY <1>1, Invariance, PTL

\* After RimeFinalize there is no work thread, no session and no open database.
THEOREM Quiet == Spec => []QuietAfterFinalize
<1>1. IInv => QuietAfterFinalize
  BY DEF IInv
<1> QED
  BY <1>1, Invariance, PTL

\* However many databases, sessions and recoveries there are, and wherever the work
\* thread is when Load looks at it: no database is to be recovered twice, no session
\* opens it before its recovery is over, and no call decides on a recovery while
\* user_dict_sync has the database open (UserDictionary::Load, UserDbRecoveryTask).
THEOREM SafeRecovery == Spec => []RecoveryIsSafe
<1>1. ASSUME IInv, RecoveryInv PROVE RecoveryIsSafe
  <2>1. ASSUME NEW db \in Dbs, HasTask(todo, Recovery(db)) PROVE db # syncing
    <3>1. run_pc # "task"
      BY <1>1, <2>1 DEF RecoveryInv, IsWorking, IInv, TypeOK, DeployerTypeOK
    <3> QED
      BY <1>1, <2>1, <3>1, DbsAssumption DEF IInv, SyncInv
  <2> QED
    BY <1>1, <2>1 DEF RecoveryInv, RecoveryIsSafe, Exclusive
<1> QED
  BY <1>1, Invariance, PTL

\* The work threads implement a queue: every task that is scheduled is run once, in
\* the order of the calls (Deployer::ScheduleTask, NextTask, Run).
THEOREM InOrder == Spec => RunsTasksInOrder
<1>1. Init => Queue!Init
  BY DEF Init, DeployerInit, Queue!Init, Unfinished
<1>2. IInv /\ [Next]_vars => [Queue!Next]_Unfinished
  <2> SUFFICES ASSUME IInv, [Next]_vars PROVE [Queue!Next]_Unfinished
    OBVIOUS
  <2>1. CASE SchedulesOne
    <3>1. Head(todo) \in Tasks
      BY <2>1, UnfinishedType, HeadTail DEF SchedulesOne
    <3> QED
      BY <2>1, <3>1 DEF SchedulesOne, Queue!Next, Queue!Schedule
  <2>2. CASE FinishesOne
    BY <2>2 DEF FinishesOne, Queue!Next, Queue!Finish
  <2>3. CASE BeginsCall \/ LeavesQueue \/ \E db \in Dbs : BeginsRecovery(db)
    BY <2>3 DEF BeginsCall, LeavesQueue, BeginsRecovery
  <2> QED
    BY <2>1, <2>2, <2>3, QueueStep
<1> QED
  BY <1>1, <1>2, Invariance, PTL DEF Spec, RunsTasksInOrder, Queue!Spec
=============================================================================
