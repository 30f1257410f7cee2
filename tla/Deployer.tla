------------------------------ MODULE Deployer ------------------------------
(***************************************************************************)
(* rime::Deployer (deployer.h, deployer.cc): a queue of deployment tasks   *)
(* and the work thread that runs them.  The client's thread schedules      *)
(* tasks under the mutex of the queue and starts the work thread with      *)
(* std::async, unless one is running; the thread looks at the queue one    *)
(* last time, returns, and only then becomes "ready".                      *)
(*                                                                         *)
(* What the thread does between two steps on the queue is in module        *)
(* Service: it sends messages to the front end and runs tasks, of which    *)
(* those matter that use the databases of the user dictionaries.  The      *)
(* mutex of the queue is held inside one step only and is left out.        *)
(***************************************************************************)
EXTENDS Naturals, Sequences

CONSTANTS
  Dbs,           \* the user dictionaries' databases
  NoDb,          \* no database
  MaxPending     \* bound on the length of the queue

ASSUME DbsAssumption == NoDb \notin Dbs
ASSUME PendingAssumption == MaxPending \in Nat

\* A deployment task: its component's name, and the database to be recovered.
Task(name)   == [ name |-> name, db |-> NoDb ]
Recovery(db) == [ name |-> "userdb_recovery_task", db |-> db ]
NoTask       == Task("none")

MaintenanceTasks == << Task("workspace_update"), Task("user_dict_upgrade"),
                       Task("cleanup_trash") >>
SyncTasks == << Task("installation_update"), Task("backup_config_files"),
                Task("user_dict_sync") >>
Tasks == { MaintenanceTasks[i] : i \in 1 .. 3 } \cup
         { SyncTasks[i] : i \in 1 .. 3 } \cup
         { Recovery(db) : db \in Dbs }

VARIABLES
  pending_tasks,     \* Deployer::pending_tasks_
  maintenance_mode,  \* Deployer::maintenance_mode_
  work,              \* Deployer::work_: "none" when it is not valid
  run_pc,            \* where the work thread is in Deployer::Run()
  task               \* the task that it is running

deployerVars == <<pending_tasks, maintenance_mode, work, run_pc, task>>

WorkState == {"none", "running", "ready", "threw"}
RunPoint  == {"none", "announce", "next", "task", "report", "double_check", "quit"}

\* The thread is in Run() as long as the future is not ready, and has a task while
\* it runs one.
DeployerTypeOK ==
  /\ pending_tasks \in Seq(Tasks)
  /\ maintenance_mode \in BOOLEAN
  /\ work \in WorkState
  /\ run_pc \in RunPoint
  /\ run_pc # "none" <=> work = "running"
  /\ task \in IF run_pc = "task" THEN Tasks ELSE {NoTask}

DeployerInit ==
  /\ pending_tasks = <<>>
  /\ maintenance_mode = FALSE
  /\ work = "none"
  /\ run_pc = "none"
  /\ task = NoTask

-----------------------------------------------------------------------------
(* The client's thread                                                     *)

IsWorking         == work = "running"
IsMaintenanceMode == maintenance_mode /\ IsWorking

HasTask(queue, t) == \E i \in DOMAIN queue : queue[i] = t

ScheduleTask(t) ==
  /\ pending_tasks' = Append(pending_tasks, t)
  /\ UNCHANGED <<maintenance_mode, work, run_pc, task>>

\* Mutant of CanStartWork: a work thread that is running is not noticed.
CanStartWorkUnchecked == TRUE

CanStartWork == ~IsWorking

\* The mode is set before the queue is found empty.
StartWork(mode) ==
  \/ /\ ~CanStartWork
     /\ UNCHANGED deployerVars
  \/ /\ CanStartWork
     /\ maintenance_mode' = mode
     /\ IF pending_tasks = <<>>
        THEN UNCHANGED <<work, run_pc>>
        ELSE /\ work' = "running"
             /\ run_pc' = "announce"
     /\ UNCHANGED <<pending_tasks, task>>

\* JoinWorkThread has returned, or thrown what the work thread had thrown.
\* Mutant of CanJoin: nothing is waited for.
CanJoinAtOnce == TRUE

CanJoin == ~IsWorking
JoinWorkThread ==
  /\ CanJoin
  /\ work' = "none"
  /\ UNCHANGED <<pending_tasks, maintenance_mode, run_pc, task>>

-----------------------------------------------------------------------------
(* The work thread: Run()                                                  *)

\* Mutant of NextTask: the task stays at the front of the queue.
NextTaskPeeks ==
  /\ run_pc = "next"
  /\ IF pending_tasks = <<>>
     THEN run_pc' = "report" /\ UNCHANGED task
     ELSE run_pc' = "task" /\ task' = Head(pending_tasks)
  /\ UNCHANGED <<pending_tasks, maintenance_mode, work>>

NextTask ==
  /\ run_pc = "next"
  /\ IF pending_tasks = <<>>
     THEN run_pc' = "report" /\ UNCHANGED <<pending_tasks, task>>
     ELSE /\ run_pc' = "task"
          /\ task' = Head(pending_tasks)
          /\ pending_tasks' = Tail(pending_tasks)
  /\ UNCHANGED <<maintenance_mode, work>>

\* task->Run() has returned, or thrown an exception, which counts as a failure.
\* The counts only go into the log and the value of the message.
TaskDone ==
  /\ run_pc = "task"
  /\ run_pc' = "next"
  /\ task' = NoTask
  /\ UNCHANGED <<pending_tasks, maintenance_mode, work>>

\* message_sink_("deploy", ...) has returned.
MessageSent ==
  /\ run_pc' = IF run_pc = "announce" THEN "next" ELSE "double_check"
  /\ UNCHANGED <<pending_tasks, maintenance_mode, work, task>>

\* A message threw an exception: std::async keeps it for whoever joins.
MessageThrew ==
  /\ run_pc' = "none"
  /\ work' = "threw"
  /\ UNCHANGED <<pending_tasks, maintenance_mode, task>>

\* Mutant of DoubleCheck: Run() returns when it has sent its message.
DoubleCheckForgotten ==
  /\ run_pc = "double_check"
  /\ run_pc' = "quit"
  /\ UNCHANGED <<pending_tasks, maintenance_mode, work, task>>

\* while (HasPendingTasks())
DoubleCheck ==
  /\ run_pc = "double_check"
  /\ run_pc' = IF pending_tasks # <<>> THEN "next" ELSE "quit"
  /\ UNCHANGED <<pending_tasks, maintenance_mode, work, task>>

\* Run() has returned; the future becomes ready.
Quit ==
  /\ run_pc = "quit"
  /\ run_pc' = "none"
  /\ work' = "ready"
  /\ UNCHANGED <<pending_tasks, maintenance_mode, task>>
=============================================================================
