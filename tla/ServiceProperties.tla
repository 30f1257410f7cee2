-------------------------- MODULE ServiceProperties --------------------------
(***************************************************************************)
(* What must hold between the client's thread and the work thread.         *)
(***************************************************************************)
EXTENDS Service

\* The tasks that are scheduled and have not been run: the one that the work
\* thread has taken comes first.
Unfinished ==
  IF run_pc = "task" THEN <<task>> \o pending_tasks ELSE pending_tasks

Queue == INSTANCE TaskQueue WITH queue <- Unfinished

\* The work threads, one after another, run the tasks in the order in which they
\* were scheduled, each of them once (TaskQueue), though the client goes on
\* scheduling while they run (Deployer::Run, NextTask).
RunsTasksInOrder == Queue!Spec

\* The tasks that are scheduled, or that a call is about to schedule, in the order in
\* which they will be run.
Coming == Unfinished \o todo

\* No database is to be recovered twice.
Once(queue) ==
  \A db \in Dbs : \A i, j \in DOMAIN queue :
    queue[i] = Recovery(db) /\ queue[j] = Recovery(db) => i = j

\* The recovery of a database recreates it when it cannot be repaired.  From when a
\* call decides on it until it is over, no session has the database open or opens it,
\* and no session asks for it again; and the call decides on it only when
\* user_dict_sync has not the database open either (UserDictionary::Load,
\* UserDbRecoveryTask).  That the database is damaged is not said: see
\* RecoverLoading.
RecoveryIsSafe ==
  /\ Once(Coming)
  /\ \A db \in Dbs :
       /\ HasTask(Coming, Recovery(db)) => db \in disabled \ loaded
       /\ HasTask(todo, Recovery(db)) => db # syncing

\* A database is not disabled for good: the thread that recovers it is started, or
\* the one that is running takes the task, and enables the database whether it can
\* be recovered or not.
DictionaryComesBack ==
  \A db \in Dbs :
    db \in disabled /\ (IsWorking \/ client \in {"recover", "schedule", "start_work"})
      ~> db \notin disabled \/ work = "threw"

\* "new tasks could have been enqueued while we were sending the message" (deployer.cc):
\* what is in the queue when the work thread has its last look at it, is run.
LateTasksRun ==
  \A t \in Tasks :
    HasTask(pending_tasks, t) /\ run_pc \in RunPoint \ {"none", "quit"}
      ~> (run_pc = "task" /\ task = t) \/ work = "threw"

\* The handler is called by one thread at a time (Service::Notify).
HandlerSerialized == ~(notify["client"] = "call" /\ notify["worker"] = "call")

\* "... every time an event occurs in librime, until RimeFinalize() is called"
\* (rime_api.h): no thread is left to send a message, and no session.
QuietAfterFinalize ==
  ~started => run_pc = "none" /\ sessions = {} /\ loaded = {}

\* Every call returns: what it waits for, the work thread or the mutex, comes.
CallReturns == client # "idle" ~> client = "idle"

\* "before quitting, double check if there is nothing left to do" (deployer.cc):
\* what is scheduled while there is a work thread, is run by it.
NothingLeftToDo ==
  \A t \in Tasks :
    HasTask(pending_tasks, t) /\ IsWorking
      ~> (run_pc = "task" /\ task = t) \/ work = "threw"

\* "when handler is NULL, notification is disabled" (rime_api.h): the handler that
\* is called is there.
HandlerIsThere == \A t \in Thread : notify[t] = "call" => notification_handler
=============================================================================
