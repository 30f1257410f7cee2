------------------------------ MODULE TaskQueue ------------------------------
(***************************************************************************)
(* What rime::Deployer promises to those who schedule tasks: the tasks are *)
(* run in the order in which they were scheduled, one at a time, and none  *)
(* is lost, run twice or overtaken, whichever work thread runs it.         *)
(***************************************************************************)
EXTENDS Sequences

CONSTANT Tasks

VARIABLE queue     \* the tasks that have been scheduled and have not been run

Init == queue = <<>>

Schedule(t) == queue' = Append(queue, t)

\* The first of the tasks has been run.
Finish == queue # <<>> /\ queue' = Tail(queue)

Next == (\E t \in Tasks : Schedule(t)) \/ Finish

Spec == Init /\ [][Next]_queue
=============================================================================
