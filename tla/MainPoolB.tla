----------------------------- MODULE MainPoolB ------------------------------
(***************************************************************************)
(* main_pool_b (main.cpp:215) with the consumers of main (main.cpp:252):   *)
(* tasks that push jobs to the executor are counted (Counter); main waits  *)
(* for them, resets the counter, pushes and counts one more task, whose    *)
(* job stops the executor, waits again and joins (Executor).  Other than   *)
(* there, a task may push more tasks with the counter.                     *)
(***************************************************************************)
EXTENDS Counter

CONSTANTS
  Nested,      \* the tasks that are pushed by other tasks, not by main
  Stopper, Consumers, Main, None, CountMax   \* of Executor

VARIABLES
  owner, waiting, woken, jobs, running, runningCount, pending, ran, late,
  xpc, job           \* pc and job of Executor

E == INSTANCE Executor WITH Pushers <- Tasks, pc <- xpc

ASSUME ProgramAssumption ==
  /\ Rounds = 2 /\ Stopper \in Tasks \ (Nested \cup Parents)
  /\ Nested \subseteq Tasks \ Parents /\ (Nested # {} => Parents # {})
  /\ IsFiniteSet(Consumers) /\ Consumers # {}
  /\ Consumers \cap Tasks = {} /\ Main \notin Tasks \cup Consumers
  /\ None \notin Tasks \cup Consumers \cup {Main}
  /\ CountMax \in Nat

executor ==
  <<owner, waiting, woken, jobs, running, runningCount, pending, ran, late, xpc, job>>
program == <<vars, executor>>

MainInit == Init /\ E!Init

-----------------------------------------------------------------------------
\* The tasks main pushes itself in a round.
Own(n) == IF n = 1 THEN Tasks \ (Nested \cup {Stopper}) ELSE {Stopper}

MainPush(k) == k \in Own(round) /\ Push(k) /\ UNCHANGED executor

MainWait ==
  /\ \A k \in Own(round) : pc[k] # "new"
  /\ Wait /\ UNCHANGED executor

MainReset == Reset /\ UNCHANGED executor

MainJoin ==
  /\ waiter = "returned" /\ round = 2
  /\ E!CallJoin /\ UNCHANGED vars

\* The function of a task pushes its job, and a parent's the nested tasks.
TaskEnqueue(k) == pc[k] = "run" /\ E!Enqueue(k) /\ UNCHANGED vars

TaskPush(p, k) == k \in Nested /\ PushFrom(p, k) /\ UNCHANGED executor

TaskReturn(k) ==
  /\ xpc[k] = "pushed" /\ (k \in Parents => \A n \in Nested : pc[n] # "new")
  /\ Return(k) /\ UNCHANGED executor

MainStep == MainWait \/ MainReset \/ MainJoin \/ \E k \in Tasks : MainPush(k)
WaiterGoesOn == WaiterStep /\ UNCHANGED executor

\* What the fiber of a task does with the counter and the executor.
TaskGoesOn(k) ==
  \/ TaskEnqueue(k) \/ TaskReturn(k)
  \/ \E n \in Tasks : TaskPush(k, n)
  \/ pc[k] # "run" /\ TaskStep(k) /\ UNCHANGED executor

ExecutorLock(f) == E!Lock(f) /\ UNCHANGED vars
ExecutorStep(f) == E!Step(f) /\ UNCHANGED vars

\* A fiber does one thing after the other.  A main that has been unblocked while it was
\* not waiting may be resumed out of any other call, or by two threads at once: its part
\* of the model ends there.
FiberStep(f) ==
  /\ f = Main => UnblockedOnlyWaiting
  /\ \/ f = Main /\ (MainStep \/ WaiterGoesOn)
     \/ f \in Tasks /\ TaskGoesOn(f)
     \/ ExecutorLock(f) \/ ExecutorStep(f)

MainFinished ==
  E!Finished /\ (\A k \in Tasks : pc[k] = "ended") /\ UNCHANGED program

MainNext == MainFinished \/ \E f \in E!Everyone : FiberStep(f)

MainSpec == MainInit /\ [][MainNext]_program

\* Fibers keep running, and one that wants the mutex again and again while it is free
\* gets it.
MainFairSpec == MainSpec /\ \A f \in E!Everyone : SF_program(FiberStep(f))

-----------------------------------------------------------------------------
(* The executor's properties, in this program *)

PendingExact == E!PendingExact
SleepsForAReason == E!SleepsForAReason

\* As long as main's waits have waited for all tasks.
NothingLeftBehind == hasty \/ E!NothingLeftBehind

\* join returns (main.cpp:233), unless stop came before a start or a reset too early.
JoinReturns == xpc[Main] = "join lock" ~> xpc[Main] = "joined" \/ late \/ hasty
=============================================================================
