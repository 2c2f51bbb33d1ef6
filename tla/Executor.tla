------------------------------ MODULE Executor ------------------------------
(***************************************************************************)
(* np::executor (ext/executor.hpp): fibers push jobs, consumers, which are *)
(* fibers in start(), run them until a job calls stop(), and one fiber     *)
(* waits in join() for all of this.  When the fibers push and when the     *)
(* last one joins is up to the program (MainPoolB).                        *)
(***************************************************************************)
EXTENDS Naturals, FiniteSets, Monitor

CONSTANTS
  Pushers,     \* the fibers that push one job each
  Stopper,     \* the one of them whose job calls stop
  Consumers,   \* the fibers that call start
  Main,        \* the fiber that calls join
  CountMax     \* the largest uint32_t

VARIABLES
  jobs,                    \* _jobs: a job is named after its pusher
  running, runningCount,   \* _running, _running_count
  pending,                 \* _pending
  ran,                     \* the jobs that have been run
  late,                    \* history: stop ran before a start had set _running
  pc, job                  \* of a fiber: its place, and the job it runs

vars == <<monitor, jobs, running, runningCount, pending, ran, late, pc, job>>

Everyone == Pushers \cup Consumers \cup {Main}
Plus(n) == (n + 1) % (CountMax + 1)
Minus(n) == (n + CountMax) % (CountMax + 1)

Goto(f, from, to) == pc[f] = from /\ pc' = [pc EXCEPT ![f] = to]

Init ==
  /\ MonitorInit
  /\ jobs = {} /\ running = FALSE /\ runningCount = 0 /\ pending = 0 /\ ran = {} /\ late = FALSE
  /\ pc = [f \in Everyone |-> CASE f \in Pushers -> "push" [] f = Main -> "join"
                             [] f \in Consumers -> "start"]
  /\ job = [c \in Consumers |-> None]

\* The calls of _mutex.lock(), with the places before and after it.
Lock(f) ==
  /\ \/ Goto(f, "push lock", "push count") \/ Goto(f, "stop lock", "stop notify")
     \/ Goto(f, "wait lock", "wait running") \/ Goto(f, "leave lock", "leave")
     \/ Goto(f, "join lock", "join running")
  /\ LockBy(f)
  /\ UNCHANGED <<jobs, running, runningCount, pending, ran, late, job>>

\* A waiting fiber is woken and locks again.
Woken(f) ==
  /\ Goto(f, "blocked", IF f = Main THEN "join lock" ELSE "wait lock")
  /\ WokenBy(f)
  /\ UNCHANGED <<jobs, running, runningCount, pending, ran, late, job>>

-----------------------------------------------------------------------------
(* Faulty variants of the steps below, one for each property at the end of *)
(* the module, which must catch it.  Next uses none of them.               *)

\* A job is counted down when it is taken, not when it has run.
UncountOnPop(c) ==
  /\ \/ \E j \in jobs : /\ jobs' = jobs \ {j} /\ job' = [job EXCEPT ![c] = j]
                        /\ Goto(c, "pop", "run") /\ pending' = Minus(pending)
     \/ jobs = {} /\ Goto(c, "pop", "loop") /\ UNCHANGED <<jobs, job, pending>>
  /\ UNCHANGED <<monitor, running, runningCount, ran, late>>

\* join waits for the jobs only.
JoinIgnoresRunning ==
  /\ Goto(Main, "join running", "join pending")
  /\ UNCHANGED <<monitor, jobs, running, runningCount, pending, ran, late, job>>

\* push does not notify.
PushSilently(p) ==
  /\ Goto(p, "push notify", "pushed")
  /\ UnlockBy(p)
  /\ UNCHANGED <<jobs, running, runningCount, pending, ran, late, job>>

\* A consumer leaves without telling join.
LeaveSilently(c) ==
  /\ Goto(c, "leave", "left")
  /\ runningCount' = runningCount - 1
  /\ UnlockBy(c)
  /\ UNCHANGED <<jobs, running, pending, ran, late, job>>

-----------------------------------------------------------------------------
(* push *)

Enqueue(p) ==
  /\ Goto(p, "push", "push lock")
  /\ jobs' = jobs \cup {p}
  /\ UNCHANGED <<monitor, running, runningCount, pending, ran, late, job>>

Count(p) ==
  /\ Goto(p, "push count", "push notify")
  /\ pending' = Plus(pending)
  /\ UNCHANGED <<monitor, jobs, running, runningCount, ran, late, job>>

Pushed(p) ==
  /\ Goto(p, "push notify", "pushed")
  /\ NotifyAllBy(p)
  /\ UNCHANGED <<jobs, running, runningCount, pending, ran, late, job>>

-----------------------------------------------------------------------------
(* start *)

Start(c) ==
  /\ Goto(c, "start", "set")
  /\ runningCount' = Plus(runningCount)
  /\ UNCHANGED <<monitor, jobs, running, pending, ran, late, job>>

SetRunning(c) ==
  /\ Goto(c, "set", "loop")
  /\ running' = TRUE
  /\ UNCHANGED <<monitor, jobs, runningCount, pending, ran, late, job>>

\* while (_running || _pending)
LoopRunning(c) ==
  /\ Goto(c, "loop", IF running THEN "wait lock" ELSE "loop pending")
  /\ UNCHANGED <<monitor, jobs, running, runningCount, pending, ran, late, job>>

LoopPending(c) ==
  /\ Goto(c, "loop pending", IF pending # 0 THEN "wait lock" ELSE "leave lock")
  /\ UNCHANGED <<monitor, jobs, running, runningCount, pending, ran, late, job>>

\* while (_running && _pending == 0), with the mutex held
WaitRunning(c) ==
  /\ \/ running /\ Goto(c, "wait running", "wait pending") /\ UNCHANGED monitor
     \/ ~running /\ Goto(c, "wait running", "pop") /\ UnlockBy(c)
  /\ UNCHANGED <<jobs, running, runningCount, pending, ran, late, job>>

WaitPending(c) ==
  /\ \/ pending = 0 /\ Goto(c, "wait pending", "blocked") /\ WaitBy(c)
     \/ pending # 0 /\ Goto(c, "wait pending", "pop") /\ UnlockBy(c)
  /\ UNCHANGED <<jobs, running, runningCount, pending, ran, late, job>>

\* The queue hands out any job: it keeps no order between producers.
Pop(c) ==
  /\ \/ \E j \in jobs : /\ jobs' = jobs \ {j} /\ job' = [job EXCEPT ![c] = j]
                        /\ Goto(c, "pop", "run")
     \/ jobs = {} /\ Goto(c, "pop", "loop") /\ UNCHANGED <<jobs, job>>
  /\ UNCHANGED <<monitor, running, runningCount, pending, ran, late>>

\* The Stopper's job calls stop, the others return at once.  A start that sets _running
\* after stop has cleared it leaves it set for good.
Run(c) ==
  /\ ran' = ran \cup {job[c]}
  /\ IF job[c] = Stopper THEN running' = FALSE /\ Goto(c, "run", "stop lock")
                      ELSE UNCHANGED running /\ Goto(c, "run", "count")
  /\ late' = (late \/ (job[c] = Stopper
                       /\ \E d \in Consumers : pc[d] \in {"start", "set"}))
  /\ UNCHANGED <<monitor, jobs, runningCount, pending, job>>

StopNotify(c) ==
  /\ Goto(c, "stop notify", "count")
  /\ NotifyAllBy(c)
  /\ UNCHANGED <<jobs, running, runningCount, pending, ran, late, job>>

Uncount(c) ==
  /\ Goto(c, "count", "pop")
  /\ pending' = Minus(pending)
  /\ job' = [job EXCEPT ![c] = None]
  /\ UNCHANGED <<monitor, jobs, running, runningCount, ran, late>>

Leave(c) ==
  /\ Goto(c, "leave", "left")
  /\ runningCount' = runningCount - 1
  /\ NotifyAllBy(c)
  /\ UNCHANGED <<jobs, running, pending, ran, late, job>>

-----------------------------------------------------------------------------
(* join: while (_running_count != 0 || _pending != 0) *)

CallJoin ==
  /\ Goto(Main, "join", "join lock")
  /\ UNCHANGED <<monitor, jobs, running, runningCount, pending, ran, late, job>>

JoinRunning ==
  /\ \/ runningCount = 0 /\ Goto(Main, "join running", "join pending")
        /\ UNCHANGED monitor
     \/ runningCount # 0 /\ Goto(Main, "join running", "blocked") /\ WaitBy(Main)
  /\ UNCHANGED <<jobs, running, runningCount, pending, ran, late, job>>

JoinPending ==
  /\ \/ pending = 0 /\ Goto(Main, "join pending", "joined") /\ UnlockBy(Main)
     \/ pending # 0 /\ Goto(Main, "join pending", "blocked") /\ WaitBy(Main)
  /\ UNCHANGED <<jobs, running, runningCount, pending, ran, late, job>>

-----------------------------------------------------------------------------
\* What fibers do without being told to.
Step(f) ==
  \/ Woken(f)
  \/ f \in Pushers /\ (Count(f) \/ Pushed(f))
  \/ f = Main /\ (JoinRunning \/ JoinPending)
  \/ /\ f \in Consumers
     /\ \/ Start(f) \/ SetRunning(f) \/ LoopRunning(f) \/ LoopPending(f)
        \/ WaitRunning(f) \/ WaitPending(f) \/ Pop(f) \/ Run(f)
        \/ StopNotify(f) \/ Uncount(f) \/ Leave(f)

Finished == pc[Main] = "joined" /\ \A c \in Consumers : pc[c] = "left"

-----------------------------------------------------------------------------
(* Properties *)

Uncounted == {p \in Pushers : pc[p] \in {"push lock", "push count"}}
Unfinished == {j \in Pushers : j \in jobs \/ \E c \in Consumers : job[c] = j}

\* _pending is the number of jobs that are queued or being run, less those whose push
\* has not counted them yet, modulo the width of the counter: although a consumer may
\* take it below zero before the push takes it up.
PendingExact ==
  (pending + Cardinality(Uncounted)) % (CountMax + 1)
    = Cardinality(Unfinished) % (CountMax + 1)

\* The last consumer to leave has left no job behind, whichever consumer took the job
\* that stops and whether it was counted by then; after join nobody is still in start
\* (main.cpp:235 asserts that every job has run).  Unless stop came before a start.
NothingLeftBehind ==
  ~late =>
    /\ (\A c \in Consumers : pc[c] \in {"leave lock", "leave", "left"}) => ran = Pushers
    /\ pc[Main] = "joined" => ran = Pushers /\ \A c \in Consumers : pc[c] = "left"

\* The fibers that will call notify_all.
Notifiers ==
  {f \in Everyone : pc[f] \in {"push lock", "push count", "push notify",
                             "stop lock", "stop notify", "leave lock", "leave"}}

\* A fiber sleeps only while it has a reason to, or while somebody is about to wake
\* everyone.
SleepsForAReason ==
  \A f \in waiting :
    \/ Notifiers # {}
    \/ f = Main /\ (runningCount # 0 \/ pending # 0)
    \/ f # Main /\ running /\ pending = 0
=============================================================================
