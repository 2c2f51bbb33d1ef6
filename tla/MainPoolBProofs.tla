-------------------------- MODULE MainPoolBProofs ---------------------------
(***************************************************************************)
(* The properties of MainPoolB, the executor's and the counter's, for any  *)
(* number of tasks and of consumers.                                       *)
(***************************************************************************)
EXTENDS MainPoolB, CounterProofs

-----------------------------------------------------------------------------
(* The executor: its invariant.  The first three parts hold for any        *)
(* program, Running and Asleep as long as nothing exceeds a uint32_t, the  *)
(* last three in main_pool_b only.                                         *)

Everyone == E!Everyone

TaskPlaces == {"push", "push lock", "push count", "push notify", "pushed"}
ConsumerPlaces ==
  {"start", "set", "loop", "loop pending", "wait lock", "wait running",
   "wait pending", "blocked", "pop", "run", "stop lock", "stop notify", "count",
   "leave lock", "leave", "left"}
MainPlaces == {"join", "join lock", "join running", "join pending", "blocked", "joined"}

XTypeOK ==
  /\ waiting \subseteq Everyone /\ woken \subseteq Everyone
  /\ jobs \subseteq Tasks /\ ran \subseteq Tasks /\ running \in BOOLEAN
  /\ pending \in 0 .. CountMax
  /\ xpc \in [Everyone -> TaskPlaces \cup ConsumerPlaces \cup MainPlaces]
  /\ \A k \in Tasks : xpc[k] \in TaskPlaces
  /\ \A c \in Consumers : xpc[c] \in ConsumerPlaces
  /\ xpc[Main] \in MainPlaces
  /\ job \in [Consumers -> Tasks \cup {None}]

\* A job is in one place: queued, held by one consumer, or run.
Holding == {"run", "stop lock", "stop notify", "count"}
Held ==
  /\ \A c \in Consumers : job[c] # None <=> xpc[c] \in Holding
  /\ \A c \in Consumers : xpc[c] \in Holding \ {"run"} => job[c] \in ran
  /\ \A c \in Consumers : job[c] \notin jobs
  /\ \A c, d \in Consumers : job[c] = job[d] /\ job[c] # None => c = d
  /\ \A k \in Tasks : k \in jobs \/ k \in ran \/ (\E c \in Consumers : job[c] = k)
                        <=> xpc[k] # "push"

\* _pending, up to a multiple of what wraps around.
Balance ==
  \E m \in Int :
    pending + E!Cardinality(E!Uncounted) = E!Cardinality(E!Unfinished) + m * (CountMax + 1)

\* Who is between lock and unlock.
Inside == {"push count", "push notify", "stop notify", "wait running",
           "wait pending", "leave", "join running", "join pending"}
Monitored == \A f \in Everyone : owner = f <=> xpc[f] \in Inside

Present == {c \in Consumers : xpc[c] \notin {"start", "left"}}
Running == runningCount = Cardinality(Present)

\* Nobody goes to sleep who would not be woken.
Asleep ==
  /\ SleepsForAReason
  /\ \A c \in Consumers : xpc[c] = "wait pending" => running \/ E!Notifiers # {}

\* What the program does in which order.
Ordered ==
  /\ round \in {1, 2}
  /\ round = 1 => pc[Stopper] = "new" /\ ~hasty
  /\ round = 2 => \A k \in Tasks \ {Stopper} : Counted(k)
  /\ waiter # "body" => \A k \in Own(round) : pc[k] # "new"
  /\ \A p \in Parents, n \in Nested : pc[p] \in {"new", "queued", "run"} \/ pc[n] # "new"
  /\ \A k \in Tasks :
       /\ pc[k] \in {"new", "queued"} => xpc[k] = "push"
       /\ pc[k] \notin {"new", "queued", "run"} => xpc[k] = "pushed"
  /\ xpc[Main] # "join" => waiter = "returned" /\ round = 2

\* Once stop has been called, when all have started, somebody looks for jobs until there
\* are none.
Stopped ==
  /\ \A c \in Consumers :
       /\ xpc[c] \in {"loop pending", "leave lock", "leave", "left"} => Stopper \in ran
       /\ xpc[c] \notin {"start", "set"} /\ ~running => Stopper \in ran
  /\ Stopper \in ran =>
       /\ ~running /\ \A c \in Consumers : xpc[c] \notin {"start", "set"}
       /\ jobs = {} \/ \E c \in Consumers : xpc[c] \in Holding \cup {"pop"}

\* join has seen nobody in start: they have all left, or none has started, and then none
\* gets further than the mutex while join holds it.
AllLeft == \A c \in Consumers : xpc[c] = "left"
EarlyPlaces == {"start", "set", "loop", "wait lock"}
Joining ==
  /\ xpc[Main] = "join pending" =>
       AllLeft \/ (Stopper \notin ran /\ \A c \in Consumers : xpc[c] \in EarlyPlaces)
  /\ xpc[Main] = "joined" => hasty \/ AllLeft

-----------------------------------------------------------------------------
(* Steps of the executor *)

\* A fiber moves on to q, of its own places, and enters and leaves the mutex properly.
Move(f, q) ==
  /\ f \in Everyone /\ xpc' = [xpc EXCEPT ![f] = q]
  /\ f \in Tasks => q \in TaskPlaces
  /\ f \in Consumers => q \in ConsumerPlaces
  /\ f = Main => q \in MainPlaces
  /\ \/ owner' = owner /\ (xpc[f] \in Inside <=> q \in Inside)
     \/ owner = None /\ owner' = f /\ q \in Inside
     \/ owner = f /\ owner' = None /\ q \notin Inside
  /\ waiting' \subseteq waiting \cup {f} /\ woken' \subseteq woken \cup waiting

Outside == {"start", "left"}
PushPlaces == {"push lock", "push count"}

\* It changes nothing else, and none of what the parts of the invariant tell apart.
Plain(f, q) ==
  /\ Move(f, q) /\ UNCHANGED <<jobs, running, runningCount, pending, ran, job>>
  /\ xpc[f] \in Holding \ {"run"} <=> q \in Holding \ {"run"}
  /\ xpc[f] # "run" /\ q # "run"
  /\ xpc[f] \notin {"push", "pushed", "start", "set"} /\ q \notin {"push", "start", "set", "left"}
  /\ xpc[f] # "left"
  /\ xpc[f] \in PushPlaces <=> q \in PushPlaces

LEMMA Roles ==
  /\ Everyone = Tasks \cup Consumers \cup {Main}
  /\ Consumers \cap Tasks = {} /\ Main \notin Tasks /\ Main \notin Consumers
  /\ None \notin Everyone /\ Stopper \in Tasks
BY ProgramAssumption DEF Everyone, E!Everyone

LEMMA LockIsPlain ==
  ASSUME XTypeOK, NEW f \in Everyone, E!Lock(f)
  PROVE  \E q : Plain(f, q)
<1> USE Roles DEF E!Lock, E!Goto, E!LockBy, Plain, Move, XTypeOK, TaskPlaces, ConsumerPlaces,
      MainPlaces, Inside, Holding, PushPlaces
<1>1. CASE E!Goto(f, "push lock", "push count")
  <2>1. Plain(f, "push count")
    BY <1>1
  <2> QED BY <2>1
<1>2. CASE E!Goto(f, "stop lock", "stop notify")
  <2>1. Plain(f, "stop notify")
    BY <1>2
  <2> QED BY <2>1
<1>3. CASE E!Goto(f, "wait lock", "wait running")
  <2>1. Plain(f, "wait running")
    BY <1>3
  <2> QED BY <2>1
<1>4. CASE E!Goto(f, "leave lock", "leave")
  <2>1. Plain(f, "leave")
    BY <1>4
  <2> QED BY <2>1
<1>5. CASE E!Goto(f, "join lock", "join running")
  <2>1. Plain(f, "join running")
    BY <1>5
  <2> QED BY <2>1
<1> QED
  BY <1>1, <1>2, <1>3, <1>4, <1>5

LEMMA PlainSteps ==
  ASSUME XTypeOK, NEW f \in Everyone,
         \/ E!Lock(f) \/ E!Woken(f)
         \/ f \in Tasks /\ E!Pushed(f)
         \/ /\ f \in Consumers
            /\ \/ E!LoopRunning(f) \/ E!LoopPending(f) \/ E!WaitRunning(f)
               \/ E!WaitPending(f) \/ (jobs = {} /\ E!Pop(f)) \/ E!StopNotify(f)
         \/ f = Main /\ (E!CallJoin \/ E!JoinRunning \/ E!JoinPending)
  PROVE  \E q : Plain(f, q)
<1> USE Roles DEF E!Goto, E!UnlockBy, E!WaitBy, E!WokenBy, E!NotifyAllBy, E!monitor,
      Plain, Move, XTypeOK, TaskPlaces, ConsumerPlaces, MainPlaces, Inside, Holding,
      PushPlaces
<1>0. CASE E!Lock(f)
  BY <1>0, LockIsPlain
<1>1. CASE E!Woken(f)
  <2>1. CASE f = Main
    <3>1. Plain(f, "join lock")
      BY <1>1, <2>1 DEF E!Woken
    <3> QED BY <3>1
  <2>2. CASE f # Main
    <3>1. f \in Consumers
      BY <1>1, <2>2 DEF E!Woken
    <3>2. Plain(f, "wait lock")
      BY <1>1, <2>2, <3>1 DEF E!Woken
    <3> QED BY <3>2
  <2> QED BY <2>1, <2>2
<1>2. CASE f \in Tasks /\ E!Pushed(f)
  <2>1. Plain(f, "pushed")
    BY <1>2 DEF E!Pushed
  <2> QED BY <2>1
<1>3. CASE f \in Consumers /\ E!LoopRunning(f)
  <2>1. CASE running
    <3>1. Plain(f, "wait lock")
      BY <1>3, <2>1 DEF E!LoopRunning
    <3> QED BY <3>1
  <2>2. CASE ~running
    <3>1. Plain(f, "loop pending")
      BY <1>3, <2>2 DEF E!LoopRunning
    <3> QED BY <3>1
  <2> QED BY <2>1, <2>2
<1>4. CASE f \in Consumers /\ E!LoopPending(f)
  <2>1. CASE pending # 0
    <3>1. Plain(f, "wait lock")
      BY <1>4, <2>1 DEF E!LoopPending
    <3> QED BY <3>1
  <2>2. CASE pending = 0
    <3>1. Plain(f, "leave lock")
      BY <1>4, <2>2 DEF E!LoopPending
    <3> QED BY <3>1
  <2> QED BY <2>1, <2>2
<1>5. CASE f \in Consumers /\ E!WaitRunning(f)
  <2>1. CASE running
    <3>1. Plain(f, "wait pending")
      BY <1>5, <2>1 DEF E!WaitRunning
    <3> QED BY <3>1
  <2>2. CASE ~running
    <3>1. Plain(f, "pop")
      BY <1>5, <2>2 DEF E!WaitRunning
    <3> QED BY <3>1
  <2> QED BY <2>1, <2>2
<1>6. CASE f \in Consumers /\ E!WaitPending(f)
  <2>1. CASE pending = 0
    <3>1. Plain(f, "blocked")
      BY <1>6, <2>1 DEF E!WaitPending
    <3> QED BY <3>1
  <2>2. CASE pending # 0
    <3>1. Plain(f, "pop")
      BY <1>6, <2>2 DEF E!WaitPending
    <3> QED BY <3>1
  <2> QED BY <2>1, <2>2
<1>7. CASE f \in Consumers /\ jobs = {} /\ E!Pop(f)
  <2>1. Plain(f, "loop")
    BY <1>7 DEF E!Pop
  <2> QED BY <2>1
<1>8. CASE f \in Consumers /\ E!StopNotify(f)
  <2>1. Plain(f, "count")
    BY <1>8 DEF E!StopNotify
  <2> QED BY <2>1
<1>9. CASE f = Main /\ E!CallJoin
  <2>1. Plain(f, "join lock")
    BY <1>9 DEF E!CallJoin
  <2> QED BY <2>1
<1>10. CASE f = Main /\ E!JoinRunning
  <2>1. CASE runningCount = 0
    <3>1. Plain(f, "join pending")
      BY <1>10, <2>1 DEF E!JoinRunning
    <3> QED BY <3>1
  <2>2. CASE runningCount # 0
    <3>1. Plain(f, "blocked")
      BY <1>10, <2>2 DEF E!JoinRunning
    <3> QED BY <3>1
  <2> QED BY <2>1, <2>2
<1>11. CASE f = Main /\ E!JoinPending
  <2>1. CASE pending = 0
    <3>1. Plain(f, "joined")
      BY <1>11, <2>1 DEF E!JoinPending
    <3> QED BY <3>1
  <2>2. CASE pending # 0
    <3>1. Plain(f, "blocked")
      BY <1>11, <2>2 DEF E!JoinPending
    <3> QED BY <3>1
  <2> QED BY <2>1, <2>2
<1> QED
  BY <1>0, <1>1, <1>2, <1>3, <1>4, <1>5, <1>6, <1>7, <1>8, <1>9, <1>10, <1>11

-----------------------------------------------------------------------------
(* Types, jobs and _pending, without an assumption about the program *)

\* All of the executor's variables but who holds the mutex and who sleeps.
LEMMA MoveType ==
  ASSUME XTypeOK, NEW f, NEW q, Move(f, q),
         jobs' \subseteq Tasks, ran' \subseteq Tasks, running' \in BOOLEAN,
         pending' \in 0 .. CountMax, job' \in [Consumers -> Tasks \cup {None}]
  PROVE  XTypeOK'
<1> USE Roles DEF XTypeOK, Move
<1>1. waiting' \subseteq Everyone /\ woken' \subseteq Everyone
  BY DEF Everyone
<1>2. q \in TaskPlaces \cup ConsumerPlaces \cup MainPlaces
  OBVIOUS
<1>3. xpc' \in [Everyone -> TaskPlaces \cup ConsumerPlaces \cup MainPlaces]
  BY <1>2
<1>4. /\ \A k \in Tasks : xpc'[k] \in TaskPlaces
      /\ \A c \in Consumers : xpc'[c] \in ConsumerPlaces
      /\ xpc'[Main] \in MainPlaces
  OBVIOUS
<1> QED
  BY <1>1, <1>3, <1>4

LEMMA PlainKeeps ==
  ASSUME XTypeOK, Held, NEW f, NEW q, Plain(f, q)
  PROVE  /\ XTypeOK' /\ Held'
         /\ E!Uncounted' = E!Uncounted /\ E!Unfinished' = E!Unfinished
         /\ Present' = Present
<1> USE Roles
<1>1. XTypeOK'
  BY MoveType DEF Plain, XTypeOK
<1>2. \A g \in Everyone : xpc'[g] = IF g = f THEN q ELSE xpc[g]
  BY DEF Plain, Move, XTypeOK
<1>3. \A g \in Everyone : /\ xpc'[g] \in Holding <=> xpc[g] \in Holding
                          /\ xpc'[g] \in Holding \ {"run"} <=> xpc[g] \in Holding \ {"run"}
                          /\ xpc'[g] = "push" <=> xpc[g] = "push"
                          /\ xpc'[g] \in PushPlaces <=> xpc[g] \in PushPlaces
                          /\ xpc'[g] \in Outside <=> xpc[g] \in Outside
  BY <1>2 DEF Plain, Holding, Outside
<1>4. Held'
  BY <1>3 DEF Plain, Held
<1>5. E!Uncounted' = E!Uncounted
  BY <1>3 DEF PushPlaces, E!Uncounted
<1>6. E!Unfinished' = E!Unfinished
  BY DEF Plain, E!Unfinished
<1>7. Present' = Present
  BY <1>3 DEF Present, Outside
<1> QED
  BY <1>1, <1>4, <1>5, <1>6, <1>7

LEMMA EnqueueHeld ==
  ASSUME XTypeOK, Held, NEW k \in Tasks, E!Enqueue(k)
  PROVE  /\ XTypeOK' /\ Held' /\ Move(k, "push lock")
         /\ k \notin E!Uncounted /\ E!Uncounted' = E!Uncounted \cup {k}
         /\ k \notin E!Unfinished /\ E!Unfinished' = E!Unfinished \cup {k}
<1> USE Roles
<1>1. Move(k, "push lock")
  BY DEF E!Enqueue, E!Goto, E!monitor, Move, Inside, TaskPlaces
<1>2. XTypeOK'
  BY <1>1, MoveType DEF E!Enqueue, XTypeOK
<1>3. \A g \in Everyone : xpc'[g] = IF g = k THEN "push lock" ELSE xpc[g]
  BY DEF E!Enqueue, E!Goto, XTypeOK
<1>4. xpc[k] = "push" /\ jobs' = jobs \cup {k} /\ ran' = ran /\ job' = job
  BY DEF E!Enqueue, E!Goto
<1>5. k \notin jobs /\ \A c \in Consumers : job[c] # k
  BY <1>4 DEF Held
<1>6. Held'
  BY <1>3, <1>4, <1>5 DEF Held
<1>7. k \notin E!Uncounted /\ E!Uncounted' = E!Uncounted \cup {k}
  BY <1>3, <1>4 DEF E!Uncounted
<1>8. k \notin E!Unfinished /\ E!Unfinished' = E!Unfinished \cup {k}
  BY <1>4, <1>5 DEF E!Unfinished
<1> QED
  BY <1>1, <1>2, <1>6, <1>7, <1>8

\* Counting up and down stays within the width of the counter.
LEMMA PlusMinus ==
  ASSUME NEW n \in 0 .. CountMax
  PROVE  /\ E!Plus(n) \in 0 .. CountMax
         /\ E!Plus(n) = n + 1 \/ (E!Plus(n) = 0 /\ n = CountMax)
         /\ E!Minus(n) \in 0 .. CountMax
         /\ E!Minus(n) = n - 1 \/ (E!Minus(n) = CountMax /\ n = 0)
<1> DEFINE w == CountMax + 1
<1>0. w \in Nat /\ w > 0 /\ CountMax \in Nat
  BY ProgramAssumption
<1>1. \A i \in 0 .. CountMax : i % (CountMax + 1) = i /\ (i + CountMax + 1) % (CountMax + 1) = i
  BY <1>0
<1> QED
  BY <1>0, <1>1 DEF E!Plus, E!Minus

LEMMA CountHeld ==
  ASSUME XTypeOK, Held, NEW k \in Tasks, E!Count(k)
  PROVE  /\ XTypeOK' /\ Held' /\ Move(k, "push notify")
         /\ k \in E!Uncounted /\ E!Uncounted' = E!Uncounted \ {k}
         /\ E!Unfinished' = E!Unfinished
<1> USE Roles
<1>1. Move(k, "push notify")
  BY DEF E!Count, E!Goto, E!monitor, Move, Inside, TaskPlaces
<1>2. pending' \in 0 .. CountMax
  BY PlusMinus DEF E!Count, XTypeOK
<1>3. XTypeOK'
  BY <1>1, <1>2, MoveType DEF E!Count, XTypeOK
<1>4. \A g \in Everyone : xpc'[g] = IF g = k THEN "push notify" ELSE xpc[g]
  BY DEF E!Count, E!Goto, XTypeOK
<1>5. xpc[k] = "push count" /\ UNCHANGED <<jobs, ran, job>>
  BY DEF E!Count, E!Goto
<1>6. Held'
  BY <1>4, <1>5 DEF Held
<1>7. k \in E!Uncounted /\ E!Uncounted' = E!Uncounted \ {k}
  BY <1>4, <1>5 DEF E!Uncounted
<1>8. E!Unfinished' = E!Unfinished
  BY <1>5 DEF E!Unfinished
<1> QED
  BY <1>1, <1>3, <1>6, <1>7, <1>8

\* A consumer that starts, sets _running or leaves.
LEMMA ComeAndGoHeld ==
  ASSUME XTypeOK, Held, NEW c \in Consumers, NEW q, Move(c, q),
         xpc[c] \in {"start", "set", "leave"}, q \in {"set", "loop", "left"},
         running' \in BOOLEAN, UNCHANGED <<jobs, pending, ran, job>>
  PROVE  /\ XTypeOK' /\ Held'
         /\ E!Uncounted' = E!Uncounted /\ E!Unfinished' = E!Unfinished
<1> USE Roles
<1>1. XTypeOK'
  BY MoveType DEF XTypeOK
<1>2. \A g \in Everyone : xpc'[g] = IF g = c THEN q ELSE xpc[g]
  BY DEF Move, XTypeOK
<1>3. \A g \in Everyone : /\ xpc'[g] \in Holding <=> xpc[g] \in Holding
                          /\ xpc'[g] \in Holding \ {"run"} <=> xpc[g] \in Holding \ {"run"}
  BY <1>2 DEF Holding
<1>4. \A k \in Tasks : xpc'[k] = xpc[k]
  BY <1>2
<1>5. Held'
  BY <1>3, <1>4 DEF Held
<1>6. E!Uncounted' = E!Uncounted /\ E!Unfinished' = E!Unfinished
  BY <1>4 DEF E!Uncounted, E!Unfinished
<1> QED
  BY <1>1, <1>5, <1>6

LEMMA ComeAndGo ==
  ASSUME XTypeOK, Held, NEW c \in Consumers, E!Start(c) \/ E!SetRunning(c) \/ E!Leave(c)
  PROVE  /\ XTypeOK' /\ Held' /\ \E q : Move(c, q)
         /\ E!Uncounted' = E!Uncounted /\ E!Unfinished' = E!Unfinished
<1> USE Roles DEF E!Goto, E!monitor, E!NotifyAllBy, Move, Inside, ConsumerPlaces, XTypeOK
<1>1. CASE E!Start(c)
  <2>1. Move(c, "set")
    BY <1>1 DEF E!Start
  <2> HIDE DEF Move, XTypeOK
  <2>2. running' = running /\ UNCHANGED <<jobs, pending, ran, job>> /\ running \in BOOLEAN
    BY <1>1 DEF E!Start, XTypeOK
  <2> QED
    BY <1>1, <2>1, <2>2, ComeAndGoHeld DEF E!Start
<1>2. CASE E!SetRunning(c)
  <2>1. Move(c, "loop")
    BY <1>2 DEF E!SetRunning
  <2> HIDE DEF Move, XTypeOK
  <2>2. running' = TRUE /\ UNCHANGED <<jobs, pending, ran, job>>
    BY <1>2 DEF E!SetRunning
  <2> QED
    BY <1>2, <2>1, <2>2, ComeAndGoHeld DEF E!SetRunning
<1>3. CASE E!Leave(c)
  <2>1. Move(c, "left")
    BY <1>3 DEF E!Leave
  <2> HIDE DEF Move, XTypeOK
  <2>2. running' = running /\ UNCHANGED <<jobs, pending, ran, job>> /\ running \in BOOLEAN
    BY <1>3 DEF E!Leave, XTypeOK
  <2>3. xpc[c] = "leave"
    BY <1>3 DEF E!Leave
  <2> QED
    BY <2>1, <2>2, <2>3, ComeAndGoHeld
<1> QED
  BY <1>1, <1>2, <1>3

LEMMA PopHeld ==
  ASSUME XTypeOK, Held, NEW c \in Consumers, jobs # {}, E!Pop(c)
  PROVE  /\ XTypeOK' /\ Held' /\ Move(c, "run")
         /\ E!Uncounted' = E!Uncounted /\ E!Unfinished' = E!Unfinished
<1> USE Roles
<1>1. PICK j \in jobs : /\ jobs' = jobs \ {j} /\ job' = [job EXCEPT ![c] = j]
                        /\ E!Goto(c, "pop", "run")
                        /\ UNCHANGED <<E!monitor, running, runningCount, pending, ran>>
  BY DEF E!Pop
<1>2. Move(c, "run")
  BY <1>1 DEF E!Goto, E!monitor, Move, Inside, ConsumerPlaces
<1>3. j \in Tasks /\ job' \in [Consumers -> Tasks \cup {None}]
  BY <1>1 DEF XTypeOK
<1>4. XTypeOK'
  BY <1>1, <1>2, <1>3, MoveType DEF XTypeOK
<1>5. \A g \in Everyone : xpc'[g] = IF g = c THEN "run" ELSE xpc[g]
  BY <1>1 DEF E!Goto, XTypeOK
<1>6. \A d \in Consumers : job'[d] = IF d = c THEN j ELSE job[d]
  BY <1>1 DEF XTypeOK
<1>o. /\ \A d \in Consumers : xpc'[d] = IF d = c THEN "run" ELSE xpc[d]
      /\ None \notin Tasks
  BY <1>5
<1>7. xpc[c] = "pop" /\ job[c] = None
  BY <1>1 DEF E!Goto, Held, Holding
<1>8. \A k \in Tasks : xpc'[k] = xpc[k]
  BY <1>5
<1>9. \A d \in Consumers : job[d] # j
  BY <1>1 DEF Held
<1>a. \A d \in Consumers : job'[d] # None <=> xpc'[d] \in Holding
  <2>1. "run" \in Holding /\ j # None
    BY <1>3, <1>o DEF Holding
  <2>2. CASE job[c] = None
    BY <1>6, <1>o, <2>1 DEF Held
  <2> QED
    BY <1>7, <2>2
<1>b. \A d \in Consumers : xpc'[d] \in Holding \ {"run"} => job'[d] \in ran'
  BY <1>1, <1>6, <1>o DEF Held
<1>c. \A d \in Consumers : job'[d] \notin jobs'
  BY <1>1, <1>6 DEF Held
<1>d. \A d, e \in Consumers : job'[d] = job'[e] /\ job'[d] # None => d = e
  BY <1>6, <1>9 DEF Held
<1>e. \A k \in Tasks : k \in jobs' \/ (\E d \in Consumers : job'[d] = k)
                       <=> k \in jobs \/ (\E d \in Consumers : job[d] = k)
  BY <1>1, <1>3, <1>6, <1>7
<1>f. \A k \in Tasks : k \in jobs' \/ k \in ran' \/ (\E d \in Consumers : job'[d] = k)
                         <=> xpc'[k] # "push"
  BY <1>1, <1>8, <1>e DEF Held
<1>g. Held'
  BY <1>a, <1>b, <1>c, <1>d, <1>f DEF Held
<1>h. E!Uncounted' = E!Uncounted
  BY <1>8 DEF E!Uncounted
<1>i. E!Unfinished' = E!Unfinished
  BY <1>e DEF E!Unfinished
<1> QED
  BY <1>2, <1>4, <1>g, <1>h, <1>i

LEMMA RunHeld ==
  ASSUME XTypeOK, Held, NEW c \in Consumers, E!Run(c)
  PROVE  /\ XTypeOK' /\ Held'
         /\ Move(c, IF job[c] = Stopper THEN "stop lock" ELSE "count")
         /\ E!Uncounted' = E!Uncounted /\ E!Unfinished' = E!Unfinished
<1> USE Roles
<1> DEFINE q == IF job[c] = Stopper THEN "stop lock" ELSE "count"
<1>1. /\ xpc[c] = "run" /\ xpc' = [xpc EXCEPT ![c] = q]
      /\ UNCHANGED <<owner, waiting, woken, jobs, pending, job>>
      /\ ran' = ran \cup {job[c]} /\ running' \in {FALSE, running}
  BY DEF E!Run, E!Goto, E!monitor
<1>2. Move(c, q)
  BY <1>1 DEF Move, Inside, ConsumerPlaces
<1>3. job[c] \in Tasks
  BY <1>1 DEF XTypeOK, Held, Holding
<1>4. XTypeOK'
  BY <1>1, <1>2, <1>3, MoveType DEF XTypeOK
<1>5. \A g \in Everyone : xpc'[g] = IF g = c THEN q ELSE xpc[g]
  BY <1>1 DEF XTypeOK
<1>6. q \in Holding \ {"run"} /\ q \in Holding /\ xpc[c] \in Holding
  BY <1>1 DEF Holding
<1>7. \A k \in Tasks : xpc'[k] = xpc[k]
  BY <1>5
<1>8. \A d \in Consumers : xpc'[d] \in Holding <=> xpc[d] \in Holding
  BY <1>5, <1>6
<1>9. \A d \in Consumers : xpc'[d] \in Holding \ {"run"} => job[d] \in ran'
  BY <1>1, <1>5 DEF Held
<1>a. Held'
  BY <1>1, <1>7, <1>8, <1>9 DEF Held
<1>b. E!Uncounted' = E!Uncounted /\ E!Unfinished' = E!Unfinished
  BY <1>1, <1>7 DEF E!Uncounted, E!Unfinished
<1> QED
  BY <1>2, <1>4, <1>a, <1>b

LEMMA UncountHeld ==
  ASSUME XTypeOK, Held, NEW c \in Consumers, E!Uncount(c)
  PROVE  /\ XTypeOK' /\ Held' /\ Move(c, "pop")
         /\ E!Uncounted' = E!Uncounted
         /\ job[c] \in E!Unfinished /\ E!Unfinished' = E!Unfinished \ {job[c]}
<1> USE Roles
<1>1. /\ xpc[c] = "count" /\ xpc' = [xpc EXCEPT ![c] = "pop"]
      /\ UNCHANGED <<owner, waiting, woken, jobs, running, ran>>
      /\ job' = [job EXCEPT ![c] = None]
  BY DEF E!Uncount, E!Goto, E!monitor
<1>2. Move(c, "pop")
  BY <1>1 DEF Move, Inside, ConsumerPlaces
<1>3. pending' \in 0 .. CountMax
  BY PlusMinus DEF E!Uncount, XTypeOK
<1>4. job' \in [Consumers -> Tasks \cup {None}]
  BY <1>1 DEF XTypeOK
<1>5. XTypeOK'
  BY <1>1, <1>2, <1>3, <1>4, MoveType DEF XTypeOK
<1>6. \A g \in Everyone : xpc'[g] = IF g = c THEN "pop" ELSE xpc[g]
  BY <1>1 DEF XTypeOK
<1>o. \A d \in Consumers : xpc'[d] = IF d = c THEN "pop" ELSE xpc[d]
  BY <1>6
<1>7. \A d \in Consumers : job'[d] = IF d = c THEN None ELSE job[d]
  BY <1>1 DEF XTypeOK
<1>8. job[c] \in Tasks /\ job[c] \in ran /\ job[c] # None /\ job[c] \notin jobs
  BY <1>1 DEF XTypeOK, Held, Holding
<1>9. \A k \in Tasks : xpc'[k] = xpc[k]
  BY <1>6
<1>a. \A d \in Consumers : job'[d] # None <=> xpc'[d] \in Holding
  BY <1>7, <1>o DEF Held, Holding
<1>b. \A d \in Consumers : xpc'[d] \in Holding \ {"run"} => job'[d] \in ran'
  <2>1. "pop" \notin Holding
    BY DEF Holding
  <2> QED
    BY <1>1, <1>7, <1>o, <2>1 DEF Held
<1>c. /\ \A d \in Consumers : job'[d] \notin jobs'
      /\ \A d, e \in Consumers : job'[d] = job'[e] /\ job'[d] # None => d = e
  <2>1. None \notin jobs
    BY DEF XTypeOK
  <2> QED
    BY <1>1, <1>7, <2>1 DEF Held
<1>d. \A k \in Tasks : (\E d \in Consumers : job'[d] = k)
                         <=> k # job[c] /\ \E d \in Consumers : job[d] = k
  BY <1>7, <1>8 DEF Held
<1>e. \A k \in Tasks : k \in jobs' \/ k \in ran' \/ (\E d \in Consumers : job'[d] = k)
                         <=> xpc'[k] # "push"
  BY <1>1, <1>8, <1>9, <1>d DEF Held
<1>f. Held'
  BY <1>a, <1>b, <1>c, <1>e DEF Held
<1>g. E!Uncounted' = E!Uncounted
  BY <1>9 DEF E!Uncounted
<1>h. E!Unfinished' = E!Unfinished \ {job[c]}
  BY <1>1, <1>8, <1>d DEF E!Unfinished
<1>i. job[c] \in E!Unfinished
  BY <1>8 DEF E!Unfinished
<1> QED
  BY <1>2, <1>5, <1>f, <1>g, <1>h, <1>i

-----------------------------------------------------------------------------
(* _pending is exact *)

\* One in, one out.
LEMMA CountSet ==
  ASSUME NEW S \in SUBSET Tasks, NEW k \in Tasks
  PROVE  /\ E!Cardinality(S) \in Nat
         /\ k \notin S => E!Cardinality(S \cup {k}) = E!Cardinality(S) + 1
         /\ k \in S => E!Cardinality(S \ {k}) = E!Cardinality(S) - 1
<1>1. IsFiniteSet(S)
  BY ConstantsAssumption, FS_Subset
<1>2. \A T : E!Cardinality(T) = Cardinality(T)
  BY DEF E!Cardinality, Cardinality
<1>3. /\ Cardinality(S) \in Nat
      /\ k \notin S => Cardinality(S \cup {k}) = Cardinality(S) + 1
      /\ k \in S => Cardinality(S \ {k}) = Cardinality(S) - 1
  BY <1>1, FS_AddElement, FS_RemoveElement, FS_CardinalityType
<1> QED
  BY <1>2, <1>3

\* What remains of two numbers that differ by a multiple.
LEMMA SameRemainder ==
  ASSUME NEW a \in Nat, NEW b \in Nat, NEW m \in Int, NEW w \in Nat \ {0}, a = b + m * w
  PROVE  a % w = b % w
<1> DEFINE s == a \div w  r == a % w  t == b \div w  u == b % w
<1>1. /\ a = w * s + r /\ r \in 0 .. (w - 1) /\ s \in Int
      /\ b = w * t + u /\ u \in 0 .. (w - 1) /\ t \in Int
  OBVIOUS
<1> HIDE DEF s, r, t, u
<1>2. PICK n \in Int : n = s - t - m
  BY <1>1
<1>3. u - r = w * n
  BY <1>1, <1>2
<1>4. n = 0
  <2>1. CASE n > 0
    <3>1. w * n >= w
      BY <2>1
    <3> QED BY <1>1, <1>3, <3>1
  <2>2. CASE n < 0
    <3>1. w * n <= -w
      BY <2>2
    <3> QED BY <1>1, <1>3, <3>1
  <2> QED BY <2>1, <2>2
<1>5. u = r
  BY <1>1, <1>3, <1>4
<1> QED
  BY <1>5 DEF r, u

LEMMA Sets ==
  /\ E!Uncounted \in SUBSET Tasks /\ E!Unfinished \in SUBSET Tasks
  /\ E!Cardinality(E!Uncounted) \in Nat /\ E!Cardinality(E!Unfinished) \in Nat
<1>1. E!Uncounted \in SUBSET Tasks /\ E!Unfinished \in SUBSET Tasks
  BY DEF E!Uncounted, E!Unfinished
<1> QED
  BY <1>1, CountSet, ProgramAssumption

LEMMA SameBalance ==
  ASSUME XTypeOK, Balance, E!Uncounted' = E!Uncounted, E!Unfinished' = E!Unfinished,
         pending' = pending
  PROVE  Balance'
BY DEF Balance

\* A job is queued, and is counted neither up nor down.
LEMMA EnqueueBalance ==
  ASSUME XTypeOK, Held, Balance, NEW k \in Tasks, E!Enqueue(k)
  PROVE  Balance'
<1>1. PICK a, b \in Nat : /\ a = E!Cardinality(E!Uncounted) /\ b = E!Cardinality(E!Unfinished)
  BY Sets
<1>2. PICK m \in Int : pending + a = b + m * (CountMax + 1)
  BY <1>1 DEF Balance
<1>3. E!Cardinality(E!Uncounted \cup {k}) = a + 1 /\ E!Cardinality(E!Unfinished \cup {k}) = b + 1
  BY <1>1, EnqueueHeld, Sets, CountSet
<1>4. E!Cardinality(E!Uncounted') = a + 1 /\ E!Cardinality(E!Unfinished') = b + 1
  BY <1>3, EnqueueHeld
<1>5. pending' = pending
  BY DEF E!Enqueue
<1>6. pending + (a + 1) = (b + 1) + m * (CountMax + 1)
  <2> DEFINE x == m * (CountMax + 1)
  <2>1. x \in Int /\ pending \in Int
    BY ProgramAssumption DEF XTypeOK
  <2> QED
    BY <1>2, <2>1
<1> QED
  BY <1>4, <1>5, <1>6 DEF Balance

\* A push counts its job up.
LEMMA CountBalance ==
  ASSUME XTypeOK, Held, Balance, NEW k \in Tasks, E!Count(k)
  PROVE  Balance'
<1>1. PICK a, b \in Nat : /\ a = E!Cardinality(E!Uncounted) /\ b = E!Cardinality(E!Unfinished)
  BY Sets
<1>2. PICK m \in Int : pending + a = b + m * (CountMax + 1)
  BY <1>1 DEF Balance
<1>3. E!Cardinality(E!Uncounted') = a - 1 /\ E!Cardinality(E!Unfinished') = b
  BY <1>1, CountHeld, Sets, CountSet
<1>4. PICK p, q \in Int : /\ pending = p /\ pending' = q
                          /\ q = p + 1 \/ q = p + 1 - (CountMax + 1)
  <2>1. pending' = E!Plus(pending) /\ CountMax \in Nat /\ pending \in 0 .. CountMax
    BY ProgramAssumption DEF E!Count, XTypeOK
  <2>2. PICK p \in 0 .. CountMax : pending = p
    BY <2>1
  <2>3. PICK q \in 0 .. CountMax : E!Plus(p) = q
    BY PlusMinus
  <2>4. q = p + 1 \/ (q = 0 /\ p = CountMax)
    BY <2>3, PlusMinus
  <2> QED
    BY <2>1, <2>2, <2>3, <2>4
<1>5. \E n \in Int : q + (a - 1) = b + n * (CountMax + 1)
  <2>1. CASE q = p + 1
    <3>1. q + (a - 1) = b + m * (CountMax + 1)
      BY <1>2, <1>4, <2>1
    <3> QED BY <3>1
  <2>2. CASE q = p + 1 - (CountMax + 1)
    <3>1. (m - 1) * (CountMax + 1) = m * (CountMax + 1) - (CountMax + 1)
      BY ProgramAssumption
    <3>2. m * (CountMax + 1) \in Int /\ CountMax + 1 \in Int
      BY ProgramAssumption
    <3>3. PICK x, w \in Int : x = m * (CountMax + 1) /\ w = CountMax + 1
      BY <3>2
    <3>4. p + a = b + x /\ q = p + 1 - w
      BY <1>2, <1>4, <2>2, <3>3
    <3>5. q + (a - 1) = b + (x - w)
      BY <3>4
    <3>6. x - w = (m - 1) * (CountMax + 1)
      BY <3>1, <3>3
    <3>7. q + (a - 1) = b + (m - 1) * (CountMax + 1)
      BY <3>5, <3>6
    <3> QED BY <3>7
  <2> QED BY <1>4, <2>1, <2>2
<1> QED
  BY <1>3, <1>4, <1>5 DEF Balance

\* A consumer counts its job down.
LEMMA UncountBalance ==
  ASSUME XTypeOK, Held, Balance, NEW c \in Consumers, E!Uncount(c)
  PROVE  Balance'
<1>1. PICK a, b \in Nat : /\ a = E!Cardinality(E!Uncounted) /\ b = E!Cardinality(E!Unfinished)
  BY Sets
<1>2. PICK m \in Int : pending + a = b + m * (CountMax + 1)
  BY <1>1 DEF Balance
<1>3. E!Cardinality(E!Uncounted') = a /\ E!Cardinality(E!Unfinished') = b - 1
  <2>1. job[c] \in Tasks
    BY UncountHeld, Sets
  <2> QED
    BY <1>1, <2>1, UncountHeld, Sets, CountSet
<1>4. PICK p, q \in Int : /\ pending = p /\ pending' = q
                          /\ q = p - 1 \/ q = p - 1 + (CountMax + 1)
  <2>1. pending' = E!Minus(pending) /\ CountMax \in Nat /\ pending \in 0 .. CountMax
    BY ProgramAssumption DEF E!Uncount, XTypeOK
  <2>2. PICK p \in 0 .. CountMax : pending = p
    BY <2>1
  <2>3. PICK q \in 0 .. CountMax : E!Minus(p) = q
    BY PlusMinus
  <2>4. q = p - 1 \/ (q = CountMax /\ p = 0)
    BY <2>3, PlusMinus
  <2> QED
    BY <2>1, <2>2, <2>3, <2>4
<1>5. \E n \in Int : q + a = (b - 1) + n * (CountMax + 1)
  <2>0. m * (CountMax + 1) \in Int /\ CountMax + 1 \in Int
    BY ProgramAssumption
  <2>1. CASE q = p - 1
    <3>1. q + a = (b - 1) + m * (CountMax + 1)
      BY <1>2, <1>4, <2>0, <2>1
    <3> QED BY <3>1
  <2>2. CASE q = p - 1 + (CountMax + 1)
    <3>1. (m + 1) * (CountMax + 1) = m * (CountMax + 1) + (CountMax + 1)
      BY ProgramAssumption
    <3>3. PICK x, w \in Int : x = m * (CountMax + 1) /\ w = CountMax + 1
      BY <2>0
    <3>4. p + a = b + x /\ q = p - 1 + w
      BY <1>2, <1>4, <2>2, <3>3
    <3>5. q + a = (b - 1) + (x + w)
      BY <3>4
    <3>6. x + w = (m + 1) * (CountMax + 1)
      BY <3>1, <3>3
    <3>7. q + a = (b - 1) + (m + 1) * (CountMax + 1)
      BY <3>5, <3>6
    <3> QED BY <3>7
  <2> QED BY <1>4, <2>1, <2>2
<1> QED
  BY <1>3, <1>4, <1>5 DEF Balance

\* What the executor does in a step of the program.
Work(f) ==
  \/ E!Lock(f) \/ E!Step(f)
  \/ f \in Tasks /\ pc[f] = "run" /\ E!Enqueue(f)
  \/ f = Main /\ waiter = "returned" /\ round = 2 /\ E!CallJoin

LEMMA ProgramSteps ==
  ASSUME [MainNext]_program
  PROVE  \/ UNCHANGED executor
         \/ UNCHANGED vars /\ \E f \in Everyone : Work(f)
<1> USE Roles
<1>1. CASE UNCHANGED program \/ MainFinished
  BY <1>1 DEF program, MainFinished, executor
<1>2. ASSUME NEW f \in Everyone, FiberStep(f)
      PROVE  UNCHANGED executor \/ (UNCHANGED vars /\ Work(f))
  <2>1. CASE f = Main /\ (MainStep \/ WaiterGoesOn)
    BY <2>1 DEF MainStep, WaiterGoesOn, MainWait, MainReset, MainJoin, MainPush, Work
  <2>2. CASE f \in Tasks /\ TaskGoesOn(f)
    BY <2>2 DEF TaskGoesOn, TaskEnqueue, TaskReturn, TaskPush, Work
  <2>3. CASE ExecutorLock(f) \/ ExecutorStep(f)
    BY <2>3 DEF ExecutorLock, ExecutorStep, Work
  <2> QED
    BY <1>2, <2>1, <2>2, <2>3 DEF FiberStep
<1> QED
  BY <1>1, <1>2 DEF MainNext, Everyone

\* The steps of Work, sorted by what they change.
LEMMA WorkSteps ==
  ASSUME XTypeOK, NEW f \in Everyone, Work(f)
  PROVE  \/ \E q : Plain(f, q)
         \/ f \in Tasks /\ (E!Enqueue(f) \/ E!Count(f))
         \/ /\ f \in Consumers
            /\ \/ E!Start(f) \/ E!SetRunning(f) \/ E!Leave(f)
               \/ (jobs # {} /\ E!Pop(f)) \/ E!Run(f) \/ E!Uncount(f)
<1>1. CASE E!Lock(f) \/ (f = Main /\ E!CallJoin)
  BY <1>1, PlainSteps
<1>2. CASE f \in Tasks /\ E!Enqueue(f)
  BY <1>2
<1>3. CASE E!Step(f)
  BY <1>3, PlainSteps DEF E!Step
<1> QED
  BY <1>1, <1>2, <1>3 DEF Work

\* Whatever the program, the types, the places of the jobs and _pending are right.
LEMMA WorkKeeps ==
  ASSUME XTypeOK, Held, Balance, NEW f \in Everyone, Work(f)
  PROVE  XTypeOK' /\ Held' /\ Balance'
<1>1. CASE \E q : Plain(f, q)
  <2>1. PICK q : Plain(f, q)
    BY <1>1
  <2> QED
    BY <2>1, PlainKeeps, SameBalance DEF Plain
<1>2. CASE f \in Tasks /\ (E!Enqueue(f) \/ E!Count(f))
  BY <1>2, EnqueueHeld, EnqueueBalance, CountHeld, CountBalance
<1>3. CASE f \in Consumers /\ (E!Start(f) \/ E!SetRunning(f) \/ E!Leave(f))
  <2>1. pending' = pending
    BY <1>3 DEF E!Start, E!SetRunning, E!Leave
  <2> QED
    BY <1>3, <2>1, ComeAndGo, SameBalance
<1>4. CASE f \in Consumers /\ jobs # {} /\ E!Pop(f)
  <2>1. pending' = pending
    BY <1>4 DEF E!Pop
  <2> QED
    BY <1>4, <2>1, PopHeld, SameBalance
<1>5. CASE f \in Consumers /\ E!Run(f)
  <2>1. pending' = pending
    BY <1>5 DEF E!Run
  <2> QED
    BY <1>5, <2>1, RunHeld, SameBalance
<1>6. CASE f \in Consumers /\ E!Uncount(f)
  BY <1>6, UncountHeld, UncountBalance
<1> QED
  BY <1>1, <1>2, <1>3, <1>4, <1>5, <1>6, WorkSteps

LEMMA WorkInit == ASSUME MainInit PROVE XTypeOK /\ Held /\ Balance
<1> USE Roles
<1>1. /\ jobs = {} /\ ran = {} /\ running = FALSE /\ pending = 0
      /\ waiting = {} /\ woken = {} /\ job = [c \in Consumers |-> None]
      /\ xpc \in [Everyone -> {"push", "join", "start"}]
      /\ \A k \in Tasks : xpc[k] = "push"
      /\ \A c \in Consumers : xpc[c] = "start"
      /\ xpc[Main] = "join"
  BY DEF MainInit, E!Init, E!MonitorInit, Everyone, E!Everyone
<1>2. XTypeOK
  <2>1. xpc \in [Everyone -> TaskPlaces \cup ConsumerPlaces \cup MainPlaces]
    <3>1. {"push", "join", "start"} \subseteq TaskPlaces \cup ConsumerPlaces \cup MainPlaces
      BY DEF TaskPlaces, ConsumerPlaces, MainPlaces
    <3> QED BY <1>1, <3>1
  <2>2. "push" \in TaskPlaces /\ "start" \in ConsumerPlaces /\ "join" \in MainPlaces
    BY DEF TaskPlaces, ConsumerPlaces, MainPlaces
  <2>3. pending \in 0 .. CountMax
    BY <1>1, ProgramAssumption
  <2>4. job \in [Consumers -> Tasks \cup {None}]
    BY <1>1
  <2> QED
    BY <1>1, <2>1, <2>2, <2>3, <2>4 DEF XTypeOK
<1>3. \A c \in Consumers : job[c] = None /\ xpc[c] = "start"
  BY <1>1
<1>4. "start" \notin Holding
  BY DEF Holding
<1>5. Held
  BY <1>1, <1>3, <1>4 DEF Held
<1>6. E!Uncounted = {} /\ E!Unfinished = {}
  BY <1>1, <1>3 DEF E!Uncounted, E!Unfinished
<1>7. E!Cardinality({}) = 0
  BY FS_EmptySet DEF E!Cardinality, Cardinality
<1>8. 0 + 0 = 0 + 0 * (CountMax + 1)
  BY ProgramAssumption
<1>9. Balance
  BY <1>1, <1>6, <1>7, <1>8 DEF Balance
<1> QED
  BY <1>2, <1>5, <1>9

JobsInv == XTypeOK /\ Held /\ Balance

LEMMA JobsStep == ASSUME JobsInv, [MainNext]_program PROVE JobsInv'
<1>1. CASE UNCHANGED executor
  <2>1. XTypeOK' /\ Held'
    BY <1>1 DEF JobsInv, executor, XTypeOK, Held
  <2>2. E!Uncounted' = E!Uncounted /\ E!Unfinished' = E!Unfinished /\ pending' = pending
    BY <1>1 DEF executor, E!Uncounted, E!Unfinished
  <2> QED
    BY <2>1, <2>2, SameBalance DEF JobsInv
<1>2. CASE \E f \in Everyone : Work(f)
  BY <1>2, WorkKeeps DEF JobsInv
<1> QED
  BY <1>1, <1>2, ProgramSteps

\* _pending is the number of jobs, whatever the number of jobs and the width of the
\* counter, and whether or not the counter has wrapped around (executor.hpp: push counts
\* a job after it has queued it, a consumer may have run it by then).
THEOREM PendingIsExact == MainSpec => []PendingExact
<1>1. MainInit => JobsInv
  BY WorkInit DEF JobsInv
<1>2. JobsInv /\ [MainNext]_program => JobsInv'
  BY JobsStep
<1>3. JobsInv => PendingExact
  <2> SUFFICES ASSUME JobsInv PROVE PendingExact
    OBVIOUS
  <2>1. PICK a, b \in Nat : /\ a = E!Cardinality(E!Uncounted)
                            /\ b = E!Cardinality(E!Unfinished)
    BY Sets
  <2>2. PICK m \in Int : pending + a = b + m * (CountMax + 1)
    BY <2>1 DEF JobsInv, Balance
  <2>3. PICK p \in Nat : p = pending + a
    BY DEF JobsInv, XTypeOK
  <2>4. CountMax + 1 \in Nat \ {0}
    BY ProgramAssumption
  <2>5. p % (CountMax + 1) = b % (CountMax + 1)
    BY <2>2, <2>3, <2>4, SameRemainder
  <2> QED
    BY <2>1, <2>3, <2>5 DEF PendingExact, E!PendingExact
<1> QED
  BY <1>1, <1>2, <1>3, PTL DEF MainSpec

-----------------------------------------------------------------------------
(* The mutex, _running_count and who sleeps, when a uint32_t is wide enough *)

\* There are no more jobs and no more consumers than a uint32_t counts.
Fits == Cardinality(Tasks) <= CountMax /\ Cardinality(Consumers) <= CountMax

LEMMA WorkMoves ==
  ASSUME XTypeOK, Held, NEW f \in Everyone, Work(f)
  PROVE  \E q : Move(f, q)
BY WorkSteps, EnqueueHeld, CountHeld, ComeAndGo, PopHeld, RunHeld, UncountHeld DEF Plain

LEMMA MoveMonitored ==
  ASSUME XTypeOK, Monitored, NEW f, NEW q, Move(f, q)
  PROVE  Monitored'
<1> USE Roles
<1>1. \A g \in Everyone : xpc'[g] = IF g = f THEN q ELSE xpc[g]
  BY DEF Move, XTypeOK
<1>2. f \in Everyone /\ \A g \in Everyone : owner = g <=> xpc[g] \in Inside
  BY DEF Move, Monitored
<1>3. SUFFICES ASSUME NEW g \in Everyone PROVE owner' = g <=> xpc'[g] \in Inside
  BY DEF Monitored
<1>4. CASE g = f
  BY <1>1, <1>2, <1>4 DEF Move
<1>5. CASE g # f
  BY <1>1, <1>2, <1>5 DEF Move
<1> QED
  BY <1>4, <1>5

\* The consumers between start and its end: one more or one less.
LEMMA PresentSet ==
  /\ IsFiniteSet(Consumers) /\ Cardinality(Consumers) \in Nat
  /\ \A S \in SUBSET Consumers :
       /\ IsFiniteSet(S) /\ Cardinality(S) \in Nat /\ Cardinality(S) <= Cardinality(Consumers)
       /\ \A c \in Consumers \ S :
            /\ Cardinality(S \cup {c}) = Cardinality(S) + 1
            /\ Cardinality(S) < Cardinality(Consumers)
       /\ \A c \in S : Cardinality(S \ {c}) = Cardinality(S) - 1
<1>1. IsFiniteSet(Consumers)
  BY ProgramAssumption
<1>2. SUFFICES ASSUME NEW S \in SUBSET Consumers
      PROVE  /\ IsFiniteSet(S) /\ Cardinality(S) \in Nat /\ Cardinality(S) <= Cardinality(Consumers)
             /\ \A c \in Consumers \ S :
                  /\ Cardinality(S \cup {c}) = Cardinality(S) + 1
                  /\ Cardinality(S) < Cardinality(Consumers)
             /\ \A c \in S : Cardinality(S \ {c}) = Cardinality(S) - 1
  BY <1>1, FS_CardinalityType
<1>3. IsFiniteSet(S) /\ Cardinality(S) <= Cardinality(Consumers)
      /\ Cardinality(S) \in Nat /\ Cardinality(Consumers) \in Nat
  BY <1>1, FS_Subset, FS_CardinalityType
<1>4. \A c \in Consumers \ S : Cardinality(S \cup {c}) = Cardinality(S) + 1
  BY <1>3, FS_AddElement
<1>5. \A c \in S : Cardinality(S \ {c}) = Cardinality(S) - 1
  BY <1>3, FS_RemoveElement
<1>6. ASSUME NEW c \in Consumers \ S
      PROVE  Cardinality(S) < Cardinality(Consumers)
  <2>1. S \cup {c} \subseteq Consumers
    OBVIOUS
  <2>2. Cardinality(S \cup {c}) <= Cardinality(Consumers)
    BY <1>1, <2>1, FS_Subset
  <2> QED BY <1>3, <1>4, <2>2
<1> QED
  BY <1>3, <1>4, <1>5, <1>6

LEMMA WorkRunning ==
  ASSUME Fits, XTypeOK, Held, Running, NEW f \in Everyone, Work(f)
  PROVE  Running'
<1> USE Roles
<1>0. Present \in SUBSET Consumers
  BY DEF Present
<1>1. CASE \E q : Plain(f, q)
  <2>1. PICK q : Plain(f, q)
    BY <1>1
  <2> QED
    BY <2>1, PlainKeeps DEF Plain, Running
<1>2. ASSUME UNCHANGED runningCount, NEW q, Move(f, q),
             f \in Consumers => xpc[f] \notin Outside /\ q \notin Outside
      PROVE  Running'
  <2>1. \A c \in Consumers : xpc'[c] = IF c = f THEN q ELSE xpc[c]
    BY <1>2 DEF Move, XTypeOK
  <2>2. \A c \in Consumers : xpc'[c] \in Outside <=> xpc[c] \in Outside
    BY <1>2, <2>1
  <2>3. Present' = Present
    BY <2>2 DEF Present, Outside
  <2> QED BY <1>2, <2>3 DEF Running
<1>3. CASE f \in Tasks /\ E!Enqueue(f)
  BY <1>2, <1>3, EnqueueHeld DEF E!Enqueue
<1>4. CASE f \in Tasks /\ E!Count(f)
  BY <1>2, <1>4, CountHeld DEF E!Count
<1>5. CASE f \in Consumers /\ E!SetRunning(f)
  <2>1. Move(f, "loop") /\ xpc[f] = "set" /\ runningCount' = runningCount
    BY <1>5 DEF E!SetRunning, E!Goto, E!monitor, Move, Inside, ConsumerPlaces
  <2> QED BY <1>2, <2>1 DEF Outside
<1>6. CASE f \in Consumers /\ jobs # {} /\ E!Pop(f)
  <2>1. Move(f, "run") /\ xpc[f] = "pop" /\ runningCount' = runningCount
    BY <1>6, PopHeld DEF E!Pop, E!Goto
  <2> QED BY <1>2, <2>1 DEF Outside
<1>7. CASE f \in Consumers /\ E!Run(f)
  <2>1. PICK q \in {"stop lock", "count"} : Move(f, q)
    BY <1>7, RunHeld
  <2>2. xpc[f] = "run" /\ runningCount' = runningCount
    BY <1>7 DEF E!Run, E!Goto
  <2> QED BY <1>2, <2>1, <2>2 DEF Outside
<1>8. CASE f \in Consumers /\ E!Uncount(f)
  <2>1. Move(f, "pop") /\ xpc[f] = "count" /\ runningCount' = runningCount
    BY <1>8, UncountHeld DEF E!Uncount, E!Goto
  <2> QED BY <1>2, <2>1 DEF Outside
<1>9. CASE f \in Consumers /\ E!Start(f)
  <2>1. xpc[f] = "start" /\ xpc' = [xpc EXCEPT ![f] = "set"] /\ runningCount' = E!Plus(runningCount)
    BY <1>9 DEF E!Start, E!Goto
  <2>2. \A c \in Consumers : xpc'[c] = IF c = f THEN "set" ELSE xpc[c]
    BY <2>1 DEF XTypeOK
  <2>3. f \in Consumers \ Present /\ Present' = Present \cup {f}
    BY <1>9, <2>1, <2>2 DEF Present
  <2>a. /\ Cardinality(Present) \in Nat /\ Cardinality(Consumers) \in Nat
        /\ Cardinality(Present) < Cardinality(Consumers)
    BY <1>0, <2>3, PresentSet
  <2>b. Cardinality(Consumers) <= CountMax /\ CountMax \in Nat
    BY ProgramAssumption DEF Fits
  <2>4. PICK n \in Nat : n = Cardinality(Present) /\ n < CountMax
    BY <2>a, <2>b
  <2>5. E!Plus(n) = n + 1
    BY <2>4, PlusMinus, ProgramAssumption
  <2>6. Cardinality(Present') = n + 1
    BY <1>0, <2>3, <2>4, PresentSet
  <2> QED
    BY <2>1, <2>4, <2>5, <2>6 DEF Running
<1>a. CASE f \in Consumers /\ E!Leave(f)
  <2>1. xpc[f] = "leave" /\ xpc' = [xpc EXCEPT ![f] = "left"] /\ runningCount' = runningCount - 1
    BY <1>a DEF E!Leave, E!Goto
  <2>2. \A c \in Consumers : xpc'[c] = IF c = f THEN "left" ELSE xpc[c]
    BY <2>1 DEF XTypeOK
  <2>3. f \in Present /\ Present' = Present \ {f}
    BY <1>a, <2>1, <2>2 DEF Present
  <2>4. Cardinality(Present') = Cardinality(Present) - 1
    BY <1>0, <2>3, PresentSet
  <2> QED
    BY <2>1, <2>4 DEF Running
<1> QED
  BY <1>1, <1>3, <1>4, <1>5, <1>6, <1>7, <1>8, <1>9, <1>a, WorkSteps

NotifierPlaces == {"push lock", "push count", "push notify", "stop lock", "stop notify",
                   "leave lock", "leave"}

\* When _pending is zero and a job is not done, its push has still to count it.
LEMMA ZeroMeansUncounted ==
  ASSUME Fits, XTypeOK, Balance, E!Unfinished # {}, pending = 0
  PROVE  E!Uncounted # {}
<1> SUFFICES ASSUME E!Uncounted = {} PROVE FALSE
  OBVIOUS
<1>1. E!Cardinality(E!Uncounted) = 0
  BY FS_EmptySet DEF E!Cardinality, Cardinality
<1>2. PICK b \in Nat : b = E!Cardinality(E!Unfinished)
  BY Sets
<1>3. b > 0 /\ b <= CountMax
  <2>1. IsFiniteSet(Tasks) /\ E!Unfinished \subseteq Tasks /\ b = Cardinality(E!Unfinished)
    BY <1>2, Sets, ConstantsAssumption DEF E!Cardinality, Cardinality
  <2>2. b <= Cardinality(Tasks) /\ IsFiniteSet(E!Unfinished)
    BY <2>1, FS_Subset
  <2>3. b # 0
    BY <2>1, <2>2, FS_EmptySet
  <2>4. Cardinality(Tasks) \in Nat /\ Cardinality(Tasks) <= CountMax /\ CountMax \in Nat
    BY <2>1, FS_CardinalityType, ProgramAssumption DEF Fits
  <2> QED
    BY <1>2, <2>2, <2>3, <2>4
<1>4. PICK m \in Int : 0 + 0 = b + m * (CountMax + 1)
  BY <1>1, <1>2 DEF Balance
<1>5. PICK w \in Nat : w = CountMax + 1 /\ w > b
  BY <1>3, ProgramAssumption
<1>6. m * w = -b
  <2>1. 0 + 0 = b + m * w
    BY <1>4, <1>5
  <2>2. PICK x \in Int : x = m * w
    BY <1>5
  <2>3. 0 = b + x
    BY <2>1, <2>2
  <2> QED BY <2>2, <2>3
<1>7. CASE m >= 0
  <2>1. m * w >= 0
    BY <1>5, <1>7
  <2> QED BY <1>3, <1>6, <2>1
<1>8. CASE m < 0
  <2>1. m * w <= -w
    BY <1>5, <1>8
  <2> QED BY <1>3, <1>5, <1>6, <2>1
<1> QED
  BY <1>7, <1>8

\* A step that ends with notify_all leaves nobody asleep, and nobody else is inside.
LEMMA NotifyAsleep ==
  ASSUME XTypeOK, Monitored, NEW f, NEW q, Move(f, q), owner = f,
         q # "wait pending", waiting' = {}
  PROVE  Asleep'
<1> USE Roles
<1>1. SleepsForAReason'
  BY DEF SleepsForAReason, E!SleepsForAReason
<1>2. ASSUME NEW c \in Consumers PROVE xpc'[c] # "wait pending"
  <2>1. xpc'[c] = IF c = f THEN q ELSE xpc[c]
    BY DEF Move, XTypeOK
  <2>2. "wait pending" \in Inside
    BY DEF Inside
  <2>3. c # f => owner # c
    OBVIOUS
  <2> QED
    BY <2>1, <2>2, <2>3 DEF Monitored
<1> QED
  BY <1>1, <1>2 DEF Asleep

\* A step after which somebody is to notify.
LEMMA NotifierAsleep ==
  ASSUME E!Notifiers' # {}
  PROVE  Asleep'
BY DEF Asleep, SleepsForAReason, E!SleepsForAReason

\* A step that takes nobody's reason away.
LEMMA OtherAsleep ==
  ASSUME XTypeOK, Asleep, NEW f, NEW q, Move(f, q),
         xpc[f] \in NotifierPlaces => q \in NotifierPlaces,
         waiting' = waiting, pending' = pending, running => running',
         runningCount # 0 => runningCount' # 0,
         q = "wait pending" => running
  PROVE  Asleep'
<1> USE Roles
<1>1. f \in Everyone /\ \A g \in Everyone : xpc'[g] = IF g = f THEN q ELSE xpc[g]
  BY DEF Move, XTypeOK
<1>2. E!Notifiers # {} => E!Notifiers' # {}
  BY <1>1 DEF E!Notifiers, NotifierPlaces, Everyone
<1>3. SleepsForAReason'
  BY <1>2 DEF Asleep, SleepsForAReason, E!SleepsForAReason
<1>4. \A c \in Consumers : xpc'[c] = "wait pending" => running' \/ E!Notifiers' # {}
  BY <1>1, <1>2 DEF Asleep
<1> QED
  BY <1>3, <1>4 DEF Asleep

\* A step by which a fiber goes to sleep.
LEMMA WaitAsleep ==
  ASSUME XTypeOK, Asleep, NEW f \in Everyone, Move(f, "blocked"),
         xpc[f] \notin NotifierPlaces,
         waiting' = waiting \cup {f}, UNCHANGED <<running, runningCount, pending>>,
         \/ f = Main /\ (runningCount # 0 \/ pending # 0)
         \/ f # Main /\ pending = 0 /\ (running \/ E!Notifiers # {})
  PROVE  Asleep'
<1> USE Roles
<1>1. \A g \in Everyone : xpc'[g] = IF g = f THEN "blocked" ELSE xpc[g]
  BY DEF Move, XTypeOK
<1>2. E!Notifiers # {} => E!Notifiers' # {}
  BY <1>1 DEF E!Notifiers, NotifierPlaces, Everyone
<1>3. SleepsForAReason'
  BY <1>2 DEF Asleep, SleepsForAReason, E!SleepsForAReason
<1>4. \A c \in Consumers : xpc'[c] = "wait pending" => running' \/ E!Notifiers' # {}
  BY <1>1, <1>2 DEF Asleep
<1> QED
  BY <1>3, <1>4 DEF Asleep

LEMMA WorkAsleep ==
  ASSUME Fits, XTypeOK, Held, Balance, Monitored, Running, Asleep, Running',
         NEW f \in Everyone, Work(f)
  PROVE  Asleep'
<1> USE Roles
<1>1. CASE E!Lock(f)
  <2>1. PICK q : Plain(f, q) /\ (xpc[f] \in NotifierPlaces => q \in NotifierPlaces) /\ q # "wait pending"
    <3>1. PICK q : Plain(f, q)
      BY <1>1, LockIsPlain
    <3>2. xpc'[f] = q
      BY <3>1 DEF Plain, Move, XTypeOK
    <3>3. (xpc[f] \in NotifierPlaces => xpc'[f] \in NotifierPlaces) /\ xpc'[f] # "wait pending"
      BY <1>1 DEF E!Lock, E!Goto, NotifierPlaces, XTypeOK
    <3> QED BY <3>1, <3>2, <3>3
  <2>2. waiting' = waiting
    BY <1>1 DEF E!Lock, E!LockBy
  <2> QED BY <2>1, <2>2, OtherAsleep DEF Plain
<1>2. CASE E!Woken(f)
  <2>1. PICK q : Plain(f, q)
    BY <1>2, PlainSteps
  <2>2. xpc[f] = "blocked" /\ q \in {"join lock", "wait lock"} /\ waiting' = waiting
    BY <1>2, <2>1 DEF E!Woken, E!WokenBy, E!Goto, Plain, Move, XTypeOK
  <2>3. xpc[f] \notin NotifierPlaces /\ q # "wait pending"
    BY <2>2 DEF NotifierPlaces
  <2> QED BY <2>1, <2>2, <2>3, OtherAsleep DEF Plain
<1>3. CASE f \in Tasks /\ E!Pushed(f)
  <2>1. PICK q : Plain(f, q)
    BY <1>3, PlainSteps
  <2>2. owner = f /\ waiting' = {} /\ q = "pushed"
    BY <1>3, <2>1 DEF E!Pushed, E!NotifyAllBy, E!Goto, Plain, Move, XTypeOK
  <2> QED BY <2>1, <2>2, NotifyAsleep DEF Plain
<1>4. CASE f \in Consumers /\ E!StopNotify(f)
  <2>1. PICK q : Plain(f, q)
    BY <1>4, PlainSteps
  <2>2. owner = f /\ waiting' = {} /\ q = "count"
    BY <1>4, <2>1 DEF E!StopNotify, E!NotifyAllBy, E!Goto, Plain, Move, XTypeOK
  <2> QED BY <2>1, <2>2, NotifyAsleep DEF Plain
<1>5. CASE f \in Consumers /\ E!Leave(f)
  <2>1. PICK q : Move(f, q)
    BY <1>5, ComeAndGo
  <2>2. owner = f /\ waiting' = {} /\ q = "left"
    BY <1>5, <2>1 DEF E!Leave, E!NotifyAllBy, E!Goto, Move, XTypeOK
  <2> QED BY <2>1, <2>2, NotifyAsleep
<1>6. CASE f \in Tasks /\ (E!Enqueue(f) \/ E!Count(f))
  <2>1. PICK q \in {"push lock", "push notify"} : Move(f, q)
    BY <1>6, EnqueueHeld, CountHeld
  <2>2. xpc'[f] = q /\ q \in NotifierPlaces
    BY <2>1 DEF Move, XTypeOK, NotifierPlaces
  <2>3. f \in E!Notifiers'
    BY <2>2 DEF E!Notifiers, NotifierPlaces, Everyone
  <2> QED BY <2>3, NotifierAsleep
<1>7. CASE f \in Consumers /\ (E!LoopRunning(f) \/ E!LoopPending(f) \/ (jobs = {} /\ E!Pop(f)))
  <2>1. PICK q : Plain(f, q)
    BY <1>7, PlainSteps
  <2>2. /\ xpc[f] \in {"loop", "loop pending", "pop"} /\ waiting' = waiting
        /\ q \in {"wait lock", "loop pending", "leave lock", "loop"}
    BY <1>7, <2>1 DEF E!LoopRunning, E!LoopPending, E!Pop, E!Goto, E!monitor, Plain, Move, XTypeOK
  <2>3. xpc[f] \notin NotifierPlaces /\ q # "wait pending"
    BY <2>2 DEF NotifierPlaces
  <2> QED BY <2>1, <2>2, <2>3, OtherAsleep DEF Plain
<1>8. CASE f \in Consumers /\ E!WaitRunning(f)
  <2>1. PICK q : Plain(f, q)
    BY <1>8, PlainSteps
  <2>2. /\ xpc[f] = "wait running" /\ waiting' = waiting
        /\ q = "pop" \/ (q = "wait pending" /\ running)
    BY <1>8, <2>1 DEF E!WaitRunning, E!UnlockBy, E!Goto, E!monitor, Plain, Move, XTypeOK
  <2>3. xpc[f] \notin NotifierPlaces
    BY <2>2 DEF NotifierPlaces
  <2> QED BY <2>1, <2>2, <2>3, OtherAsleep DEF Plain
<1>9. CASE f \in Consumers /\ E!WaitPending(f)
  <2>1. PICK q : Plain(f, q)
    BY <1>9, PlainSteps
  <2>2. /\ xpc[f] = "wait pending"
        /\ \/ q = "pop" /\ waiting' = waiting
           \/ q = "blocked" /\ pending = 0 /\ waiting' = waiting \cup {f}
    BY <1>9, <2>1 DEF E!WaitPending, E!UnlockBy, E!WaitBy, E!Goto, Plain, Move, XTypeOK
  <2>3. xpc[f] \notin NotifierPlaces /\ f # Main /\ (running \/ E!Notifiers # {})
    BY <1>9, <2>2 DEF NotifierPlaces, Asleep
  <2>4. CASE q = "pop"
    BY <2>1, <2>2, <2>3, <2>4, OtherAsleep DEF Plain
  <2>5. CASE q = "blocked"
    BY <2>1, <2>2, <2>3, <2>5, WaitAsleep DEF Plain
  <2> QED BY <2>2, <2>4, <2>5
<1>a. CASE f = Main /\ (E!CallJoin \/ E!JoinRunning \/ E!JoinPending)
  <2>1. PICK q : Plain(f, q)
    BY <1>a, PlainSteps
  <2>2. /\ xpc[f] \in {"join", "join running", "join pending"}
        /\ \/ q \in {"join lock", "join pending", "joined"} /\ waiting' = waiting
           \/ /\ q = "blocked" /\ waiting' = waiting \cup {f}
              /\ runningCount # 0 \/ pending # 0
    BY <1>a, <2>1 DEF E!CallJoin, E!JoinRunning, E!JoinPending, E!UnlockBy, E!WaitBy,
       E!Goto, E!monitor, Plain, Move, XTypeOK
  <2>3. xpc[f] \notin NotifierPlaces
    BY <2>2 DEF NotifierPlaces
  <2>4. CASE q = "blocked"
    BY <1>a, <2>1, <2>2, <2>3, <2>4, WaitAsleep DEF Plain
  <2>5. CASE q # "blocked" /\ q # "wait pending"
    BY <2>1, <2>2, <2>3, <2>5, OtherAsleep DEF Plain
  <2> QED BY <2>2, <2>4, <2>5
<1>b. CASE f \in Consumers /\ (E!Start(f) \/ E!SetRunning(f))
  <2>1. PICK q : Move(f, q)
    BY <1>b, ComeAndGo
  <2>2. /\ xpc[f] \in {"start", "set"} /\ q \in {"set", "loop"} /\ waiting' = waiting
        /\ pending' = pending /\ (running => running')
        /\ E!SetRunning(f) => runningCount' = runningCount
    BY <1>b, <2>1 DEF E!Start, E!SetRunning, E!Goto, E!monitor, Move, XTypeOK
  <2>3. xpc[f] \notin NotifierPlaces /\ q # "wait pending"
    BY <2>2 DEF NotifierPlaces
  <2>4. E!Start(f) => f \in Present'
    BY <1>b DEF E!Start, E!Goto, Present, XTypeOK
  <2>5. f \in Present' => runningCount' # 0
    <3>1. Present' \in SUBSET Consumers
      BY DEF Present
    <3> QED
      BY <3>1, PresentSet, FS_EmptySet DEF Running
  <2> QED BY <1>b, <2>1, <2>2, <2>3, <2>4, <2>5, OtherAsleep
<1>c. CASE f \in Consumers /\ jobs # {} /\ E!Pop(f)
  <2>1. /\ Move(f, "run") /\ xpc[f] = "pop" /\ waiting' = waiting
        /\ UNCHANGED <<running, runningCount, pending>>
    BY <1>c, PopHeld DEF E!Pop, E!Goto, E!monitor
  <2>2. xpc[f] \notin NotifierPlaces
    BY <2>1 DEF NotifierPlaces
  <2> QED BY <2>1, <2>2, OtherAsleep
<1>d. CASE f \in Consumers /\ E!Run(f)
  <2>1. PICK q \in {"stop lock", "count"} : Move(f, q)
    BY <1>d, RunHeld
  <2>2. CASE q = "stop lock"
    <3>1. f \in E!Notifiers'
      BY <2>1, <2>2 DEF E!Notifiers, Move, XTypeOK, Everyone
    <3> QED BY <3>1, NotifierAsleep
  <2>3. CASE q = "count"
    <3>1. /\ xpc[f] = "run" /\ waiting' = waiting
          /\ UNCHANGED <<running, runningCount, pending>>
      BY <1>d, <2>1, <2>3 DEF E!Run, E!Goto, E!monitor, Move, XTypeOK
    <3>2. xpc[f] \notin NotifierPlaces
      BY <3>1 DEF NotifierPlaces
    <3> QED BY <2>1, <2>3, <3>1, <3>2, OtherAsleep
  <2> QED BY <2>2, <2>3
<1>e. CASE f \in Consumers /\ E!Uncount(f)
  <2> SUFFICES ASSUME E!Notifiers' = {} PROVE Asleep'
    BY NotifierAsleep
  <2>1. /\ Move(f, "pop") /\ xpc[f] = "count" /\ waiting' = waiting
        /\ UNCHANGED <<running, runningCount>>
    BY <1>e, UncountHeld DEF E!Uncount, E!Goto, E!monitor
  <2>2. \A g \in Everyone : xpc'[g] = IF g = f THEN "pop" ELSE xpc[g]
    BY <2>1 DEF Move, XTypeOK
  <2>3. E!Notifiers = {}
    BY <2>1, <2>2 DEF E!Notifiers, Everyone
  <2>4. E!Uncounted = {}
    BY <2>3 DEF E!Uncounted, E!Notifiers, E!Everyone
  <2>5. pending # 0
    BY <1>e, <2>4, UncountHeld, ZeroMeansUncounted
  <2>6. runningCount # 0
    <3>1. Present \in SUBSET Consumers /\ f \in Present
      BY <1>e, <2>1 DEF Present
    <3> QED
      BY <3>1, PresentSet, FS_EmptySet DEF Running
  <2>7. SleepsForAReason'
    BY <2>1, <2>3, <2>5, <2>6 DEF Asleep, SleepsForAReason, E!SleepsForAReason
  <2>8. \A c \in Consumers : xpc'[c] = "wait pending" => running'
    BY <2>1, <2>2, <2>3 DEF Asleep
  <2> QED BY <2>7, <2>8 DEF Asleep
<1> QED
  BY <1>1, <1>2, <1>3, <1>4, <1>5, <1>6, <1>7, <1>8, <1>9, <1>a, <1>b, <1>c, <1>d, <1>e
     DEF Work, E!Step

SleepInv == JobsInv /\ Monitored /\ Running /\ Asleep

LEMMA SleepInit == ASSUME MainInit PROVE SleepInv
<1> USE Roles
<1>1. /\ waiting = {} /\ owner = None /\ runningCount = 0
      /\ \A g \in Everyone : xpc[g] \in {"push", "join", "start"}
      /\ \A c \in Consumers : xpc[c] = "start"
  BY DEF MainInit, E!Init, E!MonitorInit, Everyone, E!Everyone
<1>2. Present = {}
  BY <1>1 DEF Present
<1>3. Running
  BY <1>1, <1>2, FS_EmptySet DEF Running
<1>4. \A g \in Everyone : owner # g /\ xpc[g] \notin Inside
  BY <1>1 DEF Inside
<1>5. Monitored
  BY <1>4 DEF Monitored
<1>6. Asleep
  BY <1>1 DEF Asleep, SleepsForAReason, E!SleepsForAReason
<1> QED
  BY <1>3, <1>5, <1>6, WorkInit DEF SleepInv, JobsInv

LEMMA SleepStep ==
  ASSUME Fits, SleepInv, [MainNext]_program
  PROVE  SleepInv'
<1>1. JobsInv'
  BY JobsStep DEF SleepInv
<1>2. CASE UNCHANGED executor
  <2>1. Present' = Present /\ E!Notifiers' = E!Notifiers
    BY <1>2 DEF executor, Present, E!Notifiers
  <2>2. Monitored' /\ Running'
    BY <1>2, <2>1 DEF SleepInv, executor, Monitored, Running
  <2>3. Asleep'
    BY <1>2, <2>1 DEF SleepInv, executor, Asleep, SleepsForAReason, E!SleepsForAReason
  <2> QED BY <1>1, <2>2, <2>3 DEF SleepInv
<1>3. CASE \E f \in Everyone : Work(f)
  <2>1. PICK f \in Everyone : Work(f)
    BY <1>3
  <2>2. PICK q : Move(f, q)
    BY <2>1, WorkMoves DEF SleepInv, JobsInv
  <2>3. Monitored'
    BY <2>2, MoveMonitored DEF SleepInv, JobsInv
  <2>4. Running'
    BY <2>1, WorkRunning DEF SleepInv, JobsInv
  <2>5. Asleep'
    BY <2>1, <2>4, WorkAsleep DEF SleepInv, JobsInv
  <2> QED BY <1>1, <2>3, <2>4, <2>5 DEF SleepInv
<1> QED
  BY <1>2, <1>3, ProgramSteps

\* No fiber sleeps in join or start without a reason and without somebody on the way to
\* notify_all: no wakeup is lost, although _pending and _running change outside the mutex
\* (executor.hpp).
THEOREM NoWakeupIsLost == ASSUME Fits PROVE MainSpec => []SleepsForAReason
<1>1. Fits
  OBVIOUS
<1>2. MainInit => SleepInv
  BY SleepInit
<1>3. SleepInv /\ [MainNext]_program => SleepInv'
  BY <1>1, SleepStep
<1>4. SleepInv => SleepsForAReason
  BY DEF SleepInv, Asleep
<1> QED
  BY <1>2, <1>3, <1>4, PTL DEF MainSpec

-----------------------------------------------------------------------------
(* The counter in the program, and what the program does in which order *)

\* The program is a program of the counter.
LEMMA CounterSteps ==
  ASSUME [MainNext]_program
  PROVE  [Next]_vars
<1> USE Roles
<1>1. CASE UNCHANGED program \/ MainFinished
  BY <1>1 DEF program, MainFinished
<1>2. ASSUME NEW f \in Everyone, FiberStep(f)
      PROVE  [Next]_vars
  <2>1. CASE f = Main /\ (MainStep \/ WaiterGoesOn)
    BY <2>1 DEF MainStep, WaiterGoesOn, MainWait, MainReset, MainJoin, MainPush, Next
  <2>2. CASE f \in Tasks /\ TaskGoesOn(f)
    BY <2>2 DEF TaskGoesOn, TaskEnqueue, TaskReturn, TaskPush, Next, TaskStep
  <2>3. CASE ExecutorLock(f) \/ ExecutorStep(f)
    BY <2>3 DEF ExecutorLock, ExecutorStep
  <2> QED
    BY <1>2, <2>1, <2>2, <2>3 DEF FiberStep
<1> QED
  BY <1>1, <1>2 DEF MainNext, Everyone

\* What is proved of the counter holds in this program (main.cpp:215).
THEOREM ProgramCounts == MainSpec => Spec
<1>1. MainInit => Init
  BY DEF MainInit
<1>2. [MainNext]_program => [Next]_vars
  BY CounterSteps
<1> QED
  BY <1>1, <1>2, PTL DEF MainSpec, Spec

\* In the program wait is for all the tasks of the round, those pushed by tasks included
\* (main.cpp:227), in the first round always, in the second unless the reset between
\* them finds a task in done, ...
THEOREM ProgramWaits == MainSpec => []WaitsForAllUntilHasty
BY WaitIsForAll, ProgramCounts

\* ... and so far the waiter is unblocked once, and only while it waits.
THEOREM ProgramUnblocks == MainSpec => []UnblocksOnceUntilHasty
BY UnblockedOnce, ProgramCounts

LEMMA OwnSets ==
  /\ Own(1) = Tasks \ (Nested \cup {Stopper}) /\ Own(2) = {Stopper}
  /\ Stopper \in Tasks /\ Stopper \notin Nested /\ Stopper \notin Parents
  /\ Nested \subseteq Tasks /\ Parents \subseteq Tasks /\ Nested \cap Parents = {}
  /\ (Nested # {} => Parents # {}) /\ Rounds = 2
BY ProgramAssumption, ConstantsAssumption DEF Own

\* Before the second round all the tasks of the first have been counted.
LEMMA FirstRoundDone ==
  ASSUME CounterInv, Ordered, waiter = "returned", NEW k \in Tasks \ {Stopper}
  PROVE  Counted(k)
<1> USE OwnSets
<1>1. round = 1 => AllDone
  BY DEF CounterInv, Inv, Last, Ordered
<1>2. CASE round = 2
  BY <1>2 DEF Ordered
<1>3. CASE round = 1 /\ k \notin Nested
  BY <1>1, <1>3 DEF AllDone, Ordered
<1>4. CASE round = 1 /\ k \in Nested
  <2>1. PICK p \in Parents : TRUE
    BY <1>4
  <2>2. Counted(p)
    BY <1>1, <1>4 DEF AllDone, Ordered
  <2>3. pc[p] \notin {"new", "queued", "run"}
    BY <2>2 DEF Counted
  <2>4. pc[k] # "new"
    BY <1>4, <2>3 DEF Ordered
  <2> QED BY <1>1, <1>4, <2>4 DEF AllDone
<1> QED
  BY <1>2, <1>3, <1>4 DEF Ordered

\* A task goes on.
LEMMA TaskOrdered ==
  ASSUME TypeOK, Ordered, NEW k \in Tasks, NEW q,
         pc' = [pc EXCEPT ![k] = q], UNCHANGED <<round, waiter, hasty, xpc>>,
         q # "new",
         k = Stopper => round = 2,
         k # Stopper /\ round = 2 => q \in {"compare", "unblock", "ended"},
         k \in Parents /\ q \notin {"queued", "run"} =>
           \A n \in Nested : pc[n] # "new",
         q \in {"new", "queued"} => xpc[k] = "push",
         q \notin {"new", "queued", "run"} => xpc[k] = "pushed"
  PROVE  Ordered'
<1> USE OwnSets
<1>1. \A j \in Tasks : pc'[j] = IF j = k THEN q ELSE pc[j]
  BY DEF TypeOK
<1>2. round' = 1 => pc'[Stopper] = "new" /\ ~hasty'
  BY <1>1 DEF Ordered
<1>3. round' = 2 => \A j \in Tasks \ {Stopper} : Counted(j)'
  BY <1>1 DEF Ordered, Counted
<1>4. waiter' # "body" => \A j \in Own(round)' : pc'[j] # "new"
  <2>1. Own(round)' = Own(round) /\ Own(round) \subseteq Tasks
    BY DEF Own, Ordered
  <2> QED BY <1>1, <2>1 DEF Ordered
<1>5. \A p \in Parents, n \in Nested : pc'[p] \in {"new", "queued", "run"} \/ pc'[n] # "new"
  BY <1>1 DEF Ordered
<1>6. \A j \in Tasks :
        /\ pc'[j] \in {"new", "queued"} => xpc'[j] = "push"
        /\ pc'[j] \notin {"new", "queued", "run"} => xpc'[j] = "pushed"
  BY <1>1 DEF Ordered
<1> QED
  BY <1>2, <1>3, <1>4, <1>5, <1>6 DEF Ordered

\* The waiter goes on.
LEMMA WaiterOrdered ==
  ASSUME Ordered, UNCHANGED <<pc, round, hasty, xpc>>, xpc[Main] = "join",
         \A k \in Own(round) : pc[k] # "new"
  PROVE  Ordered'
<1>1. \A k \in Tasks : Counted(k)' <=> Counted(k)
  BY DEF Counted
<1>2. Own(round)' = Own(round)
  BY DEF Own
<1> QED
  BY <1>1, <1>2 DEF Ordered

LEMMA ResetOrdered ==
  ASSUME CounterInv, Ordered, MainReset
  PROVE  Ordered'
<1> USE OwnSets
<1>1. /\ waiter = "returned" /\ waiter' = "body" /\ UNCHANGED <<pc, xpc>>
      /\ round < Rounds /\ round' = round + 1
  BY DEF MainReset, Reset, WaiterGoto, executor
<1>2. round = 1
  <2>1. round = 2 => FALSE
    BY <1>1
  <2> QED BY <2>1 DEF Ordered
<1>3. round' = 2
  BY <1>1, <1>2
<1>4. \A k \in Tasks \ {Stopper} : Counted(k)
  BY <1>1, FirstRoundDone
<1>5. \A k \in Tasks \ {Stopper} : Counted(k)'
  BY <1>1, <1>4 DEF Counted
<1>6. xpc'[Main] = "join"
  BY <1>1, <1>2 DEF Ordered
<1>7. round' \in {1, 2} /\ round' # 1
  BY <1>3
<1>8. waiter' = "body"
  BY <1>1
<1>9. /\ \A p \in Parents, n \in Nested : pc'[p] \in {"new", "queued", "run"} \/ pc'[n] # "new"
      /\ \A k \in Tasks :
           /\ pc'[k] \in {"new", "queued"} => xpc'[k] = "push"
           /\ pc'[k] \notin {"new", "queued", "run"} => xpc'[k] = "pushed"
  BY <1>1 DEF Ordered
<1> QED
  BY <1>5, <1>6, <1>7, <1>8, <1>9 DEF Ordered

\* A step of a task that leaves the executor alone.
LEMMA TaskStepOrdered ==
  ASSUME TypeOK, Ordered, NEW k \in Tasks,
         \/ MainPush(k) \/ TaskReturn(k)
         \/ \E p \in Tasks : TaskPush(p, k)
         \/ pc[k] # "run" /\ TaskStep(k) /\ UNCHANGED executor
  PROVE  Ordered'
<1> USE OwnSets
<1>1. CASE MainPush(k) \/ \E p \in Tasks : TaskPush(p, k)
  <2>1. /\ pc[k] = "new" /\ pc' = [pc EXCEPT ![k] = "queued"]
        /\ UNCHANGED <<round, waiter, hasty, xpc>>
        /\ k \in Own(round) \/ k \in Nested
    BY <1>1 DEF MainPush, TaskPush, Push, PushFrom, Goto, executor
  <2>2. k = Stopper => round = 2
    BY <2>1 DEF Ordered
  <2>3. k # Stopper => round # 2
    BY <2>1 DEF Ordered, Counted
  <2>4. xpc[k] = "push"
    BY <2>1 DEF Ordered
  <2> QED BY <2>1, <2>2, <2>3, <2>4, TaskOrdered
<1>2. CASE TaskReturn(k)
  <2>1. /\ pc[k] = "run" /\ pc' = [pc EXCEPT ![k] = "done"]
        /\ UNCHANGED <<round, waiter, hasty, xpc>>
        /\ xpc[k] = "pushed" /\ (k \in Parents => \A n \in Nested : pc[n] # "new")
    BY <1>2 DEF TaskReturn, Return, Goto, executor
  <2>2. k = Stopper => round = 2
    BY <2>1 DEF Ordered
  <2>3. k # Stopper => round # 2
    BY <2>1 DEF Ordered, Counted
  <2> QED BY <2>1, <2>2, <2>3, TaskOrdered
<1>3. CASE pc[k] # "run" /\ TaskStep(k) /\ UNCHANGED executor
  <2>1. UNCHANGED <<round, waiter, hasty, xpc>>
    BY <1>3 DEF TaskStep, executor, Start, Return, SeeWaiter, Increment, Compare, Unblock
  <2>2. PICK q : /\ pc' = [pc EXCEPT ![k] = q]
                 /\ \/ pc[k] = "queued" /\ q = "run"
                    \/ pc[k] = "done" /\ q = "count"
                    \/ pc[k] = "count" /\ q = "compare"
                    \/ pc[k] = "compare" /\ q \in {"unblock", "ended"}
                    \/ pc[k] = "unblock" /\ q = "ended"
    <3>1. CASE Start(k) \/ SeeWaiter(k) \/ Increment(k) \/ Unblock(k)
      BY <3>1 DEF Start, SeeWaiter, Increment, Unblock, Goto
    <3>2. CASE Compare(k)
      <4> DEFINE q == IF reg[k] = size THEN "unblock" ELSE "ended"
      <4>1. pc[k] = "compare" /\ pc' = [pc EXCEPT ![k] = q] /\ q \in {"unblock", "ended"}
        BY <3>2 DEF Compare, Goto
      <4> QED BY <4>1
    <3>3. CASE Return(k)
      BY <1>3, <3>3 DEF Return, Goto
    <3> QED BY <1>3, <3>1, <3>2, <3>3 DEF TaskStep
  <2>3. k = Stopper => round = 2
    BY <2>2 DEF Ordered
  <2>4. k # Stopper /\ round = 2 => q \in {"compare", "unblock", "ended"}
    BY <2>2 DEF Ordered, Counted
  <2>5. q \notin {"queued", "run"} => pc[k] \notin {"new", "queued", "run"}
    BY <2>2
  <2>6. /\ k \in Parents /\ q \notin {"queued", "run"} => \A n \in Nested : pc[n] # "new"
        /\ q \notin {"new", "queued", "run"} => xpc[k] = "pushed"
    BY <2>5 DEF Ordered
  <2>7. q \notin {"new", "queued"}
    BY <2>2
  <2> QED BY <2>1, <2>2, <2>3, <2>4, <2>6, <2>7, TaskOrdered
<1> QED
  BY <1>1, <1>2, <1>3

\* The executor's steps.
LEMMA WorkOrdered ==
  ASSUME XTypeOK, Held, Ordered, NEW f \in Everyone, Work(f), UNCHANGED vars
  PROVE  Ordered'
<1> USE Roles
<1>0. UNCHANGED <<pc, round, waiter, hasty>> /\ \A k \in Tasks : Counted(k)' <=> Counted(k)
  BY DEF vars, Counted
<1>o. Own(round)' = Own(round)
  BY <1>0 DEF Own
<1>1. ASSUME NEW q, Move(f, q),
             f \in Tasks => xpc[f] # "pushed" /\ q # "push",
             f \in Tasks /\ xpc[f] = "push" => pc[f] = "run",
             f = Main => xpc[f] # "join" \/ (waiter = "returned" /\ round = 2)
      PROVE  Ordered'
  <2>1. \A g \in Everyone : xpc'[g] = IF g = f THEN q ELSE xpc[g]
    BY <1>1 DEF Move, XTypeOK
  <2>2. f \in Tasks => pc[f] = "run"
    BY <1>1 DEF Ordered
  <2>3. \A k \in Tasks :
          /\ pc'[k] \in {"new", "queued"} => xpc'[k] = "push"
          /\ pc'[k] \notin {"new", "queued", "run"} => xpc'[k] = "pushed"
    BY <1>0, <2>1, <2>2 DEF Ordered
  <2>5. xpc'[Main] # "join" => waiter = "returned" /\ round = 2
    BY <1>1, <2>1 DEF Ordered
  <2> QED
    BY <1>0, <1>o, <2>3, <2>5 DEF Ordered
<1>2. CASE \E q : Plain(f, q)
  <2>1. PICK q : Plain(f, q)
    BY <1>2
  <2>2. f = Main => xpc[f] # "join" \/ (waiter = "returned" /\ round = 2)
    BY DEF Work, E!Lock, E!Step, E!Goto, E!Woken, E!JoinRunning, E!JoinPending
  <2> QED
    BY <1>1, <2>1, <2>2 DEF Plain
<1>3. CASE f \in Tasks /\ E!Enqueue(f)
  <2>1. xpc[f] = "push" /\ Move(f, "push lock")
    BY <1>3, EnqueueHeld DEF E!Enqueue, E!Goto
  <2>2. pc[f] = "run"
    BY <1>3, <2>1 DEF Work, E!Lock, E!Step, E!Goto, E!Woken, E!Count, E!Pushed
  <2> QED BY <1>1, <1>3, <2>1, <2>2
<1>4. CASE f \in Tasks /\ E!Count(f)
  <2>1. xpc[f] = "push count" /\ Move(f, "push notify")
    BY <1>4, CountHeld DEF E!Count, E!Goto
  <2> QED BY <1>1, <1>4, <2>1
<1>5. CASE f \in Consumers /\ (E!Start(f) \/ E!SetRunning(f) \/ E!Leave(f))
  <2>1. PICK q : Move(f, q)
    BY <1>5, ComeAndGo
  <2> QED BY <1>1, <1>5, <2>1
<1>6. CASE f \in Consumers /\ ((jobs # {} /\ E!Pop(f)) \/ E!Run(f) \/ E!Uncount(f))
  <2>1. PICK q \in {"run", "stop lock", "count", "pop"} : Move(f, q)
    BY <1>6, PopHeld, RunHeld, UncountHeld
  <2> QED BY <1>1, <1>6, <2>1
<1> QED
  BY <1>2, <1>3, <1>4, <1>5, <1>6, WorkSteps

LEMMA OrderedStep ==
  ASSUME CounterInv, XTypeOK, Held, Ordered, [MainNext]_program
  PROVE  Ordered'
<1> USE Roles
<1>t. TypeOK
  BY DEF CounterInv
<1>0. CASE UNCHANGED <<pc, round, waiter, hasty, xpc>>
  <2>1. (\A k \in Tasks : Counted(k)' <=> Counted(k)) /\ Own(round)' = Own(round)
    BY <1>0 DEF Counted, Own
  <2> QED BY <1>0, <2>1 DEF Ordered
<1>1. CASE UNCHANGED program \/ MainFinished
  BY <1>0, <1>1 DEF program, MainFinished, vars, executor
<1>2. ASSUME NEW f \in Everyone, FiberStep(f)
      PROVE  Ordered'
  <2>1. CASE f = Main /\ MainWait
    <3>1. /\ waiter = "body" /\ UNCHANGED <<pc, round, hasty, xpc>>
          /\ \A k \in Own(round) : pc[k] # "new"
      BY <2>1 DEF MainWait, Wait, WaiterGoto, executor
    <3> QED BY <3>1, WaiterOrdered DEF Ordered
  <2>2. CASE f = Main /\ WaiterGoesOn
    <3>1. waiter \in {"store", "block"} /\ UNCHANGED <<pc, round, hasty, xpc>>
      BY <2>2 DEF WaiterGoesOn, WaiterStep, StoreFiber, Resume, WaiterGoto, executor
    <3> QED BY <3>1, WaiterOrdered DEF Ordered
  <2>3. CASE f = Main /\ MainReset
    BY <2>3, ResetOrdered
  <2>4. CASE f = Main /\ \E k \in Tasks : MainPush(k)
    BY <1>t, <2>4, TaskStepOrdered
  <2>5. CASE f \in Tasks /\ TaskGoesOn(f) /\ ~TaskEnqueue(f)
    BY <1>t, <2>5, TaskStepOrdered DEF TaskGoesOn
  <2>6. CASE \/ f = Main /\ MainJoin
             \/ f \in Tasks /\ TaskEnqueue(f)
             \/ ExecutorLock(f) \/ ExecutorStep(f)
    <3>1. Work(f) /\ UNCHANGED vars
      BY <2>6 DEF MainJoin, TaskEnqueue, ExecutorLock, ExecutorStep, Work
    <3> QED BY <3>1, WorkOrdered
  <2> QED
    BY <1>2, <2>1, <2>2, <2>3, <2>4, <2>5, <2>6 DEF FiberStep, MainStep
<1> QED
  BY <1>1, <1>2 DEF MainNext, Everyone

-----------------------------------------------------------------------------
(* Nothing is left behind *)

\* When the stop has run, every push of a job has begun.
LEMMA StopIsLast ==
  ASSUME Held, Ordered, Stopper \in ran, NEW k \in Tasks
  PROVE  xpc[k] # "push"
<1> USE OwnSets
<1>1. xpc[Stopper] # "push"
  BY DEF Held
<1>2. round = 2
  BY <1>1 DEF Ordered
<1>3. \A j \in Tasks \ {Stopper} : xpc[j] = "pushed"
  BY <1>2 DEF Ordered, Counted
<1> QED BY <1>1, <1>3

Looking == Holding \cup {"pop"}
Leaving == {"loop pending", "leave lock", "leave", "left"}

\* A step that runs no job and queues none.
LEMMA StoppedMove ==
  ASSUME XTypeOK, Stopped, NEW f, NEW q, Move(f, q), UNCHANGED <<jobs, running, ran>>,
         f \in Consumers /\ q \in Leaving => xpc[f] \in Leaving \/ Stopper \in ran,
         f \in Consumers => xpc[f] \notin {"start", "set"} /\ q \notin {"start", "set"},
         f \in Consumers /\ xpc[f] \in Looking /\ q \notin Looking => jobs = {}
  PROVE  Stopped'
<1> USE Roles
<1>1. \A c \in Consumers : xpc'[c] = IF c = f THEN q ELSE xpc[c]
  BY DEF Move, XTypeOK
<1>2. \A c \in Consumers :
        /\ xpc'[c] \in Leaving => Stopper \in ran'
        /\ xpc'[c] \notin {"start", "set"} /\ ~running' => Stopper \in ran'
  BY <1>1 DEF Stopped, Leaving
<1>3. Stopper \in ran' =>
        /\ ~running' /\ \A c \in Consumers : xpc'[c] \notin {"start", "set"}
        /\ jobs' = {} \/ \E c \in Consumers : xpc'[c] \in Looking
  <2> SUFFICES ASSUME Stopper \in ran
               PROVE  /\ ~running /\ \A c \in Consumers : xpc'[c] \notin {"start", "set"}
                      /\ jobs = {} \/ \E c \in Consumers : xpc'[c] \in Looking
    OBVIOUS
  <2>1. ~running /\ \A c \in Consumers : xpc'[c] \notin {"start", "set"}
    BY <1>1 DEF Stopped
  <2>2. ASSUME jobs # {} PROVE \E c \in Consumers : xpc'[c] \in Looking
    <3>1. PICK c \in Consumers : xpc[c] \in Looking
      BY <2>2 DEF Stopped, Looking
    <3> QED BY <1>1, <2>2, <3>1
  <2> QED BY <2>1, <2>2
<1> QED
  BY <1>2, <1>3 DEF Stopped, Looking, Leaving

\* A step before the stop has run.
LEMMA NotStopped ==
  ASSUME XTypeOK, Stopped, NEW f, NEW q, Move(f, q), Stopper \notin ran, ran' = ran,
         f \in Consumers =>
           /\ q \in Leaving => xpc[f] \in Leaving
           /\ xpc[f] \in {"start", "set"} => q \in {"start", "set"} \/ running',
         running => running'
  PROVE  Stopped'
<1> USE Roles
<1>1. \A c \in Consumers : xpc'[c] = IF c = f THEN q ELSE xpc[c]
  BY DEF Move, XTypeOK
<1>2. \A c \in Consumers :
        /\ xpc'[c] \in Leaving => Stopper \in ran'
        /\ xpc'[c] \notin {"start", "set"} /\ ~running' => Stopper \in ran'
  BY <1>1 DEF Stopped, Leaving
<1> QED
  BY <1>2 DEF Stopped, Leaving

LEMMA PlainStopped ==
  ASSUME XTypeOK, Stopped, NEW f \in Everyone, Work(f), NEW q, Plain(f, q)
  PROVE  Stopped'
<1> USE Roles
<1>0. xpc'[f] = q
  BY DEF Plain, Move, XTypeOK
<1>1. /\ Move(f, q) /\ UNCHANGED <<jobs, running, ran>>
      /\ xpc[f] \notin {"start", "set"} /\ q \notin {"start", "set"} /\ xpc[f] # "left"
  BY DEF Plain
<1>2. CASE E!Lock(f)
  <2>1. \/ xpc[f] = "push lock" /\ q = "push count"
        \/ xpc[f] = "stop lock" /\ q = "stop notify"
        \/ xpc[f] = "wait lock" /\ q = "wait running"
        \/ xpc[f] = "leave lock" /\ q = "leave"
        \/ xpc[f] = "join lock" /\ q = "join running"
    BY <1>0, <1>2 DEF E!Lock, E!Goto, XTypeOK
  <2> QED
    BY <1>1, <2>1, StoppedMove DEF Looking, Holding, Leaving
<1>3. CASE E!Woken(f)
  <2>1. xpc[f] = "blocked" /\ q \in {"join lock", "wait lock"}
    BY <1>0, <1>3 DEF E!Woken, E!Goto, XTypeOK
  <2> QED
    BY <1>1, <2>1, StoppedMove DEF Looking, Holding, Leaving
<1>4. CASE f \notin Consumers
  BY <1>1, <1>4, StoppedMove
<1>6. CASE f \in Consumers /\ E!Step(f)
  <2>1. \/ xpc[f] = "loop" /\ q = "wait lock"
        \/ xpc[f] = "loop" /\ q = "loop pending" /\ ~running
        \/ xpc[f] = "loop pending" /\ q \in {"wait lock", "leave lock"}
        \/ xpc[f] = "wait running" /\ q \in {"pop", "wait pending"}
        \/ xpc[f] = "wait pending" /\ q \in {"pop", "blocked"}
        \/ xpc[f] = "pop" /\ q = "loop" /\ jobs = {}
        \/ xpc[f] = "stop notify" /\ q = "count"
        \/ E!Woken(f)
    BY <1>0, <1>6 DEF E!Step, E!LoopRunning, E!LoopPending, E!WaitRunning, E!WaitPending,
       E!Pop, E!StopNotify, E!Start, E!SetRunning, E!Run, E!Uncount, E!Leave, E!Goto,
       XTypeOK, Plain, Holding
  <2>3. CASE E!Woken(f)
    BY <1>3, <2>3
  <2>4. CASE ~E!Woken(f)
    <3>1. xpc[f] \in Looking /\ q \notin Looking => jobs = {}
      BY <2>1, <2>4 DEF Looking, Holding
    <3>2. q \in Leaving => xpc[f] \in Leaving \/ (xpc[f] = "loop" /\ ~running)
      BY <2>1, <2>4 DEF Leaving
    <3>3. xpc[f] = "loop" /\ ~running => Stopper \in ran
      BY <1>6 DEF Stopped
    <3> QED BY <1>1, <1>6, <3>1, <3>2, <3>3, StoppedMove
  <2> QED BY <2>3, <2>4
<1> QED
  BY <1>2, <1>4, <1>6 DEF Work

LEMMA WorkStopped ==
  ASSUME XTypeOK, Held, Ordered, Stopped, ~late', NEW f \in Everyone, Work(f)
  PROVE  Stopped'
<1> USE Roles
<1>1. CASE \E q : Plain(f, q)
  BY <1>1, PlainStopped
<1>2. CASE f \in Tasks /\ E!Enqueue(f)
  <2>1. Move(f, "push lock") /\ xpc[f] = "push" /\ UNCHANGED <<running, ran>>
    BY <1>2, EnqueueHeld DEF E!Enqueue, E!Goto
  <2>2. Stopper \notin ran
    BY <1>2, <2>1, StopIsLast
  <2> QED BY <1>2, <2>1, <2>2, NotStopped
<1>3. CASE f \in Tasks /\ E!Count(f)
  <2>1. Move(f, "push notify") /\ UNCHANGED <<running, ran, jobs>>
    BY <1>3, CountHeld DEF E!Count
  <2> QED BY <1>3, <2>1, StoppedMove
<1>4. CASE f \in Consumers /\ (E!Start(f) \/ E!SetRunning(f))
  <2>1. PICK q : Move(f, q)
    BY <1>4, ComeAndGo
  <2>2. /\ ran' = ran /\ (running => running')
        /\ \/ xpc[f] = "start" /\ q = "set"
           \/ xpc[f] = "set" /\ q = "loop" /\ running'
    BY <1>4, <2>1 DEF E!Start, E!SetRunning, E!Goto, Move, XTypeOK
  <2>3. Stopper \notin ran
    BY <1>4, <2>2 DEF Stopped
  <2> QED BY <1>4, <2>1, <2>2, <2>3, NotStopped DEF Leaving
<1>5. CASE f \in Consumers /\ E!Leave(f)
  <2>1. PICK q : Move(f, q)
    BY <1>5, ComeAndGo
  <2>2. xpc[f] = "leave" /\ q = "left" /\ UNCHANGED <<running, ran, jobs>>
    BY <1>5, <2>1 DEF E!Leave, E!Goto, Move, XTypeOK
  <2> QED BY <1>5, <2>1, <2>2, StoppedMove DEF Leaving, Looking, Holding
<1>6. CASE f \in Consumers /\ jobs # {} /\ E!Pop(f)
  <2>1. /\ Move(f, "run") /\ xpc[f] = "pop" /\ UNCHANGED <<running, ran>>
    BY <1>6, PopHeld DEF E!Pop, E!Goto
  <2>2. \A c \in Consumers : xpc'[c] = IF c = f THEN "run" ELSE xpc[c]
    BY <1>6, <2>1 DEF Move, XTypeOK
  <2>3. "run" \in Holding
    BY DEF Holding
  <2> QED BY <1>6, <2>1, <2>2, <2>3 DEF Stopped
<1>7. CASE f \in Consumers /\ E!Run(f)
  <2>1. PICK q \in {"stop lock", "count"} : Move(f, q)
    BY <1>7, RunHeld
  <2>2. /\ xpc[f] = "run" /\ ran' = ran \cup {job[f]}
        /\ job[f] = Stopper => ~running'
        /\ job[f] # Stopper => running' = running
        /\ job[f] = Stopper => \A c \in Consumers : xpc[c] \notin {"start", "set"}
    BY <1>7 DEF E!Run, E!Goto
  <2>3. \A c \in Consumers : xpc'[c] = IF c = f THEN q ELSE xpc[c]
    BY <1>7, <2>1 DEF Move, XTypeOK
  <2>4. q \in Holding
    BY <2>1 DEF Holding
  <2>5. \A c \in Consumers :
          /\ xpc'[c] \in Leaving => Stopper \in ran'
          /\ xpc'[c] \notin {"start", "set"} /\ ~running' => Stopper \in ran'
    <3>1. q \notin Leaving
      BY <2>1 DEF Leaving
    <3>2. CASE job[f] = Stopper
      BY <2>2, <3>2
    <3>3. CASE job[f] # Stopper
      <4>1. running' = running /\ (Stopper \in ran => Stopper \in ran')
        BY <2>2, <3>3
      <4>2. xpc[f] \notin {"start", "set"}
        BY <2>2
      <4>3. \A c \in Consumers \ {f} : xpc'[c] = xpc[c]
        BY <2>3
      <4>4. ~running => Stopper \in ran
        BY <1>7, <4>2 DEF Stopped
      <4>5. xpc'[f] = q
        BY <1>7, <2>3
      <4> QED BY <3>1, <4>1, <4>3, <4>4, <4>5 DEF Stopped, Leaving
    <3> QED BY <3>2, <3>3
  <2>6. Stopper \in ran' =>
          ~running' /\ \A c \in Consumers : xpc'[c] \notin {"start", "set"}
    BY <2>1, <2>2, <2>3 DEF Stopped
  <2>7. \E c \in Consumers : xpc'[c] \in Holding
    BY <1>7, <2>3, <2>4
  <2> QED BY <2>5, <2>6, <2>7 DEF Stopped, Leaving
<1>8. CASE f \in Consumers /\ E!Uncount(f)
  <2>1. Move(f, "pop") /\ xpc[f] = "count" /\ UNCHANGED <<running, ran, jobs>>
    BY <1>8, UncountHeld DEF E!Uncount, E!Goto
  <2> QED BY <1>8, <2>1, StoppedMove DEF Leaving, Looking
<1> QED
  BY <1>1, <1>2, <1>3, <1>4, <1>5, <1>6, <1>7, <1>8, WorkSteps

-----------------------------------------------------------------------------
(* join *)

\* While join holds the mutex a consumer that has not been past it stays before it.
LEMMA EarlyStep ==
  ASSUME XTypeOK, NEW f \in Consumers, Work(f), owner = Main, xpc[f] \in EarlyPlaces \cup {"left"},
         xpc[f] = "loop" => running
  PROVE  /\ xpc[f] # "left" /\ ran' = ran
         /\ \E q \in EarlyPlaces : xpc' = [xpc EXCEPT ![f] = q]
<1> USE Roles DEF E!Goto
<1>1. owner # None
  BY DEF Everyone
<1>2. ~E!Lock(f)
  BY <1>1 DEF E!Lock, E!LockBy
<1>3. E!Start(f) \/ E!SetRunning(f) \/ E!LoopRunning(f)
  BY <1>2 DEF Work, E!Step, EarlyPlaces, E!Woken, E!LoopPending, E!WaitRunning,
     E!WaitPending, E!Pop, E!Run, E!StopNotify, E!Uncount, E!Leave
<1> QED
  BY <1>3 DEF E!Start, E!SetRunning, E!LoopRunning, EarlyPlaces

\* When join finds nothing pending, the stop, whose push has ended, has run.
LEMMA StopHasRun ==
  ASSUME Fits, CounterInv, ~hasty, JobsInv, Ordered, xpc[Main] # "join", pending = 0
  PROVE  Stopper \in ran
<1> USE Roles
<1>1. XTypeOK /\ Held /\ Balance
  BY DEF JobsInv
<1>2. waiter = "returned" /\ round = 2
  BY DEF Ordered
<1>3. \A k \in Tasks : pc[k] \in {"compare", "unblock", "ended"}
  <2>1. AllDone
    BY <1>2 DEF CounterInv, Inv, Last
  <2>2. pc[Stopper] # "new"
    BY <1>2, OwnSets DEF Ordered
  <2> QED BY <1>2, <2>1, <2>2 DEF AllDone, Ordered, Counted
<1>4. \A k \in Tasks : xpc[k] = "pushed"
  BY <1>3 DEF Ordered
<1>5. E!Uncounted = {}
  BY <1>4 DEF E!Uncounted
<1>6. E!Unfinished = {}
  BY <1>1, <1>5, ZeroMeansUncounted
<1>7. Stopper \notin jobs /\ \A c \in Consumers : job[c] # Stopper
  BY <1>6 DEF E!Unfinished
<1> QED
  BY <1>1, <1>4, <1>7 DEF Held

LEMMA MainJoining ==
  ASSUME Fits, CounterInv, SleepInv, Ordered, Stopped, Joining, Work(Main), UNCHANGED hasty
  PROVE  Joining'
<1> USE Roles
<1>1. XTypeOK /\ Held /\ Running /\ JobsInv
  BY DEF SleepInv, JobsInv
<1>2. /\ ran' = ran /\ \A c \in Consumers : xpc'[c] = xpc[c]
      /\ xpc'[Main] = "join pending" => xpc[Main] = "join running" /\ runningCount = 0
      /\ xpc'[Main] = "joined" => xpc[Main] = "join pending" /\ pending = 0
  BY <1>1 DEF Work, E!Lock, E!Step, E!Woken, E!CallJoin, E!JoinRunning, E!JoinPending,
     E!Goto, XTypeOK, Everyone
<1>3. ASSUME xpc'[Main] = "join pending"
      PROVE  AllLeft \/ (Stopper \notin ran /\ \A c \in Consumers : xpc[c] \in EarlyPlaces)
  <2>1. Present = {}
    <3>1. Present \in SUBSET Consumers
      BY DEF Present
    <3> QED BY <1>1, <1>2, <1>3, <3>1, PresentSet, FS_EmptySet DEF Running
  <2>2. \A c \in Consumers : xpc[c] \in {"start", "left"}
    BY <2>1 DEF Present
  <2>3. CASE Stopper \in ran
    BY <2>2, <2>3 DEF Stopped, AllLeft
  <2>4. CASE Stopper \notin ran
    BY <2>2, <2>4 DEF Stopped, EarlyPlaces
  <2> QED BY <2>3, <2>4
<1>4. ASSUME xpc'[Main] = "joined", ~hasty
      PROVE  AllLeft
  <2>1. Stopper \in ran
    BY <1>1, <1>2, <1>4, StopHasRun
  <2> QED BY <1>2, <1>4, <2>1 DEF Joining
<1>5. AllLeft' <=> AllLeft
  BY <1>2 DEF AllLeft
<1> QED
  BY <1>2, <1>3, <1>4, <1>5 DEF Joining

LEMMA WorkJoining ==
  ASSUME Fits, CounterInv, SleepInv, Ordered, Stopped, Joining,
         NEW f \in Everyone, Work(f), UNCHANGED vars
  PROVE  Joining'
<1> USE Roles
<1>0. XTypeOK /\ Held /\ Monitored /\ UNCHANGED hasty
  BY DEF SleepInv, JobsInv, vars
<1>1. CASE f = Main
  BY <1>0, <1>1, MainJoining
<1>2. CASE f \in Tasks
  <2>1. PICK q : Move(f, q)
    BY <1>0, WorkMoves
  <2>2. \A g \in Everyone \ {f} : xpc'[g] = xpc[g]
    BY <1>0, <2>1 DEF Move, XTypeOK
  <2>3. xpc'[Main] = xpc[Main] /\ \A c \in Consumers : xpc'[c] = xpc[c]
    BY <1>2, <2>2
  <2>4. ran' = ran
    BY <1>2 DEF Work, E!Lock, E!Step, E!Woken, E!Count, E!Pushed, E!Enqueue
  <2> QED BY <1>0, <2>3, <2>4 DEF Joining, AllLeft
<1>3. CASE f \in Consumers
  <2>1. PICK q : Move(f, q)
    BY <1>0, WorkMoves
  <2>2. \A g \in Everyone : xpc'[g] = IF g = f THEN q ELSE xpc[g]
    BY <1>0, <2>1 DEF Move, XTypeOK
  <2>3. xpc'[Main] = xpc[Main]
    BY <1>3, <2>2
  <2>4. xpc[f] # "left"
    BY <1>3 DEF Work, E!Lock, E!Step, E!Goto, E!Woken, E!Start, E!SetRunning, E!LoopRunning,
       E!LoopPending, E!WaitRunning, E!WaitPending, E!Pop, E!Run, E!StopNotify, E!Uncount, E!Leave
  <2>5. ~AllLeft
    BY <1>3, <2>4 DEF AllLeft
  <2>6. CASE xpc[Main] = "join pending"
    <3>1. owner = Main
      BY <1>0, <2>6 DEF Monitored, Inside
    <3>2. Stopper \notin ran /\ \A c \in Consumers : xpc[c] \in EarlyPlaces
      BY <2>5, <2>6 DEF Joining
    <3>3. xpc[f] = "loop" => running
      BY <1>3, <3>2 DEF Stopped
    <3>4. ran' = ran /\ \E p \in EarlyPlaces : xpc' = [xpc EXCEPT ![f] = p]
      BY <1>0, <1>3, <3>1, <3>2, <3>3, EarlyStep
    <3>5. \A c \in Consumers : xpc'[c] \in EarlyPlaces
      BY <1>0, <3>2, <3>4 DEF XTypeOK
    <3> QED BY <2>3, <2>6, <3>2, <3>4, <3>5 DEF Joining
  <2>7. CASE xpc[Main] # "join pending"
    BY <1>0, <2>3, <2>5, <2>7 DEF Joining
  <2> QED BY <2>6, <2>7
<1> QED
  BY <1>1, <1>2, <1>3

-----------------------------------------------------------------------------
(* The invariant of the program.  Nothing is said of the order in which the *)
(* jobs run and the consumers leave once stop has come before a start.      *)
ProgramInv == CounterInv /\ SleepInv /\ Ordered /\ (late \/ (Stopped /\ Joining))

LEMMA StaysLate ==
  ASSUME late, [MainNext]_program
  PROVE  late'
<1>1. CASE UNCHANGED executor
  BY <1>1 DEF executor
<1>2. ASSUME NEW f \in Everyone, Work(f)
      PROVE  late'
  <2>1. CASE E!Run(f)
    BY <2>1, Zenon DEF E!Run
  <2>2. CASE ~E!Run(f)
    BY <1>2, <2>2 DEF Work, E!Lock, E!Step, E!Woken, E!Count, E!Pushed, E!Enqueue, E!Start,
       E!SetRunning, E!LoopRunning, E!LoopPending, E!WaitRunning, E!WaitPending, E!Pop,
       E!StopNotify, E!Uncount, E!Leave, E!CallJoin, E!JoinRunning, E!JoinPending
  <2> QED BY <2>1, <2>2
<1> QED
  BY <1>1, <1>2, ProgramSteps

LEMMA ProgramInit == ASSUME MainInit PROVE ProgramInv
<1> USE Roles, OwnSets
<1>1. /\ xpc[Main] = "join" /\ running = FALSE /\ ran = {}
      /\ \A k \in Tasks : xpc[k] = "push" /\ pc[k] = "new"
      /\ \A c \in Consumers : xpc[c] = "start"
      /\ round = 1 /\ waiter = "body" /\ ~hasty
  BY DEF MainInit, Init, E!Init, E!Everyone
<1>2. Ordered
  <2>1. round \in {1, 2} /\ round # 2
    BY <1>1
  <2> QED BY <1>1, <2>1 DEF Ordered
<1>3. Stopped /\ Joining
  BY <1>1 DEF Stopped, Joining
<1>4. CounterInv
  <2>1. Inv({}) /\ TypeOK
    BY InitInv DEF MainInit, Inv
  <2> QED BY <2>1 DEF CounterInv
<1> QED
  BY <1>2, <1>3, <1>4, SleepInit DEF ProgramInv

LEMMA ProgramStep ==
  ASSUME Fits, ProgramInv, [MainNext]_program
  PROVE  ProgramInv'
<1>1. CounterInv /\ SleepInv /\ XTypeOK /\ Held /\ Ordered
  BY DEF ProgramInv, SleepInv, JobsInv
<1>2. CounterInv'
  BY <1>1, CounterSteps, CounterStep
<1>3. SleepInv'
  BY <1>1, SleepStep
<1>4. Ordered'
  BY <1>1, OrderedStep
<1>5. late' \/ (Stopped' /\ Joining')
  <2> SUFFICES ASSUME ~late' PROVE Stopped' /\ Joining'
    OBVIOUS
  <2>1. Stopped /\ Joining
    BY StaysLate DEF ProgramInv
  <2>2. CASE UNCHANGED executor
    <3>1. hasty => hasty'
      BY CounterSteps, StaysHasty
    <3> QED BY <2>1, <2>2, <3>1 DEF executor, Stopped, Joining, AllLeft
  <2>3. CASE UNCHANGED vars /\ \E f \in Everyone : Work(f)
    BY <1>1, <2>1, <2>3, WorkStopped, WorkJoining
  <2> QED BY <2>2, <2>3, ProgramSteps
<1> QED
  BY <1>2, <1>3, <1>4, <1>5 DEF ProgramInv

LEMMA NothingIsLeft == ASSUME Held, XTypeOK, Ordered, Stopped, Joining PROVE NothingLeftBehind
<1>1. ASSUME \A c \in Consumers : xpc[c] \in {"leave lock", "leave", "left"}
      PROVE  ran = Tasks
  <2>1. Stopper \in ran
    <3>1. PICK c \in Consumers : TRUE
      BY ProgramAssumption
    <3> QED BY <1>1, <3>1 DEF Stopped
  <2>2. \A c \in Consumers : xpc[c] \notin Holding /\ xpc[c] # "pop"
    BY <1>1 DEF Holding
  <2>3. jobs = {}
    BY <2>1, <2>2 DEF Stopped
  <2>4. \A k \in Tasks : k \in ran
    <3> SUFFICES ASSUME NEW k \in Tasks PROVE k \in ran
      OBVIOUS
    <3>1. xpc[k] # "push"
      BY <2>1, StopIsLast
    <3>2. k # None
      BY Roles
    <3>3. \A c \in Consumers : job[c] # k
      BY <2>2, <3>2 DEF Held
    <3> QED BY <2>3, <3>1, <3>3 DEF Held
  <2> QED BY <2>4 DEF XTypeOK
<1>2. xpc[Main] = "joined" => hasty \/ \A c \in Consumers : xpc[c] = "left"
  BY DEF Joining, AllLeft
<1> QED
  BY <1>1, <1>2 DEF NothingLeftBehind, E!NothingLeftBehind

\* When the last consumer has left start, or join has returned, every job has run and
\* nobody is in start any more (main.cpp:235): unless stop ran before a consumer had set
\* _running, or main's second wait was cut short by a task of the first round.
THEOREM NothingStays == ASSUME Fits PROVE MainSpec => []NothingLeftBehind
<1>1. Fits
  OBVIOUS
<1>2. MainInit => ProgramInv
  BY ProgramInit
<1>3. ProgramInv /\ [MainNext]_program => ProgramInv'
  BY <1>1, ProgramStep
<1>4. ProgramInv => NothingLeftBehind
  <2> SUFFICES ASSUME ProgramInv PROVE NothingLeftBehind
    OBVIOUS
  <2>1. CASE late
    BY <2>1 DEF NothingLeftBehind, E!NothingLeftBehind
  <2>2. CASE Stopped /\ Joining
    BY <2>2, NothingIsLeft DEF ProgramInv, SleepInv, JobsInv
  <2> QED BY <2>1, <2>2 DEF ProgramInv
<1> QED
  BY <1>2, <1>3, <1>4, PTL DEF MainSpec
=============================================================================
