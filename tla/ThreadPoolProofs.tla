-------------------------- MODULE ThreadPoolProofs --------------------------
(***************************************************************************)
(* Proofs about ThreadPool, for every set of workers and tasks:            *)
(*   - types are preserved (TypeCorrect);                                  *)
(*   - no wake-up is lost while the pool runs (WakeupsKept);               *)
(*   - stop waits for the tasks that were started (StopWaits);             *)
(*   - no task is lost, run twice or run by two workers (Conserved).       *)
(***************************************************************************)
EXTENDS ThreadPool, FiniteSetTheorems, TLAPS

Pcs == {"testing", "locking", "blocking", "blocked", "waking", "executing", "exited"}
WorkerRecord == [pc : Pcs, task : Tasks \cup {NoTask}]

(***************************************************************************)
(* What Goto does to worker: the one at w moves and keeps its task, the    *)
(* others are as they were.                                                *)
(***************************************************************************)
LEMMA GotoEffect ==
  ASSUME TypeOK, NEW w \in Workers, NEW pc \in Pcs, Goto(w, pc)
  PROVE  /\ worker' \in [Workers -> WorkerRecord]
         /\ worker'[w].pc = pc /\ worker'[w].task = worker[w].task
         /\ \A v \in Workers \ {w} : worker'[v] = worker[v]
  <1>1. worker \in [Workers -> WorkerRecord]
    BY DEF TypeOK, WorkerRecord, Pcs
  <1> DEFINE q == [worker[w] EXCEPT !.pc = pc]
  <1>2. q \in WorkerRecord /\ q.pc = pc /\ q.task = worker[w].task
    BY <1>1 DEF WorkerRecord
  <1>3. worker' = [worker EXCEPT ![w] = q]
    BY DEF Goto
  <1> HIDE DEF q
  <1> QED
    BY <1>1, <1>2, <1>3

\* A worker takes the task at the head of the queue.
LEMMA TakeEffect ==
  ASSUME TypeOK, NEW w \in Workers, TakeTask(w)
  PROVE  /\ worker' \in [Workers -> WorkerRecord]
         /\ worker'[w].pc = "executing" /\ worker'[w].task = Head(taskQueue)
         /\ \A v \in Workers \ {w} : worker'[v] = worker[v]
         /\ taskQueue' \in Seq(Tasks)
         /\ Queued = Queued' \cup {Head(taskQueue)}
  <1>1. worker \in [Workers -> WorkerRecord] /\ taskQueue \in Seq(Tasks) /\ taskQueue # <<>>
    BY DEF TypeOK, WorkerRecord, Pcs, TakeTask
  <1>2. Head(taskQueue) \in Tasks /\ Tail(taskQueue) \in Seq(Tasks)
    BY <1>1
  <1> DEFINE q == [pc |-> "executing", task |-> Head(taskQueue)]
  <1>3. q \in WorkerRecord /\ q.pc = "executing" /\ q.task = Head(taskQueue)
    BY <1>2 DEF WorkerRecord, Pcs
  <1>4. worker' = [worker EXCEPT ![w] = q] /\ taskQueue' = Tail(taskQueue)
    BY DEF TakeTask
  <1> HIDE DEF q
  <1>5. Queued = Queued' \cup {Head(taskQueue)}
    <2>1. /\ Len(taskQueue) \in Nat /\ Len(taskQueue) > 0
          /\ Len(taskQueue') = Len(taskQueue) - 1
          /\ taskQueue[1] = Head(taskQueue)
          /\ \A i \in 1..Len(taskQueue') : taskQueue'[i] = taskQueue[i + 1]
      BY <1>1, <1>4
    <2>2. ASSUME NEW t \in Queued PROVE t \in Queued' \cup {Head(taskQueue)}
      <3>1. PICK i \in 1..Len(taskQueue) : t = taskQueue[i]
        BY DEF Queued
      <3>2. CASE i = 1
        BY <2>1, <3>1, <3>2
      <3>3. CASE i # 1
        <4>1. i - 1 \in 1..Len(taskQueue') /\ taskQueue'[i - 1] = taskQueue[i]
          BY <2>1, <3>1, <3>3
        <4> QED
          BY <3>1, <4>1 DEF Queued
      <3> QED
        BY <3>2, <3>3
    <2>3. ASSUME NEW t \in Queued' PROVE t \in Queued
      <3>1. PICK i \in 1..Len(taskQueue') : t = taskQueue'[i]
        BY DEF Queued
      <3>2. i + 1 \in 1..Len(taskQueue) /\ t = taskQueue[i + 1]
        BY <2>1, <3>1
      <3> QED
        BY <3>2 DEF Queued
    <2>4. Head(taskQueue) \in Queued
      <3>1. 1 \in 1..Len(taskQueue)
        BY <2>1
      <3> QED
        BY <2>1, <3>1 DEF Queued
    <2> QED
      BY <2>2, <2>3, <2>4
  <1> QED
    BY <1>1, <1>2, <1>3, <1>4, <1>5

\* The task of a worker returns.
LEMMA FinishEffect ==
  ASSUME TypeOK, NEW w \in Workers, FinishTask(w)
  PROVE  /\ worker' \in [Workers -> WorkerRecord]
         /\ worker'[w].pc = "testing"
         /\ \A v \in Workers \ {w} : worker'[v] = worker[v]
  <1>1. worker \in [Workers -> WorkerRecord]
    BY DEF TypeOK, WorkerRecord, Pcs
  <1> DEFINE q == [pc |-> "testing", task |-> NoTask]
  <1>2. q \in WorkerRecord /\ q.pc = "testing"
    BY DEF WorkerRecord, Pcs
  <1>3. worker' = [worker EXCEPT ![w] = q]
    BY DEF FinishTask
  <1> HIDE DEF q
  <1> QED
    BY <1>1, <1>2, <1>3

\* A task joins the queue.
LEMMA EnqueueEffect ==
  ASSUME TypeOK, NEW t \in Tasks, Enqueue(t)
  PROVE  taskQueue' \in Seq(Tasks) /\ Queued' = Queued \cup {t}
  <1>1. taskQueue \in Seq(Tasks) /\ taskQueue' = Append(taskQueue, t)
    BY DEF TypeOK, Enqueue
  <1>2. /\ Len(taskQueue) \in Nat /\ Len(taskQueue') = Len(taskQueue) + 1
        /\ taskQueue'[Len(taskQueue) + 1] = t
        /\ \A i \in 1..Len(taskQueue) : taskQueue'[i] = taskQueue[i]
        /\ taskQueue' \in Seq(Tasks)
    BY <1>1
  <1>3. ASSUME NEW u \in Queued' PROVE u \in Queued \cup {t}
    <2>1. PICK i \in 1..Len(taskQueue') : u = taskQueue'[i]
      BY DEF Queued
    <2>2. CASE i = Len(taskQueue) + 1
      BY <1>2, <2>1, <2>2
    <2>3. CASE i # Len(taskQueue) + 1
      <3>1. i \in 1..Len(taskQueue) /\ u = taskQueue[i]
        BY <1>2, <2>1, <2>3
      <3> QED
        BY <3>1 DEF Queued
    <2> QED
      BY <2>2, <2>3
  <1>4. ASSUME NEW u \in Queued PROVE u \in Queued'
    <2>1. PICK i \in 1..Len(taskQueue) : u = taskQueue[i]
      BY DEF Queued
    <2>2. i \in 1..Len(taskQueue') /\ u = taskQueue'[i]
      BY <1>2, <2>1
    <2> QED
      BY <2>2 DEF Queued
  <1>5. t \in Queued'
    <2>1. Len(taskQueue) + 1 \in 1..Len(taskQueue')
      BY <1>2
    <2> QED
      BY <1>2, <2>1 DEF Queued
  <1> QED
    BY <1>2, <1>3, <1>4, <1>5

\* Blocked workers wake up, the others are as they were.
LEMMA NotifyAllEffect ==
  ASSUME TypeOK, NotifyAll
  PROVE  /\ worker' \in [Workers -> WorkerRecord]
         /\ \A w \in Workers : /\ worker'[w].task = worker[w].task
                               /\ worker'[w].pc = IF At(w, "blocked") THEN "waking" ELSE worker[w].pc
  <1>1. worker \in [Workers -> WorkerRecord]
    BY DEF TypeOK, WorkerRecord, Pcs
  <1>2. ASSUME NEW w \in Workers
        PROVE  /\ worker'[w] \in WorkerRecord /\ worker'[w].task = worker[w].task
               /\ worker'[w].pc = IF At(w, "blocked") THEN "waking" ELSE worker[w].pc
    <2>1. worker'[w] = IF At(w, "blocked") THEN [worker[w] EXCEPT !.pc = "waking"] ELSE worker[w]
      BY DEF NotifyAll
    <2> QED
      BY <1>1, <2>1 DEF WorkerRecord, Pcs
  <1>3. worker' = [w \in Workers |-> worker'[w]]
    BY DEF NotifyAll
  <1> QED
    BY <1>2, <1>3

-----------------------------------------------------------------------------
(***************************************************************************)
(* Types.  A worker that executes has a task, or finished would leave its  *)
(* type.                                                                   *)
(***************************************************************************)
TypeInv == TypeOK /\ \A w \in Workers : At(w, "executing") => worker[w].task \in Tasks

LEMMA TypeInvInit == Init => TypeInv
  BY DEF Init, TypeInv, TypeOK, At

LEMMA TypeInvNext == TypeInv /\ [Next]_vars => TypeInv'
  <1> SUFFICES ASSUME TypeInv, [Next]_vars PROVE TypeInv'
    OBVIOUS
  <1>0. /\ TypeOK /\ worker \in [Workers -> WorkerRecord]
        /\ \A w \in Workers : worker[w].pc = "executing" => worker[w].task \in Tasks
    BY DEF TypeInv, TypeOK, WorkerRecord, Pcs, At
  <1>w. ASSUME worker' \in [Workers -> WorkerRecord], taskQueue' \in Seq(Tasks),
               mutex' \in Workers \cup {NoWorker}, running' \in BOOLEAN, services' \in BOOLEAN,
               main' \in {"serving", "notifying", "unwound", "stopping", "joining", "stopped"},
               submitted' \subseteq Tasks, finished' \subseteq Tasks,
               \A w \in Workers : worker'[w].pc = "executing" => worker'[w].task \in Tasks
        PROVE  TypeInv'
    BY <1>w DEF TypeInv, TypeOK, WorkerRecord, Pcs, At
  <1>1. ASSUME NEW w \in Workers, NEW pc \in Pcs \ {"executing"}, Goto(w, pc),
               mutex' \in Workers \cup {NoWorker},
               main' \in {"serving", "notifying", "unwound", "stopping", "joining", "stopped"},
               UNCHANGED <<running, taskQueue, services, submitted, finished>>
        PROVE  TypeInv'
    <2>1. /\ worker' \in [Workers -> WorkerRecord]
          /\ \A v \in Workers : worker'[v].pc = "executing" => worker'[v].task \in Tasks
      BY <1>0, <1>1, GotoEffect
    <2> QED
      BY <1>0, <1>1, <1>w, <2>1 DEF TypeOK
  <1>2. ASSUME NEW w \in Workers,
               TestRunning(w) \/ Leave(w) \/ FindNothing(w) \/ Block(w) \/ SpuriousWake(w)
        PROVE  TypeInv'
    <2>1. main' \in {"serving", "notifying", "unwound", "stopping", "joining", "stopped"}
          /\ mutex' \in Workers \cup {NoWorker}
      BY <1>0, <1>2 DEF TypeOK, TestRunning, Leave, FindNothing, Block, SpuriousWake
    <2>2. \E pc \in Pcs \ {"executing"} : Goto(w, pc)
      BY <1>2 DEF Pcs, TestRunning, Leave, FindNothing, Block, SpuriousWake
    <2>3. UNCHANGED <<running, taskQueue, services, submitted, finished>>
      BY <1>2 DEF TestRunning, Leave, FindNothing, Block, SpuriousWake
    <2> QED
      BY <1>1, <2>1, <2>2, <2>3
  <1>3. ASSUME NEW w \in Workers, TakeTask(w) PROVE TypeInv'
    <2>1. Head(taskQueue) \in Tasks
      BY <1>0, <1>3 DEF TypeOK, TakeTask
    <2>2. UNCHANGED <<running, mutex, main, services, submitted, finished>>
      BY <1>3 DEF TakeTask
    <2>3. /\ worker' \in [Workers -> WorkerRecord] /\ taskQueue' \in Seq(Tasks)
          /\ \A v \in Workers : worker'[v].pc = "executing" => worker'[v].task \in Tasks
      BY <1>0, <1>3, <2>1, TakeEffect
    <2> QED
      BY <1>0, <1>w, <2>2, <2>3 DEF TypeOK
  <1>4. ASSUME NEW w \in Workers, FinishTask(w) PROVE TypeInv'
    <2>1. finished' \subseteq Tasks
      BY <1>0, <1>4 DEF TypeOK, FinishTask, At
    <2>2. UNCHANGED <<running, taskQueue, mutex, main, services, submitted>>
      BY <1>4 DEF FinishTask
    <2>3. /\ worker' \in [Workers -> WorkerRecord]
          /\ \A v \in Workers : worker'[v].pc = "executing" => worker'[v].task \in Tasks
      BY <1>0, <1>4, FinishEffect
    <2> QED
      BY <1>0, <1>w, <2>1, <2>2, <2>3 DEF TypeOK
  <1>5. ASSUME NEW t \in Tasks, Enqueue(t) PROVE TypeInv'
    <2>1. taskQueue' \in Seq(Tasks)
      BY <1>0, <1>5, EnqueueEffect
    <2> QED
      BY <1>0, <1>5, <1>w, <2>1 DEF TypeOK, Enqueue
  <1>6. CASE NotifyOne
    <2>1. CASE UNCHANGED worker
      BY <1>0, <1>6, <1>w, <2>1 DEF TypeOK, NotifyOne
    <2>2. CASE \E w \in Blocked : Goto(w, "waking")
      BY <1>0, <1>1, <1>6, <2>2 DEF TypeOK, NotifyOne, Blocked, Pcs
    <2> QED
      BY <1>6, <2>1, <2>2 DEF NotifyOne
  <1>7. CASE LeaveTryBlock \/ ClearRunning \/ Join
    BY <1>0, <1>7, <1>w, Zenon DEF TypeOK, LeaveTryBlock, ClearRunning, Join
  <1>8. CASE NotifyAll
    <2>1. /\ worker' \in [Workers -> WorkerRecord]
          /\ \A v \in Workers : worker'[v].pc = "executing" => worker'[v].task \in Tasks
      BY <1>0, <1>8, NotifyAllEffect
    <2> QED
      BY <1>0, <1>8, <1>w, <2>1 DEF TypeOK, NotifyAll
  <1>9. CASE UNCHANGED vars
    BY <1>0, <1>9, <1>w DEF TypeOK, vars
  <1> QED
    BY <1>2, <1>3, <1>4, <1>5, <1>6, <1>7, <1>8, <1>9 DEF Next, WorkerProgress, MainProgress

(***************************************************************************)
(* TypeOK always holds: what a worker finishes is a task that was          *)
(* submitted, never an empty one.                                          *)
(***************************************************************************)
THEOREM TypeCorrect == Spec => []TypeOK
  <1>1. TypeInv => TypeOK
    BY DEF TypeInv
  <1> QED
    BY <1>1, TypeInvInit, TypeInvNext, PTL DEF Spec

-----------------------------------------------------------------------------
(***************************************************************************)
(* Wake-ups.  The last worker to block could leave a task behind: it does  *)
(* not, because the queue it found empty stays empty while it holds the    *)
(* mutex, until it has blocked.                                            *)
(***************************************************************************)
WakeInv ==
    /\ TypeInv
    /\ \A w \in Workers : At(w, "blocking") => mutex = w
    /\ mutex # NoWorker => taskQueue = <<>>
    /\ NoLostWakeup

LEMMA WakeInvInit == Init => WakeInv
  BY TypeInvInit, PoolAssumption DEF Init, WakeInv, NoLostWakeup, At

LEMMA WakeInvNext == WakeInv /\ [Next]_vars => WakeInv'
  <1> DEFINE Goal == /\ \A w \in Workers : worker'[w].pc = "blocking" => mutex' = w
                     /\ mutex' # NoWorker => taskQueue' = <<>>
                     /\ running' /\ taskQueue' # <<>> /\ main' # "notifying" =>
                            \E w \in Workers : worker'[w].pc # "blocked"
  <1> SUFFICES ASSUME WakeInv, [Next]_vars PROVE Goal
    <2>1. ASSUME Goal PROVE NoLostWakeup'
      BY <2>1 DEF NoLostWakeup, Blocked, At
    <2> QED
      BY <2>1, TypeInvNext DEF WakeInv, At
  <1>0. /\ TypeOK
        /\ \A w \in Workers : worker[w].pc = "blocking" => mutex = w
        /\ mutex # NoWorker => taskQueue = <<>>
        /\ running /\ taskQueue # <<>> /\ main # "notifying" =>
               \E w \in Workers : worker[w].pc # "blocked"
    BY DEF WakeInv, TypeInv, NoLostWakeup, Blocked, At
  <1>1. ASSUME NEW w \in Workers, NEW pc \in Pcs \ {"blocking", "blocked"}, Goto(w, pc),
               worker[w].pc # "blocking", UNCHANGED <<mutex, taskQueue>>
        PROVE  Goal
    BY <1>0, <1>1, GotoEffect
  <1>2. ASSUME NEW w \in Workers, TestRunning(w) \/ Leave(w) \/ SpuriousWake(w)
        PROVE  Goal
    <2>1. \E pc \in Pcs \ {"blocking", "blocked"} : Goto(w, pc)
      BY <1>2 DEF Pcs, TestRunning, Leave, SpuriousWake
    <2>2. worker[w].pc # "blocking" /\ UNCHANGED <<mutex, taskQueue>>
      BY <1>2 DEF TestRunning, Leave, SpuriousWake, CanLock, At
    <2> QED
      BY <1>1, <2>1, <2>2
  <1>3. ASSUME NEW w \in Workers, FindNothing(w)
        PROVE  Goal
    <2>1. worker'[w].pc = "blocking" /\ \A v \in Workers \ {w} : worker'[v] = worker[v]
      BY <1>0, <1>3, GotoEffect DEF FindNothing, Pcs
    <2> QED
      BY <1>0, <1>3, <2>1, PoolAssumption DEF FindNothing, CanLock
  <1>4. ASSUME NEW w \in Workers, Block(w)
        PROVE  Goal
    <2>1. worker'[w].pc = "blocked" /\ \A v \in Workers \ {w} : worker'[v] = worker[v]
      BY <1>0, <1>4, GotoEffect DEF Block, Pcs
    <2>2. mutex = w /\ taskQueue' = <<>> /\ mutex' = NoWorker
      BY <1>0, <1>4, PoolAssumption DEF Block, At
    <2> QED
      BY <1>0, <2>1, <2>2
  <1>5. ASSUME NEW w \in Workers, TakeTask(w)
        PROVE  Goal
    <2>1. worker'[w].pc = "executing" /\ \A v \in Workers \ {w} : worker'[v] = worker[v]
      BY <1>0, <1>5, TakeEffect
    <2>2. mutex = NoWorker /\ mutex' = NoWorker
      BY <1>5 DEF TakeTask, CanLock
    <2> QED
      BY <1>0, <2>1, <2>2
  <1>6. ASSUME NEW w \in Workers, FinishTask(w)
        PROVE  Goal
    <2>1. worker'[w].pc = "testing" /\ \A v \in Workers \ {w} : worker'[v] = worker[v]
      BY <1>0, <1>6, FinishEffect
    <2> QED
      BY <1>0, <1>6, <2>1 DEF FinishTask
  <1>7. ASSUME NEW t \in Tasks, Enqueue(t)
        PROVE  Goal
    BY <1>0, <1>7 DEF Enqueue
  <1>8. CASE NotifyOne
    <2>1. CASE Blocked = {} /\ UNCHANGED worker
      <3>1. \E w \in Workers : worker'[w].pc # "blocked"
        BY <2>1, PoolAssumption DEF Blocked, At
      <3> QED
        BY <1>0, <1>8, <2>1, <3>1 DEF NotifyOne
    <2>2. CASE \E w \in Blocked : Goto(w, "waking")
      BY <1>1, <1>8, <2>2 DEF NotifyOne, Blocked, At, Pcs
    <2> QED
      BY <1>8, <2>1, <2>2 DEF NotifyOne
  <1>9. CASE LeaveTryBlock \/ ClearRunning \/ Join
    BY <1>0, <1>9 DEF LeaveTryBlock, ClearRunning, Join
  <1>10. CASE NotifyAll
    <2>1. \A w \in Workers : worker'[w].pc = IF At(w, "blocked") THEN "waking" ELSE worker[w].pc
      BY <1>0, <1>10, NotifyAllEffect
    <2> QED
      BY <1>0, <1>10, <2>1 DEF NotifyAll, At
  <1>11. CASE UNCHANGED vars
    BY <1>0, <1>11 DEF vars
  <1> QED
    BY <1>2, <1>3, <1>4, <1>5, <1>6, <1>7, <1>8, <1>9, <1>10, <1>11
       DEF Next, WorkerProgress, MainProgress

(***************************************************************************)
(* With any number of workers and tasks, a queued task whose notify_one    *)
(* was made never finds all workers blocked while the pool runs.           *)
(***************************************************************************)
THEOREM WakeupsKept == Spec => []NoLostWakeup
  <1>1. WakeInv => NoLostWakeup
    BY DEF WakeInv
  <1> QED
    BY <1>1, WakeInvInit, WakeInvNext, PTL DEF Spec

-----------------------------------------------------------------------------
(***************************************************************************)
(* What stop waits for.  A submitted task is queued, run by a worker or    *)
(* finished, and stop returns only when no worker can be running one.      *)
(***************************************************************************)
RunBySome(t) == \E w \in Workers : worker[w].pc = "executing" /\ worker[w].task = t

Accounted == \A t \in Tasks : t \in submitted <=> t \in Queued \/ RunBySome(t) \/ t \in finished

DoneInv ==
    /\ TypeInv
    /\ Accounted
    /\ main = "stopped" => \A w \in Workers : At(w, "exited")

LEMMA DoneInvInit == Init => DoneInv
  BY TypeInvInit DEF Init, DoneInv, Accounted, RunBySome, Queued, At

LEMMA DoneInvNext == DoneInv /\ [Next]_vars => DoneInv'
  <1> DEFINE Exited == main' = "stopped" => \A w \in Workers : worker'[w].pc = "exited"
  <1> SUFFICES ASSUME DoneInv, [Next]_vars PROVE Accounted' /\ Exited
    BY TypeInvNext DEF DoneInv, At
  <1>0. /\ TypeOK /\ Accounted
        /\ main = "stopped" => \A w \in Workers : worker[w].pc = "exited"
        /\ \A w \in Workers : worker[w].pc = "executing" => worker[w].task \in Tasks
    BY DEF DoneInv, TypeInv, At
  <1>1. ASSUME NEW w \in Workers, NEW pc \in Pcs \ {"executing"}, Goto(w, pc),
               worker[w].pc \notin {"executing", "exited"}, main' # "stopped" \/ UNCHANGED main,
               UNCHANGED <<taskQueue, submitted, finished>>
        PROVE  Accounted' /\ Exited
    <2>1. worker'[w].pc = pc /\ \A v \in Workers \ {w} : worker'[v] = worker[v]
      BY <1>0, <1>1, GotoEffect
    <2>2. \A t \in Tasks : RunBySome(t)' <=> RunBySome(t)
      BY <1>1, <2>1 DEF RunBySome
    <2>3. Accounted'
      BY <1>0, <1>1, <2>2 DEF Accounted, Queued
    <2> QED
      BY <1>0, <1>1, <2>1, <2>3
  <1>2. ASSUME NEW w \in Workers,
               TestRunning(w) \/ Leave(w) \/ FindNothing(w) \/ Block(w) \/ SpuriousWake(w)
        PROVE  Accounted' /\ Exited
    <2>1. \E pc \in Pcs \ {"executing"} : Goto(w, pc)
      BY <1>2 DEF Pcs, TestRunning, Leave, FindNothing, Block, SpuriousWake
    <2>2. /\ worker[w].pc \notin {"executing", "exited"}
          /\ UNCHANGED <<main, taskQueue, submitted, finished>>
      BY <1>2 DEF TestRunning, Leave, FindNothing, Block, SpuriousWake, CanLock, At
    <2> QED
      BY <1>1, <2>1, <2>2
  <1>3. ASSUME NEW w \in Workers, TakeTask(w)
        PROVE  Accounted' /\ Exited
    <2>1. /\ worker'[w].pc = "executing" /\ worker'[w].task = Head(taskQueue)
          /\ \A v \in Workers \ {w} : worker'[v] = worker[v]
          /\ Queued = Queued' \cup {Head(taskQueue)}
      BY <1>0, <1>3, TakeEffect
    <2>2. worker[w].pc \in {"locking", "waking"} /\ UNCHANGED <<main, submitted, finished>>
      BY <1>3 DEF TakeTask, CanLock
    <2>3. \A t \in Tasks : RunBySome(t)' <=> RunBySome(t) \/ t = Head(taskQueue)
      BY <2>1, <2>2 DEF RunBySome
    <2>4. Accounted'
      BY <1>0, <2>1, <2>2, <2>3 DEF Accounted
    <2> QED
      BY <1>0, <2>2, <2>4
  <1>4. ASSUME NEW w \in Workers, FinishTask(w)
        PROVE  Accounted' /\ Exited
    <2>1. worker'[w].pc = "testing" /\ \A v \in Workers \ {w} : worker'[v] = worker[v]
      BY <1>0, <1>4, FinishEffect
    <2>2. /\ worker[w].pc = "executing" /\ finished' = finished \cup {worker[w].task}
          /\ UNCHANGED <<main, submitted, taskQueue>>
      BY <1>4 DEF FinishTask, At
    <2>3. \A t \in Tasks : RunBySome(t) \/ t \in finished <=> RunBySome(t)' \/ t \in finished'
      BY <2>1, <2>2 DEF RunBySome
    <2>4. Accounted'
      BY <1>0, <2>2, <2>3 DEF Accounted, Queued
    <2> QED
      BY <1>0, <2>2, <2>4
  <1>5. ASSUME NEW t \in Tasks, Enqueue(t)
        PROVE  Accounted' /\ Exited
    <2>1. Queued' = Queued \cup {t}
      BY <1>0, <1>5, EnqueueEffect
    <2>2. submitted' = submitted \cup {t} /\ main' = "notifying" /\ UNCHANGED <<worker, finished>>
      BY <1>5 DEF Enqueue
    <2>3. \A u \in Tasks : RunBySome(u)' <=> RunBySome(u)
      BY <2>2 DEF RunBySome
    <2> QED
      BY <1>0, <2>1, <2>2, <2>3 DEF Accounted
  <1>6. CASE NotifyOne
    <2>1. CASE UNCHANGED worker
      BY <1>0, <1>6, <2>1 DEF NotifyOne, Accounted, RunBySome, Queued
    <2>2. CASE \E w \in Blocked : Goto(w, "waking")
      BY <1>1, <1>6, <2>2 DEF NotifyOne, Blocked, At, Pcs
    <2> QED
      BY <1>6, <2>1, <2>2 DEF NotifyOne
  <1>7. CASE LeaveTryBlock \/ ClearRunning \/ Join
    <2>1. UNCHANGED <<worker, taskQueue, submitted, finished>>
      BY <1>7 DEF LeaveTryBlock, ClearRunning, Join
    <2>2. Exited
      BY <1>7 DEF LeaveTryBlock, ClearRunning, Join, At
    <2> QED
      BY <1>0, <2>1, <2>2 DEF Accounted, RunBySome, Queued
  <1>8. CASE NotifyAll
    <2>1. \A w \in Workers : /\ worker'[w].task = worker[w].task
                             /\ worker'[w].pc = "executing" <=> worker[w].pc = "executing"
      BY <1>0, <1>8, NotifyAllEffect DEF At
    <2>2. \A t \in Tasks : RunBySome(t)' <=> RunBySome(t)
      BY <2>1 DEF RunBySome
    <2> QED
      BY <1>0, <1>8, <2>2 DEF NotifyAll, Accounted, Queued
  <1>9. CASE UNCHANGED vars
    BY <1>0, <1>9 DEF vars, Accounted, RunBySome, Queued
  <1> QED
    BY <1>2, <1>3, <1>4, <1>5, <1>6, <1>7, <1>8, <1>9 DEF Next, WorkerProgress, MainProgress

(***************************************************************************)
(* When stop has returned, every task that was submitted is finished or    *)
(* still in the queue: none was cut short.                                 *)
(***************************************************************************)
THEOREM StopWaits == Spec => []RunningTasksComplete
  <1>1. ASSUME DoneInv PROVE RunningTasksComplete
    <2>1. Queued \subseteq Tasks /\ submitted \subseteq Tasks /\ finished \subseteq Tasks
      BY <1>1 DEF DoneInv, TypeInv, TypeOK, Queued
    <2> QED
      BY <1>1, <2>1 DEF DoneInv, Accounted, RunBySome, RunningTasksComplete, At
  <1> QED
    BY <1>1, DoneInvInit, DoneInvNext, PTL DEF Spec

-----------------------------------------------------------------------------
(***************************************************************************)
(* No task is run twice.  What a worker takes is nowhere else: the tasks   *)
(* of the queue differ from one another, from those that are run and from  *)
(* those that are finished.  That no two workers run one task and that     *)
(* none is run again is then a matter of counting.                         *)
(***************************************************************************)
QueuedOnce == \A i, j \in 1..Len(taskQueue) : taskQueue[i] = taskQueue[j] => i = j

RunOnce ==
    \A v, w \in Workers :
        v # w => ~(At(v, "executing") /\ At(w, "executing") /\ worker[v].task = worker[w].task)

Apart ==
    \A t \in Tasks : /\ ~(t \in Queued /\ RunBySome(t))
                     /\ ~(t \in Queued /\ t \in finished)
                     /\ ~(RunBySome(t) /\ t \in finished)

Counted ==
    /\ IsFiniteSet(submitted) /\ IsFiniteSet(Executing) /\ IsFiniteSet(finished)
    /\ Cardinality(submitted) = Len(taskQueue) + Cardinality(Executing) + Cardinality(finished)

OnceInv == DoneInv /\ QueuedOnce /\ RunOnce /\ Apart /\ Counted

\* At first there are no tasks.
LEMMA OnceInvInit == Init => OnceInv
  <1> SUFFICES ASSUME Init PROVE OnceInv
    OBVIOUS
  <1>1. DoneInv
    BY DoneInvInit
  <1>2. taskQueue = <<>> /\ submitted = {} /\ finished = {} /\ \A w \in Workers : worker[w].pc = "testing"
    BY DEF Init
  <1>3. Len(taskQueue) = 0 /\ Queued = {} /\ Executing = {}
    BY <1>2 DEF Queued, Executing, At
  <1>4. Counted
    <2>1. Cardinality(submitted) = 0 /\ Cardinality(Executing) = 0 /\ Cardinality(finished) = 0
      BY <1>2, <1>3, FS_EmptySet, Zenon
    <2>2. IsFiniteSet(submitted) /\ IsFiniteSet(Executing) /\ IsFiniteSet(finished)
      BY <1>2, <1>3, FS_EmptySet, Zenon
    <2> QED
      BY <1>3, <2>1, <2>2 DEF Counted
  <1> QED
    BY <1>1, <1>2, <1>3, <1>4 DEF OnceInv, QueuedOnce, RunOnce, Apart, RunBySome, At

\* A step that neither takes nor finishes nor submits a task.
LEMMA OnceQuiet ==
  ASSUME OnceInv, UNCHANGED <<taskQueue, submitted, finished>>,
         \A w \in Workers : /\ worker'[w].pc = "executing" <=> worker[w].pc = "executing"
                            /\ worker'[w].task = worker[w].task
  PROVE  QueuedOnce' /\ RunOnce' /\ Apart' /\ Counted'
  <1>1. Queued' = Queued /\ Executing' = Executing
    BY DEF Queued, Executing, At
  <1>2. \A t \in Tasks : RunBySome(t)' <=> RunBySome(t)
    BY DEF RunBySome
  <1>3. QueuedOnce'
    BY DEF OnceInv, QueuedOnce
  <1>4. RunOnce'
    BY DEF OnceInv, RunOnce, At
  <1>5. Apart'
    BY <1>1, <1>2 DEF OnceInv, Apart
  <1>6. Counted'
    BY <1>1 DEF OnceInv, Counted
  <1> QED
    BY <1>3, <1>4, <1>5, <1>6

\* A worker takes the first task: it leaves the queue.
LEMMA OnceTake ==
  ASSUME OnceInv, NEW w \in Workers, TakeTask(w)
  PROVE  QueuedOnce' /\ RunOnce' /\ Apart' /\ Counted'
  <1>0. TypeOK
    BY DEF OnceInv, DoneInv, TypeInv
  <1>1. /\ worker'[w].pc = "executing" /\ worker'[w].task = Head(taskQueue)
        /\ \A v \in Workers \ {w} : worker'[v] = worker[v]
        /\ Queued = Queued' \cup {Head(taskQueue)}
    BY <1>0, TakeEffect
  <1>2. /\ worker[w].pc \in {"locking", "waking"} /\ taskQueue # <<>> /\ taskQueue' = Tail(taskQueue)
        /\ UNCHANGED <<submitted, finished>>
    BY DEF TakeTask, CanLock
  <1>3. PICK h \in Tasks : h = Head(taskQueue)
    BY <1>0, <1>2 DEF TypeOK
  <1>4. /\ Len(taskQueue) \in Nat /\ Len(taskQueue) > 0 /\ Len(taskQueue') = Len(taskQueue) - 1
        /\ taskQueue[1] = h /\ \A i \in 1..Len(taskQueue') : taskQueue'[i] = taskQueue[i + 1]
    BY <1>0, <1>2, <1>3 DEF TypeOK
  <1>5. QueuedOnce'
    <2> SUFFICES ASSUME NEW i \in 1..Len(taskQueue'), NEW j \in 1..Len(taskQueue'),
                        taskQueue'[i] = taskQueue'[j]
                 PROVE  i = j
      BY DEF QueuedOnce
    <2>1. i + 1 \in 1..Len(taskQueue) /\ j + 1 \in 1..Len(taskQueue) /\ taskQueue[i + 1] = taskQueue[j + 1]
      BY <1>4
    <2>2. i + 1 = j + 1
      BY <2>1 DEF OnceInv, QueuedOnce
    <2> QED
      BY <2>2
  <1>6. h \notin Queued'
    <2> SUFFICES ASSUME NEW i \in 1..Len(taskQueue'), taskQueue'[i] = h
                 PROVE  FALSE
      BY DEF Queued
    <2>1. i + 1 \in 1..Len(taskQueue) /\ 1 \in 1..Len(taskQueue) /\ taskQueue[i + 1] = taskQueue[1]
      BY <1>4
    <2>2. i + 1 = 1
      BY <2>1 DEF OnceInv, QueuedOnce
    <2> QED
      BY <2>2
  <1>7. \A t \in Tasks : RunBySome(t)' <=> RunBySome(t) \/ t = h
    BY <1>1, <1>2, <1>3 DEF RunBySome
  <1>8. h \in Queued /\ ~RunBySome(h) /\ h \notin finished
    BY <1>1, <1>3 DEF OnceInv, Apart
  <1>9. Apart'
    BY <1>1, <1>2, <1>3, <1>6, <1>7, <1>8 DEF OnceInv, Apart
  <1>10. RunOnce'
    BY <1>1, <1>3, <1>8 DEF OnceInv, RunOnce, RunBySome, At
  <1>11. Counted'
    <2>1. Executing' = Executing \cup {w} /\ w \notin Executing
      BY <1>1, <1>2 DEF Executing, At
    <2>2. IsFiniteSet(Executing) /\ Cardinality(Executing) \in Nat /\ Cardinality(finished) \in Nat
      BY FS_CardinalityType DEF OnceInv, Counted
    <2>3. IsFiniteSet(Executing') /\ Cardinality(Executing') = Cardinality(Executing) + 1
      BY <2>1, <2>2, FS_AddElement
    <2> QED
      BY <1>2, <1>4, <2>2, <2>3 DEF OnceInv, Counted
  <1> QED
    BY <1>5, <1>9, <1>10, <1>11

\* A task is finished: no other worker runs it, and it was not finished.
LEMMA OnceFinish ==
  ASSUME OnceInv, NEW w \in Workers, FinishTask(w)
  PROVE  QueuedOnce' /\ RunOnce' /\ Apart' /\ Counted'
  <1>0. TypeOK
    BY DEF OnceInv, DoneInv, TypeInv
  <1>1. worker'[w].pc = "testing" /\ \A v \in Workers \ {w} : worker'[v] = worker[v]
    BY <1>0, FinishEffect
  <1>2. PICK t \in Tasks : t = worker[w].task
    BY DEF OnceInv, DoneInv, TypeInv, FinishTask
  <1>3. worker[w].pc = "executing" /\ finished' = finished \cup {t} /\ UNCHANGED <<taskQueue, submitted>>
    BY <1>2 DEF FinishTask, At
  <1>4. Queued' = Queued
    BY <1>3 DEF Queued
  <1>5. RunBySome(t) /\ t \notin Queued /\ t \notin finished
    BY <1>2, <1>3 DEF OnceInv, Apart, RunBySome
  <1>6. \A u \in Tasks : RunBySome(u)' <=> RunBySome(u) /\ u # t
    BY <1>1, <1>2, <1>3 DEF RunBySome, OnceInv, RunOnce, At
  <1>7. QueuedOnce'
    BY <1>3 DEF OnceInv, QueuedOnce
  <1>8. RunOnce'
    BY <1>1 DEF OnceInv, RunOnce, At
  <1>9. Apart'
    BY <1>3, <1>4, <1>5, <1>6 DEF OnceInv, Apart
  <1>10. Counted'
    <2>1. Executing' = Executing \ {w} /\ w \in Executing
      BY <1>1, <1>3 DEF Executing, At
    <2>2. /\ IsFiniteSet(Executing) /\ IsFiniteSet(finished)
          /\ Cardinality(Executing) \in Nat /\ Cardinality(finished) \in Nat
      BY FS_CardinalityType DEF OnceInv, Counted
    <2>3. IsFiniteSet(Executing') /\ Cardinality(Executing') = Cardinality(Executing) - 1
      BY <2>1, <2>2, FS_RemoveElement
    <2>4. IsFiniteSet(finished') /\ Cardinality(finished') = Cardinality(finished) + 1
      BY <1>3, <1>5, <2>2, FS_AddElement
    <2>5. Len(taskQueue) \in Nat
      BY <1>0 DEF TypeOK
    <2> QED
      BY <1>3, <2>2, <2>3, <2>4, <2>5 DEF OnceInv, Counted
  <1> QED
    BY <1>7, <1>8, <1>9, <1>10

\* A task that was not submitted before is nowhere yet.
LEMMA OnceEnqueue ==
  ASSUME OnceInv, NEW t \in Tasks, Enqueue(t)
  PROVE  QueuedOnce' /\ RunOnce' /\ Apart' /\ Counted'
  <1>0. TypeOK
    BY DEF OnceInv, DoneInv, TypeInv
  <1>1. /\ t \notin submitted /\ submitted' = submitted \cup {t} /\ taskQueue' = Append(taskQueue, t)
        /\ UNCHANGED <<worker, finished>>
    BY DEF Enqueue
  <1>2. Queued' = Queued \cup {t}
    BY <1>0, EnqueueEffect
  <1>3. t \notin Queued /\ ~RunBySome(t) /\ t \notin finished
    BY <1>1 DEF OnceInv, DoneInv, Accounted
  <1>4. /\ Len(taskQueue) \in Nat /\ Len(taskQueue') = Len(taskQueue) + 1
        /\ taskQueue'[Len(taskQueue) + 1] = t
        /\ \A i \in 1..Len(taskQueue) : taskQueue'[i] = taskQueue[i]
    BY <1>0, <1>1 DEF TypeOK
  <1>5. QueuedOnce'
    <2>1. \A i \in 1..Len(taskQueue) : taskQueue[i] # t
      BY <1>3 DEF Queued
    <2> SUFFICES ASSUME NEW i \in 1..Len(taskQueue'), NEW j \in 1..Len(taskQueue'),
                        taskQueue'[i] = taskQueue'[j]
                 PROVE  i = j
      BY DEF QueuedOnce
    <2>2. /\ i \in 1..Len(taskQueue) \/ i = Len(taskQueue) + 1
          /\ j \in 1..Len(taskQueue) \/ j = Len(taskQueue) + 1
      BY <1>4
    <2> QED
      BY <1>4, <2>1, <2>2 DEF OnceInv, QueuedOnce
  <1>6. \A u \in Tasks : RunBySome(u)' <=> RunBySome(u)
    BY <1>1 DEF RunBySome
  <1>7. RunOnce'
    BY <1>1 DEF OnceInv, RunOnce, At
  <1>8. Apart'
    BY <1>1, <1>2, <1>3, <1>6 DEF OnceInv, Apart
  <1>9. Counted'
    <2>1. Executing' = Executing
      BY <1>1 DEF Executing, At
    <2>2. /\ IsFiniteSet(submitted) /\ Cardinality(submitted) \in Nat
          /\ Cardinality(Executing) \in Nat /\ Cardinality(finished) \in Nat
      BY FS_CardinalityType DEF OnceInv, Counted
    <2>3. IsFiniteSet(submitted') /\ Cardinality(submitted') = Cardinality(submitted) + 1
      BY <1>1, <2>2, FS_AddElement
    <2> QED
      BY <1>1, <1>4, <2>1, <2>2, <2>3 DEF OnceInv, Counted
  <1> QED
    BY <1>5, <1>7, <1>8, <1>9

\* Every step keeps the tasks apart and the count right.
LEMMA OnceInvNext == OnceInv /\ [Next]_vars => OnceInv'
  <1> SUFFICES ASSUME OnceInv, [Next]_vars PROVE QueuedOnce' /\ RunOnce' /\ Apart' /\ Counted'
    BY DoneInvNext DEF OnceInv
  <1>0. TypeOK
    BY DEF OnceInv, DoneInv, TypeInv
  <1>1. ASSUME NEW w \in Workers, NEW pc \in Pcs \ {"executing"}, Goto(w, pc), worker[w].pc # "executing",
               UNCHANGED <<taskQueue, submitted, finished>>
        PROVE  QueuedOnce' /\ RunOnce' /\ Apart' /\ Counted'
    <2>1. /\ worker'[w].pc = pc /\ worker'[w].task = worker[w].task
          /\ \A v \in Workers \ {w} : worker'[v] = worker[v]
      BY <1>0, <1>1, GotoEffect
    <2> QED
      BY <1>1, <2>1, OnceQuiet
  <1>2. ASSUME NEW w \in Workers,
               TestRunning(w) \/ Leave(w) \/ FindNothing(w) \/ Block(w) \/ SpuriousWake(w)
        PROVE  QueuedOnce' /\ RunOnce' /\ Apart' /\ Counted'
    <2>1. \E pc \in Pcs \ {"executing"} : Goto(w, pc)
      BY <1>2 DEF Pcs, TestRunning, Leave, FindNothing, Block, SpuriousWake
    <2>2. worker[w].pc # "executing" /\ UNCHANGED <<taskQueue, submitted, finished>>
      BY <1>2 DEF TestRunning, Leave, FindNothing, Block, SpuriousWake, CanLock, At
    <2> QED
      BY <1>1, <2>1, <2>2
  <1>3. CASE NotifyOne
    <2>1. UNCHANGED <<taskQueue, submitted, finished>>
      BY <1>3 DEF NotifyOne
    <2>2. CASE UNCHANGED worker
      BY <2>1, <2>2, OnceQuiet
    <2>3. CASE \E w \in Blocked : Goto(w, "waking")
      BY <1>1, <2>1, <2>3 DEF Blocked, At, Pcs
    <2> QED
      BY <1>3, <2>2, <2>3 DEF NotifyOne
  <1>4. CASE LeaveTryBlock \/ ClearRunning \/ Join \/ UNCHANGED vars
    <2>1. UNCHANGED <<worker, taskQueue, submitted, finished>>
      BY <1>4 DEF LeaveTryBlock, ClearRunning, Join, vars
    <2> QED
      BY <2>1, OnceQuiet
  <1>5. CASE NotifyAll
    <2>1. \A w \in Workers : /\ worker'[w].task = worker[w].task
                             /\ worker'[w].pc = "executing" <=> worker[w].pc = "executing"
      BY <1>0, <1>5, NotifyAllEffect DEF At
    <2>2. UNCHANGED <<taskQueue, submitted, finished>>
      BY <1>5 DEF NotifyAll
    <2> QED
      BY <2>1, <2>2, OnceQuiet
  <1> QED
    BY <1>2, <1>3, <1>4, <1>5, OnceTake, OnceFinish, OnceEnqueue DEF Next, WorkerProgress, MainProgress

(***************************************************************************)
(* A submitted task is queued once, or run by one worker, or finished, and *)
(* only one of these, for any workers and tasks: popping under the mutex   *)
(* hands a task to one worker, however they wake and stop.                 *)
(***************************************************************************)
THEOREM Conserved == Spec => []TasksConserved
  <1>1. ASSUME OnceInv PROVE TasksConserved
    <2>1. Queued \subseteq Tasks /\ submitted \subseteq Tasks /\ finished \subseteq Tasks
      BY <1>1 DEF OnceInv, DoneInv, TypeInv, TypeOK, Queued
    <2>2. \A t : t \in {worker[w].task : w \in Executing} <=> RunBySome(t)
      BY DEF Executing, RunBySome, At
    <2>3. \A w \in Executing : worker[w].task \in Tasks
      BY <1>1 DEF OnceInv, DoneInv, TypeInv, Executing
    <2>4. submitted = Queued \cup {worker[w].task : w \in Executing} \cup finished
      BY <1>1, <2>1, <2>2, <2>3 DEF OnceInv, DoneInv, Accounted
    <2> QED
      BY <1>1, <2>4 DEF OnceInv, Counted, TasksConserved
  <1> QED
    BY <1>1, OnceInvInit, OnceInvNext, PTL DEF Spec
=============================================================================
