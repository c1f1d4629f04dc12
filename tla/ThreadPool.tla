----------------------------- MODULE ThreadPool -----------------------------
(***************************************************************************)
(* The worker threads of the server (src/server/threadPool.cpp) and the    *)
(* main thread that feeds them: Server::run submits tasks, and when it     *)
(* returns, main destroys the services it declared inside its try block    *)
(* (Config, Storage, Logger, ...) before ~Server calls ThreadPool::stop.   *)
(*                                                                         *)
(* m_queueMutex is modelled by its holder.  A critical section that does   *)
(* not wait is one step; the only worker seen holding the mutex is one     *)
(* that found the wait predicate false and has not blocked yet.  m_running *)
(* is an atomic written without the mutex.                                 *)
(***************************************************************************)
EXTENDS Naturals, Sequences, FiniteSets

CONSTANTS Workers,    \* m_threads
          Tasks,      \* the closures Server::run submits
          NoWorker,   \* m_queueMutex is free
          NoTask      \* a worker holds no task

ASSUME PoolAssumption ==
    /\ Workers # {}
    /\ NoWorker \notin Workers
    /\ NoTask \notin Tasks

VARIABLES running,    \* m_running
          taskQueue,  \* m_taskQueue
          mutex,      \* m_queueMutex: its holder
          worker,     \* where each worker is, and the task it runs
          main,       \* where the main thread is
          services,   \* the objects declared in main's try block exist
          submitted,  \* tasks handed to enqueueTask
          finished    \* tasks that returned

vars == <<running, taskQueue, mutex, worker, main, services, submitted, finished>>

Init ==
    /\ running = TRUE
    /\ taskQueue = <<>>
    /\ mutex = NoWorker
    /\ worker = [w \in Workers |-> [pc |-> "testing", task |-> NoTask]]
    /\ main = "serving"
    /\ services = TRUE
    /\ submitted = {}
    /\ finished = {}

At(w, pc) == worker[w].pc = pc
Blocked == {w \in Workers : At(w, "blocked")}
Goto(w, pc) == worker' = [worker EXCEPT ![w] = [@ EXCEPT !.pc = pc]]

-----------------------------------------------------------------------------
(***************************************************************************)
(* ThreadPool::workerThread.                                               *)
(***************************************************************************)
\* while (m_running)
TestRunning(w) ==
    /\ At(w, "testing")
    /\ Goto(w, IF running THEN "locking" ELSE "exited")
    /\ UNCHANGED <<running, taskQueue, mutex, main, services, submitted, finished>>

\* m_queueMutex can be taken: at the start of an iteration, or to return from
\* wait.
CanLock(w) == worker[w].pc \in {"locking", "waking"} /\ mutex = NoWorker

TakeTaskTwice(w) ==
    /\ CanLock(w)
    /\ taskQueue # <<>>
    /\ worker' = [worker EXCEPT ![w] = [pc |-> "executing", task |-> Head(taskQueue)]]
    /\ taskQueue' = IF Len(taskQueue) > 1 THEN Tail(taskQueue) ELSE taskQueue
    /\ UNCHANGED <<running, mutex, main, services, submitted, finished>>

\* The predicate holds because there is a task, stopping or not.
TakeTask(w) ==
    /\ CanLock(w)
    /\ taskQueue # <<>>
    /\ worker' = [worker EXCEPT ![w] = [pc |-> "executing", task |-> Head(taskQueue)]]
    /\ taskQueue' = Tail(taskQueue)
    /\ UNCHANGED <<running, mutex, main, services, submitted, finished>>

\* The predicate holds because the pool is stopping, and there is no task.
Leave(w) ==
    /\ CanLock(w)
    /\ taskQueue = <<>> /\ ~running
    /\ Goto(w, "exited")
    /\ UNCHANGED <<running, taskQueue, mutex, main, services, submitted, finished>>

\* The predicate is false: the worker will block, and still holds the mutex.
FindNothing(w) ==
    /\ CanLock(w)
    /\ taskQueue = <<>> /\ running
    /\ mutex' = w
    /\ Goto(w, "blocking")
    /\ UNCHANGED <<running, taskQueue, main, services, submitted, finished>>

\* wait releases the mutex and blocks, in one step.
Block(w) ==
    /\ At(w, "blocking")
    /\ mutex' = NoWorker
    /\ Goto(w, "blocked")
    /\ UNCHANGED <<running, taskQueue, main, services, submitted, finished>>

\* A condition variable may wake a thread that nobody notified.
SpuriousWake(w) ==
    /\ At(w, "blocked")
    /\ Goto(w, "waking")
    /\ UNCHANGED <<running, taskQueue, mutex, main, services, submitted, finished>>

FinishNoTask(w) ==
    /\ At(w, "executing")
    /\ worker' = [worker EXCEPT ![w] = [pc |-> "testing", task |-> NoTask]]
    /\ finished' = finished \cup {NoTask}
    /\ UNCHANGED <<running, taskQueue, mutex, main, services, submitted>>

\* task() returns.
FinishTask(w) ==
    /\ At(w, "executing")
    /\ finished' = finished \cup {worker[w].task}
    /\ worker' = [worker EXCEPT ![w] = [pc |-> "testing", task |-> NoTask]]
    /\ UNCHANGED <<running, taskQueue, mutex, main, services, submitted>>

-----------------------------------------------------------------------------
(***************************************************************************)
(* The main thread: enqueueTask, then the shutdown.                        *)
(***************************************************************************)
Enqueue(t) ==
    /\ main = "serving" /\ mutex = NoWorker
    /\ t \notin submitted
    /\ taskQueue' = Append(taskQueue, t)
    /\ submitted' = submitted \cup {t}
    /\ main' = "notifying"
    /\ UNCHANGED <<running, mutex, worker, services, finished>>

NotifyNobody ==
    /\ main = "notifying"
    /\ main' = "serving"
    /\ UNCHANGED <<running, taskQueue, mutex, worker, services, submitted, finished>>

\* notify_one, after the mutex was released: any one blocked worker, if any.
NotifyOne ==
    /\ main = "notifying"
    /\ main' = "serving"
    /\ \/ Blocked = {} /\ UNCHANGED worker
       \/ \E w \in Blocked : Goto(w, "waking")
    /\ UNCHANGED <<running, taskQueue, mutex, services, submitted, finished>>

\* Server::run saw g_shutdown_flag and returned; the try block of main ends.
LeaveTryBlock ==
    /\ main = "serving"
    /\ main' = "unwound"
    /\ services' = FALSE
    /\ UNCHANGED <<running, taskQueue, mutex, worker, submitted, finished>>

\* ~Server calls stop: m_running is cleared without the mutex ...
ClearRunning ==
    /\ main = "unwound"
    /\ running' = FALSE
    /\ main' = "stopping"
    /\ UNCHANGED <<taskQueue, mutex, worker, services, submitted, finished>>

\* ... notify_all wakes the workers that are blocked by now ...
NotifyAll ==
    /\ main = "stopping"
    /\ main' = "joining"
    /\ worker' = [w \in Workers |->
           IF At(w, "blocked") THEN [worker[w] EXCEPT !.pc = "waking"] ELSE worker[w]]
    /\ UNCHANGED <<running, taskQueue, mutex, services, submitted, finished>>

JoinSome ==
    /\ main = "joining"
    /\ \E w \in Workers : At(w, "exited")
    /\ main' = "stopped"
    /\ UNCHANGED <<running, taskQueue, mutex, worker, services, submitted, finished>>

\* A mutant: the queue has to be empty first.
JoinWhenEmpty ==
    /\ main = "joining" /\ taskQueue = <<>>
    /\ \A w \in Workers : At(w, "exited")
    /\ main' = "stopped"
    /\ UNCHANGED <<running, taskQueue, mutex, worker, services, submitted, finished>>

\* ... and every thread is joined.
Join ==
    /\ main = "joining"
    /\ \A w \in Workers : At(w, "exited")
    /\ main' = "stopped"
    /\ UNCHANGED <<running, taskQueue, mutex, worker, services, submitted, finished>>

-----------------------------------------------------------------------------
WorkerProgress(w) ==
    \/ TestRunning(w) \/ TakeTask(w) \/ Leave(w)
    \/ FindNothing(w) \/ Block(w) \/ FinishTask(w)

MainProgress == NotifyOne \/ ClearRunning \/ NotifyAll \/ Join

Next ==
    \/ \E w \in Workers : WorkerProgress(w) \/ SpuriousWake(w)
    \/ MainProgress
    \/ \E t \in Tasks : Enqueue(t)
    \/ LeaveTryBlock

Spec == Init /\ [][Next]_vars

(***************************************************************************)
(* The operating system runs every thread that can run, and tasks return.  *)
(* Nothing is assumed of who gets the mutex first, of spurious wake-ups,   *)
(* of the arrival of tasks or of the shutdown signal.                      *)
(***************************************************************************)
FairSpec == Spec /\ (\A w \in Workers : WF_vars(WorkerProgress(w))) /\ WF_vars(MainProgress)

-----------------------------------------------------------------------------
\* Every variable has its type.
TypeOK ==
    /\ running \in BOOLEAN
    /\ taskQueue \in Seq(Tasks)
    /\ mutex \in Workers \cup {NoWorker}
    /\ worker \in [Workers ->
          [pc : {"testing", "locking", "blocking", "blocked", "waking", "executing", "exited"},
           task : Tasks \cup {NoTask}]]
    /\ main \in {"serving", "notifying", "unwound", "stopping", "joining", "stopped"}
    /\ services \in BOOLEAN
    /\ submitted \subseteq Tasks
    /\ finished \subseteq Tasks

Queued == {taskQueue[i] : i \in 1..Len(taskQueue)}
Executing == {w \in Workers : At(w, "executing")}

(***************************************************************************)
(* A submitted task is in the queue once, or run by one worker, or         *)
(* finished, and only one of these: no two workers run the same task and   *)
(* none is run again, in whatever order workers wake, pop and stop.        *)
(***************************************************************************)
TasksConserved ==
    /\ submitted = Queued \cup {worker[w].task : w \in Executing} \cup finished
    /\ Cardinality(submitted) = Len(taskQueue) + Cardinality(Executing) + Cardinality(finished)

(***************************************************************************)
(* No wake-up is lost while the pool runs: when a task waits in the queue  *)
(* and its notify_one has been made, some worker is awake, though          *)
(* notify_one is called after the mutex is released and may find nobody    *)
(* blocked.                                                                *)
(***************************************************************************)
NoLostWakeup ==
    running /\ taskQueue # <<>> /\ main # "notifying" => Blocked # Workers

(***************************************************************************)
(* threadPool.hpp, stop: "wait for all currently running tasks to complete *)
(* before returning".  Once stop has returned, every task is finished or   *)
(* was never started.                                                      *)
(***************************************************************************)
RunningTasksComplete ==
    main = "stopped" => submitted = Queued \cup finished

(***************************************************************************)
(* Every submitted task is run to its end, unless the pool is stopped.     *)
(***************************************************************************)
TasksRun ==
    \A t \in Tasks : t \in submitted ~> t \in finished \/ ~running

(***************************************************************************)
(* stop returns, unless a worker stays blocked for ever: one that tested   *)
(* the predicate before m_running was cleared, which stop does without the *)
(* mutex, and that blocks after notify_all.  Tasks left in the queue and   *)
(* tasks that run do not hold it up (threadPool.hpp: "Stops all threads"). *)
(***************************************************************************)
StopEnds == ~running ~> (main = "stopped" \/ [](\E w \in Workers : At(w, "blocked")))

-----------------------------------------------------------------------------
(***************************************************************************)
(* What the documents and comments say.                                    *)
(***************************************************************************)
\* REPORT, C008: the shutdown is clean, so no task runs on destroyed services.
NoTaskAfterServices == ~services => Executing = {}
=============================================================================
