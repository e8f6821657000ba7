----------------------------- MODULE WorkerPool ------------------------------
(***************************************************************************)
(* The worker pool (worker_pool.h, worker_pool.cpp): the main thread of    *)
(* Redis enqueues the slow part of a command, worker threads run it.       *)
(*                                                                         *)
(* A critical section of `_mutex' is one step.  What is not atomic in the  *)
(* code is not atomic here: enqueue notifies after it has unlocked, _stop  *)
(* too, and a worker that leaves _cv.wait has to take the mutex again      *)
(* before it tests the predicate.  A wait may also end for no reason.      *)
(*                                                                         *)
(* A task is the number of the enqueue that accepted it.  Of what a task   *)
(* does, one thing concerns the pool: the tasks of LLM.RUN on a search or  *)
(* a chat application take the global lock of Redis, which the main thread *)
(* holds whenever it runs, also while its destructor joins the workers.  A *)
(* packaged_task returns to the worker whether its function returned or    *)
(* threw.                                                                  *)
(***************************************************************************)
EXTENDS Integers, Sequences, FiniteSets

CONSTANTS
  Workers,    \* the threads, pool_size of them
  QueueSize,  \* queue_size
  MaxTasks    \* BOUND: how many tasks are accepted

ASSUME WorkersAssumption == IsFiniteSet(Workers)
ASSUME SizesAssumption == QueueSize \in Nat /\ MaxTasks \in Nat

VARIABLES
  tasks,     \* _tasks
  quit,      \* _quit
  accepted,  \* ghost: the number of tasks accepted so far
  outcome,   \* what the last enqueue did: "none", "queued" or "full" (it threw)
  main,      \* the main thread: "free", "notify", "notifyAll", "join", "gone"
  worker,    \* [Workers -> "test", "wait", "run", "exit"]
  running,   \* [Workers -> the task it runs, or 0]
  locking,   \* the tasks that have yet to take the global lock
  finished   \* ghost: the tasks that have been run

vars == <<tasks, quit, accepted, outcome, main, worker, running, locking, finished>>

Waiting == {w \in Workers : worker[w] = "wait"}
Testing == {w \in Workers : worker[w] = "test"}
Running == {w \in Workers : worker[w] = "run"}

TypeOK ==
  /\ tasks \in Seq(1 .. MaxTasks)
  /\ quit \in BOOLEAN
  /\ accepted \in 0 .. MaxTasks
  /\ outcome \in {"none", "queued", "full"}
  /\ main \in {"free", "notify", "notifyAll", "join", "gone"}
  /\ worker \in [Workers -> {"test", "wait", "run", "exit"}]
  /\ running \in [Workers -> 0 .. MaxTasks]
  /\ locking \subseteq 1 .. MaxTasks
  /\ finished \subseteq 1 .. MaxTasks

(* The constructor has started the threads; each is about to test the      *)
(* predicate of its wait.                                                  *)
Init ==
  /\ tasks = <<>>
  /\ quit = FALSE
  /\ accepted = 0
  /\ outcome = "none"
  /\ main = "free"
  /\ worker = [w \in Workers |-> "test"]
  /\ running = [w \in Workers |-> 0]
  /\ locking = {}
  /\ finished = {}

-----------------------------------------------------------------------------
(* enqueue                                                                 *)

(* A command accepts a task, one that takes the global lock or not.        *)
Enqueue ==
  /\ main = "free"
  /\ accepted < MaxTasks
  /\ Len(tasks) # QueueSize
  /\ accepted' = accepted + 1
  /\ locking' \in {locking, locking \union {accepted + 1}}
  /\ tasks' = Append(tasks, accepted + 1)
  /\ outcome' = "queued"
  /\ main' = "notify"
  /\ UNCHANGED <<quit, worker, running, finished>>

EnqueueFull ==
  /\ main = "free"
  /\ Len(tasks) = QueueSize
  /\ outcome' = "full"
  /\ UNCHANGED <<tasks, quit, accepted, main, worker, running, locking, finished>>

(* MUTANT of NotifyOne: notify only when the queue was empty before. *)
NotifyIfFirst ==
  /\ main = "notify"
  /\ main' = "free"
  /\ IF Waiting = {} \/ Len(tasks) > 1
       THEN UNCHANGED worker
       ELSE \E w \in Waiting : worker' = [worker EXCEPT ![w] = "test"]
  /\ UNCHANGED <<tasks, quit, accepted, outcome, running, locking, finished>>

(* MUTANT of NotifyOne: no notification. *)
NotifyNobody ==
  /\ main = "notify"
  /\ main' = "free"
  /\ UNCHANGED <<tasks, quit, accepted, outcome, worker, running, locking, finished>>

(* notify_one wakes one waiting thread, any of them, if there is one.      *)
NotifyOne ==
  /\ main = "notify"
  /\ main' = "free"
  /\ IF Waiting = {}
       THEN UNCHANGED worker
       ELSE \E w \in Waiting : worker' = [worker EXCEPT ![w] = "test"]
  /\ UNCHANGED <<tasks, quit, accepted, outcome, running, locking, finished>>

-----------------------------------------------------------------------------
(* The destructor, run by the main thread when the process exits.          *)

Stop ==
  /\ main = "free"
  /\ quit' = TRUE
  /\ main' = "notifyAll"
  /\ UNCHANGED <<tasks, accepted, outcome, worker, running, locking, finished>>

(* MUTANT of NotifyAll: _stop wakes one worker only. *)
NotifyAllWakesOne ==
  /\ main = "notifyAll"
  /\ main' = "join"
  /\ IF Waiting = {}
       THEN UNCHANGED worker
       ELSE \E w \in Waiting : worker' = [worker EXCEPT ![w] = "test"]
  /\ UNCHANGED <<tasks, quit, accepted, outcome, running, locking, finished>>

NotifyAll ==
  /\ main = "notifyAll"
  /\ main' = "join"
  /\ worker' = [w \in Workers |-> IF w \in Waiting THEN "test" ELSE worker[w]]
  /\ UNCHANGED <<tasks, quit, accepted, outcome, running, locking, finished>>

Join ==
  /\ main = "join"
  /\ \A w \in Workers : worker[w] = "exit"
  /\ main' = "gone"
  /\ UNCHANGED <<tasks, quit, accepted, outcome, worker, running, locking, finished>>

-----------------------------------------------------------------------------
(* _run                                                                    *)

(* MUTANT of Sleep: a wait without its predicate. *)
SleepUntested(w) ==
  /\ worker[w] = "test"
  /\ ~quit
  /\ worker' = [worker EXCEPT ![w] = "wait"]
  /\ UNCHANGED <<tasks, quit, accepted, outcome, main, running, locking, finished>>

Sleep(w) ==
  /\ worker[w] = "test"
  /\ ~quit /\ tasks = <<>>
  /\ worker' = [worker EXCEPT ![w] = "wait"]
  /\ UNCHANGED <<tasks, quit, accepted, outcome, main, running, locking, finished>>

SpuriousWakeup(w) ==
  /\ worker[w] = "wait"
  /\ worker' = [worker EXCEPT ![w] = "test"]
  /\ UNCHANGED <<tasks, quit, accepted, outcome, main, running, locking, finished>>

(* MUTANT of Exit: a worker leaves as soon as it sees _quit. *)
ExitAtOnce(w) ==
  /\ worker[w] = "test"
  /\ quit
  /\ worker' = [worker EXCEPT ![w] = "exit"]
  /\ UNCHANGED <<tasks, quit, accepted, outcome, main, running, locking, finished>>

Exit(w) ==
  /\ worker[w] = "test"
  /\ quit /\ tasks = <<>>
  /\ worker' = [worker EXCEPT ![w] = "exit"]
  /\ UNCHANGED <<tasks, quit, accepted, outcome, main, running, locking, finished>>

(* MUTANT of Take: the task is copied out but not popped. *)
TakeNoPop(w) ==
  /\ worker[w] = "test"
  /\ tasks # <<>>
  /\ running' = [running EXCEPT ![w] = Head(tasks)]
  /\ worker' = [worker EXCEPT ![w] = "run"]
  /\ UNCHANGED <<tasks, quit, accepted, outcome, main, locking, finished>>

Take(w) ==
  /\ worker[w] = "test"
  /\ tasks # <<>>
  /\ running' = [running EXCEPT ![w] = Head(tasks)]
  /\ tasks' = Tail(tasks)
  /\ worker' = [worker EXCEPT ![w] = "run"]
  /\ UNCHANGED <<quit, accepted, outcome, main, locking, finished>>

(* MUTANT of RunTask: what runs is the moved-from task. *)
RunTaskMovedFrom(w) ==
  /\ worker[w] = "run"
  /\ running[w] \notin locking
  /\ running' = [running EXCEPT ![w] = 0]
  /\ finished' = finished \union {running'[w]}
  /\ worker' = [worker EXCEPT ![w] = "test"]
  /\ UNCHANGED <<tasks, quit, accepted, outcome, main, locking>>

(* The global lock is to be had only while the main thread sleeps.         *)
TakeLock(w) ==
  /\ worker[w] = "run"
  /\ running[w] \in locking
  /\ main = "free"
  /\ locking' = locking \ {running[w]}
  /\ UNCHANGED <<tasks, quit, accepted, outcome, main, worker, running, finished>>

RunTask(w) ==
  /\ worker[w] = "run"
  /\ running[w] \notin locking
  /\ finished' = finished \union {running[w]}
  /\ running' = [running EXCEPT ![w] = 0]
  /\ worker' = [worker EXCEPT ![w] = "test"]
  /\ UNCHANGED <<tasks, quit, accepted, outcome, main, locking>>

Main == Enqueue \/ EnqueueFull \/ NotifyOne \/ Stop \/ NotifyAll \/ Join

Worker(w) == Sleep(w) \/ Exit(w) \/ Take(w) \/ TakeLock(w) \/ RunTask(w)

(* A worker waits for the lock of a main thread that waits for the worker. *)
Hung(w) == quit /\ worker[w] = "run" /\ running[w] \in locking

(* The threads have ended and so has the model, or each of them has ended  *)
(* or hangs.                                                               *)
Done ==
  /\ \/ main = "gone"
     \/ /\ main = "join"
        /\ \A w \in Workers : worker[w] = "exit" \/ Hung(w)
        /\ \E w \in Workers : Hung(w)
  /\ UNCHANGED vars

Next == Main \/ Done \/ \E w \in Workers : Worker(w) \/ SpuriousWakeup(w)

Spec == Init /\ [][Next]_vars

(* The threads are scheduled, and a task that does not need the global     *)
(* lock returns: its other waits have a timeout or are for a thread that   *)
(* is itself running a task.  The main thread finishes the call it is in   *)
(* but need not make another one, and while it is in none it goes to sleep *)
(* and leaves the global lock to the workers.                              *)
FairSpec ==
  /\ Spec
  /\ WF_vars(NotifyOne) /\ WF_vars(NotifyAll) /\ WF_vars(Join)
  /\ \A w \in Workers : WF_vars(Worker(w))

-----------------------------------------------------------------------------
(* The queue holds the tasks accepted last, in order: tasks are taken      *)
(* first come, first served, and none is skipped.                          *)
InOrder ==
  \A i \in 1 .. Len(tasks) : tasks[i] = accepted - Len(tasks) + i

(* Every task that left the queue is being run by exactly one worker or    *)
(* has been run, never both: no task is lost or run twice.                 *)
ExactlyOnce ==
  /\ 1 .. accepted - Len(tasks) = finished \union {running[w] : w \in Running}
  /\ \A w \in Running : running[w] \notin finished
  /\ \A v, w \in Running : running[v] = running[w] => v = w

(* No lost wakeup: while a worker sleeps, every task that waits has a      *)
(* worker on its way to the queue, or the notification for it is still to  *)
(* come (enqueue notifies after it has unlocked, worker_pool.h 57-67).     *)
NoTaskOverslept ==
  Waiting # {} =>
    Len(tasks) <= Cardinality(Testing) + (IF main = "notify" THEN 1 ELSE 0)

(* The queue never grows past queue_size.                                  *)
QueueBounded == Len(tasks) <= QueueSize

(* Shutting down drains: when the destructor has joined the workers, every *)
(* accepted task has been run, and a worker leaves only after _quit (the   *)
(* assertion at worker_pool.cpp:46).                                       *)
DrainedAtExit ==
  /\ \A w \in Workers : worker[w] = "exit" => quit /\ tasks = <<>>
  /\ main = "gone" /\ Workers # {} => finished = 1 .. accepted

(* Every accepted task is run.  Once the pool is stopped (the static       *)
(* object is destroyed by exit, which the main thread calls with the       *)
(* global lock in hand) only a task that still needs the lock is not, nor, *)
(* when every worker hangs in such a task, are those behind it.            *)
EveryTaskRuns ==
  \A k \in 1 .. MaxTasks :
    accepted >= k
      ~> \/ k \in finished
         \/ quit /\ k \in locking
         \/ \A w \in Workers : Hung(w)

(* The destructor returns, unless it was called while a task still had to  *)
(* take the global lock.                                                   *)
StopEnds == quit /\ locking = {} ~> main = "gone"

-----------------------------------------------------------------------------
Queue == INSTANCE TaskQueue WITH
  queue <- tasks, busy <- running, closed <- quit,
  gone <- {w \in Workers : worker[w] = "exit"}

(* The pool is a bounded first-come, first-served queue whose free workers *)
(* never leave a task waiting for ever.                                    *)
ImplementsTaskQueue == Queue!Spec
==============================================================================
