--------------------------- MODULE WorkerPoolProofs --------------------------
(***************************************************************************)
(* Proofs about WorkerPool for every finite number of workers, every       *)
(* queue_size and every number of tasks.                                   *)
(***************************************************************************)
EXTENDS WorkerPool, TLAPS, FiniteSetTheorems, SequenceTheorems

(* A worker has a task exactly while it runs one.                          *)
Occupied == \A w \in Workers : worker[w] = "run" <=> running[w] # 0

(* The queue is part of what was accepted.                                 *)
Accounted == Len(tasks) <= accepted

(* The destructor: nothing is enqueued once _quit is set, nobody sleeps    *)
(* after notify_all, and join waits for everybody.                         *)
Shutdown ==
  /\ quit <=> main \in {"notifyAll", "join", "gone"}
  /\ main \in {"join", "gone"} => Waiting = {}
  /\ \A w \in Workers : worker[w] = "exit" => quit /\ tasks = <<>>
  /\ main = "gone" => \A w \in Workers : worker[w] = "exit"

IInv ==
  /\ TypeOK
  /\ Occupied
  /\ Accounted
  /\ InOrder
  /\ ExactlyOnce
  /\ NoTaskOverslept
  /\ QueueBounded
  /\ Shutdown

LEMMA StateSets ==
  /\ IsFiniteSet(Testing) /\ Cardinality(Testing) \in Nat
  /\ Waiting \subseteq Workers /\ Testing \subseteq Workers /\ Running \subseteq Workers
<1>1. Waiting \subseteq Workers /\ Testing \subseteq Workers /\ Running \subseteq Workers
  BY DEF Waiting, Testing, Running
<1> QED
  BY <1>1, WorkersAssumption, FS_Subset, FS_CardinalityType

LEMMA InitIInv == Init => IInv
<1> SUFFICES ASSUME Init PROVE IInv
  OBVIOUS
<1> USE DEF Init
<1>1. TypeOK
  <2>1. tasks \in Seq(1 .. MaxTasks) /\ accepted \in 0 .. MaxTasks
    BY SizesAssumption
  <2>2. quit \in BOOLEAN /\ finished \subseteq 1 .. MaxTasks /\ locking \subseteq 1 .. MaxTasks
    OBVIOUS
  <2>3. running \in [Workers -> 0 .. MaxTasks]
    BY SizesAssumption
  <2> QED
    BY <2>1, <2>2, <2>3 DEF TypeOK
<1>2. Occupied /\ Accounted /\ InOrder /\ QueueBounded /\ Shutdown
  BY SizesAssumption
  DEF Occupied, Accounted, InOrder, QueueBounded, Shutdown, Waiting
<1>3. ExactlyOnce
  <2>1. Running = {} /\ 1 .. accepted - Len(tasks) = {}
    BY DEF Running
  <2> QED
    BY <2>1 DEF ExactlyOnce
<1>4. NoTaskOverslept
  BY DEF NoTaskOverslept, Waiting
<1> QED
  BY <1>1, <1>2, <1>3, <1>4 DEF IInv

(* Types, with the facts about sequences the other steps use.              *)
LEMMA TypeStep == ASSUME IInv, Next PROVE TypeOK'
<1> USE DEF IInv, TypeOK
<1>1. CASE Enqueue
  BY <1>1, SizesAssumption DEF Enqueue
<1>2. CASE EnqueueFull \/ NotifyOne \/ Stop \/ NotifyAll \/ Join \/ Done
  BY <1>2 DEF EnqueueFull, NotifyOne, Stop, NotifyAll, Join, Done, vars
<1>3. ASSUME NEW w \in Workers, Sleep(w) \/ TakeLock(w) \/ SpuriousWakeup(w) \/ Exit(w)
      PROVE  TypeOK'
  BY <1>3 DEF Sleep, TakeLock, SpuriousWakeup, Exit
<1>4. ASSUME NEW w \in Workers, Take(w) PROVE TypeOK'
  <2>1. tasks \in Seq(1 .. MaxTasks) /\ tasks # <<>>
    BY <1>4 DEF Take
  <2>2. Tail(tasks) \in Seq(1 .. MaxTasks) /\ Head(tasks) \in 1 .. MaxTasks
    BY <2>1, HeadTailProperties
  <2>3. Head(tasks) \in 0 .. MaxTasks
    BY <2>2, SizesAssumption
  <2> QED
    BY <1>4, <2>2, <2>3 DEF Take
<1>5. ASSUME NEW w \in Workers, RunTask(w) PROVE TypeOK'
  <2>1. running[w] \in 1 .. MaxTasks
    BY <1>5, SizesAssumption DEF RunTask, Occupied
  <2>2. 0 \in 0 .. MaxTasks
    BY SizesAssumption
  <2>3. running' \in [Workers -> 0 .. MaxTasks]
    BY <1>5, <2>2 DEF RunTask
  <2>4. finished' \subseteq 1 .. MaxTasks
    BY <1>5, <2>1 DEF RunTask
  <2> QED
    BY <1>5, <2>3, <2>4 DEF RunTask
<1> QED
  BY <1>1, <1>2, <1>3, <1>4, <1>5 DEF Next, Main, Worker

LEMMA QueueStep ==
  ASSUME IInv, Next
  PROVE  Occupied' /\ Accounted' /\ InOrder' /\ QueueBounded' /\ Shutdown'
<1> USE DEF IInv, TypeOK, Occupied, Accounted, InOrder, QueueBounded, Shutdown, Waiting
<1>1. CASE Enqueue
  <2>1. /\ tasks' = Append(tasks, accepted + 1) /\ Len(tasks') = Len(tasks) + 1
        /\ \A i \in 1 .. Len(tasks) : tasks'[i] = tasks[i]
        /\ tasks'[Len(tasks) + 1] = accepted + 1
    BY <1>1 DEF Enqueue
  <2>2. InOrder' /\ Accounted' /\ QueueBounded'
    <3>1. /\ accepted \in Nat /\ accepted' = accepted + 1 /\ tasks \in Seq(1 .. MaxTasks)
          /\ InOrder /\ Accounted /\ Len(tasks) < QueueSize
      BY <1>1, SizesAssumption DEF Enqueue
    <3> HIDE DEF IInv, TypeOK, Occupied, Shutdown
    <3> QED
      BY <2>1, <3>1, SizesAssumption
  <2>3. Occupied' /\ Waiting' = Waiting
    BY <1>1 DEF Enqueue
  <2>4. Shutdown'
    <3>1. main = "free" /\ main' = "notify" /\ ~quit /\ ~quit' /\ worker' = worker
      BY <1>1 DEF Enqueue
    <3> QED
      BY <3>1
  <2> QED
    BY <2>2, <2>3, <2>4
<1>2. CASE EnqueueFull \/ NotifyOne \/ Stop \/ NotifyAll \/ Join \/ Done
  BY <1>2 DEF EnqueueFull, NotifyOne, Stop, NotifyAll, Join, Done, vars
<1>3. ASSUME NEW w \in Workers, Sleep(w) \/ TakeLock(w) \/ SpuriousWakeup(w) \/ Exit(w)
      PROVE  Occupied' /\ Accounted' /\ InOrder' /\ QueueBounded' /\ Shutdown'
  BY <1>3 DEF Sleep, TakeLock, SpuriousWakeup, Exit
<1>5. ASSUME NEW w \in Workers, RunTask(w)
      PROVE  Occupied' /\ Accounted' /\ InOrder' /\ QueueBounded' /\ Shutdown'
  <2>1. Occupied' /\ Accounted' /\ InOrder' /\ QueueBounded'
    BY <1>5 DEF RunTask
  <2>2. Shutdown'
    BY <1>5 DEF RunTask
  <2> QED
    BY <2>1, <2>2
<1>4. ASSUME NEW w \in Workers, Take(w)
      PROVE  Occupied' /\ Accounted' /\ InOrder' /\ QueueBounded' /\ Shutdown'
  <2>1. /\ Len(tasks') = Len(tasks) - 1 /\ Len(tasks) > 0
        /\ \A i \in 1 .. Len(tasks') : tasks'[i] = tasks[i + 1]
        /\ Head(tasks) = tasks[1] /\ Head(tasks) # 0
    <3>1. tasks \in Seq(1 .. MaxTasks) /\ tasks # <<>> /\ tasks' = Tail(tasks)
      BY <1>4 DEF Take
    <3> HIDE DEF IInv, TypeOK, Occupied, Shutdown, InOrder
    <3>2. Head(tasks) \in 1 .. MaxTasks
      BY <3>1, HeadTailProperties
    <3>3. /\ Len(tasks') = Len(tasks) - 1 /\ Len(tasks) > 0 /\ Head(tasks) = tasks[1]
          /\ \A i \in 1 .. Len(tasks') : tasks'[i] = tasks[i + 1]
      BY <3>1
    <3> QED
      BY <3>2, <3>3, SizesAssumption
  <2>2. InOrder' /\ Accounted' /\ QueueBounded'
    BY <1>4, <2>1, SizesAssumption DEF Take
  <2>3. Occupied'
    <3>1. running'[w] = Head(tasks) /\ worker'[w] = "run"
      BY <1>4 DEF Take
    <3>2. \A v \in Workers \ {w} : running'[v] = running[v] /\ worker'[v] = worker[v]
      BY <1>4 DEF Take
    <3> HIDE DEF IInv, TypeOK, Accounted, InOrder, QueueBounded, Shutdown
    <3>3. Occupied
      BY DEF IInv
    <3> QED
      BY <2>1, <3>1, <3>2, <3>3
  <2>4. Shutdown'
    BY <1>4, <2>1 DEF Take
  <2> QED
    BY <2>2, <2>3, <2>4
<1> QED
  BY <1>1, <1>2, <1>3, <1>4, <1>5 DEF Next, Main, Worker

(* Only Take and RunTask move a task.                                      *)
LEMMA OnceStep == ASSUME IInv, Next PROVE ExactlyOnce'
<1> USE DEF IInv, TypeOK
<1> DEFINE started == 1 .. accepted - Len(tasks)
           taken == {running[w] : w \in Running}
<1>1. ASSUME NEW w \in Workers, Take(w) PROVE ExactlyOnce'
  <2> DEFINE k == Head(tasks)
  <2>1. /\ Len(tasks') = Len(tasks) - 1 /\ Len(tasks) > 0
        /\ k = accepted - Len(tasks) + 1 /\ k # 0
    BY <1>1 DEF Take, InOrder, Accounted
  <2>2. started' = started \union {k} /\ k \notin started
    BY <1>1, <2>1 DEF Take, Accounted
  <2>3. Running' = Running \union {w} /\ w \notin Running
    BY <1>1 DEF Take, Running
  <2>4. running'[w] = k /\ \A v \in Running : running'[v] = running[v]
    BY <1>1, <2>3 DEF Take, Running
  <2>5. taken' = taken \union {k}
    BY <2>3, <2>4
  <2> HIDE DEF started, taken, k
  <2>6. started = finished \union taken /\ k \notin finished /\ k \notin taken
    BY <2>2 DEF ExactlyOnce, started, taken
  <2>7. \A v \in Running : running[v] # k /\ running[v] \notin finished
    BY <2>6 DEF ExactlyOnce, taken
  <2>8. started' = finished' \union taken'
    BY <2>2, <2>5, <2>6, <1>1 DEF Take
  <2>9. \A v \in Running' : running'[v] \notin finished'
    BY <2>3, <2>4, <2>6, <2>7, <1>1 DEF Take
  <2>10. \A u, v \in Running' : running'[u] = running'[v] => u = v
    BY <2>3, <2>4, <2>7 DEF ExactlyOnce
  <2> QED
    BY <2>8, <2>9, <2>10 DEF ExactlyOnce, started, taken
<1>2. ASSUME NEW w \in Workers, RunTask(w) PROVE ExactlyOnce'
  <2>1. Running' = Running \ {w} /\ w \in Running
    BY <1>2 DEF RunTask, Running
  <2>2. \A v \in Running' : running'[v] = running[v]
    BY <1>2, <2>1 DEF RunTask, Running
  <2>3. taken' = {running[v] : v \in Running \ {w}}
    BY <2>1, <2>2
  <2>4. started' = started /\ finished' = finished \union {running[w]}
    BY <1>2 DEF RunTask
  <2>5. started' = finished' \union taken'
    BY <2>1, <2>3, <2>4 DEF ExactlyOnce
  <2>6. \A v \in Running' : running'[v] \notin finished'
    BY <2>1, <2>2, <2>4 DEF ExactlyOnce
  <2>7. \A u, v \in Running' : running'[u] = running'[v] => u = v
    BY <2>1, <2>2 DEF ExactlyOnce
  <2> QED
    BY <2>5, <2>6, <2>7 DEF ExactlyOnce
<1>3. CASE Enqueue
  <2>1. accepted' - Len(tasks') = accepted - Len(tasks)
    BY <1>3 DEF Enqueue
  <2>2. UNCHANGED <<finished, running, Running>>
    BY <1>3 DEF Enqueue, Running
  <2> QED
    BY <2>1, <2>2 DEF ExactlyOnce
<1>4. CASE EnqueueFull \/ NotifyOne \/ Stop \/ NotifyAll \/ Join \/ Done
  <2>1. UNCHANGED <<tasks, accepted, finished, running>> /\ Running' = Running
    BY <1>4 DEF EnqueueFull, NotifyOne, Stop, NotifyAll, Join, Done, vars, Running, Waiting
  <2> QED
    BY <2>1 DEF ExactlyOnce
<1>5. ASSUME NEW w \in Workers, Sleep(w) \/ TakeLock(w) \/ SpuriousWakeup(w) \/ Exit(w)
      PROVE  ExactlyOnce'
  <2>1. UNCHANGED <<tasks, accepted, finished, running>> /\ Running' = Running
    BY <1>5 DEF Sleep, TakeLock, SpuriousWakeup, Exit, Running
  <2> QED
    BY <2>1 DEF ExactlyOnce
<1> QED
  BY <1>1, <1>2, <1>3, <1>4, <1>5 DEF Next, Main, Worker

(* The workers on their way to the queue cover the tasks in it.            *)
LEMMA WakeupStep == ASSUME IInv, Next PROVE NoTaskOverslept'
<1> USE DEF IInv, TypeOK
<1> DEFINE bonus == IF main = "notify" THEN 1 ELSE 0
<1>0. IsFiniteSet(Testing) /\ Cardinality(Testing) \in Nat /\ Len(tasks) \in Nat
  BY StateSets
<1>1. CASE Enqueue
  <2>1. /\ Waiting' = Waiting /\ Testing' = Testing
        /\ Len(tasks') = Len(tasks) + 1 /\ main = "free" /\ main' = "notify"
    BY <1>1 DEF Enqueue, Waiting, Testing
  <2> QED
    BY <1>0, <2>1 DEF NoTaskOverslept
<1>2. CASE EnqueueFull \/ Stop \/ Join \/ Done
  <2>1. Waiting' = Waiting /\ Testing' = Testing /\ tasks' = tasks
    BY <1>2 DEF EnqueueFull, Stop, Join, Done, vars, Waiting, Testing
  <2>2. main' = "notify" <=> main = "notify"
    BY <1>2 DEF EnqueueFull, Stop, Join, Done, vars
  <2> QED
    BY <2>1, <2>2 DEF NoTaskOverslept
<1>3. CASE NotifyOne
  <2>1. CASE Waiting = {}
    BY <1>3, <2>1 DEF NotifyOne, NoTaskOverslept, Waiting
  <2>2. CASE Waiting # {}
    <3>1. PICK w \in Waiting : worker' = [worker EXCEPT ![w] = "test"]
      BY <1>3, <2>2 DEF NotifyOne
    <3>2. Testing' = Testing \union {w} /\ w \notin Testing
      BY <3>1 DEF Waiting, Testing
    <3>3. Cardinality(Testing') = Cardinality(Testing) + 1
      BY <1>0, <3>2, FS_AddElement
    <3>4. tasks' = tasks /\ main = "notify" /\ main' = "free"
      BY <1>3 DEF NotifyOne
    <3> QED
      BY <1>0, <2>2, <3>3, <3>4 DEF NoTaskOverslept
  <2> QED
    BY <2>1, <2>2
<1>4. CASE NotifyAll
  BY <1>4 DEF NotifyAll, NoTaskOverslept, Waiting
<1>5. ASSUME NEW w \in Workers, Sleep(w) PROVE NoTaskOverslept'
  <2>1. tasks' = <<>> /\ Testing' \subseteq Workers
    BY <1>5 DEF Sleep, Testing
  <2>2. Cardinality(Testing') \in Nat
    BY <2>1, WorkersAssumption, FS_Subset, FS_CardinalityType
  <2> QED
    BY <2>1, <2>2 DEF NoTaskOverslept
<1>6. ASSUME NEW w \in Workers, Exit(w) PROVE NoTaskOverslept'
  <2>1. tasks' = <<>> /\ Testing' \subseteq Workers
    BY <1>6 DEF Exit, Testing
  <2>2. Cardinality(Testing') \in Nat
    BY <2>1, WorkersAssumption, FS_Subset, FS_CardinalityType
  <2> QED
    BY <2>1, <2>2 DEF NoTaskOverslept
<1>7. ASSUME NEW w \in Workers, Take(w) PROVE NoTaskOverslept'
  <2>1. Testing' = Testing \ {w} /\ w \in Testing /\ Waiting' = Waiting /\ main' = main
    BY <1>7 DEF Take, Testing, Waiting
  <2>2. Cardinality(Testing') = Cardinality(Testing) - 1
    BY <1>0, <2>1, FS_RemoveElement
  <2>3. Len(tasks') = Len(tasks) - 1
    BY <1>7 DEF Take
  <2> QED
    BY <1>0, <2>1, <2>2, <2>3 DEF NoTaskOverslept
<1>9. ASSUME NEW w \in Workers, TakeLock(w) PROVE NoTaskOverslept'
  BY <1>9 DEF TakeLock, NoTaskOverslept, Waiting, Testing
<1>8. ASSUME NEW w \in Workers, SpuriousWakeup(w) \/ RunTask(w) PROVE NoTaskOverslept'
  <2>1. /\ Testing' = Testing \union {w} /\ w \notin Testing
        /\ Waiting' \subseteq Waiting /\ tasks' = tasks /\ main' = main
    BY <1>8 DEF SpuriousWakeup, RunTask, Testing, Waiting
  <2>2. Cardinality(Testing') = Cardinality(Testing) + 1
    BY <1>0, <2>1, FS_AddElement
  <2> QED
    BY <1>0, <2>1, <2>2 DEF NoTaskOverslept
<1> QED
  BY <1>1, <1>2, <1>3, <1>4, <1>5, <1>6, <1>7, <1>8, <1>9 DEF Next, Main, Worker

LEMMA Stutter == IInv /\ UNCHANGED vars => IInv'
BY DEF IInv, vars, TypeOK, Occupied, Accounted, InOrder, ExactlyOnce,
   NoTaskOverslept, QueueBounded, Shutdown, Waiting, Testing, Running

(* The invariant holds in every reachable state.                           *)
THEOREM Invariant == Spec => []IInv
<1>1. IInv /\ [Next]_vars => IInv'
  BY TypeStep, QueueStep, OnceStep, WakeupStep, Stutter DEF IInv
<1> QED
  BY InitIInv, <1>1, PTL DEF Spec

(* Every variable keeps its type.                                          *)
THEOREM TypeCorrect == Spec => []TypeOK
<1>1. IInv => TypeOK
  BY DEF IInv
<1> QED
  BY Invariant, <1>1, PTL

(* Tasks leave the queue in the order they came, each to one worker, each  *)
(* run once, and the queue stays within queue_size.                        *)
THEOREM TasksRunOnce == Spec => [](InOrder /\ ExactlyOnce /\ QueueBounded)
<1>1. IInv => InOrder /\ ExactlyOnce /\ QueueBounded
  BY DEF IInv
<1> QED
  BY Invariant, <1>1, PTL

(* No wakeup is lost: a worker never sleeps on a task nobody comes for.    *)
THEOREM NoLostWakeup == Spec => []NoTaskOverslept
<1>1. IInv => NoTaskOverslept
  BY DEF IInv
<1> QED
  BY Invariant, <1>1, PTL

(* When the destructor returns, a pool that has a worker has run every     *)
(* task it accepted.                                                       *)
THEOREM ShutdownDrains == Spec => []DrainedAtExit
<1>1. ASSUME IInv PROVE DrainedAtExit
  <2>1. ASSUME main = "gone", Workers # {} PROVE finished = 1 .. accepted
    <3>1. Running = {} /\ tasks = <<>>
      BY <1>1, <2>1 DEF IInv, Shutdown, Running
    <3>2. accepted - Len(tasks) = accepted
      BY <1>1, <3>1 DEF IInv, TypeOK
    <3> QED
      BY <1>1, <3>1, <3>2 DEF IInv, ExactlyOnce
  <2> QED
    BY <1>1, <2>1 DEF DrainedAtExit, IInv, Shutdown
<1> QED
  BY Invariant, <1>1, PTL

-----------------------------------------------------------------------------
(* The pool implements the task queue: the safety part; that a free worker *)
(* does start a waiting task in the end is left to TLC.                    *)
LEMMA QueueInit == Init => Queue!Init
<1> SUFFICES ASSUME Init PROVE Queue!Init
  OBVIOUS
<1>1. {w \in Workers : worker[w] = "exit"} = {}
  BY DEF Init
<1> QED
  BY <1>1 DEF Init, Queue!Init

LEMMA QueueNext ==
  ASSUME IInv, Next
  PROVE  Queue!Next \/ UNCHANGED Queue!vars
<1> USE DEF IInv, TypeOK
<1> DEFINE gone == {w \in Workers : worker[w] = "exit"}
<1>1. CASE Enqueue
  <2>1. gone' = gone /\ ~quit /\ Len(tasks) < QueueSize
    BY <1>1, SizesAssumption DEF Enqueue, Shutdown, QueueBounded
  <2>2. Queue!Accept
    BY <1>1, <2>1 DEF Enqueue, Queue!Accept
  <2> QED
    BY <2>2 DEF Queue!Next
<1>2. CASE EnqueueFull
  <2>1. Queue!Refuse
    BY <1>2 DEF EnqueueFull, Shutdown, Queue!Refuse
  <2> QED
    BY <2>1 DEF Queue!Next
<1>3. CASE Stop
  <2>1. Queue!Close
    BY <1>3 DEF Stop, Shutdown, Queue!Close
  <2> QED
    BY <2>1 DEF Queue!Next
<1>4. CASE NotifyOne \/ NotifyAll \/ Join \/ Done
  <2>1. gone' = gone /\ UNCHANGED <<tasks, accepted, outcome, running, quit>>
    BY <1>4 DEF NotifyOne, NotifyAll, Join, Done, vars, Waiting
  <2> QED
    BY <2>1 DEF Queue!vars
<1>5. ASSUME NEW w \in Workers, Sleep(w) \/ TakeLock(w) \/ SpuriousWakeup(w)
      PROVE  UNCHANGED Queue!vars
  <2>1. gone' = gone /\ UNCHANGED <<tasks, accepted, outcome, running, quit>>
    BY <1>5 DEF Sleep, TakeLock, SpuriousWakeup
  <2> QED
    BY <2>1 DEF Queue!vars
<1>6. ASSUME NEW w \in Workers, Exit(w) PROVE Queue!Next
  <2>1. gone' = gone \union {w} /\ running[w] = 0
    BY <1>6 DEF Exit, Occupied
  <2>2. Queue!Leave(w)
    BY <1>6, <2>1 DEF Exit, Queue!Leave
  <2> QED
    BY <2>2 DEF Queue!Next
<1>7. ASSUME NEW w \in Workers, Take(w) PROVE Queue!Next
  <2>1. gone' = gone /\ w \notin gone /\ running[w] = 0
    BY <1>7 DEF Take, Occupied
  <2>2. Queue!Start(w)
    BY <1>7, <2>1 DEF Take, Queue!Start
  <2> QED
    BY <2>2 DEF Queue!Next
<1>8. ASSUME NEW w \in Workers, RunTask(w) PROVE Queue!Next
  <2>1. gone' = gone /\ running[w] # 0
    BY <1>8 DEF RunTask, Occupied
  <2>2. Queue!Finish(w)
    BY <1>8, <2>1 DEF RunTask, Queue!Finish
  <2> QED
    BY <2>2 DEF Queue!Next
<1> QED
  BY <1>1, <1>2, <1>3, <1>4, <1>5, <1>6, <1>7, <1>8 DEF Next, Main, Worker

(* What the callers of the pool see is a bounded first-come, first-served  *)
(* queue that is left only when it is closed and empty.                    *)
THEOREM PoolIsQueue == Spec => Queue!Safety
<1>1. ASSUME IInv, [Next]_vars PROVE [Queue!Next]_(Queue!vars)
  <2>1. CASE UNCHANGED vars
    BY <2>1 DEF vars, Queue!vars
  <2> QED
    BY <1>1, <2>1, QueueNext
<1> QED
  BY <1>1, QueueInit, Invariant, PTL DEF Spec, Queue!Safety
==============================================================================
