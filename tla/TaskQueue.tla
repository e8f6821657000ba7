------------------------------ MODULE TaskQueue ------------------------------
(***************************************************************************)
(* What the commands expect of the worker pool: a bounded queue from which *)
(* idle workers take the tasks in order, that refuses a task when it is    *)
(* full, and that, once closed, lets the workers leave only when nothing   *)
(* is left to do.  A task that waits while a worker is free is eventually  *)
(* started: there is no condition variable here to lose a wakeup.          *)
(* WorkerPool.tla implements it.                                           *)
(***************************************************************************)
EXTENDS Integers, Sequences

CONSTANTS Workers, QueueSize

VARIABLES
  queue,     \* the tasks that wait, 1, 2, ... in the order they were accepted
  accepted,  \* how many tasks have been accepted
  outcome,   \* the answer to the last enqueue
  busy,      \* [Workers -> task it runs, or 0]
  gone,      \* the workers that have left
  closed

vars == <<queue, accepted, outcome, busy, gone, closed>>

Init ==
  /\ queue = <<>>
  /\ accepted = 0
  /\ outcome = "none"
  /\ busy = [w \in Workers |-> 0]
  /\ gone = {}
  /\ closed = FALSE

Accept ==
  /\ ~closed
  /\ Len(queue) < QueueSize
  /\ accepted' = accepted + 1
  /\ queue' = Append(queue, accepted + 1)
  /\ outcome' = "queued"
  /\ UNCHANGED <<busy, gone, closed>>

Refuse ==
  /\ ~closed
  /\ Len(queue) = QueueSize
  /\ outcome' = "full"
  /\ UNCHANGED <<queue, accepted, busy, gone, closed>>

Start(w) ==
  /\ w \notin gone /\ busy[w] = 0
  /\ queue # <<>>
  /\ busy' = [busy EXCEPT ![w] = Head(queue)]
  /\ queue' = Tail(queue)
  /\ UNCHANGED <<accepted, outcome, gone, closed>>

Finish(w) ==
  /\ busy[w] # 0
  /\ busy' = [busy EXCEPT ![w] = 0]
  /\ UNCHANGED <<queue, accepted, outcome, gone, closed>>

Close ==
  /\ ~closed
  /\ closed' = TRUE
  /\ UNCHANGED <<queue, accepted, outcome, busy, gone>>

Leave(w) ==
  /\ closed
  /\ queue = <<>> /\ busy[w] = 0
  /\ gone' = gone \union {w}
  /\ UNCHANGED <<queue, accepted, outcome, busy, closed>>

Next ==
  \/ Accept \/ Refuse \/ Close
  \/ \E w \in Workers : Start(w) \/ Finish(w) \/ Leave(w)

Safety == Init /\ [][Next]_vars

(* A task does not wait for ever while a worker is free to take it, and a  *)
(* closed queue is left by everybody.                                      *)
Spec ==
  /\ Safety
  /\ WF_vars(\E w \in Workers : Start(w))
  /\ \A w \in Workers : WF_vars(Leave(w))
==============================================================================
