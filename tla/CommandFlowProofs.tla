-------------------------- MODULE CommandFlowProofs --------------------------
(***************************************************************************)
(* Proofs about CommandFlow for every set of workers, every QUEUE_SIZE,    *)
(* every number of commands and every capacity of the store.               *)
(***************************************************************************)
EXTENDS CommandFlow, TLAPS, FiniteSetTheorems, SequenceTheorems

(* How many jobs have left the queue.                                      *)
Taken == Len(jobs) - Len(queue)

(* A job is a call that has been deferred, and handed over once.           *)
HandedOnce ==
  /\ \A k \in 1 .. Len(jobs) : jobs[k] \in Issued /\ calls[jobs[k]] \in Deferred
  /\ \A k, m \in 1 .. Len(jobs) : jobs[k] = jobs[m] => k = m

(* The queue is what has been handed over last, in order.                  *)
QueueInOrder ==
  /\ Len(queue) <= Len(jobs)
  /\ \A k \in 1 .. Len(queue) : queue[k] = Taken + k

(* A worker that is not idle has a job nobody else has, of the kind its    *)
(* step is about.                                                          *)
WorkersBusy ==
  /\ \A w \in Workers : busy[w] <= Taken /\ (step[w] = "idle" <=> busy[w] = 0)
  /\ \A v, w \in Workers : busy[v] = busy[w] /\ busy[v] # 0 => v = w
  /\ \A w \in Workers :
       /\ step[w] = "name" => IsAuto(Call(w))
       /\ step[w] = "store" => IsAdd(Call(w)) /\ named[w] \in Ids
       /\ step[w] = "search" => IsKnn(Call(w))

(* A client is unblocked once, for a job no worker has any more.           *)
UnblockedOnce ==
  /\ \A k \in 1 .. Len(unblocked) : \E j \in 1 .. Taken : unblocked[k] = jobs[j]
  /\ \A k, m \in 1 .. Len(unblocked) : unblocked[k] = unblocked[m] => k = m
  /\ \A k \in 1 .. Len(unblocked), w \in Workers : busy[w] # 0 => unblocked[k] # Call(w)

(* The call the main thread adds for is the latest, and nothing has come   *)
(* of it yet.                                                              *)
MainAdds ==
  main.at = "add" =>
    /\ Len(calls) > 0
    /\ IsAdd(Last) /\ ~calls[Last].async
    /\ reply[Last] = "none" /\ made[Last] = 0
    /\ \A i \in Ids : vec[i] # Last

(* No trace of a call before it is issued; nor, but for a client that has  *)
(* left, before a worker has stored or searched for it.                    *)
NothingEarly ==
  /\ \A c \in Calls : c > Len(calls) => reply[c] = "none" /\ made[c] = 0 /\ found[c] = {0}
  /\ \A k \in 1 .. Len(jobs) : k > Taken => made[jobs[k]] = 0 /\ found[jobs[k]] = {0}
  /\ \A w \in Workers :
       busy[w] # 0 /\ step[w] # "unblock" => made[Call(w)] = 0 /\ found[Call(w)] = {0}

(* A call that has been answered is nowhere in the pool.                   *)
AnsweredLast ==
  \A c \in Issued : reply[c] \in {"ok", "error"} =>
    /\ \A k \in 1 .. Len(jobs) : k > Taken => jobs[k] # c
    /\ \A w \in Workers : busy[w] # 0 => Call(w) # c
    /\ \A k \in 1 .. Len(unblocked) : unblocked[k] # c

FoundByKnn ==
  \A c \in Issued : (found[c] # {0} => IsKnn(c)) /\ (IsKnn(c) => made[c] = 0)

(* The automatic ids given out, and the calls that will still ask for one. *)
Numbered ==
  {c \in Issued : IsAuto(c) /\
     \/ made[c] # 0
     \/ main.at = "add" /\ c = Last
     \/ \E w \in Workers : step[w] = "store" /\ Call(w) = c}

Unnumbered ==
  {c \in Issued : IsAuto(c) /\
     \/ \E k \in 1 .. Len(jobs) : k > Taken /\ jobs[k] = c
     \/ \E w \in Workers : step[w] \in {"embed", "name"} /\ Call(w) = c}

AutoShipped == {c \in shipped : IsAuto(c)}

Counted ==
  /\ Cardinality(Numbered) <= idIdx
  /\ idIdx + Cardinality(Unnumbered) <= Len(calls)
  /\ rIdIdx = Cardinality(AutoShipped)

(* Before the index is there, nothing is stored.                           *)
EmptyUnlessReady ==
  index # "ready" =>
    /\ \A c \in Issued : IsAdd(c) => made[c] = 0
    /\ \A i \in Ids : store[i] = 0

(* The index holds an embedding for what is stored, and for what a failed  *)
(* add has left; one that is not of the stored item is of an asynchronous  *)
(* add, or of a failed one.                                                *)
InIndex ==
  \A i \in Ids :
    /\ store[i] # 0 => vec[i] # 0
    /\ vec[i] # 0 => vec[i] \in Issued /\ (store[i] # 0 \/ i \in torn)
    /\ store[i] # 0 /\ vec[i] # store[i] => calls[vec[i]].async \/ made[vec[i]] = 0

(* No label without a slot.                                                *)
Slots == IsFiniteSet(labels) /\ Cardinality(labels) <= MaxElements

(* What a call has stored stays until another call writes under that id:   *)
(* its embedding until one fails in the index.                             *)
StoredStays ==
  \A c \in Issued :
    made[c] # 0 /\ IsAdd(c) /\ Alone(c) /\ reply[c] \in {"none", "ok"} =>
      store[made[c]] = c /\ (made[c] \notin torn => vec[made[c]] = c)

(* What is stored was added after the removals of its id, or by a worker.  *)
AddedAfterRemoval ==
  \A i \in Ids : store[i] # 0 =>
    \E a \in Writers(i) :
      /\ IsAdd(a)
      /\ \A e \in Writers(i) : calls[e].op = "rem" /\ a < e => calls[a].async

(* Where a job can be.                                                     *)
Somewhere(c) ==
  \/ \E k \in 1 .. Len(queue) : jobs[queue[k]] = c
  \/ \E w \in Workers : busy[w] # 0 /\ Call(w) = c
  \/ \E k \in 1 .. Len(unblocked) : unblocked[k] = c

NobodyForgotten == index # "null" => \A c \in Issued : Blocked(c) => Somewhere(c)

Bookkeeping ==
  /\ HandedOnce /\ QueueInOrder /\ WorkersBusy /\ UnblockedOnce
  /\ MainAdds /\ NothingEarly /\ AnsweredLast

IInv ==
  /\ TypeOK
  /\ Bookkeeping
  /\ FoundByKnn
  /\ Counted
  /\ AnswerTells
  /\ ReplicatedIffAcknowledged
  /\ EmptyUnlessReady
  /\ InIndex
  /\ Slots
  /\ StoredStays
  /\ AddedAfterRemoval
  /\ NobodyForgotten
  /\ UncontendedReplicated
  /\ NamedSyncReplicated
  /\ RemovedNotFound

-----------------------------------------------------------------------------
(* What the steps below need of requests, numbers and sequences.           *)

(* Every request is an add, a removal or a search; the deferred ones are   *)
(* the searches and the asynchronous adds.                                 *)
LEMMA RequestKinds ==
  ASSUME NEW r \in Requests
  PROVE  /\ r.op \in {"add", "rem", "knn"}
         /\ r.op = "add" => r.id \in ExplicitIds \union {NoId} /\ r.async \in BOOLEAN
         /\ r.op = "add" => (r \in Deferred <=> r.async)
         /\ r.op = "knn" => r \in Deferred
         /\ r.op = "rem" => r \notin Deferred
<1>1. CASE r \in [op : {"rem"}, id : ExplicitIds]
  BY <1>1 DEF Deferred
<1>2. CASE r \in [op : {"add"}, id : ExplicitIds \union {NoId}, async : BOOLEAN]
  <2>1. r.op = "add" /\ r.id \in ExplicitIds \union {NoId} /\ r.async \in BOOLEAN
    BY <1>2
  <2>2. r = [op |-> "add", id |-> r.id, async |-> r.async]
    BY <1>2
  <2>3. r.async => r \in Deferred
    BY <2>1, <2>2 DEF Deferred
  <2>4. r \in Deferred => r.async
    BY <2>1 DEF Deferred
  <2> QED
    BY <2>1, <2>3, <2>4
<1>3. CASE r \in [op : {"knn"}]
  <2>1. r.op = "knn"
    BY <1>3
  <2> QED
    BY <1>3, <2>1 DEF Deferred
<1> QED
  BY <1>1, <1>2, <1>3 DEF Requests

(* What is deferred is a request.                                          *)
LEMMA DeferredRequests == Deferred \subseteq Requests
BY DEF Deferred, Requests

(* The sizes of the sequences, and where their elements come from.         *)
LEMMA Numbers ==
  ASSUME TypeOK
  PROVE  /\ Len(calls) \in Nat /\ Len(jobs) \in Nat /\ Len(queue) \in Nat
         /\ Len(unblocked) \in Nat
         /\ Issued \subseteq Calls /\ Calls \subseteq Ids /\ Ids \subseteq Nat \ {0}
         /\ \A c \in Issued : calls[c] \in Requests
         /\ \A k \in 1 .. Len(jobs) : jobs[k] \in Calls
         /\ \A k \in 1 .. Len(queue) : queue[k] \in 1 .. Len(jobs)
         /\ \A k \in 1 .. Len(unblocked) : unblocked[k] \in Calls
         /\ MaxCalls \in Nat
<1>1. /\ Len(calls) \in Nat /\ Len(jobs) \in Nat /\ Len(queue) \in Nat
      /\ Len(unblocked) \in Nat
  BY DEF TypeOK
<1>2. MaxCalls \in Nat /\ Calls \subseteq Ids /\ Ids \subseteq Nat \ {0}
  BY SizesAssumption, IdsAssumption DEF Calls, Ids
<1>3. Issued \subseteq Calls
  BY <1>1, <1>2 DEF TypeOK, Issued, Calls
<1>4. \A c \in Issued : calls[c] \in Requests
  BY <1>1 DEF TypeOK, Issued
<1>5. /\ \A k \in 1 .. Len(jobs) : jobs[k] \in Calls
      /\ \A k \in 1 .. Len(queue) : queue[k] \in 1 .. Len(jobs)
      /\ \A k \in 1 .. Len(unblocked) : unblocked[k] \in Calls
  BY DEF TypeOK
<1> QED
  BY <1>1, <1>2, <1>3, <1>4, <1>5

(* A command that arrives is the next call.                                *)
LEMMA Received ==
  ASSUME TypeOK, NEW r \in Requests, Receive(r)
  PROVE  /\ calls' \in Seq(Requests) /\ Len(calls') = New /\ Len(calls') <= MaxCalls
         /\ New \in Calls /\ New \notin Issued /\ Issued' = Issued \union {New}
         /\ calls'[New] = r
         /\ \A c \in Issued : calls'[c] = calls[c]
         /\ main = Free /\ alive
<1>1. /\ calls \in Seq(Requests) /\ calls' = Append(calls, r) /\ Len(calls) < MaxCalls
      /\ main = Free /\ alive
  BY DEF TypeOK, Receive, Ready
<1>2. /\ calls' \in Seq(Requests) /\ Len(calls') = Len(calls) + 1
      /\ calls'[Len(calls) + 1] = r
      /\ \A c \in 1 .. Len(calls) : calls'[c] = calls[c]
  BY <1>1
<1> QED
  BY <1>1, <1>2, Numbers DEF New, Issued, Calls

(* A job that is handed over is the last one, of the queue too.            *)
LEMMA Accepted ==
  ASSUME TypeOK, NEW c \in Calls, jobs' = Append(jobs, c), Pool!Accept
  PROVE  /\ jobs' \in Seq(Calls) /\ Len(jobs') = Len(jobs) + 1
         /\ jobs'[Len(jobs) + 1] = c
         /\ \A k \in 1 .. Len(jobs) : jobs'[k] = jobs[k]
         /\ queue' \in Seq(1 .. Len(jobs')) /\ Len(queue') = Len(queue) + 1
         /\ queue'[Len(queue) + 1] = Len(jobs) + 1
         /\ \A k \in 1 .. Len(queue) : queue'[k] = queue[k]
         /\ Taken' = Taken
         /\ busy' = busy /\ outcome' = "queued"
<1>0. jobs \in Seq(Calls) /\ queue \in Seq(1 .. Len(jobs))
  BY DEF TypeOK
<1>1. /\ jobs' \in Seq(Calls) /\ Len(jobs') = Len(jobs) + 1
      /\ jobs'[Len(jobs) + 1] = c
      /\ \A k \in 1 .. Len(jobs) : jobs'[k] = jobs[k]
  BY <1>0
<1>2. queue' = Append(queue, Len(jobs) + 1) /\ busy' = busy /\ outcome' = "queued"
  BY DEF Pool!Accept
<1>3. queue \in Seq(1 .. Len(jobs'))
  BY <1>0, <1>1, SeqMonotonic
<1>4. Len(jobs) + 1 \in 1 .. Len(jobs')
  BY <1>1, Numbers
<1> HIDE <1>0
<1>5. /\ queue' \in Seq(1 .. Len(jobs')) /\ Len(queue') = Len(queue) + 1
      /\ queue'[Len(queue) + 1] = Len(jobs) + 1
      /\ \A k \in 1 .. Len(queue) : queue'[k] = queue[k]
  BY <1>2, <1>3, <1>4
<1> QED
  BY <1>1, <1>2, <1>5, Numbers DEF Taken

(* The job a worker starts is the first in the queue.                      *)
LEMMA Started ==
  ASSUME TypeOK, QueueInOrder, NEW w \in Workers, Pool!Start(w), jobs' = jobs
  PROVE  /\ queue' \in Seq(1 .. Len(jobs')) /\ Len(queue') = Len(queue) - 1
         /\ \A k \in 1 .. Len(queue') : queue'[k] = queue[k + 1]
         /\ Taken' = Taken + 1 /\ Taken' \in 1 .. Len(jobs)
         /\ Head(queue) = Taken'
         /\ busy[w] = 0 /\ busy' = [busy EXCEPT ![w] = Taken'] /\ outcome' = outcome
<1>0. queue \in Seq(1 .. Len(jobs)) /\ queue # <<>> /\ queue' = Tail(queue)
  BY DEF TypeOK, Pool!Start
<1>1. /\ queue' \in Seq(1 .. Len(jobs)) /\ Len(queue') = Len(queue) - 1
      /\ \A k \in 1 .. Len(queue') : queue'[k] = queue[k + 1]
  BY <1>0, HeadTailProperties
<1>2. Len(queue) > 0 /\ Head(queue) = queue[1]
  BY <1>0
<1>3. Taken' = Taken + 1 /\ Taken' \in 1 .. Len(jobs) /\ Head(queue) = Taken'
  BY <1>1, <1>2, Numbers DEF Taken, QueueInOrder
<1>4. busy[w] = 0 /\ busy' = [busy EXCEPT ![w] = Head(queue)] /\ outcome' = outcome
  BY DEF Pool!Start
<1> QED
  BY <1>1, <1>3, <1>4

(* A worker that has finished has no job, and the queue is as it was.      *)
LEMMA Finished ==
  ASSUME TypeOK, NEW w \in Workers, Pool!Finish(w)
  PROVE  /\ queue' = queue /\ outcome' = outcome
         /\ busy[w] # 0 /\ busy' = [busy EXCEPT ![w] = 0]
BY DEF Pool!Finish

(* The client whose turn it is.                                            *)
LEMMA Popped ==
  ASSUME TypeOK, unblocked # <<>>, unblocked' = Tail(unblocked)
  PROVE  /\ unblocked' \in Seq(Calls) /\ Len(unblocked') = Len(unblocked) - 1
         /\ \A k \in 1 .. Len(unblocked') : unblocked'[k] = unblocked[k + 1]
         /\ Len(unblocked) > 0 /\ Head(unblocked) = unblocked[1] /\ Head(unblocked) \in Calls
<1>1. unblocked \in Seq(Calls)
  BY DEF TypeOK
<1>2. /\ unblocked' \in Seq(Calls) /\ Len(unblocked') = Len(unblocked) - 1
      /\ \A k \in 1 .. Len(unblocked') : unblocked'[k] = unblocked[k + 1]
      /\ Head(unblocked) \in Calls
  BY <1>1, HeadTailProperties
<1> QED
  BY <1>1, <1>2

(* The job of a worker.                                                    *)
LEMMA Employed ==
  ASSUME TypeOK, HandedOnce, QueueInOrder, WorkersBusy, NEW w \in Workers, busy[w] # 0
  PROVE  /\ busy[w] \in 1 .. Len(jobs) /\ busy[w] \in 1 .. Taken
         /\ Call(w) \in Issued /\ Call(w) \in Calls
         /\ calls[Call(w)] \in Deferred
         /\ IsAdd(Call(w)) => calls[Call(w)].id \in ExplicitIds \union {NoId}
         /\ IsAdd(Call(w)) \/ IsKnn(Call(w))
<1>1. busy[w] \in 0 .. Len(jobs) /\ busy[w] <= Taken
  BY DEF TypeOK, WorkersBusy
<1>2. busy[w] \in 1 .. Len(jobs) /\ busy[w] \in 1 .. Taken
  BY <1>1, Numbers DEF Taken, QueueInOrder
<1>3. Call(w) \in Issued /\ Call(w) \in Calls /\ calls[Call(w)] \in Deferred
  BY <1>2, Numbers DEF Call, HandedOnce
<1>4. calls[Call(w)] \in Requests
  BY <1>3, Numbers
<1> QED
  BY <1>2, <1>3, <1>4, RequestKinds DEF IsAdd, IsKnn

(* A client in the list of the unblocked had been deferred.                *)
LEMMA ToBeAnswered ==
  ASSUME TypeOK, HandedOnce, QueueInOrder, UnblockedOnce,
         NEW k \in 1 .. Len(unblocked)
  PROVE  unblocked[k] \in Issued /\ calls[unblocked[k]] \in Deferred
<1>1. PICK j \in 1 .. Taken : unblocked[k] = jobs[j]
  BY DEF UnblockedOnce
<1>2. j \in 1 .. Len(jobs)
  BY Numbers DEF Taken
<1> QED
  BY <1>1, <1>2 DEF HandedOnce

(* The same of the sizes after a step.                                     *)
LEMMA NumbersNext ==
  ASSUME TypeOK'
  PROVE  /\ Len(calls') \in Nat /\ Len(jobs') \in Nat /\ Len(queue') \in Nat
         /\ Issued' \subseteq Calls
         /\ \A c \in Issued' : calls'[c] \in Requests
<1>1. /\ calls' \in Seq(Requests) /\ Len(calls') <= MaxCalls
      /\ Len(jobs') \in Nat /\ Len(queue') \in Nat
  BY DEF TypeOK, Requests
<1>2. Len(calls') \in Nat /\ \A c \in 1 .. Len(calls') : calls'[c] \in Requests
  BY <1>1
<1> QED
  BY <1>1, <1>2, SizesAssumption DEF Issued, Calls

-----------------------------------------------------------------------------
(* Types                                                                   *)

(* Nothing has been issued, handed over or unblocked at first.             *)
LEMMA Initially ==
  ASSUME Init
  PROVE  Issued = {} /\ Len(calls) = 0 /\ Len(jobs) = 0 /\ Len(queue) = 0
         /\ Len(unblocked) = 0 /\ Taken = 0
BY DEF Init, Issued, Taken

(* The initial state has the right types.                                  *)
LEMMA InitTypes == ASSUME Init PROVE TypeOK
<1> USE Initially DEF Init
<1>1. /\ calls \in Seq(Requests) /\ Len(calls) <= MaxCalls
      /\ jobs \in Seq(Calls) /\ queue \in Seq(1 .. Len(jobs)) /\ unblocked \in Seq(Calls)
  BY SizesAssumption
<1>2. /\ reply \in [Calls -> {"none", "ok", "error", "nil", "gone", "barred"}]
      /\ made \in [Calls -> Ids \union {0}]
      /\ found \in [Calls -> {{0}} \union SUBSET Ids]
  OBVIOUS
<1>3. /\ busy \in [Workers -> 0 .. Len(jobs)]
      /\ step \in [Workers -> {"idle", "embed", "name", "store", "search", "unblock"}]
      /\ named \in [Workers -> Ids \union {0}]
      /\ outcome \in {"none", "queued", "full"}
  OBVIOUS
<1>4. /\ store \in [Ids -> Items] /\ rStore \in [Ids -> Items]
      /\ vec \in [Ids -> 0 .. MaxCalls] /\ rVec \in [Ids -> -MaxCalls .. MaxCalls]
      /\ idIdx \in 0 .. MaxCalls /\ rIdIdx \in 0 .. MaxCalls
  BY SizesAssumption DEF Items
<1> QED
  BY <1>1, <1>2, <1>3, <1>4 DEF TypeOK

(* An id is free to be given out as long as a call still asks for one.     *)
LEMMA SetsOfCalls ==
  ASSUME TypeOK, shipped \subseteq Issued
  PROVE  /\ IsFiniteSet(Issued) /\ IsFiniteSet(Calls)
         /\ IsFiniteSet(Numbered) /\ Cardinality(Numbered) \in Nat
         /\ IsFiniteSet(Unnumbered) /\ Cardinality(Unnumbered) \in Nat
         /\ IsFiniteSet(AutoShipped) /\ Cardinality(AutoShipped) \in Nat
<1>1. IsFiniteSet(1 .. MaxCalls) /\ IsFiniteSet(1 .. Len(calls))
  BY Numbers, FS_Interval
<1>2. Numbered \subseteq 1 .. Len(calls) /\ Unnumbered \subseteq 1 .. Len(calls)
  BY DEF Numbered, Unnumbered, Issued
<1>3. AutoShipped \subseteq 1 .. Len(calls)
  BY DEF AutoShipped, Issued
<1> QED
  BY <1>1, <1>2, <1>3, FS_Subset, FS_CardinalityType DEF Issued, Calls

(* Storing keeps the types of the store and of the results.                *)
LEMMA StoredTypes ==
  ASSUME TypeOK, NEW c \in Calls, NEW i \in Ids, Stored(c, i)
  PROVE  /\ store' \in [Ids -> Items] /\ vec' \in [Ids -> 0 .. MaxCalls]
         /\ labels' \subseteq Ids /\ torn' \subseteq Ids
         /\ idIdx' \in 0 .. MaxCalls /\ index' \in {"none", "ready", "null"}
         /\ made' \in [Calls -> Ids \union {0}]
         /\ found' \in [Calls -> {{0}} \union SUBSET Ids]
<1>1. store' \in [Ids -> Items]
  <2>1. c \in Items /\ Stray \in Items
    BY Numbers DEF Items, Calls, Stray
  <2>2. PICK d \in {c, Stray} : store' = [store EXCEPT ![i] = d]
    BY DEF Stored
  <2> QED
    BY <2>1, <2>2 DEF TypeOK
<1>2. vec' \in [Ids -> 0 .. MaxCalls]
  BY Numbers DEF Stored, TypeOK, Calls
<1> QED
  BY <1>1, <1>2 DEF Stored, TypeOK

(* An add that is not stored keeps them too.                               *)
LEMMA RefusalTypes ==
  ASSUME TypeOK,
         \/ \E i \in Ids : Refused(i) \/ \E c \in Calls : HalfStored(c, i)
         \/ InitThrows
         \/ UNCHANGED <<storeVars, resultVars>>
  PROVE  /\ store' \in [Ids -> Items] /\ vec' \in [Ids -> 0 .. MaxCalls]
         /\ labels' \subseteq Ids /\ torn' \subseteq Ids
         /\ idIdx' \in 0 .. MaxCalls /\ index' \in {"none", "ready", "null"}
         /\ made' \in [Calls -> Ids \union {0}]
         /\ found' \in [Calls -> {{0}} \union SUBSET Ids]
<1> USE DEF storeVars, resultVars
<1>1. ASSUME NEW i \in Ids, NEW c \in Calls, HalfStored(c, i)
      PROVE  /\ vec' \in [Ids -> 0 .. MaxCalls] /\ labels' \subseteq Ids /\ torn' \subseteq Ids
  <2>1. c \in 0 .. MaxCalls
    BY Numbers DEF Calls
  <2>2. /\ vec \in [Ids -> 0 .. MaxCalls] /\ vec' = [vec EXCEPT ![i] = c]
        /\ labels \subseteq Ids /\ labels' = labels \union {i}
        /\ torn \subseteq Ids /\ torn' = torn \union {i}
    BY <1>1 DEF HalfStored, TypeOK
  <2> QED
    BY <2>1, <2>2
<1>2. CASE \E i \in Ids, c \in Calls : HalfStored(c, i)
  BY <1>1, <1>2 DEF HalfStored, TypeOK
<1>3. CASE (\E i \in Ids : Refused(i)) \/ InitThrows \/ UNCHANGED <<storeVars, resultVars>>
  BY <1>3 DEF Refused, InitThrows, TypeOK
<1> QED
  BY <1>2, <1>3

(* The replica never runs out of automatic ids.                            *)
LEMMA ReplicaTypes ==
  ASSUME TypeOK, Counted, shipped \subseteq Issued,
         NEW c \in Issued, c \notin shipped, NEW i \in Ids, ReplicateAdd(c, i)
  PROVE  /\ shipped' \subseteq Calls
         /\ rStore' \in [Ids -> Items] /\ rVec' \in [Ids -> -MaxCalls .. MaxCalls]
         /\ rLabels' \subseteq Ids
         /\ rIdIdx' \in 0 .. MaxCalls /\ rRefused' \in BOOLEAN
<1>1. IsAuto(c) => rIdIdx + 1 \in 1 .. MaxCalls
  <2> SUFFICES ASSUME IsAuto(c) PROVE rIdIdx + 1 \in 1 .. MaxCalls
    OBVIOUS
  <2>1. AutoShipped \union {c} \subseteq Calls /\ c \notin AutoShipped
    BY Numbers DEF AutoShipped
  <2>2. Cardinality(AutoShipped \union {c}) = rIdIdx + 1
    BY <2>1, SetsOfCalls, FS_AddElement DEF Counted
  <2>3. Cardinality(Calls) = MaxCalls
    BY Numbers, FS_Interval DEF Calls
  <2>4. Cardinality(AutoShipped \union {c}) <= Cardinality(Calls)
    BY <2>1, SetsOfCalls, FS_Subset
  <2> QED
    BY <2>2, <2>3, <2>4, Numbers DEF TypeOK
<1>2. ReplicaId(c, i) \in Ids
  BY <1>1, Numbers DEF ReplicaId, Calls
<1>3. rIdIdx' \in 0 .. MaxCalls
  BY <1>1, Numbers DEF ReplicateAdd, TypeOK
<1>4. c \in Items /\ c \in Calls /\ Embedding(c) \in -MaxCalls .. MaxCalls
  BY Numbers DEF Items, Calls, Embedding
<1> QED
  <2> DEFINE r == ReplicaId(c, i)
  <2>1. /\ shipped' = shipped \union {c}
        /\ \/ /\ rStore' = [rStore EXCEPT ![r] = c] /\ rLabels' = rLabels \union {r}
              /\ rVec' = [rVec EXCEPT ![r] = Embedding(c)] /\ rRefused' = rRefused
           \/ /\ rRefused' = TRUE
              /\ rStore' = rStore /\ rVec' = rVec /\ rLabels' = rLabels
    BY DEF ReplicateAdd, ReplicaAdds
  <2>2. r \in Ids
    BY <1>2
  <2>3. /\ shipped \subseteq Calls /\ rStore \in [Ids -> Items] /\ rLabels \subseteq Ids
        /\ rVec \in [Ids -> -MaxCalls .. MaxCalls] /\ rRefused \in BOOLEAN
    BY DEF TypeOK
  <2> HIDE DEF r
  <2> QED
    BY <2>1, <2>2, <2>3, <1>3, <1>4

(* What has been replicated has been issued.                               *)
LEMMA Acknowledged == IInv => shipped \subseteq Issued
BY DEF IInv, ReplicatedIffAcknowledged

(* A call that still waits for an automatic id has one left for it.        *)
LEMMA IdLeft ==
  ASSUME IInv
  PROVE  /\ idIdx <= Len(calls)
         /\ \A w \in Workers : step[w] = "name" => idIdx + 1 <= Len(calls)
<1> USE DEF IInv, Bookkeeping
<1>1. Cardinality(Unnumbered) \in Nat /\ IsFiniteSet(Unnumbered)
  BY SetsOfCalls, Acknowledged
<1>2. idIdx + Cardinality(Unnumbered) <= Len(calls) /\ idIdx \in Nat
  BY SizesAssumption DEF Counted, TypeOK
<1>3. ASSUME NEW w \in Workers, step[w] = "name" PROVE Cardinality(Unnumbered) # 0
  <2>1. busy[w] # 0 /\ IsAuto(Call(w))
    BY <1>3 DEF WorkersBusy
  <2>2. Call(w) \in Unnumbered
    BY <1>3, <2>1, Employed DEF Unnumbered
  <2> QED
    BY <1>1, <2>2, FS_EmptySet
<1> QED
  BY <1>1, <1>2, <1>3, Numbers

(* The variables that only the main thread and replication write.          *)
MainTypes ==
  /\ calls \in Seq(Requests) /\ Len(calls) <= MaxCalls
  /\ reply \in [Calls -> {"none", "ok", "error", "nil", "gone", "barred"}]
  /\ main \in {Free} \union [at : {"add"}, id : Ids] \union [at : {"get"}, id : Ids, data : Items]
  /\ alive \in BOOLEAN

PoolTypes ==
  /\ jobs \in Seq(Calls) /\ queue \in Seq(1 .. Len(jobs))
  /\ busy \in [Workers -> 0 .. Len(jobs)]
  /\ outcome \in {"none", "queued", "full"}
  /\ step \in [Workers -> {"idle", "embed", "name", "store", "search", "unblock"}]
  /\ named \in [Workers -> Ids \union {0}]
  /\ unblocked \in Seq(Calls)

StoreTypes ==
  /\ made \in [Calls -> Ids \union {0}]
  /\ found \in [Calls -> {{0}} \union SUBSET Ids]
  /\ store \in [Ids -> Items] /\ vec \in [Ids -> 0 .. MaxCalls]
  /\ labels \subseteq Ids /\ torn \subseteq Ids
  /\ idIdx \in 0 .. MaxCalls /\ index \in {"none", "ready", "null"}

ReplicaTypesOK ==
  /\ shipped \subseteq Calls
  /\ rStore \in [Ids -> Items] /\ rVec \in [Ids -> -MaxCalls .. MaxCalls] /\ rLabels \subseteq Ids
  /\ rIdIdx \in 0 .. MaxCalls /\ rRefused \in BOOLEAN

(* The type invariant by the part of the system it is about.               *)
LEMMA TypeParts == TypeOK <=> MainTypes /\ PoolTypes /\ StoreTypes /\ ReplicaTypesOK
BY DEF TypeOK, MainTypes, PoolTypes, StoreTypes, ReplicaTypesOK

(* Every step keeps the types; the bounds of the id counters need the rest *)
(* of the invariant.                                                       *)
LEMMA TypeStep == ASSUME IInv, Next PROVE TypeOK'
<1> USE DEF IInv, Bookkeeping
<1>0. /\ MainTypes /\ PoolTypes /\ StoreTypes /\ ReplicaTypesOK
      /\ shipped \subseteq Issued
  BY TypeParts, Acknowledged
<1>a. ASSUME MainTypes', PoolTypes', StoreTypes', ReplicaTypesOK' PROVE TypeOK'
  BY <1>a, TypeParts, PTL
<1>frame. /\ UNCHANGED <<calls, reply, main, alive>> => MainTypes'
          /\ UNCHANGED <<jobs, queue, busy, outcome, step, named, unblocked>> => PoolTypes'
          /\ UNCHANGED <<made, found, store, vec, labels, torn, idIdx, index>> => StoreTypes'
          /\ UNCHANGED <<shipped, rStore, rVec, rLabels, rIdIdx, rRefused>> => ReplicaTypesOK'
  BY <1>0 DEF MainTypes, PoolTypes, StoreTypes, ReplicaTypesOK
<1> USE DEF resultVars, poolVars, workerVars, storeVars, replicaVars
<1>1. ASSUME NEW i \in ExplicitIds \union {NoId}, AddSync(i) PROVE TypeOK'
  <2> DEFINE r == [op |-> "add", id |-> i, async |-> FALSE]
  <2>1. r \in Requests /\ Receive(r)
    BY <1>1 DEF AddSync, Requests
  <2>2. calls' \in Seq(Requests) /\ Len(calls') <= MaxCalls /\ Len(calls') = Len(calls) + 1
    BY <2>1, Received DEF New
  <2>3. idIdx + 1 \in 1 .. MaxCalls
    BY <1>0, <2>2, IdLeft, Numbers DEF StoreTypes
  <2>4. idIdx' \in 0 .. MaxCalls /\ main'.id \in Ids /\ main' = [at |-> "add", id |-> main'.id]
    BY <1>0, <1>1, <2>3, Numbers DEF AddSync, StoreTypes, Ids, Calls
  <2>5. MainTypes'
    BY <1>0, <1>1, <2>2, <2>4 DEF AddSync, MainTypes
  <2>6. StoreTypes'
    BY <1>0, <1>1, <2>4 DEF AddSync, StoreTypes
  <2>7. PoolTypes' /\ ReplicaTypesOK'
    BY <1>1, <1>frame DEF AddSync
  <2> QED
    BY <1>a, <2>5, <2>6, <2>7
<1>2. CASE AddSyncStored
  <2>1. Len(calls) \in Issued /\ Len(calls) \in Calls /\ Last \notin shipped /\ main.id \in Ids
    BY <1>0, <1>2, Numbers
    DEF AddSyncStored, MainAdds, Issued, Last, ReplicatedIffAcknowledged, MainTypes, Free
  <2>2. StoreTypes'
    BY <1>2, <2>1, StoredTypes DEF AddSyncStored, StoreTypes, Last
  <2>3. ReplicaTypesOK'
    BY <1>0, <1>2, <2>1, ReplicaTypes DEF AddSyncStored, ReplicaTypesOK, Last
  <2>4. MainTypes'
    BY <1>0, <1>2 DEF AddSyncStored, MainTypes
  <2>5. PoolTypes'
    BY <1>2, <1>frame DEF AddSyncStored
  <2> QED
    BY <1>a, <2>2, <2>3, <2>4, <2>5
<1>3. CASE AddSyncRefused \/ AddSyncThrows \/ AddSyncBreaks
  <2>1. main.id \in Ids
    BY <1>0, <1>3 DEF AddSyncRefused, AddSyncThrows, AddSyncBreaks, MainTypes, Free
  <2>2. StoreTypes'
    <3>1. CASE AddSyncRefused
      <4>1. Len(calls) > 0
        BY <3>1 DEF AddSyncRefused, MainAdds
      <4>2. Last \in Issued /\ Last \in Calls
        BY <4>1, Numbers DEF Last, Issued
      <4> QED
        BY <3>1, <2>1, <4>2, RefusalTypes DEF AddSyncRefused, StoreTypes
    <3>2. CASE AddSyncThrows \/ AddSyncBreaks
      BY <1>frame, <3>2, RefusalTypes DEF AddSyncThrows, AddSyncBreaks, StoreTypes
    <3> QED
      BY <1>3, <3>1, <3>2
  <2>3. MainTypes'
    BY <1>0, <1>3 DEF AddSyncRefused, AddSyncThrows, AddSyncBreaks, MainTypes
  <2>4. PoolTypes' /\ ReplicaTypesOK'
    BY <1>3, <1>frame DEF AddSyncRefused, AddSyncThrows, AddSyncBreaks
  <2> QED
    BY <1>a, <2>2, <2>3, <2>4
<1>4. ASSUME NEW r \in Deferred, Defer(r) PROVE TypeOK'
  <2>1. Receive(r) /\ r \in Requests /\ Pool!Accept /\ jobs' = Append(jobs, New)
    BY <1>4, DeferredRequests DEF Defer
  <2>2. calls' \in Seq(Requests) /\ Len(calls') <= MaxCalls /\ New \in Calls
    BY <2>1, Received
  <2>3. MainTypes'
    <3>1. PICK r0 \in {"none", "barred"} : reply' = [reply EXCEPT ![New] = r0]
      BY <1>4 DEF Defer
    <3> QED
      BY <1>0, <1>4, <2>2, <3>1 DEF Defer, MainTypes
  <2>4. /\ jobs' \in Seq(Calls) /\ queue' \in Seq(1 .. Len(jobs')) /\ busy' = busy
        /\ outcome' = "queued" /\ Len(jobs') = Len(jobs) + 1
    BY <2>1, <2>2, Accepted
  <2>5. busy' \in [Workers -> 0 .. Len(jobs')]
    BY <1>0, <2>4, Numbers DEF PoolTypes
  <2>6. PoolTypes'
    BY <1>0, <1>4, <2>4, <2>5 DEF Defer, PoolTypes
  <2>7. StoreTypes' /\ ReplicaTypesOK'
    BY <1>4, <1>frame DEF Defer
  <2> QED
    BY <1>a, <2>3, <2>6, <2>7
<1>5. ASSUME NEW r \in Deferred, DeferFull(r) PROVE TypeOK'
  <2>1. Receive(r) /\ r \in Requests
    BY <1>5, DeferredRequests DEF DeferFull
  <2>2. calls' \in Seq(Requests) /\ Len(calls') <= MaxCalls
    BY <2>1, Received
  <2>3. MainTypes'
    BY <1>0, <1>5, <2>2 DEF DeferFull, MainTypes
  <2>4. PoolTypes'
    BY <1>0, <1>5 DEF DeferFull, Pool!Refuse, PoolTypes
  <2>5. StoreTypes' /\ ReplicaTypesOK'
    BY <1>5, <1>frame DEF DeferFull
  <2> QED
    BY <1>a, <2>3, <2>4, <2>5
<1>6. ASSUME NEW i \in ExplicitIds, Rem(i) PROVE TypeOK'
  <2> DEFINE r == [op |-> "rem", id |-> i]
  <2>1. r \in Requests /\ Receive(r)
    BY <1>6 DEF Rem, Requests
  <2>2. calls' \in Seq(Requests) /\ Len(calls') <= MaxCalls /\ New \in Calls /\ i \in Ids
    BY <2>1, Received DEF Ids
  <2>3. MainTypes'
    BY <1>0, <1>6, <2>2 DEF Rem, MainTypes
  <2>4. 0 \in Items /\ 0 \in 0 .. MaxCalls /\ 0 \in -MaxCalls .. MaxCalls
    BY Numbers DEF Items
  <2>5. StoreTypes'
    BY <1>0, <1>6, <2>2, <2>4 DEF Rem, Removed, StoreTypes
  <2>6. ReplicaTypesOK'
    BY <1>0, <1>6, <2>2, <2>4 DEF Rem, ReplicaRemoves, ReplicaTypesOK
  <2>7. PoolTypes'
    BY <1>6, <1>frame DEF Rem
  <2> QED
    BY <1>a, <2>3, <2>5, <2>6, <2>7
<1>7. CASE GetVector \/ \E i \in ExplicitIds : GetData(i)
  <2>1. MainTypes'
    <3>1. CASE GetVector
      BY <1>0, <3>1 DEF GetVector, MainTypes
    <3>2. ASSUME NEW i \in ExplicitIds, GetData(i) PROVE MainTypes'
      <4>1. i \in Ids /\ store[i] \in Items
        BY <1>0 DEF StoreTypes, Ids
      <4> QED
        BY <1>0, <3>2, <4>1 DEF GetData, MainTypes
    <3> QED
      BY <1>7, <3>1, <3>2
  <2>2. PoolTypes' /\ StoreTypes' /\ ReplicaTypesOK'
    BY <1>7, <1>frame DEF GetVector, GetData
  <2> QED
    BY <1>a, <2>1, <2>2
<1>8. CASE HandleUnblocked
  <2> DEFINE c == Head(unblocked)
  <2>1. unblocked' \in Seq(Calls) /\ Len(unblocked) > 0 /\ c = unblocked[1] /\ c \in Calls
    BY <1>8, Popped DEF HandleUnblocked
  <2>2. PoolTypes'
    BY <1>0, <1>8, <2>1 DEF HandleUnblocked, PoolTypes
  <2>3. StoreTypes'
    BY <1>8, <1>frame DEF HandleUnblocked
  <2> SUFFICES MainTypes' /\ ReplicaTypesOK'
    BY <1>a, <2>2, <2>3
  <2>4. \/ reply[c] = "none" /\ (ReplyError(c) \/ ReplyId(c) \/ ReplyNeighbors(c))
        \/ Drop(c)
    BY <1>8 DEF HandleUnblocked
  <2>5. UNCHANGED <<calls, main, alive>>
    BY <1>8 DEF HandleUnblocked
  <2>6. CASE reply[c] = "none" /\ (ReplyError(c) \/ ReplyNeighbors(c))
    BY <1>0, <1>frame, <2>1, <2>5, <2>6 DEF ReplyError, ReplyNeighbors, MainTypes
  <2>7. CASE reply[c] = "none" /\ ReplyId(c)
    <3>1. c \in Issued
      <4>1. 1 \in 1 .. Len(unblocked)
        BY <2>1, Numbers
      <4> QED
        BY <2>1, <4>1, ToBeAnswered
    <3>2. c \notin shipped
      BY <2>7 DEF ReplicatedIffAcknowledged
    <3>3. made[c] \in Ids
      BY <1>0, <2>1, <2>7, <3>1 DEF ReplyId, Succeeded, StoreTypes
    <3>4. ReplicaTypesOK'
      BY <1>0, <2>7, <3>1, <3>2, <3>3, ReplicaTypes DEF ReplyId, ReplicaTypesOK
    <3> QED
      BY <1>0, <2>1, <2>5, <2>7, <3>4 DEF ReplyId, MainTypes
  <2>8. CASE Drop(c)
    BY <1>frame, <2>5, <2>8 DEF Drop
  <2> QED
    BY <2>4, <2>6, <2>7, <2>8
<1>9. ASSUME NEW c \in Calls, Leave(c) PROVE TypeOK'
  <2>1. MainTypes'
    BY <1>0, <1>9 DEF Leave, Timeout, Disconnect, MainTypes
  <2>2. PoolTypes' /\ StoreTypes' /\ ReplicaTypesOK'
    BY <1>9, <1>frame DEF Leave, Timeout, Disconnect
  <2> QED
    BY <1>a, <2>1, <2>2
<1>10. ASSUME NEW w \in Workers, Start(w) PROVE TypeOK'
  <2>1. Pool!Start(w) /\ jobs' = jobs
    BY <1>10 DEF Start
  <2>2. /\ queue' \in Seq(1 .. Len(jobs')) /\ Taken' \in 1 .. Len(jobs)
        /\ busy' = [busy EXCEPT ![w] = Taken'] /\ outcome' = outcome
    BY <2>1, Started
  <2>3. busy' \in [Workers -> 0 .. Len(jobs')]
    BY <1>0, <2>1, <2>2 DEF PoolTypes
  <2>4. PoolTypes'
    BY <1>0, <1>10, <2>2, <2>3 DEF Start, Goto, PoolTypes
  <2>5. MainTypes' /\ StoreTypes' /\ ReplicaTypesOK'
    BY <1>10, <1>frame DEF Start
  <2> QED
    BY <1>a, <2>4, <2>5
<1>11. ASSUME NEW w \in Workers, Embed(w) \/ EmbedFails(w) PROVE TypeOK'
  <2>1. IsAdd(Call(w)) /\ ~IsAuto(Call(w)) => calls[Call(w)].id \in Ids
    BY <1>11, Employed DEF Embed, EmbedFails, At, WorkersBusy, IsAuto, Ids
  <2>2. PoolTypes'
    BY <1>0, <1>11, <2>1 DEF Embed, EmbedFails, Goto, PoolTypes
  <2>3. MainTypes' /\ StoreTypes' /\ ReplicaTypesOK'
    BY <1>11, <1>frame DEF Embed, EmbedFails
  <2> QED
    BY <1>a, <2>2, <2>3
<1>12. ASSUME NEW w \in Workers, Name(w) PROVE TypeOK'
  <2>1. idIdx + 1 \in 1 .. MaxCalls
    BY <1>0, <1>12, IdLeft, Numbers DEF Name, At, MainTypes, StoreTypes
  <2>2. PoolTypes'
    BY <1>0, <1>12, <2>1, Numbers DEF Name, Goto, PoolTypes, Calls
  <2>3. StoreTypes'
    BY <1>0, <1>12, <2>1 DEF Name, StoreTypes
  <2>4. MainTypes' /\ ReplicaTypesOK'
    BY <1>12, <1>frame DEF Name
  <2> QED
    BY <1>a, <2>2, <2>3, <2>4
<1>13. ASSUME NEW w \in Workers, Store(w) \/ StoreRefused(w) PROVE TypeOK'
  <2>1. named[w] \in Ids /\ Call(w) \in Calls
    BY <1>13, Employed DEF Store, StoreRefused, At, WorkersBusy
  <2>2. StoreTypes'
    <3>1. CASE Store(w)
      BY <2>1, <3>1, StoredTypes DEF Store, StoreTypes
    <3>2. CASE StoreRefused(w)
      BY <2>1, <3>2, RefusalTypes DEF StoreRefused, StoreTypes
    <3> QED
      BY <1>13, <3>1, <3>2
  <2>3. PoolTypes'
    BY <1>0, <1>13 DEF Store, StoreRefused, Goto, PoolTypes
  <2>4. MainTypes'
    BY <1>0, <1>13 DEF Store, StoreRefused, MainTypes
  <2>5. ReplicaTypesOK'
    BY <1>13, <1>frame DEF Store, StoreRefused
  <2> QED
    BY <1>a, <2>2, <2>3, <2>4, <2>5
<1>14. ASSUME NEW w \in Workers, StoreThrows(w) PROVE TypeOK'
  <2>1. queue' = queue /\ outcome' = outcome /\ busy' = [busy EXCEPT ![w] = 0]
    BY <1>14, Finished DEF StoreThrows
  <2>2. PoolTypes'
    BY <1>0, <1>14, <2>1, Numbers DEF StoreThrows, Goto, PoolTypes
  <2>3. StoreTypes'
    BY <1>14, RefusalTypes DEF StoreThrows, StoreTypes
  <2>4. MainTypes' /\ ReplicaTypesOK'
    BY <1>14, <1>frame DEF StoreThrows
  <2> QED
    BY <1>a, <2>2, <2>3, <2>4
<1>15. ASSUME NEW w \in Workers, Search(w) PROVE TypeOK'
  <2>1. Hits \subseteq Ids
    BY DEF Hits
  <2>4. StoreTypes'
    BY <1>0, <1>15, <2>1 DEF Search, StoreTypes
  <2>2. PoolTypes'
    BY <1>0, <1>15 DEF Search, Goto, PoolTypes
  <2>3. MainTypes' /\ ReplicaTypesOK'
    BY <1>15, <1>frame DEF Search
  <2> QED
    BY <1>a, <2>2, <2>3, <2>4
<1>16. ASSUME NEW w \in Workers, Unblock(w) PROVE TypeOK'
  <2>1. queue' = queue /\ outcome' = outcome /\ busy' = [busy EXCEPT ![w] = 0]
    BY <1>16, Finished DEF Unblock
  <2>2. Call(w) \in Calls
    BY <1>16, Employed DEF Unblock, At, WorkersBusy
  <2>3. unblocked' \in Seq(Calls)
    BY <1>0, <1>16, <2>2 DEF Unblock, PoolTypes
  <2>4. PoolTypes'
    BY <1>0, <1>16, <2>1, <2>3, Numbers DEF Unblock, Goto, PoolTypes
  <2>5. MainTypes' /\ StoreTypes' /\ ReplicaTypesOK'
    BY <1>16, <1>frame DEF Unblock
  <2> QED
    BY <1>a, <2>4, <2>5
<1>17. CASE Done
  BY <1>a, <1>17, <1>frame DEF Done, vars
<1>18. ASSUME NEW w \in Workers, IndexBreaks(w) PROVE TypeOK'
  BY <1>0, <1>a, <1>18, <1>frame DEF IndexBreaks, MainTypes
<1> QED
  BY <1>1, <1>2, <1>3, <1>4, <1>5, <1>6, <1>7, <1>8, <1>9, <1>10, <1>11, <1>12, <1>13,
     <1>14, <1>15, <1>16, <1>17, <1>18
  DEF Next, Issue, MainAdd, Worker

-----------------------------------------------------------------------------
(* The way of a call through the pool                                      *)

(* Only Receive adds a call, and no call changes.                          *)
LEMMA CallsGrow ==
  ASSUME IInv, Next
  PROVE  /\ Issued \subseteq Issued' /\ Len(calls') >= Len(calls)
         /\ \A c \in Issued : calls'[c] = calls[c]
         /\ calls' # calls => Len(calls') = New /\ Issued' = Issued \union {New}
<1> USE DEF IInv
<1>1. ASSUME NEW r \in Requests, Receive(r)
      PROVE  /\ Issued \subseteq Issued' /\ Len(calls') >= Len(calls)
             /\ \A c \in Issued : calls'[c] = calls[c]
             /\ Len(calls') = New /\ Issued' = Issued \union {New}
  BY <1>1, Received, Numbers DEF New
<1>2. \/ calls' = calls
      \/ \E r \in Requests : Receive(r)
  <2>1. ASSUME NEW i \in ExplicitIds \union {NoId}, AddSync(i)
        PROVE  \E r \in Requests : Receive(r)
    <3>1. [op |-> "add", id |-> i, async |-> FALSE] \in Requests
      BY DEF Requests
    <3> QED
      BY <2>1, <3>1 DEF AddSync
  <2>2. ASSUME NEW i \in ExplicitIds, Rem(i) PROVE \E r \in Requests : Receive(r)
    <3>1. [op |-> "rem", id |-> i] \in Requests
      BY DEF Requests
    <3> QED
      BY <2>2, <3>1 DEF Rem
  <2>3. ASSUME NEW r \in Deferred, Defer(r) \/ DeferFull(r)
        PROVE  \E q \in Requests : Receive(q)
    BY <2>3, DeferredRequests DEF Defer, DeferFull
  <2>4. CASE MainAdd
    BY <2>4 DEF MainAdd, AddSyncStored, AddSyncRefused, AddSyncThrows, AddSyncBreaks
  <2>5. CASE GetVector \/ HandleUnblocked \/ Done \/ \E i \in ExplicitIds : GetData(i)
    BY <2>5 DEF GetVector, HandleUnblocked, Done, GetData, vars
  <2>6. ASSUME NEW c \in Calls, Leave(c) PROVE calls' = calls
    BY <2>6 DEF Leave, Timeout, Disconnect
  <2>7. ASSUME NEW w \in Workers, Worker(w) PROVE calls' = calls
    BY <2>7
    DEF Worker, Start, Embed, EmbedFails, Name, Store, StoreRefused, StoreThrows,
        IndexBreaks, Search, Unblock
  <2> QED
    BY <2>1, <2>2, <2>3, <2>4, <2>5, <2>6, <2>7 DEF Next, Issue
<1>3. CASE calls' = calls
  BY <1>3, Numbers DEF Issued
<1> QED
  BY <1>1, <1>2, <1>3

PoolInv == HandedOnce /\ QueueInOrder /\ WorkersBusy /\ UnblockedOnce

(* Steps that leave the pool alone.                                        *)
LEMMA PoolUntouched ==
  ASSUME TypeOK, PoolInv,
         Issued \subseteq Issued', \A c \in Issued : calls'[c] = calls[c],
         UNCHANGED <<jobs, queue, busy, step, named, unblocked>>
  PROVE  PoolInv'
<1> USE DEF PoolInv
<1>1. HandedOnce' /\ QueueInOrder'
  BY DEF HandedOnce, QueueInOrder, Taken
<1>2. UnblockedOnce'
  BY DEF UnblockedOnce, Taken, Call
<1>3. \A w \in Workers : Call(w)' = Call(w)
  BY DEF Call
<1>4. \A w \in Workers : busy[w] # 0 => calls'[Call(w)] = calls[Call(w)]
  BY Employed
<1>5. WorkersBusy'
  <2>1. ASSUME NEW w \in Workers
        PROVE  /\ step'[w] = "name" => IsAuto(Call(w))'
               /\ step'[w] = "store" => IsAdd(Call(w))' /\ named'[w] \in Ids
               /\ step'[w] = "search" => IsKnn(Call(w))'
    BY <1>3, <1>4 DEF WorkersBusy, IsAdd, IsAuto, IsKnn
  <2>2. Taken' = Taken
    BY DEF Taken
  <2> QED
    BY <2>1, <2>2 DEF WorkersBusy
<1> QED
  BY <1>1, <1>2, <1>5

(* A worker goes on with its job.                                          *)
LEMMA PoolGoesOn ==
  ASSUME TypeOK, PoolInv, NEW w \in Workers, busy[w] # 0,
         NEW s \in {"name", "store", "search", "unblock"},
         NEW i \in Ids \union {0},
         s = "name" => IsAuto(Call(w)),
         s = "store" => IsAdd(Call(w)) /\ i \in Ids,
         s = "search" => IsKnn(Call(w)),
         step' = [step EXCEPT ![w] = s], named' = [named EXCEPT ![w] = i],
         UNCHANGED <<calls, jobs, queue, busy, unblocked>>
  PROVE  PoolInv'
<1> USE DEF PoolInv
<1>1. HandedOnce' /\ QueueInOrder' /\ Taken' = Taken
  BY DEF HandedOnce, QueueInOrder, Taken, Issued
<1>2. UnblockedOnce'
  BY DEF UnblockedOnce, Taken, Call
<1>3. \A v \in Workers : Call(v)' = Call(v)
  BY DEF Call
<1>4. ASSUME NEW v \in Workers
      PROVE  /\ step'[v] = "idle" <=> busy'[v] = 0
             /\ step'[v] = "name" => IsAuto(Call(v))'
             /\ step'[v] = "store" => IsAdd(Call(v))' /\ named'[v] \in Ids
             /\ step'[v] = "search" => IsKnn(Call(v))'
  BY <1>3 DEF WorkersBusy, TypeOK, IsAdd, IsAuto, IsKnn
<1>5. WorkersBusy'
  BY <1>1, <1>4 DEF WorkersBusy
<1> QED
  BY <1>1, <1>2, <1>5

(* A job that is handed over keeps the pool in order.                      *)
LEMMA PoolAccepts ==
  ASSUME TypeOK, PoolInv, NEW r \in Deferred, Defer(r)
  PROVE  PoolInv'
<1> USE DEF PoolInv
<1>0. /\ Receive(r) /\ r \in Requests /\ Pool!Accept /\ jobs' = Append(jobs, New)
      /\ UNCHANGED <<step, named, unblocked>>
  BY DeferredRequests DEF Defer, workerVars
<1>1. /\ New \in Calls /\ New \notin Issued /\ Issued' = Issued \union {New}
      /\ calls'[New] = r /\ \A c \in Issued : calls'[c] = calls[c]
  BY <1>0, Received
<1>2. /\ Len(jobs') = Len(jobs) + 1 /\ jobs'[Len(jobs) + 1] = New
      /\ \A k \in 1 .. Len(jobs) : jobs'[k] = jobs[k]
      /\ Len(queue') = Len(queue) + 1 /\ queue'[Len(queue) + 1] = Len(jobs) + 1
      /\ \A k \in 1 .. Len(queue) : queue'[k] = queue[k]
      /\ Taken' = Taken /\ busy' = busy
  BY <1>0, <1>1, Accepted
<1>3. Taken \in 0 .. Len(jobs)
  BY Numbers DEF Taken, QueueInOrder
<1>4. HandedOnce'
  <2>1. \A k \in 1 .. Len(jobs') : k = Len(jobs) + 1 \/ k \in 1 .. Len(jobs)
    BY <1>2, Numbers
  <2>2. \A k \in 1 .. Len(jobs) : jobs'[k] \in Issued /\ calls'[jobs'[k]] \in Deferred
    BY <1>1, <1>2 DEF HandedOnce
  <2>3. \A k \in 1 .. Len(jobs') : jobs'[k] \in Issued' /\ calls'[jobs'[k]] \in Deferred
    BY <1>1, <1>2, <2>1, <2>2
  <2>4. \A k, m \in 1 .. Len(jobs') : jobs'[k] = jobs'[m] => k = m
    BY <1>1, <1>2, <2>1, <2>2 DEF HandedOnce
  <2>5. Deferred' = Deferred
    BY DEF Deferred
  <2> QED
    BY <2>3, <2>4, <2>5 DEF HandedOnce
<1>5. QueueInOrder'
  <2>1. \A k \in 1 .. Len(queue') : k = Len(queue) + 1 \/ k \in 1 .. Len(queue)
    BY <1>2, Numbers
  <2>2. \A k \in 1 .. Len(queue) : queue'[k] = Taken' + k
    BY <1>2 DEF QueueInOrder
  <2>3. Len(jobs) + 1 = Taken + (Len(queue) + 1)
    BY Numbers DEF Taken
  <2>4. \A k \in 1 .. Len(queue') : queue'[k] = Taken' + k
    BY <1>2, <2>1, <2>2, <2>3
  <2>5. Len(queue') <= Len(jobs')
    BY <1>2, Numbers DEF QueueInOrder
  <2> QED
    BY <2>4, <2>5 DEF QueueInOrder
<1>6. \A w \in Workers : busy[w] # 0 => Call(w)' = Call(w) /\ calls'[Call(w)] = calls[Call(w)]
  BY <1>1, <1>2, Employed DEF Call
<1>7. WorkersBusy'
  <2>1. ASSUME NEW w \in Workers
        PROVE  /\ step'[w] = "name" => IsAuto(Call(w))'
               /\ step'[w] = "store" => IsAdd(Call(w))' /\ named'[w] \in Ids
               /\ step'[w] = "search" => IsKnn(Call(w))'
    BY <1>0, <1>6 DEF WorkersBusy, IsAdd, IsAuto, IsKnn
  <2> QED
    BY <1>0, <1>2, <2>1 DEF WorkersBusy
<1>8. UnblockedOnce'
  <2>1. \A k \in 1 .. Len(unblocked) : \E j \in 1 .. Taken' : unblocked[k] = jobs'[j]
    BY <1>2, <1>3, Numbers DEF UnblockedOnce
  <2>2. \A k, m \in 1 .. Len(unblocked) : unblocked[k] = unblocked[m] => k = m
    BY DEF UnblockedOnce
  <2>3. \A k \in 1 .. Len(unblocked), w \in Workers :
          busy[w] # 0 => unblocked[k] # Call(w)'
    BY <1>6 DEF UnblockedOnce
  <2> QED
    BY <1>0, <1>2, <2>1, <2>2, <2>3 DEF UnblockedOnce
<1> QED
  BY <1>4, <1>5, <1>7, <1>8

(* So does a worker that takes the first job of the queue.                 *)
LEMMA PoolStarts ==
  ASSUME TypeOK, PoolInv, NEW w \in Workers, Start(w)
  PROVE  /\ PoolInv'
         /\ Call(w)' = jobs[Taken + 1]
         /\ \A v \in Workers : v # w => Call(v)' = Call(v)
<1> USE DEF PoolInv
<1>0. /\ Pool!Start(w) /\ UNCHANGED <<calls, jobs, named, unblocked>>
      /\ \E s \in {"search", "embed"} :
           /\ step' = [step EXCEPT ![w] = s]
           /\ s = "search" => IsKnn(jobs[Head(queue)])
  BY DEF Start, Goto
<1>1. /\ Len(queue') = Len(queue) - 1
      /\ \A k \in 1 .. Len(queue') : queue'[k] = queue[k + 1]
      /\ Taken' = Taken + 1 /\ Taken' \in 1 .. Len(jobs) /\ Head(queue) = Taken'
      /\ busy[w] = 0 /\ busy' = [busy EXCEPT ![w] = Taken']
  BY <1>0, Started
<1>2. Taken \in Nat /\ busy \in [Workers -> 0 .. Len(jobs)]
  BY Numbers DEF Taken, QueueInOrder, TypeOK
<1>3. Call(w)' = jobs[Taken + 1] /\ \A v \in Workers : v # w => Call(v)' = Call(v)
  BY <1>0, <1>1, <1>2 DEF Call
<1>4. HandedOnce'
  BY <1>0 DEF HandedOnce, Issued
<1>5. QueueInOrder'
  <2>1. \A k \in 1 .. Len(queue') : k + 1 \in 1 .. Len(queue)
    BY <1>1, Numbers
  <2> QED
    BY <1>0, <1>1, <1>2, <2>1, Numbers DEF QueueInOrder
<1>6. WorkersBusy'
  <2>1. \A v \in Workers : busy'[v] <= Taken' /\ (v # w => busy'[v] = busy[v] /\ busy[v] < Taken')
    BY <1>1, <1>2 DEF WorkersBusy
  <2>2. \A u, v \in Workers : busy'[u] = busy'[v] /\ busy'[u] # 0 => u = v
    BY <1>1, <1>2, <2>1 DEF WorkersBusy
  <2>3. PICK s \in {"search", "embed"} :
          step' = [step EXCEPT ![w] = s] /\ (s = "search" => IsKnn(jobs[Head(queue)]))
    BY <1>0
  <2>4. \A v \in Workers : step'[v] = "idle" <=> busy'[v] = 0
    BY <1>1, <1>2, <2>3 DEF WorkersBusy, TypeOK
  <2>5. ASSUME NEW v \in Workers
        PROVE  /\ step'[v] = "name" => IsAuto(Call(v))'
               /\ step'[v] = "store" => IsAdd(Call(v))' /\ named'[v] \in Ids
               /\ step'[v] = "search" => IsKnn(Call(v))'
    BY <1>0, <1>1, <1>3, <2>3 DEF WorkersBusy, TypeOK, IsAdd, IsAuto, IsKnn
  <2> QED
    BY <2>1, <2>2, <2>4, <2>5 DEF WorkersBusy
<1>7. UnblockedOnce'
  <2>1. \A k \in 1 .. Len(unblocked) : \E j \in 1 .. Taken' : unblocked[k] = jobs[j]
    BY <1>1, <1>2 DEF UnblockedOnce
  <2>2. \A k \in 1 .. Len(unblocked) : unblocked[k] # Call(w)'
    <3> SUFFICES ASSUME NEW k \in 1 .. Len(unblocked), unblocked[k] = jobs[Taken + 1]
                 PROVE  FALSE
      BY <1>3
    <3>1. PICK j \in 1 .. Taken : jobs[j] = jobs[Taken + 1]
      BY DEF UnblockedOnce
    <3>2. j \in 1 .. Len(jobs) /\ Taken + 1 \in 1 .. Len(jobs) /\ j # Taken + 1
      BY <1>1, <1>2, Numbers
    <3> QED
      BY <3>1, <3>2 DEF HandedOnce
  <2>3. unblocked' = unblocked /\ jobs' = jobs
    BY <1>0
  <2>4. \A k, m \in 1 .. Len(unblocked) : unblocked[k] = unblocked[m] => k = m
    BY DEF UnblockedOnce
  <2>5. ASSUME NEW k \in 1 .. Len(unblocked), NEW v \in Workers, v # w, busy'[v] # 0
        PROVE  unblocked[k] # Call(v)'
    <3>1. busy'[v] = busy[v] /\ Call(v)' = Call(v)
      BY <1>1, <1>2, <1>3, <2>5
    <3> QED
      BY <2>5, <3>1 DEF UnblockedOnce
  <2>6. \A k \in 1 .. Len(unblocked), v \in Workers : busy'[v] # 0 => unblocked[k] # Call(v)'
    BY <2>2, <2>5
  <2> QED
    BY <2>1, <2>3, <2>4, <2>6 DEF UnblockedOnce
<1> QED
  BY <1>3, <1>4, <1>5, <1>6, <1>7

(* A task is over, and has unblocked its client or not.                    *)
LEMMA PoolFinishes ==
  ASSUME TypeOK, PoolInv, NEW w \in Workers, Pool!Finish(w),
         step' = [step EXCEPT ![w] = "idle"], named' = [named EXCEPT ![w] = 0],
         unblocked' \in {unblocked, Append(unblocked, Call(w))},
         UNCHANGED <<calls, jobs>>
  PROVE  /\ PoolInv'
         /\ busy'[w] = 0
         /\ \A v \in Workers : v # w => Call(v)' = Call(v) /\ busy'[v] = busy[v]
<1> USE DEF PoolInv
<1>1. queue' = queue /\ busy[w] # 0 /\ busy' = [busy EXCEPT ![w] = 0] /\ Taken' = Taken
  BY Finished DEF Taken
<1>2. busy \in [Workers -> 0 .. Len(jobs)] /\ Taken \in Nat
  BY Numbers DEF TypeOK, Taken, QueueInOrder
<1>3. busy'[w] = 0 /\ \A v \in Workers : v # w => Call(v)' = Call(v) /\ busy'[v] = busy[v]
  BY <1>1, <1>2 DEF Call
<1>4. HandedOnce' /\ QueueInOrder'
  BY <1>1 DEF HandedOnce, QueueInOrder, Issued
<1>5. WorkersBusy'
  <2>1. \A v \in Workers : busy'[v] <= Taken' /\ (step'[v] = "idle" <=> busy'[v] = 0)
    BY <1>1, <1>2 DEF WorkersBusy, TypeOK
  <2>2. \A u, v \in Workers : busy'[u] = busy'[v] /\ busy'[u] # 0 => u = v
    BY <1>3 DEF WorkersBusy
  <2>3. ASSUME NEW v \in Workers
        PROVE  /\ step'[v] = "name" => IsAuto(Call(v))'
               /\ step'[v] = "store" => IsAdd(Call(v))' /\ named'[v] \in Ids
               /\ step'[v] = "search" => IsKnn(Call(v))'
    BY <1>3 DEF WorkersBusy, TypeOK, IsAdd, IsAuto, IsKnn
  <2> QED
    BY <2>1, <2>2, <2>3 DEF WorkersBusy
<1>6. CASE unblocked' = unblocked
  <2>1. UnblockedOnce'
    BY <1>1, <1>3, <1>6 DEF UnblockedOnce
  <2> QED
    BY <1>3, <1>4, <1>5, <2>1
<1>7. CASE unblocked' = Append(unblocked, Call(w))
  <2>1. busy[w] \in 1 .. Taken /\ Call(w) = jobs[busy[w]] /\ busy[w] \in 1 .. Len(jobs)
        /\ Call(w) \in Calls
    BY <1>1, Employed DEF Call
  <2>2. /\ Len(unblocked') = Len(unblocked) + 1
        /\ unblocked'[Len(unblocked) + 1] = Call(w)
        /\ \A k \in 1 .. Len(unblocked) : unblocked'[k] = unblocked[k]
    BY <1>7, <2>1 DEF TypeOK
  <2>3. \A k \in 1 .. Len(unblocked') : k = Len(unblocked) + 1 \/ k \in 1 .. Len(unblocked)
    BY <2>2, Numbers
  <2>4. \A v \in Workers : v # w /\ busy[v] # 0 => Call(v) # Call(w)
    <3> SUFFICES ASSUME NEW v \in Workers, v # w, busy[v] # 0 PROVE Call(v) # Call(w)
      OBVIOUS
    <3>1. busy[v] \in 1 .. Len(jobs) /\ busy[v] # busy[w]
      BY Employed DEF WorkersBusy
    <3> QED
      BY <2>1, <3>1 DEF HandedOnce, Call
  <2>5. \A k \in 1 .. Len(unblocked') : \E j \in 1 .. Taken' : unblocked'[k] = jobs'[j]
    BY <1>1, <2>1, <2>2, <2>3 DEF UnblockedOnce
  <2>6. \A k, m \in 1 .. Len(unblocked') : unblocked'[k] = unblocked'[m] => k = m
    BY <1>1, <2>2, <2>3 DEF UnblockedOnce
  <2>7. \A k \in 1 .. Len(unblocked'), v \in Workers : busy'[v] # 0 => unblocked'[k] # Call(v)'
    BY <1>3, <2>2, <2>3, <2>4 DEF UnblockedOnce
  <2>8. UnblockedOnce'
    BY <2>5, <2>6, <2>7 DEF UnblockedOnce
  <2> QED
    BY <1>3, <1>4, <1>5, <2>8
<1> QED
  BY <1>6, <1>7

(* So does every step.                                                     *)
LEMMA PoolStep == ASSUME IInv, Next PROVE PoolInv'
<1> USE DEF resultVars, poolVars, workerVars, storeVars, replicaVars
<1>0. TypeOK /\ PoolInv
  BY DEF IInv, Bookkeeping, PoolInv
<1>1. CASE UNCHANGED <<jobs, queue, busy, step, named, unblocked>>
  BY <1>0, <1>1, CallsGrow, PoolUntouched
<1>2. ASSUME NEW i \in ExplicitIds, Rem(i) \/ GetData(i) PROVE PoolInv'
  BY <1>1, <1>2 DEF Rem, GetData
<1>3. ASSUME NEW i \in ExplicitIds \union {NoId}, AddSync(i) PROVE PoolInv'
  BY <1>1, <1>3 DEF AddSync
<1>4. ASSUME NEW r \in Deferred, Defer(r) PROVE PoolInv'
  BY <1>0, <1>4, PoolAccepts
<1>5. ASSUME NEW r \in Deferred, DeferFull(r) PROVE PoolInv'
  BY <1>1, <1>5 DEF DeferFull, Pool!Refuse
<1>6. CASE MainAdd \/ GetVector
  BY <1>1, <1>6
  DEF MainAdd, AddSyncStored, AddSyncRefused, AddSyncThrows, AddSyncBreaks, GetVector
<1>7. CASE HandleUnblocked
  <2>1. /\ Len(unblocked') = Len(unblocked) - 1
        /\ \A k \in 1 .. Len(unblocked') : unblocked'[k] = unblocked[k + 1]
        /\ UNCHANGED <<calls, jobs, queue, busy, step, named>>
    BY <1>0, <1>7, Popped DEF HandleUnblocked
  <2>2. \A k \in 1 .. Len(unblocked') : k + 1 \in 1 .. Len(unblocked)
    BY <1>0, <2>1, Numbers
  <2>3. \A k, m \in 1 .. Len(unblocked') : k + 1 = m + 1 => k = m
    BY <1>0, <2>1, Numbers
  <2>4. UnblockedOnce'
    <3>1. \A k \in 1 .. Len(unblocked') : \E j \in 1 .. Taken' : unblocked'[k] = jobs'[j]
      <4>1. Taken' = Taken
        BY <2>1 DEF Taken
      <4> QED
        BY <1>0, <2>1, <2>2, <4>1 DEF PoolInv, UnblockedOnce
    <3>2. \A k, m \in 1 .. Len(unblocked') : unblocked'[k] = unblocked'[m] => k = m
      BY <1>0, <2>1, <2>2, <2>3 DEF PoolInv, UnblockedOnce
    <3>3. \A k \in 1 .. Len(unblocked'), w \in Workers :
            busy'[w] # 0 => unblocked'[k] # Call(w)'
      BY <1>0, <2>1, <2>2 DEF PoolInv, UnblockedOnce, Call
    <3> QED
      BY <3>1, <3>2, <3>3 DEF UnblockedOnce
  <2>5. HandedOnce' /\ QueueInOrder' /\ WorkersBusy'
    BY <1>0, <2>1
    DEF PoolInv, HandedOnce, QueueInOrder, WorkersBusy, Taken, Call, IsAuto, IsAdd, IsKnn,
        Issued
  <2> QED
    BY <2>4, <2>5 DEF PoolInv
<1>8. ASSUME NEW c \in Calls, Leave(c) PROVE PoolInv'
  BY <1>1, <1>8 DEF Leave, Timeout, Disconnect
<1>9. ASSUME NEW w \in Workers, Start(w) PROVE PoolInv'
  BY <1>0, <1>9, PoolStarts
<1>10. ASSUME NEW w \in Workers, Embed(w) PROVE PoolInv'
  <2>1. busy[w] # 0
    BY <1>0, <1>10 DEF Embed, At, PoolInv, WorkersBusy
  <2>2. named[w] \in Ids \union {0} /\ named = [named EXCEPT ![w] = named[w]]
    BY <1>0 DEF TypeOK
  <2>3. IsAdd(Call(w)) /\ ~IsAuto(Call(w)) => calls[Call(w)].id \in Ids
    BY <1>0, <2>1, Employed DEF PoolInv, IsAuto, Ids
  <2>4. \E s \in {"name", "store", "search"}, i \in Ids \union {0} :
          /\ s = "name" => IsAuto(Call(w))
          /\ s = "store" => IsAdd(Call(w)) /\ i \in Ids
          /\ s = "search" => IsKnn(Call(w))
          /\ step' = [step EXCEPT ![w] = s] /\ named' = [named EXCEPT ![w] = i]
    BY <1>10, <2>2, <2>3 DEF Embed, Goto
  <2>5. UNCHANGED <<calls, jobs, queue, busy, unblocked>>
    BY <1>10 DEF Embed
  <2> QED
    BY <1>0, <2>1, <2>4, <2>5, PoolGoesOn
<1>11. ASSUME NEW w \in Workers, EmbedFails(w) \/ Search(w) PROVE PoolInv'
  <2>1. busy[w] # 0
    BY <1>0, <1>11 DEF EmbedFails, Search, At, PoolInv, WorkersBusy
  <2>2. named[w] \in Ids \union {0} /\ named = [named EXCEPT ![w] = named[w]]
    BY <1>0 DEF TypeOK
  <2>3. /\ UNCHANGED <<calls, jobs, queue, busy, unblocked, named>>
        /\ step' = [step EXCEPT ![w] = "unblock"]
    BY <1>11 DEF EmbedFails, Search, Goto
  <2> QED
    BY <1>0, <2>1, <2>2, <2>3, PoolGoesOn
<1>12. ASSUME NEW w \in Workers, Store(w) \/ StoreRefused(w) PROVE PoolInv'
  <2>1. busy[w] # 0
    BY <1>0, <1>12 DEF Store, StoreRefused, At, PoolInv, WorkersBusy
  <2>2. named[w] \in Ids \union {0} /\ named = [named EXCEPT ![w] = named[w]]
    BY <1>0 DEF TypeOK
  <2>3. /\ UNCHANGED <<calls, jobs, queue, busy, unblocked, named>>
        /\ step' = [step EXCEPT ![w] = "unblock"]
    BY <1>12 DEF Store, StoreRefused, Goto
  <2> QED
    BY <1>0, <2>1, <2>2, <2>3, PoolGoesOn
<1>13. ASSUME NEW w \in Workers, Name(w) PROVE PoolInv'
  <2>1. busy[w] # 0 /\ IsAdd(Call(w))
    BY <1>0, <1>13 DEF Name, At, PoolInv, WorkersBusy, IsAuto
  <2>2. idIdx + 1 \in Ids
    <3>1. idIdx \in Nat /\ Len(calls) <= MaxCalls
      BY <1>0, Numbers DEF TypeOK
    <3>2. idIdx + 1 <= Len(calls)
      BY <1>13, IdLeft DEF Name, At
    <3> QED
      BY <1>0, <3>1, <3>2, Numbers DEF Ids, Calls
  <2>3. /\ UNCHANGED <<calls, jobs, queue, busy, unblocked>>
        /\ step' = [step EXCEPT ![w] = "store"]
        /\ named' = [named EXCEPT ![w] = idIdx + 1]
    BY <1>13 DEF Name, Goto
  <2> QED
    BY <1>0, <2>1, <2>2, <2>3, PoolGoesOn
<1>14. ASSUME NEW w \in Workers, StoreThrows(w) \/ Unblock(w) PROVE PoolInv'
  <2>1. /\ Pool!Finish(w) /\ UNCHANGED <<calls, jobs>>
        /\ step' = [step EXCEPT ![w] = "idle"] /\ named' = [named EXCEPT ![w] = 0]
        /\ unblocked' \in {unblocked, Append(unblocked, Call(w))}
    BY <1>14 DEF StoreThrows, Unblock, Goto
  <2> QED
    BY <1>0, <2>1, PoolFinishes
<1>15. ASSUME NEW w \in Workers, IndexBreaks(w) PROVE PoolInv'
  BY <1>1, <1>15 DEF IndexBreaks
<1>16. CASE Done
  BY <1>1, <1>16 DEF Done, vars
<1> QED
  BY <1>2, <1>3, <1>4, <1>5, <1>6, <1>7, <1>8, <1>9, <1>10, <1>11, <1>12, <1>13, <1>14,
     <1>15, <1>16
  DEF Next, Issue, Worker

-----------------------------------------------------------------------------
(* What a step can do: to the pool, and to what is known of one call       *)

OtherWorkerSteps(w) ==
  Start(w) \/ Embed(w) \/ EmbedFails(w) \/ Name(w) \/ StoreRefused(w) \/ StoreThrows(w)
    \/ IndexBreaks(w) \/ Unblock(w)

(* Who writes made and found.                                              *)
LEMMA ResultsBy ==
  ASSUME TypeOK, Next
  PROVE  \/ UNCHANGED <<made, found>>
         \/ /\ AddSyncStored
            /\ made' = [made EXCEPT ![Last] = main.id] /\ found' = found
         \/ \E i \in ExplicitIds :
              Rem(i) /\ made' = [made EXCEPT ![New] = i] /\ found' = found
         \/ \E w \in Workers :
              /\ Store(w)
              /\ made' = [made EXCEPT ![Call(w)] = named[w]] /\ found' = found
         \/ \E w \in Workers :
              /\ Search(w) /\ made' = made
              /\ found' = [found EXCEPT ![Call(w)] = Hits]
<1> USE DEF resultVars
<1>1. CASE Issue \/ GetVector \/ HandleUnblocked \/ Done
  BY <1>1
  DEF Issue, AddSync, Defer, DeferFull, Rem, GetData, GetVector, HandleUnblocked, Done, vars
<1>2. CASE MainAdd
  BY <1>2
  DEF MainAdd, AddSyncStored, AddSyncRefused, AddSyncThrows, AddSyncBreaks, Stored, Refused,
      HalfStored, InitThrows
<1>3. ASSUME NEW c \in Calls, Leave(c) PROVE UNCHANGED <<made, found>>
  BY <1>3 DEF Leave, Timeout, Disconnect
<1>4. ASSUME NEW w \in Workers, OtherWorkerSteps(w) PROVE UNCHANGED <<made, found>>
  BY <1>4
  DEF OtherWorkerSteps, Start, Embed, EmbedFails, Name, StoreRefused, StoreThrows, IndexBreaks,
      Unblock, Refused, HalfStored, InitThrows
<1>5. ASSUME NEW w \in Workers, Store(w) \/ Search(w)
      PROVE  \/ /\ Store(w)
                /\ made' = [made EXCEPT ![Call(w)] = named[w]] /\ found' = found
             \/ /\ Search(w) /\ made' = made
                /\ found' = [found EXCEPT ![Call(w)] = Hits]
  BY <1>5 DEF Store, Stored, Search
<1> QED
  BY <1>1, <1>2, <1>3, <1>4, <1>5 DEF Next, Worker, OtherWorkerSteps

(* Who answers, and what is replicated.                                    *)
LEMMA ReplyBy ==
  ASSUME TypeOK, Next
  PROVE  \/ reply' = reply /\ UNCHANGED replicaVars
         \/ /\ AddSyncStored
            /\ reply' = [reply EXCEPT ![Last] = "ok"] /\ ReplicateAdd(Last, main.id)
         \/ /\ AddSyncRefused
            /\ reply' = [reply EXCEPT ![Last] = "error"] /\ UNCHANGED replicaVars
         \/ \E r \in Deferred :
              /\ DeferFull(r)
              /\ reply' = [reply EXCEPT ![New] = "error"] /\ UNCHANGED replicaVars
         \/ \E r \in Deferred, a \in {"none", "barred"} :
              Defer(r) /\ reply' = [reply EXCEPT ![New] = a] /\ UNCHANGED replicaVars
         \/ \E i \in ExplicitIds : Rem(i) /\ reply' = [reply EXCEPT ![New] = "ok"]
         \/ LET c == Head(unblocked) IN
              /\ HandleUnblocked /\ reply[c] = "none"
              /\ \/ /\ ReplyError(c) \/ ReplyNeighbors(c)
                    /\ UNCHANGED replicaVars
                 \/ ReplyId(c) /\ ReplicateAdd(c, made[c])
              /\ \/ ReplyError(c) /\ reply' = [reply EXCEPT ![c] = "error"]
                 \/ ReplyId(c) /\ reply' = [reply EXCEPT ![c] = "ok"]
                 \/ ReplyNeighbors(c) /\ reply' = [reply EXCEPT ![c] = "ok"]
         \/ \E c \in Calls, a \in {"nil", "gone"} :
              /\ Leave(c) /\ Blocked(c)
              /\ reply' = [reply EXCEPT ![c] = a] /\ UNCHANGED replicaVars
<1>1. CASE Issue
  <2>1. ASSUME NEW r \in Deferred, Defer(r)
        PROVE  \E a \in {"none", "barred"} :
                 reply' = [reply EXCEPT ![New] = a] /\ UNCHANGED replicaVars
    BY <2>1 DEF Defer
  <2>2. CASE \E r \in Deferred : Defer(r)
    BY <2>1, <2>2
  <2>3. CASE ~\E r \in Deferred : Defer(r)
    BY <1>1, <2>3 DEF Issue, AddSync, DeferFull, Rem, GetData
  <2> QED
    BY <2>2, <2>3
<1>2. CASE MainAdd
  BY <1>2 DEF MainAdd, AddSyncStored, AddSyncRefused, AddSyncThrows, AddSyncBreaks
<1>3. CASE GetVector \/ Done
  BY <1>3 DEF GetVector, Done, vars
<1>4. CASE HandleUnblocked
  BY <1>4 DEF HandleUnblocked, ReplyError, ReplyId, ReplyNeighbors, Drop
<1>5. ASSUME NEW c \in Calls, Leave(c)
      PROVE  \E a \in {"nil", "gone"} :
               Blocked(c) /\ reply' = [reply EXCEPT ![c] = a] /\ UNCHANGED replicaVars
  BY <1>5 DEF Leave, Timeout, Disconnect
<1>6. ASSUME NEW w \in Workers, Worker(w) PROVE reply' = reply /\ UNCHANGED replicaVars
  BY <1>6
  DEF Worker, Start, Embed, EmbedFails, Name, Store, StoreRefused, StoreThrows, IndexBreaks,
      Search, Unblock
<1> QED
  BY <1>1, <1>2, <1>3, <1>4, <1>5, <1>6 DEF Next

(* Jobs are only added, and taken in order.                                *)
JobsKept ==
  /\ Taken' >= Taken
  /\ \A k \in 1 .. Len(jobs) : k \in 1 .. Len(jobs') /\ jobs'[k] = jobs[k]
  /\ \A k \in 1 .. Len(jobs') : k \in 1 .. Len(jobs) \/ jobs'[k] = New

(* Who is with a worker was there before, or next in the queue.            *)
WorkersMove ==
  \A w \in Workers : busy'[w] # 0 =>
    \/ /\ busy[w] # 0 /\ Call(w)' = Call(w)
       /\ step[w] = "unblock" => step'[w] = "unblock"
       /\ step'[w] \in {"embed", "name"} => step[w] \in {"embed", "name"}
    \/ /\ Start(w) /\ Taken + 1 \in 1 .. Len(jobs)
       /\ Call(w)' = jobs[Taken + 1] /\ Taken' = Taken + 1
       /\ step'[w] \in {"embed", "search"}

(* Who is unblocked was unblocked before, or with a worker.                *)
UnblockedMove ==
  \A k \in 1 .. Len(unblocked') :
    \/ \E m \in 1 .. Len(unblocked) : unblocked'[k] = unblocked[m]
    \/ \E w \in Workers : busy[w] # 0 /\ unblocked'[k] = Call(w)

(* How jobs, workers and unblocked clients move in a step.                 *)
LEMMA PoolMoves ==
  ASSUME IInv, Next
  PROVE  JobsKept /\ WorkersMove /\ UnblockedMove
<1> USE DEF resultVars, poolVars, workerVars, storeVars, replicaVars
<1>0. TypeOK /\ PoolInv
  BY DEF IInv, Bookkeeping, PoolInv
<1>1. ASSUME UNCHANGED <<jobs, queue, busy, step>>
      PROVE  JobsKept /\ WorkersMove /\ (unblocked' = unblocked => UnblockedMove)
  <2>1. JobsKept
    BY <1>0, <1>1, Numbers DEF JobsKept, Taken
  <2>2. WorkersMove
    BY <1>1 DEF WorkersMove, Call
  <2> QED
    BY <2>1, <2>2 DEF UnblockedMove
<1>a. ASSUME UNCHANGED <<jobs, queue, busy, step, unblocked>>
      PROVE  JobsKept /\ WorkersMove /\ UnblockedMove
  BY <1>1, <1>a
<1>2. CASE MainAdd \/ GetVector \/ Done
  BY <1>a, <1>2
  DEF MainAdd, AddSyncStored, AddSyncRefused, AddSyncThrows, AddSyncBreaks, GetVector, Done, vars
<1>b. CASE HandleUnblocked
  <2>1. UNCHANGED <<jobs, queue, busy, step>>
    BY <1>b DEF HandleUnblocked
  <2>2. /\ Len(unblocked') = Len(unblocked) - 1
        /\ \A k \in 1 .. Len(unblocked') : unblocked'[k] = unblocked[k + 1]
    BY <1>0, <1>b, Popped DEF HandleUnblocked
  <2>3. \A k \in 1 .. Len(unblocked') : k + 1 \in 1 .. Len(unblocked)
    BY <1>0, <2>2, Numbers
  <2>4. UnblockedMove
    BY <2>2, <2>3 DEF UnblockedMove
  <2> QED
    BY <1>1, <2>1, <2>4
<1>3. ASSUME NEW i \in ExplicitIds \union {NoId}, AddSync(i) \/ Rem(i) \/ GetData(i)
      PROVE  JobsKept /\ WorkersMove /\ UnblockedMove
  BY <1>a, <1>3 DEF AddSync, Rem, GetData
<1>4. ASSUME NEW c \in Calls, Leave(c) PROVE JobsKept /\ WorkersMove /\ UnblockedMove
  BY <1>a, <1>4 DEF Leave, Timeout, Disconnect
<1>5. ASSUME NEW r \in Deferred, DeferFull(r) PROVE JobsKept /\ WorkersMove /\ UnblockedMove
  BY <1>a, <1>5 DEF DeferFull, Pool!Refuse
<1>6. ASSUME NEW r \in Deferred, Defer(r) PROVE JobsKept /\ WorkersMove /\ UnblockedMove
  <2>0. /\ Receive(r) /\ r \in Requests /\ Pool!Accept /\ jobs' = Append(jobs, New)
        /\ UNCHANGED <<step, unblocked>>
    BY <1>6, DeferredRequests DEF Defer
  <2>1. New \in Calls
    BY <1>0, <2>0, Received
  <2>2. /\ Len(jobs') = Len(jobs) + 1 /\ jobs'[Len(jobs) + 1] = New
        /\ \A k \in 1 .. Len(jobs) : jobs'[k] = jobs[k]
        /\ Taken' = Taken /\ busy' = busy
    BY <1>0, <2>0, <2>1, Accepted
  <2>3. JobsKept
    BY <1>0, <2>2, Numbers DEF JobsKept, Taken
  <2>4. WorkersMove
    BY <1>0, <2>0, <2>2, Employed DEF WorkersMove, Call, PoolInv
  <2> QED
    BY <2>0, <2>3, <2>4 DEF UnblockedMove
<1>7. ASSUME NEW w \in Workers, Start(w) PROVE JobsKept /\ WorkersMove /\ UnblockedMove
  <2>1. /\ Pool!Start(w) /\ UNCHANGED <<jobs, unblocked>>
        /\ \E s \in {"search", "embed"} : step' = [step EXCEPT ![w] = s]
    BY <1>7 DEF Start, Goto
  <2>2. /\ Taken' = Taken + 1 /\ Taken' \in 1 .. Len(jobs)
        /\ busy' = [busy EXCEPT ![w] = Taken']
    BY <1>0, <2>1, Started DEF PoolInv
  <2>3. /\ Call(w)' = jobs[Taken + 1]
        /\ \A v \in Workers : v # w => Call(v)' = Call(v)
    BY <1>0, <1>7, PoolStarts
  <2>4. JobsKept
    BY <1>0, <2>1, <2>2, Numbers DEF JobsKept, Taken
  <2>5. WorkersMove
    BY <1>0, <1>7, <2>1, <2>2, <2>3 DEF WorkersMove, TypeOK
  <2> QED
    BY <2>1, <2>4, <2>5 DEF UnblockedMove
<1>8. ASSUME NEW w \in Workers, StoreThrows(w) \/ Unblock(w)
      PROVE  JobsKept /\ WorkersMove /\ UnblockedMove
  <2>1. /\ Pool!Finish(w) /\ UNCHANGED <<calls, jobs>>
        /\ step' = [step EXCEPT ![w] = "idle"] /\ named' = [named EXCEPT ![w] = 0]
        /\ unblocked' \in {unblocked, Append(unblocked, Call(w))}
    BY <1>8 DEF StoreThrows, Unblock, Goto
  <2>2. /\ busy'[w] = 0 /\ queue' = queue /\ busy[w] # 0
        /\ \A v \in Workers : v # w => Call(v)' = Call(v) /\ busy'[v] = busy[v]
    BY <1>0, <2>1, PoolFinishes, Finished
  <2>3. JobsKept
    BY <1>0, <2>1, <2>2, Numbers DEF JobsKept, Taken
  <2>4. WorkersMove
    BY <1>0, <2>1, <2>2 DEF WorkersMove, TypeOK
  <2>5. UnblockedMove
    <3>1. CASE unblocked' = unblocked
      BY <3>1 DEF UnblockedMove
    <3>2. CASE unblocked' = Append(unblocked, Call(w))
      <4>1. Call(w) \in Calls
        BY <1>0, <2>2, Employed DEF PoolInv
      <4>2. /\ Len(unblocked') = Len(unblocked) + 1
            /\ unblocked'[Len(unblocked) + 1] = Call(w)
            /\ \A k \in 1 .. Len(unblocked) : unblocked'[k] = unblocked[k]
        BY <1>0, <3>2, <4>1 DEF TypeOK
      <4>3. \A k \in 1 .. Len(unblocked') : k = Len(unblocked) + 1 \/ k \in 1 .. Len(unblocked)
        BY <1>0, <4>2, Numbers
      <4> QED
        BY <2>2, <4>2, <4>3 DEF UnblockedMove
    <3> QED
      BY <2>1, <3>1, <3>2
  <2> QED
    BY <2>3, <2>4, <2>5
<1>9. ASSUME NEW w \in Workers,
             Embed(w) \/ EmbedFails(w) \/ Name(w) \/ Store(w) \/ StoreRefused(w)
               \/ IndexBreaks(w) \/ Search(w)
      PROVE  JobsKept /\ WorkersMove /\ UnblockedMove
  <2>1. UNCHANGED <<jobs, queue, busy, unblocked>>
    BY <1>9 DEF Embed, EmbedFails, Name, Store, StoreRefused, IndexBreaks, Search
  <2>2. JobsKept
    BY <1>0, <2>1, Numbers DEF JobsKept, Taken
  <2>3. \/ step' = step
        \/ \E s \in {"name", "store", "search", "unblock"} :
             /\ step' = [step EXCEPT ![w] = s] /\ step[w] # "unblock"
             /\ s = "name" => step[w] = "embed"
    BY <1>9 DEF Embed, EmbedFails, Name, Store, StoreRefused, IndexBreaks, Search, Goto, At
  <2>4. WorkersMove
    BY <1>0, <2>1, <2>3 DEF WorkersMove, Call, TypeOK
  <2> QED
    BY <2>1, <2>2, <2>4 DEF UnblockedMove
<1> QED
  BY <1>2, <1>b, <1>3, <1>4, <1>5, <1>6, <1>7, <1>8, <1>9 DEF Next, Issue, Worker

(* Nobody shares a call: main thread, queue, workers and unblocked clients.*)
LEMMA Apart ==
  ASSUME IInv
  PROVE  /\ main.at = "add" => Last \in Issued /\ Last \in Calls /\ calls[Last] \notin Deferred
         /\ \A w \in Workers : busy[w] # 0 =>
              /\ Call(w) \in Issued /\ Call(w) \in Calls /\ calls[Call(w)] \in Deferred
              /\ \A k \in 1 .. Len(jobs) : k > Taken => jobs[k] # Call(w)
              /\ \A v \in Workers : busy[v] # 0 /\ Call(v) = Call(w) => v = w
         /\ \A m \in 1 .. Len(unblocked), k \in 1 .. Len(jobs) :
              k > Taken => jobs[k] # unblocked[m]
<1> USE DEF IInv, Bookkeeping
<1>1. ASSUME main.at = "add"
      PROVE  Last \in Issued /\ Last \in Calls /\ calls[Last] \notin Deferred
  <2>1. Last \in Issued /\ IsAdd(Last) /\ ~calls[Last].async
    BY <1>1, Numbers DEF MainAdds, Issued, Last
  <2>2. calls[Last] \in Requests /\ Last \in Calls
    BY <2>1, Numbers
  <2> QED
    BY <2>1, <2>2, RequestKinds DEF IsAdd
<1>2. ASSUME NEW w \in Workers, busy[w] # 0
      PROVE  /\ Call(w) \in Issued /\ Call(w) \in Calls /\ calls[Call(w)] \in Deferred
             /\ \A k \in 1 .. Len(jobs) : k > Taken => jobs[k] # Call(w)
             /\ \A v \in Workers : busy[v] # 0 /\ Call(v) = Call(w) => v = w
  <2>1. /\ busy[w] \in 1 .. Len(jobs) /\ busy[w] \in 1 .. Taken
        /\ Call(w) \in Issued /\ Call(w) \in Calls /\ calls[Call(w)] \in Deferred
    BY <1>2, Employed
  <2>2. \A k \in 1 .. Len(jobs) : jobs[k] = Call(w) => k = busy[w]
    BY <2>1 DEF HandedOnce, Call
  <2>3. \A k \in 1 .. Len(jobs) : k > Taken => k # busy[w]
    BY <2>1, Numbers DEF Taken
  <2>4. \A v \in Workers : busy[v] # 0 => busy[v] \in 1 .. Len(jobs)
    BY Employed
  <2>5. \A v \in Workers : busy[v] # 0 /\ Call(v) = Call(w) => v = w
    BY <1>2, <2>2, <2>4 DEF WorkersBusy, Call
  <2> QED
    BY <2>1, <2>2, <2>3, <2>5
<1>3. ASSUME NEW m \in 1 .. Len(unblocked), NEW k \in 1 .. Len(jobs), k > Taken
      PROVE  jobs[k] # unblocked[m]
  <2>1. PICK j \in 1 .. Taken : unblocked[m] = jobs[j]
    BY DEF UnblockedOnce
  <2>2. j \in 1 .. Len(jobs) /\ j # k
    BY <1>3, Numbers DEF Taken
  <2> QED
    BY <2>1, <2>2 DEF HandedOnce
<1> QED
  BY <1>1, <1>2, <1>3

(* A step keeps that the main thread adds for the latest call, of which    *)
(* nothing has come yet.                                                   *)
LEMMA MainAddsStep == ASSUME IInv, Next, TypeOK' PROVE MainAdds'
<1> USE DEF IInv, Bookkeeping
<1> SUFFICES ASSUME main'.at = "add"
             PROVE  /\ Len(calls') > 0
                    /\ IsAdd(Last)' /\ ~calls'[Last'].async
                    /\ reply'[Last'] = "none" /\ made'[Last'] = 0
                    /\ \A j \in Ids : vec'[j] # Last'
  BY DEF MainAdds
<1>1. ASSUME NEW i \in ExplicitIds \union {NoId}, AddSync(i)
      PROVE  /\ Len(calls') > 0
             /\ IsAdd(Last)' /\ ~calls'[Last'].async
             /\ reply'[Last'] = "none" /\ made'[Last'] = 0
             /\ \A j \in Ids : vec'[j] # Last'
  <2> DEFINE r == [op |-> "add", id |-> i, async |-> FALSE]
  <2>1. r \in Requests /\ Receive(r) /\ reply' = reply /\ made' = made /\ vec' = vec
    BY <1>1 DEF AddSync, Requests, resultVars
  <2>2. Len(calls') = New /\ calls'[New] = r /\ New \in Calls /\ New > Len(calls)
    BY <2>1, Received, Numbers DEF New
  <2>3. r.op = "add" /\ ~r.async
    OBVIOUS
  <2>4. \A j \in Ids : vec[j] # New
    <3>1. \A j \in Ids : vec[j] = 0 \/ vec[j] \in Issued
      BY DEF InIndex
    <3> QED
      BY <2>2, <3>1, Numbers DEF New, Issued
  <2>5. Last' = New
    BY <2>2 DEF Last
  <2> HIDE DEF r
  <2> QED
    BY <2>1, <2>2, <2>3, <2>4, <2>5, Numbers DEF IsAdd, NothingEarly, Calls
<1>2. ASSUME main' = main, calls' = calls, reply' = reply,
             \A c \in Calls : c = Last => made'[c] = made[c],
             \A j \in Ids : vec'[j] = vec[j] \/ vec'[j] # Last
      PROVE  /\ Len(calls') > 0
             /\ IsAdd(Last)' /\ ~calls'[Last'].async
             /\ reply'[Last'] = "none" /\ made'[Last'] = 0
             /\ \A j \in Ids : vec'[j] # Last'
  <2>1. Last \in Calls
    BY <1>2, Apart
  <2> QED
    BY <1>2, <2>1 DEF MainAdds, IsAdd, Last
<1>3. CASE Issue
  <2>1. main = Free
    BY <1>3 DEF Issue, AddSync, Defer, DeferFull, Rem, GetData, Receive, Ready
  <2>2. main' = main \/ main'.at = "get" \/ \E i \in ExplicitIds \union {NoId} : AddSync(i)
    <3>1. ASSUME NEW r \in Deferred, Defer(r) \/ DeferFull(r) PROVE main' = main
      BY <3>1 DEF Defer, DeferFull
    <3>2. ASSUME NEW i \in ExplicitIds, Rem(i) PROVE main' = main
      BY <3>2 DEF Rem
    <3>3. ASSUME NEW i \in ExplicitIds, GetData(i) PROVE main'.at = "get"
      BY <3>3 DEF GetData
    <3> QED
      BY <1>3, <3>1, <3>2, <3>3 DEF Issue
  <2> QED
    BY <1>1, <2>1, <2>2 DEF Free
<1>4. CASE MainAdd
  <2>1. CASE AddSyncThrows \/ AddSyncBreaks
    BY <1>2, <2>1 DEF AddSyncThrows, AddSyncBreaks, InitThrows, resultVars, storeVars
  <2>2. AddSyncStored \/ AddSyncRefused => main' = Free
    BY DEF AddSyncStored, AddSyncRefused
  <2> QED
    BY <1>4, <2>1, <2>2 DEF MainAdd, Free
<1>5. CASE GetVector \/ HandleUnblocked
  BY <1>5 DEF GetVector, HandleUnblocked, Ready, Free
<1>6. ASSUME NEW c \in Calls, Leave(c) PROVE main = Free /\ main' = main
  BY <1>6 DEF Leave, Timeout, Disconnect, Ready
<1>7. ASSUME NEW w \in Workers, Worker(w)
      PROVE  /\ Len(calls') > 0
             /\ IsAdd(Last)' /\ ~calls'[Last'].async
             /\ reply'[Last'] = "none" /\ made'[Last'] = 0
             /\ \A j \in Ids : vec'[j] # Last'
  <2>1. UNCHANGED <<main, calls, reply>>
    BY <1>7
    DEF Worker, Start, Embed, EmbedFails, Name, Store, StoreRefused, StoreThrows, IndexBreaks,
        Search, Unblock
  <2>2. \/ made' = made
        \/ busy[w] # 0 /\ made' = [made EXCEPT ![Call(w)] = named[w]]
    <3>1. CASE Store(w)
      BY <3>1 DEF Store, Stored, At, WorkersBusy
    <3>2. ASSUME Search(w) PROVE made' = made
      BY <3>2 DEF Search
    <3>3. ASSUME OtherWorkerSteps(w) PROVE made' = made
      BY <3>3
      DEF OtherWorkerSteps, Start, Embed, EmbedFails, Name, StoreRefused, StoreThrows,
          IndexBreaks, Unblock, Refused, HalfStored, InitThrows, resultVars
    <3>4. Store(w) \/ Search(w) \/ OtherWorkerSteps(w)
      BY <1>7 DEF Worker, OtherWorkerSteps
    <3> QED
      BY <3>1, <3>2, <3>3, <3>4
  <2>3. busy[w] # 0 => Call(w) # Last
    BY <2>1, Apart
  <2>4. made \in [Calls -> Ids \union {0}]
    BY DEF TypeOK
  <2>5. \A c \in Calls : c = Last => made'[c] = made[c]
    BY <2>2, <2>3, <2>4
  <2>6. ASSUME NEW j \in Ids PROVE vec'[j] = vec[j] \/ vec'[j] # Last
    <3>1. \/ vec' = vec
          \/ busy[w] # 0 /\ \E i \in Ids : vec' = [vec EXCEPT ![i] = Call(w)]
      <4>1. CASE Store(w) \/ StoreRefused(w)
        <5>1. busy[w] # 0 /\ named[w] \in Ids
          BY <4>1 DEF Store, StoreRefused, At, WorkersBusy
        <5> QED
          BY <4>1, <5>1 DEF Store, Stored, StoreRefused, Refused, HalfStored, storeVars
      <4>2. CASE ~Store(w) /\ ~StoreRefused(w)
        BY <1>7, <4>2
        DEF Worker, Start, Embed, EmbedFails, Name, StoreThrows, IndexBreaks, Search, Unblock,
            InitThrows, storeVars
      <4> QED
        BY <4>1, <4>2
    <3>2. vec \in [Ids -> 0 .. MaxCalls]
      BY DEF TypeOK
    <3> QED
      BY <2>3, <3>1, <3>2
  <2> QED
    BY <1>2, <2>1, <2>5, <2>6
<1>8. CASE Done
  <2>1. UNCHANGED <<main, calls, reply, made, vec>>
    BY <1>8 DEF Done, vars, resultVars, storeVars
  <2> QED
    BY <1>2, <2>1
<1> QED
  BY <1>3, <1>4, <1>5, <1>6, <1>7, <1>8 DEF Next, Free

(* A step keeps that a call leaves no trace before its time.               *)
LEMMA NothingEarlyStep == ASSUME IInv, Next PROVE NothingEarly'
<1> USE DEF IInv, Bookkeeping
<1>0. /\ made \in [Calls -> Ids \union {0}] /\ found \in [Calls -> {{0}} \union SUBSET Ids]
      /\ reply \in [Calls -> {"none", "ok", "error", "nil", "gone", "barred"}]
  BY DEF TypeOK
<1>1. ASSUME NEW c \in Calls, c > Len(calls')
      PROVE  reply'[c] = "none" /\ made'[c] = 0 /\ found'[c] = {0}
  <2>1. c > Len(calls) /\ c # Last /\ c \notin Issued
    BY <1>1, CallsGrow, Numbers DEF Last, Issued
  <2>2. (\E r \in Requests : Receive(r)) => c # New
    BY <1>1, Received, Numbers DEF New
  <2>3. \A i \in ExplicitIds : Rem(i) => c # New
    <3> SUFFICES ASSUME NEW i \in ExplicitIds, Rem(i) PROVE c # New
      OBVIOUS
    <3>1. [op |-> "rem", id |-> i] \in Requests
      BY DEF Requests
    <3> QED
      BY <2>2, <3>1 DEF Rem
  <2>4. \A r \in Deferred : DeferFull(r) \/ Defer(r) => c # New
    BY <2>2, DeferredRequests DEF DeferFull, Defer
  <2>5. \A w \in Workers : Store(w) \/ Search(w) => c # Call(w)
    BY <2>1, Apart DEF Store, Search, At, WorkersBusy
  <2>6. made'[c] = made[c] /\ found'[c] = found[c]
    BY <1>0, <2>1, <2>3, <2>5, ResultsBy
  <2>7. HandleUnblocked => c # Head(unblocked)
    BY <2>1, ToBeAnswered, Popped, Numbers DEF HandleUnblocked
  <2>8. Leave(c) => c <= Len(calls)
    BY DEF Leave, Timeout, Disconnect, Blocked
  <2>9. \A d \in Calls : Blocked(d) => c # d
    BY <2>1, Numbers DEF Blocked, Calls
  <2>10. reply'[c] = reply[c]
    BY <1>0, <2>1, <2>3, <2>4, <2>7, <2>9, ReplyBy
  <2> QED
    BY <2>1, <2>6, <2>10 DEF NothingEarly
<1>2. \A c \in Issued :
        calls[c] \in Deferred =>
          \/ made'[c] = made[c] /\ found'[c] = found[c]
          \/ \E w \in Workers : (Store(w) \/ Search(w)) /\ c = Call(w)
  <2> SUFFICES ASSUME NEW c \in Issued, calls[c] \in Deferred
               PROVE  \/ made'[c] = made[c] /\ found'[c] = found[c]
                      \/ \E w \in Workers : (Store(w) \/ Search(w)) /\ c = Call(w)
    OBVIOUS
  <2>1. AddSyncStored => c # Last
    BY Apart DEF AddSyncStored
  <2>2. c # New /\ c \in Calls
    BY Numbers DEF New, Issued
  <2> QED
    BY <1>0, <2>1, <2>2, ResultsBy
<1>3. \A w \in Workers : Store(w) \/ Search(w) =>
        /\ busy[w] # 0 /\ step'[w] = "unblock"
        /\ \A v \in Workers : ~Start(v)
  <2> SUFFICES ASSUME NEW w \in Workers, Store(w) \/ Search(w)
               PROVE  /\ busy[w] # 0 /\ step'[w] = "unblock"
                      /\ \A v \in Workers : ~Start(v)
    OBVIOUS
  <2>1. step[w] \in {"store", "search"} /\ step' = [step EXCEPT ![w] = "unblock"]
    BY DEF Store, Search, At, Goto
  <2>2. \A v \in Workers : Start(v) => step'[v] \in {"search", "embed"} /\ step[v] = "idle"
    BY DEF Start, At, Goto, TypeOK
  <2> QED
    BY <2>1, <2>2 DEF WorkersBusy, TypeOK
<1>4. ASSUME NEW k \in 1 .. Len(jobs'), k > Taken'
      PROVE  made'[jobs'[k]] = 0 /\ found'[jobs'[k]] = {0}
  <2>1. CASE k \in 1 .. Len(jobs)
    <3>1. jobs'[k] = jobs[k] /\ k > Taken
      BY <1>4, <2>1, PoolMoves, Numbers DEF JobsKept, Taken
    <3>2. \A w \in Workers : Store(w) \/ Search(w) => jobs[k] # Call(w)
      BY <1>3, <2>1, <3>1, Apart
    <3>3. jobs[k] \in Issued /\ calls[jobs[k]] \in Deferred
      BY <2>1 DEF HandedOnce
    <3> QED
      BY <1>2, <2>1, <3>1, <3>2, <3>3 DEF NothingEarly
  <2>2. CASE jobs'[k] = New /\ k \notin 1 .. Len(jobs)
    <3>1. New \in Calls /\ New > Len(calls) /\ New # Last /\ made' = made /\ found' = found
      <4>1. \E r \in Deferred : Defer(r)
        <5>1. jobs' = jobs => FALSE
          BY <2>2
        <5> QED
          BY <5>1
          DEF Next, Issue, AddSync, DeferFull, Rem, GetData, MainAdd, AddSyncStored,
              AddSyncRefused, AddSyncThrows, AddSyncBreaks, GetVector, HandleUnblocked, Leave,
              Timeout, Disconnect, Worker, Start, Embed, EmbedFails, Name, Store,
              StoreRefused, StoreThrows, IndexBreaks, Search, Unblock, Done, vars, poolVars
      <4>2. PICK r \in Deferred : Defer(r)
        BY <4>1
      <4> QED
        BY <4>2, DeferredRequests, Received, Numbers DEF Defer, New, Last, resultVars
    <3> QED
      BY <2>2, <3>1 DEF NothingEarly
  <2> QED
    BY <2>1, <2>2, PoolMoves DEF JobsKept
<1>5. ASSUME NEW w \in Workers, busy'[w] # 0, step'[w] # "unblock"
      PROVE  made'[Call(w)'] = 0 /\ found'[Call(w)'] = {0}
  <2>1. CASE busy[w] # 0 /\ Call(w)' = Call(w) /\ step[w] # "unblock"
    <3>1. Call(w) \in Issued /\ calls[Call(w)] \in Deferred
      BY <2>1, Apart
    <3>2. \A v \in Workers : Store(v) \/ Search(v) => Call(v) # Call(w)
      BY <1>3, <1>5, <2>1, Apart
    <3> QED
      BY <1>2, <2>1, <3>1, <3>2 DEF NothingEarly
  <2>2. CASE Start(w) /\ Taken + 1 \in 1 .. Len(jobs) /\ Call(w)' = jobs[Taken + 1]
    <3>1. UNCHANGED <<made, found>>
      BY <2>2 DEF Start, resultVars
    <3>2. Taken + 1 > Taken
      BY Numbers DEF Taken
    <3> QED
      BY <2>2, <3>1, <3>2 DEF NothingEarly
  <2> QED
    BY <1>5, <2>1, <2>2, PoolMoves DEF WorkersMove
<1> QED
  BY <1>1, <1>4, <1>5 DEF NothingEarly

-----------------------------------------------------------------------------
(* Answers                                                                 *)

(* What a command that is refused or done at once was numbered.            *)
LEMMA NewCall ==
  ASSUME TypeOK,
         (\E r \in Deferred : Defer(r) \/ DeferFull(r))
           \/ (\E i \in ExplicitIds : Rem(i))
           \/ (\E i \in ExplicitIds \union {NoId} : AddSync(i))
  PROVE  /\ New \in Calls /\ New \notin Issued /\ New > Len(calls) /\ New # Last
         /\ Issued' = Issued \union {New} /\ main = Free
         /\ (\E i \in ExplicitIds : Rem(i)) => calls'[New].op = "rem"
         /\ (\E i \in ExplicitIds \union {NoId} : AddSync(i)) => calls'[New].op = "add"
         /\ (\E r \in Deferred : Defer(r) \/ DeferFull(r)) => calls'[New] \in Deferred
<1>1. ASSUME NEW r \in Deferred, Defer(r) \/ DeferFull(r)
      PROVE  r \in Requests /\ Receive(r)
  BY <1>1, DeferredRequests DEF Defer, DeferFull
<1>2. ASSUME NEW i \in ExplicitIds, Rem(i)
      PROVE  [op |-> "rem", id |-> i] \in Requests /\ Receive([op |-> "rem", id |-> i])
  BY <1>2 DEF Rem, Requests
<1>3. ASSUME NEW i \in ExplicitIds \union {NoId}, AddSync(i)
      PROVE  /\ [op |-> "add", id |-> i, async |-> FALSE] \in Requests
             /\ Receive([op |-> "add", id |-> i, async |-> FALSE])
  BY <1>3 DEF AddSync, Requests
<1>4. ASSUME NEW r \in Requests, Receive(r)
      PROVE  /\ New \in Calls /\ New \notin Issued /\ New > Len(calls) /\ New # Last
             /\ Issued' = Issued \union {New} /\ main = Free
             /\ calls'[New] = r
  BY <1>4, Received, Numbers DEF New, Last
<1>5. \E r \in Requests : Receive(r)
  BY <1>1, <1>2, <1>3
<1>6. ASSUME NEW i \in ExplicitIds, Rem(i) PROVE calls'[New].op = "rem"
  <2>1. calls'[New] = [op |-> "rem", id |-> i]
    BY <1>2, <1>4, <1>6
  <2> QED
    BY <2>1
<1>7. ASSUME NEW i \in ExplicitIds \union {NoId}, AddSync(i) PROVE calls'[New].op = "add"
  <2>1. calls'[New] = [op |-> "add", id |-> i, async |-> FALSE]
    BY <1>3, <1>4, <1>7
  <2> QED
    BY <2>1
<1>8. ASSUME NEW r \in Deferred, Defer(r) \/ DeferFull(r) PROVE calls'[New] \in Deferred
  BY <1>1, <1>4, <1>8
<1> QED
  BY <1>4, <1>5, <1>6, <1>7, <1>8

(* A step keeps that only a search finds, and that it writes nothing.      *)
LEMMA FoundByKnnStep == ASSUME IInv, Next PROVE FoundByKnn'
<1> SUFFICES ASSUME NEW c \in Issued'
             PROVE  /\ found'[c] # {0} => IsKnn(c)'
                    /\ IsKnn(c)' => made'[c] = 0
  BY DEF FoundByKnn
<1> USE DEF IInv, Bookkeeping
<1>0. /\ made \in [Calls -> Ids \union {0}] /\ found \in [Calls -> {{0}} \union SUBSET Ids]
  BY DEF TypeOK
<1>1. CASE c \in Issued
  <2>1. calls'[c] = calls[c] /\ c \in Calls /\ c # New
    BY <1>1, CallsGrow, Numbers DEF New, Issued
  <2>2. \A w \in Workers : Search(w) => IsKnn(Call(w))
    BY DEF Search, At, WorkersBusy
  <2>3. \A w \in Workers : Store(w) => IsAdd(Call(w))
    BY DEF Store, At, WorkersBusy
  <2>4. AddSyncStored => IsAdd(Last)
    BY DEF AddSyncStored, MainAdds
  <2>5. (found[c] # {0} => IsKnn(c)) /\ (IsKnn(c) => made[c] = 0)
    BY <1>1 DEF FoundByKnn
  <2>6. (found'[c] # {0} => IsKnn(c)) /\ (IsKnn(c) => made'[c] = 0)
    BY <1>0, <2>1, <2>2, <2>3, <2>4, <2>5, ResultsBy DEF IsAdd, IsKnn
  <2> QED
    BY <2>1, <2>6 DEF IsKnn
<1>2. CASE c \notin Issued
  <2>1. c = New /\ c \in Calls /\ c > Len(calls)
    <3>1. calls' # calls
      BY <1>2 DEF Issued
    <3>2. c = New /\ c \in 1 .. Len(calls') /\ Len(calls') = New
      BY <1>2, <3>1, CallsGrow DEF Issued
    <3>3. c \in Calls
      BY TypeStep, NumbersNext
    <3> QED
      BY <3>2, <3>3, Numbers DEF New
  <2>2. made[c] = 0 /\ found[c] = {0}
    BY <2>1 DEF NothingEarly
  <2>3. \A w \in Workers : Store(w) \/ Search(w) => c # Call(w)
    BY <1>2, Apart DEF Store, Search, At, WorkersBusy
  <2>4. AddSyncStored => c # Last
    BY <1>2, Apart DEF AddSyncStored
  <2>5. \A i \in ExplicitIds : Rem(i) => calls'[c].op = "rem"
    BY <2>1, NewCall
  <2>6. found'[c] = {0}
    BY <1>0, <2>1, <2>2, <2>3, ResultsBy
  <2>7. made'[c] = 0 \/ \E i \in ExplicitIds : Rem(i)
    BY <1>0, <2>1, <2>2, <2>3, <2>4, ResultsBy
  <2> QED
    BY <2>5, <2>6, <2>7 DEF IsKnn
<1> QED
  BY <1>1, <1>2

(* A step keeps that an answered call is nowhere in the pool.              *)
LEMMA AnsweredLastStep == ASSUME IInv, Next PROVE AnsweredLast'
<1> USE DEF IInv, Bookkeeping
<1>0. reply \in [Calls -> {"none", "ok", "error", "nil", "gone", "barred"}]
  BY DEF TypeOK
<1> DEFINE nowhere(c) ==
      /\ \A k \in 1 .. Len(jobs') : k > Taken' => jobs'[k] # c
      /\ \A w \in Workers : busy'[w] # 0 => Call(w)' # c
      /\ \A k \in 1 .. Len(unblocked') : unblocked'[k] # c
<1> SUFFICES ASSUME NEW c \in Issued', reply'[c] \in {"ok", "error"}
             PROVE  nowhere(c)
  BY DEF AnsweredLast
<1>1. c \in Calls
  BY TypeStep, NumbersNext
<1>2. Taken \in Nat /\ Taken' \in Nat
  BY PoolStep, TypeStep, Numbers, NumbersNext DEF Taken, QueueInOrder, PoolInv
<1>3. ASSUME \A k \in 1 .. Len(jobs) : k > Taken => jobs[k] # c,
             \A w \in Workers : busy[w] # 0 => Call(w) # c,
             \A k \in 1 .. Len(unblocked) : unblocked[k] # c,
             jobs' = jobs \/ c # New
      PROVE  nowhere(c)
  <2>1. \A k \in 1 .. Len(jobs') : k > Taken' => jobs'[k] # c
    BY <1>2, <1>3, PoolMoves DEF JobsKept
  <2>2. \A w \in Workers : busy'[w] # 0 => Call(w)' # c
    BY <1>2, <1>3, PoolMoves DEF WorkersMove
  <2>3. \A k \in 1 .. Len(unblocked') : unblocked'[k] # c
    BY <1>3, PoolMoves DEF UnblockedMove
  <2> QED
    BY <2>1, <2>2, <2>3
<1>4. ASSUME calls'[c] \notin Deferred PROVE nowhere(c)
  <2>1. TypeOK' /\ PoolInv'
    BY TypeStep, PoolStep
  <2>2. \A k \in 1 .. Len(jobs') : calls'[jobs'[k]] \in Deferred
    BY <2>1 DEF PoolInv, HandedOnce, Deferred
  <2>3. \A w \in Workers : busy'[w] # 0 => calls'[Call(w)'] \in Deferred
    <3>1. \A w \in Workers : busy[w] # 0 => Call(w) \in Issued /\ calls[Call(w)] \in Deferred
      BY Apart
    <3>2. \A k \in 1 .. Len(jobs) : jobs[k] \in Issued /\ calls[jobs[k]] \in Deferred
      BY DEF HandedOnce
    <3> QED
      BY <3>1, <3>2, CallsGrow, PoolMoves DEF WorkersMove
  <2>4. \A k \in 1 .. Len(unblocked') : calls'[unblocked'[k]] \in Deferred
    <3>1. \A k \in 1 .. Len(unblocked) :
            unblocked[k] \in Issued /\ calls[unblocked[k]] \in Deferred
      BY ToBeAnswered
    <3>2. \A w \in Workers : busy[w] # 0 => Call(w) \in Issued /\ calls[Call(w)] \in Deferred
      BY Apart
    <3> QED
      BY <3>1, <3>2, CallsGrow, PoolMoves DEF UnblockedMove
  <2> QED
    BY <1>4, <2>2, <2>3, <2>4
<1>5. CASE reply'[c] = reply[c]
  <2>1. c <= Len(calls)
    BY <1>1, <1>5, Numbers DEF NothingEarly, Calls
  <2>2. c \in Issued /\ c # New
    BY <1>1, <2>1, Numbers DEF Issued, New, Calls
  <2> QED
    BY <1>3, <1>5, <2>2 DEF AnsweredLast
<1>6. CASE (AddSyncStored \/ AddSyncRefused) /\ c = Last
  <2>1. c \in Issued /\ calls[c] \notin Deferred
    BY <1>6, Apart DEF AddSyncStored, AddSyncRefused
  <2> QED
    BY <1>4, <2>1, CallsGrow
<1>7. CASE (\E i \in ExplicitIds : Rem(i)) /\ c = New
  <2>1. calls'[c].op = "rem" /\ calls'[c] \in Requests
    BY <1>7, NewCall, TypeStep, NumbersNext
  <2> QED
    BY <1>4, <2>1, RequestKinds
<1>8. CASE (\E r \in Deferred : DeferFull(r)) /\ c = New
  <2>1. c \notin Issued /\ jobs' = jobs
    BY <1>8, NewCall DEF DeferFull
  <2>2. \A k \in 1 .. Len(jobs) : jobs[k] # c
    BY <2>1 DEF HandedOnce
  <2>3. \A w \in Workers : busy[w] # 0 => Call(w) # c
    BY <2>1, Apart
  <2>4. \A k \in 1 .. Len(unblocked) : unblocked[k] # c
    BY <2>1, ToBeAnswered
  <2> QED
    BY <1>3, <2>1, <2>2, <2>3, <2>4
<1>10. CASE (\E r \in Deferred : Defer(r)) /\ c = New
         /\ \E a \in {"none", "barred"} : reply' = [reply EXCEPT ![New] = a]
  BY <1>0, <1>1, <1>10
<1>9. CASE HandleUnblocked /\ c = Head(unblocked)
  <2>1. /\ Len(unblocked') = Len(unblocked) - 1
        /\ \A k \in 1 .. Len(unblocked') : unblocked'[k] = unblocked[k + 1]
        /\ Len(unblocked) > 0 /\ c = unblocked[1]
        /\ UNCHANGED <<jobs, queue, busy>>
    BY <1>9, Popped DEF HandleUnblocked, poolVars
  <2>2. 1 \in 1 .. Len(unblocked)
    BY <2>1, Numbers
  <2>3. \A k \in 1 .. Len(jobs') : k > Taken' => jobs'[k] # c
    BY <2>1, <2>2, Apart DEF Taken
  <2>4. \A w \in Workers : busy'[w] # 0 => Call(w)' # c
    BY <2>1, <2>2 DEF UnblockedOnce, Call
  <2>5. \A k \in 1 .. Len(unblocked') : k + 1 \in 1 .. Len(unblocked) /\ k + 1 # 1
    BY <2>1, Numbers
  <2>6. \A k \in 1 .. Len(unblocked') : unblocked'[k] # c
    BY <2>1, <2>2, <2>5 DEF UnblockedOnce
  <2> QED
    BY <2>3, <2>4, <2>6
<1> QED
  BY <1>0, <1>1, <1>5, <1>6, <1>7, <1>8, <1>9, <1>10, ReplyBy

(* An answer is final.                                                     *)
LEMMA ReplyOnce ==
  ASSUME IInv, Next
  PROVE  \A c \in Calls : reply'[c] = reply[c] \/ reply[c] = "none"
<1> USE DEF IInv, Bookkeeping
<1>0. reply \in [Calls -> {"none", "ok", "error", "nil", "gone", "barred"}]
  BY DEF TypeOK
<1>1. AddSyncStored \/ AddSyncRefused => reply[Last] = "none"
  BY DEF AddSyncStored, AddSyncRefused, MainAdds
<1>2. (\E i \in ExplicitIds : Rem(i)) \/ (\E r \in Deferred : Defer(r) \/ DeferFull(r))
        => reply[New] = "none"
  BY NewCall DEF NothingEarly
<1>3. \A c \in Calls : Blocked(c) => reply[c] = "none"
  BY DEF Blocked
<1> QED
  BY <1>0, <1>1, <1>2, <1>3, ReplyBy

(* An id is written to for an add that has not been answered, with its     *)
(* data unless the client has left, or for a removal.                      *)
WritesAdd(c, i, d) ==
  /\ c \in Issued /\ IsAdd(c) /\ (calls[c].async \/ (c = Last /\ main.at = "add"))
  /\ made[c] = 0 /\ reply[c] \notin {"ok", "error"}
  /\ made' = [made EXCEPT ![c] = i] /\ store' = [store EXCEPT ![i] = d]
  /\ d # 0 /\ (d = c \/ reply[c] # "none")
  /\ index # "null" /\ index' = "ready" /\ calls' = calls
  /\ vec' = [vec EXCEPT ![i] = c] /\ torn' = torn \ {i}
  /\ HasRoom(i, labels) /\ labels' = labels \union {i}
  /\ \/ AddSyncStored /\ c = Last
     \/ \E w \in Workers : Store(w) /\ c = Call(w)

(* A label is written to by such an add alone, when it fails in the index. *)
WritesHalf(c, i) ==
  /\ c \in Issued /\ IsAdd(c) /\ (calls[c].async \/ (c = Last /\ main.at = "add"))
  /\ made[c] = 0 /\ reply[c] \notin {"ok", "error"}
  /\ index # "null" /\ index' = "ready"
  /\ vec' = [vec EXCEPT ![i] = c] /\ torn' = torn \union {i}
  /\ HasRoom(i, labels) /\ labels' = labels \union {i}
  /\ UNCHANGED <<calls, made, store>>
  /\ \/ AddSyncRefused /\ c = Last
     \/ \E w \in Workers : StoreRefused(w) /\ c = Call(w)

WritesRem(i) ==
  /\ Rem(i)
  /\ made' = [made EXCEPT ![New] = i] /\ store' = [store EXCEPT ![i] = 0]
  /\ vec' = IF store[i] # 0 THEN [vec EXCEPT ![i] = 0] ELSE vec
  /\ labels' = labels /\ torn' = torn

(* Where what is stored, or the id written by a call, changes.             *)
LEMMA WriteBy ==
  ASSUME IInv, Next
  PROVE  \/ UNCHANGED <<made, store, vec, labels, torn>>
         \/ \E c \in Issued, i \in Ids, d \in Items : WritesAdd(c, i, d)
         \/ \E c \in Issued, i \in Ids : WritesHalf(c, i)
         \/ \E i \in ExplicitIds : WritesRem(i)
<1> USE DEF IInv, Bookkeeping
<1> USE DEF resultVars, storeVars
<1>1. CASE Issue \/ GetVector \/ HandleUnblocked \/ Done
  <2>1. ASSUME NEW i \in ExplicitIds, Rem(i) PROVE WritesRem(i)
    BY <2>1 DEF Rem, Removed, WritesRem
  <2>2. CASE ~\E i \in ExplicitIds : Rem(i)
    BY <1>1, <2>2
    DEF Issue, AddSync, Defer, DeferFull, GetData, GetVector, HandleUnblocked, Done, vars
  <2> QED
    BY <2>1, <2>2
<1>2. CASE AddSyncRefused \/ AddSyncThrows \/ AddSyncBreaks
  <2>1. CASE AddSyncRefused /\ HalfStored(Last, main.id)
    <3>1. /\ Last \in Issued /\ IsAdd(Last) /\ made[Last] = 0 /\ reply[Last] = "none"
          /\ main.at = "add" /\ main.id \in Ids /\ calls' = calls
      <4>1. main.id \in Ids
        BY <2>1 DEF AddSyncRefused, TypeOK, Free
      <4> QED
        BY <2>1, <4>1, Apart DEF AddSyncRefused, MainAdds
    <3>2. WritesHalf(Last, main.id)
      BY <2>1, <3>1 DEF HalfStored, WritesHalf
    <3> QED
      BY <3>1, <3>2
  <2>2. CASE ~(AddSyncRefused /\ HalfStored(Last, main.id))
    BY <1>2, <2>2 DEF AddSyncRefused, AddSyncThrows, AddSyncBreaks, Refused, InitThrows
  <2> QED
    BY <2>1, <2>2
<1>3. ASSUME NEW c \in Calls, Leave(c) PROVE UNCHANGED <<made, store, vec, labels, torn>>
  BY <1>3 DEF Leave, Timeout, Disconnect
<1>4. ASSUME NEW w \in Workers, OtherWorkerSteps(w) \/ Search(w)
      PROVE  \/ UNCHANGED <<made, store, vec, labels, torn>>
             \/ \E c \in Issued, i \in Ids : WritesHalf(c, i)
  <2>1. CASE StoreRefused(w) /\ HalfStored(Call(w), named[w])
    <3>1. /\ busy[w] # 0 /\ IsAdd(Call(w)) /\ named[w] \in Ids /\ calls' = calls
          /\ step[w] = "store"
      BY <2>1 DEF StoreRefused, At, WorkersBusy
    <3>2. Call(w) \in Issued /\ calls[Call(w)] \in Deferred /\ calls[Call(w)] \in Requests
      BY <3>1, Apart, Numbers
    <3>3. calls[Call(w)].async
      BY <3>1, <3>2, RequestKinds DEF IsAdd
    <3>4. made[Call(w)] = 0
      BY <3>1 DEF NothingEarly
    <3>5. reply[Call(w)] \notin {"ok", "error"}
      BY <3>1, <3>2 DEF AnsweredLast
    <3>6. WritesHalf(Call(w), named[w])
      BY <2>1, <3>1, <3>2, <3>3, <3>4, <3>5 DEF HalfStored, WritesHalf
    <3> QED
      BY <3>1, <3>2, <3>6
  <2>2. CASE ~(StoreRefused(w) /\ HalfStored(Call(w), named[w]))
    BY <1>4, <2>2
    DEF OtherWorkerSteps, Start, Embed, EmbedFails, Name, StoreRefused, StoreThrows,
        IndexBreaks, Unblock, Search, Refused, InitThrows
  <2> QED
    BY <2>1, <2>2
<1>5. ASSUME NEW c \in Issued, NEW i \in Ids, Stored(c, i)
      PROVE  \E d \in Items :
               /\ made' = [made EXCEPT ![c] = i] /\ store' = [store EXCEPT ![i] = d]
               /\ d # 0 /\ (d = c \/ reply[c] # "none")
               /\ index # "null" /\ index' = "ready"
               /\ vec' = [vec EXCEPT ![i] = c] /\ torn' = torn \ {i}
               /\ HasRoom(i, labels) /\ labels' = labels \union {i}
  <2>1. PICK d \in IF reply[c] = "none" THEN {c} ELSE {c, Stray} :
          store' = [store EXCEPT ![i] = d]
    BY <1>5 DEF Stored
  <2>2. d \in Items /\ d # 0
    BY Numbers DEF Items, Stray, Calls
  <2> QED
    BY <1>5, <2>1, <2>2 DEF Stored
<1>6. CASE AddSyncStored
  <2>1. /\ Last \in Issued /\ IsAdd(Last) /\ made[Last] = 0 /\ reply[Last] = "none"
        /\ main.at = "add" /\ main.id \in Ids /\ Stored(Last, main.id) /\ calls' = calls
    <3>1. main.id \in Ids
      BY <1>6 DEF AddSyncStored, TypeOK, Free
    <3> QED
      BY <1>6, <3>1, Apart DEF AddSyncStored, MainAdds
  <2>2. PICK d \in Items :
          /\ made' = [made EXCEPT ![Last] = main.id] /\ store' = [store EXCEPT ![main.id] = d]
          /\ d # 0 /\ (d = Last \/ reply[Last] # "none")
          /\ index # "null" /\ index' = "ready"
          /\ vec' = [vec EXCEPT ![main.id] = Last] /\ torn' = torn \ {main.id}
          /\ HasRoom(main.id, labels) /\ labels' = labels \union {main.id}
    BY <1>5, <2>1
  <2>3. WritesAdd(Last, main.id, d)
    BY <1>6, <2>1, <2>2 DEF WritesAdd
  <2> QED
    BY <2>1, <2>3
<1>7. ASSUME NEW w \in Workers, Store(w)
      PROVE  \E c \in Issued, i \in Ids, d \in Items : WritesAdd(c, i, d)
  <2>1. /\ busy[w] # 0 /\ IsAdd(Call(w)) /\ named[w] \in Ids
        /\ Stored(Call(w), named[w]) /\ calls' = calls /\ step[w] = "store"
    BY <1>7 DEF Store, At, WorkersBusy
  <2>2. Call(w) \in Issued /\ calls[Call(w)] \in Deferred /\ calls[Call(w)] \in Requests
    BY <2>1, Apart, Numbers
  <2>3. calls[Call(w)].async
    BY <2>1, <2>2, RequestKinds DEF IsAdd
  <2>4. made[Call(w)] = 0
    BY <2>1 DEF NothingEarly
  <2>5. reply[Call(w)] \notin {"ok", "error"}
    BY <2>1, <2>2 DEF AnsweredLast
  <2>6. PICK d \in Items :
          /\ made' = [made EXCEPT ![Call(w)] = named[w]]
          /\ store' = [store EXCEPT ![named[w]] = d]
          /\ d # 0 /\ (d = Call(w) \/ reply[Call(w)] # "none")
          /\ index # "null" /\ index' = "ready"
          /\ vec' = [vec EXCEPT ![named[w]] = Call(w)] /\ torn' = torn \ {named[w]}
          /\ HasRoom(named[w], labels) /\ labels' = labels \union {named[w]}
    BY <1>5, <2>1, <2>2
  <2>7. WritesAdd(Call(w), named[w], d)
    BY <1>7, <2>1, <2>2, <2>3, <2>4, <2>5, <2>6 DEF WritesAdd
  <2> QED
    BY <2>1, <2>2, <2>7
<1> QED
  BY <1>1, <1>2, <1>3, <1>4, <1>6, <1>7 DEF Next, MainAdd, Worker, OtherWorkerSteps

(* A call that has written an id keeps it; one that has just arrived has   *)
(* written none, unless it removes.                                        *)
LEMMA MadeOnce ==
  ASSUME IInv, Next
  PROVE  /\ made \in [Calls -> Ids \union {0}] /\ made' \in [Calls -> Ids \union {0}]
         /\ \A c \in Calls : made[c] # 0 => made'[c] = made[c]
         /\ \A c \in Issued' : c \in Issued \/ (c = New /\ made[c] = 0 /\ found[c] = {0})
         /\ \A c \in Issued' : c \in Calls
         /\ \A c \in Calls : c \notin Issued => made[c] = 0
<1> USE DEF IInv, Bookkeeping
<1>1. made \in [Calls -> Ids \union {0}] /\ made' \in [Calls -> Ids \union {0}]
  BY TypeStep DEF TypeOK
<1>2. \A c \in Issued' : c \in Calls
  BY TypeStep, NumbersNext
<1>3. \A c \in Calls : c \notin Issued => made[c] = 0 /\ found[c] = {0}
  <2>1. \A c \in Calls : c \notin Issued => c > Len(calls)
    BY Numbers DEF Calls, Issued
  <2> QED
    BY <2>1 DEF NothingEarly
<1>4. \A c \in Issued' : c \in Issued \/ c = New
  BY CallsGrow DEF Issued
<1>5. \A i \in ExplicitIds : Rem(i) => made[New] = 0
  BY <1>3, NewCall
<1>6. \A c \in Issued, i \in Ids, d \in Items : WritesAdd(c, i, d) => made[c] = 0
  BY DEF WritesAdd
<1>7. \A c \in Calls : made[c] # 0 => made'[c] = made[c]
  BY <1>1, <1>5, <1>6, WriteBy DEF WritesAdd, WritesHalf, WritesRem
<1> QED
  BY <1>1, <1>2, <1>3, <1>4, <1>7

(* What has been answered is what has been written or found.               *)
AnswersMean ==
  \A c \in Issued :
    /\ reply[c] = "ok" => made[c] # 0 \/ found[c] # {0}
    /\ reply[c] = "error" => made[c] = 0 /\ found[c] = {0}

(* A step answers "ok" only for a write or a search, an error only for     *)
(* neither.                                                                *)
LEMMA AnswersMeanStep == ASSUME IInv, Next PROVE AnswersMean'
<1> SUFFICES ASSUME NEW c \in Issued'
             PROVE  /\ reply'[c] = "ok" => made'[c] # 0 \/ found'[c] # {0}
                    /\ reply'[c] = "error" => made'[c] = 0 /\ found'[c] = {0}
  BY DEF AnswersMean
<1> USE DEF IInv, Bookkeeping
<1>0. /\ made \in [Calls -> Ids \union {0}] /\ found \in [Calls -> {{0}} \union SUBSET Ids]
      /\ reply \in [Calls -> {"none", "ok", "error", "nil", "gone", "barred"}]
      /\ c \in Calls /\ ExplicitIds \subseteq Ids /\ 0 \notin Ids
  BY MadeOnce, Numbers DEF TypeOK, Ids
<1>1. found[c] # {0} => found'[c] # {0}
  <2>1. Hits # {0}
    BY <1>0 DEF Hits
  <2> QED
    BY <1>0, <2>1, ResultsBy
<1>2. made[c] # 0 => made'[c] # 0
  BY <1>0, MadeOnce
<1>3. reply[c] = "error" => made'[c] = made[c] /\ found'[c] = found[c]
  <2> SUFFICES ASSUME reply[c] = "error" PROVE made'[c] = made[c] /\ found'[c] = found[c]
    OBVIOUS
  <2>1. c \in Issued
    BY <1>0, Numbers DEF NothingEarly, Issued, Calls
  <2>2. \A w \in Workers : Search(w) \/ Store(w) => Call(w) # c
    BY <2>1 DEF AnsweredLast, Search, Store, At, WorkersBusy
  <2>3. AddSyncStored => Last # c
    BY DEF AddSyncStored, MainAdds
  <2>4. \A i \in ExplicitIds : Rem(i) => New # c
    BY <2>1, NewCall
  <2> QED
    BY <1>0, <2>2, <2>3, <2>4, ResultsBy
<1>4. CASE reply'[c] = reply[c]
  <2>1. reply[c] # "none" => c \in Issued
    BY <1>0, Numbers DEF NothingEarly, Issued, Calls
  <2> QED
    BY <1>1, <1>2, <1>3, <1>4, <2>1 DEF AnswerTells
<1>5. CASE AddSyncStored /\ c = Last /\ reply'[c] = "ok"
  <2>1. main.id \in Ids
    BY <1>5 DEF AddSyncStored, TypeOK, Free
  <2>2. made' = [made EXCEPT ![Last] = main.id]
    BY <1>5 DEF AddSyncStored, Stored
  <2> QED
    BY <1>0, <1>5, <2>1, <2>2
<1>6. CASE AddSyncRefused /\ c = Last /\ reply'[c] = "error"
  <2>1. made' = made /\ found' = found /\ made[c] = 0 /\ IsAdd(c) /\ c \in Issued
    BY <1>6, Apart DEF AddSyncRefused, Refused, HalfStored, resultVars, MainAdds
  <2>2. found[c] = {0}
    BY <2>1 DEF FoundByKnn, IsAdd, IsKnn
  <2> QED
    BY <1>6, <2>1, <2>2
<1>7. ASSUME NEW r \in Deferred, DeferFull(r), c = New, reply'[c] = "error"
      PROVE  made'[c] = 0 /\ found'[c] = {0}
  <2>1. made' = made /\ found' = found /\ c > Len(calls)
    BY <1>7, NewCall DEF DeferFull, resultVars
  <2> QED
    BY <1>0, <2>1 DEF NothingEarly
<1>10. ASSUME NEW r \in Deferred, Defer(r), NEW a \in {"none", "barred"},
              reply' = [reply EXCEPT ![New] = a]
       PROVE  reply'[c] = reply[c] \/ reply'[c] \in {"none", "barred"}
  BY <1>0, <1>10
<1>8. ASSUME NEW i \in ExplicitIds, Rem(i), c = New PROVE made'[c] # 0
  BY <1>0, <1>8 DEF Rem
<1>9. ASSUME HandleUnblocked, c = Head(unblocked)
      PROVE  /\ made' = made /\ found' = found /\ c \in Issued
             /\ ReplyError(c) => made[c] = 0 /\ found[c] = {0}
             /\ ReplyId(c) \/ ReplyNeighbors(c) => made[c] # 0 \/ found[c] # {0}
  <2>1. made' = made /\ found' = found /\ unblocked # <<>>
    BY <1>9 DEF HandleUnblocked, resultVars
  <2>2. c \in Issued /\ calls[c] \in Deferred
    BY <1>9, <2>1, ToBeAnswered, Popped, Numbers DEF HandleUnblocked
  <2>3. calls[c] \in Requests
    BY <2>2, Numbers
  <2>4. IsAdd(c) \/ IsKnn(c)
    BY <2>2, <2>3, RequestKinds DEF IsAdd, IsKnn
  <2>5. (IsAdd(c) => ~IsKnn(c)) /\ (IsKnn(c) => made[c] = 0) /\ (IsAdd(c) => found[c] = {0})
    BY <2>2 DEF FoundByKnn, IsAdd, IsKnn
  <2> QED
    BY <2>1, <2>2, <2>4, <2>5 DEF ReplyError, ReplyId, ReplyNeighbors, Succeeded
<1> QED
  BY <1>0, <1>4, <1>5, <1>6, <1>7, <1>8, <1>9, <1>10, ReplyBy

(* A step replicates exactly the writes it acknowledges.                   *)
LEMMA ReplicatedStep == ASSUME IInv, Next PROVE ReplicatedIffAcknowledged'
<1> USE DEF IInv, Bookkeeping
<1> DEFINE acknowledged == {c \in Issued : reply[c] = "ok" /\ ~IsKnn(c)}
<1>0. /\ reply \in [Calls -> {"none", "ok", "error", "nil", "gone", "barred"}]
      /\ Issued \subseteq Calls /\ Issued \subseteq Issued'
      /\ \A c \in Issued : calls'[c] = calls[c]
      /\ shipped = acknowledged
  BY CallsGrow, Numbers DEF TypeOK, ReplicatedIffAcknowledged
<1> SUFFICES shipped' = {c \in Issued' : reply'[c] = "ok" /\ calls'[c].op # "knn"}
  BY DEF ReplicatedIffAcknowledged, IsKnn
<1> HIDE DEF acknowledged
<1>1. \A c \in Issued' : c \notin Issued => c = New /\ New \in Calls /\ reply[c] = "none"
  <2> SUFFICES ASSUME NEW c \in Issued', c \notin Issued
               PROVE  c = New /\ New \in Calls /\ reply[c] = "none"
    OBVIOUS
  <2>1. c = New /\ c \in Calls
    BY MadeOnce
  <2>2. New > Len(calls)
    BY Numbers DEF New
  <2> QED
    BY <2>1, <2>2 DEF NothingEarly
<1>2. \A c \in Issued : c \in shipped <=> reply[c] = "ok" /\ calls'[c].op # "knn"
  BY <1>0 DEF acknowledged, IsKnn
<1>3. shipped \subseteq Issued
  BY Acknowledged
<1>4. CASE reply' = reply /\ UNCHANGED replicaVars
  BY <1>0, <1>1, <1>2, <1>3, <1>4 DEF replicaVars
<1>5. ASSUME NEW c \in Calls, c \in Issued', reply' = [reply EXCEPT ![c] = "ok"],
             calls'[c].op # "knn", shipped' = shipped \union {c}
      PROVE  shipped' = {e \in Issued' : reply'[e] = "ok" /\ calls'[e].op # "knn"}
  BY <1>0, <1>1, <1>2, <1>3, <1>5
<1>6. ASSUME NEW c \in Calls, c \notin shipped, NEW a,
             reply' = [reply EXCEPT ![c] = a], a # "ok" \/ calls'[c].op = "knn",
             shipped' = shipped
      PROVE  shipped' = {e \in Issued' : reply'[e] = "ok" /\ calls'[e].op # "knn"}
  BY <1>0, <1>1, <1>2, <1>3, <1>6
<1>7. \A c \in shipped : reply[c] = "ok"
  BY <1>2, <1>3
<1>8. CASE AddSyncStored /\ reply' = [reply EXCEPT ![Last] = "ok"]
             /\ ReplicateAdd(Last, main.id)
  <2>1. Last \in Issued /\ Last \in Calls /\ IsAdd(Last)
    BY <1>8, Apart DEF AddSyncStored, MainAdds
  <2>2. shipped' = shipped \union {Last}
    BY <1>8 DEF ReplicateAdd
  <2>3. calls'[Last].op # "knn" /\ Last \in Issued'
    BY <1>0, <2>1 DEF IsAdd
  <2> QED
    BY <1>5, <1>8, <2>1, <2>2, <2>3
<1>9. CASE AddSyncRefused /\ reply' = [reply EXCEPT ![Last] = "error"]
             /\ UNCHANGED replicaVars
  <2>1. Last \in Calls /\ Last \notin shipped
    BY <1>7, <1>9, Apart DEF AddSyncRefused, MainAdds
  <2> QED
    BY <1>6, <1>9, <2>1 DEF replicaVars
<1>10. ASSUME NEW r \in Deferred, DeferFull(r), reply' = [reply EXCEPT ![New] = "error"],
              UNCHANGED replicaVars
       PROVE  shipped' = {e \in Issued' : reply'[e] = "ok" /\ calls'[e].op # "knn"}
  <2>1. New \in Calls /\ New \notin shipped
    BY <1>3, <1>10, NewCall
  <2> QED
    BY <1>6, <1>10, <2>1 DEF replicaVars
<1>17. ASSUME NEW r \in Deferred, Defer(r), NEW a \in {"none", "barred"},
              reply' = [reply EXCEPT ![New] = a], UNCHANGED replicaVars
       PROVE  shipped' = {e \in Issued' : reply'[e] = "ok" /\ calls'[e].op # "knn"}
  <2>1. New \in Calls /\ New \notin shipped
    BY <1>3, <1>17, NewCall
  <2> QED
    BY <1>6, <1>17, <2>1 DEF replicaVars
<1>11. ASSUME NEW i \in ExplicitIds, Rem(i), reply' = [reply EXCEPT ![New] = "ok"]
       PROVE  shipped' = {e \in Issued' : reply'[e] = "ok" /\ calls'[e].op # "knn"}
  <2>1. New \in Calls /\ calls'[New].op = "rem" /\ New \in Issued'
    BY <1>11, NewCall
  <2>2. shipped' = shipped \union {New}
    BY <1>11 DEF Rem
  <2> QED
    BY <1>5, <1>11, <2>1, <2>2
<1>12. ASSUME NEW c \in Calls, NEW a \in {"nil", "gone"}, Blocked(c),
              reply' = [reply EXCEPT ![c] = a], UNCHANGED replicaVars
       PROVE  shipped' = {e \in Issued' : reply'[e] = "ok" /\ calls'[e].op # "knn"}
  <2>1. c \notin shipped
    BY <1>7, <1>12 DEF Blocked
  <2> QED
    BY <1>6, <1>12, <2>1 DEF replicaVars
<1> DEFINE h == Head(unblocked)
<1>13. ASSUME HandleUnblocked, reply[h] = "none"
       PROVE  /\ h \in Issued /\ h \in Issued' /\ h \in Calls /\ h \notin shipped
              /\ calls' = calls
  BY <1>0, <1>7, <1>13, ToBeAnswered, Popped, Numbers DEF HandleUnblocked
<1>14. ASSUME HandleUnblocked, reply[h] = "none", UNCHANGED replicaVars,
              \/ ReplyError(h) /\ reply' = [reply EXCEPT ![h] = "error"]
              \/ ReplyNeighbors(h) /\ reply' = [reply EXCEPT ![h] = "ok"]
       PROVE  shipped' = {e \in Issued' : reply'[e] = "ok" /\ calls'[e].op # "knn"}
  <2>1. ReplyNeighbors(h) => calls'[h].op = "knn"
    BY <1>13, <1>14 DEF ReplyNeighbors, IsKnn
  <2> QED
    BY <1>6, <1>13, <1>14, <2>1 DEF replicaVars
<1>15. ASSUME HandleUnblocked, reply[h] = "none", ReplyId(h), ReplicateAdd(h, made[h]),
              reply' = [reply EXCEPT ![h] = "ok"]
       PROVE  shipped' = {e \in Issued' : reply'[e] = "ok" /\ calls'[e].op # "knn"}
  <2>1. calls'[h].op = "add" /\ shipped' = shipped \union {h}
    BY <1>13, <1>15 DEF ReplyId, IsAdd, ReplicateAdd
  <2> QED
    BY <1>5, <1>13, <1>15, <2>1
<1>16. ASSUME HandleUnblocked, reply[h] = "none",
              \/ /\ ReplyError(h) \/ ReplyNeighbors(h)
                 /\ UNCHANGED replicaVars
              \/ ReplyId(h) /\ ReplicateAdd(h, made[h]),
              \/ ReplyError(h) /\ reply' = [reply EXCEPT ![h] = "error"]
              \/ ReplyId(h) /\ reply' = [reply EXCEPT ![h] = "ok"]
              \/ ReplyNeighbors(h) /\ reply' = [reply EXCEPT ![h] = "ok"]
       PROVE  shipped' = {e \in Issued' : reply'[e] = "ok" /\ calls'[e].op # "knn"}
  <2>1. ReplyId(h) => ~ReplyError(h) /\ ~ReplyNeighbors(h)
    BY DEF ReplyId, ReplyError, ReplyNeighbors, IsAdd, IsKnn
  <2> QED
    BY <1>14, <1>15, <1>16, <2>1
<1> HIDE DEF h
<1> QED
  BY <1>4, <1>8, <1>9, <1>10, <1>11, <1>12, <1>16, <1>17, ReplyBy DEF h

(* A step stores something only in an index that is there.                 *)
LEMMA EmptyUnlessReadyStep == ASSUME IInv, Next PROVE EmptyUnlessReady'
<1> USE DEF IInv, Bookkeeping
<1> SUFFICES ASSUME index' # "ready"
             PROVE  /\ \A c \in Issued' : IsAdd(c)' => made'[c] = 0
                    /\ \A i \in Ids : store'[i] = 0
  BY DEF EmptyUnlessReady
<1>1. index # "ready"
  <2>1. \A c, i : Stored(c, i) \/ HalfStored(c, i) => index' = "ready"
    BY DEF Stored, HalfStored
  <2>2. CASE Issue \/ GetVector \/ HandleUnblocked \/ Done
    BY <2>2
    DEF Issue, AddSync, Defer, DeferFull, Rem, Removed, GetData, GetVector, HandleUnblocked, Done,
        vars, storeVars
  <2>3. CASE MainAdd
    BY <2>1, <2>3
    DEF MainAdd, AddSyncStored, AddSyncRefused, AddSyncThrows, AddSyncBreaks, Refused,
        InitThrows, storeVars
  <2>4. ASSUME NEW c \in Calls, Leave(c) PROVE index # "ready"
    BY <2>4 DEF Leave, Timeout, Disconnect, storeVars
  <2>5. ASSUME NEW w \in Workers, Worker(w) PROVE index # "ready"
    BY <2>1, <2>5
    DEF Worker, Start, Embed, EmbedFails, Name, Store, StoreRefused, StoreThrows,
        IndexBreaks, Search, Unblock, Refused, InitThrows, storeVars
  <2> QED
    BY <2>2, <2>3, <2>4, <2>5 DEF Next
<1>2. /\ \A c \in Issued : IsAdd(c) => made[c] = 0
      /\ \A i \in Ids : store[i] = 0
  BY <1>1 DEF EmptyUnlessReady
<1>3. \A c \in Issued' : IsAdd(c)' => made[c] = 0
  BY <1>2, MadeOnce, CallsGrow DEF IsAdd
<1>4. CASE UNCHANGED <<made, store>>
  BY <1>2, <1>3, <1>4
<1>5. ASSUME NEW i \in ExplicitIds, Rem(i),
             made' = [made EXCEPT ![New] = i], store' = [store EXCEPT ![i] = 0]
      PROVE  /\ \A c \in Issued' : IsAdd(c)' => made'[c] = 0
             /\ \A j \in Ids : store'[j] = 0
  <2>1. calls'[New].op = "rem"
    BY <1>5, NewCall
  <2>2. \A c \in Issued' : IsAdd(c)' => made'[c] = 0
    BY <1>3, <1>5, <2>1, MadeOnce DEF IsAdd
  <2>3. store \in [Ids -> Items]
    BY DEF TypeOK
  <2> QED
    BY <1>2, <1>5, <2>2, <2>3
<1> QED
  BY <1>4, <1>5, WriteBy DEF WritesAdd, WritesHalf, WritesRem

-----------------------------------------------------------------------------
(* What is in the store                                                    *)

(* A step keeps what a call has stored, unless it writes under the id for  *)
(* another call.                                                           *)
LEMMA StoredStaysStep == ASSUME IInv, Next PROVE StoredStays'
<1> USE DEF IInv, Bookkeeping
<1> SUFFICES ASSUME NEW c \in Issued', made'[c] # 0, IsAdd(c)', Alone(c)',
                    reply'[c] \in {"none", "ok"}
             PROVE  store'[made'[c]] = c /\ (made'[c] \notin torn' => vec'[made'[c]] = c)
  BY DEF StoredStays
<1>0. /\ c \in Calls /\ made \in [Calls -> Ids \union {0}] /\ store \in [Ids -> Items]
      /\ vec \in [Ids -> 0 .. MaxCalls]
      /\ made'[c] \in Ids /\ 0 \notin Ids
  <2>1. store \in [Ids -> Items] /\ vec \in [Ids -> 0 .. MaxCalls]
    BY DEF TypeOK
  <2>2. c \in Calls /\ made' \in [Calls -> Ids \union {0}]
    BY MadeOnce
  <2> QED
    BY <2>1, <2>2, MadeOnce, Numbers
<1>1. reply[c] \in {"none", "ok"}
  BY <1>0, ReplyOnce
<1>2. \A e \in Issued' : made'[e] = made'[c] => e = c
  BY DEF Alone, Writers
<1>3. ASSUME made[c] # 0, c \in Issued, store'[made[c]] = store[made[c]],
             made[c] \notin torn' => made[c] \notin torn /\ vec'[made[c]] = vec[made[c]]
      PROVE  store'[made'[c]] = c /\ (made'[c] \notin torn' => vec'[made'[c]] = c)
  <2>1. made'[c] = made[c] /\ IsAdd(c)
    BY <1>0, <1>3, MadeOnce, CallsGrow DEF IsAdd
  <2>2. \A e \in Issued : made[e] = made[c] => e = c
    <3> SUFFICES ASSUME NEW e \in Issued, made[e] = made[c] PROVE e = c
      OBVIOUS
    <3>1. e \in Calls /\ e \in Issued' /\ made'[e] = made[e]
      BY <1>3, MadeOnce, CallsGrow, Numbers
    <3> QED
      BY <1>2, <2>1, <3>1
  <2>3. Alone(c)
    BY <1>3, <2>2 DEF Alone, Writers
  <2> QED
    BY <1>1, <1>3, <2>1, <2>3 DEF StoredStays
<1>4. CASE UNCHANGED <<made, store, vec, torn>>
  BY <1>3, <1>4, MadeOnce
<1>5. ASSUME NEW e \in Issued, NEW i \in Ids, NEW d \in Items, WritesAdd(e, i, d)
      PROVE  store'[made'[c]] = c /\ (made'[c] \notin torn' => vec'[made'[c]] = c)
  <2>1. /\ made' = [made EXCEPT ![e] = i] /\ store' = [store EXCEPT ![i] = d]
        /\ vec' = [vec EXCEPT ![i] = e] /\ torn' = torn \ {i}
        /\ (d = e \/ reply[e] # "none") /\ reply[e] \notin {"ok", "error"}
        /\ e \in Calls /\ e \in Issued'
    BY <1>5, CallsGrow, Numbers DEF WritesAdd
  <2>2. CASE c = e
    BY <1>0, <1>1, <2>1, <2>2
  <2>3. CASE c # e
    <3>1. made[c] # 0 /\ c \in Issued
      BY <1>0, <2>1, <2>3, MadeOnce
    <3>2. made[c] # i /\ made[c] \in Ids
      BY <1>0, <1>2, <2>1, <2>3
    <3> QED
      BY <1>0, <1>3, <2>1, <3>1, <3>2
  <2> QED
    BY <2>2, <2>3
<1>7. ASSUME NEW e \in Issued, NEW i \in Ids, WritesHalf(e, i)
      PROVE  store'[made'[c]] = c /\ (made'[c] \notin torn' => vec'[made'[c]] = c)
  <2>1. /\ made' = made /\ store' = store /\ calls' = calls
        /\ vec' = [vec EXCEPT ![i] = e] /\ torn' = torn \union {i}
    BY <1>7 DEF WritesHalf
  <2>2. made[c] # 0 /\ c \in Issued /\ made[c] \in Ids
    BY <1>0, <2>1 DEF Issued
  <2> QED
    BY <1>0, <1>3, <2>1, <2>2
<1>6. ASSUME NEW i \in ExplicitIds, WritesRem(i)
      PROVE  store'[made'[c]] = c /\ (made'[c] \notin torn' => vec'[made'[c]] = c)
  <2>1. New \in Calls /\ New \in Issued' /\ calls'[New].op = "rem"
    BY <1>6, NewCall DEF WritesRem
  <2>2. c # New
    BY <2>1 DEF IsAdd
  <2>3. made[c] # 0 /\ c \in Issued /\ made[c] # i /\ made[c] \in Ids
    BY <1>0, <1>2, <1>6, <2>1, <2>2, MadeOnce DEF WritesRem
  <2>4. store'[made[c]] = store[made[c]] /\ vec'[made[c]] = vec[made[c]] /\ torn' = torn
    BY <1>0, <1>6, <2>3 DEF WritesRem
  <2> QED
    BY <1>3, <2>3, <2>4
<1> QED
  BY <1>4, <1>5, <1>6, <1>7, WriteBy

(* A step keeps embeddings and data together, but for failed adds.         *)
LEMMA InIndexStep == ASSUME IInv, Next PROVE InIndex'
<1> USE DEF IInv, Bookkeeping
<1> DEFINE kept(i) ==
      /\ store'[i] # 0 => vec'[i] # 0
      /\ vec'[i] # 0 => vec'[i] \in Issued' /\ (store'[i] # 0 \/ i \in torn')
      /\ store'[i] # 0 /\ vec'[i] # store'[i] => calls'[vec'[i]].async \/ made'[vec'[i]] = 0
<1> SUFFICES ASSUME NEW i \in Ids PROVE kept(i)
  BY DEF InIndex
<1>0. /\ made \in [Calls -> Ids \union {0}] /\ store \in [Ids -> Items]
      /\ vec \in [Ids -> 0 .. MaxCalls]
      /\ Issued \subseteq Calls /\ Issued \subseteq Issued' /\ 0 \notin Issued
      /\ \A c \in Issued : calls'[c] = calls[c]
  BY CallsGrow, Numbers DEF TypeOK
<1>1. /\ store[i] # 0 => vec[i] # 0
      /\ vec[i] # 0 => vec[i] \in Issued /\ (store[i] # 0 \/ i \in torn)
      /\ store[i] # 0 /\ vec[i] # store[i] => calls[vec[i]].async \/ made[vec[i]] = 0
  BY DEF InIndex
<1>2. ASSUME vec'[i] = vec[i], store'[i] = store[i], i \in torn => i \in torn',
             vec[i] \in Issued => calls[vec[i]].async \/ made'[vec[i]] = made[vec[i]]
      PROVE  kept(i)
  BY <1>0, <1>1, <1>2
<1>3. ASSUME NEW c \in Issued, NEW j \in Ids, NEW d \in Items, WritesAdd(c, j, d)
      PROVE  kept(i)
  <2>1. /\ vec' = [vec EXCEPT ![j] = c] /\ store' = [store EXCEPT ![j] = d] /\ d # 0
        /\ made' = [made EXCEPT ![c] = j] /\ torn' = torn \ {j}
        /\ calls[c].async \/ (c = Last /\ main.at = "add")
        /\ d = c \/ reply[c] # "none"
    BY <1>3 DEF WritesAdd
  <2>2. CASE i = j
    <3>1. d # c => calls[c].async
      BY <2>1 DEF MainAdds
    <3> QED
      BY <1>0, <2>1, <2>2, <3>1
  <2>3. CASE i # j
    <3>1. vec[i] \in Issued => calls[vec[i]].async \/ vec[i] # c
      BY <2>1 DEF MainAdds
    <3> QED
      BY <1>0, <1>2, <2>1, <2>3, <3>1
  <2> QED
    BY <2>2, <2>3
<1>4. ASSUME NEW c \in Issued, NEW j \in Ids, WritesHalf(c, j) PROVE kept(i)
  <2>1. /\ vec' = [vec EXCEPT ![j] = c] /\ store' = store /\ made' = made
        /\ torn' = torn \union {j} /\ made[c] = 0
    BY <1>4 DEF WritesHalf
  <2> QED
    BY <1>0, <1>2, <2>1
<1>5. ASSUME NEW j \in ExplicitIds, WritesRem(j) PROVE kept(i)
  <2>1. /\ vec' = (IF store[j] # 0 THEN [vec EXCEPT ![j] = 0] ELSE vec)
        /\ store' = [store EXCEPT ![j] = 0] /\ torn' = torn
        /\ made' = [made EXCEPT ![New] = j] /\ New \notin Issued
    BY <1>5, NewCall DEF WritesRem
  <2>2. vec[i] \in Issued => made'[vec[i]] = made[vec[i]]
    BY <1>0, <2>1
  <2>3. CASE i = j
    BY <1>0, <1>1, <2>1, <2>3
  <2>4. CASE i # j
    BY <1>0, <1>2, <2>1, <2>2, <2>4
  <2> QED
    BY <2>3, <2>4
<1>6. CASE UNCHANGED <<made, store, vec, torn>>
  BY <1>2, <1>6
<1> QED
  BY <1>3, <1>4, <1>5, <1>6, WriteBy

(* A step adds a label only where there is a slot for it.                  *)
LEMMA SlotsStep == ASSUME IInv, Next PROVE Slots'
<1> USE DEF IInv
<1>1. ASSUME NEW i \in Ids, HasRoom(i, labels), labels' = labels \union {i} PROVE Slots'
  <2>1. CASE i \in labels
    <3>1. labels' = labels
      BY <1>1, <2>1
    <3> QED
      BY <3>1 DEF Slots
  <2>2. CASE i \notin labels
    <3>1. Cardinality(labels) < MaxElements /\ Cardinality(labels) \in Nat
      BY <1>1, <2>2, FS_CardinalityType DEF HasRoom, Slots
    <3>2. IsFiniteSet(labels') /\ Cardinality(labels') = Cardinality(labels) + 1
      BY <1>1, <2>2, FS_AddElement DEF Slots
    <3> QED
      BY <3>1, <3>2, SizesAssumption DEF Slots
  <2> QED
    BY <2>1, <2>2
<1>2. CASE labels' = labels
  BY <1>2 DEF Slots
<1> QED
  BY <1>1, <1>2, WriteBy DEF WritesAdd, WritesHalf, WritesRem

(* A step stores an item for a call later than the removals of its id, or  *)
(* for an asynchronous one.                                                *)
LEMMA AddedAfterRemovalStep == ASSUME IInv, Next PROVE AddedAfterRemoval'
<1> USE DEF IInv, Bookkeeping
<1> SUFFICES ASSUME NEW i \in Ids, store'[i] # 0
             PROVE  \E a \in Writers(i)' :
                      /\ IsAdd(a)'
                      /\ \A e \in Writers(i)' :
                           calls'[e].op = "rem" /\ a < e => calls'[a].async
  BY DEF AddedAfterRemoval
<1>0. /\ made \in [Calls -> Ids \union {0}] /\ store \in [Ids -> Items] /\ 0 \notin Ids
      /\ Issued \subseteq Calls
  BY MadeOnce, Numbers DEF TypeOK
<1>1. ASSUME store[i] # 0,
             \A e \in Issued' : made'[e] = i => made[e] = i
      PROVE  \E a \in Writers(i)' :
               /\ IsAdd(a)'
               /\ \A e \in Writers(i)' :
                    calls'[e].op = "rem" /\ a < e => calls'[a].async
  <2>1. PICK a \in Writers(i) :
          /\ IsAdd(a)
          /\ \A e \in Writers(i) : calls[e].op = "rem" /\ a < e => calls[a].async
    BY <1>1 DEF AddedAfterRemoval
  <2>2. a \in Issued /\ made[a] = i
    BY <2>1 DEF Writers
  <2>3. a \in Issued' /\ made'[a] = i /\ calls'[a] = calls[a]
    BY <1>0, <2>2, MadeOnce, CallsGrow
  <2>4. \A e \in Writers(i)' : e \in Writers(i) /\ calls'[e] = calls[e]
    BY <1>0, <1>1, MadeOnce, CallsGrow DEF Writers
  <2> QED
    BY <2>1, <2>3, <2>4 DEF Writers, IsAdd
<1>2. CASE UNCHANGED <<made, store>>
  BY <1>1, <1>2
<1>3. ASSUME NEW c \in Issued, NEW j \in Ids, NEW d \in Items, WritesAdd(c, j, d)
      PROVE  \E a \in Writers(i)' :
               /\ IsAdd(a)'
               /\ \A e \in Writers(i)' :
                    calls'[e].op = "rem" /\ a < e => calls'[a].async
  <2>1. /\ made' = [made EXCEPT ![c] = j] /\ store' = [store EXCEPT ![j] = d]
        /\ calls' = calls /\ IsAdd(c) /\ (calls[c].async \/ c = Last)
    BY <1>3 DEF WritesAdd
  <2>2. Issued' = Issued
    BY <2>1 DEF Issued
  <2>3. CASE i = j
    <3>1. c \in Writers(i)' /\ IsAdd(c)'
      BY <1>0, <2>1, <2>2, <2>3 DEF Writers, IsAdd
    <3>2. \A e \in Writers(i)' : c < e => calls'[c].async
      BY <2>1, <2>2, Numbers DEF Writers, Issued, Last
    <3> QED
      BY <3>1, <3>2
  <2>4. CASE i # j
    BY <1>0, <1>1, <2>1, <2>2, <2>4
  <2> QED
    BY <2>3, <2>4
<1>4. ASSUME NEW j \in ExplicitIds, Rem(j),
             made' = [made EXCEPT ![New] = j], store' = [store EXCEPT ![j] = 0]
      PROVE  \E a \in Writers(i)' :
               /\ IsAdd(a)'
               /\ \A e \in Writers(i)' :
                    calls'[e].op = "rem" /\ a < e => calls'[a].async
  <2>1. i # j /\ store[i] # 0
    BY <1>0, <1>4
  <2>2. \A e \in Issued' : made'[e] = i => made[e] = i
    BY <1>0, <1>4, <2>1, MadeOnce
  <2> QED
    BY <1>1, <2>1, <2>2
<1> QED
  BY <1>2, <1>3, <1>4, WriteBy DEF WritesHalf, WritesRem

(* A search finds what is stored; later writes under an id do not change   *)
(* who stored what had been found.                                         *)
LEMMA RemovedNotFoundStep == ASSUME IInv, Next PROVE RemovedNotFound'
<1> USE DEF IInv, Bookkeeping
<1> SUFFICES ASSUME NEW c \in Issued', IsKnn(c)', found'[c] # {0}, NEW i \in found'[c] \ torn'
             PROVE  \E a \in Writers(i)' :
                      /\ IsAdd(a)'
                      /\ \A e \in Writers(i)' :
                           calls'[e].op = "rem" /\ a < e /\ e < c => calls'[a].async
  BY DEF RemovedNotFound
<1>0. /\ made \in [Calls -> Ids \union {0}] /\ found \in [Calls -> {{0}} \union SUBSET Ids]
      /\ 0 \notin Ids /\ Issued \subseteq Calls /\ c \in Calls
  BY MadeOnce, Numbers DEF TypeOK
<1>1. \/ found'[c] = found[c] /\ c \in Issued
      \/ \E w \in Workers : Search(w) /\ c = Call(w) /\ found'[c] = Hits
  <2>1. found'[c] # found[c] =>
          \E w \in Workers : Search(w) /\ c = Call(w) /\ found'[c] = Hits
    BY <1>0, ResultsBy
  <2>2. c \notin Issued => found[c] = {0}
    BY MadeOnce
  <2> QED
    BY <2>1, <2>2
<1>9. CASE i \in torn
  <2>1. PICK d \in Issued, x \in Items : WritesAdd(d, i, x)
    BY <1>9, WriteBy DEF WritesAdd, WritesHalf, WritesRem
  <2>2. /\ d \in Writers(i)' /\ IsAdd(d)' /\ calls' = calls
        /\ calls[d].async \/ d = Last
    BY <1>0, <2>1 DEF WritesAdd, Writers, Issued, IsAdd
  <2>3. \A e \in Writers(i)' : d < e => calls'[d].async
    BY <2>2, Numbers DEF Writers, Issued, Last
  <2> QED
    BY <2>2, <2>3
<1> SUFFICES ASSUME i \notin torn
             PROVE  \E a \in Writers(i)' :
                      /\ IsAdd(a)'
                      /\ \A e \in Writers(i)' :
                           calls'[e].op = "rem" /\ a < e /\ e < c => calls'[a].async
  BY <1>9
<1>2. /\ c \in Issued /\ i \in Ids
      /\ \E a \in Writers(i) :
           /\ IsAdd(a)
           /\ \A e \in Writers(i) :
                calls[e].op = "rem" /\ a < e /\ e < c => calls[a].async
  <2>1. CASE found'[c] = found[c] /\ c \in Issued
    <3>1. IsKnn(c) /\ i \in Ids
      BY <1>0, <2>1, CallsGrow DEF IsKnn
    <3> QED
      BY <2>1, <3>1 DEF RemovedNotFound
  <2>2. ASSUME NEW w \in Workers, Search(w), c = Call(w),
               found'[c] = Hits
        PROVE  /\ c \in Issued /\ i \in Ids
               /\ \E a \in Writers(i) :
                    /\ IsAdd(a)
                    /\ \A e \in Writers(i) :
                         calls[e].op = "rem" /\ a < e /\ e < c => calls[a].async
    <3>1. c \in Issued
      BY <2>2, Apart DEF Search, At, WorkersBusy
    <3>2. i \in Ids /\ store[i] # 0
      BY <2>2 DEF Hits, InIndex
    <3> QED
      BY <3>1, <3>2 DEF AddedAfterRemoval
  <2> QED
    BY <1>1, <2>1, <2>2
<1>3. PICK a \in Writers(i) :
        /\ IsAdd(a)
        /\ \A e \in Writers(i) : calls[e].op = "rem" /\ a < e /\ e < c => calls[a].async
  BY <1>2
<1>4. a \in Writers(i)' /\ IsAdd(a)' /\ calls'[a] = calls[a]
  BY <1>0, <1>2, <1>3, MadeOnce, CallsGrow DEF Writers, IsAdd
<1>5. \A e \in Writers(i)' :
        calls'[e].op = "rem" /\ e < c => e \in Writers(i) /\ calls'[e] = calls[e]
  <2> SUFFICES ASSUME NEW e \in Writers(i)', calls'[e].op = "rem", e < c
               PROVE  e \in Writers(i) /\ calls'[e] = calls[e]
    OBVIOUS
  <2>1. e \in Issued' /\ made'[e] = i
    BY DEF Writers
  <2>2. e \in Issued /\ calls'[e] = calls[e]
    BY <1>2, <2>1, CallsGrow, MadeOnce, Numbers DEF Issued, New
  <2>3. made[e] = i
    <3>1. \A d \in Issued, j \in Ids, x \in Items : WritesAdd(d, j, x) => d # e
      BY <2>2 DEF WritesAdd, IsAdd
    <3>2. \A j \in ExplicitIds : Rem(j) => New # e
      BY <2>2, NewCall
    <3> QED
      BY <1>0, <2>1, <2>2, <3>1, <3>2, WriteBy DEF WritesAdd, WritesHalf, WritesRem
  <2> QED
    BY <2>2, <2>3 DEF Writers
<1> QED
  BY <1>3, <1>4, <1>5

(* Without an index nothing is stored, so no add has been answered.        *)
LEMMA NothingWithoutIndexFollows == IInv => NothingAcknowledgedWithoutIndex
<1> SUFFICES ASSUME IInv, index = "null" PROVE NothingAcknowledgedWithoutIndex
  BY DEF NothingAcknowledgedWithoutIndex
<1>1. /\ \A c \in Issued : IsAdd(c) => made[c] = 0
      /\ \A i \in Ids : store[i] = 0
  BY DEF IInv, EmptyUnlessReady
<1>2. \A c \in Issued : IsAdd(c) => reply[c] # "ok"
  BY <1>1 DEF IInv, AnswerTells, FoundByKnn, IsAdd, IsKnn
<1> QED
  BY <1>1, <1>2 DEF NothingAcknowledgedWithoutIndex

-----------------------------------------------------------------------------
(* Where a blocked client is                                               *)

(* A failed initialization is for good.                                    *)
LEMMA NullForGood == ASSUME Next, index = "null" PROVE index' = "null"
<1> USE DEF storeVars
<1>1. CASE Issue \/ GetVector \/ HandleUnblocked \/ Done
  BY <1>1
  DEF Issue, AddSync, Defer, DeferFull, Rem, Removed, GetData, GetVector, HandleUnblocked,
      Done, vars
<1>2. CASE MainAdd
  BY <1>2
  DEF MainAdd, AddSyncStored, AddSyncRefused, AddSyncThrows, AddSyncBreaks, Stored, Refused,
      HalfStored, InitThrows
<1>3. ASSUME NEW c \in Calls, Leave(c) PROVE index' = "null"
  BY <1>3 DEF Leave, Timeout, Disconnect
<1>4. ASSUME NEW w \in Workers, Worker(w) PROVE index' = "null"
  BY <1>4
  DEF Worker, Start, Embed, EmbedFails, Name, Store, StoreRefused, StoreThrows, IndexBreaks,
      Search, Unblock, Stored, Refused, HalfStored, InitThrows
<1> QED
  BY <1>1, <1>2, <1>3, <1>4 DEF Next

(* A client that still waits stays on its way to an answer.                *)
LEMMA StaysSomewhere ==
  ASSUME IInv, Next, index' # "null", NEW c \in Issued, Somewhere(c), reply'[c] = "none"
  PROVE  Somewhere(c)'
<1> USE DEF IInv, Bookkeeping, resultVars, poolVars, workerVars, storeVars, replicaVars
<1>0. TypeOK /\ PoolInv /\ c \in Calls
  BY Numbers DEF PoolInv
<1>1. CASE UNCHANGED <<jobs, queue, busy, unblocked>>
  BY <1>1 DEF Somewhere, Call
<1>2. CASE MainAdd \/ GetVector \/ Done
  BY <1>1, <1>2
  DEF MainAdd, AddSyncStored, AddSyncRefused, AddSyncThrows, AddSyncBreaks, GetVector, Done, vars
<1>3. ASSUME NEW i \in ExplicitIds \union {NoId}, AddSync(i) \/ Rem(i) \/ GetData(i)
      PROVE  Somewhere(c)'
  BY <1>1, <1>3 DEF AddSync, Rem, GetData
<1>4. ASSUME NEW d \in Calls, Leave(d) PROVE Somewhere(c)'
  BY <1>1, <1>4 DEF Leave, Timeout, Disconnect
<1>5. ASSUME NEW r \in Deferred, DeferFull(r) PROVE Somewhere(c)'
  BY <1>1, <1>5 DEF DeferFull, Pool!Refuse
<1>6. ASSUME NEW w \in Workers,
             Embed(w) \/ EmbedFails(w) \/ Name(w) \/ Store(w) \/ StoreRefused(w)
               \/ IndexBreaks(w) \/ Search(w)
      PROVE  Somewhere(c)'
  BY <1>1, <1>6 DEF Embed, EmbedFails, Name, Store, StoreRefused, IndexBreaks, Search
<1>7. ASSUME NEW w \in Workers, StoreThrows(w) PROVE FALSE
  BY <1>7 DEF StoreThrows, InitThrows
<1>8. ASSUME NEW r \in Deferred, Defer(r) PROVE Somewhere(c)'
  <2>0. /\ Receive(r) /\ r \in Requests /\ Pool!Accept /\ jobs' = Append(jobs, New)
        /\ unblocked' = unblocked
    BY <1>8, DeferredRequests DEF Defer
  <2>1. New \in Calls
    BY <1>0, <2>0, Received
  <2>2. /\ \A k \in 1 .. Len(jobs) : jobs'[k] = jobs[k]
        /\ Len(queue') = Len(queue) + 1
        /\ \A k \in 1 .. Len(queue) : queue'[k] = queue[k]
        /\ busy' = busy
    BY <1>0, <2>0, <2>1, Accepted
  <2>3. \A k \in 1 .. Len(queue) : k \in 1 .. Len(queue') /\ queue[k] \in 1 .. Len(jobs)
    BY <1>0, <2>2, Numbers
  <2>4. \A w \in Workers : busy[w] # 0 => Call(w)' = Call(w)
    BY <1>0, <2>2, Employed DEF Call
  <2> QED
    BY <2>0, <2>2, <2>3, <2>4 DEF Somewhere
<1>9. ASSUME NEW w \in Workers, Start(w) PROVE Somewhere(c)'
  <2>1. Pool!Start(w) /\ UNCHANGED <<jobs, unblocked>>
    BY <1>9 DEF Start
  <2>2. /\ Len(queue') = Len(queue) - 1
        /\ \A k \in 1 .. Len(queue') : queue'[k] = queue[k + 1]
        /\ Head(queue) = Taken' /\ Taken' \in 1 .. Len(jobs)
        /\ busy[w] = 0 /\ busy' = [busy EXCEPT ![w] = Taken']
    BY <1>0, <2>1, Started
  <2>3. queue # <<>> /\ Len(queue) > 0 /\ queue[1] = Taken'
    BY <1>0, <2>1, <2>2 DEF Pool!Start, TypeOK
  <2>4. busy \in [Workers -> 0 .. Len(jobs)]
    BY <1>0 DEF TypeOK
  <2>5. \A v \in Workers : busy[v] # 0 => v # w /\ busy'[v] = busy[v] /\ Call(v)' = Call(v)
    BY <2>1, <2>2, <2>4 DEF Call
  <2>6. CASE \E v \in Workers : busy[v] # 0 /\ Call(v) = c
    BY <2>5, <2>6 DEF Somewhere
  <2>7. CASE \E k \in 1 .. Len(unblocked) : unblocked[k] = c
    BY <2>1, <2>7 DEF Somewhere
  <2>8. ASSUME NEW k \in 1 .. Len(queue), jobs[queue[k]] = c PROVE Somewhere(c)'
    <3>1. CASE k = 1
      <4>1. busy'[w] # 0 /\ Call(w)' = c
        BY <2>1, <2>2, <2>3, <2>4, <2>8, <3>1, Numbers DEF Call
      <4> QED
        BY <4>1 DEF Somewhere
    <3>2. CASE k # 1
      <4>1. k - 1 \in 1 .. Len(queue') /\ queue'[k - 1] = queue[k]
        BY <1>0, <2>2, <3>2, Numbers
      <4> QED
        BY <2>1, <2>8, <4>1 DEF Somewhere
    <3> QED
      BY <3>1, <3>2
  <2> QED
    BY <2>6, <2>7, <2>8 DEF Somewhere
<1>10. ASSUME NEW w \in Workers, Unblock(w) PROVE Somewhere(c)'
  <2>1. /\ Pool!Finish(w) /\ UNCHANGED <<calls, jobs>>
        /\ step' = [step EXCEPT ![w] = "idle"] /\ named' = [named EXCEPT ![w] = 0]
        /\ unblocked' = Append(unblocked, Call(w))
    BY <1>10 DEF Unblock, Goto
  <2>2. /\ busy'[w] = 0 /\ queue' = queue /\ busy[w] # 0
        /\ \A v \in Workers : v # w => Call(v)' = Call(v) /\ busy'[v] = busy[v]
    BY <1>0, <2>1, PoolFinishes, Finished
  <2>3. Call(w) \in Calls
    BY <1>0, <2>2, Employed
  <2>4. /\ Len(unblocked') = Len(unblocked) + 1
        /\ unblocked'[Len(unblocked) + 1] = Call(w)
        /\ \A k \in 1 .. Len(unblocked) : unblocked'[k] = unblocked[k]
    BY <1>0, <2>1, <2>3 DEF TypeOK
  <2>5. /\ Len(unblocked) + 1 \in 1 .. Len(unblocked')
        /\ \A k \in 1 .. Len(unblocked) : k \in 1 .. Len(unblocked')
    BY <1>0, <2>4, Numbers
  <2>6. CASE Call(w) = c
    BY <2>4, <2>5, <2>6 DEF Somewhere
  <2>7. CASE Call(w) # c
    BY <2>1, <2>2, <2>4, <2>5, <2>7 DEF Somewhere
  <2> QED
    BY <2>6, <2>7
<1>11. CASE HandleUnblocked
  <2>1. /\ Len(unblocked') = Len(unblocked) - 1
        /\ \A k \in 1 .. Len(unblocked') : unblocked'[k] = unblocked[k + 1]
        /\ Head(unblocked) = unblocked[1] /\ Head(unblocked) \in Calls
        /\ UNCHANGED <<jobs, queue, busy>>
    BY <1>0, <1>11, Popped DEF HandleUnblocked
  <2>2. unblocked[1] # c
    <3> SUFFICES ASSUME Head(unblocked) = c PROVE FALSE
      BY <2>1
    <3>1. CASE reply[c] = "none"
      BY <1>0, <1>11, <3>1 DEF HandleUnblocked, ReplyError, ReplyId, ReplyNeighbors, TypeOK
    <3>2. CASE reply[c] # "none"
      BY <1>11, <3>2 DEF HandleUnblocked, Drop
    <3> QED
      BY <3>1, <3>2
  <2>3. ASSUME NEW k \in 1 .. Len(unblocked), unblocked[k] = c PROVE Somewhere(c)'
    <3>1. k - 1 \in 1 .. Len(unblocked') /\ unblocked'[k - 1] = c
      BY <1>0, <2>1, <2>2, <2>3, Numbers
    <3> QED
      BY <3>1 DEF Somewhere
  <2>4. CASE \E k \in 1 .. Len(queue) : jobs[queue[k]] = c
    BY <2>1, <2>4 DEF Somewhere
  <2>5. CASE \E w \in Workers : busy[w] # 0 /\ Call(w) = c
    BY <2>1, <2>5 DEF Somewhere, Call
  <2> QED
    BY <2>3, <2>4, <2>5 DEF Somewhere
<1> QED
  BY <1>2, <1>3, <1>4, <1>5, <1>6, <1>7, <1>8, <1>9, <1>10, <1>11 DEF Next, Issue, Worker

(* So does every client, the new one included.                             *)
LEMMA NobodyForgottenStep == ASSUME IInv, Next PROVE NobodyForgotten'
<1> USE DEF IInv, Bookkeeping
<1> SUFFICES ASSUME index' # "null", NEW c \in Issued', reply'[c] = "none",
                    calls'[c] \in Deferred
             PROVE  Somewhere(c)'
  <2>1. \A c \in Issued' : Blocked(c)' => reply'[c] = "none" /\ calls'[c] \in Deferred
    BY DEF Blocked, Deferred
  <2> QED
    BY <2>1 DEF NobodyForgotten
<1>0. c \in Calls /\ index # "null"
  BY MadeOnce, NullForGood
<1>1. CASE c \in Issued
  <2>1. reply[c] = "none"
    BY <1>0, ReplyOnce
  <2>2. calls[c] \in Deferred /\ c <= Len(calls)
    BY <1>1, CallsGrow, Numbers DEF Issued
  <2>3. Somewhere(c)
    BY <1>0, <1>1, <2>1, <2>2 DEF NobodyForgotten, Blocked
  <2> QED
    BY <1>1, <2>3, StaysSomewhere
<1>2. CASE c \notin Issued
  <2>1. c = New /\ calls' # calls
    BY <1>2, MadeOnce DEF Issued
  <2>2. \A i \in ExplicitIds \union {NoId} : ~AddSync(i)
    <3> SUFFICES ASSUME NEW i \in ExplicitIds \union {NoId}, AddSync(i) PROVE FALSE
      OBVIOUS
    <3>1. [op |-> "add", id |-> i, async |-> FALSE] \in Requests
      BY DEF Requests
    <3>2. calls'[New] = [op |-> "add", id |-> i, async |-> FALSE]
      BY <3>1, Received DEF AddSync
    <3>3. [op |-> "add", id |-> i, async |-> FALSE].op = "add"
          /\ ~[op |-> "add", id |-> i, async |-> FALSE].async
      OBVIOUS
    <3> QED
      BY <2>1, <3>1, <3>2, <3>3, RequestKinds
  <2>3. \A i \in ExplicitIds : ~Rem(i)
    <3> SUFFICES ASSUME NEW i \in ExplicitIds, Rem(i) PROVE FALSE
      OBVIOUS
    <3>1. calls'[New].op = "rem" /\ calls'[New] \in Requests
      BY <2>1, NewCall, TypeStep, NumbersNext
    <3> QED
      BY <2>1, <3>1, RequestKinds
  <2>4. \A r \in Deferred : ~DeferFull(r)
    BY <1>0, <2>1 DEF DeferFull, TypeOK
  <2>5. \E r \in Deferred : Defer(r)
    BY <2>1, <2>2, <2>3, <2>4
    DEF Next, Issue, GetData, MainAdd, AddSyncStored, AddSyncRefused, AddSyncThrows,
        AddSyncBreaks, GetVector, HandleUnblocked, Leave, Timeout, Disconnect, Worker, Start,
        Embed, EmbedFails, Name, Store, StoreRefused, StoreThrows, IndexBreaks, Search,
        Unblock, Done, vars
  <2>6. PICK r \in Deferred : Defer(r)
    BY <2>5
  <2>7. Pool!Accept /\ jobs' = Append(jobs, c)
    BY <2>1, <2>6 DEF Defer
  <2>8. /\ Len(queue') = Len(queue) + 1 /\ queue'[Len(queue) + 1] = Len(jobs) + 1
        /\ jobs'[Len(jobs) + 1] = c
    BY <1>0, <2>7, Accepted
  <2>9. Len(queue) + 1 \in 1 .. Len(queue')
    BY <2>8, Numbers
  <2> QED
    BY <2>8, <2>9 DEF Somewhere
<1> QED
  BY <1>1, <1>2

(* The bookkeeping of the pool leaves a call one place at most.            *)
LEMMA OnePlaceFollows == IInv => OnePlace
<1> SUFFICES ASSUME IInv, NEW c \in Issued
             PROVE  /\ Cardinality(Place(c)) <= 1
                    /\ Blocked(c) /\ index # "null" => Cardinality(Place(c)) = 1
  BY DEF OnePlace
<1> USE DEF IInv, Bookkeeping
<1> DEFINE Q == {n \in 1 .. Len(queue) : jobs[queue[n]] = c}
           W == {v \in Workers : busy[v] # 0 /\ Call(v) = c}
           U == {n \in 1 .. Len(unblocked) : unblocked[n] = c}
<1>1. \A k, m \in Q : k = m
  <2> SUFFICES ASSUME NEW k \in Q, NEW m \in Q PROVE k = m
    OBVIOUS
  <2>1. /\ queue[k] = Taken + k /\ queue[m] = Taken + m
        /\ queue[k] \in 1 .. Len(jobs) /\ queue[m] \in 1 .. Len(jobs)
    BY Numbers DEF QueueInOrder
  <2>2. queue[k] = queue[m]
    BY <2>1 DEF HandedOnce
  <2> QED
    BY <2>1, <2>2, Numbers DEF Taken
<1>2. \A v, w \in W : v = w
  BY Apart
<1>3. \A k, m \in U : k = m
  BY DEF UnblockedOnce
<1>4. \A k \in Q : queue[k] \in 1 .. Len(jobs) /\ queue[k] > Taken
  BY Numbers DEF QueueInOrder, Taken
<1>5. Q # {} => W = {} /\ U = {}
  BY <1>4, Apart
<1>6. W # {} => U = {}
  BY DEF UnblockedOnce
<1>7. \A p, q \in Place(c) : p = q
  BY <1>1, <1>2, <1>3, <1>5, <1>6 DEF Place
<1>8. CASE Place(c) = {}
  <2>1. Q = {} /\ W = {} /\ U = {}
    BY <1>8 DEF Place
  <2>2. ~Somewhere(c)
    BY <2>1 DEF Somewhere
  <2>3. ~(Blocked(c) /\ index # "null")
    BY <2>2 DEF NobodyForgotten
  <2> QED
    BY <1>8, <2>3, FS_EmptySet
<1>9. CASE Place(c) # {}
  <2>1. PICK p : p \in Place(c)
    BY <1>9
  <2>2. Place(c) = {p}
    BY <1>7, <2>1
  <2>3. Cardinality(Place(c)) = 1
    BY <2>2, FS_Singleton
  <2> QED
    BY <2>3
<1> QED
  BY <1>8, <1>9

-----------------------------------------------------------------------------
(* Automatic ids, and the replica                                          *)

(* The id counter counts one by one, for an automatic id.                  *)
LEMMA WhoCounts ==
  ASSUME IInv, Next
  PROVE  idIdx' # idIdx =>
           /\ idIdx' = idIdx + 1
           /\ \/ AddSync(NoId)
              \/ \E w \in Workers : Name(w)
<1> USE DEF storeVars
<1>1. CASE GetVector \/ HandleUnblocked \/ Done
  BY <1>1 DEF GetVector, HandleUnblocked, Done, vars
<1>2. CASE MainAdd
  BY <1>2
  DEF MainAdd, AddSyncStored, AddSyncRefused, AddSyncThrows, AddSyncBreaks, Stored, Refused,
      HalfStored, InitThrows
<1>3. ASSUME NEW c \in Calls, Leave(c) PROVE idIdx' = idIdx
  BY <1>3 DEF Leave, Timeout, Disconnect
<1>4. ASSUME NEW w \in Workers, Worker(w)
      PROVE  idIdx' = idIdx \/ (Name(w) /\ idIdx' = idIdx + 1)
  BY <1>4
  DEF Worker, Start, Embed, EmbedFails, Name, Store, StoreRefused, StoreThrows, IndexBreaks,
      Search, Unblock, Stored, Refused, HalfStored, InitThrows
<1>5. ASSUME NEW i \in ExplicitIds \union {NoId}, AddSync(i)
      PROVE  idIdx' = idIdx \/ (AddSync(NoId) /\ idIdx' = idIdx + 1)
  <2>1. CASE i = NoId
    <3>1. AddSync(NoId)
      BY <1>5, <2>1
    <3> QED
      BY <3>1 DEF AddSync
  <2>2. CASE i # NoId
    BY <1>5, <2>2 DEF AddSync
  <2> QED
    BY <2>1, <2>2
<1>6. ASSUME NEW i \in ExplicitIds, Rem(i) \/ GetData(i) PROVE idIdx' = idIdx
  BY <1>6 DEF Rem, Removed, GetData
<1>7. ASSUME NEW r \in Deferred, Defer(r) \/ DeferFull(r) PROVE idIdx' = idIdx
  BY <1>7 DEF Defer, DeferFull
<1> QED
  BY <1>1, <1>2, <1>3, <1>4, <1>5, <1>6, <1>7 DEF Next, Issue

(* A call gets its number when the counter counts.                         *)
LEMMA NumberedGrows ==
  ASSUME IInv, Next
  PROVE  \A c \in Numbered' :
           \/ c \in Numbered
           \/ AddSync(NoId) /\ c = New
           \/ \E w \in Workers : Name(w) /\ c = Call(w)
<1> USE DEF IInv, Bookkeeping
<1> SUFFICES ASSUME NEW c \in Numbered'
             PROVE  \/ c \in Numbered
                    \/ AddSync(NoId) /\ c = New
                    \/ \E w \in Workers : Name(w) /\ c = Call(w)
  OBVIOUS
<1>0. c \in Issued' /\ IsAuto(c)' /\ c \in Calls
  BY MadeOnce DEF Numbered
<1>1. c \in Issued => IsAuto(c)
  BY <1>0, CallsGrow DEF IsAuto, IsAdd
<1>2. CASE made'[c] # 0
  <2>1. CASE made[c] # 0
    BY <1>0, <1>1, <2>1, MadeOnce DEF Numbered
  <2>2. ASSUME NEW e \in Issued, NEW i \in Ids, NEW d \in Items, WritesAdd(e, i, d),
               made[c] = 0
        PROVE  c \in Numbered
    <3>1. c = e
      BY <1>0, <1>2, <2>2, MadeOnce DEF WritesAdd
    <3>2. \/ main.at = "add" /\ c = Last
          \/ \E w \in Workers : step[w] = "store" /\ Call(w) = c
      BY <2>2, <3>1 DEF WritesAdd, AddSyncStored, Store, At
    <3> QED
      BY <1>1, <3>1, <3>2 DEF Numbered
  <2>3. ASSUME NEW i \in ExplicitIds, WritesRem(i), made[c] = 0
        PROVE  FALSE
    <3>1. c = New
      BY <1>0, <1>2, <2>3, MadeOnce DEF WritesRem
    <3> QED
      BY <1>0, <2>3, <3>1, NewCall DEF WritesRem, IsAuto, IsAdd
  <2> QED
    BY <1>2, <2>1, <2>2, <2>3, WriteBy DEF WritesHalf
<1>3. CASE main'.at = "add" /\ c = Last'
  <2>1. CASE Issue
    <3>1. ASSUME NEW r \in Deferred, Defer(r) \/ DeferFull(r) PROVE FALSE
      BY <1>3, <3>1, NewCall DEF Defer, DeferFull, Free
    <3>2. ASSUME NEW i \in ExplicitIds, Rem(i) \/ GetData(i) PROVE FALSE
      BY <1>3, <3>2 DEF Rem, GetData, Receive, Ready, Free
    <3>3. PICK i \in ExplicitIds \union {NoId} : AddSync(i)
      BY <2>1, <3>1, <3>2 DEF Issue
    <3> DEFINE r == [op |-> "add", id |-> i, async |-> FALSE]
    <3>4. r \in Requests /\ Receive(r)
      BY <3>3 DEF AddSync, Requests
    <3>5. Len(calls') = New /\ calls'[New] = r
      BY <3>4, Received
    <3>6. c = New /\ i = NoId
      BY <1>0, <1>3, <3>5 DEF Last, IsAuto, IsAdd
    <3> QED
      BY <3>3, <3>6
  <2>2. CASE ~Issue
    <3>1. main' = main /\ calls' = calls
      <4>1. CASE MainAdd
        BY <1>3, <4>1
        DEF MainAdd, AddSyncStored, AddSyncRefused, AddSyncThrows, AddSyncBreaks, Free
      <4>2. CASE GetVector \/ HandleUnblocked \/ Done
        BY <1>3, <4>2 DEF GetVector, HandleUnblocked, Done, vars, Free
      <4>3. ASSUME NEW d \in Calls, Leave(d) PROVE main' = main /\ calls' = calls
        BY <4>3 DEF Leave, Timeout, Disconnect
      <4>4. ASSUME NEW w \in Workers, Worker(w) PROVE main' = main /\ calls' = calls
        BY <4>4
        DEF Worker, Start, Embed, EmbedFails, Name, Store, StoreRefused, StoreThrows,
            IndexBreaks, Search, Unblock
      <4> QED
        BY <2>2, <4>1, <4>2, <4>3, <4>4 DEF Next
    <3>2. c = Last /\ main.at = "add"
      BY <1>3, <3>1 DEF Last
    <3>3. c \in Issued
      BY <3>2, Apart
    <3> QED
      BY <1>1, <3>2, <3>3 DEF Numbered
  <2> QED
    BY <2>1, <2>2
<1>4. ASSUME NEW w \in Workers, step'[w] = "store", Call(w)' = c
      PROVE  c \in Numbered \/ (Name(w) /\ c = Call(w))
  <2>1. busy'[w] # 0
    BY <1>4, PoolStep DEF PoolInv, WorkersBusy
  <2>2. busy[w] # 0 /\ Call(w)' = Call(w) /\ c \in Issued
    BY <1>4, <2>1, PoolMoves, Apart DEF WorkersMove
  <2>3. CASE step[w] = "store"
    BY <1>1, <1>4, <2>2, <2>3 DEF Numbered
  <2>4. CASE step[w] # "store"
    <3>1. \E v \in Workers : Worker(v)
      BY <1>4, <2>4
      DEF Next, Issue, AddSync, Defer, DeferFull, Rem, GetData, MainAdd, AddSyncStored,
          AddSyncRefused, AddSyncThrows, AddSyncBreaks, GetVector, HandleUnblocked, Leave,
          Timeout, Disconnect, Done, vars, workerVars
    <3>2. PICK v \in Workers : Worker(v)
      BY <3>1
    <3>3. \E s : step' = [step EXCEPT ![v] = s]
      BY <1>4, <2>4, <3>2
      DEF Worker, Start, Embed, EmbedFails, Name, Store, StoreRefused, StoreThrows,
          IndexBreaks, Search, Unblock, Goto, workerVars
    <3>4. v = w /\ step \in [Workers -> {"idle", "embed", "name", "store", "search", "unblock"}]
      BY <1>4, <2>4, <3>3 DEF TypeOK
    <3>5. Embed(w) \/ Name(w)
      BY <1>4, <2>4, <3>2, <3>4
      DEF Worker, Start, EmbedFails, Store, StoreRefused, StoreThrows, IndexBreaks, Search,
          Unblock, Goto, workerVars
    <3>6. ASSUME Embed(w) PROVE FALSE
      BY <1>1, <1>4, <2>2, <3>4, <3>6 DEF Embed, Goto, IsAuto, IsAdd, IsKnn
    <3> QED
      BY <1>4, <2>2, <3>5, <3>6
  <2> QED
    BY <2>3, <2>4
<1> QED
  BY <1>2, <1>3, <1>4 DEF Numbered

(* A call asks for a number from when it is deferred until it gets one.    *)
LEMMA UnnumberedShrinks ==
  ASSUME IInv, Next
  PROVE  /\ \A c \in Unnumbered' : c \in Unnumbered \/ (c = New /\ calls' # calls)
         /\ AddSync(NoId) => Unnumbered' \subseteq Unnumbered
         /\ \A w \in Workers : Name(w) => Call(w) \in Unnumbered /\ Call(w) \notin Unnumbered'
<1> USE DEF IInv, Bookkeeping
<1>0. ASSUME NEW c \in Unnumbered'
      PROVE  c \in Unnumbered \/ (c = New /\ jobs' # jobs /\ calls' # calls)
  <2>0. c \in Issued' /\ IsAuto(c)' /\ (c \in Issued => IsAuto(c))
    BY CallsGrow DEF Unnumbered, IsAuto, IsAdd
  <2>1. ASSUME NEW k \in 1 .. Len(jobs'), k > Taken', jobs'[k] = c
        PROVE  c \in Unnumbered \/ (c = New /\ jobs' # jobs /\ calls' # calls)
    <3>1. CASE k \in 1 .. Len(jobs)
      <4>1. jobs[k] = c /\ k > Taken /\ c \in Issued
        <5>1. Taken \in Int /\ Taken' \in Int /\ Taken' >= Taken /\ jobs'[k] = jobs[k]
          BY <3>1, PoolMoves, TypeStep, Numbers, NumbersNext DEF JobsKept, Taken
        <5> QED
          BY <2>1, <3>1, <5>1 DEF HandedOnce
      <4> QED
        BY <2>0, <3>1, <4>1 DEF Unnumbered
    <3>2. CASE k \notin 1 .. Len(jobs)
      <4>1. c = New /\ jobs' # jobs
        BY <2>1, <3>2, PoolMoves DEF JobsKept
      <4>2. calls' # calls
        BY <2>0, <4>1, Numbers DEF Issued, New
      <4> QED
        BY <4>1, <4>2
    <3> QED
      BY <3>1, <3>2
  <2>2. ASSUME NEW w \in Workers, step'[w] \in {"embed", "name"}, Call(w)' = c
        PROVE  c \in Unnumbered
    <3>1. busy'[w] # 0
      BY <2>2, PoolStep DEF PoolInv, WorkersBusy
    <3>2. CASE busy[w] # 0 /\ Call(w)' = Call(w) /\ step[w] \in {"embed", "name"}
      BY <2>0, <2>2, <3>2, Apart DEF Unnumbered
    <3>3. CASE Taken + 1 \in 1 .. Len(jobs) /\ Call(w)' = jobs[Taken + 1]
      <4>1. c \in Issued /\ Taken + 1 > Taken
        BY <2>2, <3>3, Numbers DEF HandedOnce, Taken
      <4> QED
        BY <2>0, <2>2, <3>3, <4>1 DEF Unnumbered
    <3> QED
      BY <2>2, <3>1, <3>2, <3>3, PoolMoves DEF WorkersMove
  <2> QED
    BY <2>1, <2>2 DEF Unnumbered
<1>1. ASSUME AddSync(NoId) PROVE Unnumbered' \subseteq Unnumbered
  <2>1. jobs' = jobs
    BY <1>1 DEF AddSync, poolVars
  <2> QED
    BY <1>0, <2>1
<1>2. ASSUME NEW w \in Workers, Name(w)
      PROVE  Call(w) \in Unnumbered /\ Call(w) \notin Unnumbered'
  <2>1. /\ busy[w] # 0 /\ step[w] = "name" /\ step'[w] = "store" /\ IsAuto(Call(w))
        /\ UNCHANGED <<jobs, queue, busy, calls>>
        /\ \A v \in Workers : v # w => step'[v] = step[v]
    BY <1>2 DEF Name, At, Goto, WorkersBusy, poolVars, TypeOK
  <2>2. Call(w) \in Unnumbered
    BY <2>1, Apart DEF Unnumbered
  <2>3. \A k \in 1 .. Len(jobs') : k > Taken' => jobs'[k] # Call(w)
    BY <2>1, Apart DEF Taken
  <2>4. \A v \in Workers : step'[v] \in {"embed", "name"} => Call(v)' # Call(w)
    <3> SUFFICES ASSUME NEW v \in Workers, step'[v] \in {"embed", "name"}
                 PROVE  Call(v)' # Call(w)
      OBVIOUS
    <3>1. v # w /\ step[v] \in {"embed", "name"} /\ Call(v)' = Call(v)
      BY <2>1 DEF Call
    <3>2. busy[v] # 0
      BY <3>1 DEF WorkersBusy
    <3> QED
      BY <2>1, <3>1, <3>2, Apart
  <2> QED
    BY <2>2, <2>3, <2>4 DEF Unnumbered
<1> QED
  BY <1>0, <1>1, <1>2

(* The replica is sent what a client is about to be told of.               *)
ShipsAdd(c, i) ==
  /\ ReplicateAdd(c, i)
  /\ c \in Issued /\ c \notin shipped /\ i \in Ids
  /\ IsAdd(c) /\ made'[c] = i /\ reply[c] = "none" /\ reply' = [reply EXCEPT ![c] = "ok"]
  /\ calls' = calls /\ idIdx' = idIdx
  /\ \/ AddSyncStored /\ c = Last /\ i = main.id
     \/ calls[c] \in Deferred /\ UNCHANGED <<made, store, vec, torn>>

(* The stream grows by an add that is acknowledged, or by a removal.       *)
LEMMA ShippedBy ==
  ASSUME IInv, Next
  PROVE  \/ UNCHANGED replicaVars
         \/ \E c \in Issued, i \in Ids : ShipsAdd(c, i)
         \/ \E i \in ExplicitIds : Rem(i) /\ reply' = [reply EXCEPT ![New] = "ok"]
<1> USE DEF IInv, Bookkeeping
<1>0. \A c \in shipped : reply[c] = "ok"
  BY DEF ReplicatedIffAcknowledged
<1>1. CASE AddSyncStored /\ reply' = [reply EXCEPT ![Last] = "ok"]
             /\ ReplicateAdd(Last, main.id)
  <2>1. /\ Last \in Issued /\ Last \in Calls /\ IsAdd(Last) /\ reply[Last] = "none"
        /\ Last \notin shipped /\ main.id \in Ids
    <3>1. main.id \in Ids
      BY <1>1 DEF AddSyncStored, TypeOK, Free
    <3> QED
      BY <1>0, <1>1, <3>1, Apart DEF AddSyncStored, MainAdds
  <2>2. made'[Last] = main.id /\ calls' = calls /\ idIdx' = idIdx
    <3>1. made \in [Calls -> Ids \union {0}]
      BY DEF TypeOK
    <3> QED
      BY <1>1, <2>1, <3>1 DEF AddSyncStored, Stored
  <2>3. ShipsAdd(Last, main.id)
    BY <1>1, <2>1, <2>2 DEF ShipsAdd
  <2> QED
    BY <2>1, <2>3
<1> DEFINE h == Head(unblocked)
<1>2. ASSUME HandleUnblocked, reply[h] = "none", ReplyId(h), ReplicateAdd(h, made[h])
      PROVE  \E c \in Issued, i \in Ids : ShipsAdd(c, i)
  <2>1. h \in Issued /\ calls[h] \in Deferred /\ h \notin shipped
    BY <1>0, <1>2, ToBeAnswered, Popped, Numbers DEF HandleUnblocked
  <2>2. /\ calls' = calls /\ idIdx' = idIdx /\ UNCHANGED <<made, store, vec, torn>>
        /\ IsAdd(h) /\ reply' = [reply EXCEPT ![h] = "ok"] /\ made[h] # 0
    BY <1>2 DEF HandleUnblocked, ReplyId, Succeeded, resultVars, storeVars
  <2>3. made[h] \in Ids
    <3>1. made \in [Calls -> Ids \union {0}] /\ h \in Calls
      BY <2>1, Numbers DEF TypeOK
    <3> QED
      BY <2>2, <3>1
  <2>4. ShipsAdd(h, made[h])
    BY <1>2, <2>1, <2>2, <2>3 DEF ShipsAdd
  <2> QED
    BY <2>1, <2>3, <2>4
<1> HIDE DEF h
<1> QED
  BY <1>1, <1>2, ReplyBy DEF h

(* A step keeps the count of the automatic ids, given out, asked for and   *)
(* replicated.                                                             *)
LEMMA CountedStep == ASSUME IInv, Next PROVE Counted'
<1> USE DEF IInv, Bookkeeping
<1>1. IsFiniteSet(Calls)
  BY Numbers, FS_Interval DEF Calls
<1>2. /\ Numbered \subseteq Issued /\ Unnumbered \subseteq Issued /\ AutoShipped \subseteq Issued
      /\ Numbered' \subseteq Calls /\ Unnumbered' \subseteq Calls /\ Issued \subseteq Calls
  BY MadeOnce, Acknowledged, Numbers DEF Numbered, Unnumbered, AutoShipped
<1>3. /\ IsFiniteSet(Numbered) /\ IsFiniteSet(Unnumbered) /\ IsFiniteSet(AutoShipped)
      /\ IsFiniteSet(Numbered') /\ IsFiniteSet(Unnumbered')
  BY <1>1, <1>2, FS_Subset
<1>4. /\ Cardinality(Numbered) \in Nat /\ Cardinality(Numbered') \in Nat
      /\ Cardinality(Unnumbered) \in Nat /\ Cardinality(Unnumbered') \in Nat
      /\ Cardinality(AutoShipped) \in Nat
  BY <1>3, FS_CardinalityType
<1>5. /\ idIdx \in Nat /\ rIdIdx \in Nat /\ Len(calls) \in Nat /\ Len(calls') \in Nat
      /\ Len(calls') >= Len(calls) /\ (calls' # calls => Len(calls') = Len(calls) + 1)
  <2>1. idIdx \in 0 .. MaxCalls /\ rIdIdx \in 0 .. MaxCalls
    BY DEF TypeOK
  <2>2. Len(calls') \in Nat
    BY TypeStep, NumbersNext
  <2> QED
    BY <2>1, <2>2, CallsGrow, Numbers DEF New
<1>6. New \notin Issued
  BY <1>5 DEF New, Issued
<1>7. Cardinality(Numbered') <= idIdx'
  <2>0. Cardinality(Numbered) <= idIdx
    BY DEF Counted
  <2>1. CASE idIdx' = idIdx
    <3>1. Numbered' \subseteq Numbered
      BY <1>5, <2>1, NumberedGrows DEF AddSync, Name
    <3> QED
      BY <1>3, <1>4, <1>5, <2>0, <2>1, <3>1, FS_Subset
  <2>2. CASE idIdx' # idIdx
    <3>1. idIdx' = idIdx + 1
      BY <2>2, WhoCounts
    <3>2. ASSUME NEW d, Numbered' \subseteq Numbered \union {d}
          PROVE  Cardinality(Numbered') <= Cardinality(Numbered) + 1
      <4>1. /\ IsFiniteSet(Numbered \union {d})
            /\ \/ Cardinality(Numbered \union {d}) = Cardinality(Numbered)
               \/ Cardinality(Numbered \union {d}) = Cardinality(Numbered) + 1
        BY <1>3, FS_AddElement
      <4>2. Cardinality(Numbered') <= Cardinality(Numbered \union {d})
        BY <3>2, <4>1, FS_Subset
      <4> QED
        BY <1>4, <4>1, <4>2
    <3>3. CASE AddSync(NoId)
      <4>1. \A w \in Workers : ~Name(w)
        BY <1>5, <3>3 DEF AddSync, Receive, Name, workerVars
      <4>2. Numbered' \subseteq Numbered \union {New}
        BY <4>1, NumberedGrows
      <4>3. Cardinality(Numbered') <= Cardinality(Numbered) + 1
        BY <3>2, <4>2
      <4> QED
        BY <1>4, <1>5, <2>0, <3>1, <4>3
    <3>4. ASSUME NEW w \in Workers, Name(w) PROVE Cardinality(Numbered') <= idIdx'
      <4>1. ~AddSync(NoId) /\ \A v \in Workers : Name(v) => v = w
        <5>1. /\ step \in [Workers -> {"idle", "embed", "name", "store", "search", "unblock"}]
              /\ calls \in Seq(Requests)
          BY DEF TypeOK
        <5>2. calls' = calls /\ step' = [step EXCEPT ![w] = "store"]
          BY <3>4 DEF Name, Goto
        <5>3. ~AddSync(NoId)
          BY <5>1, <5>2 DEF AddSync, Receive
        <5> QED
          BY <5>1, <5>2, <5>3 DEF Name, Goto, At
      <4>2. Numbered' \subseteq Numbered \union {Call(w)}
        BY <4>1, NumberedGrows
      <4>3. Cardinality(Numbered') <= Cardinality(Numbered) + 1
        BY <3>2, <4>2
      <4> QED
        BY <1>4, <1>5, <2>0, <3>1, <4>3
    <3> QED
      BY <2>2, <3>3, <3>4, WhoCounts
  <2> QED
    BY <2>1, <2>2
<1>8. idIdx' + Cardinality(Unnumbered') <= Len(calls')
  <2>0. idIdx + Cardinality(Unnumbered) <= Len(calls)
    BY DEF Counted
  <2>1. CASE idIdx' = idIdx /\ calls' = calls
    <3>1. Unnumbered' \subseteq Unnumbered
      BY <2>1, UnnumberedShrinks
    <3>2. Cardinality(Unnumbered') <= Cardinality(Unnumbered)
      BY <1>3, <3>1, FS_Subset
    <3> QED
      BY <1>4, <1>5, <2>0, <2>1, <3>2
  <2>2. CASE idIdx' = idIdx /\ calls' # calls
    <3>1. Unnumbered' \subseteq Unnumbered \union {New}
      BY UnnumberedShrinks
    <3>2. /\ IsFiniteSet(Unnumbered \union {New})
          /\ Cardinality(Unnumbered \union {New}) = Cardinality(Unnumbered) + 1
      BY <1>2, <1>3, <1>4, <1>6, FS_AddElement
    <3>3. Cardinality(Unnumbered') <= Cardinality(Unnumbered \union {New})
      BY <3>1, <3>2, FS_Subset
    <3> QED
      BY <1>4, <1>5, <2>0, <2>2, <3>2, <3>3, SMTT(30)
  <2>3. CASE idIdx' # idIdx /\ AddSync(NoId)
    <3>1. Unnumbered' \subseteq Unnumbered /\ idIdx' = idIdx + 1
      BY <2>3, UnnumberedShrinks, WhoCounts
    <3>2. Cardinality(Unnumbered') <= Cardinality(Unnumbered)
      BY <1>3, <3>1, FS_Subset
    <3>3. Len(calls') = Len(calls) + 1
      <4>1. calls \in Seq(Requests)
        BY DEF TypeOK
      <4> QED
        BY <2>3, <4>1 DEF AddSync, Receive
    <3> QED
      BY <1>4, <1>5, <2>0, <3>1, <3>2, <3>3
  <2>4. ASSUME NEW w \in Workers, Name(w)
        PROVE  idIdx' + Cardinality(Unnumbered') <= Len(calls')
    <3>1. calls' = calls /\ idIdx' = idIdx + 1
      BY <2>4 DEF Name
    <3>2. Unnumbered' \subseteq Unnumbered \ {Call(w)} /\ Call(w) \in Unnumbered
      BY <2>4, <3>1, UnnumberedShrinks
    <3>3. /\ IsFiniteSet(Unnumbered \ {Call(w)})
          /\ Cardinality(Unnumbered \ {Call(w)}) = Cardinality(Unnumbered) - 1
      BY <1>3, <3>2, FS_RemoveElement
    <3>4. Cardinality(Unnumbered') <= Cardinality(Unnumbered \ {Call(w)})
      BY <3>2, <3>3, FS_Subset
    <3> QED
      BY <1>4, <1>5, <2>0, <3>1, <3>3, <3>4
  <2> QED
    BY <2>1, <2>2, <2>3, <2>4, WhoCounts
<1>9. rIdIdx' = Cardinality(AutoShipped')
  <2>0. rIdIdx = Cardinality(AutoShipped) /\ shipped \subseteq Issued
    BY Acknowledged DEF Counted
  <2>1. \A c \in Issued : IsAuto(c)' <=> IsAuto(c)
    BY CallsGrow DEF IsAuto, IsAdd
  <2>2. CASE UNCHANGED replicaVars
    <3>1. AutoShipped' = AutoShipped /\ rIdIdx' = rIdIdx
      BY <2>0, <2>1, <2>2 DEF AutoShipped, replicaVars
    <3> QED
      BY <2>0, <3>1
  <2>3. ASSUME NEW c \in Issued, NEW i \in Ids, ShipsAdd(c, i)
        PROVE  rIdIdx' = Cardinality(AutoShipped')
    <3>1. /\ shipped' = shipped \union {c} /\ c \notin shipped
          /\ rIdIdx' = IF IsAuto(c) THEN rIdIdx + 1 ELSE rIdIdx
      BY <2>3 DEF ShipsAdd, ReplicateAdd
    <3>2. CASE IsAuto(c)
      <4>1. AutoShipped' = AutoShipped \union {c} /\ c \notin AutoShipped
        BY <2>0, <2>1, <3>1, <3>2 DEF AutoShipped
      <4>2. Cardinality(AutoShipped \union {c}) = Cardinality(AutoShipped) + 1
        BY <1>3, <4>1, FS_AddElement
      <4> QED
        BY <2>0, <3>1, <3>2, <4>1, <4>2
    <3>3. CASE ~IsAuto(c)
      <4>1. AutoShipped' = AutoShipped
        BY <2>0, <2>1, <3>1, <3>3 DEF AutoShipped
      <4> QED
        BY <2>0, <3>1, <3>3, <4>1
    <3> QED
      BY <3>2, <3>3
  <2>4. ASSUME NEW i \in ExplicitIds, Rem(i) PROVE rIdIdx' = Cardinality(AutoShipped')
    <3>1. shipped' = shipped \union {New} /\ rIdIdx' = rIdIdx
      BY <2>4 DEF Rem, ReplicaRemoves
    <3>2. calls'[New].op = "rem"
      BY <2>4, NewCall
    <3>3. AutoShipped' = AutoShipped
      BY <2>0, <2>1, <3>1, <3>2 DEF AutoShipped, IsAuto, IsAdd
    <3> QED
      BY <2>0, <3>1, <3>3
  <2> QED
    BY <2>2, <2>3, <2>4, ShippedBy
<1> QED
  BY <1>7, <1>8, <1>9 DEF Counted

(* The counters stay numbers.                                              *)
LEMMA CountersNext == ASSUME IInv, Next PROVE idIdx' \in Nat /\ rIdIdx' \in Nat
<1>1. TypeOK'
  BY TypeStep
<1>2. idIdx' \in 0 .. MaxCalls /\ rIdIdx' \in 0 .. MaxCalls
  BY <1>1 DEF TypeOK
<1> QED
  BY <1>2, SizesAssumption

(* An automatic add that was replicated was numbered by the master before. *)
LEMMA CounterBehindFollows == IInv => ReplicaCounterBehind
<1> SUFFICES ASSUME IInv PROVE rIdIdx <= idIdx
  BY DEF ReplicaCounterBehind
<1> USE DEF IInv, Bookkeeping
<1>1. AutoShipped \subseteq Numbered
  <2> SUFFICES ASSUME NEW c \in AutoShipped PROVE c \in Numbered
    OBVIOUS
  <2>1. c \in Issued /\ reply[c] = "ok" /\ IsAuto(c)
    BY DEF AutoShipped, ReplicatedIffAcknowledged
  <2>2. found[c] = {0}
    BY <2>1 DEF FoundByKnn, IsAuto, IsAdd, IsKnn
  <2>3. made[c] # 0
    BY <2>1, <2>2 DEF AnswerTells
  <2> QED
    BY <2>1, <2>3 DEF Numbered
<1>2. Cardinality(AutoShipped) <= Cardinality(Numbered)
  BY <1>1, SetsOfCalls, Acknowledged, FS_Subset
<1>3. idIdx \in Nat
  BY DEF TypeOK
<1> QED
  BY <1>2, <1>3, SetsOfCalls, Acknowledged DEF Counted

(* The same of the state after a step.                                     *)
LEMMA CounterBehindNext == ASSUME IInv, Next PROVE rIdIdx' <= idIdx'
<1> USE DEF IInv, Bookkeeping
<1>1. Counted' /\ AnswersMean' /\ FoundByKnn' /\ ReplicatedIffAcknowledged'
  BY CountedStep, AnswersMeanStep, FoundByKnnStep, ReplicatedStep
<1>2. AutoShipped' \subseteq Numbered'
  <2> SUFFICES ASSUME NEW c \in AutoShipped' PROVE c \in Numbered'
    OBVIOUS
  <2>1. c \in Issued' /\ reply'[c] = "ok" /\ IsAuto(c)'
    BY <1>1 DEF AutoShipped, ReplicatedIffAcknowledged
  <2>2. found'[c] = {0}
    BY <1>1, <2>1 DEF FoundByKnn, IsAuto, IsAdd, IsKnn
  <2>3. made'[c] # 0
    BY <1>1, <2>1, <2>2 DEF AnswersMean
  <2> QED
    BY <2>1, <2>3 DEF Numbered
<1>3. Numbered' \subseteq Calls /\ IsFiniteSet(Calls)
  BY MadeOnce, Numbers, FS_Interval DEF Numbered, Calls
<1>4. /\ Cardinality(AutoShipped') \in Nat /\ Cardinality(Numbered') \in Nat
      /\ Cardinality(AutoShipped') <= Cardinality(Numbered')
  BY <1>2, <1>3, FS_Subset, FS_CardinalityType
<1>5. idIdx' \in Nat
  BY CountersNext
<1> QED
  BY <1>1, <1>4, <1>5 DEF Counted

(* The replica overwrites an item for another call only under the id of    *)
(* that call, or under one of its automatic ids, which are not beyond the  *)
(* master's.                                                               *)
LEMMA UncontendedStep == ASSUME IInv, Next PROVE UncontendedReplicated'
<1> USE DEF IInv, Bookkeeping
<1> SUFFICES ASSUME NEW c \in Issued', reply'[c] = "ok", IsAdd(c)', ~IsAuto(c)', Alone(c)',
                    made'[c] > idIdx', ~rRefused'
             PROVE  rStore'[made'[c]] = c /\ rVec'[made'[c]] = Embedding(c)'
  BY DEF UncontendedReplicated
<1>0. /\ c \in Calls /\ made \in [Calls -> Ids \union {0}] /\ rStore \in [Ids -> Items]
      /\ rVec \in [Ids -> -MaxCalls .. MaxCalls] /\ made' \in [Calls -> Ids \union {0}]
      /\ reply \in [Calls -> {"none", "ok", "error", "nil", "gone", "barred"}]
      /\ rIdIdx \in Nat /\ idIdx \in Nat /\ idIdx' \in Nat /\ Ids \subseteq Nat \ {0}
  <2>1. /\ rStore \in [Ids -> Items] /\ rVec \in [Ids -> -MaxCalls .. MaxCalls]
        /\ rIdIdx \in Nat /\ idIdx \in Nat
        /\ reply \in [Calls -> {"none", "ok", "error", "nil", "gone", "barred"}]
    BY SizesAssumption DEF TypeOK
  <2>2. idIdx' \in Nat
    BY CountersNext
  <2> QED
    BY <2>1, <2>2, MadeOnce, Numbers
<1>1. c \in Issued => calls'[c] = calls[c] /\ IsAdd(c) /\ ~IsAuto(c) /\ Embedding(c)' = Embedding(c)
  BY CallsGrow DEF IsAdd, IsAuto, Embedding
<1>2. made'[c] # 0 /\ made'[c] \in Ids
  <2>1. found'[c] = {0}
    BY FoundByKnnStep DEF FoundByKnn, IsAdd, IsKnn
  <2> QED
    BY <1>0, <2>1, AnswersMeanStep DEF AnswersMean
<1>3. idIdx <= idIdx'
  BY <1>0, WhoCounts
<1>4. \A e \in Issued' : made'[e] = made'[c] => e = c
  BY DEF Alone, Writers
<1>5. ASSUME reply[c] = "ok", ~rRefused
      PROVE  /\ c \in Issued /\ made[c] = made'[c]
             /\ rStore[made'[c]] = c /\ rVec[made'[c]] = Embedding(c)'
  <2>1. c \in Issued
    <3>1. c \in 1 .. MaxCalls /\ Len(calls) \in Nat /\ MaxCalls \in Nat
      BY <1>0, Numbers DEF Calls
    <3>2. ~(c > Len(calls))
      BY <1>0, <1>5 DEF NothingEarly
    <3> QED
      BY <3>1, <3>2 DEF Issued
  <2>2. found[c] = {0}
    BY <1>1, <2>1 DEF FoundByKnn, IsAdd, IsKnn
  <2>3. made[c] # 0 /\ made'[c] = made[c]
    BY <1>0, <1>5, <2>1, <2>2, MadeOnce DEF AnswerTells
  <2>4. Alone(c)
    <3>1. ASSUME NEW e \in Issued, made[e] = made[c] PROVE e = c
      <4>1. e \in Calls /\ e \in Issued'
        BY CallsGrow, Numbers
      <4> QED
        BY <1>4, <2>3, <3>1, <4>1, MadeOnce
    <3> QED
      BY <2>1, <3>1 DEF Alone, Writers
  <2>5. made[c] > idIdx
    <3>1. made'[c] \in Nat
      BY <1>0, <1>2
    <3> QED
      BY <1>0, <1>3, <2>3, <3>1
  <2> QED
    BY <1>1, <1>5, <2>1, <2>3, <2>4, <2>5 DEF UncontendedReplicated
<1>6. CASE UNCHANGED replicaVars
  <2>1. c \in shipped
    BY <1>6, ReplicatedStep DEF ReplicatedIffAcknowledged, IsAdd, IsKnn, replicaVars
  <2>2. reply[c] = "ok"
    BY <2>1 DEF ReplicatedIffAcknowledged
  <2> QED
    BY <1>5, <1>6, <2>2 DEF replicaVars
<1>7. ASSUME NEW e \in Issued, NEW i \in Ids, ShipsAdd(e, i)
      PROVE  rStore'[made'[c]] = c /\ rVec'[made'[c]] = Embedding(c)'
  <2> DEFINE r == ReplicaId(e, i)
  <2>1. /\ rStore' = [rStore EXCEPT ![r] = e] /\ rVec' = [rVec EXCEPT ![r] = Embedding(e)]
        /\ ~rRefused /\ reply' = [reply EXCEPT ![e] = "ok"] /\ made'[e] = i /\ e \in Issued'
        /\ (IsAuto(e) => rIdIdx' = r)
    BY <1>7, CallsGrow DEF ShipsAdd, ReplicateAdd, ReplicaAdds, ReplicaId
  <2>2. IsAuto(e) => r # made'[c]
    <3>1. made'[c] \in Nat /\ rIdIdx' <= idIdx' /\ rIdIdx' \in Nat
      BY <1>0, <1>2, CounterBehindNext, CountersNext
    <3> QED
      BY <1>0, <2>1, <3>1
  <2>3. ~IsAuto(e) => r = i
    BY DEF ReplicaId
  <2> HIDE DEF r
  <2>4. CASE c = e
    <3>1. ~IsAuto(e) /\ r = made'[c]
      BY <1>1, <2>1, <2>3, <2>4
    <3> QED
      BY <1>0, <1>1, <1>2, <2>1, <2>4, <3>1
  <2>5. CASE c # e
    <3>1. reply[c] = "ok"
      BY <1>0, <2>1, <2>5
    <3>2. r # made'[c]
      BY <1>4, <2>1, <2>2, <2>3, <2>5
    <3> QED
      BY <1>0, <1>2, <1>5, <2>1, <3>1, <3>2
  <2> QED
    BY <2>4, <2>5
<1>8. ASSUME NEW i \in ExplicitIds, Rem(i), reply' = [reply EXCEPT ![New] = "ok"]
      PROVE  rStore'[made'[c]] = c /\ rVec'[made'[c]] = Embedding(c)'
  <2>1. /\ New \in Calls /\ New \in Issued' /\ calls'[New].op = "rem"
        /\ made' = [made EXCEPT ![New] = i]
        /\ rStore' = [rStore EXCEPT ![i] = 0] /\ rVec' = [rVec EXCEPT ![i] = 0]
        /\ rRefused' = rRefused
    BY <1>8, NewCall DEF Rem, ReplicaRemoves
  <2>2. c # New
    BY <2>1 DEF IsAdd
  <2>3. reply[c] = "ok" /\ made'[New] = i /\ made'[c] # i
    BY <1>0, <1>4, <1>8, <2>1, <2>2
  <2> QED
    BY <1>0, <1>2, <1>5, <2>1, <2>3
<1> QED
  BY <1>6, <1>7, <1>8, ShippedBy

(* With named, synchronous adds only, master and replica do the same.      *)
LEMMA NamedSyncStep == ASSUME IInv, Next PROVE NamedSyncReplicated'
<1> USE DEF IInv, Bookkeeping
<1> SUFFICES ASSUME \A c \in Issued' : IsAdd(c)' => ~IsAuto(c)' /\ ~calls'[c].async
             PROVE  /\ rStore' = store' /\ rLabels' \subseteq labels' /\ ~rRefused'
                    /\ \A i \in Ids \ torn' : rVec'[i] = vec'[i]
  BY DEF NamedSyncReplicated
<1>0. /\ vec \in [Ids -> 0 .. MaxCalls] /\ rVec \in [Ids -> -MaxCalls .. MaxCalls]
      /\ torn \subseteq Ids
  BY DEF TypeOK
<1>1. \A c \in Issued : IsAdd(c) => ~IsAuto(c) /\ ~calls[c].async
  BY CallsGrow DEF IsAdd, IsAuto
<1>2. /\ rStore = store /\ rLabels \subseteq labels /\ ~rRefused
      /\ \A i \in Ids \ torn : rVec[i] = vec[i]
  BY <1>1 DEF NamedSyncReplicated
<1>3. \A c \in Issued : calls[c] \in Deferred => ~IsAdd(c)
  BY <1>1, Numbers, RequestKinds DEF IsAdd
<1>4. \A w \in Workers : ~Store(w)
  <2> SUFFICES ASSUME NEW w \in Workers, Store(w) PROVE FALSE
    OBVIOUS
  <2>1. busy[w] # 0 /\ IsAdd(Call(w))
    BY DEF Store, At, WorkersBusy
  <2> QED
    BY <1>3, <2>1, Apart
<1>5. CASE AddSyncStored
  <2>1. Last \in Issued /\ IsAdd(Last) /\ reply[Last] = "none" /\ main.id \in Ids
    <3>1. main.id \in Ids
      BY <1>5 DEF AddSyncStored, TypeOK, Free
    <3> QED
      BY <1>5, <3>1, Apart DEF AddSyncStored, MainAdds
  <2>2. /\ ReplicateAdd(Last, main.id) /\ ReplicaId(Last, main.id) = main.id
        /\ Embedding(Last) = Last /\ HasRoom(main.id, labels)
    BY <1>1, <1>5, <2>1 DEF AddSyncStored, Stored, ReplicaId, Embedding
  <2>3. /\ store' = [store EXCEPT ![main.id] = Last] /\ vec' = [vec EXCEPT ![main.id] = Last]
        /\ labels' = labels \union {main.id} /\ torn' = torn \ {main.id}
    BY <1>5, <2>1 DEF AddSyncStored, Stored
  <2>4. HasRoom(main.id, rLabels)
    <3>1. CASE main.id \in rLabels
      BY <3>1 DEF HasRoom
    <3>2. CASE main.id \notin rLabels /\ main.id \in labels
      <4>1. /\ IsFiniteSet(labels \ {main.id})
            /\ Cardinality(labels \ {main.id}) = Cardinality(labels) - 1
        BY <3>2, FS_RemoveElement DEF Slots
      <4>2. rLabels \subseteq labels \ {main.id}
        BY <1>2, <3>2
      <4>3. /\ Cardinality(rLabels) <= Cardinality(labels \ {main.id})
            /\ Cardinality(rLabels) \in Nat
        BY <4>1, <4>2, FS_Subset, FS_CardinalityType
      <4>4. Cardinality(labels) \in Nat /\ Cardinality(labels) <= MaxElements
        BY FS_CardinalityType DEF Slots
      <4> QED
        BY <4>1, <4>3, <4>4, SizesAssumption DEF HasRoom
    <3>3. CASE main.id \notin labels
      <4>1. /\ Cardinality(rLabels) <= Cardinality(labels) /\ Cardinality(rLabels) \in Nat
            /\ Cardinality(labels) \in Nat
        BY <1>2, FS_Subset, FS_CardinalityType DEF Slots
      <4> QED
        BY <2>2, <3>3, <4>1, SizesAssumption DEF HasRoom
    <3> QED
      BY <3>1, <3>2, <3>3
  <2>5. /\ rStore' = [rStore EXCEPT ![main.id] = Last]
        /\ rVec' = [rVec EXCEPT ![main.id] = Last]
        /\ rLabels' = rLabels \union {main.id} /\ rRefused' = rRefused
    BY <2>2, <2>4 DEF ReplicateAdd, ReplicaAdds
  <2> QED
    BY <1>0, <1>2, <2>1, <2>3, <2>5
<1>6. CASE ~AddSyncStored
  <2>1. \A c \in Issued, i \in Ids : ~ShipsAdd(c, i)
    BY <1>3, <1>6 DEF ShipsAdd
  <2>2. \A c \in Issued, i \in Ids, d \in Items : ~WritesAdd(c, i, d)
    BY <1>4, <1>6 DEF WritesAdd
  <2>3. ASSUME NEW i \in ExplicitIds, Rem(i)
        PROVE  /\ rStore' = store' /\ rLabels' \subseteq labels' /\ ~rRefused'
               /\ \A j \in Ids \ torn' : rVec'[j] = vec'[j]
    <3>1. /\ rStore' = [rStore EXCEPT ![i] = 0] /\ rVec' = [rVec EXCEPT ![i] = 0]
          /\ store' = [store EXCEPT ![i] = 0]
          /\ vec' = IF store[i] # 0 THEN [vec EXCEPT ![i] = 0] ELSE vec
          /\ UNCHANGED <<rLabels, rRefused, labels, torn>>
      BY <2>3 DEF Rem, Removed, ReplicaRemoves
    <3>2. store[i] = 0 /\ i \notin torn => vec[i] = 0
      BY IdsAssumption DEF InIndex, Ids
    <3>3. \A j \in Ids \ torn : rVec'[j] = vec'[j]
      BY <1>0, <1>2, <3>1, <3>2
    <3> QED
      BY <1>2, <3>1, <3>3
  <2>4. CASE \A i \in ExplicitIds : ~Rem(i)
    <3>1. UNCHANGED replicaVars
      BY <2>1, <2>4, ShippedBy
    <3>2. CASE UNCHANGED <<made, store, vec, labels, torn>>
      BY <1>2, <3>1, <3>2 DEF replicaVars
    <3>3. ASSUME NEW c \in Issued, NEW i \in Ids, WritesHalf(c, i)
          PROVE  /\ rStore' = store' /\ rLabels' \subseteq labels' /\ ~rRefused'
                 /\ \A j \in Ids \ torn' : rVec'[j] = vec'[j]
      <4>1. /\ vec' = [vec EXCEPT ![i] = c] /\ torn' = torn \union {i} /\ store' = store
            /\ labels' = labels \union {i}
        BY <3>3 DEF WritesHalf
      <4> QED
        BY <1>0, <1>2, <3>1, <4>1 DEF replicaVars
    <3> QED
      BY <2>2, <2>4, <3>2, <3>3, WriteBy DEF WritesRem
  <2> QED
    BY <2>3, <2>4
<1> QED
  BY <1>5, <1>6

-----------------------------------------------------------------------------
(* The invariant                                                           *)

(* The bookkeeping of the pool, at first.                                  *)
LEMMA InitBookkeeping == ASSUME Init PROVE Bookkeeping
<1>1. /\ Issued = {} /\ Len(calls) = 0 /\ Len(jobs) = 0 /\ Len(queue) = 0
      /\ Len(unblocked) = 0 /\ Taken = 0
  BY Initially
<1>2. HandedOnce /\ QueueInOrder /\ UnblockedOnce /\ AnsweredLast
  BY <1>1 DEF HandedOnce, QueueInOrder, UnblockedOnce, AnsweredLast
<1>3. /\ \A w \in Workers : busy[w] = 0 /\ step[w] = "idle"
      /\ main = Free
      /\ \A c \in Calls : reply[c] = "none" /\ made[c] = 0 /\ found[c] = {0}
  BY DEF Init
<1>4. WorkersBusy
  BY <1>1, <1>3 DEF WorkersBusy
<1>5. MainAdds
  BY <1>3 DEF MainAdds, Free
<1>6. NothingEarly
  BY <1>1, <1>3 DEF NothingEarly
<1> QED
  BY <1>2, <1>4, <1>5, <1>6 DEF Bookkeeping

(* The initial state satisfies the invariant.                              *)
LEMMA InitIInv == ASSUME Init PROVE IInv
<1>1. Issued = {} /\ Len(calls) = 0
  BY Initially
<1>2. /\ index # "ready" /\ shipped = {} /\ idIdx = 0 /\ rIdIdx = 0
      /\ labels = {} /\ rLabels = {} /\ ~rRefused
      /\ \A i \in Ids : store[i] = 0 /\ vec[i] = 0 /\ rVec[i] = 0
      /\ rStore = store
  BY DEF Init
<1>3. Counted
  <2>1. Numbered = {} /\ Unnumbered = {} /\ AutoShipped = {}
    BY <1>1, <1>2 DEF Numbered, Unnumbered, AutoShipped
  <2> QED
    BY <1>1, <1>2, <2>1, FS_EmptySet DEF Counted
<1>4. FoundByKnn /\ AnswerTells /\ ReplicatedIffAcknowledged /\ RemovedNotFound
  BY <1>1, <1>2
  DEF FoundByKnn, AnswerTells, ReplicatedIffAcknowledged, RemovedNotFound
<1>5. EmptyUnlessReady /\ StoredStays /\ AddedAfterRemoval /\ NobodyForgotten
  BY <1>1, <1>2 DEF EmptyUnlessReady, StoredStays, AddedAfterRemoval, NobodyForgotten
<1>6. InIndex /\ Slots
  BY <1>2, FS_EmptySet, SizesAssumption DEF InIndex, Slots
<1>7. UncontendedReplicated /\ NamedSyncReplicated
  BY <1>1, <1>2 DEF UncontendedReplicated, NamedSyncReplicated
<1> QED
  BY <1>3, <1>4, <1>5, <1>6, <1>7, InitTypes, InitBookkeeping DEF IInv

(* Nothing the invariant speaks of changes in a step that changes nothing. *)
LEMMA Stuttering == ASSUME IInv, UNCHANGED vars PROVE IInv'
<1> USE DEF IInv, Bookkeeping
<1>0. /\ UNCHANGED <<calls, reply, made, found, main>>
      /\ UNCHANGED <<jobs, queue, busy, outcome, step, named, unblocked>>
      /\ UNCHANGED <<store, vec, labels, torn, idIdx, index>>
      /\ UNCHANGED <<shipped, rStore, rVec, rLabels, rIdIdx, rRefused, alive>>
  BY DEF vars, resultVars, poolVars, workerVars, storeVars, replicaVars
<1>1. TypeOK'
  BY <1>0 DEF TypeOK
<1>2. /\ Issued' = Issued /\ Taken' = Taken /\ Last' = Last
      /\ \A c : IsAdd(c)' = IsAdd(c) /\ IsAuto(c)' = IsAuto(c) /\ IsKnn(c)' = IsKnn(c)
      /\ \A w : Call(w)' = Call(w)
      /\ \A c : Embedding(c)' = Embedding(c)
      /\ \A i : Writers(i)' = Writers(i)
  BY <1>0 DEF Issued, Taken, Last, IsAdd, IsAuto, IsKnn, Call, Embedding, Writers
<1>3. HandedOnce' /\ QueueInOrder' /\ WorkersBusy' /\ UnblockedOnce'
  BY <1>0, <1>2 DEF HandedOnce, QueueInOrder, WorkersBusy, UnblockedOnce
<1>4. MainAdds' /\ NothingEarly' /\ AnsweredLast' /\ FoundByKnn'
  BY <1>0, <1>2 DEF MainAdds, NothingEarly, AnsweredLast, FoundByKnn
<1>5. Counted'
  <2>1. Numbered' = Numbered /\ Unnumbered' = Unnumbered /\ AutoShipped' = AutoShipped
    BY <1>0, <1>2 DEF Numbered, Unnumbered, AutoShipped
  <2> QED
    BY <1>0, <2>1 DEF Counted
<1>6. AnswerTells' /\ ReplicatedIffAcknowledged' /\ EmptyUnlessReady' /\ StoredStays'
  BY <1>0, <1>2
  DEF AnswerTells, ReplicatedIffAcknowledged, EmptyUnlessReady, StoredStays, Alone
<1>7. AddedAfterRemoval' /\ RemovedNotFound'
  BY <1>0, <1>2 DEF AddedAfterRemoval, RemovedNotFound
<1>8. NobodyForgotten'
  BY <1>0, <1>2 DEF NobodyForgotten, Blocked, Somewhere
<1>9. InIndex' /\ Slots'
  BY <1>0, <1>2 DEF InIndex, Slots
<1>10. UncontendedReplicated' /\ NamedSyncReplicated'
  BY <1>0, <1>2 DEF UncontendedReplicated, NamedSyncReplicated, Alone
<1> QED
  BY <1>1, <1>3, <1>4, <1>5, <1>6, <1>7, <1>8, <1>9, <1>10

(* Every step keeps the invariant.                                         *)
LEMMA IInvStep == ASSUME IInv, Next PROVE IInv'
<1>1. TypeOK'
  BY TypeStep
<1>2. Bookkeeping'
  <2>1. HandedOnce' /\ QueueInOrder' /\ WorkersBusy' /\ UnblockedOnce'
    BY PoolStep DEF PoolInv
  <2> QED
    BY <1>1, <2>1, MainAddsStep, NothingEarlyStep, AnsweredLastStep DEF Bookkeeping
<1>3. FoundByKnn' /\ StoredStays'
  BY FoundByKnnStep, StoredStaysStep
<1>4. AnswerTells'
  <2>1. ASSUME NEW c \in Issued', reply'[c] = "ok", IsAdd(c)', Alone(c)'
        PROVE  store'[made'[c]] = c /\ (made'[c] \notin torn' => vec'[made'[c]] = c)
    <3>1. found'[c] = {0}
      BY <1>3, <2>1 DEF FoundByKnn, IsAdd, IsKnn
    <3>2. made'[c] # 0
      BY <2>1, <3>1, AnswersMeanStep DEF AnswersMean
    <3> QED
      BY <1>3, <2>1, <3>2 DEF StoredStays
  <2> QED
    BY <2>1, AnswersMeanStep DEF AnswerTells, AnswersMean
<1> QED
  BY <1>1, <1>2, <1>3, <1>4, CountedStep, ReplicatedStep, EmptyUnlessReadyStep,
     InIndexStep, SlotsStep, AddedAfterRemovalStep, NobodyForgottenStep, UncontendedStep, NamedSyncStep,
     RemovedNotFoundStep
  DEF IInv

(* Every state the commands can reach satisfies the invariant.             *)
THEOREM Invariant == Spec => []IInv
<1>1. Init => IInv
  BY InitIInv
<1>2. IInv /\ [Next]_vars => IInv'
  BY IInvStep, Stuttering
<1> QED
  BY <1>1, <1>2, PTL DEF Spec

(* The types: among others, no id counter, of the master or of the         *)
(* replica, goes past the number of commands.                              *)
THEOREM TypeCorrect == Spec => []TypeOK
<1>1. IInv => TypeOK
  BY DEF IInv
<1> QED
  BY <1>1, Invariant, PTL

(* What a client is told is what has happened: an id for an item that is   *)
(* there until another call touches the id, an error for nothing at all,   *)
(* whatever the order of workers, timeouts and disconnections.             *)
THEOREM AnswersTellWhatHappened == Spec => []AnswerTells
<1>1. IInv => AnswerTells
  BY DEF IInv
<1> QED
  BY <1>1, Invariant, PTL

(* The stream carries exactly the writes that have been acknowledged.      *)
THEOREM ReplicatedExactly == Spec => []ReplicatedIffAcknowledged
<1>1. IInv => ReplicatedIffAcknowledged
  BY DEF IInv
<1> QED
  BY <1>1, Invariant, PTL

(* The replica's id counter never overtakes the master's: it counts the    *)
(* automatic adds that were acknowledged, which the master has numbered.   *)
THEOREM CounterBehind == Spec => []ReplicaCounterBehind
BY CounterBehindFollows, Invariant, PTL

(* A named item of one writer, beyond the automatic ids, is on the replica *)
(* as the client was told, unless the replica has run out of room.         *)
THEOREM ReplicaKeepsUncontended == Spec => []UncontendedReplicated
<1>1. IInv => UncontendedReplicated
  BY DEF IInv
<1> QED
  BY <1>1, Invariant, PTL

(* With named, synchronous adds only, the replica is the master.           *)
THEOREM ReplicaIsMaster == Spec => []NamedSyncReplicated
<1>1. IInv => NamedSyncReplicated
  BY DEF IInv
<1> QED
  BY <1>1, Invariant, PTL

(* LLM.KNN, which searches an index that keeps removed labels, returns no  *)
(* item removed before the call unless a later or asynchronous add put one *)
(* there.                                                                  *)
THEOREM RemovedStaysNotFound == Spec => []RemovedNotFound
<1>1. IInv => RemovedNotFound
  BY DEF IInv
<1> QED
  BY <1>1, Invariant, PTL

(* A blocked client is in exactly one place on its way to an answer, as    *)
(* long as the first initialization of the index has not failed.           *)
THEOREM BlockedInOnePlace == Spec => []OnePlace
BY OnePlaceFollows, Invariant, PTL

(* After the index has failed to initialize, no add is reported as done.   *)
THEOREM NoIndexNoAcknowledgement == Spec => []NothingAcknowledgedWithoutIndex
BY NothingWithoutIndexFollows, Invariant, PTL

-----------------------------------------------------------------------------
(* While LLM.GET is between its two reads only workers write to the store. *)
LEMMA GetTornStep ==
  ASSUME IInv, GetTornOnlyByAsync, Next
  PROVE  GetTornOnlyByAsync'
<1> USE DEF IInv, Bookkeeping, Free
<1> DEFINE One ==
      /\ store[main.id] # 0 /\ vec[main.id] # 0
      /\ vec[main.id] # main.data => calls[vec[main.id]].async \/ made[vec[main.id]] = 0
<1> SUFFICES ASSUME main'.at = "get" PROVE One'
  BY DEF GetTornOnlyByAsync
<1>1. ASSUME main' = main, UNCHANGED <<store, vec, made>> PROVE One'
  <2>1. One
    BY <1>1 DEF GetTornOnlyByAsync
  <2>2. main.id \in Ids
    BY <1>1 DEF TypeOK
  <2>3. vec[main.id] \in Issued
    BY <2>1, <2>2 DEF InIndex
  <2> QED
    BY <1>1, <2>1, <2>3, CallsGrow
<1>2. CASE Issue
  <2>1. ASSUME NEW i \in ExplicitIds, GetData(i) PROVE One'
    <3>1. i \in Ids /\ store[i] # 0
      BY <2>1, IdsAssumption DEF GetData, Ids
    <3>2. /\ vec[i] # 0
          /\ vec[i] # store[i] => calls[vec[i]].async \/ made[vec[i]] = 0
      BY <3>1 DEF InIndex
    <3>3. /\ main' = [at |-> "get", id |-> i, data |-> store[i]]
          /\ UNCHANGED <<store, vec, calls, made>>
      BY <2>1 DEF GetData, storeVars, resultVars
    <3> QED
      BY <3>1, <3>2, <3>3
  <2>2. CASE \E i \in ExplicitIds \union {NoId} : AddSync(i)
    BY <2>2 DEF AddSync
  <2>3. CASE \E request \in Deferred : Defer(request) \/ DeferFull(request)
    BY <2>3 DEF Defer, DeferFull, Receive, Ready
  <2>4. CASE \E i \in ExplicitIds : Rem(i)
    BY <2>4 DEF Rem, Receive, Ready
  <2> QED
    BY <1>2, <2>1, <2>2, <2>3, <2>4 DEF Issue
<1>3. CASE MainAdd
  <2>1. main.at = "add" /\ (main' = main \/ main' = Free)
    BY <1>3 DEF MainAdd, AddSyncStored, AddSyncRefused, AddSyncThrows, AddSyncBreaks
  <2> QED
    BY <2>1
<1>4. CASE GetVector
  BY <1>4 DEF GetVector
<1>5. CASE HandleUnblocked
  BY <1>5 DEF HandleUnblocked, Ready
<1>6. ASSUME NEW c \in Calls, Leave(c) PROVE main' = Free
  BY <1>6 DEF Leave, Timeout, Disconnect, Ready
<1>7. ASSUME NEW w \in Workers, Worker(w) PROVE One'
  <2>0. main' = main
    BY <1>7
    DEF Worker, Start, Embed, EmbedFails, Name, Store, StoreRefused, StoreThrows, IndexBreaks,
        Search, Unblock
  <2>1. main.id \in Ids /\ One
    BY <2>0 DEF TypeOK, GetTornOnlyByAsync
  <2>2. vec[main.id] \in Issued /\ vec[main.id] \in Calls
    BY <2>1, Numbers DEF InIndex
  <2>3. ASSUME NEW c \in Issued, NEW i \in Ids, calls' = calls, calls[c].async, c # 0,
               made' = made \/ (\E j \in Ids : made' = [made EXCEPT ![c] = j]),
               vec' = [vec EXCEPT ![i] = c],
               store' = store \/ (\E d \in Items \ {0} : store' = [store EXCEPT ![i] = d])
        PROVE  One'
    <3>1. /\ made \in [Calls -> Ids \union {0}] /\ vec \in [Ids -> 0 .. MaxCalls]
          /\ store \in [Ids -> Items] /\ c \in Calls
      BY <2>3, Numbers DEF TypeOK
    <3>2. store'[main.id] # 0
      BY <2>1, <2>3, <3>1
    <3>3. vec'[main.id] = IF main.id = i THEN c ELSE vec[main.id]
      BY <2>1, <2>3, <3>1
    <3>4. vec[main.id] # c => made'[vec[main.id]] = made[vec[main.id]]
      BY <2>2, <2>3, <3>1
    <3> QED
      BY <2>0, <2>1, <2>3, <3>2, <3>3, <3>4
  <2>4. CASE UNCHANGED <<made, store, vec, labels, torn>>
    BY <1>1, <2>0, <2>4
  <2>5. ASSUME NEW c \in Issued, NEW i \in Ids, NEW d \in Items, WritesAdd(c, i, d) PROVE One'
    <3>1. c # Last \/ main.at # "add"
      BY <2>0
    <3> QED
      BY <2>3, <2>5, <3>1, Numbers DEF WritesAdd, Issued
  <2>6. ASSUME NEW c \in Issued, NEW i \in Ids, WritesHalf(c, i) PROVE One'
    <3>1. c # Last \/ main.at # "add"
      BY <2>0
    <3> QED
      BY <2>3, <2>6, <3>1, Numbers DEF WritesHalf, Issued
  <2>7. ASSUME NEW i \in ExplicitIds, WritesRem(i) PROVE FALSE
    BY <2>0, <2>7 DEF WritesRem, Rem, Receive, Ready
  <2> QED
    BY <2>4, <2>5, <2>6, <2>7, WriteBy
<1>8. CASE Done
  BY <1>1, <1>8 DEF Done, vars, storeVars, resultVars
<1> QED
  BY <1>2, <1>3, <1>4, <1>5, <1>6, <1>7, <1>8 DEF Next

(* What LLM.GET returns is one item, unless a worker has written to the    *)
(* embedding between the two reads, or an add that failed before; it never *)
(* disappears in between.                                                  *)
THEOREM GetSeesOneItem == Spec => []GetTornOnlyByAsync
<1>1. Init => GetTornOnlyByAsync
  BY DEF Init, Free, GetTornOnlyByAsync
<1>2. IInv /\ GetTornOnlyByAsync /\ [Next]_vars => GetTornOnlyByAsync'
  <2>1. CASE UNCHANGED vars
    BY <2>1 DEF vars, storeVars, resultVars, GetTornOnlyByAsync
  <2> QED
    BY <2>1, GetTornStep
<1> QED
  BY <1>1, <1>2, Invariant, PTL DEF Spec
==============================================================================
