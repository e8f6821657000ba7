----------------------------- MODULE CommandFlow -----------------------------
(***************************************************************************)
(* LLM.ADD, LLM.REM and LLM.GET on one vector store (add_command.cpp,      *)
(* rem_command.cpp, get_command.cpp): the main thread of Redis that runs   *)
(* the commands one by one, the clients it blocks, the workers that embed  *)
(* and store without the global lock, and the stream of commands Redis     *)
(* sends to the replica and the AOF.                                       *)
(*                                                                         *)
(* It composes the components below it by what they promise: the worker    *)
(* pool is TaskQueue (implemented by WorkerPool), an operation of the      *)
(* vector store is one atomic step (VectorMap, implemented by              *)
(* VectorStore).  The key of the store and the one of its model exist.     *)
(*                                                                         *)
(* Calls are numbered as the main thread meets them; the number of a call  *)
(* also stands for the data, and the embedding, it brings.                 *)
(***************************************************************************)
EXTENDS Integers, Sequences, FiniteSets

CONSTANTS
  Workers,
  QueueSize,    \* --QUEUE_SIZE
  MaxCalls,     \* BOUND: how many LLM.ADD, LLM.REM and LLM.KNN are issued
  MaxBarred,    \* BOUND: how many of them in a transaction or a script
  ExplicitIds,  \* BOUND: the ids --ID and LLM.REM may name
  NoId,         \* the id of an LLM.ADD without --ID
  MaxElements,  \* max_elements of the store
  InitMayFail,  \* the index may fail to allocate its memory (not an Error)
  PointMayFail  \* addPoint may fail with the label registered (an Error)

ASSUME SizesAssumption ==
  /\ QueueSize \in Nat /\ MaxCalls \in Nat /\ MaxBarred \in Nat
  /\ MaxElements \in Nat \ {0}
ASSUME IdsAssumption == ExplicitIds \subseteq Nat \ {0} /\ NoId \notin Nat
ASSUME FailAssumption == InitMayFail \in BOOLEAN /\ PointMayFail \in BOOLEAN

Calls == 1 .. MaxCalls
Ids == ExplicitIds \union Calls   \* automatic ids count from 1
Stray == MaxCalls + 1             \* what freed memory reads as

VARIABLES
  calls,      \* the requests so far, in the order of the main thread
  reply,      \* [Calls -> what the client got; "gone": it had left; "barred":
              \* it was refused, as part of a transaction or a script]
  made,       \* [Calls -> the id whose item the call has written, 0 if none]
  found,      \* [Calls -> the ids there when LLM.KNN searched; {0}: it did not]
  main,       \* what the main thread is in the middle of
  jobs,       \* the calls handed to the pool, in order
  queue, busy, outcome,   \* the pool: see TaskQueue
  step,       \* [Workers -> where in _async_add it is]
  named,      \* [Workers -> the id its add will use]
  unblocked,  \* the calls given to RedisModule_UnblockClient, in order
  store,      \* [Ids -> the call whose data are there, 0 if none]
  vec,        \* [Ids -> the call whose embedding is in the index, 0 if none]
  labels,     \* the labels the index knows, of removed items too
  torn,       \* the labels whose entry a failed addPoint left incomplete
  idIdx,      \* _id_idx
  index,      \* "none", "ready", or "null" after a failed initialization
  shipped,    \* the calls that have been replicated
  rStore, rVec, rLabels, rIdIdx,  \* the replica, once it has caught up
  rRefused,   \* the replica has refused a command it was sent
  alive       \* the process has not died

resultVars == <<made, found>>
poolVars == <<jobs, queue, busy, outcome>>
workerVars == <<step, named>>
storeVars == <<store, vec, labels, torn, idIdx, index>>
replicaVars == <<shipped, rStore, rVec, rLabels, rIdIdx, rRefused>>
vars == <<calls, reply, resultVars, main, poolVars, workerVars, unblocked, storeVars,
          replicaVars, alive>>

Pool == INSTANCE TaskQueue WITH accepted <- Len(jobs), gone <- {}, closed <- ~alive

Free == [at |-> "free"]
Items == 0 .. MaxCalls + 1

Requests ==
  [op : {"rem"}, id : ExplicitIds]
    \union [op : {"add"}, id : ExplicitIds \union {NoId}, async : BOOLEAN]
    \union [op : {"knn"}]

TypeOK ==
  /\ calls \in Seq(Requests) /\ Len(calls) <= MaxCalls
  /\ reply \in [Calls -> {"none", "ok", "error", "nil", "gone", "barred"}]
  /\ made \in [Calls -> Ids \union {0}]
  /\ found \in [Calls -> {{0}} \union SUBSET Ids]
  /\ main \in {Free} \union [at : {"add"}, id : Ids] \union [at : {"get"}, id : Ids, data : Items]
  /\ jobs \in Seq(Calls) /\ queue \in Seq(1 .. Len(jobs))
  /\ busy \in [Workers -> 0 .. Len(jobs)]
  /\ outcome \in {"none", "queued", "full"}
  /\ step \in [Workers -> {"idle", "embed", "name", "store", "search", "unblock"}]
  /\ named \in [Workers -> Ids \union {0}]
  /\ unblocked \in Seq(Calls)
  /\ store \in [Ids -> Items] /\ vec \in [Ids -> 0 .. MaxCalls]
  /\ labels \subseteq Ids /\ torn \subseteq Ids
  /\ idIdx \in 0 .. MaxCalls /\ index \in {"none", "ready", "null"}
  /\ shipped \subseteq Calls
  /\ rStore \in [Ids -> Items] /\ rVec \in [Ids -> -MaxCalls .. MaxCalls] /\ rLabels \subseteq Ids
  /\ rIdIdx \in 0 .. MaxCalls /\ rRefused \in BOOLEAN
  /\ alive \in BOOLEAN

Init ==
  /\ calls = <<>>
  /\ reply = [c \in Calls |-> "none"]
  /\ made = [c \in Calls |-> 0]
  /\ found = [c \in Calls |-> {0}]
  /\ main = Free
  /\ jobs = <<>> /\ queue = <<>> /\ outcome = "none"
  /\ busy = [w \in Workers |-> 0]
  /\ step = [w \in Workers |-> "idle"]
  /\ named = [w \in Workers |-> 0]
  /\ unblocked = <<>>
  /\ store = [i \in Ids |-> 0] /\ vec = [i \in Ids |-> 0] /\ labels = {} /\ torn = {}
  /\ idIdx = 0 /\ index = "none"
  /\ shipped = {}
  /\ rStore = [i \in Ids |-> 0] /\ rVec = [i \in Ids |-> 0] /\ rLabels = {}
  /\ rIdIdx = 0 /\ rRefused = FALSE
  /\ alive = TRUE

IsAdd(c) == calls[c].op = "add"
IsAuto(c) == IsAdd(c) /\ calls[c].id = NoId
IsKnn(c) == calls[c].op = "knn"
New == Len(calls) + 1
Last == Len(calls)

-----------------------------------------------------------------------------
(* The vector store, one operation at a time (VectorMap).                  *)

HasRoom(i, used) == i \in used \/ Cardinality(used) < MaxElements

(* An add the store takes.  Its data is a view into the arguments of the   *)
(* client, which Redis frees once the client is no longer blocked.         *)
Stored(c, i) ==
  /\ index # "null"
  /\ HasRoom(i, labels)
  /\ \E d \in IF reply[c] = "none" THEN {c} ELSE {c, Stray} :
       store' = [store EXCEPT ![i] = d]
  /\ vec' = [vec EXCEPT ![i] = c]
  /\ labels' = labels \union {i}
  /\ torn' = torn \ {i}
  /\ index' = "ready"
  /\ made' = [made EXCEPT ![c] = i]
  /\ UNCHANGED <<idIdx, found>>

(* An add that ends in an Error half-way, in addPoint: the index has the   *)
(* label and the embedding, its links are not set, and the data are not    *)
(* stored.                                                                 *)
HalfStored(c, i) ==
  /\ PointMayFail
  /\ index # "null"
  /\ HasRoom(i, labels)
  /\ vec' = [vec EXCEPT ![i] = c]
  /\ labels' = labels \union {i}
  /\ torn' = torn \union {i}
  /\ index' = "ready"
  /\ UNCHANGED <<store, idIdx, resultVars>>

(* An add that ends in an Error before that: the index is full, or the     *)
(* dimension of the embedding is not the one an earlier add has fixed.     *)
Refused(i) ==
  /\ index # "none" \/ ~HasRoom(i, labels)
  /\ UNCHANGED <<storeVars, resultVars>>

(* The first add finds no memory for the index: another exception, and an  *)
(* index that stays null.                                                  *)
InitThrows ==
  /\ InitMayFail
  /\ index = "none"
  /\ index' = "null"
  /\ UNCHANGED <<store, vec, labels, torn, idIdx, resultVars>>

(* Any later add follows the null pointer (assert is compiled out), or may *)
(* follow the links that an incomplete entry never got.                    *)
AddBreaks(i) == index = "null" \/ (torn # {} /\ HasRoom(i, labels))

Empty == \A i \in Ids : store[i] = 0

(* So may a search; a null index it does not follow, for the store is      *)
(* empty then.                                                             *)
SearchBreaks == torn # {} /\ ~Empty

-----------------------------------------------------------------------------
(* Replication: the stream is what the replica executes, in this order.    *)

(* MUTANT of ReplicaId: the --ID of the command is lost. *)
ReplicaIdChosen(c, i) == rIdIdx + 1

(* The embedding of an asynchronous add goes through std::to_string, which *)
(* keeps six decimals; a synchronous one goes out as it came.              *)
Embedding(c) == IF calls[c].async THEN -c ELSE c

(* What the replica does with an add: its memory suffices.                 *)
ReplicaAdds(c, r) ==
  IF HasRoom(r, rLabels)
    THEN /\ rStore' = [rStore EXCEPT ![r] = c]
         /\ rVec' = [rVec EXCEPT ![r] = Embedding(c)]
         /\ rLabels' = rLabels \union {r}
         /\ UNCHANGED rRefused
    ELSE rRefused' = TRUE /\ UNCHANGED <<rStore, rVec, rLabels>>

(* An LLM.ADD without --ID goes out without it, and the replica chooses.   *)
ReplicaId(c, i) == IF IsAuto(c) THEN rIdIdx + 1 ELSE i

(* MUTANT of ReplicateAdd: every add goes through the counter of the replica. *)
ReplicateAddCounting(c, i) ==
  /\ shipped' = shipped \union {c}
  /\ rIdIdx' = rIdIdx + 1
  /\ ReplicaAdds(c, ReplicaId(c, i))

ReplicateAdd(c, i) ==
  /\ shipped' = shipped \union {c}
  /\ rIdIdx' = IF IsAuto(c) THEN rIdIdx + 1 ELSE rIdIdx
  /\ ReplicaAdds(c, ReplicaId(c, i))

-----------------------------------------------------------------------------
(* The main thread                                                         *)

Ready == alive /\ main = Free

Receive(request) ==
  /\ Ready
  /\ Len(calls) < MaxCalls
  /\ calls' = Append(calls, request)

(* LLM.ADD --EMBEDDING: the id is chosen before the store is locked.       *)
AddSync(i) ==
  /\ Receive([op |-> "add", id |-> i, async |-> FALSE])
  /\ idIdx' = IF i = NoId THEN idIdx + 1 ELSE idIdx
  /\ main' = [at |-> "add", id |-> IF i = NoId THEN idIdx' ELSE i]
  /\ UNCHANGED <<reply, resultVars, poolVars, workerVars, unblocked, store, vec, labels, torn,
                 index, replicaVars, alive>>

AddSyncStored ==
  /\ alive /\ main.at = "add"
  /\ Stored(Last, main.id)
  /\ reply' = [reply EXCEPT ![Last] = "ok"]
  /\ ReplicateAdd(Last, main.id)
  /\ main' = Free
  /\ UNCHANGED <<calls, poolVars, workerVars, unblocked, alive>>

AddSyncRefused ==
  /\ alive /\ main.at = "add"
  /\ Refused(main.id) \/ HalfStored(Last, main.id)
  /\ reply' = [reply EXCEPT ![Last] = "error"]
  /\ main' = Free
  /\ UNCHANGED <<calls, poolVars, workerVars, unblocked, replicaVars, alive>>

(* What is not an Error leaves Command::run, into C: the process ends.     *)
AddSyncThrows ==
  /\ alive /\ main.at = "add"
  /\ InitThrows
  /\ alive' = FALSE
  /\ UNCHANGED <<calls, reply, main, poolVars, workerVars, unblocked, replicaVars>>

AddSyncBreaks ==
  /\ alive /\ main.at = "add"
  /\ AddBreaks(main.id)
  /\ alive' = FALSE
  /\ UNCHANGED <<calls, reply, resultVars, main, poolVars, workerVars, unblocked, storeVars,
                 replicaVars>>

(* LLM.ADD without --EMBEDDING, and every LLM.KNN: the client is blocked,  *)
(* perhaps with a timeout, and the work handed to the pool.  In a          *)
(* transaction or a script nobody is blocked: Redis has answered with an   *)
(* error, and the work is handed over all the same.                        *)
Deferred ==
  [op : {"add"}, id : ExplicitIds \union {NoId}, async : {TRUE}]
    \union [op : {"knn"}]

BarredCalls == {c \in 1 .. Len(calls) : reply[c] = "barred"}

Defer(request) ==
  /\ Receive(request)
  /\ jobs' = Append(jobs, New)
  /\ \E r \in {"none"} \union (IF Cardinality(BarredCalls) < MaxBarred THEN {"barred"} ELSE {}) :
       reply' = [reply EXCEPT ![New] = r]
  /\ UNCHANGED <<resultVars, main, workerVars, unblocked, storeVars, replicaVars, alive>>
  /\ Pool!Accept

(* The queue is full: the client is released at once, with an error.       *)
DeferFull(request) ==
  /\ Receive(request)
  /\ reply' = [reply EXCEPT ![New] = "error"]
  /\ UNCHANGED <<resultVars, main, jobs, workerVars, unblocked, storeVars, replicaVars, alive>>
  /\ Pool!Refuse

(* Data and embedding go together.  An embedding without data, which a     *)
(* failed add has left, stays.                                             *)
Removed(i) ==
  /\ store' = [store EXCEPT ![i] = 0]
  /\ vec' = IF store[i] # 0 THEN [vec EXCEPT ![i] = 0] ELSE vec
  /\ UNCHANGED <<labels, torn, idIdx, index>>

ReplicaRemoves(i) ==
  /\ rStore' = [rStore EXCEPT ![i] = 0]
  /\ rVec' = [rVec EXCEPT ![i] = 0]
  /\ UNCHANGED <<rLabels, rIdIdx, rRefused>>

(* MUTANT of Rem: the removal is not replicated. *)
RemUnreplicated(i) ==
  /\ Receive([op |-> "rem", id |-> i])
  /\ Removed(i)
  /\ made' = [made EXCEPT ![New] = i]
  /\ reply' = [reply EXCEPT ![New] = "ok"]
  /\ shipped' = shipped \union {New}
  /\ UNCHANGED <<main, found, poolVars, workerVars, unblocked, rStore, rVec, rLabels, rIdIdx,
                 rRefused, alive>>

(* MUTANT of Rem: the item is removed without the global lock, also while *)
(* LLM.GET is between its two reads.                                       *)
RemAnytime(i) ==
  /\ alive /\ main.at # "add" /\ Len(calls) < MaxCalls
  /\ calls' = Append(calls, [op |-> "rem", id |-> i])
  /\ Removed(i)
  /\ made' = [made EXCEPT ![New] = i]
  /\ reply' = [reply EXCEPT ![New] = "ok"]
  /\ shipped' = shipped \union {New}
  /\ ReplicaRemoves(i)
  /\ UNCHANGED <<main, found, poolVars, workerVars, unblocked, alive>>

(* LLM.REM answers, and is replicated, whether or not it found the item.   *)
Rem(i) ==
  /\ Receive([op |-> "rem", id |-> i])
  /\ Removed(i)
  /\ made' = [made EXCEPT ![New] = i]
  /\ reply' = [reply EXCEPT ![New] = "ok"]
  /\ shipped' = shipped \union {New}
  /\ ReplicaRemoves(i)
  /\ UNCHANGED <<main, found, poolVars, workerVars, unblocked, alive>>

(* LLM.GET reads the data, unlocks the store, then reads the embedding.    *)
GetData(i) ==
  /\ Ready
  /\ store[i] # 0
  /\ main' = [at |-> "get", id |-> i, data |-> store[i]]
  /\ UNCHANGED <<calls, reply, resultVars, poolVars, workerVars, unblocked, storeVars,
                 replicaVars, alive>>

GetVector ==
  /\ alive /\ main.at = "get"
  /\ main' = Free
  /\ UNCHANGED <<calls, reply, resultVars, poolVars, workerVars, unblocked, storeVars,
                 replicaVars, alive>>

(* What the task has left for the client is an error or a result.          *)
Succeeded(c) == IF IsAdd(c) THEN made[c] # 0 ELSE found[c] # {0}

(* _reply_func, for a client that still waits: an error, or the id and the *)
(* replicated command; for one that does not, only _free_func.             *)
ReplyError(c) ==
  /\ ~Succeeded(c)
  /\ reply' = [reply EXCEPT ![c] = "error"]
  /\ UNCHANGED replicaVars

ReplyId(c) ==
  /\ IsAdd(c) /\ Succeeded(c)
  /\ reply' = [reply EXCEPT ![c] = "ok"]
  /\ ReplicateAdd(c, made[c])

ReplyNeighbors(c) ==
  /\ IsKnn(c) /\ Succeeded(c)
  /\ reply' = [reply EXCEPT ![c] = "ok"]
  /\ UNCHANGED replicaVars

(* MUTANT of Drop: the command is replicated though the client has gone. *)
DropReplicates(c) ==
  /\ UNCHANGED reply
  /\ IF made[c] # 0 THEN ReplicateAdd(c, made[c]) ELSE UNCHANGED replicaVars

Drop(c) == UNCHANGED <<reply, replicaVars>>

HandleUnblocked ==
  /\ Ready
  /\ unblocked # <<>>
  /\ unblocked' = Tail(unblocked)
  /\ LET c == Head(unblocked) IN
       IF reply[c] = "none" THEN ReplyError(c) \/ ReplyId(c) \/ ReplyNeighbors(c) ELSE Drop(c)
  /\ UNCHANGED <<calls, resultVars, main, poolVars, workerVars, storeVars, alive>>

Blocked(c) ==
  /\ c <= Len(calls) /\ reply[c] = "none"
  /\ calls[c] \in Deferred

UnblockedCalls == {unblocked[k] : k \in 1 .. Len(unblocked)}

(* _timeout_func: nil.  A timeout that is never over is as good as none,   *)
(* so every blocked client may have one.  Redis does not time out a client *)
(* that has been unblocked.                                                *)
Timeout(c) ==
  /\ Ready
  /\ Blocked(c)
  /\ c \notin UnblockedCalls
  /\ reply' = [reply EXCEPT ![c] = "nil"]
  /\ UNCHANGED <<calls, resultVars, main, poolVars, workerVars, unblocked, storeVars,
                 replicaVars, alive>>

Disconnect(c) ==
  /\ Ready
  /\ Blocked(c)
  /\ reply' = [reply EXCEPT ![c] = "gone"]
  /\ UNCHANGED <<calls, resultVars, main, poolVars, workerVars, unblocked, storeVars,
                 replicaVars, alive>>

-----------------------------------------------------------------------------
(* A worker in _async_add                                                  *)

Call(w) == jobs[busy[w]]
Goto(w, s) == step' = [step EXCEPT ![w] = s]
At(w, s) == alive /\ step[w] = s

(* A task embeds first; LLM.KNN may have been given the embedding.         *)
Start(w) ==
  /\ At(w, "idle") /\ queue # <<>>
  /\ LET c == jobs[Head(queue)] IN
       \E s \in {"embed"} \union (IF IsKnn(c) THEN {"search"} ELSE {}) : Goto(w, s)
  /\ UNCHANGED <<calls, reply, resultVars, main, jobs, named, unblocked, storeVars,
                 replicaVars, alive>>
  /\ Pool!Start(w)

(* MUTANT of Embed: the id is used without asking whether there is one. *)
EmbedUnnamed(w) ==
  /\ At(w, "embed")
  /\ IsAdd(Call(w))
  /\ Goto(w, "store")
  /\ named' = [named EXCEPT ![w] = calls[Call(w)].id]
  /\ UNCHANGED <<calls, reply, resultVars, main, poolVars, unblocked, storeVars,
                 replicaVars, alive>>

(* The LLM answers with an embedding; an automatic id comes next.          *)
Embed(w) ==
  LET c == Call(w) IN
  /\ At(w, "embed")
  /\ \/ /\ IsKnn(c)
        /\ Goto(w, "search") /\ UNCHANGED named
     \/ /\ IsAuto(c)
        /\ Goto(w, "name") /\ UNCHANGED named
     \/ /\ IsAdd(c) /\ ~IsAuto(c)
        /\ Goto(w, "store") /\ named' = [named EXCEPT ![w] = calls[c].id]
  /\ UNCHANGED <<calls, reply, resultVars, main, poolVars, unblocked, storeVars,
                 replicaVars, alive>>

(* MUTANT of EmbedFails: the error ends the task, the client stays blocked. *)
EmbedFailsSilently(w) ==
  /\ At(w, "embed")
  /\ Goto(w, "idle")
  /\ UNCHANGED <<calls, reply, resultVars, main, jobs, named, unblocked, storeVars,
                 replicaVars, alive>>
  /\ Pool!Finish(w)

EmbedFails(w) ==
  /\ At(w, "embed")
  /\ Goto(w, "unblock")
  /\ UNCHANGED <<calls, reply, resultVars, main, poolVars, named, unblocked, storeVars,
                 replicaVars, alive>>

Name(w) ==
  /\ At(w, "name")
  /\ idIdx' = idIdx + 1
  /\ named' = [named EXCEPT ![w] = idIdx + 1]
  /\ Goto(w, "store")
  /\ UNCHANGED <<calls, reply, resultVars, main, poolVars, unblocked, store, vec, labels, torn,
                 index, replicaVars, alive>>

Store(w) ==
  /\ At(w, "store")
  /\ Stored(Call(w), named[w])
  /\ Goto(w, "unblock")
  /\ UNCHANGED <<calls, reply, main, poolVars, named, unblocked, replicaVars, alive>>

(* MUTANT of StoreRefused: the error of the store is swallowed. *)
StoreRefusedSwallowed(w) ==
  /\ At(w, "store")
  /\ index # "none" \/ ~HasRoom(named[w], labels)
  /\ made' = [made EXCEPT ![Call(w)] = named[w]]
  /\ Goto(w, "unblock")
  /\ UNCHANGED <<calls, reply, found, main, poolVars, named, unblocked, storeVars,
                 replicaVars, alive>>

(* The Errors of an add, and one the LLM is to blame for: an embedding of  *)
(* size 0, which is refused before the dimension is looked at.             *)
StoreRefused(w) ==
  /\ At(w, "store")
  /\ Refused(named[w]) \/ HalfStored(Call(w), named[w]) \/ UNCHANGED <<storeVars, resultVars>>
  /\ Goto(w, "unblock")
  /\ UNCHANGED <<calls, reply, main, poolVars, named, unblocked, replicaVars, alive>>

(* What is not an Error is caught by the packaged_task: the task is over,  *)
(* and nobody has unblocked the client.                                    *)
StoreThrows(w) ==
  /\ At(w, "store")
  /\ InitThrows
  /\ Goto(w, "idle")
  /\ named' = [named EXCEPT ![w] = 0]
  /\ UNCHANGED <<calls, reply, main, jobs, unblocked, replicaVars, alive>>
  /\ Pool!Finish(w)

IndexBreaks(w) ==
  /\ \/ At(w, "store") /\ AddBreaks(named[w])
     \/ At(w, "search") /\ SearchBreaks
  /\ alive' = FALSE
  /\ UNCHANGED <<calls, reply, resultVars, main, poolVars, workerVars, unblocked, storeVars,
                 replicaVars>>

(* MUTANT of Search: labels of removed items are found too. *)
SearchDeletedToo(w) ==
  /\ At(w, "search")
  /\ found' = [found EXCEPT ![Call(w)] = labels]
  /\ Goto(w, "unblock")
  /\ UNCHANGED <<calls, reply, made, main, poolVars, named, unblocked, storeVars,
                 replicaVars, alive>>

(* A search goes through the index, embeddings without data included,      *)
(* unless there are no data at all.                                        *)
Hits == IF Empty THEN {} ELSE {i \in Ids : vec[i] # 0}

(* The answer to LLM.KNN is some of what is found here.                    *)
Search(w) ==
  /\ At(w, "search")
  /\ found' = [found EXCEPT ![Call(w)] = Hits]
  /\ Goto(w, "unblock")
  /\ UNCHANGED <<calls, reply, made, main, poolVars, named, unblocked, storeVars,
                 replicaVars, alive>>

Unblock(w) ==
  /\ At(w, "unblock")
  /\ unblocked' = Append(unblocked, Call(w))
  /\ Goto(w, "idle")
  /\ named' = [named EXCEPT ![w] = 0]
  /\ UNCHANGED <<calls, reply, resultVars, main, jobs, storeVars, replicaVars, alive>>
  /\ Pool!Finish(w)

-----------------------------------------------------------------------------
Issue ==
  \/ \E i \in ExplicitIds \union {NoId} : AddSync(i)
  \/ \E request \in Deferred : Defer(request) \/ DeferFull(request)
  \/ \E i \in ExplicitIds : Rem(i)
  \/ \E i \in ExplicitIds : GetData(i)

MainAdd == AddSyncStored \/ AddSyncRefused \/ AddSyncThrows \/ AddSyncBreaks

Leave(c) == Timeout(c) \/ Disconnect(c)

Worker(w) ==
  \/ Start(w) \/ Embed(w) \/ EmbedFails(w) \/ Name(w)
  \/ Store(w) \/ StoreRefused(w) \/ StoreThrows(w) \/ IndexBreaks(w) \/ Search(w) \/ Unblock(w)

(* The process has died, or there is nothing left to do.                   *)
Done ==
  /\ alive => /\ main = Free /\ Len(calls) = MaxCalls
              /\ queue = <<>> /\ unblocked = <<>>
              /\ \A w \in Workers : step[w] = "idle"
  /\ UNCHANGED vars

Next ==
  \/ Issue \/ MainAdd \/ GetVector \/ HandleUnblocked
  \/ \E c \in Calls : Leave(c)
  \/ \E w \in Workers : Worker(w)
  \/ Done

Spec == Init /\ [][Next]_vars

(* A command returns, a worker runs and the request to the LLM ends (it    *)
(* has a timeout).  Redis handles the unblocked clients in every round of  *)
(* its event loop, whatever commands come in: strong fairness.  No client  *)
(* needs to come, to leave or to time out.                                 *)
FairSpec ==
  /\ Spec
  /\ WF_vars(MainAdd) /\ WF_vars(GetVector) /\ SF_vars(HandleUnblocked)
  /\ \A w \in Workers : WF_vars(Worker(w))

-----------------------------------------------------------------------------
Issued == 1 .. Len(calls)

(* The calls that have written id i on the master.                         *)
Writers(i) == {c \in Issued : made[c] = i}

(* Only the latest call could have changed what is stored under its id.    *)
Alone(c) == Writers(made[c]) = {c}

(* What the client is told is what happened: an id only if the item went   *)
(* into the store under it, where its data stay until another call         *)
(* overwrites or removes them, and its embedding until one at least tries; *)
(* an error only if the call stored no item and searched nothing.  Two     *)
(* things an error does not tell: an add that failed in the index has left *)
(* its embedding there, and a call that was barred (reply "barred") is     *)
(* carried out all the same.                                               *)
AnswerTells ==
  \A c \in Issued :
    /\ reply[c] = "ok" => made[c] # 0 \/ found[c] # {0}
    /\ reply[c] = "error" => made[c] = 0 /\ found[c] = {0}
    /\ reply[c] = "ok" /\ IsAdd(c) /\ Alone(c) =>
         /\ store[made[c]] = c
         /\ made[c] \notin torn => vec[made[c]] = c

(* A write is replicated exactly if its client has been told of its        *)
(* success: never for an error, nor after a timeout or a disconnection,    *)
(* nor when it had been barred.                                            *)
ReplicatedIffAcknowledged == shipped = {c \in Issued : reply[c] = "ok" /\ ~IsKnn(c)}

(* The replica never gives out an automatic id the master has not.         *)
ReplicaCounterBehind == rIdIdx <= idIdx

(* An item the client named itself, was told of, and that nobody else      *)
(* wrote to, is on the replica, with its embedding or what six decimals    *)
(* leave of it - as long as automatic ids have not come near it and the    *)
(* replica has not run out of room.                                        *)
UncontendedReplicated ==
  \A c \in Issued :
    reply[c] = "ok" /\ IsAdd(c) /\ ~IsAuto(c) /\ Alone(c) /\ made[c] > idIdx /\ ~rRefused
      => rStore[made[c]] = c /\ rVec[made[c]] = Embedding(c)

(* While every add has named its id and come with its embedding, master    *)
(* and replica hold the same data, and the same embeddings but under the   *)
(* labels of adds that failed in the index: removals and errors included,  *)
(* replication goes wrong only where adds are automatic or asynchronous.   *)
NamedSyncReplicated ==
  (\A c \in Issued : IsAdd(c) => ~IsAuto(c) /\ ~calls[c].async)
    => /\ rStore = store /\ rLabels \subseteq labels /\ ~rRefused
       /\ \A i \in Ids \ torn : rVec[i] = vec[i]

(* LLM.KNN finds nothing that had been removed when it was called, though  *)
(* the index keeps removed items: who stored what it finds came after the  *)
(* removals before it, or is asynchronous and may have overtaken them.     *)
(* Apart from the embeddings that failed adds have left.                   *)
RemovedNotFound ==
  \A c \in Issued : IsKnn(c) /\ found[c] # {0} =>
    \A i \in found[c] \ torn :
      \E a \in Writers(i) :
        /\ IsAdd(a)
        /\ \A e \in Writers(i) :
             calls[e].op = "rem" /\ a < e /\ e < c => calls[a].async

(* LLM.GET reads data and embedding under two locks: the item does not     *)
(* disappear in between, and the two are of one item unless the embedding  *)
(* is that of an asynchronous LLM.ADD (which a worker may have put there   *)
(* in between) or of an add that failed.  LLM.REM and the adds of the main *)
(* thread do not get in between.                                           *)
GetTornOnlyByAsync ==
  main.at = "get" =>
    /\ store[main.id] # 0 /\ vec[main.id] # 0
    /\ vec[main.id] # main.data => calls[vec[main.id]].async \/ made[vec[main.id]] = 0

(* A blocked client is not forgotten: it is in the queue, with a worker,   *)
(* or unblocked and to be answered.  Nor is it anywhere twice.             *)
Place(c) ==
  {<<"queue", k>> : k \in {n \in 1 .. Len(queue) : jobs[queue[n]] = c}}
    \union {<<"worker", w>> : w \in {v \in Workers : busy[v] # 0 /\ Call(v) = c}}
    \union {<<"unblocked", k>> : k \in {n \in 1 .. Len(unblocked) : unblocked[n] = c}}

OnePlace ==
  \A c \in Issued :
    /\ Cardinality(Place(c)) <= 1
    /\ Blocked(c) /\ index # "null" => Cardinality(Place(c)) = 1

(* After a failed initialization no add is ever reported as done, by the   *)
(* main thread or by a worker, and nothing is in the store.                *)
NothingAcknowledgedWithoutIndex ==
  index = "null" =>
    /\ \A c \in Issued : IsAdd(c) => reply[c] # "ok" /\ made[c] = 0
    /\ \A i \in Ids : store[i] = 0

(* Every client is answered, even one that has set no timeout, as long as  *)
(* the process lives and what goes wrong is an Error.                      *)
AnsweredUnlessNoIndex ==
  \A c \in Calls : c <= Len(calls) ~> reply[c] # "none" \/ ~alive \/ index = "null"

-----------------------------------------------------------------------------
(* A claim of the README the code does not keep.                           *)

(* README.md:711, "Integer reply: ID of the inserted data": the id of an   *)
(* item nobody else wrote to is its id, also where the stream has been     *)
(* replayed, on a replica or from the AOF.                                 *)
AcknowledgedIdReplayed ==
  \A c \in Issued :
    reply[c] = "ok" /\ IsAdd(c) /\ Alone(c) /\ ~rRefused => rStore[made[c]] = c
==============================================================================
