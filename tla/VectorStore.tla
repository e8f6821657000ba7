----------------------------- MODULE VectorStore -----------------------------
(***************************************************************************)
(* One vector store: VectorStore (vector_store.h, vector_store.cpp) over   *)
(* the HNSW index (hnsw.cpp, deps/hnswlib/hnswalg.h), as the worker        *)
(* threads and the main thread of Redis call it at the same time.          *)
(*                                                                         *)
(* Every call but the naming of an automatic add runs under `_mtx'.  The   *)
(* steps under the lock stay separate, one per write of a member, for two  *)
(* reasons: an operation can stop half-way with an error, and the members  *)
(* are also read without the lock (data_store(), dim(), id_idx()).         *)
(*                                                                         *)
(* The index is abstracted to what its callers can tell apart: which       *)
(* labels occupy a slot, whether the slot is marked deleted, and the       *)
(* vector in it.  The graph that makes the search fast is left out; the    *)
(* search is any choice among the live labels.                             *)
(***************************************************************************)
EXTENDS Integers, FiniteSets

CONSTANTS
  Threads,      \* the callers
  Data,         \* payloads
  Vectors,      \* embeddings
  Size,         \* [Vectors -> Nat], embedding.size()
  Ks,           \* the k of the searches
  MaxId,        \* BOUND: ids are 0 .. MaxId, and at most MaxId are automatic
  MaxElements,  \* the option "max_elements"
  InitMayFail,  \* TRUE: building the index may throw (no memory)
  PointMayFail, \* TRUE: addPoint may throw with the label registered
  NoThread, NoData, NoVector

Ids == 0 .. MaxId

ASSUME SizeAssumption == Size \in [Vectors -> Nat]
ASSUME BoundAssumption == MaxId \in Nat /\ MaxElements \in Nat
ASSUME FailAssumption == InitMayFail \in BOOLEAN /\ PointMayFail \in BOOLEAN
ASSUME KsAssumption == Ks \subseteq Nat
ASSUME NoneAssumption ==
  /\ NoThread \notin Threads /\ NoVector \notin Vectors /\ NoData \notin Data

VARIABLES
  mtx,        \* _mtx: the thread that holds it, or NoThread
  dim,        \* _dim
  dataStore,  \* _data_store: [Ids -> Data or NoData]
  hasIndex,   \* _hnsw is not null
  hasSpace,   \* _space is not null
  slot,       \* the label's slot in the index: "none", "live" or "deleted"
  vector,     \* the vector in that slot
  count,      \* cur_element_count
  torn,       \* the labels whose entry a failed addPoint left incomplete
  idIdx,      \* _id_idx
  crashed,    \* a pointer that is not there was followed: the process is gone
  pc,         \* where each thread is, "idle" outside the store
  req,        \* the call it makes
  res         \* what the call is about to return

storeVars == <<dim, dataStore, hasIndex, hasSpace, slot, vector, count, torn>>
vars == <<mtx, dim, dataStore, hasIndex, hasSpace, slot, vector, count,
          torn, idIdx, crashed, pc, req, res>>

NoRequest == [op |-> "none"]
NoAnswer == [kind |-> "none"]
Error(why) == [kind |-> "error", why |-> why]

Requests ==
  [op : {"none"}]
    \union [op : {"add"}, auto : BOOLEAN, id : Ids, data : Data, vec : Vectors]
    \union [op : {"rem", "get", "data"}, id : Ids]
    \union [op : {"knn"}, k : Ks]

Responses ==
  [kind : {"none", "missing", "exception"}]
    \union [kind : {"error"}, why : {"empty", "dimension", "full", "index"}]
    \union [kind : {"added"}, id : Ids]
    \union [kind : {"removed"}, found : BOOLEAN]
    \union [kind : {"vector"}, vec : Vectors]
    \union [kind : {"data"}, data : Data]
    \union [kind : {"knn"}, found : SUBSET Ids]

\* the steps taken while _mtx is held
Critical == {"begin", "init", "point", "store", "erase", "unlock"}
Steps == {"idle", "name", "enter", "lock", "return"} \union Critical

TypeOK ==
  /\ mtx \in Threads \union {NoThread}
  /\ dim \in Nat
  /\ dataStore \in [Ids -> Data \union {NoData}]
  /\ hasIndex \in BOOLEAN /\ hasSpace \in BOOLEAN
  /\ slot \in [Ids -> {"none", "live", "deleted"}]
  /\ vector \in [Ids -> Vectors \union {NoVector}]
  /\ count \in Nat
  /\ torn \subseteq Ids
  /\ idIdx \in 0 .. MaxId
  /\ crashed \in BOOLEAN
  /\ pc \in [Threads -> Steps]
  /\ req \in [Threads -> Requests]
  /\ res \in [Threads -> Responses]

Held == {i \in Ids : dataStore[i] # NoData}
Live == {i \in Ids : slot[i] = "live"}
Labels == {i \in Ids : slot[i] # "none"}

Init ==
  /\ mtx = NoThread
  /\ dim = 0
  /\ dataStore = [i \in Ids |-> NoData]
  /\ hasIndex = FALSE /\ hasSpace = FALSE
  /\ slot = [i \in Ids |-> "none"]
  /\ vector = [i \in Ids |-> NoVector]
  /\ count = 0
  /\ torn = {}
  /\ idIdx = 0
  /\ crashed = FALSE
  /\ pc = [t \in Threads |-> "idle"]
  /\ req = [t \in Threads |-> NoRequest]
  /\ res = [t \in Threads |-> NoAnswer]

Goto(t, step) == pc' = [pc EXCEPT ![t] = step]

Answer(t, r, step) ==
  /\ res' = [res EXCEPT ![t] = r]
  /\ Goto(t, step)

-----------------------------------------------------------------------------
(* The calls, up to the lock.                                              *)

CallAdd(t) ==
  /\ pc[t] = "idle"
  /\ \E i \in Ids, d \in Data, v \in Vectors :
       req' = [req EXCEPT ![t] = [op |-> "add", auto |-> FALSE, id |-> i,
                                 data |-> d, vec |-> v]]
  /\ Goto(t, "enter")
  /\ UNCHANGED <<mtx, storeVars, idIdx, crashed, res>>

(* add(data, embedding): the id is chosen before, and outside, the lock.   *)
(* The 0 of the request is a placeholder that AutoGenId overwrites; the    *)
(* bound leaves an id for every add that is still to be named.             *)
CallAutoAdd(t) ==
  /\ pc[t] = "idle"
  /\ idIdx + Cardinality({u \in Threads : pc[u] = "name"}) < MaxId
  /\ \E d \in Data, v \in Vectors :
       req' = [req EXCEPT ![t] = [op |-> "add", auto |-> TRUE, id |-> 0,
                                 data |-> d, vec |-> v]]
  /\ Goto(t, "name")
  /\ UNCHANGED <<mtx, storeVars, idIdx, crashed, res>>

(* _auto_gen_id: an atomic increment, here capped by MaxId.                *)
AutoGenId(t) ==
  /\ pc[t] = "name"
  /\ idIdx < MaxId
  /\ idIdx' = idIdx + 1
  /\ req' = [req EXCEPT ![t].id = idIdx + 1]
  /\ Goto(t, "enter")
  /\ UNCHANGED <<mtx, storeVars, crashed, res>>

(* An empty embedding is refused before the lock is taken.                 *)
EnterAdd(t) ==
  /\ pc[t] = "enter"
  /\ IF Size[req[t].vec] = 0
       THEN Answer(t, Error("empty"), "return")
       ELSE Goto(t, "lock") /\ UNCHANGED res
  /\ UNCHANGED <<mtx, storeVars, idIdx, crashed, req>>

CallOther(t) ==
  /\ pc[t] = "idle"
  /\ \/ \E i \in Ids, o \in {"rem", "get", "data"} :
          req' = [req EXCEPT ![t] = [op |-> o, id |-> i]]
     \/ \E k \in Ks : req' = [req EXCEPT ![t] = [op |-> "knn", k |-> k]]
  /\ Goto(t, "lock")
  /\ UNCHANGED <<mtx, storeVars, idIdx, crashed, res>>

Lock(t) ==
  /\ pc[t] = "lock"
  /\ mtx = NoThread
  /\ mtx' = t
  /\ Goto(t, "begin")
  /\ UNCHANGED <<storeVars, idIdx, crashed, req, res>>

-----------------------------------------------------------------------------
(* VectorStore::add                                                        *)

SetDim(t) ==
  /\ pc[t] = "begin" /\ req[t].op = "add"
  /\ IF dim = 0
       THEN dim' = Size[req[t].vec] /\ Goto(t, "init")
       ELSE dim' = dim /\ Goto(t, "point")
  /\ UNCHANGED <<mtx, dataStore, hasIndex, hasSpace, slot, vector, count,
                 torn, idIdx, crashed, req, res>>

(* Hnsw::_lazily_init: _space first, then the index, whose construction    *)
(* may throw an exception that nobody turns into an Error.                 *)
LazilyInit(t) ==
  /\ pc[t] = "init"
  /\ hasSpace' = TRUE
  /\ \/ /\ hasIndex' = (hasIndex \/ ~hasSpace)
        /\ Goto(t, "point") /\ UNCHANGED res
     \/ /\ InitMayFail /\ ~hasSpace
        /\ Answer(t, [kind |-> "exception"], "unlock") /\ UNCHANGED hasIndex
  /\ UNCHANGED <<mtx, dim, dataStore, slot, vector, count, torn, idIdx, crashed, req>>

(* MUTANT of WrongDim: the lock is not given back on this way out. *)
WrongDimLocked(t) ==
  /\ pc[t] = "point"
  /\ dim # Size[req[t].vec]
  /\ Answer(t, Error("dimension"), "return")
  /\ UNCHANGED <<mtx, storeVars, idIdx, crashed, req>>

WrongDim(t) ==
  /\ pc[t] = "point"
  /\ dim # Size[req[t].vec]
  /\ Answer(t, Error("dimension"), "unlock")
  /\ UNCHANGED <<mtx, storeVars, idIdx, crashed, req>>

(* MUTANT of HasRoom: off by one. *)
HasRoomForOneMore(i) == slot[i] # "none" \/ count <= MaxElements

(* A label that has a slot keeps it, also while it is marked deleted.      *)
HasRoom(i) == slot[i] # "none" \/ count < MaxElements

(* What addPoint does before anything can fail: a label that has a slot    *)
(* is revived and gets the new vector; a new label takes the next slot.    *)
(* Slots marked deleted are never given to another label.                  *)
Register(i, v) ==
  /\ slot' = [slot EXCEPT ![i] = "live"]
  /\ vector' = [vector EXCEPT ![i] = v]
  /\ count' = IF slot[i] = "none" THEN count + 1 ELSE count

(* MUTANT of AddPoint: the dimension of the embedding is not compared. *)
AddPointAnyDim(t) ==
  /\ pc[t] = "point"
  /\ hasIndex
  /\ HasRoom(req[t].id)
  /\ Register(req[t].id, req[t].vec)
  /\ torn' = torn \ {req[t].id}
  /\ Goto(t, "store")
  /\ UNCHANGED <<mtx, dim, dataStore, hasIndex, hasSpace, idIdx, crashed, req, res>>

(* HierarchicalNSW::addPoint, to its end.                                  *)
AddPoint(t) ==
  /\ pc[t] = "point"
  /\ dim = Size[req[t].vec]
  /\ hasIndex
  /\ HasRoom(req[t].id)
  /\ Register(req[t].id, req[t].vec)
  /\ torn' = torn \ {req[t].id}
  /\ Goto(t, "store")
  /\ UNCHANGED <<mtx, dim, dataStore, hasIndex, hasSpace, idIdx, crashed, req, res>>

(* addPoint throws with the label registered and the vector written: no    *)
(* memory for the links, which is every call with the option "m" of 1, or  *)
(* a link or a level out of range.  _add makes it an Error, so the payload *)
(* is not stored, and nobody takes the label back.                         *)
AddPointFails(t) ==
  /\ PointMayFail
  /\ pc[t] = "point"
  /\ dim = Size[req[t].vec]
  /\ hasIndex
  /\ HasRoom(req[t].id)
  /\ Register(req[t].id, req[t].vec)
  /\ torn' = torn \union {req[t].id}
  /\ Answer(t, Error("index"), "unlock")
  /\ UNCHANGED <<mtx, dim, dataStore, hasIndex, hasSpace, idIdx, crashed, req>>

(* MUTANT of IndexFull: the payload was stored before the index refused. *)
IndexFullAfterStore(t) ==
  /\ pc[t] = "point"
  /\ dim = Size[req[t].vec]
  /\ hasIndex
  /\ ~ HasRoom(req[t].id)
  /\ dataStore' = [dataStore EXCEPT ![req[t].id] = req[t].data]
  /\ Answer(t, Error("full"), "unlock")
  /\ UNCHANGED <<mtx, dim, hasIndex, hasSpace, slot, vector, count, torn,
                 idIdx, crashed, req>>

IndexFull(t) ==
  /\ pc[t] = "point"
  /\ dim = Size[req[t].vec]
  /\ hasIndex
  /\ ~ HasRoom(req[t].id)
  /\ Answer(t, Error("full"), "unlock")
  /\ UNCHANGED <<mtx, storeVars, idIdx, crashed, req>>

(* assert(_hnsw) is compiled out of the default (Release) build: calling   *)
(* addPoint on the null pointer is undefined and ends the process.         *)
NullIndex(t) ==
  /\ pc[t] = "point"
  /\ dim = Size[req[t].vec]
  /\ ~hasIndex
  /\ crashed' = TRUE
  /\ UNCHANGED <<mtx, storeVars, idIdx, pc, req, res>>

(* A later add or search that walks the graph may follow the links that an *)
(* incomplete entry never got, or start at an entry point that is not set. *)
TornIndex(t) ==
  /\ torn # {}
  /\ \/ pc[t] = "point" /\ dim = Size[req[t].vec] /\ HasRoom(req[t].id)
     \/ pc[t] = "begin" /\ req[t].op = "knn" /\ Held # {}
  /\ crashed' = TRUE
  /\ UNCHANGED <<mtx, storeVars, idIdx, pc, req, res>>

StoreData(t) ==
  /\ pc[t] = "store"
  /\ dataStore' = [dataStore EXCEPT ![req[t].id] = req[t].data]
  /\ Answer(t, [kind |-> "added", id |-> req[t].id], "unlock")
  /\ UNCHANGED <<mtx, dim, hasIndex, hasSpace, slot, vector, count, torn,
                 idIdx, crashed, req>>

-----------------------------------------------------------------------------
(* VectorStore::rem                                                        *)

RemMissing(t) ==
  /\ pc[t] = "begin" /\ req[t].op = "rem"
  /\ req[t].id \notin Held
  /\ Answer(t, [kind |-> "removed", found |-> FALSE], "unlock")
  /\ UNCHANGED <<mtx, storeVars, idIdx, crashed, req>>

(* markDelete throws unless the label has a live slot, and _rem makes it   *)
(* an Error.                                                               *)
MarkDelete(t) ==
  /\ pc[t] = "begin" /\ req[t].op = "rem"
  /\ req[t].id \in Held
  /\ IF req[t].id \in Live
       THEN /\ slot' = [slot EXCEPT ![req[t].id] = "deleted"]
            /\ Goto(t, "erase") /\ UNCHANGED res
       ELSE /\ Answer(t, Error("index"), "unlock")
            /\ UNCHANGED slot
  /\ UNCHANGED <<mtx, dim, dataStore, hasIndex, hasSpace, vector, count, torn,
                 idIdx, crashed, req>>

EraseData(t) ==
  /\ pc[t] = "erase"
  /\ dataStore' = [dataStore EXCEPT ![req[t].id] = NoData]
  /\ Answer(t, [kind |-> "removed", found |-> TRUE], "unlock")
  /\ UNCHANGED <<mtx, dim, hasIndex, hasSpace, slot, vector, count, torn,
                 idIdx, crashed, req>>

-----------------------------------------------------------------------------
(* The reads: get, data and knn.                                           *)

(* MUTANT of Get: the deletion mark of the slot is not looked at. *)
GetDeletedToo(t) ==
  /\ pc[t] = "begin" /\ req[t].op = "get"
  /\ Answer(t, IF Held # {} /\ req[t].id \in Labels
                 THEN [kind |-> "vector", vec |-> vector[req[t].id]]
                 ELSE [kind |-> "missing"], "unlock")
  /\ UNCHANGED <<mtx, storeVars, idIdx, crashed, req>>

Get(t) ==
  /\ pc[t] = "begin" /\ req[t].op = "get"
  /\ Answer(t, IF Held # {} /\ req[t].id \in Live
                 THEN [kind |-> "vector", vec |-> vector[req[t].id]]
                 ELSE [kind |-> "missing"], "unlock")
  /\ UNCHANGED <<mtx, storeVars, idIdx, crashed, req>>

(* MUTANT of ReadData: the end of the map is not tested for. *)
ReadDataUnchecked(t) ==
  /\ pc[t] = "begin" /\ req[t].op = "data"
  /\ Answer(t, [kind |-> "data", data |-> dataStore[req[t].id]], "unlock")
  /\ UNCHANGED <<mtx, storeVars, idIdx, crashed, req>>

ReadData(t) ==
  /\ pc[t] = "begin" /\ req[t].op = "data"
  /\ Answer(t, IF req[t].id \in Held
                 THEN [kind |-> "data", data |-> dataStore[req[t].id]]
                 ELSE [kind |-> "missing"], "unlock")
  /\ UNCHANGED <<mtx, storeVars, idIdx, crashed, req>>

(* searchKnn never returns a label marked deleted; it is approximate and   *)
(* may return fewer than k.                                                *)
SearchKnn(k) == {found \in SUBSET Live : Cardinality(found) <= k}

Knn(t) ==
  /\ pc[t] = "begin" /\ req[t].op = "knn"
  /\ \E found \in IF Held = {} THEN {{}} ELSE SearchKnn(req[t].k) :
       Answer(t, [kind |-> "knn", found |-> found], "unlock")
  /\ UNCHANGED <<mtx, storeVars, idIdx, crashed, req>>

-----------------------------------------------------------------------------
(* The caller takes the answer; an idle thread keeps nothing.              *)
Leave(t) ==
  /\ Answer(t, NoAnswer, "idle")
  /\ req' = [req EXCEPT ![t] = NoRequest]

(* lock_guard's destructor, on every way out of an operation, and return.  *)
Unlock(t) ==
  /\ pc[t] = "unlock"
  /\ mtx' = NoThread
  /\ Leave(t)
  /\ UNCHANGED <<storeVars, idIdx, crashed>>

Return(t) ==
  /\ pc[t] = "return"
  /\ Leave(t)
  /\ UNCHANGED <<mtx, storeVars, idIdx, crashed>>

Call(t) == CallAdd(t) \/ CallAutoAdd(t) \/ CallOther(t)

Locked(t) ==
  \/ SetDim(t) \/ LazilyInit(t) \/ WrongDim(t) \/ AddPoint(t) \/ AddPointFails(t)
  \/ IndexFull(t) \/ NullIndex(t) \/ TornIndex(t) \/ StoreData(t) \/ RemMissing(t)
  \/ MarkDelete(t) \/ EraseData(t) \/ Get(t) \/ ReadData(t) \/ Knn(t) \/ Unlock(t)

Step(t) ==
  /\ ~crashed
  /\ \/ Call(t) \/ AutoGenId(t) \/ EnterAdd(t) \/ Lock(t) \/ Locked(t) \/ Return(t)

(* The process is gone.                                                    *)
Dead == crashed /\ UNCHANGED vars

Next == Dead \/ \E t \in Threads : Step(t)

Spec == Init /\ [][Next]_vars

-----------------------------------------------------------------------------
(* Whenever the lock is free, every payload has its live label in the      *)
(* index (rdb_save dereferences the vector of each, redis_llm.cpp 516),    *)
(* and every live label has its payload, except those that a failed        *)
(* addPoint left: add writes the index and then the payload, rem the other *)
(* two, and either may stop half-way (vector_store.cpp 23-68).             *)
IndexAgrees == mtx = NoThread => Held \subseteq Live /\ Live \ Held \subseteq torn

(* Every vector the index has ever taken has the store's dimension, so no  *)
(* read of a slot goes past its end (getDataByLabel and the distance       *)
(* function trust the dimension the index was built with).                 *)
UniformDimension ==
  \A i \in Labels : vector[i] \in Vectors /\ dim > 0 /\ Size[vector[i]] = dim

(* cur_element_count counts the labels that own a slot, removed ones       *)
(* included, and stays within the capacity the index was built with.       *)
SlotAccounting == count = Cardinality(Labels) /\ count <= MaxElements

(* An index that could not be built is never built later: the store stays  *)
(* empty, whatever is added to it afterwards (hnsw.cpp 76-81).             *)
NothingWithoutIndex == ~hasIndex => Held = {} /\ Labels = {}

(* One caller at a time is between lock and unlock, and whoever is not has *)
(* given the lock back, on every way out, errors and exceptions included:  *)
(* else the next caller, in the end the main thread, waits for ever.       *)
MutualExclusion == \A t \in Threads : pc[t] \in Critical <=> mtx = t

-----------------------------------------------------------------------------
(* The store as its callers see it: an add takes effect when its vector    *)
(* enters the index, a removal when its label is marked deleted.           *)
SeenData ==
  IF mtx # NoThread /\ pc[mtx] \in {"store", "erase"}
    THEN [dataStore EXCEPT ![req[mtx].id] =
            IF pc[mtx] = "store" THEN req[mtx].data ELSE NoData]
    ELSE dataStore

SeenVec == [i \in Ids |-> IF i \in Live THEN vector[i] ELSE NoVector]

PhaseOf(step) ==
  CASE step = "idle" -> "idle"
    [] step = "name" -> "naming"
    [] step \in {"enter", "lock", "begin", "init", "point"} -> "pending"
    [] OTHER -> "answered"

AnswerOf(step, r, a) ==
  CASE step = "store" -> [kind |-> "added", id |-> r.id]
    [] step = "erase" -> [kind |-> "removed", found |-> TRUE]
    [] OTHER -> a

Phase == [t \in Threads |-> PhaseOf(pc[t])]
SeenAnswer == [t \in Threads |-> AnswerOf(pc[t], req[t], res[t])]

Map == INSTANCE VectorMap WITH
  data <- SeenData, vec <- SeenVec, ever <- Labels, assigned <- 1 .. idIdx,
  phase <- Phase, res <- SeenAnswer, MayTear <- PointMayFail

(* Seen from its callers the store is a map from ids to data and           *)
(* embeddings on which every call takes effect at one instant              *)
(* (linearizability); only an add that fails in the index has half of its  *)
(* effect.                                                                 *)
Linearizable == Map!Spec

-----------------------------------------------------------------------------
(* A statement of the repository that the code does not keep.              *)

(* hnsw.cpp:68 asserts that _add finds an index.                           *)
IndexAsserted == ~crashed
==============================================================================
