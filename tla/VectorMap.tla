------------------------------ MODULE VectorMap ------------------------------
(***************************************************************************)
(* What a vector store promises to its callers, whatever index it uses:    *)
(* a map from ids to data and embeddings on which every call takes effect  *)
(* at ONE instant between its invocation and its response.                 *)
(* VectorStore.tla, the model of vector_store.cpp and hnsw.cpp, is shown   *)
(* to implement it.                                                        *)
(*                                                                         *)
(* The promise keeps three facts of the code that a caller can observe:    *)
(* the first embedding offered fixes the dimension; capacity is consumed   *)
(* by every id ever stored (`ever'), removed or not; and an add that fails *)
(* in the index may leave its embedding there, to be read and found, while *)
(* the data stay what they were.  Every other failing call leaves the      *)
(* store as it was.                                                        *)
(***************************************************************************)
EXTENDS Integers, FiniteSets

CONSTANTS
  Threads, Ids, Data, Vectors, Size, Ks, MaxElements, NoData, NoVector,
  MayTear      \* TRUE: an add may fail in the index

VARIABLES
  data,      \* [Ids -> Data or NoData]: the payloads
  vec,       \* [Ids -> Vectors or NoVector]: the embeddings
  ever,      \* the ids that have entered the index at some time
  dim,       \* the dimension of the store, 0 while it is open
  assigned,  \* the ids given out automatically so far
  phase,     \* [Threads -> {"idle", "naming", "pending", "answered"}]
  req,       \* [Threads -> request]: the call in progress
  res        \* [Threads -> response]: the answer, until it is taken

vars == <<data, vec, ever, dim, assigned, phase, req, res>>

Held == {i \in Ids : data[i] # NoData}
Found == {i \in Ids : vec[i] # NoVector}

Init ==
  /\ data = [i \in Ids |-> NoData]
  /\ vec = [i \in Ids |-> NoVector]
  /\ ever = {}
  /\ dim = 0
  /\ assigned = {}
  /\ phase = [t \in Threads |-> "idle"]
  /\ req = [t \in Threads |-> [op |-> "none"]]
  /\ res = [t \in Threads |-> [kind |-> "none"]]

(* A caller invokes an operation: an add that leaves the choice of the id  *)
(* to the store is named first.                                            *)
Invoke(t) ==
  /\ phase[t] = "idle"
  /\ \/ \E i \in Ids, d \in Data, v \in Vectors, auto \in BOOLEAN :
          /\ req' = [req EXCEPT ![t] = [op |-> "add", auto |-> auto, id |-> i,
                                       data |-> d, vec |-> v]]
          /\ phase' = [phase EXCEPT ![t] = IF auto THEN "naming" ELSE "pending"]
     \/ /\ \E i \in Ids, o \in {"rem", "get", "data"} :
             req' = [req EXCEPT ![t] = [op |-> o, id |-> i]]
        /\ phase' = [phase EXCEPT ![t] = "pending"]
     \/ /\ \E k \in Ks : req' = [req EXCEPT ![t] = [op |-> "knn", k |-> k]]
        /\ phase' = [phase EXCEPT ![t] = "pending"]
  /\ UNCHANGED <<data, vec, ever, dim, assigned, res>>

(* No two automatic adds get the same id.                                  *)
Name(t) ==
  /\ phase[t] = "naming"
  /\ \E i \in Ids \ assigned :
       /\ assigned' = assigned \union {i}
       /\ req' = [req EXCEPT ![t].id = i]
  /\ phase' = [phase EXCEPT ![t] = "pending"]
  /\ UNCHANGED <<data, vec, ever, dim, res>>

(* The first embedding offered fixes the dimension, before it is known     *)
(* whether its add succeeds.                                               *)
FixDim(t) ==
  /\ phase[t] = "pending"
  /\ req[t].op = "add"
  /\ dim = 0
  /\ Size[req[t].vec] > 0
  /\ dim' = Size[req[t].vec]
  /\ UNCHANGED <<data, vec, ever, assigned, phase, req, res>>

Answer(t, r) ==
  /\ res' = [res EXCEPT ![t] = r]
  /\ phase' = [phase EXCEPT ![t] = "answered"]

Fits(v) == Size[v] > 0 /\ Size[v] = dim

Room(i) == i \in ever \/ Cardinality(ever) < MaxElements

Stored(t) ==
  /\ phase[t] = "pending"
  /\ req[t].op = "add"
  /\ Fits(req[t].vec)
  /\ Room(req[t].id)
  /\ data' = [data EXCEPT ![req[t].id] = req[t].data]
  /\ vec' = [vec EXCEPT ![req[t].id] = req[t].vec]
  /\ ever' = ever \union {req[t].id}
  /\ Answer(t, [kind |-> "added", id |-> req[t].id])
  /\ UNCHANGED <<dim, assigned, req>>

(* An add that fails in the index: the embedding is there, the data are    *)
(* not.                                                                    *)
HalfStored(t) ==
  /\ MayTear
  /\ phase[t] = "pending"
  /\ req[t].op = "add"
  /\ Fits(req[t].vec)
  /\ Room(req[t].id)
  /\ vec' = [vec EXCEPT ![req[t].id] = req[t].vec]
  /\ ever' = ever \union {req[t].id}
  /\ Answer(t, [kind |-> "error", why |-> "index"])
  /\ UNCHANGED <<data, dim, assigned, req>>

Rejected(t) ==
  /\ phase[t] = "pending"
  /\ req[t].op = "add"
  /\ \/ /\ Size[req[t].vec] = 0
        /\ Answer(t, [kind |-> "error", why |-> "empty"])
     \/ /\ Size[req[t].vec] > 0
        /\ dim # 0
        /\ dim # Size[req[t].vec]
        /\ Answer(t, [kind |-> "error", why |-> "dimension"])
     \/ /\ Fits(req[t].vec)
        /\ ~ Room(req[t].id)
        /\ Answer(t, [kind |-> "error", why |-> "full"])
  /\ UNCHANGED <<data, vec, ever, dim, assigned, req>>

(* The first add may find no memory for max_elements items: an exception,  *)
(* as long as nothing has ever been stored.                                *)
OutOfMemory(t) ==
  /\ phase[t] = "pending"
  /\ req[t].op = "add"
  /\ dim # 0 /\ ever = {}
  /\ Answer(t, [kind |-> "exception"])
  /\ UNCHANGED <<data, vec, ever, dim, assigned, req>>

(* Only what has data is removed: an embedding that a failed add left is   *)
(* out of reach.                                                           *)
Removed(t) ==
  /\ phase[t] = "pending"
  /\ req[t].op = "rem"
  /\ IF req[t].id \in Held
       THEN /\ data' = [data EXCEPT ![req[t].id] = NoData]
            /\ vec' = [vec EXCEPT ![req[t].id] = NoVector]
       ELSE UNCHANGED <<data, vec>>
  /\ Answer(t, [kind |-> "removed", found |-> req[t].id \in Held])
  /\ UNCHANGED <<ever, dim, assigned, req>>

(* A store without data answers nothing, whatever is in its index.         *)
ReadVector(t) ==
  /\ phase[t] = "pending"
  /\ req[t].op = "get"
  /\ Answer(t, IF Held # {} /\ req[t].id \in Found
                 THEN [kind |-> "vector", vec |-> vec[req[t].id]]
                 ELSE [kind |-> "missing"])
  /\ UNCHANGED <<data, vec, ever, dim, assigned, req>>

ReadData(t) ==
  /\ phase[t] = "pending"
  /\ req[t].op = "data"
  /\ Answer(t, IF req[t].id \in Held
                 THEN [kind |-> "data", data |-> data[req[t].id]]
                 ELSE [kind |-> "missing"])
  /\ UNCHANGED <<data, vec, ever, dim, assigned, req>>

(* The search is approximate: at most k of the embeddings, not always the  *)
(* nearest ones, and never one that is not there.                          *)
Searched(t) ==
  /\ phase[t] = "pending"
  /\ req[t].op = "knn"
  /\ \E found \in IF Held = {} THEN {{}} ELSE SUBSET Found :
       /\ Cardinality(found) <= req[t].k
       /\ Answer(t, [kind |-> "knn", found |-> found])
  /\ UNCHANGED <<data, vec, ever, dim, assigned, req>>

Return(t) ==
  /\ phase[t] = "answered"
  /\ phase' = [phase EXCEPT ![t] = "idle"]
  /\ req' = [req EXCEPT ![t] = [op |-> "none"]]
  /\ res' = [res EXCEPT ![t] = [kind |-> "none"]]
  /\ UNCHANGED <<data, vec, ever, dim, assigned>>

Next ==
  \E t \in Threads :
    \/ Invoke(t) \/ Name(t) \/ FixDim(t)
    \/ Stored(t) \/ HalfStored(t) \/ Rejected(t) \/ OutOfMemory(t)
    \/ Removed(t) \/ ReadVector(t) \/ ReadData(t) \/ Searched(t)
    \/ Return(t)

Spec == Init /\ [][Next]_vars
==============================================================================
