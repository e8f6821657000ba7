-------------------------- MODULE VectorStoreProofs --------------------------
(***************************************************************************)
(* Proofs about VectorStore for any number of callers, payloads and        *)
(* embeddings, any capacity and any bound on the ids.                      *)
(*                                                                         *)
(* The properties are not inductive: they speak of moments when the lock   *)
(* is free, and say nothing of an operation that is half-way.  IInv adds   *)
(* what each step of an operation has established for the next one.        *)
(***************************************************************************)
EXTENDS VectorStore, TLAPS, FiniteSetTheorems

(* Where a thread stands determines what it asked for.                     *)
Requested ==
  \A t \in Threads :
    /\ pc[t] \in {"name", "enter", "init", "point", "store"} => req[t].op = "add"
    /\ pc[t] = "name" => req[t].auto = TRUE
    /\ pc[t] = "erase" => req[t].op = "rem"

(* An embedding that got past EnterAdd is not empty.                       *)
NotEmpty ==
  \A t \in Threads :
    pc[t] \in {"lock"} \union Critical /\ req[t].op = "add" => Size[req[t].vec] > 0

(* add fixes the dimension, then builds the index.                         *)
Dimension ==
  /\ \A t \in Threads : pc[t] \in {"init", "point", "store"} => dim > 0
  /\ \A t \in Threads : pc[t] = "store" => hasIndex

(* The item an operation is half-way through.                              *)
HalfWay(t, i) == pc[t] \in {"store", "erase"} /\ req[t].id = i

(* Except for an item an operation is half-way through, every payload has  *)
(* its live label and every live label its payload or a failed add; the    *)
(* half-way item has the label the operation gave it.                      *)
Agreed(i) == (i \in Held => i \in Live) /\ (i \in Live \ Held => i \in torn)

Agreement ==
  /\ \A i \in Ids : Agreed(i) \/ \E t \in Threads : HalfWay(t, i)
  /\ \A t \in Threads : pc[t] = "store" => req[t].id \in Live
  /\ \A t \in Threads : pc[t] = "erase" => slot[req[t].id] = "deleted"

(* Without an index nothing is stored; the index is built after _space.    *)
Empty ==
  /\ ~hasIndex => \A i \in Ids : dataStore[i] = NoData /\ slot[i] = "none"
  /\ hasIndex => hasSpace

IInv ==
  /\ TypeOK
  /\ MutualExclusion
  /\ Requested
  /\ NotEmpty
  /\ Dimension
  /\ Agreement
  /\ UniformDimension
  /\ SlotAccounting
  /\ Empty

USE DEF Ids, Critical

(* The fields of the requests and of the answers.                          *)
LEMMA RequestFields ==
  ASSUME NEW r \in Requests
  PROVE  /\ r.op = "add" => /\ r.auto \in BOOLEAN /\ r.id \in Ids
                            /\ r.data \in Data /\ r.vec \in Vectors
         /\ r.op \in {"rem", "get", "data"} => r.id \in Ids
         /\ r.op = "knn" => r.k \in Ks
BY DEF Requests

LEMMA NewRequests ==
  /\ NoRequest \in Requests
  /\ \A i \in Ids, d \in Data, v \in Vectors, a \in BOOLEAN :
       [op |-> "add", auto |-> a, id |-> i, data |-> d, vec |-> v] \in Requests
  /\ \A i \in Ids, o \in {"rem", "get", "data"} : [op |-> o, id |-> i] \in Requests
  /\ \A k \in Ks : [op |-> "knn", k |-> k] \in Requests
BY DEF Requests, NoRequest

LEMMA Renamed ==
  ASSUME NEW r \in Requests, r.op = "add", NEW i \in Ids
  PROVE  /\ [r EXCEPT !.id = i] \in Requests
         /\ [r EXCEPT !.id = i].op = "add"
         /\ [r EXCEPT !.id = i].vec = r.vec
         /\ [r EXCEPT !.id = i].id = i
         /\ [r EXCEPT !.id = i].auto = r.auto
BY DEF Requests

LEMMA Answers ==
  /\ NoAnswer \in Responses
  /\ \A k \in {"missing", "exception"} : [kind |-> k] \in Responses
  /\ \A w \in {"empty", "dimension", "full", "index"} : Error(w) \in Responses
  /\ \A i \in Ids : [kind |-> "added", id |-> i] \in Responses
  /\ \A b \in BOOLEAN : [kind |-> "removed", found |-> b] \in Responses
  /\ \A v \in Vectors : [kind |-> "vector", vec |-> v] \in Responses
  /\ \A d \in Data : [kind |-> "data", data |-> d] \in Responses
  /\ \A f \in SUBSET Ids : [kind |-> "knn", found |-> f] \in Responses
BY DEF Responses, NoAnswer, Error

(* The initial states satisfy the invariant.                               *)
LEMMA InitIInv == Init => IInv
<1> SUFFICES ASSUME Init PROVE IInv
  OBVIOUS
<1> USE DEF Init
<1>1. TypeOK
  <2>1. NoRequest \in Requests /\ NoAnswer \in Responses
    BY NewRequests, Answers
  <2>2. /\ mtx \in Threads \union {NoThread}
        /\ dim \in Nat /\ count \in Nat /\ idIdx \in 0 .. MaxId
        /\ dataStore \in [Ids -> Data \union {NoData}]
        /\ slot \in [Ids -> {"none", "live", "deleted"}]
        /\ vector \in [Ids -> Vectors \union {NoVector}]
    BY BoundAssumption
  <2>3. hasIndex \in BOOLEAN /\ hasSpace \in BOOLEAN /\ crashed \in BOOLEAN
    OBVIOUS
  <2>4. pc \in [Threads -> Steps]
    BY DEF Steps
  <2>5. req \in [Threads -> Requests] /\ res \in [Threads -> Responses]
    BY <2>1
  <2> QED
    BY <2>2, <2>3, <2>4, <2>5 DEF TypeOK
<1>2. MutualExclusion /\ Requested /\ NotEmpty /\ Dimension
  BY NoneAssumption DEF MutualExclusion, Requested, NotEmpty, Dimension, NoRequest
<1>3. Agreement /\ UniformDimension /\ Empty
  BY NoneAssumption
  DEF Agreement, Agreed, UniformDimension, Empty, Held, Live, Labels, HalfWay
<1>4. SlotAccounting
  <2>1. Labels = {}
    BY DEF Labels
  <2> QED
    BY <2>1, FS_EmptySet, BoundAssumption DEF SlotAccounting
<1> QED
  BY <1>1, <1>2, <1>3, <1>4 DEF IInv

(* Registering a label keeps the types of the index.                       *)
LEMMA RegisterTypes ==
  ASSUME TypeOK, NEW i \in Ids, NEW v \in Vectors, Register(i, v)
  PROVE  /\ slot' \in [Ids -> {"none", "live", "deleted"}]
         /\ vector' \in [Ids -> Vectors \union {NoVector}]
         /\ count' \in Nat
BY DEF TypeOK, Register

LEMMA TypeStep ==
  ASSUME IInv, NEW t \in Threads, Step(t)
  PROVE  TypeOK'
<1> USE DEF IInv, TypeOK, Steps, Goto, Answer, storeVars
<1>1. CASE CallAdd(t)
  <2>1. PICK r \in Requests : req' = [req EXCEPT ![t] = r]
    BY <1>1, NewRequests DEF CallAdd
  <2> QED
    BY <1>1, <2>1 DEF CallAdd
<1>2. CASE CallAutoAdd(t)
  <2>1. PICK r \in Requests : req' = [req EXCEPT ![t] = r]
    <3>1. 0 \in Ids
      BY BoundAssumption
    <3> QED
      BY <1>2, <3>1, NewRequests DEF CallAutoAdd
  <2> QED
    BY <1>2, <2>1 DEF CallAutoAdd
<1>3. CASE CallOther(t)
  BY <1>3, NewRequests DEF CallOther
<1>4. CASE AutoGenId(t)
  <2>1. idIdx + 1 \in Ids
    BY <1>4, BoundAssumption DEF AutoGenId
  <2>2. [req[t] EXCEPT !.id = idIdx + 1] \in Requests
    BY <1>4, <2>1, Renamed DEF AutoGenId, Requested
  <2>3. req' = [req EXCEPT ![t] = [req[t] EXCEPT !.id = idIdx + 1]]
    BY <1>4 DEF AutoGenId
  <2> QED
    BY <1>4, <2>1, <2>2, <2>3 DEF AutoGenId
<1>5. CASE EnterAdd(t)
  BY <1>5, Answers DEF EnterAdd
<1>6. CASE Lock(t)
  BY <1>6 DEF Lock
<1>7. CASE Return(t)
  BY <1>7, Answers, NewRequests DEF Return, Leave
<1>8. CASE SetDim(t)
  BY <1>8, RequestFields, SizeAssumption DEF SetDim
<1>9. CASE LazilyInit(t)
  BY <1>9, Answers DEF LazilyInit
<1>10. CASE WrongDim(t)
  BY <1>10, Answers DEF WrongDim
<1>11. CASE AddPoint(t)
  <2>1. req[t].id \in Ids /\ req[t].vec \in Vectors
    BY <1>11, RequestFields DEF AddPoint, Requested
  <2>2. /\ slot' \in [Ids -> {"none", "live", "deleted"}]
        /\ vector' \in [Ids -> Vectors \union {NoVector}]
        /\ count' \in Nat
    BY <1>11, <2>1, RegisterTypes DEF AddPoint
  <2>3. torn' \subseteq Ids
    BY <1>11 DEF AddPoint
  <2> QED
    BY <1>11, <2>2, <2>3 DEF AddPoint
<1>12. CASE IndexFull(t)
  BY <1>12, Answers DEF IndexFull
<1>13. CASE NullIndex(t)
  BY <1>13 DEF NullIndex
<1>14. CASE StoreData(t)
  <2>1. req[t].id \in Ids /\ req[t].data \in Data
    BY <1>14, RequestFields DEF StoreData, Requested
  <2> QED
    BY <1>14, <2>1, Answers DEF StoreData
<1>15. CASE RemMissing(t)
  BY <1>15, Answers DEF RemMissing
<1>16. CASE MarkDelete(t)
  BY <1>16, RequestFields, Answers DEF MarkDelete
<1>17. CASE EraseData(t)
  BY <1>17, Answers DEF EraseData
<1>18. CASE Get(t)
  <2>1. req[t].id \in Live => vector[req[t].id] \in Vectors
    BY DEF UniformDimension, Live, Labels
  <2> QED
    BY <1>18, <2>1, Answers DEF Get
<1>19. CASE ReadData(t)
  <2>1. req[t].id \in Held => dataStore[req[t].id] \in Data
    BY DEF Held
  <2> QED
    BY <1>19, <2>1, Answers DEF ReadData
<1>20. CASE Knn(t)
  <2>1. PICK found \in SUBSET Ids :
          Answer(t, [kind |-> "knn", found |-> found], "unlock")
    BY <1>20 DEF Knn, SearchKnn, Live
  <2> QED
    BY <1>20, <2>1, Answers DEF Knn
<1>21. CASE Unlock(t)
  BY <1>21, Answers, NewRequests DEF Unlock, Leave
<1>22. CASE AddPointFails(t)
  <2>1. req[t].id \in Ids /\ req[t].vec \in Vectors
    BY <1>22, RequestFields DEF AddPointFails, Requested
  <2>2. /\ slot' \in [Ids -> {"none", "live", "deleted"}]
        /\ vector' \in [Ids -> Vectors \union {NoVector}]
        /\ count' \in Nat
    BY <1>22, <2>1, RegisterTypes DEF AddPointFails
  <2>3. torn' \subseteq Ids
    BY <1>22, <2>1 DEF AddPointFails
  <2> QED
    BY <1>22, <2>2, <2>3, Answers DEF AddPointFails
<1>23. CASE TornIndex(t)
  BY <1>23 DEF TornIndex
<1> QED
  BY <1>1, <1>2, <1>3, <1>4, <1>5, <1>6, <1>7, <1>8, <1>9, <1>10, <1>11, <1>12,
     <1>13, <1>14, <1>15, <1>16, <1>17, <1>18, <1>19, <1>20, <1>21, <1>22, <1>23
  DEF Step, Call, Locked

(* The lock is taken by one thread at a time and given back by its holder. *)
LEMMA MutexStep ==
  ASSUME IInv, NEW t \in Threads, Step(t)
  PROVE  MutualExclusion'
<1> USE DEF IInv, TypeOK, MutualExclusion, Steps, Critical, Goto, Answer, storeVars, Leave
<1>1. CASE CallAdd(t)
  BY <1>1, NoneAssumption DEF CallAdd
<1>2. CASE CallAutoAdd(t)
  BY <1>2, NoneAssumption DEF CallAutoAdd
<1>3. CASE CallOther(t)
  BY <1>3, NoneAssumption DEF CallOther
<1>4. CASE AutoGenId(t)
  BY <1>4, NoneAssumption DEF AutoGenId
<1>5. CASE EnterAdd(t)
  BY <1>5, NoneAssumption DEF EnterAdd
<1>6. CASE Lock(t)
  BY <1>6, NoneAssumption DEF Lock
<1>7. CASE Return(t)
  BY <1>7, NoneAssumption DEF Return
<1>8. CASE SetDim(t)
  BY <1>8, NoneAssumption DEF SetDim
<1>9. CASE LazilyInit(t)
  BY <1>9, NoneAssumption DEF LazilyInit
<1>10. CASE WrongDim(t)
  BY <1>10, NoneAssumption DEF WrongDim
<1>11. CASE AddPoint(t)
  BY <1>11, NoneAssumption DEF AddPoint, Register
<1>12. CASE IndexFull(t)
  BY <1>12, NoneAssumption DEF IndexFull
<1>13. CASE NullIndex(t)
  BY <1>13, NoneAssumption DEF NullIndex
<1>14. CASE StoreData(t)
  BY <1>14, NoneAssumption DEF StoreData
<1>15. CASE RemMissing(t)
  BY <1>15, NoneAssumption DEF RemMissing
<1>16. CASE MarkDelete(t)
  BY <1>16, NoneAssumption DEF MarkDelete
<1>17. CASE EraseData(t)
  BY <1>17, NoneAssumption DEF EraseData
<1>18. CASE Get(t)
  BY <1>18, NoneAssumption DEF Get
<1>19. CASE ReadData(t)
  BY <1>19, NoneAssumption DEF ReadData
<1>20. CASE Knn(t)
  BY <1>20, NoneAssumption DEF Knn
<1>21. CASE Unlock(t)
  BY <1>21, NoneAssumption DEF Unlock
<1>22. CASE AddPointFails(t)
  BY <1>22, NoneAssumption DEF AddPointFails, Register
<1>23. CASE TornIndex(t)
  BY <1>23, NoneAssumption DEF TornIndex
<1> QED
  BY <1>1, <1>2, <1>3, <1>4, <1>5, <1>6, <1>7, <1>8, <1>9, <1>10, <1>11,
     <1>12, <1>13, <1>14, <1>15, <1>16, <1>17, <1>18, <1>19, <1>20,
     <1>21, <1>22, <1>23
  DEF Step, Call, Locked

(* What an operation has established for its next step. *)
LEMMA ShapeStep ==
  ASSUME IInv, NEW t \in Threads, Step(t)
  PROVE  Requested' /\ NotEmpty' /\ Dimension'
<1> USE DEF IInv, TypeOK, MutualExclusion, Requested, NotEmpty, Dimension, Steps, Goto, Answer, storeVars, Leave
<1>1. CASE CallAdd(t)
  BY <1>1, RequestFields, SizeAssumption, Renamed DEF CallAdd
<1>2. CASE CallAutoAdd(t)
  BY <1>2, RequestFields, SizeAssumption, Renamed DEF CallAutoAdd
<1>3. CASE CallOther(t)
  BY <1>3, RequestFields, SizeAssumption, Renamed DEF CallOther
<1>4. CASE AutoGenId(t)
  BY <1>4, RequestFields, SizeAssumption, Renamed DEF AutoGenId
<1>5. CASE EnterAdd(t)
  BY <1>5, RequestFields, SizeAssumption, Renamed DEF EnterAdd
<1>6. CASE Lock(t)
  BY <1>6, RequestFields, SizeAssumption, Renamed DEF Lock
<1>7. CASE Return(t)
  BY <1>7, RequestFields, SizeAssumption, Renamed DEF Return
<1>8. CASE SetDim(t)
  BY <1>8, RequestFields, SizeAssumption, Renamed DEF SetDim
<1>9. CASE LazilyInit(t)
  BY <1>9, RequestFields, SizeAssumption, Renamed DEF LazilyInit
<1>10. CASE WrongDim(t)
  BY <1>10, RequestFields, SizeAssumption, Renamed DEF WrongDim
<1>11. CASE AddPoint(t)
  BY <1>11, RequestFields, SizeAssumption, Renamed DEF AddPoint, Register
<1>12. CASE IndexFull(t)
  BY <1>12, RequestFields, SizeAssumption, Renamed DEF IndexFull
<1>13. CASE NullIndex(t)
  BY <1>13, RequestFields, SizeAssumption, Renamed DEF NullIndex
<1>14. CASE StoreData(t)
  BY <1>14, RequestFields, SizeAssumption, Renamed DEF StoreData
<1>15. CASE RemMissing(t)
  BY <1>15, RequestFields, SizeAssumption, Renamed DEF RemMissing
<1>16. CASE MarkDelete(t)
  BY <1>16, RequestFields, SizeAssumption, Renamed DEF MarkDelete
<1>17. CASE EraseData(t)
  BY <1>17, RequestFields, SizeAssumption, Renamed DEF EraseData
<1>18. CASE Get(t)
  BY <1>18, RequestFields, SizeAssumption, Renamed DEF Get
<1>19. CASE ReadData(t)
  BY <1>19, RequestFields, SizeAssumption, Renamed DEF ReadData
<1>20. CASE Knn(t)
  BY <1>20, RequestFields, SizeAssumption, Renamed DEF Knn
<1>21. CASE Unlock(t)
  BY <1>21, RequestFields, SizeAssumption, Renamed DEF Unlock
<1>22. CASE AddPointFails(t)
  BY <1>22, RequestFields, SizeAssumption, Renamed DEF AddPointFails, Register
<1>23. CASE TornIndex(t)
  BY <1>23, RequestFields, SizeAssumption, Renamed DEF TornIndex
<1> QED
  BY <1>1, <1>2, <1>3, <1>4, <1>5, <1>6, <1>7, <1>8, <1>9, <1>10, <1>11,
     <1>12, <1>13, <1>14, <1>15, <1>16, <1>17, <1>18, <1>19, <1>20,
     <1>21, <1>22, <1>23
  DEF Step, Call, Locked


(* Payloads and live labels agree except for the item half-way. *)
LEMMA AgreementStep ==
  ASSUME IInv, NEW t \in Threads, Step(t)
  PROVE  Agreement'
<1> USE DEF IInv, TypeOK, MutualExclusion, Requested, Agreement, Agreed, HalfWay, Held, Live, Steps, Critical, Goto, Answer, storeVars, Leave
<1>1. CASE CallAdd(t)
  BY <1>1, NoneAssumption, RequestFields DEF CallAdd
<1>2. CASE CallAutoAdd(t)
  BY <1>2, NoneAssumption, RequestFields DEF CallAutoAdd
<1>3. CASE CallOther(t)
  BY <1>3, NoneAssumption, RequestFields DEF CallOther
<1>4. CASE AutoGenId(t)
  BY <1>4, NoneAssumption, RequestFields DEF AutoGenId
<1>5. CASE EnterAdd(t)
  BY <1>5, NoneAssumption, RequestFields DEF EnterAdd
<1>6. CASE Lock(t)
  BY <1>6, NoneAssumption, RequestFields DEF Lock
<1>7. CASE Return(t)
  BY <1>7, NoneAssumption, RequestFields DEF Return
<1>8. CASE SetDim(t)
  BY <1>8, NoneAssumption, RequestFields DEF SetDim
<1>9. CASE LazilyInit(t)
  BY <1>9, NoneAssumption, RequestFields DEF LazilyInit
<1>10. CASE WrongDim(t)
  BY <1>10, NoneAssumption, RequestFields DEF WrongDim
<1>11. CASE AddPoint(t)
  BY <1>11, NoneAssumption, RequestFields DEF AddPoint, Register
<1>12. CASE IndexFull(t)
  BY <1>12, NoneAssumption, RequestFields DEF IndexFull
<1>13. CASE NullIndex(t)
  BY <1>13, NoneAssumption, RequestFields DEF NullIndex
<1>14. CASE StoreData(t)
  BY <1>14, NoneAssumption, RequestFields DEF StoreData
<1>15. CASE RemMissing(t)
  BY <1>15, NoneAssumption, RequestFields DEF RemMissing
<1>16. CASE MarkDelete(t)
  <2>1. req[t].id \in Ids /\ mtx = t /\ UNCHANGED <<req, dataStore>>
    BY <1>16, RequestFields DEF MarkDelete
  <2>2. CASE req[t].id \in Live
    <3>1. slot' = [slot EXCEPT ![req[t].id] = "deleted"] /\ pc' = [pc EXCEPT ![t] = "erase"]
      BY <1>16, <2>2 DEF MarkDelete
    <3>2. HalfWay(t, req[t].id)'
      BY <2>1, <3>1
    <3>3. \A u \in Threads : u # t => pc[u] \notin Critical /\ pc'[u] = pc[u]
      BY <2>1, <3>1
    <3>4. \A i \in Ids : Agreed(i)' \/ \E u \in Threads : HalfWay(u, i)'
      <4> TAKE i \in Ids
      <4>1. CASE i = req[t].id
        BY <4>1, <3>2, <2>1
      <4>2. CASE i # req[t].id
        BY <4>2, <2>1, <3>1, <3>3, <1>16 DEF MarkDelete
      <4> QED
        BY <4>1, <4>2
    <3> QED
      BY <2>1, <3>1, <3>3, <3>4
  <2>3. CASE req[t].id \notin Live
    BY <1>16, <2>1, <2>3 DEF MarkDelete
  <2> QED
    BY <2>2, <2>3
<1>17. CASE EraseData(t)
  BY <1>17, NoneAssumption, RequestFields DEF EraseData
<1>18. CASE Get(t)
  BY <1>18, NoneAssumption, RequestFields DEF Get
<1>19. CASE ReadData(t)
  BY <1>19, NoneAssumption, RequestFields DEF ReadData
<1>20. CASE Knn(t)
  BY <1>20, NoneAssumption, RequestFields DEF Knn
<1>21. CASE Unlock(t)
  BY <1>21, NoneAssumption, RequestFields DEF Unlock
<1>22. CASE AddPointFails(t)
  BY <1>22, NoneAssumption, RequestFields DEF AddPointFails, Register
<1>23. CASE TornIndex(t)
  BY <1>23, NoneAssumption, RequestFields DEF TornIndex
<1> QED
  BY <1>1, <1>2, <1>3, <1>4, <1>5, <1>6, <1>7, <1>8, <1>9, <1>10, <1>11,
     <1>12, <1>13, <1>14, <1>15, <1>16, <1>17, <1>18, <1>19, <1>20,
     <1>21, <1>22, <1>23
  DEF Step, Call, Locked

(* The vectors of the index have one dimension; without index no items. *)
LEMMA VectorStep ==
  ASSUME IInv, NEW t \in Threads, Step(t)
  PROVE  UniformDimension' /\ Empty'
<1> USE DEF IInv, TypeOK, Requested, NotEmpty, Dimension, UniformDimension, Empty, Labels, Held, Live, Steps, Goto, Answer, storeVars, Leave
<1>1. CASE CallAdd(t)
  BY <1>1, RequestFields, SizeAssumption, NoneAssumption DEF CallAdd
<1>2. CASE CallAutoAdd(t)
  BY <1>2, RequestFields, SizeAssumption, NoneAssumption DEF CallAutoAdd
<1>3. CASE CallOther(t)
  BY <1>3, RequestFields, SizeAssumption, NoneAssumption DEF CallOther
<1>4. CASE AutoGenId(t)
  BY <1>4, RequestFields, SizeAssumption, NoneAssumption DEF AutoGenId
<1>5. CASE EnterAdd(t)
  BY <1>5, RequestFields, SizeAssumption, NoneAssumption DEF EnterAdd
<1>6. CASE Lock(t)
  BY <1>6, RequestFields, SizeAssumption, NoneAssumption DEF Lock
<1>7. CASE Return(t)
  BY <1>7, RequestFields, SizeAssumption, NoneAssumption DEF Return
<1>8. CASE SetDim(t)
  BY <1>8, RequestFields, SizeAssumption, NoneAssumption DEF SetDim
<1>9. CASE LazilyInit(t)
  BY <1>9, RequestFields, SizeAssumption, NoneAssumption DEF LazilyInit
<1>10. CASE WrongDim(t)
  BY <1>10, RequestFields, SizeAssumption, NoneAssumption DEF WrongDim
<1>11. CASE AddPoint(t)
  BY <1>11, RequestFields, SizeAssumption, NoneAssumption DEF AddPoint, Register
<1>12. CASE IndexFull(t)
  BY <1>12, RequestFields, SizeAssumption, NoneAssumption DEF IndexFull
<1>13. CASE NullIndex(t)
  BY <1>13, RequestFields, SizeAssumption, NoneAssumption DEF NullIndex
<1>14. CASE StoreData(t)
  BY <1>14, RequestFields, SizeAssumption, NoneAssumption DEF StoreData
<1>15. CASE RemMissing(t)
  BY <1>15, RequestFields, SizeAssumption, NoneAssumption DEF RemMissing
<1>16. CASE MarkDelete(t)
  BY <1>16, RequestFields, SizeAssumption, NoneAssumption DEF MarkDelete
<1>17. CASE EraseData(t)
  BY <1>17, RequestFields, SizeAssumption, NoneAssumption DEF EraseData
<1>18. CASE Get(t)
  BY <1>18, RequestFields, SizeAssumption, NoneAssumption DEF Get
<1>19. CASE ReadData(t)
  BY <1>19, RequestFields, SizeAssumption, NoneAssumption DEF ReadData
<1>20. CASE Knn(t)
  BY <1>20, RequestFields, SizeAssumption, NoneAssumption DEF Knn
<1>21. CASE Unlock(t)
  BY <1>21, RequestFields, SizeAssumption, NoneAssumption DEF Unlock
<1>22. CASE AddPointFails(t)
  BY <1>22, RequestFields, SizeAssumption, NoneAssumption DEF AddPointFails, Register
<1>23. CASE TornIndex(t)
  BY <1>23, RequestFields, SizeAssumption, NoneAssumption DEF TornIndex
<1> QED
  BY <1>1, <1>2, <1>3, <1>4, <1>5, <1>6, <1>7, <1>8, <1>9, <1>10, <1>11,
     <1>12, <1>13, <1>14, <1>15, <1>16, <1>17, <1>18, <1>19, <1>20,
     <1>21, <1>22, <1>23
  DEF Step, Call, Locked

LEMMA LabelsFinite == IsFiniteSet(Labels) /\ Cardinality(Labels) \in Nat
<1>1. IsFiniteSet(Ids)
  BY BoundAssumption, FS_Interval
<1>2. Labels \subseteq Ids
  BY DEF Labels
<1> QED
  BY <1>1, <1>2, FS_Subset, FS_CardinalityType

(* Only addPoint gives out a slot, and then it counts it.                  *)
LEMMA SlotStep ==
  ASSUME IInv, NEW t \in Threads, Step(t)
  PROVE  SlotAccounting'
<1> USE DEF IInv, SlotAccounting
<1>1. CASE AddPoint(t) \/ AddPointFails(t)
  <2> DEFINE i == req[t].id
  <2>0. pc[t] = "point" /\ HasRoom(i) /\ Register(i, req[t].vec)
    BY <1>1 DEF AddPoint, AddPointFails
  <2>1. i \in Ids
    BY <2>0, RequestFields DEF Requested, TypeOK
  <2>2. Labels' = Labels \union {i}
    BY <2>0, <2>1 DEF Register, Labels, TypeOK
  <2>3. CASE slot[i] = "none"
    <3>1. i \notin Labels /\ count < MaxElements /\ count' = count + 1
      BY <2>0, <2>3 DEF Register, HasRoom, Labels
    <3>2. Cardinality(Labels') = Cardinality(Labels) + 1
      BY <2>2, <3>1, LabelsFinite, FS_AddElement
    <3> QED
      BY <3>1, <3>2, BoundAssumption DEF TypeOK
  <2>4. CASE slot[i] # "none"
    <3>1. Labels' = Labels /\ count' = count
      BY <2>0, <2>1, <2>2, <2>4 DEF Register, Labels
    <3> QED
      BY <3>1
  <2> QED
    BY <2>3, <2>4
<1>2. CASE MarkDelete(t)
  <2>1. Labels' = Labels /\ count' = count
    BY <1>2 DEF MarkDelete, Labels, Live, TypeOK
  <2> QED
    BY <2>1
<1>3. ASSUME ~ AddPoint(t), ~ AddPointFails(t), ~ MarkDelete(t)
      PROVE  UNCHANGED <<slot, count>>
  BY <1>3 DEF Step, Call, Locked, storeVars, CallAdd, CallAutoAdd, CallOther,
     AutoGenId, EnterAdd, Lock, Return, SetDim, LazilyInit, WrongDim, IndexFull,
     NullIndex, TornIndex, StoreData, RemMissing, EraseData, Get, ReadData, Knn, Unlock
<1>4. CASE UNCHANGED <<slot, count>>
  <2>1. Labels' = Labels
    BY <1>4 DEF Labels
  <2> QED
    BY <1>4, <2>1
<1> QED
  BY <1>1, <1>2, <1>3, <1>4

LEMMA Stutter == IInv /\ UNCHANGED vars => IInv'
BY DEF IInv, vars, TypeOK, MutualExclusion, Requested, NotEmpty, Dimension,
   Agreement, Agreed, UniformDimension, SlotAccounting, Empty, HalfWay, Held, Live, Labels

(* The invariant holds in every reachable state.                           *)
THEOREM Invariant == Spec => []IInv
<1>1. IInv /\ [Next]_vars => IInv'
  <2> SUFFICES ASSUME IInv, [Next]_vars PROVE IInv'
    OBVIOUS
  <2>1. ASSUME NEW t \in Threads, Step(t) PROVE IInv'
    BY <2>1, TypeStep, MutexStep, ShapeStep, AgreementStep, VectorStep, SlotStep
    DEF IInv
  <2> QED
    BY <2>1, Stutter DEF Next, Dead
<1> QED
  BY InitIInv, <1>1, PTL DEF Spec

(* Types: every variable keeps its type, and every answer is one the       *)
(* operation can give.                                                     *)
THEOREM TypeCorrect == Spec => []TypeOK
<1>1. IInv => TypeOK
  BY DEF IInv
<1> QED
  BY Invariant, <1>1, PTL

(* Whenever the lock is free every payload has its live label, and every   *)
(* live label its payload or a failed addPoint, whatever errors the        *)
(* operations met.                                                         *)
THEOREM IndexAgreement == Spec => []IndexAgrees
<1>1. IInv => IndexAgrees
  BY NoneAssumption
  DEF IInv, TypeOK, MutualExclusion, Agreement, Agreed, HalfWay, IndexAgrees, Held, Live
<1> QED
  BY Invariant, <1>1, PTL

(* Every vector in the index has the dimension of the store, and a store   *)
(* without an index is empty.                                              *)
THEOREM DimensionUniform == Spec => [](UniformDimension /\ NothingWithoutIndex)
<1>1. IInv => UniformDimension /\ NothingWithoutIndex
  BY DEF IInv, Empty, NothingWithoutIndex, Held, Labels
<1> QED
  BY Invariant, <1>1, PTL

(* Slots are counted and never more than the index has.                    *)
THEOREM SlotsCounted == Spec => []SlotAccounting
<1>1. IInv => SlotAccounting
  BY DEF IInv
<1> QED
  BY Invariant, <1>1, PTL

(* The mutex is held by exactly the caller between lock and unlock.        *)
THEOREM LockGivenBack == Spec => []MutualExclusion
<1>1. IInv => MutualExclusion
  BY DEF IInv
<1> QED
  BY Invariant, <1>1, PTL
==============================================================================
