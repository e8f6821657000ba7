------------------------ MODULE VectorStoreRefinement ------------------------
(***************************************************************************)
(* VectorStore implements VectorMap: for any number of concurrent callers  *)
(* every call takes effect at one instant of a single map, also when the   *)
(* index cannot be built or fails half-way through an add (until a missing *)
(* index or link list ends the process).                                   *)
(***************************************************************************)
EXTENDS VectorStoreProofs

USE DEF Ids, Critical

(* Both modules count with the same operator.                              *)
LEMMA SameCardinality == \A S : Map!Cardinality(S) = Cardinality(S)
BY DEF Map!Cardinality, Cardinality

(* The callers find exactly the live labels.                               *)
LEMMA SeenFound ==
  ASSUME IInv
  PROVE  Map!Found = Live
<1>1. \A i \in Live : vector[i] \in Vectors
  BY DEF IInv, UniformDimension, Live, Labels
<1> QED
  BY <1>1, NoneAssumption DEF Map!Found, SeenVec, Live

LEMMA RefineInit == Init => Map!Init
<1> SUFFICES ASSUME Init PROVE Map!Init
  OBVIOUS
<1>1. SeenData = [i \in Ids |-> NoData] /\ SeenVec = [i \in Ids |-> NoVector]
  BY DEF Init, SeenData, SeenVec, Live
<1>2. Labels = {} /\ dim = 0 /\ 1 .. idIdx = {}
  BY DEF Init, Labels
<1>3. /\ Phase = [t \in Threads |-> "idle"]
      /\ req = [t \in Threads |-> [op |-> "none"]]
      /\ SeenAnswer = [t \in Threads |-> [kind |-> "none"]]
  BY DEF Init, Phase, SeenAnswer, PhaseOf, AnswerOf, NoRequest, NoAnswer
<1> QED
  BY <1>1, <1>2, <1>3 DEF Map!Init

(* A step moves one thread, and the lock only to or from that thread.      *)
LEMMA Frame ==
  ASSUME IInv, NEW t \in Threads, Step(t)
  PROVE  /\ \E step \in Steps : pc' = [pc EXCEPT ![t] = step]
         /\ \E r \in Requests : req' = [req EXCEPT ![t] = r]
         /\ \E a \in Responses : res' = [res EXCEPT ![t] = a]
         /\ \/ mtx' = mtx
            \/ mtx = NoThread /\ mtx' = t
            \/ mtx = t /\ mtx' = NoThread
<1>1. TypeOK /\ TypeOK'
  BY TypeStep DEF IInv
<1>2. \A u \in Threads \ {t} : pc'[u] = pc[u] /\ req'[u] = req[u] /\ res'[u] = res[u]
  BY <1>1 DEF TypeOK, Step, Call, Locked, storeVars, CallAdd, CallAutoAdd, CallOther,
     AutoGenId, EnterAdd, Lock, Return, SetDim, LazilyInit, WrongDim, AddPoint, AddPointFails, IndexFull,
     NullIndex, TornIndex, StoreData, RemMissing, MarkDelete, EraseData, Get, ReadData, Knn, Unlock,
     Goto, Answer, Leave
<1>3. /\ pc' = [pc EXCEPT ![t] = pc'[t]]
      /\ req' = [req EXCEPT ![t] = req'[t]]
      /\ res' = [res EXCEPT ![t] = res'[t]]
  BY <1>1, <1>2 DEF TypeOK
<1>4. \/ mtx' = mtx
      \/ mtx = NoThread /\ mtx' = t
      \/ mtx = t /\ mtx' = NoThread
  BY DEF IInv, MutualExclusion,
     Step, Call, Locked, storeVars, CallAdd, CallAutoAdd, CallOther,
     AutoGenId, EnterAdd, Lock, Return, SetDim, LazilyInit, WrongDim, AddPoint, AddPointFails, IndexFull,
     NullIndex, TornIndex, StoreData, RemMissing, MarkDelete, EraseData, Get, ReadData, Knn, Unlock
<1> QED
  BY <1>1, <1>3, <1>4 DEF TypeOK

(* What a step changes of the phases and answers the abstract map shows.   *)
LEMMA FrameMap ==
  ASSUME IInv, NEW t \in Threads, Step(t)
  PROVE  /\ Phase' = [Phase EXCEPT ![t] = PhaseOf(pc'[t])]
         /\ SeenAnswer' = [SeenAnswer EXCEPT ![t] = AnswerOf(pc'[t], req'[t], res'[t])]
<1>1. TypeOK
  BY DEF IInv
<1>2. \A u \in Threads \ {t} : pc'[u] = pc[u] /\ req'[u] = req[u] /\ res'[u] = res[u]
  BY <1>1, Frame DEF TypeOK
<1> QED
  BY <1>2 DEF Phase, SeenAnswer

(* A step that writes neither index nor payloads, and is not half-way,     *)
(* shows the callers the same items.                                       *)
LEMMA SameItems ==
  ASSUME IInv, NEW t \in Threads, Step(t), pc[t] \notin {"store", "erase"},
         pc'[t] \notin {"store", "erase"}, UNCHANGED <<dataStore, slot, vector>>
  PROVE  SeenData' = SeenData /\ SeenVec' = SeenVec /\ Labels' = Labels
<1>1. CASE mtx # NoThread /\ pc[mtx] \in {"store", "erase"}
  <2>1. mtx \in Threads \ {t} /\ mtx' = mtx
    BY <1>1, Frame DEF IInv, TypeOK
  <2>2. pc'[mtx] = pc[mtx] /\ req'[mtx] = req[mtx]
    BY <2>1, Frame DEF IInv, TypeOK
  <2> QED
    BY <1>1, <2>1, <2>2 DEF SeenData, SeenVec, Live, Labels
<1>2. CASE ~(mtx # NoThread /\ pc[mtx] \in {"store", "erase"})
  <2>1. ~(mtx' # NoThread /\ pc'[mtx'] \in {"store", "erase"})
    BY <1>2, Frame, NoneAssumption DEF IInv, TypeOK
  <2>2. SeenData = dataStore /\ SeenData' = dataStore
    BY <1>2, <2>1 DEF SeenData
  <2> QED
    BY <2>2 DEF SeenVec, Live, Labels
<1> QED
  BY <1>1, <1>2

(* The phase and the answer of the moving thread, before and after.        *)
LEMMA Moving ==
  ASSUME IInv, NEW t \in Threads, Step(t)
  PROVE  /\ Phase[t] = PhaseOf(pc[t])
         /\ SeenAnswer[t] = AnswerOf(pc[t], req[t], res[t])
         /\ pc'[t] = pc[t] => Phase' = Phase
         /\ PhaseOf(pc'[t]) = PhaseOf(pc[t]) => Phase' = Phase
         /\ AnswerOf(pc'[t], req'[t], res'[t]) = AnswerOf(pc[t], req[t], res[t])
               => SeenAnswer' = SeenAnswer
<1>1. /\ Phase[t] = PhaseOf(pc[t])
      /\ SeenAnswer[t] = AnswerOf(pc[t], req[t], res[t])
  BY DEF Phase, SeenAnswer
<1>2. /\ Phase = [Phase EXCEPT ![t] = Phase[t]]
      /\ SeenAnswer = [SeenAnswer EXCEPT ![t] = SeenAnswer[t]]
  BY DEF Phase, SeenAnswer
<1> QED
  BY <1>1, <1>2, FrameMap

(* The calls and the naming of an automatic add.                           *)
LEMMA RefineCall ==
  ASSUME IInv, NEW t \in Threads, Step(t), Call(t) \/ AutoGenId(t)
  PROVE  Map!Next
<1> USE DEF Goto, PhaseOf, AnswerOf, storeVars
<1>1. pc[t] \notin {"store", "erase"} /\ pc'[t] \notin {"store", "erase"}
      /\ UNCHANGED <<dataStore, slot, vector>>
  BY DEF Call, CallAdd, CallAutoAdd, CallOther, AutoGenId, IInv, TypeOK
<1>2. SeenData' = SeenData /\ SeenVec' = SeenVec /\ Labels' = Labels
  BY <1>1, SameItems
<1>3. CASE Call(t)
  <2>1. Phase[t] = "idle" /\ SeenAnswer' = SeenAnswer
    BY <1>3, Moving DEF Call, CallAdd, CallAutoAdd, CallOther, IInv, TypeOK
  <2>2. UNCHANGED <<SeenData, SeenVec, Labels, dim, 1 .. idIdx, SeenAnswer>>
    BY <1>2, <1>3, <2>1 DEF Call, CallAdd, CallAutoAdd, CallOther
  <2>3. CASE CallAdd(t)
    <3>1. Phase' = [Phase EXCEPT ![t] = "pending"]
      BY <2>3, FrameMap DEF CallAdd, IInv, TypeOK
    <3>2. \E i \in Ids, d \in Data, v \in Vectors, auto \in BOOLEAN :
            /\ req' = [req EXCEPT ![t] = [op |-> "add", auto |-> auto, id |-> i,
                                         data |-> d, vec |-> v]]
            /\ Phase' = [Phase EXCEPT ![t] = IF auto THEN "naming" ELSE "pending"]
      BY <2>3, <3>1 DEF CallAdd
    <3>3. Map!Invoke(t)
      BY <2>1, <2>2, <3>2 DEF Map!Invoke
    <3> QED
      BY <3>3 DEF Map!Next
  <2>4. CASE CallAutoAdd(t)
    <3>1. Phase' = [Phase EXCEPT ![t] = "naming"]
      BY <2>4, FrameMap DEF CallAutoAdd, IInv, TypeOK
    <3>2. 0 \in Ids
      BY BoundAssumption
    <3>3. \E i \in Ids, d \in Data, v \in Vectors, auto \in BOOLEAN :
            /\ req' = [req EXCEPT ![t] = [op |-> "add", auto |-> auto, id |-> i,
                                         data |-> d, vec |-> v]]
            /\ Phase' = [Phase EXCEPT ![t] = IF auto THEN "naming" ELSE "pending"]
      BY <2>4, <3>1, <3>2 DEF CallAutoAdd
    <3>4. Map!Invoke(t)
      BY <2>1, <2>2, <3>3 DEF Map!Invoke
    <3> QED
      BY <3>4 DEF Map!Next
  <2>5. CASE CallOther(t)
    <3>1. Phase' = [Phase EXCEPT ![t] = "pending"]
      BY <2>5, FrameMap DEF CallOther, IInv, TypeOK
    <3> QED
      BY <2>1, <2>2, <2>5, <3>1 DEF CallOther, Map!Next, Map!Invoke
  <2> QED
    BY <1>3, <2>3, <2>4, <2>5 DEF Call
<1>4. CASE AutoGenId(t)
  <2>1. Phase[t] = "naming" /\ Phase' = [Phase EXCEPT ![t] = "pending"]
    BY <1>4, Moving, FrameMap DEF AutoGenId, IInv, TypeOK
  <2>2. SeenAnswer' = SeenAnswer
    BY <1>4, Moving DEF AutoGenId, IInv, TypeOK
  <2>3. /\ idIdx + 1 \in Ids \ (1 .. idIdx)
        /\ 1 .. idIdx' = (1 .. idIdx) \union {idIdx + 1}
    BY <1>4, BoundAssumption DEF AutoGenId, IInv, TypeOK
  <2>4. req' = [req EXCEPT ![t].id = idIdx + 1] /\ dim' = dim
    BY <1>4 DEF AutoGenId
  <2>5. Map!Name(t)
    BY <1>2, <2>1, <2>2, <2>3, <2>4 DEF Map!Name
  <2> QED
    BY <2>5 DEF Map!Next
<1> QED
  BY <1>3, <1>4

(* The steps of add up to its effect: an empty embedding and an index that *)
(* cannot be built are answered, and the dimension is fixed.               *)
LEMMA RefineAddBegins ==
  ASSUME IInv, NEW t \in Threads, Step(t),
         \/ EnterAdd(t) \/ Lock(t) \/ SetDim(t) \/ LazilyInit(t)
         \/ NullIndex(t) \/ TornIndex(t)
  PROVE  Map!Next \/ UNCHANGED Map!vars
<1> USE DEF Goto, Answer, PhaseOf, AnswerOf, storeVars
<1>1. pc[t] \notin {"store", "erase"} /\ pc'[t] \notin {"store", "erase"}
      /\ UNCHANGED <<dataStore, slot, vector, idIdx, req>>
  BY DEF EnterAdd, Lock, SetDim, LazilyInit, NullIndex, TornIndex, IInv, TypeOK
<1>2. UNCHANGED <<SeenData, SeenVec, Labels, req, 1 .. idIdx>>
  BY <1>1, SameItems
<1>3. CASE EnterAdd(t) /\ Size[req[t].vec] = 0
  <2>1. /\ Phase[t] = "pending"
        /\ req[t].op = "add"
        /\ Phase' = [Phase EXCEPT ![t] = "answered"]
        /\ SeenAnswer' = [SeenAnswer EXCEPT ![t] = Error("empty")]
    BY <1>3, Moving, FrameMap DEF EnterAdd, IInv, TypeOK, Requested
  <2>2. dim' = dim
    BY <1>3 DEF EnterAdd
  <2>3. Map!Rejected(t)
    BY <1>2, <1>3, <2>1, <2>2 DEF Map!Rejected, Map!Answer, Error
  <2> QED
    BY <2>3 DEF Map!Next
<1>4. CASE SetDim(t) /\ dim = 0
  <2>1. Phase[t] = "pending" /\ Phase' = Phase /\ SeenAnswer' = SeenAnswer
    BY <1>4, Moving DEF SetDim, IInv, TypeOK
  <2>2. Size[req[t].vec] > 0 /\ dim' = Size[req[t].vec] /\ req[t].op = "add"
    BY <1>4 DEF SetDim, IInv, NotEmpty
  <2>3. Map!FixDim(t)
    BY <1>2, <1>4, <2>1, <2>2 DEF Map!FixDim
  <2> QED
    BY <2>3 DEF Map!Next
<1>5. CASE LazilyInit(t) /\ pc'[t] = "unlock"
  <2>1. pc[t] = "init" /\ req[t].op = "add" /\ dim # 0 /\ dim' = dim
    BY <1>5 DEF LazilyInit, IInv, TypeOK, Requested, Dimension
  <2>2. res'[t] = [kind |-> "exception"]
    BY <1>5 DEF LazilyInit, IInv, TypeOK
  <2>3. Phase[t] = "pending" /\ Phase' = [Phase EXCEPT ![t] = "answered"]
    BY <1>5, <2>1, Moving, FrameMap
  <2>4. SeenAnswer' = [SeenAnswer EXCEPT ![t] = [kind |-> "exception"]]
    BY <1>5, <2>2, FrameMap
  <2>5. Labels = {}
    BY <1>5 DEF LazilyInit, IInv, TypeOK, Empty, Labels
  <2>6. Map!OutOfMemory(t)
    BY <1>2, <2>1, <2>3, <2>4, <2>5 DEF Map!OutOfMemory, Map!Answer
  <2> QED
    BY <2>6 DEF Map!Next
<1>6. CASE /\ ~(EnterAdd(t) /\ Size[req[t].vec] = 0) /\ ~(SetDim(t) /\ dim = 0)
           /\ ~(LazilyInit(t) /\ pc'[t] = "unlock")
  <2>1. /\ PhaseOf(pc'[t]) = PhaseOf(pc[t])
        /\ AnswerOf(pc'[t], req'[t], res'[t]) = AnswerOf(pc[t], req[t], res[t])
        /\ dim' = dim
    BY <1>1, <1>6
    DEF EnterAdd, Lock, SetDim, LazilyInit, NullIndex, TornIndex, IInv, TypeOK
  <2>2. Phase' = Phase /\ SeenAnswer' = SeenAnswer
    BY <2>1, Moving
  <2> QED
    BY <1>2, <2>1, <2>2 DEF Map!vars
<1> QED
  BY <1>3, <1>4, <1>5, <1>6

(* To the thread that has just taken the lock, payloads and index agree.   *)
LEMMA AtBegin ==
  ASSUME IInv, NEW t \in Threads, pc[t] = "begin"
  PROVE  /\ mtx = t /\ SeenData = dataStore /\ Held \subseteq Live
         /\ Map!Held = Held /\ Map!Found = Live
         /\ \A i \in Live : SeenVec[i] = vector[i]
<1>1. mtx = t /\ \A u \in Threads : pc[u] \in Critical => u = t
  BY DEF IInv, MutualExclusion
<1>2. Held \subseteq Live
  BY <1>1 DEF IInv, Agreement, Agreed, HalfWay, Held
<1>3. SeenData = dataStore
  BY <1>1 DEF SeenData
<1> QED
  BY <1>1, <1>2, <1>3, SeenFound DEF Map!Held, Held, SeenVec, Live

(* The answers that leave the store as it is.                              *)
LEMMA RefineAnswers ==
  ASSUME IInv, NEW t \in Threads, Step(t),
         \/ WrongDim(t) \/ IndexFull(t) \/ RemMissing(t)
         \/ Get(t) \/ ReadData(t) \/ Knn(t)
  PROVE  Map!Next
<1> USE DEF Goto, Answer, PhaseOf, AnswerOf, storeVars
<1>1. /\ pc[t] \notin {"store", "erase"} /\ pc'[t] \notin {"store", "erase"}
      /\ UNCHANGED <<dim, dataStore, slot, vector, idIdx, req>>
  BY DEF WrongDim, IndexFull, RemMissing, Get, ReadData, Knn, IInv, TypeOK
<1>2. UNCHANGED <<SeenData, SeenVec, Labels, dim, req, 1 .. idIdx>>
  BY <1>1, SameItems
<1>3. /\ Phase[t] = "pending"
      /\ Phase' = [Phase EXCEPT ![t] = "answered"]
      /\ SeenAnswer' = [SeenAnswer EXCEPT ![t] = res'[t]]
  BY Moving, FrameMap DEF WrongDim, IndexFull, RemMissing, Get, ReadData, Knn, IInv, TypeOK
<1>4. CASE WrongDim(t)
  <2>1. /\ req[t].op = "add" /\ Size[req[t].vec] > 0 /\ dim # 0
        /\ dim # Size[req[t].vec] /\ res'[t] = Error("dimension")
    BY <1>4 DEF WrongDim, IInv, TypeOK, Requested, NotEmpty, Dimension
  <2>2. Map!Rejected(t)
    BY <1>2, <1>3, <2>1 DEF Map!Rejected, Map!Answer, Error
  <2> QED
    BY <2>2 DEF Map!Next
<1>5. CASE IndexFull(t)
  <2>1. /\ req[t].op = "add" /\ Size[req[t].vec] > 0 /\ dim = Size[req[t].vec]
        /\ res'[t] = Error("full") /\ req[t].id \in Ids
    BY <1>5, RequestFields DEF IndexFull, IInv, TypeOK, Requested, NotEmpty
  <2>2. ~ Map!Room(req[t].id)
    <3>1. req[t].id \notin Labels
      BY <1>5 DEF IndexFull, HasRoom, Labels
    <3>2. ~ (count < MaxElements) /\ count = Cardinality(Labels)
      BY <1>5 DEF IndexFull, HasRoom, IInv, SlotAccounting
    <3> QED
      BY <3>1, <3>2, SameCardinality DEF Map!Room
  <2>3. Map!Rejected(t)
    BY <1>2, <1>3, <2>1, <2>2 DEF Map!Rejected, Map!Answer, Map!Fits, Error
  <2> QED
    BY <2>3 DEF Map!Next
<1>6. CASE RemMissing(t)
  <2>1. req[t].op = "rem" /\ req[t].id \notin Map!Held
    BY <1>6, AtBegin DEF RemMissing
  <2>2. res'[t] = [kind |-> "removed", found |-> FALSE]
    BY <1>6 DEF RemMissing, IInv, TypeOK
  <2>3. (req[t].id \in Map!Held) = FALSE
    BY <2>1
  <2>4. Map!Removed(t)
    BY <1>2, <1>3, <2>1, <2>2, <2>3 DEF Map!Removed, Map!Answer
  <2> QED
    BY <2>4 DEF Map!Next
<1>7. CASE Get(t)
  <2>1. req[t].op = "get" /\ Map!Held = Held /\ Map!Found = Live
    BY <1>7, AtBegin DEF Get
  <2>2. req[t].id \in Live => SeenVec[req[t].id] = vector[req[t].id]
    BY <1>7, AtBegin DEF Get
  <2>3. res'[t] = IF Held # {} /\ req[t].id \in Live
                    THEN [kind |-> "vector", vec |-> vector[req[t].id]]
                    ELSE [kind |-> "missing"]
    BY <1>7 DEF Get, IInv, TypeOK
  <2>4. Map!ReadVector(t)
    BY <1>2, <1>3, <2>1, <2>2, <2>3 DEF Map!ReadVector, Map!Answer
  <2> QED
    BY <2>4 DEF Map!Next
<1>8. CASE ReadData(t)
  <2>1. req[t].op = "data" /\ Map!Held = Held /\ SeenData = dataStore
    BY <1>8, AtBegin DEF ReadData
  <2>2. res'[t] = IF req[t].id \in Held THEN [kind |-> "data", data |-> dataStore[req[t].id]]
                                        ELSE [kind |-> "missing"]
    BY <1>8 DEF ReadData, IInv, TypeOK
  <2>3. Map!ReadData(t)
    BY <1>2, <1>3, <2>1, <2>2 DEF Map!ReadData, Map!Answer
  <2> QED
    BY <2>3 DEF Map!Next
<1>9. CASE Knn(t)
  <2>1. req[t].op = "knn" /\ req[t].k \in Nat /\ Map!Held = Held /\ Map!Found = Live
    BY <1>9, RequestFields, AtBegin, KsAssumption DEF Knn, IInv, TypeOK
  <2>2. PICK found \in IF Held = {} THEN {{}} ELSE SUBSET Live :
          Cardinality(found) <= req[t].k /\ res'[t] = [kind |-> "knn", found |-> found]
    <3>1. PICK found \in IF Held = {} THEN {{}} ELSE SearchKnn(req[t].k) :
            res' = [res EXCEPT ![t] = [kind |-> "knn", found |-> found]]
      BY <1>9 DEF Knn
    <3>2. found \in (IF Held = {} THEN {{}} ELSE SUBSET Live) /\ Cardinality(found) <= req[t].k
      BY <3>1, <2>1, FS_EmptySet DEF SearchKnn
    <3>3. res'[t] = [kind |-> "knn", found |-> found]
      BY <3>1 DEF IInv, TypeOK
    <3> QED
      BY <3>2, <3>3
  <2>3. Map!Searched(t)
    BY <1>2, <1>3, <2>1, <2>2, SameCardinality DEF Map!Searched, Map!Answer
  <2> QED
    BY <2>3 DEF Map!Next
<1> QED
  BY <1>4, <1>5, <1>6, <1>7, <1>8, <1>9

(* The thread inside the lock: no other is half-way.                       *)
LEMMA Alone ==
  ASSUME IInv, NEW t \in Threads, pc[t] \in Critical
  PROVE  /\ mtx = t /\ t # NoThread
         /\ pc[t] \notin {"store", "erase"} => SeenData = dataStore
BY NoneAssumption DEF IInv, MutualExclusion, SeenData

(* What addPoint shows: the new vector, and that there was room for it.    *)
LEMMA Registered ==
  ASSUME IInv, NEW t \in Threads, Step(t), AddPoint(t) \/ AddPointFails(t)
  PROVE  /\ req[t].id \in Ids /\ req[t].op = "add" /\ mtx = t /\ t # NoThread
         /\ Size[req[t].vec] > 0 /\ SeenData = dataStore
         /\ UNCHANGED <<req, mtx, dim, idIdx, dataStore>>
         /\ Labels' = Labels \union {req[t].id}
         /\ SeenVec' = [SeenVec EXCEPT ![req[t].id] = req[t].vec]
         /\ Map!Room(req[t].id)
         /\ Phase[t] = "pending"
<1> DEFINE i == req[t].id
<1>0. /\ pc[t] = "point" /\ HasRoom(i) /\ Register(i, req[t].vec)
      /\ UNCHANGED <<req, mtx, dim, idIdx, dataStore>>
  BY DEF AddPoint, AddPointFails
<1>1. /\ i \in Ids /\ req[t].op = "add" /\ req[t].vec \in Vectors
      /\ Size[req[t].vec] > 0 /\ mtx = t /\ t # NoThread /\ SeenData = dataStore
  BY <1>0, RequestFields, Alone DEF IInv, TypeOK, Requested, NotEmpty
<1>2. Live' = Live \union {i} /\ Labels' = Labels \union {i}
  BY <1>0, <1>1 DEF Register, Live, Labels, IInv, TypeOK
<1>3. SeenVec' = [SeenVec EXCEPT ![i] = req[t].vec]
  BY <1>0, <1>1, <1>2 DEF SeenVec, Register, IInv, TypeOK
<1>4. Map!Room(i)
  <2>1. CASE slot[i] = "none"
    BY <1>0, <2>1, SameCardinality DEF HasRoom, Map!Room, IInv, SlotAccounting
  <2>2. CASE slot[i] # "none"
    BY <2>2, <1>1 DEF Map!Room, Labels
  <2> QED
    BY <2>1, <2>2
<1>5. Phase[t] = "pending"
  BY <1>0, Moving DEF PhaseOf
<1> QED
  BY <1>0, <1>1, <1>2, <1>3, <1>4, <1>5

(* An add takes effect when its vector enters the index ...                *)
LEMMA RefineAddPoint ==
  ASSUME IInv, NEW t \in Threads, Step(t), AddPoint(t)
  PROVE  Map!Next
<1> DEFINE i == req[t].id
<1>1. pc' = [pc EXCEPT ![t] = "store"] /\ pc'[t] = "store" /\ res' = res
  BY DEF AddPoint, Goto, IInv, TypeOK
<1>2. SeenData' = [SeenData EXCEPT ![i] = req[t].data]
  BY <1>1, Registered DEF SeenData
<1>3. /\ Phase' = [Phase EXCEPT ![t] = "answered"]
      /\ SeenAnswer' = [SeenAnswer EXCEPT ![t] = [kind |-> "added", id |-> i]]
  BY <1>1, Registered, FrameMap DEF PhaseOf, AnswerOf
<1>4. Map!Stored(t)
  BY <1>2, <1>3, Registered DEF AddPoint, Map!Stored, Map!Fits, Map!Answer
<1> QED
  BY <1>4 DEF Map!Next

(* ... and has half of it when the index fails.                            *)
LEMMA RefineAddPointFails ==
  ASSUME IInv, NEW t \in Threads, Step(t), AddPointFails(t)
  PROVE  Map!Next
<1>1. pc'[t] = "unlock" /\ res'[t] = Error("index")
  BY DEF AddPointFails, Answer, Goto, IInv, TypeOK
<1>2. SeenData' = SeenData
  BY <1>1, Registered DEF SeenData
<1>3. /\ Phase' = [Phase EXCEPT ![t] = "answered"]
      /\ SeenAnswer' = [SeenAnswer EXCEPT ![t] = Error("index")]
  BY <1>1, FrameMap DEF PhaseOf, AnswerOf
<1>4. Map!HalfStored(t)
  BY <1>2, <1>3, Registered
  DEF AddPointFails, Map!HalfStored, Map!Fits, Map!Answer, Error
<1> QED
  BY <1>4 DEF Map!Next

(* Storing the payload shows nothing new.                                  *)
LEMMA RefineStoreData ==
  ASSUME IInv, NEW t \in Threads, Step(t), StoreData(t)
  PROVE  UNCHANGED Map!vars
<1> DEFINE i == req[t].id
<1> USE DEF StoreData, Goto, Answer
<1>1. /\ mtx = t /\ t # NoThread /\ pc'[t] = "unlock"
      /\ res'[t] = [kind |-> "added", id |-> i]
  BY Alone DEF IInv, TypeOK
<1>2. SeenData = [dataStore EXCEPT ![i] = req[t].data] /\ SeenData' = dataStore'
  BY <1>1 DEF SeenData
<1>3. SeenData' = SeenData /\ SeenVec' = SeenVec /\ Labels' = Labels
  BY <1>2 DEF SeenVec, Live, Labels
<1>4. Phase' = Phase /\ SeenAnswer' = SeenAnswer
  BY <1>1, Moving DEF PhaseOf, AnswerOf
<1> QED
  BY <1>3, <1>4 DEF Map!vars

(* A removal takes effect when its label is marked deleted ...             *)
LEMMA RefineMarkDelete ==
  ASSUME IInv, NEW t \in Threads, Step(t), MarkDelete(t)
  PROVE  Map!Next
<1> DEFINE i == req[t].id
<1> USE DEF MarkDelete, Goto, Answer
<1>1. i \in Ids /\ i \in Live /\ i \in Map!Held /\ mtx = t /\ t # NoThread
  BY RequestFields, AtBegin, NoneAssumption DEF IInv, TypeOK
<1>2. pc'[t] = "erase" /\ slot' = [slot EXCEPT ![i] = "deleted"] /\ UNCHANGED <<mtx, req, dataStore, vector>>
  BY <1>1 DEF IInv, TypeOK
<1>3. Live' = Live \ {i} /\ Labels' = Labels
  BY <1>1, <1>2 DEF Live, Labels, IInv, TypeOK
<1>4. SeenData' = [SeenData EXCEPT ![i] = NoData]
  BY <1>1, <1>2, AtBegin DEF SeenData
<1>5. SeenVec' = [SeenVec EXCEPT ![i] = NoVector]
  BY <1>1, <1>2, <1>3 DEF SeenVec
<1>6. /\ Phase[t] = "pending"
      /\ Phase' = [Phase EXCEPT ![t] = "answered"]
      /\ SeenAnswer' = [SeenAnswer EXCEPT ![t] = [kind |-> "removed", found |-> TRUE]]
  BY <1>2, Moving, FrameMap DEF PhaseOf, AnswerOf
<1>7. (i \in Map!Held) = TRUE
  BY <1>1
<1>8. Map!Removed(t)
  BY <1>1, <1>2, <1>3, <1>4, <1>5, <1>6, <1>7 DEF Map!Removed, Map!Answer
<1> QED
  BY <1>8 DEF Map!Next

(* ... so that erasing the payload shows nothing new.                      *)
LEMMA RefineEraseData ==
  ASSUME IInv, NEW t \in Threads, Step(t), EraseData(t)
  PROVE  UNCHANGED Map!vars
<1> DEFINE i == req[t].id
<1> USE DEF EraseData, Goto, Answer
<1>1. /\ mtx = t /\ t # NoThread /\ pc'[t] = "unlock"
      /\ res'[t] = [kind |-> "removed", found |-> TRUE]
  BY Alone DEF IInv, TypeOK
<1>2. SeenData = [dataStore EXCEPT ![i] = NoData] /\ SeenData' = dataStore'
  BY <1>1 DEF SeenData
<1>3. SeenData' = SeenData /\ SeenVec' = SeenVec /\ Labels' = Labels
  BY <1>2 DEF SeenVec, Live, Labels
<1>4. Phase' = Phase /\ SeenAnswer' = SeenAnswer
  BY <1>1, Moving DEF PhaseOf, AnswerOf
<1> QED
  BY <1>3, <1>4 DEF Map!vars

LEMMA RefineLeave ==
  ASSUME IInv, NEW t \in Threads, Step(t), Unlock(t) \/ Return(t)
  PROVE  Map!Next
<1> USE DEF Unlock, Return, Leave, Answer, Goto, storeVars
<1>1. /\ pc[t] \in {"unlock", "return"} /\ pc'[t] = "idle"
      /\ UNCHANGED <<dim, dataStore, slot, vector, idIdx>>
  BY DEF IInv, TypeOK
<1>2. UNCHANGED <<SeenData, SeenVec, Labels, dim, 1 .. idIdx>>
  BY <1>1, SameItems
<1>3. /\ Phase[t] = "answered"
      /\ Phase' = [Phase EXCEPT ![t] = "idle"]
      /\ SeenAnswer' = [SeenAnswer EXCEPT ![t] = [kind |-> "none"]]
  BY <1>1, Moving, FrameMap DEF PhaseOf, AnswerOf, NoAnswer, IInv, TypeOK
<1>4. Map!Return(t)
  BY <1>2, <1>3 DEF Map!Return, NoRequest
<1> QED
  BY <1>4 DEF Map!Next

(* Every step of the store is a step of the map or shows nothing.          *)
LEMMA RefineStep ==
  ASSUME IInv, [Next]_vars
  PROVE  Map!Next \/ UNCHANGED Map!vars
<1>1. ASSUME NEW t \in Threads, Step(t)
      PROVE  Map!Next \/ UNCHANGED Map!vars
  BY <1>1, RefineCall, RefineAddBegins, RefineAnswers, RefineAddPoint, RefineAddPointFails, RefineStoreData,
     RefineMarkDelete, RefineEraseData, RefineLeave
  DEF Step, Locked
<1>2. CASE UNCHANGED vars
  <2>1. UNCHANGED <<SeenData, SeenVec, Labels, Phase, SeenAnswer, 1 .. idIdx>>
    BY <1>2 DEF vars, SeenData, SeenVec, Live, Labels, Phase, SeenAnswer
  <2> QED
    BY <1>2, <2>1 DEF vars, Map!vars
<1> QED
  BY <1>1, <1>2 DEF Next, Dead

(* Linearizability: whatever the callers do at the same time is what some  *)
(* sequence of their calls would do, an add that fails in the index being  *)
(* one that leaves its embedding and not its data.                         *)
THEOREM Linearizability == Spec => Linearizable
<1>1. IInv /\ [Next]_vars => [Map!Next]_(Map!vars)
  BY RefineStep
<1> QED
  BY <1>1, Invariant, RefineInit, PTL DEF Spec, Linearizable, Map!Spec
==============================================================================
