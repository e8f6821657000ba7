------------------------ MODULE HttpClientPoolProofs -------------------------
(***************************************************************************)
(* Proofs about HttpClientPool for every finite set of threads, every pool *)
(* size and every choice of the options.                                   *)
(***************************************************************************)
EXTENDS HttpClientPool, TLAPS, FiniteSetTheorems, SequenceTheorems

Idle == {pool[i] : i \in 1 .. Len(pool)}

(* A thread has a client exactly between fetch and release.                *)
Borrowed ==
  \A t \in Threads : holds[t] # 0 <=> pc[t] \in {"picked", "post", "release"}

(* A client that has not been created yet is as the constructor makes it.  *)
Unmade == \A c \in Clients : c > used => ~broken[c]

(* _create_time may be older than the connection, never younger.           *)
StaleIsOld == \A c \in Clients : stale[c] => old[c] /\ HasLifetime

IInv ==
  /\ TypeOK
  /\ Borrowed
  /\ Unmade
  /\ StaleIsOld
  /\ Conservation
  /\ NeverBroken
  /\ NoClientOverlooked

LEMMA InitIInv == Init => IInv
<1> SUFFICES ASSUME Init PROVE IInv
  OBVIOUS
<1> USE DEF Init
<1>1. TypeOK
  <2>1. pool \in Seq(Clients) /\ used \in 0 .. Size /\ holds \in [Threads -> 0 .. Size]
    BY SizeAssumption
  <2>2. calls \in [Threads -> 0 .. MaxCalls] /\ pc \in [Threads -> Steps]
    BY SizeAssumption DEF Steps
  <2>3. /\ broken \in [Clients -> BOOLEAN]
        /\ old \in [Clients -> BOOLEAN] /\ stale \in [Clients -> BOOLEAN]
    OBVIOUS
  <2> QED
    BY <2>1, <2>2, <2>3 DEF TypeOK
<1>2. Borrowed /\ Unmade /\ StaleIsOld /\ NeverBroken
  BY DEF Borrowed, Unmade, StaleIsOld, NeverBroken
<1>3. Conservation
  <2>1. Holding = {} /\ 1 .. used = {} /\ 1 .. Len(pool) = {}
    BY DEF Holding
  <2> QED
    BY <2>1 DEF Conservation
<1>4. NoClientOverlooked
  BY DEF NoClientOverlooked, Sleeping
<1> QED
  BY <1>1, <1>2, <1>3, <1>4 DEF IInv

(* Steps that leave the pool and the loans alone.                          *)
Bystander ==
  \/ \E t \in Threads :
        \/ CreateFails(t) \/ Sleep(t) \/ SleepAgain(t) \/ Expire(t) \/ GiveUp(t)
        \/ SpuriousWakeup(t) \/ Keep(t) \/ Reconnect(t) \/ ReconnectFails(t)
        \/ PostAnswered(t) \/ PostFails(t) \/ NotifyOne(t)
  \/ \E c \in Clients : Age(c)
  \/ Done

LEMMA NextCases ==
  Next <=> \/ Bystander
           \/ \E t \in Threads : Create(t) \/ PickIdle(t) \/ PickAfterWait(t) \/ Release(t)
BY DEF Next, Bystander, Call, Proceed

LEMMA BystanderKeeps ==
  ASSUME Bystander PROVE UNCHANGED <<pool, used, holds>>
BY DEF Bystander, CreateFails, Sleep, SleepAgain, Expire, GiveUp, SpuriousWakeup, Keep,
       Reconnect, ReconnectFails, PostAnswered, PostFails, NotifyOne, Age, Done, vars

(* What Pick leaves in the pool and what Release adds to it.               *)
LEMMA PickedHead ==
  ASSUME TypeOK, pool # <<>>
  PROVE  /\ Head(pool) = pool[1] /\ Head(pool) \in Clients
         /\ Tail(pool) \in Seq(Clients) /\ Len(Tail(pool)) = Len(pool) - 1 /\ Len(pool) > 0
         /\ \A i \in 1 .. Len(pool) - 1 : Tail(pool)[i] = pool[i + 1]
BY HeadTailProperties DEF TypeOK

LEMMA TypeStep == ASSUME IInv, Next PROVE TypeOK' /\ Borrowed'
<1> USE DEF IInv, TypeOK, Borrowed, Goto, Steps, clients, Begin
<1> USE SizeAssumption DEF Clients
<1>1. CASE \E t \in Threads : Create(t)
  BY <1>1 DEF Create
<1>2. ASSUME NEW t \in Threads, PickIdle(t) \/ PickAfterWait(t)
      PROVE  TypeOK' /\ Borrowed'
  <2>1. pool # <<>> /\ Head(pool) \in 1 .. Size /\ Tail(pool) \in Seq(Clients)
    BY <1>2, PickedHead DEF PickIdle, PickAfterWait, Pick
  <2>2. holds' = [holds EXCEPT ![t] = Head(pool)] /\ Head(pool) \in 0 .. Size /\ Head(pool) # 0
    BY <1>2, <2>1 DEF PickIdle, PickAfterWait, Pick
  <2>3. holds' \in [Threads -> 0 .. Size]
    BY <2>2
  <2>4. pc' = [pc EXCEPT ![t] = "picked"] /\ pool' \in Seq(Clients) /\ UNCHANGED <<used, clients>>
    BY <1>2, <2>1 DEF PickIdle, PickAfterWait, Pick
  <2>5. calls' \in [Threads -> 0 .. MaxCalls]
    <3>1. CASE PickIdle(t)
      <4>1. calls[t] + 1 \in 0 .. MaxCalls /\ calls' = [calls EXCEPT ![t] = calls[t] + 1]
        BY <3>1 DEF PickIdle
      <4> QED
        BY <4>1
    <3>2. CASE PickAfterWait(t)
      BY <3>2 DEF PickAfterWait
    <3> QED
      BY <1>2, <3>1, <3>2
  <2>6. Borrowed'
    BY <2>2, <2>4
  <2> QED
    BY <2>3, <2>4, <2>5, <2>6
<1>3. ASSUME NEW t \in Threads, Release(t) PROVE TypeOK' /\ Borrowed'
  <2>1. holds[t] \in Clients
    BY <1>3 DEF Release
  <2>2. pool' \in Seq(Clients)
    BY <1>3, <2>1 DEF Release
  <2>3. holds' \in [Threads -> 0 .. Size] /\ pc' \in [Threads -> Steps]
    BY <1>3 DEF Release
  <2>4. Borrowed'
    BY <1>3 DEF Release
  <2> QED
    BY <1>3, <2>2, <2>3, <2>4 DEF Release
<1>4. CASE \E t \in Threads : SleepAgain(t) \/ Expire(t) \/ GiveUp(t) \/ SpuriousWakeup(t)
  BY <1>4 DEF SleepAgain, Expire, GiveUp, SpuriousWakeup
<1>9. CASE \E t \in Threads : CreateFails(t)
  BY <1>9 DEF CreateFails
<1>10. CASE \E t \in Threads : Sleep(t)
  BY <1>10 DEF Sleep
<1>5. CASE \E t \in Threads : Keep(t) \/ ReconnectFails(t) \/ PostAnswered(t)
  BY <1>5 DEF Keep, ReconnectFails, PostAnswered
<1>6. CASE \E t \in Threads : Reconnect(t) \/ PostFails(t)
  BY <1>6 DEF Reconnect, PostFails
<1>7. CASE \E t \in Threads : NotifyOne(t)
  BY <1>7 DEF NotifyOne, Sleeping
<1>8. CASE (\E c \in Clients : Age(c)) \/ Done
  BY <1>8 DEF Age, Done, vars
<1> QED
  BY <1>1, <1>2, <1>3, <1>4, <1>5, <1>6, <1>7, <1>8, <1>9, <1>10, NextCases DEF Bystander

LEMMA ConservationStep == ASSUME IInv, Next PROVE Conservation'
<1> USE DEF IInv
<1>1. CASE Bystander
  BY <1>1, BystanderKeeps DEF Conservation, Holding
<1>2. ASSUME NEW t \in Threads, Create(t) PROVE Conservation'
  <2>0. holds[t] = 0 /\ used \in Nat
    <3>1. pc[t] = "out"
      BY <1>2 DEF Create, Begin
    <3>2. used \in Nat
      BY SizeAssumption DEF TypeOK
    <3> QED
      BY <3>1, <3>2 DEF Borrowed
  <2>1. /\ holds[t] = 0 /\ used \in Nat /\ pool = <<>> /\ pool' = <<>>
        /\ used' = used + 1 /\ holds' = [holds EXCEPT ![t] = used + 1]
    BY <1>2, <2>0 DEF Create
  <2>2. 1 .. used' = (1 .. used) \union {used + 1}
    BY <2>1
  <2>3. \A u \in Holding : holds[u] \in 1 .. used
    BY DEF Conservation
  <2>4. Holding' = Holding \union {t} /\ t \notin Holding
    BY <2>1 DEF Holding, TypeOK
  <2>5. \A u \in Holding : u # t /\ holds'[u] = holds[u]
    BY <2>1, <2>4 DEF Holding, TypeOK
  <2>6. holds'[t] = used + 1
    BY <2>1 DEF TypeOK
  <2>7. 1 .. used = {holds[u] : u \in Holding}
    BY <2>1 DEF Conservation
  <2>8. 1 .. used' = {holds'[u] : u \in Holding'}
    BY <2>2, <2>4, <2>5, <2>6, <2>7
  <2>9. \A u, v \in Holding' : holds'[u] = holds'[v] => u = v
    BY <2>1, <2>3, <2>4, <2>5, <2>6 DEF Conservation
  <2> QED
    BY <2>1, <2>8, <2>9 DEF Conservation
<1>3. ASSUME NEW t \in Threads, PickIdle(t) \/ PickAfterWait(t) PROVE Conservation'
  <2>1. /\ pool # <<>> /\ pool' = Tail(pool) /\ used' = used
        /\ holds' = [holds EXCEPT ![t] = Head(pool)] /\ holds[t] = 0
    BY <1>3 DEF PickIdle, PickAfterWait, Pick, Begin, Borrowed
  <2>2. /\ Head(pool) = pool[1] /\ Head(pool) \in Clients
        /\ Len(pool') = Len(pool) - 1 /\ Len(pool) > 0 /\ Len(pool) \in Nat
        /\ \A i \in 1 .. Len(pool') : pool'[i] = pool[i + 1]
    BY <2>1, PickedHead DEF TypeOK
  <2>3. Idle = Idle' \union {Head(pool)}
    <3>1. \A i \in 1 .. Len(pool) : pool[i] \in Idle' \union {Head(pool)}
      <4>1. TAKE i \in 1 .. Len(pool)
      <4>2. CASE i = 1
        BY <4>2, <2>2
      <4>3. CASE i # 1
        <5>1. i - 1 \in 1 .. Len(pool') /\ pool'[i - 1] = pool[i]
          BY <4>3, <2>2
        <5> QED
          BY <5>1 DEF Idle
      <4> QED
        BY <4>2, <4>3
    <3>2. \A i \in 1 .. Len(pool') : pool'[i] \in Idle
      BY <2>2 DEF Idle
    <3>3. Head(pool) \in Idle
      BY <2>2 DEF Idle
    <3> QED
      BY <3>1, <3>2, <3>3 DEF Idle
  <2>4. Head(pool) \notin Idle'
    BY <2>2 DEF Conservation, Idle
  <2>5. Holding' = Holding \union {t} /\ t \notin Holding
    BY <2>1, <2>2, SizeAssumption DEF Holding, TypeOK, Clients
  <2>6. holds'[t] = Head(pool) /\ \A u \in Holding : u # t /\ holds'[u] = holds[u]
    BY <2>1, <2>5 DEF Holding, TypeOK
  <2>7. \A u \in Holding : holds[u] \notin Idle
    BY DEF Conservation, Idle
  <2>8. 1 .. used = Idle \union {holds[u] : u \in Holding}
    BY DEF Conservation, Idle
  <2>9. 1 .. used' = Idle' \union {holds'[u] : u \in Holding'}
    BY <2>1, <2>3, <2>5, <2>6, <2>8
  <2>10. \A i, j \in 1 .. Len(pool') : pool'[i] = pool'[j] => i = j
    BY <2>2 DEF Conservation
  <2>11. \A u \in Holding' : holds'[u] \notin Idle'
    BY <2>3, <2>4, <2>5, <2>6, <2>7
  <2>12. \A u, v \in Holding' : holds'[u] = holds'[v] => u = v
    <3>1. \A u, v \in Holding : holds[u] = holds[v] => u = v
      BY DEF Conservation
    <3> QED
      BY <2>3, <2>5, <2>6, <2>7, <3>1
  <2> QED
    BY <2>9, <2>10, <2>11, <2>12 DEF Conservation, Idle
<1>4. ASSUME NEW t \in Threads, Release(t) PROVE Conservation'
  <2>1. /\ pool' = Append(pool, holds[t]) /\ used' = used /\ pool \in Seq(Clients)
        /\ holds' = [holds EXCEPT ![t] = 0] /\ t \in Holding
    BY <1>4 DEF Release, Borrowed, Holding, TypeOK
  <2>2. /\ Len(pool') = Len(pool) + 1 /\ Len(pool) \in Nat
        /\ \A i \in 1 .. Len(pool) : pool'[i] = pool[i]
        /\ pool'[Len(pool) + 1] = holds[t]
    BY <2>1
  <2>3. Idle' = Idle \union {holds[t]}
    <3>1. 1 .. Len(pool') = (1 .. Len(pool)) \union {Len(pool) + 1}
      BY <2>2
    <3> QED
      BY <2>2, <3>1 DEF Idle
  <2>4. Holding' = Holding \ {t}
    BY <2>1 DEF Holding, TypeOK
  <2>5. \A u \in Holding' : holds'[u] = holds[u] /\ u # t
    BY <2>1, <2>4 DEF TypeOK, Holding
  <2>6. 1 .. used = Idle \union {holds[u] : u \in Holding}
    BY DEF Conservation, Idle
  <2>7. holds[t] \notin Idle /\ \A u \in Holding' : holds[u] \notin Idle /\ holds[u] # holds[t]
    BY <2>1, <2>4 DEF Conservation, Idle
  <2>8. 1 .. used' = Idle' \union {holds'[u] : u \in Holding'}
    BY <2>1, <2>3, <2>4, <2>5, <2>6
  <2>9. \A i, j \in 1 .. Len(pool') : pool'[i] = pool'[j] => i = j
    <3>1. \A i \in 1 .. Len(pool) : pool[i] # holds[t]
      BY <2>7 DEF Idle
    <3> QED
      BY <2>2, <3>1 DEF Conservation
  <2>10. \A u \in Holding' : holds'[u] \notin Idle'
    BY <2>3, <2>5, <2>7
  <2>11. \A u, v \in Holding' : holds'[u] = holds'[v] => u = v
    BY <2>4, <2>5 DEF Conservation
  <2> QED
    BY <2>8, <2>9, <2>10, <2>11 DEF Conservation, Idle
<1> QED
  BY <1>1, <1>2, <1>3, <1>4, NextCases

LEMMA ClientStep == ASSUME IInv, Next PROVE NeverBroken' /\ Unmade' /\ StaleIsOld'
<1> USE DEF IInv, TypeOK, NeverBroken, Unmade, StaleIsOld, Goto, Begin, clients, Steps
<1> USE SizeAssumption DEF Clients
<1>0. \A t \in Holding : holds[t] \in 1 .. used
  BY DEF Conservation
<1>1. ASSUME NEW t \in Threads, Create(t)
      PROVE  NeverBroken' /\ Unmade' /\ StaleIsOld'
  <2>1. ~broken[used + 1] /\ broken' = broken /\ used' = used + 1
    BY <1>1 DEF Create
  <2>2. NeverBroken'
    BY <1>1, <2>1 DEF Create
  <2> QED
    BY <1>1, <2>1, <2>2 DEF Create
<1>11. ASSUME UNCHANGED <<used, clients>>,
              \A u \in Threads : pc'[u] = "post" => pc[u] = "post" /\ holds'[u] = holds[u]
       PROVE  NeverBroken' /\ Unmade' /\ StaleIsOld'
  BY <1>11
<1>2. ASSUME NEW t \in Threads, PickIdle(t) \/ PickAfterWait(t) \/ Release(t)
      PROVE  NeverBroken' /\ Unmade' /\ StaleIsOld'
  <2>1. UNCHANGED <<used, clients>>
    BY <1>2 DEF PickIdle, PickAfterWait, Pick, Release
  <2>2. \A u \in Threads : pc'[u] = "post" => pc[u] = "post" /\ holds'[u] = holds[u]
    BY <1>2 DEF PickIdle, PickAfterWait, Pick, Release
  <2> QED
    BY <1>11, <2>1, <2>2
<1>3. ASSUME NEW t \in Threads, CreateFails(t) \/ Sleep(t) \/ SleepAgain(t)
      PROVE  NeverBroken' /\ Unmade' /\ StaleIsOld'
  <2>1. UNCHANGED <<used, clients, holds>>
    BY <1>3 DEF CreateFails, Sleep, SleepAgain
  <2>2. \A u \in Threads : pc'[u] = "post" => pc[u] = "post"
    BY <1>3 DEF CreateFails, Sleep, SleepAgain
  <2> QED
    BY <1>11, <2>1, <2>2
<1>4. CASE \E t \in Threads : Expire(t) \/ GiveUp(t) \/ SpuriousWakeup(t)
  BY <1>4 DEF Expire, GiveUp, SpuriousWakeup
<1>5. CASE \E t \in Threads : ReconnectFails(t) \/ PostAnswered(t)
  BY <1>5 DEF ReconnectFails, PostAnswered
<1>6. CASE \E t \in Threads : Keep(t)
  BY <1>6 DEF Keep, NeedReconnect
<1>7. ASSUME NEW t \in Threads, Reconnect(t)
      PROVE  NeverBroken' /\ Unmade' /\ StaleIsOld'
  <2>0. /\ broken' = [broken EXCEPT ![holds[t]] = FALSE] /\ holds' = holds
        /\ pc' = [pc EXCEPT ![t] = "post"] /\ holds[t] \in Clients
    BY <1>7 DEF Reconnect, Borrowed
  <2>1. NeverBroken'
    BY <2>0
  <2>2. Unmade'
    BY <1>7 DEF Reconnect
  <2>3. StaleIsOld'
    BY <1>7 DEF Reconnect
  <2> QED
    BY <2>1, <2>2, <2>3
<1>8. ASSUME NEW t \in Threads, PostFails(t)
      PROVE  NeverBroken' /\ Unmade' /\ StaleIsOld'
  <2>1. /\ broken' = [broken EXCEPT ![holds[t]] = TRUE] /\ pc[t] = "post"
        /\ pc' = [pc EXCEPT ![t] = "release"] /\ UNCHANGED <<holds, used, old, stale>>
    BY <1>8 DEF PostFails
  <2>2. t \in Holding /\ holds[t] \in 1 .. used
    BY <1>0, <2>1 DEF Borrowed, Holding
  <2>3. \A u \in Threads : pc[u] = "post" /\ u # t => holds[u] # holds[t]
    BY <2>1, <2>2 DEF Borrowed, Holding, Conservation
  <2>4. NeverBroken'
    BY <2>1, <2>2, <2>3
  <2>5. Unmade'
    BY <2>1, <2>2
  <2>6. StaleIsOld'
    BY <2>1
  <2> QED
    BY <2>4, <2>5, <2>6
<1>9. CASE \E t \in Threads : NotifyOne(t)
  BY <1>9 DEF NotifyOne, Sleeping
<1>10. CASE (\E c \in Clients : Age(c)) \/ Done
  BY <1>10 DEF Age, Done, vars
<1> QED
  BY <1>1, <1>2, <1>3, <1>4, <1>5, <1>6, <1>7, <1>8, <1>9, <1>10, NextCases DEF Bystander

(* Counting the threads in one step of the protocol.                       *)
LEMMA Counts ==
  /\ IsFiniteSet(Awake) /\ Cardinality(Awake) \in Nat
  /\ IsFiniteSet(Notifying) /\ Cardinality(Notifying) \in Nat
<1>1. Awake \subseteq Threads /\ Notifying \subseteq Threads
  BY DEF Awake, Notifying
<1> QED
  BY <1>1, ThreadsAssumption, FS_Subset, FS_CardinalityType

LEMMA CountsNext ==
  /\ IsFiniteSet(Awake') /\ Cardinality(Awake') \in Nat
  /\ IsFiniteSet(Notifying') /\ Cardinality(Notifying') \in Nat
<1>1. Awake' \subseteq Threads /\ Notifying' \subseteq Threads
  BY DEF Awake, Notifying
<1> QED
  BY <1>1, ThreadsAssumption, FS_Subset, FS_CardinalityType

LEMMA WakeupStep == ASSUME IInv, Next PROVE NoClientOverlooked'
<1> USE Counts, CountsNext DEF IInv, Goto, Begin, clients
<1> DEFINE A == Cardinality(Awake)
           N == Cardinality(Notifying)
<1>0. pool \in Seq(Clients) /\ Len(pool) \in Nat /\ pc \in [Threads -> Steps]
  BY DEF TypeOK
<1>1. ASSUME NEW t \in Threads, Create(t) PROVE NoClientOverlooked'
  BY <1>1 DEF Create, NoClientOverlooked
<1>2. ASSUME NEW t \in Threads, Sleep(t) \/ SleepAgain(t) PROVE NoClientOverlooked'
  BY <1>2 DEF Sleep, SleepAgain, NoClientOverlooked
<1>3. ASSUME UNCHANGED pool, Sleeping' \subseteq Sleeping,
             Awake \subseteq Awake', Notifying \subseteq Notifying'
      PROVE  NoClientOverlooked'
  BY <1>0, <1>3, FS_Subset DEF NoClientOverlooked
<1>4. CASE \/ \E t \in Threads : CreateFails(t) \/ Keep(t) \/ Reconnect(t)
                                 \/ ReconnectFails(t) \/ PostAnswered(t) \/ PostFails(t)
           \/ (\E c \in Clients : Age(c)) \/ Done
  BY <1>0, <1>3, <1>4
  DEF CreateFails, Keep, Reconnect, ReconnectFails, PostAnswered, PostFails, Age, Done, vars,
      Sleeping, Awake, Notifying
<1>5. CASE \E t \in Threads : Expire(t) \/ GiveUp(t) \/ SpuriousWakeup(t)
  BY <1>0, <1>3, <1>5 DEF Expire, GiveUp, SpuriousWakeup, Sleeping, Awake, Notifying
<1>6. ASSUME NEW t \in Threads, PickIdle(t) PROVE NoClientOverlooked'
  <2>1. Sleeping' = Sleeping /\ Awake' = Awake /\ Notifying' = Notifying
    BY <1>0, <1>6 DEF PickIdle, Pick, Sleeping, Awake, Notifying
  <2>2. Len(pool') = Len(pool) - 1
    BY <1>6, PickedHead DEF PickIdle, Pick
  <2> QED
    BY <1>0, <2>1, <2>2 DEF NoClientOverlooked
<1>7. ASSUME NEW t \in Threads, PickAfterWait(t) PROVE NoClientOverlooked'
  <2>1. Sleeping' = Sleeping /\ Awake' = Awake \ {t} /\ Notifying' = Notifying
    BY <1>0, <1>7 DEF PickAfterWait, Pick, Sleeping, Awake, Notifying
  <2>2. Len(pool') = Len(pool) - 1
    BY <1>7, PickedHead DEF PickAfterWait, Pick
  <2>3. Cardinality(Awake') >= A - 1
    BY <2>1, FS_RemoveElement
  <2> QED
    BY <1>0, <2>1, <2>2, <2>3 DEF NoClientOverlooked
<1>8. ASSUME NEW t \in Threads, Release(t) PROVE NoClientOverlooked'
  <2>1. /\ Sleeping' = Sleeping /\ Awake' = Awake
        /\ Notifying' = Notifying \union {t} /\ t \notin Notifying
    BY <1>0, <1>8 DEF Release, Sleeping, Awake, Notifying
  <2>2. Len(pool') = Len(pool) + 1
    BY <1>0, <1>8 DEF Release, TypeOK
  <2>3. Cardinality(Notifying') = N + 1
    BY <2>1, FS_AddElement
  <2> QED
    BY <1>0, <2>1, <2>2, <2>3 DEF NoClientOverlooked
<1>9. ASSUME NEW t \in Threads, NotifyOne(t) PROVE NoClientOverlooked'
  <2>1. CASE Sleeping = {}
    BY <1>0, <1>9, <2>1 DEF NotifyOne, Sleeping, NoClientOverlooked
  <2>2. CASE Sleeping # {}
    <3>1. PICK s \in Sleeping : pc' = [pc EXCEPT ![t] = "out", ![s] = "awake"]
      BY <1>9, <2>2 DEF NotifyOne
    <3>2. Awake' = Awake \union {s} /\ s \notin Awake /\ Notifying' = Notifying \ {t}
      BY <1>0, <1>9, <3>1 DEF NotifyOne, Sleeping, Awake, Notifying
    <3>3. Cardinality(Awake') = A + 1 /\ Cardinality(Notifying') >= N - 1
      BY <3>2, FS_AddElement, FS_RemoveElement
    <3>4. pool' = pool
      BY <1>9 DEF NotifyOne
    <3> QED
      BY <1>0, <2>2, <3>3, <3>4 DEF NoClientOverlooked
  <2> QED
    BY <2>1, <2>2
<1> QED
  BY <1>1, <1>2, <1>4, <1>5, <1>6, <1>7, <1>8, <1>9, NextCases DEF Bystander

LEMMA Stutter == ASSUME IInv, UNCHANGED vars PROVE IInv'
<1> USE DEF vars
<1>1. (TypeOK /\ Borrowed)'
  BY DEF IInv, TypeOK, Borrowed
<1>2. (Unmade /\ StaleIsOld /\ NeverBroken)'
  BY DEF IInv, Unmade, StaleIsOld, NeverBroken
<1>3. (Conservation /\ NoClientOverlooked)'
  BY DEF IInv, Conservation, Holding, NoClientOverlooked, Sleeping, Awake, Notifying
<1> QED
  BY <1>1, <1>2, <1>3 DEF IInv

(* The inductive invariant holds in every reachable state.                 *)
THEOREM Invariant == Spec => []IInv
<1>1. IInv /\ [Next]_vars => IInv'
  BY TypeStep, ConservationStep, ClientStep, WakeupStep, Stutter DEF IInv
<1> QED
  BY InitIInv, <1>1, PTL DEF Spec

(* The variables of the pool keep their types (http_client.h 126-160).     *)
THEOREM TypeCorrect == Spec => []TypeOK
BY Invariant, PTL DEF IInv

(* No client is lost on an error path of fetch or post, none is in the     *)
(* hands of two workers, and there are never more than `size'              *)
(* (http_client.cpp 239-278).                                              *)
THEOREM ClientsConserved == Spec => []Conservation
BY Invariant, PTL DEF IInv

(* The assertion of SafeClient holds: after a failed request or a failed   *)
(* reconnection the next borrower does not get the client without a handle *)
(* (http_client.h:165, http_client.cpp 312-326).                           *)
THEOREM ClientUsable == Spec => []NeverBroken
BY Invariant, PTL DEF IInv

(* A client that is put back while threads wait wakes one of them for      *)
(* every client that is idle (http_client.cpp 270-278, 296-310).           *)
THEOREM NoLostWakeup == Spec => []NoClientOverlooked
BY Invariant, PTL DEF IInv

(* A client older than connection_lifetime is not handed out as it is,     *)
(* even after a reconnection of it has failed (http_client.cpp 255-265).   *)
THEOREM LifetimeKept == Spec => FreshWhenKept
<1>1. IInv => \A t \in Threads : Keep(t) => ~stale[holds[t]]
  <2> SUFFICES ASSUME IInv, NEW t \in Threads, Keep(t) PROVE ~stale[holds[t]]
    OBVIOUS
  <2>1. holds[t] \in Clients /\ ~(HasLifetime /\ old[holds[t]])
    BY SizeAssumption DEF IInv, TypeOK, Borrowed, Keep, NeedReconnect, Clients
  <2> QED
    BY <2>1 DEF IInv, StaleIsOld
<1>2. IInv => [\A t \in Threads : Keep(t) => ~stale[holds[t]]]_vars
  BY <1>1
<1> QED
  BY Invariant, <1>2, PTL DEF FreshWhenKept
==============================================================================
