---------------------------- MODULE HttpClientPool ---------------------------
(***************************************************************************)
(* The pool of HTTP clients one LLM model shares between the worker        *)
(* threads (http_client.h, http_client.cpp) and the guard that borrows     *)
(* from it (SafeClient, used by _query in openai.cpp and azure_openai.cpp).*)
(*                                                                         *)
(* A critical section of `_mutex' is one step; release notifies after it   *)
(* has unlocked, a waiting thread that is woken has to take the mutex      *)
(* again, the reconnection of a client happens outside the mutex, and a    *)
(* thread that has not waited may overtake one that was woken.             *)
(*                                                                         *)
(* A client is a number, in the order of creation.  Of the request only    *)
(* its end is modelled: an answer (of any HTTP status) leaves the handle   *)
(* usable, a failure of curl_easy_perform drops the handle.                *)
(***************************************************************************)
EXTENDS Integers, Sequences, FiniteSets

CONSTANTS
  Threads,      \* the workers that talk to this model
  Size,         \* pool.size; the constructor refuses 0
  HasTimeout,   \* pool.wait_timeout > 0
  HasLifetime,  \* pool.connection_lifetime > 0
  MaxCalls      \* BOUND: how many times each thread borrows a client

ASSUME ThreadsAssumption == IsFiniteSet(Threads)
ASSUME SizeAssumption == Size \in Nat \ {0} /\ MaxCalls \in Nat
ASSUME OptionsAssumption == HasTimeout \in BOOLEAN /\ HasLifetime \in BOOLEAN

Clients == 1 .. Size

VARIABLES
  pool,    \* _pool: the idle clients
  used,    \* _used_connections: the clients created so far
  broken,  \* [Clients -> BOOLEAN]: the client has no handle
  old,     \* [Clients -> BOOLEAN]: _create_time is further back than lifetime
  stale,   \* ghost: the connection itself is older than lifetime
  pc,
  holds,   \* [Threads -> the client it has borrowed, or 0]
  calls    \* [Threads -> how many calls it has begun]

vars == <<pool, used, broken, old, stale, pc, holds, calls>>

Steps == {"out", "sleep", "awake", "expired", "picked", "post", "release", "notify"}

TypeOK ==
  /\ pool \in Seq(Clients)
  /\ used \in 0 .. Size
  /\ broken \in [Clients -> BOOLEAN]
  /\ old \in [Clients -> BOOLEAN] /\ stale \in [Clients -> BOOLEAN]
  /\ pc \in [Threads -> Steps]
  /\ holds \in [Threads -> 0 .. Size]
  /\ calls \in [Threads -> 0 .. MaxCalls]

Sleeping == {t \in Threads : pc[t] = "sleep"}
Awake == {t \in Threads : pc[t] = "awake"}
Notifying == {t \in Threads : pc[t] = "notify"}
Holding == {t \in Threads : holds[t] # 0}

Init ==
  /\ pool = <<>>
  /\ used = 0
  /\ broken = [c \in Clients |-> FALSE]
  /\ old = [c \in Clients |-> FALSE]
  /\ stale = [c \in Clients |-> FALSE]
  /\ pc = [t \in Threads |-> "out"]
  /\ holds = [t \in Threads |-> 0]
  /\ calls = [t \in Threads |-> 0]

Goto(t, step) == pc' = [pc EXCEPT ![t] = step]

clients == <<broken, old, stale>>

Begin(t) ==
  /\ pc[t] = "out"
  /\ calls[t] < MaxCalls
  /\ calls' = [calls EXCEPT ![t] = @ + 1]

-----------------------------------------------------------------------------
(* fetch                                                                   *)

(* MUTANT of Create: clients are created past `size'. *)
CreateUnbounded(t) ==
  /\ Begin(t)
  /\ pool = <<>>
  /\ used' = used + 1
  /\ holds' = [holds EXCEPT ![t] = used + 1]
  /\ Goto(t, "post")
  /\ UNCHANGED <<pool, clients>>

(* A client is created, under the lock, as long as there are fewer than    *)
(* `size'; it counts as used only once its constructor has returned.       *)
Create(t) ==
  /\ Begin(t)
  /\ pool = <<>> /\ used # Size
  /\ used' = used + 1
  /\ holds' = [holds EXCEPT ![t] = used + 1]
  /\ Goto(t, "post")
  /\ UNCHANGED <<pool, clients>>

(* MUTANT of CreateFails: the client is counted before it is constructed. *)
CreateFailsCounted(t) ==
  /\ Begin(t)
  /\ pool = <<>> /\ used # Size
  /\ used' = used + 1
  /\ UNCHANGED <<pool, clients, pc, holds>>

CreateFails(t) ==
  /\ Begin(t)
  /\ pool = <<>> /\ used # Size
  /\ UNCHANGED <<pool, used, clients, pc, holds>>

Sleep(t) ==
  /\ Begin(t)
  /\ pool = <<>> /\ used = Size
  /\ Goto(t, "sleep")
  /\ UNCHANGED <<pool, used, clients, holds>>

(* _fetch, by a thread that did not have to wait, was woken, or whose wait *)
(* timed out in the very moment a client came back.                        *)
Pick(t) ==
  /\ pool # <<>>
  /\ holds' = [holds EXCEPT ![t] = Head(pool)]
  /\ pool' = Tail(pool)
  /\ Goto(t, "picked")
  /\ UNCHANGED <<used, clients>>

PickIdle(t) == Begin(t) /\ Pick(t)

PickAfterWait(t) ==
  /\ pc[t] \in {"awake", "expired"}
  /\ Pick(t)
  /\ UNCHANGED calls

SleepAgain(t) ==
  /\ pc[t] = "awake" /\ pool = <<>>
  /\ Goto(t, "sleep")
  /\ UNCHANGED <<pool, used, clients, holds, calls>>

(* The timeout passes: the thread leaves the wait, and gives up unless it  *)
(* finds a client once it has the mutex.                                   *)
Expire(t) ==
  /\ HasTimeout
  /\ pc[t] = "sleep"
  /\ Goto(t, "expired")
  /\ UNCHANGED <<pool, used, clients, holds, calls>>

GiveUp(t) ==
  /\ pc[t] = "expired" /\ pool = <<>>
  /\ Goto(t, "out")
  /\ UNCHANGED <<pool, used, clients, holds, calls>>

SpuriousWakeup(t) ==
  /\ pc[t] = "sleep"
  /\ Goto(t, "awake")
  /\ UNCHANGED <<pool, used, clients, holds, calls>>

(* MUTANT of NeedReconnect: only the lifetime is looked at. *)
NeedReconnectIfOld(c) == HasLifetime /\ old[c]

NeedReconnect(c) == broken[c] \/ (HasLifetime /\ old[c])

Keep(t) ==
  /\ pc[t] = "picked"
  /\ ~ NeedReconnect(holds[t])
  /\ Goto(t, "post")
  /\ UNCHANGED <<pool, used, clients, holds, calls>>

(* reconnect() makes a new handle and leaves _create_time as it was.       *)
Reconnect(t) ==
  /\ pc[t] = "picked"
  /\ NeedReconnect(holds[t])
  /\ broken' = [broken EXCEPT ![holds[t]] = FALSE]
  /\ stale' = [stale EXCEPT ![holds[t]] = FALSE]
  /\ Goto(t, "post")
  /\ UNCHANGED <<pool, used, old, holds, calls>>

(* MUTANT of ReconnectFails: the clock is reset before the handle is made. *)
ReconnectFailsRestamped(t) ==
  /\ pc[t] = "picked"
  /\ NeedReconnect(holds[t])
  /\ old' = [old EXCEPT ![holds[t]] = FALSE]
  /\ Goto(t, "release")
  /\ UNCHANGED <<pool, used, broken, stale, holds, calls>>

(* MUTANT of ReconnectFails: the exception leaves with the client. *)
ReconnectFailsLosesClient(t) ==
  /\ pc[t] = "picked"
  /\ NeedReconnect(holds[t])
  /\ holds' = [holds EXCEPT ![t] = 0]
  /\ Goto(t, "out")
  /\ UNCHANGED <<pool, used, clients, calls>>

(* reconnect() throws: the client goes back to the pool as it is, and the  *)
(* exception goes on to the caller.                                        *)
ReconnectFails(t) ==
  /\ pc[t] = "picked"
  /\ NeedReconnect(holds[t])
  /\ Goto(t, "release")
  /\ UNCHANGED <<pool, used, clients, holds, calls>>

-----------------------------------------------------------------------------
(* HttpClient::post, and SafeClient's destructor on every way out.         *)

PostAnswered(t) ==
  /\ pc[t] = "post"
  /\ Goto(t, "release")
  /\ UNCHANGED <<pool, used, clients, holds, calls>>

PostFails(t) ==
  /\ pc[t] = "post"
  /\ broken' = [broken EXCEPT ![holds[t]] = TRUE]
  /\ Goto(t, "release")
  /\ UNCHANGED <<pool, used, old, stale, holds, calls>>

Release(t) ==
  /\ pc[t] = "release"
  /\ pool' = Append(pool, holds[t])
  /\ holds' = [holds EXCEPT ![t] = 0]
  /\ Goto(t, "notify")
  /\ UNCHANGED <<used, clients, calls>>

(* MUTANT of NotifyOne: notify only when the pool was empty before. *)
NotifyIfFirst(t) ==
  /\ pc[t] = "notify"
  /\ IF Sleeping = {} \/ Len(pool) > 1
       THEN Goto(t, "out")
       ELSE \E s \in Sleeping : pc' = [pc EXCEPT ![t] = "out", ![s] = "awake"]
  /\ UNCHANGED <<pool, used, clients, holds, calls>>

NotifyOne(t) ==
  /\ pc[t] = "notify"
  /\ IF Sleeping = {}
       THEN Goto(t, "out")
       ELSE \E s \in Sleeping : pc' = [pc EXCEPT ![t] = "out", ![s] = "awake"]
  /\ UNCHANGED <<pool, used, clients, holds, calls>>

-----------------------------------------------------------------------------
(* Time passes: a connection gets older than connection_lifetime.          *)
Age(c) ==
  /\ HasLifetime
  /\ c <= used /\ ~stale[c]
  /\ old' = [old EXCEPT ![c] = TRUE]
  /\ stale' = [stale EXCEPT ![c] = TRUE]
  /\ UNCHANGED <<pool, used, broken, pc, holds, calls>>

(* What a thread does next; whether it calls again is its own business.    *)
Call(t) == Create(t) \/ CreateFails(t) \/ Sleep(t) \/ PickIdle(t)

Proceed(t) ==
  \/ PickAfterWait(t) \/ SleepAgain(t) \/ GiveUp(t)
  \/ Keep(t) \/ Reconnect(t) \/ ReconnectFails(t)
  \/ PostAnswered(t) \/ PostFails(t) \/ Release(t) \/ NotifyOne(t)

(* Every thread has made its calls and the model ends.                     *)
Done ==
  /\ \A t \in Threads : pc[t] = "out" /\ calls[t] = MaxCalls
  /\ UNCHANGED vars

Next ==
  \/ \E t \in Threads : Call(t) \/ Proceed(t) \/ Expire(t) \/ SpuriousWakeup(t)
  \/ \E c \in Clients : Age(c)
  \/ Done

Spec == Init /\ [][Next]_vars

(* A thread that is not waiting runs, and curl_easy_perform returns: the   *)
(* handle has CURLOPT_TIMEOUT_MS (5s unless configured).  Nothing obliges  *)
(* a thread to call again, nor a wait to time out: wait_timeout is 0       *)
(* unless it is configured.                                                *)
FairSpec == Spec /\ \A t \in Threads : WF_vars(Proceed(t))

-----------------------------------------------------------------------------
(* Every client created is either idle in the pool or borrowed by exactly  *)
(* one thread: none is lost on an error path and none is handed out twice. *)
Conservation ==
  LET idle == {pool[i] : i \in 1 .. Len(pool)} IN
  /\ 1 .. used = idle \union {holds[t] : t \in Holding}
  /\ \A i, j \in 1 .. Len(pool) : pool[i] = pool[j] => i = j
  /\ \A t \in Holding : holds[t] \notin idle
  /\ \A t, u \in Holding : holds[t] = holds[u] => t = u

(* A request is never made on a client without a handle: the assertion of  *)
(* SafeClient (http_client.h:165).                                         *)
NeverBroken == \A t \in Threads : pc[t] = "post" => ~broken[holds[t]]

(* No lost wakeup: while a thread waits, each idle client has a woken      *)
(* thread on its way to it, or its notification is still to come.          *)
NoClientOverlooked ==
  Sleeping # {} => Len(pool) <= Cardinality(Awake) + Cardinality(Notifying)

(* A client is reused without a new connection only if its connection is   *)
(* within connection_lifetime.                                             *)
FreshWhenKept == [][\A t \in Threads : Keep(t) => ~stale[holds[t]]]_vars

(* A thread that waits for a client stops waiting, and not only because a  *)
(* timeout may end its wait: requests, reconnections and constructions     *)
(* that fail give their client back.                                       *)
WaitEnds == \A t \in Threads : pc[t] = "sleep" ~> pc[t] \in {"picked", "out"}
==============================================================================
