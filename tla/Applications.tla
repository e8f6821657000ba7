----------------------------- MODULE Applications -----------------------------
(***************************************************************************)
(* LLM.RUN on one application (run_command.cpp): a simple one              *)
(* (simple_application.cpp), a search application                          *)
(* (search_application.cpp), or a chat (chat_application.cpp,              *)
(* chat_history.cpp).  Workers run it at the same time; of a chat, all but *)
(* the look-up of the store happens under its `_mtx', the calls of the LLM *)
(* included.  Search and chat read a vector store other clients write to,  *)
(* and that may be replaced at its key while a run still holds it.  The    *)
(* process may die and a replica, or a restart from the AOF, take over.    *)
(*                                                                         *)
(* A message is the run it belongs to and its role.  A text in the store   *)
(* is a number, in the order in which texts are written.  An operation of  *)
(* the store is one atomic step (VectorMap); the store has room, and an    *)
(* add does not end half-way (for what happens otherwise, see CommandFlow).*)
(* The global lock of Redis is held by the main thread for a step, and by  *)
(* a run from one step to another.                                         *)
(***************************************************************************)
EXTENDS Integers, FiniteSets, SequencesExt

CONSTANTS
  Kinds,        \* of {"simple", "search", "chat"}
  Workers,      \* how many threads the worker pool has
  MaxRuns,      \* BOUND: how many LLM.RUN are issued
  MaxStores,    \* BOUND: how many stores the key has, one after the other
  MaxChanges,   \* BOUND: how often other clients change the store
  MaxFailovers, \* BOUND: how often the process dies
  ClientIds,    \* BOUND: the ids other clients use; a search finds items there
  SummaryCnts,  \* what summary_cnt may be set to
  ContextCnt,   \* msg_ctx_cnt
  K,            \* k of the search, summary_ctx_cnt of the chat
  InitMayFail   \* the index may fail to allocate its memory (not an Error)

ASSUME KindsAssumption == Kinds \subseteq {"simple", "search", "chat"}
ASSUME CountsAssumption ==
  /\ Workers \in Nat /\ MaxRuns \in Nat /\ ContextCnt \in Nat /\ K \in Nat
  /\ MaxStores \in Nat \ {0} /\ MaxChanges \in Nat /\ MaxFailovers \in Nat
ASSUME SetsAssumption ==
  /\ SummaryCnts \subseteq Nat
  /\ ClientIds \subseteq Nat \ {0} /\ IsFiniteSet(ClientIds)
ASSUME FailAssumption == InitMayFail \in BOOLEAN

Runs == 1 .. MaxRuns
Ids == ClientIds \union 1 .. 2 * MaxRuns      \* every message may draw an id
Stores == 1 .. MaxStores
Messages == [role : {"user", "assistant"}, run : Runs]

VARIABLES
  kind,      \* of the application
  summaryCnt, \* summary_cnt, chosen at creation; 0: no summaries
  mtx,       \* _mtx of a chat: the run that holds it, 0 if none
  gil,       \* the global lock of Redis: the run that holds it, 0 if none
  pending,   \* _msgs_to_be_summarize
  latest,    \* _latest_msgs
  current,   \* the store at the key _vector_store
  store,     \* [Stores -> [Ids -> the text there, 0 if none]]
  index,     \* [Stores -> of its index: "none", "ready", or "null" after a
             \* failed initialization]
  idIdx,     \* [Stores -> _id_idx]
  source,    \* the texts so far: which store each was written to
  rStore,    \* [Ids -> the text in the store of the replica]
  pc,        \* [Runs -> where it is]
  odd,       \* the runs whose --VARS is JSON, but no object
  holds,     \* [Runs -> the store it has looked up]
  found,     \* [Runs -> the neighbours whose data it has still to read]
  quoted,    \* [Runs -> the texts it will put in the prompt]
  role,      \* [Runs -> the role of the message it adds]
  made,      \* [Runs -> the summaries it has stored, as <<id, text>>]
  outcome,   \* [Runs -> what it has left for its client; "never": nothing]
  summed,    \* ghost: the messages summed up, in the order of the summaries
  gone,      \* ghost: [Runs -> the texts not at the key when it began]
  older,     \* ghost: the runs begun before the last failover
  changes, failovers

confVars == <<kind, summaryCnt>>
historyVars == <<pending, latest, summed>>
storeVars == <<current, store, index, idIdx, source>>
readVars == <<holds, found, quoted>>
boundVars == <<older, changes, failovers>>
vars == <<confVars, mtx, gil, historyVars, storeVars, rStore, pc, odd, readVars, role,
          made, outcome, gone, boundVars>>

Critical == {"search", "quote", "prompt", "say", "summarize", "remember", "replicate"}
Steps == {"out", "resolve", "lock", "unblock", "done"} \union Critical

NoItems == [i \in Ids |-> 0]
Clock == Len(source)
AtKey == {store[current][i] : i \in Ids} \ {0}

TypeOK ==
  /\ kind \in Kinds /\ summaryCnt \in {0} \union SummaryCnts
  /\ mtx \in {0} \union Runs /\ gil \in {0} \union Runs
  /\ pending \in Seq(Messages) /\ summed \in Seq(Messages)
  /\ latest \in Seq(Messages) /\ Len(latest) <= ContextCnt
  /\ current \in Stores
  /\ store \in [Stores -> [Ids -> 0 .. Clock]]
  /\ index \in [Stores -> {"none", "ready", "null"}]
  /\ idIdx \in [Stores -> Nat]
  /\ source \in Seq(Stores)
  /\ rStore \in [Ids -> 0 .. Clock]
  /\ pc \in [Runs -> Steps]
  /\ odd \subseteq Runs
  /\ holds \in [Runs -> {0} \union Stores]
  /\ found \in [Runs -> SUBSET Ids]
  /\ quoted \in [Runs -> SUBSET (1 .. Clock)]
  /\ role \in [Runs -> {"user", "assistant"}]
  /\ made \in [Runs -> SUBSET (Ids \X (1 .. Clock))]
  /\ outcome \in [Runs -> {"none", "ok", "error", "never", "lost"}]
  /\ gone \in [Runs -> SUBSET (1 .. Clock)]
  /\ older \subseteq Runs
  /\ changes \in 0 .. MaxChanges /\ failovers \in 0 .. MaxFailovers

(* A search application finds a store that has been filled; the history of *)
(* a chat is empty.                                                        *)
Init ==
  /\ kind \in Kinds
  /\ summaryCnt \in IF kind = "chat" THEN SummaryCnts ELSE {0}
  /\ mtx = 0 /\ gil = 0 /\ pending = <<>> /\ latest = <<>> /\ summed = <<>>
  /\ current = 1
  /\ \E items \in IF kind = "search"
                    THEN {f \in [ClientIds -> 1 .. Cardinality(ClientIds)] : IsInjective(f)}
                    ELSE {<<>>} :
       /\ rStore = [i \in Ids |-> IF i \in DOMAIN items THEN items[i] ELSE 0]
       /\ source = [n \in 1 .. Cardinality(DOMAIN items) |-> 1]
  /\ store = [s \in Stores |-> IF s = 1 THEN rStore ELSE NoItems]
  /\ index = [s \in Stores |-> IF s = 1 /\ rStore # NoItems THEN "ready" ELSE "none"]
  /\ idIdx = [s \in Stores |-> 0]
  /\ pc = [r \in Runs |-> "out"]
  /\ odd = {}
  /\ holds = [r \in Runs |-> 0]
  /\ found = [r \in Runs |-> {}] /\ quoted = [r \in Runs |-> {}]
  /\ role = [r \in Runs |-> "user"]
  /\ made = [r \in Runs |-> {}]
  /\ outcome = [r \in Runs |-> "none"]
  /\ gone = [r \in Runs |-> {}]
  /\ older = {} /\ changes = 0 /\ failovers = 0

Under == {r \in Runs : pc[r] \notin {"out", "done"}}

Goto(r, step) == pc' = [pc EXCEPT ![r] = step]

Message(r) == [role |-> role[r], run |-> r]

-----------------------------------------------------------------------------
(* _run and the start of _run_impl                                         *)

(* The application and its model are at their keys, the task is queued and *)
(* a worker takes it.                                                      *)
Start(r) ==
  /\ gil = 0
  /\ pc[r] = "out" /\ \A q \in Runs : q < r => pc[q] # "out"
  /\ Cardinality(Under) < Workers
  /\ odd' \in IF kind = "search" THEN {odd, odd \union {r}} ELSE {odd}
  /\ gone' = [gone EXCEPT ![r] = (1 .. Clock) \ AtKey]
  /\ Goto(r, IF kind = "simple" THEN "prompt" ELSE "resolve")
  /\ UNCHANGED <<confVars, mtx, gil, historyVars, storeVars, rStore, readVars, role, made,
                 outcome, boundVars>>

(* They are not, or the queue is full: the main thread answers at once.    *)
Refuse(r) ==
  /\ gil = 0
  /\ pc[r] = "out" /\ \A q \in Runs : q < r => pc[q] # "out"
  /\ outcome' = [outcome EXCEPT ![r] = "error"]
  /\ Goto(r, "done")
  /\ UNCHANGED <<confVars, mtx, gil, historyVars, storeVars, rStore, odd, readVars, role,
                 made, gone, boundVars>>

(* The task is over, one way or another: _mtx, if the run holds it, is free *)
(* again, and what it refers to is let go.                                 *)
LetGo(r) ==
  /\ mtx' = IF mtx = r THEN 0 ELSE mtx
  /\ holds' = [holds EXCEPT ![r] = 0]
  /\ found' = [found EXCEPT ![r] = {}]
  /\ quoted' = [quoted EXCEPT ![r] = {}]
  /\ role' = [role EXCEPT ![r] = "user"]
  /\ gone' = [gone EXCEPT ![r] = {}]

(* The result goes to the main thread.                                     *)
Leave(r, result) ==
  /\ LetGo(r)
  /\ outcome' = [outcome EXCEPT ![r] = result]
  /\ Goto(r, "unblock")

Throw(r) == Leave(r, "error")

(* What is not an Error is caught by the packaged_task: the task is over,  *)
(* and nobody has unblocked the client.                                    *)
Abandon(r) ==
  /\ LetGo(r)
  /\ outcome' = [outcome EXCEPT ![r] = "never"]
  /\ Goto(r, "done")

(* The global lock is free: the main thread waits in its event loop.       *)
TakeGil(r) ==
  /\ pc[r] = "resolve" \/ (pc[r] = "replicate" /\ made[r] # {})
  /\ gil = 0
  /\ gil' = r
  /\ UNCHANGED <<confVars, mtx, historyVars, storeVars, rStore, pc, odd, readVars, role,
                 made, outcome, gone, boundVars>>

(* MUTANT of Resolve: the store is looked up once, at creation. *)
ResolveCached(r) ==
  /\ pc[r] = "resolve" /\ gil = r
  /\ gil' = 0
  /\ holds' = [holds EXCEPT ![r] = 1]
  /\ Goto(r, IF kind = "chat" THEN "lock" ELSE "search")
  /\ UNCHANGED <<confVars, mtx, historyVars, storeVars, rStore, odd, found, quoted,
                 role, made, outcome, gone, boundVars>>

(* The store and its model are looked up under the global lock.            *)
Resolve(r) ==
  /\ pc[r] = "resolve" /\ gil = r
  /\ gil' = 0
  /\ holds' = [holds EXCEPT ![r] = current]
  /\ Goto(r, IF kind = "chat" THEN "lock" ELSE "search")
  /\ UNCHANGED <<confVars, mtx, historyVars, storeVars, rStore, odd, found, quoted,
                 role, made, outcome, gone, boundVars>>

(* MUTANT of ResolveFails: the Error leaves without unlocking. *)
ResolveFailsLocked(r) ==
  /\ pc[r] = "resolve" /\ gil = r
  /\ Throw(r)
  /\ UNCHANGED <<confVars, gil, historyVars, storeVars, rStore, odd, made, boundVars>>

ResolveFails(r) ==
  /\ pc[r] = "resolve" /\ gil = r
  /\ gil' = 0
  /\ Throw(r)
  /\ UNCHANGED <<confVars, historyVars, storeVars, rStore, odd, made, boundVars>>

LooksBack == summaryCnt > 0 /\ K > 0

(* MUTANT of Lock: the lock_guard is forgotten. *)
LockForgotten(r) ==
  /\ pc[r] = "lock"
  /\ mtx' = r
  /\ Goto(r, IF LooksBack THEN "search" ELSE "prompt")
  /\ UNCHANGED <<confVars, gil, historyVars, storeVars, rStore, odd, readVars, role, made,
                 outcome, gone, boundVars>>

(* A chat without summaries has none to look for.                          *)
Lock(r) ==
  /\ pc[r] = "lock" /\ mtx = 0
  /\ mtx' = r
  /\ Goto(r, IF LooksBack THEN "search" ELSE "prompt")
  /\ UNCHANGED <<confVars, gil, historyVars, storeVars, rStore, odd, readVars, role, made,
                 outcome, gone, boundVars>>

-----------------------------------------------------------------------------
(* The prompt: of a chat under _mtx                                        *)

(* The model embeds the input, the store finds K neighbours, or less: the  *)
(* search is not exact.                                                    *)
Search(r) ==
  LET items == {i \in Ids : store[holds[r]][i] # 0} IN
  /\ pc[r] = "search"
  /\ \E near \in SUBSET items :
       /\ Cardinality(near) <= K
       /\ found' = [found EXCEPT ![r] = near]
  /\ Goto(r, "quote")
  /\ UNCHANGED <<confVars, mtx, gil, historyVars, storeVars, rStore, odd, holds, quoted,
                 role, made, outcome, gone, boundVars>>

SearchFails(r) ==
  /\ pc[r] = "search"
  /\ Throw(r)
  /\ UNCHANGED <<confVars, gil, historyVars, storeVars, rStore, odd, made, boundVars>>

(* Each neighbour is read by itself; one that is gone is left out.         *)
Quote(r) ==
  /\ pc[r] = "quote"
  /\ \E i \in found[r] :
       /\ found' = [found EXCEPT ![r] = @ \ {i}]
       /\ quoted' = [quoted EXCEPT ![r] = @ \union ({store[holds[r]][i]} \ {0})]
  /\ UNCHANGED <<confVars, mtx, gil, historyVars, storeVars, rStore, pc, odd, holds, role,
                 made, outcome, gone, boundVars>>

QuotedAll(r) ==
  /\ pc[r] = "quote" /\ found[r] = {}
  /\ Goto(r, "prompt")
  /\ UNCHANGED <<confVars, mtx, gil, historyVars, storeVars, rStore, odd, readVars, role,
                 made, outcome, gone, boundVars>>

Malformed(r) == kind = "search" /\ r \in odd

(* The template is rendered and the LLM answers.  A chat adds the input    *)
(* and the answer to its history, the others are done.                     *)
Ask(r) ==
  /\ pc[r] = "prompt" /\ ~ Malformed(r)
  /\ IF kind = "chat"
       THEN /\ Goto(r, "say")
            /\ quoted' = [quoted EXCEPT ![r] = {}]
            /\ gone' = [gone EXCEPT ![r] = {}]
            /\ UNCHANGED <<mtx, outcome, holds, found, role>>
       ELSE Leave(r, "ok")
  /\ UNCHANGED <<confVars, gil, historyVars, storeVars, rStore, odd, made, boundVars>>

(* The template or the LLM fails.                                          *)
AskFails(r) ==
  /\ pc[r] = "prompt" /\ ~ Malformed(r)
  /\ Throw(r)
  /\ UNCHANGED <<confVars, gil, historyVars, storeVars, rStore, odd, made, boundVars>>

(* A search application sets `question' and `context' in the variables of  *)
(* the client.  If these are no object that throws an exception of the     *)
(* JSON library, which is no Error.                                        *)
Forget(r) ==
  /\ pc[r] = "prompt" /\ Malformed(r)
  /\ Abandon(r)
  /\ UNCHANGED <<confVars, gil, historyVars, storeVars, rStore, odd, made, boundVars>>

-----------------------------------------------------------------------------
(* The history of a chat, under _mtx                                       *)

(* ChatHistory::add, once for the input and once for the reply: the        *)
(* message is queued for the next summary, which may be due.               *)
Say(r) ==
  /\ pc[r] = "say"
  /\ pending' = IF summaryCnt = 0 THEN pending ELSE Append(pending, Message(r))
  /\ Goto(r, IF summaryCnt > 0 /\ Len(pending) + 1 >= summaryCnt
               THEN "summarize" ELSE "remember")
  /\ UNCHANGED <<confVars, mtx, gil, latest, summed, storeVars, rStore, odd, readVars, role,
                 made, outcome, gone, boundVars>>

(* The store the run holds chooses the id, then takes the summary.         *)
Summarize(r) ==
  LET i == idIdx[holds[r]] + 1 IN
  /\ pc[r] = "summarize" /\ index[holds[r]] # "null"
  /\ index' = [index EXCEPT ![holds[r]] = "ready"]
  /\ idIdx' = [idIdx EXCEPT ![holds[r]] = i]
  /\ source' = Append(source, holds[r])
  /\ store' = [store EXCEPT ![holds[r]][i] = Clock + 1]
  /\ made' = [made EXCEPT ![r] = @ \union {<<i, Clock + 1>>}]
  /\ summed' = summed \o pending
  /\ pending' = <<>>
  /\ Goto(r, "remember")
  /\ UNCHANGED <<confVars, mtx, gil, latest, current, rStore, odd, readVars, role, outcome,
                 gone, boundVars>>

(* MUTANT of SummarizeFails: the messages are moved out before the LLM is  *)
(* asked for their summary.                                                *)
SummarizeFailsForgets(r) ==
  /\ pc[r] = "summarize"
  /\ pending' = <<>>
  /\ Throw(r)
  /\ UNCHANGED <<confVars, gil, latest, summed, storeVars, rStore, odd, made, boundVars>>

(* MUTANT of SummarizeFails: the lock is not given back. *)
SummarizeFailsLocked(r) ==
  /\ pc[r] = "summarize"
  /\ outcome' = [outcome EXCEPT ![r] = "error"]
  /\ Goto(r, "unblock")
  /\ UNCHANGED <<confVars, mtx, gil, historyVars, storeVars, rStore, odd, readVars, role,
                 made, gone, boundVars>>

(* The LLM or the store fails, the latter after an id has been drawn.  The *)
(* message stays queued for the next summary, and the run is over: the     *)
(* message, and the reply, do not become part of the latest messages.      *)
SummarizeFails(r) ==
  /\ pc[r] = "summarize"
  /\ \E drawn \in {0, 1} : idIdx' = [idIdx EXCEPT ![holds[r]] = @ + drawn]
  /\ Throw(r)
  /\ UNCHANGED <<confVars, gil, historyVars, current, store, index, source, rStore, odd, made,
                 boundVars>>

(* The first add to the store finds no memory for the index: another       *)
(* exception, after an id has been drawn, and an index that stays null.    *)
SummarizeThrows(r) ==
  /\ InitMayFail
  /\ pc[r] = "summarize" /\ index[holds[r]] = "none"
  /\ index' = [index EXCEPT ![holds[r]] = "null"]
  /\ idIdx' = [idIdx EXCEPT ![holds[r]] = @ + 1]
  /\ Abandon(r)
  /\ UNCHANGED <<confVars, gil, historyVars, current, store, source, rStore, odd, made,
                 boundVars>>

(* MUTANT of Remember: the oldest message is not dropped. *)
RememberAll(r) ==
  /\ pc[r] = "remember"
  /\ latest' = Append(latest, Message(r))
  /\ IF role[r] = "user"
       THEN role' = [role EXCEPT ![r] = "assistant"] /\ Goto(r, "say")
       ELSE Goto(r, "replicate") /\ UNCHANGED role
  /\ UNCHANGED <<confVars, mtx, gil, pending, summed, storeVars, rStore, odd, readVars,
                 made, outcome, gone, boundVars>>

(* The message joins the latest ones, the oldest of which are dropped;     *)
(* after the input comes the reply.                                        *)
Remember(r) ==
  LET all == Append(latest, Message(r)) IN
  /\ pc[r] = "remember"
  /\ latest' = IF Len(all) > ContextCnt THEN Tail(all) ELSE all
  /\ IF role[r] = "user"
       THEN role' = [role EXCEPT ![r] = "assistant"] /\ Goto(r, "say")
       ELSE Goto(r, "replicate") /\ UNCHANGED role
  /\ UNCHANGED <<confVars, mtx, gil, pending, summed, storeVars, rStore, odd, readVars,
                 made, outcome, gone, boundVars>>

TextMade(r, i) == {p[2] : p \in {q \in made[r] : q[1] = i}}

(* MUTANT of Replicate: it takes two summaries to be replicated. *)
ReplicateBoth(r) ==
  /\ pc[r] = "replicate" /\ (made[r] # {} => gil = r)
  /\ rStore' = [i \in Ids |-> IF Cardinality(made[r]) < 2 \/ TextMade(r, i) = {}
                                THEN rStore[i] ELSE CHOOSE v \in TextMade(r, i) : TRUE]
  /\ gil' = IF gil = r THEN 0 ELSE gil
  /\ Leave(r, "ok")
  /\ UNCHANGED <<confVars, historyVars, storeVars, odd, made, boundVars>>

(* The summaries of this run, if any, are replicated as LLM.ADD --ID to    *)
(* the key, whatever store is there by now, under both locks.              *)
Replicate(r) ==
  /\ pc[r] = "replicate" /\ (made[r] # {} => gil = r)
  /\ rStore' = [i \in Ids |-> IF TextMade(r, i) = {}
                                THEN rStore[i] ELSE CHOOSE v \in TextMade(r, i) : TRUE]
  /\ gil' = IF gil = r THEN 0 ELSE gil
  /\ Leave(r, "ok")
  /\ UNCHANGED <<confVars, historyVars, storeVars, odd, made, boundVars>>

(* The client is unblocked and the main thread answers it.                 *)
Unblock(r) ==
  /\ pc[r] = "unblock" /\ gil = 0
  /\ Goto(r, "done")
  /\ UNCHANGED <<confVars, mtx, gil, historyVars, storeVars, rStore, odd, readVars, role,
                 made, outcome, gone, boundVars>>

-----------------------------------------------------------------------------
(* Other clients, and the death of the process                             *)

Change ==
  /\ gil = 0
  /\ changes < MaxChanges
  /\ changes' = changes + 1
  /\ UNCHANGED <<confVars, mtx, gil, historyVars, idIdx, pc, odd, readVars, role, made,
                 outcome, gone, older, failovers>>

(* LLM.ADD --ID with an embedding, replicated at once.  With an index that *)
(* is null it ends in a failover.                                          *)
Put(i) ==
  /\ Change
  /\ index[current] # "null"
  /\ index' = [index EXCEPT ![current] = "ready"]
  /\ source' = Append(source, current)
  /\ store' = [store EXCEPT ![current][i] = Clock + 1]
  /\ rStore' = [rStore EXCEPT ![i] = Clock + 1]
  /\ UNCHANGED current

(* LLM.REM, replicated at once.                                            *)
Rem(i) ==
  /\ Change
  /\ store[current][i] # 0
  /\ store' = [store EXCEPT ![current][i] = 0]
  /\ rStore' = [rStore EXCEPT ![i] = 0]
  /\ UNCHANGED <<current, index, source>>

(* LLM.CREATE-VECTOR-STORE puts a new store at the key.                    *)
Replace ==
  /\ Change
  /\ current < MaxStores
  /\ current' = current + 1
  /\ rStore' = NoItems
  /\ UNCHANGED <<store, index, source>>

(* A replica that has received everything, or a restart from an AOF that   *)
(* has been written, takes over from a process that has died.  Explicit    *)
(* ids have not moved the id counter of its store, and the history of its  *)
(* chat is empty, for it is neither replicated nor saved.                  *)
Takeover ==
  /\ store' = [store EXCEPT ![current] = rStore]
  /\ \E x \in IF rStore = NoItems THEN {"none", index[current]} \ {"null"} ELSE {"ready"} :
       index' = [index EXCEPT ![current] = x]
  /\ idIdx' = [idIdx EXCEPT ![current] = 0]
  /\ source' = [v \in 1 .. Clock |->
                  IF \E i \in Ids : rStore[i] = v THEN current ELSE source[v]]
  /\ pending' = <<>> /\ latest' = <<>> /\ mtx' = 0 /\ gil' = 0
  /\ older' = {r \in Runs : pc[r] # "out"}
  /\ pc' = [r \in Runs |-> IF r \in Under THEN "done" ELSE pc[r]]
  /\ outcome' = [r \in Runs |-> IF r \in Under THEN "lost" ELSE outcome[r]]
  /\ holds' = [r \in Runs |-> 0] /\ role' = [r \in Runs |-> "user"]
  /\ found' = [r \in Runs |-> {}] /\ quoted' = [r \in Runs |-> {}]
  /\ gone' = [r \in Runs |-> {}]
  /\ UNCHANGED <<confVars, summed, current, rStore, odd, made, changes>>

Failover ==
  /\ failovers < MaxFailovers
  /\ failovers' = failovers + 1
  /\ Takeover

(* A summary follows the null pointer (assert is compiled out).            *)
SummarizeBreaks(r) ==
  /\ pc[r] = "summarize" /\ index[holds[r]] = "null"
  /\ Takeover
  /\ UNCHANGED failovers

Run(r) ==
  \/ TakeGil(r) \/ Resolve(r) \/ ResolveFails(r) \/ Lock(r)
  \/ Search(r) \/ SearchFails(r) \/ Quote(r) \/ QuotedAll(r)
  \/ Ask(r) \/ AskFails(r) \/ Forget(r)
  \/ Say(r) \/ Summarize(r) \/ SummarizeFails(r) \/ SummarizeThrows(r)
  \/ SummarizeBreaks(r) \/ Remember(r) \/ Replicate(r) \/ Unblock(r)

Done == (\A r \in Runs : pc[r] = "done") /\ UNCHANGED vars

Next ==
  \/ \E r \in Runs : Start(r) \/ Refuse(r) \/ Run(r)
  \/ \E i \in ClientIds : Put(i)
  \/ \E i \in Ids : Rem(i)
  \/ Replace \/ Failover \/ Done

Spec == Init /\ [][Next]_vars

(* Workers run, the requests to the LLM end (they have a timeout), and the *)
(* main thread answers who has been unblocked.  Who waits for a lock gets  *)
(* it once nobody else takes it any more.                                  *)
FairSpec == Spec /\ \A r \in Runs : WF_vars(Run(r))

-----------------------------------------------------------------------------
(* All that has been summarized, then all that is still to be.             *)
Transcript == summed \o pending

Kept(r) == outcome[r] = "ok" /\ r \notin older

(* A message is summarized once, also if the summary it was meant for has  *)
(* failed, and no message of an answered run is missing, unless the        *)
(* process has died since: it is in a summary or in line for the next one. *)
SummarizedOnce ==
  /\ IsInjective(Transcript)
  /\ kind = "chat" /\ summaryCnt > 0 =>
       \A m \in Messages : Kept(m.run) => m \in Range(Transcript)

(* A reply comes right after its input, and the input of an answered run   *)
(* right before its reply.                                                 *)
InPairs(s) ==
  \A k \in 1 .. Len(s) :
    /\ s[k].role = "assistant" /\ k > 1 => s[k - 1] = [role |-> "user", run |-> s[k].run]
    /\ s[k].role = "user" /\ Kept(s[k].run) =>
         k < Len(s) /\ s[k + 1] = [role |-> "assistant", run |-> s[k].run]

(* The runs of different clients do not mix, neither in the latest         *)
(* messages (whose first may have been dropped) nor in what is summarized. *)
RunsNotMixed == InPairs(latest) /\ InPairs(Transcript)

(* Once the run that has stored it is over, a summary that is at the key   *)
(* is on the replica, with two exceptions: a run that still held a         *)
(* replaced store has overwritten it there, with a summary the master      *)
(* never had at the key; or its own run has failed after it, which it can  *)
(* do only between its two summaries, and has replicated nothing.          *)
SummariesReplicated ==
  \A r \in Runs : outcome[r] # "none" =>
    \A p \in made[r] : store[current][p[1]] = p[2] =>
      \/ rStore[p[1]] = p[2]
      \/ rStore[p[1]] # 0 /\ source[rStore[p[1]]] # current
      \/ outcome[r] \in {"error", "never"} /\ made[r] = {p}

(* What was not at the key any more when a run began does not get into its *)
(* prompt: not a removed or overwritten item, not one of a replaced store, *)
(* although neighbours are found and read in separate steps.               *)
QuotedNotGone == \A r \in Runs : quoted[r] \intersect gone[r] = {}

Answered(r) == pc[r] = "done" /\ outcome[r] # "never"

(* A run is answered: no error path keeps a lock, and no run waits for one *)
(* while it holds the other, which its holder waits for.  Two kinds of     *)
(* runs are not: those of a search application whose variables are no      *)
(* object, and one of a chat that found no memory for the index.           *)
RunAnswered ==
  \A r \in Runs :
    r \in Under \ odd ~>
      \/ Answered(r)
      \/ outcome[r] = "never" /\ kind = "chat" /\ \E s \in Stores : index[s] = "null"

(* README.md:933-936: a run that fails gets an error reply.                *)
EveryRunAnswered == \A r \in Runs : r \in Under ~> Answered(r)

(* README.md:699, 703: each item has a unique id, generated if none is     *)
(* given.  What a chat has saved stays as long as nobody else touches the  *)
(* store.                                                                  *)
SummariesKept ==
  changes = 0 =>
    \A r \in Runs : outcome[r] = "ok" =>
      \A p \in made[r] : store[current][p[1]] = p[2]
=============================================================================
