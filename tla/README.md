# redis-llm: a verification project in TLA+

redis-llm is a Redis module: vector stores, LLM models and applications are
values of Redis keys, and commands (`LLM.ADD`, `LLM.KNN`, `LLM.RUN`, ...) work
on them. The main thread of Redis runs the commands one by one; what has to
talk to an LLM is handed to a pool of worker threads while the client stays
blocked. This directory holds models of that code in TLA+, TLC configurations
that check them, and proofs that TLAPS checks. Paths below are relative to
`src/src/sw/redis-llm/` unless they begin with `src/`.

## 1. The system: components, state, interactions

| component | code | state | operations | model |
|---|---|---|---|---|
| vector store and HNSW index | `vector_store.*`, `hnsw.*`, `src/deps/hnswlib/hnswalg.h` | `_data_store`, `_dim`, `_id_idx`, `_mtx`; `_space`, `_hnsw` with its slots, labels, deletion marks | `add` (two forms), `rem`, `get`, `data`, `knn` | `VectorStore` |
| worker pool | `worker_pool.*` | task queue, `_quit`, mutex, condition variable, threads | `enqueue`, `_run`, destructor | `WorkerPool` |
| HTTP client pool | `http_client.*` | idle clients, number of clients, creation times, handles | `fetch`, `release`, `post`, `reconnect` | `HttpClientPool` |
| LLM.ADD, LLM.REM, LLM.GET, LLM.KNN | `add_command.*`, `rem_command.*`, `get_command.*`, `knn_command.*`, `command.cpp` | blocked clients, results under way, the replication stream | the handlers, reply, timeout and free callbacks | `CommandFlow`, `CommandFlowProofs` |
| LLM.RUN and the applications | `run_command.*`, `simple_application.*`, `search_application.*`, `chat_application.*`, `chat_history.*` | blocked clients; of a chat the latest messages, the messages to be summarized, `_mtx` | `run`, `add`, `history`, the reply | `Applications`, `ApplicationsProofs` |
| keys and LLM.CREATE-* | `create_*_command.*`, `module_api.*`, `redis_llm.*` | the keyspace, `_object_pool` | parsing, NX / XX, replace, delete, free | `Persistence`, `Keyspace`, `KeyspaceProofs` |
| persistence | `redis_llm.cpp` | RDB file and AOF | save, load, AOF rewrite | `Persistence`, `Keyspace`, `KeyspaceProofs` |
| LLM.SIZE | `size_command.*` | none of its own | | not modelled |
| LLM models | `llm_model.*`, `openai.*`, `azure_openai.*`, `llama_cpp.*` | none that changes | construction; predict, chat, embedding | `Persistence` (what a constructor accepts); a choice: an answer or an Error |

Interactions. A command on the main thread looks up a key, keeps a
`shared_ptr` to the object, blocks the client and enqueues a task
(`WorkerPool::enqueue`, which may refuse). The worker calls the model, which
borrows an HTTP client (`SafeClient`), then calls the store under the store's
own mutex; it takes the global lock of Redis only in the applications. It ends
with `RedisModule_UnblockClient`; the main thread later runs the reply callback
(which also replicates) or, for a client that has left, only the free callback.

What is hard here: the workers change a store while the main thread runs other commands;
an operation has effects (index, payload map, reply, replication) that do not happen at
the same time; failures are exceptions of two kinds, `Error` which is caught, and the
rest which is caught by nobody or by a future nobody reads; an add may fail in the index
with its label already registered; clients leave; condition variables are notified after
the unlock. `PROJECT.json` lists these hazards at their lines, each with the properties
that cover it.

What makes each part correct:
- store: the payload map and the index name the same items whenever the lock is free,
  apart from what a failed `addPoint` has left; every vector has one dimension; capacity
  is never exceeded; every call takes effect at one instant;
- worker pool: every accepted task runs exactly once, none is overslept, a
  shutdown drains the queue;
- HTTP pool: no client is lost, shared, or used without a handle; no waiter
  is overlooked; lifetimes are respected;
- commands: an answer tells what happened to the store, the replication stream
  holds what was acknowledged, every client is answered;
- applications: what was gone when a run began is not quoted in its prompt; the
  messages of a chat are kept in order and summarized once, what a run stored is
  replicated before it is answered, every run ends;
- keyspace: an object lives as long as a key or a worker refers to it, and no
  longer; a key keeps its type;
- persistence: what is saved can be loaded and is what was in memory (if its texts
  are UTF-8); what the
  AOF rewrite emits is a command the module accepts.

## 2. The modules

`VectorMap` (abstract) and `VectorStore` (detailed). `VectorMap` is what a
caller may rely on: one map on which each call takes effect at one instant
between its invocation and its response. `VectorStore` follows the code from
`Lock` to `Unlock`, one action for each member that is written, since an
operation may stop in between (wrong dimension, full index, failed allocation)
and other code reads some members without the lock. The state is that of the
C++ members; `slot`, `vector` and `count` abstract the index to what a caller
can tell (the graph is left out: a search returns any choice of at most k live
labels). `HasRoom`, `AddPoint`, `AddPointFails`, `IndexFull` are `addPoint`; `MarkDelete` is
`markDelete`; `LazilyInit` and `NullIndex` are the two ways a missing index
shows. `AddPointFails` is `addPoint` throwing after it has registered the label
and written the vector (`hnswalg.h:1094-1158`; 1025 when a label is reused): no
memory for the links, which is every call if the option `m` is 1 (`mult_` is then
`1/log(1)`), or a link or a level out of range. `_add` makes it an `Error`, the
payload is not stored, nobody takes the label back: `torn` are the labels left so,
until an add of that id succeeds. `TornIndex`: a later add or search may follow the
links that such an entry has not got. `crashed` ends the process: there, or where a
null pointer is followed (the assertion at `hnsw.cpp:68` is compiled
out of the default build). The refinement mapping
at the end of `VectorStore` gives an add its effect when the vector enters the
index, and a removal when the label is marked; in `VectorMap` an add that fails in the
index leaves its embedding and not its data (`HalfStored`), and the operations say
what they then return: `knn` finds the id, `data` does not, `rem` does not reach it.

`TaskQueue` (abstract) and `WorkerPool` (detailed). `TaskQueue` is what the
commands expect of the pool. `WorkerPool` adds the condition variable: a
worker that sleeps is in `wait`, a woken one in `test` (it is about to test the
predicate under the mutex); `NotifyOne` is a step of its own because the code
notifies after the unlock; wakeups may be spurious. `Stop`, `NotifyAll`,
`Join` are the destructor, which may come at any time. The tasks in `locking` have
yet to take the global lock of Redis (`LLM.RUN` of a search or a chat), which is to be
had only while the main thread sleeps (`TakeLock`). The destructor runs on the main
thread (the pool belongs to a static object, `redis_llm.cpp:79`, which `exit` destroys):
a worker that meets it with such a task hangs, and the join with it (`Hung`).

`HttpClientPool`. A critical section of `_mutex` is one step. `Create`,
`CreateFails`, `Sleep`, `PickIdle` are the four ways a `fetch` can begin,
`PickAfterWait`, `SleepAgain`, `Expire`, `GiveUp` the end of a wait, `Keep`,
`Reconnect`, `ReconnectFails` what happens to the client outside the mutex.
`broken` is a missing handle, `old` is `_create_time` too far back; `stale` is
a ghost: the age of the connection itself, which a reconnection renews although
`_create_time` is left as it was.

`CommandFlow` composes the parts by what they promise: the pool is an instance of
`TaskQueue` and a store operation is one atomic step, which the two refinements justify.
It follows `LLM.ADD` with and without `--EMBEDDING`, with and without `--ID` (`NoId`);
`LLM.KNN` with and without `--EMBEDDING`; `LLM.REM`; `LLM.GET` with its two separate
reads. Any blocked client may time out or leave: a timeout that never comes is as good
as none. A call inside `MULTI` or a script is `barred`: `RedisModule_BlockClient` has
answered an error, the handler enqueues its task all the same, and the worker does what
it says (`Defer`). An add may be `Refused` with nothing done, or fail in the index
half-way (`HalfStored`, as in `VectorMap`), after which the index may break any add or
search (`AddBreaks`, `SearchBreaks`). Calls are numbered as the main thread meets them,
and the number stands for the data and the embedding of the call; its negative for the
embedding with six decimals, which is what `std::to_string` leaves of it for the replica
of an asynchronous add (`Embedding`). `ReplicateAdd` is the replica executing the
command it is sent (or a server loading the AOF). `Timeout`, `Disconnect` and
`HandleUnblocked` are Redis, modelled from how the callbacks rely on it (external); the
replica is assumed to have memory for its index and no failures in it. `Stray` is what a
worker reads through the `string_view` in `AddCommand::Args` when Redis has freed the
arguments.

The proof modules `VectorStoreProofs`, `VectorStoreRefinement`,
`WorkerPoolProofs`, `HttpClientPoolProofs`, `CommandFlowProofs`,
`ApplicationsProofs`, `KeyspaceProofs` extend the module in their name;
`FoldProofs` holds what is needed about folds over sequences. The
`MC*` modules instantiate the others for TLC. Definitions marked `MUTANT of` in
a comment are faulty versions of a definition, kept to show that each property
can fail: put in place of the original, TLC finds the property violated.

`Applications`. A run (`LLM.RUN`) of any of the three types. `Start` and `Refuse` are
`_run` on the main thread, `Leave` the end of `_run_impl`. A simple application goes
straight to its prompt (`Ask`). Search and chat take the global lock (`TakeGil`; `gil`),
look their store up and give the lock back (`Resolve`, `ResolveFails`), and keep the
store (`holds`) while clients replace it at its key (`Replace`), write to it (`Put`) and
remove from it (`Rem`). `Search` finds neighbours, `Quote` reads each of them in a step
of its own and leaves out one that is gone, as `_get_similar_items` and
`_get_history_summary` do. A chat does all of this, the calls of the LLM included, under
its `_mtx`, from `Lock` to `Replicate` (which needs the global lock again) or to the
error that ends the run. The main thread, which holds the global lock whenever it runs,
takes part only while no run has it. `Say` puts a message in line for the next summary,
`Summarize` stores one, `Remember` keeps the message among the latest ones; once for the
input, once for the reply. `Failover` is the death of the process: a replica, or a
restart from the AOF, takes over with what had been replicated, with an id counter that
explicit ids have not moved, and an empty history. Then runs that come later work on it.
A message is the run it belongs to and its role; a text in a store is a number, and
`source` says which store it was written to. Two ghosts make loss, duplication, mixing
and stale quotes visible: `summed`, the messages summed up so far, in order, and `gone`,
the texts that were not at the key when a run began. `summaryCnt` is chosen at the
start, 0 included (no summaries). `Malformed` runs are those of a search whose `--VARS`
is JSON but no object: `Forget` is the exception nobody catches. `SummarizeThrows` is
another, on the way to the first summary of a store whose index cannot be allocated; the
outcome of both is "never", and the next summary in that store follows the null pointer
(`SummarizeBreaks`), which is a failover. That a summary fails in the index half-way, or
the index breaks because of it, is left to `CommandFlow`.

`Persistence` has no state: it is the values of the three types, the parsers of the
commands that create and fill them, what the RDB callbacks write and read, and what the
AOF rewrite emits. A file is the sequence of fields, read back by position; a command is
a name, a sequence of options and its arguments, parsed option by option as the code
does; a model is created if the constructor of its type accepts its options, down to the
units of times and the size of the pool of HTTP clients (`OpenAiAccepts`, `HttpAccepts`,
`PoolAccepts`, ...), a store if the options of its index are numbers (`StoreAccepts`).
An operator that may throw returns a set, empty if it does. Texts in `Raw` are not
UTF-8: the parsers take them (`utils.cpp:30`), `dump()` refuses them, and the save of
that value stops between two fields (`SaveStore`, `SaveApp`, `Writable`), or the rewrite
emits nothing (`RewriteApp`). Texts in `Malformed` are prompts that are no template, and
options of another type: their exception is no `Error` (`Breaks`). `history` says
whether something has been said in a chat; it is part of the value and not of any file.

`Keyspace` puts them to work. `keys` are pointers, `heap` the objects, `pool` is
`_object_pool`, `task` holds the references of the workers. `Put` is
`RedisModule_ModuleTypeSetValue`, which calls the free callback of the old value;
`Collect` is `shared_ptr`. `AddSync` and `Rem` wait for the mutex of the store as
the code does; that an add fails in the index half-way is left to `VectorStore` and
`CommandFlow`. `Chat` is a run that leaves its messages in a chat. `Fork`, `ChildWrites`
and `Restart` are Redis (external): the child
has a copy of the memory, with the mutexes that were locked, and a restart loads
the file, if every value in it can be loaded; otherwise the server does not come up.
A command that breaks (`CreateAppBreaks`) is a restart too. `Saved` and `Rewritten` are
what a load gives back. `Stuck` is a child that waits for a mutex a worker held when
it was forked: it never writes, and no other child is forked.

## 3. The runs

Bounds are constants, each marked `BOUND` where it is declared.

| run | question | instance, and why it is enough |
|---|---|---|
| `store` | do payload map and index agree, is capacity kept, is the store linearizable? | 2 threads (one lock: a third adds no new order of two critical sections), 3 ids for 2 slots (so that the index gets full, also with removed items), embeddings of size 0, 1, 2, two payloads, an index that may not be allocated, adds that may fail in it; symmetric in threads and payloads; 3,365,100 states |
| `workers` | all of the pool, and that it implements `TaskQueue` | 3 workers, a queue of 3, 5 tasks, each of which may take the global lock, so the queue fills up, several workers sleep or wait for the lock, and a shutdown meets every one of these situations; 31,054 states |
| `http_pool` | all of the HTTP pool | 3 threads for 2 clients, two calls each: threads wait, overtake each other, time out, and meet broken and old clients |
| `commands` | do answers and replication tell what happened? | 3 calls, 2 workers, a queue of 1 (refusals), 2 slots (a full store), one id that automatic ids run into; one call in a transaction; 3 calls are an add, its removal and a search, or three adds for two slots; 7.2 million states |
| `commands_live` | is every client answered? | 2 calls, 2 workers; 74,292 states |
| `applications` | are messages kept, in order, summarized once and replicated; is nothing quoted that was gone; is every run answered? | the three types; 3 runs by 2 workers (a third run that begins after another has ended; two are enough to interleave), 2 stores one after the other, one change by another client, one failover, a summary after each message, after 3 or never, the latest 3 messages: summaries span runs, runs fail at each call, the oldest message is dropped, a run holds a store that has been replaced; the index may not be allocated; 694,706 states |
| `keyspace` | are objects alive while used, does a snapshot give back what was saved? | 2 keys, a store at one, a model or an application at the other, two options of a model (one with an empty HTTP pool, which is refused), texts that are UTF-8, are not, and are no template, one worker, 2 ids, a store of one slot or two, 5 commands (a model, a store, an add, a removal, and a replacement or a deletion), one child; 496,754 states |
| `store_index_asserted`, `commands_replay_id`, `chat_failover`, `run_forgotten`, `keyspace_rewrite` | expected violations, see section 6 | as small as the counterexample allows |

Deadlock is checked in every run but those of `Keyspace`: where the modelled activity
ends, an action of its own (`Done`, `Dead`) says so. `Keyspace` may really stop: with all
commands given, the child stuck or gone, and a file on disk that no server can load.

Fairness. `VectorStore`: none. `WorkerPool`: workers are scheduled, a notification under
way is sent, and a task returns unless it waits for the global lock: its other waits are
requests to the LLM (with a timeout) or for a mutex that another task holds. The global
lock it gets while the main thread sleeps in its event loop, which is where the main
thread is whenever it executes nothing, and not once the destructor runs. Nothing
obliges the main thread to enqueue. `HttpClientPool`: a thread that is not waiting goes
on, `curl_easy_perform` returns because `CURLOPT_TIMEOUT_MS` is set for every request (5
s by default; a `socket_timeout` of `"0s"` would mean no limit, and `WaitEnds` and
`RunAnswered` would no longer be justified); timeouts of waits are NOT assumed, since
`wait_timeout` is 0 by default, so `WaitEnds` does not lean on them. It does lean on the
bound on calls: `_wait_for_client` is not fair, and with unbounded calls a thread may be
overtaken for ever. `CommandFlow`: commands return, workers run; unblocked clients are
handled by Redis in every round of its event loop, so even though other commands keep
the main thread busy now and then: strong fairness. No client has to come, leave or time
out. `Applications`: workers run and requests to the LLM end (the same timeout); who
waits for `_mtx` or the global lock gets it once others no longer take it, which the
bounds on runs and changes see to; no run has to come, nobody has to change a store.
`Keyspace`: none.

## 4. What the properties say

- `IndexAgrees`: payloads and live labels are the same items, but for labels in `torn`,
  which a failed add has left; `UniformDimension`, `SlotAccounting`, `Linearizable` (store);
  `MutualExclusion`: the lock is held exactly by the thread inside, so every way out,
  errors included, gives it back; `NothingWithoutIndex` is only proved;
- `ExactlyOnce`, `NoTaskOverslept`, `DrainedAtExit`, `ImplementsTaskQueue`,
  `EveryTaskRuns`: every task runs, also during a shutdown, but for one that still needs
  the global lock then, and those behind it if every worker hangs in one; `StopEnds`:
  the destructor returns if no such task is left (workers); `InOrder` and
  `QueueBounded`, which `ImplementsTaskQueue` contains, are only proved;
- `Conservation`, `NeverBroken`, `NoClientOverlooked`, `FreshWhenKept`,
  `WaitEnds` (HTTP clients);
- `AnswerTells`: "ok" means stored under the id, "error" means no item stored; what an
  error does not tell is part of its comment: a failed add may leave its embedding in the
  index, and a call refused inside `MULTI` or a script is carried out all the same;
  `ReplicatedIffAcknowledged`: an add whose client left is in the store and is
  not replicated, every other success is; `ReplicaCounterBehind`,
  `UncontendedReplicated`, `NamedSyncReplicated`: how far a replica can be
  trusted; `OnePlace` and `AnsweredUnlessNoIndex`: no blocked client is
  forgotten; `RemovedNotFound`:
  the index keeps removed items, a search does not show them; `GetTornOnlyByAsync`:
  only an asynchronous add can come between the two reads of LLM.GET;
  `NothingAcknowledgedWithoutIndex` is only proved;
- `SummarizedOnce`: no message is in two summaries, and none of an answered run is in no
  summary and not in line for the next one, unless the process has died since;
  `RunsNotMixed`: input and reply of a run stay next to each other; both although
  summaries fail half-way and workers run the chat at the same time;
  `SummariesReplicated`: a summary at the key is on the replica once its run is over,
  however it ended, unless a run that still held a replaced store has overwritten it
  there, or its run has failed between its two summaries and replicated neither;
  `QuotedNotGone`: the separate reads of a search do not bring back what was gone when
  it began; `RunAnswered`: every run of every type is answered, no way out keeps a lock,
  and the two locks are not waited for crosswise; the exceptions are the two exceptions
  that are no `Error` (applications);
- `PoolIsKeyspace`, `NoUseAfterFree` (keyspace); `SnapshotRestores`: a snapshot gives
  back all of a value whose texts are UTF-8, but the slots of removed items, the
  dimension of an empty store and what was said in a chat; exactly the others cannot be
  loaded.

Each definition has a comment with its statement and the code it is about.

## 5. The proofs

TLAPS proves, for every number of threads, workers, clients, ids, and every
capacity, under the assumptions on constants named in the modules:

- `VectorStoreProofs`: `Invariant` (`Spec => []IInv`), and from it `TypeCorrect`,
  `IndexAgreement`, `DimensionUniform`, `SlotsCounted`, `LockGivenBack`. `IndexAgrees`
  speaks of the moments when the lock is free; it is not inductive. `Agreement` extends
  it to the moments inside: payload and label agree for every item except the one an
  operation is half-way through, and that one has the label the operation gave it; a
  live label without payload is in `torn`. `Requested` and `NotEmpty` remember what the
  request of a thread must be at each step; `Dimension` and `Empty` tie the dimension to
  the index. `SlotAccounting` needs the cardinality lemmas for the labels.
- `VectorStoreRefinement`: `Linearizability`, `Spec => Map!Spec`. One lemma for
  each group of actions shows the step of the map it is (or a stutter). `Seen`,
  the map as callers see it, takes the payload of the item being stored from the
    request and not from `_data_store`, which is why an unfinished add can already
  count. An add that fails in the index is a step of the map too (`RefineAddPointFails`).
- `WorkerPoolProofs`: `TypeCorrect`, `TasksRunOnce` (order, exactly once,
  bound), `NoLostWakeup`, `ShutdownDrains` and `PoolIsQueue`, the step part of
  the refinement to `TaskQueue`. `NoTaskOverslept` is inductive only together
  with the counts of workers that are testing.
- `HttpClientPoolProofs`: `TypeCorrect`, `ClientsConserved`, `ClientUsable`,
  `NoLostWakeup`, `LifetimeKept`. The inductive invariant adds at which steps a
  thread holds a client, and that a client that is not `old` is not `stale`.
- `CommandFlowProofs`: every safety property the run `commands` checks, for any
  set of workers, queue size, number of commands, ids and capacity:
  `TypeCorrect`, `AnswersTellWhatHappened`, `ReplicatedExactly`,
  `CounterBehind`, `ReplicaKeepsUncontended`, `ReplicaIsMaster`,
  `RemovedStaysNotFound`, `BlockedInOnePlace`, `GetSeesOneItem`, and
  `NoIndexNoAcknowledgement`. The
  inductive invariant `IInv` adds to the properties
  - `Bookkeeping`: a call is with the main thread, in the queue, with one worker
    or among the unblocked clients, in this order and nowhere twice, and leaves
    no trace before its time. Without it an error could follow a stored item;
  - `Counted`: the automatic ids given out, those still to be asked for, and
    those replicated, against the counters of master and replica. The type of the
    counters, and `ReplicaCounterBehind`, are not inductive without it;
    - `StoredStays`, `AddedAfterRemoval`, `EmptyUnlessReady`, `InIndex`, `NobodyForgotten`:
    what is stored, what the index holds beyond it, and who waits, at the moments between
    storing and answering.

  One lemma (`...Step`) shows for each part that every step keeps it. They rest on
  a few lemmas that say who may change a variable at all (`WriteBy`, `ReplyBy`,
  `ShippedBy`, `PoolMoves`, `WhoCounts`). `NoId` need only differ from every
  number (`IdsAssumption`). TLC found the parts of `IInv` to hold on the instance
  of the run `commands` before they were proved.

- `ApplicationsProofs`: every safety property the run `applications` checks, for
  any number of workers, runs, stores, changes and failovers, any `summary_cnt`,
  `msg_ctx_cnt` and number of neighbours: `TypeCorrect`, `NothingGoneQuoted`,
  `SummariesReachReplica`, `AllSummarizedOnce`, `RunsStaySeparate`. None of the
  properties is inductive; the invariant has four parts:
  - `ControlInv`: the run inside a chat is the one that holds `_mtx` (`Locking`),
    whoever uses a store has looked one up (`Holding`), an automatic id is one of
    at most two for each run (`Counted`, with the cardinality of `Drawn`);
  - `ReadInv`: what was gone when a run began is not at the key while it looks its
    store up, nor in that store afterwards (`Fresh`);
  - `SummaryInv`: the summaries of the run inside the chat are the latest of all
    (`MadeLast`), each under an id of its own, in the store it holds, and nothing
    older is where one was put (`MadeHere`): so what it replicates is the newest. A run has
    stored one summary at most before the step for the reply (`MadeFew`), which is why a
    run that failed leaves no more than one behind;
  - `HistoryInv`: which messages of a run are in the transcript and among the
    latest ones at each of its steps (`SaidOnly`, `SaidThere`, `RememberedOnly`),
    that the input of an open run is the last message (`SaidLast`), and that every
    other input is followed by its reply or belongs to a run that failed (`Pairs`).

  `HistorySteps` sums up what a step may do to the history, so that each part has
  four cases and not one for each action. TLC found all parts to hold on the instance of
  the run `applications` before they were proved.
- `KeyspaceProofs`: every invariant the run `keyspace` checks, for any keys, workers,
  places for objects, options, payloads, dimensions and number of commands:
  `ObjectsAreTheKeys`, `WorkersHoldTheirStore`, `TypeCorrect`, `SnapshotsRestore`; and
  `RewritesLose`, which says exactly what a rewritten AOF gives back: models as they
  were, stores without items, model and automatic ids, no application (`Remade`).
  The inductive invariant `IInv` has two parts:
  - `MemoryInv`: `PoolIsKeyspace` is inductive only together with what workers hold
    (`HoldsStore`) and, across `Collect`, with the fact that adding to a store or
    removing from it leaves a store; `HeapIsGood` says of each object that it is one
    commands or a file can have made (`GoodValue`): a store has no more labels than
    `max_elements`, the items have labels and one dimension, the LLM info is one that
    survives being written as a text;
    - `DiskInv`: so are the copies of the child and the file. A reload yields such a
    value again (`LoadedIsGood`), which carries the invariant across a restart.

  `SnapshotsRestore` rests on `RoundTrip`, a fact about `Save` and `Load` alone. For a
  store: the fields are where the loader looks for them (`SaveStoreFields`: the items
  are written one after the other with as many fields each as `_dim` says), and after
  each item the loader holds the first items of the file and a label for each
  (`StoreRoundTrip`), so that none is refused for its dimension or for lack of a slot. A
  value with a text that is not UTF-8 has fewer fields than its loader reads.

  Parsing options, loading items, joining fields and replaying commands are folds.
  `FoldProofs` shows that a fold of the community modules is the last of a list of
  intermediate results (`FoldAccumulates`), and gives induction on a position in the
  form of a set that contains 0 and successors (`NatSetInduction`, from the well-founded
  order of the naturals), since a lemma cannot take an operator. The operator folded is a
  constant of the module: `KeyspaceProofs` has an instance of it for each fold
  (`Options`, `Entries`, `Commands`, `Pieces`).

  Assumptions: dimensions are numbers, the bounds too, there is a place for an object
  for each key, and what has been parsed as JSON is UTF-8 (`TextsAssumption`).
  `max_elements` is an unsigned number in the code; that it is not 0 is a bound of the
  model: the first add to a store without any slot fails after it has set `_dim` and
  built the index (`vector_store.cpp:30`), which `Added` leaves out. TLC found `IInv`
  and `Remade` to hold on the instance of the run `keyspace` before they were proved.

Only model-checked: liveness (TLAPS does not handle fairness and `ENABLED` here), that is
`EveryTaskRuns`, `StopEnds`, `WaitEnds`, `AnsweredUnlessNoIndex`, `RunAnswered`,
and the fairness part of `ImplementsTaskQueue`. Every other property of a passing run is
proved.

## 6. Where the code and its documentation disagree

Each is a run TLC must find violated, with the statement it contradicts.

- `IndexAsserted`: `_dim` and `_space` are set before the index is built. If
  building it throws, every later add of that dimension reaches
  `assert(_hnsw)` (`hnsw.cpp:68`) with a null pointer.
- `SummariesKept`: automatic ids come from a counter that explicit ids do not move.
  Summaries are replicated with explicit ids, so after a failover, or a restart from the
  AOF, the next summary of the chat is given the id of an earlier one and overwrites it;
  an `LLM.ADD` without `--ID` overwrites an item a client has named in the same way
  (`src/README.md:253`, `:699`, `:703`).
- `EveryRunAnswered`: `LLM.RUN` of a search with `--VARS` that is JSON but no object
  throws an exception of the JSON library, which is not an `Error`: it ends the task and
  leaves the client blocked (`src/README.md:933`). An `LLM.ADD` whose index cannot be
  allocated is lost the same way, which is the exception in `AnsweredUnlessNoIndex`.
- `AcknowledgedIdReplayed`: an automatic add is replicated without its id and in
  another order than ids were drawn (`src/README.md:711`).
- `EmittedCommandsAreKnown`: the AOF rewrite emits `LLM.ADD ... --WITHEMBEDDING`
  (`redis_llm.cpp:593`) and `LLM.CREATE-APP ... --TYPE` (`:383`), which the parsers
  refuse (`src/README.md:696`, `create_app_command.h:27`): items and applications
  are lost. Of a store it also drops `--LLM` and the counter of automatic ids.
  `RewritesLose` proves that this is all that is lost, and that it always is.

Seen while modelling, without a run of their own: a removed item keeps its slot, so a
store that holds fewer than `max_elements` items may refuse one as full
(`src/README.md:473`; in the model: `HasRoom`); an `LLM.REM` executed between the store
and the reply of an asynchronous `LLM.ADD` is replicated before it; `LLM.GET` reads data
and embedding under two locks, so the two may be of different items
(`src/README.md:767`; `GetData`, `Store`, `GetVector`), but only by an asynchronous add
(`GetTornOnlyByAsync`); a child forked while a worker is inside a store hangs on the
first item it writes (`Stuck`), and Redis then starts no other one; `Stray`; a run that
has looked up its store before it was replaced adds its summary to the old store and
replicates it to the new one (`chat_application.cpp:82`; the exception in
`SummariesReplicated`); embeddings are replicated with six decimals (`std::to_string`),
so those of a replica are rounded (`Embedding`); an add that fails in the index leaves
its embedding there, and with `--PARAMS '{"m":1}'` every add does (`AddPointFails`);
inside `MULTI` or a script `LLM.ADD` and `LLM.KNN` answer an error and are carried out
all the same (`Defer`), the item not replicated; a server that exits while an `LLM.RUN`
waits for the global lock hangs (`Hung`); a run that fails at its reply leaves the
summary of its input on the master only; a text that is not UTF-8 is taken at creation
and makes an RDB file no server can load; a `--PROMPT` that is no template ends the
process; `src/README.md:325` shows `LLM.RUN` with `--LLM`, which its parser does not
take, and `run_command.h:27` options it has not got.

## 7. What is not modelled, and why

- In `CommandFlow`, missing keys, wrong types and malformed arguments: rejected
  before any state changes (wrong types and options are in `Persistence`).
  `std::bad_alloc` other than in the construction of the index.
- The HNSW graph and distances: which items are nearest is not a matter of
  state; the search may return any live items.
- The dimension of a query of `knn`: it is not compared with the store's
  (hazard `vector_store.cpp:98`); which memory then decides the distances is undefined,
  and the search of the model returns any live items.
- `SAVE` and a full resynchronization from the main thread, where the payload map is
  iterated while workers add to it (`redis_llm.cpp:507`): a data race without any
  outcome to rely on; `Keyspace` saves from a child only.
- A failure of `addPoint` between `cur_element_count++` and the registration of the label
  (`hnswalg.h:1095-1096`, `std::bad_alloc` of a map) which leaks a slot.
- `LLM.SIZE`: reads the size of the payload map without the lock.
- Building and parsing of HTTP messages and of prompts: text, no state. The timeout of
  `LLM.RUN` cannot be set; a client that disconnects during a run, or is refused inside
  `MULTI` or a script, is as in `CommandFlow`: the worker does not notice.
- An asynchronous add to a store that is replaced meanwhile is in `Keyspace`, its
  replication in `CommandFlow`: no module has both (for summaries `Applications` has).
- Moving an `HttpClientPool`: done before it is shared.
- Vendored libraries, `embedding_model.*` (used by no command).

## 8. Plan

In this order; the abstract specifications worth stating are `VectorMap` and
`TaskQueue`.

1. done: `VectorMap`, `VectorStore` and its proofs; `TaskQueue`, `WorkerPool`
   and its proofs; `HttpClientPool` and its proofs; `CommandFlow` and its proofs;
   `Applications`; `Persistence` and `Keyspace`.
2. done: proofs about `Applications` and `Keyspace`, those about the files included:
   all that a passing run checks is proved, but for liveness.
3. `CommandFlow` with several stores: an add to a store that has been replaced is
   acknowledged and replicated to the new one.
