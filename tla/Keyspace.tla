------------------------------ MODULE Keyspace ------------------------------
(***************************************************************************)
(* The keys of the module and the objects behind them.  The main thread    *)
(* creates, replaces and deletes values; workers hold objects they have    *)
(* looked up and add to stores that may be replaced in the meantime; a     *)
(* forked child writes a snapshot or rewrites the AOF; the server crashes  *)
(* and loads what is on disk.                                              *)
(*                                                                         *)
(* An object lives as long as _object_pool or a worker has a shared_ptr to *)
(* it.  An add takes the mutex of the store for two steps, so that a fork  *)
(* may fall between them; everything else is an atomic step of the main    *)
(* thread, or of the child on its copy of the memory.  The main thread     *)
(* writes no file itself (SAVE): it would race with the workers.           *)
(***************************************************************************)
EXTENDS Persistence

CONSTANTS
  Keys,       \* names of keys
  StoreKeys, OtherKeys, \* BOUND: the keys where stores, and where models and
                        \* applications are created
  Ids,        \* BOUND: ids of items, an initial part of 1, 2, ...
  Data,       \* payloads
  Tasks,      \* the workers
  Objects,    \* BOUND: places for objects, reused when free
  ModelConfs, StoreConfs, AppConfs,   \* the --PARAMS tried
  LlmTexts,   \* the --LLM tried
  Prompts,    \* the --PROMPT tried
  Dims,       \* the dimensions of the embeddings given
  MaxForks,   \* BOUND: how many children are forked
  MaxCommands \* BOUND: how many commands are executed

ASSUME IdsAssumption == Ids = 1 .. Cardinality(Ids)
ASSUME BoundsAssumption == MaxForks \in Nat /\ MaxCommands \in Nat
ASSUME DimsAssumption == Dims \subseteq Nat
ASSUME StoreConfsAssumption ==   \* it is read as an unsigned number; BOUND: not 0
  \A conf \in StoreConfs : "max_elements" \in DOMAIN conf => conf["max_elements"] \in Nat \ {0}
ASSUME TextsAssumption ==        \* what has been parsed as JSON is UTF-8
  /\ \A text \in LlmTexts : text.json => text.key \notin Raw
  /\ \A conf \in AppConfs : Dumpable(conf)
ASSUME KeysAssumption == StoreKeys \union OtherKeys \subseteq Keys
ASSUME ObjectsAssumption ==
  /\ 0 \notin Objects
  /\ \E f \in [Keys -> Objects] : \A k, l \in Keys : f[k] = f[l] => k = l

VARIABLES
  keys,     \* [Keys -> the object at the key, NoObject if there is none]
  heap,     \* [Objects -> its value, NoValue if it has been destroyed]
  pool,     \* _object_pool
  task,     \* [Tasks -> what the worker is doing]
  child,    \* the forked child
  forks,    \* how many there have been
  issued,   \* how many commands have been executed
  file      \* the file on disk, and, for the properties, what it is an image of

vars == <<keys, heap, pool, task, child, forks, issued, file>>

NoObject == 0

Idle == [pc |-> "idle", store |-> NoObject, refs |-> {}]
NoChild == [writes |-> "nothing", image |-> [k \in Keys |-> NoValue], locked |-> {}]
NoFile == [format |-> "none", image |-> NoChild.image]

Value(k) == IF keys[k] = NoObject THEN NoValue ELSE heap[keys[k]]
Memory == [k \in Keys |-> Value(k)]

Alive(objects, tasks) == objects \union UNION {tasks[t].refs : t \in Tasks}

(* Memory that nothing refers to is destroyed.                             *)
Collect(memory, objects, tasks) ==
  [o \in Objects |-> IF o \in Alive(objects, tasks) THEN memory[o] ELSE NoValue]

Locked(o) == \E t \in Tasks : task[t].pc = "adding" /\ task[t].store = o

TypeOK ==
  /\ keys \in [Keys -> {NoObject} \union Objects]
  /\ pool \subseteq Objects
  /\ \A o \in Objects :
       /\ heap[o].kind \in {"none", "llm", "store", "app"}
       /\ DOMAIN heap[o].items \subseteq heap[o].labels
       /\ heap[o].labels \subseteq Ids /\ heap[o].idIdx \in Ids \union {0}
       /\ heap[o].kind = "store" => Cardinality(heap[o].labels) <= MaxElements(heap[o])
       /\ \A i \in DOMAIN heap[o].items : Len(heap[o].items[i].vec) = heap[o].dim
  /\ \A t \in Tasks :
       /\ task[t].pc \in {"idle", "working", "adding"}
       /\ task[t].refs \subseteq Objects /\ task[t].store \in {NoObject} \union Objects
  /\ child.writes \in {"nothing", "rdb", "aof"} /\ child.locked \subseteq Keys
  /\ forks \in 0 .. MaxForks /\ issued \in 0 .. MaxCommands
  /\ file.format \in {"none", "rdb", "aof"}

Init ==
  /\ keys = [k \in Keys |-> NoObject]
  /\ heap = [o \in Objects |-> NoValue]
  /\ pool = {}
  /\ task = [t \in Tasks |-> Idle]
  /\ child = NoChild /\ forks = 0 /\ issued = 0
  /\ file = NoFile

-----------------------------------------------------------------------------
(* The main thread                                                         *)

Free == Objects \ Alive(pool, task)

(* MUTANT of Put: the value that is replaced stays registered. *)
PutForgets(k, value) ==
  LET o == CHOOSE x \in Free : TRUE IN
    /\ Free # {}
    /\ keys' = [keys EXCEPT ![k] = o]
    /\ pool' = pool \union {o}
    /\ heap' = Collect([heap EXCEPT ![o] = value], pool', task)
    /\ UNCHANGED <<task, child, forks, file>>

(* A new object is registered and becomes the value of the key; Redis      *)
(* frees the old value, which unregisters it.                              *)
Put(k, value) ==
  LET o == CHOOSE x \in Free : TRUE IN
    /\ Free # {}
    /\ keys' = [keys EXCEPT ![k] = o]
    /\ pool' = (pool \ {keys[k]}) \union {o}
    /\ heap' = Collect([heap EXCEPT ![o] = value], pool', task)
    /\ UNCHANGED <<task, child, forks, file>>

Execute(command) == \E value \in Effect(command, Value(command.key)) : Put(command.key, value)

Condition == {<<>>, <<Option("--NX", "")>>, <<Option("--XX", "")>>}

CreateLlm(k) ==
  \E condition \in Condition, type \in {"openai", "llamacpp"}, conf \in ModelConfs :
    Execute(Command("LLM.CREATE-LLM", k,
                    condition \o <<Option("--TYPE", type), Option("--PARAMS", conf)>>, <<>>))

CreateVectorStore(k) ==
  \E condition \in Condition, conf \in StoreConfs, text \in LlmTexts :
    Execute(Command("LLM.CREATE-VECTOR-STORE", k,
                    condition \o <<Option("--PARAMS", conf), Option("--LLM", text)>>, <<>>))

(* The common handler of LLM.CREATE-APP, -SEARCH and -CHAT.                *)
AppCommands(k) ==
  {Command("LLM.CREATE-APP", k, condition \o <<Option("--LLM", text), Option("--PARAMS", conf)>>, <<>>) :
     condition \in Condition, text \in LlmTexts, conf \in AppConfs}
  \union
  {Command(name, k, condition \o <<Option("--LLM", text), Option("--VECTOR-STORE", s),
                                  Option("--PROMPT", prompt)>>, <<>>) :
     name \in {"LLM.CREATE-SEARCH", "LLM.CREATE-CHAT"},
     condition \in Condition, text \in LlmTexts, s \in StoreKeys, prompt \in Prompts}

CreateApp(k) == \E command \in AppCommands(k) : Execute(command)

(* DEL, UNLINK, expiry: Redis calls the free callback.                     *)
Delete(k) ==
  /\ keys[k] # NoObject
  /\ keys' = [keys EXCEPT ![k] = NoObject]
  /\ pool' = pool \ {keys[k]}
  /\ heap' = Collect(heap, pool', task)
  /\ UNCHANGED <<task, child, forks, file>>

(* LLM.ADD with --EMBEDDING and --ID; it waits for the mutex of the store. *)
AddSync(k, id, item) ==
  /\ ~Locked(keys[k])
  /\ \E value \in Effect(Command("LLM.ADD", k,
                                 <<Option("--ID", id), Option("--EMBEDDING", item.vec)>>,
                                 <<item.data>>), Value(k)) :
       heap' = [heap EXCEPT ![keys[k]] = value]
  /\ UNCHANGED <<keys, pool, task, child, forks, file>>

Rem(k, id) ==
  /\ Value(k).kind = "store" /\ ~Locked(keys[k])
  /\ id \in DOMAIN Value(k).items
  /\ heap' = [heap EXCEPT ![keys[k]] = Removed(Value(k), id)]
  /\ UNCHANGED <<keys, pool, task, child, forks, file>>

-----------------------------------------------------------------------------
(* The workers                                                             *)

(* MUTANT of AddAsync: the worker is given plain pointers. *)
AddAsyncUncounted(t, k) ==
  LET model == Value(k).llm.key IN
  /\ task[t] = Idle /\ Value(k).kind = "store"
  /\ model \in Keys /\ Value(model).kind = "llm"
  /\ task' = [task EXCEPT ![t] = [pc |-> "working", store |-> keys[k], refs |-> {}]]
  /\ UNCHANGED <<keys, heap, pool, child, forks, file>>

(* A run of a chat leaves its messages in the chat.                        *)
Chat(k) ==
  /\ Value(k).kind = "app" /\ Value(k).type = "chat" /\ ~Value(k).history
  /\ heap' = [heap EXCEPT ![keys[k]] = Talked(Value(k))]
  /\ UNCHANGED <<keys, pool, task, child, forks, file>>

(* LLM.ADD without --EMBEDDING: the store and its model are looked up, and *)
(* the worker gets a shared_ptr to each.                                   *)
AddAsync(t, k) ==
  LET model == Value(k).llm.key IN
  /\ task[t] = Idle /\ Value(k).kind = "store"
  /\ model \in Keys /\ Value(model).kind = "llm"
  /\ task' = [task EXCEPT ![t] =
                [pc |-> "working", store |-> keys[k], refs |-> {keys[k], keys[model]}]]
  /\ UNCHANGED <<keys, heap, pool, child, forks, file>>

Finish(t, memory) ==
  /\ task' = [task EXCEPT ![t] = Idle]
  /\ heap' = Collect(memory, pool, task')

(* The model fails; nothing has been done.                                 *)
EmbedFails(t) ==
  /\ task[t].pc = "working"
  /\ Finish(t, heap)
  /\ UNCHANGED <<keys, pool, child, forks, file>>

LockStore(t) ==
  /\ task[t].pc = "working" /\ ~Locked(task[t].store)
  /\ task' = [task EXCEPT ![t].pc = "adding"]
  /\ UNCHANGED <<keys, heap, pool, child, forks, file>>

(* The item is in the store, under an id of its own or the next automatic  *)
(* one (drawn even if the store then refuses the item), or is refused.     *)
Add(t, item) ==
  LET o == task[t].store IN
  /\ task[t].pc = "adding"
  /\ \E auto \in BOOLEAN, id \in Ids :
       LET drawn == IF auto THEN Drawn(heap[o], id) ELSE heap[o]
           stored == Added(drawn, id, item)
       IN /\ auto => id = heap[o].idIdx + 1
          /\ Finish(t, [heap EXCEPT ![o] =
                          IF stored = {} THEN drawn ELSE CHOOSE v \in stored : TRUE])
  /\ UNCHANGED <<keys, pool, child, forks, file>>

-----------------------------------------------------------------------------
(* Persistence                                                             *)

(* BGSAVE or BGREWRITEAOF: the child has a copy of the memory, mutexes     *)
(* that workers hold included, and no workers.                             *)
Fork(format) ==
  /\ child = NoChild /\ forks < MaxForks
  /\ forks' = forks + 1
  /\ child' = [writes |-> format, image |-> Memory,
               locked |-> {k \in Keys : keys[k] # NoObject /\ Locked(keys[k])}]
  /\ UNCHANGED <<keys, heap, pool, task, file>>

(* Each item of a store is read with `get', which takes the mutex.         *)
Stuck == \E k \in child.locked : child.image[k].items # EmptyObject

ChildWrites ==
  /\ child # NoChild /\ ~Stuck
  /\ file' = [format |-> child.writes, image |-> child.image]
  /\ child' = NoChild
  /\ UNCHANGED <<keys, heap, pool, task, forks>>

Saved(image, k) == Load(image[k].kind, Save(image[k]))
Rewritten(image, k) == Replay(Rewrite(k, image[k]), NoValue)

(* What a server has after it has loaded the file.                         *)
Loaded(k) ==
  CASE file.format = "none" -> {NoValue}
    [] file.format = "rdb" -> Saved(file.image, k)
    [] file.format = "aof" -> {Rewritten(file.image, k)}

(* Where the loader puts them.                                             *)
Place == CHOOSE f \in [Keys -> Objects] : \A k, l \in Keys : f[k] = f[l] => k = l

(* The process dies with its child and starts again, unless there is a     *)
(* value in the file that cannot be loaded.                                *)
Restart ==
  /\ \E value \in [Keys -> UNION {Loaded(k) : k \in Keys}] :
       /\ \A k \in Keys : value[k] \in Loaded(k)
       /\ keys' = [k \in Keys |-> IF value[k].kind = "none" THEN NoObject ELSE Place[k]]
       /\ heap' = [o \in Objects |->
                     IF \E k \in Keys : keys'[k] = o
                       THEN value[CHOOSE k \in Keys : keys'[k] = o] ELSE NoValue]
  /\ pool' = {keys'[k] : k \in Keys} \ {NoObject}
  /\ task' = [t \in Tasks |-> Idle]
  /\ child' = NoChild
  /\ UNCHANGED <<forks, file>>

(* LLM.CREATE-... ends the process.                                        *)
CreateAppBreaks(k) == \E command \in AppCommands(k) : Breaks(command, Value(k)) /\ Restart

Items == {[data |-> d, vec |-> [n \in 1 .. dim |-> d]] : d \in Data, dim \in Dims}

MainThread ==
  \/ \E k \in StoreKeys : CreateVectorStore(k)
  \/ \E k \in OtherKeys : CreateLlm(k) \/ CreateApp(k) \/ CreateAppBreaks(k)
  \/ \E k \in Keys : Delete(k)
  \/ \E k \in Keys, id \in Ids : Rem(k, id) \/ \E item \in Items : AddSync(k, id, item)
  \/ \E t \in Tasks, k \in Keys : AddAsync(t, k)

Next ==
  \/ /\ issued < MaxCommands /\ issued' = issued + 1
     /\ MainThread
  \/ /\ \/ \E t \in Tasks : EmbedFails(t) \/ LockStore(t) \/ \E item \in Items : Add(t, item)
        \/ \E k \in Keys : Chat(k)
        \/ \E format \in {"rdb", "aof"} : Fork(format)
        \/ ChildWrites
        \/ Restart
     /\ UNCHANGED issued

Spec == Init /\ [][Next]_vars

-----------------------------------------------------------------------------
(* What is registered is what the keys hold, one object for each: no value *)
(* is freed under a key, and none is kept after its key (the free          *)
(* callbacks, redis_llm.cpp:251, and the failing paths of LLM.CREATE-...).  *)
PoolIsKeyspace ==
  /\ pool = {keys[k] : k \in Keys} \ {NoObject}
  /\ \A k, l \in Keys : keys[k] = keys[l] /\ keys[k] # NoObject => k = l
  /\ \A o \in pool : heap[o].kind # "none"

(* The store a worker is adding to has not been destroyed, whatever        *)
(* happened to its key since it was looked up (add_command.cpp:48).        *)
NoUseAfterFree == \A t \in Tasks : task[t].pc # "idle" => heap[task[t].store].kind = "store"

(* What a reload gives back: all of a value but the slots of items that    *)
(* were removed, the dimension of a store without items, and what was said *)
(* in a chat, of which only the summaries in its store are saved.          *)
Reloaded(value) ==
  CASE value.kind = "store" ->
         Filled(value, value.idIdx, IF value.items = EmptyObject THEN 0 ELSE value.dim,
                DOMAIN value.items, value.items)
    [] value.kind = "app" -> Silent(value)
    [] value.kind \in {"llm", "none"} -> value

(* A value whose texts are all UTF-8 can be loaded from a snapshot,        *)
(* whatever was in memory when it was taken, and comes back as it was:     *)
(* fields are read in the order in which they were written                 *)
(* (redis_llm.cpp:461-574), every item is accepted again, and automatic    *)
(* ids go on where they were.  One with another text, which its command    *)
(* had accepted (utils.cpp:30), makes a file that cannot be loaded.        *)
SnapshotRestores ==
  file.format = "rdb" =>
    \A k \in Keys : Saved(file.image, k) =
      IF Writable(file.image[k]) THEN {Reloaded(file.image[k])} ELSE {}

(* Every command the AOF rewrite emits is one its parser accepts.          *)
EmittedCommandsAreKnown ==
  file.format = "aof" =>
    \A k \in Keys : LET commands == Rewrite(k, file.image[k]) IN
      \A n \in DOMAIN commands : Parse(commands[n]) # {}
=============================================================================
