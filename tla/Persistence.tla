----------------------------- MODULE Persistence -----------------------------
(***************************************************************************)
(* The values of the keys of the module, the commands that create and fill *)
(* them, and the two ways they are written to disk and read back: the RDB  *)
(* callbacks and the AOF rewrite of redis_llm.cpp, against the parsers of  *)
(* the commands.  No state: Keyspace puts the operators to use.            *)
(*                                                                         *)
(* A JSON object is a function from its fields.  What a text means is the  *)
(* value itself; an RDB file is the sequence of the fields written, which  *)
(* are read back by their position.  Whatever may throw an Error is a set: *)
(* of the one value it returns, or empty.                                  *)
(***************************************************************************)
EXTENDS Integers, FiniteSets, SequencesExt

CONSTANTS
  DefaultMaxElements,   \* max_elements of a store that does not set it
  Raw,        \* texts that are not UTF-8, which JSON can hold but not write
  Malformed   \* prompts that are no template, and other values of the options
              \* of an application whose constructor throws what is no Error

ASSUME DefaultAssumption == DefaultMaxElements \in Nat \ {0}

EmptyObject == <<>>

-----------------------------------------------------------------------------
(* LlmInfo: the key of a model, and parameters for it.                     *)

NoLlm == [key |-> "", params |-> "null"]

(* A text is either a key or {"key": ..., "params": ...}.                  *)
LlmInfo(text) ==
  [key |-> text.key, params |-> IF text.json THEN text.params ELSE "{}"]

LlmText(llm) == [json |-> TRUE, key |-> llm.key, params |-> llm.params]

-----------------------------------------------------------------------------
(* The objects and their factories                                         *)

(* An object that has just been constructed.                               *)
Fresh(kind, type, conf, llm) ==
  [kind |-> kind, type |-> type, conf |-> conf, llm |-> llm,
   idIdx |-> 0, dim |-> 0, labels |-> {}, items |-> EmptyObject, history |-> FALSE]

NoValue == Fresh("none", "", EmptyObject, NoLlm)

(* A time is a number with a unit; another unit, or none, is an Error.     *)
Readable(object, fields) ==
  \A f \in fields \intersect DOMAIN object : object[f].unit \in {"ms", "s", "m"}

(* An empty pool of HTTP clients is refused when it is constructed.        *)
PoolAccepts(pool) ==
  /\ Readable(pool, {"wait_timeout", "connection_lifetime"})
  /\ "size" \in DOMAIN pool => pool["size"] > 0

HttpAccepts(http) ==
  /\ Readable(http, {"socket_timeout", "connect_timeout"})
  /\ "pool" \in DOMAIN http => PoolAccepts(http["pool"])

(* The models, and what their constructors cannot do without.              *)
OpenAiAccepts(conf) ==
  /\ "api_key" \in DOMAIN conf
  /\ "http" \in DOMAIN conf => HttpAccepts(conf["http"])

AzureOpenAiAccepts(conf) ==
  /\ {"api_key", "resource_name", "chat_deployment_id", "embedding_deployment_id",
      "api_version"} \subseteq DOMAIN conf
  /\ "http" \in DOMAIN conf => HttpAccepts(conf["http"])

LlamaCppAccepts(conf) == "sub_type" \in DOMAIN conf

NewLlm(type, conf) ==
  IF \/ type = "openai" /\ OpenAiAccepts(conf)
     \/ type = "azure_openai" /\ AzureOpenAiAccepts(conf)
     \/ type = "llamacpp" /\ LlamaCppAccepts(conf)
    THEN {Fresh("llm", type, conf, NoLlm)}
    ELSE {}

(* An option of the index that is a number, for the model "number".        *)
StoreAccepts(conf) == \A f \in {"m", "ef_construction"} \intersect DOMAIN conf : conf[f] = "number"

NewStore(type, conf, llm) ==
  IF type = "hnsw" /\ StoreAccepts(conf) THEN {Fresh("store", type, conf, llm)} ELSE {}

AppBuilds(type, conf) ==
  \A f \in {"prompt", "history"} \intersect DOMAIN conf :
    conf[f] \in Malformed => f = "history" /\ type # "chat"

NewApp(type, conf, llm) ==
  IF type \in {"app", "search", "chat"} /\ AppBuilds(type, conf)
    THEN {Fresh("app", type, conf, llm)}
    ELSE {}

(* A chat in which something has been said.                                *)
Talked(app) == [app EXCEPT !.history = TRUE]

(* One that has forgotten it.                                              *)
Silent(app) == [app EXCEPT !.history = FALSE]

MaxElements(store) ==
  IF "max_elements" \in DOMAIN store.conf THEN store.conf["max_elements"]
                                          ELSE DefaultMaxElements

(* A store with other contents.                                            *)
Filled(store, idIdx, dim, labels, items) ==
  [kind |-> "store", type |-> store.type, conf |-> store.conf, llm |-> store.llm,
   idIdx |-> idIdx, dim |-> dim, labels |-> labels, items |-> items, history |-> FALSE]

(* The vectors of a store have the dimension of its first one.             *)
Stored(store, id, item) ==
  Filled(store, store.idIdx, Len(item.vec), store.labels \union {id},
         [i \in DOMAIN store.items \union {id} |-> IF i = id THEN item ELSE store.items[i]])

(* MUTANT of Added: the capacity is not tested. *)
AddedBeyondCapacity(store, id, item) ==
  IF Len(item.vec) > 0 /\ store.dim \in {0, Len(item.vec)}
    THEN {Stored(store, id, item)}
    ELSE {}

(* A removed item keeps its label, and with it its slot, until the process *)
(* ends.                                                                   *)
Added(store, id, item) ==
  IF /\ Len(item.vec) > 0 /\ store.dim \in {0, Len(item.vec)}
     /\ Cardinality(store.labels \union {id}) <= MaxElements(store)
    THEN {Stored(store, id, item)}
    ELSE {}

Removed(store, id) ==
  Filled(store, store.idIdx, store.dim, store.labels,
         [i \in DOMAIN store.items \ {id} |-> store.items[i]])

(* An automatic id has been drawn.                                         *)
Drawn(store, id) == Filled(store, id, store.dim, store.labels, store.items)

-----------------------------------------------------------------------------
(* The commands.  Options are parsed one by one, so the last one counts;   *)
(* an option the parser does not know ends the options, is taken for an    *)
(* argument and, since it has a value, makes one argument too many.        *)

Option(name, value) == [name |-> name, value |-> value]

NoArgs ==
  [opt |-> "NONE", type |-> "", conf |-> EmptyObject, llm |-> NoLlm, id |-> 0, vec |-> <<>>]

Field ==
  [name \in {"--PROMPT", "--HISTORY", "--VECTOR-STORE", "--K"} |->
     CASE name = "--PROMPT" -> "prompt"
       [] name = "--HISTORY" -> "history"
       [] name = "--VECTOR-STORE" -> "vector-store"
       [] name = "--K" -> "k"]

TakeOption(args, o) ==
  CASE o.name \in {"--NX", "--XX"} -> [args EXCEPT !.opt = o.name]
    [] o.name = "--TYPE" -> [args EXCEPT !.type = o.value]
    [] o.name = "--PARAMS" -> [args EXCEPT !.conf = o.value]
    [] o.name = "--LLM" -> [args EXCEPT !.llm = LlmInfo(o.value)]
    [] o.name = "--ID" -> [args EXCEPT !.id = o.value]
    [] o.name = "--EMBEDDING" -> [args EXCEPT !.vec = o.value]
    [] o.name \in DOMAIN Field -> [args EXCEPT !.conf = (Field[o.name] :> o.value) @@ @]
    [] OTHER -> args

Parsed(command, options, defaults, arity) ==
  IF /\ \A i \in DOMAIN command.options : command.options[i].name \in options
     /\ Len(command.arguments) = arity
    THEN {FoldLeft(TakeOption, defaults, command.options)}
    ELSE {}

ParseLlm(command) ==
  Parsed(command, {"--NX", "--XX", "--TYPE", "--PARAMS"}, [NoArgs EXCEPT !.type = "openai"], 0)

ParseStore(command) ==
  Parsed(command, {"--NX", "--XX", "--TYPE", "--PARAMS", "--LLM"},
         [NoArgs EXCEPT !.type = "hnsw"], 0)

ParseApp(command) ==
  Parsed(command, {"--NX", "--XX", "--LLM", "--PARAMS", "--PROMPT"},
         [NoArgs EXCEPT !.type = "app"], 0)

NeedsStore(parsed) == {args \in parsed : "vector-store" \in DOMAIN args.conf}

ParseChat(command) ==
  NeedsStore(Parsed(command, {"--NX", "--XX", "--LLM", "--PROMPT", "--HISTORY", "--VECTOR-STORE"},
                    [NoArgs EXCEPT !.type = "chat"], 0))

(* k is 3 unless it is given.                                              *)
ParseSearch(command) ==
  {[args EXCEPT !.conf = @ @@ ("k" :> 3)] :
     args \in NeedsStore(Parsed(command, {"--NX", "--XX", "--LLM", "--VECTOR-STORE", "--PROMPT", "--K"},
                                [NoArgs EXCEPT !.type = "search"], 0))}

ParseAdd(command) ==
  Parsed(command, {"--ID", "--EMBEDDING", "--TIMEOUT"}, NoArgs, 1)

Parse(command) ==
  CASE command.name = "LLM.CREATE-LLM" -> ParseLlm(command)
    [] command.name = "LLM.CREATE-VECTOR-STORE" -> ParseStore(command)
    [] command.name = "LLM.CREATE-APP" -> ParseApp(command)
    [] command.name = "LLM.CREATE-CHAT" -> ParseChat(command)
    [] command.name = "LLM.CREATE-SEARCH" -> ParseSearch(command)
    [] command.name = "LLM.ADD" -> ParseAdd(command)

(* create_key and key_exists: a key of another type is a WrongTypeError.   *)
MayCreate(old, kind, opt) ==
  /\ old.kind \in {"none", kind}
  /\ ~(opt = "--NX" /\ old.kind = kind)
  /\ ~(opt = "--XX" /\ old.kind = "none")

(* The new value of the key that a command names, whose value is `old'.    *)
Effect(command, old) ==
  UNION {
    CASE command.name = "LLM.CREATE-LLM" ->
           IF MayCreate(old, "llm", args.opt) THEN NewLlm(args.type, args.conf) ELSE {}
      [] command.name = "LLM.CREATE-VECTOR-STORE" ->
           IF MayCreate(old, "store", args.opt) THEN NewStore(args.type, args.conf, args.llm) ELSE {}
      [] command.name = "LLM.ADD" ->
           IF old.kind = "store"
             THEN Added(old, args.id, [data |-> command.arguments[1], vec |-> args.vec]) ELSE {}
      [] OTHER ->
           IF MayCreate(old, "app", args.opt) THEN NewApp(args.type, args.conf, args.llm) ELSE {}
    : args \in Parse(command)}

(* The command runs into an exception that is no Error, which nobody       *)
(* catches: it ends the process.                                           *)
Breaks(command, old) ==
  /\ command.name \in {"LLM.CREATE-APP", "LLM.CREATE-CHAT", "LLM.CREATE-SEARCH"}
  /\ \E args \in Parse(command) :
       MayCreate(old, "app", args.opt) /\ ~AppBuilds(args.type, args.conf)

-----------------------------------------------------------------------------
(* RDB.  A text that is not UTF-8 cannot be written as JSON: the Error ends *)
(* the save of the value, after the fields before it; Redis goes on with   *)
(* the next value.  Reading a field that is not there ends the process.    *)

(* The JSON of the --PARAMS is parsed, the other texts are taken as they   *)
(* come.                                                                   *)
Dumpable(conf) == \A f \in {"prompt", "vector-store"} \intersect DOMAIN conf : conf[f] \notin Raw

Writable(value) ==
  value.kind \in {"store", "app"} =>
    value.llm.key \notin Raw /\ (value.kind = "app" => Dumpable(value.conf))

SaveLlm(llm) == <<llm.type, llm.conf>>

LoadLlm(fields) == NewLlm(fields[1], fields[2])

SaveApp(app) ==
  IF app.llm.key \in Raw THEN <<app.type>>
  ELSE <<app.type, LlmText(app.llm)>> \o IF Dumpable(app.conf) THEN <<app.conf>> ELSE <<>>

LoadApp(fields) ==
  IF Len(fields) < 3 THEN {} ELSE NewApp(fields[1], fields[3], LlmInfo(fields[2]))

(* MUTANT of SaveStore: what is read first is written last. *)
SaveStoreSwapped(store) ==
  LET ids == SetToSeq(DOMAIN store.items)
      SaveItem(id) == <<id, store.items[id].data>> \o store.items[id].vec
  IN IF store.llm.key \in Raw THEN <<store.type, store.conf>>
     ELSE <<store.type, store.conf, LlmText(store.llm), store.dim, store.idIdx, Len(ids)>>
            \o FlattenSeq([n \in DOMAIN ids |-> SaveItem(ids[n])])

SaveStore(store) ==
  LET ids == SetToSeq(DOMAIN store.items)
      SaveItem(id) == <<id, store.items[id].data>> \o store.items[id].vec
  IN IF store.llm.key \in Raw THEN <<store.type, store.conf>>
     ELSE <<store.type, store.conf, LlmText(store.llm), store.idIdx, store.dim, Len(ids)>>
            \o FlattenSeq([n \in DOMAIN ids |-> SaveItem(ids[n])])

(* The n-th item of a file whose vectors have dim numbers.                 *)
LoadItem(fields, n, dim) ==
  LET at == 6 + (n - 1) * (dim + 2)
  IN [id |-> fields[at + 1],
      item |-> [data |-> fields[at + 2], vec |-> SubSeq(fields, at + 3, at + 2 + dim)]]

(* The items are added one by one; an add that throws fails the load.      *)
LoadEntry(loaded, entry) == UNION {Added(store, entry.id, entry.item) : store \in loaded}

LoadItems(stores, fields) ==
  FoldLeft(LoadEntry, stores, [n \in 1 .. fields[6] |-> LoadItem(fields, n, fields[5])])

LoadStore(fields) ==
  IF Len(fields) < 6 THEN {}
  ELSE LoadItems({Drawn(store, fields[4]) :
                    store \in NewStore(fields[1], fields[2], LlmInfo(fields[3]))}, fields)

Save(value) ==
  CASE value.kind = "llm" -> SaveLlm(value)
    [] value.kind = "store" -> SaveStore(value)
    [] value.kind = "app" -> SaveApp(value)
    [] value.kind = "none" -> <<>>

Load(kind, fields) ==
  CASE kind = "llm" -> LoadLlm(fields)
    [] kind = "store" -> LoadStore(fields)
    [] kind = "app" -> LoadApp(fields)
    [] kind = "none" -> {NoValue}

-----------------------------------------------------------------------------
(* The AOF rewrite: commands that are meant to create the values again.    *)

Command(name, key, options, arguments) ==
  [name |-> name, key |-> key, options |-> options, arguments |-> arguments]

RewriteLlm(key, llm) ==
  <<Command("LLM.CREATE-LLM", key,
            <<Option("--TYPE", llm.type), Option("--PARAMS", llm.conf)>>, <<>>)>>

RewriteItems(key, store) ==
  LET ids == SetToSeq(DOMAIN store.items)
  IN [n \in DOMAIN ids |->
        LET item == store.items[ids[n]] IN
        Command("LLM.ADD", key, <<Option("--WITHEMBEDDING", ids[n])>>, <<item.data, item.vec>>)]

RewriteStore(key, store) ==
  <<Command("LLM.CREATE-VECTOR-STORE", key,
            <<Option("--TYPE", store.type), Option("--PARAMS", store.conf)>>, <<>>)>>
    \o RewriteItems(key, store)

RewriteApp(key, app) ==
  IF ~Writable(app) THEN <<>>
  ELSE <<Command("LLM.CREATE-APP", key,
                 <<Option("--TYPE", app.type), Option("--LLM", LlmText(app.llm)),
                   Option("--PARAMS", app.conf)>>, <<>>)>>

Rewrite(key, value) ==
  CASE value.kind = "llm" -> RewriteLlm(key, value)
    [] value.kind = "store" -> RewriteStore(key, value)
    [] value.kind = "app" -> RewriteApp(key, value)
    [] value.kind = "none" -> <<>>

(* A command that is refused changes nothing.                              *)
Executed(value, command) ==
  LET new == Effect(command, value) IN
  IF new = {} THEN value ELSE CHOOSE v \in new : TRUE

(* What a server that executes the commands, starting with `old', has at   *)
(* their key.                                                              *)
Replay(commands, old) == FoldLeft(Executed, old, commands)
=============================================================================
