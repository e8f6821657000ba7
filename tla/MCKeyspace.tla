----------------------------- MODULE MCKeyspace -----------------------------
(* An instance of Keyspace for TLC: two keys, so that a store has a model  *)
(* or an application next to it, a worker, and a store of one slot or two. *)
EXTENDS Keyspace

(* The second one asks for an empty pool of HTTP clients, and is refused.  *)
MCModelConfs ==
  {("api_key" :> "a") @@ ("sub_type" :> "b")
     @@ ("http" :> ("connect_timeout" :> [number |-> 2, unit |-> "s"])),
   ("api_key" :> "a") @@ ("http" :> ("pool" :> ("size" :> 0)))}
(* The last one is refused.                                                *)
MCStoreConfs == {EmptyObject, "max_elements" :> 2, "m" :> "text"}
MCAppConfs == {"prompt" :> "p"}
(* A text that is no JSON may be no UTF-8 either.                          *)
MCLlmTexts == {[json |-> TRUE, key |-> "m", params |-> "p"], [json |-> FALSE, key |-> "raw", params |-> "null"]}
==============================================================================
