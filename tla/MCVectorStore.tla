---------------------------- MODULE MCVectorStore ----------------------------
(* Instances of VectorStore for TLC: two callers, embeddings of sizes      *)
(* 0, 1 and 2, a capacity below the number of ids.                         *)
EXTENDS VectorStore, TLC

CONSTANTS t1, t2, d1, d2, e, v, w, x

MCSize == [y \in Vectors |-> IF y = e THEN 0 ELSE IF y = x THEN 2 ELSE 1]

Symmetry == Permutations({t1, t2}) \union Permutations({d1, d2})
==============================================================================
