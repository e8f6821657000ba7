--------------------------- MODULE KeyspaceProofs ---------------------------
(***************************************************************************)
(* The objects behind the keys, and what the files give back, for any      *)
(* keys, workers, places for objects, values and commands: all the         *)
(* invariants of Keyspace, and what a rewritten AOF loses.                 *)
(*                                                                         *)
(* An object holds what a sequence of commands or a file has made of it    *)
(* (GoodValue).  Parsing, saving, loading and replaying are folds over     *)
(* sequences: FoldProofs turns each of them into the list of what has been *)
(* computed after each element, and the properties follow by induction on  *)
(* the position in that list.                                              *)
(***************************************************************************)
EXTENDS Keyspace, SequenceTheorems, FiniteSetTheorems, TLAPS

-----------------------------------------------------------------------------
(* Folds                                                                   *)

Concat(s, t) == s \o t

Options == INSTANCE FoldProofs WITH Op <- TakeOption, Last <- Max
Entries == INSTANCE FoldProofs WITH Op <- LoadEntry, Last <- Max
Commands == INSTANCE FoldProofs WITH Op <- Executed, Last <- Max
Pieces == INSTANCE FoldProofs WITH Op <- Concat, Last <- Max

(* The elements of a fold are taken from the last one backwards.           *)
LEMMA MaxIsGreatest ==
  ASSUME NEW n \in Nat, NEW s \in SUBSET (1 .. n), s # {}
  PROVE  Max(s) \in s /\ \A x \in s : x <= Max(s)
<1> DEFINE HasMax == {m \in Nat : \A t \in SUBSET (1 .. m) :
                         t # {} => \E x \in t : \A y \in t : x >= y}
<1>1. 0 \in HasMax
  <2>1. \A t \in SUBSET (1 .. 0) : t = {}
    OBVIOUS
  <2> QED BY <2>1
<1>2. ASSUME NEW m \in Nat, m \in HasMax PROVE m + 1 \in HasMax
  <2> SUFFICES ASSUME NEW t \in SUBSET (1 .. m + 1), t # {} PROVE \E x \in t : \A y \in t : x >= y
    OBVIOUS
  <2>1. CASE m + 1 \in t
    BY <2>1
  <2>2. CASE m + 1 \notin t
    <3>1. t \in SUBSET (1 .. m)
      BY <2>2
    <3> QED BY <1>2, <3>1
  <2> QED BY <2>1, <2>2
<1>3. Nat \subseteq HasMax
  <2> HIDE DEF HasMax
  <2> QED BY <1>1, <1>2, Options!NatSetInduction
<1>4. \E x \in s : \A y \in s : x >= y
  BY <1>3
<1>5. Max(s) \in s /\ \A x \in s : Max(s) >= x
  BY <1>4 DEF Max
<1>6. \A x \in s : x \in Int
  OBVIOUS
<1> QED BY <1>5, <1>6

(* The options of a command, one after the other.                          *)
LEMMA OptionsFold ==
  ASSUME NEW base, NEW seq, NEW n \in Nat, DOMAIN seq = 1 .. n
  PROVE  \E acc : Options!Accumulates(acc, base, seq, n) /\ acc[n] = FoldLeft(TakeOption, base, seq)
<1> DEFINE iter == CHOOSE f : Options!Iterates(f, base, seq, n)
<1>1. FoldLeft(TakeOption, base, seq) = iter[1 .. n]
  BY DEF FoldLeft, MapThenFoldSet, Options!Iterates
<1>2. Options!LastIsGreatest(n)
  BY MaxIsGreatest DEF Options!LastIsGreatest
<1>3. Options!Iterates(iter, base, seq, n)
  BY <1>2, Options!FoldExists
<1> HIDE DEF iter
<1> QED BY <1>1, <1>2, <1>3, Options!FoldAccumulates

(* The items of a snapshot, one after the other.                           *)
LEMMA EntriesFold ==
  ASSUME NEW base, NEW seq, NEW n \in Nat, DOMAIN seq = 1 .. n
  PROVE  \E acc : Entries!Accumulates(acc, base, seq, n) /\ acc[n] = FoldLeft(LoadEntry, base, seq)
<1> DEFINE iter == CHOOSE f : Entries!Iterates(f, base, seq, n)
<1>1. FoldLeft(LoadEntry, base, seq) = iter[1 .. n]
  BY DEF FoldLeft, MapThenFoldSet, Entries!Iterates
<1>2. Entries!LastIsGreatest(n)
  BY MaxIsGreatest DEF Entries!LastIsGreatest
<1>3. Entries!Iterates(iter, base, seq, n)
  BY <1>2, Entries!FoldExists
<1> HIDE DEF iter
<1> QED BY <1>1, <1>2, <1>3, Entries!FoldAccumulates

(* The commands of an AOF, one after the other.                            *)
LEMMA CommandsFold ==
  ASSUME NEW base, NEW seq, NEW n \in Nat, DOMAIN seq = 1 .. n
  PROVE  \E acc : Commands!Accumulates(acc, base, seq, n) /\ acc[n] = FoldLeft(Executed, base, seq)
<1> DEFINE iter == CHOOSE f : Commands!Iterates(f, base, seq, n)
<1>1. FoldLeft(Executed, base, seq) = iter[1 .. n]
  BY DEF FoldLeft, MapThenFoldSet, Commands!Iterates
<1>2. Commands!LastIsGreatest(n)
  BY MaxIsGreatest DEF Commands!LastIsGreatest
<1>3. Commands!Iterates(iter, base, seq, n)
  BY <1>2, Commands!FoldExists
<1> HIDE DEF iter
<1> QED BY <1>1, <1>2, <1>3, Commands!FoldAccumulates

(* FlattenSeq is not written as a fold, but computes one.                  *)
LEMMA FlattenIsFold ==
  ASSUME NEW rows, NEW n \in Nat \ {0}, Len(rows) = n, NEW S, \A i \in 1 .. n : rows[i] \in Seq(S)
  PROVE  \E acc : Pieces!Accumulates(acc, <<>>, rows, n) /\ acc[n] = FlattenSeq(rows)
<1> DEFINE Flattens(f) == f = [i \in 1 .. n |-> IF i = 1 THEN rows[i] ELSE f[i - 1] \o rows[i]]
           flatten == CHOOSE f : Flattens(f)
<1>1. FlattenSeq(rows) = flatten[n]
  BY DEF FlattenSeq
<1>2. PICK iter : Pieces!Iterates(iter, <<>>, rows, n)
  BY MaxIsGreatest, Pieces!FoldExists DEF Pieces!LastIsGreatest
<1>3. PICK acc : Pieces!Accumulates(acc, <<>>, rows, n)
  BY <1>2, MaxIsGreatest, Pieces!FoldAccumulates DEF Pieces!LastIsGreatest
<1>4. acc[0] = <<>> /\ \A i \in 1 .. n : acc[i] = acc[i - 1] \o rows[i]
  BY <1>3 DEF Pieces!Accumulates, Concat
<1>5. acc[1] = rows[1]
  <2>1. 1 \in 1 .. n /\ 1 - 1 = 0
    OBVIOUS
  <2>2. acc[1] = acc[1 - 1] \o rows[1]
    BY <1>4, <2>1
  <2>3. acc[1] = <<>> \o rows[1]
    BY <1>4, <2>1, <2>2
  <2>4. rows[1] \in Seq(S)
    BY <2>1
  <2> QED BY <2>3, <2>4, ConcatEmptySeq
<1> DEFINE f == [i \in 1 .. n |-> acc[i]]
<1>6. \A i \in 1 .. n : f[i] = IF i = 1 THEN rows[i] ELSE f[i - 1] \o rows[i]
  <2> SUFFICES ASSUME NEW i \in 1 .. n PROVE f[i] = IF i = 1 THEN rows[i] ELSE f[i - 1] \o rows[i]
    OBVIOUS
  <2>1. CASE i = 1
    BY <1>5, <2>1
  <2>2. CASE i # 1
    <3>1. i - 1 \in 1 .. n
      BY <2>2
    <3>2. f[i - 1] = acc[i - 1] /\ f[i] = acc[i]
      BY <3>1
    <3> HIDE DEF f
    <3> QED BY <1>4, <2>2, <3>2
  <2> QED BY <2>1, <2>2
<1>7. Flattens(f)
  BY <1>6
<1>8. Flattens(flatten)
  <2> HIDE DEF Flattens, f
  <2> QED BY <1>7
<1> HIDE DEF flatten, f
<1> DEFINE acc2 == [i \in 0 .. n |-> IF i = 0 THEN <<>> ELSE flatten[i]]
<1>9. \A i \in 1 .. n : flatten[i] = IF i = 1 THEN rows[i] ELSE flatten[i - 1] \o rows[i]
  BY <1>8
<1>10. n \in Nat /\ n >= 1 /\ \A i \in 0 .. n : acc2[i] = IF i = 0 THEN <<>> ELSE flatten[i]
  OBVIOUS
<1> HIDE DEF acc2
<1>11. acc2[0] = <<>> /\ acc2[n] = flatten[n]
  <2>1. 0 \in 0 .. n /\ n \in 0 .. n /\ n # 0
    BY <1>10
  <2> QED BY <1>10, <2>1
<1>12. ASSUME NEW i \in 1 .. n PROVE acc2[i] = acc2[i - 1] \o rows[i]
  <2>1. i \in 0 .. n /\ i - 1 \in 0 .. n /\ i # 0
    BY <1>10
  <2>2. CASE i = 1
    <3>1. acc2[i] = rows[i] /\ acc2[i - 1] = <<>>
      BY <1>9, <1>10, <2>1, <2>2
    <3> QED BY <3>1, ConcatEmptySeq
  <2>3. CASE i # 1
    <3>1. acc2[i] = flatten[i] /\ acc2[i - 1] = flatten[i - 1]
      BY <1>10, <2>1, <2>3
    <3> QED BY <1>9, <2>3, <3>1
  <2> QED BY <2>2, <2>3
<1>13. Pieces!Accumulates(acc2, <<>>, rows, n)
  BY <1>11, <1>12 DEF Pieces!Accumulates, Concat
<1> QED BY <1>1, <1>11, <1>13

-----------------------------------------------------------------------------
(* Lists                                                                   *)

(* The order in which the items of a store are iterated.                   *)
LEMMA SetToSeqLists ==
  ASSUME NEW D, IsFiniteSet(D)
  PROVE  LET ids == SetToSeq(D)
             n == Cardinality(D)
         IN  /\ n \in Nat
             /\ ids \in [1 .. n -> D]
             /\ \A i, j \in 1 .. n : ids[i] = ids[j] => i = j
             /\ \A d \in D : \E i \in 1 .. n : ids[i] = d
             /\ Len(ids) = n
<1> DEFINE n == Cardinality(D)
           ids == SetToSeq(D)
<1>1. n \in Nat /\ ExistsBijection(1 .. n, D)
  BY FS_CardinalityType
<1>2. \E f \in [1 .. n -> D] : IsInjective(f)
  BY <1>1 DEF ExistsBijection, Bijection, Injection, IsInjective
<1>3. ids \in [1 .. n -> D] /\ IsInjective(ids)
  BY <1>2 DEF SetToSeq
<1> HIDE DEF ids
<1>4. \A i, j \in 1 .. n : ids[i] = ids[j] => i = j
  BY <1>3 DEF IsInjective
<1>5. ids \in Injection(1 .. n, D)
  BY <1>3, <1>4 DEF Injection
<1>6. IsFiniteSet(1 .. n) /\ Cardinality(1 .. n) = n
  BY <1>1, FS_Interval
<1>7. ids \in Surjection(1 .. n, D)
  BY <1>5, <1>6, FS_Injection
<1>8. \A d \in D : \E i \in 1 .. n : ids[i] = d
  BY <1>7 DEF Surjection
<1>9. Len(ids) = n
  BY <1>1, <1>3
<1> QED BY <1>1, <1>3, <1>4, <1>8, <1>9 DEF ids

LEMMA NextRow ==
  ASSUME NEW m \in Nat, NEW w \in Nat
  PROVE  m * w \in Nat /\ m * w + w = (m + 1) * w
OBVIOUS

(* A row ends before the last one does.                                    *)
LEMMA EarlierRow ==
  ASSUME NEW m \in Nat, NEW w \in Nat, NEW k \in 1 .. m
  PROVE  (k - 1) * w \in Nat /\ (k - 1) * w + w <= m * w
<1>1. k - 1 \in Nat /\ m - k \in Nat
  OBVIOUS
<1>2. m = (k - 1) + 1 + (m - k)
  OBVIOUS
<1>3. (k - 1) * w \in Nat /\ (m - k) * w \in Nat
  BY <1>1
<1>4. m * w = (k - 1) * w + w + (m - k) * w
  BY <1>1, <1>2
<1> QED BY <1>3, <1>4

(* The rows, all of the same length, follow each other in flat.            *)
Tiled(flat, rows, n, w, S) ==
  /\ flat \in Seq(S) /\ Len(flat) = n * w
  /\ \A k \in 1 .. n, j \in 1 .. w : flat[(k - 1) * w + j] = rows[k][j]

Uniform(rows, n, w, S) ==
  rows \in [1 .. n -> Seq(S)] /\ \A i \in 1 .. n : Len(rows[i]) = w

LEMMA FlattenTiles ==
  ASSUME NEW S, NEW rows, NEW n \in Nat, NEW w \in Nat, Uniform(rows, n, w, S)
  PROVE  Tiled(FlattenSeq(rows), rows, n, w, S)
<1>0. rows \in [1 .. n -> Seq(S)] /\ \A i \in 1 .. n : Len(rows[i]) = w
  BY DEF Uniform
<1> USE <1>0
<1> SUFFICES /\ FlattenSeq(rows) \in Seq(S) /\ Len(FlattenSeq(rows)) = n * w
             /\ \A k \in 1 .. n, j \in 1 .. w : FlattenSeq(rows)[(k - 1) * w + j] = rows[k][j]
  BY DEF Tiled
<1>1. Len(rows) = n
  BY <1>0
<1>2. CASE n = 0
  <2>1. FlattenSeq(rows) = rows
    BY <1>1, <1>2 DEF FlattenSeq
  <2>2. rows \in Seq(S)
    BY <1>2
  <2>3. 0 * w = 0
    OBVIOUS
  <2> QED BY <1>1, <1>2, <2>1, <2>2, <2>3
<1>3. CASE n # 0
  <2>1. n \in Nat \ {0} /\ \A i \in 1 .. n : rows[i] \in Seq(S)
    BY <1>3
  <2>2. PICK acc : Pieces!Accumulates(acc, <<>>, rows, n) /\ acc[n] = FlattenSeq(rows)
    BY <1>1, <2>1, FlattenIsFold
  <2>3. acc[0] = <<>> /\ \A i \in 1 .. n : acc[i] = acc[i - 1] \o rows[i]
    BY <2>2 DEF Pieces!Accumulates, Concat
  <2> DEFINE Done == {m \in Nat : m <= n =>
               /\ acc[m] \in Seq(S) /\ Len(acc[m]) = m * w
               /\ \A k \in 1 .. m, j \in 1 .. w : acc[m][(k - 1) * w + j] = rows[k][j]}
  <2>4. 0 \in Done
    <3>1. 0 * w = 0 /\ 1 .. 0 = {}
      OBVIOUS
    <3>2. acc[0] \in Seq(S) /\ Len(acc[0]) = 0
      BY <2>3
    <3> QED BY <3>1, <3>2
  <2>5. ASSUME NEW m \in Nat, m \in Done PROVE m + 1 \in Done
    <3> SUFFICES ASSUME m + 1 <= n
                 PROVE  /\ acc[m + 1] \in Seq(S) /\ Len(acc[m + 1]) = (m + 1) * w
                        /\ \A k \in 1 .. m + 1, j \in 1 .. w : acc[m + 1][(k - 1) * w + j] = rows[k][j]
      OBVIOUS
    <3>1. /\ acc[m] \in Seq(S) /\ Len(acc[m]) = m * w
          /\ \A k \in 1 .. m, j \in 1 .. w : acc[m][(k - 1) * w + j] = rows[k][j]
      BY <2>5
    <3> HIDE DEF Done
    <3>2. m + 1 \in 1 .. n /\ rows[m + 1] \in Seq(S) /\ Len(rows[m + 1]) = w
      BY <2>1
    <3>3. acc[m + 1] = acc[m] \o rows[m + 1]
      <4>1. acc[m + 1] = acc[(m + 1) - 1] \o rows[m + 1]
        BY <2>3, <3>2
      <4>2. (m + 1) - 1 = m
        OBVIOUS
      <4> QED BY <4>1, <4>2
    <3>4. m * w \in Nat /\ m * w + w = (m + 1) * w
      BY NextRow
    <3>5. /\ acc[m + 1] \in Seq(S) /\ Len(acc[m + 1]) = m * w + w
          /\ \A i \in 1 .. m * w + w :
               acc[m + 1][i] = IF i <= m * w THEN acc[m][i] ELSE rows[m + 1][i - m * w]
      <4> DEFINE s1 == acc[m]
                 s2 == rows[m + 1]
      <4>1. /\ s1 \in Seq(S) /\ s2 \in Seq(S) /\ Len(s1) = m * w /\ Len(s2) = w
            /\ acc[m + 1] = s1 \o s2
        BY <3>1, <3>2, <3>3
      <4> HIDE DEF s1, s2
      <4>2. /\ s1 \o s2 \in Seq(S) /\ Len(s1 \o s2) = Len(s1) + Len(s2)
            /\ \A i \in 1 .. Len(s1) + Len(s2) :
                 (s1 \o s2)[i] = IF i <= Len(s1) THEN s1[i] ELSE s2[i - Len(s1)]
        BY <4>1, ConcatProperties
      <4>3. /\ acc[m + 1] \in Seq(S) /\ Len(acc[m + 1]) = m * w + w
            /\ \A i \in 1 .. m * w + w :
               acc[m + 1][i] = IF i <= m * w THEN s1[i] ELSE s2[i - m * w]
        BY <4>1, <4>2
      <4> QED BY <4>3 DEF s1, s2
    <3>6. ASSUME NEW k \in 1 .. m, NEW j \in 1 .. w PROVE acc[m + 1][(k - 1) * w + j] = rows[k][j]
      <4> DEFINE before == (k - 1) * w
                 all == m * w
      <4>1. before \in Nat /\ before + w <= all /\ all \in Nat
        BY <3>4, EarlierRow
      <4> HIDE DEF before, all
      <4>2. before + j \in 1 .. all + w /\ before + j <= all
        BY <4>1
      <4> USE DEF before, all
      <4> QED BY <3>1, <3>5, <4>2
    <3>7. ASSUME NEW j \in 1 .. w PROVE acc[m + 1][m * w + j] = rows[m + 1][j]
      <4> DEFINE x == m * w
      <4>1. x \in Nat /\ x + j \in 1 .. x + w /\ ~(x + j <= x) /\ (x + j) - x = j
        <5>1. x \in Nat
          BY <3>4
        <5> HIDE DEF x
        <5> QED BY <5>1
      <4> QED BY <3>5, <4>1
    <3>8. \A k \in 1 .. m + 1 : k \in 1 .. m \/ k = m + 1
      OBVIOUS
    <3>9. (m + 1) - 1 = m
      OBVIOUS
    <3>10. ASSUME NEW k \in 1 .. m + 1, NEW j \in 1 .. w PROVE acc[m + 1][(k - 1) * w + j] = rows[k][j]
      BY <3>6, <3>7, <3>8, <3>9
    <3> QED BY <3>4, <3>5, <3>10
  <2>6. n \in Done
    <3> HIDE DEF Done
    <3>1. Nat \subseteq Done
      BY <2>4, <2>5, Pieces!NatSetInduction
    <3> QED BY <3>1
  <2> QED BY <2>2, <2>6
<1> QED BY <1>2, <1>3

-----------------------------------------------------------------------------
(* A store, saved and loaded                                               *)

IsLlmInfo(llm) == llm = [key |-> llm.key, params |-> llm.params]

(* A store that commands have made and filled.                             *)
GoodStore(value) ==
  /\ value = Filled(value, value.idIdx, value.dim, value.labels, value.items)
  /\ value.type = "hnsw" /\ StoreAccepts(value.conf) /\ IsLlmInfo(value.llm)
  /\ MaxElements(value) \in Nat
  /\ value.idIdx \in Ids \union {0} /\ value.dim \in Nat
  /\ value.labels \subseteq Ids /\ IsFiniteSet(value.labels)
  /\ Cardinality(value.labels) <= MaxElements(value)
  /\ DOMAIN value.items \subseteq value.labels
  /\ value.items = [i \in DOMAIN value.items |-> value.items[i]]
  /\ \A i \in DOMAIN value.items :
       value.items[i] \in Items /\ Len(value.items[i].vec) = value.dim /\ value.dim > 0

LEMMA ItemsType ==
  ASSUME NEW item \in Items
  PROVE  /\ item = [data |-> item.data, vec |-> item.vec]
         /\ item.data \in Data /\ item.vec \in Seq(Data)
<1>1. PICK d \in Data, dim \in Dims : item = [data |-> d, vec |-> [n \in 1 .. dim |-> d]]
  BY DEF Items
<1>2. dim \in Nat
  BY DimsAssumption
<1>3. [n \in 1 .. dim |-> d] \in Seq(Data)
  BY <1>2
<1> QED BY <1>1, <1>3

(* What LoadStore finds at each position of what SaveStore wrote.          *)
LEMMA SaveStoreFields ==
  ASSUME NEW v, GoodStore(v), v.llm.key \notin Raw
  PROVE  LET ids == SetToSeq(DOMAIN v.items)
             n == Cardinality(DOMAIN v.items)
             fields == SaveStore(v)
         IN  /\ ~(Len(fields) < 6)
             /\ fields[1] = v.type /\ fields[2] = v.conf /\ fields[3] = LlmText(v.llm)
             /\ fields[4] = v.idIdx /\ fields[5] = v.dim /\ fields[6] = n
             /\ \A k \in 1 .. n : LoadItem(fields, k, v.dim) = [id |-> ids[k], item |-> v.items[ids[k]]]
<1> DEFINE D == DOMAIN v.items
           ids == SetToSeq(D)
           n == Cardinality(D)
           row(id) == <<id, v.items[id].data>> \o v.items[id].vec
           rows == [k \in DOMAIN ids |-> row(ids[k])]
           head == <<v.type, v.conf, LlmText(v.llm), v.idIdx, v.dim, Len(ids)>>
           flat == FlattenSeq(rows)
           fields == SaveStore(v)
           w == v.dim + 2
           S == Ids \union Data
           T == S \union {v.type, v.conf, LlmText(v.llm), v.idIdx, v.dim, Len(ids)}
<1>1. IsFiniteSet(D)
  BY FS_Subset DEF GoodStore
<1>2. n \in Nat /\ ids \in [1 .. n -> D] /\ Len(ids) = n
  BY <1>1, SetToSeqLists
<1>3. fields = head \o flat
  BY DEF SaveStore
<1>4. v.dim \in Nat /\ w \in Nat
  BY DEF GoodStore
<1>5. ASSUME NEW id \in D
      PROVE  /\ row(id) \in Seq(S) /\ Len(row(id)) = w
             /\ row(id)[1] = id /\ row(id)[2] = v.items[id].data
             /\ \A i \in 1 .. v.dim : row(id)[i + 2] = v.items[id].vec[i]
  <2> DEFINE vec == v.items[id].vec
             start == <<id, v.items[id].data>>
  <2>1. v.items[id].data \in Data /\ vec \in Seq(Data) /\ Len(vec) = v.dim /\ id \in Ids
    BY ItemsType DEF GoodStore
  <2>2. /\ start \in Seq(S) /\ vec \in Seq(S)
        /\ Len(start) = 2 /\ start[1] = id /\ start[2] = v.items[id].data
    BY <2>1
  <2> HIDE DEF start, vec
  <2>3. /\ start \o vec \in Seq(S) /\ Len(start \o vec) = Len(start) + Len(vec)
        /\ \A i \in 1 .. Len(start) + Len(vec) :
             (start \o vec)[i] = IF i <= Len(start) THEN start[i] ELSE vec[i - Len(start)]
    BY <2>2, ConcatProperties
  <2>4. /\ Len(start \o vec) = w /\ (start \o vec)[1] = start[1] /\ (start \o vec)[2] = start[2]
        /\ \A i \in 1 .. v.dim : (start \o vec)[i + 2] = vec[i]
    BY <1>4, <2>1, <2>2, <2>3
  <2> QED BY <2>2, <2>3, <2>4 DEF start, vec
<1> HIDE DEF row, S, w
<1>0. DOMAIN ids = 1 .. n /\ \A k \in 1 .. n : ids[k] \in D
  BY <1>2
<1> HIDE DEF n, ids, D
<1>6. rows \in [1 .. n -> Seq(S)] /\ \A k \in 1 .. n : rows[k] = row(ids[k]) /\ Len(rows[k]) = w
  BY <1>0, <1>5
<1> HIDE DEF rows
<1>7. /\ flat \in Seq(S) /\ Len(flat) = n * w
      /\ \A k \in 1 .. n, j \in 1 .. w : flat[(k - 1) * w + j] = rows[k][j]
  <2>1. \A k \in 1 .. n : Len(rows[k]) = w
    BY <1>6
  <2>2. n \in Nat
    BY <1>2
  <2> HIDE DEF flat
  <2>3. Uniform(rows, n, w, S)
    BY <1>6, <2>1 DEF Uniform
  <2>4. Tiled(FlattenSeq(rows), rows, n, w, S)
    BY <1>4, <2>2, <2>3, FlattenTiles
  <2> QED BY <2>4 DEF flat, Tiled
<1>8. /\ head \in Seq(T) /\ flat \in Seq(T) /\ Len(head) = 6
  BY <1>7
<1>9. /\ \A i \in 1 .. 6 : fields[i] = head[i]
      /\ \A i \in 1 .. Len(flat) : fields[6 + i] = flat[i]
      /\ Len(fields) = 6 + Len(flat)
  BY <1>3, <1>8, ConcatProperties
<1> HIDE DEF fields, flat, T
<1>10. /\ fields[1] = v.type /\ fields[2] = v.conf /\ fields[3] = LlmText(v.llm)
       /\ fields[4] = v.idIdx /\ fields[5] = v.dim /\ fields[6] = n
  BY <1>2, <1>9
<1> HIDE DEF head
<1>12. ~(Len(fields) < 6)
  <2>1. Len(flat) \in Nat
    BY <1>7
  <2> QED BY <1>9, <2>1
<1>11. ASSUME NEW k \in 1 .. n
       PROVE  LoadItem(fields, k, v.dim) = [id |-> ids[k], item |-> v.items[ids[k]]]
  <2> DEFINE id == ids[k]
             item == v.items[id]
             before == (k - 1) * w
             at == 6 + before
  <2>1. before \in Nat /\ before + w <= Len(flat) /\ Len(flat) \in Nat
    BY <1>2, <1>4, <1>7, EarlierRow
  <2>2. id \in D
    BY <1>0
  <2>3. /\ item = [data |-> item.data, vec |-> item.vec]
        /\ item.data \in Data /\ item.vec \in Seq(Data) /\ Len(item.vec) = v.dim
    BY <2>2, ItemsType DEF GoodStore, D
  <2>4. \A j \in 1 .. w : flat[before + j] = row(id)[j]
    BY <1>6, <1>7
  <2>5. w = v.dim + 2
    BY DEF w
  <2> HIDE DEF id, item, before
  <2>6. ASSUME NEW j \in 1 .. w PROVE fields[at + j] = row(id)[j]
    <3>1. before + j \in 1 .. Len(flat) /\ at + j = 6 + (before + j)
      BY <1>4, <2>1
    <3> QED BY <1>9, <2>4, <3>1
  <2>7. fields[at + 1] = id /\ fields[at + 2] = item.data
    <3>1. 1 \in 1 .. w /\ 2 \in 1 .. w
      BY <1>4, <2>5
    <3> QED BY <1>5, <2>2, <2>6, <3>1 DEF item
  <2>8. \A i \in 1 .. v.dim : fields[at + 2 + i] = item.vec[i]
    <3> SUFFICES ASSUME NEW i \in 1 .. v.dim PROVE fields[at + 2 + i] = item.vec[i]
      OBVIOUS
    <3>1. i + 2 \in 1 .. w /\ at + (i + 2) = at + 2 + i
      BY <1>4, <2>1, <2>5
    <3>2. row(id)[i + 2] = item.vec[i]
      BY <1>5, <2>2 DEF item
    <3> QED BY <2>6, <3>1, <3>2
  <2>9. SubSeq(fields, at + 3, at + 2 + v.dim) = item.vec
    <3> DEFINE first == at + 3
               last == at + 2 + v.dim
               part == SubSeq(fields, first, last)
    <3>1. /\ first \in Int /\ last \in Int /\ last - first + 1 = v.dim
          /\ (IF first <= last THEN last - first + 1 ELSE 0) = v.dim
      BY <1>4, <2>1
    <3>2. \A i \in first .. last : i - (at + 2) \in 1 .. v.dim /\ i = at + 2 + (i - (at + 2))
      BY <1>4, <2>1
    <3>3. \A i \in first .. last : fields[i] = item.vec[i - (at + 2)]
      BY <2>8, <3>2
    <3>4. \A i \in 1 .. v.dim : item.vec[i] \in Data
      BY <2>3
    <3>5. \A i \in first .. last : fields[i] \in Data
      BY <3>2, <3>3, <3>4
    <3>6. /\ part \in Seq(Data) /\ Len(part) = v.dim
          /\ \A i \in 1 .. v.dim : part[i] = fields[first + i - 1]
      <4> HIDE DEF first, last
      <4> QED BY <3>1, <3>5, SubSeqProperties
    <3>7. \A i \in 1 .. v.dim : first + i - 1 = at + 2 + i
      BY <1>4, <2>1
    <3>8. \A i \in 1 .. v.dim : part[i] = item.vec[i]
      BY <2>8, <3>6, <3>7
    <3> HIDE DEF part
    <3>9. part = item.vec
      BY <2>3, <3>6, <3>8, SeqEqual
    <3> QED BY <3>9 DEF part
  <2>10. LoadItem(fields, k, v.dim) =
           [id |-> fields[at + 1],
            item |-> [data |-> fields[at + 2], vec |-> SubSeq(fields, at + 3, at + 2 + v.dim)]]
    BY DEF LoadItem, before, w
  <2>11. LoadItem(fields, k, v.dim) = [id |-> id, item |-> item]
    <3> HIDE DEF at
    <3> QED BY <2>3, <2>7, <2>9, <2>10
  <2> QED BY <2>11 DEF id, item
<1> QED BY <1>10, <1>11, <1>12 DEF fields, n, ids, D

LEMMA NothingInEmptyObject ==
  /\ DOMAIN EmptyObject = {}
  /\ \A f : [i \in {} |-> f[i]] = EmptyObject
  /\ \A f : f = [i \in DOMAIN f |-> f[i]] /\ DOMAIN f = {} => f = EmptyObject
BY DEF EmptyObject

LEMMA LlmTextRead ==
  ASSUME NEW llm, IsLlmInfo(llm)
  PROVE  LlmInfo(LlmText(llm)) = llm
BY DEF IsLlmInfo, LlmInfo, LlmText

(* What has been loaded of a store when its first items have.              *)
Partly(v, labels) ==
  Filled(v, v.idIdx, IF labels = {} THEN 0 ELSE v.dim, labels, [i \in labels |-> v.items[i]])

(* No item of a store that was saved is refused.                           *)
LEMMA AddNext ==
  ASSUME NEW v, GoodStore(v), NEW labels \in SUBSET DOMAIN v.items, NEW id \in DOMAIN v.items
  PROVE  Added(Partly(v, labels), id, v.items[id]) = {Partly(v, labels \union {id})}
<1> DEFINE w == Partly(v, labels)
           item == v.items[id]
           items == [i \in labels |-> v.items[i]]
           more == [i \in labels \union {id} |-> v.items[i]]
<1>1. /\ w.labels = labels /\ w.items = items /\ w.idIdx = v.idIdx /\ w.conf = v.conf
      /\ w.type = v.type /\ w.llm = v.llm /\ w.dim = IF labels = {} THEN 0 ELSE v.dim
  BY DEF Partly, Filled
<1>2. Len(item.vec) = v.dim /\ v.dim \in Nat /\ v.dim > 0
  BY DEF GoodStore
<1>3. labels \union {id} \subseteq v.labels /\ IsFiniteSet(v.labels)
  BY DEF GoodStore
<1>4. /\ IsFiniteSet(labels \union {id})
      /\ Cardinality(labels \union {id}) <= Cardinality(v.labels)
  BY <1>3, FS_Subset
<1>5. Cardinality(labels \union {id}) \in Nat /\ Cardinality(v.labels) \in Nat
  BY <1>3, <1>4, FS_CardinalityType
<1>6. MaxElements(v) \in Nat /\ Cardinality(v.labels) <= MaxElements(v)
  BY DEF GoodStore
<1>7. MaxElements(w) = MaxElements(v)
  BY <1>1 DEF MaxElements
<1> HIDE DEF w
<1>8. Added(w, id, item) = {Stored(w, id, item)}
  BY <1>1, <1>2, <1>4, <1>5, <1>6, <1>7 DEF Added
<1>9. [i \in DOMAIN w.items \union {id} |-> IF i = id THEN item ELSE w.items[i]] = more
  BY <1>1
<1>10. labels \union {id} # {}
  OBVIOUS
<1>11. Stored(w, id, item) =
         Filled(w, w.idIdx, Len(item.vec), w.labels \union {id}, more)
  BY <1>9 DEF Stored
<1> HIDE DEF items, item
<1>12. Stored(w, id, item) = Filled(v, v.idIdx, v.dim, labels \union {id}, more)
  BY <1>1, <1>2, <1>11 DEF Filled
<1>13. Partly(v, labels \union {id}) = Filled(v, v.idIdx, v.dim, labels \union {id}, more)
  BY <1>10 DEF Partly
<1> QED BY <1>8, <1>12, <1>13 DEF w, item

LEMMA StoreRoundTrip ==
  ASSUME NEW v, GoodStore(v), v.llm.key \notin Raw
  PROVE  LoadStore(SaveStore(v)) = {Reloaded(v)}
<1> DEFINE D == DOMAIN v.items
           ids == SetToSeq(D)
           n == Cardinality(D)
           fields == SaveStore(v)
           entries == [k \in 1 .. fields[6] |-> LoadItem(fields, k, fields[5])]
           first(k) == {ids[j] : j \in 1 .. k}
           empty == Partly(v, {})
<1>1. IsFiniteSet(D)
  BY FS_Subset DEF GoodStore
<1>2. /\ n \in Nat /\ ids \in [1 .. n -> D]
      /\ \A d \in D : \E i \in 1 .. n : ids[i] = d
  BY <1>1, SetToSeqLists
<1>3. /\ ~(Len(fields) < 6)
      /\ fields[1] = v.type /\ fields[2] = v.conf /\ fields[3] = LlmText(v.llm)
      /\ fields[4] = v.idIdx /\ fields[5] = v.dim /\ fields[6] = n
      /\ \A k \in 1 .. n : LoadItem(fields, k, v.dim) = [id |-> ids[k], item |-> v.items[ids[k]]]
  BY SaveStoreFields
<1> HIDE DEF fields, ids, n
<1>4. {Drawn(store, fields[4]) : store \in NewStore(fields[1], fields[2], LlmInfo(fields[3]))} = {empty}
  <2> DEFINE fresh == Fresh("store", v.type, v.conf, v.llm)
  <2>1. NewStore(fields[1], fields[2], LlmInfo(fields[3])) = {fresh}
    BY <1>3, LlmTextRead DEF NewStore, GoodStore
  <2>2. Drawn(fresh, v.idIdx) = empty
    <3>1. Drawn(fresh, v.idIdx) = Filled(v, v.idIdx, 0, {}, EmptyObject)
      BY DEF Drawn, Filled, Fresh
    <3>2. empty = Filled(v, v.idIdx, 0, {}, [i \in {} |-> v.items[i]])
      BY DEF Partly
    <3> QED BY <3>1, <3>2, NothingInEmptyObject
  <2> HIDE DEF fresh, empty
  <2> QED BY <1>3, <2>1, <2>2
<1>5. LoadStore(fields) = FoldLeft(LoadEntry, {empty}, entries)
  BY <1>3, <1>4 DEF LoadStore, LoadItems
<1>6. /\ DOMAIN entries = 1 .. n
      /\ \A k \in 1 .. n : entries[k] = [id |-> ids[k], item |-> v.items[ids[k]]]
  BY <1>3
<1> HIDE DEF entries, empty
<1>7. PICK acc : /\ Entries!Accumulates(acc, {empty}, entries, n)
                 /\ acc[n] = FoldLeft(LoadEntry, {empty}, entries)
  BY <1>2, <1>6, EntriesFold
<1>8. acc[0] = {empty} /\ \A k \in 1 .. n : acc[k] = LoadEntry(acc[k - 1], entries[k])
  BY <1>7 DEF Entries!Accumulates
<1> DEFINE Done == {m \in Nat : m <= n => acc[m] = {Partly(v, first(m))}}
<1> HIDE DEF first
<1>9. 0 \in Done
  <2>1. first(0) = {}
    BY DEF first
  <2> QED BY <1>8, <2>1 DEF empty
<1>10. ASSUME NEW m \in Nat, m \in Done PROVE m + 1 \in Done
  <2> SUFFICES ASSUME m + 1 <= n PROVE acc[m + 1] = {Partly(v, first(m + 1))}
    OBVIOUS
  <2>1. acc[m] = {Partly(v, first(m))}
    BY <1>2, <1>10
  <2>2. m + 1 \in 1 .. n /\ (m + 1) - 1 = m
    BY <1>2
  <2>3. ids[m + 1] \in D /\ first(m) \subseteq D
    BY <1>2, <2>2 DEF first
  <2>4. first(m + 1) = first(m) \union {ids[m + 1]}
    <3>1. 1 .. (m + 1) = (1 .. m) \union {m + 1}
      OBVIOUS
    <3> QED BY <3>1 DEF first
  <2> HIDE DEF Done, D
  <2>5. acc[m + 1] = LoadEntry({Partly(v, first(m))}, [id |-> ids[m + 1], item |-> v.items[ids[m + 1]]])
    BY <1>6, <1>8, <2>1, <2>2
  <2>6. acc[m + 1] = Added(Partly(v, first(m)), ids[m + 1], v.items[ids[m + 1]])
    BY <2>5 DEF LoadEntry
  <2>7. first(m) \in SUBSET DOMAIN v.items /\ ids[m + 1] \in DOMAIN v.items
    BY <2>3 DEF D
  <2>8. Added(Partly(v, first(m)), ids[m + 1], v.items[ids[m + 1]]) =
          {Partly(v, first(m) \union {ids[m + 1]})}
    <3> DEFINE labels == first(m)
               id == ids[m + 1]
    <3>1. labels \in SUBSET DOMAIN v.items /\ id \in DOMAIN v.items
      BY <2>7
    <3> HIDE DEF labels, id
    <3>2. Added(Partly(v, labels), id, v.items[id]) = {Partly(v, labels \union {id})}
      BY <3>1, AddNext
    <3> QED BY <3>2 DEF labels, id
  <2> QED BY <2>4, <2>6, <2>8
<1>11. acc[n] = {Partly(v, first(n))}
  <2> HIDE DEF Done
  <2>1. n \in Done
    BY <1>2, <1>9, <1>10, Entries!NatSetInduction
  <2> QED BY <1>2, <2>1 DEF Done
<1>12. first(n) = D
  BY <1>2 DEF first
<1>13. Partly(v, D) = Reloaded(v)
  <2>1. v.items = [i \in D |-> v.items[i]] /\ v.kind = "store"
    BY DEF GoodStore, Filled
  <2>2. D = {} <=> v.items = EmptyObject
    BY <2>1, NothingInEmptyObject
  <2> QED BY <2>1, <2>2 DEF Partly, Reloaded
<1> QED BY <1>5, <1>7, <1>11, <1>12, <1>13 DEF fields

-----------------------------------------------------------------------------
(* What the commands make                                                  *)

GoodLlm(value) == value \in NewLlm(value.type, value.conf)

(* An application that commands have made, and runs may have talked with.  *)
GoodApp(value) ==
  /\ IsLlmInfo(value.llm)
  /\ \E new \in NewApp(value.type, value.conf, value.llm) : value \in {new, Talked(new)}

GoodValue(value) == value = NoValue \/ GoodLlm(value) \/ GoodApp(value) \/ GoodStore(value)

LEMMA LlmIsGood ==
  ASSUME NEW type, NEW conf, NEW value \in NewLlm(type, conf)
  PROVE  /\ value = Fresh("llm", type, conf, NoLlm) /\ NewLlm(type, conf) = {value}
         /\ GoodLlm(value)
<1>1. value = Fresh("llm", type, conf, NoLlm) /\ NewLlm(type, conf) = {value}
  BY DEF NewLlm
<1>2. value.type = type /\ value.conf = conf
  BY <1>1 DEF Fresh
<1> QED BY <1>1, <1>2 DEF GoodLlm

LEMMA AppIsGood ==
  ASSUME NEW type, NEW conf, NEW llm, IsLlmInfo(llm), NEW value \in NewApp(type, conf, llm)
  PROVE  /\ value = Fresh("app", type, conf, llm) /\ NewApp(type, conf, llm) = {value}
         /\ GoodApp(value)
<1>1. value = Fresh("app", type, conf, llm) /\ NewApp(type, conf, llm) = {value}
  BY DEF NewApp
<1>2. value.type = type /\ value.conf = conf /\ value.llm = llm
  BY <1>1 DEF Fresh
<1> QED BY <1>1, <1>2 DEF GoodApp

(* What is the same of an application that has been talked with.           *)
LEMMA TalkedApp ==
  ASSUME NEW type, NEW conf, NEW llm, NEW new, new = Fresh("app", type, conf, llm)
  PROVE  /\ Talked(new).kind = "app" /\ Talked(new).type = type
         /\ Talked(new).conf = conf /\ Talked(new).llm = llm
         /\ Talked(new).labels = {} /\ Talked(new).idIdx = 0 /\ Talked(new).items = EmptyObject
         /\ Silent(Talked(new)) = new
         /\ Silent(new) = new
         /\ Talked(Talked(new)) = Talked(new)
<1> DEFINE app(history) ==
             [kind |-> "app", type |-> type, conf |-> conf, llm |-> llm, idIdx |-> 0, dim |-> 0,
              labels |-> {}, items |-> EmptyObject, history |-> history]
           value == Talked(new)
<1>1. new = app(FALSE)
  BY DEF Fresh
<1>2. \A b, c : [app(b) EXCEPT !.history = c] = app(c)
  OBVIOUS
<1>3. \A b : /\ app(b).kind = "app" /\ app(b).type = type /\ app(b).conf = conf
             /\ app(b).llm = llm /\ app(b).labels = {} /\ app(b).idIdx = 0
             /\ app(b).items = EmptyObject
  OBVIOUS
<1> HIDE DEF app
<1>4. value = [app(FALSE) EXCEPT !.history = TRUE]
  BY <1>1 DEF Talked
<1>5. value = app(TRUE)
  BY <1>2, <1>4
<1> HIDE DEF value
<1>6. Silent(value) = app(FALSE) /\ Silent(new) = app(FALSE)
  BY <1>1, <1>2, <1>5, Zenon DEF Silent
<1>7. Talked(value) = value
  <2>1. [app(TRUE) EXCEPT !.history = TRUE] = app(TRUE)
    BY <1>2, Zenon
  <2> QED BY <1>5, <2>1, Zenon DEF Talked
<1> QED BY <1>1, <1>3, <1>5, <1>6, <1>7 DEF value

(* An application is as it was made, or has been talked with.              *)
LEMMA AppIsNew ==
  ASSUME NEW v, GoodApp(v)
  PROVE  LET new == Fresh("app", v.type, v.conf, v.llm) IN
           /\ v \in {new, Talked(new)} /\ NewApp(v.type, v.conf, v.llm) = {new}
           /\ v.kind = "app" /\ Silent(v) = new
           /\ v.labels = {} /\ v.idIdx = 0 /\ v.items = EmptyObject
<1> DEFINE new == Fresh("app", v.type, v.conf, v.llm)
<1>1. PICK n \in NewApp(v.type, v.conf, v.llm) : v \in {n, Talked(n)}
  BY DEF GoodApp
<1>2. n = new /\ NewApp(v.type, v.conf, v.llm) = {new}
  BY <1>1 DEF NewApp
<1>3. new.kind = "app" /\ new.labels = {} /\ new.idIdx = 0 /\ new.items = EmptyObject
  BY DEF Fresh
<1>4. v = new \/ v = Talked(new)
  BY <1>1, <1>2
<1>5. Silent(v) = new
  <2>0. new = Fresh("app", v.type, v.conf, v.llm)
    OBVIOUS
  <2> HIDE DEF new
  <2>1. Silent(Talked(new)) = new /\ Silent(new) = new
    BY <2>0, TalkedApp
  <2> QED BY <1>4, <2>1, Zenon
<1>6. /\ Talked(new).kind = "app" /\ Talked(new).labels = {} /\ Talked(new).idIdx = 0
      /\ Talked(new).items = EmptyObject
  BY TalkedApp
<1> QED BY <1>2, <1>3, <1>4, <1>5, <1>6

(* max_elements is read as an unsigned number.                             *)
Fits(conf) == "max_elements" \in DOMAIN conf => conf["max_elements"] \in Nat

LEMMA StoreIsGood ==
  ASSUME NEW type, NEW conf, Fits(conf), NEW llm, IsLlmInfo(llm),
         NEW value \in NewStore(type, conf, llm)
  PROVE  GoodStore(value) /\ value = Fresh("store", type, conf, llm) /\ type = "hnsw"
<1>1. value = Fresh("store", type, conf, llm) /\ type = "hnsw" /\ StoreAccepts(conf)
  BY DEF NewStore
<1>2. /\ value.kind = "store" /\ value.type = type /\ value.conf = conf /\ value.llm = llm
      /\ value.idIdx = 0 /\ value.dim = 0 /\ value.labels = {} /\ value.items = EmptyObject
      /\ value = Filled(value, value.idIdx, value.dim, value.labels, value.items)
  BY <1>1 DEF Fresh, Filled
<1>3. MaxElements(value) \in Nat
  BY <1>2, DefaultAssumption DEF MaxElements, Fits
<1>4. IsFiniteSet({}) /\ Cardinality({}) = 0
  BY FS_EmptySet
<1>5. DOMAIN EmptyObject = {} /\ EmptyObject = [i \in DOMAIN EmptyObject |-> EmptyObject[i]]
  BY DEF EmptyObject
<1>6. DOMAIN value.items = {} /\ value.items = [i \in DOMAIN value.items |-> value.items[i]]
  BY <1>2, <1>5
<1>7. /\ value.labels \subseteq Ids /\ IsFiniteSet(value.labels)
      /\ Cardinality(value.labels) <= MaxElements(value)
  BY <1>2, <1>3, <1>4
<1>8. GoodStore(value)
  BY <1>1, <1>2, <1>3, <1>6, <1>7 DEF GoodStore
<1> QED BY <1>1, <1>8

LEMMA GoodKinds ==
  ASSUME NEW v
  PROVE  /\ NoValue.kind = "none"
         /\ GoodLlm(v) => v.kind = "llm" /\ v = Fresh("llm", v.type, v.conf, NoLlm)
         /\ GoodApp(v) => v.kind = "app"
         /\ GoodStore(v) => v.kind = "store"
<1>1. NoValue.kind = "none"
  BY DEF NoValue, Fresh
<1>2. ASSUME GoodLlm(v) PROVE v.kind = "llm" /\ v = Fresh("llm", v.type, v.conf, NoLlm)
  <2>1. v = Fresh("llm", v.type, v.conf, NoLlm)
    BY <1>2 DEF GoodLlm, NewLlm
  <2> QED BY <2>1 DEF Fresh
<1>3. ASSUME GoodApp(v) PROVE v.kind = "app"
  BY <1>3, AppIsNew
<1>4. ASSUME GoodStore(v) PROVE v.kind = "store"
  BY <1>4 DEF GoodStore, Filled
<1> QED BY <1>1, <1>2, <1>3, <1>4

LEMMA ReloadedIsGood ==
  ASSUME NEW v, GoodValue(v)
  PROVE  GoodValue(Reloaded(v))
<1>1. CASE v.kind \in {"llm", "none"}
  BY <1>1 DEF Reloaded
<1>3. CASE v.kind = "app"
  <2> DEFINE new == Fresh("app", v.type, v.conf, v.llm)
  <2>1. GoodApp(v)
    BY <1>3, GoodKinds DEF GoodValue
  <2>2. Reloaded(v) = new /\ new \in NewApp(v.type, v.conf, v.llm)
    BY <1>3, <2>1, AppIsNew DEF Reloaded
  <2> HIDE DEF new
  <2>3. GoodApp(new)
    BY <2>1, <2>2, AppIsGood DEF GoodApp
  <2> QED BY <2>2, <2>3 DEF GoodValue
<1>2. CASE v.kind = "store"
  <2>1. GoodStore(v)
    BY <1>2, GoodKinds DEF GoodValue
  <2> DEFINE D == DOMAIN v.items
             dim == IF v.items = EmptyObject THEN 0 ELSE v.dim
             w == Filled(v, v.idIdx, dim, D, v.items)
  <2>2. Reloaded(v) = w
    BY <1>2 DEF Reloaded
  <2>3. /\ w.type = v.type /\ w.conf = v.conf /\ w.llm = v.llm /\ w.idIdx = v.idIdx
        /\ w.dim = dim /\ w.labels = D /\ w.items = v.items
        /\ w = Filled(w, w.idIdx, w.dim, w.labels, w.items)
    BY DEF Filled
  <2>4. MaxElements(w) = MaxElements(v)
    BY <2>3 DEF MaxElements
  <2>5. /\ v.type = "hnsw" /\ StoreAccepts(v.conf) /\ IsLlmInfo(v.llm) /\ MaxElements(v) \in Nat
        /\ v.idIdx \in Ids \union {0} /\ v.dim \in Nat
        /\ v.labels \subseteq Ids /\ IsFiniteSet(v.labels)
        /\ Cardinality(v.labels) <= MaxElements(v)
        /\ D \subseteq v.labels /\ v.items = [i \in D |-> v.items[i]]
        /\ \A i \in D : v.items[i] \in Items /\ Len(v.items[i].vec) = v.dim /\ v.dim > 0
    BY <2>1 DEF GoodStore
  <2>6. IsFiniteSet(D) /\ Cardinality(D) <= Cardinality(v.labels)
    BY <2>5, FS_Subset
  <2>7. Cardinality(D) \in Nat /\ Cardinality(v.labels) \in Nat
    BY <2>5, <2>6, FS_CardinalityType
  <2>8. Cardinality(D) <= MaxElements(v)
    BY <2>5, <2>6, <2>7
  <2>9. dim \in Nat /\ \A i \in D : dim = v.dim
    BY <2>5, NothingInEmptyObject
  <2> HIDE DEF w, D, dim
  <2>10. D = DOMAIN w.items /\ D \subseteq Ids
    BY <2>3, <2>5 DEF D
  <2>11. GoodStore(w)
    BY <2>3, <2>4, <2>5, <2>6, <2>8, <2>9, <2>10 DEF GoodStore
  <2> QED BY <2>2, <2>11 DEF GoodValue
<1>4. v.kind \in {"none", "llm", "app", "store"}
  BY GoodKinds DEF GoodValue
<1> QED BY <1>1, <1>2, <1>3, <1>4

(* Whatever can be in memory is saved and loaded again, or makes a file    *)
(* that cannot be loaded.                                                  *)
LEMMA RoundTrip ==
  ASSUME NEW v, GoodValue(v)
  PROVE  Load(v.kind, Save(v)) = IF Writable(v) THEN {Reloaded(v)} ELSE {}
<1>1. CASE v = NoValue
  BY <1>1, GoodKinds DEF Load, Reloaded, Writable
<1>2. CASE GoodLlm(v)
  <2>1. v.kind = "llm"
    BY <1>2, GoodKinds
  <2>2. Load(v.kind, Save(v)) = NewLlm(v.type, v.conf) /\ Reloaded(v) = v /\ Writable(v)
    BY <2>1 DEF Load, Save, LoadLlm, SaveLlm, Reloaded, Writable
  <2>3. NewLlm(v.type, v.conf) = {v}
    BY <1>2, LlmIsGood DEF GoodLlm
  <2> QED BY <2>2, <2>3
<1>3. CASE GoodApp(v)
  <2>1. v.kind = "app"
    BY <1>3, GoodKinds
  <2>2. LlmInfo(LlmText(v.llm)) = v.llm
    BY <1>3, LlmTextRead DEF GoodApp
  <2>3. Load(v.kind, Save(v)) = LoadApp(SaveApp(v)) /\ Reloaded(v) = Silent(v)
    BY <2>1 DEF Load, Save, Reloaded
  <2>4. Writable(v) <=> v.llm.key \notin Raw /\ Dumpable(v.conf)
    BY <2>1 DEF Writable
  <2>5. CASE v.llm.key \in Raw
    BY <2>3, <2>4, <2>5 DEF SaveApp, LoadApp
  <2>6. CASE v.llm.key \notin Raw /\ ~Dumpable(v.conf)
    <3> DEFINE fields == <<v.type, LlmText(v.llm)>> \o <<>>
    <3>1. SaveApp(v) = fields
      BY <2>6 DEF SaveApp
    <3>2. Len(fields) < 3
      OBVIOUS
    <3> HIDE DEF fields
    <3> QED BY <2>3, <2>4, <2>6, <3>1, <3>2 DEF LoadApp
  <2>7. CASE Writable(v)
    <3> DEFINE fields == <<v.type, LlmText(v.llm)>> \o <<v.conf>>
    <3>1. SaveApp(v) = fields
      BY <2>4, <2>7 DEF SaveApp
    <3>2. Len(fields) = 3 /\ fields[1] = v.type /\ fields[2] = LlmText(v.llm) /\ fields[3] = v.conf
      OBVIOUS
    <3> HIDE DEF fields
    <3>3. LoadApp(SaveApp(v)) = NewApp(v.type, v.conf, v.llm)
      BY <2>2, <3>1, <3>2 DEF LoadApp
    <3> QED BY <1>3, <2>3, <2>7, <3>3, AppIsNew
  <2> QED BY <2>4, <2>5, <2>6, <2>7
<1>4. CASE GoodStore(v)
  <2>1. v.kind = "store"
    BY <1>4, GoodKinds
  <2>2. Load(v.kind, Save(v)) = LoadStore(SaveStore(v)) /\ (Writable(v) <=> v.llm.key \notin Raw)
    BY <2>1 DEF Load, Save, Writable
  <2>3. CASE v.llm.key \in Raw
    BY <2>2, <2>3 DEF LoadStore, SaveStore
  <2>4. CASE v.llm.key \notin Raw
    BY <1>4, <2>2, <2>4, StoreRoundTrip
  <2> QED BY <2>3, <2>4
<1> QED BY <1>1, <1>2, <1>3, <1>4 DEF GoodValue

-----------------------------------------------------------------------------
(* Filling a store                                                         *)

LEMMA FilledIsGood ==
  ASSUME NEW v, GoodStore(v), NEW idIdx \in Ids \union {0}, NEW dim \in Nat,
         NEW labels \in SUBSET Ids, IsFiniteSet(labels), Cardinality(labels) <= MaxElements(v),
         NEW items, DOMAIN items \subseteq labels, items = [i \in DOMAIN items |-> items[i]],
         \A i \in DOMAIN items : items[i] \in Items /\ Len(items[i].vec) = dim /\ dim > 0
  PROVE  GoodStore(Filled(v, idIdx, dim, labels, items))
<1> DEFINE w == Filled(v, idIdx, dim, labels, items)
<1>1. /\ w.type = v.type /\ w.conf = v.conf /\ w.llm = v.llm /\ w.idIdx = idIdx
      /\ w.dim = dim /\ w.labels = labels /\ w.items = items
      /\ w = Filled(w, w.idIdx, w.dim, w.labels, w.items)
  BY DEF Filled
<1>2. MaxElements(w) = MaxElements(v)
  BY <1>1 DEF MaxElements
<1>3. v.type = "hnsw" /\ StoreAccepts(v.conf) /\ IsLlmInfo(v.llm) /\ MaxElements(v) \in Nat
  BY DEF GoodStore
<1> HIDE DEF w
<1>4. GoodStore(w)
  BY <1>1, <1>2, <1>3 DEF GoodStore
<1> QED BY <1>4 DEF w

LEMMA DrawnIsGood ==
  ASSUME NEW v, GoodStore(v), NEW id \in Ids
  PROVE  GoodStore(Drawn(v, id))
<1>1. /\ v.dim \in Nat /\ v.labels \in SUBSET Ids /\ IsFiniteSet(v.labels)
      /\ Cardinality(v.labels) <= MaxElements(v)
      /\ DOMAIN v.items \subseteq v.labels
      /\ v.items = [i \in DOMAIN v.items |-> v.items[i]]
      /\ \A i \in DOMAIN v.items : v.items[i] \in Items /\ Len(v.items[i].vec) = v.dim /\ v.dim > 0
  BY DEF GoodStore
<1> QED BY <1>1, FilledIsGood DEF Drawn

LEMMA RemovedIsGood ==
  ASSUME NEW v, GoodStore(v), NEW id
  PROVE  GoodStore(Removed(v, id))
<1> DEFINE items == [i \in DOMAIN v.items \ {id} |-> v.items[i]]
<1>1. /\ v.dim \in Nat /\ v.labels \in SUBSET Ids /\ IsFiniteSet(v.labels)
      /\ Cardinality(v.labels) <= MaxElements(v) /\ v.idIdx \in Ids \union {0}
      /\ DOMAIN v.items \subseteq v.labels
      /\ \A i \in DOMAIN v.items : v.items[i] \in Items /\ Len(v.items[i].vec) = v.dim /\ v.dim > 0
  BY DEF GoodStore
<1>2. /\ DOMAIN items \subseteq v.labels /\ items = [i \in DOMAIN items |-> items[i]]
      /\ \A i \in DOMAIN items : items[i] \in Items /\ Len(items[i].vec) = v.dim /\ v.dim > 0
  BY <1>1
<1> HIDE DEF items
<1>3. GoodStore(Filled(v, v.idIdx, v.dim, v.labels, items))
  BY <1>1, <1>2, FilledIsGood
<1> QED BY <1>3 DEF Removed, items

LEMMA AddedIsGood ==
  ASSUME NEW v, GoodStore(v), NEW id \in Ids, NEW item \in Items, NEW value \in Added(v, id, item)
  PROVE  GoodStore(value)
<1> DEFINE dim == Len(item.vec)
           labels == v.labels \union {id}
           items == [i \in DOMAIN v.items \union {id} |-> IF i = id THEN item ELSE v.items[i]]
<1>1. /\ dim > 0 /\ v.dim \in {0, dim} /\ Cardinality(labels) <= MaxElements(v)
      /\ value = Filled(v, v.idIdx, dim, labels, items)
  BY DEF Added, Stored
<1>2. dim \in Nat
  BY ItemsType
<1>3. /\ v.idIdx \in Ids \union {0} /\ v.labels \subseteq Ids /\ IsFiniteSet(v.labels)
      /\ DOMAIN v.items \subseteq v.labels
      /\ \A i \in DOMAIN v.items : v.items[i] \in Items /\ Len(v.items[i].vec) = v.dim /\ v.dim > 0
  BY DEF GoodStore
<1>4. IsFiniteSet(labels) /\ labels \in SUBSET Ids
  BY <1>3, FS_AddElement
<1>5. DOMAIN items \subseteq labels /\ items = [i \in DOMAIN items |-> items[i]]
  BY <1>3
<1>6. \A i \in DOMAIN items : items[i] \in Items /\ Len(items[i].vec) = dim /\ dim > 0
  BY <1>1, <1>2, <1>3
<1> HIDE DEF dim, labels, items
<1>7. GoodStore(Filled(v, v.idIdx, dim, labels, items))
  BY <1>1, <1>2, <1>3, <1>4, <1>5, <1>6, FilledIsGood
<1> QED BY <1>1, <1>7

-----------------------------------------------------------------------------
(* Parsing                                                                 *)

Args(args) ==
  /\ args = [opt |-> args.opt, type |-> args.type, conf |-> args.conf, llm |-> args.llm,
             id |-> args.id, vec |-> args.vec]
  /\ IsLlmInfo(args.llm)

LEMMA ArgsOf ==
  ASSUME NEW opt, NEW type, NEW conf, NEW llm, NEW id, NEW vec, IsLlmInfo(llm), NEW args,
         args = [opt |-> opt, type |-> type, conf |-> conf, llm |-> llm, id |-> id, vec |-> vec]
  PROVE  /\ Args(args) /\ args.opt = opt /\ args.type = type /\ args.conf = conf
         /\ args.llm = llm /\ args.id = id /\ args.vec = vec
BY DEF Args

(* An option changes one field; only --PARAMS may bring a capacity.        *)
LEMMA OptionKeepsArgs ==
  ASSUME NEW args, Args(args), NEW o
  PROVE  /\ Args(TakeOption(args, o))
         /\ Fits(args.conf) /\ o.name \notin DOMAIN Field /\ (o.name = "--PARAMS" => Fits(o.value)) =>
              Fits(TakeOption(args, o).conf)
<1> DEFINE new == TakeOption(args, o)
<1>1. args = [opt |-> args.opt, type |-> args.type, conf |-> args.conf, llm |-> args.llm,
              id |-> args.id, vec |-> args.vec]
  BY DEF Args
<1>2. IsLlmInfo(args.llm) /\ IsLlmInfo(LlmInfo(o.value))
  BY DEF Args, IsLlmInfo, LlmInfo
<1>0. DOMAIN Field = {"--PROMPT", "--HISTORY", "--VECTOR-STORE", "--K"}
  BY DEF Field
<1>3. CASE o.name \in {"--NX", "--XX"}
  <2>1. new = [args EXCEPT !.opt = o.name]
    BY <1>0, <1>3 DEF TakeOption
  <2> HIDE DEF new
  <2>2. new = [opt |-> o.name, type |-> args.type, conf |-> args.conf, llm |-> args.llm,
               id |-> args.id, vec |-> args.vec]
    BY <1>1, <2>1
  <2>3. Args(new) /\ new.conf = args.conf
    BY <1>2, <2>2, ArgsOf
  <2> QED BY <1>3, <2>3 DEF new
<1>4. CASE o.name = "--TYPE"
  <2>1. new = [args EXCEPT !.type = o.value]
    BY <1>0, <1>4 DEF TakeOption
  <2> HIDE DEF new
  <2>2. new = [opt |-> args.opt, type |-> o.value, conf |-> args.conf, llm |-> args.llm,
               id |-> args.id, vec |-> args.vec]
    BY <1>1, <2>1
  <2>3. Args(new) /\ new.conf = args.conf
    BY <1>2, <2>2, ArgsOf
  <2> QED BY <1>4, <2>3 DEF new
<1>5. CASE o.name = "--PARAMS"
  <2>1. new = [args EXCEPT !.conf = o.value]
    BY <1>0, <1>5 DEF TakeOption
  <2> HIDE DEF new
  <2>2. new = [opt |-> args.opt, type |-> args.type, conf |-> o.value, llm |-> args.llm,
               id |-> args.id, vec |-> args.vec]
    BY <1>1, <2>1
  <2>3. Args(new) /\ new.conf = o.value
    BY <1>2, <2>2, ArgsOf
  <2> QED BY <1>5, <2>3 DEF new
<1>6. CASE o.name = "--LLM"
  <2>1. new = [args EXCEPT !.llm = LlmInfo(o.value)]
    BY <1>0, <1>6 DEF TakeOption
  <2> HIDE DEF new
  <2>2. new = [opt |-> args.opt, type |-> args.type, conf |-> args.conf, llm |-> LlmInfo(o.value),
               id |-> args.id, vec |-> args.vec]
    BY <1>1, <2>1
  <2>3. Args(new) /\ new.conf = args.conf
    BY <1>2, <2>2, ArgsOf
  <2> QED BY <1>6, <2>3 DEF new
<1>7. CASE o.name = "--ID"
  <2>1. new = [args EXCEPT !.id = o.value]
    BY <1>0, <1>7 DEF TakeOption
  <2> HIDE DEF new
  <2>2. new = [opt |-> args.opt, type |-> args.type, conf |-> args.conf, llm |-> args.llm,
               id |-> o.value, vec |-> args.vec]
    BY <1>1, <2>1
  <2>3. Args(new) /\ new.conf = args.conf
    BY <1>2, <2>2, ArgsOf
  <2> QED BY <1>7, <2>3 DEF new
<1>8. CASE o.name = "--EMBEDDING"
  <2>1. new = [args EXCEPT !.vec = o.value]
    BY <1>0, <1>8 DEF TakeOption
  <2> HIDE DEF new
  <2>2. new = [opt |-> args.opt, type |-> args.type, conf |-> args.conf, llm |-> args.llm,
               id |-> args.id, vec |-> o.value]
    BY <1>1, <2>1
  <2>3. Args(new) /\ new.conf = args.conf
    BY <1>2, <2>2, ArgsOf
  <2> QED BY <1>8, <2>3 DEF new
<1>9. CASE o.name \notin {"--NX", "--XX", "--TYPE", "--PARAMS", "--LLM", "--ID", "--EMBEDDING"}
  <2> DEFINE conf == (Field[o.name] :> o.value) @@ args.conf
  <2>1. \/ o.name \in DOMAIN Field /\ new = [args EXCEPT !.conf = conf]
        \/ o.name \notin DOMAIN Field /\ new = args
    BY <1>0, <1>9 DEF TakeOption
  <2> HIDE DEF new, conf
  <2>2. CASE o.name \in DOMAIN Field /\ new = [args EXCEPT !.conf = conf]
    <3>1. new = [opt |-> args.opt, type |-> args.type, conf |-> conf, llm |-> args.llm,
                 id |-> args.id, vec |-> args.vec]
      BY <1>1, <2>2
    <3>2. Args(new)
      BY <1>2, <3>1, ArgsOf
    <3> QED BY <2>2, <3>2 DEF new
  <2>3. CASE o.name \notin DOMAIN Field /\ new = args
    BY <2>3 DEF new
  <2> QED BY <2>1, <2>2, <2>3
<1> QED BY <1>3, <1>4, <1>5, <1>6, <1>7, <1>8, <1>9

LEMMA OptionsKeepArgs ==
  ASSUME NEW n \in Nat, NEW options, DOMAIN options = 1 .. n, NEW base, Args(base)
  PROVE  /\ Args(FoldLeft(TakeOption, base, options))
         /\ /\ Fits(base.conf)
            /\ \A i \in 1 .. n : /\ options[i].name \notin DOMAIN Field
                                 /\ options[i].name = "--PARAMS" => Fits(options[i].value)
            => Fits(FoldLeft(TakeOption, base, options).conf)
<1>1. PICK acc : /\ Options!Accumulates(acc, base, options, n)
                 /\ acc[n] = FoldLeft(TakeOption, base, options)
  BY OptionsFold
<1>2. acc[0] = base /\ \A k \in 1 .. n : acc[k] = TakeOption(acc[k - 1], options[k])
  BY <1>1 DEF Options!Accumulates
<1> DEFINE Plain == /\ Fits(base.conf)
                    /\ \A i \in 1 .. n : /\ options[i].name \notin DOMAIN Field
                                         /\ options[i].name = "--PARAMS" => Fits(options[i].value)
           Done == {m \in Nat : m <= n => Args(acc[m]) /\ (Plain => Fits(acc[m].conf))}
<1>3. 0 \in Done
  BY <1>2
<1>4. ASSUME NEW m \in Nat, m \in Done PROVE m + 1 \in Done
  <2> SUFFICES ASSUME m + 1 <= n PROVE Args(acc[m + 1]) /\ (Plain => Fits(acc[m + 1].conf))
    OBVIOUS
  <2>1. m + 1 \in 1 .. n /\ (m + 1) - 1 = m
    OBVIOUS
  <2>2. acc[m + 1] = TakeOption(acc[m], options[m + 1])
    BY <1>2, <2>1
  <2>3. Args(acc[m]) /\ (Plain => Fits(acc[m].conf))
    BY <1>4
  <2> HIDE DEF Done
  <2> DEFINE o == options[m + 1]
  <2>4. Plain => o.name \notin DOMAIN Field /\ (o.name = "--PARAMS" => Fits(o.value))
    BY <2>1
  <2> HIDE DEF Plain, o
  <2>5. Args(TakeOption(acc[m], o)) /\ (Plain => Fits(TakeOption(acc[m], o).conf))
    BY <2>3, <2>4, OptionKeepsArgs
  <2> QED BY <2>2, <2>5 DEF o
<1>5. n \in Done
  <2> HIDE DEF Done
  <2> QED BY <1>3, <1>4, Options!NatSetInduction
<1> QED BY <1>1, <1>5

LEMMA TwoOptions ==
  ASSUME NEW base, NEW options, DOMAIN options = 1 .. 2
  PROVE  FoldLeft(TakeOption, base, options) = TakeOption(TakeOption(base, options[1]), options[2])
<1>1. PICK acc : /\ Options!Accumulates(acc, base, options, 2)
                 /\ acc[2] = FoldLeft(TakeOption, base, options)
  BY OptionsFold
<1>2. acc[0] = base /\ \A k \in 1 .. 2 : acc[k] = TakeOption(acc[k - 1], options[k])
  BY <1>1 DEF Options!Accumulates
<1>3. 1 \in 1 .. 2 /\ 2 \in 1 .. 2 /\ 1 - 1 = 0 /\ 2 - 1 = 1
  OBVIOUS
<1>4. acc[1] = TakeOption(acc[0], options[1]) /\ acc[2] = TakeOption(acc[1], options[2])
  BY <1>2, <1>3
<1> QED BY <1>1, <1>2, <1>4

-----------------------------------------------------------------------------
(* What the commands leave                                                 *)

LEMMA NoArgsAreArgs ==
  ASSUME NEW type, NEW defaults, defaults \in {NoArgs, [NoArgs EXCEPT !.type = type]}
  PROVE  Args(defaults) /\ Fits(defaults.conf)
<1>1. IsLlmInfo(NoLlm)
  BY DEF IsLlmInfo, NoLlm
<1>2. Fits(EmptyObject)
  BY DEF Fits, EmptyObject
<1>3. PICK t : defaults = [opt |-> "NONE", type |-> t, conf |-> EmptyObject, llm |-> NoLlm,
                           id |-> 0, vec |-> <<>>]
  BY DEF NoArgs
<1>4. Args(defaults) /\ defaults.conf = EmptyObject
  BY <1>1, <1>3, ArgsOf
<1> QED BY <1>2, <1>4

LEMMA ParsedArgs ==
  ASSUME NEW command, NEW n \in Nat, DOMAIN command.options = 1 .. n,
         NEW names, NEW defaults, Args(defaults), Fits(defaults.conf), NEW arity,
         NEW args \in Parsed(command, names, defaults, arity)
  PROVE  /\ Args(args)
         /\ /\ names \intersect DOMAIN Field = {}
            /\ \A i \in 1 .. n : command.options[i].name = "--PARAMS" => Fits(command.options[i].value)
            => Fits(args.conf)
<1> DEFINE options == command.options
<1>1. /\ args = FoldLeft(TakeOption, defaults, options)
      /\ \A i \in 1 .. n : options[i].name \in names
  BY DEF Parsed
<1> HIDE DEF options
<1>2. DOMAIN options = 1 .. n
  BY DEF options
<1>3. Args(args)
  BY <1>1, <1>2, OptionsKeepArgs
<1>4. ASSUME names \intersect DOMAIN Field = {},
             \A i \in 1 .. n : options[i].name = "--PARAMS" => Fits(options[i].value)
      PROVE  Fits(args.conf)
  <2>1. \A i \in 1 .. n : options[i].name \notin DOMAIN Field
    BY <1>1, <1>4
  <2> QED BY <1>1, <1>2, <1>4, <2>1, OptionsKeepArgs
<1> QED BY <1>3, <1>4 DEF options

Creates == {"LLM.CREATE-LLM", "LLM.CREATE-VECTOR-STORE", "LLM.CREATE-APP", "LLM.CREATE-CHAT",
            "LLM.CREATE-SEARCH"}

LEMMA ParseKeepsLlm ==
  ASSUME NEW command, command.name \in Creates, NEW n \in Nat, DOMAIN command.options = 1 .. n,
         NEW args \in Parse(command)
  PROVE  IsLlmInfo(args.llm)
<1>1. CASE command.name = "LLM.CREATE-LLM"
  <2>1. args \in Parsed(command, {"--NX", "--XX", "--TYPE", "--PARAMS"},
                        [NoArgs EXCEPT !.type = "openai"], 0)
    BY <1>1 DEF Parse, ParseLlm
  <2> QED BY <2>1, NoArgsAreArgs, ParsedArgs DEF Args
<1>2. CASE command.name = "LLM.CREATE-VECTOR-STORE"
  <2>1. args \in Parsed(command, {"--NX", "--XX", "--TYPE", "--PARAMS", "--LLM"},
                        [NoArgs EXCEPT !.type = "hnsw"], 0)
    BY <1>2 DEF Parse, ParseStore
  <2> QED BY <2>1, NoArgsAreArgs, ParsedArgs DEF Args
<1>3. CASE command.name = "LLM.CREATE-APP"
  <2>1. args \in Parsed(command, {"--NX", "--XX", "--LLM", "--PARAMS", "--PROMPT"},
                        [NoArgs EXCEPT !.type = "app"], 0)
    BY <1>3 DEF Parse, ParseApp
  <2> QED BY <2>1, NoArgsAreArgs, ParsedArgs DEF Args
<1>4. CASE command.name = "LLM.CREATE-CHAT"
  <2>1. args \in Parsed(command, {"--NX", "--XX", "--LLM", "--PROMPT", "--HISTORY", "--VECTOR-STORE"},
                        [NoArgs EXCEPT !.type = "chat"], 0)
    BY <1>4 DEF Parse, ParseChat, NeedsStore
  <2> QED BY <2>1, NoArgsAreArgs, ParsedArgs DEF Args
<1>5. CASE command.name = "LLM.CREATE-SEARCH"
  <2> DEFINE parsed == Parsed(command, {"--NX", "--XX", "--LLM", "--VECTOR-STORE", "--PROMPT", "--K"},
                              [NoArgs EXCEPT !.type = "search"], 0)
  <2>1. PICK before \in parsed : args = [before EXCEPT !.conf = @ @@ ("k" :> 3)]
    <3> HIDE DEF parsed
    <3>1. args \in {[a EXCEPT !.conf = @ @@ ("k" :> 3)] : a \in NeedsStore(parsed)}
      BY <1>5 DEF Parse, ParseSearch, parsed
    <3> QED BY <3>1 DEF NeedsStore
  <2>2. Args(before)
    BY <2>1, NoArgsAreArgs, ParsedArgs
  <2> HIDE DEF parsed
  <2> DEFINE conf == before.conf @@ ("k" :> 3)
  <2>3. args = [before EXCEPT !.conf = conf]
    BY <2>1
  <2> HIDE DEF conf
  <2>4. args = [opt |-> before.opt, type |-> before.type, conf |-> conf, llm |-> before.llm,
                id |-> before.id, vec |-> before.vec]
    BY <2>2, <2>3 DEF Args
  <2> QED BY <2>2, <2>4, ArgsOf DEF Args
<1> QED BY <1>1, <1>2, <1>3, <1>4, <1>5 DEF Creates

(* What LLM.CREATE-... makes, whatever its options.                        *)
LEMMA CreatedIsGood ==
  ASSUME NEW command, command.name \in Creates, NEW n \in Nat, DOMAIN command.options = 1 .. n,
         command.name = "LLM.CREATE-VECTOR-STORE" =>
           \A i \in 1 .. n : command.options[i].name = "--PARAMS" => Fits(command.options[i].value),
         NEW old, NEW value \in Effect(command, old)
  PROVE  GoodValue(value)
<1>1. CASE command.name = "LLM.CREATE-LLM"
  <2>1. PICK args \in Parse(command) : value \in NewLlm(args.type, args.conf)
    BY <1>1 DEF Effect
  <2> QED BY <2>1, LlmIsGood DEF GoodValue
<1>2. CASE command.name = "LLM.CREATE-VECTOR-STORE"
  <2>1. PICK args \in Parse(command) : value \in NewStore(args.type, args.conf, args.llm)
    BY <1>2 DEF Effect
  <2>2. args \in Parsed(command, {"--NX", "--XX", "--TYPE", "--PARAMS", "--LLM"},
                        [NoArgs EXCEPT !.type = "hnsw"], 0)
    BY <1>2 DEF Parse, ParseStore
  <2>3. {"--NX", "--XX", "--TYPE", "--PARAMS", "--LLM"} \intersect DOMAIN Field = {}
    BY DEF Field
  <2>4. Fits(args.conf) /\ IsLlmInfo(args.llm)
    BY <1>2, <2>2, <2>3, NoArgsAreArgs, ParsedArgs DEF Args
  <2> QED BY <2>1, <2>4, StoreIsGood DEF GoodValue
<1>3. CASE command.name \in {"LLM.CREATE-APP", "LLM.CREATE-CHAT", "LLM.CREATE-SEARCH"}
  <2>1. PICK args \in Parse(command) : value \in NewApp(args.type, args.conf, args.llm)
    BY <1>3 DEF Effect
  <2>2. IsLlmInfo(args.llm)
    BY ParseKeepsLlm
  <2> QED BY <2>1, <2>2, AppIsGood DEF GoodValue
<1> QED BY <1>1, <1>2, <1>3 DEF Creates

LEMMA TakeIdAndEmbedding ==
  ASSUME NEW id, NEW vec
  PROVE  LET args == FoldLeft(TakeOption, NoArgs, <<Option("--ID", id), Option("--EMBEDDING", vec)>>)
         IN  args.id = id /\ args.vec = vec
<1> DEFINE o1 == Option("--ID", id)
           o2 == Option("--EMBEDDING", vec)
           a1 == TakeOption(NoArgs, o1)
           a2 == TakeOption(a1, o2)
<1>0. DOMAIN Field = {"--PROMPT", "--HISTORY", "--VECTOR-STORE", "--K"}
  BY DEF Field
<1>1. o1.name = "--ID" /\ o1.value = id /\ o2.name = "--EMBEDDING" /\ o2.value = vec
  BY DEF Option
<1> HIDE DEF o1, o2
<1>2. a1 = [opt |-> "NONE", type |-> "", conf |-> EmptyObject, llm |-> NoLlm, id |-> id, vec |-> <<>>]
  <2>1. a1 = [NoArgs EXCEPT !.id = id]
    BY <1>0, <1>1 DEF TakeOption
  <2> QED BY <2>1 DEF NoArgs
<1> HIDE DEF a1
<1> DEFINE taken == [opt |-> "NONE", type |-> "", conf |-> EmptyObject, llm |-> NoLlm, id |-> id, vec |-> vec]
<1>3. a2 = taken
  <2>1. a2 = [a1 EXCEPT !.vec = vec]
    BY <1>0, <1>1 DEF TakeOption
  <2> QED BY <1>2, <2>1
<1>4. FoldLeft(TakeOption, NoArgs, <<o1, o2>>) = a2
  <2> DEFINE options == <<o1, o2>>
  <2>1. DOMAIN options = 1 .. 2 /\ options[1] = o1 /\ options[2] = o2
    OBVIOUS
  <2> HIDE DEF options
  <2>2. FoldLeft(TakeOption, NoArgs, options) = TakeOption(TakeOption(NoArgs, options[1]), options[2])
    BY <2>1, TwoOptions
  <2> QED BY <2>1, <2>2 DEF a1, options
<1> HIDE DEF a2
<1>5. taken.id = id /\ taken.vec = vec
  OBVIOUS
<1> HIDE DEF taken
<1> QED BY <1>3, <1>4, <1>5 DEF o1, o2

(* LLM.ADD with an id and an embedding.                                    *)
LEMMA AddEffect ==
  ASSUME NEW k, NEW id, NEW item \in Items, NEW old,
         NEW value \in Effect(Command("LLM.ADD", k, <<Option("--ID", id), Option("--EMBEDDING", item.vec)>>,
                                      <<item.data>>), old)
  PROVE  old.kind = "store" /\ value \in Added(old, id, item)
<1> DEFINE options == <<Option("--ID", id), Option("--EMBEDDING", item.vec)>>
           command == Command("LLM.ADD", k, options, <<item.data>>)
<1>1. command.name = "LLM.ADD" /\ command.options = options /\ command.arguments[1] = item.data
  BY DEF Command
<1> HIDE DEF command, options
<1>2. value \in Effect(command, old)
  BY DEF command, options
<1>3. PICK args \in Parse(command) :
        /\ old.kind = "store"
        /\ value \in Added(old, args.id, [data |-> command.arguments[1], vec |-> args.vec])
  BY <1>1, <1>2 DEF Effect
<1>4. args = FoldLeft(TakeOption, NoArgs, options)
  BY <1>1 DEF Parse, ParseAdd, Parsed
<1>5. args.id = id /\ args.vec = item.vec
  BY <1>4, TakeIdAndEmbedding DEF options
<1>6. [data |-> command.arguments[1], vec |-> args.vec] = item
  BY <1>1, <1>5, ItemsType
<1> QED BY <1>3, <1>5, <1>6

-----------------------------------------------------------------------------
(* The rewritten AOF                                                       *)

(* What the commands of a rewritten AOF make of a value: a model as it     *)
(* was, a store without its items, its model and its automatic ids, and no *)
(* application.                                                            *)
Remade(value) ==
  CASE value.kind = "store" -> Fresh("store", value.type, value.conf, NoLlm)
    [] value.kind = "app" -> NoValue
    [] value.kind \in {"llm", "none"} -> value

LEMMA OneCommand ==
  ASSUME NEW base, NEW commands, DOMAIN commands = 1 .. 1
  PROVE  FoldLeft(Executed, base, commands) = Executed(base, commands[1])
<1>1. PICK acc : /\ Commands!Accumulates(acc, base, commands, 1)
                 /\ acc[1] = FoldLeft(Executed, base, commands)
  BY CommandsFold
<1>2. 1 \in 1 .. 1 /\ 1 - 1 = 0
  OBVIOUS
<1>3. acc[0] = base /\ acc[1] = Executed(acc[1 - 1], commands[1])
  BY <1>1, <1>2 DEF Commands!Accumulates
<1> QED BY <1>1, <1>2, <1>3

LEMMA ExecutedOne ==
  ASSUME NEW old, NEW command, NEW new, Effect(command, old) = {new}
  PROVE  Executed(old, command) = new
BY DEF Executed

(* The command is refused by the parser.                                   *)
LEMMA ExecutedNone ==
  ASSUME NEW old, NEW command, Parse(command) = {}
  PROVE  Executed(old, command) = old
<1>1. Effect(command, old) = {}
  BY DEF Effect
<1> QED BY <1>1 DEF Executed

LEMMA TakeTypeAndParams ==
  ASSUME NEW usual, NEW type, NEW conf
  PROVE  LET args == FoldLeft(TakeOption, [NoArgs EXCEPT !.type = usual],
                              <<Option("--TYPE", type), Option("--PARAMS", conf)>>)
         IN  args.opt = "NONE" /\ args.type = type /\ args.conf = conf /\ args.llm = NoLlm
<1> DEFINE options == <<Option("--TYPE", type), Option("--PARAMS", conf)>>
           a0 == [NoArgs EXCEPT !.type = usual]
           a1 == TakeOption(a0, options[1])
           a2 == TakeOption(a1, options[2])
           taken == [opt |-> "NONE", type |-> type, conf |-> conf, llm |-> NoLlm, id |-> 0, vec |-> <<>>]
<1>0. DOMAIN Field = {"--PROMPT", "--HISTORY", "--VECTOR-STORE", "--K"}
  BY DEF Field
<1>1. DOMAIN options = 1 .. 2
  OBVIOUS
<1>2. /\ options[1].name = "--TYPE" /\ options[1].value = type
      /\ options[2].name = "--PARAMS" /\ options[2].value = conf
  BY DEF Option
<1> HIDE DEF options
<1>3. a0 = [opt |-> "NONE", type |-> usual, conf |-> EmptyObject, llm |-> NoLlm, id |-> 0, vec |-> <<>>]
  <2> DEFINE none == NoArgs
  <2>1. none = [opt |-> "NONE", type |-> "", conf |-> EmptyObject, llm |-> NoLlm, id |-> 0, vec |-> <<>>]
    BY DEF NoArgs
  <2>2. a0 = [none EXCEPT !.type = usual]
    OBVIOUS
  <2> HIDE DEF none, a0
  <2> QED BY <2>1, <2>2
<1> HIDE DEF a0
<1>4. a1 = [opt |-> "NONE", type |-> type, conf |-> EmptyObject, llm |-> NoLlm, id |-> 0, vec |-> <<>>]
  <2>1. a1 = [a0 EXCEPT !.type = type]
    BY <1>0, <1>2 DEF TakeOption
  <2> QED BY <1>3, <2>1
<1> HIDE DEF a1
<1>5. a2 = taken
  <2>1. a2 = [a1 EXCEPT !.conf = conf]
    BY <1>0, <1>2 DEF TakeOption
  <2> QED BY <1>4, <2>1
<1>6. FoldLeft(TakeOption, a0, options) = a2
  BY <1>1, TwoOptions DEF a1
<1> HIDE DEF a2
<1>7. taken.opt = "NONE" /\ taken.type = type /\ taken.conf = conf /\ taken.llm = NoLlm
  OBVIOUS
<1> HIDE DEF taken
<1> QED BY <1>5, <1>6, <1>7 DEF a0, options

LEMMA RewriteLlmGivesBack ==
  ASSUME NEW k, NEW v, GoodLlm(v)
  PROVE  Replay(RewriteLlm(k, v), NoValue) = v
<1> DEFINE options == <<Option("--TYPE", v.type), Option("--PARAMS", v.conf)>>
           command == Command("LLM.CREATE-LLM", k, options, <<>>)
           commands == RewriteLlm(k, v)
           args == FoldLeft(TakeOption, [NoArgs EXCEPT !.type = "openai"], options)
<1>1. DOMAIN commands = 1 .. 1 /\ commands[1] = command
  BY DEF RewriteLlm
<1>2. command.name = "LLM.CREATE-LLM" /\ command.options = options /\ Len(command.arguments) = 0
  BY DEF Command
<1>3. \A i \in DOMAIN options : options[i].name \in {"--NX", "--XX", "--TYPE", "--PARAMS"}
  BY DEF Option
<1>4. args.opt = "NONE" /\ args.type = v.type /\ args.conf = v.conf
  BY TakeTypeAndParams
<1> HIDE DEF command, commands, options
<1>5. Parse(command) = {args}
  BY <1>2, <1>3 DEF Parse, ParseLlm, Parsed
<1> HIDE DEF args
<1>6. MayCreate(NoValue, "llm", "NONE")
  BY GoodKinds DEF MayCreate
<1>7. NewLlm(v.type, v.conf) = {v}
  BY LlmIsGood DEF GoodLlm
<1>8. Effect(command, NoValue) = {v}
  BY <1>2, <1>4, <1>5, <1>6, <1>7 DEF Effect
<1>9. Executed(NoValue, command) = v
  BY <1>8, ExecutedOne
<1>10. FoldLeft(Executed, NoValue, commands) = Executed(NoValue, commands[1])
  BY <1>1, OneCommand
<1> QED BY <1>1, <1>9, <1>10 DEF Replay, commands

LEMMA NoCommands ==
  ASSUME NEW base, NEW commands, DOMAIN commands = 1 .. 0
  PROVE  FoldLeft(Executed, base, commands) = base
<1>1. PICK acc : /\ Commands!Accumulates(acc, base, commands, 0)
                 /\ acc[0] = FoldLeft(Executed, base, commands)
  BY CommandsFold
<1> QED BY <1>1 DEF Commands!Accumulates

(* LLM.CREATE-APP has no --TYPE: the command is refused, if there is one.  *)
LEMMA RewriteAppGivesNothing ==
  ASSUME NEW k, NEW v
  PROVE  Replay(RewriteApp(k, v), NoValue) = NoValue
<1> DEFINE options == <<Option("--TYPE", v.type), Option("--LLM", LlmText(v.llm)),
                        Option("--PARAMS", v.conf)>>
           command == Command("LLM.CREATE-APP", k, options, <<>>)
           commands == RewriteApp(k, v)
<1>5. CASE ~Writable(v)
  <2>1. DOMAIN commands = 1 .. 0
    BY <1>5 DEF RewriteApp
  <2> HIDE DEF commands
  <2> QED BY <2>1, NoCommands DEF Replay, commands
<1> SUFFICES ASSUME Writable(v) PROVE Replay(RewriteApp(k, v), NoValue) = NoValue
  BY <1>5
<1>1. DOMAIN commands = 1 .. 1 /\ commands[1] = command
  BY DEF RewriteApp
<1>2. command.name = "LLM.CREATE-APP" /\ command.options = options
  BY DEF Command
<1>3. 1 \in DOMAIN options /\ options[1].name = "--TYPE"
  BY DEF Option
<1> HIDE DEF command, commands, options
<1>4. Parse(command) = {}
  BY <1>2, <1>3 DEF Parse, ParseApp, Parsed
<1> QED BY <1>1, <1>4, ExecutedNone, OneCommand DEF Replay, commands

(* LLM.ADD has no --WITHEMBEDDING: every item is refused.                  *)
LEMMA RewriteStoreGivesEmpty ==
  ASSUME NEW k, NEW v, GoodStore(v)
  PROVE  Replay(RewriteStore(k, v), NoValue) = Fresh("store", v.type, v.conf, NoLlm)
<1> DEFINE options == <<Option("--TYPE", v.type), Option("--PARAMS", v.conf)>>
           create == Command("LLM.CREATE-VECTOR-STORE", k, options, <<>>)
           ids == SetToSeq(DOMAIN v.items)
           adds == RewriteItems(k, v)
           commands == RewriteStore(k, v)
           args == FoldLeft(TakeOption, [NoArgs EXCEPT !.type = "hnsw"], options)
           fresh == Fresh("store", v.type, v.conf, NoLlm)
<1>1. create.name = "LLM.CREATE-VECTOR-STORE" /\ create.options = options /\ Len(create.arguments) = 0
  BY DEF Command
<1>2. \A i \in DOMAIN options : options[i].name \in {"--NX", "--XX", "--TYPE", "--PARAMS", "--LLM"}
  BY DEF Option
<1>3. args.opt = "NONE" /\ args.type = v.type /\ args.conf = v.conf /\ args.llm = NoLlm
  BY TakeTypeAndParams
<1> HIDE DEF create, options
<1>4. Parse(create) = {args}
  BY <1>1, <1>2 DEF Parse, ParseStore, Parsed
<1> HIDE DEF args
<1>5. MayCreate(NoValue, "store", "NONE")
  BY GoodKinds DEF MayCreate
<1>6. NewStore(v.type, v.conf, NoLlm) = {fresh}
  BY DEF NewStore, GoodStore
<1> HIDE DEF fresh
<1>7. Effect(create, NoValue) = {fresh}
  BY <1>1, <1>3, <1>4, <1>5, <1>6 DEF Effect
<1>8. Executed(NoValue, create) = fresh
  BY <1>7, ExecutedOne
<1>9. PICK n \in Nat : ids \in [1 .. n -> DOMAIN v.items]
  <2>1. IsFiniteSet(DOMAIN v.items)
    BY FS_Subset DEF GoodStore
  <2> QED BY <2>1, SetToSeqLists
<1> DEFINE add(j) == Command("LLM.ADD", k, <<Option("--WITHEMBEDDING", ids[j])>>,
                             <<v.items[ids[j]].data, v.items[ids[j]].vec>>)
<1>10. adds = [j \in 1 .. n |-> add(j)]
  BY <1>9 DEF RewriteItems
<1>11. ASSUME NEW j \in 1 .. n PROVE Parse(adds[j]) = {}
  <2> DEFINE options2 == <<Option("--WITHEMBEDDING", ids[j])>>
             command == adds[j]
  <2>1. command.name = "LLM.ADD" /\ command.options = options2
    BY <1>10 DEF Command
  <2>2. 1 \in DOMAIN options2 /\ options2[1].name = "--WITHEMBEDDING"
    BY DEF Option
  <2> HIDE DEF options2, command
  <2>3. Parse(command) = {}
    BY <2>1, <2>2 DEF Parse, ParseAdd, Parsed
  <2> QED BY <2>3 DEF command
<1> DEFINE S == {create} \union {adds[j] : j \in 1 .. n}
<1>12. adds \in Seq(S) /\ Len(adds) = n
  <2>1. DOMAIN adds = 1 .. n /\ \A j \in 1 .. n : adds[j] \in S
    BY <1>10
  <2>2. adds = [j \in 1 .. n |-> adds[j]]
    BY <1>10
  <2> HIDE DEF adds, S
  <2> QED BY <1>9, <2>1, <2>2
<1>13. commands = <<create>> \o adds
  BY DEF RewriteStore, create, options
<1> HIDE DEF adds, commands, S
<1>14. DOMAIN commands = 1 .. n + 1 /\ commands[1] = create /\ \A j \in 1 .. n : commands[j + 1] = adds[j]
  <2> DEFINE head == <<create>>
  <2>1. head \in Seq(S) /\ Len(head) = 1 /\ head[1] = create
    BY DEF S
  <2> HIDE DEF head
  <2>2. /\ head \o adds \in Seq(S) /\ Len(head \o adds) = Len(head) + Len(adds)
        /\ \A i \in 1 .. Len(head) + Len(adds) :
             (head \o adds)[i] = IF i <= Len(head) THEN head[i] ELSE adds[i - Len(head)]
    BY <1>12, <2>1, ConcatProperties
  <2>3. commands = head \o adds
    BY <1>13 DEF head
  <2>4. Len(commands) = n + 1 /\ commands \in Seq(S)
    BY <1>12, <2>1, <2>2, <2>3
  <2>5. DOMAIN commands = 1 .. n + 1
    BY <2>4
  <2>6. \A i \in 1 .. n + 1 : commands[i] = IF i <= 1 THEN head[i] ELSE adds[i - 1]
    BY <1>12, <2>1, <2>2, <2>3
  <2>7. commands[1] = create
    BY <2>1, <2>6
  <2>8. \A j \in 1 .. n : j + 1 \in 1 .. n + 1 /\ ~(j + 1 <= 1) /\ (j + 1) - 1 = j
    OBVIOUS
  <2>9. \A j \in 1 .. n : commands[j + 1] = adds[j]
    BY <2>6, <2>8
  <2> QED BY <2>5, <2>7, <2>9
<1>15. PICK acc : /\ Commands!Accumulates(acc, NoValue, commands, n + 1)
                  /\ acc[n + 1] = FoldLeft(Executed, NoValue, commands)
  BY <1>14, CommandsFold
<1>16. acc[0] = NoValue /\ \A i \in 1 .. n + 1 : acc[i] = Executed(acc[i - 1], commands[i])
  BY <1>15 DEF Commands!Accumulates
<1> DEFINE Done == {m \in Nat : m <= n => acc[m + 1] = fresh}
<1>17. 0 \in Done
  <2>1. 1 \in 1 .. n + 1 /\ 1 - 1 = 0 /\ 0 + 1 = 1
    OBVIOUS
  <2>2. acc[1] = Executed(NoValue, create)
    BY <1>14, <1>16, <2>1
  <2> QED BY <1>8, <2>1, <2>2
<1>18. ASSUME NEW m \in Nat, m \in Done PROVE m + 1 \in Done
  <2> SUFFICES ASSUME m + 1 <= n PROVE acc[(m + 1) + 1] = fresh
    OBVIOUS
  <2>1. m + 1 \in 1 .. n /\ (m + 1) + 1 \in 1 .. n + 1 /\ ((m + 1) + 1) - 1 = m + 1
    OBVIOUS
  <2>2. acc[m + 1] = fresh
    BY <1>18
  <2> HIDE DEF Done
  <2>3. acc[(m + 1) + 1] = Executed(fresh, adds[m + 1])
    BY <1>14, <1>16, <2>1, <2>2
  <2> QED BY <1>11, <2>1, <2>3, ExecutedNone
<1>19. acc[n + 1] = fresh
  <2> HIDE DEF Done
  <2>1. n \in Done
    BY <1>17, <1>18, Commands!NatSetInduction
  <2> QED BY <2>1 DEF Done
<1> QED BY <1>15, <1>19 DEF Replay, commands, fresh

(* Whatever can be in memory: what its rewritten commands make.            *)
LEMMA RewriteRemakes ==
  ASSUME NEW k, NEW v, GoodValue(v)
  PROVE  Replay(Rewrite(k, v), NoValue) = Remade(v) /\ GoodValue(Remade(v))
<1>1. GoodValue(NoValue)
  BY DEF GoodValue
<1>2. CASE v = NoValue
  <2>1. v.kind = "none" /\ Rewrite(k, v) = <<>> /\ Remade(v) = NoValue
    BY <1>2, GoodKinds DEF Rewrite, Remade
  <2> DEFINE commands == Rewrite(k, v)
  <2>2. DOMAIN commands = 1 .. 0
    BY <2>1
  <2> HIDE DEF commands
  <2> QED BY <1>1, <2>1, <2>2, NoCommands DEF Replay, commands
<1>3. CASE GoodLlm(v)
  <2>1. v.kind = "llm"
    BY <1>3, GoodKinds
  <2>2. Rewrite(k, v) = RewriteLlm(k, v) /\ Remade(v) = v
    BY <2>1 DEF Rewrite, Remade
  <2> QED BY <1>3, <2>2, RewriteLlmGivesBack
<1>4. CASE GoodApp(v)
  <2>1. v.kind = "app"
    BY <1>4, GoodKinds
  <2>2. Rewrite(k, v) = RewriteApp(k, v) /\ Remade(v) = NoValue
    BY <2>1 DEF Rewrite, Remade
  <2> QED BY <1>1, <2>2, RewriteAppGivesNothing
<1>5. CASE GoodStore(v)
  <2>1. v.kind = "store"
    BY <1>5, GoodKinds
  <2>2. Rewrite(k, v) = RewriteStore(k, v) /\ Remade(v) = Fresh("store", v.type, v.conf, NoLlm)
    BY <2>1 DEF Rewrite, Remade
  <2>3. Remade(v) \in NewStore(v.type, v.conf, NoLlm)
    BY <1>5, <2>2 DEF NewStore, GoodStore
  <2>4. IsLlmInfo(NoLlm) /\ Fits(v.conf)
    BY <1>5 DEF IsLlmInfo, NoLlm, Fits, MaxElements, GoodStore
  <2>5. GoodValue(Remade(v))
    BY <2>3, <2>4, StoreIsGood DEF GoodValue
  <2> QED BY <1>5, <2>2, <2>5, RewriteStoreGivesEmpty
<1> QED BY <1>2, <1>3, <1>4, <1>5 DEF GoodValue

-----------------------------------------------------------------------------
(* The invariant                                                           *)

TaskStates ==
  [pc : {"idle", "working", "adding"}, store : {NoObject} \union Objects, refs : SUBSET Objects]

Pointers ==
  /\ keys \in [Keys -> {NoObject} \union Objects]
  /\ task \in [Tasks -> TaskStates]
  /\ heap = [o \in Objects |-> heap[o]]

(* A worker holds the store it adds to.                                    *)
HoldsStore ==
  \A t \in Tasks : task[t].pc # "idle" =>
    task[t].store \in task[t].refs /\ heap[task[t].store].kind = "store"

HeapIsGood == \A o \in Objects : GoodValue(heap[o])

(* What is in memory.                                                      *)
MemoryInv == Pointers /\ HoldsStore /\ PoolIsKeyspace /\ HeapIsGood

(* What the child has copied, and what is on disk; and the bounds.         *)
DiskInv ==
  /\ child = NoChild \/ child.writes \in {"rdb", "aof"}
  /\ child.locked \subseteq Keys
  /\ file.format \in {"none", "rdb", "aof"}
  /\ \A k \in Keys : GoodValue(child.image[k]) /\ GoodValue(file.image[k])
  /\ forks \in 0 .. MaxForks /\ issued \in 0 .. MaxCommands

IInv == MemoryInv /\ DiskInv

-----------------------------------------------------------------------------
(* Values                                                                  *)

LEMMA AddedIsStore ==
  ASSUME NEW store, NEW id, NEW item, NEW value \in Added(store, id, item)
  PROVE  value.kind = "store"
BY DEF Added, Stored, Filled

(* A command that succeeds leaves a value, and LLM.ADD a store.            *)
LEMMA EffectKind ==
  ASSUME NEW command, NEW old, NEW value \in Effect(command, old)
  PROVE  /\ value.kind \in {"llm", "store", "app"}
         /\ command.name = "LLM.ADD" => old.kind = "store" /\ value.kind = "store"
<1> HIDE DEF Effect
<1>1. \A type, conf, v : v \in NewLlm(type, conf) => v.kind = "llm"
  BY DEF NewLlm, Fresh
<1>2. \A type, conf, llm, v : v \in NewStore(type, conf, llm) => v.kind = "store"
  BY DEF NewStore, Fresh
<1>3. \A type, conf, llm, v : v \in NewApp(type, conf, llm) => v.kind = "app"
  BY DEF NewApp, Fresh
<1>4. \A id, item, v : v \in Added(old, id, item) => v.kind = "store"
  BY AddedIsStore
<1>5. CASE command.name = "LLM.CREATE-LLM"
  <2>1. PICK args \in Parse(command) : value \in NewLlm(args.type, args.conf)
    BY <1>5 DEF Effect
  <2> QED BY <1>1, <1>5, <2>1
<1>6. CASE command.name = "LLM.CREATE-VECTOR-STORE"
  <2>1. PICK args \in Parse(command) : value \in NewStore(args.type, args.conf, args.llm)
    BY <1>6 DEF Effect
  <2> QED BY <1>2, <1>6, <2>1
<1>7. CASE command.name = "LLM.ADD"
  <2>1. PICK args \in Parse(command) :
          /\ old.kind = "store"
          /\ value \in Added(old, args.id, [data |-> command.arguments[1], vec |-> args.vec])
    BY <1>7 DEF Effect
  <2> QED BY <1>4, <2>1
<1>8. CASE command.name \notin {"LLM.CREATE-LLM", "LLM.CREATE-VECTOR-STORE", "LLM.ADD"}
  <2>1. PICK args \in Parse(command) : value \in NewApp(args.type, args.conf, args.llm)
    BY <1>8 DEF Effect
  <2> QED BY <1>3, <1>8, <2>1
<1> QED BY <1>5, <1>6, <1>7, <1>8

-----------------------------------------------------------------------------
(* Memory                                                                  *)

(* Put: the new object is none that is in use.                             *)
LEMMA PutKeeps ==
  ASSUME MemoryInv, NEW k \in Keys, NEW value, value.kind \in {"llm", "store", "app"}, GoodValue(value),
         Put(k, value)
  PROVE  MemoryInv'
<1> DEFINE o == CHOOSE x \in Free : TRUE
<1>1. /\ o \in Free /\ o \in Objects /\ o \notin pool
      /\ \A t \in Tasks : o \notin task[t].refs
      /\ keys' = [keys EXCEPT ![k] = o] /\ pool' = (pool \ {keys[k]}) \union {o}
      /\ heap' = Collect([heap EXCEPT ![o] = value], pool', task) /\ task' = task
  BY DEF Put, Free, Alive
<1> HIDE DEF o
<1>2. o # NoObject
  BY <1>1, ObjectsAssumption DEF NoObject
<1>3. /\ keys \in [Keys -> {NoObject} \union Objects] /\ task \in [Tasks -> TaskStates]
      /\ heap = [x \in Objects |-> heap[x]]
  BY DEF MemoryInv, Pointers
<1>0. heap' = [x \in Objects |-> heap'[x]]
  BY <1>1 DEF Collect
<1>4. /\ \A x \in Objects \intersect pool' : heap'[x] = [heap EXCEPT ![o] = value][x]
      /\ \A t \in Tasks, x \in Objects : x \in task[t].refs => heap'[x] = [heap EXCEPT ![o] = value][x]
  BY <1>1 DEF Collect, Alive
<1>5. heap'[o] = value /\ \A x \in Objects : x # o /\ x \in pool' => heap'[x] = heap[x]
  BY <1>1, <1>3, <1>4
<1>6. \A t \in Tasks, x \in Objects : x \in task[t].refs => heap'[x] = heap[x]
  BY <1>1, <1>3, <1>4
<1>7. Pointers'
  BY <1>0, <1>1, <1>3 DEF Pointers, TaskStates
<1>8. HoldsStore'
  <2> SUFFICES ASSUME NEW t \in Tasks, task[t].pc # "idle"
               PROVE  task[t].store \in task[t].refs /\ heap'[task[t].store].kind = "store"
    BY <1>1 DEF HoldsStore
  <2>1. /\ task[t].store \in task[t].refs /\ heap[task[t].store].kind = "store"
        /\ task[t].refs \subseteq Objects
    BY <1>3 DEF MemoryInv, HoldsStore, TaskStates
  <2> QED BY <1>6, <2>1
<1>9. PoolIsKeyspace'
  <2>1. /\ pool = {keys[l] : l \in Keys} \ {NoObject}
        /\ \A l, m \in Keys : keys[l] = keys[m] /\ keys[l] # NoObject => l = m
        /\ \A x \in pool : heap[x].kind # "none"
    BY DEF MemoryInv, PoolIsKeyspace
  <2>2. \A l \in Keys : keys'[l] = IF l = k THEN o ELSE keys[l]
    BY <1>1, <1>3
  <2>3. \A l \in Keys : keys[l] # o
    BY <1>1, <1>2, <2>1
  <2>4. pool' = {keys'[l] : l \in Keys} \ {NoObject}
    BY <1>1, <1>2, <2>1, <2>2
  <2>5. \A l, m \in Keys : keys'[l] = keys'[m] /\ keys'[l] # NoObject => l = m
    BY <2>1, <2>2, <2>3
  <2>6. \A x \in pool' : heap'[x].kind # "none"
    <3>1. \A x \in pool' : x \in Objects
      BY <1>3, <2>2, <2>4, <1>1
    <3> QED BY <1>1, <1>5, <2>1, <3>1
  <2> QED BY <2>4, <2>5, <2>6 DEF PoolIsKeyspace
<1>10. HeapIsGood'
  <2> SUFFICES ASSUME NEW x \in Objects PROVE GoodValue(heap'[x])
    BY DEF HeapIsGood
  <2>1. heap'[x] \in {value, heap[x], NoValue}
    BY <1>1, <1>3 DEF Collect
  <2>2. GoodValue(heap[x]) /\ GoodValue(NoValue)
    BY DEF MemoryInv, HeapIsGood, GoodValue
  <2> QED BY <2>1, <2>2
<1> QED BY <1>7, <1>8, <1>9, <1>10 DEF MemoryInv

(* A value is changed where it is: LLM.ADD, LLM.REM and LLM.RUN.           *)
LEMMA ChangeKeeps ==
  ASSUME MemoryInv, NEW o \in Objects, NEW value, value.kind = heap[o].kind, GoodValue(value),
         heap' = [heap EXCEPT ![o] = value], UNCHANGED <<keys, pool, task>>
  PROVE  MemoryInv'
<1>1. /\ heap = [x \in Objects |-> heap[x]] /\ keys \in [Keys -> {NoObject} \union Objects]
      /\ task \in [Tasks -> TaskStates]
  BY DEF MemoryInv, Pointers
<1>2. heap' = [x \in Objects |-> heap'[x]] /\ \A x \in Objects : heap'[x] = IF x = o THEN value ELSE heap[x]
  BY <1>1
<1>3. \A x \in Objects : /\ heap[x].kind = "store" => heap'[x].kind = "store"
                         /\ heap[x].kind # "none" => heap'[x].kind # "none"
  BY <1>2
<1>4. Pointers'
  BY <1>1, <1>2 DEF Pointers, TaskStates
<1>5. HoldsStore'
  BY <1>1, <1>3 DEF MemoryInv, HoldsStore, TaskStates
<1>6. pool \subseteq Objects
  BY <1>1 DEF MemoryInv, PoolIsKeyspace
<1>7. PoolIsKeyspace'
  BY <1>3, <1>6 DEF MemoryInv, PoolIsKeyspace
<1>8. HeapIsGood'
  BY <1>2 DEF MemoryInv, HeapIsGood
<1> QED BY <1>4, <1>5, <1>7, <1>8 DEF MemoryInv

(* The end of a worker's task, after which the store may go.               *)
LEMMA FinishKeeps ==
  ASSUME MemoryInv, NEW t \in Tasks, NEW memory, Finish(t, memory), UNCHANGED <<keys, pool>>,
         \A o \in Objects : /\ heap[o].kind = "store" => memory[o].kind = "store"
                            /\ heap[o].kind # "none" => memory[o].kind # "none"
                            /\ GoodValue(memory[o])
  PROVE  MemoryInv'
<1>1. /\ heap = [x \in Objects |-> heap[x]] /\ keys \in [Keys -> {NoObject} \union Objects]
      /\ task \in [Tasks -> TaskStates]
  BY DEF MemoryInv, Pointers
<1>2. task' = [task EXCEPT ![t] = Idle] /\ heap' = Collect(memory, pool, task')
  BY DEF Finish
<1>3. Idle \in TaskStates /\ Idle.pc = "idle"
  BY DEF Idle, TaskStates
<1>0. heap' = [o \in Objects |-> heap'[o]]
  BY <1>2 DEF Collect
<1>4. /\ \A o \in Objects \intersect pool : heap'[o] = memory[o]
      /\ \A q \in Tasks, o \in Objects : o \in task'[q].refs => heap'[o] = memory[o]
  BY <1>2 DEF Collect, Alive
<1>5. Pointers'
  BY <1>0, <1>1, <1>2, <1>3 DEF Pointers
<1>6. HoldsStore'
  <2> SUFFICES ASSUME NEW q \in Tasks, task'[q].pc # "idle"
               PROVE  task'[q].store \in task'[q].refs /\ heap'[task'[q].store].kind = "store"
    BY DEF HoldsStore
  <2>1. q # t /\ task'[q] = task[q]
    BY <1>1, <1>2, <1>3
  <2>2. /\ task[q].store \in task[q].refs /\ heap[task[q].store].kind = "store"
        /\ task[q].refs \subseteq Objects
    BY <1>1, <2>1 DEF MemoryInv, HoldsStore, TaskStates
  <2> QED BY <1>4, <2>1, <2>2
<1>7. PoolIsKeyspace'
  <2>1. pool \subseteq Objects
    BY <1>1 DEF MemoryInv, PoolIsKeyspace
  <2> QED BY <1>4, <2>1 DEF MemoryInv, PoolIsKeyspace
<1>8. HeapIsGood'
  <2> SUFFICES ASSUME NEW x \in Objects PROVE GoodValue(heap'[x])
    BY DEF HeapIsGood
  <2>1. heap'[x] \in {memory[x], NoValue}
    BY <1>2 DEF Collect
  <2> QED BY <2>1 DEF GoodValue
<1> QED BY <1>5, <1>6, <1>7, <1>8 DEF MemoryInv

-----------------------------------------------------------------------------
(* The steps                                                               *)

(* Whatever is loaded from the disk.                                       *)
LEMMA LoadedIsGood ==
  ASSUME DiskInv, NEW k \in Keys, NEW value \in Loaded(k)
  PROVE  GoodValue(value)
<1>1. GoodValue(file.image[k]) /\ file.format \in {"none", "rdb", "aof"}
  BY DEF DiskInv
<1>2. CASE file.format = "none"
  BY <1>2 DEF Loaded, GoodValue
<1>3. CASE file.format = "rdb"
  <2>1. value \in Load(file.image[k].kind, Save(file.image[k]))
    BY <1>3 DEF Loaded, Saved
  <2> QED BY <1>1, <2>1, RoundTrip, ReloadedIsGood
<1>4. CASE file.format = "aof"
  <2>1. value = Replay(Rewrite(k, file.image[k]), NoValue)
    BY <1>4 DEF Loaded, Rewritten
  <2> QED BY <1>1, <2>1, RewriteRemakes
<1> QED BY <1>1, <1>2, <1>3, <1>4

(* After a restart the keys hold what has been loaded, and nobody else     *)
(* holds anything.                                                         *)
LEMMA RestartKeeps == ASSUME DiskInv, Restart PROVE MemoryInv'
<1>1. PICK value :
        /\ \A k \in Keys : value[k] \in Loaded(k)
        /\ keys' = [k \in Keys |-> IF value[k].kind = "none" THEN NoObject ELSE Place[k]]
        /\ heap' = [o \in Objects |->
                     IF \E k \in Keys : keys'[k] = o
                       THEN value[CHOOSE k \in Keys : keys'[k] = o] ELSE NoValue]
        /\ pool' = {keys'[k] : k \in Keys} \ {NoObject}
        /\ task' = [t \in Tasks |-> Idle]
  BY DEF Restart
<1>2. Place \in [Keys -> Objects] /\ \A k, l \in Keys : Place[k] = Place[l] => k = l
  BY ObjectsAssumption DEF Place
<1>3. NoObject \notin Objects
  BY ObjectsAssumption DEF NoObject
<1>4. Pointers'
  <2>1. keys' \in [Keys -> {NoObject} \union Objects]
    BY <1>1, <1>2
  <2>2. task' \in [Tasks -> TaskStates]
    BY <1>1 DEF Idle, TaskStates
  <2>3. heap' = [o \in Objects |-> heap'[o]]
    BY <1>1
  <2> QED BY <2>1, <2>2, <2>3 DEF Pointers
<1>5. HoldsStore'
  BY <1>1 DEF HoldsStore, Idle
<1>6. \A k, l \in Keys : keys'[k] = keys'[l] /\ keys'[k] # NoObject => k = l
  BY <1>1, <1>2
<1>7. ASSUME NEW o \in pool' PROVE heap'[o].kind # "none"
  <2>1. PICK k \in Keys : keys'[k] = o /\ o # NoObject
    BY <1>1, <1>7
  <2>2. value[k].kind # "none" /\ o \in Objects
    BY <1>1, <1>2, <2>1
  <2>3. (CHOOSE l \in Keys : keys'[l] = o) = k
    BY <1>6, <2>1
  <2> QED BY <1>1, <2>1, <2>2, <2>3
<1>8. PoolIsKeyspace'
  BY <1>1, <1>6, <1>7 DEF PoolIsKeyspace
<1>9. HeapIsGood'
  <2> SUFFICES ASSUME NEW o \in Objects PROVE GoodValue(heap'[o])
    BY DEF HeapIsGood
  <2>1. CASE \E k \in Keys : keys'[k] = o
    <3> DEFINE k == CHOOSE l \in Keys : keys'[l] = o
    <3>1. k \in Keys /\ heap'[o] = value[k]
      BY <1>1, <2>1
    <3> HIDE DEF k
    <3> QED BY <1>1, <3>1, LoadedIsGood
  <2>2. CASE ~ \E k \in Keys : keys'[k] = o
    BY <1>1, <2>2 DEF GoodValue
  <2> QED BY <2>1, <2>2
<1> QED BY <1>4, <1>5, <1>8, <1>9 DEF MemoryInv

(* The options of a command that creates a value.                          *)
LEMMA ConditionAnd ==
  ASSUME NEW condition \in Condition, NEW S, NEW rest \in Seq(S)
  PROVE  \E n \in Nat :
           /\ DOMAIN (condition \o rest) = 1 .. n
           /\ \A i \in 1 .. n : \/ (condition \o rest)[i].name \in {"--NX", "--XX"}
                                \/ (condition \o rest)[i] \in S
<1> DEFINE nx == Option("--NX", "")
           xx == Option("--XX", "")
           T == {nx, xx} \union S
           options == condition \o rest
<1>1. condition \in Seq(T) /\ rest \in Seq(T)
  <2>1. condition \in {<<>>, <<nx>>, <<xx>>}
    BY DEF Condition
  <2>2. nx \in T /\ xx \in T /\ S \subseteq T
    OBVIOUS
  <2> HIDE DEF nx, xx, T
  <2>3. <<>> \in Seq(T) /\ <<nx>> \in Seq(T) /\ <<xx>> \in Seq(T)
    BY <2>2
  <2>4. rest \in Seq(T)
    BY <2>2
  <2> QED BY <2>1, <2>3, <2>4
<1>2. nx.name = "--NX" /\ xx.name = "--XX"
  BY DEF Option
<1> HIDE DEF nx, xx, T
<1>3. options \in Seq(T)
  BY <1>1, ConcatProperties
<1> HIDE DEF options
<1>4. /\ Len(options) \in Nat /\ DOMAIN options = 1 .. Len(options)
      /\ \A i \in 1 .. Len(options) : options[i] \in T
  BY <1>3
<1>5. \A i \in 1 .. Len(options) : options[i].name \in {"--NX", "--XX"} \/ options[i] \in S
  BY <1>2, <1>4 DEF T
<1> QED BY <1>4, <1>5 DEF options

LEMMA MainThreadKeeps == ASSUME MemoryInv, DiskInv, MainThread PROVE MemoryInv'
<1>1. /\ heap = [x \in Objects |-> heap[x]] /\ keys \in [Keys -> {NoObject} \union Objects]
      /\ task \in [Tasks -> TaskStates]
  BY DEF MemoryInv, Pointers
<1>2. ASSUME NEW command, command.key \in Keys, Execute(command), command.name \in Creates,
             NEW n \in Nat, DOMAIN command.options = 1 .. n,
             command.name = "LLM.CREATE-VECTOR-STORE" =>
               \A i \in 1 .. n : command.options[i].name = "--PARAMS" => Fits(command.options[i].value)
      PROVE  MemoryInv'
  <2>1. PICK value \in Effect(command, Value(command.key)) : Put(command.key, value)
    BY <1>2 DEF Execute
  <2>2. value.kind \in {"llm", "store", "app"}
    BY EffectKind
  <2>3. GoodValue(value)
    BY <1>2, CreatedIsGood
  <2> QED BY <1>2, <2>1, <2>2, <2>3, PutKeeps
<1>3. ASSUME NEW k \in StoreKeys \intersect Keys, CreateVectorStore(k) PROVE MemoryInv'
  <2>1. PICK condition \in Condition, conf \in StoreConfs, text \in LlmTexts :
          Execute(Command("LLM.CREATE-VECTOR-STORE", k,
                          condition \o <<Option("--PARAMS", conf), Option("--LLM", text)>>, <<>>))
    BY <1>3 DEF CreateVectorStore
  <2> DEFINE options == condition \o <<Option("--PARAMS", conf), Option("--LLM", text)>>
             command == Command("LLM.CREATE-VECTOR-STORE", k, options, <<>>)
  <2>2. PICK n \in Nat : /\ DOMAIN options = 1 .. n
                         /\ \A i \in 1 .. n : \/ options[i].name \in {"--NX", "--XX"}
                                              \/ options[i] \in {Option("--PARAMS", conf), Option("--LLM", text)}
    <3> DEFINE S == {Option("--PARAMS", conf), Option("--LLM", text)}
               rest == <<Option("--PARAMS", conf), Option("--LLM", text)>>
    <3>1. rest \in Seq(S)
      OBVIOUS
    <3> HIDE DEF S, rest
    <3>2. \E n \in Nat : /\ DOMAIN (condition \o rest) = 1 .. n
                         /\ \A i \in 1 .. n : \/ (condition \o rest)[i].name \in {"--NX", "--XX"}
                                              \/ (condition \o rest)[i] \in S
      BY <3>1, ConditionAnd
    <3> QED BY <3>2 DEF S, rest
  <2> HIDE DEF options
  <2>3. /\ command.key = k /\ command.name = "LLM.CREATE-VECTOR-STORE" /\ command.options = options
    BY DEF Command
  <2>4. Execute(command)
    BY <2>1 DEF options
  <2>5. \A i \in 1 .. n : options[i].name = "--PARAMS" => Fits(options[i].value)
    BY <2>2, StoreConfsAssumption DEF Option, Fits
  <2> HIDE DEF command
  <2> QED BY <1>2, <2>2, <2>3, <2>4, <2>5 DEF Creates
<1>4. ASSUME NEW k \in OtherKeys \intersect Keys, NEW name \in Creates \ {"LLM.CREATE-VECTOR-STORE"},
             NEW condition \in Condition, NEW S, NEW rest \in Seq(S),
             Execute(Command(name, k, condition \o rest, <<>>))
      PROVE  MemoryInv'
  <2> DEFINE options == condition \o rest
             command == Command(name, k, options, <<>>)
  <2>1. PICK n \in Nat : DOMAIN options = 1 .. n
    BY ConditionAnd
  <2> HIDE DEF options
  <2>2. /\ command.key = k /\ command.name = name /\ command.options = options
    BY DEF Command
  <2>3. Execute(command)
    BY <1>4 DEF options
  <2> HIDE DEF command
  <2> QED BY <1>2, <2>1, <2>2, <2>3
<1>5. ASSUME NEW k \in OtherKeys \intersect Keys, CreateLlm(k) \/ CreateApp(k) \/ CreateAppBreaks(k)
      PROVE  MemoryInv'
  <2>1. CASE CreateLlm(k)
    <3>1. PICK condition \in Condition, type \in {"openai", "llamacpp"}, conf \in ModelConfs :
            Execute(Command("LLM.CREATE-LLM", k,
                            condition \o <<Option("--TYPE", type), Option("--PARAMS", conf)>>, <<>>))
      BY <2>1 DEF CreateLlm
    <3> DEFINE rest == <<Option("--TYPE", type), Option("--PARAMS", conf)>>
               S == {Option("--TYPE", type), Option("--PARAMS", conf)}
    <3>2. rest \in Seq(S)
      OBVIOUS
    <3>3. Execute(Command("LLM.CREATE-LLM", k, condition \o rest, <<>>))
      BY <3>1
    <3> HIDE DEF rest, S
    <3> QED BY <1>4, <3>2, <3>3 DEF Creates
  <2>2. CASE CreateApp(k)
    <3>1. PICK command \in AppCommands(k) : Execute(command)
      BY <2>2 DEF CreateApp
    <3>2. CASE \E condition \in Condition, text \in LlmTexts, conf \in AppConfs :
                 command = Command("LLM.CREATE-APP", k,
                                   condition \o <<Option("--LLM", text), Option("--PARAMS", conf)>>, <<>>)
      <4>1. PICK condition \in Condition, text \in LlmTexts, conf \in AppConfs :
              command = Command("LLM.CREATE-APP", k,
                                condition \o <<Option("--LLM", text), Option("--PARAMS", conf)>>, <<>>)
        BY <3>2
      <4> DEFINE rest == <<Option("--LLM", text), Option("--PARAMS", conf)>>
                 S == {Option("--LLM", text), Option("--PARAMS", conf)}
      <4>2. rest \in Seq(S)
        OBVIOUS
      <4>3. command = Command("LLM.CREATE-APP", k, condition \o rest, <<>>)
        BY <4>1
      <4> HIDE DEF rest, S
      <4> QED BY <1>4, <3>1, <4>2, <4>3 DEF Creates
    <3>3. CASE \E name \in {"LLM.CREATE-SEARCH", "LLM.CREATE-CHAT"},
                  condition \in Condition, text \in LlmTexts, s \in StoreKeys, prompt \in Prompts :
                 command = Command(name, k,
                                   condition \o <<Option("--LLM", text), Option("--VECTOR-STORE", s),
                                                  Option("--PROMPT", prompt)>>, <<>>)
      <4>1. PICK name \in {"LLM.CREATE-SEARCH", "LLM.CREATE-CHAT"},
                 condition \in Condition, text \in LlmTexts, s \in StoreKeys, prompt \in Prompts :
              command = Command(name, k,
                                condition \o <<Option("--LLM", text), Option("--VECTOR-STORE", s),
                                               Option("--PROMPT", prompt)>>, <<>>)
        BY <3>3
      <4> DEFINE rest == <<Option("--LLM", text), Option("--VECTOR-STORE", s), Option("--PROMPT", prompt)>>
                 S == {Option("--LLM", text), Option("--VECTOR-STORE", s), Option("--PROMPT", prompt)}
      <4>2. rest \in Seq(S)
        OBVIOUS
      <4>3. command = Command(name, k, condition \o rest, <<>>)
        BY <4>1
      <4> HIDE DEF rest, S
      <4> QED BY <1>4, <3>1, <4>1, <4>2, <4>3 DEF Creates
    <3> DEFINE plain(condition, text, conf) ==
                 Command("LLM.CREATE-APP", k,
                         condition \o <<Option("--LLM", text), Option("--PARAMS", conf)>>, <<>>)
               other(name, condition, text, s, prompt) ==
                 Command(name, k,
                         condition \o <<Option("--LLM", text), Option("--VECTOR-STORE", s),
                                        Option("--PROMPT", prompt)>>, <<>>)
    <3>4. \/ \E condition \in Condition, text \in LlmTexts, conf \in AppConfs :
                command = plain(condition, text, conf)
          \/ \E name \in {"LLM.CREATE-SEARCH", "LLM.CREATE-CHAT"},
                condition \in Condition, text \in LlmTexts, s \in StoreKeys, prompt \in Prompts :
                command = other(name, condition, text, s, prompt)
      <4>1. command \in {plain(condition, text, conf) :
                            condition \in Condition, text \in LlmTexts, conf \in AppConfs}
                       \union {other(name, condition, text, s, prompt) :
                            name \in {"LLM.CREATE-SEARCH", "LLM.CREATE-CHAT"},
                            condition \in Condition, text \in LlmTexts, s \in StoreKeys, prompt \in Prompts}
        BY <3>1 DEF AppCommands
      <4> HIDE DEF plain, other
      <4> QED BY <4>1
    <3> QED BY <3>2, <3>3, <3>4
  <2>3. CASE CreateAppBreaks(k)
    BY <2>3, RestartKeeps DEF CreateAppBreaks
  <2> QED BY <1>5, <2>1, <2>2, <2>3
<1>6. ASSUME NEW k \in Keys, Delete(k) PROVE MemoryInv'
  <2>1. /\ keys[k] # NoObject /\ keys' = [keys EXCEPT ![k] = NoObject]
        /\ pool' = pool \ {keys[k]} /\ heap' = Collect(heap, pool', task) /\ task' = task
    BY <1>6 DEF Delete
  <2>2. heap' = [x \in Objects |-> heap'[x]]
    BY <2>1 DEF Collect
  <2>3. /\ \A x \in Objects \intersect pool' : heap'[x] = heap[x]
        /\ \A t \in Tasks, x \in Objects : x \in task[t].refs => heap'[x] = heap[x]
    BY <2>1 DEF Collect, Alive
  <2>4. Pointers'
    BY <1>1, <2>1, <2>2 DEF Pointers
  <2>5. HoldsStore'
    <3> SUFFICES ASSUME NEW t \in Tasks, task[t].pc # "idle"
                 PROVE  task[t].store \in task[t].refs /\ heap'[task[t].store].kind = "store"
      BY <2>1 DEF HoldsStore
    <3>1. /\ task[t].store \in task[t].refs /\ heap[task[t].store].kind = "store"
          /\ task[t].refs \subseteq Objects
      BY <1>1 DEF MemoryInv, HoldsStore, TaskStates
    <3> QED BY <2>3, <3>1
  <2>6. PoolIsKeyspace'
    <3>1. /\ pool = {keys[l] : l \in Keys} \ {NoObject}
          /\ \A l, m \in Keys : keys[l] = keys[m] /\ keys[l] # NoObject => l = m
          /\ \A x \in pool : heap[x].kind # "none"
      BY DEF MemoryInv, PoolIsKeyspace
    <3>2. \A l \in Keys : keys'[l] = IF l = k THEN NoObject ELSE keys[l]
      BY <1>1, <2>1
    <3>3. pool' = {keys'[l] : l \in Keys} \ {NoObject}
      BY <2>1, <3>1, <3>2
    <3>4. \A l, m \in Keys : keys'[l] = keys'[m] /\ keys'[l] # NoObject => l = m
      BY <3>1, <3>2
    <3>5. \A x \in pool' : x \in Objects /\ heap'[x].kind # "none"
      BY <1>1, <2>1, <2>3, <3>1
    <3> QED BY <3>3, <3>4, <3>5 DEF PoolIsKeyspace
  <2>7. HeapIsGood'
    <3> SUFFICES ASSUME NEW x \in Objects PROVE GoodValue(heap'[x])
      BY DEF HeapIsGood
    <3>1. heap'[x] \in {heap[x], NoValue}
      BY <2>1 DEF Collect
    <3> QED BY <3>1 DEF MemoryInv, HeapIsGood, GoodValue
  <2> QED BY <2>4, <2>5, <2>6, <2>7 DEF MemoryInv
<1>7. ASSUME NEW k \in Keys, NEW id \in Ids, Rem(k, id) PROVE MemoryInv'
  <2>1. /\ Value(k).kind = "store" /\ heap' = [heap EXCEPT ![keys[k]] = Removed(Value(k), id)]
        /\ UNCHANGED <<keys, pool, task>>
    BY <1>7 DEF Rem
  <2>2. keys[k] \in Objects /\ heap[keys[k]].kind = "store"
    BY <1>1, <2>1 DEF Value, NoValue, Fresh
  <2>3. Removed(Value(k), id).kind = "store"
    BY DEF Removed, Filled
  <2>4. GoodStore(Value(k))
    BY <2>1, <2>2, GoodKinds DEF MemoryInv, HeapIsGood, GoodValue, Value
  <2>5. GoodValue(Removed(Value(k), id))
    BY <2>4, RemovedIsGood DEF GoodValue
  <2> QED BY <2>1, <2>2, <2>3, <2>5, ChangeKeeps
<1>8. ASSUME NEW k \in Keys, NEW id \in Ids, NEW item \in Items, AddSync(k, id, item) PROVE MemoryInv'
  <2> DEFINE command == Command("LLM.ADD", k, <<Option("--ID", id), Option("--EMBEDDING", item.vec)>>,
                                <<item.data>>)
  <2>1. /\ \E value \in Effect(command, Value(k)) : heap' = [heap EXCEPT ![keys[k]] = value]
        /\ UNCHANGED <<keys, pool, task>>
    BY <1>8 DEF AddSync
  <2>2. command.name = "LLM.ADD"
    BY DEF Command
  <2> HIDE DEF command
  <2>3. PICK value \in Effect(command, Value(k)) : heap' = [heap EXCEPT ![keys[k]] = value]
    BY <2>1
  <2>4. Value(k).kind = "store" /\ value.kind = "store"
    BY <2>2, EffectKind
  <2>5. keys[k] \in Objects /\ heap[keys[k]].kind = "store"
    BY <1>1, <2>4 DEF Value, NoValue, Fresh
  <2>6. GoodStore(Value(k))
    BY <2>4, <2>5, GoodKinds DEF MemoryInv, HeapIsGood, GoodValue, Value
  <2>7. value \in Added(Value(k), id, item)
    BY AddEffect DEF command
  <2>8. GoodValue(value)
    BY <2>6, <2>7, AddedIsGood DEF GoodValue
  <2> QED BY <2>1, <2>3, <2>4, <2>5, <2>8, ChangeKeeps
<1>9. ASSUME NEW t \in Tasks, NEW k \in Keys, AddAsync(t, k) PROVE MemoryInv'
  <2> DEFINE model == Value(k).llm.key
  <2>1. /\ Value(k).kind = "store" /\ model \in Keys /\ Value(model).kind = "llm"
        /\ task' = [task EXCEPT ![t] =
                      [pc |-> "working", store |-> keys[k], refs |-> {keys[k], keys[model]}]]
        /\ UNCHANGED <<keys, heap, pool>>
    BY <1>9 DEF AddAsync
  <2> HIDE DEF model
  <2>2. keys[k] \in Objects /\ heap[keys[k]].kind = "store"
    BY <1>1, <2>1 DEF Value, NoValue, Fresh
  <2>3. keys[model] \in Objects
    BY <1>1, <2>1 DEF Value, NoValue, Fresh
  <2>4. Pointers'
    BY <1>1, <2>1, <2>2, <2>3 DEF Pointers, TaskStates
  <2>5. HoldsStore'
    BY <1>1, <2>1, <2>2 DEF MemoryInv, HoldsStore
  <2>6. PoolIsKeyspace' /\ HeapIsGood'
    BY <2>1 DEF MemoryInv, PoolIsKeyspace, HeapIsGood
  <2> QED BY <2>4, <2>5, <2>6 DEF MemoryInv
<1>10. \A k \in StoreKeys \union OtherKeys : k \in Keys
  BY KeysAssumption
<1> QED BY <1>3, <1>5, <1>6, <1>7, <1>8, <1>9, <1>10 DEF MainThread

LEMMA WorkersKeep ==
  ASSUME MemoryInv, NEW t \in Tasks, EmbedFails(t) \/ LockStore(t) \/ \E item \in Items : Add(t, item)
  PROVE  MemoryInv'
<1>1. /\ heap = [x \in Objects |-> heap[x]] /\ keys \in [Keys -> {NoObject} \union Objects]
      /\ task \in [Tasks -> TaskStates]
  BY DEF MemoryInv, Pointers
<1>2. CASE EmbedFails(t)
  BY <1>2, FinishKeeps DEF EmbedFails, MemoryInv, HeapIsGood
<1>3. CASE LockStore(t)
  <2>1. /\ task[t].pc = "working" /\ task' = [task EXCEPT ![t].pc = "adding"]
        /\ UNCHANGED <<keys, heap, pool>>
    BY <1>3 DEF LockStore
  <2>2. Pointers'
    BY <1>1, <2>1 DEF Pointers, TaskStates
  <2>3. \A q \in Tasks : /\ task'[q].store = task[q].store /\ task'[q].refs = task[q].refs
                         /\ task'[q].pc # "idle" => task[q].pc # "idle"
    BY <1>1, <2>1 DEF TaskStates
  <2>4. HoldsStore'
    BY <2>1, <2>3 DEF MemoryInv, HoldsStore
  <2>5. PoolIsKeyspace' /\ HeapIsGood'
    BY <2>1 DEF MemoryInv, PoolIsKeyspace, HeapIsGood
  <2> QED BY <2>2, <2>4, <2>5 DEF MemoryInv
<1>4. ASSUME NEW item \in Items, Add(t, item) PROVE MemoryInv'
  <2> DEFINE o == task[t].store
  <2>1. o \in Objects /\ heap[o].kind = "store"
    BY <1>1, <1>4 DEF Add, MemoryInv, HoldsStore, TaskStates
  <2>2. PICK auto \in BOOLEAN, id \in Ids :
          LET drawn == IF auto THEN Drawn(heap[o], id) ELSE heap[o]
              stored == Added(drawn, id, item)
          IN Finish(t, [heap EXCEPT ![o] =
                          IF stored = {} THEN drawn ELSE CHOOSE v \in stored : TRUE])
    BY <1>4 DEF Add
  <2> DEFINE drawn == IF auto THEN Drawn(heap[o], id) ELSE heap[o]
             stored == Added(drawn, id, item)
             value == IF stored = {} THEN drawn ELSE CHOOSE v \in stored : TRUE
  <2>3. drawn.kind = "store" /\ GoodStore(drawn)
    <3>1. GoodStore(heap[o])
      BY <2>1, GoodKinds DEF MemoryInv, HeapIsGood, GoodValue
    <3>2. GoodStore(drawn)
      BY <3>1, DrawnIsGood
    <3> QED BY <3>2, GoodKinds
  <2>4. \A v \in stored : v.kind = "store" /\ GoodStore(v)
    <3> HIDE DEF drawn
    <3> QED BY <2>3, AddedIsStore, AddedIsGood
  <2>5. value.kind = "store" /\ GoodValue(value)
    <3> HIDE DEF drawn, stored
    <3> QED BY <2>3, <2>4 DEF GoodValue
  <2>6. Finish(t, [heap EXCEPT ![o] = value])
    BY <2>2
  <2>7. UNCHANGED <<keys, pool>>
    BY <1>4 DEF Add
  <2> HIDE DEF o, drawn, stored, value
  <2>8. \A x \in Objects : [heap EXCEPT ![o] = value][x] = IF x = o THEN value ELSE heap[x]
    BY <1>1
  <2>9. \A x \in Objects :
          /\ heap[x].kind = "store" => [heap EXCEPT ![o] = value][x].kind = "store"
          /\ heap[x].kind # "none" => [heap EXCEPT ![o] = value][x].kind # "none"
          /\ GoodValue([heap EXCEPT ![o] = value][x])
    BY <2>5, <2>8 DEF MemoryInv, HeapIsGood
  <2> QED BY <2>6, <2>7, <2>9, FinishKeeps
<1> QED BY <1>2, <1>3, <1>4

LEMMA ChatKeeps == ASSUME MemoryInv, NEW k \in Keys, Chat(k) PROVE MemoryInv'
<1> DEFINE v == Value(k)
           new == Fresh("app", v.type, v.conf, v.llm)
<1>1. /\ v.kind = "app" /\ heap' = [heap EXCEPT ![keys[k]] = Talked(v)]
      /\ UNCHANGED <<keys, pool, task>>
  BY DEF Chat
<1>2. keys[k] \in Objects /\ v = heap[keys[k]]
  BY <1>1 DEF Value, NoValue, Fresh, MemoryInv, Pointers
<1>3. GoodApp(v)
  BY <1>1, <1>2, GoodKinds DEF MemoryInv, HeapIsGood, GoodValue
<1> HIDE DEF v
<1>4. v \in {new, Talked(new)} /\ NewApp(v.type, v.conf, v.llm) = {new} /\ IsLlmInfo(v.llm)
  BY <1>3, AppIsNew DEF GoodApp
<1>5. /\ Talked(v) = Talked(new) /\ Talked(v).kind = "app" /\ Talked(v).type = v.type
      /\ Talked(v).conf = v.conf /\ Talked(v).llm = v.llm
  BY <1>4, TalkedApp
<1> HIDE DEF new
<1>6. GoodValue(Talked(v))
  BY <1>4, <1>5 DEF GoodApp, GoodValue
<1> QED BY <1>1, <1>2, <1>5, <1>6, ChangeKeeps

(* The child, its file and the bounds.                                     *)
LEMMA MainThreadLeaves ==
  ASSUME MainThread
  PROVE  UNCHANGED <<child, forks, file>> \/ Restart
<1>1. ASSUME NEW command, Execute(command) PROVE UNCHANGED <<child, forks, file>>
  BY <1>1 DEF Execute, Put
<1>2. ASSUME NEW k, CreateVectorStore(k) PROVE UNCHANGED <<child, forks, file>>
  BY <1>1, <1>2 DEF CreateVectorStore
<1>3. ASSUME NEW k, CreateLlm(k) PROVE UNCHANGED <<child, forks, file>>
  BY <1>1, <1>3 DEF CreateLlm
<1>4. ASSUME NEW k, CreateApp(k) PROVE UNCHANGED <<child, forks, file>>
  BY <1>1, <1>4 DEF CreateApp
<1>5. ASSUME NEW k, Delete(k) PROVE UNCHANGED <<child, forks, file>>
  BY <1>5 DEF Delete
<1>6. ASSUME NEW k, NEW id, Rem(k, id) PROVE UNCHANGED <<child, forks, file>>
  BY <1>6 DEF Rem
<1>7. ASSUME NEW k, NEW id, NEW item, AddSync(k, id, item) PROVE UNCHANGED <<child, forks, file>>
  BY <1>7 DEF AddSync
<1>8. ASSUME NEW t, NEW k, AddAsync(t, k) PROVE UNCHANGED <<child, forks, file>>
  BY <1>8 DEF AddAsync
<1>9. ASSUME NEW k, CreateAppBreaks(k) PROVE Restart
  BY <1>9 DEF CreateAppBreaks
<1> QED BY <1>2, <1>3, <1>4, <1>5, <1>6, <1>7, <1>8, <1>9 DEF MainThread

LEMMA NoChildIsGood ==
  /\ NoChild.writes = "nothing" /\ NoChild.locked = {}
  /\ \A k \in Keys : NoChild.image[k] = NoValue /\ GoodValue(NoChild.image[k])
BY DEF NoChild, GoodValue

LEMMA DiskKeeps == ASSUME IInv, [Next]_vars PROVE DiskInv'
<1>1. ASSUME UNCHANGED <<child, forks, file>>, issued' \in 0 .. MaxCommands PROVE DiskInv'
  BY <1>1 DEF IInv, DiskInv
<1>2. issued \in 0 .. MaxCommands
  BY DEF IInv, DiskInv
<1>7. ASSUME Restart, issued' \in 0 .. MaxCommands PROVE DiskInv'
  <2>1. child' = NoChild /\ forks' = forks /\ file' = file
    BY <1>7 DEF Restart
  <2> QED BY <1>2, <1>7, <2>1, NoChildIsGood DEF IInv, DiskInv
<1>3. CASE issued < MaxCommands /\ issued' = issued + 1 /\ MainThread
  <2>1. issued' \in 0 .. MaxCommands
    BY <1>2, <1>3, BoundsAssumption
  <2> QED BY <1>1, <1>3, <1>7, <2>1, MainThreadLeaves
<1>4. ASSUME NEW t \in Tasks, EmbedFails(t) \/ LockStore(t) \/ \E item \in Items : Add(t, item),
             UNCHANGED issued
      PROVE  DiskInv'
  <2>1. UNCHANGED <<child, forks, file>>
    BY <1>4 DEF EmbedFails, LockStore, Add
  <2> QED BY <1>1, <1>2, <1>4, <2>1
<1>5. ASSUME NEW format \in {"rdb", "aof"}, Fork(format), UNCHANGED issued PROVE DiskInv'
  <2>1. /\ forks < MaxForks /\ forks' = forks + 1 /\ file' = file
        /\ child' = [writes |-> format, image |-> Memory,
                     locked |-> {k \in Keys : keys[k] # NoObject /\ Locked(keys[k])}]
    BY <1>5 DEF Fork
  <2>2. /\ child'.writes = format /\ child'.image = Memory /\ child'.locked \subseteq Keys
    BY <2>1
  <2>3. ASSUME NEW k \in Keys PROVE GoodValue(Memory[k])
    <3>1. Memory[k] = NoValue \/ (keys[k] \in Objects /\ Memory[k] = heap[keys[k]])
      BY DEF Memory, Value, IInv, MemoryInv, Pointers
    <3> QED BY <3>1 DEF GoodValue, IInv, MemoryInv, HeapIsGood
  <2>4. forks' \in 0 .. MaxForks
    BY <2>1, BoundsAssumption DEF IInv, DiskInv
  <2> QED BY <1>2, <1>5, <2>1, <2>2, <2>3, <2>4 DEF IInv, DiskInv
<1>6. CASE ChildWrites /\ UNCHANGED issued
  <2>1. /\ child # NoChild /\ file' = [format |-> child.writes, image |-> child.image]
        /\ child' = NoChild /\ forks' = forks
    BY <1>6 DEF ChildWrites
  <2>2. file'.format \in {"rdb", "aof"} /\ file'.image = child.image
    BY <2>1 DEF IInv, DiskInv
  <2> QED BY <1>2, <1>6, <2>1, <2>2, NoChildIsGood DEF IInv, DiskInv
<1>9. ASSUME NEW k \in Keys, Chat(k), UNCHANGED issued PROVE DiskInv'
  <2>1. UNCHANGED <<child, forks, file>>
    BY <1>9 DEF Chat
  <2> QED BY <1>1, <1>2, <1>9, <2>1
<1>8. CASE UNCHANGED vars
  BY <1>1, <1>2, <1>8 DEF vars
<1> QED BY <1>2, <1>3, <1>4, <1>5, <1>6, <1>7, <1>8, <1>9 DEF Next

LEMMA Invariant == Spec => []IInv
<1>1. Init => IInv
  <2> SUFFICES ASSUME Init PROVE IInv
    OBVIOUS
  <2>1. Pointers /\ HoldsStore
    BY DEF Init, Pointers, HoldsStore, TaskStates, Idle
  <2>2. PoolIsKeyspace
    BY DEF Init, PoolIsKeyspace
  <2>3. HeapIsGood
    BY DEF Init, HeapIsGood, GoodValue
  <2>4. file.format = "none" /\ file.image = NoChild.image
    BY DEF Init, NoFile
  <2>5. DiskInv
    BY <2>4, NoChildIsGood, BoundsAssumption DEF Init, DiskInv
  <2> QED BY <2>1, <2>2, <2>3, <2>5 DEF IInv, MemoryInv
<1>2. IInv /\ [Next]_vars => IInv'
  <2> SUFFICES ASSUME IInv, [Next]_vars PROVE IInv'
    OBVIOUS
  <2>0. MemoryInv /\ DiskInv
    BY DEF IInv
  <2>1. ASSUME MainThread PROVE MemoryInv'
    BY <2>0, <2>1, MainThreadKeeps
  <2>2. ASSUME NEW t \in Tasks, EmbedFails(t) \/ LockStore(t) \/ \E item \in Items : Add(t, item)
        PROVE  MemoryInv'
    BY <2>0, <2>2, WorkersKeep
  <2>3. ASSUME UNCHANGED <<keys, heap, pool, task>> PROVE MemoryInv'
    BY <2>0, <2>3 DEF MemoryInv, Pointers, HoldsStore, PoolIsKeyspace, HeapIsGood
  <2>4. ASSUME NEW format, Fork(format) PROVE MemoryInv'
    BY <2>3, <2>4 DEF Fork
  <2>5. ASSUME ChildWrites PROVE MemoryInv'
    BY <2>3, <2>5 DEF ChildWrites
  <2>6. ASSUME Restart PROVE MemoryInv'
    BY <2>0, <2>6, RestartKeeps
  <2>7. ASSUME UNCHANGED vars PROVE MemoryInv'
    BY <2>3, <2>7 DEF vars
  <2>9. ASSUME NEW k \in Keys, Chat(k) PROVE MemoryInv'
    BY <2>0, <2>9, ChatKeeps
  <2>8. MemoryInv'
    BY <2>1, <2>2, <2>4, <2>5, <2>6, <2>7, <2>9 DEF Next
  <2> QED BY <2>8, DiskKeeps DEF IInv
<1> QED BY <1>1, <1>2, PTL DEF Spec

(* No object is destroyed under its key, none is kept after its key, and   *)
(* no two keys share one: PoolIsKeyspace.                                  *)
THEOREM ObjectsAreTheKeys == Spec => []PoolIsKeyspace
<1>1. IInv => PoolIsKeyspace
  BY DEF IInv, MemoryInv
<1> QED BY <1>1, Invariant, PTL

(* The store a worker adds to exists, whatever has happened to its key:    *)
(* NoUseAfterFree.                                                         *)
THEOREM WorkersHoldTheirStore == Spec => []NoUseAfterFree
<1>1. IInv => NoUseAfterFree
  BY DEF IInv, MemoryInv, HoldsStore, NoUseAfterFree
<1> QED BY <1>1, Invariant, PTL

LEMMA GoodValueType ==
  ASSUME NEW v, GoodValue(v)
  PROVE  /\ v.kind \in {"none", "llm", "store", "app"}
         /\ DOMAIN v.items \subseteq v.labels
         /\ v.labels \subseteq Ids /\ v.idIdx \in Ids \union {0}
         /\ v.kind = "store" => Cardinality(v.labels) <= MaxElements(v)
         /\ \A i \in DOMAIN v.items : Len(v.items[i].vec) = v.dim
<1>1. CASE /\ v.kind \in {"none", "llm", "app"} /\ v.labels = {} /\ v.idIdx = 0
           /\ v.items = EmptyObject
  BY <1>1, NothingInEmptyObject
<1>2. CASE GoodStore(v)
  <2>1. v.kind = "store"
    BY <1>2, GoodKinds
  <2> QED BY <1>2, <2>1 DEF GoodStore
<1>3. ASSUME NEW kind, NEW type, NEW conf, NEW llm, v = Fresh(kind, type, conf, llm)
      PROVE  v.labels = {} /\ v.idIdx = 0 /\ v.items = EmptyObject
  BY <1>3 DEF Fresh
<1>4. CASE v = NoValue
  BY <1>1, <1>3, <1>4, GoodKinds DEF NoValue
<1>5. CASE GoodLlm(v)
  BY <1>1, <1>3, <1>5, GoodKinds
<1>6. CASE GoodApp(v)
  BY <1>1, <1>6, AppIsNew
<1> QED BY <1>2, <1>4, <1>5, <1>6 DEF GoodValue

(* The memory, the child and the file are what their declarations say, and *)
(* no store exceeds its capacity or mixes dimensions: TypeOK.              *)
THEOREM TypeCorrect == Spec => []TypeOK
<1>1. IInv => TypeOK
  <2> SUFFICES ASSUME IInv PROVE TypeOK
    OBVIOUS
  <2>1. keys \in [Keys -> {NoObject} \union Objects] /\ task \in [Tasks -> TaskStates]
    BY DEF IInv, MemoryInv, Pointers
  <2>2. pool \subseteq Objects
    BY <2>1 DEF IInv, MemoryInv, PoolIsKeyspace
  <2>3. \A o \in Objects :
          /\ heap[o].kind \in {"none", "llm", "store", "app"}
          /\ DOMAIN heap[o].items \subseteq heap[o].labels
          /\ heap[o].labels \subseteq Ids /\ heap[o].idIdx \in Ids \union {0}
          /\ heap[o].kind = "store" => Cardinality(heap[o].labels) <= MaxElements(heap[o])
          /\ \A i \in DOMAIN heap[o].items : Len(heap[o].items[i].vec) = heap[o].dim
    BY GoodValueType DEF IInv, MemoryInv, HeapIsGood
  <2>4. \A t \in Tasks :
          /\ task[t].pc \in {"idle", "working", "adding"}
          /\ task[t].refs \subseteq Objects /\ task[t].store \in {NoObject} \union Objects
    BY <2>1 DEF TaskStates
  <2>5. child.writes \in {"nothing", "rdb", "aof"}
    BY NoChildIsGood DEF IInv, DiskInv
  <2> QED BY <2>1, <2>2, <2>3, <2>4, <2>5 DEF TypeOK, IInv, DiskInv
<1> QED BY <1>1, Invariant, PTL

(* What is in a snapshot and is UTF-8 is loaded without an error, however  *)
(* it came about, and gives back the value; what is not makes a snapshot   *)
(* that cannot be loaded: SnapshotRestores.                                *)
THEOREM SnapshotsRestore == Spec => []SnapshotRestores
<1>1. IInv => SnapshotRestores
  BY RoundTrip DEF IInv, DiskInv, SnapshotRestores, Saved
<1> QED BY <1>1, Invariant, PTL

(* What a rewritten AOF gives back, and what it loses, whatever was in     *)
(* memory (redis_llm.cpp:314, :334, :378).                                 *)
RewriteGivesBack ==
  file.format = "aof" => \A k \in Keys : Rewritten(file.image, k) = Remade(file.image[k])

(* The rewritten AOF makes models again, and stores without their items,   *)
(* their model and their automatic ids, and no application.                *)
THEOREM RewritesLose == Spec => []RewriteGivesBack
<1>1. IInv => RewriteGivesBack
  BY RewriteRemakes DEF IInv, DiskInv, RewriteGivesBack, Rewritten
<1> QED BY <1>1, Invariant, PTL
=============================================================================
