-------------------------- MODULE ApplicationsProofs --------------------------
(***************************************************************************)
(* Every safety property the run `applications' checks, for any number of  *)
(* workers, runs, stores, changes and failovers.  The parts of the         *)
(* inductive invariant, one step lemma for each, and the theorems.         *)
(***************************************************************************)
EXTENDS Applications, TLAPS, FiniteSetTheorems, SequenceTheorems

Chatting == {"say", "summarize", "remember", "replicate"}
Over == {"unblock", "done"}
Roles == {"user", "assistant"}

(* Only the run that holds _mtx is inside a chat, or has come to the reply. *)
Locking ==
  \A r \in Runs :
    /\ kind = "chat" /\ pc[r] \in Critical => mtx = r
    /\ pc[r] \in Chatting => kind = "chat"
    /\ role[r] = "assistant" => pc[r] \in Chatting

(* A run that is not over has no outcome, and one of an earlier process is *)
(* over.                                                                   *)
Outcomes ==
  \A r \in Runs :
    /\ pc[r] \notin Over => outcome[r] = "none"
    /\ r \in older => pc[r] = "done"

(* Whoever uses a store has one, which is or was at the key.               *)
Holding ==
  \A r \in Runs :
    \/ pc[r] \in {"lock", "search", "quote"} \union Chatting
    \/ pc[r] = "prompt" /\ kind # "simple"
    => holds[r] \in 1 .. current

(* A store that has not been created has nothing in it.                    *)
Beyond == \A s \in Stores : s > current => store[s] = NoItems

-----------------------------------------------------------------------------
(* Automatic ids: one for each message that may have been summarized.      *)

Drawn ==
  {m \in Runs \X Roles :
     \/ pc[m[1]] \in Over \union {"replicate"}
     \/ m[2] = "user" /\ (role[m[1]] = "assistant" \/ pc[m[1]] = "remember")
     \/ m[2] = "assistant" /\ role[m[1]] = "assistant" /\ pc[m[1]] = "remember"}

Counted == \A s \in Stores : idIdx[s] <= Cardinality(Drawn)

-----------------------------------------------------------------------------
(* What was not at the key when a run began is not there later either, and *)
(* not in the store the run has looked up.                                 *)
Fresh ==
  \A r \in Runs :
    /\ pc[r] = "resolve" => \A i \in Ids : store[current][i] \notin gone[r]
    /\ pc[r] \in {"lock", "search", "quote"} =>
         \A i \in Ids : store[holds[r]][i] \notin gone[r]

QuotedLate == \A r \in Runs : pc[r] = "out" => quoted[r] = {}

-----------------------------------------------------------------------------
(* The order of messages: as in InPairs, with the input of an open run,    *)
(* which is still to be followed by its reply, and inputs that are excused *)
(* from having one.                                                        *)
Pairs(s, open, excused) ==
  \A k \in 1 .. Len(s) :
    /\ s[k].role = "assistant" /\ k > 1 => s[k - 1] = [role |-> "user", run |-> s[k].run]
    /\ s[k].role = "user" =>
         \/ s[k].run \in excused
         \/ k < Len(s) /\ s[k + 1] = [role |-> "assistant", run |-> s[k].run]
         \/ k = Len(s) /\ s[k].run \in open

Excused == {r \in Runs : outcome[r] \in {"error", "never", "lost"} \/ r \in older}

(* The messages a run has put in line, and those it has made part of the   *)
(* latest ones.                                                            *)
Said(r, x) ==
  \/ pc[r] = "replicate"
  \/ x = "user" /\ (role[r] = "assistant" \/ pc[r] \in {"summarize", "remember"})
  \/ x = "assistant" /\ role[r] = "assistant" /\ pc[r] \in {"summarize", "remember"}

Remembered(r, x) ==
  \/ pc[r] = "replicate"
  \/ x = "user" /\ role[r] = "assistant"

SaidOnly ==
  \A k \in 1 .. Len(Transcript) :
    \/ pc[Transcript[k].run] \in Over
    \/ /\ pc[Transcript[k].run] \in Chatting
       /\ Said(Transcript[k].run, Transcript[k].role)

RememberedOnly ==
  \A k \in 1 .. Len(latest) :
    \/ pc[latest[k].run] \in Over
    \/ /\ pc[latest[k].run] \in Chatting
       /\ Remembered(latest[k].run, latest[k].role)

NothingSaid == summaryCnt = 0 => Transcript = <<>>

SaidOnce == \A j, k \in 1 .. Len(Transcript) : Transcript[j] = Transcript[k] => j = k

InTranscript(m) == \E k \in 1 .. Len(Transcript) : Transcript[k] = m

SaidThere ==
  summaryCnt > 0 =>
    \A m \in Messages :
      \/ pc[m.run] \in Chatting /\ Said(m.run, m.role)
      \/ kind = "chat" /\ Kept(m.run)
      => InTranscript(m)

Unanswered == {r \in Runs : pc[r] \in Chatting /\ Said(r, "user") /\ ~Said(r, "assistant")}

Unremembered == {r \in Runs : pc[r] \in Chatting /\ Remembered(r, "user") /\ ~Remembered(r, "assistant")}

SaidLast ==
  summaryCnt > 0 =>
    \A r \in Unanswered :
      /\ Transcript # <<>>
      /\ Transcript[Len(Transcript)] = [role |-> "user", run |-> r]

RememberedLast ==
  \A r \in Unremembered :
    Len(latest) > 0 => latest[Len(latest)] = [role |-> "user", run |-> r]

SaidPairs == Pairs(Transcript, Unanswered, Excused)

RememberedPairs == Pairs(latest, Unremembered, Excused)

-----------------------------------------------------------------------------
(* The summaries of a run: it has none before it says something; while it  *)
(* is not over they are the latest texts of all summaries, each under an   *)
(* id of its own, and nothing older is where one of them was.              *)
MadeLate == \A r \in Runs : pc[r] \notin Chatting \union Over => made[r] = {}

(* One summary for the input, one for the reply. *)
MadeFew ==
  \A r \in Runs :
    /\ pc[r] \in {"say", "summarize"} /\ role[r] = "user" => made[r] = {}
    /\ pc[r] \in {"say", "summarize"} \/ (pc[r] = "remember" /\ role[r] = "user") =>
         \A p, q \in made[r] : p = q

MadeHere ==
  \A r \in Runs : pc[r] \in Chatting =>
    \A p \in made[r] :
      /\ p[1] <= idIdx[holds[r]]
      /\ source[p[2]] = holds[r]
      /\ store[holds[r]][p[1]] = 0 \/ store[holds[r]][p[1]] >= p[2]
      /\ \A q \in made[r] : q[1] = p[1] => q = p

MadeLast ==
  \A r \in Runs : pc[r] \in Chatting =>
    \A q \in Runs \ {r} : \A p \in made[r], o \in made[q] : o[2] < p[2]

-----------------------------------------------------------------------------
ControlInv == TypeOK /\ Locking /\ Outcomes /\ Holding /\ Beyond /\ Counted
ReadInv == Fresh /\ QuotedLate /\ QuotedNotGone
HistoryInv ==
  /\ NothingSaid /\ SaidOnly /\ SaidOnce /\ SaidThere /\ SaidLast /\ SaidPairs
  /\ RememberedOnly /\ RememberedLast /\ RememberedPairs
SummaryInv == MadeLate /\ MadeFew /\ MadeHere /\ MadeLast /\ SummariesReplicated

-----------------------------------------------------------------------------
(* Ids                                                                     *)

LEMMA DrawnBounded ==
  /\ IsFiniteSet(Runs \X Roles)
  /\ Cardinality(Runs \X Roles) = 2 * MaxRuns
<1>1. IsFiniteSet(Runs) /\ Cardinality(Runs) = MaxRuns
  BY CountsAssumption, FS_Interval DEF Runs
<1>2. IsFiniteSet(Roles) /\ Cardinality(Roles) = 2
  <2>1. IsFiniteSet({"user"}) /\ Cardinality({"user"}) = 1
    BY FS_Singleton
  <2>2. Roles = {"user"} \union {"assistant"} /\ "assistant" \notin {"user"}
    BY DEF Roles
  <2> QED BY <2>1, <2>2, FS_AddElement
<1> QED BY <1>1, <1>2, FS_Product, CountsAssumption

(* The ids drawn are fewer than the messages, so a summary gets one.       *)
LEMMA RoomForId ==
  ASSUME TypeOK, Counted, NEW r \in Runs, pc[r] = "summarize", holds[r] \in Stores
  PROVE  /\ IsFiniteSet(Drawn) /\ Cardinality(Drawn) \in Nat
         /\ <<r, role[r]>> \notin Drawn
         /\ idIdx[holds[r]] + 1 \in Ids
<1> DEFINE m == <<r, role[r]>>
<1>1. m \in Runs \X Roles /\ m \notin Drawn /\ Drawn \subseteq Runs \X Roles
  BY DEF TypeOK, Roles, Drawn, Over
<1>2. IsFiniteSet(Drawn) /\ Cardinality(Drawn) \in Nat
  BY <1>1, DrawnBounded, FS_Subset, FS_CardinalityType
<1>3. /\ IsFiniteSet(Drawn \union {m}) /\ Cardinality(Drawn \union {m}) = Cardinality(Drawn) + 1
  BY <1>1, <1>2, FS_AddElement
<1>4. Cardinality(Drawn \union {m}) <= 2 * MaxRuns
  <2>1. Drawn \union {m} \subseteq Runs \X Roles
    BY <1>1
  <2> QED BY <2>1, DrawnBounded, FS_Subset
<1>5. idIdx[holds[r]] \in Nat /\ idIdx[holds[r]] <= Cardinality(Drawn)
  BY DEF TypeOK, Counted
<1> QED BY <1>1, <1>2, <1>3, <1>4, <1>5, CountsAssumption DEF Ids

LEMMA DrawnGrows ==
  ASSUME NEW S, NEW T, S \subseteq T, T \subseteq Runs \X Roles
  PROVE  /\ IsFiniteSet(S) /\ Cardinality(S) \in Nat /\ Cardinality(T) \in Nat
         /\ Cardinality(S) <= Cardinality(T)
         /\ \A m \in T \ S : Cardinality(S) + 1 <= Cardinality(T)
<1>1. IsFiniteSet(T) /\ IsFiniteSet(S)
  BY DrawnBounded, FS_Subset
<1>2. /\ Cardinality(S) \in Nat /\ Cardinality(T) \in Nat
      /\ Cardinality(S) <= Cardinality(T)
  BY <1>1, FS_Subset, FS_CardinalityType
<1>3. ASSUME NEW m \in T \ S PROVE Cardinality(S) + 1 <= Cardinality(T)
  <2>1. IsFiniteSet(S \union {m}) /\ Cardinality(S \union {m}) = Cardinality(S) + 1
    BY <1>1, FS_AddElement
  <2>2. S \union {m} \subseteq T
    OBVIOUS
  <2> QED BY <1>1, <2>1, <2>2, FS_Subset
<1> QED BY <1>1, <1>2, <1>3

LEMMA DrawnPrime == Drawn \subseteq Runs \X Roles /\ Drawn' \subseteq Runs \X Roles
BY DEF Drawn

LEMMA CountedKept ==
  ASSUME TypeOK, Counted, Drawn \subseteq Drawn', idIdx' = idIdx
  PROVE  Counted'
<1>1. /\ Cardinality(Drawn) \in Nat /\ Cardinality(Drawn') \in Nat
      /\ Cardinality(Drawn) <= Cardinality(Drawn')
  BY DrawnPrime, DrawnGrows
<1> QED BY <1>1 DEF Counted, TypeOK

LEMMA CountedStep ==
  ASSUME TypeOK, Locking, Holding, Counted, [Next]_vars
  PROVE  Counted'
<1> USE DEF vars, confVars, historyVars, storeVars, readVars, boundVars
<1>0. pc \in [Runs -> Steps] /\ role \in [Runs -> Roles]
  BY DEF TypeOK, Roles
<1>1. ASSUME NEW r \in Runs, Start(r) PROVE Counted'
  <2>1. Drawn \subseteq Drawn' /\ idIdx' = idIdx
    BY <1>0, <1>1 DEF Start, Goto, Drawn, Over
  <2> QED BY <2>1, CountedKept
<1>2. ASSUME NEW r \in Runs, Refuse(r) PROVE Counted'
  <2>1. Drawn \subseteq Drawn' /\ idIdx' = idIdx
    BY <1>0, <1>2 DEF Refuse, Goto, Drawn, Over
  <2> QED BY <2>1, CountedKept
<1>3. ASSUME NEW r \in Runs, Resolve(r) PROVE Counted'
  <2>1. Drawn \subseteq Drawn' /\ idIdx' = idIdx
    BY <1>0, <1>3 DEF Resolve, Goto, Drawn, Over
  <2> QED BY <2>1, CountedKept
<1>4. ASSUME NEW r \in Runs, ResolveFails(r) PROVE Counted'
  <2>1. Drawn \subseteq Drawn' /\ idIdx' = idIdx
    BY <1>0, <1>4 DEF ResolveFails, Throw, Leave, LetGo, Goto, Drawn, Over
  <2> QED BY <2>1, CountedKept
<1>5. ASSUME NEW r \in Runs, Lock(r) PROVE Counted'
  <2>1. Drawn \subseteq Drawn' /\ idIdx' = idIdx
    BY <1>0, <1>5 DEF Lock, Goto, Drawn, Over
  <2> QED BY <2>1, CountedKept
<1>6. ASSUME NEW r \in Runs, Search(r) PROVE Counted'
  <2>1. Drawn \subseteq Drawn' /\ idIdx' = idIdx
    BY <1>0, <1>6 DEF Search, Goto, Drawn, Over
  <2> QED BY <2>1, CountedKept
<1>7. ASSUME NEW r \in Runs, SearchFails(r) PROVE Counted'
  <2>1. Drawn \subseteq Drawn' /\ idIdx' = idIdx
    BY <1>0, <1>7 DEF SearchFails, Throw, Leave, LetGo, Goto, Drawn, Over
  <2> QED BY <2>1, CountedKept
<1>8. ASSUME NEW r \in Runs, Quote(r) PROVE Counted'
  <2>1. Drawn \subseteq Drawn' /\ idIdx' = idIdx
    BY <1>0, <1>8 DEF Quote, Drawn, Over
  <2> QED BY <2>1, CountedKept
<1>9. ASSUME NEW r \in Runs, QuotedAll(r) PROVE Counted'
  <2>1. Drawn \subseteq Drawn' /\ idIdx' = idIdx
    BY <1>0, <1>9 DEF QuotedAll, Goto, Drawn, Over
  <2> QED BY <2>1, CountedKept
<1>10. ASSUME NEW r \in Runs, Ask(r) PROVE Counted'
  <2>1. Drawn \subseteq Drawn' /\ idIdx' = idIdx
    BY <1>0, <1>10 DEF Ask, Leave, LetGo, Goto, Drawn, Over
  <2> QED BY <2>1, CountedKept
<1>11. ASSUME NEW r \in Runs, AskFails(r) PROVE Counted'
  <2>1. Drawn \subseteq Drawn' /\ idIdx' = idIdx
    BY <1>0, <1>11 DEF AskFails, Throw, Leave, LetGo, Goto, Drawn, Over
  <2> QED BY <2>1, CountedKept
<1>12. ASSUME NEW r \in Runs, Forget(r) PROVE Counted'
  <2>1. Drawn \subseteq Drawn' /\ idIdx' = idIdx
    BY <1>0, <1>12 DEF Forget, Abandon, LetGo, Goto, Drawn, Over
  <2> QED BY <2>1, CountedKept
<1>13. ASSUME NEW r \in Runs, Say(r) PROVE Counted'
  <2>1. Drawn \subseteq Drawn' /\ idIdx' = idIdx
    BY <1>0, <1>13 DEF Say, Goto, Drawn, Over
  <2> QED BY <2>1, CountedKept
<1>14. ASSUME NEW r \in Runs, Summarize(r) PROVE Counted'
  <2>1. Drawn \subseteq Drawn'
    BY <1>0, <1>14 DEF Summarize, Goto, Drawn, Over
  <2>2. holds[r] \in Stores /\ pc[r] = "summarize"
    BY <1>14 DEF Summarize, Holding, TypeOK, Chatting, Stores
  <2>3. <<r, role[r]>> \in Drawn' \ Drawn
    <3>1. <<r, role[r]>> \in Runs \X Roles
      BY DEF TypeOK, Roles
    <3>2. <<r, role[r]>> \in Drawn'
      BY <1>0, <1>14, <3>1 DEF Summarize, Goto, Drawn, Roles
    <3> QED BY <2>2, <3>2, RoomForId
  <2>4. Cardinality(Drawn) + 1 <= Cardinality(Drawn') /\ Cardinality(Drawn) \in Nat
    BY <2>1, <2>3, DrawnPrime, DrawnGrows
  <2>5. idIdx' = [idIdx EXCEPT ![holds[r]] = @ + 1]
    BY <1>14 DEF Summarize
  <2>6. idIdx \in [Stores -> Nat] /\ (\A s \in Stores : idIdx[s] <= Cardinality(Drawn))
    BY DEF TypeOK, Counted
  <2>7. Cardinality(Drawn') \in Nat
    BY <2>1, DrawnPrime, DrawnGrows
  <2> QED BY <2>2, <2>4, <2>5, <2>6, <2>7 DEF Counted
<1>15. ASSUME NEW r \in Runs, SummarizeFails(r) \/ SummarizeThrows(r) PROVE Counted'
  <2>1. Drawn \subseteq Drawn'
    BY <1>0, <1>15 DEF SummarizeFails, SummarizeThrows, Abandon, Throw, Leave, LetGo, Goto, Drawn, Over
  <2>2. holds[r] \in Stores /\ pc[r] = "summarize"
    BY <1>15 DEF SummarizeFails, SummarizeThrows, Holding, TypeOK, Chatting, Stores
  <2>3. <<r, role[r]>> \in Drawn' \ Drawn
    <3>1. <<r, role[r]>> \in Runs \X Roles
      BY DEF TypeOK, Roles
    <3>2. <<r, role[r]>> \in Drawn'
      BY <1>0, <1>15, <3>1 DEF SummarizeFails, SummarizeThrows, Abandon, Throw, Leave, Goto, Drawn, Over
    <3> QED BY <2>2, <3>2, RoomForId
  <2>4. Cardinality(Drawn) + 1 <= Cardinality(Drawn') /\ Cardinality(Drawn) \in Nat
    BY <2>1, <2>3, DrawnPrime, DrawnGrows
  <2>5. \E drawn \in {0, 1} : idIdx' = [idIdx EXCEPT ![holds[r]] = @ + drawn]
    BY <1>15 DEF SummarizeFails, SummarizeThrows
  <2>6. idIdx \in [Stores -> Nat] /\ (\A s \in Stores : idIdx[s] <= Cardinality(Drawn))
    BY DEF TypeOK, Counted
  <2>7. Cardinality(Drawn') \in Nat
    BY <2>1, DrawnPrime, DrawnGrows
  <2> QED BY <2>2, <2>4, <2>5, <2>6, <2>7 DEF Counted
<1>16. ASSUME NEW r \in Runs, Remember(r) PROVE Counted'
  <2>1. Drawn \subseteq Drawn' /\ idIdx' = idIdx
    BY <1>0, <1>16 DEF Remember, Goto, Drawn, Over
  <2> QED BY <2>1, CountedKept
<1>17. ASSUME NEW r \in Runs, Replicate(r) PROVE Counted'
  <2>1. Drawn \subseteq Drawn' /\ idIdx' = idIdx
    BY <1>0, <1>17 DEF Replicate, Leave, LetGo, Goto, Drawn, Over
  <2> QED BY <2>1, CountedKept
<1>18. ASSUME NEW r \in Runs, Unblock(r) PROVE Counted'
  <2>1. Drawn \subseteq Drawn' /\ idIdx' = idIdx
    BY <1>0, <1>18 DEF Unblock, Goto, Drawn, Over
  <2> QED BY <2>1, CountedKept
<1>19. ASSUME NEW i \in ClientIds, Put(i) PROVE Counted'
  <2>1. Drawn' = Drawn /\ idIdx' = idIdx
    BY <1>19 DEF Put, Change, Drawn
  <2> QED BY <2>1, CountedKept
<1>20. ASSUME NEW i \in Ids, Rem(i) PROVE Counted'
  <2>1. Drawn' = Drawn /\ idIdx' = idIdx
    BY <1>20 DEF Rem, Change, Drawn
  <2> QED BY <2>1, CountedKept
<1>21. CASE Replace
  <2>1. Drawn' = Drawn /\ idIdx' = idIdx
    BY <1>21 DEF Replace, Change, Drawn
  <2> QED BY <2>1, CountedKept
<1>22. CASE Takeover
  <2>1. Drawn \subseteq Drawn'
    BY <1>0, <1>22 DEF Takeover, Drawn, Under, Over, Locking, Chatting
  <2>2. /\ Cardinality(Drawn) \in Nat /\ Cardinality(Drawn') \in Nat
        /\ Cardinality(Drawn) <= Cardinality(Drawn')
    BY <2>1, DrawnPrime, DrawnGrows
  <2>3. idIdx' = [idIdx EXCEPT ![current] = 0]
    BY <1>22 DEF Takeover
  <2> QED BY <2>2, <2>3 DEF Counted, TypeOK
<1>23. CASE UNCHANGED vars
  <2>1. Drawn' = Drawn /\ idIdx' = idIdx
    BY <1>23 DEF Drawn
  <2> QED BY <2>1, CountedKept
<1>24. ASSUME NEW r \in Runs, TakeGil(r) PROVE Counted'
  <2>1. Drawn' = Drawn /\ idIdx' = idIdx
    BY <1>24 DEF TakeGil, Drawn
  <2> QED BY <2>1, CountedKept
<1> QED BY <1>1, <1>2, <1>3, <1>4, <1>5, <1>6, <1>7, <1>8, <1>9, <1>10, <1>11,
  <1>12, <1>13, <1>14, <1>15, <1>16, <1>17, <1>18, <1>19, <1>20, <1>21, <1>22, <1>23, <1>24
  DEF Next, Run, Done, Failover, SummarizeBreaks

-----------------------------------------------------------------------------
(* Control                                                                 *)

LEMMA LockingStep ==
  ASSUME TypeOK, Locking, [Next]_vars
  PROVE  Locking'
<1> USE DEF vars, confVars, historyVars, storeVars, readVars, boundVars, Locking,
      Chatting, Critical
<1>0. pc \in [Runs -> Steps] /\ role \in [Runs -> Roles] /\ mtx \in {0} \union Runs /\ 0 \notin Runs
  BY DEF TypeOK, Roles, Runs
<1>1. ASSUME NEW r \in Runs, Start(r) PROVE Locking'
  BY <1>0, <1>1 DEF Start, Goto
<1>2. ASSUME NEW r \in Runs, Refuse(r) PROVE Locking'
  BY <1>0, <1>2 DEF Refuse, Goto
<1>3. ASSUME NEW r \in Runs, Resolve(r) PROVE Locking'
  BY <1>0, <1>3 DEF Resolve, Goto
<1>4. ASSUME NEW r \in Runs, ResolveFails(r) PROVE Locking'
  BY <1>0, <1>4 DEF ResolveFails, Throw, Leave, LetGo, Goto
<1>5. ASSUME NEW r \in Runs, Lock(r) PROVE Locking'
  BY <1>0, <1>5 DEF Lock, Goto
<1>6. ASSUME NEW r \in Runs, Search(r) PROVE Locking'
  BY <1>0, <1>6 DEF Search, Goto
<1>7. ASSUME NEW r \in Runs, SearchFails(r) PROVE Locking'
  BY <1>0, <1>7 DEF SearchFails, Throw, Leave, LetGo, Goto
<1>8. ASSUME NEW r \in Runs, Quote(r) PROVE Locking'
  BY <1>0, <1>8 DEF Quote
<1>9. ASSUME NEW r \in Runs, QuotedAll(r) PROVE Locking'
  BY <1>0, <1>9 DEF QuotedAll, Goto
<1>10. ASSUME NEW r \in Runs, Ask(r) PROVE Locking'
  BY <1>0, <1>10 DEF Ask, Leave, LetGo, Goto
<1>11. ASSUME NEW r \in Runs, AskFails(r) PROVE Locking'
  BY <1>0, <1>11 DEF AskFails, Throw, Leave, LetGo, Goto
<1>12. ASSUME NEW r \in Runs, Forget(r) PROVE Locking'
  BY <1>0, <1>12 DEF Forget, Abandon, LetGo, Goto
<1>13. ASSUME NEW r \in Runs, Say(r) PROVE Locking'
  BY <1>0, <1>13 DEF Say, Goto
<1>14. ASSUME NEW r \in Runs, Summarize(r) PROVE Locking'
  BY <1>0, <1>14 DEF Summarize, Goto
<1>15. ASSUME NEW r \in Runs, SummarizeFails(r) \/ SummarizeThrows(r) PROVE Locking'
  BY <1>0, <1>15 DEF SummarizeFails, SummarizeThrows, Abandon, Throw, Leave, LetGo, Goto
<1>16. ASSUME NEW r \in Runs, Remember(r) PROVE Locking'
  BY <1>0, <1>16 DEF Remember, Goto
<1>17. ASSUME NEW r \in Runs, Replicate(r) PROVE Locking'
  BY <1>0, <1>17 DEF Replicate, Leave, LetGo, Goto
<1>18. ASSUME NEW r \in Runs, Unblock(r) PROVE Locking'
  BY <1>0, <1>18 DEF Unblock, Goto
<1>19. ASSUME NEW i \in ClientIds, Put(i) PROVE Locking'
  BY <1>0, <1>19 DEF Put, Change
<1>20. ASSUME NEW i \in Ids, Rem(i) PROVE Locking'
  BY <1>0, <1>20 DEF Rem, Change
<1>21. CASE Replace
  BY <1>0, <1>21 DEF Replace, Change
<1>22. CASE Takeover
  BY <1>0, <1>22 DEF Takeover, Under
<1>23. CASE UNCHANGED vars
  BY <1>0, <1>23
<1>24. ASSUME NEW r \in Runs, TakeGil(r) PROVE Locking'
  BY <1>0, <1>24 DEF TakeGil
<1> QED BY <1>1, <1>2, <1>3, <1>4, <1>5, <1>6, <1>7, <1>8, <1>9, <1>10, <1>11,
  <1>12, <1>13, <1>14, <1>15, <1>16, <1>17, <1>18, <1>19, <1>20, <1>21, <1>22, <1>23, <1>24
  DEF Next, Run, Done, Failover, SummarizeBreaks

LEMMA OutcomesStep ==
  ASSUME TypeOK, Outcomes, [Next]_vars
  PROVE  Outcomes'
<1> USE DEF vars, confVars, historyVars, storeVars, readVars, boundVars, Outcomes,
      Over, Under
<1>0. pc \in [Runs -> Steps] /\ outcome \in [Runs -> {"none", "ok", "error", "never", "lost"}]
  BY DEF TypeOK
<1>1. ASSUME NEW r \in Runs, Start(r) PROVE Outcomes'
  BY <1>0, <1>1 DEF Start, Goto
<1>2. ASSUME NEW r \in Runs, Refuse(r) PROVE Outcomes'
  BY <1>0, <1>2 DEF Refuse, Goto
<1>3. ASSUME NEW r \in Runs, Resolve(r) PROVE Outcomes'
  BY <1>0, <1>3 DEF Resolve, Goto
<1>4. ASSUME NEW r \in Runs, ResolveFails(r) PROVE Outcomes'
  BY <1>0, <1>4 DEF ResolveFails, Throw, Leave, LetGo, Goto
<1>5. ASSUME NEW r \in Runs, Lock(r) PROVE Outcomes'
  BY <1>0, <1>5 DEF Lock, Goto
<1>6. ASSUME NEW r \in Runs, Search(r) PROVE Outcomes'
  BY <1>0, <1>6 DEF Search, Goto
<1>7. ASSUME NEW r \in Runs, SearchFails(r) PROVE Outcomes'
  BY <1>0, <1>7 DEF SearchFails, Throw, Leave, LetGo, Goto
<1>8. ASSUME NEW r \in Runs, Quote(r) PROVE Outcomes'
  BY <1>0, <1>8 DEF Quote
<1>9. ASSUME NEW r \in Runs, QuotedAll(r) PROVE Outcomes'
  BY <1>0, <1>9 DEF QuotedAll, Goto
<1>10. ASSUME NEW r \in Runs, Ask(r) PROVE Outcomes'
  BY <1>0, <1>10 DEF Ask, Leave, LetGo, Goto
<1>11. ASSUME NEW r \in Runs, AskFails(r) PROVE Outcomes'
  BY <1>0, <1>11 DEF AskFails, Throw, Leave, LetGo, Goto
<1>12. ASSUME NEW r \in Runs, Forget(r) PROVE Outcomes'
  BY <1>0, <1>12 DEF Forget, Abandon, LetGo, Goto
<1>13. ASSUME NEW r \in Runs, Say(r) PROVE Outcomes'
  BY <1>0, <1>13 DEF Say, Goto
<1>14. ASSUME NEW r \in Runs, Summarize(r) PROVE Outcomes'
  BY <1>0, <1>14 DEF Summarize, Goto
<1>15. ASSUME NEW r \in Runs, SummarizeFails(r) \/ SummarizeThrows(r) PROVE Outcomes'
  BY <1>0, <1>15 DEF SummarizeFails, SummarizeThrows, Abandon, Throw, Leave, LetGo, Goto
<1>16. ASSUME NEW r \in Runs, Remember(r) PROVE Outcomes'
  BY <1>0, <1>16 DEF Remember, Goto
<1>17. ASSUME NEW r \in Runs, Replicate(r) PROVE Outcomes'
  BY <1>0, <1>17 DEF Replicate, Leave, LetGo, Goto
<1>18. ASSUME NEW r \in Runs, Unblock(r) PROVE Outcomes'
  BY <1>0, <1>18 DEF Unblock, Goto
<1>19. ASSUME NEW i \in ClientIds, Put(i) PROVE Outcomes'
  BY <1>0, <1>19 DEF Put, Change
<1>20. ASSUME NEW i \in Ids, Rem(i) PROVE Outcomes'
  BY <1>0, <1>20 DEF Rem, Change
<1>21. CASE Replace
  BY <1>0, <1>21 DEF Replace, Change
<1>22. CASE Takeover
  BY <1>0, <1>22 DEF Takeover, Under
<1>23. CASE UNCHANGED vars
  BY <1>0, <1>23
<1>24. ASSUME NEW r \in Runs, TakeGil(r) PROVE Outcomes'
  BY <1>0, <1>24 DEF TakeGil
<1> QED BY <1>1, <1>2, <1>3, <1>4, <1>5, <1>6, <1>7, <1>8, <1>9, <1>10, <1>11,
  <1>12, <1>13, <1>14, <1>15, <1>16, <1>17, <1>18, <1>19, <1>20, <1>21, <1>22, <1>23, <1>24
  DEF Next, Run, Done, Failover, SummarizeBreaks

LEMMA HoldingStep ==
  ASSUME TypeOK, Locking, Holding, [Next]_vars
  PROVE  Holding'
<1> USE DEF vars, confVars, historyVars, storeVars, readVars, boundVars, Holding,
      Chatting, Under, Stores
<1>0. pc \in [Runs -> Steps] /\ holds \in [Runs -> {0} \union Stores] /\ current \in Stores /\ MaxStores \in Nat
  BY CountsAssumption DEF TypeOK
<1>1. ASSUME NEW r \in Runs, Start(r) PROVE Holding'
  BY <1>0, <1>1 DEF Start, Goto
<1>2. ASSUME NEW r \in Runs, Refuse(r) PROVE Holding'
  BY <1>0, <1>2 DEF Refuse, Goto
<1>3. ASSUME NEW r \in Runs, Resolve(r) PROVE Holding'
  BY <1>0, <1>3 DEF Resolve, Goto
<1>4. ASSUME NEW r \in Runs, ResolveFails(r) PROVE Holding'
  BY <1>0, <1>4 DEF ResolveFails, Throw, Leave, LetGo, Goto
<1>5. ASSUME NEW r \in Runs, Lock(r) PROVE Holding'
  BY <1>0, <1>5 DEF Lock, Goto
<1>6. ASSUME NEW r \in Runs, Search(r) PROVE Holding'
  BY <1>0, <1>6 DEF Search, Goto
<1>7. ASSUME NEW r \in Runs, SearchFails(r) PROVE Holding'
  BY <1>0, <1>7 DEF SearchFails, Throw, Leave, LetGo, Goto
<1>8. ASSUME NEW r \in Runs, Quote(r) PROVE Holding'
  BY <1>0, <1>8 DEF Quote
<1>9. ASSUME NEW r \in Runs, QuotedAll(r) PROVE Holding'
  BY <1>0, <1>9 DEF QuotedAll, Goto
<1>10. ASSUME NEW r \in Runs, Ask(r) PROVE Holding'
  BY <1>0, <1>10 DEF Ask, Leave, LetGo, Goto
<1>11. ASSUME NEW r \in Runs, AskFails(r) PROVE Holding'
  BY <1>0, <1>11 DEF AskFails, Throw, Leave, LetGo, Goto
<1>12. ASSUME NEW r \in Runs, Forget(r) PROVE Holding'
  BY <1>0, <1>12 DEF Forget, Abandon, LetGo, Goto
<1>13. ASSUME NEW r \in Runs, Say(r) PROVE Holding'
  BY <1>0, <1>13 DEF Say, Goto
<1>14. ASSUME NEW r \in Runs, Summarize(r) PROVE Holding'
  BY <1>0, <1>14 DEF Summarize, Goto
<1>15. ASSUME NEW r \in Runs, SummarizeFails(r) \/ SummarizeThrows(r) PROVE Holding'
  BY <1>0, <1>15 DEF SummarizeFails, SummarizeThrows, Abandon, Throw, Leave, LetGo, Goto
<1>16. ASSUME NEW r \in Runs, Remember(r) PROVE Holding'
  BY <1>0, <1>16 DEF Remember, Goto
<1>17. ASSUME NEW r \in Runs, Replicate(r) PROVE Holding'
  BY <1>0, <1>17 DEF Replicate, Leave, LetGo, Goto
<1>18. ASSUME NEW r \in Runs, Unblock(r) PROVE Holding'
  BY <1>0, <1>18 DEF Unblock, Goto
<1>19. ASSUME NEW i \in ClientIds, Put(i) PROVE Holding'
  BY <1>0, <1>19 DEF Put, Change
<1>20. ASSUME NEW i \in Ids, Rem(i) PROVE Holding'
  BY <1>0, <1>20 DEF Rem, Change
<1>21. CASE Replace
  BY <1>0, <1>21 DEF Replace, Change
<1>22. CASE Takeover
  BY <1>0, <1>22 DEF Takeover, Under
<1>23. CASE UNCHANGED vars
  BY <1>0, <1>23
<1>24. ASSUME NEW r \in Runs, TakeGil(r) PROVE Holding'
  BY <1>0, <1>24 DEF TakeGil
<1> QED BY <1>1, <1>2, <1>3, <1>4, <1>5, <1>6, <1>7, <1>8, <1>9, <1>10, <1>11,
  <1>12, <1>13, <1>14, <1>15, <1>16, <1>17, <1>18, <1>19, <1>20, <1>21, <1>22, <1>23, <1>24
  DEF Next, Run, Done, Failover, SummarizeBreaks

LEMMA BeyondStep ==
  ASSUME TypeOK, Holding, Beyond, [Next]_vars
  PROVE  Beyond'
<1> USE DEF vars, confVars, historyVars, storeVars, readVars, boundVars, Beyond,
      Stores, NoItems
<1>0. store \in [Stores -> [Ids -> 0 .. Clock]] /\ holds \in [Runs -> {0} \union Stores] /\ current \in Stores /\ MaxStores \in Nat
  BY CountsAssumption DEF TypeOK
<1>1. ASSUME NEW r \in Runs, Start(r) PROVE Beyond'
  BY <1>0, <1>1 DEF Start, Goto
<1>2. ASSUME NEW r \in Runs, Refuse(r) PROVE Beyond'
  BY <1>0, <1>2 DEF Refuse, Goto
<1>3. ASSUME NEW r \in Runs, Resolve(r) PROVE Beyond'
  BY <1>0, <1>3 DEF Resolve, Goto
<1>4. ASSUME NEW r \in Runs, ResolveFails(r) PROVE Beyond'
  BY <1>0, <1>4 DEF ResolveFails, Throw, Leave, LetGo, Goto
<1>5. ASSUME NEW r \in Runs, Lock(r) PROVE Beyond'
  BY <1>0, <1>5 DEF Lock, Goto
<1>6. ASSUME NEW r \in Runs, Search(r) PROVE Beyond'
  BY <1>0, <1>6 DEF Search, Goto
<1>7. ASSUME NEW r \in Runs, SearchFails(r) PROVE Beyond'
  BY <1>0, <1>7 DEF SearchFails, Throw, Leave, LetGo, Goto
<1>8. ASSUME NEW r \in Runs, Quote(r) PROVE Beyond'
  BY <1>0, <1>8 DEF Quote
<1>9. ASSUME NEW r \in Runs, QuotedAll(r) PROVE Beyond'
  BY <1>0, <1>9 DEF QuotedAll, Goto
<1>10. ASSUME NEW r \in Runs, Ask(r) PROVE Beyond'
  BY <1>0, <1>10 DEF Ask, Leave, LetGo, Goto
<1>11. ASSUME NEW r \in Runs, AskFails(r) PROVE Beyond'
  BY <1>0, <1>11 DEF AskFails, Throw, Leave, LetGo, Goto
<1>12. ASSUME NEW r \in Runs, Forget(r) PROVE Beyond'
  BY <1>0, <1>12 DEF Forget, Abandon, LetGo, Goto
<1>13. ASSUME NEW r \in Runs, Say(r) PROVE Beyond'
  BY <1>0, <1>13 DEF Say, Goto
<1>14. ASSUME NEW r \in Runs, Summarize(r) PROVE Beyond'
  <2>1. holds[r] \in 1 .. current /\ store' = [store EXCEPT ![holds[r]][idIdx[holds[r]] + 1] = Clock + 1]
    BY <1>0, <1>14 DEF Summarize, Holding, Chatting
  <2>2. current' = current
    BY <1>0, <1>14 DEF Summarize
  <2> QED BY <1>0, <2>1, <2>2 DEF Beyond, Stores, NoItems
<1>15. ASSUME NEW r \in Runs, SummarizeFails(r) \/ SummarizeThrows(r) PROVE Beyond'
  BY <1>0, <1>15 DEF SummarizeFails, SummarizeThrows, Abandon, Throw, Leave, LetGo, Goto
<1>16. ASSUME NEW r \in Runs, Remember(r) PROVE Beyond'
  BY <1>0, <1>16 DEF Remember, Goto
<1>17. ASSUME NEW r \in Runs, Replicate(r) PROVE Beyond'
  BY <1>0, <1>17 DEF Replicate, Leave, LetGo, Goto
<1>18. ASSUME NEW r \in Runs, Unblock(r) PROVE Beyond'
  BY <1>0, <1>18 DEF Unblock, Goto
<1>19. ASSUME NEW i \in ClientIds, Put(i) PROVE Beyond'
  BY <1>0, <1>19 DEF Put, Change
<1>20. ASSUME NEW i \in Ids, Rem(i) PROVE Beyond'
  BY <1>0, <1>20 DEF Rem, Change
<1>21. CASE Replace
  BY <1>0, <1>21 DEF Replace, Change
<1>22. CASE Takeover
  BY <1>0, <1>22 DEF Takeover, Under
<1>23. CASE UNCHANGED vars
  BY <1>0, <1>23
<1>24. ASSUME NEW r \in Runs, TakeGil(r) PROVE Beyond'
  BY <1>0, <1>24 DEF TakeGil
<1> QED BY <1>1, <1>2, <1>3, <1>4, <1>5, <1>6, <1>7, <1>8, <1>9, <1>10, <1>11,
  <1>12, <1>13, <1>14, <1>15, <1>16, <1>17, <1>18, <1>19, <1>20, <1>21, <1>22, <1>23, <1>24
  DEF Next, Run, Done, Failover, SummarizeBreaks

-----------------------------------------------------------------------------
(* Types, in four parts                                                    *)

TypeControl ==
  /\ kind \in Kinds /\ summaryCnt \in {0} \union SummaryCnts
  /\ mtx \in {0} \union Runs /\ gil \in {0} \union Runs
  /\ pc \in [Runs -> Steps]
  /\ odd \subseteq Runs
  /\ role \in [Runs -> {"user", "assistant"}]
  /\ outcome \in [Runs -> {"none", "ok", "error", "never", "lost"}]
  /\ older \subseteq Runs
  /\ changes \in 0 .. MaxChanges /\ failovers \in 0 .. MaxFailovers

TypeHistory ==
  /\ pending \in Seq(Messages) /\ summed \in Seq(Messages)
  /\ latest \in Seq(Messages) /\ Len(latest) <= ContextCnt

TypeStores ==
  /\ current \in Stores
  /\ store \in [Stores -> [Ids -> 0 .. Clock]]
  /\ index \in [Stores -> {"none", "ready", "null"}]
  /\ idIdx \in [Stores -> Nat]
  /\ source \in Seq(Stores)
  /\ rStore \in [Ids -> 0 .. Clock]

TypeReads ==
  /\ holds \in [Runs -> {0} \union Stores]
  /\ found \in [Runs -> SUBSET Ids]
  /\ quoted \in [Runs -> SUBSET (1 .. Clock)]
  /\ made \in [Runs -> SUBSET (Ids \X (1 .. Clock))]
  /\ gone \in [Runs -> SUBSET (1 .. Clock)]

LEMMA TypeParts == TypeOK <=> TypeControl /\ TypeHistory /\ TypeStores /\ TypeReads
BY DEF TypeOK, TypeControl, TypeHistory, TypeStores, TypeReads

LEMMA TypeControlStep ==
  ASSUME TypeControl, [Next]_vars
  PROVE  TypeControl'
<1> USE DEF vars, confVars, historyVars, storeVars, readVars, boundVars,
      TypeControl, Steps, Critical
<1>0. MaxChanges \in Nat /\ MaxFailovers \in Nat /\ Runs \subseteq Nat /\ 0 \notin Runs
  BY CountsAssumption DEF Runs
<1>1. ASSUME NEW r \in Runs, Start(r) PROVE TypeControl'
  BY <1>0, <1>1 DEF Start, Goto
<1>2. ASSUME NEW r \in Runs, Refuse(r) PROVE TypeControl'
  BY <1>0, <1>2 DEF Refuse, Goto
<1>3. ASSUME NEW r \in Runs, Resolve(r) PROVE TypeControl'
  BY <1>0, <1>3 DEF Resolve, Goto
<1>4. ASSUME NEW r \in Runs, ResolveFails(r) PROVE TypeControl'
  BY <1>0, <1>4 DEF ResolveFails, Throw, Leave, LetGo, Goto
<1>5. ASSUME NEW r \in Runs, Lock(r) PROVE TypeControl'
  BY <1>0, <1>5 DEF Lock, Goto
<1>6. ASSUME NEW r \in Runs, Search(r) PROVE TypeControl'
  BY <1>0, <1>6 DEF Search, Goto
<1>7. ASSUME NEW r \in Runs, SearchFails(r) PROVE TypeControl'
  BY <1>0, <1>7 DEF SearchFails, Throw, Leave, LetGo, Goto
<1>8. ASSUME NEW r \in Runs, Quote(r) PROVE TypeControl'
  BY <1>0, <1>8 DEF Quote
<1>9. ASSUME NEW r \in Runs, QuotedAll(r) PROVE TypeControl'
  BY <1>0, <1>9 DEF QuotedAll, Goto
<1>10. ASSUME NEW r \in Runs, Ask(r) PROVE TypeControl'
  BY <1>0, <1>10 DEF Ask, Leave, LetGo, Goto
<1>11. ASSUME NEW r \in Runs, AskFails(r) PROVE TypeControl'
  BY <1>0, <1>11 DEF AskFails, Throw, Leave, LetGo, Goto
<1>12. ASSUME NEW r \in Runs, Forget(r) PROVE TypeControl'
  BY <1>0, <1>12 DEF Forget, Abandon, LetGo, Goto
<1>13. ASSUME NEW r \in Runs, Say(r) PROVE TypeControl'
  BY <1>0, <1>13 DEF Say, Goto
<1>14. ASSUME NEW r \in Runs, Summarize(r) PROVE TypeControl'
  BY <1>0, <1>14 DEF Summarize, Goto
<1>15. ASSUME NEW r \in Runs, SummarizeFails(r) \/ SummarizeThrows(r) PROVE TypeControl'
  BY <1>0, <1>15 DEF SummarizeFails, SummarizeThrows, Abandon, Throw, Leave, LetGo, Goto
<1>16. ASSUME NEW r \in Runs, Remember(r) PROVE TypeControl'
  BY <1>0, <1>16 DEF Remember, Goto
<1>17. ASSUME NEW r \in Runs, Replicate(r) PROVE TypeControl'
  BY <1>0, <1>17 DEF Replicate, Leave, LetGo, Goto
<1>18. ASSUME NEW r \in Runs, Unblock(r) PROVE TypeControl'
  BY <1>0, <1>18 DEF Unblock, Goto
<1>19. ASSUME NEW i \in ClientIds, Put(i) PROVE TypeControl'
  BY <1>0, <1>19 DEF Put, Change
<1>20. ASSUME NEW i \in Ids, Rem(i) PROVE TypeControl'
  BY <1>0, <1>20 DEF Rem, Change
<1>21. CASE Replace
  BY <1>0, <1>21 DEF Replace, Change
<1>22. CASE Failover \/ \E r \in Runs : SummarizeBreaks(r)
  <2>1. CASE Failover
    BY <1>0, <2>1 DEF Failover, Takeover, Under
  <2>2. ASSUME NEW r \in Runs, SummarizeBreaks(r) PROVE TypeControl'
    BY <1>0, <2>2 DEF SummarizeBreaks, Takeover, Under
  <2> QED BY <1>22, <2>1, <2>2
<1>23. CASE UNCHANGED vars
  BY <1>0, <1>23
<1>24. ASSUME NEW r \in Runs, TakeGil(r) PROVE TypeControl'
  BY <1>0, <1>24 DEF TakeGil
<1> QED BY <1>1, <1>2, <1>3, <1>4, <1>5, <1>6, <1>7, <1>8, <1>9, <1>10, <1>11,
  <1>12, <1>13, <1>14, <1>15, <1>16, <1>17, <1>18, <1>19, <1>20, <1>21, <1>22, <1>23, <1>24
  DEF Next, Run, Done

LEMMA TypeHistoryStep ==
  ASSUME TypeControl, TypeHistory, [Next]_vars
  PROVE  TypeHistory'
<1> USE DEF vars, confVars, historyVars, storeVars, readVars, boundVars, TypeHistory
<1>0. /\ ContextCnt \in Nat /\ \A r \in Runs : Message(r) \in Messages
  BY CountsAssumption DEF TypeControl, Message, Messages
<1>1. ASSUME NEW r \in Runs, Start(r) PROVE TypeHistory'
  BY <1>0, <1>1 DEF Start, Goto
<1>2. ASSUME NEW r \in Runs, Refuse(r) PROVE TypeHistory'
  BY <1>0, <1>2 DEF Refuse, Goto
<1>3. ASSUME NEW r \in Runs, Resolve(r) PROVE TypeHistory'
  BY <1>0, <1>3 DEF Resolve, Goto
<1>4. ASSUME NEW r \in Runs, ResolveFails(r) PROVE TypeHistory'
  BY <1>0, <1>4 DEF ResolveFails, Throw, Leave, LetGo, Goto
<1>5. ASSUME NEW r \in Runs, Lock(r) PROVE TypeHistory'
  BY <1>0, <1>5 DEF Lock, Goto
<1>6. ASSUME NEW r \in Runs, Search(r) PROVE TypeHistory'
  BY <1>0, <1>6 DEF Search, Goto
<1>7. ASSUME NEW r \in Runs, SearchFails(r) PROVE TypeHistory'
  BY <1>0, <1>7 DEF SearchFails, Throw, Leave, LetGo, Goto
<1>8. ASSUME NEW r \in Runs, Quote(r) PROVE TypeHistory'
  BY <1>0, <1>8 DEF Quote
<1>9. ASSUME NEW r \in Runs, QuotedAll(r) PROVE TypeHistory'
  BY <1>0, <1>9 DEF QuotedAll, Goto
<1>10. ASSUME NEW r \in Runs, Ask(r) PROVE TypeHistory'
  BY <1>0, <1>10 DEF Ask, Leave, LetGo, Goto
<1>11. ASSUME NEW r \in Runs, AskFails(r) PROVE TypeHistory'
  BY <1>0, <1>11 DEF AskFails, Throw, Leave, LetGo, Goto
<1>12. ASSUME NEW r \in Runs, Forget(r) PROVE TypeHistory'
  BY <1>0, <1>12 DEF Forget, Abandon, LetGo, Goto
<1>13. ASSUME NEW r \in Runs, Say(r) PROVE TypeHistory'
  BY <1>0, <1>13 DEF Say, Goto
<1>14. ASSUME NEW r \in Runs, Summarize(r) PROVE TypeHistory'
  BY <1>0, <1>14 DEF Summarize, Goto
<1>15. ASSUME NEW r \in Runs, SummarizeFails(r) \/ SummarizeThrows(r) PROVE TypeHistory'
  BY <1>0, <1>15 DEF SummarizeFails, SummarizeThrows, Abandon, Throw, Leave, LetGo, Goto
<1>16. ASSUME NEW r \in Runs, Remember(r) PROVE TypeHistory'
  <2>1. /\ UNCHANGED <<pending, summed>>
        /\ latest' = IF Len(Append(latest, Message(r))) > ContextCnt
                       THEN Tail(Append(latest, Message(r))) ELSE Append(latest, Message(r))
    BY <1>16 DEF Remember
  <2>2. /\ Append(latest, Message(r)) \in Seq(Messages) /\ Append(latest, Message(r)) # <<>>
        /\ Len(Append(latest, Message(r))) = Len(latest) + 1
    BY <1>0
  <2>3. /\ Tail(Append(latest, Message(r))) \in Seq(Messages)
        /\ Len(Tail(Append(latest, Message(r)))) = Len(latest)
    BY <2>2
  <2> QED BY <1>0, <2>1, <2>2, <2>3
<1>17. ASSUME NEW r \in Runs, Replicate(r) PROVE TypeHistory'
  BY <1>0, <1>17 DEF Replicate, Leave, LetGo, Goto
<1>18. ASSUME NEW r \in Runs, Unblock(r) PROVE TypeHistory'
  BY <1>0, <1>18 DEF Unblock, Goto
<1>19. ASSUME NEW i \in ClientIds, Put(i) PROVE TypeHistory'
  BY <1>0, <1>19 DEF Put, Change
<1>20. ASSUME NEW i \in Ids, Rem(i) PROVE TypeHistory'
  BY <1>0, <1>20 DEF Rem, Change
<1>21. CASE Replace
  BY <1>0, <1>21 DEF Replace, Change
<1>22. CASE Takeover
  BY <1>0, <1>22 DEF Takeover, Under
<1>23. CASE UNCHANGED vars
  BY <1>0, <1>23
<1>24. ASSUME NEW r \in Runs, TakeGil(r) PROVE TypeHistory'
  BY <1>0, <1>24 DEF TakeGil
<1> QED BY <1>1, <1>2, <1>3, <1>4, <1>5, <1>6, <1>7, <1>8, <1>9, <1>10, <1>11,
  <1>12, <1>13, <1>14, <1>15, <1>16, <1>17, <1>18, <1>19, <1>20, <1>21, <1>22, <1>23, <1>24
  DEF Next, Run, Done, Failover, SummarizeBreaks

LEMMA HeldStore ==
  ASSUME TypeStores, Holding, NEW r \in Runs, pc[r] \in {"lock", "search", "quote"} \union Chatting
  PROVE  holds[r] \in Stores /\ holds[r] \in 1 .. current
BY CountsAssumption DEF TypeStores, Holding, Stores

(* A text more, and everything that was a text before still is one.        *)
LEMMA ClockGrows ==
  ASSUME TypeStores, NEW s \in Stores, source' = Append(source, s)
  PROVE  /\ Clock \in Nat /\ Clock' = Clock + 1 /\ source' \in Seq(Stores)
         /\ 0 .. Clock \subseteq 0 .. Clock' /\ 1 .. Clock \subseteq 1 .. Clock'
BY DEF TypeStores, Clock

(* A failover forgets no text, but may move it to the store at the key.    *)
LEMMA SourceKept ==
  ASSUME TypeStores, Takeover
  PROVE  source' \in Seq(Stores) /\ Clock' = Clock /\ Clock \in Nat
<1>1. Clock \in Nat /\ current \in Stores /\ \A v \in 1 .. Clock : source[v] \in Stores
  BY DEF TypeStores, Clock
<1>2. source' = [v \in 1 .. Clock |->
                   IF \E i \in Ids : rStore[i] = v THEN current ELSE source[v]]
  BY DEF Takeover
<1>3. source' \in [1 .. Clock -> Stores]
  BY <1>1, <1>2
<1>4. source' \in Seq(Stores) /\ Len(source') = Clock
  BY <1>1, <1>3
<1> QED BY <1>1, <1>4 DEF Clock

LEMMA TypeStoresStep ==
  ASSUME TypeControl, TypeStores, TypeReads, Holding, [Next]_vars
  PROVE  TypeStores'
<1> USE DEF vars, confVars, historyVars, storeVars, readVars, boundVars
<1>1. ASSUME NEW r \in Runs, Start(r) PROVE TypeStores'
  BY <1>1 DEF Start, Goto, TypeStores, Clock
<1>2. ASSUME NEW r \in Runs, Refuse(r) PROVE TypeStores'
  BY <1>2 DEF Refuse, Goto, TypeStores, Clock
<1>3. ASSUME NEW r \in Runs, Resolve(r) PROVE TypeStores'
  BY <1>3 DEF Resolve, Goto, TypeStores, Clock
<1>4. ASSUME NEW r \in Runs, ResolveFails(r) PROVE TypeStores'
  BY <1>4 DEF ResolveFails, Throw, Leave, LetGo, Goto, TypeStores, Clock
<1>5. ASSUME NEW r \in Runs, Lock(r) PROVE TypeStores'
  BY <1>5 DEF Lock, Goto, TypeStores, Clock
<1>6. ASSUME NEW r \in Runs, Search(r) PROVE TypeStores'
  BY <1>6 DEF Search, Goto, TypeStores, Clock
<1>7. ASSUME NEW r \in Runs, SearchFails(r) PROVE TypeStores'
  BY <1>7 DEF SearchFails, Throw, Leave, LetGo, Goto, TypeStores, Clock
<1>8. ASSUME NEW r \in Runs, Quote(r) PROVE TypeStores'
  BY <1>8 DEF Quote, TypeStores, Clock
<1>9. ASSUME NEW r \in Runs, QuotedAll(r) PROVE TypeStores'
  BY <1>9 DEF QuotedAll, Goto, TypeStores, Clock
<1>10. ASSUME NEW r \in Runs, Ask(r) PROVE TypeStores'
  BY <1>10 DEF Ask, Leave, LetGo, Goto, TypeStores, Clock
<1>11. ASSUME NEW r \in Runs, AskFails(r) PROVE TypeStores'
  BY <1>11 DEF AskFails, Throw, Leave, LetGo, Goto, TypeStores, Clock
<1>12. ASSUME NEW r \in Runs, Forget(r) PROVE TypeStores'
  BY <1>12 DEF Forget, Abandon, LetGo, Goto, TypeStores, Clock
<1>13. ASSUME NEW r \in Runs, Say(r) PROVE TypeStores'
  BY <1>13 DEF Say, Goto, TypeStores, Clock
<1>14. ASSUME NEW r \in Runs, Summarize(r) PROVE TypeStores'
  <2>1. holds[r] \in Stores
    BY <1>14, HeldStore DEF Summarize, Chatting
  <2>2. Clock \in Nat /\ Clock' = Clock + 1 /\ source' \in Seq(Stores)
    BY <2>1, <1>14, ClockGrows DEF Summarize
  <2>3. /\ current' = current /\ rStore' = rStore
        /\ index' = [index EXCEPT ![holds[r]] = "ready"]
        /\ idIdx' = [idIdx EXCEPT ![holds[r]] = idIdx[holds[r]] + 1]
        /\ store' = [store EXCEPT ![holds[r]][idIdx[holds[r]] + 1] = Clock + 1]
    BY <1>14 DEF Summarize
  <2>4. store' \in [Stores -> [Ids -> 0 .. Clock']]
    <3>1. 0 .. Clock \subseteq 0 .. Clock' /\ Clock + 1 \in 0 .. Clock'
      BY <2>2
    <3>2. store[holds[r]] \in [Ids -> 0 .. Clock'] /\ store \in [Stores -> [Ids -> 0 .. Clock']]
      BY <2>1, <3>1 DEF TypeStores
    <3> QED BY <2>1, <2>3, <3>1, <3>2
  <2>5. rStore' \in [Ids -> 0 .. Clock']
    BY <2>2, <2>3 DEF TypeStores
  <2>6. /\ idIdx' \in [Stores -> Nat] /\ current' \in Stores
        /\ index' \in [Stores -> {"none", "ready", "null"}]
    BY <2>1, <2>3 DEF TypeStores
  <2> QED BY <2>2, <2>4, <2>5, <2>6 DEF TypeStores
<1>15. ASSUME NEW r \in Runs, SummarizeFails(r) \/ SummarizeThrows(r) PROVE TypeStores'
  <2>1. holds[r] \in Stores
    BY <1>15, HeldStore DEF SummarizeFails, SummarizeThrows, Chatting
  <2>2. \E drawn \in {0, 1} : idIdx' = [idIdx EXCEPT ![holds[r]] = @ + drawn]
    BY <1>15 DEF SummarizeFails, SummarizeThrows
  <2>3. /\ UNCHANGED <<current, store, source, rStore>>
        /\ index' = index \/ index' = [index EXCEPT ![holds[r]] = "null"]
    BY <1>15 DEF SummarizeFails, SummarizeThrows
  <2>4. idIdx' \in [Stores -> Nat]
    BY <2>1, <2>2 DEF TypeStores
  <2>5. index' \in [Stores -> {"none", "ready", "null"}]
    BY <2>1, <2>3 DEF TypeStores
  <2> QED BY <2>3, <2>4, <2>5 DEF TypeStores, Clock
<1>16. ASSUME NEW r \in Runs, Remember(r) PROVE TypeStores'
  BY <1>16 DEF Remember, Goto, TypeStores, Clock
<1>17. ASSUME NEW r \in Runs, Replicate(r) PROVE TypeStores'
  <2>1. /\ UNCHANGED storeVars
        /\ rStore' = [i \in Ids |-> IF TextMade(r, i) = {}
                                      THEN rStore[i] ELSE CHOOSE v \in TextMade(r, i) : TRUE]
    BY <1>17 DEF Replicate
  <2>2. \A i \in Ids : TextMade(r, i) \subseteq 1 .. Clock
    BY DEF TypeReads, TextMade
  <2>3. ASSUME NEW i \in Ids PROVE rStore'[i] \in 0 .. Clock
    <3>1. CASE TextMade(r, i) = {}
      BY <2>1, <3>1 DEF TypeStores
    <3>2. CASE TextMade(r, i) # {}
      <4>1. (CHOOSE v \in TextMade(r, i) : TRUE) \in TextMade(r, i)
        BY <3>2
      <4> QED BY <2>1, <2>2, <3>2, <4>1 DEF TypeStores, Clock
    <3> QED BY <3>1, <3>2
  <2>4. rStore' \in [Ids -> 0 .. Clock]
    BY <2>1, <2>3
  <2> QED BY <2>1, <2>4 DEF TypeStores, Clock
<1>18. ASSUME NEW r \in Runs, Unblock(r) PROVE TypeStores'
  BY <1>18 DEF Unblock, Goto, TypeStores, Clock
<1>19. ASSUME NEW i \in ClientIds, Put(i) PROVE TypeStores'
  <2>1. Clock \in Nat /\ Clock' = Clock + 1 /\ source' \in Seq(Stores)
    BY <1>19, ClockGrows DEF Put, TypeStores
  <2>2. /\ current' = current /\ idIdx' = idIdx
        /\ index' = [index EXCEPT ![current] = "ready"]
        /\ rStore' = [rStore EXCEPT ![i] = Clock + 1]
        /\ store' = [store EXCEPT ![current][i] = Clock + 1]
    BY <1>19 DEF Put, Change
  <2>3. i \in Ids /\ current \in Stores
    BY DEF Ids, TypeStores
  <2>4. 0 .. Clock \subseteq 0 .. Clock' /\ Clock + 1 \in 0 .. Clock'
    BY <2>1
  <2>5. store' \in [Stores -> [Ids -> 0 .. Clock']]
    <3>1. store[current] \in [Ids -> 0 .. Clock'] /\ store \in [Stores -> [Ids -> 0 .. Clock']]
      BY <2>3, <2>4 DEF TypeStores
    <3> QED BY <2>2, <2>3, <2>4, <3>1
  <2>6. rStore' \in [Ids -> 0 .. Clock']
    BY <2>2, <2>4 DEF TypeStores
  <2> QED BY <2>1, <2>2, <2>3, <2>5, <2>6 DEF TypeStores
<1>20. ASSUME NEW i \in Ids, Rem(i) PROVE TypeStores'
  <2>1. Clock \in Nat /\ Clock' = Clock
    BY <1>20 DEF Rem, Change, Clock, TypeStores
  <2>2. /\ current' = current /\ idIdx' = idIdx /\ source' = source /\ index' = index
        /\ rStore' = [rStore EXCEPT ![i] = 0]
        /\ store' = [store EXCEPT ![current][i] = 0]
    BY <1>20 DEF Rem, Change
  <2> QED BY <2>1, <2>2 DEF TypeStores
<1>21. CASE Replace
  <2>1. Clock \in Nat /\ Clock' = Clock
    BY <1>21 DEF Replace, Change, Clock, TypeStores
  <2>2. /\ current' = current + 1 /\ current < MaxStores /\ idIdx' = idIdx
        /\ source' = source /\ rStore' = NoItems /\ store' = store /\ index' = index
    BY <1>21 DEF Replace, Change
  <2> QED BY <2>1, <2>2, CountsAssumption DEF TypeStores, NoItems, Stores
<1>22. CASE Takeover
  <2>1. source' \in Seq(Stores) /\ Clock' = Clock /\ Clock \in Nat
    BY <1>22, SourceKept
  <2>2. /\ current' = current /\ rStore' = rStore
        /\ idIdx' = [idIdx EXCEPT ![current] = 0]
        /\ store' = [store EXCEPT ![current] = rStore]
    BY <1>22 DEF Takeover
  <2>3. \E x \in {"none", "ready", index[current]} : index' = [index EXCEPT ![current] = x]
    BY <1>22 DEF Takeover
  <2> QED BY <2>1, <2>2, <2>3 DEF TypeStores
<1>23. CASE UNCHANGED vars
  BY <1>23 DEF TypeStores, Clock
<1>24. ASSUME NEW r \in Runs, TakeGil(r) PROVE TypeStores'
  BY <1>24 DEF TakeGil, TypeStores, Clock
<1> QED BY <1>1, <1>2, <1>3, <1>4, <1>5, <1>6, <1>7, <1>8, <1>9, <1>10, <1>11,
  <1>12, <1>13, <1>14, <1>15, <1>16, <1>17, <1>18, <1>19, <1>20, <1>21, <1>22, <1>23, <1>24
  DEF Next, Run, Done, Failover, SummarizeBreaks

LEMMA TypeReadsStep ==
  ASSUME TypeControl, TypeHistory, TypeStores, TypeReads, Holding, Counted, [Next]_vars
  PROVE  TypeReads'
<1> USE DEF vars, confVars, historyVars, storeVars, readVars, boundVars
<1>1. ASSUME NEW r \in Runs, Start(r) PROVE TypeReads'
  BY <1>1 DEF Start, Clock, TypeReads
<1>2. ASSUME NEW r \in Runs, Refuse(r) PROVE TypeReads'
  BY <1>2 DEF Refuse, Goto, TypeReads, Clock
<1>3. ASSUME NEW r \in Runs, Resolve(r) PROVE TypeReads'
  BY <1>3 DEF Resolve, Goto, TypeStores, TypeReads, Clock
<1>4. ASSUME NEW r \in Runs, ResolveFails(r) PROVE TypeReads'
  BY <1>4 DEF ResolveFails, Throw, Leave, LetGo, Goto, TypeReads, Clock
<1>5. ASSUME NEW r \in Runs, Lock(r) PROVE TypeReads'
  BY <1>5 DEF Lock, Goto, TypeReads, Clock
<1>6. ASSUME NEW r \in Runs, Search(r) PROVE TypeReads'
  <2>1. PICK near \in SUBSET {i \in Ids : store[holds[r]][i] # 0} :
          found' = [found EXCEPT ![r] = near]
    BY <1>6 DEF Search
  <2>2. UNCHANGED <<holds, quoted, made, gone, source>>
    BY <1>6 DEF Search
  <2> QED BY <2>1, <2>2 DEF TypeReads, Clock
<1>7. ASSUME NEW r \in Runs, SearchFails(r) PROVE TypeReads'
  BY <1>7 DEF SearchFails, Throw, Leave, LetGo, Goto, TypeReads, Clock
<1>8. ASSUME NEW r \in Runs, Quote(r) PROVE TypeReads'
  <2>1. PICK i \in found[r] :
          /\ found' = [found EXCEPT ![r] = found[r] \ {i}]
          /\ quoted' = [quoted EXCEPT ![r] = quoted[r] \union ({store[holds[r]][i]} \ {0})]
    BY <1>8 DEF Quote
  <2>2. holds[r] \in Stores /\ i \in Ids
    BY <2>1, <1>8, HeldStore DEF Quote, TypeReads
  <2>3. {store[holds[r]][i]} \ {0} \subseteq 1 .. Clock
    BY <2>2 DEF TypeStores, Clock
  <2>4. UNCHANGED <<holds, made, gone, source>>
    BY <1>8 DEF Quote
  <2> QED BY <2>1, <2>3, <2>4 DEF TypeReads, Clock
<1>9. ASSUME NEW r \in Runs, QuotedAll(r) PROVE TypeReads'
  BY <1>9 DEF QuotedAll, Goto, TypeReads, Clock
<1>10. ASSUME NEW r \in Runs, Ask(r) PROVE TypeReads'
  BY <1>10 DEF Ask, Leave, LetGo, Goto, TypeReads, Clock
<1>11. ASSUME NEW r \in Runs, AskFails(r) PROVE TypeReads'
  BY <1>11 DEF AskFails, Throw, Leave, LetGo, Goto, TypeReads, Clock
<1>12. ASSUME NEW r \in Runs, Forget(r) PROVE TypeReads'
  BY <1>12 DEF Forget, Abandon, LetGo, Goto, TypeReads, Clock
<1>13. ASSUME NEW r \in Runs, Say(r) PROVE TypeReads'
  BY <1>13 DEF Say, Goto, TypeReads, Clock
<1>14. ASSUME NEW r \in Runs, Summarize(r) PROVE TypeReads'
  <2>1. holds[r] \in Stores /\ pc[r] = "summarize"
    BY <1>14, HeldStore DEF Summarize, Chatting
  <2>2. Clock \in Nat /\ Clock' = Clock + 1
    BY <2>1, <1>14, ClockGrows DEF Summarize
  <2>3. idIdx[holds[r]] + 1 \in Ids
    BY <2>1, TypeParts, RoomForId
  <2>4. /\ UNCHANGED <<holds, found, quoted, gone>>
        /\ made' = [made EXCEPT ![r] = made[r] \union {<<idIdx[holds[r]] + 1, Clock + 1>>}]
    BY <1>14 DEF Summarize
  <2>5. /\ SUBSET (1 .. Clock) \subseteq SUBSET (1 .. Clock')
        /\ SUBSET (Ids \X (1 .. Clock)) \subseteq SUBSET (Ids \X (1 .. Clock'))
    BY <2>2
  <2>6. <<idIdx[holds[r]] + 1, Clock + 1>> \in Ids \X (1 .. Clock')
    BY <2>2, <2>3
  <2>7. made' \in [Runs -> SUBSET (Ids \X (1 .. Clock'))]
    BY <2>4, <2>5, <2>6 DEF TypeReads
  <2> QED BY <2>4, <2>5, <2>7 DEF TypeReads
<1>15. ASSUME NEW r \in Runs, SummarizeFails(r) \/ SummarizeThrows(r) PROVE TypeReads'
  BY <1>15 DEF SummarizeFails, SummarizeThrows, Abandon, Throw, Leave, LetGo, Goto, TypeReads, Clock
<1>16. ASSUME NEW r \in Runs, Remember(r) PROVE TypeReads'
  BY <1>16 DEF Remember, Goto, TypeReads, Clock
<1>17. ASSUME NEW r \in Runs, Replicate(r) PROVE TypeReads'
  BY <1>17 DEF Replicate, Leave, LetGo, Goto, TypeReads, Clock
<1>18. ASSUME NEW r \in Runs, Unblock(r) PROVE TypeReads'
  BY <1>18 DEF Unblock, Goto, TypeReads, Clock
<1>19. ASSUME NEW i \in ClientIds, Put(i) PROVE TypeReads'
  <2>1. Clock \in Nat /\ Clock' = Clock + 1
    BY <1>19, ClockGrows DEF Put, TypeStores
  <2>2. /\ SUBSET (1 .. Clock) \subseteq SUBSET (1 .. Clock')
        /\ SUBSET (Ids \X (1 .. Clock)) \subseteq SUBSET (Ids \X (1 .. Clock'))
    BY <2>1
  <2>3. UNCHANGED <<holds, found, quoted, made, gone>>
    BY <1>19 DEF Put, Change
  <2> QED BY <2>2, <2>3 DEF TypeReads
<1>20. ASSUME NEW i \in Ids, Rem(i) PROVE TypeReads'
  BY <1>20 DEF Rem, Change, TypeReads, Clock
<1>21. CASE Replace
  BY <1>21 DEF Replace, Change, TypeReads, Clock
<1>22. CASE Takeover
  <2>1. Clock' = Clock
    BY <1>22, SourceKept
  <2> QED BY <2>1, <1>22 DEF Takeover, TypeReads
<1>23. CASE UNCHANGED vars
  BY <1>23 DEF TypeReads, Clock
<1>24. ASSUME NEW r \in Runs, TakeGil(r) PROVE TypeReads'
  BY <1>24 DEF TakeGil, TypeReads, Clock
<1> QED BY <1>1, <1>2, <1>3, <1>4, <1>5, <1>6, <1>7, <1>8, <1>9, <1>10, <1>11,
  <1>12, <1>13, <1>14, <1>15, <1>16, <1>17, <1>18, <1>19, <1>20, <1>21, <1>22, <1>23, <1>24
  DEF Next, Run, Done, Failover, SummarizeBreaks

-----------------------------------------------------------------------------
(* The initial states                                                      *)

LEMMA InitTypes == Init => TypeOK
<1> SUFFICES ASSUME Init PROVE TypeOK
  OBVIOUS
<1>1. PICK items \in IF kind = "search"
                       THEN {f \in [ClientIds -> 1 .. Cardinality(ClientIds)] : IsInjective(f)}
                       ELSE {<<>>} :
        /\ rStore = [i \in Ids |-> IF i \in DOMAIN items THEN items[i] ELSE 0]
        /\ source = [n \in 1 .. Cardinality(DOMAIN items) |-> 1]
  BY DEF Init
<1>2. /\ Cardinality(DOMAIN items) \in Nat
      /\ \A i \in DOMAIN items : items[i] \in 1 .. Cardinality(DOMAIN items)
  <2>1. CASE kind = "search"
    <3>1. items \in [ClientIds -> 1 .. Cardinality(ClientIds)]
      BY <1>1, <2>1
    <3>2. Cardinality(ClientIds) \in Nat
      BY SetsAssumption, FS_CardinalityType
    <3> QED BY <3>1, <3>2
  <2>2. CASE kind # "search"
    <3>1. items = <<>>
      BY <1>1, <2>2
    <3>2. DOMAIN items = {}
      BY <3>1
    <3>3. Cardinality(DOMAIN items) = 0
      BY <3>2, FS_EmptySet
    <3> QED BY <3>2, <3>3
  <2> QED BY <2>1, <2>2
<1>3. 1 \in Stores
  BY CountsAssumption DEF Stores
<1>4. source \in Seq(Stores) /\ Clock = Cardinality(DOMAIN items)
  BY <1>1, <1>2, <1>3 DEF Clock
<1>5. rStore \in [Ids -> 0 .. Clock]
  BY <1>1, <1>2, <1>4
<1>6. TypeStores
  <2>1. store \in [Stores -> [Ids -> 0 .. Clock]]
    <3>1. NoItems \in [Ids -> 0 .. Clock]
      BY <1>2, <1>4 DEF NoItems
    <3>2. store = [s \in Stores |-> IF s = 1 THEN rStore ELSE NoItems]
      BY DEF Init
    <3> QED BY <1>5, <3>1, <3>2
  <2> QED BY <1>3, <1>4, <1>5, <2>1 DEF Init, TypeStores
<1>7. TypeControl
  BY CountsAssumption, SetsAssumption DEF Init, TypeControl, Steps
<1>8. TypeHistory
  BY CountsAssumption DEF Init, TypeHistory
<1>9. TypeReads
  BY DEF Init, TypeReads
<1> QED BY <1>6, <1>7, <1>8, <1>9, TypeParts

LEMMA InitControl == Init => ControlInv
<1> SUFFICES ASSUME Init PROVE ControlInv
  OBVIOUS
<1>1. TypeOK
  BY InitTypes
<1>2. Locking /\ Outcomes /\ Holding
  BY DEF Init, Locking, Outcomes, Holding, Critical, Chatting, Over
<1>3. Beyond
  BY CountsAssumption DEF Init, Beyond, Stores
<1>4. Counted
  <2>1. Cardinality(Drawn) \in Nat /\ Cardinality(Drawn) >= 0
    BY DrawnGrows, DrawnPrime
  <2> QED BY <2>1 DEF Init, Counted
<1> QED BY <1>1, <1>2, <1>3, <1>4 DEF ControlInv

LEMMA ControlStep == ASSUME ControlInv, [Next]_vars PROVE ControlInv'
<1>1. TypeControl /\ TypeHistory /\ TypeStores /\ TypeReads
  BY TypeParts DEF ControlInv
<1>2. TypeControl' /\ TypeHistory' /\ TypeStores' /\ TypeReads'
  BY <1>1, TypeControlStep, TypeHistoryStep, TypeStoresStep, TypeReadsStep DEF ControlInv
<1>3. TypeOK'
  BY <1>2 DEF TypeOK, TypeControl, TypeHistory, TypeStores, TypeReads
<1>4. Locking' /\ Outcomes' /\ Holding' /\ Beyond' /\ Counted'
  BY LockingStep, OutcomesStep, HoldingStep, BeyondStep, CountedStep DEF ControlInv
<1> QED BY <1>3, <1>4 DEF ControlInv

(* The type invariant: among other things no id counter passes the number  *)
(* of messages, and no more than ContextCnt messages are remembered.       *)
THEOREM TypeCorrect == Spec => []TypeOK
<1>1. Init => ControlInv
  BY InitControl
<1>2. ControlInv /\ [Next]_vars => ControlInv'
  BY ControlStep
<1>3. ControlInv => TypeOK
  BY DEF ControlInv
<1> QED BY <1>1, <1>2, <1>3, PTL DEF Spec

-----------------------------------------------------------------------------
(* What is read for a prompt                                               *)

LEMMA FreshStep ==
  ASSUME ControlInv, Fresh, [Next]_vars
  PROVE  Fresh'
<1> USE DEF vars, confVars, historyVars, storeVars, readVars, boundVars
<1>0. /\ Clock \in Nat /\ gone \in [Runs -> SUBSET (1 .. Clock)]
      /\ quoted \in [Runs -> SUBSET (1 .. Clock)]
      /\ pc \in [Runs -> Steps] /\ holds \in [Runs -> {0} \union Stores]
      /\ current \in Stores /\ store \in [Stores -> [Ids -> 0 .. Clock]]
  BY DEF ControlInv, TypeOK, Clock
<1>1. ASSUME NEW r \in Runs, Start(r) PROVE Fresh'
  <2>1. /\ gone' = [gone EXCEPT ![r] = (1 .. Clock) \ AtKey]
        /\ UNCHANGED <<store, current, holds>>
        /\ pc' = [pc EXCEPT ![r] = IF kind = "simple" THEN "prompt" ELSE "resolve"]
    BY <1>0, <1>1 DEF Start, Goto
  <2>2. \A i \in Ids : store[current][i] \notin (1 .. Clock) \ AtKey
    BY <1>0, <1>0 DEF AtKey
  <2> QED BY <1>0, <2>1, <2>2 DEF Fresh
<1>2. ASSUME NEW r \in Runs, Refuse(r) PROVE Fresh'
  BY <1>0, <1>2 DEF Refuse, Goto, Fresh
<1>3. ASSUME NEW r \in Runs, Resolve(r) PROVE Fresh'
  BY <1>0, <1>3 DEF Resolve, Goto, Fresh
<1>4. ASSUME NEW r \in Runs, ResolveFails(r) PROVE Fresh'
  BY <1>0, <1>4 DEF ResolveFails, Throw, Leave, LetGo, Goto, Fresh
<1>5. ASSUME NEW r \in Runs, Lock(r) PROVE Fresh'
  BY <1>0, <1>5 DEF Lock, Goto, Fresh
<1>6. ASSUME NEW r \in Runs, Search(r) PROVE Fresh'
  BY <1>0, <1>6 DEF Search, Goto, Fresh
<1>7. ASSUME NEW r \in Runs, SearchFails(r) PROVE Fresh'
  BY <1>0, <1>7 DEF SearchFails, Throw, Leave, LetGo, Goto, Fresh
<1>8. ASSUME NEW r \in Runs, Quote(r) PROVE Fresh'
  BY <1>0, <1>8 DEF Quote, Fresh
<1>9. ASSUME NEW r \in Runs, QuotedAll(r) PROVE Fresh'
  BY <1>0, <1>9 DEF QuotedAll, Goto, Fresh
<1>10. ASSUME NEW r \in Runs, Ask(r) PROVE Fresh'
  BY <1>0, <1>10 DEF Ask, Leave, LetGo, Goto, Fresh
<1>11. ASSUME NEW r \in Runs, AskFails(r) PROVE Fresh'
  BY <1>0, <1>11 DEF AskFails, Throw, Leave, LetGo, Goto, Fresh
<1>12. ASSUME NEW r \in Runs, Forget(r) PROVE Fresh'
  BY <1>0, <1>12 DEF Forget, Abandon, LetGo, Goto, Fresh
<1>13. ASSUME NEW r \in Runs, Say(r) PROVE Fresh'
  BY <1>0, <1>13 DEF Say, Goto, Fresh
<1>14. ASSUME NEW r \in Runs, Summarize(r) PROVE Fresh'
  <2>1. /\ UNCHANGED <<gone, holds, current>>
        /\ pc' = [pc EXCEPT ![r] = "remember"]
        /\ store' = [store EXCEPT ![holds[r]][idIdx[holds[r]] + 1] = Clock + 1]
    BY <1>0, <1>14 DEF Summarize, Goto
  <2>2. \A s \in Stores, i \in Ids : store'[s][i] \in {store[s][i], Clock + 1}
    BY <1>0, <2>1
  <2>3. \A q \in Runs : Clock + 1 \notin gone[q]
    BY <1>0, <1>0
  <2>4. ASSUME NEW q \in Runs, NEW i \in Ids, pc'[q] = "resolve" PROVE store'[current'][i] \notin gone'[q]
    BY <1>0, <2>1, <2>2, <2>3, <2>4 DEF Fresh
  <2>5. ASSUME NEW q \in Runs, NEW i \in Ids, pc'[q] \in {"lock", "search", "quote"}
        PROVE  store'[holds'[q]][i] \notin gone'[q]
    <3>1. pc[q] \in {"lock", "search", "quote"}
      BY <1>0, <2>1, <2>5
    <3>2. holds[q] \in Stores
      BY <3>1, HeldStore, TypeParts DEF ControlInv
    <3> QED BY <2>1, <2>2, <2>3, <3>1, <3>2 DEF Fresh
  <2> QED BY <2>4, <2>5 DEF Fresh
<1>15. ASSUME NEW r \in Runs, SummarizeFails(r) \/ SummarizeThrows(r) PROVE Fresh'
  BY <1>0, <1>15 DEF SummarizeFails, SummarizeThrows, Abandon, Throw, Leave, LetGo, Goto, Fresh
<1>16. ASSUME NEW r \in Runs, Remember(r) PROVE Fresh'
  BY <1>0, <1>16 DEF Remember, Goto, Fresh
<1>17. ASSUME NEW r \in Runs, Replicate(r) PROVE Fresh'
  BY <1>0, <1>17 DEF Replicate, Leave, LetGo, Goto, Fresh
<1>18. ASSUME NEW r \in Runs, Unblock(r) PROVE Fresh'
  BY <1>0, <1>18 DEF Unblock, Goto, Fresh
<1>19. ASSUME NEW i \in ClientIds, Put(i) PROVE Fresh'
  <2>1. /\ UNCHANGED <<gone, holds, current, pc>>
        /\ store' = [store EXCEPT ![current][i] = Clock + 1]
    BY <1>0, <1>19 DEF Put, Change
  <2>2. \A s \in Stores, j \in Ids : store'[s][j] \in {store[s][j], Clock + 1}
    BY <1>0, <2>1
  <2>3. \A q \in Runs : Clock + 1 \notin gone[q]
    BY <1>0, <1>0
  <2>4. ASSUME NEW q \in Runs, NEW j \in Ids, pc'[q] = "resolve" PROVE store'[current'][j] \notin gone'[q]
    BY <1>0, <2>1, <2>2, <2>3, <2>4 DEF Fresh
  <2>5. ASSUME NEW q \in Runs, NEW j \in Ids, pc'[q] \in {"lock", "search", "quote"}
        PROVE  store'[holds'[q]][j] \notin gone'[q]
    <3>1. holds[q] \in Stores
      BY <2>1, <2>5, HeldStore, TypeParts DEF ControlInv
    <3> QED BY <2>1, <2>2, <2>3, <2>5, <3>1 DEF Fresh
  <2> QED BY <2>4, <2>5 DEF Fresh
<1>20. ASSUME NEW i \in Ids, Rem(i) PROVE Fresh'
  <2>1. /\ UNCHANGED <<gone, holds, current, pc>>
        /\ store' = [store EXCEPT ![current][i] = 0]
    BY <1>0, <1>20 DEF Rem, Change
  <2>2. \A s \in Stores, j \in Ids : store'[s][j] \in {store[s][j], 0}
    BY <1>0, <2>1
  <2>3. \A q \in Runs : 0 \notin gone[q]
    BY <1>0, <1>0
  <2>4. ASSUME NEW q \in Runs, NEW j \in Ids, pc'[q] = "resolve" PROVE store'[current'][j] \notin gone'[q]
    BY <1>0, <2>1, <2>2, <2>3, <2>4 DEF Fresh
  <2>5. ASSUME NEW q \in Runs, NEW j \in Ids, pc'[q] \in {"lock", "search", "quote"}
        PROVE  store'[holds'[q]][j] \notin gone'[q]
    <3>1. holds[q] \in Stores
      BY <2>1, <2>5, HeldStore, TypeParts DEF ControlInv
    <3> QED BY <2>1, <2>2, <2>3, <2>5, <3>1 DEF Fresh
  <2> QED BY <2>4, <2>5 DEF Fresh
<1>21. CASE Replace
  <2>1. /\ UNCHANGED <<gone, holds, pc, store>>
        /\ current' = current + 1 /\ current < MaxStores
    BY <1>0, <1>21 DEF Replace, Change
  <2>2. current' \in Stores /\ store[current'] = NoItems
    BY <1>0, <2>1, CountsAssumption DEF ControlInv, Beyond, Stores
  <2> QED BY <1>0, <2>1, <2>2 DEF Fresh, NoItems
<1>22. CASE Takeover
  <2>1. gone' = [r \in Runs |-> {}]
    BY <1>0, <1>22 DEF Takeover
  <2> QED BY <2>1 DEF Fresh
<1>23. CASE UNCHANGED vars
  BY <1>0, <1>23 DEF Fresh
<1>24. ASSUME NEW r \in Runs, TakeGil(r) PROVE Fresh'
  BY <1>0, <1>24 DEF TakeGil, Fresh
<1> QED BY <1>1, <1>2, <1>3, <1>4, <1>5, <1>6, <1>7, <1>8, <1>9, <1>10, <1>11,
  <1>12, <1>13, <1>14, <1>15, <1>16, <1>17, <1>18, <1>19, <1>20, <1>21, <1>22, <1>23, <1>24
  DEF Next, Run, Done, Failover, SummarizeBreaks

LEMMA QuotedLateStep ==
  ASSUME ControlInv, QuotedLate, [Next]_vars
  PROVE  QuotedLate'
<1> USE DEF vars, confVars, historyVars, storeVars, readVars, boundVars
<1>0. /\ Clock \in Nat /\ gone \in [Runs -> SUBSET (1 .. Clock)]
      /\ quoted \in [Runs -> SUBSET (1 .. Clock)]
      /\ pc \in [Runs -> Steps] /\ holds \in [Runs -> {0} \union Stores]
      /\ current \in Stores /\ store \in [Stores -> [Ids -> 0 .. Clock]]
  BY DEF ControlInv, TypeOK, Clock
<1>1. ASSUME NEW r \in Runs, Start(r) PROVE QuotedLate'
  BY <1>0, <1>1 DEF Start, Goto, QuotedLate
<1>2. ASSUME NEW r \in Runs, Refuse(r) PROVE QuotedLate'
  BY <1>0, <1>2 DEF Refuse, Goto, QuotedLate
<1>3. ASSUME NEW r \in Runs, Resolve(r) PROVE QuotedLate'
  BY <1>0, <1>3 DEF Resolve, Goto, QuotedLate
<1>4. ASSUME NEW r \in Runs, ResolveFails(r) PROVE QuotedLate'
  BY <1>0, <1>4 DEF ResolveFails, Throw, Leave, LetGo, Goto, QuotedLate
<1>5. ASSUME NEW r \in Runs, Lock(r) PROVE QuotedLate'
  BY <1>0, <1>5 DEF Lock, Goto, QuotedLate
<1>6. ASSUME NEW r \in Runs, Search(r) PROVE QuotedLate'
  BY <1>0, <1>6 DEF Search, Goto, QuotedLate
<1>7. ASSUME NEW r \in Runs, SearchFails(r) PROVE QuotedLate'
  BY <1>0, <1>7 DEF SearchFails, Throw, Leave, LetGo, Goto, QuotedLate
<1>8. ASSUME NEW r \in Runs, Quote(r) PROVE QuotedLate'
  BY <1>0, <1>8 DEF Quote, QuotedLate
<1>9. ASSUME NEW r \in Runs, QuotedAll(r) PROVE QuotedLate'
  BY <1>0, <1>9 DEF QuotedAll, Goto, QuotedLate
<1>10. ASSUME NEW r \in Runs, Ask(r) PROVE QuotedLate'
  BY <1>0, <1>10 DEF Ask, Leave, LetGo, Goto, QuotedLate
<1>11. ASSUME NEW r \in Runs, AskFails(r) PROVE QuotedLate'
  BY <1>0, <1>11 DEF AskFails, Throw, Leave, LetGo, Goto, QuotedLate
<1>12. ASSUME NEW r \in Runs, Forget(r) PROVE QuotedLate'
  BY <1>0, <1>12 DEF Forget, Abandon, LetGo, Goto, QuotedLate
<1>13. ASSUME NEW r \in Runs, Say(r) PROVE QuotedLate'
  BY <1>0, <1>13 DEF Say, Goto, QuotedLate
<1>14. ASSUME NEW r \in Runs, Summarize(r) PROVE QuotedLate'
  BY <1>0, <1>14 DEF Summarize, Goto, QuotedLate
<1>15. ASSUME NEW r \in Runs, SummarizeFails(r) \/ SummarizeThrows(r) PROVE QuotedLate'
  BY <1>0, <1>15 DEF SummarizeFails, SummarizeThrows, Abandon, Throw, Leave, LetGo, Goto, QuotedLate
<1>16. ASSUME NEW r \in Runs, Remember(r) PROVE QuotedLate'
  BY <1>0, <1>16 DEF Remember, Goto, QuotedLate
<1>17. ASSUME NEW r \in Runs, Replicate(r) PROVE QuotedLate'
  BY <1>0, <1>17 DEF Replicate, Leave, LetGo, Goto, QuotedLate
<1>18. ASSUME NEW r \in Runs, Unblock(r) PROVE QuotedLate'
  BY <1>0, <1>18 DEF Unblock, Goto, QuotedLate
<1>19. ASSUME NEW i \in ClientIds, Put(i) PROVE QuotedLate'
  BY <1>0, <1>19 DEF Put, Change, QuotedLate
<1>20. ASSUME NEW i \in Ids, Rem(i) PROVE QuotedLate'
  BY <1>0, <1>20 DEF Rem, Change, QuotedLate
<1>21. CASE Replace
  BY <1>0, <1>21 DEF Replace, Change, QuotedLate
<1>22. CASE Takeover
  BY <1>0, <1>22 DEF Takeover, Under, QuotedLate
<1>23. CASE UNCHANGED vars
  BY <1>0, <1>23 DEF QuotedLate
<1>24. ASSUME NEW r \in Runs, TakeGil(r) PROVE QuotedLate'
  BY <1>0, <1>24 DEF TakeGil, QuotedLate
<1> QED BY <1>1, <1>2, <1>3, <1>4, <1>5, <1>6, <1>7, <1>8, <1>9, <1>10, <1>11,
  <1>12, <1>13, <1>14, <1>15, <1>16, <1>17, <1>18, <1>19, <1>20, <1>21, <1>22, <1>23, <1>24
  DEF Next, Run, Done, Failover, SummarizeBreaks

LEMMA QuotedStep ==
  ASSUME ControlInv, Fresh, QuotedLate, QuotedNotGone, [Next]_vars
  PROVE  QuotedNotGone'
<1> USE DEF vars, confVars, historyVars, storeVars, readVars, boundVars
<1>0. /\ Clock \in Nat /\ gone \in [Runs -> SUBSET (1 .. Clock)]
      /\ quoted \in [Runs -> SUBSET (1 .. Clock)]
      /\ pc \in [Runs -> Steps] /\ holds \in [Runs -> {0} \union Stores]
      /\ current \in Stores /\ store \in [Stores -> [Ids -> 0 .. Clock]]
  BY DEF ControlInv, TypeOK, Clock
<1>1. ASSUME NEW r \in Runs, Start(r) PROVE QuotedNotGone'
  <2>1. /\ gone' = [gone EXCEPT ![r] = (1 .. Clock) \ AtKey] /\ quoted' = quoted
    BY <1>0, <1>1 DEF Start
  <2>2. pc[r] = "out" /\ quoted[r] = {}
    BY <1>0, <1>1 DEF Start, QuotedLate
  <2> QED BY <1>0, <2>1, <2>2 DEF QuotedNotGone
<1>2. ASSUME NEW r \in Runs, Refuse(r) PROVE QuotedNotGone'
  BY <1>0, <1>2 DEF Refuse, Goto, QuotedNotGone
<1>3. ASSUME NEW r \in Runs, Resolve(r) PROVE QuotedNotGone'
  BY <1>0, <1>3 DEF Resolve, Goto, QuotedNotGone
<1>4. ASSUME NEW r \in Runs, ResolveFails(r) PROVE QuotedNotGone'
  BY <1>0, <1>4 DEF ResolveFails, Throw, Leave, LetGo, Goto, QuotedNotGone
<1>5. ASSUME NEW r \in Runs, Lock(r) PROVE QuotedNotGone'
  BY <1>0, <1>5 DEF Lock, Goto, QuotedNotGone
<1>6. ASSUME NEW r \in Runs, Search(r) PROVE QuotedNotGone'
  BY <1>0, <1>6 DEF Search, Goto, QuotedNotGone
<1>7. ASSUME NEW r \in Runs, SearchFails(r) PROVE QuotedNotGone'
  BY <1>0, <1>7 DEF SearchFails, Throw, Leave, LetGo, Goto, QuotedNotGone
<1>8. ASSUME NEW r \in Runs, Quote(r) PROVE QuotedNotGone'
  <2>1. PICK i \in found[r] :
          quoted' = [quoted EXCEPT ![r] = quoted[r] \union ({store[holds[r]][i]} \ {0})]
    BY <1>0, <1>8 DEF Quote
  <2>2. pc[r] = "quote" /\ gone' = gone
    BY <1>0, <1>8 DEF Quote
  <2>3. i \in Ids
    BY <2>1 DEF ControlInv, TypeOK
  <2>4. store[holds[r]][i] \notin gone[r]
    BY <2>2, <2>3 DEF Fresh
  <2> QED BY <1>0, <2>1, <2>2, <2>4 DEF QuotedNotGone
<1>9. ASSUME NEW r \in Runs, QuotedAll(r) PROVE QuotedNotGone'
  BY <1>0, <1>9 DEF QuotedAll, Goto, QuotedNotGone
<1>10. ASSUME NEW r \in Runs, Ask(r) PROVE QuotedNotGone'
  BY <1>0, <1>10 DEF Ask, Leave, LetGo, Goto, QuotedNotGone
<1>11. ASSUME NEW r \in Runs, AskFails(r) PROVE QuotedNotGone'
  BY <1>0, <1>11 DEF AskFails, Throw, Leave, LetGo, Goto, QuotedNotGone
<1>12. ASSUME NEW r \in Runs, Forget(r) PROVE QuotedNotGone'
  BY <1>0, <1>12 DEF Forget, Abandon, LetGo, Goto, QuotedNotGone
<1>13. ASSUME NEW r \in Runs, Say(r) PROVE QuotedNotGone'
  BY <1>0, <1>13 DEF Say, Goto, QuotedNotGone
<1>14. ASSUME NEW r \in Runs, Summarize(r) PROVE QuotedNotGone'
  BY <1>0, <1>14 DEF Summarize, Goto, QuotedNotGone
<1>15. ASSUME NEW r \in Runs, SummarizeFails(r) \/ SummarizeThrows(r) PROVE QuotedNotGone'
  BY <1>0, <1>15 DEF SummarizeFails, SummarizeThrows, Abandon, Throw, Leave, LetGo, Goto, QuotedNotGone
<1>16. ASSUME NEW r \in Runs, Remember(r) PROVE QuotedNotGone'
  BY <1>0, <1>16 DEF Remember, Goto, QuotedNotGone
<1>17. ASSUME NEW r \in Runs, Replicate(r) PROVE QuotedNotGone'
  BY <1>0, <1>17 DEF Replicate, Leave, LetGo, Goto, QuotedNotGone
<1>18. ASSUME NEW r \in Runs, Unblock(r) PROVE QuotedNotGone'
  BY <1>0, <1>18 DEF Unblock, Goto, QuotedNotGone
<1>19. ASSUME NEW i \in ClientIds, Put(i) PROVE QuotedNotGone'
  BY <1>0, <1>19 DEF Put, Change, QuotedNotGone
<1>20. ASSUME NEW i \in Ids, Rem(i) PROVE QuotedNotGone'
  BY <1>0, <1>20 DEF Rem, Change, QuotedNotGone
<1>21. CASE Replace
  BY <1>0, <1>21 DEF Replace, Change, QuotedNotGone
<1>22. CASE Takeover
  <2>1. gone' = [r \in Runs |-> {}]
    BY <1>0, <1>22 DEF Takeover
  <2> QED BY <2>1 DEF QuotedNotGone
<1>23. CASE UNCHANGED vars
  BY <1>0, <1>23 DEF QuotedNotGone
<1>24. ASSUME NEW r \in Runs, TakeGil(r) PROVE QuotedNotGone'
  BY <1>0, <1>24 DEF TakeGil, QuotedNotGone
<1> QED BY <1>1, <1>2, <1>3, <1>4, <1>5, <1>6, <1>7, <1>8, <1>9, <1>10, <1>11,
  <1>12, <1>13, <1>14, <1>15, <1>16, <1>17, <1>18, <1>19, <1>20, <1>21, <1>22, <1>23, <1>24
  DEF Next, Run, Done, Failover, SummarizeBreaks

LEMMA ReadInit == Init => ReadInv
BY DEF Init, ReadInv, Fresh, QuotedLate, QuotedNotGone

LEMMA ReadStep == ASSUME ControlInv, ReadInv, [Next]_vars PROVE ReadInv'
BY FreshStep, QuotedLateStep, QuotedStep DEF ReadInv

(* What was not at the key any more when a run began is not in its prompt. *)
THEOREM NothingGoneQuoted == Spec => []QuotedNotGone
<1>1. Init => ControlInv /\ ReadInv
  BY InitControl, ReadInit
<1>2. ControlInv /\ ReadInv /\ [Next]_vars => ControlInv' /\ ReadInv'
  BY ControlStep, ReadStep
<1>3. ReadInv => QuotedNotGone
  BY DEF ReadInv
<1> QED BY <1>1, <1>2, <1>3, PTL DEF Spec

-----------------------------------------------------------------------------
(* Summaries                                                               *)

LEMMA NumbersInNat == Ids \subseteq Nat /\ 0 \notin Runs
<1>1. ClientIds \subseteq Nat
  BY SetsAssumption
<1>2. 2 * MaxRuns \in Int
  BY CountsAssumption
<1> QED BY <1>1, <1>2, CountsAssumption DEF Ids, Runs

LEMMA SomeTypes ==
  ASSUME TypeOK
  PROVE  /\ Clock \in Nat /\ Clock = Len(source) /\ source \in Seq(Stores)
         /\ pc \in [Runs -> Steps] /\ holds \in [Runs -> {0} \union Stores]
         /\ current \in Stores /\ store \in [Stores -> [Ids -> 0 .. Clock]]
         /\ rStore \in [Ids -> 0 .. Clock] /\ idIdx \in [Stores -> Nat]
         /\ made \in [Runs -> SUBSET (Ids \X (1 .. Clock))]
         /\ mtx \in {0} \union Runs /\ 0 \notin Runs /\ Ids \subseteq Nat
<1>1. source \in Seq(Stores) /\ Len(source) \in Nat
  BY DEF TypeOK
<1> QED BY <1>1, NumbersInNat DEF TypeOK, Clock

(* Whoever makes a summary holds _mtx, has a store, and gets an id.        *)
LEMMA Summarizing ==
  ASSUME ControlInv, NEW r \in Runs, Summarize(r)
  PROVE  /\ mtx = r /\ holds[r] \in Stores /\ idIdx[holds[r]] + 1 \in Ids
         /\ Clock \in Nat /\ Clock' = Clock + 1 /\ source' = Append(source, holds[r])
         /\ made' = [made EXCEPT ![r] = made[r] \union {<<idIdx[holds[r]] + 1, Clock + 1>>}]
         /\ store' = [store EXCEPT ![holds[r]][idIdx[holds[r]] + 1] = Clock + 1]
         /\ idIdx' = [idIdx EXCEPT ![holds[r]] = idIdx[holds[r]] + 1]
<1>1. pc[r] = "summarize"
  BY DEF Summarize
<1>2. holds[r] \in Stores /\ mtx = r
  BY <1>1, HeldStore, TypeParts DEF ControlInv, Locking, Chatting, Critical
<1>3. idIdx[holds[r]] + 1 \in Ids
  BY <1>1, <1>2, RoomForId DEF ControlInv
<1>4. source' = Append(source, holds[r])
  BY DEF Summarize
<1>5. Clock \in Nat /\ Clock' = Clock + 1
  BY <1>2, <1>4, ClockGrows, TypeParts DEF ControlInv
<1> QED BY <1>2, <1>3, <1>4, <1>5 DEF Summarize

(* Two runs are not in a chat at the same time.                            *)
LEMMA OneChats ==
  ASSUME ControlInv, NEW r \in Runs, NEW q \in Runs, pc[r] \in Chatting, pc[q] \in Chatting
  PROVE  r = q /\ mtx = r
BY DEF ControlInv, Locking, Chatting, Critical

LEMMA MadeLateStep ==
  ASSUME ControlInv, MadeLate, [Next]_vars
  PROVE  MadeLate'
<1> USE DEF vars, confVars, historyVars, storeVars, readVars, boundVars
<1>0. /\ Clock \in Nat /\ Clock = Len(source) /\ source \in Seq(Stores)
      /\ pc \in [Runs -> Steps] /\ holds \in [Runs -> {0} \union Stores]
      /\ current \in Stores /\ store \in [Stores -> [Ids -> 0 .. Clock]]
      /\ rStore \in [Ids -> 0 .. Clock] /\ idIdx \in [Stores -> Nat]
      /\ made \in [Runs -> SUBSET (Ids \X (1 .. Clock))]
      /\ mtx \in {0} \union Runs /\ 0 \notin Runs /\ Ids \subseteq Nat
  BY SomeTypes DEF ControlInv
<1>1. ASSUME NEW r \in Runs, Start(r) PROVE MadeLate'
  BY <1>0, <1>1 DEF Start, Goto, MadeLate, Chatting, Over, Under
<1>2. ASSUME NEW r \in Runs, Refuse(r) PROVE MadeLate'
  BY <1>0, <1>2 DEF Refuse, Goto, MadeLate, Chatting, Over, Under
<1>3. ASSUME NEW r \in Runs, Resolve(r) PROVE MadeLate'
  BY <1>0, <1>3 DEF Resolve, Goto, MadeLate, Chatting, Over, Under
<1>4. ASSUME NEW r \in Runs, ResolveFails(r) PROVE MadeLate'
  BY <1>0, <1>4 DEF ResolveFails, Throw, Leave, LetGo, Goto, MadeLate, Chatting, Over,
      Under
<1>5. ASSUME NEW r \in Runs, Lock(r) PROVE MadeLate'
  BY <1>0, <1>5 DEF Lock, Goto, MadeLate, Chatting, Over, Under
<1>6. ASSUME NEW r \in Runs, Search(r) PROVE MadeLate'
  BY <1>0, <1>6 DEF Search, Goto, MadeLate, Chatting, Over, Under
<1>7. ASSUME NEW r \in Runs, SearchFails(r) PROVE MadeLate'
  BY <1>0, <1>7 DEF SearchFails, Throw, Leave, LetGo, Goto, MadeLate, Chatting, Over,
      Under
<1>8. ASSUME NEW r \in Runs, Quote(r) PROVE MadeLate'
  BY <1>0, <1>8 DEF Quote, MadeLate, Chatting, Over, Under
<1>9. ASSUME NEW r \in Runs, QuotedAll(r) PROVE MadeLate'
  BY <1>0, <1>9 DEF QuotedAll, Goto, MadeLate, Chatting, Over, Under
<1>10. ASSUME NEW r \in Runs, Ask(r) PROVE MadeLate'
  BY <1>0, <1>10 DEF Ask, Leave, LetGo, Goto, MadeLate, Chatting, Over, Under
<1>11. ASSUME NEW r \in Runs, AskFails(r) PROVE MadeLate'
  BY <1>0, <1>11 DEF AskFails, Throw, Leave, LetGo, Goto, MadeLate, Chatting, Over, Under
<1>12. ASSUME NEW r \in Runs, Forget(r) PROVE MadeLate'
  BY <1>0, <1>12 DEF Forget, Abandon, LetGo, Goto, MadeLate, Chatting, Over, Under
<1>13. ASSUME NEW r \in Runs, Say(r) PROVE MadeLate'
  BY <1>0, <1>13 DEF Say, Goto, MadeLate, Chatting, Over, Under
<1>14. ASSUME NEW r \in Runs, Summarize(r) PROVE MadeLate'
  BY <1>0, <1>14 DEF Summarize, Goto, MadeLate, Chatting, Over, Under
<1>15. ASSUME NEW r \in Runs, SummarizeFails(r) \/ SummarizeThrows(r) PROVE MadeLate'
  BY <1>0, <1>15 DEF SummarizeFails, SummarizeThrows, Abandon, Throw, Leave, LetGo, Goto, MadeLate, Chatting, Over,
      Under
<1>16. ASSUME NEW r \in Runs, Remember(r) PROVE MadeLate'
  BY <1>0, <1>16 DEF Remember, Goto, MadeLate, Chatting, Over, Under
<1>17. ASSUME NEW r \in Runs, Replicate(r) PROVE MadeLate'
  BY <1>0, <1>17 DEF Replicate, Leave, LetGo, Goto, MadeLate, Chatting, Over, Under
<1>18. ASSUME NEW r \in Runs, Unblock(r) PROVE MadeLate'
  BY <1>0, <1>18 DEF Unblock, Goto, MadeLate, Chatting, Over, Under
<1>19. ASSUME NEW i \in ClientIds, Put(i) PROVE MadeLate'
  BY <1>0, <1>19 DEF Put, Change, MadeLate, Chatting, Over, Under
<1>20. ASSUME NEW i \in Ids, Rem(i) PROVE MadeLate'
  BY <1>0, <1>20 DEF Rem, Change, MadeLate, Chatting, Over, Under
<1>21. CASE Replace
  BY <1>0, <1>21 DEF Replace, Change, MadeLate, Chatting, Over, Under
<1>22. CASE Takeover
  BY <1>0, <1>22 DEF Takeover, Under, MadeLate, Chatting, Over, Under
<1>23. CASE UNCHANGED vars
  BY <1>0, <1>23 DEF MadeLate, Chatting, Over, Under
<1>24. ASSUME NEW r \in Runs, TakeGil(r) PROVE MadeLate'
  BY <1>0, <1>24 DEF TakeGil, MadeLate, Chatting, Over, Under
<1> QED BY <1>1, <1>2, <1>3, <1>4, <1>5, <1>6, <1>7, <1>8, <1>9, <1>10, <1>11,
  <1>12, <1>13, <1>14, <1>15, <1>16, <1>17, <1>18, <1>19, <1>20, <1>21, <1>22, <1>23, <1>24
  DEF Next, Run, Done, Failover, SummarizeBreaks

LEMMA MadeFewStep ==
  ASSUME ControlInv, MadeLate, MadeFew, [Next]_vars
  PROVE  MadeFew'
<1> USE DEF vars, confVars, historyVars, storeVars, readVars, boundVars
<1>0. /\ Clock \in Nat /\ Clock = Len(source) /\ source \in Seq(Stores)
      /\ pc \in [Runs -> Steps] /\ holds \in [Runs -> {0} \union Stores]
      /\ current \in Stores /\ store \in [Stores -> [Ids -> 0 .. Clock]]
      /\ rStore \in [Ids -> 0 .. Clock] /\ idIdx \in [Stores -> Nat]
      /\ made \in [Runs -> SUBSET (Ids \X (1 .. Clock))]
      /\ mtx \in {0} \union Runs /\ 0 \notin Runs /\ Ids \subseteq Nat
      /\ role \in [Runs -> {"user", "assistant"}]
  BY SomeTypes DEF ControlInv, TypeOK
<1>1. ASSUME NEW r \in Runs, Start(r) PROVE MadeFew'
  BY <1>0, <1>1 DEF Start, Goto, MadeFew
<1>2. ASSUME NEW r \in Runs, Refuse(r) PROVE MadeFew'
  BY <1>0, <1>2 DEF Refuse, Goto, MadeFew
<1>3. ASSUME NEW r \in Runs, Resolve(r) PROVE MadeFew'
  BY <1>0, <1>3 DEF Resolve, Goto, MadeFew
<1>4. ASSUME NEW r \in Runs, ResolveFails(r) PROVE MadeFew'
  BY <1>0, <1>4 DEF ResolveFails, Throw, Leave, LetGo, Goto, MadeFew
<1>5. ASSUME NEW r \in Runs, Lock(r) PROVE MadeFew'
  BY <1>0, <1>5 DEF Lock, Goto, MadeFew
<1>6. ASSUME NEW r \in Runs, Search(r) PROVE MadeFew'
  BY <1>0, <1>6 DEF Search, Goto, MadeFew
<1>7. ASSUME NEW r \in Runs, SearchFails(r) PROVE MadeFew'
  BY <1>0, <1>7 DEF SearchFails, Throw, Leave, LetGo, Goto, MadeFew
<1>8. ASSUME NEW r \in Runs, Quote(r) PROVE MadeFew'
  BY <1>0, <1>8 DEF Quote, MadeFew
<1>9. ASSUME NEW r \in Runs, QuotedAll(r) PROVE MadeFew'
  BY <1>0, <1>9 DEF QuotedAll, Goto, MadeFew
<1>10. ASSUME NEW r \in Runs, Ask(r) PROVE MadeFew'
  BY <1>0, <1>10 DEF Ask, Leave, LetGo, Goto, MadeFew, MadeLate, Chatting, Over
<1>11. ASSUME NEW r \in Runs, AskFails(r) PROVE MadeFew'
  BY <1>0, <1>11 DEF AskFails, Throw, Leave, LetGo, Goto, MadeFew
<1>12. ASSUME NEW r \in Runs, Forget(r) PROVE MadeFew'
  BY <1>0, <1>12 DEF Forget, Abandon, LetGo, Goto, MadeFew
<1>13. ASSUME NEW r \in Runs, Say(r) PROVE MadeFew'
  BY <1>0, <1>13 DEF Say, Goto, MadeFew
<1>14. ASSUME NEW r \in Runs, Summarize(r) PROVE MadeFew'
  BY <1>0, <1>14 DEF Summarize, Goto, MadeFew
<1>15. ASSUME NEW r \in Runs, SummarizeFails(r) \/ SummarizeThrows(r) PROVE MadeFew'
  BY <1>0, <1>15 DEF SummarizeFails, SummarizeThrows, Abandon, Throw, Leave, LetGo, Goto, MadeFew
<1>16. ASSUME NEW r \in Runs, Remember(r) PROVE MadeFew'
  BY <1>0, <1>16 DEF Remember, Goto, MadeFew
<1>17. ASSUME NEW r \in Runs, Replicate(r) PROVE MadeFew'
  BY <1>0, <1>17 DEF Replicate, Leave, LetGo, Goto, MadeFew
<1>18. ASSUME NEW r \in Runs, Unblock(r) PROVE MadeFew'
  BY <1>0, <1>18 DEF Unblock, Goto, MadeFew
<1>19. ASSUME NEW i \in ClientIds, Put(i) PROVE MadeFew'
  BY <1>0, <1>19 DEF Put, Change, MadeFew
<1>20. ASSUME NEW i \in Ids, Rem(i) PROVE MadeFew'
  BY <1>0, <1>20 DEF Rem, Change, MadeFew
<1>21. CASE Replace
  BY <1>0, <1>21 DEF Replace, Change, MadeFew
<1>22. CASE Takeover
  BY <1>0, <1>22 DEF Takeover, MadeFew, Under
<1>23. CASE UNCHANGED vars
  BY <1>0, <1>23 DEF MadeFew
<1>24. ASSUME NEW r \in Runs, TakeGil(r) PROVE MadeFew'
  BY <1>0, <1>24 DEF TakeGil, MadeFew
<1> QED BY <1>1, <1>2, <1>3, <1>4, <1>5, <1>6, <1>7, <1>8, <1>9, <1>10, <1>11,
  <1>12, <1>13, <1>14, <1>15, <1>16, <1>17, <1>18, <1>19, <1>20, <1>21, <1>22, <1>23, <1>24
  DEF Next, Run, Done, Failover, SummarizeBreaks

LEMMA MadeHereStep ==
  ASSUME ControlInv, MadeLate, MadeHere, [Next]_vars
  PROVE  MadeHere'
<1> USE DEF vars, confVars, historyVars, storeVars, readVars, boundVars
<1>0. /\ Clock \in Nat /\ Clock = Len(source) /\ source \in Seq(Stores)
      /\ pc \in [Runs -> Steps] /\ holds \in [Runs -> {0} \union Stores]
      /\ current \in Stores /\ store \in [Stores -> [Ids -> 0 .. Clock]]
      /\ rStore \in [Ids -> 0 .. Clock] /\ idIdx \in [Stores -> Nat]
      /\ made \in [Runs -> SUBSET (Ids \X (1 .. Clock))]
      /\ mtx \in {0} \union Runs /\ 0 \notin Runs /\ Ids \subseteq Nat
  BY SomeTypes DEF ControlInv
<1>1. ASSUME NEW r \in Runs, Start(r) PROVE MadeHere'
  BY <1>0, <1>1 DEF Start, Goto, MadeHere, MadeLate, Chatting, Over
<1>2. ASSUME NEW r \in Runs, Refuse(r) PROVE MadeHere'
  BY <1>0, <1>2 DEF Refuse, Goto, MadeHere, MadeLate, Chatting, Over
<1>3. ASSUME NEW r \in Runs, Resolve(r) PROVE MadeHere'
  BY <1>0, <1>3 DEF Resolve, Goto, MadeHere, MadeLate, Chatting, Over
<1>4. ASSUME NEW r \in Runs, ResolveFails(r) PROVE MadeHere'
  <2>1. UNCHANGED <<made, idIdx, store, source>>
    BY <1>0, <1>4 DEF ResolveFails
  <2>2. \A q \in Runs : pc'[q] \in Chatting => pc[q] \in Chatting /\ holds'[q] = holds[q]
    BY <1>0, <1>4 DEF ResolveFails, Throw, Leave, LetGo, Goto, Chatting
  <2> QED BY <2>1, <2>2 DEF MadeHere
<1>5. ASSUME NEW r \in Runs, Lock(r) PROVE MadeHere'
  BY <1>0, <1>5 DEF Lock, Goto, MadeHere, MadeLate, Chatting, Over
<1>6. ASSUME NEW r \in Runs, Search(r) PROVE MadeHere'
  BY <1>0, <1>6 DEF Search, Goto, MadeHere, MadeLate, Chatting, Over
<1>7. ASSUME NEW r \in Runs, SearchFails(r) PROVE MadeHere'
  <2>1. UNCHANGED <<made, idIdx, store, source>>
    BY <1>0, <1>7 DEF SearchFails
  <2>2. \A q \in Runs : pc'[q] \in Chatting => pc[q] \in Chatting /\ holds'[q] = holds[q]
    BY <1>0, <1>7 DEF SearchFails, Throw, Leave, LetGo, Goto, Chatting
  <2> QED BY <2>1, <2>2 DEF MadeHere
<1>8. ASSUME NEW r \in Runs, Quote(r) PROVE MadeHere'
  BY <1>0, <1>8 DEF Quote, MadeHere, MadeLate, Chatting, Over
<1>9. ASSUME NEW r \in Runs, QuotedAll(r) PROVE MadeHere'
  BY <1>0, <1>9 DEF QuotedAll, Goto, MadeHere, MadeLate, Chatting, Over
<1>10. ASSUME NEW r \in Runs, Ask(r) PROVE MadeHere'
  <2>1. UNCHANGED <<made, idIdx, store, source>>
    BY <1>0, <1>10 DEF Ask
  <2>2. \A q \in Runs : pc'[q] \in Chatting =>
          \/ made[q] = {}
          \/ pc[q] \in Chatting /\ holds'[q] = holds[q]
    BY <1>0, <1>10 DEF Ask, Leave, LetGo, Goto, Chatting, MadeLate, Over
  <2> QED BY <2>1, <2>2 DEF MadeHere
<1>11. ASSUME NEW r \in Runs, AskFails(r) PROVE MadeHere'
  <2>1. UNCHANGED <<made, idIdx, store, source>>
    BY <1>0, <1>11 DEF AskFails
  <2>2. \A q \in Runs : pc'[q] \in Chatting => pc[q] \in Chatting /\ holds'[q] = holds[q]
    BY <1>0, <1>11 DEF AskFails, Throw, Leave, LetGo, Goto, Chatting
  <2> QED BY <2>1, <2>2 DEF MadeHere
<1>12. ASSUME NEW r \in Runs, Forget(r) PROVE MadeHere'
  <2>1. UNCHANGED <<made, idIdx, store, source>>
    BY <1>0, <1>12 DEF Forget
  <2>2. \A q \in Runs : pc'[q] \in Chatting => pc[q] \in Chatting /\ holds'[q] = holds[q]
    BY <1>0, <1>12 DEF Forget, Abandon, LetGo, Goto, Chatting
  <2> QED BY <2>1, <2>2 DEF MadeHere
<1>13. ASSUME NEW r \in Runs, Say(r) PROVE MadeHere'
  BY <1>0, <1>13 DEF Say, Goto, MadeHere, MadeLate, Chatting, Over
<1>14. ASSUME NEW r \in Runs, Summarize(r) PROVE MadeHere'
  <2> DEFINE n == idIdx[holds[r]] + 1
  <2>1. /\ mtx = r /\ holds[r] \in Stores /\ n \in Ids
        /\ source' = Append(source, holds[r])
        /\ made' = [made EXCEPT ![r] = made[r] \union {<<n, Clock + 1>>}]
        /\ store' = [store EXCEPT ![holds[r]][n] = Clock + 1]
        /\ idIdx' = [idIdx EXCEPT ![holds[r]] = n]
    BY <1>14, Summarizing
  <2>2. holds' = holds /\ pc[r] \in Chatting /\ pc' = [pc EXCEPT ![r] = "remember"]
    BY <1>0, <1>14 DEF Summarize, Goto, Chatting
  <2>3. \A q \in Runs : pc'[q] \in Chatting => q = r
    BY <1>0, <2>2, OneChats
  <2>4. source'[Clock + 1] = holds[r] /\ \A v \in 1 .. Clock : source'[v] = source[v]
    BY <1>0, <2>1
  <2>5. \A p \in made[r] :
          /\ p[1] \in Ids /\ p[2] \in 1 .. Clock /\ p[1] < n
          /\ source[p[2]] = holds[r]
          /\ store[holds[r]][p[1]] = 0 \/ store[holds[r]][p[1]] >= p[2]
    <3> SUFFICES ASSUME NEW p \in made[r]
                 PROVE  /\ p[1] \in Ids /\ p[2] \in 1 .. Clock /\ p[1] < n
                        /\ source[p[2]] = holds[r]
                        /\ store[holds[r]][p[1]] = 0 \/ store[holds[r]][p[1]] >= p[2]
      OBVIOUS
    <3>1. p[1] \in Ids /\ p[2] \in 1 .. Clock
      BY <1>0, <1>0
    <3>2. /\ p[1] <= idIdx[holds[r]] /\ source[p[2]] = holds[r]
          /\ store[holds[r]][p[1]] = 0 \/ store[holds[r]][p[1]] >= p[2]
      BY <2>2 DEF MadeHere
    <3>3. p[1] \in Nat /\ idIdx[holds[r]] \in Nat
      BY <1>0, <2>1, <3>1
    <3> QED BY <3>1, <3>2, <3>3
  <2>6. ASSUME NEW p \in made'[r]
        PROVE  /\ p[1] <= idIdx'[holds'[r]]
               /\ source'[p[2]] = holds'[r]
               /\ store'[holds'[r]][p[1]] = 0 \/ store'[holds'[r]][p[1]] >= p[2]
    <3>1. CASE p \in made[r]
      <4>1. store'[holds[r]][p[1]] = store[holds[r]][p[1]]
        BY <1>0, <2>1, <2>5, <3>1
      <4>2. idIdx'[holds[r]] = n /\ n \in Nat /\ p[1] \in Nat
        BY <1>0, <2>1, <2>5, <3>1
      <4> QED BY <2>2, <2>4, <2>5, <3>1, <4>1, <4>2
    <3>2. CASE p = <<n, Clock + 1>>
      <4>1. store'[holds[r]][n] = Clock + 1 /\ idIdx'[holds[r]] = n /\ n \in Nat
        BY <1>0, <2>1
      <4> QED BY <1>0, <2>2, <2>4, <3>2, <4>1
    <3> QED BY <1>0, <2>1, <3>1, <3>2
  <2>7. ASSUME NEW p \in made'[r], NEW q \in made'[r], q[1] = p[1] PROVE q = p
    <3>1. \A x \in made'[r] : x \in made[r] \/ x = <<n, Clock + 1>>
      BY <1>0, <2>1
    <3>2. CASE p \in made[r] /\ q \in made[r]
      BY <2>2, <2>7, <3>2 DEF MadeHere
    <3>3. CASE p \in made[r] /\ q = <<n, Clock + 1>>
      BY <1>0, <2>5, <2>7, <3>3
    <3>4. CASE p = <<n, Clock + 1>> /\ q \in made[r]
      BY <1>0, <2>5, <2>7, <3>4
    <3>5. CASE p = <<n, Clock + 1>> /\ q = <<n, Clock + 1>>
      BY <3>5
    <3> QED BY <3>1, <3>2, <3>3, <3>4, <3>5
  <2> QED BY <2>3, <2>6, <2>7 DEF MadeHere
<1>15. ASSUME NEW r \in Runs, SummarizeFails(r) \/ SummarizeThrows(r) PROVE MadeHere'
  <2>1. UNCHANGED <<made, store, source>>
    BY <1>0, <1>15 DEF SummarizeFails, SummarizeThrows
  <2>2. pc[r] \in Chatting /\ \A q \in Runs : pc'[q] \in Chatting => pc[q] \in Chatting /\ q # r
    BY <1>0, <1>15 DEF SummarizeFails, SummarizeThrows, Abandon, Throw, Leave, Goto, Chatting
  <2>3. \A q \in Runs : pc'[q] \notin Chatting
    BY <2>2, OneChats
  <2> QED BY <2>3 DEF MadeHere
<1>16. ASSUME NEW r \in Runs, Remember(r) PROVE MadeHere'
  BY <1>0, <1>16 DEF Remember, Goto, MadeHere, MadeLate, Chatting, Over
<1>17. ASSUME NEW r \in Runs, Replicate(r) PROVE MadeHere'
  <2>1. UNCHANGED <<made, idIdx, store, source>>
    BY <1>0, <1>17 DEF Replicate
  <2>2. \A q \in Runs : pc'[q] \in Chatting => pc[q] \in Chatting /\ holds'[q] = holds[q]
    BY <1>0, <1>17 DEF Replicate, Leave, LetGo, Goto, Chatting
  <2> QED BY <2>1, <2>2 DEF MadeHere
<1>18. ASSUME NEW r \in Runs, Unblock(r) PROVE MadeHere'
  BY <1>0, <1>18 DEF Unblock, Goto, MadeHere, MadeLate, Chatting, Over
<1>19. ASSUME NEW i \in ClientIds, Put(i) PROVE MadeHere'
  <2>1. /\ UNCHANGED <<made, holds, pc, idIdx>>
        /\ store' = [store EXCEPT ![current][i] = Clock + 1] /\ source' = Append(source, current)
    BY <1>0, <1>19 DEF Put, Change
  <2>2. \A s \in Stores, j \in Ids : store'[s][j] \in {store[s][j], Clock + 1}
    BY <1>0, <2>1
  <2>3. \A v \in 1 .. Clock : source'[v] = source[v]
    BY <1>0, <2>1
  <2>4. ASSUME NEW q \in Runs, pc'[q] \in Chatting, NEW p \in made'[q]
        PROVE  /\ p[1] <= idIdx'[holds'[q]]
               /\ source'[p[2]] = holds'[q]
               /\ store'[holds'[q]][p[1]] = 0 \/ store'[holds'[q]][p[1]] >= p[2]
               /\ \A o \in made'[q] : o[1] = p[1] => o = p
    <3>1. p[1] \in Ids /\ p[2] \in 1 .. Clock /\ pc[q] \in Chatting /\ p \in made[q]
      BY <1>0, <2>1, <2>4
    <3>2. holds[q] \in Stores
      BY <3>1, HeldStore, TypeParts DEF ControlInv
    <3>3. /\ p[1] <= idIdx[holds[q]]
          /\ source[p[2]] = holds[q]
          /\ store[holds[q]][p[1]] = 0 \/ store[holds[q]][p[1]] >= p[2]
          /\ \A o \in made[q] : o[1] = p[1] => o = p
      BY <3>1 DEF MadeHere
    <3>4. store'[holds[q]][p[1]] \in {store[holds[q]][p[1]], Clock + 1}
      BY <2>2, <3>1, <3>2
    <3> QED BY <1>0, <2>1, <2>3, <3>1, <3>3, <3>4
  <2> QED BY <2>4 DEF MadeHere
<1>20. ASSUME NEW i \in Ids, Rem(i) PROVE MadeHere'
  <2>1. /\ UNCHANGED <<made, holds, pc, idIdx>>
        /\ store' = [store EXCEPT ![current][i] = 0] /\ source' = source
    BY <1>0, <1>20 DEF Rem, Change
  <2>2. \A s \in Stores, j \in Ids : store'[s][j] \in {store[s][j], 0}
    BY <1>0, <2>1
  <2>3. \A v \in 1 .. Clock : source'[v] = source[v]
    BY <1>0, <2>1
  <2>4. ASSUME NEW q \in Runs, pc'[q] \in Chatting, NEW p \in made'[q]
        PROVE  /\ p[1] <= idIdx'[holds'[q]]
               /\ source'[p[2]] = holds'[q]
               /\ store'[holds'[q]][p[1]] = 0 \/ store'[holds'[q]][p[1]] >= p[2]
               /\ \A o \in made'[q] : o[1] = p[1] => o = p
    <3>1. p[1] \in Ids /\ p[2] \in 1 .. Clock /\ pc[q] \in Chatting /\ p \in made[q]
      BY <1>0, <2>1, <2>4
    <3>2. holds[q] \in Stores
      BY <3>1, HeldStore, TypeParts DEF ControlInv
    <3>3. /\ p[1] <= idIdx[holds[q]]
          /\ source[p[2]] = holds[q]
          /\ store[holds[q]][p[1]] = 0 \/ store[holds[q]][p[1]] >= p[2]
          /\ \A o \in made[q] : o[1] = p[1] => o = p
      BY <3>1 DEF MadeHere
    <3>4. store'[holds[q]][p[1]] \in {store[holds[q]][p[1]], 0}
      BY <2>2, <3>1, <3>2
    <3> QED BY <1>0, <2>1, <2>3, <3>1, <3>3, <3>4
  <2> QED BY <2>4 DEF MadeHere
<1>21. CASE Replace
  BY <1>0, <1>21 DEF Replace, Change, MadeHere, MadeLate, Chatting, Over
<1>22. CASE Takeover
  <2>1. \A q \in Runs : pc'[q] \notin Chatting
    BY <1>0, <1>22 DEF Takeover, Under, Chatting
  <2> QED BY <2>1 DEF MadeHere
<1>23. CASE UNCHANGED vars
  BY <1>0, <1>23 DEF MadeHere, MadeLate, Chatting, Over
<1>24. ASSUME NEW r \in Runs, TakeGil(r) PROVE MadeHere'
  BY <1>0, <1>24 DEF TakeGil, MadeHere, MadeLate, Chatting, Over
<1> QED BY <1>1, <1>2, <1>3, <1>4, <1>5, <1>6, <1>7, <1>8, <1>9, <1>10, <1>11,
  <1>12, <1>13, <1>14, <1>15, <1>16, <1>17, <1>18, <1>19, <1>20, <1>21, <1>22, <1>23, <1>24
  DEF Next, Run, Done, Failover, SummarizeBreaks

LEMMA MadeLastStep ==
  ASSUME ControlInv, MadeLate, MadeLast, [Next]_vars
  PROVE  MadeLast'
<1> USE DEF vars, confVars, historyVars, storeVars, readVars, boundVars
<1>0. /\ Clock \in Nat /\ Clock = Len(source) /\ source \in Seq(Stores)
      /\ pc \in [Runs -> Steps] /\ holds \in [Runs -> {0} \union Stores]
      /\ current \in Stores /\ store \in [Stores -> [Ids -> 0 .. Clock]]
      /\ rStore \in [Ids -> 0 .. Clock] /\ idIdx \in [Stores -> Nat]
      /\ made \in [Runs -> SUBSET (Ids \X (1 .. Clock))]
      /\ mtx \in {0} \union Runs /\ 0 \notin Runs /\ Ids \subseteq Nat
  BY SomeTypes DEF ControlInv
<1>1. ASSUME NEW r \in Runs, Start(r) PROVE MadeLast'
  BY <1>0, <1>1 DEF Start, Goto, MadeLast, MadeLate, Chatting, Over
<1>2. ASSUME NEW r \in Runs, Refuse(r) PROVE MadeLast'
  BY <1>0, <1>2 DEF Refuse, Goto, MadeLast, MadeLate, Chatting, Over
<1>3. ASSUME NEW r \in Runs, Resolve(r) PROVE MadeLast'
  BY <1>0, <1>3 DEF Resolve, Goto, MadeLast, MadeLate, Chatting, Over
<1>4. ASSUME NEW r \in Runs, ResolveFails(r) PROVE MadeLast'
  BY <1>0, <1>4 DEF ResolveFails, Throw, Leave, LetGo, Goto, MadeLast, MadeLate, Chatting,
      Over
<1>5. ASSUME NEW r \in Runs, Lock(r) PROVE MadeLast'
  BY <1>0, <1>5 DEF Lock, Goto, MadeLast, MadeLate, Chatting, Over
<1>6. ASSUME NEW r \in Runs, Search(r) PROVE MadeLast'
  BY <1>0, <1>6 DEF Search, Goto, MadeLast, MadeLate, Chatting, Over
<1>7. ASSUME NEW r \in Runs, SearchFails(r) PROVE MadeLast'
  BY <1>0, <1>7 DEF SearchFails, Throw, Leave, LetGo, Goto, MadeLast, MadeLate, Chatting,
      Over
<1>8. ASSUME NEW r \in Runs, Quote(r) PROVE MadeLast'
  BY <1>0, <1>8 DEF Quote, MadeLast, MadeLate, Chatting, Over
<1>9. ASSUME NEW r \in Runs, QuotedAll(r) PROVE MadeLast'
  BY <1>0, <1>9 DEF QuotedAll, Goto, MadeLast, MadeLate, Chatting, Over
<1>10. ASSUME NEW r \in Runs, Ask(r) PROVE MadeLast'
  BY <1>0, <1>10 DEF Ask, Leave, LetGo, Goto, MadeLast, MadeLate, Chatting, Over
<1>11. ASSUME NEW r \in Runs, AskFails(r) PROVE MadeLast'
  BY <1>0, <1>11 DEF AskFails, Throw, Leave, LetGo, Goto, MadeLast, MadeLate, Chatting,
      Over
<1>12. ASSUME NEW r \in Runs, Forget(r) PROVE MadeLast'
  BY <1>0, <1>12 DEF Forget, Abandon, LetGo, Goto, MadeLast, MadeLate, Chatting, Over
<1>13. ASSUME NEW r \in Runs, Say(r) PROVE MadeLast'
  BY <1>0, <1>13 DEF Say, Goto, MadeLast, MadeLate, Chatting, Over
<1>14. ASSUME NEW r \in Runs, Summarize(r) PROVE MadeLast'
  <2>1. made' = [made EXCEPT ![r] = made[r] \union {<<idIdx[holds[r]] + 1, Clock + 1>>}]
    BY <1>14, Summarizing
  <2>2. pc[r] \in Chatting /\ pc' = [pc EXCEPT ![r] = "remember"]
    BY <1>0, <1>14 DEF Summarize, Goto, Chatting
  <2>3. \A q \in Runs : pc'[q] \in Chatting => q = r
    BY <1>0, <2>2, OneChats
  <2>4. ASSUME NEW q \in Runs \ {r}, NEW p \in made'[r], NEW x \in made'[q] PROVE x[2] < p[2]
    <3>1. x \in made[q] /\ x[2] \in 1 .. Clock
      BY <1>0, <2>1
    <3>2. CASE p \in made[r]
      BY <2>2, <3>1, <3>2 DEF MadeLast
    <3>3. CASE p = <<idIdx[holds[r]] + 1, Clock + 1>>
      BY <1>0, <3>1, <3>3
    <3> QED BY <1>0, <2>1, <3>2, <3>3
  <2> QED BY <2>3, <2>4 DEF MadeLast
<1>15. ASSUME NEW r \in Runs, SummarizeFails(r) \/ SummarizeThrows(r) PROVE MadeLast'
  BY <1>0, <1>15 DEF SummarizeFails, SummarizeThrows, Abandon, Throw, Leave, LetGo, Goto, MadeLast, MadeLate,
      Chatting, Over
<1>16. ASSUME NEW r \in Runs, Remember(r) PROVE MadeLast'
  BY <1>0, <1>16 DEF Remember, Goto, MadeLast, MadeLate, Chatting, Over
<1>17. ASSUME NEW r \in Runs, Replicate(r) PROVE MadeLast'
  BY <1>0, <1>17 DEF Replicate, Leave, LetGo, Goto, MadeLast, MadeLate, Chatting, Over
<1>18. ASSUME NEW r \in Runs, Unblock(r) PROVE MadeLast'
  BY <1>0, <1>18 DEF Unblock, Goto, MadeLast, MadeLate, Chatting, Over
<1>19. ASSUME NEW i \in ClientIds, Put(i) PROVE MadeLast'
  BY <1>0, <1>19 DEF Put, Change, MadeLast, MadeLate, Chatting, Over
<1>20. ASSUME NEW i \in Ids, Rem(i) PROVE MadeLast'
  BY <1>0, <1>20 DEF Rem, Change, MadeLast, MadeLate, Chatting, Over
<1>21. CASE Replace
  BY <1>0, <1>21 DEF Replace, Change, MadeLast, MadeLate, Chatting, Over
<1>22. CASE Takeover
  <2>1. \A q \in Runs : pc'[q] \notin Chatting
    BY <1>0, <1>22 DEF Takeover, Under, Chatting
  <2> QED BY <2>1 DEF MadeLast
<1>23. CASE UNCHANGED vars
  BY <1>0, <1>23 DEF MadeLast, MadeLate, Chatting, Over
<1>24. ASSUME NEW r \in Runs, TakeGil(r) PROVE MadeLast'
  BY <1>0, <1>24 DEF TakeGil, MadeLast, MadeLate, Chatting, Over
<1> QED BY <1>1, <1>2, <1>3, <1>4, <1>5, <1>6, <1>7, <1>8, <1>9, <1>10, <1>11,
  <1>12, <1>13, <1>14, <1>15, <1>16, <1>17, <1>18, <1>19, <1>20, <1>21, <1>22, <1>23, <1>24
  DEF Next, Run, Done, Failover, SummarizeBreaks

LEMMA SummariesReplicatedStep ==
  ASSUME ControlInv, MadeLate, MadeFew, MadeHere, MadeLast, SummariesReplicated, [Next]_vars
  PROVE  SummariesReplicated'
<1> USE DEF vars, confVars, historyVars, storeVars, readVars, boundVars
<1>0. /\ Clock \in Nat /\ Clock = Len(source) /\ source \in Seq(Stores)
      /\ pc \in [Runs -> Steps] /\ holds \in [Runs -> {0} \union Stores]
      /\ current \in Stores /\ store \in [Stores -> [Ids -> 0 .. Clock]]
      /\ rStore \in [Ids -> 0 .. Clock] /\ idIdx \in [Stores -> Nat]
      /\ made \in [Runs -> SUBSET (Ids \X (1 .. Clock))]
      /\ mtx \in {0} \union Runs /\ 0 \notin Runs /\ Ids \subseteq Nat
      /\ outcome \in [Runs -> {"none", "ok", "error", "never", "lost"}]
  BY SomeTypes DEF ControlInv, TypeOK
<1>1. ASSUME NEW r \in Runs, Start(r) PROVE SummariesReplicated'
  BY <1>0, <1>1 DEF Start, Goto, SummariesReplicated, MadeLate, Chatting, Over
<1>2. ASSUME NEW r \in Runs, Refuse(r) PROVE SummariesReplicated'
  BY <1>0, <1>2 DEF Refuse, Goto, SummariesReplicated, MadeLate, Chatting, Over
<1>3. ASSUME NEW r \in Runs, Resolve(r) PROVE SummariesReplicated'
  BY <1>0, <1>3 DEF Resolve, Goto, SummariesReplicated, MadeLate, Chatting, Over
<1>4. ASSUME NEW r \in Runs, ResolveFails(r) PROVE SummariesReplicated'
  BY <1>0, <1>4 DEF ResolveFails, Throw, Leave, LetGo, Goto, SummariesReplicated,
      MadeLate, Chatting, Over
<1>5. ASSUME NEW r \in Runs, Lock(r) PROVE SummariesReplicated'
  BY <1>0, <1>5 DEF Lock, Goto, SummariesReplicated, MadeLate, Chatting, Over
<1>6. ASSUME NEW r \in Runs, Search(r) PROVE SummariesReplicated'
  BY <1>0, <1>6 DEF Search, Goto, SummariesReplicated, MadeLate, Chatting, Over
<1>7. ASSUME NEW r \in Runs, SearchFails(r) PROVE SummariesReplicated'
  BY <1>0, <1>7 DEF SearchFails, Throw, Leave, LetGo, Goto, SummariesReplicated, MadeLate,
      Chatting, Over
<1>8. ASSUME NEW r \in Runs, Quote(r) PROVE SummariesReplicated'
  BY <1>0, <1>8 DEF Quote, SummariesReplicated, MadeLate, Chatting, Over
<1>9. ASSUME NEW r \in Runs, QuotedAll(r) PROVE SummariesReplicated'
  BY <1>0, <1>9 DEF QuotedAll, Goto, SummariesReplicated, MadeLate, Chatting, Over
<1>10. ASSUME NEW r \in Runs, Ask(r) PROVE SummariesReplicated'
  BY <1>0, <1>10 DEF Ask, Leave, LetGo, Goto, SummariesReplicated, MadeLate, Chatting,
      Over
<1>11. ASSUME NEW r \in Runs, AskFails(r) PROVE SummariesReplicated'
  BY <1>0, <1>11 DEF AskFails, Throw, Leave, LetGo, Goto, SummariesReplicated, MadeLate,
      Chatting, Over
<1>12. ASSUME NEW r \in Runs, Forget(r) PROVE SummariesReplicated'
  BY <1>0, <1>12 DEF Forget, Abandon, LetGo, Goto, SummariesReplicated, MadeLate, Chatting, Over
<1>13. ASSUME NEW r \in Runs, Say(r) PROVE SummariesReplicated'
  BY <1>0, <1>13 DEF Say, Goto, SummariesReplicated, MadeLate, Chatting, Over
<1>14. ASSUME NEW r \in Runs, Summarize(r) PROVE SummariesReplicated'
  <2>0. outcome[r] = "none"
    BY <1>0, <1>14 DEF Summarize, ControlInv, Outcomes, Over
  <2>1. /\ UNCHANGED <<current, rStore, outcome>> /\ outcome[r] = "none"
        /\ holds[r] \in Stores /\ source' = Append(source, holds[r])
        /\ \A q \in Runs : q # r => made'[q] = made[q]
        /\ \E n \in Ids : store' = [store EXCEPT ![holds[r]][n] = Clock + 1]
    BY <1>0, <2>0, <1>14, Summarizing DEF Summarize
  <2>2. \A v \in 1 .. Clock : source'[v] = source[v]
    BY <1>0, <2>1
  <2>3. ASSUME NEW q \in Runs, outcome'[q] # "none", NEW p \in made'[q],
               store'[current'][p[1]] = p[2]
        PROVE
          \/ rStore'[p[1]] = p[2]
          \/ rStore'[p[1]] # 0 /\ source'[rStore'[p[1]]] # current'
          \/ outcome'[q] \in {"error", "never"} /\ made'[q] = {p}
    <3>1. /\ outcome[q] # "none" /\ outcome'[q] = outcome[q] /\ made'[q] = made[q]
          /\ p \in made[q] /\ p[1] \in Ids /\ p[2] \in 1 .. Clock
      BY <1>0, <2>1, <2>3
    <3>2. store[current][p[1]] = p[2] /\ rStore'[p[1]] = rStore[p[1]]
      BY <1>0, <2>1, <2>3, <3>1
    <3>3. \/ rStore[p[1]] = p[2] \/ (rStore[p[1]] # 0 /\ source[rStore[p[1]]] # current)
          \/ outcome[q] \in {"error", "never"} /\ made[q] = {p}
      BY <2>3, <3>1, <3>2 DEF SummariesReplicated
    <3>4. rStore[p[1]] \in 0 .. Clock
      BY <1>0, <3>1
    <3> QED BY <1>0, <2>1, <2>2, <3>1, <3>2, <3>3, <3>4
  <2> QED BY <2>3 DEF SummariesReplicated
<1>15. ASSUME NEW r \in Runs, SummarizeFails(r) \/ SummarizeThrows(r) PROVE SummariesReplicated'
  <2>1. /\ UNCHANGED <<made, current, store, source, rStore>> /\ pc[r] = "summarize"
        /\ \E x \in {"error", "never"} : outcome' = [outcome EXCEPT ![r] = x]
    BY <1>15 DEF SummarizeFails, SummarizeThrows, Abandon, Throw, Leave
  <2>2. \A p \in made[r] : made[r] = {p}
    BY <2>1 DEF MadeFew
  <2>3. outcome'[r] \in {"error", "never"} /\ \A q \in Runs \ {r} : outcome'[q] = outcome[q]
    BY <1>0, <2>1
  <2> QED BY <2>1, <2>2, <2>3 DEF SummariesReplicated
<1>16. ASSUME NEW r \in Runs, Remember(r) PROVE SummariesReplicated'
  BY <1>0, <1>16 DEF Remember, Goto, SummariesReplicated, MadeLate, Chatting, Over
<1>17. ASSUME NEW r \in Runs, Replicate(r) PROVE SummariesReplicated'
  <2>1. /\ UNCHANGED <<made, current, store, source>> /\ pc[r] \in Chatting
        /\ outcome' = [outcome EXCEPT ![r] = "ok"]
        /\ rStore' = [i \in Ids |-> IF TextMade(r, i) = {}
                                      THEN rStore[i] ELSE CHOOSE v \in TextMade(r, i) : TRUE]
    BY <1>0, <1>17 DEF Replicate, Leave, LetGo, Chatting
  <2>2. ASSUME NEW o \in made[r] PROVE o[1] \in Ids /\ o[2] \in 1 .. Clock /\ rStore'[o[1]] = o[2]
    <3>1. o[1] \in Ids /\ o[2] \in 1 .. Clock
      BY <1>0, <2>2
    <3>2. \A x \in made[r] : x[1] = o[1] => x = o
      BY <1>0, <2>1 DEF MadeHere
    <3>3. TextMade(r, o[1]) = {o[2]}
      BY <1>0, <3>2 DEF TextMade
    <3> QED BY <1>0, <2>1, <3>1, <3>3
  <2>3. ASSUME NEW q \in Runs, outcome'[q] # "none", NEW p \in made'[q],
               store'[current'][p[1]] = p[2]
        PROVE
          \/ rStore'[p[1]] = p[2]
          \/ rStore'[p[1]] # 0 /\ source'[rStore'[p[1]]] # current'
          \/ outcome'[q] \in {"error", "never"} /\ made'[q] = {p}
    <3>1. p[1] \in Ids /\ p[2] \in 1 .. Clock /\ p \in made[q] /\ store[current][p[1]] = p[2]
      BY <1>0, <2>1, <2>3
    <3>2. CASE q = r
      BY <1>0, <2>2, <3>1, <3>2
    <3>3. CASE q # r /\ TextMade(r, p[1]) = {}
      BY <1>0, <2>1, <2>3, <3>1, <3>3 DEF SummariesReplicated
    <3>4. CASE q # r /\ TextMade(r, p[1]) # {}
      <4>1. PICK o \in made[r] : o[1] = p[1]
        BY <1>0, <3>4 DEF TextMade
      <4>2. rStore'[p[1]] = o[2] /\ o[2] \in 1 .. Clock
        BY <1>0, <2>2, <4>1
      <4>3. /\ source[o[2]] = holds[r]
            /\ store[holds[r]][o[1]] = 0 \/ store[holds[r]][o[1]] >= o[2]
        BY <1>0, <2>1 DEF MadeHere
      <4>4. p[2] < o[2]
        BY <1>0, <2>1, <3>1, <3>4 DEF MadeLast
      <4>5. holds[r] # current
        BY <1>0, <3>1, <4>1, <4>2, <4>3, <4>4
      <4>6. o[2] # 0
        BY <1>0, <4>2
      <4> QED BY <2>1, <4>2, <4>3, <4>5, <4>6
    <3> QED BY <3>2, <3>3, <3>4
  <2> QED BY <2>3 DEF SummariesReplicated
<1>18. ASSUME NEW r \in Runs, Unblock(r) PROVE SummariesReplicated'
  BY <1>0, <1>18 DEF Unblock, Goto, SummariesReplicated, MadeLate, Chatting, Over
<1>19. ASSUME NEW i \in ClientIds, Put(i) PROVE SummariesReplicated'
  <2>1. /\ UNCHANGED <<current, outcome, made>> /\ i \in Ids
        /\ source' = Append(source, current)
        /\ store' = [store EXCEPT ![current][i] = Clock + 1]
        /\ rStore' = [rStore EXCEPT ![i] = Clock + 1]
    BY <1>0, <1>19 DEF Put, Change, Ids
  <2>2. \A v \in 1 .. Clock : source'[v] = source[v]
    BY <1>0, <2>1
  <2>3. ASSUME NEW q \in Runs, outcome'[q] # "none", NEW p \in made'[q],
               store'[current'][p[1]] = p[2]
        PROVE
          \/ rStore'[p[1]] = p[2]
          \/ rStore'[p[1]] # 0 /\ source'[rStore'[p[1]]] # current'
          \/ outcome'[q] \in {"error", "never"} /\ made'[q] = {p}
    <3>1. /\ outcome[q] # "none" /\ outcome'[q] = outcome[q] /\ made'[q] = made[q]
          /\ p \in made[q] /\ p[1] \in Ids /\ p[2] \in 1 .. Clock
      BY <1>0, <2>1, <2>3
    <3>2. store[current][p[1]] = p[2] /\ rStore'[p[1]] = rStore[p[1]]
      BY <1>0, <2>1, <2>3, <3>1
    <3>3. \/ rStore[p[1]] = p[2] \/ (rStore[p[1]] # 0 /\ source[rStore[p[1]]] # current)
          \/ outcome[q] \in {"error", "never"} /\ made[q] = {p}
      BY <2>3, <3>1, <3>2 DEF SummariesReplicated
    <3>4. rStore[p[1]] \in 0 .. Clock
      BY <1>0, <3>1
    <3> QED BY <1>0, <2>1, <2>2, <3>1, <3>2, <3>3, <3>4
  <2> QED BY <2>3 DEF SummariesReplicated
<1>20. ASSUME NEW i \in Ids, Rem(i) PROVE SummariesReplicated'
  <2>1. /\ UNCHANGED <<current, outcome, made, source>>
        /\ store' = [store EXCEPT ![current][i] = 0]
        /\ rStore' = [rStore EXCEPT ![i] = 0]
    BY <1>0, <1>20 DEF Rem, Change
  <2>2. \A v \in 1 .. Clock : source'[v] = source[v]
    BY <1>0, <2>1
  <2>3. ASSUME NEW q \in Runs, outcome'[q] # "none", NEW p \in made'[q],
               store'[current'][p[1]] = p[2]
        PROVE
          \/ rStore'[p[1]] = p[2]
          \/ rStore'[p[1]] # 0 /\ source'[rStore'[p[1]]] # current'
          \/ outcome'[q] \in {"error", "never"} /\ made'[q] = {p}
    <3>1. /\ outcome[q] # "none" /\ outcome'[q] = outcome[q] /\ made'[q] = made[q]
          /\ p \in made[q] /\ p[1] \in Ids /\ p[2] \in 1 .. Clock
      BY <1>0, <2>1, <2>3
    <3>2. store[current][p[1]] = p[2] /\ rStore'[p[1]] = rStore[p[1]]
      BY <1>0, <2>1, <2>3, <3>1
    <3>3. \/ rStore[p[1]] = p[2] \/ (rStore[p[1]] # 0 /\ source[rStore[p[1]]] # current)
          \/ outcome[q] \in {"error", "never"} /\ made[q] = {p}
      BY <2>3, <3>1, <3>2 DEF SummariesReplicated
    <3>4. rStore[p[1]] \in 0 .. Clock
      BY <1>0, <3>1
    <3> QED BY <1>0, <2>1, <2>2, <3>1, <3>2, <3>3, <3>4
  <2> QED BY <2>3 DEF SummariesReplicated
<1>21. CASE Replace
  <2>1. current' > current /\ current' \in Stores /\ UNCHANGED <<store, made>>
    BY <1>0, <1>21, CountsAssumption DEF Replace, Change, Stores
  <2>2. store'[current'] = NoItems
    BY <1>0, <2>1 DEF ControlInv, Beyond
  <2>3. ASSUME NEW q \in Runs, NEW p \in made'[q] PROVE store'[current'][p[1]] # p[2]
    <3>1. p[1] \in Ids /\ p[2] \in 1 .. Clock
      BY <1>0, <2>1
    <3> QED BY <2>2, <3>1 DEF NoItems
  <2> QED BY <2>3 DEF SummariesReplicated
<1>22. CASE Takeover
  <2>1. UNCHANGED <<rStore, current>> /\ store'[current'] = rStore
    BY <1>0, <1>22 DEF Takeover
  <2> QED BY <2>1 DEF SummariesReplicated
<1>23. CASE UNCHANGED vars
  BY <1>0, <1>23 DEF SummariesReplicated, MadeLate, Chatting, Over
<1>24. ASSUME NEW r \in Runs, TakeGil(r) PROVE SummariesReplicated'
  BY <1>0, <1>24 DEF TakeGil, SummariesReplicated, MadeLate, Chatting, Over
<1> QED BY <1>1, <1>2, <1>3, <1>4, <1>5, <1>6, <1>7, <1>8, <1>9, <1>10, <1>11,
  <1>12, <1>13, <1>14, <1>15, <1>16, <1>17, <1>18, <1>19, <1>20, <1>21, <1>22, <1>23, <1>24
  DEF Next, Run, Done, Failover, SummarizeBreaks

(* Once a run is over, what it has saved at the key is on the replica, or  *)
(* it has failed after its first summary: SummariesReplicated, from the    *)
(* fact that only one run at a time is in the chat, so that the summaries  *)
(* of the one that replicates are the latest, each under an id of its own, *)
(* and that a run fails before its second summary (MadeFew).               *)
THEOREM SummariesReachReplica == Spec => []SummariesReplicated
<1>1. Init => ControlInv /\ SummaryInv
  BY InitControl DEF Init, SummaryInv, MadeLate, MadeFew, MadeHere, MadeLast, SummariesReplicated,
       Chatting
<1>2. ControlInv /\ SummaryInv /\ [Next]_vars => (ControlInv /\ SummaryInv)'
  BY ControlStep, MadeLateStep, MadeFewStep, MadeHereStep, MadeLastStep, SummariesReplicatedStep
     DEF SummaryInv
<1>3. SummaryInv => SummariesReplicated
  BY DEF SummaryInv
<1> QED BY <1>1, <1>2, <1>3, PTL DEF Spec

-----------------------------------------------------------------------------
(* The history: messages in order                                          *)

LEMMA PairsMono ==
  ASSUME NEW s, NEW o, NEW e, NEW o2, NEW e2, Pairs(s, o, e),
         \A k \in 1 .. Len(s) : /\ s[k].run \in e => s[k].run \in e2
                                /\ s[k].run \in o => s[k].run \in o2 \union e2
  PROVE  Pairs(s, o2, e2)
BY DEF Pairs

LEMMA PairsPrefix ==
  ASSUME NEW s \in Seq(Messages), NEW t \in Seq(Messages), NEW o, NEW e, NEW o2, NEW e2,
         Pairs(s, o, e), Len(t) <= Len(s), \A k \in 1 .. Len(t) : t[k] = s[k],
         \A k \in 1 .. Len(s) : s[k].run \in e2
  PROVE  Pairs(t, o2, e2)
<1>1. Len(s) \in Nat /\ Len(t) \in Nat
  OBVIOUS
<1> SUFFICES ASSUME NEW k \in 1 .. Len(t)
             PROVE  /\ t[k].role = "assistant" /\ k > 1 =>
                         t[k - 1] = [role |-> "user", run |-> t[k].run]
                    /\ t[k].run \in e2
  BY DEF Pairs
<1>2. k \in 1 .. Len(s) /\ t[k] = s[k]
  BY <1>1
<1>3. k > 1 => k - 1 \in 1 .. Len(t) /\ t[k - 1] = s[k - 1]
  BY <1>1
<1>4. s[k].role = "assistant" /\ k > 1 => s[k - 1] = [role |-> "user", run |-> s[k].run]
  BY <1>2 DEF Pairs
<1> QED BY <1>2, <1>3, <1>4

LEMMA PairsTail ==
  ASSUME NEW s \in Seq(Messages), s # <<>>, NEW o, NEW e, Pairs(s, o, e)
  PROVE  Pairs(Tail(s), o, e)
<1> DEFINE t == Tail(s)
<1>1. /\ Len(s) \in Nat /\ Len(t) = Len(s) - 1
      /\ \A k \in 1 .. Len(t) : t[k] = s[k + 1]
  BY HeadTailProperties
<1> HIDE DEF t
<1> SUFFICES ASSUME NEW k \in 1 .. Len(t)
             PROVE  /\ t[k].role = "assistant" /\ k > 1 =>
                         t[k - 1] = [role |-> "user", run |-> t[k].run]
                    /\ t[k].role = "user" =>
                         \/ t[k].run \in e
                         \/ k < Len(t) /\ t[k + 1] = [role |-> "assistant", run |-> t[k].run]
                         \/ k = Len(t) /\ t[k].run \in o
  BY DEF Pairs, t
<1>2. k + 1 \in 1 .. Len(s) /\ t[k] = s[k + 1] /\ k \in Int
  BY <1>1
<1>3. k > 1 => t[k - 1] = s[k]
  BY <1>1
<1>4. k < Len(t) => t[k + 1] = s[k + 2]
  BY <1>1
<1>5. /\ s[k + 1].role = "assistant" /\ k + 1 > 1 =>
           s[k + 1 - 1] = [role |-> "user", run |-> s[k + 1].run]
      /\ s[k + 1].role = "user" =>
           \/ s[k + 1].run \in e
           \/ k + 1 < Len(s) /\ s[k + 1 + 1] = [role |-> "assistant", run |-> s[k + 1].run]
           \/ k + 1 = Len(s) /\ s[k + 1].run \in o
  BY <1>2 DEF Pairs
<1>6. k + 1 - 1 = k /\ k + 1 + 1 = k + 2
  BY <1>2
<1> QED BY <1>1, <1>2, <1>3, <1>4, <1>5, <1>6

(* An input may follow anything but an input that is still open.           *)
LEMMA PairsAppendUser ==
  ASSUME NEW s \in Seq(Messages), NEW r \in Runs, NEW o, NEW e, Pairs(s, {}, e), r \in o
  PROVE  Pairs(Append(s, [role |-> "user", run |-> r]), o, e)
<1> DEFINE m == [role |-> "user", run |-> r]
           t == Append(s, m)
<1>1. /\ Len(s) \in Nat /\ Len(t) = Len(s) + 1 /\ t[Len(s) + 1] = m
      /\ \A k \in 1 .. Len(s) : t[k] = s[k]
  BY AppendProperties DEF Messages
<1>2. m.role = "user" /\ m.run = r
  OBVIOUS
<1> HIDE DEF t, m
<1> SUFFICES ASSUME NEW k \in 1 .. Len(t)
             PROVE  /\ t[k].role = "assistant" /\ k > 1 =>
                         t[k - 1] = [role |-> "user", run |-> t[k].run]
                    /\ t[k].role = "user" =>
                         \/ t[k].run \in e
                         \/ k < Len(t) /\ t[k + 1] = [role |-> "assistant", run |-> t[k].run]
                         \/ k = Len(t) /\ t[k].run \in o
  BY DEF Pairs, t, m
<1>3. CASE k \in 1 .. Len(s)
  <2>1. t[k] = s[k] /\ (k > 1 => t[k - 1] = s[k - 1]) /\ (k < Len(s) => t[k + 1] = s[k + 1])
    BY <1>1, <1>3
  <2>2. /\ s[k].role = "assistant" /\ k > 1 =>
             s[k - 1] = [role |-> "user", run |-> s[k].run]
        /\ s[k].role = "user" =>
             \/ s[k].run \in e
             \/ k < Len(s) /\ s[k + 1] = [role |-> "assistant", run |-> s[k].run]
    BY <1>3 DEF Pairs
  <2> QED BY <1>1, <1>3, <2>1, <2>2
<1>4. CASE k = Len(s) + 1
  BY <1>1, <1>2, <1>4
<1> QED BY <1>1, <1>3, <1>4

(* A reply follows its input, or is the first.                             *)
LEMMA PairsAppendReply ==
  ASSUME NEW s \in Seq(Messages), NEW r \in Runs, NEW o, NEW o2, NEW e, Pairs(s, o, e),
         Len(s) > 0 => s[Len(s)] = [role |-> "user", run |-> r]
  PROVE  Pairs(Append(s, [role |-> "assistant", run |-> r]), o2, e)
<1> DEFINE m == [role |-> "assistant", run |-> r]
           t == Append(s, m)
<1>1. /\ Len(s) \in Nat /\ Len(t) = Len(s) + 1 /\ t[Len(s) + 1] = m
      /\ \A k \in 1 .. Len(s) : t[k] = s[k]
  BY AppendProperties DEF Messages
<1>2. m.role = "assistant" /\ m.run = r
  OBVIOUS
<1>3. Len(s) > 0 => s[Len(s)].run = r
  OBVIOUS
<1> SUFFICES ASSUME NEW k \in 1 .. Len(t)
             PROVE  /\ t[k].role = "assistant" /\ k > 1 =>
                         t[k - 1] = [role |-> "user", run |-> t[k].run]
                    /\ t[k].role = "user" =>
                         \/ t[k].run \in e
                         \/ k < Len(t) /\ t[k + 1] = [role |-> "assistant", run |-> t[k].run]
                         \/ k = Len(t) /\ t[k].run \in o2
  BY DEF Pairs
<1> HIDE DEF t
<1>4. CASE k \in 1 .. Len(s)
  <2>1. t[k] = s[k] /\ (k > 1 => t[k - 1] = s[k - 1]) /\ (k < Len(s) => t[k + 1] = s[k + 1])
    BY <1>1, <1>4
  <2>2. /\ s[k].role = "assistant" /\ k > 1 =>
             s[k - 1] = [role |-> "user", run |-> s[k].run]
        /\ s[k].role = "user" =>
             \/ s[k].run \in e
             \/ k < Len(s) /\ s[k + 1] = [role |-> "assistant", run |-> s[k].run]
             \/ k = Len(s)
    BY <1>4 DEF Pairs
  <2>3. k = Len(s) => t[k + 1] = [role |-> "assistant", run |-> s[k].run]
    BY <1>1, <1>3, <1>4
  <2> QED BY <1>1, <1>4, <2>1, <2>2, <2>3
<1>5. CASE k = Len(s) + 1
  BY <1>1, <1>2, <1>5
<1> QED BY <1>1, <1>4, <1>5

-----------------------------------------------------------------------------
(* The history: what a step may do to it                                   *)

Stays(q) == pc'[q] = pc[q] /\ role'[q] = role[q] /\ outcome'[q] = outcome[q]
Advances(q) ==
  /\ pc[q] \notin Chatting \union Over /\ pc'[q] \notin Over
  /\ pc'[q] \in Chatting => pc'[q] = "say"
  /\ role'[q] = "user" /\ outcome'[q] = outcome[q]
SumsUp(q) ==
  /\ pc[q] = "summarize" /\ pc'[q] = "remember"
  /\ role'[q] = role[q] /\ outcome'[q] = outcome[q]
Fails(q) ==
  /\ pc[q] \notin Over /\ pc'[q] \in Over
  /\ role'[q] = "user" /\ outcome'[q] \in {"error", "never"}
Succeeds(q) ==
  /\ pc[q] = "replicate" /\ pc'[q] \in Over
  /\ role'[q] = "user" /\ outcome'[q] = "ok"
EndsUntold(q) ==
  /\ kind # "chat" /\ pc[q] \notin Chatting \union Over /\ pc'[q] \in Over
  /\ role'[q] = "user" /\ outcome'[q] \in {outcome[q], "ok"}
Answers(q) ==
  /\ pc[q] \in Over /\ pc'[q] \in Over
  /\ role'[q] = role[q] /\ outcome'[q] = outcome[q]

(* All but ChatHistory::add and the end of the process.                    *)
Quiet ==
  /\ Transcript' = Transcript /\ UNCHANGED <<latest, kind, summaryCnt, older>>
  /\ \A q \in Runs : \/ Stays(q) \/ Advances(q) \/ SumsUp(q) \/ Fails(q)
                      \/ Succeeds(q) \/ EndsUntold(q) \/ Answers(q)

SayStep(r) ==
  /\ pc[r] = "say"
  /\ \E step \in {"summarize", "remember"} : pc' = [pc EXCEPT ![r] = step]
  /\ UNCHANGED <<role, outcome, older, latest, kind, summaryCnt>>
  /\ Transcript' = IF summaryCnt = 0 THEN Transcript ELSE Append(Transcript, Message(r))

RememberStep(r) ==
  /\ pc[r] = "remember"
  /\ \/ /\ role[r] = "user" /\ role' = [role EXCEPT ![r] = "assistant"]
        /\ pc' = [pc EXCEPT ![r] = "say"]
     \/ /\ role[r] = "assistant" /\ role' = role
        /\ pc' = [pc EXCEPT ![r] = "replicate"]
  /\ UNCHANGED <<outcome, older, kind, summaryCnt>> /\ Transcript' = Transcript
  /\ latest' \in {Append(latest, Message(r)), Tail(Append(latest, Message(r)))}

Ends ==
  /\ UNCHANGED <<kind, summaryCnt>> /\ latest' = <<>>
  /\ Transcript' \in Seq(Messages) /\ Len(Transcript') <= Len(Transcript)
  /\ \A k \in 1 .. Len(Transcript') : Transcript'[k] = Transcript[k]
  /\ older' = {q \in Runs : pc[q] # "out"}
  /\ \A q \in Runs :
       /\ pc'[q] = IF pc[q] = "out" THEN "out" ELSE "done"
       /\ pc[q] = "out" => outcome'[q] = outcome[q]
       /\ role'[q] = "user"

LEMMA HistoryTypes ==
  ASSUME ControlInv
  PROVE  /\ pc \in [Runs -> Steps] /\ role \in [Runs -> {"user", "assistant"}]
         /\ outcome \in [Runs -> {"none", "ok", "error", "never", "lost"}] /\ older \subseteq Runs
         /\ Transcript \in Seq(Messages) /\ latest \in Seq(Messages)
         /\ Len(Transcript) \in Nat /\ Len(latest) \in Nat
         /\ \A k \in 1 .. Len(Transcript) : Transcript[k] \in Messages
         /\ \A k \in 1 .. Len(latest) : latest[k] \in Messages
         /\ \A m \in Messages : m.run \in Runs /\ m.role \in {"user", "assistant"}
<1>1. summed \in Seq(Messages) /\ pending \in Seq(Messages) /\ latest \in Seq(Messages)
  BY DEF ControlInv, TypeOK
<1>2. Transcript \in Seq(Messages)
  BY <1>1, ConcatProperties DEF Transcript
<1>3. \A m \in Messages : m.run \in Runs /\ m.role \in {"user", "assistant"}
  BY DEF Messages
<1> QED BY <1>1, <1>2, <1>3 DEF ControlInv, TypeOK

LEMMA MessageType ==
  ASSUME ControlInv, NEW r \in Runs
  PROVE  /\ Message(r) \in Messages /\ Message(r).run = r /\ Message(r).role = role[r]
         /\ Message(r) = [role |-> role[r], run |-> r]
<1>1. role[r] \in {"user", "assistant"}
  BY DEF ControlInv, TypeOK
<1> QED BY <1>1 DEF Message, Messages

LEMMA HistorySteps ==
  ASSUME ControlInv, [Next]_vars
  PROVE  \/ Quiet \/ Ends
         \/ \E r \in Runs : SayStep(r) \/ RememberStep(r)
<1> USE DEF vars, confVars, historyVars, storeVars, readVars, boundVars
<1>0. /\ pc \in [Runs -> Steps] /\ role \in [Runs -> {"user", "assistant"}]
      /\ outcome \in [Runs -> {"none", "ok", "error", "never", "lost"}] /\ older \subseteq Runs
      /\ summed \in Seq(Messages) /\ pending \in Seq(Messages)
      /\ \A q \in Runs : role[q] # "user" => pc[q] \in Chatting
      /\ ControlInv
  BY DEF ControlInv, TypeOK, Locking
<1>1. ASSUME NEW r \in Runs, Start(r) PROVE Quiet
  BY <1>0, <1>1 DEF Start, Goto, Stays, Advances, SumsUp, Fails, Succeeds, EndsUntold,
      Answers, Transcript, Chatting, Over, Quiet
<1>2. ASSUME NEW r \in Runs, Refuse(r) PROVE Quiet
  BY <1>0, <1>2 DEF Refuse, Goto, Stays, Advances, SumsUp, Fails, Succeeds, EndsUntold,
      Answers, Transcript, Chatting, Over, Quiet
<1>3. ASSUME NEW r \in Runs, Resolve(r) PROVE Quiet
  BY <1>0, <1>3 DEF Resolve, Goto, Stays, Advances, SumsUp, Fails, Succeeds, EndsUntold,
      Answers, Transcript, Chatting, Over, Quiet
<1>4. ASSUME NEW r \in Runs, ResolveFails(r) PROVE Quiet
  BY <1>0, <1>4 DEF ResolveFails, Throw, Leave, LetGo, Goto, Stays, Advances, SumsUp,
      Fails, Succeeds, EndsUntold, Answers, Transcript, Chatting, Over, Quiet
<1>5. ASSUME NEW r \in Runs, Lock(r) PROVE Quiet
  BY <1>0, <1>5 DEF Lock, Goto, Stays, Advances, SumsUp, Fails, Succeeds, EndsUntold,
      Answers, Transcript, Chatting, Over, Quiet
<1>6. ASSUME NEW r \in Runs, Search(r) PROVE Quiet
  BY <1>0, <1>6 DEF Search, Goto, Stays, Advances, SumsUp, Fails, Succeeds, EndsUntold,
      Answers, Transcript, Chatting, Over, Quiet
<1>7. ASSUME NEW r \in Runs, SearchFails(r) PROVE Quiet
  BY <1>0, <1>7 DEF SearchFails, Throw, Leave, LetGo, Goto, Stays, Advances, SumsUp,
      Fails, Succeeds, EndsUntold, Answers, Transcript, Chatting, Over, Quiet
<1>8. ASSUME NEW r \in Runs, Quote(r) PROVE Quiet
  BY <1>0, <1>8 DEF Quote, Stays, Advances, SumsUp, Fails, Succeeds, EndsUntold, Answers,
      Transcript, Chatting, Over, Quiet
<1>9. ASSUME NEW r \in Runs, QuotedAll(r) PROVE Quiet
  BY <1>0, <1>9 DEF QuotedAll, Goto, Stays, Advances, SumsUp, Fails, Succeeds, EndsUntold,
      Answers, Transcript, Chatting, Over, Quiet
<1>10. ASSUME NEW r \in Runs, Ask(r) PROVE Quiet
  BY <1>0, <1>10 DEF Ask, Leave, LetGo, Goto, Stays, Advances, SumsUp, Fails, Succeeds,
      EndsUntold, Answers, Transcript, Chatting, Over, Quiet
<1>11. ASSUME NEW r \in Runs, AskFails(r) PROVE Quiet
  BY <1>0, <1>11 DEF AskFails, Throw, Leave, LetGo, Goto, Stays, Advances, SumsUp, Fails,
      Succeeds, EndsUntold, Answers, Transcript, Chatting, Over, Quiet
<1>12. ASSUME NEW r \in Runs, Forget(r) PROVE Quiet
  BY <1>0, <1>12 DEF Forget, Abandon, LetGo, Goto, Stays, Advances, SumsUp, Fails,
      Succeeds, EndsUntold, Answers, Transcript, Chatting, Over, Quiet
<1>13. ASSUME NEW r \in Runs, Say(r) PROVE SayStep(r)
  <2>1. Transcript' = IF summaryCnt = 0 THEN Transcript ELSE Append(Transcript, Message(r))
    <3>1. Message(r) \in Messages
      BY <1>0, MessageType
    <3>2. Append(pending, Message(r)) = pending \o <<Message(r)>> /\ <<Message(r)>> \in Seq(Messages)
      BY <1>0, <3>1, AppendIsConcat
    <3>3. summed \o (pending \o <<Message(r)>>) = (summed \o pending) \o <<Message(r)>>
      BY <1>0, <3>2, ConcatAssociative
    <3>4. Append(summed \o pending, Message(r)) = (summed \o pending) \o <<Message(r)>>
      <4>1. summed \o pending \in Seq(Messages)
        BY <1>0, ConcatProperties
      <4> QED BY <3>1, <4>1, AppendIsConcat
    <3>5. pending' = (IF summaryCnt = 0 THEN pending ELSE Append(pending, Message(r))) /\ summed' = summed
      BY <1>13 DEF Say
    <3> QED BY <3>2, <3>3, <3>4, <3>5 DEF Transcript
  <2>2. pc[r] = "say" /\ \E step \in {"summarize", "remember"} : pc' = [pc EXCEPT ![r] = step]
    BY <1>13 DEF Say, Goto
  <2>3. UNCHANGED <<role, outcome, older, latest, kind, summaryCnt>>
    BY <1>13 DEF Say
  <2> QED BY <2>1, <2>2, <2>3 DEF SayStep
<1>14. ASSUME NEW r \in Runs, Summarize(r) PROVE Quiet
  <2>1. Transcript' = Transcript
    <3>1. summed \o pending \in Seq(Messages)
      BY <1>0, ConcatProperties
    <3>2. Transcript' = (summed \o pending) \o <<>>
      BY <1>14 DEF Summarize, Transcript
    <3> QED BY <3>1, <3>2, ConcatEmptySeq DEF Transcript
  <2>2. \A q \in Runs : Stays(q) \/ SumsUp(q)
    BY <1>0, <1>14 DEF Summarize, Goto, Stays, SumsUp
  <2> QED BY <2>1, <2>2, <1>14 DEF Summarize, Quiet
<1>15. ASSUME NEW r \in Runs, SummarizeFails(r) \/ SummarizeThrows(r) PROVE Quiet
  <2>1. CASE SummarizeFails(r)
    BY <1>0, <2>1 DEF SummarizeFails, Throw, Leave, LetGo, Goto, Stays, Advances, SumsUp,
        Fails, Succeeds, EndsUntold, Answers, Transcript, Chatting, Over, Quiet
  <2>2. CASE SummarizeThrows(r)
    BY <1>0, <2>2 DEF SummarizeThrows, Abandon, LetGo, Goto, Stays, Advances, SumsUp,
        Fails, Succeeds, EndsUntold, Answers, Transcript, Chatting, Over, Quiet
  <2> QED BY <1>15, <2>1, <2>2
<1>16. ASSUME NEW r \in Runs, Remember(r) PROVE RememberStep(r)
  <2>1. Transcript' = Transcript
    BY <1>16 DEF Remember, Transcript
  <2>2. pc[r] = "remember" /\ role[r] \in {"user", "assistant"}
    BY <1>0, <1>16 DEF Remember
  <2> QED BY <2>1, <2>2, <1>16 DEF Remember, RememberStep, Goto
<1>17. ASSUME NEW r \in Runs, Replicate(r) PROVE Quiet
  BY <1>0, <1>17 DEF Replicate, Leave, LetGo, Goto, Stays, Advances, SumsUp, Fails,
      Succeeds, EndsUntold, Answers, Transcript, Chatting, Over, Quiet
<1>18. ASSUME NEW r \in Runs, Unblock(r) PROVE Quiet
  BY <1>0, <1>18 DEF Unblock, Goto, Stays, Advances, SumsUp, Fails, Succeeds, EndsUntold,
      Answers, Transcript, Chatting, Over, Quiet
<1>19. ASSUME NEW i \in ClientIds, Put(i) PROVE Quiet
  BY <1>0, <1>19 DEF Put, Change, Stays, Advances, SumsUp, Fails, Succeeds, EndsUntold,
      Answers, Transcript, Chatting, Over, Quiet
<1>20. ASSUME NEW i \in Ids, Rem(i) PROVE Quiet
  BY <1>0, <1>20 DEF Rem, Change, Stays, Advances, SumsUp, Fails, Succeeds, EndsUntold,
      Answers, Transcript, Chatting, Over, Quiet
<1>21. ASSUME Replace PROVE Quiet
  BY <1>0, <1>21 DEF Replace, Change, Stays, Advances, SumsUp, Fails, Succeeds,
      EndsUntold, Answers, Transcript, Chatting, Over, Quiet
<1>22. ASSUME Takeover PROVE Ends
  <2>1. summed' = summed /\ pending' = <<>> /\ Transcript' = summed
    BY <1>22, <1>0, ConcatEmptySeq DEF Takeover, Transcript
  <2>2. /\ Len(summed) \in Nat /\ Len(pending) \in Nat
        /\ Len(Transcript) = Len(summed) + Len(pending)
        /\ \A k \in 1 .. Len(summed) : Transcript[k] = summed[k]
    BY <1>0, ConcatProperties DEF Transcript
  <2>3. /\ Len(Transcript') <= Len(Transcript)
        /\ \A k \in 1 .. Len(Transcript') : Transcript'[k] = Transcript[k]
    BY <2>1, <2>2
  <2>4. UNCHANGED <<kind, summaryCnt>> /\ latest' = <<>> /\ older' = {q \in Runs : pc[q] # "out"}
    BY <1>22 DEF Takeover
  <2>5. \A q \in Runs :
          /\ pc'[q] = IF pc[q] = "out" THEN "out" ELSE "done"
          /\ pc[q] = "out" => outcome'[q] = outcome[q]
          /\ role'[q] = "user"
    BY <1>0, <1>22 DEF Takeover, Under
  <2> QED BY <1>0, <2>1, <2>3, <2>4, <2>5 DEF Ends
<1>23. ASSUME UNCHANGED vars PROVE Quiet
  BY <1>0, <1>23 DEF Stays, Advances, SumsUp, Fails, Succeeds, EndsUntold, Answers,
      Transcript, Chatting, Over, Quiet
<1>24. ASSUME NEW r \in Runs, TakeGil(r) PROVE Quiet
  BY <1>0, <1>24 DEF TakeGil, Stays, Advances, SumsUp, Fails, Succeeds, EndsUntold, Answers,
      Transcript, Chatting, Over, Quiet
<1> QED BY <1>1, <1>2, <1>3, <1>4, <1>5, <1>6, <1>7, <1>8, <1>9, <1>10, <1>11,
  <1>12, <1>13, <1>14, <1>15, <1>16, <1>17, <1>18, <1>19, <1>20, <1>21, <1>22, <1>23, <1>24
  DEF Next, Run, Done, Failover, SummarizeBreaks

-----------------------------------------------------------------------------
(* The history: what is summarized                                         *)

LEMMA NothingSaidStep ==
  ASSUME ControlInv, NothingSaid, [Next]_vars
  PROVE  NothingSaid'
<1>0. /\ pc \in [Runs -> Steps] /\ role \in [Runs -> {"user", "assistant"}]
      /\ outcome \in [Runs -> {"none", "ok", "error", "never", "lost"}] /\ older \subseteq Runs
      /\ Transcript \in Seq(Messages) /\ latest \in Seq(Messages)
      /\ Len(Transcript) \in Nat /\ Len(latest) \in Nat
      /\ \A k \in 1 .. Len(Transcript) : Transcript[k] \in Messages
      /\ \A k \in 1 .. Len(latest) : latest[k] \in Messages
      /\ \A m \in Messages : m.run \in Runs /\ m.role \in {"user", "assistant"}
  BY HistoryTypes
<1>1. CASE Quiet
  BY <1>1 DEF Quiet, NothingSaid
<1>2. CASE Ends
  <2>1. ASSUME summaryCnt = 0 PROVE Len(Transcript') = 0
    <3>1. Transcript' \in Seq(Messages) /\ Len(Transcript') <= Len(Transcript)
      BY <1>2 DEF Ends
    <3>2. Len(Transcript) = 0
      BY <1>2, <2>1 DEF Ends, NothingSaid
    <3> QED BY <3>1, <3>2
  <2> QED BY <1>2, <2>1 DEF Ends, NothingSaid
<1>3. ASSUME NEW r \in Runs, SayStep(r) PROVE NothingSaid'
  BY <1>3 DEF SayStep, NothingSaid
<1>4. ASSUME NEW r \in Runs, RememberStep(r) PROVE NothingSaid'
  BY <1>4 DEF RememberStep, NothingSaid
<1> QED BY <1>1, <1>2, <1>3, <1>4, HistorySteps

LEMMA SaidOnlyStep ==
  ASSUME ControlInv, SaidOnly, [Next]_vars
  PROVE  SaidOnly'
<1>0. /\ pc \in [Runs -> Steps] /\ role \in [Runs -> {"user", "assistant"}]
      /\ outcome \in [Runs -> {"none", "ok", "error", "never", "lost"}] /\ older \subseteq Runs
      /\ Transcript \in Seq(Messages) /\ latest \in Seq(Messages)
      /\ Len(Transcript) \in Nat /\ Len(latest) \in Nat
      /\ \A k \in 1 .. Len(Transcript) : Transcript[k] \in Messages
      /\ \A k \in 1 .. Len(latest) : latest[k] \in Messages
      /\ \A m \in Messages : m.run \in Runs /\ m.role \in {"user", "assistant"}
  BY HistoryTypes
<1>1. CASE Quiet
  <2> SUFFICES ASSUME NEW k \in 1 .. Len(Transcript)
               PROVE  LET q == Transcript[k].run IN
                      \/ pc'[q] \in Over
                      \/ /\ pc'[q] \in Chatting
                         /\ \/ pc'[q] = "replicate"
                            \/ /\ Transcript[k].role = "user"
                               /\ role'[q] = "assistant" \/ pc'[q] \in {"summarize", "remember"}
                            \/ /\ Transcript[k].role = "assistant"
                               /\ role'[q] = "assistant" /\ pc'[q] \in {"summarize", "remember"}
    BY <1>1 DEF Quiet, SaidOnly, Said
  <2> DEFINE q == Transcript[k].run
  <2>1. q \in Runs
    BY <1>0
  <2>2. pc[q] \in Over \/ (pc[q] \in Chatting /\ Said(q, Transcript[k].role))
    BY DEF SaidOnly
  <2>3. Stays(q) \/ Advances(q) \/ SumsUp(q) \/ Fails(q) \/ Succeeds(q) \/ EndsUntold(q) \/ Answers(q)
    BY <1>1, <2>1 DEF Quiet
  <2> HIDE DEF q
  <2> QED BY <2>2, <2>3 DEF Said, Stays, Advances, SumsUp, Fails, Succeeds, EndsUntold, Answers, Over, Chatting, q
<1>2. CASE Ends
  <2> SUFFICES ASSUME NEW k \in 1 .. Len(Transcript')
               PROVE  pc'[Transcript'[k].run] \in Over
    BY DEF SaidOnly, Said
  <2>1. k \in 1 .. Len(Transcript) /\ Transcript'[k] = Transcript[k]
    BY <1>2, <1>0 DEF Ends
  <2>2. Transcript[k].run \in Runs /\ pc[Transcript[k].run] # "out"
    BY <1>0, <2>1 DEF SaidOnly, Over, Chatting
  <2> QED BY <1>2, <2>1, <2>2 DEF Ends, Over
<1>3. ASSUME NEW r \in Runs, SayStep(r) PROVE SaidOnly'
  <2>1. /\ Message(r) \in Messages /\ Message(r).run = r /\ Message(r).role = role[r]
        /\ Message(r) = [role |-> role[r], run |-> r]
    BY MessageType
  <2>2. CASE summaryCnt = 0
    <3>1. Transcript' = Transcript
      BY <1>3, <2>2 DEF SayStep
    <3> SUFFICES ASSUME NEW k \in 1 .. Len(Transcript)
                 PROVE  \/ pc'[Transcript[k].run] \in Over
                        \/ /\ pc'[Transcript[k].run] \in Chatting
                           /\ Said(Transcript[k].run, Transcript[k].role)'
      BY <3>1 DEF SaidOnly, Said
    <3> QED BY <1>0, <1>3, <2>2 DEF SayStep, SaidOnly, Said, Over, Chatting
  <2>3. CASE summaryCnt # 0
    <3> DEFINE n == Len(Transcript) + 1
    <3>1. /\ Transcript' = Append(Transcript, Message(r))
          /\ Len(Transcript') = n /\ Transcript'[n] = Message(r)
          /\ \A k \in 1 .. Len(Transcript) : Transcript'[k] = Transcript[k]
      BY <1>0, <1>3, <2>1, <2>3, AppendProperties DEF SayStep
    <3> SUFFICES ASSUME NEW k \in 1 .. n
                 PROVE  \/ pc'[Transcript'[k].run] \in Over
                        \/ /\ pc'[Transcript'[k].run] \in Chatting
                           /\ Said(Transcript[k].run, Transcript[k].role)'
      BY <3>1 DEF SaidOnly, Said
    <3>2. CASE k = n
      BY <1>0, <1>3, <2>1, <3>1, <3>2 DEF SayStep, Said, Over, Chatting
    <3>3. CASE k \in 1 .. Len(Transcript)
      BY <1>0, <1>3, <3>1, <3>3 DEF SayStep, SaidOnly, Said, Over, Chatting
    <3> QED BY <1>0, <3>2, <3>3
  <2> QED BY <2>2, <2>3
<1>4. ASSUME NEW r \in Runs, RememberStep(r) PROVE SaidOnly'
  <2> SUFFICES ASSUME NEW k \in 1 .. Len(Transcript)
               PROVE  \/ pc'[Transcript[k].run] \in Over
                      \/ /\ pc'[Transcript[k].run] \in Chatting
                         /\ Said(Transcript[k].run, Transcript[k].role)'
    BY <1>4 DEF RememberStep, SaidOnly, Said
  <2> QED BY <1>0, <1>4 DEF RememberStep, SaidOnly, Said, Over, Chatting
<1> QED BY <1>1, <1>2, <1>3, <1>4, HistorySteps

LEMMA SaidOnceStep ==
  ASSUME ControlInv, SaidOnly, SaidOnce, [Next]_vars
  PROVE  SaidOnce'
<1>0. /\ pc \in [Runs -> Steps] /\ role \in [Runs -> {"user", "assistant"}]
      /\ outcome \in [Runs -> {"none", "ok", "error", "never", "lost"}] /\ older \subseteq Runs
      /\ Transcript \in Seq(Messages) /\ latest \in Seq(Messages)
      /\ Len(Transcript) \in Nat /\ Len(latest) \in Nat
      /\ \A k \in 1 .. Len(Transcript) : Transcript[k] \in Messages
      /\ \A k \in 1 .. Len(latest) : latest[k] \in Messages
      /\ \A m \in Messages : m.run \in Runs /\ m.role \in {"user", "assistant"}
  BY HistoryTypes
<1>1. CASE Quiet
  BY <1>1 DEF Quiet, SaidOnce
<1>2. CASE Ends
  <2> SUFFICES ASSUME NEW j \in 1 .. Len(Transcript'), NEW k \in 1 .. Len(Transcript'),
                      Transcript'[j] = Transcript'[k]
               PROVE  j = k
    BY DEF SaidOnce
  <2>1. j \in 1 .. Len(Transcript) /\ Transcript'[j] = Transcript[j]
    BY <1>2, <1>0 DEF Ends
  <2>2. k \in 1 .. Len(Transcript) /\ Transcript'[k] = Transcript[k]
    BY <1>2, <1>0 DEF Ends
  <2> QED BY <2>1, <2>2 DEF SaidOnce
<1>3. ASSUME NEW r \in Runs, SayStep(r) PROVE SaidOnce'
  <2>1. /\ Message(r) \in Messages /\ Message(r).run = r /\ Message(r).role = role[r]
        /\ Message(r) = [role |-> role[r], run |-> r]
    BY MessageType
  <2>2. CASE summaryCnt = 0
    BY <1>3, <2>2 DEF SayStep, SaidOnce
  <2>3. CASE summaryCnt # 0
    <3> DEFINE n == Len(Transcript) + 1
    <3>1. /\ Transcript' = Append(Transcript, Message(r))
          /\ Len(Transcript') = n /\ Transcript'[n] = Message(r)
          /\ \A k \in 1 .. Len(Transcript) : Transcript'[k] = Transcript[k]
      BY <1>0, <1>3, <2>1, <2>3, AppendProperties DEF SayStep
    <3>2. ASSUME NEW k \in 1 .. Len(Transcript) PROVE Transcript[k] # Message(r)
      <4>1. /\ pc[r] = "say" /\ role[r] \in {"user", "assistant"}
        BY <1>0, <1>3 DEF SayStep
      <4>2. ~ Said(r, role[r])
        BY <4>1 DEF Said
      <4> QED BY <2>1, <4>1, <4>2 DEF SaidOnly, Over
    <3> SUFFICES ASSUME NEW j \in 1 .. n, NEW k \in 1 .. n, Transcript'[j] = Transcript'[k]
                 PROVE  j = k
      BY <3>1 DEF SaidOnce
    <3> QED BY <1>0, <3>1, <3>2 DEF SaidOnce
  <2> QED BY <2>2, <2>3
<1>4. ASSUME NEW r \in Runs, RememberStep(r) PROVE SaidOnce'
  BY <1>4 DEF RememberStep, SaidOnce
<1> QED BY <1>1, <1>2, <1>3, <1>4, HistorySteps

LEMMA SaidThereStep ==
  ASSUME ControlInv, SaidThere, [Next]_vars
  PROVE  SaidThere'
<1>0. /\ pc \in [Runs -> Steps] /\ role \in [Runs -> {"user", "assistant"}]
      /\ outcome \in [Runs -> {"none", "ok", "error", "never", "lost"}] /\ older \subseteq Runs
      /\ Transcript \in Seq(Messages) /\ latest \in Seq(Messages)
      /\ Len(Transcript) \in Nat /\ Len(latest) \in Nat
      /\ \A k \in 1 .. Len(Transcript) : Transcript[k] \in Messages
      /\ \A k \in 1 .. Len(latest) : latest[k] \in Messages
      /\ \A m \in Messages : m.run \in Runs /\ m.role \in {"user", "assistant"}
  BY HistoryTypes
<1>1. CASE Quiet
  <2> SUFFICES ASSUME summaryCnt > 0, NEW m \in Messages,
                      \/ pc'[m.run] \in Chatting /\ Said(m.run, m.role)'
                      \/ kind = "chat" /\ outcome'[m.run] = "ok" /\ m.run \notin older
               PROVE  InTranscript(m)
    BY <1>1 DEF Quiet, SaidThere, InTranscript, Kept, Said
  <2> DEFINE q == m.run
  <2>1. q \in Runs /\ m.role \in {"user", "assistant"}
    BY <1>0
  <2>2. Stays(q) \/ Advances(q) \/ SumsUp(q) \/ Fails(q) \/ Succeeds(q) \/ EndsUntold(q) \/ Answers(q)
    BY <1>1, <2>1 DEF Quiet
  <2>3. \/ pc[q] \in Chatting /\ Said(q, m.role)
        \/ kind = "chat" /\ Kept(q)
    BY <2>1, <2>2 DEF Said, Kept, Stays, Advances, SumsUp, Fails, Succeeds, EndsUntold, Answers, Over, Chatting
  <2> QED BY <2>3 DEF SaidThere
<1>2. CASE Ends
  <2> SUFFICES ASSUME NEW q \in Runs
               PROVE  /\ pc'[q] \notin Chatting
                      /\ ~ (outcome'[q] = "ok" /\ q \notin older')
    BY <1>0 DEF SaidThere, Kept
  <2>1. q \notin older' => outcome'[q] = "none"
    BY <1>2 DEF Ends, ControlInv, Outcomes, Over
  <2> QED BY <1>2, <2>1 DEF Ends, Chatting
<1>3. ASSUME NEW r \in Runs, SayStep(r) PROVE SaidThere'
  <2>1. /\ Message(r) \in Messages /\ Message(r).run = r /\ Message(r).role = role[r]
        /\ Message(r) = [role |-> role[r], run |-> r]
    BY MessageType
  <2>2. CASE summaryCnt = 0
    BY <1>0, <1>3, <2>2 DEF SayStep, SaidThere
  <2>3. CASE summaryCnt # 0
    <3> DEFINE n == Len(Transcript) + 1
    <3>1. /\ Transcript' = Append(Transcript, Message(r))
          /\ Len(Transcript') = n /\ Transcript'[n] = Message(r)
          /\ \A k \in 1 .. Len(Transcript) : Transcript'[k] = Transcript[k]
      BY <1>0, <1>3, <2>1, <2>3, AppendProperties DEF SayStep
    <3> SUFFICES ASSUME summaryCnt > 0, NEW m \in Messages,
                        \/ pc'[m.run] \in Chatting /\ Said(m.run, m.role)'
                        \/ kind = "chat" /\ outcome[m.run] = "ok" /\ m.run \notin older
                 PROVE  \E k \in 1 .. n : Transcript'[k] = m
      BY <1>3, <3>1 DEF SayStep, SaidThere, InTranscript, Kept, Said
    <3>2. m = [role |-> m.role, run |-> m.run] /\ m.run \in Runs /\ m.role \in {"user", "assistant"}
      BY DEF Messages
    <3>3. \/ m = Message(r)
          \/ pc[m.run] \in Chatting /\ Said(m.run, m.role)
          \/ kind = "chat" /\ Kept(m.run)
      BY <1>0, <1>3, <2>1, <3>2 DEF SayStep, Said, Kept, Chatting
    <3>4. CASE m = Message(r)
      BY <1>0, <3>1, <3>4
    <3>5. CASE m # Message(r)
      <4>1. PICK k \in 1 .. Len(Transcript) : Transcript[k] = m
        BY <3>3, <3>5 DEF SaidThere, InTranscript
      <4> QED BY <1>0, <3>1, <4>1
    <3> QED BY <3>4, <3>5
  <2> QED BY <2>2, <2>3
<1>4. ASSUME NEW r \in Runs, RememberStep(r) PROVE SaidThere'
  <2> SUFFICES ASSUME summaryCnt > 0, NEW m \in Messages,
                      \/ pc'[m.run] \in Chatting /\ Said(m.run, m.role)'
                      \/ kind = "chat" /\ outcome[m.run] = "ok" /\ m.run \notin older
               PROVE  InTranscript(m)
    BY <1>4 DEF RememberStep, SaidThere, InTranscript, Kept, Said
  <2>1. m.run \in Runs /\ m.role \in {"user", "assistant"}
    BY <1>0
  <2>2. \/ pc[m.run] \in Chatting /\ Said(m.run, m.role)
        \/ kind = "chat" /\ Kept(m.run)
    BY <1>0, <1>4, <2>1 DEF RememberStep, Said, Kept, Chatting
  <2> QED BY <2>2 DEF SaidThere
<1> QED BY <1>1, <1>2, <1>3, <1>4, HistorySteps

LEMMA OnlyOneSpeaks ==
  ASSUME ControlInv, NEW r \in Runs, pc[r] \in {"say", "remember"}
  PROVE  /\ \A q \in Runs : pc[q] \in Chatting => q = r
         /\ summaryCnt \in Nat
         /\ role[r] \in {"user", "assistant"}
<1>1. \A q \in Runs : pc[q] \in Chatting => q = r
  BY OneChats DEF Chatting
<1>2. summaryCnt \in Nat
  BY SetsAssumption DEF ControlInv, TypeOK
<1> QED BY <1>1, <1>2 DEF ControlInv, TypeOK

LEMMA SaidLastStep ==
  ASSUME ControlInv, SaidLast, [Next]_vars
  PROVE  SaidLast'
<1>0. /\ pc \in [Runs -> Steps] /\ role \in [Runs -> {"user", "assistant"}]
      /\ outcome \in [Runs -> {"none", "ok", "error", "never", "lost"}] /\ older \subseteq Runs
      /\ Transcript \in Seq(Messages) /\ latest \in Seq(Messages)
      /\ Len(Transcript) \in Nat /\ Len(latest) \in Nat
      /\ \A k \in 1 .. Len(Transcript) : Transcript[k] \in Messages
      /\ \A k \in 1 .. Len(latest) : latest[k] \in Messages
      /\ \A m \in Messages : m.run \in Runs /\ m.role \in {"user", "assistant"}
  BY HistoryTypes
<1>1. CASE Quiet
  <2>1. ASSUME NEW q \in Runs, pc'[q] \in Chatting /\ Said(q, "user")' /\ ~Said(q, "assistant")'
        PROVE  q \in Unanswered
    <3>1. Stays(q) \/ Advances(q) \/ SumsUp(q) \/ Fails(q) \/ Succeeds(q) \/ EndsUntold(q) \/ Answers(q)
      BY <1>1 DEF Quiet
    <3> QED BY <2>1, <3>1 DEF Unanswered, Said, Stays, Advances, SumsUp, Fails, Succeeds, EndsUntold, Answers, Over, Chatting
  <2>2. Unanswered' \subseteq Unanswered
    BY <2>1 DEF Unanswered
  <2> QED BY <1>1, <2>2 DEF Quiet, SaidLast
<1>2. CASE Ends
  <2>1. \A q \in Runs : pc'[q] \notin Chatting
    BY <1>2 DEF Ends, Chatting
  <2> QED BY <2>1 DEF SaidLast, Unanswered
<1>3. ASSUME NEW r \in Runs, SayStep(r) PROVE SaidLast'
  <2>1. /\ Message(r) \in Messages /\ Message(r).run = r /\ Message(r).role = role[r]
        /\ Message(r) = [role |-> role[r], run |-> r]
    BY MessageType
  <2>2. CASE summaryCnt = 0
    BY <1>0, <1>3, <2>2 DEF SayStep, SaidLast
  <2>3. CASE summaryCnt # 0
    <3> DEFINE n == Len(Transcript) + 1
    <3>1. /\ Transcript' = Append(Transcript, Message(r))
          /\ Len(Transcript') = n /\ Transcript'[n] = Message(r)
          /\ \A k \in 1 .. Len(Transcript) : Transcript'[k] = Transcript[k]
      BY <1>0, <1>3, <2>1, <2>3, AppendProperties DEF SayStep
    <3>2. \A q \in Runs : pc'[q] \in Chatting => q = r
      BY <1>0, <1>3, OnlyOneSpeaks DEF SayStep, Chatting
    <3>3. CASE role[r] = "user"
      <4>1. Message(r) = [role |-> "user", run |-> r]
        BY <2>1, <3>3
      <4>2. \A q \in Unanswered' : q = r
        BY <3>2 DEF Unanswered
      <4>3. Transcript' # <<>>
        <5>1. Len(Transcript') # 0
          BY <1>0, <3>1
        <5>2. Len(<<>>) = 0
          OBVIOUS
        <5> QED BY <5>1, <5>2
      <4> QED BY <3>1, <4>1, <4>2, <4>3 DEF SaidLast
    <3>4. CASE role[r] # "user"
      <4>1. Said(r, "assistant")'
        BY <1>0, <1>3, <3>4 DEF SayStep, Said
      <4>2. Unanswered' = {}
        BY <3>2, <4>1 DEF Unanswered
      <4> QED BY <4>2 DEF SaidLast
    <3> QED BY <3>3, <3>4
  <2> QED BY <2>2, <2>3
<1>4. ASSUME NEW r \in Runs, RememberStep(r) PROVE SaidLast'
  <2>1. ASSUME NEW q \in Runs, pc'[q] \in Chatting /\ Said(q, "user")' /\ ~Said(q, "assistant")'
        PROVE  q \in Unanswered
    BY <1>0, <1>4, <2>1 DEF RememberStep, Unanswered, Said, Chatting
  <2>2. Unanswered' \subseteq Unanswered
    BY <2>1 DEF Unanswered
  <2> QED BY <1>4, <2>2 DEF RememberStep, SaidLast
<1> QED BY <1>1, <1>2, <1>3, <1>4, HistorySteps

LEMMA SaidPairsStep ==
  ASSUME ControlInv, NothingSaid, SaidOnly, SaidLast, SaidPairs, [Next]_vars
  PROVE  SaidPairs'
<1>0. /\ pc \in [Runs -> Steps] /\ role \in [Runs -> {"user", "assistant"}]
      /\ outcome \in [Runs -> {"none", "ok", "error", "never", "lost"}] /\ older \subseteq Runs
      /\ Transcript \in Seq(Messages) /\ latest \in Seq(Messages)
      /\ Len(Transcript) \in Nat /\ Len(latest) \in Nat
      /\ \A k \in 1 .. Len(Transcript) : Transcript[k] \in Messages
      /\ \A k \in 1 .. Len(latest) : latest[k] \in Messages
      /\ \A m \in Messages : m.run \in Runs /\ m.role \in {"user", "assistant"}
  BY HistoryTypes
<1>1. CASE Quiet
  <2>1. ASSUME NEW q \in Runs
        PROVE  /\ q \in Excused => q \in Excused'
               /\ q \in Unanswered => q \in Unanswered' \union Excused'
    <3>1. Stays(q) \/ Advances(q) \/ SumsUp(q) \/ Fails(q) \/ Succeeds(q) \/ EndsUntold(q) \/ Answers(q)
      BY <1>1 DEF Quiet
    <3>2. outcome[q] \in {"error", "never", "lost"} => pc[q] \in Over
      BY DEF ControlInv, Outcomes
    <3>3. older' = older
      BY <1>1 DEF Quiet
    <3>4. q \in Excused => q \in Excused'
      BY <3>1, <3>2, <3>3 DEF Excused, Stays, Advances, SumsUp, Fails, Succeeds, EndsUntold, Answers, Over, Chatting
    <3>5. q \in Unanswered => q \in Unanswered' \/ outcome'[q] \in {"error", "never"}
      BY <3>1 DEF Unanswered, Said, Stays, Advances, SumsUp, Fails, Succeeds, EndsUntold, Answers, Over, Chatting
    <3> QED BY <3>4, <3>5 DEF Excused
  <2>2. \A k \in 1 .. Len(Transcript) : Transcript[k].run \in Runs
    BY <1>0
  <2>3. Pairs(Transcript, Unanswered', Excused')
    BY <2>1, <2>2, PairsMono DEF SaidPairs
  <2> QED BY <1>1, <2>3 DEF Quiet, SaidPairs
<1>2. CASE Ends
  <2>1. \A k \in 1 .. Len(Transcript) : Transcript[k].run \in Excused'
    BY <1>0, <1>2 DEF Ends, SaidOnly, Excused, Over, Chatting
  <2>2. /\ Transcript' \in Seq(Messages) /\ Len(Transcript') <= Len(Transcript)
        /\ \A k \in 1 .. Len(Transcript') : Transcript'[k] = Transcript[k]
    BY <1>2 DEF Ends
  <2>3. Pairs(Transcript, Unanswered, Excused)
    BY DEF SaidPairs
  <2>4. Pairs(Transcript', Unanswered', Excused')
    BY <1>0, <2>1, <2>2, <2>3, PairsPrefix
  <2> QED BY <2>4 DEF SaidPairs
<1>3. ASSUME NEW r \in Runs, SayStep(r) PROVE SaidPairs'
  <2>1. /\ Message(r) \in Messages /\ Message(r).run = r /\ Message(r).role = role[r]
        /\ Message(r) = [role |-> role[r], run |-> r]
    BY MessageType
  <2>2. CASE summaryCnt = 0
    <3>1. Transcript = <<>> /\ Transcript' = Transcript
      BY <1>3, <2>2 DEF SayStep, NothingSaid
    <3>2. Len(Transcript') = 0
      BY <3>1
    <3> QED BY <3>2 DEF SaidPairs, Pairs
  <2>3. CASE summaryCnt # 0
    <3> DEFINE n == Len(Transcript) + 1
    <3>1. /\ Transcript' = Append(Transcript, Message(r))
          /\ Len(Transcript') = n /\ Transcript'[n] = Message(r)
          /\ \A k \in 1 .. Len(Transcript) : Transcript'[k] = Transcript[k]
      BY <1>0, <1>3, <2>1, <2>3, AppendProperties DEF SayStep
    <3>2. /\ \A q \in Runs : pc[q] \in Chatting => q = r
          /\ summaryCnt \in Nat /\ role[r] \in {"user", "assistant"}
      BY <1>3, OnlyOneSpeaks DEF SayStep
    <3>3. Pairs(Transcript, Unanswered, Excused) /\ Excused' = Excused
      BY <1>3 DEF SayStep, SaidPairs, Excused
    <3>4. CASE role[r] = "user"
      <4>1. Unanswered = {}
        BY <1>3, <3>2, <3>4 DEF SayStep, Unanswered, Said
      <4>2. r \in Unanswered'
        BY <1>0, <1>3, <3>4 DEF SayStep, Unanswered, Said, Chatting
      <4>3. Transcript' = Append(Transcript, [role |-> "user", run |-> r])
        BY <2>1, <3>1, <3>4
      <4>4. Pairs(Transcript, {}, Excused)
        BY <3>3, <4>1
      <4>5. Pairs(Append(Transcript, [role |-> "user", run |-> r]), Unanswered', Excused)
        BY <1>0, <4>2, <4>4, PairsAppendUser
      <4> QED BY <3>3, <4>3, <4>5 DEF SaidPairs
    <3>5. CASE role[r] = "assistant"
      <4>1. r \in Unanswered
        BY <1>3, <3>5 DEF SayStep, Unanswered, Said, Chatting
      <4>2. Transcript[Len(Transcript)] = [role |-> "user", run |-> r]
        BY <2>3, <3>2, <4>1 DEF SaidLast
      <4>3. Transcript' = Append(Transcript, [role |-> "assistant", run |-> r])
        BY <2>1, <3>1, <3>5
      <4>4. Pairs(Append(Transcript, [role |-> "assistant", run |-> r]), Unanswered', Excused)
        BY <1>0, <3>3, <4>2, PairsAppendReply
      <4> QED BY <3>3, <4>3, <4>4 DEF SaidPairs
    <3> QED BY <3>2, <3>4, <3>5
  <2> QED BY <2>2, <2>3
<1>4. ASSUME NEW r \in Runs, RememberStep(r) PROVE SaidPairs'
  <2>1. ASSUME NEW q \in Runs, q \in Unanswered
        PROVE  pc'[q] \in Chatting /\ Said(q, "user")' /\ ~Said(q, "assistant")'
    <3>1. pc[q] \in Chatting /\ Said(q, "user") /\ ~Said(q, "assistant")
      BY <2>1 DEF Unanswered
    <3> QED BY <1>0, <1>4, <3>1 DEF RememberStep, Said, Chatting
  <2>2. Unanswered \subseteq Unanswered'
    BY <2>1 DEF Unanswered
  <2>3. Excused' = Excused /\ Transcript' = Transcript
    BY <1>4 DEF RememberStep, Excused
  <2>4. Pairs(Transcript, Unanswered', Excused')
    BY <2>2, <2>3, PairsMono DEF SaidPairs
  <2> QED BY <2>3, <2>4 DEF SaidPairs
<1> QED BY <1>1, <1>2, <1>3, <1>4, HistorySteps

-----------------------------------------------------------------------------
(* The history: the latest messages                                        *)

LEMMA Remembering ==
  ASSUME ControlInv, NEW r \in Runs, RememberStep(r)
  PROVE  /\ Append(latest, Message(r)) \in Seq(Messages) /\ Append(latest, Message(r)) # <<>>
         /\ \A k \in 1 .. Len(latest') :
              latest'[k] = Message(r) \/ \E j \in 1 .. Len(latest) : latest'[k] = latest[j]
         /\ Len(latest') > 0 => latest'[Len(latest')] = Message(r)
<1> DEFINE all == Append(latest, Message(r))
<1>1. latest \in Seq(Messages) /\ Message(r) \in Messages /\ Len(latest) \in Nat
  BY HistoryTypes, MessageType
<1>2. /\ all \in Seq(Messages) /\ all # <<>> /\ Len(all) = Len(latest) + 1
      /\ \A k \in 1 .. Len(latest) : all[k] = latest[k]
      /\ all[Len(latest) + 1] = Message(r)
  BY <1>1, AppendProperties
<1>3. latest' \in {all, Tail(all)}
  BY DEF RememberStep
<1> HIDE DEF all
<1>4. /\ Len(Tail(all)) = Len(all) - 1
      /\ \A k \in 1 .. Len(Tail(all)) : Tail(all)[k] = all[k + 1]
  BY <1>2, HeadTailProperties
<1>5. CASE latest' = all
  BY <1>1, <1>2, <1>5 DEF all
<1>6. CASE latest' = Tail(all)
  <2>1. Len(latest') = Len(latest)
    BY <1>1, <1>2, <1>4, <1>6
  <2>2. \A k \in 1 .. Len(latest) : latest'[k] = all[k + 1] /\ k + 1 \in 1 .. Len(latest) + 1
    BY <1>1, <1>4, <1>6, <2>1
  <2>3. \A k \in 1 .. Len(latest) : k + 1 \in 1 .. Len(latest) \/ k + 1 = Len(latest) + 1
    BY <1>1
  <2> QED BY <1>1, <1>2, <2>1, <2>2, <2>3 DEF all
<1> QED BY <1>2, <1>3, <1>5, <1>6 DEF all

LEMMA RememberedOnlyStep ==
  ASSUME ControlInv, RememberedOnly, [Next]_vars
  PROVE  RememberedOnly'
<1>0. /\ pc \in [Runs -> Steps] /\ role \in [Runs -> {"user", "assistant"}]
      /\ outcome \in [Runs -> {"none", "ok", "error", "never", "lost"}] /\ older \subseteq Runs
      /\ Transcript \in Seq(Messages) /\ latest \in Seq(Messages)
      /\ Len(Transcript) \in Nat /\ Len(latest) \in Nat
      /\ \A k \in 1 .. Len(Transcript) : Transcript[k] \in Messages
      /\ \A k \in 1 .. Len(latest) : latest[k] \in Messages
      /\ \A m \in Messages : m.run \in Runs /\ m.role \in {"user", "assistant"}
  BY HistoryTypes
<1>1. CASE Quiet
  <2> SUFFICES ASSUME NEW k \in 1 .. Len(latest)
               PROVE  \/ pc'[latest[k].run] \in Over
                      \/ /\ pc'[latest[k].run] \in Chatting
                         /\ \/ pc'[latest[k].run] = "replicate"
                            \/ latest[k].role = "user" /\ role'[latest[k].run] = "assistant"
    BY <1>1 DEF Quiet, RememberedOnly, Remembered
  <2> DEFINE q == latest[k].run
  <2>1. q \in Runs
    BY <1>0
  <2>2. pc[q] \in Over \/ (pc[q] \in Chatting /\ Remembered(q, latest[k].role))
    BY DEF RememberedOnly
  <2>3. Stays(q) \/ Advances(q) \/ SumsUp(q) \/ Fails(q) \/ Succeeds(q) \/ EndsUntold(q) \/ Answers(q)
    BY <1>1, <2>1 DEF Quiet
  <2> HIDE DEF q
  <2> QED BY <2>2, <2>3 DEF Remembered, Stays, Advances, SumsUp, Fails, Succeeds, EndsUntold, Answers, Over, Chatting, q
<1>2. CASE Ends
  <2>1. Len(latest') = 0
    BY <1>2 DEF Ends
  <2> QED BY <2>1 DEF RememberedOnly
<1>3. ASSUME NEW r \in Runs, SayStep(r) PROVE RememberedOnly'
  <2> SUFFICES ASSUME NEW k \in 1 .. Len(latest)
               PROVE  \/ pc'[latest[k].run] \in Over
                      \/ /\ pc'[latest[k].run] \in Chatting
                         /\ Remembered(latest[k].run, latest[k].role)'
    BY <1>3 DEF SayStep, RememberedOnly, Remembered
  <2> QED BY <1>0, <1>3 DEF SayStep, RememberedOnly, Remembered, Over, Chatting
<1>4. ASSUME NEW r \in Runs, RememberStep(r) PROVE RememberedOnly'
  <2>1. ASSUME NEW m \in Messages,
               m = Message(r) \/ \E j \in 1 .. Len(latest) : m = latest[j]
        PROVE  \/ pc'[m.run] \in Over
               \/ pc'[m.run] \in Chatting /\ Remembered(m.run, m.role)'
    <3>1. CASE m = Message(r)
      <4>1. m.run = r /\ m.role = role[r]
        BY <3>1, MessageType
      <4> QED BY <1>0, <1>4, <4>1 DEF RememberStep, Remembered, Chatting
    <3>2. CASE \E j \in 1 .. Len(latest) : m = latest[j]
      <4>1. \/ pc[m.run] \in Over
            \/ pc[m.run] \in Chatting /\ Remembered(m.run, m.role)
        BY <3>2 DEF RememberedOnly
      <4>2. m.run \in Runs
        BY <1>0
      <4> QED BY <1>0, <1>4, <4>1, <4>2 DEF RememberStep, Remembered, Over, Chatting
    <3> QED BY <2>1, <3>1, <3>2
  <2> SUFFICES ASSUME NEW k \in 1 .. Len(latest')
               PROVE  LET m == latest'[k] IN
                      \/ pc'[m.run] \in Over
                      \/ /\ pc'[m.run] \in Chatting
                         /\ \/ pc'[m.run] = "replicate"
                            \/ m.role = "user" /\ role'[m.run] = "assistant"
    BY DEF RememberedOnly, Remembered
  <2>2. latest'[k] = Message(r) \/ \E j \in 1 .. Len(latest) : latest'[k] = latest[j]
    BY <1>4, Remembering
  <2>3. latest'[k] \in Messages
    BY <1>0, <2>2, MessageType
  <2> QED BY <2>1, <2>2, <2>3 DEF Remembered
<1> QED BY <1>1, <1>2, <1>3, <1>4, HistorySteps

LEMMA RememberedLastStep ==
  ASSUME ControlInv, RememberedLast, [Next]_vars
  PROVE  RememberedLast'
<1>0. /\ pc \in [Runs -> Steps] /\ role \in [Runs -> {"user", "assistant"}]
      /\ outcome \in [Runs -> {"none", "ok", "error", "never", "lost"}] /\ older \subseteq Runs
      /\ Transcript \in Seq(Messages) /\ latest \in Seq(Messages)
      /\ Len(Transcript) \in Nat /\ Len(latest) \in Nat
      /\ \A k \in 1 .. Len(Transcript) : Transcript[k] \in Messages
      /\ \A k \in 1 .. Len(latest) : latest[k] \in Messages
      /\ \A m \in Messages : m.run \in Runs /\ m.role \in {"user", "assistant"}
  BY HistoryTypes
<1>1. CASE Quiet
  <2>1. ASSUME NEW q \in Runs, pc'[q] \in Chatting /\ Remembered(q, "user")' /\ ~Remembered(q, "assistant")'
        PROVE  q \in Unremembered
    <3>1. Stays(q) \/ Advances(q) \/ SumsUp(q) \/ Fails(q) \/ Succeeds(q) \/ EndsUntold(q) \/ Answers(q)
      BY <1>1 DEF Quiet
    <3> QED BY <2>1, <3>1 DEF Unremembered, Remembered, Stays, Advances, SumsUp, Fails, Succeeds, EndsUntold, Answers, Over, Chatting
  <2>2. Unremembered' \subseteq Unremembered
    BY <2>1 DEF Unremembered
  <2> QED BY <1>1, <2>2 DEF Quiet, RememberedLast
<1>2. CASE Ends
  <2>1. Len(latest') = 0
    BY <1>2 DEF Ends
  <2> QED BY <2>1 DEF RememberedLast
<1>3. ASSUME NEW r \in Runs, SayStep(r) PROVE RememberedLast'
  <2>1. ASSUME NEW q \in Runs, pc'[q] \in Chatting /\ Remembered(q, "user")' /\ ~Remembered(q, "assistant")'
        PROVE  q \in Unremembered
    BY <1>0, <1>3, <2>1 DEF SayStep, Unremembered, Remembered, Chatting
  <2>2. Unremembered' \subseteq Unremembered
    BY <2>1 DEF Unremembered
  <2> QED BY <1>3, <2>2 DEF SayStep, RememberedLast
<1>4. ASSUME NEW r \in Runs, RememberStep(r) PROVE RememberedLast'
  <2>1. \A q \in Runs : pc'[q] \in Chatting => q = r
    BY <1>0, <1>4, OnlyOneSpeaks DEF RememberStep, Chatting
  <2>2. CASE role[r] = "user"
    <3>1. Message(r) = [role |-> "user", run |-> r]
      BY <2>2, MessageType
    <3>2. \A q \in Unremembered' : q = r
      BY <2>1 DEF Unremembered
    <3>3. Len(latest') > 0 => latest'[Len(latest')] = Message(r)
      BY <1>4, Remembering
    <3> QED BY <3>1, <3>2, <3>3 DEF RememberedLast
  <2>3. CASE role[r] # "user"
    <3>1. Remembered(r, "assistant")'
      BY <1>0, <1>4, <2>3 DEF RememberStep, Remembered
    <3>2. Unremembered' = {}
      BY <2>1, <3>1 DEF Unremembered
    <3> QED BY <3>2 DEF RememberedLast
  <2> QED BY <2>2, <2>3
<1> QED BY <1>1, <1>2, <1>3, <1>4, HistorySteps

LEMMA RememberedPairsStep ==
  ASSUME ControlInv, RememberedLast, RememberedPairs, [Next]_vars
  PROVE  RememberedPairs'
<1>0. /\ pc \in [Runs -> Steps] /\ role \in [Runs -> {"user", "assistant"}]
      /\ outcome \in [Runs -> {"none", "ok", "error", "never", "lost"}] /\ older \subseteq Runs
      /\ Transcript \in Seq(Messages) /\ latest \in Seq(Messages)
      /\ Len(Transcript) \in Nat /\ Len(latest) \in Nat
      /\ \A k \in 1 .. Len(Transcript) : Transcript[k] \in Messages
      /\ \A k \in 1 .. Len(latest) : latest[k] \in Messages
      /\ \A m \in Messages : m.run \in Runs /\ m.role \in {"user", "assistant"}
  BY HistoryTypes
<1>1. CASE Quiet
  <2>1. ASSUME NEW q \in Runs
        PROVE  /\ q \in Excused => q \in Excused'
               /\ q \in Unremembered => q \in Unremembered' \union Excused'
    <3>1. Stays(q) \/ Advances(q) \/ SumsUp(q) \/ Fails(q) \/ Succeeds(q) \/ EndsUntold(q) \/ Answers(q)
      BY <1>1 DEF Quiet
    <3>2. outcome[q] \in {"error", "never", "lost"} => pc[q] \in Over
      BY DEF ControlInv, Outcomes
    <3>3. older' = older
      BY <1>1 DEF Quiet
    <3>4. q \in Excused => q \in Excused'
      BY <3>1, <3>2, <3>3 DEF Excused, Stays, Advances, SumsUp, Fails, Succeeds, EndsUntold, Answers, Over, Chatting
    <3>5. q \in Unremembered => q \in Unremembered' \/ outcome'[q] \in {"error", "never"}
      BY <3>1 DEF Unremembered, Remembered, Stays, Advances, SumsUp, Fails, Succeeds, EndsUntold, Answers, Over, Chatting
    <3> QED BY <3>4, <3>5 DEF Excused
  <2>2. \A k \in 1 .. Len(latest) : latest[k].run \in Runs
    BY <1>0
  <2>3. Pairs(latest, Unremembered', Excused')
    BY <2>1, <2>2, PairsMono DEF RememberedPairs
  <2> QED BY <1>1, <2>3 DEF Quiet, RememberedPairs
<1>2. CASE Ends
  <2>1. Len(latest') = 0
    BY <1>2 DEF Ends
  <2> QED BY <2>1 DEF RememberedPairs, Pairs
<1>3. ASSUME NEW r \in Runs, SayStep(r) PROVE RememberedPairs'
  <2>1. ASSUME NEW q \in Runs, q \in Unremembered
        PROVE  pc'[q] \in Chatting /\ Remembered(q, "user")' /\ ~Remembered(q, "assistant")'
    <3>1. pc[q] \in Chatting /\ Remembered(q, "user") /\ ~Remembered(q, "assistant")
      BY <2>1 DEF Unremembered
    <3> QED BY <1>0, <1>3, <3>1 DEF SayStep, Remembered, Chatting
  <2>2. Unremembered \subseteq Unremembered'
    BY <2>1 DEF Unremembered
  <2>3. Excused' = Excused /\ latest' = latest
    BY <1>3 DEF SayStep, Excused
  <2>4. Pairs(latest, Unremembered', Excused')
    BY <2>2, <2>3, PairsMono DEF RememberedPairs
  <2> QED BY <2>3, <2>4 DEF RememberedPairs
<1>4. ASSUME NEW r \in Runs, RememberStep(r) PROVE RememberedPairs'
  <2> DEFINE all == Append(latest, Message(r))
  <2>1. all \in Seq(Messages) /\ all # <<>> /\ latest' \in {all, Tail(all)}
    BY <1>4, Remembering DEF RememberStep
  <2>2. /\ \A q \in Runs : pc[q] \in Chatting => q = r
        /\ role[r] \in {"user", "assistant"}
    BY <1>4, OnlyOneSpeaks DEF RememberStep
  <2>3. Pairs(latest, Unremembered, Excused) /\ Excused' = Excused
    BY <1>4 DEF RememberStep, RememberedPairs, Excused
  <2>4. Pairs(all, Unremembered', Excused)
    <3>1. CASE role[r] = "user"
      <4>1. Unremembered = {}
        BY <1>4, <2>2, <3>1 DEF RememberStep, Unremembered, Remembered
      <4>2. r \in Unremembered'
        BY <1>0, <1>4, <3>1 DEF RememberStep, Unremembered, Remembered, Chatting
      <4>3. all = Append(latest, [role |-> "user", run |-> r])
        BY <3>1, MessageType
      <4>4. Pairs(latest, {}, Excused)
        BY <2>3, <4>1
      <4>5. Pairs(Append(latest, [role |-> "user", run |-> r]), Unremembered', Excused)
        BY <1>0, <4>2, <4>4, PairsAppendUser
      <4> QED BY <4>3, <4>5
    <3>2. CASE role[r] = "assistant"
      <4>1. r \in Unremembered
        BY <1>4, <3>2 DEF RememberStep, Unremembered, Remembered, Chatting
      <4>2. Len(latest) > 0 => latest[Len(latest)] = [role |-> "user", run |-> r]
        BY <4>1 DEF RememberedLast
      <4>3. all = Append(latest, [role |-> "assistant", run |-> r])
        BY <3>2, MessageType
      <4>4. Pairs(Append(latest, [role |-> "assistant", run |-> r]), Unremembered', Excused)
        BY <1>0, <2>3, <4>2, PairsAppendReply
      <4> QED BY <4>3, <4>4
    <3> QED BY <2>2, <3>1, <3>2
  <2> HIDE DEF all
  <2>5. Pairs(Tail(all), Unremembered', Excused)
    BY <2>1, <2>4, PairsTail
  <2>6. Pairs(latest', Unremembered', Excused)
    BY <2>1, <2>4, <2>5
  <2> QED BY <2>3, <2>6 DEF RememberedPairs
<1> QED BY <1>1, <1>2, <1>3, <1>4, HistorySteps

-----------------------------------------------------------------------------
(* The history: what follows                                               *)

LEMMA HistoryInit == Init => HistoryInv
<1> SUFFICES ASSUME Init PROVE HistoryInv
  OBVIOUS
<1>1. Transcript = <<>> /\ Len(Transcript) = 0 /\ latest = <<>> /\ Len(latest) = 0
  <2>1. summed = <<>> /\ pending = <<>> /\ latest = <<>>
    BY DEF Init
  <2>2. <<>> \in Seq(Messages)
    OBVIOUS
  <2>3. <<>> \o <<>> = <<>>
    BY <2>2, ConcatEmptySeq
  <2> QED BY <2>1, <2>3 DEF Transcript
<1>2. \A r \in Runs : pc[r] = "out" /\ outcome[r] = "none"
  BY DEF Init
<1>3. SaidThere
  BY <1>2, HistoryTypes DEF SaidThere, Chatting, Kept, Messages
<1>4. Unanswered = {} /\ Unremembered = {}
  BY <1>2 DEF Unanswered, Unremembered, Chatting
<1> QED BY <1>1, <1>3, <1>4
  DEF HistoryInv, NothingSaid, SaidOnly, SaidOnce, SaidLast, SaidPairs, RememberedOnly,
      RememberedLast, RememberedPairs, Pairs

LEMMA HistoryStep == ASSUME ControlInv, HistoryInv, [Next]_vars PROVE HistoryInv'
BY NothingSaidStep, SaidOnlyStep, SaidOnceStep, SaidThereStep, SaidLastStep, SaidPairsStep,
   RememberedOnlyStep, RememberedLastStep, RememberedPairsStep DEF HistoryInv

LEMMA PairsMeans ==
  ASSUME ControlInv, NEW s, NEW o,
         \A k \in 1 .. Len(s) : s[k].run \in Runs,
         \A q \in o : q \in Runs /\ pc[q] \in Chatting,
         Pairs(s, o, Excused)
  PROVE  InPairs(s)
<1>1. \A q \in Runs : Kept(q) => q \notin Excused /\ q \notin o
  BY DEF Kept, Excused, ControlInv, Outcomes, Chatting, Over
<1> QED BY <1>1 DEF Pairs, InPairs

(* No message is summarized twice, none of an answered run is missing,     *)
(* whatever fails in between: SummarizedOnce.                              *)
THEOREM AllSummarizedOnce == Spec => []SummarizedOnce
<1>1. Init => ControlInv /\ HistoryInv
  BY InitControl, HistoryInit
<1>2. ControlInv /\ HistoryInv /\ [Next]_vars => (ControlInv /\ HistoryInv)'
  BY ControlStep, HistoryStep
<1>3. ControlInv /\ HistoryInv => SummarizedOnce
  <2> SUFFICES ASSUME ControlInv, HistoryInv PROVE SummarizedOnce
    OBVIOUS
  <2>1. Transcript \in Seq(Messages) /\ DOMAIN Transcript = 1 .. Len(Transcript)
    BY HistoryTypes
  <2>2. IsInjective(Transcript)
    BY <2>1 DEF HistoryInv, SaidOnce, IsInjective
  <2>3. ASSUME kind = "chat", summaryCnt > 0, NEW m \in Messages, Kept(m.run)
        PROVE  m \in Range(Transcript)
    <3>1. InTranscript(m)
      BY <2>3 DEF HistoryInv, SaidThere
    <3> QED BY <2>1, <3>1 DEF InTranscript, Range
  <2> QED BY <2>2, <2>3 DEF SummarizedOnce
<1> QED BY <1>1, <1>2, <1>3, PTL DEF Spec

(* The messages of two runs never mix, in what is summarized and in the    *)
(* latest messages: RunsNotMixed.                                          *)
THEOREM RunsStaySeparate == Spec => []RunsNotMixed
<1>1. Init => ControlInv /\ HistoryInv
  BY InitControl, HistoryInit
<1>2. ControlInv /\ HistoryInv /\ [Next]_vars => (ControlInv /\ HistoryInv)'
  BY ControlStep, HistoryStep
<1>3. ControlInv /\ HistoryInv => RunsNotMixed
  <2> SUFFICES ASSUME ControlInv, HistoryInv PROVE RunsNotMixed
    OBVIOUS
  <2>1. /\ \A k \in 1 .. Len(Transcript) : Transcript[k].run \in Runs
        /\ \A k \in 1 .. Len(latest) : latest[k].run \in Runs
    BY HistoryTypes
  <2>2. /\ \A q \in Unanswered : q \in Runs /\ pc[q] \in Chatting
        /\ \A q \in Unremembered : q \in Runs /\ pc[q] \in Chatting
    BY DEF Unanswered, Unremembered
  <2>3. Pairs(Transcript, Unanswered, Excused) /\ Pairs(latest, Unremembered, Excused)
    BY DEF HistoryInv, SaidPairs, RememberedPairs
  <2>4. InPairs(Transcript)
    BY <2>1, <2>2, <2>3, PairsMeans
  <2>5. InPairs(latest)
    BY <2>1, <2>2, <2>3, PairsMeans
  <2> QED BY <2>4, <2>5 DEF RunsNotMixed
<1> QED BY <1>1, <1>2, <1>3, PTL DEF Spec

==============================================================================
