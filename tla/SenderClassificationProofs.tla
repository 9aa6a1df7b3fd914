--------------------- MODULE SenderClassificationProofs ---------------------
(***************************************************************************)
(* Proofs about SenderClassification, for any senders, labels, chunk size,  *)
(* number of attempts, of runs and of items in an answer.                   *)
(*                                                                         *)
(* The inductive invariant IInv adds to the properties themselves           *)
(*   CacheIsHeard - CacheIsSaid, and the same of a cached null,             *)
(*   RunIsFine    - what a run has in hand: positions that fit the answer,  *)
(*                  labels the LLM gave these very samples, and the senders *)
(*                  it is through with.                                     *)
(* Alone is what holds on top of it as long as no two runs overlap.         *)
(***************************************************************************)
EXTENDS SenderClassification, FiniteSetTheorems, WellFoundedInduction, TLAPS

\* The LLM said l of this sender with this sample, if l is a thing it says.
SaidOf(s, v, l) == l \in Labels \cup {"null"} => <<s, v, l>> \in said

Labelled(s) == label[s] # "null" \/ \E x \in Asked(s) : x[3] = "null"

CacheIsHeard == \A s \in Senders, v \in Versions : SaidOf(s, v, cache[<<s, v>>])

\* A sender of the chunk in hand.
HandIsFine(p, s) ==
    /\ Rank(run[p].chunk, s) < ChunkSize
    /\ run[p].given[s] = "none" => s \in run[p].todo
    /\ SaidOf(s, run[p].sample[s], run[p].given[s])
    /\ run[p].old[s] # "null" => Labelled(s)

RunIsFine(p) ==
    /\ run[p].left \cap run[p].chunk = {}
    /\ run[p].at \notin {"asking", "commit"} => run[p].chunk = {}
    /\ ~Active(p) => run[p].left = {}
    /\ run[p].todo \subseteq run[p].chunk
    /\ run[p].at # "asking" => run[p].todo = {}
    /\ \A s \in run[p].chunk : HandIsFine(p, s)
    /\ \A s \in run[p].all \ (run[p].left \cup run[p].chunk) : Labelled(s)

RunsAreFine == \A p \in Runs : RunIsFine(p)

IInv == TypeOK /\ LabelsAreSaid /\ CacheIsHeard /\ RunsAreFine

-----------------------------------------------------------------------------
(* Positions in a chunk and in an answer.                                   *)

\* A bounded set of positions has a last one: the CHOOSE of ByIdx finds it.
LEMMA LastPosition ==
    ASSUME NEW n \in Nat, NEW S \in SUBSET (1..n), S # {}
    PROVE  \E i \in S : \A j \in S : j <= i
<1> DEFINE T == {n - i : i \in S}
<1>1. T \subseteq Nat /\ T # {}
  <2>1. \A i \in S : i \in 1..n
    OBVIOUS
  <2>2. \A i \in 1..n : n - i \in Nat
    OBVIOUS
  <2>3. QED
    BY <2>1, <2>2
<1> HIDE DEF T
<1>2. \E x \in T : \A y \in T : ~(<<y, x>> \in OpToRel(<, Nat))
  BY <1>1, WFMin, NatLessThanWellFounded, Zenon
<1>3. PICK x \in T : \A y \in T : ~(y < x)
  BY <1>1, <1>2, Zenon DEF OpToRel
<1>4. PICK i \in S : x = n - i
  BY DEF T
<1>5. ASSUME NEW j \in S PROVE j <= i
  <2>1. n - j \in T
    BY DEF T
  <2>2. ~(n - j < n - i)
    BY <1>3, <1>4, <2>1
  <2>3. QED
    BY <2>2
<1>6. QED
  BY <1>5

\* Among fewer senders a sender does not come later.
LEMMA RankOfSubset ==
    ASSUME NEW S \in SUBSET Senders, NEW T \in SUBSET S, NEW s \in Senders
    PROVE  Rank(T, s) \in Nat /\ Rank(S, s) \in Nat /\ Rank(T, s) <= Rank(S, s)
<1> DEFINE Before(A) == {u \in A : u < s}
<1>1. IsFiniteSet(Before(S))
  <2>1. IsFiniteSet(Senders)
    BY FS_Interval, SenderAssumption DEF Senders
  <2>2. QED
    BY <2>1, FS_Subset
<1>2. Before(T) \in SUBSET Before(S)
  OBVIOUS
<1>3. /\ Cardinality(Before(S)) \in Nat /\ Cardinality(Before(T)) \in Nat
      /\ Cardinality(Before(T)) <= Cardinality(Before(S))
  BY <1>1, <1>2, FS_Subset, FS_CardinalityType
<1>4. QED
  BY <1>3 DEF Rank

\* What is read at an index of an answer: nothing, or a label used for it.
LEMMA ReadingFits ==
    ASSUME NEW r \in Readings, NEW idx \in 0..ChunkSize - 1
    PROVE  /\ r.all[idx] \subseteq Labels \cup {"null"}
           /\ r.byIdx[idx].label = "none" \/ r.byIdx[idx].label \in r.all[idx]
<1>1. PICK resp \in Responses : r = Reading(resp)
  BY DEF Readings
<1> DEFINE items == resp.items
           about == About(items, idx)
<1>2. PICK n \in Nat : /\ DOMAIN items \subseteq 1..n
                       /\ \A i \in DOMAIN items : items[i] \in Item
  <2>1. CASE resp \in [usable : {TRUE}, items : UNION {[1..n -> Item] : n \in 0..MaxItems}]
    <3>1. PICK n \in 0..MaxItems : items \in [1..n -> Item]
      BY <2>1
    <3>2. n \in Nat
      BY BoundAssumption
    <3> HIDE DEF items
    <3>3. DOMAIN items = 1..n /\ \A i \in 1..n : items[i] \in Item
      BY <3>1
    <3>4. QED
      BY <3>2, <3>3
  <2>2. CASE resp \in [usable : {FALSE}, items : {<<>>}]
    <3>1. items = <<>>
      BY <2>2
    <3>2. DOMAIN items \subseteq 1..0 /\ \A i \in DOMAIN items : items[i] \in Item
      BY <3>1
    <3>3. QED
      BY <3>2
  <2>3. QED
    BY <2>1, <2>2 DEF Responses
<1>3. \A i \in about : items[i].label \in Labels \cup {"none", "null"}
  <2> HIDE DEF items
  <2>1. ASSUME NEW x \in Item PROVE x.label \in Labels \cup {"none", "null"}
    <3>1. CASE x = NoDict
      BY <3>1 DEF NoDict
    <3>2. CASE x \in [dict : {TRUE}, index : -1..ChunkSize,
                      label : Labels \cup {"none", "null"}, numeric : BOOLEAN]
      BY <3>2
    <3>3. QED
      BY <3>1, <3>2 DEF Item
  <2>2. QED
    BY <1>2, <2>1 DEF About
<1>4. r.all[idx] = {items[i].label : i \in about} \ {"none"}
  BY <1>1 DEF Reading
<1>5. r.byIdx[idx] = ByIdx(items, idx)
  BY <1>1 DEF Reading
<1>6. about \in SUBSET (1..n)
  BY <1>2 DEF About
<1>7. CASE about = {}
  BY <1>4, <1>5, <1>7 DEF ByIdx, NoItem
<1>8. CASE about # {}
  <2> DEFINE i == CHOOSE i \in about : \A j \in about : j <= i
  <2>1. i \in about
    BY <1>6, <1>8, LastPosition
  <2>2. r.byIdx[idx].label = items[i].label
    BY <1>5, <1>8 DEF ByIdx
  <2> HIDE DEF i
  <2>3. QED
    BY <1>3, <1>4, <2>1, <2>2
<1>9. QED
  BY <1>7, <1>8

-----------------------------------------------------------------------------
(* The records a run may become.                                            *)

\* A run at rest has nothing in hand.
LEMMA EndedFields ==
    ASSUME NEW at \in {"done", "failed", "malformed"}
    PROVE  /\ Ended(at) \in Run
           /\ Ended(at).at = at
           /\ Ended(at).all = {} /\ Ended(at).left = {} /\ Ended(at).chunk = {}
           /\ Ended(at).todo = {}
<1>1. 0 \in 0..MaxAttempts /\ 0 \in Versions
  BY AttemptAssumption, BoundAssumption DEF Versions
<1>2. QED
  BY <1>1 DEF Ended, IdleRun, Nothing, Run, Stored

\* A run that is between two chunks, or through.
Between(at, all, left) == [IdleRun EXCEPT !.at = at, !.left = left, !.all = all]

\* It has nothing in hand either.
LEMMA BetweenFields ==
    ASSUME NEW at \in {"chunk", "done"}, NEW all, NEW left,
           all \subseteq Senders, left \subseteq Senders
    PROVE  /\ Between(at, all, left) \in Run
           /\ Between(at, all, left).at = at
           /\ Between(at, all, left).all = all /\ Between(at, all, left).left = left
           /\ Between(at, all, left).chunk = {} /\ Between(at, all, left).todo = {}
<1>1. 0 \in 0..MaxAttempts /\ 0 \in Versions
  BY AttemptAssumption, BoundAssumption DEF Versions
<1>2. QED
  BY <1>1 DEF Between, IdleRun, Nothing, Run, Stored

\* What a step does to the runs when it moves p to r.
Becomes(p, r) ==
    /\ run'[p] = r
    /\ \A q \in Runs : q # p => run'[q] = run[q]

\* What no step takes away: answers given, and senders that have theirs.
Grows ==
    /\ said \subseteq said'
    /\ \A s \in Senders : Labelled(s) => Labelled(s)'

\* The part of IInv that is about a run stays true of one that does not move.
LEMMA StillFine ==
    ASSUME TypeOK, NEW p \in Runs, RunIsFine(p), run'[p] = run[p], Grows
    PROVE  RunIsFine(p)'
<1>1. \A s \in Senders : Labelled(s) => Labelled(s)'
  BY DEF Grows
<1>2. /\ run[p].chunk \subseteq Senders /\ run[p].all \subseteq Senders
  BY DEF TypeOK, Run
<1>3. ASSUME NEW s \in run[p].chunk PROVE HandIsFine(p, s)'
  <2>1. HandIsFine(p, s)
    BY DEF RunIsFine
  <2>2. s \in Senders
    BY <1>2
  <2>3. QED
    BY <1>1, <2>1, <2>2 DEF HandIsFine, SaidOf, Grows
<1>4. ASSUME NEW s \in run[p].all \ (run[p].left \cup run[p].chunk) PROVE Labelled(s)'
  BY <1>1, <1>2 DEF RunIsFine
<1>5. QED
  BY <1>3, <1>4 DEF RunIsFine, Active

\* A run with nothing in hand is fine if the senders it is through with are.
LEMMA FineBetween ==
    ASSUME NEW p \in Runs, run'[p].chunk = {}, run'[p].todo = {},
           run'[p].at \notin {"chunk", "asking", "commit"} => run'[p].left = {},
           \A s \in run'[p].all \ run'[p].left : Labelled(s)'
    PROVE  RunIsFine(p)'
  BY DEF RunIsFine, Active

\* With label, answers and cache as they are only the run matters.
LEMMA OnlyRunMoves ==
    ASSUME IInv, UNCHANGED <<label, version, cache, said>>, starts' \in 0..MaxStarts,
           overlapped' \in BOOLEAN, run' \in [Runs -> Run],
           \A p \in Runs : run'[p] = run[p] \/ RunIsFine(p)'
    PROVE  IInv'
<1> USE DEF IInv
<1>1. TypeOK'
  BY DEF TypeOK
<1>2. LabelsAreSaid' /\ CacheIsHeard'
  BY DEF LabelsAreSaid, Asked, CacheIsHeard, SaidOf
<1>3. Grows
  BY DEF Grows, Labelled, Asked
<1>4. RunsAreFine'
  BY <1>3, StillFine DEF RunsAreFine
<1>5. QED
  BY <1>1, <1>2, <1>4

-----------------------------------------------------------------------------
(* One lemma per action.                                                    *)

\* A run that starts has everybody left whom the query returned.
LEMMA StartKeeps == ASSUME IInv, NEW p \in Runs, Start(p) PROVE IInv'
<1> DEFINE at == IF Unclassified = {} THEN "done" ELSE "chunk"
           r == Between(at, Unclassified, Unclassified)
<1>1. Unclassified \subseteq Senders
  BY DEF Unclassified
<1>2. run' = [run EXCEPT ![p] = r]
  BY DEF Start, Between
<1>3. at \in {"done", "chunk"} /\ (at = "done" => Unclassified = {})
  OBVIOUS
<1> HIDE DEF at
<1>4. /\ r \in Run /\ r.at = at /\ r.all = Unclassified /\ r.left = Unclassified
      /\ r.chunk = {} /\ r.todo = {}
  <2>1. at \in {"chunk", "done"}
    BY <1>3
  <2>2. QED
    BY <1>1, <2>1, BetweenFields
<1> HIDE DEF r
<1>5. run' \in [Runs -> Run] /\ run'[p] = r /\ \A q \in Runs : q # p => run'[q] = run[q]
  BY <1>2, <1>4 DEF IInv, TypeOK
<1>6. RunIsFine(p)'
  BY <1>3, <1>4, <1>5, FineBetween
<1>7. /\ UNCHANGED <<label, version, cache, said>> /\ starts' \in 0..MaxStarts
      /\ overlapped' \in BOOLEAN
  <2>1. UNCHANGED <<label, version, cache, said>> /\ starts' = starts + 1 /\ starts < MaxStarts
    BY DEF Start
  <2>2. starts' \in 0..MaxStarts
    BY <2>1, BoundAssumption DEF IInv, TypeOK
  <2>3. overlapped' \in BOOLEAN
    BY Zenon DEF Start
  <2>4. QED
    BY <2>1, <2>2, <2>3
<1>8. QED
  BY <1>5, <1>6, <1>7, OnlyRunMoves

\* A run that ends by an exception has nothing in hand and is through with nobody.
LEMMA EndedKeeps ==
    ASSUME IInv, NEW p \in Runs, NEW at \in {"failed", "malformed"},
           run' = [run EXCEPT ![p] = Ended(at)],
           UNCHANGED <<label, version, cache, said, starts, overlapped>>
    PROVE  IInv'
<1>1. /\ Ended(at) \in Run
      /\ Ended(at).at = at /\ Ended(at).all = {} /\ Ended(at).left = {} /\ Ended(at).chunk = {}
      /\ Ended(at).todo = {}
  BY EndedFields
<1>2. /\ run' \in [Runs -> Run] /\ run'[p] = Ended(at)
      /\ \A q \in Runs : q # p => run'[q] = run[q]
  BY <1>1 DEF IInv, TypeOK
<1>3. RunIsFine(p)'
  BY <1>1, <1>2, FineBetween
<1>4. starts' \in 0..MaxStarts /\ overlapped' \in BOOLEAN
  BY DEF IInv, TypeOK
<1>5. QED
  BY <1>2, <1>3, <1>4, OnlyRunMoves

\* The next chunk: ranks below ChunkSize, what the cache holds of these samples.
LEMMA LookupKeeps == ASSUME IInv, NEW p \in Runs, Lookup(p) PROVE IInv'
<1> DEFINE chunk == First(run[p].left)
           r == InHand(p, chunk)
<1> USE DEF IInv
<1>1. /\ run[p] \in Run /\ run[p].left \subseteq Senders /\ run[p].all \subseteq Senders
      /\ run[p].at = "chunk" /\ run[p].chunk = {} /\ RunIsFine(p)
  BY DEF Lookup, TypeOK, Run, RunsAreFine, RunIsFine
<1>2. chunk \subseteq run[p].left /\ chunk \subseteq Senders
  BY <1>1 DEF First
<1>3. \A s \in chunk : Rank(chunk, s) < ChunkSize
  <2> SUFFICES ASSUME NEW s \in chunk PROVE Rank(chunk, s) < ChunkSize
    OBVIOUS
  <2>1. /\ Rank(chunk, s) \in Nat /\ Rank(run[p].left, s) \in Nat
        /\ Rank(chunk, s) <= Rank(run[p].left, s)
    BY <1>1, <1>2, RankOfSubset
  <2>2. Rank(run[p].left, s) < ChunkSize
    BY DEF First
  <2>3. QED
    BY <2>1, <2>2, SenderAssumption
<1> HIDE DEF chunk
<1>4. Uncached(chunk) \subseteq chunk
  BY DEF Uncached
<1>5. \A s \in Senders : version[s] \in Versions /\ label[s] \in Stored
                          /\ cache[<<s, version[s]>>] \in Stored \cup {"none"}
  BY DEF TypeOK
<1>6. 0 \in 0..MaxAttempts /\ 0 \in Versions
  BY AttemptAssumption, BoundAssumption DEF Versions
<1>7. r \in Run
  <2>1. [s \in Senders |-> IF s \in chunk /\ run[p].left # run[p].all THEN label[s] ELSE "null"]
            \in [Senders -> Stored]
    BY <1>5 DEF Stored
  <2>2. [s \in Senders |-> IF s \in chunk THEN version[s] ELSE 0] \in [Senders -> Versions]
    BY <1>5, <1>6
  <2>3. [s \in Senders |-> IF s \in chunk THEN cache[<<s, version[s]>>] ELSE "none"]
            \in [Senders -> Stored \cup {"none"}]
    BY <1>5
  <2>4. QED
    BY <1>1, <1>2, <1>4, <1>6, <2>1, <2>2, <2>3 DEF InHand, Run
<1>8. /\ r.at = (IF Uncached(chunk) = {} THEN "commit" ELSE "asking")
      /\ r.all = run[p].all /\ r.left = run[p].left \ chunk /\ r.chunk = chunk
      /\ r.todo = Uncached(chunk)
      /\ \A s \in chunk : /\ r.sample[s] = version[s]
                          /\ r.given[s] = cache[<<s, version[s]>>]
                          /\ r.old[s] # "null" => r.old[s] = label[s]
  BY <1>1, <1>2 DEF InHand, Run
<1> HIDE DEF r
<1>9. /\ run' = [run EXCEPT ![p] = r]
      /\ UNCHANGED <<label, version, cache, said, starts, overlapped>>
  BY DEF Lookup, r, chunk
<1>10. run' \in [Runs -> Run] /\ run'[p] = r /\ \A q \in Runs : q # p => run'[q] = run[q]
  BY <1>7, <1>9 DEF TypeOK
<1>11. ASSUME NEW s \in chunk PROVE HandIsFine(p, s)'
  <2>1. s \in Senders
    BY <1>2
  <2>2. Rank(run'[p].chunk, s) < ChunkSize
    BY <1>3, <1>8, <1>10
  <2>3. run'[p].given[s] = "none" => s \in run'[p].todo
    BY <1>8, <1>10 DEF Uncached
  <2>4. SaidOf(s, version[s], cache[<<s, version[s]>>])
    BY <2>1, <1>5 DEF CacheIsHeard
  <2>5. SaidOf(s, run[p].sample[s], run[p].given[s])'
    BY <1>8, <1>9, <1>10, <2>4 DEF SaidOf
  <2>6. run'[p].old[s] # "null" => Labelled(s)'
    BY <1>8, <1>9, <1>10 DEF Labelled
  <2>7. QED
    BY <2>2, <2>3, <2>5, <2>6 DEF HandIsFine
<1>12. ASSUME NEW s \in run'[p].all \ (run'[p].left \cup run'[p].chunk) PROVE Labelled(s)'
  <2>1. s \in run[p].all \ (run[p].left \cup run[p].chunk)
    BY <1>1, <1>2, <1>8, <1>10
  <2>2. QED
    BY <2>1, <1>1, <1>9 DEF RunIsFine, Labelled, Asked
<1>13. RunIsFine(p)'
  BY <1>4, <1>8, <1>10, <1>11, <1>12 DEF RunIsFine, Active
<1>14. starts' \in 0..MaxStarts /\ overlapped' \in BOOLEAN
  BY <1>9 DEF TypeOK
<1>15. QED
  BY <1>9, <1>10, <1>13, <1>14, OnlyRunMoves

\* A retry changes nothing but their number.
LEMMA AttemptFailsKeeps == ASSUME IInv, NEW p \in Runs, AttemptFails(p) PROVE IInv'
<1> USE DEF IInv
<1>1. CASE ~(run[p].tries + 1 < MaxAttempts)
  BY <1>1, EndedKeeps DEF AttemptFails
<1>2. CASE run[p].tries + 1 < MaxAttempts
  <2> DEFINE r == Retried(p)
  <2>1. run[p] \in Run
    BY DEF TypeOK
  <2>2. run[p].tries + 1 \in 0..MaxAttempts
    BY <1>2, <2>1, AttemptAssumption DEF Run
  <2>3. r \in Run
    BY <2>1, <2>2 DEF Retried, Run
  <2>4. /\ r.at = run[p].at /\ r.all = run[p].all /\ r.left = run[p].left
        /\ r.chunk = run[p].chunk /\ r.todo = run[p].todo /\ r.sample = run[p].sample
        /\ r.old = run[p].old /\ r.given = run[p].given
    BY <2>1 DEF Retried, Run
  <2>5. /\ run' = [run EXCEPT ![p] = r]
        /\ UNCHANGED <<label, version, cache, said, starts, overlapped>>
    BY <1>2 DEF AttemptFails
  <2> HIDE DEF r
  <2>6. run' \in [Runs -> Run] /\ run'[p] = r /\ \A q \in Runs : q # p => run'[q] = run[q]
    BY <2>3, <2>5 DEF TypeOK
  <2>7. RunIsFine(p)
    BY DEF RunsAreFine
  <2>8. ASSUME NEW s \in run[p].chunk PROVE HandIsFine(p, s)'
    BY <2>4, <2>5, <2>6, <2>7 DEF RunIsFine, HandIsFine, SaidOf, Labelled, Asked
  <2>9. ASSUME NEW s \in run[p].all \ (run[p].left \cup run[p].chunk) PROVE Labelled(s)'
    BY <2>5, <2>7 DEF RunIsFine, Labelled, Asked
  <2>10. RunIsFine(p)'
    BY <2>4, <2>6, <2>7, <2>8, <2>9 DEF RunIsFine, Active
  <2>11. starts' \in 0..MaxStarts /\ overlapped' \in BOOLEAN
    BY <2>5 DEF TypeOK
  <2>12. QED
    BY <2>5, <2>6, <2>10, <2>11, OnlyRunMoves
<1>3. QED
  BY <1>1, <1>2

\* The answer: labels go to the senders asked about, in their order, and into the
\* cache under the samples the LLM was shown.
LEMMA AnswerKeeps == ASSUME IInv, NEW p \in Runs, Answer(p) PROVE IInv'
<1> USE DEF IInv
<1>1. PICK r \in Readings :
          LET item   == Items(p, r)
              served == Served(p, r, item)
          IN /\ said' = said \cup Heard(p, r)
             /\ cache' = [k \in Senders \X Versions |->
                     IF k[1] \in served /\ k = Key(p, k[1])
                     THEN LabelOf(item[k[1]]) ELSE cache[k]]
             /\ run' = [run EXCEPT ![p] = IF served # run[p].todo THEN Ended("malformed")
                                          ELSE Assigned(p, served, item)]
  BY DEF Answer
<1> DEFINE todo == run[p].todo
           item == Items(p, r)
           served == Served(p, r, item)
           next == IF served # todo THEN Ended("malformed") ELSE Assigned(p, served, item)
<1>2. /\ said' = said \cup Heard(p, r)
      /\ cache' = [k \in Senders \X Versions |->
              IF k[1] \in served /\ k = Key(p, k[1]) THEN LabelOf(item[k[1]]) ELSE cache[k]]
      /\ run' = [run EXCEPT ![p] = next]
  BY <1>1, Zenon
<1>3. /\ run[p].at = "asking"
      /\ UNCHANGED <<label, version, starts, overlapped>>
  BY DEF Answer
<1>4. /\ run[p] \in Run /\ todo \subseteq Senders /\ RunIsFine(p)
      /\ todo \subseteq run[p].chunk /\ run[p].chunk \subseteq Senders
      /\ \A s \in Senders : run[p].sample[s] \in Versions
  BY DEF TypeOK, Run, RunsAreFine, RunIsFine
<1>5. served \subseteq todo
  BY DEF Served
<1>6. ASSUME NEW s \in todo PROVE Rank(todo, s) \in 0..ChunkSize - 1
  <2>1. Rank(run[p].chunk, s) < ChunkSize
    BY <1>4 DEF RunIsFine, HandIsFine
  <2>2. /\ Rank(todo, s) \in Nat /\ Rank(run[p].chunk, s) \in Nat
        /\ Rank(todo, s) <= Rank(run[p].chunk, s)
    BY <1>4, RankOfSubset
  <2>3. QED
    BY <2>1, <2>2, SenderAssumption
<1>7. ASSUME NEW s \in todo
      PROVE  /\ r.all[Rank(todo, s)] \subseteq Labels \cup {"null"}
             /\ item[s].label = "none" \/ item[s].label \in r.all[Rank(todo, s)]
  <2>1. item[s] = r.byIdx[Rank(todo, s)]
    BY DEF Items, Place
  <2>2. QED
    BY <1>6, <2>1, ReadingFits
<1>8. ASSUME NEW s \in todo
      PROVE  /\ LabelOf(item[s]) \in Stored
             /\ LabelOf(item[s]) \in Labels \cup {"null"}
                    => LabelOf(item[s]) \in r.all[Rank(todo, s)]
  BY <1>7, LabelAssumption DEF LabelOf, Stored
<1>9. ASSUME NEW s \in todo, NEW l \in r.all[Rank(todo, s)]
      PROVE  <<s, run[p].sample[s], l>> \in said'
  <2>1. <<s, run[p].sample[s], l>> \in {s} \X {run[p].sample[s]} \X r.all[Rank(todo, s)]
    OBVIOUS
  <2>2. <<s, run[p].sample[s], l>> \in Heard(p, r)
    BY <2>1 DEF Heard
  <2>3. QED
    BY <1>2, <2>2
<1>10. ASSUME NEW s \in todo
       PROVE  LabelOf(item[s]) \in Labels \cup {"null"}
                  => <<s, run[p].sample[s], LabelOf(item[s])>> \in said'
  BY <1>8, <1>9
<1>11. said' \subseteq Senders \X Versions \X (Labels \cup {"null"})
  <2>1. ASSUME NEW s \in todo
        PROVE  {s} \X {run[p].sample[s]} \X r.all[Rank(todo, s)]
                   \subseteq Senders \X Versions \X (Labels \cup {"null"})
    BY <1>4, <1>7
  <2>2. Heard(p, r) \subseteq Senders \X Versions \X (Labels \cup {"null"})
    BY <2>1 DEF Heard
  <2>3. QED
    BY <1>2, <2>2 DEF TypeOK
<1> HIDE DEF item, served, todo, next
<1>12. cache' \in [Senders \X Versions -> Stored \cup {"none"}]
  BY <1>2, <1>5, <1>8 DEF TypeOK
<1>13. /\ LabelsAreSaid' /\ Grows
  BY <1>2, <1>3 DEF LabelsAreSaid, Asked, Grows, Labelled
<1>14. ASSUME NEW s \in Senders, NEW v \in Versions PROVE SaidOf(s, v, cache[<<s, v>>])'
  <2>1. <<s, v>> \in Senders \X Versions /\ <<s, v>>[1] = s
    OBVIOUS
  <2>2. cache'[<<s, v>>] = IF s \in served /\ <<s, v>> = Key(p, s)
                           THEN LabelOf(item[s]) ELSE cache[<<s, v>>]
    BY <1>2, <2>1
  <2>3. CASE s \in served /\ <<s, v>> = Key(p, s)
    <3>1. v = run[p].sample[s]
      BY <2>3 DEF Key
    <3>2. QED
      BY <2>2, <2>3, <3>1, <1>5, <1>10 DEF SaidOf
  <2>4. CASE ~(s \in served /\ <<s, v>> = Key(p, s))
    BY <2>2, <2>4, <1>2 DEF CacheIsHeard, SaidOf
  <2>5. QED
    BY <2>3, <2>4
<1>15. next \in Run /\ run'[p] = next /\ RunIsFine(p)'
  <2>1. CASE served # todo
    <3>1. next = Ended("malformed")
      BY <2>1 DEF next
    <3>2. run'[p] = next
      BY <1>2 DEF TypeOK
    <3>3. QED
      BY <3>1, <3>2, EndedFields, FineBetween
  <2>2. CASE served = todo
    <3>1. next = Assigned(p, served, item)
      BY <2>2 DEF next
    <3>2. [s \in Senders |-> IF s \in served THEN LabelOf(item[s]) ELSE run[p].given[s]]
              \in [Senders -> Stored \cup {"none"}]
      BY <1>4, <1>5, <1>8 DEF Run
    <3>3. 0 \in 0..MaxAttempts
      BY AttemptAssumption
    <3>4. next \in Run
      BY <1>4, <3>1, <3>2, <3>3 DEF Assigned, Run
    <3>5. /\ next.at = "commit" /\ next.all = run[p].all /\ next.left = run[p].left
          /\ next.chunk = run[p].chunk /\ next.todo = {} /\ next.sample = run[p].sample
          /\ next.old = run[p].old
          /\ \A s \in Senders : next.given[s] = IF s \in served THEN LabelOf(item[s])
                                                ELSE run[p].given[s]
      BY <1>4, <3>1 DEF Assigned, Run
    <3>6. run'[p] = next
      BY <1>2 DEF TypeOK
    <3>7. ASSUME NEW s \in run[p].chunk PROVE HandIsFine(p, s)'
      <4>1. s \in Senders /\ HandIsFine(p, s)
        BY <1>4 DEF RunIsFine
      <4>2. Rank(run'[p].chunk, s) < ChunkSize
        BY <4>1, <3>5, <3>6 DEF HandIsFine
      <4>3. run'[p].given[s] # "none"
        <5>1. CASE s \in served
          <6>1. LabelOf(item[s]) # "none"
            BY <5>1, <1>5, <1>7, LabelAssumption DEF LabelOf
          <6>2. QED
            BY <5>1, <6>1, <4>1, <3>5, <3>6
        <5>2. CASE s \notin served
          BY <5>2, <2>2, <4>1, <3>5, <3>6 DEF HandIsFine, todo
        <5>3. QED
          BY <5>1, <5>2
      <4>4. SaidOf(s, run[p].sample[s], run[p].given[s])'
        <5>1. CASE s \in served
          BY <5>1, <4>1, <1>5, <1>10, <3>5, <3>6 DEF SaidOf
        <5>2. CASE s \notin served
          BY <5>2, <4>1, <1>2, <3>5, <3>6 DEF HandIsFine, SaidOf
        <5>3. QED
          BY <5>1, <5>2
      <4>5. run'[p].old[s] # "null" => Labelled(s)'
        BY <4>1, <1>13, <3>5, <3>6 DEF HandIsFine, Grows
      <4>6. QED
        BY <4>2, <4>3, <4>4, <4>5 DEF HandIsFine
    <3>8. ASSUME NEW s \in run[p].all \ (run[p].left \cup run[p].chunk) PROVE Labelled(s)'
      <4>1. Labelled(s) /\ s \in Senders
        BY <1>4 DEF RunIsFine, Run
      <4>2. QED
        BY <4>1, <1>13 DEF Grows
    <3>9. RunIsFine(p)'
      BY <1>4, <3>5, <3>6, <3>7, <3>8 DEF RunIsFine, Active
    <3>10. QED
      BY <3>4, <3>6, <3>9
  <2>3. QED
    BY <2>1, <2>2
<1>16. run' \in [Runs -> Run] /\ \A q \in Runs : q # p => run'[q] = run[q]
  BY <1>2, <1>15 DEF TypeOK
<1>17. RunsAreFine'
  <2>1. ASSUME NEW q \in Runs, q # p PROVE RunIsFine(q)'
    BY <2>1, <1>13, <1>16, StillFine DEF RunsAreFine
  <2>2. QED
    BY <2>1, <1>15 DEF RunsAreFine
<1>18. TypeOK'
  BY <1>3, <1>11, <1>12, <1>16 DEF TypeOK
<1>19. QED
  BY <1>13, <1>14, <1>17, <1>18 DEF CacheIsHeard

\* The commit: the chunk in hand gets its labels, and the run is through with it.
LEMMA CommitKeeps == ASSUME IInv, NEW p \in Runs, Commit(p) PROVE IInv'
<1> USE DEF IInv
<1> DEFINE at == IF NoChunkLeft(run[p].left) THEN "done" ELSE "chunk"
           r == Between(at, run[p].all, run[p].left)
<1>1. /\ run[p] \in Run /\ run[p].chunk \subseteq Senders /\ RunIsFine(p)
      /\ run[p].at = "commit" /\ run[p].todo = {}
      /\ run[p].all \subseteq Senders /\ run[p].left \subseteq Senders
  BY DEF Commit, TypeOK, Run, RunsAreFine, RunIsFine
<1>2. /\ label' = [s \in Senders |->
             IF s \in run[p].chunk THEN Written(run[p].given[s], run[p].old[s], label[s])
             ELSE label[s]]
      /\ UNCHANGED <<version, cache, said, starts, overlapped>>
      /\ run' = [run EXCEPT ![p] = r]
  BY DEF Commit, Between
<1>3. at \in {"chunk", "done"} /\ (at = "done" => run[p].left = {})
  BY DEF NoChunkLeft
<1> HIDE DEF at
<1>4. /\ r \in Run /\ r.at = at /\ r.all = run[p].all /\ r.left = run[p].left
      /\ r.chunk = {} /\ r.todo = {}
  BY <1>1, <1>3, BetweenFields
<1> HIDE DEF r
<1>5. run' \in [Runs -> Run] /\ run'[p] = r /\ \A q \in Runs : q # p => run'[q] = run[q]
  BY <1>2, <1>4 DEF TypeOK
<1>6. ASSUME NEW s \in Senders
      PROVE  \/ s \in run[p].chunk /\ label'[s] = run[p].given[s]
             \/ label'[s] = label[s]
  BY <1>2 DEF Written
<1>7. ASSUME NEW s \in run[p].chunk
      PROVE  /\ run[p].given[s] \in Stored
             /\ SaidOf(s, run[p].sample[s], run[p].given[s])
             /\ run[p].old[s] # "null" => Labelled(s)
  <2>1. HandIsFine(p, s) /\ s \in Senders
    BY <1>1 DEF RunIsFine
  <2>2. run[p].given[s] # "none"
    BY <1>1, <2>1 DEF HandIsFine
  <2>3. run[p].given[s] \in Stored \cup {"none"}
    BY <1>1, <2>1 DEF Run
  <2>4. QED
    BY <2>1, <2>2, <2>3 DEF HandIsFine
<1>8. TypeOK'
  <2>1. \A s \in Senders : label'[s] \in Stored
    BY <1>6, <1>7 DEF TypeOK
  <2>2. label' \in [Senders -> Stored]
    BY <1>2, <2>1
  <2>3. QED
    BY <1>2, <1>5, <2>2 DEF TypeOK
<1>9. ASSUME NEW s \in Senders, label'[s] \in Labels
      PROVE  \E x \in Asked(s) : x[3] = label'[s]
  <2>1. CASE label'[s] = label[s]
    BY <1>9, <2>1 DEF LabelsAreSaid
  <2>2. CASE s \in run[p].chunk /\ label'[s] = run[p].given[s]
    <3>1. <<s, run[p].sample[s], label'[s]>> \in said
      BY <1>7, <1>9, <2>2 DEF SaidOf
    <3>2. QED
      BY <3>1 DEF Asked
  <2>3. QED
    BY <1>6, <2>1, <2>2
<1>10. ASSUME NEW s \in run[p].chunk, run[p].given[s] = "null"
       PROVE  \E x \in Asked(s) : x[3] = "null"
  <2>1. <<s, run[p].sample[s], "null">> \in said
    BY <1>7, <1>10 DEF SaidOf
  <2>2. QED
    BY <2>1 DEF Asked
<1>11. Asked(0)' = Asked(0) /\ \A s \in Senders : Asked(s)' = Asked(s)
  BY <1>2 DEF Asked
<1>12. ASSUME NEW s \in Senders, Labelled(s) PROVE Labelled(s)'
  <2>1. CASE label'[s] = label[s]
    BY <1>11, <1>12, <2>1 DEF Labelled
  <2>2. CASE s \in run[p].chunk /\ label'[s] = run[p].given[s]
    BY <1>10, <1>11, <2>2 DEF Labelled
  <2>3. QED
    BY <1>6, <2>1, <2>2
<1>13. ASSUME NEW s \in run[p].chunk PROVE Labelled(s)'
  <2>1. s \in Senders
    BY <1>1
  <2>2. CASE run[p].given[s] # run[p].old[s]
    <3>1. label'[s] = run[p].given[s]
      BY <1>2, <2>1, <2>2 DEF Written
    <3>2. QED
      BY <3>1, <1>10, <1>11, <2>1 DEF Labelled
  <2>3. CASE run[p].given[s] = run[p].old[s]
    <3>1. CASE run[p].given[s] = "null"
      BY <3>1, <1>10, <1>11, <2>1 DEF Labelled
    <3>2. CASE run[p].given[s] # "null"
      BY <3>2, <2>1, <2>3, <1>7, <1>12
    <3>3. QED
      BY <3>1, <3>2
  <2>4. QED
    BY <2>2, <2>3
<1>14. Grows
  BY <1>2, <1>12 DEF Grows
<1>15. RunIsFine(p)'
  <2>1. ASSUME NEW s \in run'[p].all \ run'[p].left PROVE Labelled(s)'
    <3>1. s \in Senders /\ s \in run[p].all \ run[p].left
      BY <1>1, <1>4, <1>5
    <3>2. CASE s \in run[p].chunk
      BY <3>2, <1>13
    <3>3. CASE s \notin run[p].chunk
      BY <3>1, <3>3, <1>1, <1>12 DEF RunIsFine
    <3>4. QED
      BY <3>2, <3>3
  <2>2. QED
    BY <2>1, <1>3, <1>4, <1>5, FineBetween
<1>16. RunsAreFine'
  BY <1>5, <1>14, <1>15, StillFine DEF RunsAreFine
<1>17. CacheIsHeard'
  BY <1>2 DEF CacheIsHeard, SaidOf
<1>18. LabelsAreSaid'
  BY <1>9, <1>11 DEF LabelsAreSaid
<1>19. QED
  BY <1>8, <1>16, <1>17, <1>18

\* Mail moves samples on, entries expire: what was said stays said.
LEMMA OthersKeep ==
    ASSUME IInv,
           \/ \E s \in Senders : NewMail(s)
           \/ \E k \in Senders \X Versions : Expire(k)
           \/ UNCHANGED vars
    PROVE  IInv'
<1> USE DEF IInv
<1>1. UNCHANGED <<label, said, run, starts, overlapped>>
  BY DEF NewMail, Expire, vars
<1>2. version' \in [Senders -> Versions]
  BY BoundAssumption DEF NewMail, Expire, vars, TypeOK, Versions
<1>3. /\ cache' \in [Senders \X Versions -> Stored \cup {"none"}]
      /\ \A k \in Senders \X Versions : cache'[k] = "none" \/ cache'[k] = cache[k]
  BY DEF NewMail, Expire, vars, TypeOK
<1>4. CacheIsHeard'
  <2>1. ASSUME NEW s \in Senders, NEW v \in Versions PROVE SaidOf(s, v, cache[<<s, v>>])'
    <3>1. cache'[<<s, v>>] = "none" \/ cache'[<<s, v>>] = cache[<<s, v>>]
      BY <1>3
    <3>2. SaidOf(s, v, cache[<<s, v>>])
      BY DEF CacheIsHeard
    <3>3. QED
      BY <1>1, <3>1, <3>2, LabelAssumption DEF SaidOf
  <2>2. QED
    BY <2>1 DEF CacheIsHeard
<1>5. RunsAreFine'
  BY <1>1 DEF RunsAreFine, RunIsFine, Active, HandIsFine, SaidOf, Labelled, Asked
<1>6. LabelsAreSaid'
  BY <1>1 DEF LabelsAreSaid, Asked
<1>7. QED
  BY <1>1, <1>2, <1>3, <1>4, <1>5, <1>6 DEF TypeOK

\* A restart ends the runs, and the memory cache with them.
LEMMA RestartKeeps == ASSUME IInv, Restart PROVE IInv'
<1> USE DEF IInv
<1>1. UNCHANGED <<label, version, said, starts, overlapped>>
  BY DEF Restart
<1>2. /\ cache' \in [Senders \X Versions -> Stored \cup {"none"}]
      /\ \A k \in Senders \X Versions : cache'[k] = "none" \/ cache'[k] = cache[k]
  BY DEF Restart, TypeOK
<1>3. CacheIsHeard'
  <2>1. ASSUME NEW s \in Senders, NEW v \in Versions PROVE SaidOf(s, v, cache[<<s, v>>])'
    <3>1. cache'[<<s, v>>] = "none" \/ cache'[<<s, v>>] = cache[<<s, v>>]
      BY <1>2
    <3>2. SaidOf(s, v, cache[<<s, v>>])
      BY DEF CacheIsHeard
    <3>3. QED
      BY <1>1, <3>1, <3>2, LabelAssumption DEF SaidOf
  <2>2. QED
    BY <2>1 DEF CacheIsHeard
<1>4. \A p \in Runs : run'[p] = Ended("failed") \/ run'[p] = run[p]
  BY DEF Restart
<1>5. run' \in [Runs -> Run]
  <2>1. DOMAIN run' = Runs /\ run' = [p \in Runs |-> run'[p]]
    BY DEF Restart
  <2>2. \A p \in Runs : run'[p] \in Run
    BY <1>4, EndedFields DEF TypeOK
  <2>3. QED
    BY <2>1, <2>2
<1>6. Grows
  BY <1>1 DEF Grows, Labelled, Asked
<1>7. ASSUME NEW p \in Runs PROVE RunIsFine(p)'
  <2>1. CASE run'[p] = Ended("failed")
    BY <2>1, EndedFields, FineBetween
  <2>2. CASE run'[p] = run[p]
    BY <2>2, <1>6, StillFine DEF RunsAreFine
  <2>3. QED
    BY <2>1, <2>2, <1>4
<1>8. LabelsAreSaid'
  BY <1>1 DEF LabelsAreSaid, Asked
<1>9. QED
  BY <1>1, <1>2, <1>3, <1>5, <1>7, <1>8 DEF TypeOK, RunsAreFine

-----------------------------------------------------------------------------
(* The invariant, and what follows from it.                                 *)

\* With nothing asked and nothing cached every part is vacuous.
LEMMA InitIInv == Init => IInv
<1> SUFFICES ASSUME Init PROVE IInv
  OBVIOUS
<1>1. 0 \in 0..MaxAttempts /\ 0 \in Versions /\ 0 \in 0..MaxStarts
  BY AttemptAssumption, BoundAssumption DEF Versions
<1>2. TypeOK
  BY <1>1 DEF Init, TypeOK, IdleRun, Nothing, Run, Stored
<1>3. LabelsAreSaid /\ CacheIsHeard
  BY LabelAssumption DEF Init, LabelsAreSaid, CacheIsHeard, SaidOf
<1>4. ASSUME NEW p \in Runs PROVE RunIsFine(p)
  BY DEF Init, IdleRun, RunIsFine, Active
<1>5. QED
  BY <1>2, <1>3, <1>4 DEF IInv, RunsAreFine

\* Every step keeps the conjunction.
LEMMA NextIInv == IInv /\ [Next]_vars => IInv'
<1> SUFFICES ASSUME IInv, [Next]_vars PROVE IInv'
  OBVIOUS
<1>1. ASSUME NEW p \in Runs, Fail(p) PROVE IInv'
  BY <1>1, EndedKeeps DEF Fail
<1>2. ASSUME NEW p \in Runs, RunStep(p) PROVE IInv'
  BY <1>1, <1>2, StartKeeps, LookupKeeps, AttemptFailsKeeps, AnswerKeeps, CommitKeeps
  DEF RunStep
<1>3. QED
  BY <1>2, OthersKeep, RestartKeeps DEF Next

\* What the results below rest on.
THEOREM InvariantHolds == Spec => []IInv
  BY InitIInv, NextIInv, PTL DEF Spec

\* Labels, cached payloads and the state of the runs always have their types: no
\* label that is none of the stored ones reaches a row.
THEOREM TypeCorrect == Spec => []TypeOK
<1>1. IInv => TypeOK
  BY DEF IInv
<1>2. QED
  BY <1>1, InvariantHolds, PTL

\* No mix-up of positions gives a sender a label the LLM gave another one.
THEOREM LabelsAreTheSendersOwn == Spec => []LabelsAreSaid
<1>1. IInv => LabelsAreSaid
  BY DEF IInv
<1>2. QED
  BY <1>1, InvariantHolds, PTL

\* A cached label answers the sample it is cached under.
THEOREM CacheAnswersItsSample == Spec => []CacheIsSaid
<1>1. IInv => CacheIsSaid
  BY DEF IInv, CacheIsHeard, CacheIsSaid, SaidOf
<1>2. QED
  BY <1>1, InvariantHolds, PTL

\* A run that ends by itself has left out no sender it set out with.
THEOREM EndedRunsLabelledAll == Spec => []DoneIsLabelled
<1>1. IInv => DoneIsLabelled
  <2> SUFFICES ASSUME IInv, NEW p \in Runs, run[p].at = "done", NEW s \in run[p].all
               PROVE  Labelled(s)
    BY DEF DoneIsLabelled, Labelled
  <2>1. RunIsFine(p) /\ ~Active(p) /\ run[p].at \notin {"asking", "commit"}
    BY DEF IInv, RunsAreFine, Active
  <2>2. QED
    BY <2>1 DEF RunIsFine
<1>2. QED
  BY <1>1, InvariantHolds, PTL

-----------------------------------------------------------------------------
(* Runs that do not overlap.                                                *)

\* There is one run at work, and nobody labels what it has before it.
Alone ==
    ~overlapped =>
        /\ \A p, q \in Runs : Active(p) /\ Active(q) => p = q
        /\ \A p \in Runs : \A s \in run[p].left \cup run[p].chunk : label[s] = "null"

\* Only a run at work has senders before it.
LEMMA IdleHasNothing ==
    ASSUME IInv, NEW p \in Runs, ~Active(p)
    PROVE  run[p].left = {} /\ run[p].chunk = {}
  BY DEF IInv, RunsAreFine, RunIsFine, Active

\* A step keeps Alone, and as long as it holds labels no labelled sender.
LEMMA NextAlone ==
    ASSUME IInv, IInv', Alone, [Next]_vars
    PROVE  /\ Alone'
           /\ ~overlapped' => \A s \in Senders : label[s] # "null" => label'[s] = label[s]
<1> DEFINE Stays == \A s \in Senders : label[s] # "null" => label'[s] = label[s]
<1>1. ASSUME UNCHANGED label,
             ~overlapped' => ~overlapped,
             \A p \in Runs : Active(p)' => Active(p),
             \A p \in Runs : run'[p].left \cup run'[p].chunk
                                 \subseteq run[p].left \cup run[p].chunk
      PROVE  Alone' /\ (~overlapped' => Stays)
  BY <1>1 DEF Alone
<1>2. ASSUME NEW p \in Runs, Start(p) PROVE Alone' /\ (~overlapped' => Stays)
  <2> DEFINE at == IF Unclassified = {} THEN "done" ELSE "chunk"
             r == Between(at, Unclassified, Unclassified)
  <2>1. Unclassified \subseteq Senders /\ at \in {"chunk", "done"}
    BY DEF Unclassified
  <2>2. /\ run' = [run EXCEPT ![p] = r] /\ UNCHANGED label
        /\ overlapped' = (overlapped \/ \E q \in Runs : Active(q))
    BY <1>2 DEF Start, Between
  <2> HIDE DEF at
  <2>3. r.left = Unclassified /\ r.chunk = {}
    BY <2>1, BetweenFields
  <2> HIDE DEF r
  <2>4. /\ run'[p] = r /\ \A q \in Runs : q # p => run'[q] = run[q]
    BY <2>2 DEF IInv, TypeOK
  <2> SUFFICES ASSUME ~overlapped' PROVE Alone' /\ Stays
    BY DEF Alone
  <2>5. ~overlapped /\ \A q \in Runs : ~Active(q)
    BY <2>2
  <2>6. \A q \in Runs : q # p => ~Active(q)' /\ run'[q].left = {} /\ run'[q].chunk = {}
    BY <2>4, <2>5, IdleHasNothing DEF Active
  <2>7. \A s \in run'[p].left \cup run'[p].chunk : label'[s] = "null"
    BY <2>2, <2>3, <2>4 DEF Unclassified
  <2>8. \A q \in Runs : \A s \in run'[q].left \cup run'[q].chunk : label'[s] = "null"
    BY <2>6, <2>7
  <2>9. \A q, u \in Runs : Active(q)' /\ Active(u)' => q = u
    BY <2>6
  <2>10. QED
    BY <2>2, <2>8, <2>9 DEF Alone
<1>3. ASSUME NEW p \in Runs, Lookup(p) PROVE Alone' /\ (~overlapped' => Stays)
  <2> DEFINE r == InHand(p, First(run[p].left))
  <2>1. run[p] \in Run
    BY DEF IInv, TypeOK
  <2>2. r.left = run[p].left \ First(run[p].left) /\ r.chunk = First(run[p].left)
    BY <2>1 DEF InHand, Run
  <2> HIDE DEF r
  <2>3. /\ run'[p] = r /\ \A q \in Runs : q # p => run'[q] = run[q]
        /\ Active(p) /\ UNCHANGED <<label, overlapped>>
    BY <1>3 DEF Lookup, IInv, TypeOK, r, Active
  <2>4. First(run[p].left) \subseteq run[p].left
    BY DEF First
  <2>5. \A q \in Runs : /\ Active(q)' => Active(q)
                        /\ run'[q].left \cup run'[q].chunk \subseteq run[q].left \cup run[q].chunk
    BY <2>2, <2>3, <2>4 DEF Active
  <2>6. QED
    BY <1>1, <2>3, <2>5
<1>4. ASSUME NEW p \in Runs, AttemptFails(p) PROVE Alone' /\ (~overlapped' => Stays)
  <2>1. run[p] \in Run
    BY DEF IInv, TypeOK
  <2>2. /\ Retried(p).left = run[p].left /\ Retried(p).chunk = run[p].chunk
        /\ Retried(p).at = run[p].at
    BY <2>1 DEF Retried, Run
  <2>3. /\ run'[p] = Retried(p) \/ run'[p] = Ended("failed")
        /\ \A q \in Runs : q # p => run'[q] = run[q]
        /\ UNCHANGED <<label, overlapped>>
    BY <1>4 DEF AttemptFails, IInv, TypeOK
  <2>4. \A q \in Runs : /\ Active(q)' => Active(q)
                        /\ run'[q].left \cup run'[q].chunk \subseteq run[q].left \cup run[q].chunk
    BY <2>2, <2>3, EndedFields DEF Active
  <2>5. QED
    BY <1>1, <2>3, <2>4
<1>5. ASSUME NEW p \in Runs, Answer(p) PROVE Alone' /\ (~overlapped' => Stays)
  <2>1. run[p] \in Run
    BY DEF IInv, TypeOK
  <2>2. ASSUME NEW served, NEW item
        PROVE  /\ Assigned(p, served, item).left = run[p].left
               /\ Assigned(p, served, item).chunk = run[p].chunk
    BY <2>1 DEF Assigned, Run
  <2>3. /\ \/ run'[p] = Ended("malformed")
           \/ \E served, item : run'[p] = Assigned(p, served, item)
        /\ \A q \in Runs : q # p => run'[q] = run[q]
        /\ Active(p) /\ UNCHANGED <<label, overlapped>>
    BY <1>5 DEF Answer, IInv, TypeOK, Active
  <2>4. \A q \in Runs : /\ Active(q)' => Active(q)
                        /\ run'[q].left \cup run'[q].chunk \subseteq run[q].left \cup run[q].chunk
    BY <2>2, <2>3, EndedFields DEF Active
  <2>5. QED
    BY <1>1, <2>3, <2>4
<1>6. ASSUME NEW p \in Runs, Commit(p) PROVE Alone' /\ (~overlapped' => Stays)
  <2> DEFINE at == IF NoChunkLeft(run[p].left) THEN "done" ELSE "chunk"
             r == Between(at, run[p].all, run[p].left)
  <2>1. /\ run[p].all \subseteq Senders /\ run[p].left \subseteq Senders
        /\ at \in {"chunk", "done"} /\ RunIsFine(p) /\ run[p].chunk \subseteq Senders
    BY DEF IInv, TypeOK, Run, RunsAreFine
  <2>2. /\ run' = [run EXCEPT ![p] = r] /\ Active(p) /\ UNCHANGED overlapped
        /\ \A s \in Senders : s \notin run[p].chunk => label'[s] = label[s]
    BY <1>6 DEF Commit, Between, Active
  <2> HIDE DEF at
  <2>3. r.left = run[p].left /\ r.chunk = {}
    BY <2>1, BetweenFields
  <2> HIDE DEF r
  <2>4. /\ run'[p] = r /\ \A q \in Runs : q # p => run'[q] = run[q]
    BY <2>2 DEF IInv, TypeOK
  <2> SUFFICES ASSUME ~overlapped' PROVE Alone' /\ Stays
    BY DEF Alone
  <2>5. ~overlapped /\ \A q \in Runs : q # p => ~Active(q)
    BY <2>2 DEF Alone
  <2>6. \A s \in run[p].left \cup run[p].chunk : label[s] = "null"
    BY <2>5 DEF Alone
  <2>7. Stays
    BY <2>2, <2>6
  <2>8. \A q \in Runs : q # p => ~Active(q)' /\ run'[q].left = {} /\ run'[q].chunk = {}
    BY <2>4, <2>5, IdleHasNothing DEF Active
  <2>9. \A s \in run'[p].left \cup run'[p].chunk : label'[s] = "null"
    BY <2>1, <2>2, <2>3, <2>4, <2>6 DEF RunIsFine
  <2>10. \A q \in Runs : \A s \in run'[q].left \cup run'[q].chunk : label'[s] = "null"
    BY <2>8, <2>9
  <2>11. \A q, u \in Runs : Active(q)' /\ Active(u)' => q = u
    BY <2>8
  <2>12. QED
    BY <2>7, <2>10, <2>11 DEF Alone
<1>7. CASE Restart \/ \E p \in Runs : Fail(p)
  <2>1. /\ UNCHANGED <<label, overlapped>>
        /\ \A q \in Runs : run'[q] = run[q] \/ run'[q] = Ended("failed")
    BY <1>7 DEF Restart, Fail, IInv, TypeOK
  <2>2. \A q \in Runs : /\ Active(q)' => Active(q)
                        /\ run'[q].left \cup run'[q].chunk \subseteq run[q].left \cup run[q].chunk
    BY <2>1, EndedFields DEF Active
  <2>3. QED
    BY <1>1, <2>1, <2>2
<1>8. CASE \/ \E s \in Senders : NewMail(s)
           \/ \E k \in Senders \X Versions : Expire(k)
           \/ UNCHANGED vars
  <2>1. UNCHANGED <<label, overlapped, run>>
    BY <1>8 DEF NewMail, Expire, vars
  <2>2. QED
    BY <1>1, <2>1 DEF Active
<1>9. QED
  BY <1>2, <1>3, <1>4, <1>5, <1>6, <1>7, <1>8 DEF Next, RunStep

\* As long as no two runs overlap a sender is classified once, through failed
\* chunks, malformed answers, restarts and later runs.
THEOREM LabelledOnce == Spec => LabelledStays
<1>1. Init => Alone
  BY DEF Init, Alone, IdleRun, Active
<1>2. IInv /\ IInv' /\ Alone /\ [Next]_vars => Alone'
  BY NextAlone
<1>3. IInv /\ IInv' /\ Alone /\ [Next]_vars
          => [~overlapped' => \A s \in Senders : label[s] # "null" => UNCHANGED label[s]]_vars
  BY NextAlone
<1>4. QED
  BY <1>1, <1>2, <1>3, InvariantHolds, PTL DEF Spec, LabelledStays
=============================================================================
