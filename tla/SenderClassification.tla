------------------------ MODULE SenderClassification ------------------------
(***************************************************************************)
(* classify_senders and _parse_classifications (services/classify.py), the  *)
(* cache they use (cache.py) and the retries of complete_json               *)
(* (llm/client.py). Senders are the numbers 1, 2, ... in the order the      *)
(* query returns them. A sender's sample (subjects, counts, list headers)   *)
(* is a version number that new mail moves on; the cache key is the sender  *)
(* with its sample. Confidence and reasoning go wherever the label goes.    *)
(***************************************************************************)
EXTENDS Integers, Sequences, FiniteSets

CONSTANTS
    NumSenders,
    Labels,         \* what the LLM may call a sender
    Runs,           \* background tasks that classify, CLI processes if the cache is Redis
    ChunkSize,      \* batch_size, 20 in the source
    MaxAttempts,    \* 3 in llm/client.py
    Changing,       \* bound: senders whose sample changes meanwhile
    MaxVersion,     \* bound: how often it does
    MaxStarts,      \* bound: how often a run is started
    MaxItems        \* bound: items in one LLM response

Senders == 1..NumSenders

ASSUME SenderAssumption == NumSenders \in Nat /\ ChunkSize \in Nat \ {0}
ASSUME LabelAssumption == Labels \cap {"unknown", "null", "none"} = {}
ASSUME AttemptAssumption == MaxAttempts \in Nat \ {0}
ASSUME BoundAssumption ==
    Changing \subseteq Senders /\ MaxVersion \in Nat /\ MaxStarts \in Nat /\ MaxItems \in Nat

VARIABLES
    label,      \* sender.latest_label ("null": not classified)
    version,    \* the sample of each sender, as the messages stand
    cache,      \* key -> label of the cached payload ("none": no entry)
    said,       \* <<sender, version, label>> the LLM ever answered with
    run,
    starts,
    overlapped  \* history: two runs were at work at the same time

vars == <<label, version, cache, said, run, starts, overlapped>>

Stored == Labels \cup {"unknown", "null"}

Versions == 0..MaxVersion

\* all: senders the query returned; left: those of later chunks; chunk: those in
\* hand; todo: those of them the cache did not know; sample: their samples; old
\* and given: the label loaded, and the one assigned and not committed.
Run == [at : {"idle", "chunk", "asking", "commit", "done", "failed", "malformed"},
        all : SUBSET Senders, left : SUBSET Senders, chunk : SUBSET Senders,
        todo : SUBSET Senders, tries : 0..MaxAttempts, sample : [Senders -> Versions],
        old : [Senders -> Stored], given : [Senders -> Stored \cup {"none"}]]

Nothing == [s \in Senders |-> "none"]

IdleRun == [at |-> "idle", all |-> {}, left |-> {}, chunk |-> {}, todo |-> {}, tries |-> 0,
            sample |-> [s \in Senders |-> 0], old |-> [s \in Senders |-> "null"],
            given |-> Nothing]

\* An exception ends the run; session_scope rolls back.
Ended(at) == [IdleRun EXCEPT !.at = at]

Init ==
    /\ label = [s \in Senders |-> "null"]
    /\ version = [s \in Senders |-> 0]
    /\ cache = [k \in Senders \X Versions |-> "none"]
    /\ said = {}
    /\ run = [p \in Runs |-> IdleRun]
    /\ starts = 0
    /\ overlapped = FALSE

-----------------------------------------------------------------------------
(* Mail arrives, cache entries expire.                                      *)

NewMail(s) ==
    /\ s \in Changing /\ version[s] < MaxVersion
    /\ version' = [version EXCEPT ![s] = @ + 1]
    /\ UNCHANGED <<label, cache, said, run, starts, overlapped>>

\* MemoryCache.get drops an entry that is too old before it returns.
Expire(k) ==
    /\ cache[k] # "none"
    /\ cache' = [cache EXCEPT ![k] = "none"]
    /\ UNCHANGED <<label, version, said, run, starts, overlapped>>

-----------------------------------------------------------------------------
(* classify_senders.                                                        *)

\* Mutation: only_unclassified is not looked at.
UnclassifiedAll == Senders

Unclassified == {s \in Senders : label[s] = "null"}

Active(p) == run[p].at \in {"chunk", "asking", "commit"}

\* A new run, or one that ended is started again.
Start(p) ==
    /\ ~Active(p)
    /\ starts < MaxStarts
    /\ starts' = starts + 1
    /\ overlapped' = (overlapped \/ \E q \in Runs : Active(q))
    /\ run' = [run EXCEPT ![p] = [IdleRun EXCEPT
          !.at = IF Unclassified = {} THEN "done" ELSE "chunk",
          !.left = Unclassified, !.all = Unclassified]]
    /\ UNCHANGED <<label, version, cache, said>>

Rank(S, s) == Cardinality({u \in S : u < s})

First(S) == {s \in S : Rank(S, s) < ChunkSize}

Uncached(chunk) == {s \in chunk : cache[<<s, version[s]>>] = "none"}

\* Samples of the next chunk, and the cache asked for each of them. Objects of
\* later chunks were expired by a commit and are read again.
InHand(p, chunk) ==
    [run[p] EXCEPT
        !.at = IF Uncached(chunk) = {} THEN "commit" ELSE "asking",
        !.left = run[p].left \ chunk, !.chunk = chunk, !.todo = Uncached(chunk), !.tries = 0,
        !.old = [s \in Senders |->
            IF s \in chunk /\ run[p].left # run[p].all THEN label[s] ELSE "null"],
        !.sample = [s \in Senders |-> IF s \in chunk THEN version[s] ELSE 0],
        !.given = [s \in Senders |-> IF s \in chunk THEN cache[<<s, version[s]>>] ELSE "none"]]

Lookup(p) ==
    /\ run[p].at = "chunk"
    /\ run[p].left # {}
    /\ run' = [run EXCEPT ![p] = InHand(p, First(run[p].left))]
    /\ UNCHANGED <<label, version, cache, said, starts, overlapped>>

Retried(p) == [run[p] EXCEPT !.tries = run[p].tries + 1]

\* One attempt of complete_json fails: no answer, or none that is JSON.
AttemptFails(p) ==
    /\ run[p].at = "asking"
    /\ run' = [run EXCEPT ![p] =
                  IF run[p].tries + 1 < MaxAttempts THEN Retried(p) ELSE Ended("failed")]
    /\ UNCHANGED <<label, version, cache, said, starts, overlapped>>

-----------------------------------------------------------------------------
(* What the LLM may answer: a list of items, bare, under "classifications"  *)
(* or "results", or keyed by index. An item names its sender or not (index  *)
(* -1), has a label or not ("none") or a null one, and a confidence that is *)
(* a number or not; or it is no dict at all. Of the unusable containers,    *)
(* a key that is no number and a value that cannot be iterated over raise.  *)

NoDict == [dict |-> FALSE, index |-> -1, label |-> "none", numeric |-> TRUE]

Item == {NoDict} \cup [dict : {TRUE}, index : -1..ChunkSize,
                      label : Labels \cup {"none", "null"}, numeric : BOOLEAN]

Responses == [usable : {TRUE}, items : UNION {[1..n -> Item] : n \in 0..MaxItems}]
             \cup [usable : {FALSE}, items : {<<>>}]

IndexOf(items, i) == IF items[i].index = -1 THEN i - 1 ELSE items[i].index

\* Positions of the items that speak of the sender with this index.
About(items, idx) == {i \in DOMAIN items : items[i].dict /\ IndexOf(items, i) = idx}

NoItem == [label |-> "none", numeric |-> TRUE]

\* by_idx: of several items with one index the last one counts.
ByIdx(items, idx) ==
    IF About(items, idx) = {} THEN NoItem
    ELSE LET i == CHOOSE i \in About(items, idx) : \A j \in About(items, idx) : j <= i
         IN [label |-> items[i].label, numeric |-> items[i].numeric]

\* What _parse_classifications makes of a response; all: every label the LLM used
\* for an index, also those that do not count.
Reading(r) ==
    [usable |-> r.usable,
     byIdx  |-> [idx \in 0..ChunkSize - 1 |-> ByIdx(r.items, idx)],
     all    |-> [idx \in 0..ChunkSize - 1 |->
                    {r.items[i].label : i \in About(r.items, idx)} \ {"none"}]]

Readings == {Reading(r) : r \in Responses}

\* Mutation: an item without a label gets none, instead of "unknown".
LabelOfRaw(item) == item.label

LabelOf(item) == IF item.label = "none" THEN "unknown" ELSE item.label

\* Mutation: answers are looked up by the position in the chunk, not by the
\* position among the senders that were asked about.
PlaceInChunk(p, s) == Rank(run[p].chunk, s)

Place(p, s) == Rank(run[p].todo, s)

\* Mutation: the key is computed again after the answer is there.
KeyNow(p, s) == <<s, version[s]>>

\* _cache_key has all of the sample but the list_id, which the LLM is shown, too: it
\* changes only with a message, and then the count in the key does as well (as long as
\* no two syncs lose an increment; AccountSync tells of that).
Key(p, s) == <<s, run[p].sample[s]>>

\* Senders asked about are served in order, and each is cached at once: one with
\* a confidence that is no number raises, and those after it are not served.
Served(p, r, item) ==
    IF ~r.usable THEN {}
    ELSE {s \in run[p].todo : \A b \in run[p].todo : b <= s => item[b].numeric}

Items(p, r) == [s \in run[p].todo |-> r.byIdx[Place(p, s)]]

\* What the LLM said, of whom it was asked about.
Heard(p, r) ==
    UNION {{s} \X {run[p].sample[s]} \X r.all[Rank(run[p].todo, s)] : s \in run[p].todo}

Assigned(p, served, item) ==
    [run[p] EXCEPT !.at = "commit", !.todo = {}, !.tries = 0,
        !.given = [s \in Senders |->
                      IF s \in served THEN LabelOf(item[s]) ELSE run[p].given[s]]]

Answer(p) ==
    /\ run[p].at = "asking"
    /\ \E r \in Readings :
         LET item   == Items(p, r)
             served == Served(p, r, item)
         IN /\ said' = said \cup Heard(p, r)
            /\ cache' = [k \in Senders \X Versions |->
                    IF k[1] \in served /\ k = Key(p, k[1]) THEN LabelOf(item[k[1]]) ELSE cache[k]]
            /\ run' = [run EXCEPT ![p] = IF served # run[p].todo THEN Ended("malformed")
                                         ELSE Assigned(p, served, item)]
    /\ UNCHANGED <<label, version, starts, overlapped>>

\* SQLAlchemy writes a column only if the session changed it.
Written(new, old, committed) == IF new # old THEN new ELSE committed

\* Mutation: a last chunk that is not full is left out.
NoChunkLeftFull(left) == Cardinality(left) < ChunkSize

NoChunkLeft(left) == left = {}

\* One commit per chunk.
Commit(p) ==
    /\ run[p].at = "commit"
    /\ label' = [s \in Senders |->
          IF s \in run[p].chunk THEN Written(run[p].given[s], run[p].old[s], label[s]) ELSE label[s]]
    /\ run' = [run EXCEPT ![p] = [IdleRun EXCEPT
          !.all = run[p].all, !.left = run[p].left,
          !.at = IF NoChunkLeft(run[p].left) THEN "done" ELSE "chunk"]]
    /\ UNCHANGED <<version, cache, said, starts, overlapped>>

\* The database is locked: the chunk in hand is rolled back.
Fail(p) ==
    /\ run[p].at \in {"chunk", "commit"}
    /\ run' = [run EXCEPT ![p] = Ended("failed")]
    /\ UNCHANGED <<label, version, cache, said, starts, overlapped>>

\* The process is started again: a memory cache is empty, a Redis one is not.
Restart ==
    /\ \/ cache' = [k \in Senders \X Versions |-> "none"]
       \/ cache' = cache
    /\ run' = [p \in Runs |-> IF Active(p)
                              THEN Ended("failed") ELSE run[p]]
    /\ UNCHANGED <<label, version, said, starts, overlapped>>

-----------------------------------------------------------------------------
RunStep(p) ==
    \/ Start(p) \/ Lookup(p) \/ AttemptFails(p) \/ Answer(p) \/ Commit(p) \/ Fail(p)

Next ==
    \/ \E p \in Runs : RunStep(p)
    \/ \E s \in Senders : NewMail(s)
    \/ \E k \in Senders \X Versions : Expire(k)
    \/ Restart

Spec == Init /\ [][Next]_vars

-----------------------------------------------------------------------------
Asked(s) == {x \in said : x[1] = s}

\* Type invariant: labels, cached payloads and the state of the runs.
TypeOK ==
    /\ label \in [Senders -> Stored]
    /\ version \in [Senders -> Versions]
    /\ cache \in [Senders \X Versions -> Stored \cup {"none"}]
    /\ said \subseteq Senders \X Versions \X (Labels \cup {"null"})
    /\ run \in [Runs -> Run]
    /\ starts \in 0..MaxStarts
    /\ overlapped \in BOOLEAN

\* A sender is called what the LLM called this sender: no mix-up of positions
\* in the chunk, in the prompt and in the answer, whatever the cache knew, in
\* whatever order and with whatever gaps or duplicates the answer comes.
LabelsAreSaid ==
    \A s \in Senders : label[s] \in Labels => \E x \in Asked(s) : x[3] = label[s]

\* A cached label answers the very sample the LLM was shown, though mail may
\* arrive and change the sample while the LLM thinks.
CacheIsSaid ==
    \A s \in Senders, v \in Versions :
        cache[<<s, v>>] \in Labels => <<s, v, cache[<<s, v>>]>> \in said

\* A run that ends has labelled every sender it set out with, last partial
\* chunk included, unless the LLM itself called it null.
DoneIsLabelled ==
    \A p \in Runs : run[p].at = "done" => \A s \in run[p].all :
        label[s] # "null" \/ \E x \in Asked(s) : x[3] = "null"

\* As long as no two runs overlap, a sender is classified once; later runs, failed
\* chunks and restarts leave its label alone.
LabelledStays ==
    [][~overlapped' => \A s \in Senders : label[s] # "null" => UNCHANGED label[s]]_vars

\* services/classify.py:171-173, "a malformed batch doesn't kill the whole run":
\* no answer of the LLM ends a run.
MalformedIsSurvived == \A p \in Runs : run[p].at # "malformed"
=============================================================================
