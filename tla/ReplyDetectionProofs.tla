------------------------ MODULE ReplyDetectionProofs ------------------------
(***************************************************************************)
(* Proofs about ReplyDetection, for any messages, threads, senders, runs,   *)
(* batch size and number of starts and replies.                             *)
(*                                                                         *)
(* IInv holds however runs overlap: it adds to TypeOK the bound of the      *)
(* counts that a run has read and not written. Alone is what holds on top   *)
(* of it until two runs overlap: a run's session agrees with the database,  *)
(* and the database with what the run was told, be it true or not.          *)
(***************************************************************************)
EXTENDS ReplyDetection, FiniteSetTheorems, TLAPS

MessagesOf(s) == {m \in Messages : SenderOf[m] = s}

\* Counts read and not written are counts of stored messages, too.
RollupFits ==
    \A p \in Runs, s \in Senders : run[p].rollup[s] <= Cardinality(MessagesOf(s))

IInv == TypeOK /\ RollupFits

\* The messages of s whose replies the run p has to count.
DueTo(p, s) ==
    {m \in run[p].basis : SenderOf[m] = s
        /\ (ThreadOf[m] \in run[p].heard \/ replied[ThreadOf[m]] = "yes")}

\* Nobody else moves what p has in its session: it is up to date, the threads in
\* hand have no answer yet, and what was heard is committed or in hand.
CheckingAlone(p) ==
    /\ run[p].checked \subseteq run[p].held
    /\ run[p].checked \cap run[p].todo = {}
    /\ \A t \in run[p].held : run[p].old[t] = replied[t]
    /\ \A t \in run[p].todo \cup run[p].checked : replied[t] = "unknown"
    /\ \A t \in run[p].heard :
          replied[t] = "yes" \/ (t \in run[p].checked /\ run[p].new[t] = "yes")

\* The counts p is about to write are neither too many nor too few.
RolledAlone(p) ==
    \A s \in Senders :
        /\ run[p].rollup[s] <= RepliesTo(s, stored)
        /\ Cardinality(DueTo(p, s)) <= run[p].rollup[s]

RunAlone(p) ==
    /\ Active(p) => run[p].basis \subseteq stored
    /\ run[p].at = "checking" => CheckingAlone(p)
    /\ run[p].at = "rollup" => \A t \in run[p].heard : replied[t] = "yes"
    /\ run[p].at = "rolled" => RolledAlone(p)

Alone ==
    ~overlapped =>
        /\ \A p, q \in Runs : Active(p) /\ Active(q) => p = q
        /\ \A p \in Runs : RunAlone(p)
        /\ CountsNeverOver

-----------------------------------------------------------------------------
(* Counting messages.                                                       *)

\* There are finitely many messages, and no more of them in a smaller set.
LEMMA Counting ==
    ASSUME NEW A \in SUBSET Messages, NEW B \in SUBSET A
    PROVE  /\ Cardinality(A) \in Nat /\ Cardinality(B) \in Nat
           /\ Cardinality(B) <= Cardinality(A)
<1>1. IsFiniteSet(A)
  BY MessageAssumption, FS_Subset
<1>2. QED
  BY <1>1, FS_Subset, FS_CardinalityType

\* A sender has no more replies than messages...
LEMMA RepliesFit ==
    ASSUME NEW s \in Senders, NEW S \in SUBSET Messages
    PROVE  RepliesTo(s, S) \in Nat /\ RepliesTo(s, S) <= Cardinality(MessagesOf(s))
<1> DEFINE B == {m \in S : SenderOf[m] = s /\ replied[ThreadOf[m]] = "yes"}
<1>1. MessagesOf(s) \in SUBSET Messages /\ B \in SUBSET MessagesOf(s)
  BY DEF MessagesOf
<1>2. QED
  BY <1>1, Counting DEF RepliesTo

-----------------------------------------------------------------------------
(* The sessions a step leaves behind.                                       *)

\* A run at rest has nothing in hand.
LEMMA IdleFields ==
    /\ IdleRun \in Run
    /\ IdleRun.at = "idle"
    /\ \A s \in Senders : IdleRun.rollup[s] = 0
    /\ \A t \in Threads : IdleRun.new[t] = "unknown"
  BY DEF IdleRun, Run, NoCounts, Unknown, Answers

\* What Fail leaves.
Failed == [IdleRun EXCEPT !.at = "failed"]

\* A run that failed has nothing in hand.
LEMMA FailedFields ==
    /\ Failed \in Run
    /\ Failed.at = "failed"
    /\ \A s \in Senders : Failed.rollup[s] = 0
    /\ \A t \in Threads : Failed.new[t] = "unknown"
  BY DEF Failed, IdleRun, Run, NoCounts, Unknown, Answers

\* What Start makes of a run.
Started == [IdleRun EXCEPT !.at = "checking", !.todo = UnknownThreads,
                           !.held = UnknownThreads, !.old = replied, !.basis = stored]

\* A run starts with the unknown threads and the messages stored by then.
LEMMA StartedFields ==
    ASSUME TypeOK
    PROVE  /\ Started \in Run
           /\ Started.at = "checking" /\ Started.basis = stored
           /\ Started.todo = UnknownThreads /\ Started.held = UnknownThreads
           /\ Started.old = replied /\ Started.checked = {} /\ Started.heard = {}
           /\ \A s \in Senders : Started.rollup[s] = 0
           /\ \A t \in Threads : Started.new[t] = "unknown"
<1>1. UnknownThreads \subseteq Threads
  BY HeaderAssumption DEF TypeOK, UnknownThreads
<1>2. QED
  BY <1>1 DEF TypeOK, Started, IdleRun, Run, NoCounts, Unknown, Answers

\* What Check leaves alone in a run, and what it does to it.
SameRun(p, r) ==
    r.at = run[p].at /\ r.basis = run[p].basis /\ r.rollup = run[p].rollup

HasChecked(p, t, a, r) ==
    /\ r.todo = run[p].todo \ {t}
    /\ r.held = run[p].held \cup {t}
    /\ r.checked = run[p].checked \cup {t}
    /\ \A u \in Threads : r.old[u] = IF u = t THEN Touched(p, t) ELSE run[p].old[u]
    /\ \A u \in Threads : r.new[u] = IF u = t THEN a ELSE run[p].new[u]
    /\ r.heard = IF a = "yes" THEN run[p].heard \cup {t} ELSE run[p].heard

\* The thread just asked about is checked, its answer not committed.
LEMMA AnsweredFields ==
    ASSUME TypeOK, NEW p \in Runs, NEW t \in Threads, NEW a \in Answers
    PROVE  /\ Answered(p, t, a) \in Run
           /\ SameRun(p, Answered(p, t, a))
           /\ HasChecked(p, t, a, Answered(p, t, a))
<1>1. run[p] \in Run
  BY DEF TypeOK
<1>2. Touched(p, t) \in Answers
  BY <1>1 DEF TypeOK, Touched, Run
<1>3. QED
  BY <1>1, <1>2 DEF Answered, Run, SameRun, HasChecked

\* After a commit nothing is held.
LEMMA ExpiredFields ==
    ASSUME TypeOK, NEW p \in Runs
    PROVE  LET r == Expired(p) IN
           /\ r \in Run
           /\ r.at = IF run[p].todo = {} THEN "rollup" ELSE "checking"
           /\ r.basis = run[p].basis /\ r.rollup = run[p].rollup
           /\ r.todo = run[p].todo /\ r.held = {} /\ r.checked = {}
           /\ r.heard = run[p].heard
           /\ \A t \in Threads : r.new[t] = "unknown"
<1>1. run[p] \in Run
  BY DEF TypeOK
<1>2. QED
  BY <1>1 DEF Expired, Run, Unknown, Answers

\* A run that has read its counts.
LEMMA RolledUpFields ==
    ASSUME TypeOK, NEW p \in Runs
    PROVE  LET r == RolledUp(p) IN
           /\ r \in Run
           /\ r.at = "rolled" /\ r.basis = run[p].basis /\ r.heard = run[p].heard
           /\ r.new = run[p].new
           /\ \A s \in Senders : r.rollup[s] = RepliesTo(s, stored)
<1>1. run[p] \in Run
  BY DEF TypeOK
<1>2. \A s \in Senders : RepliesTo(s, stored) \in Nat
  BY RepliesFit DEF TypeOK
<1>3. QED
  BY <1>1, <1>2 DEF RolledUp, Run

\* What WriteReplies makes of a run.
Finished(p) == [run[p] EXCEPT !.at = "done"]

\* A run that is done keeps what it counted.
LEMMA FinishedFields ==
    ASSUME TypeOK, NEW p \in Runs
    PROVE  /\ Finished(p) \in Run /\ Finished(p).at = "done"
           /\ Finished(p).rollup = run[p].rollup /\ Finished(p).new = run[p].new
<1>1. run[p] \in Run
  BY DEF TypeOK
<1>2. QED
  BY <1>1 DEF Finished, Run

-----------------------------------------------------------------------------
(* IInv.                                                                    *)

\* A step that moves one run to r keeps IInv if r, and the rows, are right.
LEMMA RunMoves ==
    ASSUME IInv, NEW p \in Runs, NEW r \in Run, run' = [run EXCEPT ![p] = r],
           \A s \in Senders : r.rollup[s] <= Cardinality(MessagesOf(s)),
           UNCHANGED <<sent, stored>>, starts' \in 0..MaxStarts, overlapped' \in BOOLEAN,
           replied' \in [Threads -> Answers],
           counts' \in [Senders -> Nat],
           \A s \in Senders : counts'[s] <= Cardinality(MessagesOf(s))
    PROVE  IInv'
<1>1. /\ run' \in [Runs -> Run] /\ run'[p] = r
      /\ \A q \in Runs : q # p => run'[q] = run[q]
  BY DEF IInv, TypeOK
<1>2. TypeOK'
  BY <1>1 DEF IInv, TypeOK, MessagesOf
<1>3. RollupFits'
  BY <1>1 DEF IInv, RollupFits, MessagesOf
<1>4. QED
  BY <1>2, <1>3 DEF IInv

\* No row is touched: counts and answers are as they were.
LEMMA OnlyRunMoves ==
    ASSUME IInv, NEW p \in Runs, NEW r \in Run, run' = [run EXCEPT ![p] = r],
           \A s \in Senders : r.rollup[s] <= Cardinality(MessagesOf(s)),
           UNCHANGED <<sent, stored, replied, counts>>,
           starts' \in 0..MaxStarts, overlapped' \in BOOLEAN
    PROVE  IInv'
  BY RunMoves DEF IInv, TypeOK, MessagesOf

\* 0 is never more than a sender's messages.
LEMMA NoCountFits == \A s \in Senders : 0 <= Cardinality(MessagesOf(s))
<1>1. ASSUME NEW s \in Senders PROVE Cardinality(MessagesOf(s)) \in Nat
  BY MessageAssumption, FS_Subset, FS_CardinalityType DEF MessagesOf
<1>2. QED
  BY <1>1

\* Nothing is stored or known at the start.
LEMMA InitIInv == Init => IInv
<1> SUFFICES ASSUME Init PROVE IInv
  OBVIOUS
<1>1. run \in [Runs -> Run] /\ \A p \in Runs : run[p] = IdleRun
  BY IdleFields DEF Init
<1>2. RollupFits
  BY <1>1, IdleFields, NoCountFits DEF RollupFits
<1>3. TypeOK
  <2>1. /\ counts \in [Senders -> Nat]
        /\ \A s \in Senders : counts[s] <= Cardinality(MessagesOf(s))
    BY NoCountFits DEF Init, NoCounts
  <2>2. starts \in 0..MaxStarts
    BY BoundAssumption DEF Init
  <2>3. QED
    BY <1>1, <2>1, <2>2 DEF Init, TypeOK, Unknown, Answers, MessagesOf
<1>4. QED
  BY <1>2, <1>3 DEF IInv

\* A run begins with nothing answered and nothing counted.
LEMMA StartKeeps == ASSUME IInv, NEW p \in Runs, Start(p) PROVE IInv'
<1>1. /\ run' = [run EXCEPT ![p] = Started]
      /\ UNCHANGED <<sent, stored, replied, counts>>
      /\ starts' = starts + 1 /\ starts < MaxStarts
  BY DEF Start, Started
<1>2. starts' \in 0..MaxStarts
  BY <1>1, BoundAssumption DEF IInv, TypeOK
<1>3. overlapped' \in BOOLEAN
  BY Zenon DEF Start
<1>4. TypeOK
  BY DEF IInv
<1>5. QED
  BY <1>1, <1>2, <1>3, <1>4, StartedFields, NoCountFits, OnlyRunMoves

\* Whatever the provider said.
LEMMA CheckKeeps == ASSUME IInv, NEW p \in Runs, NEW t \in Threads, Check(p, t) PROVE IInv'
<1>1. PICK a \in Answer(t) : run' = [run EXCEPT ![p] = Answered(p, t, a)]
  BY DEF Check
<1>2. a \in Answers
  BY DEF Answer, Answers
<1>3. TypeOK /\ RollupFits
  BY DEF IInv
<1> DEFINE r == Answered(p, t, a)
<1> HIDE DEF r
<1>4. r \in Run /\ SameRun(p, r) /\ HasChecked(p, t, a, r)
  BY <1>2, <1>3, AnsweredFields DEF r
<1>5. /\ \A s \in Senders : r.rollup[s] <= Cardinality(MessagesOf(s))
  BY <1>2, <1>3, <1>4 DEF RollupFits, SameRun, HasChecked
<1>6. run' = [run EXCEPT ![p] = r]
  BY <1>1 DEF r
<1>7. /\ UNCHANGED <<sent, stored, replied, counts>>
      /\ starts' \in 0..MaxStarts /\ overlapped' \in BOOLEAN
  BY <1>3 DEF Check, TypeOK
<1>8. QED
  BY <1>4, <1>5, <1>6, <1>7, OnlyRunMoves

\* What a commit writes over a row is an answer the session has, or nothing.
LEMMA CommitWrites ==
    ASSUME TypeOK, NEW p \in Runs, Commit(p)
    PROVE  /\ replied' \in [Threads -> Answers]
           /\ \A t \in Threads :
                 \/ replied'[t] = replied[t]
                 \/ t \in run[p].checked /\ replied'[t] = run[p].new[t]
<1>1. /\ replied' = [t \in Threads |->
            IF t \in run[p].checked
            THEN Written(run[p].new[t], run[p].old[t], replied[t]) ELSE replied[t]]
      /\ run[p] \in Run /\ replied \in [Threads -> Answers]
  BY DEF Commit, TypeOK
<1>2. \A t \in Threads : run[p].new[t] \in Answers /\ replied[t] \in Answers
  BY <1>1 DEF Run
<1>3. \A t \in Threads : Written(run[p].new[t], run[p].old[t], replied[t])
                             \in {run[p].new[t], replied[t]}
  BY DEF Written
<1>4. QED
  BY <1>1, <1>2, <1>3

\* A commit writes answers of the run.
LEMMA CommitKeeps == ASSUME IInv, NEW p \in Runs, Commit(p) PROVE IInv'
<1>1. TypeOK /\ RollupFits
  BY DEF IInv
<1> DEFINE r == Expired(p)
<1>2. /\ r \in Run /\ r.rollup = run[p].rollup
      /\ \A t \in Threads : r.new[t] = "unknown"
  BY <1>1, ExpiredFields
<1> HIDE DEF r
<1>3. \A s \in Senders : r.rollup[s] <= Cardinality(MessagesOf(s))
  BY <1>1, <1>2 DEF RollupFits
<1>4. run' = [run EXCEPT ![p] = r]
  BY DEF Commit, r
<1>5. /\ replied' \in [Threads -> Answers]
  BY <1>1, CommitWrites
<1>6. /\ UNCHANGED <<sent, stored, counts>>
      /\ starts' \in 0..MaxStarts /\ overlapped' \in BOOLEAN
      /\ counts' \in [Senders -> Nat]
      /\ \A s \in Senders : counts'[s] <= Cardinality(MessagesOf(s))
  BY <1>1 DEF Commit, TypeOK, MessagesOf
<1>7. QED
  BY <1>2, <1>3, <1>4, <1>5, <1>6, RunMoves

\* The query counts stored messages.
LEMMA ReadKeeps == ASSUME IInv, NEW p \in Runs, ReadReplies(p) PROVE IInv'
<1>1. TypeOK
  BY DEF IInv
<1> DEFINE r == RolledUp(p)
<1>2. /\ r \in Run /\ r.new = run[p].new
      /\ \A s \in Senders : r.rollup[s] = RepliesTo(s, stored)
  BY <1>1, RolledUpFields
<1> HIDE DEF r
<1>3. \A s \in Senders : r.rollup[s] <= Cardinality(MessagesOf(s))
  BY <1>1, <1>2, RepliesFit DEF TypeOK
<1>4. run' = [run EXCEPT ![p] = r]
  BY DEF ReadReplies, r
<1>5. /\ UNCHANGED <<sent, stored, replied, counts>>
      /\ starts' \in 0..MaxStarts /\ overlapped' \in BOOLEAN
  BY <1>1 DEF ReadReplies, TypeOK
<1>6. QED
  BY <1>2, <1>3, <1>4, <1>5, OnlyRunMoves

\* The counts written are those that were read.
LEMMA WriteKeeps == ASSUME IInv, NEW p \in Runs, WriteReplies(p) PROVE IInv'
<1>1. TypeOK /\ RollupFits
  BY DEF IInv
<1> DEFINE r == Finished(p)
<1>2. r \in Run /\ r.rollup = run[p].rollup /\ r.new = run[p].new
  BY <1>1, FinishedFields
<1>3. run' = [run EXCEPT ![p] = r]
  BY DEF WriteReplies, Finished
<1> HIDE DEF r
<1>4. /\ \A s \in Senders : r.rollup[s] <= Cardinality(MessagesOf(s))
  BY <1>1, <1>2 DEF RollupFits
<1>5. /\ UNCHANGED <<sent, stored, replied>>
      /\ starts' \in 0..MaxStarts /\ overlapped' \in BOOLEAN
      /\ replied' \in [Threads -> Answers]
  BY <1>1 DEF WriteReplies, TypeOK
<1>6. run[p] \in Run /\ counts' = run[p].rollup
  BY <1>1 DEF WriteReplies, TypeOK
<1>7. /\ counts' \in [Senders -> Nat]
      /\ \A s \in Senders : counts'[s] <= Cardinality(MessagesOf(s))
  BY <1>1, <1>6 DEF Run, RollupFits
<1>8. QED
  BY <1>2, <1>3, <1>4, <1>5, <1>7, RunMoves

\* The end of a run takes its session with it.
LEMMA EndKeeps == ASSUME IInv, NEW p \in Runs, Fail(p) \/ Settle(p) PROVE IInv'
<1>1. PICK r \in {IdleRun, Failed} : run' = [run EXCEPT ![p] = r]
  BY DEF Fail, Settle, Failed
<1>2. /\ r \in Run
      /\ \A s \in Senders : r.rollup[s] = 0
      /\ \A t \in Threads : r.new[t] = "unknown"
  BY <1>1, IdleFields, FailedFields
<1>3. /\ UNCHANGED <<sent, stored, replied, counts>>
      /\ starts' \in 0..MaxStarts /\ overlapped' \in BOOLEAN
  BY DEF Fail, Settle, IInv, TypeOK
<1>4. /\ \A s \in Senders : r.rollup[s] <= Cardinality(MessagesOf(s))
  BY <1>2, NoCountFits
<1>5. QED
  BY <1>1, <1>2, <1>3, <1>4, OnlyRunMoves

\* A reply or a new message makes nothing false.
LEMMA OthersKeep ==
    ASSUME IInv, (\E t \in Threads : Reply(t)) \/ (\E m \in Messages : Store(m))
    PROVE  IInv'
<1>1. /\ UNCHANGED <<replied, counts, run, starts, overlapped>>
      /\ sent \subseteq sent' /\ sent' \subseteq Threads /\ stored' \subseteq Messages
  BY DEF Reply, Store, IInv, TypeOK
<1>2. QED
  BY <1>1 DEF IInv, TypeOK, RollupFits, MessagesOf

\* Every step keeps IInv, whatever runs overlap.
LEMMA NextIInv == IInv /\ [Next]_vars => IInv'
<1> SUFFICES ASSUME IInv, [Next]_vars PROVE IInv'
  OBVIOUS
<1>1. ASSUME NEW p \in Runs, RunStep(p) PROVE IInv'
  BY <1>1, StartKeeps, CheckKeeps, CommitKeeps, ReadKeeps, WriteKeeps, EndKeeps DEF RunStep
<1>2. CASE UNCHANGED vars
  BY <1>2 DEF vars, IInv, TypeOK, RollupFits, MessagesOf
<1>3. QED
  BY <1>1, <1>2, OthersKeep DEF Next

\* What the results below rest on.
THEOREM InvariantHolds == Spec => []IInv
  BY InitIInv, NextIInv, PTL DEF Spec

\* Answers, sessions and counters have their types, and no sender counts more
\* replies than it has messages, however runs and syncs interleave.
THEOREM TypeCorrect == Spec => []TypeOK
<1>1. IInv => TypeOK
  BY DEF IInv
<1>2. QED
  BY <1>1, InvariantHolds, PTL

-----------------------------------------------------------------------------
(* As long as no two runs overlap.                                          *)

\* What a step does to the answers and, at the end of a run, to the counts.
Stays == \A t \in Threads : replied[t] # "unknown" => replied'[t] = replied[t]

Counted ==
    \A p \in Runs, s \in Senders : Active(p) /\ run'[p].at = "done" =>
        counts'[s] >= Cardinality(DueTo(p, s))

Good == ~overlapped' => Stays /\ Counted

\* The session p goes on with; everybody else rests.
Becomes(p, r) ==
    /\ run'[p] = r
    /\ \A q \in Runs : q # p => run'[q] = run[q]

\* Answers and messages only come, so no sender's replies get fewer.
LEMMA RepliesGrow ==
    ASSUME NEW s \in Senders, stored \subseteq stored', stored' \subseteq Messages, Stays
    PROVE  RepliesTo(s, stored) <= RepliesTo(s, stored)'
<1> DEFINE A == {m \in stored' : SenderOf[m] = s /\ replied'[ThreadOf[m]] = "yes"}
           B == {m \in stored : SenderOf[m] = s /\ replied[ThreadOf[m]] = "yes"}
<1>1. \A m \in stored : ThreadOf[m] \in Threads
  BY HeaderAssumption
<1>2. \A m \in B : m \in A
  BY <1>1 DEF Stays
<1>3. A \in SUBSET Messages /\ B \in SUBSET A
  BY <1>2
<1>4. Cardinality(B) <= Cardinality(A)
  BY <1>3, Counting
<1>5. QED
  BY <1>4 DEF RepliesTo

\* With counts no bigger they are still covered.
LEMMA CountsStayCovered ==
    ASSUME IInv, IInv', CountsNeverOver, stored \subseteq stored', Stays, UNCHANGED counts
    PROVE  \A s \in Senders : ~overlapped => counts'[s] <= RepliesTo(s, stored)'
<1> SUFFICES ASSUME NEW s \in Senders, ~overlapped PROVE counts[s] <= RepliesTo(s, stored)'
  OBVIOUS
<1>1. stored \subseteq Messages /\ stored' \subseteq Messages /\ counts[s] \in Nat
  BY DEF IInv, TypeOK
<1>2. counts[s] <= RepliesTo(s, stored) /\ RepliesTo(s, stored) <= RepliesTo(s, stored)'
  BY <1>1, RepliesGrow DEF CountsNeverOver
<1>3. RepliesTo(s, stored) \in Nat
  BY <1>1, RepliesFit
<1>4. RepliesTo(s, stored)' \in Nat
  <2>1. {m \in stored' : SenderOf[m] = s /\ replied'[ThreadOf[m]] = "yes"} \in SUBSET Messages
    BY <1>1
  <2>2. QED
    BY <2>1, Counting DEF RepliesTo
<1>5. QED
  BY <1>1, <1>2, <1>3, <1>4

\* If p is the only run at work only its own session matters.
LEMMA OneRunMoves ==
    ASSUME NEW p \in Runs, NEW r, Becomes(p, r), \A q \in Runs : q # p => ~Active(q),
           RunAlone(p)', CountsNeverOver'
    PROVE  Alone'
<1>1. \A q \in Runs : q # p => ~Active(q)'
  BY DEF Becomes, Active
<1>2. \A q \in Runs : q # p => RunAlone(q)'
  <2> SUFFICES ASSUME NEW q \in Runs, q # p PROVE RunAlone(q)'
    OBVIOUS
  <2>1. ~Active(q)' /\ run'[q].at \notin {"checking", "rollup", "rolled"}
    BY <1>1 DEF Active
  <2>2. QED
    BY <2>1 DEF RunAlone
<1>3. QED
  BY <1>1, <1>2 DEF Alone

\* A run at rest has no session to agree with anything.
LEMMA RestIsAlone ==
    ASSUME NEW p \in Runs, run'[p].at \in {"idle", "done", "failed"} PROVE RunAlone(p)'
  BY DEF RunAlone, Active

\* A step that ends no run, changes no row.
LEMMA NoRowChanges ==
    ASSUME UNCHANGED replied, \A p \in Runs : Active(p) => run'[p].at # "done"
    PROVE  Good
  BY DEF Good, Stays, Counted

\* Until two runs overlap, a run at work is the only one.
LEMMA OthersRest ==
    ASSUME Alone, ~overlapped, NEW p \in Runs, Active(p)
    PROVE  /\ \A q \in Runs : q # p => ~Active(q)
           /\ RunAlone(p) /\ CountsNeverOver
  BY DEF Alone

\* A run that starts alone has read what is committed.
LEMMA StartAlone ==
    ASSUME IInv, IInv', Alone, NEW p \in Runs, Start(p) PROVE Alone' /\ Good
<1>1. /\ run' = [run EXCEPT ![p] = Started] /\ run[p].at = "idle"
      /\ UNCHANGED <<sent, stored, replied, counts>>
      /\ overlapped' = (overlapped \/ \E q \in Runs : Active(q))
  BY DEF Start, Started
<1>2. TypeOK
  BY DEF IInv
<1>3. Becomes(p, Started)
  BY <1>1, <1>2, StartedFields DEF TypeOK, Becomes
<1>4. Good
  <2>1. \A q \in Runs : Active(q) => run'[q].at # "done"
    BY <1>1, <1>3 DEF Active, Becomes
  <2>2. QED
    BY <1>1, <2>1, NoRowChanges
<1>5. ASSUME ~overlapped' PROVE Alone'
  <2>1. ~overlapped /\ \A q \in Runs : ~Active(q)
    BY <1>1, <1>5
  <2>2. CountsNeverOver'
    BY <1>1, <2>1 DEF Alone, CountsNeverOver, RepliesTo
  <2>3. CheckingAlone(p)'
    <3>1. /\ run'[p].checked = {} /\ run'[p].heard = {} /\ run'[p].old = replied'
          /\ \A t \in run'[p].todo : replied'[t] = "unknown"
      BY <1>1, <1>2, <1>3, StartedFields DEF Becomes, UnknownThreads
    <3>2. QED
      BY <3>1 DEF CheckingAlone
  <2>4. run'[p].at = "checking" /\ run'[p].basis \subseteq stored'
    BY <1>1, <1>2, <1>3, StartedFields DEF Becomes
  <2>5. RunAlone(p)'
    BY <2>3, <2>4 DEF RunAlone
  <2>6. QED
    BY <1>3, <2>1, <2>2, <2>5, OneRunMoves
<1>6. QED
  BY <1>4, <1>5 DEF Alone

\* The thread checked keeps its row; an object loaded anew is loaded as it is.
LEMMA CheckAlone ==
    ASSUME IInv, IInv', Alone, NEW p \in Runs, NEW t \in Threads, Check(p, t)
    PROVE  Alone' /\ Good
<1>1. PICK a \in Answer(t) : run' = [run EXCEPT ![p] = Answered(p, t, a)]
  BY DEF Check
<1> DEFINE r == Answered(p, t, a)
<1>2. /\ run[p].at = "checking" /\ t \in run[p].todo
      /\ UNCHANGED <<sent, stored, replied, counts, overlapped>>
  BY DEF Check
<1>3. a \in Answers /\ TypeOK
  BY DEF IInv, Answer, Answers
<1>4. SameRun(p, r) /\ HasChecked(p, t, a, r)
  BY <1>3, AnsweredFields
<1> HIDE DEF r
<1>5. Becomes(p, r)
  <2>1. run' = [run EXCEPT ![p] = r]
    BY <1>1 DEF r
  <2>2. QED
    BY <1>3, <2>1 DEF TypeOK, Becomes
<1>6. Good
  <2>1. \A q \in Runs : Active(q) => run'[q].at # "done"
    BY <1>2, <1>4, <1>5 DEF Active, Becomes, SameRun
  <2>2. QED
    BY <1>2, <2>1, NoRowChanges
<1>7. ASSUME ~overlapped' PROVE Alone'
  <2>1. ~overlapped /\ Active(p)
    BY <1>2, <1>7 DEF Active
  <2>2. (\A q \in Runs : q # p => ~Active(q)) /\ RunAlone(p) /\ CountsNeverOver
    BY <2>1, OthersRest
  <2>3. CountsNeverOver'
    BY <1>2, <2>1, <2>2 DEF CountsNeverOver, RepliesTo
  <2>4. CheckingAlone(p) /\ run[p].basis \subseteq stored
    BY <1>2, <2>1, <2>2 DEF RunAlone
  <2>5. Touched(p, t) = replied[t]
    BY <2>4 DEF CheckingAlone, Touched
  <2>6. run[p] \in Run
    BY <1>3 DEF TypeOK
  <2>7. CheckingAlone(p)'
    <3>1. /\ r.todo = run[p].todo \ {t} /\ r.held = run[p].held \cup {t}
          /\ r.checked = run[p].checked \cup {t}
          /\ r.heard = IF a = "yes" THEN run[p].heard \cup {t} ELSE run[p].heard
      BY <1>4 DEF HasChecked
    <3>2. r.checked \subseteq r.held /\ r.checked \cap r.todo = {}
      BY <2>4, <3>1 DEF CheckingAlone
    <3>3. \A u \in r.held : r.old[u] = replied[u]
      BY <1>4, <2>4, <2>5, <2>6, <3>1 DEF CheckingAlone, HasChecked, Run
    <3>4. \A u \in r.todo \cup r.checked : replied[u] = "unknown"
      BY <1>2, <2>4, <3>1 DEF CheckingAlone
    <3>5. \A u \in r.heard : replied[u] = "yes" \/ (u \in r.checked /\ r.new[u] = "yes")
      <4> SUFFICES ASSUME NEW u \in r.heard, replied[u] # "yes"
                   PROVE  u \in r.checked /\ r.new[u] = "yes"
        OBVIOUS
      <4>1. u \in Threads
        BY <2>6, <3>1 DEF Run
      <4>2. CASE u = t
        <5>1. a = "yes"
          BY <2>4, <4>2, <3>1, <1>2 DEF CheckingAlone
        <5>2. QED
          BY <1>4, <3>1, <4>1, <4>2, <5>1 DEF HasChecked
      <4>3. CASE u # t
        <5>1. u \in run[p].heard
          BY <3>1, <4>3
        <5>2. QED
          BY <1>4, <2>4, <3>1, <4>1, <4>3, <5>1 DEF CheckingAlone, HasChecked
      <4>4. QED
        BY <4>2, <4>3
    <3>6. QED
      BY <1>2, <1>5, <3>2, <3>3, <3>4, <3>5 DEF CheckingAlone, Becomes
  <2>8. run'[p].at = "checking" /\ run'[p].basis \subseteq stored'
    BY <1>2, <1>4, <1>5, <2>4 DEF SameRun, Becomes
  <2>9. RunAlone(p)'
    BY <2>7, <2>8 DEF RunAlone
  <2>10. QED
    BY <1>5, <2>2, <2>3, <2>9, OneRunMoves
<1>8. QED
  BY <1>6, <1>7 DEF Alone

\* Rows that a commit changes had no answer; all that was heard is written.
LEMMA CommitAlone ==
    ASSUME IInv, IInv', Alone, NEW p \in Runs, Commit(p) PROVE Alone' /\ Good
<1> DEFINE r == Expired(p)
<1>1. /\ run[p].at = "checking"
      /\ run' = [run EXCEPT ![p] = r]
      /\ UNCHANGED <<sent, stored, counts, overlapped>>
      /\ replied' = [t \in Threads |->
            IF t \in run[p].checked
            THEN Written(run[p].new[t], run[p].old[t], replied[t]) ELSE replied[t]]
  BY DEF Commit
<1>2. TypeOK /\ run[p] \in Run
  BY DEF IInv, TypeOK
<1>3. /\ r.at = IF run[p].todo = {} THEN "rollup" ELSE "checking"
      /\ r.basis = run[p].basis /\ r.todo = run[p].todo /\ r.held = {} /\ r.checked = {}
      /\ r.heard = run[p].heard
  BY <1>2, ExpiredFields
<1> HIDE DEF r
<1>4. Becomes(p, r)
  BY <1>1, <1>2 DEF TypeOK, Becomes
<1>5. ASSUME ~overlapped' PROVE Alone' /\ Stays
  <2>1. ~overlapped /\ Active(p)
    BY <1>1, <1>5 DEF Active
  <2>2. (\A q \in Runs : q # p => ~Active(q)) /\ RunAlone(p) /\ CountsNeverOver
    BY <2>1, OthersRest
  <2>3. CheckingAlone(p) /\ run[p].basis \subseteq stored
    BY <1>1, <2>1, <2>2 DEF RunAlone
  <2>4. Stays
    BY <1>1, <2>3 DEF CheckingAlone, Stays
  <2>5. CountsNeverOver'
    BY <1>1, <2>2, <2>4, CountsStayCovered DEF CountsNeverOver
  <2>6. \A t \in run[p].heard : replied'[t] = "yes"
    <3> SUFFICES ASSUME NEW t \in run[p].heard PROVE replied'[t] = "yes"
      OBVIOUS
    <3>1. t \in Threads
      BY <1>2 DEF Run
    <3>2. CASE replied[t] = "yes"
      BY <2>4, <3>1, <3>2 DEF Stays
    <3>3. CASE replied[t] # "yes"
      <4>1. /\ t \in run[p].checked /\ run[p].new[t] = "yes"
            /\ run[p].old[t] = replied[t]
        BY <2>3, <3>3 DEF CheckingAlone
      <4>2. QED
        BY <1>1, <3>1, <3>3, <4>1 DEF Written
    <3>4. QED
      BY <3>2, <3>3
  <2>7. \A t \in run[p].todo : replied'[t] = "unknown"
    <3> SUFFICES ASSUME NEW t \in run[p].todo PROVE replied'[t] = "unknown"
      OBVIOUS
    <3>1. t \in Threads /\ t \notin run[p].checked /\ replied[t] = "unknown"
      BY <1>2, <2>3 DEF Run, CheckingAlone
    <3>2. QED
      BY <1>1, <3>1
  <2>8. CheckingAlone(p)'
    BY <1>3, <1>4, <2>6, <2>7 DEF CheckingAlone, Becomes
  <2>9. RunAlone(p)'
    BY <1>1, <1>3, <1>4, <2>3, <2>6, <2>8 DEF RunAlone, Becomes
  <2>10. QED
    BY <1>4, <2>2, <2>4, <2>5, <2>9, OneRunMoves
<1>6. Counted
  BY <1>3, <1>4 DEF Counted, Becomes, Active
<1>7. QED
  BY <1>5, <1>6 DEF Alone, Good

\* The query counts the stored messages of all threads known to have a reply, and
\* those the run heard of are among them.
LEMMA ReadAlone ==
    ASSUME IInv, IInv', Alone, NEW p \in Runs, ReadReplies(p) PROVE Alone' /\ Good
<1> DEFINE r == RolledUp(p)
<1>1. /\ run[p].at = "rollup"
      /\ run' = [run EXCEPT ![p] = r]
      /\ UNCHANGED <<sent, stored, replied, counts, overlapped>>
  BY DEF ReadReplies
<1>2. TypeOK /\ run[p] \in Run
  BY DEF IInv, TypeOK
<1>3. /\ r.at = "rolled" /\ r.basis = run[p].basis /\ r.heard = run[p].heard
      /\ \A s \in Senders : r.rollup[s] = RepliesTo(s, stored)
  BY <1>2, RolledUpFields
<1> HIDE DEF r
<1>4. Becomes(p, r)
  BY <1>1, <1>2 DEF TypeOK, Becomes
<1>5. Good
  <2>1. \A q \in Runs : Active(q) => run'[q].at # "done"
    BY <1>1, <1>3, <1>4 DEF Active, Becomes
  <2>2. QED
    BY <1>1, <2>1, NoRowChanges
<1>6. ASSUME ~overlapped' PROVE Alone'
  <2>1. ~overlapped /\ Active(p)
    BY <1>1, <1>6 DEF Active
  <2>2. (\A q \in Runs : q # p => ~Active(q)) /\ RunAlone(p) /\ CountsNeverOver
    BY <2>1, OthersRest
  <2>3. CountsNeverOver'
    BY <1>1, <2>1, <2>2 DEF CountsNeverOver, RepliesTo
  <2>4. /\ run[p].basis \subseteq stored /\ stored \subseteq Messages
        /\ \A t \in run[p].heard : replied[t] = "yes"
    BY <1>1, <1>2, <2>1, <2>2 DEF RunAlone, TypeOK
  <2>5. ASSUME NEW s \in Senders
        PROVE  /\ run'[p].rollup[s] <= RepliesTo(s, stored)'
               /\ Cardinality(DueTo(p, s)') <= run'[p].rollup[s]
    <3> DEFINE A == {m \in stored : SenderOf[m] = s /\ replied[ThreadOf[m]] = "yes"}
    <3>1. DueTo(p, s)' = {m \in run[p].basis : SenderOf[m] = s
              /\ (ThreadOf[m] \in run[p].heard \/ replied[ThreadOf[m]] = "yes")}
      BY <1>1, <1>3, <1>4 DEF DueTo, Becomes
    <3>2. A \in SUBSET Messages /\ DueTo(p, s)' \in SUBSET A
      BY <2>4, <3>1
    <3>3. Cardinality(A) \in Nat /\ Cardinality(DueTo(p, s)') <= Cardinality(A)
      BY <3>2, Counting
    <3>4. run'[p].rollup[s] = Cardinality(A) /\ RepliesTo(s, stored)' = Cardinality(A)
      BY <1>1, <1>3, <1>4 DEF Becomes, RepliesTo
    <3>5. QED
      BY <3>3, <3>4
  <2>6. RolledAlone(p)'
    BY <2>5 DEF RolledAlone
  <2>7. run'[p].at = "rolled" /\ run'[p].basis \subseteq stored'
    BY <1>1, <1>3, <1>4, <2>4 DEF Becomes
  <2>8. RunAlone(p)'
    BY <2>6, <2>7 DEF RunAlone
  <2>9. QED
    BY <1>4, <2>2, <2>3, <2>8, OneRunMoves
<1>7. QED
  BY <1>5, <1>6 DEF Alone

\* What is written was neither too many nor too few, and still is.
LEMMA WriteAlone ==
    ASSUME IInv, IInv', Alone, NEW p \in Runs, WriteReplies(p) PROVE Alone' /\ Good
<1> DEFINE r == Finished(p)
<1>1. /\ run[p].at = "rolled"
      /\ run' = [run EXCEPT ![p] = r]
      /\ UNCHANGED <<sent, stored, replied, overlapped>>
      /\ counts' = run[p].rollup
  BY DEF WriteReplies, Finished
<1>2. TypeOK /\ run[p] \in Run
  BY DEF IInv, TypeOK
<1>3. r.at = "done"
  BY <1>2, FinishedFields
<1> HIDE DEF r
<1>4. Becomes(p, r)
  BY <1>1, <1>2 DEF TypeOK, Becomes
<1>5. ASSUME ~overlapped' PROVE Alone' /\ Stays /\ Counted
  <2>1. ~overlapped /\ Active(p)
    BY <1>1, <1>5 DEF Active
  <2>2. (\A q \in Runs : q # p => ~Active(q)) /\ RunAlone(p) /\ CountsNeverOver
    BY <2>1, OthersRest
  <2>3. RolledAlone(p)
    BY <1>1, <2>1, <2>2 DEF RunAlone
  <2>4. CountsNeverOver'
    BY <1>1, <2>3 DEF RolledAlone, CountsNeverOver, RepliesTo
  <2>5. RunAlone(p)'
    BY <1>3, <1>4, RestIsAlone DEF Becomes
  <2>6. Alone'
    BY <1>4, <2>2, <2>4, <2>5, OneRunMoves
  <2>7. ASSUME NEW q \in Runs, NEW s \in Senders, Active(q)
        PROVE  counts'[s] >= Cardinality(DueTo(q, s))
    <3>1. q = p /\ Cardinality(DueTo(p, s)) <= run[p].rollup[s]
      BY <2>2, <2>3, <2>7 DEF RolledAlone
    <3>2. run[p].rollup[s] \in Nat
      BY <1>2 DEF Run
    <3>3. Cardinality(DueTo(p, s)) \in Nat
      <4>1. DueTo(p, s) \in SUBSET Messages
        BY <1>2 DEF Run, DueTo
      <4>2. QED
        BY <4>1, Counting
    <3>4. QED
      BY <1>1, <3>1, <3>2, <3>3
  <2>8. QED
    BY <1>1, <2>6, <2>7 DEF Stays, Counted
<1>6. QED
  BY <1>5 DEF Alone, Good

\* A run that fails, or whose row is gone, takes its session with it.
LEMMA EndAlone ==
    ASSUME IInv, IInv', Alone, NEW p \in Runs, Fail(p) \/ Settle(p) PROVE Alone' /\ Good
<1>1. PICK r \in {IdleRun, Failed} : run' = [run EXCEPT ![p] = r]
  BY DEF Fail, Settle, Failed
<1>2. TypeOK /\ UNCHANGED <<sent, stored, replied, counts, overlapped>>
  BY DEF Fail, Settle, IInv
<1>3. Becomes(p, r) /\ r.at \in {"idle", "failed"}
  BY <1>1, <1>2, IdleFields, FailedFields DEF TypeOK, Becomes
<1>4. Good
  <2>1. \A q \in Runs : Active(q) => run'[q].at # "done"
    BY <1>3 DEF Active, Becomes
  <2>2. QED
    BY <1>2, <2>1, NoRowChanges
<1>5. ASSUME ~overlapped' PROVE Alone'
  <2>1. ~overlapped /\ CountsNeverOver /\ \A q \in Runs : RunAlone(q)
    BY <1>2, <1>5 DEF Alone
  <2>2. CountsNeverOver'
    BY <1>2, <2>1 DEF CountsNeverOver, RepliesTo
  <2>3. ~Active(p)' /\ RunAlone(p)'
    BY <1>3, RestIsAlone DEF Becomes, Active
  <2>4. ASSUME NEW q \in Runs, q # p PROVE Active(q)' = Active(q) /\ RunAlone(q)'
    <3>1. run'[q] = run[q]
      BY <1>3, <2>4 DEF Becomes
    <3>2. RunAlone(q)
      BY <2>1
    <3>3. QED
      BY <1>2, <3>1, <3>2
      DEF RunAlone, CheckingAlone, RolledAlone, DueTo, RepliesTo, Active
  <2>5. \A q1, q2 \in Runs : Active(q1)' /\ Active(q2)' => q1 = q2
    BY <1>2, <1>5, <2>3, <2>4 DEF Alone
  <2>6. QED
    BY <2>2, <2>3, <2>4, <2>5 DEF Alone
<1>6. QED
  BY <1>4, <1>5 DEF Alone

\* A reply changes no row; a message stored meanwhile adds to both sides at most.
LEMMA OthersAlone ==
    ASSUME IInv, IInv', Alone, UNCHANGED <<replied, counts, run, overlapped>>,
           stored \subseteq stored'
    PROVE  Alone' /\ Good
<1>1. Good
  BY NoRowChanges DEF Active
<1>2. ASSUME ~overlapped' PROVE Alone'
  <2>1. /\ ~overlapped /\ CountsNeverOver /\ Stays
        /\ \A p, q \in Runs : Active(p) /\ Active(q) => p = q
    BY <1>2 DEF Alone, Stays
  <2>2. CountsNeverOver'
    BY <2>1, CountsStayCovered DEF CountsNeverOver
  <2>3. ASSUME NEW p \in Runs PROVE RunAlone(p)'
    <3>1. RunAlone(p) /\ run'[p] = run[p]
      BY <1>2 DEF Alone
    <3>2. ASSUME RolledAlone(p) PROVE RolledAlone(p)'
      <4> SUFFICES ASSUME NEW s \in Senders
                   PROVE  /\ run[p].rollup[s] <= RepliesTo(s, stored)'
                          /\ Cardinality(DueTo(p, s)) <= run[p].rollup[s]
        BY DEF RolledAlone, DueTo
      <4>1. /\ run[p].rollup[s] <= RepliesTo(s, stored)
            /\ Cardinality(DueTo(p, s)) <= run[p].rollup[s]
        BY <3>2 DEF RolledAlone
      <4>2. stored \subseteq Messages /\ stored' \subseteq Messages /\ run[p] \in Run
        BY DEF IInv, TypeOK
      <4>3. RepliesTo(s, stored) <= RepliesTo(s, stored)'
        BY <2>1, <4>2, RepliesGrow
      <4>4. RepliesTo(s, stored) \in Nat /\ run[p].rollup[s] \in Nat
        BY <4>2, RepliesFit DEF Run
      <4>5. RepliesTo(s, stored)' \in Nat
        <5>1. {m \in stored' : SenderOf[m] = s /\ replied'[ThreadOf[m]] = "yes"}
                  \in SUBSET Messages
          BY <4>2
        <5>2. QED
          BY <5>1, Counting DEF RepliesTo
      <4>6. QED
        BY <4>1, <4>3, <4>4, <4>5
    <3>3. QED
      BY <3>1, <3>2 DEF RunAlone, CheckingAlone, Active
  <2>4. QED
    BY <2>1, <2>2, <2>3 DEF Alone, Active
<1>3. QED
  BY <1>1, <1>2 DEF Alone

\* Every step keeps Alone, and does what Good says.
LEMMA NextAlone ==
    IInv /\ IInv' /\ Alone /\ [Next]_vars => Alone' /\ Good
<1> SUFFICES ASSUME IInv, IInv', Alone, [Next]_vars PROVE Alone' /\ Good
  OBVIOUS
<1>1. ASSUME NEW p \in Runs, RunStep(p) PROVE Alone' /\ Good
  BY <1>1, StartAlone, CheckAlone, CommitAlone, ReadAlone, WriteAlone, EndAlone DEF RunStep
<1>2. ASSUME (\E t \in Threads : Reply(t)) \/ (\E m \in Messages : Store(m)) \/ UNCHANGED vars
      PROVE  Alone' /\ Good
  <2>1. UNCHANGED <<replied, counts, run, overlapped>> /\ stored \subseteq stored'
    BY <1>2 DEF Reply, Store, vars
  <2>2. QED
    BY <2>1, OthersAlone
<1>3. QED
  BY <1>1, <1>2 DEF Next

\* No run is active at the start.
LEMMA InitAlone == Init => Alone
<1> SUFFICES ASSUME Init PROVE Alone
  OBVIOUS
<1>1. \A p \in Runs : run[p].at = "idle"
  BY IdleFields DEF Init
<1>2. \A s \in Senders : counts[s] = 0 /\ RepliesTo(s, stored) \in Nat
  BY RepliesFit DEF Init, NoCounts
<1>3. QED
  BY <1>1, <1>2 DEF Alone, RunAlone, Active, CountsNeverOver

\* Until two runs overlap: what Alone says of sessions, answers and counts.
THEOREM AloneHolds == Spec => []Alone
  BY InitAlone, NextAlone, InvariantHolds, PTL DEF Spec

\* Until two runs overlap no sender has more replies than stored messages in
\* threads replied to, whatever is stored between the query and the update.
THEOREM CountsAreCovered == Spec => []CountsNeverOver
<1>1. Alone => CountsNeverOver
  BY DEF Alone, CountsNeverOver
<1>2. QED
  BY <1>1, AloneHolds, PTL

\* Until two runs overlap an answer once committed stays: a later check that fails
\* or finds nothing does not wipe it.
THEOREM AnswersAreKept == Spec => AnswersStay
<1>1. IInv /\ IInv' /\ Alone /\ [Next]_vars
        => [~overlapped' => \A t \in Threads : replied[t] # "unknown" => UNCHANGED replied[t]]_vars
  BY NextAlone DEF Good, Stays
<1>2. QED
  BY <1>1, AloneHolds, InvariantHolds, PTL DEF Spec, AnswersStay

\* Until two runs overlap the step that ends a run counts every reply it was told
\* of, in full batches and in the last one, and those of earlier runs.
THEOREM RepliesAreCounted == Spec => NoReplyUncounted
<1>1. IInv /\ IInv' /\ Alone /\ [Next]_vars
        => [~overlapped' => \A p \in Runs, s \in Senders : Active(p) /\ run'[p].at = "done" =>
              counts'[s] >= Cardinality({m \in run[p].basis : SenderOf[m] = s
                  /\ (ThreadOf[m] \in run[p].heard \/ replied[ThreadOf[m]] = "yes")})]_vars
  BY NextAlone DEF Good, Counted, DueTo
<1>2. QED
  BY <1>1, AloneHolds, InvariantHolds, PTL DEF Spec, NoReplyUncounted
=============================================================================
