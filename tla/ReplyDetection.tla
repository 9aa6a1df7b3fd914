--------------------------- MODULE ReplyDetection ---------------------------
(***************************************************************************)
(* compute_interactions (mailllama/services/interaction.py): asks the       *)
(* provider, thread by thread, whether the user ever replied, commits every *)
(* BatchSize threads, and rolls the answers up per sender. It runs as a     *)
(* background task; nothing keeps two of them from running at once, and a   *)
(* sync may store messages meanwhile. trash_by_sender(only_unreplied)       *)
(* (services/actions.py) acts on the answers.                              *)
(***************************************************************************)
EXTENDS Naturals, FiniteSets

CONSTANTS
    Messages, Threads, Senders,
    ThreadOf, SenderOf,
    Provider,       \* of the account: "gmail_api" or "imap"
    Runs,           \* background tasks "interactions"
    BatchSize,      \* 25 in the source
    MaxStarts,      \* bound: how often a run is started
    MaxReplies      \* bound: how many threads the user replies to

ASSUME HeaderAssumption ==
    ThreadOf \in [Messages -> Threads] /\ SenderOf \in [Messages -> Senders]
ASSUME ProviderAssumption == Provider \in {"gmail_api", "imap"}
ASSUME MessageAssumption == IsFiniteSet(Messages)
ASSUME BatchAssumption == BatchSize \in Nat \ {0}
ASSUME BoundAssumption == MaxStarts \in Nat /\ MaxReplies \in Nat

VARIABLES
    sent,       \* threads that hold a message sent by the user, at the provider
    stored,     \* message rows; a thread row exists with its first message
    replied,    \* thread.user_has_replied ("unknown": NULL)
    counts,     \* sender.reply_count
    run,        \* per run: progress and what its session holds
    starts,
    overlapped  \* history: two runs were at work at the same time

vars == <<sent, stored, replied, counts, run, starts, overlapped>>

Answers == {"unknown", "yes", "no"}

Unknown == [t \in Threads |-> "unknown"]

NoCounts == [s \in Senders |-> 0]

\* todo: threads still to be asked about; held: objects not expired; checked:
\* objects changed and not committed, with the values loaded and assigned;
\* heard: threads the provider said have a reply; basis: the messages stored
\* when it began; rollup: reply_map.
Run == [at : {"idle", "checking", "rollup", "rolled", "done", "failed"},
        todo : SUBSET Threads, held : SUBSET Threads, checked : SUBSET Threads,
        old : [Threads -> Answers], new : [Threads -> Answers],
        heard : SUBSET Threads, basis : SUBSET Messages, rollup : [Senders -> Nat]]

IdleRun == [at |-> "idle", todo |-> {}, held |-> {}, checked |-> {}, old |-> Unknown,
            new |-> Unknown, heard |-> {}, basis |-> {}, rollup |-> NoCounts]

Init ==
    /\ sent = {}
    /\ stored = {}
    /\ replied = Unknown
    /\ counts = NoCounts
    /\ run = [p \in Runs |-> IdleRun]
    /\ starts = 0
    /\ overlapped = FALSE

-----------------------------------------------------------------------------
(* Everybody else: the user replies, a sync stores.                         *)

Reply(t) ==
    /\ t \notin sent
    /\ Cardinality(sent) < MaxReplies
    /\ sent' = sent \cup {t}
    /\ UNCHANGED <<stored, replied, counts, run, starts, overlapped>>

Store(m) ==
    /\ m \notin stored
    /\ stored' = stored \cup {m}
    /\ UNCHANGED <<sent, replied, counts, run, starts, overlapped>>

\* What trash_by_sender(only_unreplied=True) selects.
Unreplied == {m \in stored : replied[ThreadOf[m]] \in {"no", "unknown"}}

-----------------------------------------------------------------------------
(* compute_interactions.                                                    *)

\* Mutation: answered threads are asked about again (only_unknown=False).
UnknownThreadsAll == {ThreadOf[m] : m \in stored}

UnknownThreads == {t \in {ThreadOf[m] : m \in stored} : replied[t] = "unknown"}

Active(p) == run[p].at \in {"checking", "rollup", "rolled"}

Start(p) ==
    /\ run[p].at = "idle"
    /\ starts < MaxStarts
    /\ starts' = starts + 1
    /\ overlapped' = (overlapped \/ \E q \in Runs : Active(q))
    /\ run' = [run EXCEPT ![p] = [IdleRun EXCEPT
          !.at = "checking", !.todo = UnknownThreads, !.held = UnknownThreads,
          !.old = replied, !.basis = stored]]
    /\ UNCHANGED <<sent, stored, replied, counts>>

\* An object the last commit expired is read again when it is touched.
Touched(p, t) == IF t \in run[p].held THEN run[p].old[t] ELSE replied[t]

\* bool(sent_ids); an exception leaves the thread unknown. Gmail knows the messages of
\* a thread. On IMAP the Sent folder may be missing, and what is searched in its headers
\* is a substring, the message's number even, if it has no id: any answer may be wrong.
Answer(t) ==
    IF Provider = "gmail_api" THEN {"unknown", IF t \in sent THEN "yes" ELSE "no"} ELSE Answers

\* thread.user_has_replied = bool(sent_ids), in the session of the run.
Answered(p, t, a) ==
    [run[p] EXCEPT !.todo = run[p].todo \ {t}, !.held = run[p].held \cup {t},
                   !.checked = run[p].checked \cup {t},
                   !.old = [run[p].old EXCEPT ![t] = Touched(p, t)],
                   !.new = [run[p].new EXCEPT ![t] = a],
                   !.heard = IF a = "yes" THEN run[p].heard \cup {t} ELSE run[p].heard]

Check(p, t) ==
    /\ run[p].at = "checking"
    /\ t \in run[p].todo
    /\ Cardinality(run[p].checked) < BatchSize
    /\ \E a \in Answer(t) :
         run' = [run EXCEPT ![p] = Answered(p, t, a)]
    /\ UNCHANGED <<sent, stored, replied, counts, starts, overlapped>>

\* SQLAlchemy writes a column only if the session changed it.
Written(new, old, committed) == IF new # old THEN new ELSE committed

\* session.commit() expires every object; after the last batch comes the roll-up.
Expired(p) ==
    [run[p] EXCEPT !.at = IF run[p].todo = {} THEN "rollup" ELSE "checking",
                   !.held = {}, !.checked = {}, !.old = Unknown, !.new = Unknown]

\* Mutation: only full batches are committed before the roll-up.
CommitFullBatches(p) ==
    /\ run[p].at = "checking"
    /\ Cardinality(run[p].checked) = BatchSize \/ run[p].todo = {}
    /\ LET b == IF Cardinality(run[p].checked) = BatchSize THEN run[p].checked ELSE {} IN
         replied' = [t \in Threads |->
             IF t \in b THEN Written(run[p].new[t], run[p].old[t], replied[t]) ELSE replied[t]]
    /\ run' = [run EXCEPT ![p] = Expired(p)]
    /\ UNCHANGED <<sent, stored, counts, starts, overlapped>>

Commit(p) ==
    /\ run[p].at = "checking"
    /\ Cardinality(run[p].checked) = BatchSize \/ run[p].todo = {}
    /\ replied' = [t \in Threads |->
          IF t \in run[p].checked
          THEN Written(run[p].new[t], run[p].old[t], replied[t]) ELSE replied[t]]
    /\ run' = [run EXCEPT ![p] = Expired(p)]
    /\ UNCHANGED <<sent, stored, counts, starts, overlapped>>

\* Mutation: the join lacks its condition.
RepliesToCrossJoin(s, S) ==
    Cardinality({m \in S : SenderOf[m] = s} \X {t \in Threads : replied[t] = "yes"})

RepliesTo(s, S) == Cardinality({m \in S : SenderOf[m] = s /\ replied[ThreadOf[m]] = "yes"})

RolledUp(p) == [run[p] EXCEPT !.at = "rolled",
                              !.rollup = [s \in Senders |-> RepliesTo(s, stored)]]

\* The grouped query reads committed rows...
ReadReplies(p) ==
    /\ run[p].at = "rollup"
    /\ run' = [run EXCEPT ![p] = RolledUp(p)]
    /\ UNCHANGED <<sent, stored, replied, counts, starts, overlapped>>

\* Mutation: senders are not reset to 0, and counts are added up.
WriteRepliesAdds(p) ==
    /\ run[p].at = "rolled"
    /\ counts' = [s \in Senders |-> counts[s] + run[p].rollup[s]]
    /\ run' = [run EXCEPT ![p].at = "done"]
    /\ UNCHANGED <<sent, stored, replied, starts, overlapped>>

\* ...the reset to 0 and the new counts are one transaction of the task.
WriteReplies(p) ==
    /\ run[p].at = "rolled"
    /\ counts' = run[p].rollup
    /\ run' = [run EXCEPT ![p].at = "done"]
    /\ UNCHANGED <<sent, stored, replied, starts, overlapped>>

\* The database is locked, or the process dies.
Fail(p) ==
    /\ Active(p)
    /\ run' = [run EXCEPT ![p] = [IdleRun EXCEPT !.at = "failed"]]
    /\ UNCHANGED <<sent, stored, replied, counts, starts, overlapped>>

Settle(p) ==
    /\ run[p].at \in {"done", "failed"}
    /\ run' = [run EXCEPT ![p] = IdleRun]
    /\ UNCHANGED <<sent, stored, replied, counts, starts, overlapped>>

-----------------------------------------------------------------------------
RunStep(p) ==
    \/ Start(p) \/ Commit(p) \/ ReadReplies(p) \/ WriteReplies(p) \/ Fail(p) \/ Settle(p)
    \/ \E t \in Threads : Check(p, t)

Next ==
    \/ \E p \in Runs : RunStep(p)
    \/ \E t \in Threads : Reply(t)
    \/ \E m \in Messages : Store(m)

Spec == Init /\ [][Next]_vars

-----------------------------------------------------------------------------
\* Type invariant: answers, the sessions of the runs, and counters that stay
\* within the messages a sender may have.
TypeOK ==
    /\ sent \subseteq Threads
    /\ stored \subseteq Messages
    /\ replied \in [Threads -> Answers]
    /\ counts \in [Senders -> Nat]
    /\ \A s \in Senders : counts[s] <= Cardinality({m \in Messages : SenderOf[m] = s})
    /\ run \in [Runs -> Run]
    /\ starts \in 0..MaxStarts
    /\ overlapped \in BOOLEAN

\* As long as no two runs overlap, an answer once committed stays; a later check
\* that fails does not wipe it.
AnswersStay ==
    [][~overlapped' => \A t \in Threads : replied[t] # "unknown" => UNCHANGED replied[t]]_vars

\* As long as no two runs overlap, no sender gets more replies than it has stored
\* messages in threads replied to, whatever is stored between query and update.
CountsNeverOver == ~overlapped => \A s \in Senders : counts[s] <= RepliesTo(s, stored)

\* As long as no two runs overlap, the step that ends a run counts every reply it
\* was told of, also those of its last, partial batch, and those of earlier runs.
NoReplyUncounted ==
    [][~overlapped' => \A p \in Runs, s \in Senders : Active(p) /\ run'[p].at = "done" =>
         counts'[s] >= Cardinality({m \in run[p].basis : SenderOf[m] = s
             /\ (ThreadOf[m] \in run[p].heard \/ replied[ThreadOf[m]] = "yes")})]_vars

\* services/actions.py:105, "filters to threads the user never replied to", and
\* services/chat.py:105, "keep threads the user replied to": at no moment would
\* the filter take a message of a thread that has a reply.
UnrepliedOnlyIsSafe == \A m \in Unreplied : ThreadOf[m] \notin sent
=============================================================================
