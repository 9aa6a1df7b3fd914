------------------------- MODULE TaskRunnerProofs -------------------------
(***************************************************************************)
(* Proofs about TaskRunner, for any number of tasks, clients, workers,      *)
(* progress reports, crashes and lock timeouts.                             *)
(*                                                                         *)
(* The inductive invariant IInv adds to the properties themselves           *)
(*   StageMatchesRow    - where a task's thread is tells its committed row, *)
(*   QueueIsQueued      - the pool's queue holds each waiting task once,    *)
(*   LockIsInFunction   - a held write lock is a running function's,        *)
(*   QueuesBelongToTask - notify's copies hold streams of the right task,   *)
(*   OpenIsUntold       - a generator that still polls told no outcome.     *)
(* SubscribersAreStreams is inductive on top of it. PInv, for progress, says *)
(* where what a client was shown is held until it is committed.             *)
(***************************************************************************)
EXTENDS TaskRunner, SequenceTheorems, TLAPS

StageMatchesRow ==
    \A t \in Tasks :
        /\ stage[t] = "absent" => row[t].status = "absent"
        /\ stage[t] \in {"created", "queued", "starting"} => row[t].status = "pending"
        /\ stage[t] \in {"body", "returned", "raised"} => row[t].status = "running"
        /\ stage[t] \in {"announce", "putting"} => row[t].status = event[t].status

QueueIsQueued ==
    \A i \in 1..Len(queue) :
        /\ stage[queue[i]] = "queued"
        /\ \A j \in 1..Len(queue) : queue[i] = queue[j] => i = j

LockIsInFunction == writer # NoTask => InFunction(writer)

QueuesBelongToTask ==
    \A c \in Clients :
        /\ \A t \in Tasks : c \in subs[t] \cup targets[t] => stream[c].task = t
        /\ stream[c].state = "idle" =>
               stream[c].task = NoTask /\ stream[c].inbox = <<>> /\ stream[c].seen = <<>>
        /\ stream[c].state # "idle" => stream[c].task \in Tasks

OpenIsUntold ==
    \A c \in Clients :
        stream[c].state \in {"idle", "open"} => LastStatus(stream[c].seen) \notin Outcomes

IInv ==
    /\ Types
    /\ StageMatchesRow
    /\ QueueIsQueued
    /\ LockIsInFunction
    /\ QueuesBelongToTask
    /\ EventMatchesRow
    /\ OpenIsUntold

-----------------------------------------------------------------------------
(* What the events of a queue are after a put and after a poll.             *)

\* A put adds its event to a queue and nothing else.
LEMMA RangeOfAppend ==
    ASSUME NEW S, NEW s \in Seq(S), NEW e \in S
    PROVE  Range(Append(s, e)) = Range(s) \cup {e}
<1>1. /\ Append(s, e) \in Seq(S)
      /\ Len(Append(s, e)) = Len(s) + 1
      /\ Len(s) \in Nat
      /\ \A i \in 1..Len(s) : Append(s, e)[i] = s[i]
      /\ Append(s, e)[Len(s) + 1] = e
  BY AppendProperties
<1>2. /\ Range(Append(s, e)) = {Append(s, e)[i] : i \in 1..Len(s) + 1}
      /\ Range(s) = {s[i] : i \in 1..Len(s)}
  BY <1>1, RangeEquality
<1>3. 1..Len(s) + 1 = 1..Len(s) \cup {Len(s) + 1}
  BY <1>1
<1>4. QED
  BY <1>1, <1>2, <1>3

\* A poll takes the first event and leaves the others.
LEMMA RangeOfTail ==
    ASSUME NEW S, NEW s \in Seq(S), s # <<>>
    PROVE  /\ Head(s) \in Range(s)
           /\ Range(Tail(s)) \subseteq Range(s)
           /\ Head(s) \in S
           /\ Tail(s) \in Seq(S)
  BY DEF Range

\* The event yielded last is the last one of the stream.
LEMMA LastStatusOfAppend ==
    ASSUME NEW S, NEW s \in Seq(S), NEW e \in S
    PROVE  LastStatus(Append(s, e)) = e.status
  BY DEF LastStatus

-----------------------------------------------------------------------------
(* Type correctness.                                                        *)

\* Before anything is submitted every variable has its type.
LEMMA InitTypes == Init => Types
  BY ProgressAssumption, CrashAssumption
  DEF Init, Types, Stages, Event, NoEvent, Outcomes, Row, Stream

\* Every step keeps every variable in its type.
LEMMA NextTypes == Types /\ [Next]_vars => Types'
<1> SUFFICES ASSUME Types, [Next]_vars PROVE Types'
  OBVIOUS
<1> USE ProgressAssumption, CrashAssumption
<1>1. ASSUME NEW t \in Tasks, CreateTaskRecord(t) \/ MarkRunning(t) PROVE Types'
  <2>1. [row[t] EXCEPT !.status = "pending"] \in Row
    BY DEF Types, Row
  <2>2. [row[t] EXCEPT !.status = "running"] \in Row
    BY DEF Types, Row
  <2>3. QED
    BY <1>1, <2>1, <2>2 DEF Types, CreateTaskRecord, MarkRunning, Stages
<1>2. ASSUME NEW t \in Tasks, ExecutorSubmit(t) \/ TakeTask(t) PROVE Types'
  <2>1. CASE ExecutorSubmit(t)
    BY <2>1, AppendProperties DEF Types, ExecutorSubmit, Stages
  <2>2. CASE TakeTask(t)
    BY <2>2, HeadTailProperties DEF Types, TakeTask, Stages
  <2>3. QED
    BY <1>2, <2>1, <2>2
<1>3. ASSUME NEW t \in Tasks, NEW from, NEW o \in Outcomes, MarkFinished(t, from, o)
      PROVE  Types'
  <2>1. [row[t] EXCEPT !.status = o] \in Row
    BY DEF Types, Row
  <2>2. [status |-> o, progress |-> 0] \in Event
    BY DEF Event
  <2>3. QED
    BY <1>3, <2>1, <2>2 DEF Types, MarkFinished, Stages
<1>4. ASSUME NEW t \in Tasks, MarkTimesOut(t) PROVE Types'
  BY <1>4 DEF Types, MarkTimesOut, Stages
<1>5. ASSUME NEW t \in Tasks, Update(t) PROVE Types'
  <2>1. dirty[t] + 1 \in 0..MaxProgress
    BY <1>5 DEF Types, Update
  <2>2. QED
    BY <1>5, <2>1 DEF Types, Update, Stages, Event
<1>6. ASSUME NEW t \in Tasks, NEW next \in {"body", "returned"}, SessionCommit(t, next)
      PROVE  Types'
  <2>1. [row[t] EXCEPT !.progress = dirty[t]] \in Row
    BY DEF Types, Row
  <2>2. QED
    BY <1>6, <2>1 DEF Types, SessionCommit, Stages
<1>7. ASSUME NEW t \in Tasks, Flush(t) \/ Raise(t) PROVE Types'
  BY <1>7 DEF Types, Flush, Raise, Release, Stages, Row
<1>8. ASSUME NEW t \in Tasks, Snapshot(t) \/ Notified(t) PROVE Types'
  BY <1>8 DEF Types, Snapshot, Notified, AfterNotify, Stages
<1>9. ASSUME NEW t \in Tasks, NEW c \in Clients, Put(t, c) PROVE Types'
  <2>1. Append(stream[c].inbox, event[t]) \in Seq(Event)
    BY AppendProperties DEF Types, Stream
  <2>2. [stream[c] EXCEPT !.inbox = Append(@, event[t])] \in Stream
    BY <2>1 DEF Types, Stream
  <2>3. QED
    BY <1>9, <2>2 DEF Types, Put
<1>10. ASSUME NEW c \in Clients, NEW t \in Tasks, Subscribe(c, t) PROVE Types'
  <2>1. [stream[c] EXCEPT !.task = t, !.state = "open"] \in Stream
    BY DEF Types, Stream
  <2>2. QED
    BY <1>10, <2>1 DEF Types, Subscribe
<1>11. ASSUME NEW c \in Clients, Poll(c) PROVE Types'
  <2> DEFINE data == Head(stream[c].inbox)
             next == IF data.status \in Outcomes THEN "closing" ELSE "open"
  <2>1. /\ data \in Event
        /\ Tail(stream[c].inbox) \in Seq(Event)
    BY <1>11, RangeOfTail DEF Types, Stream, Poll
  <2>2. Append(stream[c].seen, data) \in Seq(Event)
    BY <2>1, AppendProperties DEF Types, Stream
  <2>3. [stream[c] EXCEPT !.inbox = Tail(@), !.seen = Append(@, data), !.state = next]
            \in Stream
    BY <2>1, <2>2 DEF Types, Stream
  <2>4. QED
    BY <1>11, <2>3 DEF Types, Poll
<1>12. ASSUME NEW c \in Clients, Disconnect(c) \/ Unsubscribe(c) PROVE Types'
  <2>1. \A state \in {"closing", "closed"} : [stream[c] EXCEPT !.state = state] \in Stream
    BY DEF Types, Stream
  <2>2. \A t \in Tasks : subs[t] \ {c} \in SUBSET Clients
    BY DEF Types
  <2>3. stream' \in [Clients -> Stream]
    BY <1>12, <2>1 DEF Types, Disconnect, Unsubscribe
  <2>4. subs' \in [Tasks -> SUBSET Clients]
    <3>1. CASE Disconnect(c)
      BY <3>1 DEF Types, Disconnect
    <3>2. CASE Unsubscribe(c)
      <4> DEFINE u == stream[c].task
      <4>1. subs' = [subs EXCEPT ![u] = @ \ {c}]
        BY <3>2 DEF Unsubscribe
      <4>2. u \in Tasks \/ u = NoTask
        BY DEF Types, Stream
      <4> HIDE DEF u
      <4>3. QED
        BY <4>1, <4>2, <2>2, NoTaskAssumption DEF Types
    <3>3. QED
      BY <1>12, <3>1, <3>2
  <2>5. QED
    BY <1>12, <2>3, <2>4 DEF Types, Disconnect, Unsubscribe
<1>13. CASE Crash
  <2>1. \A c \in Clients : [stream[c] EXCEPT !.state = "closed"] \in Stream
    BY DEF Types, Stream
  <2>2. \A t \in Tasks : row[t].progress \in 0..MaxProgress
    BY DEF Types, Row
  <2>3. QED
    BY <1>13, <2>1, <2>2 DEF Types, Crash, Stages
<1>14. CASE UNCHANGED vars
  BY <1>14 DEF Types, vars
<1>15. QED
  BY <1>1, <1>2, <1>3, <1>4, <1>5, <1>6, <1>7, <1>8, <1>9, <1>10, <1>11, <1>12, <1>13, <1>14
  DEF Next, TaskStep, ClientStep, MarkCompleted, MarkFailed, Commit, Return, Outcomes

-----------------------------------------------------------------------------
(* The stage of a task's thread and its committed row.                      *)

\* The pool's queue keeps holding waiting tasks, each of them once.
LEMMA NextQueueIsQueued ==
    Types /\ QueueIsQueued /\ [Next]_vars => QueueIsQueued'
<1> SUFFICES ASSUME Types, QueueIsQueued, [Next]_vars PROVE QueueIsQueued'
  OBVIOUS
<1>1. ASSUME NEW t \in Tasks, ExecutorSubmit(t) PROVE QueueIsQueued'
  <2>1. /\ Len(queue') = Len(queue) + 1 /\ Len(queue) \in Nat
        /\ \A i \in 1..Len(queue) : queue'[i] = queue[i]
        /\ queue'[Len(queue) + 1] = t
    BY <1>1, AppendProperties DEF Types, ExecutorSubmit
  <2>2. \A i \in 1..Len(queue) : queue[i] # t /\ queue[i] \in Tasks
    BY <1>1 DEF QueueIsQueued, ExecutorSubmit, Types
  <2>3. stage' = [stage EXCEPT ![t] = "queued"]
    BY <1>1 DEF ExecutorSubmit
  <2>4. \A i \in 1..Len(queue) : stage'[queue[i]] = "queued"
    BY <2>2, <2>3 DEF QueueIsQueued, Types
  <2>5. stage'[t] = "queued"
    BY <2>3 DEF Types
  <2>6. \A i \in 1..Len(queue') : i \in 1..Len(queue) \/ i = Len(queue) + 1
    BY <2>1
  <2>7. \A i \in 1..Len(queue') : stage'[queue'[i]] = "queued"
    BY <2>1, <2>4, <2>5, <2>6
  <2>8. \A i, j \in 1..Len(queue') : queue'[i] = queue'[j] => i = j
    BY <2>1, <2>2, <2>6 DEF QueueIsQueued
  <2>9. QED
    BY <2>7, <2>8 DEF QueueIsQueued
<1>2. ASSUME NEW t \in Tasks, TakeTask(t) PROVE QueueIsQueued'
  <2>1. /\ Len(queue') = Len(queue) - 1 /\ Len(queue) \in Nat \ {0}
        /\ \A i \in 1..Len(queue') : queue'[i] = queue[i + 1]
        /\ t = queue[1]
    BY <1>2, HeadTailProperties DEF Types, TakeTask
  <2>2. \A i \in 2..Len(queue) : queue[i] # t /\ queue[i] \in Tasks
    <3> TAKE i \in 2..Len(queue)
    <3>1. i \in 1..Len(queue) /\ 1 \in 1..Len(queue) /\ i # 1
      BY <2>1
    <3>2. queue[i] # queue[1]
      BY <3>1 DEF QueueIsQueued
    <3>3. queue[i] \in Tasks
      BY <3>1 DEF Types
    <3>4. QED
      BY <3>2, <3>3, <2>1
  <2>3. stage' = [stage EXCEPT ![t] = "starting"]
    BY <1>2 DEF TakeTask
  <2>4. \A i \in 1..Len(queue') : i \in 1..Len(queue) /\ i + 1 \in 2..Len(queue)
    BY <2>1
  <2>5. \A i \in 2..Len(queue) : stage'[queue[i]] = "queued"
    BY <2>1, <2>2, <2>3 DEF QueueIsQueued, Types
  <2>6. \A i \in 1..Len(queue') : stage'[queue'[i]] = "queued"
    BY <2>1, <2>4, <2>5
  <2>7. \A i, j \in 2..Len(queue) : queue[i] = queue[j] => i = j
    BY <2>1 DEF QueueIsQueued
  <2>8. \A i, j \in 1..Len(queue') : queue'[i] = queue'[j] => i = j
    <3> TAKE i, j \in 1..Len(queue')
    <3>1. queue'[i] = queue'[j] => i + 1 = j + 1
      BY <2>1, <2>4, <2>7
    <3>2. QED
      BY <3>1, <2>1
  <2>9. QED
    BY <2>6, <2>8 DEF QueueIsQueued
<1>3. ASSUME NEW t \in Tasks, UNCHANGED queue, stage[t] # "queued",
             \A u \in Tasks : u # t => stage'[u] = stage[u]
      PROVE  QueueIsQueued'
  BY <1>3 DEF QueueIsQueued, Types
<1>4. ASSUME NEW t \in Tasks, TaskStep(t), ~ExecutorSubmit(t), ~TakeTask(t)
      PROVE  QueueIsQueued'
  <2>1. /\ UNCHANGED queue
        /\ stage[t] # "queued"
        /\ \A u \in Tasks : u # t => stage'[u] = stage[u]
    BY <1>4 DEF Types, TaskStep, CreateTaskRecord, MarkRunning, MarkCompleted, MarkFailed,
       MarkFinished, MarkTimesOut, Update, Flush, Commit, Return, SessionCommit, Raise,
       Snapshot, Notified, Put
  <2>2. QED
    BY <1>3, <2>1
<1>5. CASE (\E c \in Clients : ClientStep(c)) \/ UNCHANGED vars
  <2>1. UNCHANGED <<queue, stage>>
    BY <1>5 DEF ClientStep, Subscribe, Poll, Disconnect, Unsubscribe, vars
  <2>2. QED
    BY <2>1 DEF QueueIsQueued
<1>6. CASE Crash
  BY <1>6 DEF Crash, QueueIsQueued
<1>7. QED
  BY <1>1, <1>2, <1>4, <1>5, <1>6 DEF Next

\* Each step leaves stage and row in agreement.
LEMMA NextStageMatchesRow ==
    Types /\ QueueIsQueued /\ StageMatchesRow /\ [Next]_vars => StageMatchesRow'
<1> SUFFICES ASSUME Types, QueueIsQueued, StageMatchesRow, [Next]_vars
             PROVE  StageMatchesRow'
  OBVIOUS
<1>1. ASSUME NEW t \in Tasks, CreateTaskRecord(t) \/ ExecutorSubmit(t) \/ MarkRunning(t)
      PROVE  StageMatchesRow'
  BY <1>1 DEF Types, Row, StageMatchesRow, CreateTaskRecord, ExecutorSubmit, MarkRunning
<1>2. ASSUME NEW t \in Tasks, TakeTask(t) PROVE StageMatchesRow'
  <2>1. stage[t] = "queued"
    BY <1>2, HeadTailProperties DEF Types, TakeTask, QueueIsQueued
  <2>2. QED
    BY <1>2, <2>1 DEF Types, StageMatchesRow, TakeTask
<1>3. ASSUME NEW t \in Tasks, NEW from, NEW o \in Outcomes, MarkFinished(t, from, o)
      PROVE  StageMatchesRow'
  <2>1. /\ row'[t].status = o /\ event'[t].status = o /\ stage'[t] = "announce"
        /\ \A u \in Tasks : u # t => /\ row'[u] = row[u] /\ event'[u] = event[u]
                                     /\ stage'[u] = stage[u]
    BY <1>3 DEF Types, Row, MarkFinished
  <2>2. QED
    BY <2>1 DEF StageMatchesRow
<1>4. ASSUME NEW t \in Tasks, MarkTimesOut(t) \/ Update(t) \/ Flush(t) PROVE StageMatchesRow'
  BY <1>4 DEF Types, Event, StageMatchesRow, MarkTimesOut, Update, Flush
<1>5. ASSUME NEW t \in Tasks, Commit(t) \/ Return(t) \/ Raise(t) PROVE StageMatchesRow'
  <2>1. /\ stage[t] = "body" /\ stage'[t] \in {"body", "returned", "raised"}
        /\ row'[t].status = row[t].status /\ UNCHANGED event
        /\ \A u \in Tasks : u # t => row'[u] = row[u] /\ stage'[u] = stage[u]
    BY <1>5 DEF Types, Row, Commit, Return, SessionCommit, Raise
  <2>2. QED
    BY <2>1 DEF StageMatchesRow
<1>6. ASSUME NEW t \in Tasks, Snapshot(t) \/ \E c \in Clients : Put(t, c)
      PROVE  StageMatchesRow'
  BY <1>6 DEF Types, StageMatchesRow, Snapshot, Put
<1>7. ASSUME NEW t \in Tasks, Notified(t) PROVE StageMatchesRow'
  BY <1>7 DEF Types, StageMatchesRow, Notified, AfterNotify
<1>8. CASE (\E c \in Clients : ClientStep(c)) \/ UNCHANGED vars
  <2>1. UNCHANGED <<stage, row, event>>
    BY <1>8 DEF ClientStep, Subscribe, Poll, Disconnect, Unsubscribe, vars
  <2>2. QED
    BY <2>1 DEF StageMatchesRow
<1>9. CASE Crash
  BY <1>9 DEF Types, StageMatchesRow, Crash
<1>10. QED
  BY <1>1, <1>2, <1>3, <1>4, <1>5, <1>6, <1>7, <1>8, <1>9 DEF Next, TaskStep, MarkCompleted, MarkFailed, Outcomes

\* No step changes the row of a finished task.
LEMMA FinishedRowStep ==
    ASSUME Types, StageMatchesRow, [Next]_vars, NEW t \in Tasks, Terminal(t)
    PROVE  row'[t] = row[t]
<1>1. ASSUME NEW u \in Tasks, TaskStep(u) PROVE row'[t] = row[t]
  <2>1. CASE UNCHANGED row
    BY <2>1
  <2>2. CASE CreateTaskRecord(u) \/ MarkRunning(u) \/ MarkCompleted(u) \/ MarkFailed(u)
    BY <2>2 DEF Types, StageMatchesRow, Terminal, Outcomes, CreateTaskRecord, MarkRunning,
       MarkCompleted, MarkFailed, MarkFinished
  <2>3. CASE Commit(u) \/ Return(u)
    BY <2>3 DEF Types, StageMatchesRow, Terminal, Outcomes, Commit, Return, SessionCommit
  <2>4. QED
    BY <1>1, <2>1, <2>2, <2>3 DEF TaskStep, ExecutorSubmit, TakeTask, MarkTimesOut, Update,
       Flush, Raise, Snapshot, Notified, Put
<1>2. CASE (\E c \in Clients : ClientStep(c)) \/ Crash \/ UNCHANGED vars
  BY <1>2 DEF ClientStep, Subscribe, Poll, Disconnect, Unsubscribe, Crash, vars
<1>3. QED
  BY <1>1, <1>2 DEF Next

-----------------------------------------------------------------------------
(* The streams of the clients.                                              *)

\* Subscriber lists and notify's copies of them stay within their task.
LEMMA NextQueuesBelongToTask ==
    Types /\ QueuesBelongToTask /\ [Next]_vars => QueuesBelongToTask'
<1> SUFFICES ASSUME Types, QueuesBelongToTask, [Next]_vars PROVE QueuesBelongToTask'
  OBVIOUS
<1> USE NoTaskAssumption
<1>1. ASSUME NEW t \in Tasks, TaskStep(t), \A c \in Clients : ~Put(t, c), ~Snapshot(t)
      PROVE  QueuesBelongToTask'
  <2>1. UNCHANGED <<stream, subs, targets>>
    BY <1>1 DEF TaskStep, CreateTaskRecord, ExecutorSubmit, TakeTask, MarkRunning,
       MarkCompleted, MarkFailed, MarkFinished, MarkTimesOut, Update, Flush, Commit, Return,
       SessionCommit, Raise, Notified
  <2>2. QED
    BY <2>1 DEF QueuesBelongToTask
<1>2. ASSUME NEW t \in Tasks, Snapshot(t) PROVE QueuesBelongToTask'
  BY <1>2 DEF Types, QueuesBelongToTask, Snapshot
<1>3. ASSUME NEW t \in Tasks, NEW c \in Clients, Put(t, c) PROVE QueuesBelongToTask'
  <2>1. stream[c].task = t
    BY <1>3 DEF Put, QueuesBelongToTask
  <2>2. stream[c].state # "idle"
    BY <2>1 DEF QueuesBelongToTask
  <2>3. /\ stream'[c].task = t /\ stream'[c].state # "idle"
        /\ \A d \in Clients : d # c => stream'[d] = stream[d]
    BY <1>3, <2>1, <2>2 DEF Put, Types, Stream
  <2>4. \A u \in Tasks : targets'[u] \subseteq targets[u] /\ subs'[u] = subs[u]
    BY <1>3 DEF Put, Types
  <2>5. QED
    BY <2>1, <2>3, <2>4 DEF QueuesBelongToTask
<1>4. ASSUME NEW c \in Clients, NEW t \in Tasks, Subscribe(c, t) PROVE QueuesBelongToTask'
  <2>1. \A u \in Tasks : c \notin subs[u] \cup targets[u]
    BY <1>4 DEF Subscribe, QueuesBelongToTask
  <2>2. /\ stream'[c].task = t /\ stream'[c].state = "open"
        /\ \A d \in Clients : d # c => stream'[d] = stream[d]
    BY <1>4 DEF Subscribe, Types, Stream
  <2>3. /\ UNCHANGED targets
        /\ subs'[t] = subs[t] \cup {c}
        /\ \A u \in Tasks : u # t => subs'[u] = subs[u]
    BY <1>4 DEF Subscribe, Types
  <2>4. QED
    BY <2>1, <2>2, <2>3 DEF QueuesBelongToTask
<1>5. ASSUME NEW c \in Clients, Poll(c) \/ Disconnect(c) \/ Unsubscribe(c)
      PROVE  QueuesBelongToTask'
  <2>1. stream[c].state # "idle"
    BY <1>5 DEF Poll, Disconnect, Unsubscribe
  <2>2. /\ stream'[c].task = stream[c].task /\ stream'[c].state # "idle"
        /\ \A d \in Clients : d # c => stream'[d] = stream[d]
    BY <1>5 DEF Poll, Disconnect, Unsubscribe, Types, Stream
  <2>3. \A u \in Tasks : targets'[u] = targets[u] /\ subs'[u] \subseteq subs[u]
    <3>1. CASE UNCHANGED subs
      BY <1>5, <3>1 DEF Poll, Disconnect, Unsubscribe
    <3>2. CASE Unsubscribe(c)
      BY <3>2 DEF Unsubscribe, Types
    <3>3. QED
      BY <1>5, <3>1, <3>2 DEF Poll, Disconnect
  <2>4. QED
    BY <2>1, <2>2, <2>3 DEF QueuesBelongToTask
<1>6. CASE Crash
  <2>1. ASSUME NEW c \in Clients
        PROVE  /\ stream'[c].task = stream[c].task
               /\ stream'[c].inbox = stream[c].inbox
               /\ stream'[c].seen = stream[c].seen
               /\ stream'[c].state = "idle" <=> stream[c].state = "idle"
    <3>1. /\ stream[c] \in Stream
          /\ stream'[c] = IF stream[c].state \in {"open", "closing"}
                          THEN [stream[c] EXCEPT !.state = "closed"] ELSE stream[c]
      BY <1>6 DEF Crash, Types
    <3>2. QED
      BY <3>1 DEF Stream
  <2>2. \A t \in Tasks : subs'[t] = {} /\ targets'[t] = {}
    BY <1>6 DEF Crash
  <2>3. QED
    BY <2>1, <2>2 DEF QueuesBelongToTask
<1>7. CASE UNCHANGED vars
  BY <1>7 DEF vars, QueuesBelongToTask
<1>8. QED
  BY <1>1, <1>2, <1>3, <1>4, <1>5, <1>6, <1>7 DEF Next, ClientStep

\* A step that neither puts nor polls leaves events, tasks and the end of every
\* stream alone.
StreamsKept ==
    \A c \in Clients :
        /\ stream'[c].seen = stream[c].seen
        /\ stream'[c].inbox = stream[c].inbox
        /\ stream[c].state # "idle" => stream'[c].task = stream[c].task
        /\ stream'[c].state \in {"idle", "open"} => stream[c].state \in {"idle", "open"}

\* Only notify's put and the generator's poll change what a stream holds.
LEMMA OnlyPutAndPollTouchEvents ==
    ASSUME Types, [Next]_vars,
           \A c \in Clients : ~Poll(c) /\ \A t \in Tasks : ~Put(t, c)
    PROVE  StreamsKept
<1>1. CASE UNCHANGED stream
  BY <1>1 DEF StreamsKept
<1>2. ASSUME NEW c \in Clients, NEW t \in Tasks, Subscribe(c, t) PROVE StreamsKept
  <2>1. /\ stream[c].state = "idle"
        /\ stream' = [stream EXCEPT ![c] = [stream[c] EXCEPT !.task = t, !.state = "open"]]
    BY <1>2 DEF Subscribe, Types, Stream
  <2>2. QED
    BY <2>1 DEF StreamsKept, Types, Stream
<1>3. ASSUME NEW c \in Clients, Disconnect(c) PROVE StreamsKept
  <2>1. stream' = [stream EXCEPT ![c] = [stream[c] EXCEPT !.state = "closing"]]
    BY <1>3 DEF Disconnect, Types, Stream
  <2>2. QED
    BY <2>1 DEF StreamsKept, Types, Stream
<1>4. ASSUME NEW c \in Clients, Unsubscribe(c) PROVE StreamsKept
  <2>1. stream' = [stream EXCEPT ![c] = [stream[c] EXCEPT !.state = "closed"]]
    BY <1>4 DEF Unsubscribe, Types, Stream
  <2>2. QED
    BY <2>1 DEF StreamsKept, Types, Stream
<1>5. CASE Crash
  <2> SUFFICES ASSUME NEW c \in Clients
               PROVE  /\ stream'[c].seen = stream[c].seen
                      /\ stream'[c].inbox = stream[c].inbox
                      /\ stream'[c].task = stream[c].task
                      /\ stream'[c].state \in {"idle", "open"} => stream[c].state = "idle"
    BY DEF StreamsKept
  <2>1. /\ stream[c] \in Stream
        /\ stream'[c] = IF stream[c].state \in {"open", "closing"}
                        THEN [stream[c] EXCEPT !.state = "closed"] ELSE stream[c]
    BY <1>5 DEF Crash, Types
  <2>2. QED
    BY <2>1 DEF Stream
<1>6. QED
  BY <1>1, <1>2, <1>3, <1>4, <1>5 DEF Next, TaskStep, ClientStep, CreateTaskRecord,
     ExecutorSubmit, TakeTask, MarkRunning, MarkCompleted, MarkFailed, MarkFinished,
     MarkTimesOut, Update, Flush, Commit, Return, SessionCommit, Raise, Snapshot, Notified, vars

\* A terminal event is sent to, queued for and yielded by a stream only after
\* its row is committed, and the row stays: told outcomes remain true.
LEMMA NextEventMatchesRow ==
    IInv /\ [Next]_vars => EventMatchesRow'
<1> SUFFICES ASSUME IInv, [Next]_vars PROVE EventMatchesRow'
  OBVIOUS
<1> USE DEF IInv
<1> DEFINE Events(c) == Range(stream[c].seen) \cup Range(stream[c].inbox)
<1>1. ASSUME NEW c \in Clients, NEW e \in Events(c), e.status \in Outcomes,
             stream'[c].task = stream[c].task, stream[c].state # "idle"
      PROVE  row'[stream'[c].task].status = e.status
  <2>1. stream[c].task \in Tasks
    BY <1>1 DEF QueuesBelongToTask
  <2>2. row[stream[c].task].status = e.status
    BY <1>1 DEF EventMatchesRow
  <2>3. row'[stream[c].task] = row[stream[c].task]
    BY <1>1, <2>1, <2>2, FinishedRowStep DEF Terminal
  <2>4. QED
    BY <1>1, <2>2, <2>3
<1>2. \A c \in Clients : stream[c].state = "idle" => Events(c) = {}
  BY DEF QueuesBelongToTask, Range
<1>3. CASE StreamsKept
  BY <1>1, <1>2, <1>3 DEF EventMatchesRow, StreamsKept
<1>4. ASSUME NEW t \in Tasks, NEW c \in Clients, Put(t, c) PROVE EventMatchesRow'
  <2>1. /\ stream[c].task = t
        /\ stream[c].state # "idle"
    BY <1>4, NoTaskAssumption DEF Put, QueuesBelongToTask
  <2>2. /\ stream[c].inbox \in Seq(Event) /\ event[t] \in Event
    BY DEF Types, Stream
  <2>3. /\ stream'[c].task = t
        /\ stream'[c].seen = stream[c].seen
        /\ stream'[c].inbox = Append(stream[c].inbox, event[t])
        /\ \A d \in Clients : d # c => stream'[d] = stream[d]
        /\ UNCHANGED row
    BY <1>4, <2>1 DEF Put, Types, Stream
  <2>4. Range(stream'[c].inbox) = Range(stream[c].inbox) \cup {event[t]}
    BY <2>2, <2>3, RangeOfAppend
  <2>5. row[t].status = event[t].status
    BY <1>4 DEF Put, StageMatchesRow
  <2>6. \A e \in Events(c) : e.status \in Outcomes => row[t].status = e.status
    BY <2>1 DEF EventMatchesRow
  <2>7. ASSUME NEW e \in Range(stream'[c].seen) \cup Range(stream'[c].inbox),
               e.status \in Outcomes
        PROVE  row'[t].status = e.status
    <3>1. e \in Events(c) \/ e = event[t]
      BY <2>3, <2>4
    <3>2. QED
      BY <3>1, <2>3, <2>5, <2>6, <2>7
  <2>8. ASSUME NEW d \in Clients,
               NEW e \in Range(stream'[d].seen) \cup Range(stream'[d].inbox),
               e.status \in Outcomes
        PROVE  row'[stream'[d].task].status = e.status
    <3>1. CASE d = c
      BY <2>3, <2>7, <2>8, <3>1
    <3>2. CASE d # c
      <4>1. stream'[d] = stream[d] /\ row' = row
        BY <2>3, <3>2
      <4>2. QED
        BY <4>1, <2>8 DEF EventMatchesRow
    <3>3. QED
      BY <3>1, <3>2
  <2>9. QED
    BY <2>8 DEF EventMatchesRow
<1>5. ASSUME NEW c \in Clients, Poll(c) PROVE EventMatchesRow'
  <2> DEFINE data == Head(stream[c].inbox)
  <2>1. /\ stream[c].inbox \in Seq(Event) /\ stream[c].inbox # <<>>
        /\ stream[c].seen \in Seq(Event)
    BY <1>5 DEF Types, Stream, Poll
  <2>2. /\ data \in Range(stream[c].inbox) /\ data \in Event
        /\ Range(Tail(stream[c].inbox)) \subseteq Range(stream[c].inbox)
    BY <2>1, RangeOfTail
  <2>3. /\ stream'[c].task = stream[c].task
        /\ stream'[c].inbox = Tail(stream[c].inbox)
        /\ stream'[c].seen = Append(stream[c].seen, data)
        /\ \A d \in Clients : d # c => stream'[d] = stream[d]
        /\ UNCHANGED row
    BY <1>5 DEF Poll, Types, Stream
  <2>4. Range(stream'[c].seen) = Range(stream[c].seen) \cup {data}
    BY <2>1, <2>2, <2>3, RangeOfAppend
  <2>5. Range(stream'[c].seen) \cup Range(stream'[c].inbox) \subseteq Events(c)
    BY <2>2, <2>3, <2>4
  <2>6. \A e \in Range(stream'[c].seen) \cup Range(stream'[c].inbox) :
            e.status \in Outcomes => row'[stream'[c].task].status = e.status
    <3>1. \A e \in Events(c) :
              e.status \in Outcomes => row[stream[c].task].status = e.status
      BY DEF EventMatchesRow
    <3>2. QED
      BY <2>3, <2>5, <3>1
  <2>7. ASSUME NEW d \in Clients,
               NEW e \in Range(stream'[d].seen) \cup Range(stream'[d].inbox),
               e.status \in Outcomes
        PROVE  row'[stream'[d].task].status = e.status
    <3>1. CASE d = c
      BY <2>3, <2>6, <2>7, <3>1
    <3>2. CASE d # c
      <4>1. stream'[d] = stream[d] /\ row' = row
        BY <2>3, <3>2
      <4>2. QED
        BY <4>1, <2>7 DEF EventMatchesRow
    <3>3. QED
      BY <3>1, <3>2
  <2>8. QED
    BY <2>7 DEF EventMatchesRow
<1>6. QED
  BY <1>3, <1>4, <1>5, OnlyPutAndPollTouchEvents

\* The generator stops polling with the terminal event it yields.
LEMMA NextOpenIsUntold ==
    Types /\ OpenIsUntold /\ [Next]_vars => OpenIsUntold'
<1> SUFFICES ASSUME Types, OpenIsUntold, [Next]_vars PROVE OpenIsUntold'
  OBVIOUS
<1>1. CASE StreamsKept
  BY <1>1 DEF OpenIsUntold, StreamsKept
<1>2. ASSUME NEW t \in Tasks, NEW c \in Clients, Put(t, c) PROVE OpenIsUntold'
  <2>1. \A d \in Clients : stream'[d].seen = stream[d].seen /\ stream'[d].state = stream[d].state
    BY <1>2 DEF Put, Types, Stream
  <2>2. QED
    BY <2>1 DEF OpenIsUntold
<1>3. ASSUME NEW c \in Clients, Poll(c) PROVE OpenIsUntold'
  <2> DEFINE data == Head(stream[c].inbox)
  <2>1. /\ data \in Event /\ stream[c].seen \in Seq(Event)
    BY <1>3, RangeOfTail DEF Types, Stream, Poll
  <2>2. /\ stream'[c].seen = Append(stream[c].seen, data)
        /\ stream'[c].state = IF data.status \in Outcomes THEN "closing" ELSE "open"
        /\ \A d \in Clients : d # c => stream'[d] = stream[d]
    BY <1>3 DEF Poll, Types, Stream
  <2>3. LastStatus(stream'[c].seen) = data.status
    BY <2>1, <2>2, LastStatusOfAppend
  <2>4. QED
    BY <2>2, <2>3 DEF OpenIsUntold
<1>4. QED
  BY <1>1, <1>2, <1>3, OnlyPutAndPollTouchEvents

-----------------------------------------------------------------------------
(* The invariant, and what follows from it.                                 *)

\* A task gives up the lock with its session, when it returns as well as when it raises.
LEMMA NextLock ==
    ASSUME Types, QueueIsQueued, LockIsInFunction, [Next]_vars
    PROVE  LockIsInFunction'
<1> SUFFICES ASSUME NEW w \in Tasks, writer' = w PROVE InFunction(w)'
  <2>1. writer' \in Tasks \cup {NoTask}
    BY NextTypes DEF Types
  <2>2. QED
    BY <2>1 DEF LockIsInFunction, InFunction
<1>1. (writer = w => InFunction(w)) /\ w # NoTask
  BY NoTaskAssumption DEF LockIsInFunction, InFunction
<1>2. ASSUME writer = w, stage'[w] = stage[w], event'[w] = event[w] PROVE InFunction(w)'
  BY <1>1, <1>2 DEF InFunction
<1>3. ASSUME NEW t \in Tasks, TaskStep(t), t # w PROVE InFunction(w)'
  <2>1. stage'[w] = stage[w] /\ event'[w] = event[w]
    BY <1>1, <1>3 DEF Types, TaskStep, CreateTaskRecord, ExecutorSubmit, TakeTask, MarkRunning,
       MarkCompleted, MarkFailed, MarkFinished, MarkTimesOut, Update, Flush, Commit, Return,
       SessionCommit, Raise, Snapshot, Notified, Put
  <2>2. writer = w
    BY <1>1, <1>3 DEF TaskStep, CreateTaskRecord, ExecutorSubmit, TakeTask, MarkRunning,
       MarkCompleted, MarkFailed, MarkFinished, MarkTimesOut, Update, Flush, Commit, Return,
       SessionCommit, Raise, Release, Snapshot, Notified, Put
  <2>3. QED
    BY <1>2, <2>1, <2>2
<1>4. CASE ExecutorSubmit(w) \/ MarkTimesOut(w)
  BY <1>1, <1>4 DEF ExecutorSubmit, MarkTimesOut, InFunction
<1>5. CASE TakeTask(w)
  <2>1. stage[w] = "queued" /\ writer = w
    BY <1>5, HeadTailProperties DEF Types, TakeTask, QueueIsQueued
  <2>2. QED
    BY <1>1, <2>1 DEF InFunction
<1>6. CASE \/ CreateTaskRecord(w) \/ MarkRunning(w) \/ MarkCompleted(w) \/ MarkFailed(w)
           \/ Commit(w) \/ Return(w) \/ Raise(w)
  BY <1>1, <1>6 DEF CreateTaskRecord, MarkRunning, MarkCompleted, MarkFailed, MarkFinished,
     Commit, Return, SessionCommit, Raise, Release
<1>7. CASE Update(w)
  BY <1>7 DEF Update, Types, InFunction
<1>8. CASE Flush(w)
  BY <1>8 DEF Flush, InFunction
<1>9. CASE Snapshot(w)
  BY <1>1, <1>9 DEF Snapshot, Types, InFunction
<1>10. CASE Notified(w)
  BY <1>1, <1>10 DEF Notified, AfterNotify, Types, InFunction
<1>11. CASE (\E c \in Clients : Put(w, c) \/ ClientStep(c)) \/ UNCHANGED vars
  <2>1. UNCHANGED <<stage, event, writer>>
    BY <1>11 DEF Put, ClientStep, Subscribe, Poll, Disconnect, Unsubscribe, vars
  <2>2. QED
    BY <1>2, <2>1
<1>12. CASE Crash
  BY <1>1, <1>12 DEF Crash
<1>13. QED
  BY <1>3, <1>4, <1>5, <1>6, <1>7, <1>8, <1>9, <1>10, <1>11, <1>12 DEF Next, TaskStep

\* With no task, no stream and no queue the invariant is vacuous.
LEMMA InitIInv == Init => IInv
<1> SUFFICES ASSUME Init PROVE IInv
  OBVIOUS
<1>1. Types
  BY InitTypes
<1>2. StageMatchesRow
  BY DEF Init, StageMatchesRow
<1>3. QueueIsQueued
  BY DEF Init, QueueIsQueued
<1>4. QueuesBelongToTask
  BY DEF Init, QueuesBelongToTask
<1>5. EventMatchesRow
  BY DEF Init, EventMatchesRow, Range
<1>6. OpenIsUntold
  BY DEF Init, OpenIsUntold, LastStatus, Outcomes
<1>7. LockIsInFunction
  BY DEF Init, LockIsInFunction
<1>8. QED
  BY <1>1, <1>2, <1>3, <1>4, <1>5, <1>6, <1>7 DEF IInv

\* Every step keeps the conjunction: each part needs some of the others.
LEMMA NextIInv == IInv /\ [Next]_vars => IInv'
  BY NextTypes, NextStageMatchesRow, NextQueueIsQueued, NextLock, NextQueuesBelongToTask,
     NextEventMatchesRow, NextOpenIsUntold
  DEF IInv

\* What the safety results below rest on: the invariant always holds.
THEOREM InvariantHolds == Spec => []IInv
  BY InitIInv, NextIInv, PTL DEF Spec

\* Rows, stages, queues and events always have their types, and the write lock, if it
\* is held, is held by a task inside its function.
THEOREM TypeCorrect == Spec => []TypeOK
<1>1. IInv => TypeOK
  BY DEF IInv, LockIsInFunction, TypeOK
<1>2. QED
  BY <1>1, InvariantHolds, PTL

\* No client is ever told an outcome its task's committed row does not have.
THEOREM OutcomesToldAreTrue == Spec => []EventMatchesRow
<1>1. IInv => EventMatchesRow
  BY DEF IInv
<1>2. QED
  BY <1>1, InvariantHolds, PTL

\* A finished row is final, across workers, crashes and restarts.
THEOREM FinishedIsFinal == Spec => FinishedRowIsFinal
<1>1. IInv /\ [Next]_vars => [\A t \in Tasks : Terminal(t) => UNCHANGED row[t]]_vars
  BY FinishedRowStep DEF IInv
<1>2. QED
  BY <1>1, InvariantHolds, PTL DEF Spec, FinishedRowIsFinal

-----------------------------------------------------------------------------
(* Registered subscribers and live streams are the same.                    *)

\* Every step of a stream's life keeps its entry in the list of its task.
LEMMA NextSubscribersAreStreams ==
    IInv /\ SubscribersAreStreams /\ [Next]_vars => SubscribersAreStreams'
<1> SUFFICES ASSUME IInv, SubscribersAreStreams, [Next]_vars PROVE SubscribersAreStreams'
  OBVIOUS
<1> USE NoTaskAssumption DEF IInv
<1>1. ASSUME UNCHANGED subs,
             \A c \in Clients :
                 /\ stream'[c].task = stream[c].task
                 /\ stream'[c].state \in {"open", "closing"}
                        <=> stream[c].state \in {"open", "closing"}
      PROVE  SubscribersAreStreams'
  BY <1>1 DEF SubscribersAreStreams
<1>2. ASSUME NEW t \in Tasks, TaskStep(t) PROVE SubscribersAreStreams'
  <2>1. CASE UNCHANGED <<stream, subs>>
    BY <1>1, <2>1
  <2>2. CASE \E c \in Clients : Put(t, c)
    BY <1>1, <2>2 DEF Put, Types, Stream
  <2>3. QED
    BY <1>2, <2>1, <2>2 DEF TaskStep, CreateTaskRecord, ExecutorSubmit, TakeTask, MarkRunning,
       MarkCompleted, MarkFailed, MarkFinished, MarkTimesOut, Update, Flush, Commit, Return,
       SessionCommit, Raise, Snapshot, Notified
<1>3. ASSUME NEW c \in Clients, NEW t \in Tasks, Subscribe(c, t) PROVE SubscribersAreStreams'
  <2>1. /\ stream'[c].task = t /\ stream'[c].state = "open"
        /\ \A d \in Clients : d # c => stream'[d] = stream[d]
    BY <1>3 DEF Subscribe, Types, Stream
  <2>2. /\ subs'[t] = subs[t] \cup {c}
        /\ \A u \in Tasks : u # t => subs'[u] = subs[u]
        /\ \A u \in Tasks : c \notin subs[u]
    BY <1>3 DEF Subscribe, Types, QueuesBelongToTask
  <2>3. QED
    BY <2>1, <2>2 DEF SubscribersAreStreams
<1>4. ASSUME NEW c \in Clients, Poll(c) \/ Disconnect(c) PROVE SubscribersAreStreams'
  <2>1. /\ UNCHANGED subs
        /\ stream[c].state = "open" /\ stream'[c].state \in {"open", "closing"}
        /\ stream'[c].task = stream[c].task
        /\ \A d \in Clients : d # c => stream'[d] = stream[d]
    BY <1>4 DEF Poll, Disconnect, Types, Stream
  <2>2. QED
    BY <1>1, <2>1
<1>5. ASSUME NEW c \in Clients, Unsubscribe(c) PROVE SubscribersAreStreams'
  <2>1. /\ stream'[c].task = stream[c].task /\ stream'[c].state = "closed"
        /\ stream[c].task \in Tasks
        /\ \A d \in Clients : d # c => stream'[d] = stream[d]
    BY <1>5 DEF Unsubscribe, Types, Stream, QueuesBelongToTask
  <2>2. /\ subs'[stream[c].task] = subs[stream[c].task] \ {c}
        /\ \A u \in Tasks : u # stream[c].task => subs'[u] = subs[u]
    BY <1>5, <2>1 DEF Unsubscribe, Types
  <2>3. QED
    BY <2>1, <2>2 DEF SubscribersAreStreams
<1>6. CASE Crash
  <2>1. ASSUME NEW c \in Clients PROVE stream'[c].state \notin {"open", "closing"}
    <3>1. /\ stream[c] \in Stream
          /\ stream'[c] = IF stream[c].state \in {"open", "closing"}
                          THEN [stream[c] EXCEPT !.state = "closed"] ELSE stream[c]
      BY <1>6 DEF Crash, Types
    <3>2. QED
      BY <3>1 DEF Stream
  <2>2. \A t \in Tasks : subs'[t] = {}
    BY <1>6 DEF Crash
  <2>3. QED
    BY <2>1, <2>2 DEF SubscribersAreStreams
<1>7. CASE UNCHANGED vars
  BY <1>1, <1>7 DEF vars
<1>8. QED
  BY <1>2, <1>3, <1>4, <1>5, <1>6, <1>7 DEF Next, ClientStep

\* A queue is registered exactly while its own generator will read it: nothing
\* leaks, and no live stream is cut off from its task.
THEOREM RegisteredAreLive == Spec => []SubscribersAreStreams
<1>1. Init => SubscribersAreStreams
  BY DEF Init, SubscribersAreStreams
<1>2. IInv /\ SubscribersAreStreams /\ [Next]_vars => SubscribersAreStreams'
  BY NextSubscribersAreStreams
<1>3. QED
  BY <1>1, <1>2, InvariantHolds, PTL DEF Spec

-----------------------------------------------------------------------------
(* Progress announced before the commit is in the row that says completed.  *)

\* The progress a task announced, if any, is still in its session, which may commit it.
Held(t) ==
    \/ stage[t] \in {"absent", "created", "queued", "starting", "body", "returned"}
    \/ stage[t] \in {"announce", "putting"} /\ event[t].status = "running"

\* A number that was shown for the task is not lost yet.
Bounded(n, t) ==
    /\ Held(t) => n <= dirty[t]
    /\ row[t].status = "completed" => n <= row[t].progress

\* What a task holds before its notify, and before its row is completed.
ProgressIsHeld ==
    \A t \in Tasks :
        /\ stage[t] \in {"absent", "returned"} => row[t].progress = dirty[t]
        /\ stage[t] \in {"announce", "putting"} => Bounded(event[t].progress, t)

Shown(c) == Range(stream[c].seen) \cup Range(stream[c].inbox)

\* What the streams hold is bounded by the task they belong to.
ShownIsBounded ==
    \A c \in Clients : \A e \in Shown(c) : Bounded(e.progress, stream[c].task)

PInv == ProgressIsHeld /\ ShownIsBounded

\* No step takes back a bound: a rollback leaves the tasks that may complete, and
\* a completed row has what its session had.
LEMMA BoundsStay ==
    ASSUME IInv, ProgressIsHeld, [Next]_vars, NEW t \in Tasks, NEW n \in Nat, Bounded(n, t)
    PROVE  Bounded(n, t)'
<1> USE DEF IInv
<1> DEFINE Same == /\ row'[t] = row[t] /\ dirty'[t] = dirty[t]
                   /\ Held(t)' => Held(t)
<1>1. ASSUME Same PROVE Bounded(n, t)'
  BY <1>1 DEF Bounded
<1>2. ASSUME NEW u \in Tasks, TaskStep(u), u # t PROVE Same
  <2>1. /\ row'[t] = row[t] /\ dirty'[t] = dirty[t] /\ stage'[t] = stage[t]
        /\ event'[t] = event[t]
    BY <1>2 DEF Types, TaskStep, CreateTaskRecord, ExecutorSubmit, TakeTask, MarkRunning,
       MarkCompleted, MarkFailed, MarkFinished, MarkTimesOut, Update, Flush, Commit, Return,
       SessionCommit, Raise, Snapshot, Notified, Put
  <2>2. QED
    BY <2>1 DEF Held
<1>3. CASE CreateTaskRecord(t)
  BY <1>3 DEF CreateTaskRecord, Types, Row, Bounded, Held
<1>4. CASE ExecutorSubmit(t) \/ Flush(t)
  BY <1>1, <1>4 DEF Types, ExecutorSubmit, Flush, Held
<1>5. CASE TakeTask(t)
  <2>1. stage[t] = "queued"
    BY <1>5, HeadTailProperties DEF Types, TakeTask, QueueIsQueued
  <2>2. QED
    BY <1>1, <1>5, <2>1 DEF Types, TakeTask, Held
<1>6. CASE MarkRunning(t)
  <2>1. /\ row'[t].status = "running" /\ dirty'[t] = dirty[t] /\ Held(t)
    BY <1>6 DEF MarkRunning, Types, Row, Held
  <2>2. QED
    BY <2>1 DEF Bounded
<1>7. CASE MarkCompleted(t)
  <2>1. /\ stage[t] = "returned" /\ row'[t].status = "completed"
        /\ row'[t].progress = row[t].progress
        /\ stage'[t] = "announce" /\ event'[t].status = "completed"
    BY <1>7 DEF MarkCompleted, MarkFinished, Types, Row
  <2>2. ~Held(t)' /\ n <= dirty[t] /\ row[t].progress = dirty[t]
    BY <2>1 DEF Held, Bounded, ProgressIsHeld
  <2>3. QED
    BY <2>1, <2>2 DEF Bounded
<1>8. CASE MarkFailed(t)
  <2>1. /\ row'[t].status = "failed"
        /\ stage'[t] = "announce" /\ event'[t].status = "failed"
    BY <1>8 DEF MarkFailed, MarkFinished, Types, Row
  <2>2. QED
    BY <2>1 DEF Bounded, Held
<1>9. CASE MarkTimesOut(t)
  BY <1>1, <1>9 DEF Types, MarkTimesOut, Held
<1>10. CASE Update(t)
  <2>1. /\ row'[t] = row[t] /\ dirty'[t] = dirty[t] + 1 /\ stage[t] = "body"
        /\ dirty[t] \in Nat
    BY <1>10, ProgressAssumption DEF Types, Update
  <2>2. n <= dirty[t]
    BY <2>1 DEF Bounded, Held
  <2>3. n <= dirty'[t]
    BY <2>1, <2>2
  <2>4. QED
    BY <2>1, <2>3 DEF Bounded
<1>11. CASE Commit(t) \/ Return(t)
  <2>1. /\ stage[t] = "body" /\ dirty'[t] = dirty[t] /\ row'[t].status = row[t].status
        /\ row[t].status = "running"
    BY <1>11 DEF Commit, Return, SessionCommit, Types, Row, StageMatchesRow
  <2>2. QED
    BY <2>1 DEF Bounded, Held
<1>12. CASE Raise(t)
  <2>1. stage'[t] = "raised" /\ row'[t] = row[t]
    BY <1>12 DEF Raise, Types
  <2>2. QED
    BY <2>1 DEF Bounded, Held
<1>13. CASE Snapshot(t) \/ \E c \in Clients : Put(t, c)
  BY <1>1, <1>13 DEF Types, Snapshot, Put, Held
<1>14. CASE Notified(t)
  BY <1>1, <1>14 DEF Types, Notified, AfterNotify, Held
<1>15. CASE (\E c \in Clients : ClientStep(c)) \/ UNCHANGED vars
  <2>1. UNCHANGED <<row, stage, dirty, event>>
    BY <1>15 DEF ClientStep, Subscribe, Poll, Disconnect, Unsubscribe, vars
  <2>2. QED
    BY <1>1, <2>1 DEF Held
<1>16. CASE Crash
  <2>1. row'[t] = row[t] /\ stage'[t] \in {"absent", "done", "lost"}
    BY <1>16 DEF Crash, Types
  <2>2. stage'[t] = "absent" => stage[t] = "absent" /\ dirty'[t] = dirty[t]
    BY <1>16 DEF Crash, ProgressIsHeld, Types
  <2>3. QED
    BY <2>1, <2>2 DEF Bounded, Held
<1>17. QED
  BY <1>1, <1>2, <1>3, <1>4, <1>5, <1>6, <1>7, <1>8, <1>9, <1>10, <1>11, <1>12, <1>13,
     <1>14, <1>15, <1>16
  DEF Next, TaskStep

\* The session is committed before the row is completed, and an event is announced
\* with the progress its session has, or with none.
LEMMA NextProgressIsHeld ==
    IInv /\ ProgressIsHeld /\ [Next]_vars => ProgressIsHeld'
<1> SUFFICES ASSUME IInv, ProgressIsHeld, [Next]_vars, NEW t \in Tasks
             PROVE  /\ stage'[t] \in {"absent", "returned"} => row'[t].progress = dirty'[t]
                    /\ stage'[t] \in {"announce", "putting"} => Bounded(event[t].progress, t)'
  BY DEF ProgressIsHeld
<1> USE DEF IInv
<1>1. /\ stage[t] \in {"absent", "returned"} => row[t].progress = dirty[t]
      /\ stage[t] \in {"announce", "putting"} => Bounded(event[t].progress, t)
  BY DEF ProgressIsHeld
<1>2. ASSUME row'[t] = row[t], dirty'[t] = dirty[t], event'[t] = event[t],
             stage'[t] = stage[t]
      PROVE  /\ stage'[t] \in {"absent", "returned"} => row'[t].progress = dirty'[t]
             /\ stage'[t] \in {"announce", "putting"} => Bounded(event[t].progress, t)'
  BY <1>1, <1>2 DEF Bounded, Held
<1>3. ASSUME stage'[t] \notin {"absent", "returned", "announce", "putting"}
      PROVE  /\ stage'[t] \in {"absent", "returned"} => row'[t].progress = dirty'[t]
             /\ stage'[t] \in {"announce", "putting"} => Bounded(event[t].progress, t)'
  BY <1>3
<1>4. ASSUME NEW u \in Tasks, TaskStep(u), u # t
      PROVE  /\ row'[t] = row[t] /\ dirty'[t] = dirty[t] /\ event'[t] = event[t]
             /\ stage'[t] = stage[t]
  BY <1>4 DEF Types, TaskStep, CreateTaskRecord, ExecutorSubmit, TakeTask, MarkRunning,
     MarkCompleted, MarkFailed, MarkFinished, MarkTimesOut, Update, Flush, Commit, Return,
     SessionCommit, Raise, Snapshot, Notified, Put
<1>5. CASE \/ CreateTaskRecord(t) \/ ExecutorSubmit(t) \/ TakeTask(t) \/ MarkRunning(t)
           \/ MarkTimesOut(t) \/ Raise(t) \/ Commit(t)
  BY <1>3, <1>5 DEF Types, CreateTaskRecord, ExecutorSubmit, TakeTask, MarkRunning,
     MarkTimesOut, Raise, Commit, SessionCommit
<1>6. CASE MarkCompleted(t) \/ MarkFailed(t)
  <2>1. /\ stage'[t] = "announce" /\ event'[t].progress = 0
        /\ event'[t].status \in {"completed", "failed"}
        /\ row'[t].progress = row[t].progress /\ row[t].progress \in Nat
    BY <1>6, ProgressAssumption DEF MarkCompleted, MarkFailed, MarkFinished, Types, Row
  <2>2. QED
    BY <2>1 DEF Bounded, Held
<1>7. CASE Update(t)
  <2>1. /\ stage'[t] = "announce" /\ event'[t].progress = dirty[t] + 1
        /\ dirty'[t] = dirty[t] + 1 /\ dirty[t] \in Nat
        /\ row'[t].status = "running"
    BY <1>7, ProgressAssumption DEF Update, Types, StageMatchesRow
  <2>2. QED
    BY <2>1 DEF Bounded
<1>8. CASE Return(t)
  <2>1. stage'[t] = "returned" /\ row'[t].progress = dirty'[t]
    BY <1>8 DEF Return, SessionCommit, Types, Row
  <2>2. QED
    BY <2>1
<1>9. CASE Snapshot(t)
  <2>1. /\ stage[t] = "announce" /\ stage'[t] = "putting"
        /\ UNCHANGED <<row, dirty, event>>
    BY <1>9 DEF Snapshot, Types
  <2>2. QED
    BY <1>1, <2>1 DEF Bounded, Held
<1>10. CASE Flush(t) \/ \E c \in Clients : Put(t, c)
  BY <1>2, <1>10 DEF Flush, Put
<1>11. CASE Notified(t)
  BY <1>3, <1>11 DEF Notified, AfterNotify, Types
<1>12. CASE (\E c \in Clients : ClientStep(c)) \/ UNCHANGED vars
  <2>1. UNCHANGED <<row, stage, dirty, event>>
    BY <1>12 DEF ClientStep, Subscribe, Poll, Disconnect, Unsubscribe, vars
  <2>2. QED
    BY <1>2, <2>1
<1>13. CASE Crash
  BY <1>3, <1>13 DEF Crash, Types
<1>14. QED
  BY <1>2, <1>4, <1>5, <1>6, <1>7, <1>8, <1>9, <1>10, <1>11, <1>12, <1>13 DEF Next, TaskStep

\* A stream that goes on holds only what it held, or what notify puts into it.
KeptOrPut(c) ==
    /\ stream[c].state # "idle"
    /\ stream'[c].task = stream[c].task
    /\ \A e \in Shown(c)' :
          \/ e \in Shown(c)
          \/ e = event[stream[c].task] /\ stage[stream[c].task] = "putting"

\* One client's part of ShownIsBounded, after the step.
BoundedAfter(c) == \A e \in Shown(c)' : Bounded(e.progress, stream[c].task)'

\* Whatever a stream holds keeps its bound, and what is put has one.
LEMMA NextShownIsBounded ==
    IInv /\ PInv /\ [Next]_vars => ShownIsBounded'
<1> SUFFICES ASSUME IInv, PInv, [Next]_vars PROVE ShownIsBounded'
  OBVIOUS
<1> USE DEF IInv, PInv
<1>1. \A c \in Clients : stream[c].state = "idle" => Shown(c) = {}
  BY DEF QueuesBelongToTask, Shown, Range
<1>2. ASSUME NEW c \in Clients PROVE \A e \in Shown(c) : e.progress \in Nat
  <2>1. stream[c].seen \in Seq(Event) /\ stream[c].inbox \in Seq(Event)
    BY DEF Types, Stream
  <2>2. \A e \in Shown(c) : e \in Event
    BY <2>1 DEF Shown, Range
  <2>3. QED
    BY <2>2, ProgressAssumption DEF Event
<1>3. ASSUME NEW c \in Clients, NEW t \in Tasks, stream[c].state # "idle",
             stream[c].task = t, stream'[c].task = t,
             \A e \in Shown(c)' : e \in Shown(c) \/ (e = event[t] /\ stage[t] = "putting")
      PROVE  \A e \in Shown(c)' : Bounded(e.progress, t)'
  <2>1. \A e \in Shown(c) : Bounded(e.progress, t)
    BY <1>3 DEF ShownIsBounded
  <2>2. ASSUME NEW n \in Nat, Bounded(n, t) PROVE Bounded(n, t)'
    BY <2>1, <2>2, BoundsStay
  <2>4. ASSUME NEW e \in Shown(c)' PROVE Bounded(e.progress, t)'
    <3>1. CASE e \in Shown(c)
      BY <3>1, <2>1, <2>2, <1>2
    <3>2. CASE e = event[t] /\ stage[t] = "putting"
      <4>1. e.progress \in Nat
        BY <3>2, ProgressAssumption DEF Types, Event
      <4>2. Bounded(e.progress, t)
        BY <3>2 DEF ProgressIsHeld
      <4>3. QED
        BY <4>1, <4>2, <2>2
    <3>3. QED
      BY <3>1, <3>2, <1>3
  <2>5. QED
    BY <2>4
<1>4. ASSUME NEW c \in Clients, stream[c].state # "idle" PROVE stream[c].task \in Tasks
  BY <1>4 DEF QueuesBelongToTask
<1>5. ASSUME NEW c \in Clients, KeptOrPut(c) PROVE BoundedAfter(c)
  <2>1. PICK t \in Tasks : t = stream[c].task
    BY <1>4, <1>5 DEF KeptOrPut
  <2>2. \A e \in Shown(c)' : Bounded(e.progress, t)'
    <3>1. /\ stream[c].state # "idle" /\ stream[c].task = t /\ stream'[c].task = t
          /\ \A e \in Shown(c)' : e \in Shown(c) \/ (e = event[t] /\ stage[t] = "putting")
      BY <1>5, <2>1 DEF KeptOrPut
    <3>2. QED
      BY <1>3, <3>1
  <2>3. stream'[c].task = t
    BY <1>5, <2>1 DEF KeptOrPut
  <2>4. ASSUME NEW e \in Shown(c)' PROVE Bounded(e.progress, stream[c].task)'
    <3>1. Bounded(e.progress, t)'
      BY <2>2
    <3>2. QED
      BY <2>3, <3>1 DEF Bounded, Held
  <2>5. QED
    BY <2>4 DEF BoundedAfter
<1>6. ASSUME NEW c \in Clients, stream[c].state # "idle", stream'[c] = stream[c]
      PROVE  BoundedAfter(c)
  <2>1. Shown(c)' = Shown(c) /\ stream'[c].task = stream[c].task
    BY <1>6 DEF Shown
  <2>2. KeptOrPut(c)
    BY <1>6, <2>1 DEF KeptOrPut
  <2>3. QED
    BY <1>5, <2>2
<1>7. ASSUME NEW c \in Clients, stream[c].state = "idle", stream'[c] = stream[c]
      PROVE  BoundedAfter(c)
  BY <1>1, <1>7 DEF Shown, BoundedAfter
<1>8. CASE StreamsKept
  <2> SUFFICES ASSUME NEW c \in Clients
               PROVE  BoundedAfter(c)
    BY DEF ShownIsBounded, BoundedAfter
  <2>1. Shown(c)' = Shown(c)
    BY <1>8 DEF StreamsKept, Shown
  <2>2. CASE stream[c].state # "idle"
    <3>1. stream'[c].task = stream[c].task
      BY <1>8, <2>2 DEF StreamsKept
    <3>2. KeptOrPut(c)
      BY <2>1, <2>2, <3>1 DEF KeptOrPut
    <3>3. QED
      BY <1>5, <3>2
  <2>3. CASE stream[c].state = "idle"
    <3>1. Shown(c)' = {}
      BY <1>1, <2>1, <2>3
    <3>2. QED
      BY <3>1 DEF BoundedAfter
  <2>4. QED
    BY <2>2, <2>3
<1>9. ASSUME NEW d \in Clients, KeptOrPut(d),
             \A c \in Clients : c # d => stream'[c] = stream[c]
      PROVE  ShownIsBounded'
  <2> SUFFICES ASSUME NEW c \in Clients
               PROVE  BoundedAfter(c)
    BY DEF ShownIsBounded, BoundedAfter
  <2>1. CASE c = d
    BY <1>5, <1>9, <2>1
  <2>2. CASE c # d
    BY <1>6, <1>7, <1>9, <2>2
  <2>3. QED
    BY <2>1, <2>2
<1>10. ASSUME NEW t \in Tasks, NEW c \in Clients, Put(t, c) PROVE ShownIsBounded'
  <2>1. /\ stream[c].task = t /\ stream[c].state # "idle" /\ stage[t] = "putting"
    BY <1>10, NoTaskAssumption DEF Put, QueuesBelongToTask
  <2>2. /\ stream[c].inbox \in Seq(Event) /\ event[t] \in Event
    BY DEF Types, Stream
  <2>3. /\ stream'[c].task = t
        /\ stream'[c].seen = stream[c].seen
        /\ stream'[c].inbox = Append(stream[c].inbox, event[t])
        /\ \A d \in Clients : d # c => stream'[d] = stream[d]
    BY <1>10, <2>1 DEF Put, Types, Stream
  <2>4. Range(stream'[c].inbox) = Range(stream[c].inbox) \cup {event[t]}
    BY <2>2, <2>3, RangeOfAppend
  <2>5. \A e \in Shown(c)' : e \in Shown(c) \/ e = event[t]
    BY <2>3, <2>4 DEF Shown
  <2>6. KeptOrPut(c)
    BY <2>1, <2>3, <2>5 DEF KeptOrPut
  <2>7. QED
    BY <1>9, <2>3, <2>6
<1>11. ASSUME NEW c \in Clients, Poll(c) PROVE ShownIsBounded'
  <2> DEFINE data == Head(stream[c].inbox)
  <2>1. /\ stream[c].inbox \in Seq(Event) /\ stream[c].inbox # <<>>
        /\ stream[c].seen \in Seq(Event) /\ stream[c].state # "idle"
    BY <1>11 DEF Types, Stream, Poll
  <2>2. /\ data \in Range(stream[c].inbox) /\ data \in Event
        /\ Range(Tail(stream[c].inbox)) \subseteq Range(stream[c].inbox)
    BY <2>1, RangeOfTail
  <2>3. /\ stream'[c].task = stream[c].task
        /\ stream'[c].inbox = Tail(stream[c].inbox)
        /\ stream'[c].seen = Append(stream[c].seen, data)
        /\ \A d \in Clients : d # c => stream'[d] = stream[d]
    BY <1>11 DEF Poll, Types, Stream
  <2>4. Range(stream'[c].seen) = Range(stream[c].seen) \cup {data}
    BY <2>1, <2>2, <2>3, RangeOfAppend
  <2>5. \A e \in Shown(c)' : e \in Shown(c)
    BY <2>2, <2>3, <2>4 DEF Shown
  <2>6. KeptOrPut(c)
    BY <2>1, <2>3, <2>5 DEF KeptOrPut
  <2>7. QED
    BY <1>9, <2>3, <2>6
<1>12. QED
  BY <1>8, <1>10, <1>11, OnlyPutAndPollTouchEvents

\* What was delivered is what was yielded and what still waits.
LEMMA DeliveredIsShown ==
    ASSUME Types, NEW c \in Clients
    PROVE  Range(Delivered(c)) \subseteq Shown(c)
<1> DEFINE s == stream[c].seen
           q == stream[c].inbox
<1>1. s \in Seq(Event) /\ q \in Seq(Event)
  BY DEF Types, Stream
<1> HIDE DEF s, q
<1>2. /\ Len(s \o q) = Len(s) + Len(q)
      /\ Len(s) \in Nat /\ Len(q) \in Nat /\ s \o q \in Seq(Event)
      /\ \A i \in 1..(Len(s) + Len(q)) :
            (s \o q)[i] = IF i <= Len(s) THEN s[i] ELSE q[i - Len(s)]
  BY <1>1, ConcatProperties
<1>3. /\ Range(s \o q) = {(s \o q)[i] : i \in 1..(Len(s) + Len(q))}
      /\ Range(s) = {s[i] : i \in 1..Len(s)}
      /\ Range(q) = {q[i] : i \in 1..Len(q)}
  BY <1>1, <1>2, RangeEquality
<1>4. ASSUME NEW i \in 1..(Len(s) + Len(q)) PROVE (s \o q)[i] \in Range(s) \cup Range(q)
  <2>1. CASE i <= Len(s)
    BY <2>1, <1>2, <1>3
  <2>2. CASE ~(i <= Len(s))
    <3>1. i - Len(s) \in 1..Len(q)
      BY <2>2, <1>2
    <3>2. (s \o q)[i] = q[i - Len(s)]
      BY <2>2, <1>2
    <3>3. QED
      BY <3>1, <3>2, <1>3
  <2>3. QED
    BY <2>1, <2>2
<1>5. Range(s \o q) \subseteq Range(s) \cup Range(q)
  BY <1>3, <1>4
<1>6. QED
  BY <1>5 DEF Delivered, Shown, s, q

\* What the result below rests on.
THEOREM ProgressInvariantHolds == Spec => []PInv
<1>1. Init => PInv
  BY DEF Init, PInv, ProgressIsHeld, ShownIsBounded, Shown, Range
<1>2. IInv /\ PInv /\ [Next]_vars => PInv'
  BY NextProgressIsHeld, NextShownIsBounded DEF PInv
<1>3. QED
  BY <1>1, <1>2, InvariantHolds, PTL DEF Spec

\* A task that completes has in its row all the progress any client was shown,
\* whatever was announced before it was committed.
THEOREM ProgressShownIsKept == Spec => []NoProgressLost
<1>1. IInv /\ PInv => NoProgressLost
  BY DeliveredIsShown DEF IInv, PInv, ShownIsBounded, Bounded, NoProgressLost
<1>2. QED
  BY <1>1, InvariantHolds, ProgressInvariantHolds, PTL

-----------------------------------------------------------------------------
(* Refinement: the pool implements the task life cycle.                     *)

\* The initial pool is the abstract one with no task submitted.
LEMMA InitRefines == Init => Lifecycle!Init
  BY DEF Init, Lifecycle!Init, Told, LastStatus, Outcomes

\* The abstract state, by the names the refinement mapping gives it.
AStatus == [t \in Tasks |-> row[t].status]
AWatching == [c \in Clients |-> stream[c].task]
ATold == [c \in Clients |-> Told(c)]

\* Every step of the pool is an abstract step or changes nothing abstract.
LEMMA StepRefines == IInv /\ [Next]_vars => [Lifecycle!Next]_(Lifecycle!vars)
<1> SUFFICES ASSUME IInv, [Next]_vars PROVE [Lifecycle!Next]_(Lifecycle!vars)
  OBVIOUS
<1> USE DEF IInv
<1>1. ASSUME UNCHANGED <<AStatus, AWatching, ATold>>
      PROVE  [Lifecycle!Next]_(Lifecycle!vars)
  BY <1>1 DEF Lifecycle!vars, AStatus, AWatching, ATold
<1>2. ASSUME NEW t \in Tasks, NEW s, row'= [row EXCEPT ![t].status = s]
      PROVE  AStatus' = [AStatus EXCEPT ![t] = s]
  BY <1>2 DEF Types, Row, AStatus
<1>3. UNCHANGED stream => UNCHANGED <<AWatching, ATold>>
  BY DEF AWatching, ATold, Told
<1>4. ASSUME NEW t \in Tasks, CreateTaskRecord(t) PROVE Lifecycle!Submit(t)
  <2>1. /\ AStatus[t] = "absent"
        /\ AStatus' = [AStatus EXCEPT ![t] = "pending"]
        /\ UNCHANGED <<AWatching, ATold>>
    BY <1>4, <1>2, <1>3 DEF CreateTaskRecord, StageMatchesRow, AStatus
  <2>2. QED
    BY <2>1 DEF Lifecycle!Submit, Lifecycle!Advance, AStatus, AWatching, ATold
<1>5. ASSUME NEW t \in Tasks, MarkRunning(t) PROVE Lifecycle!Start(t)
  <2>1. /\ AStatus[t] = "pending"
        /\ AStatus' = [AStatus EXCEPT ![t] = "running"]
        /\ UNCHANGED <<AWatching, ATold>>
    BY <1>5, <1>2, <1>3 DEF MarkRunning, StageMatchesRow, AStatus
  <2>2. QED
    BY <2>1 DEF Lifecycle!Start, Lifecycle!Advance, AStatus, AWatching, ATold
<1>6. ASSUME NEW t \in Tasks, MarkCompleted(t) \/ MarkFailed(t) PROVE Lifecycle!Finish(t)
  <2>1. PICK o \in Outcomes : row' = [row EXCEPT ![t].status = o]
    BY <1>6 DEF MarkCompleted, MarkFailed, MarkFinished, Outcomes
  <2>2. /\ AStatus[t] = "running"
        /\ AStatus' = [AStatus EXCEPT ![t] = o]
        /\ UNCHANGED <<AWatching, ATold>>
    BY <1>6, <2>1, <1>2, <1>3
    DEF MarkCompleted, MarkFailed, MarkFinished, StageMatchesRow, AStatus
  <2>3. QED
    BY <2>2 DEF Lifecycle!Finish, Lifecycle!Outcomes, Lifecycle!Advance, Outcomes, AStatus,
       AWatching, ATold
<1>7. ASSUME NEW t \in Tasks, Commit(t) \/ Return(t)
      PROVE  UNCHANGED <<AStatus, AWatching, ATold>>
  <2>1. \A u \in Tasks : row'[u].status = row[u].status
    <3>1. row' = [row EXCEPT ![t].progress = dirty[t]]
      BY <1>7 DEF Commit, Return, SessionCommit
    <3>2. QED
      BY <3>1 DEF Types, Row
  <2>2. UNCHANGED stream
    BY <1>7 DEF Commit, Return, SessionCommit
  <2>3. QED
    BY <2>1, <2>2, <1>3 DEF AStatus
<1>8. ASSUME NEW t \in Tasks, NEW c \in Clients, Put(t, c)
      PROVE  UNCHANGED <<AStatus, AWatching, ATold>>
  <2>1. /\ UNCHANGED row
        /\ \A d \in Clients : /\ stream'[d].task = stream[d].task
                              /\ stream'[d].seen = stream[d].seen
    BY <1>8 DEF Put, Types, Stream
  <2>2. QED
    BY <2>1 DEF AStatus, AWatching, ATold, Told
<1>9. ASSUME NEW t \in Tasks, TaskStep(t),
              ~CreateTaskRecord(t), ~MarkRunning(t), ~MarkCompleted(t), ~MarkFailed(t),
              ~Commit(t), ~Return(t), \A c \in Clients : ~Put(t, c)
       PROVE  UNCHANGED <<AStatus, AWatching, ATold>>
  <2>1. UNCHANGED <<row, stream>>
    BY <1>9 DEF TaskStep, ExecutorSubmit, TakeTask, MarkTimesOut, Update, Flush, Raise,
       Snapshot, Notified
  <2>2. QED
    BY <2>1, <1>3 DEF AStatus
<1>10. ASSUME NEW c \in Clients, NEW t \in Tasks, Subscribe(c, t) PROVE Lifecycle!Watch(c, t)
  <2>1. stream[c].task = NoTask /\ UNCHANGED AStatus
    BY <1>10 DEF Subscribe, QueuesBelongToTask, AStatus
  <2>2. /\ AWatching' = [AWatching EXCEPT ![c] = t]
        /\ \A d \in Clients : stream'[d].seen = stream[d].seen
    BY <1>10 DEF Subscribe, Types, Stream, AWatching
  <2>3. UNCHANGED ATold
    BY <2>2 DEF ATold, Told
  <2>4. QED
    BY <2>1, <2>2, <2>3 DEF Lifecycle!Watch, AStatus, AWatching, ATold
<1>11. ASSUME NEW c \in Clients, Poll(c)
       PROVE  Lifecycle!Tell(c) \/ UNCHANGED <<AStatus, AWatching, ATold>>
  <2> DEFINE data == Head(stream[c].inbox)
  <2>1. /\ stream[c].inbox \in Seq(Event) /\ stream[c].inbox # <<>>
        /\ stream[c].seen \in Seq(Event) /\ stream[c].state = "open"
    BY <1>11 DEF Types, Stream, Poll
  <2>2. /\ data \in Event /\ data \in Range(stream[c].inbox)
    BY <2>1, RangeOfTail
  <2>3. /\ stream'[c].seen = Append(stream[c].seen, data)
        /\ \A d \in Clients : /\ stream'[d].task = stream[d].task
                              /\ d # c => stream'[d] = stream[d]
        /\ UNCHANGED row
    BY <1>11 DEF Poll, Types, Stream
  <2>4. UNCHANGED <<AStatus, AWatching>>
    BY <2>3 DEF AStatus, AWatching
  <2>5. LastStatus(stream'[c].seen) = data.status
    BY <2>1, <2>2, <2>3, LastStatusOfAppend
  <2>6. ATold[c] = "nothing"
    BY <2>1 DEF ATold, Told, OpenIsUntold
  <2>7. \A d \in Clients : d # c => ATold'[d] = ATold[d]
    BY <2>3 DEF ATold, Told
  <2>8. CASE data.status \in Outcomes
    <3>1. /\ stream[c].task \in Tasks
          /\ row[stream[c].task].status = data.status
      BY <2>1, <2>2, <2>8 DEF QueuesBelongToTask, EventMatchesRow
    <3>2. ATold'[c] = data.status
      BY <2>5, <2>8 DEF ATold, Told
    <3>3. ATold' = [ATold EXCEPT ![c] = AStatus[AWatching[c]]]
      BY <3>1, <3>2, <2>7 DEF ATold, AStatus, AWatching
    <3>4. AStatus[AWatching[c]] \in Outcomes /\ AWatching[c] # NoTask
      BY <3>1, <2>8, NoTaskAssumption DEF AStatus, AWatching
    <3>5. QED
      BY <3>3, <3>4, <2>4, <2>6
      DEF Lifecycle!Tell, Lifecycle!Outcomes, Outcomes, AStatus, AWatching, ATold
  <2>9. CASE data.status \notin Outcomes
    <3>1. ATold'[c] = "nothing"
      BY <2>5, <2>9 DEF ATold, Told
    <3>2. QED
      BY <3>1, <2>4, <2>6, <2>7 DEF ATold
  <2>10. QED
    BY <2>8, <2>9
<1>12. ASSUME NEW c \in Clients, Disconnect(c) \/ Unsubscribe(c)
       PROVE  UNCHANGED <<AStatus, AWatching, ATold>>
  <2>1. /\ UNCHANGED row
        /\ stream[c].state # "idle"
        /\ \A d \in Clients : /\ stream'[d].seen = stream[d].seen
                              /\ stream'[d].task = stream[d].task
    <3>1. CASE Disconnect(c)
      BY <3>1 DEF Disconnect, Types, Stream
    <3>2. CASE Unsubscribe(c)
      BY <3>2 DEF Unsubscribe, Types, Stream
    <3>3. QED
      BY <1>12, <3>1, <3>2
  <2>2. QED
    BY <2>1 DEF AStatus, AWatching, ATold, Told
<1>13. CASE Crash
  <2>1. UNCHANGED row
    BY <1>13 DEF Crash
  <2>2. ASSUME NEW c \in Clients
        PROVE  stream'[c].seen = stream[c].seen /\ stream'[c].task = stream[c].task
    <3>1. /\ stream[c] \in Stream
          /\ stream'[c] = IF stream[c].state \in {"open", "closing"}
                          THEN [stream[c] EXCEPT !.state = "closed"] ELSE stream[c]
      BY <1>13 DEF Crash, Types
    <3>2. QED
      BY <3>1 DEF Stream
  <2>3. UNCHANGED <<AStatus, AWatching, ATold>>
    BY <2>1, <2>2 DEF AStatus, AWatching, ATold, Told
  <2>4. QED
    BY <2>3, <1>1
<1>14. CASE UNCHANGED vars
  BY <1>14, <1>1, <1>3 DEF vars, AStatus
<1>15. ASSUME NEW t \in Tasks, TaskStep(t) PROVE [Lifecycle!Next]_(Lifecycle!vars)
  BY <1>1, <1>4, <1>5, <1>6, <1>7, <1>8, <1>9, <1>15 DEF Lifecycle!Next
<1>16. ASSUME NEW c \in Clients, ClientStep(c) PROVE [Lifecycle!Next]_(Lifecycle!vars)
  BY <1>1, <1>10, <1>11, <1>12, <1>16 DEF ClientStep, Lifecycle!Next
<1>17. QED
  BY <1>13, <1>14, <1>15, <1>16 DEF Next

\* Every behaviour of the pool, its sessions and its event queues is, seen
\* through the committed rows and the streams, one of the task life cycle.
THEOREM RunnerImplementsLifecycle == Spec => Implements
<1>1. Init => Lifecycle!Init
  BY InitRefines
<1>2. IInv /\ [Next]_vars => [Lifecycle!Next]_(Lifecycle!vars)
  BY StepRefines
<1>3. QED
  BY <1>1, <1>2, InvariantHolds, PTL DEF Spec, Implements, Lifecycle!Spec
=============================================================================
