---------------------------- MODULE TaskRunner ----------------------------
(***************************************************************************)
(* Background tasks (mailllama/tasks/runner.py), their progress events      *)
(* (mailllama/tasks/events.py) and the SSE streams of the web interface     *)
(* (mailllama/web/routes/tasks.py).                                         *)
(*                                                                         *)
(* A request thread creates the row and submits the task; a pool of worker  *)
(* threads runs it; notify() copies the subscriber list under the lock and  *)
(* fills the queues outside it; one generator per client polls its queue.   *)
(* The task function is any function that updates its progress on its own   *)
(* session, flushes (and then holds SQLite's write lock), commits, returns  *)
(* or raises.                                                              *)
(***************************************************************************)
EXTENDS Naturals, Sequences, FiniteSets, Functions

CONSTANTS
    Tasks,          \* task ids
    Clients,        \* browser connections to /tasks/stream/{id}
    NoTask,         \* no task: nobody holds the write lock, no stream opened
    MaxWorkers,     \* max_workers of the pool (4 in the source)
    Reporters,      \* bound: tasks whose function reports progress...
    MaxProgress,    \* bound: ...and how often
    MaxCrashes,     \* bound: how often the process dies and is started again
    LockTimeouts    \* TRUE: a task may hold the write lock past busy_timeout

ASSUME NoTaskAssumption == NoTask \notin Tasks
ASSUME WorkersAssumption == MaxWorkers \in Nat \ {0}
ASSUME ProgressAssumption == MaxProgress \in Nat
ASSUME CrashAssumption == MaxCrashes \in Nat
ASSUME TimeoutAssumption == LockTimeouts \in BOOLEAN

VARIABLES
    row,        \* TaskRecord: committed status and progress
    stage,      \* where the thread that owns the task is in submit/_run_sync
    queue,      \* the executor's FIFO of submitted, not yet started tasks
    dirty,      \* progress as the task's own, uncommitted session sees it
    writer,     \* the task whose session holds SQLite's write lock
    event,      \* the argument of the notify() call in progress
    targets,    \* notify's local copy of the subscribers, still to be served
    subs,       \* _subscribers
    stream,     \* per client: its task, its state, its queue, what it yielded
    crashes

vars == <<row, stage, queue, dirty, writer, event, targets, subs, stream, crashes>>

Outcomes == {"completed", "failed"}

Event == [status : {"running"} \cup Outcomes, progress : 0..MaxProgress]

NoEvent == [status |-> "running", progress |-> 0]

Row == [status : {"absent", "pending", "running"} \cup Outcomes, progress : 0..MaxProgress]

Stream == [task : Tasks \cup {NoTask}, state : {"idle", "open", "closing", "closed"},
           inbox : Seq(Event), seen : Seq(Event)]

Stages == {"absent", "created", "queued", "starting", "body", "announce",
           "putting", "returned", "raised", "done", "lost"}

\* The stages in which a worker thread of the pool is occupied by the task.
Busy == {"starting", "body", "announce", "putting", "returned", "raised"}

Init ==
    /\ row = [t \in Tasks |-> [status |-> "absent", progress |-> 0]]
    /\ stage = [t \in Tasks |-> "absent"]
    /\ queue = <<>>
    /\ dirty = [t \in Tasks |-> 0]
    /\ writer = NoTask
    /\ event = [t \in Tasks |-> NoEvent]
    /\ targets = [t \in Tasks |-> {}]
    /\ subs = [t \in Tasks |-> {}]
    /\ stream = [c \in Clients |-> [task |-> NoTask, state |-> "idle",
                                    inbox |-> <<>>, seen |-> <<>>]]
    /\ crashes = 0

-----------------------------------------------------------------------------
(* submit(): the row is committed by create_task_record before the pool     *)
(* learns of the task.                                                      *)

CreateTaskRecord(t) ==
    /\ stage[t] = "absent"
    /\ writer = NoTask
    /\ row' = [row EXCEPT ![t].status = "pending"]
    /\ stage' = [stage EXCEPT ![t] = "created"]
    /\ UNCHANGED <<queue, dirty, writer, event, targets, subs, stream, crashes>>

ExecutorSubmit(t) ==
    /\ stage[t] = "created"
    /\ queue' = Append(queue, t)
    /\ stage' = [stage EXCEPT ![t] = "queued"]
    /\ UNCHANGED <<row, dirty, writer, event, targets, subs, stream, crashes>>

TakeTask(t) ==
    /\ queue # <<>>
    /\ t = Head(queue)
    /\ Cardinality({u \in Tasks : stage[u] \in Busy}) < MaxWorkers
    /\ queue' = Tail(queue)
    /\ stage' = [stage EXCEPT ![t] = "starting"]
    /\ UNCHANGED <<row, dirty, writer, event, targets, subs, stream, crashes>>

-----------------------------------------------------------------------------
(* _run_sync: _mark commits in a session of its own, so it needs the write  *)
(* lock; notify follows the commit. The two _mark calls outside the try     *)
(* block are the ones whose "database is locked" nobody catches.            *)

MarkRunning(t) ==
    /\ stage[t] = "starting"
    /\ writer = NoTask
    /\ row' = [row EXCEPT ![t].status = "running"]
    /\ stage' = [stage EXCEPT ![t] = "body"]
    /\ UNCHANGED <<queue, dirty, writer, event, targets, subs, stream, crashes>>

\* Mutation: the session of the last _mark is closed without a commit.
MarkFinishedUncommitted(t, from, outcome) ==
    /\ stage[t] = from
    /\ writer = NoTask
    /\ event' = [event EXCEPT ![t] = [status |-> outcome, progress |-> 0]]
    /\ stage' = [stage EXCEPT ![t] = "announce"]
    /\ UNCHANGED <<row, queue, dirty, writer, targets, subs, stream, crashes>>

MarkFinished(t, from, outcome) ==
    /\ stage[t] = from
    /\ writer = NoTask
    /\ row' = [row EXCEPT ![t].status = outcome]
    /\ event' = [event EXCEPT ![t] = [status |-> outcome, progress |-> 0]]
    /\ stage' = [stage EXCEPT ![t] = "announce"]
    /\ UNCHANGED <<queue, dirty, writer, targets, subs, stream, crashes>>

MarkCompleted(t) == MarkFinished(t, "returned", "completed")

MarkFailed(t) == MarkFinished(t, "raised", "failed")

\* busy_timeout runs out while another task keeps the lock: the exception
\* leaves _run_sync and ends up, unread, in the pool's future.
MarkTimesOut(t) ==
    /\ LockTimeouts
    /\ stage[t] \in {"starting", "returned", "raised"}
    /\ writer # NoTask
    /\ stage' = [stage EXCEPT ![t] = "lost"]
    /\ UNCHANGED <<row, queue, dirty, writer, event, targets, subs, stream, crashes>>

-----------------------------------------------------------------------------
(* The task function, on a session of its own (routes/actions.py).          *)

\* handle.update(session=...), the way every caller does it: the row object of the
\* session changes, the database does not; subscribers are told at once. (Bound:
\* MaxProgress reports of Reporters. Without a session it would commit in one of its
\* own.)
Update(t) ==
    /\ stage[t] = "body"
    /\ t \in Reporters
    /\ dirty[t] < MaxProgress
    /\ dirty' = [dirty EXCEPT ![t] = @ + 1]
    /\ event' = [event EXCEPT ![t] = [status |-> "running", progress |-> dirty[t] + 1]]
    /\ stage' = [stage EXCEPT ![t] = "announce"]
    /\ UNCHANGED <<row, queue, writer, targets, subs, stream, crashes>>

\* session.flush() of a new row opens the write transaction.
Flush(t) ==
    /\ stage[t] = "body"
    /\ writer = NoTask
    /\ writer' = t
    /\ UNCHANGED <<row, stage, queue, dirty, event, targets, subs, stream, crashes>>

\* Mutation: the session is not rolled back when the function raises.
ReleaseNothing(t) == writer

Release(t) == IF writer = t THEN NoTask ELSE writer

\* Mutation: the session is closed, and its lock given up, without a commit.
SessionClose(t, next) ==
    /\ stage[t] = "body"
    /\ writer \in {NoTask, t}
    /\ writer' = NoTask
    /\ stage' = [stage EXCEPT ![t] = next]
    /\ UNCHANGED <<row, queue, dirty, event, targets, subs, stream, crashes>>

\* session.commit(): needs the lock, stores the progress, gives up the lock.
SessionCommit(t, next) ==
    /\ stage[t] = "body"
    /\ writer \in {NoTask, t}
    /\ row' = [row EXCEPT ![t].progress = dirty[t]]
    /\ writer' = NoTask
    /\ stage' = [stage EXCEPT ![t] = next]
    /\ UNCHANGED <<queue, dirty, event, targets, subs, stream, crashes>>

Commit(t) == SessionCommit(t, "body")

\* The function's session_scope commits on the way out...
Return(t) == SessionCommit(t, "returned")

\* ...or rolls back, which also takes back progress already announced.
Raise(t) ==
    /\ stage[t] = "body"
    /\ dirty' = [dirty EXCEPT ![t] = row[t].progress]
    /\ writer' = Release(t)
    /\ stage' = [stage EXCEPT ![t] = "raised"]
    /\ UNCHANGED <<row, queue, event, targets, subs, stream, crashes>>

-----------------------------------------------------------------------------
(* events.notify: copy the subscribers under the lock, put outside it.      *)

\* Mutation: one list of subscribers for all tasks.
SnapshotEverybody(t) ==
    /\ stage[t] = "announce"
    /\ targets' = [targets EXCEPT ![t] = UNION {subs[u] : u \in Tasks}]
    /\ stage' = [stage EXCEPT ![t] = "putting"]
    /\ UNCHANGED <<row, queue, dirty, writer, event, subs, stream, crashes>>

Snapshot(t) ==
    /\ stage[t] = "announce"
    /\ targets' = [targets EXCEPT ![t] = subs[t]]
    /\ stage' = [stage EXCEPT ![t] = "putting"]
    /\ UNCHANGED <<row, queue, dirty, writer, event, subs, stream, crashes>>

Put(t, c) ==
    /\ stage[t] = "putting"
    /\ c \in targets[t]
    /\ stream' = [stream EXCEPT ![c].inbox = Append(@, event[t])]
    /\ targets' = [targets EXCEPT ![t] = @ \ {c}]
    /\ UNCHANGED <<row, stage, queue, dirty, writer, event, subs, crashes>>

\* Where _run_sync goes on after the notify it called: back into the task
\* function, or to its end (the failure branch returns).
AfterNotify(status) == IF status = "running" THEN "body" ELSE "done"

\* Mutation: notify gives up before every queue has its event.
NotifiedEarly(t) ==
    /\ stage[t] = "putting"
    /\ stage' = [stage EXCEPT ![t] = AfterNotify(event[t].status)]
    /\ targets' = [targets EXCEPT ![t] = {}]
    /\ UNCHANGED <<row, queue, dirty, writer, event, subs, stream, crashes>>

Notified(t) ==
    /\ stage[t] = "putting"
    /\ targets[t] = {}
    /\ stage' = [stage EXCEPT ![t] = AfterNotify(event[t].status)]
    /\ UNCHANGED <<row, queue, dirty, writer, event, targets, subs, stream, crashes>>

-----------------------------------------------------------------------------
(* task_stream: subscribe in the handler, poll in the generator, and        *)
(* unsubscribe in its finally.                                              *)

\* Any id will do, one that is not given out yet too: nothing looks at the row.
Subscribe(c, t) ==
    /\ stream[c].state = "idle"
    /\ subs' = [subs EXCEPT ![t] = @ \cup {c}]
    /\ stream' = [stream EXCEPT ![c].task = t, ![c].state = "open"]
    /\ UNCHANGED <<row, stage, queue, dirty, writer, event, targets, crashes>>

Poll(c) ==
    /\ stream[c].state = "open"
    /\ stream[c].inbox # <<>>
    /\ LET data == Head(stream[c].inbox) IN
         stream' = [stream EXCEPT
             ![c].inbox = Tail(@),
             ![c].seen  = Append(@, data),
             ![c].state = IF data.status \in Outcomes THEN "closing" ELSE "open"]
    /\ UNCHANGED <<row, stage, queue, dirty, writer, event, targets, subs, crashes>>

Disconnect(c) ==
    /\ stream[c].state = "open"
    /\ stream' = [stream EXCEPT ![c].state = "closing"]
    /\ UNCHANGED <<row, stage, queue, dirty, writer, event, targets, subs, crashes>>

\* Mutation: the filter keeps the queue that goes away ("is" for "is not").
UnsubscribeOthers(c) ==
    /\ stream[c].state = "closing"
    /\ subs' = [subs EXCEPT ![stream[c].task] = @ \cap {c}]
    /\ stream' = [stream EXCEPT ![c].state = "closed"]
    /\ UNCHANGED <<row, stage, queue, dirty, writer, event, targets, crashes>>

Unsubscribe(c) ==
    /\ stream[c].state = "closing"
    /\ subs' = [subs EXCEPT ![stream[c].task] = @ \ {c}]
    /\ stream' = [stream EXCEPT ![c].state = "closed"]
    /\ UNCHANGED <<row, stage, queue, dirty, writer, event, targets, crashes>>

-----------------------------------------------------------------------------
(* The process is killed and started again: the pool, the subscribers and   *)
(* the open transactions are gone; nothing looks at the rows that are left. *)

Crash ==
    /\ crashes < MaxCrashes
    /\ crashes' = crashes + 1
    /\ stage' = [t \in Tasks |->
                   IF stage[t] \in {"absent", "done"} THEN stage[t] ELSE "lost"]
    /\ queue' = <<>>
    /\ dirty' = [t \in Tasks |-> row[t].progress]
    /\ writer' = NoTask
    /\ targets' = [t \in Tasks |-> {}]
    /\ subs' = [t \in Tasks |-> {}]
    /\ stream' = [c \in Clients |->
                    IF stream[c].state \in {"open", "closing"}
                    THEN [stream[c] EXCEPT !.state = "closed"] ELSE stream[c]]
    /\ UNCHANGED <<row, event>>

-----------------------------------------------------------------------------
TaskStep(t) ==
    \/ CreateTaskRecord(t) \/ ExecutorSubmit(t) \/ TakeTask(t)
    \/ MarkRunning(t) \/ MarkCompleted(t) \/ MarkFailed(t) \/ MarkTimesOut(t)
    \/ Update(t) \/ Flush(t) \/ Commit(t) \/ Return(t) \/ Raise(t)
    \/ Snapshot(t) \/ Notified(t)
    \/ \E c \in Clients : Put(t, c)

ClientStep(c) ==
    \/ \E t \in Tasks : Subscribe(c, t)
    \/ Poll(c) \/ Disconnect(c) \/ Unsubscribe(c)

Next ==
    \/ \E t \in Tasks : TaskStep(t)
    \/ \E c \in Clients : ClientStep(c)
    \/ Crash

Spec == Init /\ [][Next]_vars

\* The thread of a task, where it waits for nobody.
Proceed(t) ==
    \/ ExecutorSubmit(t) \/ TakeTask(t) \/ Return(t) \/ Raise(t) \/ Snapshot(t) \/ Notified(t)
    \/ \E c \in Clients : Put(t, c)

\* Threads of the process are scheduled, a task function ends, an open stream
\* is polled every 0.3 s; the lock is polled by SQLite's busy handler, so a
\* waiter gets it if it is free again and again. Nobody is obliged to submit, to
\* subscribe or to disconnect, and no lock wait is obliged to time out.
Fairness ==
    /\ \A t \in Tasks :
         /\ WF_vars(Proceed(t))
         /\ SF_vars(MarkRunning(t) \/ MarkCompleted(t) \/ MarkFailed(t))
    /\ \A c \in Clients : WF_vars(Poll(c) \/ Unsubscribe(c))

FairSpec == Spec /\ Fairness

-----------------------------------------------------------------------------
\* Everything put into a client's queue so far, in order.
Delivered(c) == stream[c].seen \o stream[c].inbox

Terminal(t) == row[t].status \in Outcomes

\* A task inside its function, or in an update() the function has called.
InFunction(t) ==
    \/ stage[t] = "body"
    \/ stage[t] \in {"announce", "putting"} /\ event[t].status = "running"

\* The types the dataclasses and containers of runner.py and events.py give them.
Types ==
    /\ row \in [Tasks -> Row]
    /\ stage \in [Tasks -> Stages]
    /\ queue \in Seq(Tasks)
    /\ dirty \in [Tasks -> 0..MaxProgress]
    /\ writer \in Tasks \cup {NoTask}
    /\ event \in [Tasks -> Event]
    /\ targets \in [Tasks -> SUBSET Clients]
    /\ subs \in [Tasks -> SUBSET Clients]
    /\ stream \in [Clients -> Stream]
    /\ crashes \in 0..MaxCrashes

\* Type invariant: rows, stages, sessions, events and queues, and the write lock, which
\* is held, if at all, by a task inside its function: _run_sync marks no row, and no
\* worker goes on to its next task, with the lock of a task that is over.
TypeOK == Types /\ (writer # NoTask => InFunction(writer))

\* A client is told "completed" or "failed" only once the row it will read on
\* its next request says exactly that: _run_sync commits before it notifies,
\* on both paths, whatever other tasks, crashes and lock timeouts do.
EventMatchesRow ==
    \A c \in Clients : \A e \in Range(stream[c].seen) \cup Range(stream[c].inbox) :
        e.status \in Outcomes => row[stream[c].task].status = e.status

\* Progress a client was shown is never lost when the task completes: the
\* session of the task function is committed before the row is completed.
NoProgressLost ==
    \A c \in Clients : \A e \in Range(Delivered(c)) :
        row[stream[c].task].status = "completed"
            => e.progress <= row[stream[c].task].progress

\* notify only ever fills the queue of a client whose own generator will read
\* it: registered subscribers and live streams are the same thing, so neither
\* a leaked queue nor a stream cut off from its task can build up.
SubscribersAreStreams ==
    \A c \in Clients, t \in Tasks :
        c \in subs[t] <=> stream[c].task = t /\ stream[c].state \in {"open", "closing"}

\* A finished row is never touched again, by its own worker, by another task
\* or by a restarted process.
FinishedRowIsFinal == [][\A t \in Tasks : Terminal(t) => UNCHANGED row[t]]_vars

\* Every task that is submitted gets an outcome, however many tasks wait for the
\* workers and for the write lock, unless a lock wait of its own timed out or the
\* process died: as each is submitted once, the pool comes to rest.
QueuedTaskFinishes ==
    <>[](\A t \in Tasks : stage[t] \in {"absent", "lost"} \/ Terminal(t))

\* A client that subscribed before the terminal notify copied the subscriber
\* list, before the task was submitted even, reaches the end of its stream once the
\* row is there, unless its task is lost.
EarlySubscriberEnds ==
    \A c \in Clients :
        stream[c].state = "open" /\ row[stream[c].task].status \in {"pending", "running"}
            ~> \/ stream[c].state = "closed"
               \/ \E t \in Tasks : stream[c].task = t /\ stage[t] = "lost"

\* routes/tasks.py:26-27, "a final event with status completed or failed
\* signals the end of the stream": every stream of a task that exists gets one.
StreamEnds ==
    \A c \in Clients :
        stream[c].state = "open" /\ row[stream[c].task].status # "absent"
            ~> stream[c].state = "closed"

\* The abstract view of TaskLifecycle: committed statuses, opened streams, and
\* the terminal event (the last thing a stream yields) as what was told.
LastStatus(s) == IF s = <<>> THEN "running" ELSE s[Len(s)].status

Told(c) ==
    IF LastStatus(stream[c].seen) \in Outcomes THEN LastStatus(stream[c].seen) ELSE "nothing"

Lifecycle == INSTANCE TaskLifecycle WITH
    status   <- [t \in Tasks |-> row[t].status],
    watching <- [c \in Clients |-> stream[c].task],
    told     <- [c \in Clients |-> Told(c)]

\* The pool, its transactions and its event queues implement the life cycle:
\* a task moves one status at a time and a client hears its task's outcome.
Implements == Lifecycle!Spec
=============================================================================
