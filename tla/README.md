# MailLlama, specified in TLA+

MailLlama (`mailllama/`) copies the INBOX of a Gmail or IMAP account into a
database, classifies its senders with an LLM, and archives, trashes or
unsubscribes in bulk, from a web interface, a chat and a command line. This
directory specifies its moving parts, checks them with TLC on small instances
and proves their safety properties with TLAPS for every instance.

## 1. The system

| Component | State it keeps | Operations | Talks to |
|---|---|---|---|
| Task runner (`tasks/runner.py`) | `task` rows, a pool of 4 worker threads and its FIFO | `submit`, `_run_sync`, `TaskHandle.update` | database, events |
| Task events (`tasks/events.py`, `web/routes/tasks.py`, `dashboard.html`) | subscriber queues per task, one generator per SSE client | `subscribe`, `notify`, `unsubscribe`, `task_stream` | worker threads, browsers |
| Account sync (`services/sync.py`) | `message`, `thread`, `sender` rows | `sync_account`, `_upsert_*` | provider, database, task handle |
| Mail providers (`providers/`) | none (remote mailbox) | list, hydrate, fetch body, trash, archive, label, send | Gmail API, IMAP server |
| Mail actions (`services/actions.py`, `web/routes/actions.py`) | labels of `message`, `action_log` rows | archive, trash, move, trash by sender; dry run | provider, database |
| Reply detection (`services/interaction.py`) | `thread.user_has_replied`, `sender.reply_count` | `compute_interactions` | provider, database |
| Classification (`services/classify.py`, `cache.py`, `llm/`) | `sender.latest_label` ..., the cache | `classify_senders`, `_parse_classifications` | LLM, cache, database |
| Chat (`services/chat.py`, `web/routes/chat.py`) | none (the browser keeps the history) | `process_message`, ten tools | LLM, every service |
| Unsubscribe (`services/unsubscribe.py`) | none | `unsubscribe_message` | HTTP, provider, LLM |
| Rules (`services/rules.py`) | `rule` rows | add, delete, list, `evaluate_message` | database |
| SSH tunnel (`ssh_tunnel.py`) | a child process, a local port | `maybe_ssh_tunnel` | ssh, other processes |
| Accounts and login (`web/routes/auth.py`, `web/app.py`, `web/deps.py`) | `account` rows, OAuth verifier | start, callback | Google, database |
| Setup (`cli.py`, `config.py`) | `.env` | `setup`, `_read_env`, `_write_env` | files |
| Database (`db.py`, `models.py`) | sessions, SQLite's one write lock | `session_scope`, `get_session` | everything |

What is hard about it:

* threads of one process (4 pool workers, the web server's request threads, the
  event loop of the SSE generators) and other processes (the CLI) share one
  SQLite file in WAL mode: readers never wait, one writer at a time, a writer
  that waits longer than `busy_timeout` (5 s) gets an exception;
* sessions are long and do not autoflush: what a session read, what it has
  changed, what it has flushed and what is committed are four different things;
* remote effects (trash, archive, send) come first, the local record of them
  later and in another transaction;
* progress is announced before it is committed, outcomes after;
* nothing is recovered after a crash;
* the browser keeps what the server does not: the chat's history, and the OAuth
  verifier in a cookie that all tabs share and any late response may replace;
* an installation outlives its processes: keys and settings are read once per
  process, and rewritten by a command that reads them by other rules.

`PROJECT.json` lists the hazards at their lines under `hazards`, each with the
properties that would catch it going wrong.

## 2. Plan

The modules, in the order of what goes worst if it goes wrong; all of them are
there, and section 7 says what comes next.

1. `TaskLifecycle` (abstract) and `TaskRunner` (detailed, refines it):
   every long operation of the program runs through it.
2. `AccountSync`: what all other services read.
3. `MailActions`: the only irreversible effects.
4. `ReplyDetection`, with the filter of `trash_by_sender` that relies on it.
5. `SenderClassification`, with the cache and the LLM's retries.
6. `SshTunnel`.
7. `Chat` and `Unsubscribe`, composed with `MailActions` and the rules table by
   `Assistant`.
8. `Setup` and `Login`, composed by `Deployment`.
9. `TaskRunnerProofs`, `AccountSyncProofs`, `MailActionsProofs`,
   `ReplyDetectionProofs`, `SenderClassificationProofs`, `SshTunnelProofs`,
   `AssistantProofs` (about items 7 and, through an instance of
   `MailActionsProofs`, 3), `DeploymentProofs`.

How the parts are cut: a service does not know which task, route or chat tool
calls it, and services meet in the database and in the mailbox only. So each
module has the tables and the mailbox it works on, several copies of its own
service that interleave, and the other actors that touch the same columns as
actions of their own: a sync inside `MailActions` (labels) and inside
`ReplyDetection` (messages), new mail inside `SenderClassification` (samples).
`TaskRunner` in turn runs an arbitrary task function.

`Chat`, `Unsubscribe`, `Setup` and `Login` are components without a next-state
relation over all variables: `Assistant` and `Deployment` have it. `Assistant` instantiates
`MailActions` with the chat's tool calls as its requests, so what a tool does is
what the web page's button does, and what the chat says of it can be compared
with the log and the mailbox. `Deployment` shares one file between `setup`, its
owner and the servers that are started.

## 3. Modules and code

`PROJECT.json`, under `map`, names the lines of every definition. What the
state stands for:

| Module | Code | State | Actions |
|---|---|---|---|
| `TaskLifecycle` | what `runner.py` promises | status per task, what each client watches and was told | `Submit`, `Start`, `Finish`, `Watch`, `Tell` |
| `TaskRunner` | `tasks/runner.py`, `tasks/events.py`, `web/routes/tasks.py` | `row`: `task` table; `stage`: program counter of the thread that owns the task; `queue`: the executor's FIFO; `dirty`, `writer`: the task's session and the write lock; `subs`, `targets`: `_subscribers` and `notify`'s copy; `stream`: one SSE generator per client | one per statement that other threads can see: create, submit, take, `_mark` (three outcomes and the lock time-out), update, flush, commit, return, raise, the three steps of `notify`, subscribe, poll, disconnect, unsubscribe, crash |
| `AccountSync` | `services/sync.py`, `list_since` of `gmail_api.py` | committed `messages` and `rows` (threads and senders); `sess`: flushed, changed, loaded and added objects of each session; `lock`: the write lock; `sync`: ids listed, position, batch | `Start`, `ListPage`, `UpsertNew`, `UpsertExisting`, `Commit`, `Fail`, `Settle`; mail arrives and leaves |
| `MailActions` | `services/actions.py`, the calls of both providers | `mailbox` (remote), `labels` and `log` (committed), `req`: what a request selected, loaded and has still to do; `sync`: what a sync read and wrote of a message | select by id or sender, the provider's calls (per message or for all; answer lost; failure), commit of log and labels, failure, the sync's three steps, the owner moving mail |
| `ReplyDetection` | `services/interaction.py`, `trash_by_sender`'s filter | `sent` (remote), `stored`, `replied`, `counts` (committed), `run`: what the session holds and what the provider said | start, check a thread, commit a batch, read and write the roll-up, fail, reply, store |
| `SenderClassification` | `services/classify.py`, `cache.py`, `llm/client.py` | `label` (committed), `version` (sample), `cache`, `run`: chunk, senders not in the cache, sample shown, labels assigned | start, look a chunk up, failed attempt, answer (every shape), commit, fail, new mail, expiry, restart |
| `SshTunnel` | `ssh_tunnel.py` | `at`, `proc` per process; `ssh`: every child; `external`: somebody else's listener | probe, spawn, port seen, time-out, leave, stop, die; ssh connects or exits |
| `Chat` | `services/chat.py`, its route, `chat.html` | the page's `history` and the request it waits for; `req`: per request the conversation so far and the tool calls left | send, answer with or without tools, a tool returns or raises, errors, the page gives up, clear |
| `Unsubscribe` | `services/unsubscribe.py`, the chat tool, the button | what was posted and mailed for which request, its last answer | the four ways in order, by message or by sender |
| `Assistant` | `_execute_tool` and the tools, `rules.add_rule` | those of the two and of `MailActions`, with one session (`work`) per tool call; `rules` | the steps of a mail action seen from its tool call, unsubscribing, adding a rule, the tools that only query, the page's button |
| `Setup` | `cli.py` (`setup`, `_read_env`, `_write_env`), `config.py` | `env`: the lines of the file; `setup`: what was read, answered, changed; `generated` | start, answer (and truncate), write, abort, edit by hand |
| `Login` | `web/routes/auth.py`, `SessionMiddleware` in `web/app.py` | `server`: the process and its settings; `blob`: the key each account's token is encrypted with; `jar`: the browser's cookie; `flow`: per login where it is and its request's copy of the session | launch, stop; start and its response; callback, exchange, look-up, store, trouble, response |
| `Deployment` | the two over time | those of both | `serve` with what the file says at that moment |

`MC*` modules hold what a `.cfg` cannot: functions given by value, symmetry.
`*Proofs` modules hold theorems. Operators whose comment begins with
"Mutation:" are plausible mistakes in the definition after them; nothing
refers to them, and `PROJECT.json` pairs each with the property that finds it.

Three idioms of the code that appear everywhere:

* **A session** (`db.py`: no autoflush, expire on commit) reads a row once,
  changes its own copy, and a flush writes only the columns whose value differs
  from the one loaded. Hence `loaded`/`work` in `AccountSync`, `loaded` in
  `MailActions`, `old`/`new` in `ReplyDetection` and `old`/`given` in
  `SenderClassification`: a stale copy overwrites a column it changed, and
  leaves alone one it did not.
* **The write lock** of SQLite is taken by the first flush of a session and
  released by its commit, rollback or end (`writer`, `lock`). Where a module has
  only short writing transactions (actions, replies, classification) a commit is
  one step and the lock is not a variable; waiting too long is in its `Fail`.
* **An exception** leaves through `session_scope`, which rolls back. A `Fail`
  action stands for every call that may raise at that point, and for the death
  of the process where it leaves the same state.

Abstractions: a message is a number or a name; headers, bodies, prompts and
reasons appear only through what is decided by them. Hidden state of the
provider, the LLM and the user is chosen, never assumed to be sensible. History
variables (`applied`, `said`, `overlapped`, `killed`, `starts`, `posted`, `mailed`,
`excused`, `lost`, `generated`) record what happened and are read by no guard,
except where they bound a run.

## 4. Runs

All with deadlock checking off: each system ends or idles when its bounds are
used up. Distinct states and what the bounds let happen:

| Run | States | Bounds, and why they are enough |
|---|---|---|
| `task_pool` | 339 k | 3 tasks for 2 workers and one write lock: one must wait in the pool, and two block each other; 1 client; one task reports progress (`Reporters`, once, committed or not), which would only multiply states in the others; 1 restart, lock time-outs. Streams do not interact, so one client that may subscribe to any task at any moment shows every cut of `notify`. |
| `syncs` | 33 k | 3 messages in batches and pages of 2: a full and a partial batch, two pages; one message without From and Date, the other dates against arrival order. 2 syncs started twice: in a row, overlapping, or after a failure. |
| `actions` | 820 k | 2 messages, 2 senders, 2 requests: the second may share all, some or none of the messages of the first; a sync and the owner of the mailbox touch one message; both providers and dry run are chosen in `Init`. |
| `replies` | 3.9 M | 4 messages in 3 threads of 2 senders, batches of 2: a thread with two senders, a sender with two threads, a partial batch; 2 runs, 1 reply. The provider is IMAP, whose answers may all be wrong; those of Gmail are among them. |
| `classify` | 259 k | 3 senders in chunks of 2, 2 attempts, one sample that changes, 2 runs, restarts, a memory or a Redis cache. At most one item per answer: gaps, foreign and misplaced indices occur, two items for one sender in one answer do not. |
| `tunnels` | 46 k | 3 processes and 3 ssh: two that race and one that reuses. |
| `assistant` | 1.4 M | 2 chat requests, of up to 2 tool calls and of 1, which run at the same time once the page gives up on the first; 4 messages of 2 senders (and a sender without mail) that offer different ways out of a list; both providers, dry run. Of a sender's messages the filter `only_unreplied` takes all or none (`SplitSenders`; the proofs have both, and `actions` any subset). No sync and no owner: `actions` has them. The page's own unsubscribing shares no state with the chat and happens once, after it. |
| `deployment` | 1.9 M | 2 logins with 1 account and 2 keys; setups, edits, stops and starts as often as one likes. Two logins are enough to overwrite each other's cookie, a third would meet what the second met; accounts share nothing but the key, and with one account both logins may make its row; a second key is what a lost one is replaced by. One line at a time is spelled otherwise than setup would. |
| `task_late_subscriber`, `replies_trash`, `classify_malformed`, `setup_promise` | - | smallest instances that show the four findings of section 6. |

What each run shows, by property:

* **`task_pool`**: a client is told an outcome only when the committed row has
  it (`EventMatchesRow`); progress that was shown is there when the task
  completes (`NoProgressLost`; not when it fails: then it is rolled back);
  registered subscribers are exactly the live streams (`SubscribersAreStreams`);
  all of that together implements `TaskLifecycle`, in which a finished task stays
  finished and is told as it finished (`Implements`).
  Every queued task gets an outcome (`QueuedTaskFinishes`), and a stream opened
  before the outcome is committed ends (`EarlySubscriberEnds`), unless a lock wait
  of that task's own `_mark` times out (it is then "lost": nothing marks or
  announces it).
* **`syncs`**: a stored message has its thread and its sender
  (`StoredHaveParents`), a completed sync stored all it listed
  (`ListedIsStored`), counters and date windows cover what is stored as long as
  syncs do not overlap, and a message counts at most once per sync
  (`CountsCoverStored`, `SeenWindow`); every sync ends
  (`SyncEnds`).
* **`actions`**: the log says "ok" only of what Gmail did for that request, or of
  what is no longer in the IMAP INBOX (`LogIsTrue`), for all or none of a
  request's messages (`LogIsComplete`); at the provider nothing leaves the INBOX
  but on a request, never in a dry run, and in the rows INBOX comes back only from
  a sync that read it (`InboxChangesForAReason`).
* **`replies`**: answers are not wiped (`AnswersStay`), reply counts are neither too high (`CountsNeverOver`) nor
  lacking a reply the run was told of (`NoReplyUncounted`), by answers that need not
  be true: IMAP's are found by a substring search ("heuristic", `imap.py:124`).
* **`classify`**: a label reaches the sender it is about (`LabelsAreSaid`), is
  cached under the sample that was shown (`CacheIsSaid`), for all senders
  (`DoneIsLabelled`), once (`LabelledStays`).
* **`tunnels`**: no ssh is left behind (`NoSshLeftBehind`) and nobody hangs
  (`WaitingEnds`).
* **`assistant`**: whatever fails, is cut off or cleared, conversations sent to the LLM
  are well formed (`ConversationsArePaired`); what they say was done was done, by
  that very call, also when another request works on the same messages
  (`ToldIsDone`); an answer without error hides nothing that was done
  (`DoneIsTold`); links are contacted only for a one-click POST, and a dry run
  reaches neither list servers nor the mailbox on any path (`OnlyWantedContacts`).
* **`deployment`**: the key that opens the stored tokens, in the file and in every
  server that has one, is lost in two ways only, setup killed while it writes and
  setup not seeing the key's line (`KeyOpensTokens`); settings written the way setup
  writes them survive, whichever provider is chosen (`UntouchedSettingsStay`; what
  becomes of other spellings is the finding of `setup_promise`); a login fails only
  if something of a short list disturbed it, and never because an earlier one failed
  (`LoginFailsForAReason`).

Several properties hold only while no two runs of the service overlap
(`~overlapped`). Nothing in the code keeps them apart: the dashboard's buttons
can be pressed twice and the CLI may run beside the server. What happens then is
in section 6; the other properties hold through it.

**Fairness.** `TaskRunner`: weak fairness of the steps a thread of the process
takes by itself (threads are scheduled, a task function returns or raises, an
open generator is polled every 0.3 s), strong fairness of the steps that need
the write lock (SQLite's busy handler asks again and again, so a waiter gets a
lock that is free again and again). None of submit, subscribe, disconnect,
crash, or a lock time-out. `AccountSync`: strong fairness of "the sync takes its
next step", which assumes that provider calls return or raise (the code sets no
timeout on them); `Fail` is part of it only where the commit can never succeed
(a UNIQUE conflict).
`SshTunnel`: the wait has a deadline and `terminate`/`kill` return. The other
modules state no liveness and assume no fairness.

## 5. Proofs

For any number of tasks, clients, workers, progress reports and crashes
(`TaskRunnerProofs`, 1157 obligations):

* `TypeCorrect` (with it, that the write lock is held by a task inside its function
  only), `OutcomesToldAreTrue` (`EventMatchesRow`), `FinishedIsFinal`
  (no step changes the row of a finished task), `RegisteredAreLive`
  (`SubscribersAreStreams`), `ProgressShownIsKept` (`NoProgressLost`),
  `RunnerImplementsLifecycle` (`Implements`).
* `EventMatchesRow` is not inductive: a `put` after a commit must know that the
  row still says what the event says. `IInv` adds where a thread may be for each
  status of its row (`StageMatchesRow`), that a waiting task is in the FIFO once
  (`QueueIsQueued`), that `notify`'s copies hold streams of that task
  (`QueuesBelongToTask`), and, for the refinement, that a generator that still
  polls has told no outcome (`OpenIsUntold`).
* `SubscribersAreStreams` is inductive once a queue belongs to one task only.
  `NoProgressLost` speaks of a completed row and must hold through the steps
  before it: `PInv` bounds what a client was shown by what the task's session
  holds, as long as that may still be committed (`ShownIsBounded`), and says the
  same of the event that `notify` has in hand, and that a function that has
  returned has committed all it held (`ProgressIsHeld`).
* Each step of `Next` then maps to a step of `TaskLifecycle` or to a stutter:
  `CreateTaskRecord` to `Submit`, `MarkRunning` to `Start`, `MarkCompleted` and
  `MarkFailed` to `Finish`, `Subscribe` to `Watch`, the `Poll` that yields the
  last event to `Tell`.

For any mailbox, any number of syncs, any batch and page size, whatever overlaps
and fails (`AccountSyncProofs`, 1579 obligations):

* `TypeCorrect` (with it, that no batch grows past `BatchSize`),
  `ParentsAreStored` (`StoredHaveParents`), `ListingIsStored` (`ListedIsStored`),
  `CountsAreCovered` (`CountsCoverStored`), `DatesAreEnclosed` (`SeenWindow`).
* `StoredHaveParents` is about committed rows, so a commit must know what the
  session has in hand: `FlushedHaveParents`. A write-back leaves out columns
  that did not change, so a session may rely on a row it once read:
  `LoadedExist`, kept because a merge never makes a count 0 (`MergeIsRow`).
  `ListedIsStored` needs that what lies behind the loop is committed or flushed
  (`BehindNext`).
* `CountsCoverStored` and `SeenWindow` speak of rows that are written at the end
  of a batch, from a session that read them at its start. `Shape` says that a
  listing descends (so no message is in it twice) and that what is flushed is
  behind the loop; `Exact` says the two properties of the rows as the session
  has them (`View`) and of what it knows to be stored (`SessionFine`), and that
  it loaded what is still committed (`Current`): a flush and a commit then leave
  every row as the session had it (`FlushSees`, `MergeSees`). The upper bound is
  inductive only if the earlier syncs and this one are counted apart: each
  earlier one met a message at most once, this one only those behind its loop.
  A commit closes the gap, because all of those are now stored.
* TLC checked `IInv`, `Shape` and `Exact` before they were proved.

For any mailbox, any number of requests, both providers, dry or not, whatever is
lost and fails (`MailActionsProofs`, 625 obligations):

* `TypeCorrect`, `LogTellsTheTruth` (`LogIsTrue`), `LogIsWhole`
  (`LogIsComplete`), `InboxIsSafe` (`InboxChangesForAReason`).
* The log is written after all the provider's calls and from what the request
  has selected, so `LogIsTrue` needs to know, of every request, what is behind
  it at the provider (`PassedIsDone`: done, or on IMAP out of INBOX before),
  that it writes the log only when nothing is left (`LoggingIsLast`), and that a
  dry run never got there (`NothingCalledDry`). `LogIsComplete` follows from one
  commit per request (`LoggedIfAnswered`). "Was done" stays true, whatever the
  owner and other requests do to the mailbox afterwards; "has left INBOX" does
  too, for nothing in the model puts a message back there on IMAP.

For any finite mailbox, any number of threads, senders and runs and any batch
size (`ReplyDetectionProofs`, 731 obligations):

* `TypeCorrect`, `CountsAreCovered` (`CountsNeverOver`), `AnswersAreKept`
  (`AnswersStay`), `RepliesAreCounted` (`NoReplyUncounted`), whatever the provider
  answers.
* They need `Alone`, until two runs overlap: one run is
  active, the session agrees with the database about the threads in hand, what
  it heard is committed or in hand (`CheckingAlone`), and the counts it is about
  to write are neither too many nor too few (`RolledAlone`). Messages stored
  between the query and the update only widen the upper bound.
* A mailbox is finite (`MessageAssumption`): counts are cardinalities.

For any senders, labels and runs, any chunk size, number of attempts and of items
in an answer (`SenderClassificationProofs`, 888 obligations):

* `TypeCorrect`, `LabelsAreTheSendersOwn` (`LabelsAreSaid`),
  `CacheAnswersItsSample` (`CacheIsSaid`), `EndedRunsLabelledAll`
  (`DoneIsLabelled`), `LabelledOnce` (`LabelledStays`).
* What the LLM says is looked up by position, so the heart is that a sender's
  rank among those asked about lies within the answer's indices and is nobody
  else's. `RunIsFine` keeps, from the sample to the commit, that a label in hand
  was said of that sender with that sample, and that senders neither in hand nor
  left are labelled. The cache hands labels on between runs, also a null
  (`CacheIsHeard`, stronger than `CacheIsSaid`). `LabelledStays` adds that
  what a lone run has before it is still unlabelled (`Alone`).

For any number of turns and of tool calls in an answer, any messages and senders,
whatever fails, comes late or is cleared (`AssistantProofs`, 2065 obligations):

* `TypeCorrect`, `ConversationsStayPaired` (`ConversationsArePaired`),
  `ToldWasDone` (`ToldIsDone`), `DoneWasTold` (`DoneIsTold`),
  `ContactsAreWanted` (`OnlyWantedContacts`), and `ToolsAreMailActions`
  (`Spec => Mail!Spec`): the chat's tools are a behaviour of `MailActions`, so
  what is proved of the web page's requests holds of tool calls.
* `ChatInv` follows a conversation through a turn: while tools run, the calls of
  its last answer that have results, and those left, are that answer's calls in
  order (`TalkIsFine`, `OpenAt`). A failed turn leaves the history it was sent
  with, a late one replaces it by a conversation that has ended.
* The invariant of `MailActions` is instantiated, not proved again: its
  assumptions hold of the tool calls. On top of it, a call still to be made has
  done nothing (`CallsAreFresh`); one that had an effect and is over is reported
  (`EffectsAreTold`); and what any conversation, also an old history, reports was
  earned by that call (`ReportsAreEarned`). That a report stays true follows from
  monotonicity: log, rules, posts and mails only grow, and an IMAP message does
  not come back.

For any number of logins, accounts and keys, however often setup is run and the
server started (`DeploymentProofs`, 946 obligations):

* `TypeCorrect`, `KeyStays` (`KeyOpensTokens`), `SettingsStay`
  (`UntouchedSettingsStay`), `LoginsFailForAReason` (`LoginFailsForAReason`).
* `KeyOpensTokens` is about the file, the tokens and the servers; between
  reading and writing the key is in setup's hands only, so `KeyIsKept` adds that
  what setup has read is the key of the file. The step that generates a key is the
  heart: unless setup overlooked one there was none (`AnswerKey`), so there are
  neither tokens nor servers with one.
  A server that starts meanwhile sees an empty file (`AnswersAreKept`).
* `LoginFailsForAReason` needs `Undisturbed`, for each point of a login: its
  cookie waits with its verifier, under a key the process knows; its request has
  it; the row it did not find is still missing. Each step either leaves this to
  the other logins or excuses them (`OthersGoWell`).

For any number of processes and ssh children (`SshTunnelProofs`, 235
obligations): `TypeCorrect` and `NoneIsLeftBehind` (`NoSshLeftBehind`), from the fact that an ssh has one holder as long as it is
alive (`OneHolder`, `AliveIsHeld`): the probe and the spawn race, the holders do not.

The assumptions are the named `ASSUME`s of the modules: kinds of the
constants; folders are not called like labels (`FolderAssumption`); one set of keys for file and tokens
(`SameKeysAssumption`); the mailbox is finite; no relation between bounds. So every
safety property that the passing runs check, invariant or action property, is
also a theorem for every instance, and the refinement of `TaskLifecycle` with
them. Only model-checked is liveness (`QueuedTaskFinishes`,
`EarlySubscriberEnds`, `SyncEnds`, `WaitingEnds`): it rests on fairness, and so on ENABLED, which
the prover does not handle. The four findings of section 6 are counterexamples
and have nothing to prove.

## 6. What the code does that its documents do not say

Findings, each shown by a run:

* **A late subscriber waits for ever** (`task_late_subscriber`): `task_stream`
  (`routes/tasks.py:29`) subscribes without reading the task's row; its docstring
  promises a final event.
* **"Only unreplied" trashes replied threads** (`replies_trash`): the filter
  (`actions.py:109`) lets threads through that were never checked, or checked
  before the reply.
* **A malformed answer ends the run** (`classify_malformed`): `float()` of a
  confidence, `int()` of a key and iteration of a container raise out of
  `classify_senders`, which says it survives malformed batches.
* **Setup changes values it promises to keep** (`setup_promise`): "existing values in
  .env are loaded as defaults (press Enter to keep each one)", and setup "will never
  rotate" the SECRET_KEY (`cli.py:130-133`; `README.md:39-40`: it "preserves your
  `SECRET_KEY`"). But `_read_env` (`cli.py:391`) does not know names behind `export`
  or in lower case, which the programs read: such a key is replaced by a new one,
  and stored tokens cannot be decrypted any more. It reads `DRY_RUN=y`, which
  `_env_bool` (line 388) takes for false: Enter turns the dry run off. It takes the
  quotes off a value with " #" in it and `_write_env` (line 465) puts none back: the
  programs then read it cut short. The run stops at the first of them; each breaks
  `SetupKeepsValues` by itself.

Confirmed with TLC, while modelling, as behaviour of the models, and kept out of the runs
because no document, comment or test promises otherwise:

* A second sync of the same mailbox counts every message again
  (`sync.py:92`; `tests/test_sync.py:30`, "test_sync_is_idempotent", counts message rows
  only): `rows[k].count` is above what is stored, never below.
* Overlapping syncs lose increments and dates: `CountsCoverStored` and
  `SeenWindow` fail without `~overlapped`. A UNIQUE conflict fails one of them.
* Overlapping reply checks may turn "yes" into "unknown" or "no", overlapping
  classifications may relabel a sender.
* A sync writes labels it read before an action took the message out of the
  INBOX (`sync.py:45`); the row shows INBOX until the message is listed again,
  which it is not.
* IMAP says nothing of a UID that has left INBOX; the request logs "ok"
  (`imap.py:142`). `LogIsTrue` states what remains true.
* A process that reuses a tunnel loses it when its owner leaves
  (`ssh_tunnel.py:105`).
* The chat tool takes the newest message of a sender, whatever the older ones
  offer (`chat.py:362`). Unsubscribing in a dry run writes no log row.
* An answer that arrives after `clearChat` brings the cleared history back.

* Setup killed while it writes leaves an empty `.env`: every setting is lost, the next
  run makes a new SECRET_KEY and stored tokens cannot be decrypted any more
  (`KeyOpensTokens` fails without `~lost`).
* A server that is started while setup writes finds no key; it goes on without
  one until it is restarted.
* Two logins at once overwrite each other's verifier, so the first one fails;
  two that connect the same new account at once may fail on its UNIQUE email.
  An error's late response may put back a cookie that a newer login has replaced,
  which then fails too. The OAuth `state` is stored and compared by nobody.

Read off the code, not modelled: tool calls in the LLM's second answer are
passed over (`chat.py:475`); the dashboard's `onerror` shows a green "completed"
for a stream that broke; `cursor` is stored and ignored (`base.py:48-50`);
`batch_move` and `evaluate_message` have no caller, so no rule is ever applied;
`cache.py:5` names a class that does not exist; `imap.py:169` says the UI shows
the mailto link, which it does not; no path creates an IMAP account and nothing
reads `MAIL_PROVIDER`, although setup names `mailllama sync` as the next step to
pull mail via IMAP (`cli.py:348`); a login with a second address adds a row
that `deps.py:18`, "the first (and only) account", never returns; "leave blank
to disable" (`cli.py:317`) cannot be done, for Enter keeps the old token;
`LLM_BASE_URL` defaults to port 8080 in `config.py:26` and to 11434 in setup; a
redirect URI can drift from the bind port when setup takes the IMAP branch
(`cli.py:303`); migrations read `.env` of the working directory, not the file of
`--env-file`; credentials that Gmail's client refreshed are not stored;
`chat.py:361` speaks of the newest message "with unsubscribe info", the query
takes the newest.

## 7. Not modelled, and what comes next

* **Rules** (`rules.py`): adding one is part of `Assistant`. Matching
  (`evaluate_message`) is called by no code outside the tests, so there is no
  effect to state properties about; listing and deleting are single statements.
* **The bearer token** (`app.py`) and the choice of the account (`deps.py`): reads
  without state.
* **Setup** beyond its `.env`: migrations, `.gitignore`, prompts for settings of
  the kinds `Setup` has one of; environment variables, which override the file for the
  programs.
* **`SessionMiddleware`** is code of starlette (`uv.lock`: 1.0.0), modelled as sending
  back a session that a handler changed; a version that also repeats unchanged
  ones lets the late response of any page put an old cookie back.
* **`TaskHandle.update` without a session** (`runner.py:56-58`), which would commit at
  once: no code calls it so.
* **The cache key of a sample** (`classify.py:39-51`) leaves out `list_id`, which the
  prompt shows. In the model a sample is its version: a list_id changes only with a
  message, and the key has the sender's message count. Two syncs that lose an increment
  may leave the count as it was; `CacheIsSaid` does not see that.
* **Redirects** of a one-click POST: the answer is that of the last server.
* **Composition** of `TaskRunner` with `AccountSync` (the progress of a batch that
  is rolled back): `NoProgressLost` states it for an arbitrary task function.
* **Proofs** next: that the batches of `AccountSync` and the chat's tools refine
  abstract specifications of their own; the pure algorithms behind the
  operators (`Newest` and its pages, `ByIdx`).
* Left aside for good: size reports and list pages (read-only queries), HTML and
  CSS, header, MIME and JSON parsing, token refresh, prompts, the migration
  (it repeats `models.py`).
