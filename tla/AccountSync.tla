---------------------------- MODULE AccountSync ----------------------------
(***************************************************************************)
(* sync_account (mailllama/services/sync.py) as the web route and the CLI    *)
(* run it: list the provider's inbox page by page, then upsert message by    *)
(* message in a SQLAlchemy session (autoflush off) that commits every        *)
(* BatchSize messages. Several syncs of the one account may run at once;     *)
(* SQLite lets one session at a time hold uncommitted writes.                *)
(*                                                                         *)
(* Messages are the numbers 1, 2, ... in the order they arrive. Threads and *)
(* senders are both rows keyed by a Key; total_size_bytes moves exactly as  *)
(* message_count does and has no column here; labels are in MailActions.    *)
(* account.cursor is written and never used (both providers ignore it).      *)
(***************************************************************************)
EXTENDS Integers, FiniteSets, Sequences

CONSTANTS
    Syncs,          \* sync tasks and CLI processes
    NoSync,         \* nobody holds the write lock
    NumMessages,    \* bound: messages that ever arrive
    Threads, Senders,
    ThreadOf, SenderOf,     \* of each message; NoSender: an empty From address
    NoSender,
    DateOf, NoDate,         \* of each message; NoDate: header missing or bad
    BatchSize,      \* 50 in the source
    MaxResults,     \* max_results of list_since
    PageSize,       \* 500 in gmail_api.py
    MaxStarts       \* bound: how often syncs are started

Msgs == 1..NumMessages
Keys == Threads \cup Senders

ASSUME MessagesAssumption == NumMessages \in Nat
ASSUME SyncAssumption == NoSync \notin Syncs
ASSUME KeyAssumption == Threads \cap Senders = {} /\ NoSender \notin Keys
ASSUME HeaderAssumption ==
    /\ ThreadOf \in [Msgs -> Threads]
    /\ SenderOf \in [Msgs -> Senders \cup {NoSender}]
    /\ NoDate \notin Nat
    /\ DateOf \in [Msgs -> Nat \cup {NoDate}]
ASSUME SizeAssumption ==
    /\ BatchSize \in Nat \ {0} /\ MaxResults \in Nat \ {0} /\ PageSize \in Nat \ {0}
    /\ MaxStarts \in Nat

VARIABLES
    arrived,    \* messages 1..arrived have reached the mailbox
    inbox,      \* those of them the provider lists under INBOX
    messages,   \* committed Message rows
    rows,       \* committed Thread and Sender rows (count 0: no row)
    lock,       \* the sync whose session has flushed and not yet committed
    sync,       \* per sync: where it is, the ids it listed, its progress
    sess,       \* per sync: what its session holds that is not committed
    starts,
    overlapped  \* history: two syncs were at work at the same time

vars == <<arrived, inbox, messages, rows, lock, sync, sess, starts, overlapped>>

Dates == Nat \cup {NoDate}

Row == [count : Nat, first : Dates, last : Dates]

Sync == [at : {"idle", "listing", "running", "done", "failed"},
         ids : Seq(Msgs), next : Nat \ {0}, pending : 0..BatchSize]

Session == [flushed : SUBSET Msgs, work : [Keys -> Row], loaded : [Keys -> Row],
            fresh : SUBSET Keys]

NoRow == [count |-> 0, first |-> NoDate, last |-> NoDate]

\* flushed: new messages; work: thread and sender objects as the session sees
\* them; loaded: as it read them; fresh: added and not yet flushed.
CleanSession == [flushed |-> {}, work |-> [k \in Keys |-> NoRow],
                 loaded |-> [k \in Keys |-> NoRow], fresh |-> {}]

IdleSync == [at |-> "idle", ids |-> <<>>, next |-> 1, pending |-> 0]

Init ==
    /\ arrived = 0
    /\ inbox = {}
    /\ messages = {}
    /\ rows = [k \in Keys |-> NoRow]
    /\ lock = NoSync
    /\ sync = [p \in Syncs |-> IdleSync]
    /\ sess = [p \in Syncs |-> CleanSession]
    /\ starts = 0
    /\ overlapped = FALSE

-----------------------------------------------------------------------------
(* The mailbox, as it changes under everybody's feet.                       *)

Arrive ==
    /\ arrived < NumMessages
    /\ arrived' = arrived + 1
    /\ inbox' = inbox \cup {arrived + 1}
    /\ UNCHANGED <<messages, rows, lock, sync, sess, starts, overlapped>>

Leave(m) ==
    /\ m \in inbox
    /\ inbox' = inbox \ {m}
    /\ UNCHANGED <<arrived, messages, rows, lock, sync, sess, starts, overlapped>>

-----------------------------------------------------------------------------
(* list_since: pages of at most PageSize ids, newest first, until there is  *)
(* no further page or max_results are in hand. A page token stands for the  *)
(* last id returned.                                                        *)

Active(p) == sync[p].at \in {"listing", "running"}

Start(p) ==
    /\ sync[p].at = "idle"
    /\ starts < MaxStarts
    /\ starts' = starts + 1
    /\ overlapped' = (overlapped \/ \E q \in Syncs : Active(q))
    /\ sync' = [sync EXCEPT ![p] = [IdleSync EXCEPT !.at = "listing"]]
    /\ UNCHANGED <<arrived, inbox, messages, rows, lock, sess>>

Newest(S, n) == {m \in S : Cardinality({o \in S : o > m}) < n}

DescendingLists(S) ==
    {l \in [1..Cardinality(S) -> S] : \A i, j \in 1..Cardinality(S) : i < j => l[i] > l[j]}

Older(ids) == IF ids = <<>> THEN inbox ELSE {m \in inbox : m < ids[Len(ids)]}

PageLimit(ids) ==
    IF MaxResults - Len(ids) < PageSize THEN MaxResults - Len(ids) ELSE PageSize

ListPage(p) ==
    /\ sync[p].at = "listing"
    /\ LET ids  == sync[p].ids
           page == Newest(Older(ids), PageLimit(ids))
       IN \E list \in DescendingLists(page) :
            LET more == page # Older(ids) /\ Len(ids \o list) < MaxResults IN
            sync' = [sync EXCEPT ![p].ids = ids \o list,
                                 ![p].at = IF more THEN "listing" ELSE "running"]
    /\ UNCHANGED <<arrived, inbox, messages, rows, lock, sess, starts, overlapped>>

-----------------------------------------------------------------------------
(* The session: reads see committed rows, own flushed rows and objects the  *)
(* session already changed, never its own unflushed inserts; a write-back   *)
(* updates the columns that differ from what was loaded.                    *)

KeysOf(m) == {ThreadOf[m]} \cup ({SenderOf[m]} \ {NoSender})

Touched(s) == {k \in Keys : s.work[k].count # 0}

Visible(s, k) == k \in Touched(s) /\ k \notin s.fresh

Conflict(s) == \E k \in s.fresh : rows[k].count # 0

Written(new, old, committed) == IF new # old THEN new ELSE committed

Merge(s, k) ==
    [count |-> Written(s.work[k].count, s.loaded[k].count, rows[k].count),
     first |-> Written(s.work[k].first, s.loaded[k].first, rows[k].first),
     last  |-> Written(s.work[k].last, s.loaded[k].last, rows[k].last)]

Merged(s) == [k \in Keys |-> IF k \in Touched(s) THEN Merge(s, k) ELSE rows[k]]

Free(p) == lock \in {NoSync, p}

Flush(s) ==
    [s EXCEPT !.work = [k \in Keys |-> IF k \in Touched(s) THEN Merge(s, k) ELSE NoRow],
              !.loaded = [k \in Keys |-> IF k \in Touched(s) THEN rows[k] ELSE NoRow],
              !.fresh = {}]

\* The flush that carries the new message m.
FlushedWith(s, m) == [Flush(s) EXCEPT !.flushed = @ \cup {m}]

Earlier(a, b) == b # NoDate /\ (a = NoDate \/ b < a)

\* Mutation: last_seen moves to whatever message comes last.
LaterAlways(a, b) == b # NoDate

Later(a, b) == b # NoDate /\ (a = NoDate \/ b > a)

\* Thread keeps the latest date of its messages, Sender both ends.
Bump(k, r, d) ==
    [count |-> r.count + 1,
     first |-> IF k \in Senders /\ Earlier(r.first, d) THEN d ELSE r.first,
     last  |-> IF Later(r.last, d) THEN d ELSE r.last]

\* _upsert_thread and _upsert_sender, in that order, on different rows.
UpsertRows(s, m) ==
    LET ks   == KeysOf(m)
        read == [k \in ks |-> IF Visible(s, k) THEN s.work[k] ELSE rows[k]]
    IN [s EXCEPT !.work = [k \in Keys |-> IF k \in ks THEN Bump(k, read[k], DateOf[m]) ELSE @[k]],
                 !.loaded = [k \in Keys |-> IF k \in ks /\ ~Visible(s, k) THEN rows[k] ELSE @[k]],
                 !.fresh = @ \cup {k \in ks : read[k].count = 0}]

-----------------------------------------------------------------------------
(* sync_account: one message at a time.                                     *)

Advance(p) == [sync EXCEPT ![p].next = @ + 1, ![p].pending = @ + 1]

\* _upsert_message adds and flushes: with the message go all pending inserts
\* and updates, and the session has the write lock until it commits.
UpsertNew(p) ==
    /\ sync[p].at = "running" /\ sync[p].pending < BatchSize
    /\ sync[p].next <= Len(sync[p].ids)
    /\ LET m == sync[p].ids[sync[p].next] IN
         /\ m \notin messages \cup sess[p].flushed
         /\ Free(p) /\ ~Conflict(sess[p])
         /\ lock' = p
         /\ sess' = [sess EXCEPT ![p] = UpsertRows(FlushedWith(@, m), m)]
    /\ sync' = Advance(p)
    /\ UNCHANGED <<arrived, inbox, messages, rows, starts, overlapped>>

\* Mutation: the batch boundary is looked at for new messages only.
UpsertExistingUnbatched(p) ==
    /\ sync[p].at = "running"
    /\ sync[p].next <= Len(sync[p].ids)
    /\ LET m == sync[p].ids[sync[p].next] IN
         /\ m \in messages \cup sess[p].flushed
         /\ sess' = [sess EXCEPT ![p] = UpsertRows(@, m)]
    /\ sync' = Advance(p)
    /\ UNCHANGED <<arrived, inbox, messages, rows, lock, starts, overlapped>>

\* The message has a row: only is_read and labels change, nothing is flushed.
UpsertExisting(p) ==
    /\ sync[p].at = "running" /\ sync[p].pending < BatchSize
    /\ sync[p].next <= Len(sync[p].ids)
    /\ LET m == sync[p].ids[sync[p].next] IN
         /\ m \in messages \cup sess[p].flushed
         /\ sess' = [sess EXCEPT ![p] = UpsertRows(@, m)]
    /\ sync' = Advance(p)
    /\ UNCHANGED <<arrived, inbox, messages, rows, lock, starts, overlapped>>

\* Mutation: the loop stops one message early.
AtEndEarly(p) == sync[p].next >= Len(sync[p].ids)

AtEnd(p) == sync[p].next > Len(sync[p].ids)

\* Mutation: messages are committed at the batch boundary, counters only in
\* the last commit of the sync.
CommitMessagesOnly(p) ==
    /\ sync[p].at = "running"
    /\ sync[p].pending = BatchSize \/ AtEnd(p)
    /\ Free(p) /\ ~Conflict(sess[p])
    /\ messages' = messages \cup sess[p].flushed
    /\ rows' = IF AtEnd(p) THEN Merged(sess[p]) ELSE rows
    /\ sess' = [sess EXCEPT ![p] = CleanSession]
    /\ lock' = NoSync
    /\ sync' = [sync EXCEPT ![p].pending = 0, ![p].at = IF AtEnd(p) THEN "done" ELSE @]
    /\ UNCHANGED <<arrived, inbox, starts, overlapped>>

\* Mutation: the transaction stays open after a commit between two batches.
CommitKeepsLock(p) ==
    /\ sync[p].at = "running"
    /\ sync[p].pending = BatchSize \/ AtEnd(p)
    /\ Free(p) /\ ~Conflict(sess[p])
    /\ messages' = messages \cup sess[p].flushed
    /\ rows' = Merged(sess[p])
    /\ sess' = [sess EXCEPT ![p] = CleanSession]
    /\ sync' = [sync EXCEPT ![p].pending = 0, ![p].at = IF AtEnd(p) THEN "done" ELSE @]
    /\ UNCHANGED <<arrived, inbox, lock, starts, overlapped>>

\* Every BatchSize messages and, with the cursor, after the last one.
Commit(p) ==
    /\ sync[p].at = "running"
    /\ sync[p].pending = BatchSize \/ AtEnd(p)
    /\ Free(p) /\ ~Conflict(sess[p])
    /\ messages' = messages \cup sess[p].flushed
    /\ rows' = Merged(sess[p])
    /\ sess' = [sess EXCEPT ![p] = CleanSession]
    /\ lock' = NoSync
    /\ sync' = [sync EXCEPT ![p].pending = 0, ![p].at = IF AtEnd(p) THEN "done" ELSE @]
    /\ UNCHANGED <<arrived, inbox, starts, overlapped>>

\* Any exception: a provider call, a lock wait past busy_timeout, a UNIQUE
\* constraint. Also the death of the process. session_scope rolls back.
Fail(p) ==
    /\ Active(p)
    /\ sync' = [sync EXCEPT ![p].at = "failed"]
    /\ sess' = [sess EXCEPT ![p] = CleanSession]
    /\ lock' = IF lock = p THEN NoSync ELSE lock
    /\ UNCHANGED <<arrived, inbox, messages, rows, starts, overlapped>>

\* The user may start the next sync.
Settle(p) ==
    /\ sync[p].at \in {"done", "failed"}
    /\ sync' = [sync EXCEPT ![p] = IdleSync]
    /\ UNCHANGED <<arrived, inbox, messages, rows, lock, sess, starts, overlapped>>

SyncStep(p) ==
    \/ Start(p) \/ ListPage(p) \/ UpsertNew(p) \/ UpsertExisting(p)
    \/ Commit(p) \/ Fail(p) \/ Settle(p)

Next == Arrive \/ (\E m \in inbox : Leave(m)) \/ (\E p \in Syncs : SyncStep(p))

Spec == Init /\ [][Next]_vars

\* A sync that can take a step takes one or fails. A waiter for the write lock
\* gets it if it is free again and again (busy handler); Fail, the time-out of
\* that wait, is only relied on where the commit can never succeed.
Proceed(p) ==
    \/ ListPage(p) \/ UpsertNew(p) \/ UpsertExisting(p) \/ Commit(p)
    \/ Conflict(sess[p]) /\ Fail(p)

Fairness == \A p \in Syncs : SF_vars(Proceed(p))

FairSpec == Spec /\ Fairness

-----------------------------------------------------------------------------
StoredUnder(k) == {m \in messages : k \in KeysOf(m)}

\* Type invariant: rows, listings and sessions have the types of models.py and
\* of the objects sync.py builds.
TypeOK ==
    /\ arrived \in 0..NumMessages
    /\ inbox \subseteq 1..arrived
    /\ messages \subseteq Msgs
    /\ rows \in [Keys -> Row]
    /\ lock \in Syncs \cup {NoSync}
    /\ sync \in [Syncs -> Sync]
    /\ sess \in [Syncs -> Session]
    /\ starts \in 0..MaxStarts
    /\ overlapped \in BOOLEAN

\* The joins of interaction.py, actions.py and the statistics rely on it, and
\* there is no foreign key: a stored message has its Thread and its Sender row,
\* whatever syncs overlap, fail, roll back or die.
StoredHaveParents == \A m \in messages : \A k \in KeysOf(m) : rows[k].count # 0

\* A sync that ends stored all it listed: no batch is left out at a boundary,
\* none is dropped by another sync.
ListedIsStored ==
    \A p \in Syncs : sync[p].at = "done" => \A i \in DOMAIN sync[p].ids : sync[p].ids[i] \in messages

\* As long as no two syncs overlap, no stored message is missing from the counters
\* of its thread and sender, even after failures in the middle of a batch; and though
\* a sync counts again what it meets again, it counts a message once, and none that is
\* not stored.
CountsCoverStored ==
    ~overlapped => \A k \in Keys :
        LET n == Cardinality(StoredUnder(k)) IN
        rows[k].count >= n /\ rows[k].count <= starts * n

\* As long as no two syncs overlap, first_seen and last_seen of a sender and the
\* latest date of a thread enclose the dates of their stored messages, in whatever order
\* the messages came and whichever of them have no date.
SeenWindow ==
    ~overlapped => \A m \in messages : DateOf[m] # NoDate =>
        \A k \in KeysOf(m) :
            /\ rows[k].last # NoDate /\ rows[k].last >= DateOf[m]
            /\ k \in Senders => rows[k].first # NoDate /\ rows[k].first <= DateOf[m]

\* A sync that was started ends, though it may wait for the write lock of
\* another one again and again.
SyncEnds == \A p \in Syncs : sync[p].at = "listing" ~> sync[p].at \in {"done", "failed"}
=============================================================================
