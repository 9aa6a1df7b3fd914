---------------------------- MODULE MailActions ----------------------------
(***************************************************************************)
(* Bulk archive, trash and move (mailllama/services/actions.py) as the web  *)
(* routes and the chat tools call them, against the remote mailbox and in   *)
(* the company of a running sync. Each request first changes the mailbox,   *)
(* then its own session's log rows and labels, and commits those last.      *)
(***************************************************************************)
EXTENDS Naturals, FiniteSets

CONSTANTS
    Messages,
    Senders, SenderOf,  \* from_addr of each message
    Folders,            \* target labels of batch_move
    Requests,
    Synced              \* bound: the messages a sync, or their owner, gets to meanwhile

ASSUME SenderAssumption == SenderOf \in [Messages -> Senders]
ASSUME FolderAssumption ==
    Folders \cap {"INBOX", "TRASH", "elsewhere", "archive", "trash"} = {}
ASSUME SyncedAssumption == Synced \subseteq Messages

VARIABLES
    provider,   \* Account.provider: "gmail_api" or "imap"
    dryRun,     \* settings.dry_run, read when the process starts
    mailbox,    \* labels of every message at the provider (IMAP: its folder)
    applied,    \* <<request, message>>: a provider call did what it asked for
    stored,     \* messages with a row
    labels,     \* the labels column of those rows
    log,        \* action_log rows
    req,        \* per request: what it is doing to which messages
    sync        \* per message: what a running sync has read of it

settings == <<provider, dryRun>>

vars == <<settings, mailbox, applied, stored, labels, log, req, sync>>

Labels == {"INBOX", "TRASH", "elsewhere"} \cup Folders

\* "archive", "trash", or the target label of a move.
Actions == {"archive", "trash"} \cup Folders

LogRow == [by : Requests, msg : Messages, action : Actions, result : {"ok", "dry run"}]

Request == [at : {"idle", "calling", "logging", "answered", "failed"}, action : Actions,
            ids : SUBSET Messages, left : SUBSET Messages,
            loaded : [Messages -> SUBSET Labels]]

NoLabels == [m \in Messages |-> {}]

Init ==
    /\ provider \in {"gmail_api", "imap"}
    /\ dryRun \in BOOLEAN
    /\ mailbox = [m \in Messages |-> {"INBOX"}]
    /\ applied = {}
    /\ stored \in SUBSET Messages
    /\ labels = [m \in Messages |-> IF m \in stored THEN {"INBOX"} ELSE {}]
    /\ log = {}
    /\ req = [r \in Requests |-> [at |-> "idle", action |-> "archive", ids |-> {},
                                  left |-> {}, loaded |-> NoLabels]]
    /\ sync = [m \in Messages |-> [at |-> "none", new |-> {}, old |-> {}]]

-----------------------------------------------------------------------------
(* Selection: the rows named by id, or all rows of one sender.              *)

Begin(r, action, ids, at) ==
    /\ req[r].at = "idle"
    /\ req' = [req EXCEPT ![r] =
          [at |-> at, action |-> action, ids |-> ids, left |-> ids,
           loaded |-> [m \in Messages |-> IF m \in ids THEN labels[m] ELSE {}]]]
    /\ UNCHANGED <<settings, mailbox, applied, stored, labels, log, sync>>

AfterSelect == IF dryRun THEN "logging" ELSE "calling"

\* The ids of a form may name rows that are not there: they select nothing. (No
\* route calls batch_move.)
SelectIds(r) ==
    \E action \in Actions, ids \in SUBSET Messages :
        Begin(r, action, ids \cap stored, AfterSelect)

\* batch_trash_by_sender takes all messages of the sender or, with only_unreplied,
\* those of some threads; archive_by_sender of the chat takes all. With nothing to
\* select nothing is called and nothing logged.
SelectSender(r, action, s) ==
    LET all == {m \in stored : SenderOf[m] = s} IN
    \E ids \in IF action = "trash" THEN SUBSET all ELSE {all} :
        Begin(r, action, ids, IF ids = {} THEN "answered" ELSE AfterSelect)

-----------------------------------------------------------------------------
(* The provider. Gmail trashes message by message; everything else is one   *)
(* call for all. IMAP looks the UIDs up in INBOX: a message that was moved  *)
(* out before is not found there, and the server says nothing.              *)

Carried(action, L) ==
    IF action = "archive" THEN L \ {"INBOX"}
    ELSE (L \ {"INBOX"}) \cup {IF action = "trash" THEN "TRASH" ELSE action}

Reachable(m) == provider = "gmail_api" \/ "INBOX" \in mailbox[m]

OneCall(r, S) ==
    /\ S \subseteq req[r].left
    /\ IF provider = "gmail_api" /\ req[r].action = "trash"
       THEN Cardinality(S) = 1 ELSE S = req[r].left /\ S # {}

Call(r) ==
    /\ req[r].at = "calling"
    /\ \E S \in SUBSET req[r].left :
         /\ OneCall(r, S)
         /\ LET hit == {m \in S : Reachable(m)} IN
              /\ mailbox' = [m \in Messages |->
                    IF m \in hit THEN Carried(req[r].action, mailbox[m]) ELSE mailbox[m]]
              /\ applied' = applied \cup ({r} \X hit)
         /\ req' = [req EXCEPT ![r].left = @ \ S]
    /\ UNCHANGED <<settings, stored, labels, log, sync>>

\* Mutation: the loop over the messages stops after the first call.
ReturnedAfterOne(r) ==
    /\ req[r].at = "calling"
    /\ req[r].left # req[r].ids \/ req[r].ids = {}
    /\ req' = [req EXCEPT ![r].at = "logging"]
    /\ UNCHANGED <<settings, mailbox, applied, stored, labels, log, sync>>

Returned(r) ==
    /\ req[r].at = "calling"
    /\ req[r].left = {}
    /\ req' = [req EXCEPT ![r].at = "logging"]
    /\ UNCHANGED <<settings, mailbox, applied, stored, labels, log, sync>>

-----------------------------------------------------------------------------
(* The local record: one transaction of log rows and changed labels.        *)

\* Mutation: the trash branch forgets to drop the INBOX label.
LocalLabelsKeepInbox(action, L) ==
    IF action = "archive" THEN L \ {"INBOX"}
    ELSE L \cup {IF action = "trash" THEN "TRASH" ELSE action}

\* Mutation: the label is called by the name of the action.
LocalLabelsByAction(action, L) ==
    IF action = "archive" THEN L \ {"INBOX"} ELSE (L \ {"INBOX"}) \cup {action}

LocalLabels(action, L) ==
    IF action = "archive" THEN L \ {"INBOX"}
    ELSE (L \ {"INBOX"}) \cup {IF action = "trash" THEN "TRASH" ELSE action}

\* SQLAlchemy writes a column only if the session changed it. The column is a
\* list: trash and move always append to it, archive may find nothing to remove.
Changed(action, L) == action = "archive" => "INBOX" \in L

SessionClosed(r, at) ==
    [req EXCEPT ![r].at = at, ![r].left = {}, ![r].loaded = NoLabels]

Rows(r) ==
    {[by |-> r, msg |-> m, action |-> req[r].action,
      result |-> IF dryRun THEN "dry run" ELSE "ok"] : m \in req[r].ids}

\* Mutation: the rows are committed before the provider is called.
CommitPerCall(r) ==
    /\ req[r].at \in {"calling", "logging"}
    /\ log' = log \cup Rows(r)
    /\ labels' = labels
    /\ req' = [req EXCEPT ![r].at = IF @ = "logging" THEN "answered" ELSE @]
    /\ UNCHANGED <<settings, mailbox, applied, stored, sync>>

Commit(r) ==
    /\ req[r].at = "logging"
    /\ log' = log \cup Rows(r)
    /\ labels' = [m \in Messages |->
          IF ~dryRun /\ m \in req[r].ids /\ Changed(req[r].action, req[r].loaded[m])
          THEN LocalLabels(req[r].action, req[r].loaded[m])
          ELSE labels[m]]
    /\ req' = SessionClosed(r, "answered")
    /\ UNCHANGED <<settings, mailbox, applied, stored, sync>>

\* The provider raises or its answer is lost, the database is locked at the
\* commit, or the process dies: the session's changes are gone, the remote
\* ones are not.
Fail(r) ==
    /\ req[r].at \in {"calling", "logging"}
    /\ req' = SessionClosed(r, "failed")
    /\ UNCHANGED <<settings, mailbox, applied, stored, labels, log, sync>>

-----------------------------------------------------------------------------
(* A sync in another thread: labels are read from the provider (IMAP says   *)
(* INBOX of all it lists), compared with the row, and written at a commit.  *)

SyncRead(m) ==
    /\ sync[m].at = "none"
    /\ sync' = [sync EXCEPT ![m].at = "read",
                            ![m].new = IF provider = "imap" THEN {"INBOX"} ELSE mailbox[m]]
    /\ provider = "imap" => "INBOX" \in mailbox[m]
    /\ UNCHANGED <<settings, mailbox, applied, stored, labels, log, req>>

SyncUpsert(m) ==
    /\ sync[m].at = "read"
    /\ sync' = [sync EXCEPT ![m].at = "upserted", ![m].old = labels[m]]
    /\ UNCHANGED <<settings, mailbox, applied, stored, labels, log, req>>

Written(new, old, committed) == IF new # old THEN new ELSE committed

Upserted == {m \in Messages : sync[m].at = "upserted"}

SyncCommit ==
    /\ Upserted # {}
    /\ stored' = stored \cup Upserted
    /\ labels' = [m \in Messages |->
          IF m \in Upserted THEN Written(sync[m].new, sync[m].old, labels[m]) ELSE labels[m]]
    /\ sync' = [m \in Messages |->
          IF m \in Upserted THEN [at |-> "none", new |-> {}, old |-> {}] ELSE sync[m]]
    /\ UNCHANGED <<settings, mailbox, applied, log, req>>

\* The owner of the mailbox moves a message out, or back, by other means. (In an
\* IMAP folder it would come back under a new UID, as another message.)
MoveOut(m) ==
    /\ "INBOX" \in mailbox[m]
    /\ mailbox' = [mailbox EXCEPT ![m] = {"elsewhere"}]
    /\ UNCHANGED <<settings, applied, stored, labels, log, req, sync>>

MoveBack(m) ==
    /\ provider = "gmail_api"
    /\ "INBOX" \notin mailbox[m]
    /\ mailbox' = [mailbox EXCEPT ![m] = {"INBOX"}]
    /\ UNCHANGED <<settings, applied, stored, labels, log, req, sync>>

-----------------------------------------------------------------------------
RequestStep(r) ==
    \/ \E action \in {"archive", "trash"}, s \in Senders : SelectSender(r, action, s)
    \/ SelectIds(r) \/ Call(r) \/ Returned(r) \/ Commit(r) \/ Fail(r)

Next ==
    \/ \E r \in Requests : RequestStep(r)
    \/ \E m \in Synced : SyncRead(m) \/ SyncUpsert(m) \/ MoveOut(m) \/ MoveBack(m)
    \/ SyncCommit

Spec == Init /\ [][Next]_vars

-----------------------------------------------------------------------------
LoggedBy(r) == {e.msg : e \in {x \in log : x.by = r}}

\* Type invariant: label columns, log rows and requests in progress.
TypeOK ==
    /\ provider \in {"gmail_api", "imap"} /\ dryRun \in BOOLEAN
    /\ mailbox \in [Messages -> SUBSET Labels]
    /\ applied \subseteq Requests \X Messages
    /\ stored \subseteq Messages
    /\ labels \in [Messages -> SUBSET Labels]
    /\ log \subseteq LogRow
    /\ req \in [Requests -> Request]
    /\ sync \in [Messages -> [at : {"none", "read", "upserted"},
                              new : SUBSET Labels, old : SUBSET Labels]]

\* The log is an audit trail, whatever call failed half-way and whoever else moved
\* mail: a row says "ok" over Gmail only of a message changed there for that very
\* request, and over IMAP, which passes over a UID that has left INBOX and says
\* nothing, at least of a message that is not in INBOX any more.
LogIsTrue ==
    \A e \in log : e.result = "ok" =>
        \/ <<e.by, e.msg>> \in applied
        \/ provider = "imap" /\ "INBOX" \notin mailbox[e.msg]

\* All or nothing: an answered request has a log row for each of its messages,
\* one that is running or failed has none.
LogIsComplete ==
    \A r \in Requests :
        LoggedBy(r) = IF req[r].at = "answered" THEN req[r].ids ELSE {}

\* INBOX is the list the user works from. At the provider a message leaves it only
\* for a running request that selected it, and never in a dry run, unless its owner
\* moves it. In the rows, a request works on labels it read long before it writes
\* them; even so it never brings INBOX back after somebody else took it away: only a
\* sync that read it from the provider does.
InboxChangesForAReason ==
    [][\A m \in Messages :
         /\ "INBOX" \in mailbox[m] /\ mailbox'[m] \cap {"INBOX", "elsewhere"} = {} =>
              ~dryRun /\ \E r \in Requests : req[r].at = "calling" /\ m \in req[r].left
         /\ "INBOX" \notin labels[m] /\ "INBOX" \in labels'[m] =>
              sync[m].at = "upserted" /\ "INBOX" \in sync[m].new]_vars
=============================================================================
