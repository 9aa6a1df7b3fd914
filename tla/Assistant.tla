----------------------------- MODULE Assistant -----------------------------
(***************************************************************************)
(* The chat with the tools it acts by (_execute_tool and the tools of       *)
(* mailllama/services/chat.py): trashing and archiving by sender run        *)
(* MailActions, unsubscribing runs Unsubscribe, rules are stored            *)
(* (services/rules.py). The page may give up on a request and send another, *)
(* whose tools then interleave with those of the first; the web page        *)
(* unsubscribes by itself. Chat's variables are the page and the requests;  *)
(* the others are the mailbox, the database and what went out.              *)
(* Not here, because MailActions has them: other requests of the web page,  *)
(* a running sync, the owner of the mailbox.                                *)
(***************************************************************************)
EXTENDS Chat, FiniteSets

CONSTANTS
    Messages,
    Senders, SenderOf,
    DateOf,
    InfoOf,
    SplitSenders    \* bound: only_unreplied may take some messages of a sender and
                    \* leave others (FALSE: it takes all or none)

VARIABLES
    provider, dryRun,
    mailbox, applied,           \* at the provider
    stored, labels, log, work,  \* the database; what each call's session does
    sync,                       \* MailActions' running sync: none here
    posted, mailed, answer,     \* unsubscribing
    rules                       \* calls whose rule is in the table

settings == <<provider, dryRun>>
mailVars == <<mailbox, applied, labels, log, work, sync>>
unsubVars == <<posted, mailed, answer>>
vars == <<chatVars, settings, stored, mailVars, unsubVars, rules>>

\* The button of the subscriptions page.
WebRequest == <<0, 1>>

Mail == INSTANCE MailActions WITH Requests <- Calls, Folders <- {}, Synced <- {}, req <- work

Unsub == INSTANCE Unsubscribe WITH Requests <- Calls \cup {WebRequest}

ASSUME SplitAssumption == SplitSenders \in BOOLEAN

ASSUME MessageAssumption ==
    /\ SenderOf \in [Messages -> Senders]
    /\ DateOf \in [Messages -> Nat]
    /\ InfoOf \in [Messages -> Unsub!Info]

\* Every message has its row: only a sync would add more.
Init ==
    /\ ChatInit /\ Mail!Init /\ Unsub!Init
    /\ stored = Messages
    /\ rules = {}

-----------------------------------------------------------------------------
\* A tool call whose turn has come, and one in the middle of its work.
Due(k) == req[k].at = "tools" /\ work[CallOf(k)].at = "idle"

Busy(k) == req[k].at = "tools" /\ work[CallOf(k)].at \in {"calling", "logging"}

\* The six tools that only query, a tool that does not exist, which yields a text,
\* and arguments the tool does not take, which raise.
Look(k) ==
    /\ Due(k)
    /\ Execute(k, FALSE) \/ ExecuteRaises(k)
    /\ UNCHANGED <<settings, stored, mailVars, unsubVars, rules>>

\* _trash_by_sender and _archive_by_sender: rows of the sender are selected,
SelectRows(k) ==
    /\ Due(k)
    /\ \E action \in {"archive", "trash"}, s \in Senders :
         /\ Mail!SelectSender(CallOf(k), action, s)
         /\ SplitSenders \/ work'[CallOf(k)].ids \in {{}, Unsub!OfSender(s)}
    /\ IF work'[CallOf(k)].at = "answered" THEN Execute(k, FALSE) ELSE UNCHANGED chatVars
    /\ UNCHANGED <<unsubVars, rules>>

\* the provider is called,
AtProvider(k) ==
    /\ Busy(k)
    /\ Mail!Call(CallOf(k)) \/ Mail!Returned(CallOf(k))
    /\ UNCHANGED <<chatVars, unsubVars, rules>>

\* and the tool commits before it returns how many messages it moved.
MailDone(k) ==
    /\ Busy(k)
    /\ Mail!Commit(CallOf(k))
    /\ Execute(k, TRUE)
    /\ UNCHANGED <<unsubVars, rules>>

MailFails(k) ==
    /\ Busy(k)
    /\ Mail!Fail(CallOf(k))
    /\ ExecuteRaises(k)
    /\ UNCHANGED <<unsubVars, rules>>

\* _unsubscribe_from_sender. Without a message of the sender nothing is tried; the
\* provider may fail to fetch the body.
UnsubscribeTool(k) ==
    /\ Due(k)
    /\ \/ \E s \in Senders :
            /\ Unsub!BySender(CallOf(k), s)
            /\ Execute(k, answer'[CallOf(k)].success)
       \/ /\ \E s \in Senders : Unsub!OfSender(s) = {}
          /\ Execute(k, FALSE)
          /\ UNCHANGED unsubVars
       \/ ExecuteRaises(k) /\ UNCHANGED unsubVars
    /\ UNCHANGED <<settings, stored, mailVars, rules>>

\* Mutation: the session is left without a commit.
CommittedRuleNever(call) == {}

CommittedRule(call) == {call}

\* _add_rule: values that add_rule refuses, and a locked database, raise.
AddRule(k) ==
    /\ Due(k)
    /\ \/ rules' = rules \cup CommittedRule(CallOf(k)) /\ Execute(k, TRUE)
       \/ UNCHANGED rules /\ ExecuteRaises(k)
    /\ UNCHANGED <<settings, stored, mailVars, unsubVars>>

\* action_unsubscribe. (It shares nothing with the chat. Bound: once, after it.)
WebUnsubscribe ==
    /\ answer[WebRequest] = Unsub!NoAnswer
    /\ \A k \in Requests : req[k].at = "over"
    /\ \E m \in Messages : Unsub!ByMessage(WebRequest, m)
    /\ UNCHANGED <<chatVars, mailVars, rules>>

-----------------------------------------------------------------------------
UseTool(k) ==
    \/ Look(k)
    \/ SelectRows(k) \/ AtProvider(k) \/ MailDone(k) \/ MailFails(k)
    \/ UnsubscribeTool(k) \/ AddRule(k)

Next ==
    \/ Talk /\ UNCHANGED <<settings, stored, mailVars, unsubVars, rules>>
    \/ \E k \in Requests : UseTool(k)
    \/ WebUnsubscribe

Spec == Init /\ [][Next]_vars

-----------------------------------------------------------------------------
Moved(call) == work[call].ids

\* What a tool's result claims: a committed rule, an unsubscription that went out,
\* or messages that are logged, and changed at the provider: all of them for this
\* call over Gmail, and none of them left in INBOX over IMAP.
Claimed(call) ==
    \/ call \in rules
    \/ /\ answer[call].success
       /\ dryRun \/ <<call, answer[call].msg>> \in posted \cup mailed
    \/ /\ Moved(call) # {}
       /\ Moved(call) = {e.msg : e \in {x \in log : x.by = call}}
       /\ \A m \in Moved(call) :
            \/ dryRun \/ <<call, m>> \in applied
            \/ provider = "imap" /\ "INBOX" \notin mailbox[m]

\* Everything that has its own record: rules, and messages moved.
Effects == rules \cup {p[1] : p \in applied} \cup {e.by : e \in log}

\* Type invariant of the composition and its parts.
TypeOK ==
    /\ ChatTypeOK /\ Mail!TypeOK /\ Unsub!TypeOK
    /\ rules \subseteq Calls

\* What any conversation says was done was done and is recorded, whichever calls of
\* the same turn failed and whatever another request did to the same messages; and
\* no unsubscription, the page's own included, is called a success in vain.
ToldIsDone ==
    /\ \A call \in Calls :
         (Reports(history, call) \/ \E k \in Requests : Reports(req[k].messages, call))
             => Claimed(call)
    /\ Unsub!SuccessWentOut

\* An answer without an error keeps nothing back: each tool call of its turn that
\* moved a message, logged one or added a rule is reported in it.
DoneIsTold ==
    \A k \in Requests : req[k].at = "answered" =>
        \A call \in Effects : call[1] = k => Reports(req[k].messages, call)

\* Only one-click links are contacted (unsubscribe.py:49-50, "DON'T auto-GET"); in a
\* dry run neither the chat nor the page reaches a list's server, a mail address or
\* the mailbox, by whatever path.
OnlyWantedContacts == Unsub!OnlyWantedContacts /\ (dryRun => applied = {})
=============================================================================
