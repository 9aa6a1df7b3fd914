---------------------------- MODULE Unsubscribe ----------------------------
(***************************************************************************)
(* unsubscribe_message (mailllama/services/unsubscribe.py), for a message    *)
(* the web page names (web/routes/actions.py) and for the one the chat tool *)
(* picks of a sender (services/chat.py). What goes out cannot be taken      *)
(* back, is not recorded, and its answer may be lost. Assistant puts it     *)
(* beside the chat and the mail actions, and has the next-state relation.   *)
(***************************************************************************)
EXTENDS Naturals, FiniteSets

CONSTANTS
    Messages,
    Senders, SenderOf,
    DateOf,         \* Message.date; 0: none, which SQLite sorts below every date
    InfoOf,         \* what the headers and the body of a message offer
    Requests

\* List-Unsubscribe-Post, an http(s) and a mailto link of List-Unsubscribe, and a
\* link in the body that the scan or the LLM finds.
Info == [oneClick : BOOLEAN, http : BOOLEAN, mailto : BOOLEAN, body : BOOLEAN]

VARIABLES
    provider,   \* Account.provider: "gmail_api" or "imap"
    dryRun,     \* settings.dry_run, read when the process starts
    stored,     \* message rows
    posted,     \* <<request, message>>: its one-click link was POSTed to
    mailed,     \* <<request, message>>: its mailto address was sent a mail
    answer      \* the last UnsubResult of each request: of which message, asked
                \* for by which sender ("none": by id)

vars == <<provider, dryRun, stored, posted, mailed, answer>>

Methods == {"one_click", "http_link", "mailto", "body_link", "none"}

Answer == [msg : Messages, method : Methods, success : BOOLEAN,
           sender : Senders \cup {"none"}]

NoAnswer == [method |-> "none", success |-> FALSE]

Init ==
    /\ posted = {} /\ mailed = {}
    /\ answer = [r \in Requests |-> NoAnswer]

-----------------------------------------------------------------------------
Result(r, m, s, method, success) ==
    answer' = [answer EXCEPT ![r] =
                  [msg |-> m, method |-> method, success |-> success, sender |-> s]]

Posts(m) == InfoOf[m].oneClick /\ InfoOf[m].http

\* The list's server gets the POST or not, and its answer is one below 400, one
\* above, or an HTTPError. (Redirects are followed: it is the last server's answer. An
\* address that httpx cannot parse raises InvalidURL, which is no HTTPError, before
\* anything is sent: the callers have it among their failures.)
Post(r, m, s) ==
    /\ Posts(m)
    /\ IF dryRun
       THEN Result(r, m, s, "one_click", TRUE) /\ UNCHANGED posted
       ELSE \E got, success \in BOOLEAN :
              /\ success => got
              /\ posted' = IF got THEN posted \cup {<<r, m>>} ELSE posted
              /\ Result(r, m, s, "one_click", success)
    /\ UNCHANGED mailed

\* Shown, not followed.
Link(r, m, s) ==
    /\ ~Posts(m) /\ InfoOf[m].http
    /\ Result(r, m, s, "http_link", FALSE)
    /\ UNCHANGED <<posted, mailed>>

SendSucceeds(sent) == IF sent THEN BOOLEAN ELSE {FALSE}

\* Mutation: the dry run is only looked at for POSTs.
MailIsDryNever == FALSE

MailIsDry == dryRun

\* IMAP cannot send; Gmail may send and still raise.
Mail(r, m, s) ==
    /\ ~InfoOf[m].http /\ InfoOf[m].mailto
    /\ IF MailIsDry
       THEN Result(r, m, s, "mailto", TRUE) /\ UNCHANGED mailed
       ELSE \E sent \in (IF provider = "imap" THEN {FALSE} ELSE BOOLEAN) :
              /\ mailed' = IF sent THEN mailed \cup {<<r, m>>} ELSE mailed
              /\ \E success \in SendSucceeds(sent) : Result(r, m, s, "mailto", success)
    /\ UNCHANGED posted

\* The body is fetched and scanned; the LLM may fail to find the link. (Fetching
\* may raise, which leaves everything as it is.)
ScanBody(r, m, s) ==
    /\ ~InfoOf[m].http /\ ~InfoOf[m].mailto
    /\ \E method \in {"none"} \cup (IF InfoOf[m].body THEN {"body_link"} ELSE {}) :
         Result(r, m, s, method, FALSE)
    /\ UNCHANGED <<posted, mailed>>

UnsubscribeMessage(r, m, s) ==
    /\ Post(r, m, s) \/ Link(r, m, s) \/ Mail(r, m, s) \/ ScanBody(r, m, s)
    /\ UNCHANGED <<provider, dryRun, stored>>

\* The route takes the id of a message of the account...
ByMessage(r, m) == m \in stored /\ UnsubscribeMessage(r, m, "none")

\* Mutation: messages are not restricted to the sender.
OfSenderAny(s) == stored

OfSender(s) == {m \in stored : SenderOf[m] = s}

Newest(s) == {m \in OfSender(s) : \A n \in OfSender(s) : DateOf[n] <= DateOf[m]}

\* ...the chat tool the newest message of a sender; of several with one date any.
BySender(r, s) == \E m \in Newest(s) : UnsubscribeMessage(r, m, s)

-----------------------------------------------------------------------------
\* Type invariant: rows contacted are stored, and an answer to a request for a
\* sender is about a message of that sender.
TypeOK ==
    /\ posted \subseteq Requests \X stored /\ mailed \subseteq Requests \X stored
    /\ DOMAIN answer = Requests
    /\ \A r \in Requests : answer[r] # NoAnswer =>
         answer[r] \in Answer /\ answer[r].sender \in {"none", SenderOf[answer[r].msg]}

\* unsubscribe.py:49-50, "DON'T auto-GET (could trigger tracking or confirm)": a
\* link is only contacted if its message declares the one-click POST for it, and
\* in a dry run nothing leaves the program at all.
OnlyWantedContacts ==
    /\ \A p \in posted : InfoOf[p[2]].oneClick
    /\ dryRun => posted = {} /\ mailed = {}

\* Outside a dry run the user is told of success only for something that this very
\* request sent out.
SuccessWentOut ==
    \A r \in Requests : answer[r].success =>
        \/ dryRun
        \/ answer[r].method = "one_click" /\ <<r, answer[r].msg>> \in posted
        \/ answer[r].method = "mailto" /\ <<r, answer[r].msg>> \in mailed
=============================================================================
