------------------------- MODULE MailActionsProofs -------------------------
(***************************************************************************)
(* Proofs about MailActions, for any mailbox and any number of requests,    *)
(* whatever overlaps and fails.                                             *)
(*                                                                         *)
(* The inductive invariant IInv says, beside the types and of each request, *)
(*   NothingCalledDry - in a dry run it does not get to the provider,       *)
(*   PassedIsDone     - what it has behind it at the provider was done, or  *)
(*                      (IMAP) had already left INBOX,                      *)
(*   LoggingIsLast    - when it writes its log it has nothing left to do,   *)
(*   LoggedIfAnswered - it has logged all or nothing,                       *)
(* and LogWasTrue of the log as a whole.                                    *)
(***************************************************************************)
EXTENDS MailActions, TLAPS

Done(r, m) ==
    \/ <<r, m>> \in applied
    \/ provider = "imap" /\ "INBOX" \notin mailbox[m]

UnderWay(r) == req[r].at \in {"calling", "logging"}

NothingCalledDry(r) == req[r].at = "calling" => ~dryRun

PassedIsDone(r) ==
    UnderWay(r) /\ ~dryRun => \A m \in req[r].ids \ req[r].left : Done(r, m)

LoggingIsLast(r) == req[r].at = "logging" /\ ~dryRun => req[r].left = {}

LoggedIfAnswered(r) ==
    LoggedBy(r) = IF req[r].at = "answered" THEN req[r].ids ELSE {}

Sound(r) == NothingCalledDry(r) /\ PassedIsDone(r) /\ LoggingIsLast(r) /\ LoggedIfAnswered(r)

LogWasTrue == \A e \in log : e.result = "ok" => Done(e.by, e.msg)

IInv == TypeOK /\ LogWasTrue /\ \A r \in Requests : Sound(r)

-----------------------------------------------------------------------------
(* The operators.                                                           *)

\* No action's target is INBOX: whatever is carried out leaves it.
LEMMA CarriedLeavesInbox ==
    ASSUME NEW action \in Actions, NEW L \in SUBSET Labels
    PROVE  Carried(action, L) \in SUBSET Labels /\ "INBOX" \notin Carried(action, L)
  BY FolderAssumption DEF Carried, Actions, Labels

\* The row is given the labels the provider has.
LEMMA LocalLabelsLeaveInbox ==
    ASSUME NEW action \in Actions, NEW L \in SUBSET Labels
    PROVE  LocalLabels(action, L) \in SUBSET Labels /\ "INBOX" \notin LocalLabels(action, L)
  BY FolderAssumption DEF LocalLabels, Actions, Labels

\* A request without labels in hand, and a message no sync looks at, have their types.
LEMMA NothingLoaded == NoLabels \in [Messages -> SUBSET Labels]
  BY DEF NoLabels

-----------------------------------------------------------------------------
(* Type correctness.                                                        *)

LEMMA InitTypeOK == Init => TypeOK
<1>1. SUFFICES ASSUME Init PROVE TypeOK
  OBVIOUS
<1>2. mailbox \in [Messages -> SUBSET Labels] /\ labels \in [Messages -> SUBSET Labels]
  BY <1>1 DEF Init, Labels
<1>3. req \in [Requests -> Request]
  BY <1>1, NothingLoaded DEF Init, Request, Actions
<1>4. QED
  BY <1>1, <1>2, <1>3 DEF Init, TypeOK

\* Selecting rows, by whatever ids, starts a request.
LEMMA BeginTypeOK ==
    ASSUME TypeOK, NEW r \in Requests, NEW action \in Actions, NEW ids \in SUBSET Messages,
           NEW at \in {"calling", "logging", "answered"}, Begin(r, action, ids, at)
    PROVE  TypeOK'
<1> DEFINE loaded == [m \in Messages |-> IF m \in ids THEN labels[m] ELSE {}]
<1>1. loaded \in [Messages -> SUBSET Labels]
  BY DEF TypeOK
<1>2. [at |-> at, action |-> action, ids |-> ids, left |-> ids, loaded |-> loaded] \in Request
  BY <1>1 DEF Request
<1>3. req' \in [Requests -> Request]
  BY <1>2 DEF Begin, TypeOK
<1>4. QED
  BY <1>3 DEF Begin, TypeOK, settings

LEMMA AfterSelectAt == AfterSelect \in {"calling", "logging", "answered"}
  BY DEF AfterSelect

\* The request ends, well or not.
LEMMA SessionClosedTypeOK ==
    ASSUME TypeOK, NEW r \in Requests, NEW at \in {"answered", "failed"}
    PROVE  SessionClosed(r, at) \in [Requests -> Request]
<1>1. req[r] \in Request /\ req \in [Requests -> Request]
  BY DEF TypeOK
<1>2. [req[r] EXCEPT !.at = at, !.left = {}, !.loaded = NoLabels] \in Request
  BY <1>1, NothingLoaded DEF Request
<1>3. SessionClosed(r, at) = [req EXCEPT ![r] = [req[r] EXCEPT !.at = at, !.left = {}, !.loaded = NoLabels]]
  BY <1>1 DEF SessionClosed
<1>4. QED
  BY <1>1, <1>2, <1>3

LEMMA CallTypeOK == ASSUME TypeOK, NEW r \in Requests, Call(r) PROVE TypeOK'
<1>1. PICK S \in SUBSET req[r].left :
          /\ mailbox' = [m \in Messages |->
                IF m \in {n \in S : Reachable(n)} THEN Carried(req[r].action, mailbox[m])
                ELSE mailbox[m]]
          /\ applied' = applied \cup ({r} \X {n \in S : Reachable(n)})
          /\ req' = [req EXCEPT ![r].left = req[r].left \ S]
  BY DEF Call
<1>2. req[r].left \in SUBSET Messages /\ req[r].action \in Actions
  BY DEF TypeOK, Request
<1>3. \A m \in Messages : Carried(req[r].action, mailbox[m]) \in SUBSET Labels
  BY <1>2, CarriedLeavesInbox DEF TypeOK
<1>4. mailbox' \in [Messages -> SUBSET Labels]
  BY <1>1, <1>3 DEF TypeOK
<1>5. applied' \subseteq Requests \X Messages
  BY <1>1, <1>2 DEF TypeOK
<1>6. req' \in [Requests -> Request]
  <2>1. req[r] \in Request /\ req \in [Requests -> Request]
    BY DEF TypeOK
  <2>2. [req[r] EXCEPT !.left = req[r].left \ S] \in Request
    BY <1>2, <2>1 DEF Request
  <2>3. QED
    BY <1>1, <2>1, <2>2
<1>7. QED
  BY <1>4, <1>5, <1>6 DEF Call, TypeOK, settings

LEMMA CommitTypeOK == ASSUME TypeOK, NEW r \in Requests, Commit(r) PROVE TypeOK'
<1>1. req[r] \in Request
  BY DEF TypeOK
<1>2. Rows(r) \subseteq LogRow
  <2>1. req[r].action \in Actions /\ req[r].ids \subseteq Messages
    BY <1>1 DEF Request
  <2>2. SUFFICES ASSUME NEW m \in req[r].ids
                 PROVE  [by |-> r, msg |-> m, action |-> req[r].action,
                         result |-> IF dryRun THEN "dry run" ELSE "ok"] \in LogRow
    BY DEF Rows
  <2>3. m \in Messages /\ (IF dryRun THEN "dry run" ELSE "ok") \in {"ok", "dry run"}
    BY <2>1
  <2>4. QED
    BY <2>1, <2>3 DEF LogRow
<1>3. \A m \in Messages : LocalLabels(req[r].action, req[r].loaded[m]) \in SUBSET Labels
  BY <1>1, LocalLabelsLeaveInbox DEF Request
<1>4. labels' \in [Messages -> SUBSET Labels]
  BY <1>3 DEF Commit, TypeOK
<1>5. req' \in [Requests -> Request]
  BY SessionClosedTypeOK DEF Commit
<1>6. QED
  BY <1>2, <1>4, <1>5 DEF Commit, TypeOK, settings

\* Selecting by sender takes stored messages.
LEMMA SenderIsSelected ==
    ASSUME NEW r, NEW action, NEW s, SelectSender(r, action, s)
    PROVE  \E ids \in SUBSET stored :
               Begin(r, action, ids, IF ids = {} THEN "answered" ELSE AfterSelect)
<1> DEFINE all == {m \in stored : SenderOf[m] = s}
<1>1. PICK ids \in (IF action = "trash" THEN SUBSET all ELSE {all}) :
          Begin(r, action, ids, IF ids = {} THEN "answered" ELSE AfterSelect)
  BY DEF SelectSender
<1>2. ids \in SUBSET stored
  OBVIOUS
<1>3. QED
  BY <1>1, <1>2

LEMMA RequestTypeOK == ASSUME TypeOK, NEW r \in Requests, RequestStep(r) PROVE TypeOK'
<1>1. ASSUME NEW action \in {"archive", "trash"}, NEW s \in Senders, SelectSender(r, action, s)
      PROVE  TypeOK'
  <2>1. action \in Actions
    BY DEF Actions
  <2>2. PICK ids \in SUBSET stored :
            Begin(r, action, ids, IF ids = {} THEN "answered" ELSE AfterSelect)
    BY <1>1, SenderIsSelected
  <2>3. PICK at \in {"calling", "logging", "answered"} : Begin(r, action, ids, at)
    BY <2>2, AfterSelectAt
  <2>4. QED
    BY <2>1, <2>2, <2>3, BeginTypeOK DEF TypeOK
<1>2. CASE SelectIds(r)
  <2>1. PICK action \in Actions, ids \in SUBSET Messages :
            Begin(r, action, ids \cap stored, AfterSelect)
    BY <1>2 DEF SelectIds
  <2>2. ids \cap stored \in SUBSET Messages
    OBVIOUS
  <2>3. QED
    BY <2>1, <2>2, AfterSelectAt, BeginTypeOK
<1>3. CASE Call(r)
  BY <1>3, CallTypeOK
<1>4. CASE Returned(r)
  <2>1. req[r] \in Request /\ req \in [Requests -> Request]
    BY DEF TypeOK
  <2>2. [req[r] EXCEPT !.at = "logging"] \in Request
    BY <2>1 DEF Request
  <2>3. req' \in [Requests -> Request]
    BY <1>4, <2>1, <2>2 DEF Returned
  <2>4. QED
    BY <1>4, <2>3 DEF Returned, TypeOK, settings
<1>5. CASE Commit(r)
  BY <1>5, CommitTypeOK
<1>6. CASE Fail(r)
  BY <1>6, SessionClosedTypeOK DEF Fail, TypeOK, settings
<1>7. QED
  BY <1>1, <1>2, <1>3, <1>4, <1>5, <1>6 DEF RequestStep

LEMMA OthersTypeOK ==
    ASSUME TypeOK,
           (\E m \in Synced : SyncRead(m) \/ SyncUpsert(m) \/ MoveOut(m) \/ MoveBack(m))
             \/ SyncCommit
    PROVE  TypeOK'
<1> DEFINE State == [at : {"none", "read", "upserted"}, new : SUBSET Labels, old : SUBSET Labels]
<1>1. sync \in [Messages -> State]
  BY DEF TypeOK
<1>2. ASSUME NEW m \in Synced, SyncRead(m) PROVE TypeOK'
  <2>1. m \in Messages /\ {"INBOX"} \in SUBSET Labels
    BY <1>2, SyncedAssumption DEF Labels
  <2>2. (IF provider = "imap" THEN {"INBOX"} ELSE mailbox[m]) \in SUBSET Labels
    BY <2>1 DEF TypeOK
  <2>3. sync' \in [Messages -> State]
    BY <1>1, <1>2, <2>1, <2>2 DEF SyncRead
  <2>4. QED
    BY <1>2, <2>3 DEF SyncRead, TypeOK, settings
<1>3. ASSUME NEW m \in Synced, SyncUpsert(m) PROVE TypeOK'
  <2>1. m \in Messages
    BY <1>3, SyncedAssumption
  <2>2. labels[m] \in SUBSET Labels
    BY <2>1 DEF TypeOK
  <2>3. sync' \in [Messages -> State]
    BY <1>1, <1>3, <2>1, <2>2 DEF SyncUpsert
  <2>4. QED
    BY <1>3, <2>3 DEF SyncUpsert, TypeOK, settings
<1>4. ASSUME NEW m \in Synced, MoveOut(m) PROVE TypeOK'
  <2>1. mailbox' \in [Messages -> SUBSET Labels]
    BY <1>4 DEF MoveOut, TypeOK, Labels
  <2>2. QED
    BY <1>4, <2>1 DEF MoveOut, TypeOK, settings
<1>5. ASSUME NEW m \in Synced, MoveBack(m) PROVE TypeOK'
  <2>1. mailbox' \in [Messages -> SUBSET Labels]
    BY <1>5 DEF MoveBack, TypeOK, Labels
  <2>2. QED
    BY <1>5, <2>1 DEF MoveBack, TypeOK, settings
<1>6. ASSUME SyncCommit PROVE TypeOK'
  <2>1. \A m \in Messages : Written(sync[m].new, sync[m].old, labels[m]) \in SUBSET Labels
    BY <1>1 DEF Written, TypeOK
  <2>2. labels' \in [Messages -> SUBSET Labels]
    BY <1>6, <2>1 DEF SyncCommit, TypeOK
  <2>3. sync' \in [Messages -> State]
    BY <1>1, <1>6 DEF SyncCommit
  <2>4. stored' \subseteq Messages
    BY <1>6 DEF SyncCommit, Upserted, TypeOK
  <2>5. QED
    BY <1>6, <2>2, <2>3, <2>4 DEF SyncCommit, TypeOK, settings
<1>7. QED
  BY <1>2, <1>3, <1>4, <1>5, <1>6

LEMMA NextTypeOK == TypeOK /\ [Next]_vars => TypeOK'
<1>1. ASSUME TypeOK, Next PROVE TypeOK'
  BY <1>1, RequestTypeOK, OthersTypeOK DEF Next
<1>2. ASSUME TypeOK, UNCHANGED vars PROVE TypeOK'
  BY <1>2 DEF vars, settings, TypeOK
<1>3. QED
  BY <1>1, <1>2

\* Labels, log rows and requests keep their types, whoever moves mail.
THEOREM TypeCorrect == Spec => []TypeOK
<1>1. QED
  BY InitTypeOK, NextTypeOK, PTL DEF Spec

-----------------------------------------------------------------------------
(* The inductive invariant.                                                 *)

LEMMA InitIInv == Init => IInv
<1>1. SUFFICES ASSUME Init PROVE IInv
  OBVIOUS
<1>2. log = {}
  BY <1>1 DEF Init
<1>3. ASSUME NEW r \in Requests PROVE Sound(r)
  <2>1. req[r].at = "idle" /\ LoggedBy(r) = {}
    BY <1>1, <1>2 DEF Init, LoggedBy
  <2>2. QED
    BY <2>1 DEF Sound, NothingCalledDry, PassedIsDone, UnderWay, LoggingIsLast, LoggedIfAnswered
<1>4. QED
  BY <1>1, <1>2, <1>3, InitTypeOK DEF IInv, LogWasTrue

\* What was done stays done: over IMAP nothing comes back to INBOX.
LEMMA DoneStays ==
    ASSUME TypeOK, Next, NEW r \in Requests, NEW m \in Messages, Done(r, m)
    PROVE  Done(r, m)'
<1>1. ASSUME mailbox' = mailbox, applied' = applied, provider' = provider PROVE Done(r, m)'
  BY <1>1 DEF Done
<1>2. ASSUME NEW q \in Requests, Call(q) PROVE Done(r, m)'
  <2>1. PICK S \in SUBSET req[q].left :
            /\ mailbox' = [n \in Messages |->
                  IF n \in {o \in S : Reachable(o)} THEN Carried(req[q].action, mailbox[n])
                  ELSE mailbox[n]]
            /\ applied' = applied \cup ({q} \X {n \in S : Reachable(n)})
    BY <1>2 DEF Call
  <2>2. req[q].action \in Actions /\ mailbox[m] \in SUBSET Labels
    BY DEF TypeOK, Request
  <2>3. "INBOX" \notin mailbox[m] => "INBOX" \notin mailbox'[m]
    BY <2>1, <2>2, CarriedLeavesInbox
  <2>4. provider' = provider
    BY <1>2 DEF Call, settings
  <2>5. QED
    BY <2>1, <2>3, <2>4 DEF Done
<1>3. ASSUME NEW n \in Synced, MoveOut(n) PROVE Done(r, m)'
  <2>1. "INBOX" \notin mailbox[m] => "INBOX" \notin mailbox'[m]
    BY <1>3 DEF MoveOut, TypeOK
  <2>2. QED
    BY <1>3, <2>1 DEF MoveOut, Done, settings
<1>4. ASSUME NEW n \in Synced, MoveBack(n) PROVE Done(r, m)'
  BY <1>4 DEF MoveBack, Done, settings
<1>5. ASSUME NEW q \in Requests, RequestStep(q) PROVE Done(r, m)'
  <2>1. CASE Call(q)
    BY <2>1, <1>2
  <2>2. CASE Returned(q) \/ Commit(q) \/ Fail(q)
    BY <2>2, <1>1 DEF Returned, Commit, Fail, settings
  <2>3. CASE SelectIds(q) \/ \E action \in {"archive", "trash"}, s \in Senders :
                                 SelectSender(q, action, s)
    BY <2>3, <1>1 DEF SelectIds, SelectSender, Begin, settings
  <2>4. QED
    BY <1>5, <2>1, <2>2, <2>3 DEF RequestStep
<1>6. ASSUME NEW n \in Synced, SyncRead(n) \/ SyncUpsert(n) PROVE Done(r, m)'
  BY <1>1, <1>6 DEF SyncRead, SyncUpsert, settings
<1>7. ASSUME SyncCommit PROVE Done(r, m)'
  BY <1>1, <1>7 DEF SyncCommit, settings
<1>8. QED
  BY <1>3, <1>4, <1>5, <1>6, <1>7 DEF Next

\* A step that writes no log row spoils none.
LEMMA LogStaysTrue ==
    ASSUME TypeOK, LogWasTrue, Next, log' = log
    PROVE  LogWasTrue'
<1>1. ASSUME NEW e \in log, e.result = "ok" PROVE Done(e.by, e.msg)'
  <2>1. e.by \in Requests /\ e.msg \in Messages
    BY DEF TypeOK, LogRow
  <2>2. Done(e.by, e.msg)
    BY <1>1 DEF LogWasTrue
  <2>3. QED
    BY <2>1, <2>2, DoneStays
<1>2. QED
  BY <1>1 DEF LogWasTrue

\* Nor does a step take away from a request that it does not concern.
LEMMA OthersStaySound ==
    ASSUME TypeOK, Next, NEW q \in Requests, Sound(q),
           req'[q] = req[q], dryRun' = dryRun, LoggedBy(q)' = LoggedBy(q)
    PROVE  Sound(q)'
<1>1. NothingCalledDry(q)' /\ LoggingIsLast(q)' /\ LoggedIfAnswered(q)'
  BY DEF Sound, NothingCalledDry, LoggingIsLast, LoggedIfAnswered
<1>2. ASSUME UnderWay(q)', ~dryRun', NEW m \in req'[q].ids \ req'[q].left PROVE Done(q, m)'
  <2>1. m \in Messages
    BY <1>2 DEF TypeOK, Request
  <2>2. Done(q, m)
    BY <1>2 DEF Sound, PassedIsDone, UnderWay
  <2>3. QED
    BY <2>1, <2>2, DoneStays
<1>3. QED
  BY <1>1, <1>2 DEF Sound, PassedIsDone

-----------------------------------------------------------------------------
(* The steps of a request.                                                  *)

LEMMA BeginSound ==
    ASSUME TypeOK, NEW r \in Requests, Sound(r), NEW action, NEW ids, NEW at,
           Begin(r, action, ids, at),
           at \in {"calling", "logging"} => at = AfterSelect,
           at \in {"calling", "logging", "answered"}, at = "answered" => ids = {}
    PROVE  Sound(r)'
<1>1. req'[r].at = at /\ req'[r].ids = ids /\ req'[r].left = ids
  BY DEF Begin, TypeOK
<1>2. LoggedBy(r)' = {}
  <2>1. LoggedBy(r) = {}
    BY DEF Begin, Sound, LoggedIfAnswered
  <2>2. QED
    BY <2>1 DEF Begin, LoggedBy
<1>3. dryRun' = dryRun
  BY DEF Begin, settings
<1>4. NothingCalledDry(r)' /\ LoggingIsLast(r)'
  BY <1>1, <1>3 DEF AfterSelect, NothingCalledDry, LoggingIsLast
<1>5. PassedIsDone(r)'
  BY <1>1 DEF PassedIsDone
<1>6. LoggedIfAnswered(r)'
  BY <1>1, <1>2 DEF LoggedIfAnswered
<1>7. QED
  BY <1>4, <1>5, <1>6 DEF Sound

\* A message the provider was called for was changed, or had left INBOX before.
LEMMA CallSound ==
    ASSUME TypeOK, Next, NEW r \in Requests, Sound(r), Call(r)
    PROVE  Sound(r)'
<1>1. PICK S \in SUBSET req[r].left :
          /\ mailbox' = [m \in Messages |->
                IF m \in {n \in S : Reachable(n)} THEN Carried(req[r].action, mailbox[m])
                ELSE mailbox[m]]
          /\ applied' = applied \cup ({r} \X {n \in S : Reachable(n)})
          /\ req' = [req EXCEPT ![r].left = req[r].left \ S]
  BY DEF Call
<1>2. /\ req'[r].at = "calling" /\ req'[r].ids = req[r].ids
      /\ req'[r].left = req[r].left \ S
  BY <1>1 DEF Call, TypeOK, Request
<1>3. UNCHANGED <<dryRun, provider, log>>
  BY DEF Call, settings
<1>4. ASSUME ~dryRun, NEW m \in req[r].ids \ (req[r].left \ S) PROVE Done(r, m)'
  <2>1. m \in Messages
    BY <1>4 DEF TypeOK, Request
  <2>2. CASE m \notin req[r].left
    <3>1. Done(r, m)
      BY <1>4, <2>2 DEF Call, Sound, PassedIsDone, UnderWay
    <3>2. QED
      BY <2>1, <3>1, DoneStays
  <2>3. CASE m \in S /\ Reachable(m)
    BY <1>1, <2>3 DEF Done
  <2>4. CASE m \in S /\ ~Reachable(m)
    <3>1. provider = "imap" /\ "INBOX" \notin mailbox[m]
      BY <2>4 DEF Reachable, TypeOK
    <3>2. QED
      BY <1>1, <1>3, <2>1, <2>4, <3>1 DEF Done
  <2>5. QED
    BY <1>4, <2>2, <2>3, <2>4
<1>5. PassedIsDone(r)'
  BY <1>2, <1>3, <1>4 DEF PassedIsDone
<1>6. NothingCalledDry(r)' /\ LoggingIsLast(r)'
  BY <1>2, <1>3 DEF Call, Sound, NothingCalledDry, LoggingIsLast
<1>7. LoggedIfAnswered(r)'
  BY <1>2, <1>3 DEF Call, Sound, LoggedIfAnswered, LoggedBy
<1>8. QED
  BY <1>5, <1>6, <1>7 DEF Sound

LEMMA ReturnedSound ==
    ASSUME TypeOK, Next, NEW r \in Requests, Sound(r), Returned(r)
    PROVE  Sound(r)'
<1>1. req'[r].at = "logging" /\ req'[r].ids = req[r].ids /\ req'[r].left = req[r].left
  BY DEF Returned, TypeOK, Request
<1>2. UNCHANGED <<dryRun, provider, mailbox, applied, log>>
  BY DEF Returned, settings
<1>3. NothingCalledDry(r)' /\ LoggingIsLast(r)'
  BY <1>1 DEF Returned, NothingCalledDry, LoggingIsLast
<1>4. PassedIsDone(r)'
  BY <1>1, <1>2 DEF Returned, Sound, PassedIsDone, UnderWay, Done
<1>5. LoggedIfAnswered(r)'
  BY <1>1, <1>2 DEF Returned, Sound, LoggedIfAnswered, LoggedBy
<1>6. QED
  BY <1>3, <1>4, <1>5 DEF Sound

\* The rows to log name the request and, between them, all of its messages.
LEMMA RowsOfRequest ==
    ASSUME NEW r
    PROVE  /\ \A x \in Rows(r) : x.by = r
           /\ {e.msg : e \in Rows(r)} = req[r].ids
<1> DEFINE RowOf(m) == [by |-> r, msg |-> m, action |-> req[r].action,
                        result |-> IF dryRun THEN "dry run" ELSE "ok"]
<1>1. \A m : RowOf(m).by = r /\ RowOf(m).msg = m
  OBVIOUS
<1>2. Rows(r) = {RowOf(m) : m \in req[r].ids}
  BY DEF Rows
<1> HIDE DEF RowOf
<1>3. \A x \in Rows(r) : x.by = r
  BY <1>1, <1>2
<1>4. {e.msg : e \in Rows(r)} = req[r].ids
  BY <1>1, <1>2
<1>5. QED
  BY <1>3, <1>4

\* All messages get a row of this request, which had none.
LEMMA CommitSound ==
    ASSUME TypeOK, Next, NEW r \in Requests, Sound(r), Commit(r)
    PROVE  Sound(r)'
<1>1. req'[r].at = "answered" /\ req'[r].ids = req[r].ids
  BY DEF Commit, SessionClosed, TypeOK, Request
<1>2. LoggedBy(r) = {}
  BY DEF Commit, Sound, LoggedIfAnswered
<1>3. LoggedBy(r)' = {e.msg : e \in {x \in log \cup Rows(r) : x.by = r}}
  BY DEF Commit, LoggedBy
<1>4. \A x \in log : x.by # r
  BY <1>2 DEF LoggedBy
<1>5. \A x \in Rows(r) : x.by = r
  BY RowsOfRequest
<1>6. {x \in log \cup Rows(r) : x.by = r} = Rows(r)
  BY <1>4, <1>5
<1>7. {e.msg : e \in Rows(r)} = req[r].ids
  BY RowsOfRequest
<1>8. LoggedIfAnswered(r)'
  BY <1>1, <1>3, <1>6, <1>7 DEF LoggedIfAnswered
<1>9. QED
  BY <1>1, <1>8 DEF Sound, NothingCalledDry, PassedIsDone, UnderWay, LoggingIsLast

LEMMA FailSound ==
    ASSUME TypeOK, Next, NEW r \in Requests, Sound(r), Fail(r)
    PROVE  Sound(r)'
<1>1. req'[r].at = "failed"
  BY DEF Fail, SessionClosed, TypeOK, Request
<1>2. LoggedBy(r)' = {}
  BY DEF Fail, Sound, LoggedIfAnswered, LoggedBy
<1>3. QED
  BY <1>1, <1>2 DEF Sound, NothingCalledDry, PassedIsDone, UnderWay, LoggingIsLast,
                    LoggedIfAnswered

LEMMA RequestSound ==
    ASSUME TypeOK, Next, NEW r \in Requests, Sound(r), RequestStep(r)
    PROVE  Sound(r)'
<1>1. ASSUME NEW action \in {"archive", "trash"}, NEW s \in Senders, SelectSender(r, action, s)
      PROVE  Sound(r)'
  <2>0. PICK ids \in SUBSET stored :
            Begin(r, action, ids, IF ids = {} THEN "answered" ELSE AfterSelect)
    BY <1>1, SenderIsSelected
  <2> DEFINE at == IF ids = {} THEN "answered" ELSE AfterSelect
  <2>1. Begin(r, action, ids, at)
    BY <2>0
  <2>2. /\ at \in {"calling", "logging"} => at = AfterSelect
        /\ at \in {"calling", "logging", "answered"}
        /\ at = "answered" => ids = {}
    BY DEF AfterSelect
  <2> HIDE DEF at
  <2>3. QED
    BY <2>1, <2>2, BeginSound
<1>2. CASE SelectIds(r)
  <2>1. PICK action \in Actions, ids \in SUBSET Messages :
            Begin(r, action, ids \cap stored, AfterSelect)
    BY <1>2 DEF SelectIds
  <2>2. AfterSelect \in {"calling", "logging"} /\ AfterSelect # "answered"
    BY DEF AfterSelect
  <2>3. QED
    BY <2>1, <2>2, BeginSound
<1>3. QED
  BY <1>1, <1>2, CallSound, ReturnedSound, CommitSound, FailSound DEF RequestStep

-----------------------------------------------------------------------------
(* All steps.                                                               *)

\* A request leaves the others and their log rows alone.
LEMMA RequestsAreApart ==
    ASSUME TypeOK, NEW r \in Requests, RequestStep(r), NEW q \in Requests, q # r
    PROVE  req'[q] = req[q] /\ dryRun' = dryRun /\ LoggedBy(q)' = LoggedBy(q)
<1>1. dryRun' = dryRun
  BY DEF RequestStep, SelectSender, SelectIds, Begin, Call, Returned, Commit, Fail, settings
<1>2. CASE Commit(r)
  <2>1. req'[q] = req[q]
    BY <1>2 DEF Commit, SessionClosed, TypeOK
  <2>2. \A x \in Rows(r) : x.by = r
    BY RowsOfRequest
  <2>3. LoggedBy(q)' = LoggedBy(q)
    BY <1>2, <2>2 DEF Commit, LoggedBy
  <2>4. QED
    BY <1>1, <2>1, <2>3
<1>3. CASE Call(r) \/ Returned(r) \/ Fail(r)
  <2>1. req'[q] = req[q] /\ log' = log
    BY <1>3 DEF Call, Returned, Fail, SessionClosed, TypeOK
  <2>2. QED
    BY <1>1, <2>1 DEF LoggedBy
<1>4. CASE SelectIds(r) \/ \E action \in {"archive", "trash"}, s \in Senders :
                               SelectSender(r, action, s)
  <2>1. req'[q] = req[q] /\ log' = log
    BY <1>4 DEF SelectIds, SelectSender, Begin, TypeOK
  <2>2. QED
    BY <1>1, <2>1 DEF LoggedBy
<1>5. QED
  BY <1>2, <1>3, <1>4 DEF RequestStep

\* The rows a commit adds say "ok" only if the request went through the provider's
\* calls to their end.
LEMMA CommitLogsTruth ==
    ASSUME TypeOK, LogWasTrue, Next, NEW r \in Requests, Sound(r), Commit(r)
    PROVE  LogWasTrue'
<1>1. ASSUME NEW e \in log', e.result = "ok" PROVE Done(e.by, e.msg)'
  <2>1. CASE e \in log
    <3>1. e.by \in Requests /\ e.msg \in Messages
      BY <2>1 DEF TypeOK, LogRow
    <3>2. Done(e.by, e.msg)
      BY <1>1, <2>1 DEF LogWasTrue
    <3>3. QED
      BY <3>1, <3>2, DoneStays
  <2>2. CASE e \in Rows(r)
    <3>1. PICK m \in req[r].ids :
              e = [by |-> r, msg |-> m, action |-> req[r].action,
                   result |-> IF dryRun THEN "dry run" ELSE "ok"]
      BY <2>2 DEF Rows
    <3>2. e.by = r /\ e.msg = m /\ ~dryRun
      BY <1>1, <3>1
    <3>3. m \in Messages
      BY DEF TypeOK, Request
    <3>4. req[r].left = {}
      BY <3>2 DEF Commit, Sound, LoggingIsLast
    <3>5. Done(r, m)
      BY <3>2, <3>4 DEF Commit, Sound, PassedIsDone, UnderWay
    <3>6. QED
      BY <3>2, <3>3, <3>5, DoneStays
  <2>3. QED
    BY <1>1, <2>1, <2>2 DEF Commit
<1>2. QED
  BY <1>1 DEF LogWasTrue

LEMMA NextIInv == IInv /\ [Next]_vars => IInv'
<1>1. ASSUME IInv, NEW r \in Requests, RequestStep(r) PROVE IInv'
  <2>1. TypeOK /\ Next /\ LogWasTrue /\ Sound(r)
    BY <1>1 DEF IInv, Next
  <2>2. TypeOK'
    BY <1>1, <2>1, RequestTypeOK
  <2>3. Sound(r)'
    BY <1>1, <2>1, RequestSound
  <2>4. ASSUME NEW q \in Requests, q # r PROVE Sound(q)'
    <3>1. req'[q] = req[q] /\ dryRun' = dryRun /\ LoggedBy(q)' = LoggedBy(q)
      BY <1>1, <2>1, <2>4, RequestsAreApart
    <3>2. Sound(q)
      BY <1>1 DEF IInv
    <3>3. QED
      BY <2>1, <3>1, <3>2, OthersStaySound
  <2>5. LogWasTrue'
    <3>1. CASE Commit(r)
      BY <2>1, <3>1, CommitLogsTruth
    <3>2. CASE ~Commit(r)
      <4>1. log' = log
        BY <1>1, <3>2 DEF RequestStep, SelectSender, SelectIds, Begin, Call, Returned, Fail
      <4>2. QED
        BY <2>1, <4>1, LogStaysTrue
    <3>3. QED
      BY <3>1, <3>2
  <2>6. QED
    BY <2>2, <2>3, <2>4, <2>5 DEF IInv
<1>2. ASSUME IInv, (\E m \in Synced : SyncRead(m) \/ SyncUpsert(m) \/ MoveOut(m) \/ MoveBack(m))
                     \/ SyncCommit
      PROVE  IInv'
  <2>1. TypeOK /\ Next /\ LogWasTrue
    BY <1>2 DEF IInv, Next
  <2>2. TypeOK'
    BY <1>2, <2>1, OthersTypeOK
  <2>3. req' = req /\ dryRun' = dryRun /\ log' = log
    BY <1>2 DEF SyncRead, SyncUpsert, MoveOut, MoveBack, SyncCommit, settings
  <2>4. ASSUME NEW q \in Requests PROVE Sound(q)'
    <3>1. Sound(q) /\ LoggedBy(q)' = LoggedBy(q) /\ req'[q] = req[q]
      BY <1>2, <2>3 DEF IInv, LoggedBy
    <3>2. QED
      BY <2>1, <2>3, <3>1, OthersStaySound
  <2>5. LogWasTrue'
    BY <2>1, <2>3, LogStaysTrue
  <2>6. QED
    BY <2>2, <2>4, <2>5 DEF IInv
<1>3. ASSUME IInv, UNCHANGED vars PROVE IInv'
  <2>1. TypeOK'
    BY <1>3, NextTypeOK DEF IInv
  <2>2. ASSUME NEW q \in Requests PROVE Sound(q)'
    <3>1. Sound(q)
      BY <1>3 DEF IInv
    <3>2. QED
      BY <1>3, <3>1 DEF Sound, NothingCalledDry, PassedIsDone, UnderWay, LoggingIsLast,
                        LoggedIfAnswered, LoggedBy, Done, vars, settings
  <2>3. LogWasTrue'
    BY <1>3 DEF IInv, LogWasTrue, Done, vars, settings
  <2>4. QED
    BY <2>1, <2>2, <2>3 DEF IInv
<1>4. QED
  BY <1>1, <1>2, <1>3 DEF Next

LEMMA InvariantHolds == Spec => []IInv
<1>1. QED
  BY InitIInv, NextIInv, PTL DEF Spec

-----------------------------------------------------------------------------
\* Whatever call fails half-way and whoever else moves mail, the log says "ok" only
\* of messages Gmail changed for that request, or that have left the IMAP INBOX.
THEOREM LogTellsTheTruth == Spec => []LogIsTrue
<1>1. IInv => LogIsTrue
  BY DEF IInv, LogWasTrue, LogIsTrue, Done
<1>2. QED
  BY <1>1, InvariantHolds, PTL

\* An answered request has logged all of its messages, any other none.
THEOREM LogIsWhole == Spec => []LogIsComplete
<1>1. IInv => LogIsComplete
  BY DEF IInv, Sound, LoggedIfAnswered, LogIsComplete
<1>2. QED
  BY <1>1, InvariantHolds, PTL

-----------------------------------------------------------------------------
(* Changes of INBOX. They are named here as InboxChangesForAReason has them. *)

LeavesMailbox(m) == "INBOX" \in mailbox[m] /\ mailbox'[m] \cap {"INBOX", "elsewhere"} = {}

OnRequest(m) ==
    ~dryRun /\ \E r \in Requests : req[r].at = "calling" /\ m \in req[r].left

BackInRow(m) == "INBOX" \notin labels[m] /\ "INBOX" \in labels'[m]

FromSync(m) == sync[m].at = "upserted" /\ "INBOX" \in sync[m].new

\* At the provider: calls and the owner's moves are all that touches the mailbox.
LEMMA LeavesOnRequest ==
    ASSUME IInv, Next, NEW m \in Messages, LeavesMailbox(m)
    PROVE  OnRequest(m)
<1>1. mailbox[m] # mailbox'[m]
  BY DEF LeavesMailbox
<1>2. ASSUME NEW r \in Requests, Call(r) PROVE OnRequest(m)
  <2>1. ~dryRun /\ req[r].at = "calling"
    BY <1>2 DEF Call, IInv, Sound, NothingCalledDry
  <2>2. m \in req[r].left
    BY <1>1, <1>2 DEF Call, IInv, TypeOK
  <2>3. QED
    BY <2>1, <2>2 DEF OnRequest
<1>3. ASSUME NEW r \in Requests, RequestStep(r), ~Call(r) PROVE mailbox' = mailbox
  BY <1>3 DEF RequestStep, SelectSender, SelectIds, Begin, Returned, Commit, Fail
<1>4. ASSUME NEW n \in Synced, MoveOut(n) PROVE FALSE
  BY <1>1, <1>4 DEF MoveOut, LeavesMailbox, IInv, TypeOK
<1>5. ASSUME NEW n \in Synced, MoveBack(n) PROVE FALSE
  BY <1>1, <1>5 DEF MoveBack, LeavesMailbox, IInv, TypeOK
<1>6. ASSUME NEW n \in Synced, SyncRead(n) \/ SyncUpsert(n) PROVE mailbox' = mailbox
  BY <1>6 DEF SyncRead, SyncUpsert
<1>7. ASSUME SyncCommit PROVE mailbox' = mailbox
  BY <1>7 DEF SyncCommit
<1>8. QED
  BY <1>1, <1>2, <1>3, <1>4, <1>5, <1>6, <1>7 DEF Next

\* In the rows: what a request writes is never INBOX, however old its copy.
LEMMA ComesBackFromSync ==
    ASSUME IInv, Next, NEW m \in Messages, BackInRow(m)
    PROVE  FromSync(m)
<1>1. labels'[m] # labels[m]
  BY DEF BackInRow
<1>2. ASSUME NEW r \in Requests, Commit(r) PROVE FALSE
  <2>1. req[r].action \in Actions /\ req[r].loaded[m] \in SUBSET Labels
    BY DEF IInv, TypeOK, Request
  <2>2. labels'[m] \in {labels[m], LocalLabels(req[r].action, req[r].loaded[m])}
    BY <1>2 DEF Commit
  <2>3. QED
    BY <2>1, <2>2, LocalLabelsLeaveInbox DEF BackInRow
<1>3. ASSUME NEW r \in Requests, RequestStep(r), ~Commit(r) PROVE labels' = labels
  BY <1>3 DEF RequestStep, SelectSender, SelectIds, Begin, Returned, Call, Fail
<1>4. ASSUME NEW n \in Synced, SyncRead(n) \/ SyncUpsert(n) \/ MoveOut(n) \/ MoveBack(n)
      PROVE  labels' = labels
  BY <1>4 DEF SyncRead, SyncUpsert, MoveOut, MoveBack
<1>5. ASSUME SyncCommit PROVE FromSync(m)
  BY <1>1, <1>5 DEF SyncCommit, Upserted, Written, BackInRow, FromSync
<1>6. QED
  BY <1>1, <1>2, <1>3, <1>4, <1>5 DEF Next

\* INBOX, at the provider and in the rows, changes for a reason only: no message
\* leaves it in a dry run or behind everybody's back, none comes back by a stale copy.
THEOREM InboxIsSafe == Spec => InboxChangesForAReason
<1>1. IInv /\ [Next]_vars => [\A m \in Messages :
         /\ "INBOX" \in mailbox[m] /\ mailbox'[m] \cap {"INBOX", "elsewhere"} = {} =>
              ~dryRun /\ \E r \in Requests : req[r].at = "calling" /\ m \in req[r].left
         /\ "INBOX" \notin labels[m] /\ "INBOX" \in labels'[m] =>
              sync[m].at = "upserted" /\ "INBOX" \in sync[m].new]_vars
  BY LeavesOnRequest, ComesBackFromSync DEF LeavesMailbox, OnRequest, BackInRow, FromSync
<1>2. QED
  BY <1>1, InvariantHolds, PTL DEF Spec, InboxChangesForAReason
=============================================================================
