------------------------ MODULE AccountSyncProofs -------------------------
(***************************************************************************)
(* Proofs about AccountSync, for any mailbox, any number of syncs, any      *)
(* batch and page size, and whatever syncs overlap or fail.                 *)
(*                                                                         *)
(* The inductive invariant IInv adds to the properties themselves           *)
(*   LoadedExist   - a row a session has read is never deleted behind it,   *)
(*   FlushedHaveParents - the session of a flushed message has in hand the  *)
(*                   rows of its thread and of its sender,                  *)
(*   BehindNext    - what the loop has passed is committed or flushed.      *)
(* For the counters and the dates it is joined by                           *)
(*   Shape         - a listing descends, so nothing is in it twice; what is *)
(*                   flushed lies behind the loop; no session holds anything*)
(*                   unless its sync runs,                                  *)
(*   Exact         - until two syncs overlap, at most one is at work, and   *)
(*                   the rows as the tables and as its session have them    *)
(*                   enclose the dates and count each known message, once   *)
(*                   per sync at most.                                      *)
(***************************************************************************)
EXTENDS AccountSync, SequenceTheorems, FiniteSetTheorems, TLAPS

LoadedExist ==
    \A p \in Syncs : \A k \in Keys : sess[p].loaded[k].count # 0 => rows[k].count # 0

FlushedHaveParents ==
    \A p \in Syncs : \A m \in sess[p].flushed : \A k \in KeysOf(m) : sess[p].work[k].count # 0

BehindNext ==
    \A p \in Syncs :
        /\ sync[p].at \in {"idle", "listing"} => sync[p].next = 1
        /\ sync[p].at = "running" =>
             \A i \in 1..Len(sync[p].ids) :
                 i < sync[p].next => sync[p].ids[i] \in messages \cup sess[p].flushed

IInv ==
    /\ TypeOK
    /\ LoadedExist
    /\ FlushedHaveParents
    /\ StoredHaveParents
    /\ BehindNext
    /\ ListedIsStored

-----------------------------------------------------------------------------
(* The rows and the session operators.                                      *)

\* A message has a thread, and a sender when it names one.
LEMMA KeysAreKeys == ASSUME NEW m \in Msgs PROVE KeysOf(m) \subseteq Keys
  BY HeaderAssumption, KeyAssumption DEF KeysOf, Keys

\* What is not in a table yet is a row like any other.
LEMMA EmptyRowIsRow == NoRow \in Row
  BY DEF NoRow, Row, Dates

\* A session that holds nothing is a session.
LEMMA CleanSessionIsSession == CleanSession \in Session
  BY EmptyRowIsRow DEF CleanSession, Session

\* A sync that lists nothing yet is a sync, at rest or started.
LEMMA IdleSyncIsSync ==
    IdleSync \in Sync /\ [IdleSync EXCEPT !.at = "listing"] \in Sync
<1>1. <<>> \in Seq(Msgs) /\ 1 \in Nat \ {0} /\ 0 \in 0..BatchSize
  BY SizeAssumption, EmptySeq
<1>2. QED
  BY <1>1 DEF IdleSync, Sync

\* The row a write-back leaves is a row, and it exists: either the session
\* writes its count, or the one it loaded is still there.
LEMMA MergeIsRow ==
    ASSUME TypeOK, NEW s \in Session, NEW k \in Keys
    PROVE  /\ Merge(s, k) \in Row
           /\ k \in Touched(s) /\ (s.loaded[k].count # 0 => rows[k].count # 0)
                => Merge(s, k).count # 0
<1>1. s.work[k] \in Row /\ s.loaded[k] \in Row /\ rows[k] \in Row
  BY DEF Session, TypeOK
<1>2. QED
  BY <1>1 DEF Merge, Written, Row, Touched

\* A commit changes rows into rows.
LEMMA MergedIsRows ==
    ASSUME TypeOK, NEW s \in Session PROVE Merged(s) \in [Keys -> Row]
  BY MergeIsRow DEF Merged, TypeOK

\* A flush leaves the session one.
LEMMA FlushIsSession ==
    ASSUME TypeOK, NEW s \in Session PROVE Flush(s) \in Session
<1>1. [k \in Keys |-> IF k \in Touched(s) THEN Merge(s, k) ELSE NoRow] \in [Keys -> Row]
  BY MergeIsRow, EmptyRowIsRow
<1>2. [k \in Keys |-> IF k \in Touched(s) THEN rows[k] ELSE NoRow] \in [Keys -> Row]
  BY EmptyRowIsRow DEF TypeOK
<1>3. QED
  BY <1>1, <1>2 DEF Flush, Session

\* A message more on a row: still a row, and one that exists.
LEMMA BumpIsRow ==
    ASSUME NEW k \in Keys, NEW r \in Row, NEW d \in Dates
    PROVE  Bump(k, r, d) \in Row /\ Bump(k, r, d).count # 0
  BY DEF Bump, Row

\* What an upsert leaves in the session, column by column.
LEMMA UpsertRowsIs ==
    ASSUME TypeOK, NEW s \in Session, NEW m \in Msgs
    PROVE  /\ UpsertRows(s, m) \in Session
           /\ UpsertRows(s, m).flushed = s.flushed
           /\ \A k \in Keys :
                /\ k \in KeysOf(m) => UpsertRows(s, m).work[k].count # 0
                /\ k \notin KeysOf(m) => UpsertRows(s, m).work[k] = s.work[k]
                /\ \/ UpsertRows(s, m).loaded[k] = s.loaded[k]
                   \/ UpsertRows(s, m).loaded[k] = rows[k]
<1> DEFINE ks == KeysOf(m)
           read == [k \in ks |-> IF Visible(s, k) THEN s.work[k] ELSE rows[k]]
           w == [k \in Keys |-> IF k \in ks THEN Bump(k, read[k], DateOf[m]) ELSE s.work[k]]
           l == [k \in Keys |-> IF k \in ks /\ ~Visible(s, k) THEN rows[k] ELSE s.loaded[k]]
           f == s.fresh \cup {k \in ks : read[k].count = 0}
<1>1. ks \subseteq Keys
  BY KeysAreKeys
<1>2. DateOf[m] \in Dates
  BY HeaderAssumption DEF Dates
<1>3. \A k \in ks : read[k] \in Row
  BY <1>1 DEF Session, TypeOK
<1>4. \A k \in ks : Bump(k, read[k], DateOf[m]) \in Row
                    /\ Bump(k, read[k], DateOf[m]).count # 0
  <2> HIDE DEF ks, read
  <2> QED BY <1>1, <1>2, <1>3, BumpIsRow
<1>5. w \in [Keys -> Row] /\ l \in [Keys -> Row] /\ f \subseteq Keys
  <2>1. s.work \in [Keys -> Row] /\ s.loaded \in [Keys -> Row] /\ s.fresh \subseteq Keys
    BY DEF Session
  <2>2. rows \in [Keys -> Row]
    BY DEF TypeOK
  <2> HIDE DEF ks, read
  <2> QED BY <1>1, <1>4, <2>1, <2>2
<1>6. UpsertRows(s, m) = [s EXCEPT !.work = w, !.loaded = l, !.fresh = f]
  BY DEF UpsertRows, Session
<1>7. UpsertRows(s, m) = [flushed |-> s.flushed, work |-> w, loaded |-> l, fresh |-> f]
  <2> HIDE DEF w, l, f
  <2> QED BY <1>6 DEF Session
<1>8. UpsertRows(s, m) \in Session
  <2>1. s.flushed \subseteq Msgs
    BY DEF Session
  <2> HIDE DEF w, l, f
  <2> QED BY <1>5, <1>7, <2>1 DEF Session
<1>9. ASSUME NEW k \in Keys
      PROVE  /\ k \in ks => w[k].count # 0
             /\ k \notin ks => w[k] = s.work[k]
             /\ l[k] = s.loaded[k] \/ l[k] = rows[k]
  <2> HIDE DEF ks, read
  <2> QED BY <1>4
<1>10. QED
  <2> HIDE DEF w, l, f
  <2> QED BY <1>7, <1>8, <1>9

-----------------------------------------------------------------------------
(* Type correctness.                                                        *)

\* A page of the listing is a list of messages.
LEMMA PageIsList ==
    ASSUME TypeOK, NEW S \in SUBSET inbox, NEW list \in DescendingLists(S)
    PROVE  list \in Seq(Msgs)
<1>1. S \subseteq 1..arrived /\ arrived \in Nat /\ S \subseteq Msgs
  BY MessagesAssumption DEF TypeOK, Msgs
<1>2. IsFiniteSet(S)
  <2>1. IsFiniteSet(1..arrived)
    BY <1>1, FS_Interval
  <2>2. QED
    BY <1>1, <2>1, FS_Subset
<1>3. Cardinality(S) \in Nat
  BY <1>2, FS_CardinalityType
<1>4. list \in [1..Cardinality(S) -> S]
  BY DEF DescendingLists
<1>5. list \in [1..Cardinality(S) -> Msgs]
  BY <1>1, <1>4
<1>6. QED
  BY <1>3, <1>5

\* What list_since asks for next is still in the inbox.
LEMMA PageIsInInbox ==
    ASSUME NEW ids PROVE Newest(Older(ids), PageLimit(ids)) \subseteq inbox
  BY DEF Newest, Older

\* Listing a page leaves a sync record, and touches its list and place only.
LEMMA ListPageIs ==
    ASSUME TypeOK, NEW p \in Syncs, ListPage(p)
    PROVE  /\ \E ids \in Seq(Msgs), at \in {"listing", "running"} :
                 sync' = [sync EXCEPT ![p] = [@ EXCEPT !.ids = ids, !.at = at]]
           /\ sync' \in [Syncs -> Sync]
<1> DEFINE page == Newest(Older(sync[p].ids), PageLimit(sync[p].ids))
<1>1. sync[p] \in Sync /\ sync[p].ids \in Seq(Msgs)
  BY DEF TypeOK, Sync
<1>2. PICK list \in DescendingLists(page) :
         sync' = [sync EXCEPT ![p].ids = sync[p].ids \o list,
                   ![p].at = IF page # Older(sync[p].ids) /\ Len(sync[p].ids \o list) < MaxResults
                             THEN "listing" ELSE "running"]
  BY DEF ListPage
<1>3. list \in Seq(Msgs)
  <2>1. page \in SUBSET inbox
    BY PageIsInInbox
  <2> HIDE DEF page
  <2> QED BY <2>1, PageIsList
<1>4. PICK at \in {"listing", "running"} :
         sync' = [sync EXCEPT ![p].ids = sync[p].ids \o list, ![p].at = at]
  BY <1>2
<1>5. sync[p].ids \o list \in Seq(Msgs)
  BY <1>1, <1>3, ConcatProperties
<1>6. sync' = [sync EXCEPT ![p] = [@ EXCEPT !.ids = sync[p].ids \o list, !.at = at]]
  BY <1>4 DEF TypeOK
<1>7. [sync[p] EXCEPT !.ids = sync[p].ids \o list, !.at = at] \in Sync
  BY <1>1, <1>5 DEF Sync
<1>8. QED
  BY <1>5, <1>6, <1>7 DEF TypeOK

\* The place of the loop moves on within the batch.
LEMMA AdvanceIs ==
    ASSUME TypeOK, NEW p \in Syncs, sync[p].pending < BatchSize
    PROVE  /\ Advance(p) \in [Syncs -> Sync]
           /\ \A q \in Syncs : q # p => Advance(p)[q] = sync[q]
           /\ Advance(p)[p].at = sync[p].at
           /\ Advance(p)[p].ids = sync[p].ids
           /\ Advance(p)[p].next = sync[p].next + 1
<1>1. sync[p] \in Sync /\ sync \in [Syncs -> Sync]
  BY DEF TypeOK
<1>2. PICK n \in Nat \ {0}, c \in 0..BatchSize : n = sync[p].next + 1 /\ c = sync[p].pending + 1
  BY <1>1, SizeAssumption DEF Sync
<1> DEFINE r == [sync[p] EXCEPT !.next = n, !.pending = c]
<1>3. r \in Sync /\ r.at = sync[p].at /\ r.ids = sync[p].ids /\ r.next = n
  BY <1>1 DEF Sync
<1>4. Advance(p) = [sync EXCEPT ![p] = r]
  BY <1>1, <1>2, Zenon DEF Advance
<1>5. QED
  <2> HIDE DEF r
  <2> QED BY <1>1, <1>2, <1>3, <1>4

\* The message the loop looks at was listed.
LEMMA NextIsMessage ==
    ASSUME TypeOK, NEW p \in Syncs, sync[p].next <= Len(sync[p].ids)
    PROVE  sync[p].ids[sync[p].next] \in Msgs
  BY DEF TypeOK, Sync

\* The session once a new message is flushed: with the message it holds what it
\* held, written back, and it has loaded rows that exist or nothing.
LEMMA FlushedWithIs ==
    ASSUME TypeOK, NEW s \in Session, NEW m \in Msgs
    PROVE  /\ FlushedWith(s, m) \in Session
           /\ FlushedWith(s, m).flushed = s.flushed \cup {m}
           /\ \A k \in Keys : k \in Touched(s) => FlushedWith(s, m).work[k] = Merge(s, k)
           /\ \A k \in Keys : \/ FlushedWith(s, m).loaded[k] = rows[k]
                              \/ FlushedWith(s, m).loaded[k].count = 0
<1> DEFINE w == [k \in Keys |-> IF k \in Touched(s) THEN Merge(s, k) ELSE NoRow]
           l == [k \in Keys |-> IF k \in Touched(s) THEN rows[k] ELSE NoRow]
<1>1. w \in [Keys -> Row] /\ l \in [Keys -> Row]
  BY MergeIsRow, EmptyRowIsRow DEF TypeOK
<1>2. Flush(s) = [s EXCEPT !.work = w, !.loaded = l, !.fresh = {}]
  BY DEF Flush, Session
<1>3. Flush(s) \in Session /\ Flush(s).flushed = s.flushed
      /\ Flush(s).work = w /\ Flush(s).loaded = l
  <2> HIDE DEF w, l
  <2> QED BY <1>1, <1>2 DEF Session
<1>4. s.flushed \cup {m} \subseteq Msgs
  BY DEF Session
<1>5. /\ FlushedWith(s, m) \in Session
      /\ FlushedWith(s, m).flushed = s.flushed \cup {m}
      /\ FlushedWith(s, m).work = w
      /\ FlushedWith(s, m).loaded = l
  <2> HIDE DEF w, l
  <2> QED BY <1>3, <1>4 DEF Session, FlushedWith
<1>6. \A k \in Keys : /\ k \in Touched(s) => w[k] = Merge(s, k)
                     /\ (l[k] = rows[k] \/ l[k].count = 0)
  BY DEF NoRow
<1>7. QED
  <2>1. \A k \in Keys : k \in Touched(s) => FlushedWith(s, m).work[k] = Merge(s, k)
    BY <1>5, <1>6, Zenon
  <2>2. \A k \in Keys : \/ FlushedWith(s, m).loaded[k] = rows[k]
                       \/ FlushedWith(s, m).loaded[k].count = 0
    BY <1>5, <1>6, Zenon
  <2>3. QED
    BY <1>5, <2>1, <2>2, Zenon

\* The session of a sync after a new message.
LEMMA UpsertNewSession ==
    ASSUME TypeOK, NEW p \in Syncs, UpsertNew(p)
    PROVE  \E m \in Msgs :
             /\ m = sync[p].ids[sync[p].next]
             /\ sess' = [sess EXCEPT ![p] = UpsertRows(FlushedWith(sess[p], m), m)]
<1>1. sync[p].ids[sync[p].next] \in Msgs
  BY NextIsMessage DEF UpsertNew
<1>2. QED
  BY <1>1, Zenon DEF UpsertNew

\* Before anything has happened every variable has its type.
LEMMA InitTypeOK == Init => TypeOK
<1> SUFFICES ASSUME Init PROVE TypeOK
  OBVIOUS
<1>1. rows \in [Keys -> Row] /\ sync \in [Syncs -> Sync] /\ sess \in [Syncs -> Session]
  BY IdleSyncIsSync, EmptyRowIsRow, CleanSessionIsSession DEF Init
<1>2. arrived \in 0..NumMessages /\ starts \in 0..MaxStarts
  BY MessagesAssumption, SizeAssumption DEF Init
<1>3. lock \in Syncs \cup {NoSync} /\ overlapped \in BOOLEAN
      /\ inbox \subseteq 1..arrived /\ messages \subseteq Msgs
  BY DEF Init
<1>4. QED
  BY <1>1, <1>2, <1>3 DEF TypeOK

\* Every step keeps every variable in its type.
LEMMA NextTypeOK == TypeOK /\ [Next]_vars => TypeOK'
<1> SUFFICES ASSUME TypeOK, [Next]_vars PROVE TypeOK'
  OBVIOUS
<1>1. CASE Arrive
  BY <1>1, MessagesAssumption DEF TypeOK, Arrive
<1>2. ASSUME NEW m \in inbox, Leave(m) PROVE TypeOK'
  BY <1>2 DEF TypeOK, Leave
<1>3. ASSUME NEW p \in Syncs, Start(p) PROVE TypeOK'
  BY <1>3, IdleSyncIsSync, SizeAssumption DEF TypeOK, Start
<1>4. ASSUME NEW p \in Syncs, ListPage(p) PROVE TypeOK'
  <2>1. sync' \in [Syncs -> Sync]
    BY <1>4, ListPageIs
  <2>2. QED
    BY <1>4, <2>1 DEF TypeOK, ListPage
<1>5. ASSUME NEW p \in Syncs, UpsertNew(p) PROVE TypeOK'
  <2>1. sync' \in [Syncs -> Sync]
    BY <1>5, AdvanceIs DEF UpsertNew
  <2>2. sess' \in [Syncs -> Session]
    <3>1. PICK m \in Msgs :
             sess' = [sess EXCEPT ![p] = UpsertRows(FlushedWith(sess[p], m), m)]
      BY <1>5, UpsertNewSession
    <3>2. UpsertRows(FlushedWith(sess[p], m), m) \in Session
      BY FlushedWithIs, UpsertRowsIs DEF TypeOK
    <3>3. QED
      BY <3>1, <3>2 DEF TypeOK
  <2>3. QED
    BY <1>5, <2>1, <2>2 DEF TypeOK, UpsertNew
<1>6. ASSUME NEW p \in Syncs, UpsertExisting(p) PROVE TypeOK'
  <2>1. sync' \in [Syncs -> Sync]
    BY <1>6, AdvanceIs DEF UpsertExisting
  <2>2. sync[p].ids[sync[p].next] \in Msgs /\ sess[p] \in Session
    BY <1>6, NextIsMessage DEF UpsertExisting, TypeOK
  <2>3. sess' \in [Syncs -> Session]
    BY <1>6, <2>2, UpsertRowsIs DEF TypeOK, UpsertExisting
  <2>4. QED
    BY <1>6, <2>1, <2>3 DEF TypeOK, UpsertExisting
<1>7. ASSUME NEW p \in Syncs, Commit(p) PROVE TypeOK'
  <2>1. sess[p] \in Session /\ sync[p] \in Sync
    BY DEF TypeOK
  <2>2. rows' \in [Keys -> Row]
    BY <1>7, <2>1, MergedIsRows DEF Commit
  <2>3. [sync[p] EXCEPT !.pending = 0, !.at = IF AtEnd(p) THEN "done" ELSE @] \in Sync
    <3>1. 0 \in 0..BatchSize
      BY SizeAssumption
    <3>2. QED
      BY <2>1, <3>1 DEF Sync
  <2>4. sync' \in [Syncs -> Sync]
    BY <1>7, <2>3 DEF Commit, TypeOK
  <2>5. sess' \in [Syncs -> Session]
    BY <1>7, CleanSessionIsSession DEF Commit, TypeOK
  <2>6. messages' \subseteq Msgs
    BY <1>7, <2>1 DEF Commit, TypeOK, Session
  <2>7. QED
    BY <1>7, <2>2, <2>4, <2>5, <2>6 DEF TypeOK, Commit
<1>8. ASSUME NEW p \in Syncs, Fail(p) PROVE TypeOK'
  <2>1. [sync[p] EXCEPT !.at = "failed"] \in Sync
    BY DEF TypeOK, Sync
  <2>2. QED
    BY <1>8, <2>1, CleanSessionIsSession DEF TypeOK, Fail
<1>9. ASSUME NEW p \in Syncs, Settle(p) PROVE TypeOK'
  BY <1>9, IdleSyncIsSync DEF TypeOK, Settle
<1>10. CASE UNCHANGED vars
  BY <1>10 DEF TypeOK, vars
<1>11. QED
  BY <1>1, <1>2, <1>3, <1>4, <1>5, <1>6, <1>7, <1>8, <1>9, <1>10 DEF Next, SyncStep

\* Whatever syncs run, overlap or fail, every variable keeps its type.
THEOREM TypeCorrect == Spec => []TypeOK
<1>1. Init => TypeOK
  BY InitTypeOK
<1>2. TypeOK /\ [Next]_vars => TypeOK'
  BY NextTypeOK
<1>3. QED
  BY <1>1, <1>2, PTL DEF Spec

-----------------------------------------------------------------------------
(* The inductive invariant.                                                 *)

\* A commit deletes no row and leaves one for whatever the session has in hand.
LEMMA CommitKeepsRows ==
    ASSUME TypeOK, LoadedExist, NEW p \in Syncs, NEW k \in Keys,
           rows[k].count # 0 \/ sess[p].work[k].count # 0
    PROVE  Merged(sess[p])[k].count # 0
<1>1. sess[p] \in Session
  BY DEF TypeOK
<1>2. CASE k \in Touched(sess[p])
  <2>1. Merged(sess[p])[k] = Merge(sess[p], k)
    BY <1>2 DEF Merged
  <2>2. QED
    BY <1>1, <1>2, <2>1, MergeIsRow DEF LoadedExist
<1>3. CASE k \notin Touched(sess[p])
  BY <1>3 DEF Touched, Merged
<1>4. QED
  BY <1>2, <1>3

\* Initially there is nothing to be stored, listed or loaded.
LEMMA InitInv == Init => IInv
<1> SUFFICES ASSUME Init PROVE IInv
  OBVIOUS
<1>1. TypeOK
  BY InitTypeOK
<1>2. \A p \in Syncs : /\ sess[p].flushed = {}
                      /\ \A k \in Keys : sess[p].loaded[k].count = 0
  BY DEF Init, CleanSession, NoRow
<1>3. \A p \in Syncs : sync[p].at = "idle" /\ sync[p].next = 1
  BY DEF Init, IdleSync
<1>4. messages = {}
  BY DEF Init
<1>5. QED
  BY <1>1, <1>2, <1>3, <1>4
  DEF IInv, LoadedExist, FlushedHaveParents, StoredHaveParents, BehindNext, ListedIsStored

\* The part of IInv that is about the tables and the sessions.
Parents == LoadedExist /\ FlushedHaveParents /\ StoredHaveParents

\* A sync that takes m on, with the session s as it is before the thread and
\* sender upserts, keeps every row it needs in hand.
LEMMA UpsertKeepsParents ==
    ASSUME TypeOK, Parents, NEW p \in Syncs, NEW m \in Msgs, NEW s \in Session,
           sess' = [sess EXCEPT ![p] = UpsertRows(s, m)],
           UNCHANGED <<rows, messages>>,
           s.flushed \subseteq sess[p].flushed \cup {m},
           \A k \in Keys : sess[p].work[k].count # 0 => s.work[k].count # 0,
           \A k \in Keys : s.loaded[k].count # 0 => rows[k].count # 0
    PROVE  Parents'
<1> DEFINE u == UpsertRows(s, m)
<1>1. /\ u.flushed = s.flushed
      /\ \A k \in Keys :
           /\ k \in KeysOf(m) => u.work[k].count # 0
           /\ k \notin KeysOf(m) => u.work[k] = s.work[k]
           /\ u.loaded[k] = s.loaded[k] \/ u.loaded[k] = rows[k]
  BY UpsertRowsIs
<1>2. /\ sess'[p] = u
      /\ \A q \in Syncs : q # p => sess'[q] = sess[q]
  BY DEF TypeOK
<1>3. \A k \in Keys : u.loaded[k].count # 0 => rows[k].count # 0
  BY <1>1
<1>4. ASSUME NEW n \in u.flushed, NEW k \in KeysOf(n) PROVE u.work[k].count # 0
  <2>1. n \in Msgs /\ (n = m \/ n \in sess[p].flushed)
    BY <1>1 DEF TypeOK, Session
  <2>2. k \in Keys
    BY <2>1, KeysAreKeys
  <2>3. CASE k \in KeysOf(m)
    BY <1>1, <2>2, <2>3
  <2>4. CASE k \notin KeysOf(m)
    <3>1. n \in sess[p].flushed
      BY <2>1, <2>4
    <3>2. sess[p].work[k].count # 0
      BY <3>1 DEF Parents, FlushedHaveParents
    <3>3. QED
      BY <1>1, <2>2, <2>4, <3>2
  <2>5. QED
    BY <2>3, <2>4
<1> HIDE DEF u
<1>5. LoadedExist'
  BY <1>2, <1>3 DEF Parents, LoadedExist
<1>6. FlushedHaveParents'
  BY <1>2, <1>4 DEF Parents, FlushedHaveParents, KeysOf
<1>7. StoredHaveParents'
  BY DEF Parents, StoredHaveParents, KeysOf
<1>8. QED
  BY <1>5, <1>6, <1>7 DEF Parents

\* Every step keeps the rows that messages need, in the tables and in sessions.
LEMMA NextParents == TypeOK /\ Parents /\ [Next]_vars => Parents'
<1> SUFFICES ASSUME TypeOK, Parents, [Next]_vars PROVE Parents'
  OBVIOUS
<1>1. ASSUME UNCHANGED <<rows, messages, sess>> PROVE Parents'
  BY <1>1 DEF Parents, LoadedExist, FlushedHaveParents, StoredHaveParents, KeysOf
<1>2. ASSUME NEW p \in Syncs, UpsertNew(p) PROVE Parents'
  <2>1. PICK m \in Msgs : sess' = [sess EXCEPT ![p] = UpsertRows(FlushedWith(sess[p], m), m)]
    BY <1>2, UpsertNewSession
  <2> DEFINE s == FlushedWith(sess[p], m)
  <2>2. /\ s \in Session
        /\ s.flushed = sess[p].flushed \cup {m}
        /\ \A k \in Keys : k \in Touched(sess[p]) => s.work[k] = Merge(sess[p], k)
        /\ \A k \in Keys : s.loaded[k] = rows[k] \/ s.loaded[k].count = 0
    BY FlushedWithIs DEF TypeOK
  <2> HIDE DEF s
  <2>3. \A k \in Keys : sess[p].work[k].count # 0 => s.work[k].count # 0
    <3> SUFFICES ASSUME NEW k \in Keys, sess[p].work[k].count # 0 PROVE s.work[k].count # 0
      OBVIOUS
    <3>1. k \in Touched(sess[p]) /\ sess[p] \in Session
      BY DEF Touched, TypeOK
    <3>2. Merge(sess[p], k).count # 0
      BY <3>1, MergeIsRow DEF Parents, LoadedExist
    <3>3. QED
      BY <2>2, <3>1, <3>2
  <2>4. \A k \in Keys : s.loaded[k].count # 0 => rows[k].count # 0
    BY <2>2
  <2>5. UNCHANGED <<rows, messages>>
    BY <1>2 DEF UpsertNew
  <2>6. sess' = [sess EXCEPT ![p] = UpsertRows(s, m)]
    BY <2>1 DEF s
  <2>7. QED
    BY <2>2, <2>3, <2>4, <2>5, <2>6, UpsertKeepsParents
<1>3. ASSUME NEW p \in Syncs, UpsertExisting(p) PROVE Parents'
  <2>1. PICK m \in Msgs : sess' = [sess EXCEPT ![p] = UpsertRows(sess[p], m)]
    BY <1>3, NextIsMessage, Zenon DEF UpsertExisting
  <2>2. sess[p] \in Session /\ UNCHANGED <<rows, messages>>
    BY <1>3 DEF TypeOK, UpsertExisting
  <2>3. \A k \in Keys : sess[p].loaded[k].count # 0 => rows[k].count # 0
    BY DEF Parents, LoadedExist
  <2>4. QED
    BY <2>1, <2>2, <2>3, UpsertKeepsParents
<1>4. ASSUME NEW p \in Syncs, Commit(p) PROVE Parents'
  <2>1. /\ rows' = Merged(sess[p])
        /\ messages' = messages \cup sess[p].flushed
        /\ sess' = [sess EXCEPT ![p] = CleanSession]
    BY <1>4 DEF Commit
  <2>2. \A k \in Keys : rows[k].count # 0 \/ sess[p].work[k].count # 0 => rows'[k].count # 0
    BY <2>1, CommitKeepsRows DEF Parents
  <2>3. sess'[p] = CleanSession /\ \A q \in Syncs : q # p => sess'[q] = sess[q]
    BY <2>1 DEF TypeOK
  <2>4. LoadedExist'
    BY <2>2, <2>3 DEF Parents, LoadedExist, CleanSession, NoRow
  <2>5. FlushedHaveParents'
    BY <2>3 DEF Parents, FlushedHaveParents, CleanSession, KeysOf
  <2>6. ASSUME NEW m \in messages', NEW k \in KeysOf(m) PROVE rows'[k].count # 0
    <3>1. m \in Msgs /\ (m \in messages \/ m \in sess[p].flushed)
      BY <2>1 DEF TypeOK, Session
    <3>2. k \in Keys
      BY <3>1, KeysAreKeys
    <3>3. QED
      BY <2>2, <3>1, <3>2 DEF Parents, StoredHaveParents, FlushedHaveParents
  <2>7. QED
    BY <2>4, <2>5, <2>6 DEF Parents, StoredHaveParents, KeysOf
<1>5. ASSUME NEW p \in Syncs, Fail(p) PROVE Parents'
  <2>1. UNCHANGED <<rows, messages>> /\ sess' = [sess EXCEPT ![p] = CleanSession]
    BY <1>5 DEF Fail
  <2>2. sess'[p] = CleanSession /\ \A q \in Syncs : q # p => sess'[q] = sess[q]
    BY <2>1 DEF TypeOK
  <2>3. LoadedExist'
    BY <2>1, <2>2 DEF Parents, LoadedExist, CleanSession, NoRow
  <2>4. FlushedHaveParents' /\ StoredHaveParents'
    BY <2>1, <2>2 DEF Parents, FlushedHaveParents, StoredHaveParents, CleanSession, KeysOf
  <2>5. QED
    BY <2>3, <2>4 DEF Parents
<1>6. ASSUME NEW p \in Syncs, Start(p) \/ ListPage(p) \/ Settle(p) PROVE Parents'
  BY <1>1, <1>6 DEF Start, ListPage, Settle
<1>7. CASE Arrive \/ \E m \in inbox : Leave(m)
  BY <1>1, <1>7 DEF Arrive, Leave
<1>8. CASE UNCHANGED vars
  BY <1>1, <1>8 DEF vars
<1>9. QED
  BY <1>2, <1>3, <1>4, <1>5, <1>6, <1>7, <1>8 DEF Next, SyncStep

\* The part of IInv that is about the loop.
Loop == BehindNext /\ ListedIsStored

\* A sync that takes the next message of its list on, flushed or stored, leaves
\* it behind.
LEMMA AdvanceKeepsLoop ==
    ASSUME TypeOK, Loop, NEW p \in Syncs, sync' = Advance(p), UNCHANGED messages,
           sync[p].at = "running", sync[p].pending < BatchSize,
           sync[p].next <= Len(sync[p].ids),
           sess[p].flushed \subseteq sess'[p].flushed,
           sync[p].ids[sync[p].next] \in messages \cup sess'[p].flushed,
           \A q \in Syncs : q # p => sess'[q] = sess[q]
    PROVE  Loop'
<1>1. /\ \A q \in Syncs : q # p => sync'[q] = sync[q]
      /\ sync'[p].at = "running"
      /\ sync'[p].ids = sync[p].ids
      /\ sync'[p].next = sync[p].next + 1
  BY AdvanceIs
<1>2. sync[p].next \in Nat /\ Len(sync[p].ids) \in Nat
  BY LenProperties DEF TypeOK, Sync
<1>3. ASSUME NEW i \in 1..Len(sync[p].ids), i < sync[p].next + 1
      PROVE  sync[p].ids[i] \in messages \cup sess'[p].flushed
  <2>1. CASE i = sync[p].next
    BY <2>1
  <2>2. CASE i < sync[p].next
    BY <2>2 DEF Loop, BehindNext
  <2>3. QED
    BY <1>2, <1>3, <2>1, <2>2
<1>4. BehindNext'
  <2> SUFFICES ASSUME NEW q \in Syncs
               PROVE  /\ sync'[q].at \in {"idle", "listing"} => sync'[q].next = 1
                      /\ sync'[q].at = "running" =>
                           \A i \in 1..Len(sync'[q].ids) :
                               i < sync'[q].next =>
                                 sync'[q].ids[i] \in messages' \cup sess'[q].flushed
    BY DEF BehindNext
  <2>1. CASE q = p
    BY <1>1, <1>3, <2>1
  <2>2. CASE q # p
    BY <1>1, <2>2 DEF Loop, BehindNext
  <2>3. QED
    BY <2>1, <2>2
<1>5. ListedIsStored'
  BY <1>1 DEF Loop, ListedIsStored
<1>6. QED
  BY <1>4, <1>5 DEF Loop

\* Every step keeps what the loop has passed committed or flushed.
LEMMA NextLoop == TypeOK /\ Loop /\ [Next]_vars => Loop'
<1> SUFFICES ASSUME TypeOK, Loop, [Next]_vars PROVE Loop'
  OBVIOUS
<1>1. ASSUME UNCHANGED <<sync, messages, sess>> PROVE Loop'
  BY <1>1 DEF Loop, BehindNext, ListedIsStored
<1>2. ASSUME NEW p \in Syncs, UpsertNew(p) PROVE Loop'
  <2>1. PICK m \in Msgs :
           /\ m = sync[p].ids[sync[p].next]
           /\ sess' = [sess EXCEPT ![p] = UpsertRows(FlushedWith(sess[p], m), m)]
    BY <1>2, UpsertNewSession
  <2>2. sess'[p] = UpsertRows(FlushedWith(sess[p], m), m)
        /\ \A q \in Syncs : q # p => sess'[q] = sess[q]
    BY <2>1 DEF TypeOK
  <2>3. FlushedWith(sess[p], m) \in Session
        /\ FlushedWith(sess[p], m).flushed = sess[p].flushed \cup {m}
    BY FlushedWithIs DEF TypeOK
  <2>4. sess'[p].flushed = sess[p].flushed \cup {m}
    BY <2>2, <2>3, UpsertRowsIs
  <2>5. /\ sync' = Advance(p) /\ UNCHANGED messages
        /\ sync[p].at = "running" /\ sync[p].pending < BatchSize
        /\ sync[p].next <= Len(sync[p].ids)
    BY <1>2 DEF UpsertNew
  <2>6. QED
    BY <2>1, <2>2, <2>4, <2>5, AdvanceKeepsLoop
<1>3. ASSUME NEW p \in Syncs, UpsertExisting(p) PROVE Loop'
  <2>1. PICK m \in Msgs :
           /\ m = sync[p].ids[sync[p].next]
           /\ m \in messages \cup sess[p].flushed
           /\ sess' = [sess EXCEPT ![p] = UpsertRows(sess[p], m)]
    BY <1>3, NextIsMessage, Zenon DEF UpsertExisting
  <2>2. sess'[p] = UpsertRows(sess[p], m) /\ \A q \in Syncs : q # p => sess'[q] = sess[q]
    BY <2>1 DEF TypeOK
  <2>3. sess[p] \in Session
    BY DEF TypeOK
  <2>4. sess'[p].flushed = sess[p].flushed
    BY <2>2, <2>3, UpsertRowsIs
  <2>5. /\ sync' = Advance(p) /\ UNCHANGED messages
        /\ sync[p].at = "running" /\ sync[p].pending < BatchSize
        /\ sync[p].next <= Len(sync[p].ids)
    BY <1>3 DEF UpsertExisting
  <2>6. QED
    BY <2>1, <2>2, <2>4, <2>5, AdvanceKeepsLoop
<1>4. ASSUME NEW p \in Syncs, Commit(p) PROVE Loop'
  <2>1. /\ sync[p].at = "running"
        /\ messages' = messages \cup sess[p].flushed
        /\ sess' = [sess EXCEPT ![p] = CleanSession]
        /\ sync' = [sync EXCEPT ![p].pending = 0, ![p].at = IF AtEnd(p) THEN "done" ELSE @]
    BY <1>4 DEF Commit
  <2>2. \A q \in Syncs : q # p => sess'[q] = sess[q] /\ sync'[q] = sync[q]
    BY <2>1 DEF TypeOK
  <2>3. /\ sync'[p].at = IF AtEnd(p) THEN "done" ELSE "running"
        /\ sync'[p].ids = sync[p].ids
        /\ sync'[p].next = sync[p].next
    BY <2>1 DEF TypeOK, Sync
  <2>4. /\ messages \subseteq messages'
        /\ \A i \in 1..Len(sync[p].ids) : i < sync[p].next => sync[p].ids[i] \in messages'
    BY <2>1 DEF Loop, BehindNext
  <2>5. BehindNext'
    <3> SUFFICES ASSUME NEW q \in Syncs
                 PROVE  /\ sync'[q].at \in {"idle", "listing"} => sync'[q].next = 1
                        /\ sync'[q].at = "running" =>
                             \A i \in 1..Len(sync'[q].ids) :
                                 i < sync'[q].next =>
                                   sync'[q].ids[i] \in messages' \cup sess'[q].flushed
      BY DEF BehindNext
    <3>1. CASE q = p
      BY <2>3, <2>4, <3>1
    <3>2. CASE q # p
      BY <2>2, <2>4, <3>2 DEF Loop, BehindNext
    <3>3. QED
      BY <3>1, <3>2
  <2>6. ASSUME NEW q \in Syncs, sync'[q].at = "done", NEW i \in DOMAIN sync'[q].ids
        PROVE  sync'[q].ids[i] \in messages'
    <3>1. CASE q = p
      <4>1. AtEnd(p) /\ i \in DOMAIN sync[p].ids
        BY <2>3, <2>6, <3>1
      <4>2. sync[p].ids \in Seq(Msgs) /\ sync[p].next \in Nat
        BY DEF TypeOK, Sync
      <4>3. Len(sync[p].ids) \in Nat /\ DOMAIN sync[p].ids = 1..Len(sync[p].ids)
        BY <4>2, LenProperties
      <4>4. i \in 1..Len(sync[p].ids) /\ i < sync[p].next
        BY <4>1, <4>2, <4>3 DEF AtEnd
      <4>5. QED
        BY <2>3, <2>4, <3>1, <4>4
    <3>2. CASE q # p
      BY <2>2, <2>4, <2>6, <3>2 DEF Loop, ListedIsStored
    <3>3. QED
      BY <3>1, <3>2
  <2>7. QED
    BY <2>5, <2>6 DEF Loop, ListedIsStored
<1>5. ASSUME NEW p \in Syncs, Start(p) \/ Settle(p) PROVE Loop'
  <2>1. /\ UNCHANGED <<messages, sess>>
        /\ \A q \in Syncs : q # p => sync'[q] = sync[q]
        /\ sync'[p].at \in {"idle", "listing"} /\ sync'[p].next = 1
    BY <1>5 DEF Start, Settle, IdleSync, TypeOK
  <2>2. QED
    BY <2>1 DEF Loop, BehindNext, ListedIsStored
<1>6. ASSUME NEW p \in Syncs, ListPage(p) PROVE Loop'
  <2>1. UNCHANGED <<messages, sess>> /\ sync[p].at = "listing"
    BY <1>6 DEF ListPage
  <2>2. PICK ids \in Seq(Msgs), at \in {"listing", "running"} :
           sync' = [sync EXCEPT ![p] = [@ EXCEPT !.ids = ids, !.at = at]]
    BY <1>6, ListPageIs
  <2>3. /\ sync'[p].at = at /\ sync'[p].ids = ids /\ sync'[p].next = sync[p].next
        /\ \A q \in Syncs : q # p => sync'[q] = sync[q]
    BY <2>2 DEF TypeOK, Sync
  <2>4. sync'[p].next = 1 /\ sync'[p].at # "done"
    BY <2>1, <2>3 DEF Loop, BehindNext
  <2>5. BehindNext'
    BY <2>1, <2>3, <2>4 DEF Loop, BehindNext
  <2>6. ListedIsStored'
    BY <2>1, <2>3, <2>4 DEF Loop, ListedIsStored
  <2>7. QED
    BY <2>5, <2>6 DEF Loop
<1>7. ASSUME NEW p \in Syncs, Fail(p) PROVE Loop'
  <2>1. /\ UNCHANGED messages
        /\ \A q \in Syncs : q # p => sync'[q] = sync[q] /\ sess'[q] = sess[q]
        /\ sync'[p].at = "failed"
    BY <1>7 DEF Fail, TypeOK, Sync
  <2>2. QED
    BY <2>1 DEF Loop, BehindNext, ListedIsStored
<1>8. CASE Arrive \/ \E m \in inbox : Leave(m)
  BY <1>1, <1>8 DEF Arrive, Leave
<1>9. CASE UNCHANGED vars
  BY <1>1, <1>9 DEF vars
<1>10. QED
  BY <1>2, <1>3, <1>4, <1>5, <1>6, <1>7, <1>8, <1>9 DEF Next, SyncStep

\* IInv is inductive.
LEMMA SpecInv == Spec => []IInv
<1>1. Init => IInv
  BY InitInv
<1>2. IInv /\ [Next]_vars => IInv'
  BY NextTypeOK, NextParents, NextLoop DEF IInv, Parents, Loop
<1>3. QED
  BY <1>1, <1>2, PTL DEF Spec

-----------------------------------------------------------------------------
(* The theorems.                                                            *)

\* Whatever syncs overlap, fail, roll back or die, a stored message has its
\* Thread row and its Sender row: the joins of interaction.py and actions.py
\* lose no message.
THEOREM ParentsAreStored == Spec => []StoredHaveParents
<1>1. IInv => StoredHaveParents
  BY DEF IInv
<1>2. QED
  BY <1>1, SpecInv, PTL

\* A sync that reports "completed" has committed every message it listed,
\* whatever the batch size and wherever its last batch ends.
THEOREM ListingIsStored == Spec => []ListedIsStored
<1>1. IInv => ListedIsStored
  BY DEF IInv
<1>2. QED
  BY <1>1, SpecInv, PTL

-----------------------------------------------------------------------------
(* One sync at a time: counters and dates.                                  *)

\* The listing is newest first, so no message is in it twice; what a session has
\* flushed lies behind its loop; only a running sync has a session that holds anything.
Descends(ids) == \A i, j \in 1..Len(ids) : i < j => ids[i] > ids[j]

Behind(p) == {sync[p].ids[i] : i \in {j \in 1..Len(sync[p].ids) : j < sync[p].next}}

ShapeOf(p) ==
    /\ Descends(sync[p].ids)
    /\ sess[p].flushed \subseteq Behind(p)
    /\ sync[p].at # "running" => sess[p] = CleanSession

Shape == \A p \in Syncs : ShapeOf(p)

Under(S, k) == {m \in S : k \in KeysOf(m)}

\* The row as the session s has it.
View(s, k) == IF k \in Touched(s) THEN s.work[k] ELSE rows[k]

\* What the session s knows to be stored.
Known(s) == messages \cup s.flushed

Encloses(k, r, S) ==
    \A m \in Under(S, k) : DateOf[m] # NoDate =>
        /\ r.last # NoDate /\ r.last >= DateOf[m]
        /\ k \in Senders => r.first # NoDate /\ r.first <= DateOf[m]

\* The sync works on the rows as they are committed.
Current(s, k) ==
    /\ k \in Touched(s) => s.loaded[k] = rows[k]
    /\ k \in s.fresh => rows[k].count = 0

RowFine(k) ==
    LET n == Cardinality(Under(messages, k)) IN
    /\ Encloses(k, rows[k], messages)
    /\ rows[k].count >= n /\ rows[k].count <= starts * n

\* Each sync before this one counted each message once at most, and this one those
\* of B that it has behind it.
SessionFine(s, k, B) ==
    LET n == Cardinality(Under(Known(s), k)) IN
    /\ Current(s, k)
    /\ Encloses(k, View(s, k), Known(s))
    /\ View(s, k).count >= n
    /\ View(s, k).count <= (starts - 1) * n + Cardinality(Under(B, k))

Alone == \A p, q \in Syncs : Active(p) /\ Active(q) => p = q

Exact ==
    ~overlapped =>
        /\ Alone
        /\ \A k \in Keys : RowFine(k)
        /\ \A p \in Syncs : Active(p) =>
             starts # 0 /\ \A k \in Keys : SessionFine(sess[p], k, Behind(p))

-----------------------------------------------------------------------------
(* What an upsert does to the rows as its session has them.                 *)

\* What an upsert leaves in the session, row by row.
LEMMA UpsertRowsFields ==
    ASSUME TypeOK, NEW s \in Session, NEW m \in Msgs, NEW k \in Keys
    PROVE  LET u == UpsertRows(s, m)
               read == IF Visible(s, k) THEN s.work[k] ELSE rows[k]
           IN  /\ k \in KeysOf(m) =>
                    /\ u.work[k] = Bump(k, read, DateOf[m])
                    /\ u.loaded[k] = IF Visible(s, k) THEN s.loaded[k] ELSE rows[k]
               /\ k \notin KeysOf(m) => u.work[k] = s.work[k] /\ u.loaded[k] = s.loaded[k]
               /\ k \in u.fresh => k \in s.fresh \/ (k \in KeysOf(m) /\ read.count = 0)
<1> DEFINE ks == KeysOf(m)
           reads == [j \in ks |-> IF Visible(s, j) THEN s.work[j] ELSE rows[j]]
           w == [j \in Keys |-> IF j \in ks THEN Bump(j, reads[j], DateOf[m]) ELSE s.work[j]]
           l == [j \in Keys |-> IF j \in ks /\ ~Visible(s, j) THEN rows[j] ELSE s.loaded[j]]
           f == s.fresh \cup {j \in ks : reads[j].count = 0}
           u == UpsertRows(s, m)
<1>1. u = [s EXCEPT !.work = w, !.loaded = l, !.fresh = f]
  BY DEF UpsertRows, Session
<1>2. u.work = w /\ u.loaded = l /\ u.fresh = f
  <2> HIDE DEF w, l, f, u
  <2> QED BY <1>1 DEF Session
<1>3. k \in ks => reads[k] = IF Visible(s, k) THEN s.work[k] ELSE rows[k]
  <2> HIDE DEF ks
  <2> QED OBVIOUS
<1>4. w[k] = IF k \in ks THEN Bump(k, reads[k], DateOf[m]) ELSE s.work[k]
  <2> HIDE DEF ks, reads
  <2> QED OBVIOUS
<1>5. l[k] = IF k \in ks /\ ~Visible(s, k) THEN rows[k] ELSE s.loaded[k]
  <2> HIDE DEF ks, reads
  <2> QED OBVIOUS
<1>6. k \in f => k \in s.fresh \/ (k \in ks /\ reads[k].count = 0)
  <2> HIDE DEF ks, reads
  <2> QED OBVIOUS
<1>7. QED
  <2> HIDE DEF w, l, f, u, ks, reads
  <2> QED BY <1>2, <1>3, <1>4, <1>5, <1>6, Zenon DEF ks, u

\* A session that works on the committed rows goes on doing so, and counts the message
\* on each of its rows.
LEMMA UpsertSees ==
    ASSUME TypeOK, NEW s \in Session, NEW m \in Msgs, \A k \in Keys : Current(s, k),
           \A k \in KeysOf(m) : k \notin s.fresh
    PROVE  \A k \in Keys :
             /\ Current(UpsertRows(s, m), k)
             /\ k \in KeysOf(m) => View(UpsertRows(s, m), k) = Bump(k, View(s, k), DateOf[m])
             /\ k \notin KeysOf(m) => View(UpsertRows(s, m), k) = View(s, k)
<1> SUFFICES ASSUME NEW k \in Keys
             PROVE  /\ Current(UpsertRows(s, m), k)
                    /\ k \in KeysOf(m) =>
                         View(UpsertRows(s, m), k) = Bump(k, View(s, k), DateOf[m])
                    /\ k \notin KeysOf(m) => View(UpsertRows(s, m), k) = View(s, k)
  OBVIOUS
<1> DEFINE u == UpsertRows(s, m)
           read == IF Visible(s, k) THEN s.work[k] ELSE rows[k]
<1>1. /\ k \in KeysOf(m) =>
           /\ u.work[k] = Bump(k, read, DateOf[m])
           /\ u.loaded[k] = IF Visible(s, k) THEN s.loaded[k] ELSE rows[k]
      /\ k \notin KeysOf(m) => u.work[k] = s.work[k] /\ u.loaded[k] = s.loaded[k]
      /\ k \in u.fresh => k \in s.fresh \/ (k \in KeysOf(m) /\ read.count = 0)
  BY UpsertRowsFields
<1>2. Current(s, k)
  OBVIOUS
<1> HIDE DEF u
<1>3. CASE k \in KeysOf(m)
  <2>1. Visible(s, k) <=> k \in Touched(s)
    BY <1>3 DEF Visible
  <2>2. read = View(s, k) /\ read \in Row /\ DateOf[m] \in Dates
    BY <2>1, HeaderAssumption DEF View, Session, TypeOK, Dates
  <2>3. u.work[k] = Bump(k, View(s, k), DateOf[m]) /\ k \in Touched(u)
    BY <1>1, <1>3, <2>2, BumpIsRow DEF Touched
  <2>4. u.loaded[k] = rows[k]
    BY <1>1, <1>2, <1>3, <2>1 DEF Current
  <2>5. k \in u.fresh => rows[k].count = 0
    BY <1>1, <1>2, <2>1 DEF Current, Touched
  <2>6. QED
    BY <1>3, <2>3, <2>4, <2>5 DEF Current, View, u
<1>4. CASE k \notin KeysOf(m)
  <2>1. k \in Touched(u) <=> k \in Touched(s)
    BY <1>1, <1>4 DEF Touched
  <2>2. QED
    BY <1>1, <1>2, <1>4, <2>1 DEF Current, View, u
<1>5. QED
  BY <1>3, <1>4

\* A write-back by such a session leaves every row as the session had it.
LEMMA MergeSees ==
    ASSUME TypeOK, NEW s \in Session, NEW k \in Keys, Current(s, k)
    PROVE  Merged(s)[k] = View(s, k) /\ (k \in Touched(s) => Merge(s, k) = s.work[k])
<1>1. s.work[k] \in Row /\ rows[k] \in Row
  BY DEF Session, TypeOK
<1>2. CASE k \in Touched(s)
  <2>1. s.loaded[k] = rows[k]
    BY <1>2 DEF Current
  <2>2. Merge(s, k) = [count |-> s.work[k].count, first |-> s.work[k].first,
                       last |-> s.work[k].last]
    BY <2>1 DEF Merge, Written
  <2>3. Merge(s, k) = s.work[k]
    BY <1>1, <2>2 DEF Row
  <2>4. QED
    BY <1>2, <2>3 DEF Merged, View
<1>3. CASE k \notin Touched(s)
  BY <1>3 DEF Merged, View
<1>4. QED
  BY <1>2, <1>3

\* So does a flush, after which no object is waiting to be inserted.
LEMMA FlushSees ==
    ASSUME TypeOK, NEW s \in Session, NEW m \in Msgs, \A k \in Keys : Current(s, k)
    PROVE  /\ FlushedWith(s, m).fresh = {}
           /\ \A k \in Keys : /\ Current(FlushedWith(s, m), k)
                              /\ View(FlushedWith(s, m), k) = View(s, k)
<1> DEFINE w == [k \in Keys |-> IF k \in Touched(s) THEN Merge(s, k) ELSE NoRow]
           l == [k \in Keys |-> IF k \in Touched(s) THEN rows[k] ELSE NoRow]
           f == FlushedWith(s, m)
<1>1. Flush(s) = [s EXCEPT !.work = w, !.loaded = l, !.fresh = {}]
  BY DEF Flush, Session
<1>2. f.work = w /\ f.loaded = l /\ f.fresh = {}
  <2> HIDE DEF w, l
  <2> QED BY <1>1 DEF Session, FlushedWith
<1>3. ASSUME NEW k \in Keys
      PROVE  Current(f, k) /\ View(f, k) = View(s, k)
  <2>1. /\ w[k] = IF k \in Touched(s) THEN Merge(s, k) ELSE NoRow
        /\ l[k] = IF k \in Touched(s) THEN rows[k] ELSE NoRow
    OBVIOUS
  <2> HIDE DEF w, l, f
  <2>2. k \in Touched(s) => Merge(s, k) = s.work[k]
    BY MergeSees
  <2>3. k \in Touched(f) <=> k \in Touched(s)
    BY <1>2, <2>1, <2>2 DEF Touched, NoRow
  <2>4. QED
    BY <1>2, <2>1, <2>2, <2>3 DEF Current, View
<1>4. QED
  <2> HIDE DEF f
  <2> QED BY <1>2, <1>3 DEF f

\* A row that enclosed its messages encloses one more when that is counted.
LEMMA BumpEncloses ==
    ASSUME NEW k \in Keys, NEW r \in Row, NEW S \in SUBSET Msgs, NEW m \in Msgs,
           Encloses(k, r, S)
    PROVE  /\ Encloses(k, Bump(k, r, DateOf[m]), S \cup {m})
           /\ k \notin KeysOf(m) => Encloses(k, r, S \cup {m})
<1> DEFINE b == Bump(k, r, DateOf[m])
<1>1. /\ r.first \in Nat \cup {NoDate} /\ r.last \in Nat \cup {NoDate} /\ NoDate \notin Nat
      /\ \A n \in Msgs : DateOf[n] \in Nat \cup {NoDate}
  BY HeaderAssumption DEF Row, Dates
<1>2. /\ b.first = IF k \in Senders /\ Earlier(r.first, DateOf[m]) THEN DateOf[m] ELSE r.first
      /\ b.last = IF Later(r.last, DateOf[m]) THEN DateOf[m] ELSE r.last
  BY DEF Bump
<1> HIDE DEF b
<1>3. ASSUME NEW n \in Under(S \cup {m}, k), DateOf[n] # NoDate
      PROVE  /\ b.last # NoDate /\ b.last >= DateOf[n]
             /\ k \in Senders => b.first # NoDate /\ b.first <= DateOf[n]
  <2>1. n \in Msgs /\ DateOf[n] \in Nat
    BY <1>1, <1>3 DEF Under
  <2>2. CASE n = m
    BY <1>1, <1>2, <2>1, <2>2 DEF Later, Earlier
  <2>3. CASE n # m
    <3>1. /\ r.last # NoDate /\ r.last >= DateOf[n]
          /\ k \in Senders => r.first # NoDate /\ r.first <= DateOf[n]
      BY <1>3, <2>3 DEF Encloses, Under
    <3>2. r.last \in Nat /\ (k \in Senders => r.first \in Nat)
      BY <1>1, <3>1
    <3>3. b.last \in Nat /\ b.last >= r.last
      BY <1>1, <1>2, <3>2 DEF Later
    <3>4. k \in Senders => b.first \in Nat /\ b.first <= r.first
      BY <1>1, <1>2, <3>2 DEF Earlier
    <3>5. QED
      BY <1>1, <2>1, <3>1, <3>2, <3>3, <3>4
  <2>4. QED
    BY <2>2, <2>3
<1>4. k \notin KeysOf(m) => Encloses(k, r, S \cup {m})
  BY DEF Encloses, Under
<1>5. QED
  BY <1>3, <1>4 DEF Encloses, b

-----------------------------------------------------------------------------
(* Counting.                                                                *)

\* Messages of a row are counted by a natural number.
LEMMA UnderIsFinite ==
    ASSUME NEW S \in SUBSET Msgs, NEW k
    PROVE  /\ IsFiniteSet(Under(S, k)) /\ Cardinality(Under(S, k)) \in Nat
           /\ Under(S, k) \subseteq S
<1>1. IsFiniteSet(Msgs)
  BY MessagesAssumption, FS_Interval DEF Msgs
<1>2. Under(S, k) \subseteq S
  BY DEF Under
<1>3. IsFiniteSet(Under(S, k))
  BY <1>1, <1>2, FS_Subset
<1>4. QED
  BY <1>2, <1>3, FS_CardinalityType

\* One message more, on its own rows and on the others.
LEMMA OneMoreUnder ==
    ASSUME NEW S \in SUBSET Msgs, NEW m \in Msgs, NEW k
    PROVE  LET n == Cardinality(Under(S, k))
               nn == Cardinality(Under(S \cup {m}, k))
           IN  /\ n \in Nat /\ nn \in Nat /\ n <= nn /\ nn <= n + 1
               /\ m \notin S /\ k \in KeysOf(m) => nn = n + 1
               /\ k \notin KeysOf(m) => nn = n
<1> DEFINE A == Under(S, k)
           B == Under(S \cup {m}, k)
<1>1. IsFiniteSet(A) /\ Cardinality(A) \in Nat /\ Cardinality(B) \in Nat
  BY UnderIsFinite
<1>2. CASE k \in KeysOf(m)
  <2>1. B = A \cup {m}
    BY <1>2 DEF Under
  <2>2. m \notin S => m \notin A
    BY DEF Under
  <2> HIDE DEF A, B
  <2>3. /\ m \in A => Cardinality(A \cup {m}) = Cardinality(A)
        /\ m \notin A => Cardinality(A \cup {m}) = Cardinality(A) + 1
    BY <1>1, FS_AddElement
  <2>4. QED
    BY <1>1, <1>2, <2>1, <2>2, <2>3 DEF A, B
<1>3. CASE k \notin KeysOf(m)
  <2>1. B = A
    BY <1>3 DEF Under
  <2> HIDE DEF A, B
  <2>2. QED
    BY <1>1, <1>3, <2>1 DEF A, B
<1>4. QED
  BY <1>2, <1>3

\* Of fewer messages, fewer are under a row.
LEMMA MoreUnder ==
    ASSUME NEW S \in SUBSET Msgs, NEW T \in SUBSET S, NEW k
    PROVE  Cardinality(Under(T, k)) <= Cardinality(Under(S, k))
<1>1. T \in SUBSET Msgs /\ Under(T, k) \subseteq Under(S, k)
  BY DEF Under
<1>2. QED
  BY <1>1, UnderIsFinite, FS_Subset

\* So many times a number, and once more.
LEMMA Times ==
    ASSUME NEW a \in Nat, NEW n \in Nat
    PROVE  /\ a * n \in Nat /\ (a + 1) * n = a * n + n /\ a * (n + 1) = a * n + a
           /\ 0 * n = 0 /\ a * n <= a * (n + 1) /\ a * n <= (a + 1) * n
  OBVIOUS

-----------------------------------------------------------------------------
(* The shape of the listing and of the session.                             *)

\* A page goes on where the listing ended.
LEMMA ListingDescends ==
    ASSUME TypeOK, NEW ids \in Seq(Msgs), Descends(ids),
           NEW S \in SUBSET Older(ids), NEW list \in DescendingLists(S)
    PROVE  Descends(ids \o list)
<1>1. Older(ids) \subseteq inbox /\ inbox \subseteq Msgs
  BY MessagesAssumption DEF Older, TypeOK, Msgs
<1>2. Cardinality(S) \in Nat
  <2>1. IsFiniteSet(Msgs)
    BY MessagesAssumption, FS_Interval DEF Msgs
  <2>2. IsFiniteSet(S)
    BY <1>1, <2>1, FS_Subset
  <2>3. QED
    BY <2>2, FS_CardinalityType
<1>3. /\ list \in [1..Cardinality(S) -> S]
      /\ \A i, j \in 1..Cardinality(S) : i < j => list[i] > list[j]
  BY DEF DescendingLists
<1>4. list \in Seq(Msgs) /\ Len(list) = Cardinality(S)
  <2>1. list \in [1..Cardinality(S) -> Msgs]
    BY <1>1, <1>3
  <2>2. QED
    BY <1>2, <2>1
<1>5. /\ ids \o list \in Seq(Msgs)
      /\ Len(ids \o list) = Len(ids) + Len(list)
      /\ \A i \in 1..Len(ids) : (ids \o list)[i] = ids[i]
      /\ \A i \in 1..Len(ids \o list) :
            i > Len(ids) => (ids \o list)[i] = list[i - Len(ids)]
  BY <1>4
<1>6. ASSUME NEW i \in 1..Len(ids \o list), NEW j \in 1..Len(ids \o list), i < j
      PROVE  (ids \o list)[i] > (ids \o list)[j]
  <2>1. Len(ids) \in Nat /\ Len(list) \in Nat
    BY <1>4, LenProperties
  <2>2. CASE j <= Len(ids)
    BY <1>5, <1>6, <2>1, <2>2 DEF Descends
  <2>3. CASE i > Len(ids)
    <3>1. i - Len(ids) \in 1..Cardinality(S) /\ j - Len(ids) \in 1..Cardinality(S)
          /\ i - Len(ids) < j - Len(ids)
      BY <1>4, <1>5, <1>6, <2>1, <2>3
    <3>2. j > Len(ids)
      BY <1>6, <2>1, <2>3
    <3>3. QED
      BY <1>3, <1>5, <2>3, <3>1, <3>2
  <2>4. CASE i <= Len(ids) /\ j > Len(ids)
    <3>1. j - Len(ids) \in 1..Cardinality(S)
      BY <1>4, <1>5, <2>1, <2>4
    <3>2. list[j - Len(ids)] \in Older(ids)
      BY <1>3, <3>1
    <3>3. Len(ids) \in 1..Len(ids) /\ i \in 1..Len(ids) /\ ids # <<>>
      BY <2>1, <2>4
    <3>4. list[j - Len(ids)] \in Msgs /\ list[j - Len(ids)] < ids[Len(ids)]
      BY <1>1, <3>2, <3>3 DEF Older
    <3>5. ids[i] \in Msgs /\ ids[Len(ids)] \in Msgs /\ ids[i] >= ids[Len(ids)]
      <4>1. ids[i] \in Msgs /\ ids[Len(ids)] \in Msgs
        BY <3>3
      <4>2. CASE i = Len(ids)
        BY <4>1, <4>2, MessagesAssumption DEF Msgs
      <4>3. CASE i # Len(ids)
        <5>1. i < Len(ids)
          BY <2>1, <3>3, <4>3
        <5>2. ids[i] > ids[Len(ids)]
          BY <3>3, <5>1 DEF Descends
        <5>3. QED
          BY <4>1, <5>2, MessagesAssumption DEF Msgs
      <4>4. QED
        BY <4>2, <4>3
    <3>6. (ids \o list)[i] = ids[i] /\ (ids \o list)[j] = list[j - Len(ids)]
      BY <1>5, <2>4, <3>3
    <3>7. QED
      BY <3>4, <3>5, <3>6, MessagesAssumption DEF Msgs
  <2>5. QED
    BY <1>6, <2>1, <2>2, <2>3, <2>4
<1>7. QED
  BY <1>6 DEF Descends

\* One message moves behind the loop, and was not there before.
LEMMA AdvanceBehind ==
    ASSUME TypeOK, Shape, NEW p \in Syncs, sync[p].pending < BatchSize,
           sync[p].next <= Len(sync[p].ids), sync' = Advance(p)
    PROVE  LET m == sync[p].ids[sync[p].next] IN
           /\ Behind(p)' = Behind(p) \cup {m}
           /\ m \notin Behind(p) /\ m \in Msgs /\ Behind(p) \subseteq Msgs
           /\ Descends(sync'[p].ids) /\ sync'[p].at = sync[p].at
<1> DEFINE ids == sync[p].ids
           n == sync[p].next
<1>1. /\ ids \in Seq(Msgs) /\ n \in Nat \ {0} /\ Len(ids) \in Nat
      /\ \A i \in 1..Len(ids) : ids[i] \in Msgs
      /\ n \in 1..Len(ids)
  BY LenProperties DEF TypeOK, Sync
<1>2. sync'[p].at = sync[p].at /\ sync'[p].ids = ids /\ sync'[p].next = n + 1
  BY AdvanceIs
<1>3. Descends(ids)
  BY DEF Shape, ShapeOf
<1>4. Behind(p) = {ids[i] : i \in {j \in 1..Len(ids) : j < n}}
  BY DEF Behind
<1>5. Behind(p)' = {ids[i] : i \in {j \in 1..Len(ids) : j < n + 1}}
  BY <1>2 DEF Behind
<1> HIDE DEF ids, n
<1>6. {j \in 1..Len(ids) : j < n + 1} = {j \in 1..Len(ids) : j < n} \cup {n}
  BY <1>1
<1>7. Behind(p)' = Behind(p) \cup {ids[n]}
  BY <1>4, <1>5, <1>6
<1>8. ids[n] \notin Behind(p)
  <2> SUFFICES ASSUME NEW i \in 1..Len(ids), i < n, ids[i] = ids[n] PROVE FALSE
    BY <1>4
  <2>1. ids[i] > ids[n] /\ ids[n] \in Msgs
    BY <1>1, <1>3 DEF Descends
  <2>2. QED
    BY <2>1, MessagesAssumption DEF Msgs
<1>9. Behind(p) \subseteq Msgs
  BY <1>1, <1>4
<1>10. QED
  BY <1>1, <1>2, <1>3, <1>7, <1>8, <1>9 DEF ids, n

\* Nothing is behind a loop that has not begun.
LEMMA NothingBehind ==
    ASSUME NEW p \in Syncs, sync[p].next = 1 PROVE Behind(p) = {}
  BY DEF Behind

\* Other syncs do not disturb the shape of this one.
LEMMA OthersKeepShape ==
    ASSUME Shape, NEW p \in Syncs, ShapeOf(p)',
           \A q \in Syncs : q # p => sync'[q] = sync[q] /\ sess'[q] = sess[q]
    PROVE  Shape'
  BY DEF Shape, ShapeOf, Behind

\* What a listing step leaves of the sync: a longer list, and the loop not begun.
LEMMA ListPageShape ==
    ASSUME TypeOK, Loop, Shape, NEW p \in Syncs, ListPage(p)
    PROVE  ShapeOf(p)' /\ Behind(p)' = Behind(p) /\ Active(p)
<1> DEFINE ids == sync[p].ids
           page == Newest(Older(ids), PageLimit(ids))
<1>1. /\ sync[p] \in Sync /\ ids \in Seq(Msgs) /\ sync[p].at = "listing"
      /\ sync[p].next = 1 /\ sess[p] = CleanSession /\ Descends(ids) /\ sess' = sess
  BY DEF TypeOK, Sync, ListPage, Loop, BehindNext, Shape, ShapeOf
<1>2. PICK list \in DescendingLists(page) :
         sync' = [sync EXCEPT ![p].ids = ids \o list,
                   ![p].at = IF page # Older(ids) /\ Len(ids \o list) < MaxResults
                             THEN "listing" ELSE "running"]
  BY DEF ListPage
<1>3. page \in SUBSET Older(ids)
  BY DEF Newest
<1>4. Descends(ids \o list)
  <2> HIDE DEF ids, page
  <2> QED BY <1>1, <1>3, ListingDescends
<1>5. sync'[p].ids = ids \o list /\ sync'[p].next = 1
  <2> HIDE DEF page
  <2> QED BY <1>1, <1>2 DEF TypeOK, Sync
<1>6. Behind(p) = {} /\ Behind(p)' = {}
  <2>1. Behind(p) = {}
    BY <1>1, NothingBehind
  <2>2. Behind(p)' = {}
    BY <1>5 DEF Behind
  <2>3. QED
    BY <2>1, <2>2
<1>7. QED
  BY <1>1, <1>4, <1>5, <1>6 DEF ShapeOf, CleanSession, Active

\* Listings stay in order, and nothing is flushed that is not behind the loop.
LEMMA NextShape == TypeOK /\ Loop /\ Shape /\ [Next]_vars => Shape'
<1> SUFFICES ASSUME TypeOK, Loop, Shape, [Next]_vars PROVE Shape'
  OBVIOUS
<1>1. ASSUME NEW p \in Syncs, Start(p) \/ Settle(p) PROVE Shape'
  <2>1. sync'[p].ids = <<>> /\ sess' = sess /\ sess[p] = CleanSession
        /\ \A q \in Syncs : q # p => sync'[q] = sync[q]
    BY <1>1 DEF Start, Settle, IdleSync, TypeOK, Shape, ShapeOf
  <2>2. Descends(<<>>)
    BY DEF Descends
  <2>3. ShapeOf(p)'
    BY <2>1, <2>2 DEF ShapeOf, CleanSession
  <2>4. QED
    BY <2>1, <2>3, OthersKeepShape
<1>2. ASSUME NEW p \in Syncs, ListPage(p) PROVE Shape'
  <2>1. ShapeOf(p)'
    BY <1>2, ListPageShape
  <2>2. \A q \in Syncs : q # p => sync'[q] = sync[q] /\ sess'[q] = sess[q]
    <3>1. PICK ids \in Seq(Msgs), at \in {"listing", "running"} :
             sync' = [sync EXCEPT ![p] = [@ EXCEPT !.ids = ids, !.at = at]]
      BY <1>2, ListPageIs
    <3>2. QED
      BY <1>2, <3>1 DEF TypeOK, ListPage
  <2>3. QED
    BY <2>1, <2>2, OthersKeepShape
<1>3. ASSUME NEW p \in Syncs, UpsertNew(p) PROVE Shape'
  <2>1. sync[p].at = "running" /\ sync[p].pending < BatchSize
        /\ sync[p].next <= Len(sync[p].ids) /\ sync' = Advance(p)
    BY <1>3 DEF UpsertNew
  <2>2. PICK m \in Msgs :
           /\ m = sync[p].ids[sync[p].next]
           /\ sess' = [sess EXCEPT ![p] = UpsertRows(FlushedWith(sess[p], m), m)]
    BY <1>3, UpsertNewSession
  <2>3. sess'[p].flushed = sess[p].flushed \cup {m}
    <3>1. sess[p] \in Session /\ sess'[p] = UpsertRows(FlushedWith(sess[p], m), m)
      BY <2>2 DEF TypeOK
    <3>2. FlushedWith(sess[p], m) \in Session
          /\ FlushedWith(sess[p], m).flushed = sess[p].flushed \cup {m}
      BY <3>1, FlushedWithIs
    <3>3. QED
      BY <3>1, <3>2, UpsertRowsIs
  <2>4. /\ Behind(p)' = Behind(p) \cup {m}
        /\ Descends(sync'[p].ids) /\ sync'[p].at = "running"
    BY <2>1, <2>2, AdvanceBehind
  <2>5. ShapeOf(p)'
    BY <2>3, <2>4 DEF ShapeOf, Shape
  <2>6. \A q \in Syncs : q # p => sync'[q] = sync[q] /\ sess'[q] = sess[q]
    BY <2>1, <2>2, AdvanceIs DEF TypeOK
  <2>7. QED
    BY <2>5, <2>6, OthersKeepShape
<1>4. ASSUME NEW p \in Syncs, UpsertExisting(p) PROVE Shape'
  <2>1. sync[p].at = "running" /\ sync[p].pending < BatchSize
        /\ sync[p].next <= Len(sync[p].ids) /\ sync' = Advance(p)
    BY <1>4 DEF UpsertExisting
  <2>2. PICK m \in Msgs :
           /\ m = sync[p].ids[sync[p].next]
           /\ sess' = [sess EXCEPT ![p] = UpsertRows(sess[p], m)]
    BY <1>4, NextIsMessage DEF UpsertExisting
  <2>3. sess'[p].flushed = sess[p].flushed
    BY <2>2, UpsertRowsIs DEF TypeOK
  <2>4. /\ Behind(p)' = Behind(p) \cup {m}
        /\ Descends(sync'[p].ids) /\ sync'[p].at = "running"
    BY <2>1, <2>2, AdvanceBehind
  <2>5. ShapeOf(p)'
    BY <2>3, <2>4 DEF ShapeOf, Shape
  <2>6. \A q \in Syncs : q # p => sync'[q] = sync[q] /\ sess'[q] = sess[q]
    BY <2>1, <2>2, AdvanceIs DEF TypeOK
  <2>7. QED
    BY <2>5, <2>6, OthersKeepShape
<1>5. ASSUME NEW p \in Syncs, Commit(p) \/ Fail(p) PROVE Shape'
  <2>1. /\ sync'[p].ids = sync[p].ids
        /\ sess'[p] = CleanSession
        /\ \A q \in Syncs : q # p => sync'[q] = sync[q] /\ sess'[q] = sess[q]
    BY <1>5 DEF Commit, Fail, TypeOK, Sync
  <2>2. ShapeOf(p)'
    BY <2>1 DEF ShapeOf, Shape, CleanSession
  <2>3. QED
    BY <2>1, <2>2, OthersKeepShape
<1>6. CASE Arrive \/ (\E m \in inbox : Leave(m)) \/ UNCHANGED vars
  BY <1>6 DEF Arrive, Leave, vars, Shape, ShapeOf, Behind
<1>7. QED
  BY <1>1, <1>2, <1>3, <1>4, <1>5, <1>6 DEF Next, SyncStep

\* No sync has listed or flushed anything at the start.
LEMMA InitShape == Init => Shape
<1> SUFFICES ASSUME Init, NEW p \in Syncs PROVE ShapeOf(p)
  BY DEF Shape
<1>1. sync[p].ids = <<>> /\ sess[p] = CleanSession
  BY DEF Init, IdleSync
<1>2. QED
  BY <1>1 DEF ShapeOf, Descends, CleanSession

-----------------------------------------------------------------------------
(* The counters, step by step.                                              *)

\* What a session knows to be stored are messages.
LEMMA KnownAreMsgs ==
    ASSUME TypeOK, NEW s \in Session
    PROVE  Known(s) \in SUBSET Msgs /\ messages \in SUBSET Msgs
  BY DEF Known, TypeOK, Session

\* The row as a session has it is a row.
LEMMA ViewIsRow ==
    ASSUME TypeOK, NEW s \in Session, NEW k \in Keys
    PROVE  View(s, k) \in Row
  BY DEF View, TypeOK, Session

\* A message more behind the loop, counted once, keeps the counters between one for each
\* message known and one for each sync that met it.
LEMMA OneMoreCounted ==
    ASSUME NEW a \in Nat, NEW n \in Nat, NEW nn \in Nat, NEW b \in Nat, NEW c \in Nat,
           nn = n \/ nn = n + 1, c >= n, c <= a * n + b
    PROVE  c + 1 >= nn /\ c + 1 <= a * nn + (b + 1)
<1>1. a * n \in Nat /\ a * (n + 1) \in Nat /\ a * n <= a * (n + 1)
  BY Times
<1>2. CASE nn = n
  BY <1>1, <1>2
<1>3. CASE nn = n + 1
  <2>1. a * nn = a * (n + 1)
    BY <1>3
  <2>2. QED
    BY <1>1, <1>3, <2>1
<1>4. QED
  BY <1>2, <1>3

\* The session that counts one message on its rows, and may know it only now.
LEMMA CountedIsFine ==
    ASSUME TypeOK, starts # 0, NEW s \in Session, NEW t \in Session, NEW m \in Msgs,
           NEW B \in SUBSET Msgs, m \notin B,
           Known(t) = Known(s) \cup {m},
           NEW k \in Keys, SessionFine(s, k, B), Current(t, k),
           k \in KeysOf(m) => View(t, k) = Bump(k, View(s, k), DateOf[m]),
           k \notin KeysOf(m) => View(t, k) = View(s, k)
    PROVE  SessionFine(t, k, B \cup {m})
<1> DEFINE a == starts - 1
           n == Cardinality(Under(Known(s), k))
           nn == Cardinality(Under(Known(t), k))
           b == Cardinality(Under(B, k))
           bb == Cardinality(Under(B \cup {m}, k))
           c == View(s, k).count
           cc == View(t, k).count
<1>1. a \in Nat
  BY DEF TypeOK
<1>2. Known(s) \in SUBSET Msgs
  BY KnownAreMsgs
<1>3. View(s, k) \in Row
  BY ViewIsRow
<1>4. /\ n \in Nat /\ nn \in Nat /\ (nn = n \/ nn = n + 1)
      /\ k \notin KeysOf(m) => nn = n
  <2> DEFINE S == Known(s)
             mm == Cardinality(Under(S \cup {m}, k))
             ll == Cardinality(Under(S, k))
  <2>1. nn = mm /\ n = ll
    OBVIOUS
  <2>2. /\ ll \in Nat /\ mm \in Nat /\ ll <= mm /\ mm <= ll + 1
        /\ k \notin KeysOf(m) => mm = ll
    <3> HIDE DEF S
    <3> QED BY <1>2, OneMoreUnder DEF S
  <2> HIDE DEF S, mm, ll, n, nn
  <2>3. mm = ll \/ mm = ll + 1
    BY <2>2
  <2>4. QED
    BY <2>1, <2>2, <2>3
<1>5. /\ b \in Nat /\ bb \in Nat
      /\ k \in KeysOf(m) => bb = b + 1
      /\ k \notin KeysOf(m) => bb = b
  BY OneMoreUnder
<1>6. /\ Encloses(k, View(s, k), Known(s))
      /\ c \in Nat /\ c >= n /\ c <= a * n + b
  BY <1>3 DEF SessionFine, Row
<1>7. Encloses(k, View(t, k), Known(t))
  <2>1. /\ Encloses(k, Bump(k, View(s, k), DateOf[m]), Known(s) \cup {m})
        /\ k \notin KeysOf(m) => Encloses(k, View(s, k), Known(s) \cup {m})
    BY <1>2, <1>3, <1>6, BumpEncloses
  <2>2. QED
    BY <2>1
<1>8. k \in KeysOf(m) => cc = c + 1
  BY DEF Bump
<1>9. k \notin KeysOf(m) => cc = c
  OBVIOUS
<1> HIDE DEF a, n, nn, b, bb, c, cc
<1>10. cc >= nn /\ cc <= a * nn + bb
  <2>1. CASE k \in KeysOf(m)
    <3>1. c + 1 >= nn /\ c + 1 <= a * nn + (b + 1)
      BY <1>1, <1>4, <1>5, <1>6, OneMoreCounted
    <3>2. QED
      BY <1>5, <1>8, <2>1, <3>1
  <2>2. CASE k \notin KeysOf(m)
    <3>1. cc = c /\ nn = n /\ bb = b
      BY <1>4, <1>5, <1>9, <2>2
    <3>2. QED
      BY <1>6, <3>1
  <2>3. QED
    BY <2>1, <2>2
<1>11. QED
  BY <1>7, <1>10 DEF SessionFine, a, n, nn, b, bb, c, cc

\* A message that has its row already is counted again, by this sync for the first time.
LEMMA ExistingIsFine ==
    ASSUME TypeOK, starts # 0, NEW s \in Session, NEW m \in Known(s), m \in Msgs,
           NEW B \in SUBSET Msgs, m \notin B,
           \A k \in Keys : SessionFine(s, k, B),
           \A k \in KeysOf(m) : k \notin s.fresh,
           NEW k \in Keys
    PROVE  SessionFine(UpsertRows(s, m), k, B \cup {m})
<1>1. \A j \in Keys : Current(s, j)
  BY DEF SessionFine
<1> DEFINE u == UpsertRows(s, m)
<1>2. /\ Current(u, k)
      /\ k \in KeysOf(m) => View(u, k) = Bump(k, View(s, k), DateOf[m])
      /\ k \notin KeysOf(m) => View(u, k) = View(s, k)
  BY <1>1, UpsertSees
<1>3. u \in Session /\ u.flushed = s.flushed
  BY UpsertRowsIs
<1>4. Known(u) = Known(s) \cup {m}
  BY <1>3 DEF Known
<1> HIDE DEF u
<1>5. SessionFine(u, k, B \cup {m})
  BY <1>2, <1>3, <1>4, CountedIsFine
<1>6. QED
  BY <1>5 DEF u

\* A new message is flushed first, with all the session held, and counted then.
LEMMA NewIsFine ==
    ASSUME TypeOK, starts # 0, NEW s \in Session, NEW m \in Msgs,
           NEW B \in SUBSET Msgs, m \notin B,
           \A k \in Keys : SessionFine(s, k, B), NEW k \in Keys
    PROVE  SessionFine(UpsertRows(FlushedWith(s, m), m), k, B \cup {m})
<1>1. \A j \in Keys : Current(s, j)
  BY DEF SessionFine
<1> DEFINE f == FlushedWith(s, m)
           u == UpsertRows(f, m)
<1>2. f \in Session /\ f.flushed = s.flushed \cup {m}
  BY FlushedWithIs
<1>3. /\ f.fresh = {}
      /\ \A j \in Keys : Current(f, j) /\ View(f, j) = View(s, j)
  BY <1>1, FlushSees
<1> HIDE DEF f
<1>4. /\ Current(u, k)
      /\ k \in KeysOf(m) => View(u, k) = Bump(k, View(f, k), DateOf[m])
      /\ k \notin KeysOf(m) => View(u, k) = View(f, k)
  BY <1>2, <1>3, UpsertSees
<1>5. u \in Session /\ u.flushed = f.flushed
  BY <1>2, UpsertRowsIs
<1>6. Known(u) = Known(s) \cup {m}
  BY <1>2, <1>5 DEF Known
<1>7. View(f, k) = View(s, k)
  BY <1>3
<1> HIDE DEF u
<1>8. SessionFine(u, k, B \cup {m})
  BY <1>4, <1>5, <1>6, <1>7, CountedIsFine
<1>9. QED
  BY <1>8 DEF u, f

\* Between commits the tables stay, and what is fine of a session it finds is fine of it.
LEMMA SessionIsFineNow ==
    ASSUME NEW p \in Syncs, UNCHANGED <<messages, rows, starts>>,
           NEW k, NEW s, NEW B, s = sess'[p], B = Behind(p)', SessionFine(s, k, B)
    PROVE  SessionFine(sess[p], k, Behind(p))'
<1>1. /\ Under(Known(s), k) = Under(Known(sess[p]), k)'
      /\ Known(s) = Known(sess[p])'
      /\ View(s, k) = View(sess[p], k)'
      /\ Under(B, k) = Under(Behind(p), k)'
  BY DEF Known, View, Touched, Under
<1>2. Current(s, k) <=> Current(sess[p], k)'
  BY DEF Current, Touched
<1>3. Encloses(k, View(s, k), Known(s)) <=> Encloses(k, View(sess[p], k), Known(sess[p]))'
  BY <1>1 DEF Encloses, Under
<1>4. starts' = starts
  OBVIOUS
<1>5. QED
  BY <1>1, <1>2, <1>3, <1>4, Zenon DEF SessionFine

\* The counters stay right while nothing is stored and no session changes.
LEMMA NothingStored ==
    ASSUME Exact, UNCHANGED <<messages, rows, starts, overlapped>>,
           \A q \in Syncs : Active(q)' =>
               Active(q) /\ sess'[q] = sess[q] /\ Behind(q)' = Behind(q)
    PROVE  Exact'
<1> SUFFICES ASSUME ~overlapped
             PROVE  /\ Alone' /\ \A k \in Keys : RowFine(k)'
                    /\ \A p \in Syncs : Active(p)' =>
                         starts' # 0 /\ \A k \in Keys : SessionFine(sess[p], k, Behind(p))'
  BY DEF Exact
<1>1. /\ Alone /\ \A k \in Keys : RowFine(k)
      /\ \A p \in Syncs : Active(p) =>
           starts # 0 /\ \A k \in Keys : SessionFine(sess[p], k, Behind(p))
  BY DEF Exact
<1>2. Alone'
  BY <1>1 DEF Alone
<1>3. \A k \in Keys : RowFine(k)'
  BY <1>1 DEF RowFine, Encloses, Under
<1>4. ASSUME NEW p \in Syncs, Active(p)', NEW k \in Keys
      PROVE  SessionFine(sess[p], k, Behind(p))'
  <2>1. SessionFine(sess[p], k, Behind(p))
    BY <1>1, <1>4
  <2>2. PICK s, B : s = sess[p] /\ B = Behind(p)
    OBVIOUS
  <2>3. s = sess'[p] /\ B = Behind(p)' /\ SessionFine(s, k, B)
    BY <1>4, <2>1, <2>2
  <2>4. QED
    BY <2>1, <2>3, SessionIsFineNow
<1>5. \A p \in Syncs : Active(p)' => starts' # 0
  BY <1>1
<1>6. QED
  BY <1>2, <1>3, <1>4, <1>5

\* The one sync at work does its step: what is fine of it is fine of all.
LEMMA AloneIsEnough ==
    ASSUME Exact, NEW p \in Syncs, Active(p), UNCHANGED <<starts, overlapped>>,
           \A q \in Syncs : Active(q)' => Active(q),
           ~overlapped => /\ \A k \in Keys : RowFine(k)'
                          /\ Active(p)' => \A k \in Keys : SessionFine(sess[p], k, Behind(p))'
    PROVE  Exact'
<1> SUFFICES ASSUME ~overlapped
             PROVE  /\ Alone' /\ \A k \in Keys : RowFine(k)'
                    /\ \A q \in Syncs : Active(q)' =>
                         starts' # 0 /\ \A k \in Keys : SessionFine(sess[q], k, Behind(q))'
  BY DEF Exact
<1>1. Alone /\ starts' # 0
  BY DEF Exact
<1>2. Alone'
  BY <1>1 DEF Alone
<1>3. \A q \in Syncs : Active(q)' => q = p
  BY <1>1 DEF Alone
<1>4. QED
  BY <1>1, <1>2, <1>3

\* An upsert leaves the tables alone, and its session fine.
LEMMA UpsertIsExact ==
    ASSUME TypeOK, Shape, Exact, NEW p \in Syncs, sync[p].at = "running",
           sync[p].pending < BatchSize, sync[p].next <= Len(sync[p].ids),
           sync' = Advance(p), UNCHANGED <<messages, rows, starts, overlapped>>,
           NEW m, m = sync[p].ids[sync[p].next],
           ~overlapped => \A k \in Keys : SessionFine(sess'[p], k, Behind(p) \cup {m})
    PROVE  Exact'
<1>1. Active(p)
  BY DEF Active
<1>2. \A q \in Syncs : Active(q)' => Active(q)
  BY AdvanceIs DEF Active
<1>3. ASSUME ~overlapped, NEW k \in Keys
      PROVE  RowFine(k)' /\ SessionFine(sess[p], k, Behind(p))'
  <2>1. RowFine(k)
    BY <1>3 DEF Exact
  <2>2. RowFine(k)'
    BY <2>1 DEF RowFine, Encloses, Under
  <2>3. Behind(p)' = Behind(p) \cup {m}
    BY AdvanceBehind
  <2>4. PICK s, B : s = sess'[p] /\ B = Behind(p)'
    OBVIOUS
  <2>5. SessionFine(s, k, B)
    BY <1>3, <2>3, <2>4
  <2>6. SessionFine(sess[p], k, Behind(p))'
    BY <2>4, <2>5, SessionIsFineNow
  <2>7. QED
    BY <2>2, <2>6
<1>4. QED
  BY <1>1, <1>2, <1>3, AloneIsEnough

\* A sync that starts alone finds the counters of the syncs before it.
LEMMA StartIsExact ==
    ASSUME TypeOK, Shape, Exact, NEW p \in Syncs, Start(p)
    PROVE  Exact'
<1> SUFFICES ASSUME ~overlapped'
             PROVE  /\ Alone' /\ \A k \in Keys : RowFine(k)'
                    /\ \A q \in Syncs : Active(q)' =>
                         starts' # 0 /\ \A k \in Keys : SessionFine(sess[q], k, Behind(q))'
  BY DEF Exact
<1>1. /\ ~overlapped /\ starts' = starts + 1 /\ messages' = messages /\ rows' = rows
      /\ sess' = sess /\ sess[p] = CleanSession
      /\ sync'[p].next = 1 /\ starts \in Nat
      /\ \A q \in Syncs : q # p => sync'[q] = sync[q] /\ ~Active(q)
  <2>1. /\ ~overlapped /\ starts' = starts + 1 /\ messages' = messages /\ rows' = rows
        /\ sess' = sess /\ sync[p].at = "idle" /\ \A q \in Syncs : ~Active(q)
        /\ sync' = [sync EXCEPT ![p] = [IdleSync EXCEPT !.at = "listing"]]
    BY DEF Start
  <2>2. sess[p] = CleanSession
    BY <2>1 DEF Shape, ShapeOf
  <2>3. sync'[p].next = 1 /\ \A q \in Syncs : q # p => sync'[q] = sync[q]
    BY <2>1 DEF TypeOK, IdleSync
  <2>4. starts \in Nat
    BY SizeAssumption DEF TypeOK
  <2>5. QED
    BY <2>1, <2>2, <2>3, <2>4
<1>2. \A q \in Syncs : Active(q)' => q = p
  BY <1>1 DEF Active
<1>3. ASSUME NEW k \in Keys
      PROVE  RowFine(k)' /\ SessionFine(sess[p], k, Behind(p))'
  <2> DEFINE n == Cardinality(Under(messages, k))
             c == rows[k].count
  <2>1. n \in Nat /\ c \in Nat
    BY UnderIsFinite DEF TypeOK, Row
  <2>2. Encloses(k, rows[k], messages) /\ c >= n /\ c <= starts * n
    BY <1>1 DEF Exact, RowFine
  <2>3. Encloses(k, rows[k], messages)'
    BY <1>1, <2>2 DEF Encloses, Under
  <2>4. Under(messages, k)' = Under(messages, k) /\ (rows[k].count)' = c
    BY <1>1 DEF Under
  <2>5. (starts + 1) * n >= starts * n /\ starts * n \in Nat /\ (starts + 1) * n \in Nat
    <3> HIDE DEF n
    <3> QED BY <1>1, <2>1, Times
  <2>6. c <= (starts + 1) * n
    <3> HIDE DEF n, c
    <3> QED BY <2>1, <2>2, <2>5
  <2>7. RowFine(k)'
    BY <1>1, <2>2, <2>3, <2>4, <2>6 DEF RowFine
  <2>8. /\ Known(sess[p])' = messages
        /\ View(sess[p], k)' = rows[k]
        /\ Current(sess[p], k)'
    BY <1>1 DEF Known, View, Touched, Current, CleanSession, NoRow
  <2>9. Under(Behind(p), k)' = {}
    BY <1>1 DEF Under, Behind
  <2>10. Encloses(k, View(sess[p], k), Known(sess[p]))'
    BY <2>2, <2>8 DEF Encloses, Under
  <2>11. Under(Known(sess[p]), k)' = Under(messages, k)
    BY <2>8 DEF Under
  <2>12. Cardinality({}) = 0 /\ starts' - 1 = starts
    BY <1>1, FS_EmptySet
  <2>13. c <= starts * n + 0
    <3> HIDE DEF n, c
    <3> QED BY <2>1, <2>2, <2>5
  <2>14. View(sess[p], k)'.count = c
    BY <2>8
  <2>15. /\ View(sess[p], k)'.count >= Cardinality(Under(Known(sess[p]), k)')
         /\ View(sess[p], k)'.count <= (starts' - 1) * Cardinality(Under(Known(sess[p]), k)')
                                       + Cardinality(Under(Behind(p), k)')
    BY <2>2, <2>9, <2>11, <2>12, <2>13, <2>14
  <2>16. SessionFine(sess[p], k, Behind(p))'
    BY <2>8, <2>10, <2>15 DEF SessionFine
  <2>17. QED
    BY <2>7, <2>16
<1>4. Alone' /\ starts' # 0
  BY <1>1, <1>2 DEF Alone
<1>5. QED
  BY <1>2, <1>3, <1>4

\* A commit makes what its session had the rows of the tables; each message of it was
\* counted once by the syncs there were.
LEMMA CommitIsExact ==
    ASSUME TypeOK, Loop, Shape, Exact, NEW p \in Syncs, Commit(p)
    PROVE  Exact'
<1> DEFINE s == sess[p]
           K == Known(s)
<1>1. /\ sync[p].at = "running" /\ messages' = K /\ rows' = Merged(s)
      /\ sess'[p] = CleanSession /\ starts' = starts /\ overlapped' = overlapped
      /\ sync'[p].ids = sync[p].ids /\ sync'[p].next = sync[p].next
      /\ \A q \in Syncs : q # p => sync'[q] = sync[q]
  BY DEF Commit, TypeOK, Sync, Known
<1>2. Active(p) /\ \A q \in Syncs : Active(q)' => Active(q)
  BY <1>1 DEF Active
<1>3. /\ s \in Session /\ K \in SUBSET Msgs /\ starts \in Nat
      /\ Behind(p)' = Behind(p) /\ Behind(p) \in SUBSET K
  <2>1. Behind(p) \in SUBSET K
    BY <1>1 DEF Loop, BehindNext, Behind, Known
  <2>2. s \in Session
    BY DEF TypeOK
  <2>3. Behind(p)' = Behind(p)
    BY <1>1 DEF Behind
  <2>4. K \in SUBSET Msgs
    BY <2>2, KnownAreMsgs
  <2>5. QED
    BY <2>1, <2>2, <2>3, <2>4, SizeAssumption DEF TypeOK
<1>4. ASSUME ~overlapped, NEW k \in Keys
      PROVE  RowFine(k)' /\ SessionFine(sess[p], k, Behind(p))'
  <2> DEFINE a == starts - 1
             n == Cardinality(Under(K, k))
             b == Cardinality(Under(Behind(p), k))
             v == View(s, k)
             c == v.count
  <2>1. starts # 0 /\ SessionFine(s, k, Behind(p))
    BY <1>2, <1>4 DEF Exact
  <2>2. a \in Nat /\ starts = a + 1
    BY <1>3, <2>1
  <2>3. Current(s, k) /\ Encloses(k, v, K) /\ c >= n /\ c <= a * n + b
    BY <2>1 DEF SessionFine
  <2>4. rows'[k] = v
    BY <1>1, <1>3, <2>3, MergeSees
  <2>5. n \in Nat /\ b \in Nat /\ b <= n
    <3> DEFINE B == Behind(p)
    <3>1. B \in SUBSET Msgs /\ B \in SUBSET K
      BY <1>3
    <3> HIDE DEF B, K
    <3>2. Cardinality(Under(K, k)) \in Nat /\ Cardinality(Under(B, k)) \in Nat
      BY <1>3, <3>1, UnderIsFinite
    <3>3. Cardinality(Under(B, k)) <= Cardinality(Under(K, k))
      BY <1>3, <3>1, MoreUnder
    <3>4. QED
      BY <3>2, <3>3 DEF B
  <2>6. c \in Nat
    BY <1>3, ViewIsRow DEF Row
  <2>7. a * n \in Nat /\ starts * n = a * n + n
    <3> HIDE DEF n, a
    <3>1. a * n \in Nat /\ (a + 1) * n = a * n + n
      BY <2>2, <2>5, Times
    <3>2. QED
      BY <2>2, <3>1
  <2>8. c <= starts * n
    <3> HIDE DEF n, b, c, a
    <3> QED BY <2>3, <2>5, <2>6, <2>7
  <2>9. Under(messages, k)' = Under(K, k)
    BY <1>1 DEF Under
  <2>10. Encloses(k, rows[k], messages)'
    <3> HIDE DEF K, v
    <3> QED BY <1>1, <2>3, <2>4 DEF Encloses, Under
  <2>11. RowFine(k)'
    <3>1. (rows[k].count)' = c /\ starts' = starts
      BY <1>1, <2>4
    <3>2. (rows[k].count)' >= Cardinality(Under(messages, k)')
          /\ (rows[k].count)' <= starts' * Cardinality(Under(messages, k)')
      BY <2>3, <2>8, <2>9, <3>1
    <3>3. QED
      BY <2>10, <3>2 DEF RowFine
  <2>12. /\ Known(sess[p])' = K
         /\ View(sess[p], k)' = v
         /\ Current(sess[p], k)'
    <3>1. /\ Known(sess[p])' = messages'
          /\ View(sess[p], k)' = rows'[k]
          /\ Current(sess[p], k)'
      BY <1>1 DEF Known, View, Touched, Current, CleanSession, NoRow
    <3>2. QED
      BY <1>1, <2>4, <3>1
  <2>13. Encloses(k, View(sess[p], k), Known(sess[p]))'
    <3> HIDE DEF K, v
    <3> QED BY <2>3, <2>12 DEF Encloses, Under
  <2>14. Under(Known(sess[p]), k)' = Under(K, k) /\ Under(Behind(p), k)' = Under(Behind(p), k)
    BY <1>3, <2>12 DEF Under
  <2>15. View(sess[p], k)'.count = c /\ starts' = starts
    BY <1>1, <2>12
  <2>16. /\ View(sess[p], k)'.count >= Cardinality(Under(Known(sess[p]), k)')
         /\ View(sess[p], k)'.count <= (starts' - 1) * Cardinality(Under(Known(sess[p]), k)')
                                       + Cardinality(Under(Behind(p), k)')
    BY <2>3, <2>14, <2>15
  <2>17. SessionFine(sess[p], k, Behind(p))'
    BY <2>12, <2>13, <2>16 DEF SessionFine
  <2>18. QED
    BY <2>11, <2>17
<1>5. QED
  BY <1>1, <1>2, <1>4, AloneIsEnough

\* Every step leaves the counters exact, or lets two syncs overlap.
LEMMA NextExact == IInv /\ Shape /\ Exact /\ [Next]_vars => Exact'
<1> SUFFICES ASSUME IInv, Shape, Exact, [Next]_vars PROVE Exact'
  OBVIOUS
<1>1. TypeOK /\ Loop
  BY DEF IInv, Loop
<1>2. ASSUME NEW p \in Syncs, Start(p) PROVE Exact'
  BY <1>1, <1>2, StartIsExact
<1>3. ASSUME NEW p \in Syncs, ListPage(p) PROVE Exact'
  <2>1. UNCHANGED <<messages, rows, sess, starts, overlapped>>
    BY <1>3 DEF ListPage
  <2>2. Behind(p)' = Behind(p) /\ Active(p)
    BY <1>1, <1>3, ListPageShape
  <2>3. \A q \in Syncs : q # p => sync'[q] = sync[q]
    <3>1. PICK ids \in Seq(Msgs), at \in {"listing", "running"} :
             sync' = [sync EXCEPT ![p] = [@ EXCEPT !.ids = ids, !.at = at]]
      BY <1>1, <1>3, ListPageIs
    <3>2. QED
      BY <1>1, <3>1 DEF TypeOK
  <2>4. \A q \in Syncs : Active(q)' =>
          Active(q) /\ sess'[q] = sess[q] /\ Behind(q)' = Behind(q)
    <3> SUFFICES ASSUME NEW q \in Syncs, Active(q)'
                 PROVE  Active(q) /\ sess'[q] = sess[q] /\ Behind(q)' = Behind(q)
      OBVIOUS
    <3>1. CASE q = p
      BY <2>1, <2>2, <3>1
    <3>2. CASE q # p
      BY <2>1, <2>3, <3>2 DEF Active, Behind
    <3>3. QED
      BY <3>1, <3>2
  <2>5. QED
    BY <2>1, <2>4, NothingStored
<1>4. ASSUME NEW p \in Syncs, UpsertNew(p) PROVE Exact'
  <2>1. /\ sync[p].at = "running" /\ sync[p].pending < BatchSize
        /\ sync[p].next <= Len(sync[p].ids) /\ sync' = Advance(p)
        /\ UNCHANGED <<messages, rows, starts, overlapped>>
    BY <1>4 DEF UpsertNew
  <2>2. PICK m \in Msgs :
           /\ m = sync[p].ids[sync[p].next]
           /\ sess' = [sess EXCEPT ![p] = UpsertRows(FlushedWith(sess[p], m), m)]
    BY <1>1, <1>4, UpsertNewSession
  <2>3. m \notin Behind(p) /\ Behind(p) \in SUBSET Msgs
    BY <1>1, <2>1, <2>2, AdvanceBehind
  <2>4. ASSUME ~overlapped, NEW k \in Keys
        PROVE  SessionFine(sess'[p], k, Behind(p) \cup {m})
    <3>1. starts # 0 /\ \A j \in Keys : SessionFine(sess[p], j, Behind(p))
      BY <2>1, <2>4 DEF Exact, Active
    <3>2. sess[p] \in Session /\ sess'[p] = UpsertRows(FlushedWith(sess[p], m), m)
      BY <1>1, <2>2 DEF TypeOK
    <3>3. PICK B : B = Behind(p)
      OBVIOUS
    <3>4. SessionFine(UpsertRows(FlushedWith(sess[p], m), m), k, B \cup {m})
      BY <1>1, <2>3, <3>1, <3>2, <3>3, NewIsFine
    <3>5. QED
      BY <3>2, <3>3, <3>4
  <2>5. QED
    BY <1>1, <2>1, <2>2, <2>4, UpsertIsExact
<1>5. ASSUME NEW p \in Syncs, UpsertExisting(p) PROVE Exact'
  <2>1. /\ sync[p].at = "running" /\ sync[p].pending < BatchSize
        /\ sync[p].next <= Len(sync[p].ids) /\ sync' = Advance(p)
        /\ UNCHANGED <<messages, rows, starts, overlapped>>
    BY <1>5 DEF UpsertExisting
  <2>2. PICK m \in Msgs :
           /\ m = sync[p].ids[sync[p].next]
           /\ m \in Known(sess[p])
           /\ sess' = [sess EXCEPT ![p] = UpsertRows(sess[p], m)]
    BY <1>1, <1>5, NextIsMessage DEF UpsertExisting, Known
  <2>3. m \notin Behind(p) /\ Behind(p) \in SUBSET Msgs
    BY <1>1, <2>1, <2>2, AdvanceBehind
  <2>4. m \in messages
    BY <2>2, <2>3 DEF Shape, ShapeOf, Known
  <2>5. ASSUME ~overlapped, NEW k \in Keys
        PROVE  SessionFine(sess'[p], k, Behind(p) \cup {m})
    <3>1. starts # 0 /\ \A j \in Keys : SessionFine(sess[p], j, Behind(p))
      BY <2>1, <2>5 DEF Exact, Active
    <3>2. sess[p] \in Session /\ sess'[p] = UpsertRows(sess[p], m)
      BY <1>1, <2>2 DEF TypeOK
    <3>3. \A j \in KeysOf(m) : j \notin sess[p].fresh
      <4>1. \A j \in KeysOf(m) : j \in Keys /\ rows[j].count # 0
        BY <2>2, <2>4, KeysAreKeys DEF IInv, StoredHaveParents
      <4>2. \A j \in Keys : j \in sess[p].fresh => rows[j].count = 0
        BY <3>1 DEF SessionFine, Current
      <4>3. QED
        BY <4>1, <4>2
    <3>4. PICK B : B = Behind(p)
      OBVIOUS
    <3>5. SessionFine(UpsertRows(sess[p], m), k, B \cup {m})
      BY <1>1, <2>2, <2>3, <3>1, <3>2, <3>3, <3>4, ExistingIsFine
    <3>6. QED
      BY <3>2, <3>4, <3>5
  <2>6. QED
    BY <1>1, <2>1, <2>2, <2>5, UpsertIsExact
<1>6. ASSUME NEW p \in Syncs, Commit(p) PROVE Exact'
  BY <1>1, <1>6, CommitIsExact
<1>7. ASSUME NEW p \in Syncs, Fail(p) \/ Settle(p) PROVE Exact'
  <2>1. /\ UNCHANGED <<messages, rows, starts, overlapped>>
        /\ sync'[p].at \in {"idle", "failed"}
        /\ \A q \in Syncs : q # p => sync'[q] = sync[q] /\ sess'[q] = sess[q]
    BY <1>1, <1>7 DEF Fail, Settle, TypeOK, Sync, IdleSync
  <2>2. \A q \in Syncs : Active(q)' =>
          Active(q) /\ sess'[q] = sess[q] /\ Behind(q)' = Behind(q)
    BY <2>1 DEF Active, Behind
  <2>3. QED
    BY <2>1, <2>2, NothingStored
<1>8. CASE Arrive \/ (\E m \in inbox : Leave(m)) \/ UNCHANGED vars
  <2>1. UNCHANGED <<messages, rows, sync, sess, starts, overlapped>>
    BY <1>8 DEF Arrive, Leave, vars
  <2>2. \A q \in Syncs : Active(q)' =>
          Active(q) /\ sess'[q] = sess[q] /\ Behind(q)' = Behind(q)
    BY <2>1 DEF Active, Behind
  <2>3. QED
    BY <2>1, <2>2, NothingStored
<1>9. QED
  BY <1>2, <1>3, <1>4, <1>5, <1>6, <1>7, <1>8 DEF Next, SyncStep

\* Nothing is stored at the start, and nothing counted.
LEMMA InitExact == Init => Exact
<1> SUFFICES ASSUME Init PROVE Exact
  OBVIOUS
<1>1. Alone /\ \A p \in Syncs : ~Active(p)
  BY DEF Init, IdleSync, Active, Alone
<1>2. ASSUME NEW k \in Keys PROVE RowFine(k)
  <2>1. Under(messages, k) = {} /\ rows[k].count = 0 /\ starts = 0
    BY DEF Init, Under, NoRow
  <2>2. Cardinality(Under(messages, k)) = 0
    BY <2>1, FS_EmptySet
  <2>3. QED
    BY <2>1, <2>2 DEF RowFine, Encloses
<1>3. QED
  BY <1>1, <1>2 DEF Exact

\* Shape and Exact hold of every state that is reached.
LEMMA SpecExact == Spec => [](Shape /\ Exact)
<1>1. Init => Shape /\ Exact
  BY InitShape, InitExact
<1>2. IInv /\ (Shape /\ Exact) /\ [Next]_vars => (Shape /\ Exact)'
  <2>1. IInv => TypeOK /\ Loop
    BY DEF IInv, Loop
  <2>2. QED
    BY <2>1, NextShape, NextExact
<1>3. QED
  BY <1>1, <1>2, SpecInv, PTL DEF Spec

\* As long as no two syncs overlap, message_count of a thread and of a sender misses no
\* stored message and counts none more often than there were syncs, wherever a sync
\* fails or its batches end.
THEOREM CountsAreCovered == Spec => []CountsCoverStored
<1>1. Exact => CountsCoverStored
  <2> SUFFICES ASSUME Exact, ~overlapped, NEW k \in Keys
               PROVE  LET n == Cardinality(StoredUnder(k)) IN
                      rows[k].count >= n /\ rows[k].count <= starts * n
    BY DEF CountsCoverStored
  <2>1. RowFine(k)
    BY DEF Exact
  <2>2. StoredUnder(k) = Under(messages, k)
    BY DEF StoredUnder, Under
  <2>3. QED
    BY <2>1, <2>2 DEF RowFine
<1>2. QED
  BY <1>1, SpecExact, PTL

\* As long as no two syncs overlap, first_seen and last_seen enclose the dates of the
\* stored messages, in whatever order syncs met them.
THEOREM DatesAreEnclosed == Spec => []SeenWindow
<1>1. IInv /\ Exact => SeenWindow
  <2> SUFFICES ASSUME IInv, Exact, ~overlapped, NEW m \in messages, DateOf[m] # NoDate,
                      NEW k \in KeysOf(m)
               PROVE  /\ rows[k].last # NoDate /\ rows[k].last >= DateOf[m]
                      /\ k \in Senders => rows[k].first # NoDate /\ rows[k].first <= DateOf[m]
    BY DEF SeenWindow
  <2>1. m \in Msgs
    BY DEF IInv, TypeOK
  <2>2. k \in Keys /\ RowFine(k)
    BY <2>1, KeysAreKeys DEF Exact
  <2>3. m \in Under(messages, k)
    BY DEF Under
  <2>4. QED
    BY <2>2, <2>3 DEF RowFine, Encloses
<1>2. QED
  BY <1>1, SpecInv, SpecExact, PTL
=============================================================================
