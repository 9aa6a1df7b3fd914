--------------------------- MODULE AssistantProofs ---------------------------
(***************************************************************************)
(* Proofs about Chat and Assistant, for any number of turns, of tool calls  *)
(* in an answer, of messages and of senders.                                *)
(*                                                                         *)
(* ChatInv is about conversations: TalkIsFine says of each request how far  *)
(* its conversation has come and which tool calls it still has to make.     *)
(* The tools that move mail are steps of MailActions, whose invariant is    *)
(* instantiated, not proved again. IInv adds that each tool call is made    *)
(* once (CallsAreFresh), and so that what a conversation reports stays true *)
(* (ReportsAreEarned) and nothing that was done goes unreported             *)
(* (EffectsAreTold).                                                        *)
(***************************************************************************)
EXTENDS Assistant, SequenceTheorems, TLAPS

\* The invariant of MailActions, its theorem and its lemmas, about the tool calls.
MailProofs == INSTANCE MailActionsProofs
    WITH Requests <- Calls, Folders <- {}, Synced <- {}, req <- work

-----------------------------------------------------------------------------
(* Conversations.                                                           *)

\* The first n tool calls of the answer h[j] have their results, in order.
Answered(h, j, n) ==
    \A i \in 1..n : j + i <= Len(h) /\ h[j+i].role = "tool" /\ h[j+i].calls = <<h[j].calls[i]>>

\* What Paired asks of the order of the roles.
InOrder(h) ==
    /\ h # <<>> => h[1].role = "user"
    /\ \A i \in 1..Len(h) :
         /\ h[i].role = "tool" => \E j \in 1..(i-1) :
              h[j].role = "assistant" /\ i - j <= Len(h[j].calls)
         /\ h[i].role = "user" => i = 1 \/ h[i-1].role = "assistant"

\* The answer h[j], the last one, still lacks the results of the calls in left.
OpenAt(h, j, left) ==
    /\ h[j].role = "assistant"
    /\ Len(h[j].calls) = (Len(h) - j) + Len(left)
    /\ \A i \in 1..Len(left) : h[j].calls[(Len(h) - j) + i] = left[i]
    /\ Answered(h, j, Len(h) - j)
    /\ \A i \in 1..Len(h) : i # j /\ h[i].role = "assistant" => Answered(h, i, Len(h[i].calls))

Open(h, left) == InOrder(h) /\ \E j \in 1..Len(h) : OpenAt(h, j, left)

Ended(h) == h # <<>> => h[Len(h)].role = "assistant"

\* The calls left are the last ones of the request's answer.
LastCalls(k, left) ==
    \E n \in 1..MaxCalls[k] :
        /\ Len(left) <= n
        /\ \A i \in 1..Len(left) : left[i] = <<k, (n - Len(left)) + i>>

TalkIsFine(k) ==
    /\ Paired(req[k].sent) /\ Ended(req[k].sent)
    /\ req[k].at \in {"first", "plain", "second", "answered"} => Paired(req[k].messages)
    /\ req[k].at \in {"first", "plain", "second"} => req[k].messages # <<>>
    /\ req[k].at = "answered" => Ended(req[k].messages)
    /\ req[k].at = "tools" => Open(req[k].messages, req[k].left) /\ LastCalls(k, req[k].left)

ChatInv ==
    /\ ChatTypeOK
    /\ Paired(history) /\ Ended(history)
    /\ \A k \in Requests : TalkIsFine(k)

-----------------------------------------------------------------------------
(* Tool calls.                                                              *)

\* Nothing has been done by this call.
Untouched(call) ==
    /\ call \notin Effects
    /\ ~answer[call].success
    /\ work[call].at = "idle"

\* Its mail action is between its first and its last step.
AtWork(call) ==
    /\ call \notin rules
    /\ ~answer[call].success
    /\ work[call].at \in {"calling", "logging"}
    /\ work[call].ids # {}

\* Calls whose turn has not come have done nothing.
CallsAreFresh(k) ==
    /\ req[k].at \in {"unsent", "first", "plain"} =>
           \A call \in Calls : call[1] = k => Untouched(call)
    /\ req[k].at = "tools" =>
           /\ Untouched(CallOf(k)) \/ AtWork(CallOf(k))
           /\ \A i \in 2..Len(req[k].left) : Untouched(req[k].left[i])

\* What was done is reported, unless it is being done.
EffectsAreTold(k) ==
    \A call \in Calls : call \in Effects /\ call[1] = k =>
        /\ req[k].at \in {"second", "answered"} => Reports(req[k].messages, call)
        /\ req[k].at = "tools" => Reports(req[k].messages, call) \/ call = CallOf(k)

\* Something that stays done has been done by this call.
Earned(call) ==
    \/ call \in rules
    \/ answer[call].success
    \/ work[call].at = "answered" /\ work[call].ids # {}

Told(call) ==
    \/ Reports(history, call)
    \/ \E k \in Requests : Reports(req[k].messages, call) \/ Reports(req[k].sent, call)

ReportsAreEarned == \A call \in Calls : Told(call) => Earned(call)

\* What the mail actions do for a tool call, and what is logged in a dry run.
MailIsSound ==
    /\ MailProofs!IInv
    /\ \A e \in log : e.result = "ok" \/ dryRun
    /\ \A p \in applied : work[p[1]].at # "idle"

UnsubFine == Unsub!TypeOK /\ Unsub!SuccessWentOut /\ Unsub!OnlyWantedContacts

CallsFine == (\A k \in Requests : CallsAreFresh(k) /\ EffectsAreTold(k)) /\ ReportsAreEarned

IInv ==
    /\ ChatInv
    /\ MailIsSound
    /\ UnsubFine
    /\ rules \subseteq Calls
    /\ CallsFine
    /\ dryRun => applied = {}

-----------------------------------------------------------------------------
(* Sequences of messages.                                                   *)

\* The messages of a conversation that goes on.
LEMMA Longer ==
    ASSUME NEW h \in Seq(Message), NEW m \in Message
    PROVE  /\ Append(h, m) \in Seq(Message) /\ Append(h, m) # <<>>
           /\ Len(h) \in Nat /\ Len(Append(h, m)) = Len(h) + 1
           /\ \A i \in 1..Len(h) : Append(h, m)[i] = h[i]
           /\ Append(h, m)[Len(h) + 1] = m
  BY AppendProperties

\* An entry of a conversation is a message, with a sequence of calls.
LEMMA MessageAt ==
    ASSUME NEW h \in Seq(Message), NEW i \in 1..Len(h)
    PROVE  h[i] \in Message /\ h[i].calls \in Seq(Calls) /\ Len(h[i].calls) \in Nat
<1>1. h[i] \in Message
  BY ElementOfSeq
<1>2. QED
  BY <1>1, LenProperties DEF Message

\* What is only said is a message without calls.
LEMMA TextIsMessage ==
    ASSUME NEW role \in {"user", "assistant", "tool"}
    PROVE  /\ Text(role) \in Message
           /\ Text(role).role = role /\ Text(role).calls = <<>> /\ ~Text(role).did
<1>1. <<>> \in Seq(Calls)
  BY EmptySeq
<1>2. QED
  BY <1>1 DEF Text, Message

\* Paired in the words used here.
LEMMA PairedIsAnswered ==
    ASSUME NEW h
    PROVE  Paired(h) <=> /\ InOrder(h)
                         /\ \A i \in 1..Len(h) : h[i].role = "assistant"
                                => Answered(h, i, Len(h[i].calls))
  BY DEF Paired, InOrder, Answered

\* Results stay where they are when a conversation goes on.
LEMMA AnsweredStays ==
    ASSUME NEW h \in Seq(Message), NEW m \in Message, NEW j \in 1..Len(h), NEW n \in Nat,
           Answered(h, j, n)
    PROVE  Answered(Append(h, m), j, n)
<1> SUFFICES ASSUME NEW i \in 1..n
             PROVE  /\ j + i <= Len(Append(h, m))
                    /\ Append(h, m)[j+i].role = "tool"
                    /\ Append(h, m)[j+i].calls = <<Append(h, m)[j].calls[i]>>
  BY DEF Answered
<1>1. j + i <= Len(h) /\ h[j+i].role = "tool" /\ h[j+i].calls = <<h[j].calls[i]>>
  BY DEF Answered
<1>2. j \in 1..Len(h) /\ j + i \in 1..Len(h)
  BY <1>1, Longer
<1>3. Append(h, m)[j+i] = h[j+i] /\ Append(h, m)[j] = h[j]
  BY <1>2, Longer
<1>4. QED
  BY <1>1, <1>2, <1>3, Longer

\* The roles stay in order if the new one may come next.
LEMMA InOrderStays ==
    ASSUME NEW h \in Seq(Message), NEW m \in Message, InOrder(h),
           h = <<>> => m.role = "user",
           m.role = "user" => h = <<>> \/ h[Len(h)].role = "assistant",
           m.role = "tool" => \E j \in 1..Len(h) :
               h[j].role = "assistant" /\ (Len(h) + 1) - j <= Len(h[j].calls)
    PROVE  InOrder(Append(h, m))
<1> DEFINE g == Append(h, m)
<1>1. /\ g # <<>> /\ Len(h) \in Nat /\ Len(g) = Len(h) + 1
      /\ \A i \in 1..Len(h) : g[i] = h[i]
      /\ g[Len(h) + 1] = m
  BY Longer
<1> HIDE DEF g
<1>2. h # <<>> => 1 \in 1..Len(h) /\ Len(h) >= 1
  BY <1>1, EmptySeq
<1>3. g[1].role = "user"
  <2>1. CASE h = <<>>
    BY <1>1, <2>1, EmptySeq
  <2>2. CASE h # <<>>
    BY <1>1, <1>2, <2>2 DEF InOrder
  <2>3. QED
    BY <2>1, <2>2
<1>4. ASSUME NEW i \in 1..Len(g), g[i].role = "tool"
      PROVE  \E j \in 1..(i-1) : g[j].role = "assistant" /\ i - j <= Len(g[j].calls)
  <2>1. CASE i = Len(h) + 1
    <3>1. PICK j \in 1..Len(h) :
              h[j].role = "assistant" /\ (Len(h) + 1) - j <= Len(h[j].calls)
      BY <1>1, <1>4, <2>1
    <3>2. j \in 1..(i-1) /\ g[j] = h[j]
      BY <1>1, <2>1
    <3>3. QED
      BY <2>1, <3>1, <3>2
  <2>2. CASE i # Len(h) + 1
    <3>1. i \in 1..Len(h) /\ g[i] = h[i]
      BY <1>1, <2>2
    <3>2. PICK j \in 1..(i-1) : h[j].role = "assistant" /\ i - j <= Len(h[j].calls)
      BY <1>4, <3>1 DEF InOrder
    <3>3. g[j] = h[j]
      BY <1>1, <3>1
    <3>4. QED
      BY <3>2, <3>3
  <2>3. QED
    BY <2>1, <2>2
<1>5. ASSUME NEW i \in 1..Len(g), g[i].role = "user"
      PROVE  i = 1 \/ g[i-1].role = "assistant"
  <2>1. CASE i = Len(h) + 1
    <3>1. h = <<>> \/ h[Len(h)].role = "assistant"
      BY <1>1, <1>5, <2>1
    <3>2. h = <<>> => i = 1
      BY <2>1, EmptySeq
    <3>3. h # <<>> => g[i-1] = h[Len(h)]
      BY <1>1, <1>2, <2>1
    <3>4. QED
      BY <3>1, <3>2, <3>3
  <2>2. CASE i # Len(h) + 1
    <3>1. i \in 1..Len(h) /\ g[i] = h[i]
      BY <1>1, <2>2
    <3>2. i = 1 \/ h[i-1].role = "assistant"
      BY <1>5, <3>1 DEF InOrder
    <3>3. i # 1 => g[i-1] = h[i-1]
      BY <1>1, <3>1
    <3>4. QED
      BY <3>2, <3>3
  <2>3. QED
    BY <2>1, <2>2
<1>6. InOrder(g)
  BY <1>3, <1>4, <1>5 DEF InOrder
<1>7. QED
  BY <1>6 DEF g

\* The answers that had all their results still have them.
LEMMA AllAnsweredStay ==
    ASSUME NEW h \in Seq(Message), NEW m \in Message, NEW i \in 1..Len(h),
           Append(h, m)[i].role = "assistant",
           h[i].role = "assistant" => Answered(h, i, Len(h[i].calls))
    PROVE  Answered(Append(h, m), i, Len(Append(h, m)[i].calls))
<1>1. Append(h, m)[i] = h[i]
  BY Longer
<1>2. Len(h[i].calls) \in Nat
  BY MessageAt
<1>3. Answered(Append(h, m), i, Len(h[i].calls))
  BY <1>1, <1>2, AnsweredStays
<1>4. QED
  BY <1>1, <1>3

\* A text of the assistant may always follow a user's...
LEMMA TextFollows ==
    ASSUME NEW h \in Seq(Message), Paired(h), h # <<>>
    PROVE  Paired(Append(h, Text("assistant"))) /\ Ended(Append(h, Text("assistant")))
<1> DEFINE m == Text("assistant")
           g == Append(h, m)
<1>1. m \in Message /\ m.role = "assistant" /\ m.calls = <<>>
  BY TextIsMessage
<1> HIDE DEF m
<1>2. InOrder(g)
  BY <1>1, InOrderStays, PairedIsAnswered
<1>3. ASSUME NEW i \in 1..Len(g), g[i].role = "assistant"
      PROVE  Answered(g, i, Len(g[i].calls))
  <2>1. CASE i = Len(h) + 1
    <3>1. Len(g[i].calls) = 0
      BY <1>1, <2>1, Longer, EmptySeq
    <3>2. QED
      BY <3>1 DEF Answered
  <2>2. CASE i # Len(h) + 1
    <3>1. i \in 1..Len(h)
      BY <1>1, <2>2, Longer
    <3>2. QED
      BY <1>1, <1>3, <3>1, AllAnsweredStay, PairedIsAnswered
  <2>3. QED
    BY <2>1, <2>2
<1>4. Ended(g)
  BY <1>1, Longer DEF Ended
<1>5. Paired(g)
  BY <1>2, <1>3, PairedIsAnswered
<1>6. QED
  BY <1>4, <1>5 DEF m

\* ...a text of the user an answer, or nothing.
LEMMA UserFollows ==
    ASSUME NEW h \in Seq(Message), Paired(h), Ended(h)
    PROVE  Paired(Append(h, Text("user")))
<1> DEFINE m == Text("user")
           g == Append(h, m)
<1>1. m \in Message /\ m.role = "user"
  BY TextIsMessage
<1> HIDE DEF m
<1>2. InOrder(g)
  BY <1>1, InOrderStays, PairedIsAnswered DEF Ended
<1>3. ASSUME NEW i \in 1..Len(g), g[i].role = "assistant"
      PROVE  Answered(g, i, Len(g[i].calls))
  <2>1. i \in 1..Len(h)
    BY <1>1, <1>3, Longer
  <2>2. QED
    BY <1>1, <1>3, <2>1, AllAnsweredStay, PairedIsAnswered
<1>4. Paired(g)
  BY <1>2, <1>3, PairedIsAnswered
<1>5. QED
  BY <1>4 DEF m

\* An answer with tool calls leaves all of them to be made.
LEMMA CallsFollow ==
    ASSUME NEW h \in Seq(Message), Paired(h), h # <<>>,
           NEW m \in Message, m.role = "assistant"
    PROVE  Open(Append(h, m), m.calls)
<1> DEFINE g == Append(h, m)
           j == Len(h) + 1
<1>1. InOrder(g)
  BY InOrderStays, PairedIsAnswered
<1>2. /\ j \in 1..Len(g) /\ g[j] = m /\ Len(g) = j /\ Len(h) \in Nat
  BY Longer
<1>3. Len(m.calls) \in Nat
  BY <1>2, Longer, MessageAt
<1>4. ASSUME NEW i \in 1..Len(g), i # j, g[i].role = "assistant"
      PROVE  Answered(g, i, Len(g[i].calls))
  <2>1. i \in 1..Len(h)
    BY <1>2, <1>4
  <2>2. QED
    BY <1>4, <2>1, AllAnsweredStay, PairedIsAnswered
<1> HIDE DEF g, j
<1>5. Answered(g, j, Len(g) - j)
  BY <1>2 DEF Answered, j
<1>6. OpenAt(g, j, m.calls)
  BY <1>2, <1>3, <1>4, <1>5 DEF OpenAt, j
<1>7. Open(g, m.calls)
  BY <1>1, <1>2, <1>6 DEF Open
<1>8. QED
  BY <1>7 DEF g

\* The result of the next call leaves the others.
LEMMA ResultFollows ==
    ASSUME NEW h \in Seq(Message), NEW left \in Seq(Calls), left # <<>>, Open(h, left),
           NEW m \in Message, m.role = "tool", m.calls = <<Head(left)>>
    PROVE  Open(Append(h, m), Tail(left))
<1> DEFINE g == Append(h, m)
<1>1. PICK j \in 1..Len(h) : OpenAt(h, j, left)
  BY DEF Open
<1>2. /\ Len(g) = Len(h) + 1 /\ Len(h) \in Nat /\ g[Len(h) + 1] = m
      /\ \A i \in 1..Len(h) : g[i] = h[i]
  BY Longer
<1> DEFINE rest == Tail(left)
<1>3. /\ Len(left) \in Nat /\ Len(left) >= 1 /\ Head(left) = left[1]
      /\ Len(rest) = Len(left) - 1
      /\ \A i \in 1..Len(rest) : rest[i] = left[i+1]
  BY HeadTailProperties, EmptySeq, LenProperties
<1>4. /\ h[j].role = "assistant" /\ Len(h[j].calls) = (Len(h) - j) + Len(left)
      /\ \A i \in 1..Len(left) : h[j].calls[(Len(h) - j) + i] = left[i]
      /\ Answered(h, j, Len(h) - j)
      /\ \A i \in 1..Len(h) : i # j /\ h[i].role = "assistant" =>
             Answered(h, i, Len(h[i].calls))
  BY <1>1 DEF OpenAt
<1>5. InOrder(g)
  <2>1. h # <<>> /\ InOrder(h)
    BY <1>2, EmptySeq DEF Open
  <2>2. (Len(h) + 1) - j <= Len(h[j].calls)
    BY <1>2, <1>3, <1>4
  <2>3. QED
    BY <1>4, <2>1, <2>2, InOrderStays
<1>6. Answered(g, j, Len(g) - j)
  <2>1. Answered(g, j, Len(h) - j)
    BY <1>2, <1>4, AnsweredStays
  <2>2. h[j].calls[(Len(h) - j) + 1] = left[1]
    BY <1>3, <1>4
  <2> SUFFICES ASSUME NEW i \in 1..(Len(g) - j)
               PROVE  /\ j + i <= Len(g) /\ g[j+i].role = "tool"
                      /\ g[j+i].calls = <<g[j].calls[i]>>
    BY DEF Answered
  <2>3. CASE i \in 1..(Len(h) - j)
    BY <2>1, <2>3 DEF Answered
  <2>4. CASE i = (Len(h) - j) + 1
    <3>1. j + i = Len(h) + 1 /\ g[j] = h[j]
      BY <1>2, <2>4
    <3>2. g[j+i] = m /\ g[j].calls[i] = Head(left)
      BY <1>2, <1>3, <2>2, <2>4, <3>1
    <3>3. QED
      BY <1>2, <3>1, <3>2
  <2>5. QED
    BY <1>2, <2>3, <2>4
<1>7. ASSUME NEW i \in 1..Len(g), i # j, g[i].role = "assistant"
      PROVE  Answered(g, i, Len(g[i].calls))
  <2>1. i \in 1..Len(h)
    BY <1>2, <1>7
  <2>2. QED
    BY <1>2, <1>4, <1>7, <2>1, AllAnsweredStay
<1> HIDE DEF g, rest
<1>8. OpenAt(g, j, rest)
  <2>1. g[j] = h[j] /\ Len(g[j].calls) = (Len(g) - j) + Len(rest)
    BY <1>2, <1>3, <1>4
  <2>2. ASSUME NEW i \in 1..Len(rest)
        PROVE  g[j].calls[(Len(g) - j) + i] = rest[i]
    <3>1. i + 1 \in 1..Len(left) /\ (Len(g) - j) + i = (Len(h) - j) + (i + 1)
      BY <1>2, <1>3
    <3>2. QED
      BY <1>3, <1>4, <2>1, <3>1
  <2>3. QED
    BY <1>4, <1>6, <1>7, <2>1, <2>2 DEF OpenAt
<1>9. Open(g, rest)
  BY <1>2, <1>5, <1>8 DEF Open
<1>10. QED
  BY <1>9 DEF g, rest

\* With no call left a conversation is whole again.
LEMMA NoneLeft ==
    ASSUME NEW h \in Seq(Message), Open(h, <<>>)
    PROVE  Paired(h) /\ h # <<>>
<1>1. PICK j \in 1..Len(h) : OpenAt(h, j, <<>>)
  BY DEF Open
<1>2. Len(h[j].calls) = Len(h) - j
  <2>1. Len(h[j].calls) = (Len(h) - j) + 0 /\ Len(h) \in Nat
    BY <1>1, EmptySeq, LenProperties DEF OpenAt
  <2>2. QED
    BY <2>1
<1>3. \A i \in 1..Len(h) : h[i].role = "assistant" => Answered(h, i, Len(h[i].calls))
  BY <1>1, <1>2 DEF OpenAt
<1>4. QED
  BY <1>1, <1>3, PairedIsAnswered, EmptySeq DEF Open

-----------------------------------------------------------------------------
(* ChatInv.                                                                 *)

Places == {"unsent", "first", "plain", "tools", "second", "answered", "error", "over"}

\* A step of the chat: the page's, the LLM's, or that of a tool which is through.
ChatStep ==
    \/ Talk
    \/ \E k \in Requests : ExecuteRaises(k) \/ \E did \in BOOLEAN : Execute(k, did)
    \/ UNCHANGED chatVars

\* What Goes does to a request.
Gone(k, at, messages, left) ==
    /\ req' \in [Requests -> Request]
    /\ req'[k].at = at /\ req'[k].sent = req[k].sent
    /\ req'[k].messages = messages /\ req'[k].left = left
    /\ \A j \in Requests : j # k => req'[j] = req[j]

\* Goes changes one request, and that as it says.
LEMMA GoesGone ==
    ASSUME ChatTypeOK, NEW k \in Requests, NEW at \in Places, NEW messages \in Seq(Message),
           NEW left \in Seq(Calls), Goes(k, at, messages, left)
    PROVE  Gone(k, at, messages, left)
<1> DEFINE r == [at |-> at, sent |-> req[k].sent, messages |-> messages, left |-> left]
<1>1. req \in [Requests -> Request] /\ req[k] \in Request
  BY DEF ChatTypeOK
<1>2. r \in Request /\ r.at = at /\ r.sent = req[k].sent /\ r.messages = messages /\ r.left = left
  BY <1>1 DEF Request, Places
<1>3. req' = [req EXCEPT ![k] = r]
  BY DEF Goes
<1> HIDE DEF r
<1>4. QED
  BY <1>1, <1>2, <1>3 DEF Gone

\* What a request has in hand.
LEMMA InHand ==
    ASSUME ChatTypeOK, NEW k \in Requests
    PROVE  /\ req[k].at \in Places
           /\ req[k].sent \in Seq(Message) /\ req[k].messages \in Seq(Message)
           /\ req[k].left \in Seq(Calls)
           /\ req[k].at = "tools" <=> req[k].left # <<>>
  BY DEF ChatTypeOK, Request, Places

\* The call whose turn it is, and the others.
LEMMA CallsInHand ==
    ASSUME ChatTypeOK, NEW k \in Requests, req[k].at = "tools"
    PROVE  LET left == req[k].left IN
           /\ left \in Seq(Calls) /\ left # <<>> /\ Len(left) \in Nat /\ Len(left) >= 1
           /\ CallOf(k) \in Calls /\ CallOf(k) = left[1]
           /\ Tail(left) \in Seq(Calls) /\ Len(Tail(left)) = Len(left) - 1
           /\ \A i \in 1..Len(left) - 1 : Tail(left)[i] = left[i+1]
           /\ Tail(left) = <<>> <=> Len(left) = 1
<1> DEFINE left == req[k].left
<1>1. left \in Seq(Calls) /\ left # <<>>
  BY InHand
<1> HIDE DEF left
<1>2. /\ Len(left) \in Nat /\ Len(left) >= 1
      /\ Head(left) \in Calls /\ Head(left) = left[1]
      /\ Tail(left) \in Seq(Calls) /\ Len(Tail(left)) = Len(left) - 1
      /\ \A i \in 1..Len(left) - 1 : Tail(left)[i] = left[i+1]
  BY <1>1, HeadTailProperties, EmptySeq, LenProperties
<1>3. Tail(left) = <<>> <=> Len(left) = 1
  BY <1>2, EmptySeq
<1>4. QED
  BY <1>1, <1>2, <1>3 DEF left, CallOf

\* A request that does not move is still fine.
LEMMA OthersFine ==
    ASSUME NEW j \in Requests, TalkIsFine(j), req'[j] = req[j]
    PROVE  TalkIsFine(j)'
  BY DEF TalkIsFine

\* What must be true of a request for its conversation to be fine.
Fine(k, at, messages, left) ==
    /\ at \in {"first", "plain", "second", "answered"} => Paired(messages)
    /\ at \in {"first", "plain", "second"} => messages # <<>>
    /\ at = "answered" => Ended(messages)
    /\ at = "tools" => Open(messages, left) /\ LastCalls(k, left)

\* A request that goes on to a conversation that is Fine there keeps ChatInv.
LEMMA GoesKeeps ==
    ASSUME ChatInv, NEW k \in Requests, NEW at \in Places, NEW messages \in Seq(Message),
           NEW left \in Seq(Calls), Goes(k, at, messages, left), UNCHANGED <<history, waiting>>,
           at = "tools" <=> left # <<>>, Fine(k, at, messages, left)
    PROVE  ChatInv'
<1>1. ChatTypeOK /\ \A j \in Requests : TalkIsFine(j)
  BY DEF ChatInv
<1>2. Gone(k, at, messages, left)
  BY <1>1, GoesGone
<1>3. ChatTypeOK'
  BY <1>1, <1>2 DEF ChatTypeOK, Gone
<1>4. TalkIsFine(k)'
  BY <1>1, <1>2 DEF TalkIsFine, Fine, Gone
<1>5. \A j \in Requests : TalkIsFine(j)'
  BY <1>1, <1>2, <1>4, OthersFine DEF Gone
<1>6. QED
  BY <1>3, <1>5 DEF ChatInv

\* A new turn starts from a history that has ended.
LEMMA SendKeeps == ASSUME ChatInv, Send PROVE ChatInv'
<1>1. PICK k \in Requests :
        /\ req' = [req EXCEPT ![k] = [at |-> "first", sent |-> history,
                       messages |-> Append(history, Text("user")), left |-> <<>>]]
        /\ waiting' = k
  BY DEF Send
<1>2. /\ ChatTypeOK /\ history \in Seq(Message) /\ UNCHANGED history
      /\ Paired(history) /\ Ended(history)
  BY DEF ChatInv, ChatTypeOK, Send
<1> DEFINE m == Append(history, Text("user"))
           r == [at |-> "first", sent |-> history, messages |-> m, left |-> <<>>]
<1>3. m \in Seq(Message) /\ m # <<>> /\ Paired(m)
  BY <1>2, TextIsMessage, Longer, UserFollows
<1> HIDE DEF m
<1>4. /\ r \in Request /\ r.at = "first" /\ r.sent = history /\ r.messages = m
      /\ r.left = <<>>
  <2>1. <<>> \in Seq(Calls)
    BY EmptySeq
  <2>2. QED
    BY <1>2, <1>3, <2>1 DEF Request
<1>5. req' = [req EXCEPT ![k] = r]
  BY <1>1 DEF m
<1> HIDE DEF r
<1>6. req' \in [Requests -> Request] /\ req'[k] = r /\ \A j \in Requests : j # k => req'[j] = req[j]
  BY <1>2, <1>4, <1>5 DEF ChatTypeOK
<1>7. TalkIsFine(k)'
  BY <1>2, <1>3, <1>4, <1>6 DEF TalkIsFine
<1>8. \A j \in Requests : TalkIsFine(j)'
  BY <1>6, <1>7, OthersFine DEF ChatInv
<1>9. ChatTypeOK'
  <2>1. waiting' \in 0..MaxTurns
    BY <1>1, BoundAssumption DEF Requests
  <2>2. QED
    BY <1>2, <1>4, <1>6, <2>1 DEF ChatTypeOK
<1>10. QED
  BY <1>2, <1>8, <1>9 DEF ChatInv

\* The page takes over what the request was sent with, or what it has come to.
LEMMA DeliverKeeps == ASSUME ChatInv, NEW k \in Requests, Deliver(k) PROVE ChatInv'
<1>1. /\ req[k].at \in {"answered", "error"}
      /\ req' = [req EXCEPT ![k] = Idle("over")]
      /\ \/ history' = req[k].sent /\ waiting' = 0
         \/ req[k].at = "answered" /\ history' = req[k].messages /\ waiting' = 0
         \/ UNCHANGED <<history, waiting>>
  BY DEF Deliver, ErrorHistory
<1>2. ChatTypeOK /\ TalkIsFine(k)
  BY DEF ChatInv
<1>3. /\ Idle("over") \in Request /\ Idle("over").at = "over" /\ Idle("over").sent = <<>>
      /\ Idle("over").messages = <<>> /\ Idle("over").left = <<>>
  <2>1. <<>> \in Seq(Calls) /\ <<>> \in Seq(Message)
    BY EmptySeq
  <2>2. QED
    BY <2>1 DEF Idle, Request
<1>4. /\ req' \in [Requests -> Request] /\ req'[k] = Idle("over")
      /\ \A j \in Requests : j # k => req'[j] = req[j]
  BY <1>1, <1>2, <1>3 DEF ChatTypeOK
<1>5. Paired(<<>>) /\ Ended(<<>>)
  BY EmptySeq DEF Paired, Ended
<1>6. TalkIsFine(k)'
  BY <1>3, <1>4, <1>5 DEF TalkIsFine
<1>7. \A j \in Requests : TalkIsFine(j)'
  BY <1>4, <1>6, OthersFine DEF ChatInv
<1>8. history' \in Seq(Message) /\ Paired(history') /\ Ended(history')
  BY <1>1, <1>2, InHand DEF ChatInv, ChatTypeOK, TalkIsFine
<1>9. ChatTypeOK'
  <2>1. waiting' \in 0..MaxTurns
    BY <1>1, <1>2, BoundAssumption DEF ChatTypeOK
  <2>2. QED
    BY <1>2, <1>3, <1>4, <1>8, <2>1 DEF ChatTypeOK
<1>10. QED
  BY <1>7, <1>8, <1>9 DEF ChatInv

\* An answer in words.
LEMMA ReplyKeeps == ASSUME ChatInv, NEW k \in Requests, Reply(k) \/ Summarize(k) PROVE ChatInv'
<1> DEFINE m == Append(req[k].messages, Text("assistant"))
<1>1. /\ req[k].at \in {"first", "plain", "second"} /\ UNCHANGED <<history, waiting>>
      /\ Goes(k, "answered", m, req[k].left)
  BY DEF Reply, Summarize, OutHistory
<1>2. ChatTypeOK /\ TalkIsFine(k)
  BY DEF ChatInv
<1>3. /\ req[k].messages \in Seq(Message) /\ Paired(req[k].messages)
      /\ req[k].messages # <<>> /\ req[k].left = <<>> /\ <<>> \in Seq(Calls)
  BY <1>1, <1>2, InHand, EmptySeq DEF TalkIsFine
<1>4. m \in Seq(Message) /\ Paired(m) /\ Ended(m)
  BY <1>3, TextIsMessage, Longer, TextFollows
<1> HIDE DEF m
<1>5. Fine(k, "answered", m, <<>>)
  BY <1>4 DEF Fine
<1>6. QED
  BY <1>1, <1>3, <1>4, <1>5, GoesKeeps DEF Places

\* The message an answer with n tool calls adds.
Calling(k, n) == [role |-> "assistant", calls |-> [i \in 1..n |-> <<k, i>>], did |-> FALSE]

\* An answer with tool calls lists each call once, in order.
LEMMA CallingFields ==
    ASSUME NEW k \in Requests, NEW n \in 1..MaxCalls[k]
    PROVE  /\ Calling(k, n) \in Message /\ Calling(k, n).role = "assistant"
           /\ Calling(k, n).calls \in Seq(Calls) /\ Calling(k, n).calls # <<>>
           /\ Len(Calling(k, n).calls) = n /\ n \in Nat
           /\ \A i \in 1..n : Calling(k, n).calls[i] = <<k, i>>
<1> DEFINE ids == [i \in 1..n |-> <<k, i>>]
<1>1. MaxCalls[k] \in Nat /\ n \in Nat
  BY BoundAssumption
<1>2. \A i \in 1..n : <<k, i>> \in Calls
  BY <1>1 DEF Calls
<1>3. ids \in [1..n -> Calls]
  BY <1>2
<1>4. ids \in Seq(Calls)
  BY <1>1, <1>3
<1>5. DOMAIN ids = 1..n
  OBVIOUS
<1>6. Len(ids) = n
  BY <1>1, <1>4, <1>5, LenProperties
<1>7. ids # <<>>
  BY <1>1, <1>6, EmptySeq
<1>8. QED
  BY <1>1, <1>4, <1>6, <1>7 DEF Calling, Message

\* Right after it, all calls of an answer are left.
LEMMA CallToolsKeeps == ASSUME ChatInv, NEW k \in Requests, CallTools(k) PROVE ChatInv'
<1>1. PICK n \in 1..MaxCalls[k] :
        Goes(k, "tools", Append(req[k].messages, Calling(k, n)), Calling(k, n).calls)
  BY DEF CallTools, Calling
<1>2. req[k].at \in {"first", "plain"} /\ UNCHANGED <<history, waiting>>
  BY DEF CallTools
<1> DEFINE c == Calling(k, n)
           m == Append(req[k].messages, c)
<1>3. ChatTypeOK /\ TalkIsFine(k)
  BY DEF ChatInv
<1>4. /\ req[k].messages \in Seq(Message) /\ Paired(req[k].messages)
      /\ req[k].messages # <<>>
  BY <1>2, <1>3, InHand DEF TalkIsFine
<1>5. /\ c \in Message /\ c.role = "assistant" /\ c.calls \in Seq(Calls) /\ c.calls # <<>>
      /\ Len(c.calls) = n /\ n \in Nat /\ \A i \in 1..n : c.calls[i] = <<k, i>>
  BY CallingFields
<1> HIDE DEF c
<1>6. m \in Seq(Message) /\ Open(m, c.calls)
  BY <1>4, <1>5, Longer, CallsFollow
<1>7. LastCalls(k, c.calls)
  <2>1. Len(c.calls) <= n /\ \A i \in 1..Len(c.calls) : (n - Len(c.calls)) + i = i
    BY <1>5
  <2>2. \A i \in 1..Len(c.calls) : c.calls[i] = <<k, (n - Len(c.calls)) + i>>
    BY <1>5, <2>1
  <2>3. QED
    BY <2>1, <2>2 DEF LastCalls
<1> HIDE DEF m
<1>8. Fine(k, "tools", m, c.calls)
  BY <1>6, <1>7 DEF Fine
<1>9. Goes(k, "tools", m, c.calls)
  BY <1>1 DEF m, c
<1>10. QED
  BY <1>2, <1>5, <1>6, <1>8, <1>9, GoesKeeps DEF Places

\* The message a tool's result adds.
Result(call, did) == [role |-> "tool", calls |-> <<call>>, did |-> did]

\* A tool result answers one call.
LEMMA ResultFields ==
    ASSUME NEW call \in Calls, NEW did \in BOOLEAN
    PROVE  /\ Result(call, did) \in Message /\ Result(call, did).role = "tool"
           /\ Result(call, did).calls = <<call>> /\ Result(call, did).did = did
<1>1. <<call>> \in Seq(Calls)
  OBVIOUS
<1>2. QED
  BY <1>1 DEF Result, Message

\* The calls that are left are the last ones still.
LEMMA LastCallsRest ==
    ASSUME NEW k \in Requests, NEW left \in Seq(Calls), left # <<>>, LastCalls(k, left)
    PROVE  LastCalls(k, Tail(left))
<1>1. PICK n \in 1..MaxCalls[k] :
        Len(left) <= n /\ \A i \in 1..Len(left) : left[i] = <<k, (n - Len(left)) + i>>
  BY DEF LastCalls
<1>2. n \in Nat
  BY BoundAssumption
<1> DEFINE rest == Tail(left)
<1>3. /\ Len(left) \in Nat /\ Len(left) >= 1 /\ Len(rest) = Len(left) - 1
      /\ \A i \in 1..Len(rest) : rest[i] = left[i+1]
  BY HeadTailProperties, EmptySeq, LenProperties
<1> HIDE DEF rest
<1>4. ASSUME NEW i \in 1..Len(rest) PROVE rest[i] = <<k, (n - Len(rest)) + i>>
  <2>1. i + 1 \in 1..Len(left) /\ (n - Len(left)) + (i + 1) = (n - Len(rest)) + i
    BY <1>2, <1>3
  <2>2. QED
    BY <1>1, <1>3, <2>1
<1>5. Len(rest) <= n
  BY <1>1, <1>2, <1>3
<1>6. LastCalls(k, rest)
  BY <1>4, <1>5 DEF LastCalls
<1>7. QED
  BY <1>6 DEF rest

\* A tool that returns adds the result of the first call left.
LEMMA ExecuteKeeps ==
    ASSUME ChatInv, NEW k \in Requests, NEW did \in BOOLEAN, Execute(k, did) PROVE ChatInv'
<1> DEFINE left == req[k].left
           h == req[k].messages
           m == Result(CallOf(k), did)
           at == AfterCall(left)
<1>1. /\ req[k].at = "tools" /\ UNCHANGED <<history, waiting>>
      /\ Goes(k, at, Append(h, m), Tail(left))
  BY DEF Execute, Result
<1>2. ChatTypeOK /\ TalkIsFine(k)
  BY DEF ChatInv
<1>3. /\ left \in Seq(Calls) /\ left # <<>> /\ Tail(left) \in Seq(Calls)
      /\ Tail(left) = <<>> <=> Len(left) = 1
      /\ CallOf(k) \in Calls /\ CallOf(k) = Head(left) /\ h \in Seq(Message)
  BY <1>1, <1>2, CallsInHand, InHand DEF CallOf
<1>4. Open(h, left) /\ LastCalls(k, left)
  BY <1>1, <1>2 DEF TalkIsFine
<1>5. m \in Message /\ m.role = "tool" /\ m.calls = <<Head(left)>>
  BY <1>3, ResultFields
<1>6. at \in Places /\ (at = "tools" <=> Tail(left) # <<>>) /\ at \in {"tools", "second"}
  BY <1>3 DEF AfterCall, Places
<1> HIDE DEF m, left, h, at
<1>7. Append(h, m) \in Seq(Message) /\ Open(Append(h, m), Tail(left)) /\ LastCalls(k, Tail(left))
  BY <1>3, <1>4, <1>5, Longer, ResultFollows, LastCallsRest
<1>8. Tail(left) = <<>> => Paired(Append(h, m)) /\ Append(h, m) # <<>>
  BY <1>7, NoneLeft
<1>9. Fine(k, at, Append(h, m), Tail(left))
  BY <1>6, <1>7, <1>8 DEF Fine
<1>10. QED
  BY <1>1, <1>3, <1>6, <1>7, <1>9, GoesKeeps

\* Whatever ends with an error keeps what the request was sent with.
LEMMA ErrorKeeps ==
    ASSUME ChatInv, NEW k \in Requests, Error(k) \/ ExecuteRaises(k) PROVE ChatInv'
<1>1. ChatTypeOK /\ req[k].messages \in Seq(Message) /\ <<>> \in Seq(Calls)
      /\ (req[k].at = "tools" <=> req[k].left # <<>>)
  BY InHand, EmptySeq DEF ChatInv
<1>2. UNCHANGED <<history, waiting>> /\ Goes(k, "error", req[k].messages, <<>>)
  BY <1>1 DEF Error, ExecuteRaises
<1>3. Fine(k, "error", req[k].messages, <<>>)
  BY DEF Fine
<1>4. QED
  BY <1>1, <1>2, <1>3, GoesKeeps DEF Places

\* The call without tools has the conversation of the one with tools.
LEMMA FallBackKeeps == ASSUME ChatInv, NEW k \in Requests, FallBack(k) PROVE ChatInv'
<1>1. ChatTypeOK /\ req[k].messages \in Seq(Message) /\ <<>> \in Seq(Calls)
      /\ TalkIsFine(k) /\ (req[k].at = "tools" <=> req[k].left # <<>>)
  BY InHand, EmptySeq DEF ChatInv
<1>2. /\ UNCHANGED <<history, waiting>> /\ req[k].at = "first"
      /\ Goes(k, "plain", req[k].messages, <<>>)
  BY <1>1 DEF FallBack
<1>3. Fine(k, "plain", req[k].messages, <<>>)
  BY <1>1, <1>2 DEF Fine, TalkIsFine
<1>4. QED
  BY <1>1, <1>2, <1>3, GoesKeeps DEF Places

\* Whatever a step does to the conversations, it keeps ChatInv.
LEMMA ChatKeeps == ASSUME ChatInv, ChatStep PROVE ChatInv'
<1>1. CASE Disconnect \/ Clear
  <2>1. UNCHANGED req /\ history' \in {history, <<>>} /\ waiting' \in {waiting, 0}
    BY <1>1 DEF Disconnect, Clear
  <2>2. /\ <<>> \in Seq(Message) /\ Paired(<<>>) /\ Ended(<<>>)
        /\ 0 \in 0..MaxTurns
    BY EmptySeq, BoundAssumption DEF Paired, Ended
  <2>3. ChatTypeOK' /\ Paired(history') /\ Ended(history')
    BY <2>1, <2>2 DEF ChatInv, ChatTypeOK
  <2>4. \A k \in Requests : TalkIsFine(k)'
    BY <2>1, OthersFine DEF ChatInv
  <2>5. QED
    BY <2>3, <2>4 DEF ChatInv
<1>2. CASE UNCHANGED chatVars
  <2>1. UNCHANGED <<req, history, waiting>>
    BY <1>2 DEF chatVars
  <2>2. \A k \in Requests : TalkIsFine(k)'
    BY <2>1, OthersFine DEF ChatInv
  <2>3. QED
    BY <2>1, <2>2 DEF ChatInv, ChatTypeOK
<1>3. QED
  BY <1>1, <1>2, SendKeeps, DeliverKeeps, ReplyKeeps, CallToolsKeeps, ExecuteKeeps, ErrorKeeps,
     FallBackKeeps DEF ChatStep, Talk

-----------------------------------------------------------------------------
(* The tools that move mail are requests of MailActions.                    *)

\* The steps are those that MailActionsProofs is about.
LEMMA MailSteps ==
    ASSUME NEW c, Mail!RequestStep(c) PROVE MailProofs!RequestStep(c)
<1>1. ASSUME NEW action, NEW s, Mail!SelectSender(c, action, s)
      PROVE  MailProofs!SelectSender(c, action, s)
  BY <1>1, Zenon
  DEF Mail!SelectSender, MailProofs!SelectSender, Mail!Begin, MailProofs!Begin, Mail!AfterSelect,
      MailProofs!AfterSelect, Mail!settings, MailProofs!settings
<1>2. ASSUME Mail!SelectIds(c) PROVE MailProofs!SelectIds(c)
  BY <1>2, Zenon
  DEF Mail!SelectIds, MailProofs!SelectIds, Mail!Begin, MailProofs!Begin, Mail!AfterSelect,
      MailProofs!AfterSelect, Mail!Actions, MailProofs!Actions, Mail!settings,
      MailProofs!settings
<1>3. ASSUME Mail!Call(c) PROVE MailProofs!Call(c)
  BY <1>3, Zenon
  DEF Mail!Call, MailProofs!Call, Mail!OneCall, MailProofs!OneCall, Mail!Reachable,
      MailProofs!Reachable, Mail!Carried, MailProofs!Carried, Mail!settings, MailProofs!settings,
      Mail!Cardinality, MailProofs!Cardinality
<1>4. ASSUME Mail!Returned(c) PROVE MailProofs!Returned(c)
  BY <1>4, Zenon DEF Mail!Returned, MailProofs!Returned, Mail!settings, MailProofs!settings
<1>5. ASSUME Mail!Commit(c) PROVE MailProofs!Commit(c)
  BY <1>5, Zenon
  DEF Mail!Commit, MailProofs!Commit, Mail!Rows, MailProofs!Rows, Mail!Changed,
      MailProofs!Changed, Mail!LocalLabels, MailProofs!LocalLabels, Mail!SessionClosed,
      MailProofs!SessionClosed, Mail!NoLabels, MailProofs!NoLabels, Mail!settings,
      MailProofs!settings
<1>6. ASSUME Mail!Fail(c) PROVE MailProofs!Fail(c)
  BY <1>6, Zenon
  DEF Mail!Fail, MailProofs!Fail, Mail!SessionClosed, MailProofs!SessionClosed,
      Mail!NoLabels, MailProofs!NoLabels, Mail!settings, MailProofs!settings
<1>7. QED
  BY <1>1, <1>2, <1>3, <1>4, <1>5, <1>6 DEF Mail!RequestStep, MailProofs!RequestStep

\* Each step is one of a tool call's request, or none of MailActions.
LEMMA NextIsMail ==
    ASSUME ChatTypeOK, [Next]_vars
    PROVE  \/ \E c \in Calls : Mail!RequestStep(c)
           \/ UNCHANGED Mail!vars
<1>1. CASE \E k \in Requests : UseTool(k)
  <2>1. PICK k \in Requests : UseTool(k)
    BY <1>1
  <2>2. CASE SelectRows(k) \/ AtProvider(k) \/ MailDone(k) \/ MailFails(k)
    <3>1. Mail!RequestStep(CallOf(k))
      BY <2>2 DEF SelectRows, AtProvider, MailDone, MailFails, Mail!RequestStep
    <3>2. req[k].at = "tools"
      BY <2>2 DEF SelectRows, AtProvider, MailDone, MailFails, Due, Busy
    <3>3. QED
      BY <3>1, <3>2, CallsInHand
  <2>3. CASE Look(k) \/ UnsubscribeTool(k) \/ AddRule(k)
    BY <2>3 DEF Look, UnsubscribeTool, AddRule, mailVars, settings, Mail!vars, Mail!settings
  <2>4. QED
    BY <2>1, <2>2, <2>3 DEF UseTool
<1>2. CASE WebUnsubscribe
  BY <1>2 DEF WebUnsubscribe, Unsub!ByMessage, Unsub!UnsubscribeMessage, mailVars, Mail!vars,
              Mail!settings
<1>3. CASE Talk /\ UNCHANGED <<settings, stored, mailVars, unsubVars, rules>>
  BY <1>3 DEF mailVars, settings, Mail!vars, Mail!settings
<1>4. CASE UNCHANGED vars
  BY <1>4 DEF vars, mailVars, settings, Mail!vars, Mail!settings
<1>5. QED
  BY <1>1, <1>2, <1>3, <1>4 DEF Next

\* What a mail action of the call c changes: nothing of another call.
MailMoves(c) ==
    /\ \A d \in Calls : d # c => work'[d] = work[d]
    /\ UNCHANGED <<provider, dryRun, stored>>
    /\ applied \subseteq applied'
    /\ \A p \in applied' : p \in applied \/ (p[1] = c /\ ~dryRun)
    /\ log \subseteq log'
    /\ \A e \in log' : e \in log \/ (e.by = c /\ (e.result = "ok" \/ dryRun))
    /\ work'[c].at # "idle"

\* The sessions of the tool calls.
LEMMA WorkTypes ==
    ASSUME MailProofs!IInv
    PROVE  /\ work \in [Calls -> MailProofs!Request]
           /\ applied \subseteq Calls \X Messages /\ log \subseteq MailProofs!LogRow
           /\ stored \subseteq Messages
           /\ \A c \in Calls : work[c].at = "calling" => ~dryRun
  BY DEF MailProofs!IInv, MailProofs!TypeOK, MailProofs!Sound, MailProofs!NothingCalledDry

\* The same of where its session is.
Selected(c, ids) ==
    /\ work'[c].ids = ids
    /\ work'[c].at \in {"calling", "logging", "answered"}
    /\ work'[c].at = "answered" <=> ids = {}

\* Selecting by sender begins a mail action, and logs nothing.
LEMMA SelectMoves ==
    ASSUME MailProofs!IInv, NEW c \in Calls, NEW action, NEW s, Mail!SelectSender(c, action, s)
    PROVE  /\ MailMoves(c) /\ UNCHANGED <<applied, log>>
           /\ \E ids : Selected(c, ids)
<1> DEFINE all == {m \in stored : SenderOf[m] = s}
<1>0. PICK ids \in (IF action = "trash" THEN SUBSET all ELSE {all}) :
          Mail!Begin(c, action, ids, IF ids = {} THEN "answered" ELSE Mail!AfterSelect)
  BY DEF Mail!SelectSender
<1> DEFINE at == IF ids = {} THEN "answered" ELSE Mail!AfterSelect
           r == [at |-> at, action |-> action, ids |-> ids, left |-> ids,
                 loaded |-> [m \in Messages |-> IF m \in ids THEN labels[m] ELSE {}]]
<1>1. work' = [work EXCEPT ![c] = r] /\ UNCHANGED <<provider, dryRun, stored, applied, log>>
  BY <1>0 DEF Mail!Begin, Mail!settings
<1>2. at \in {"calling", "logging", "answered"} /\ (at = "answered" <=> ids = {})
  BY DEF Mail!AfterSelect
<1>3. r.at = at /\ r.ids = ids
  OBVIOUS
<1> HIDE DEF r, at
<1>4. work'[c] = r /\ \A d \in Calls : d # c => work'[d] = work[d]
  BY <1>1, WorkTypes
<1>5. QED
  BY <1>1, <1>2, <1>3, <1>4 DEF MailMoves, Selected

\* Up to the commit a session keeps what it selected.
GoesOn(c, at) == work'[c].ids = work[c].ids /\ work'[c].at = at

\* The provider's call is of messages the tool call has selected.
LEMMA CallMoves ==
    ASSUME MailProofs!IInv, NEW c \in Calls, Mail!Call(c)
    PROVE  MailMoves(c) /\ GoesOn(c, "calling") /\ UNCHANGED log
<1>1. PICK S \in SUBSET work[c].left :
        /\ applied' = applied \cup ({c} \X {m \in S : Mail!Reachable(m)})
        /\ work' = [work EXCEPT ![c].left = @ \ S]
  BY DEF Mail!Call
<1>2. work[c].at = "calling" /\ UNCHANGED <<provider, dryRun, stored, log>>
  BY DEF Mail!Call, Mail!settings
<1>3. work \in [Calls -> MailProofs!Request] /\ work[c] \in MailProofs!Request /\ ~dryRun
  BY <1>2, WorkTypes
<1>4. /\ GoesOn(c, "calling")
      /\ \A d \in Calls : d # c => work'[d] = work[d]
  BY <1>1, <1>2, <1>3 DEF GoesOn, MailProofs!Request
<1>5. applied \subseteq applied' /\ \A p \in applied' : p \in applied \/ p[1] = c
  BY <1>1
<1>6. QED
  BY <1>2, <1>3, <1>4, <1>5 DEF MailMoves, GoesOn

\* The answer of the provider leads to the log.
LEMMA ReturnedMoves ==
    ASSUME MailProofs!IInv, NEW c \in Calls, Mail!Returned(c)
    PROVE  MailMoves(c) /\ GoesOn(c, "logging") /\ UNCHANGED <<applied, log>>
<1>1. /\ work' = [work EXCEPT ![c].at = "logging"]
      /\ UNCHANGED <<provider, dryRun, stored, applied, log>>
  BY DEF Mail!Returned, Mail!settings
<1>2. work \in [Calls -> MailProofs!Request] /\ work[c] \in MailProofs!Request
  BY WorkTypes
<1>3. /\ GoesOn(c, "logging")
      /\ \A d \in Calls : d # c => work'[d] = work[d]
  BY <1>1, <1>2 DEF GoesOn, MailProofs!Request
<1>4. QED
  BY <1>1, <1>3 DEF MailMoves, GoesOn

\* A session that ends moves its tool call on, and no other.
LEMMA ClosedMoves ==
    ASSUME MailProofs!IInv, NEW c \in Calls, NEW at, work' = Mail!SessionClosed(c, at)
    PROVE  /\ GoesOn(c, at)
           /\ \A d \in Calls : d # c => work'[d] = work[d]
<1>1. work \in [Calls -> MailProofs!Request] /\ work[c] \in MailProofs!Request
  BY WorkTypes
<1>2. QED
  BY <1>1 DEF GoesOn, MailProofs!Request, Mail!SessionClosed

\* A commit logs what the tool call selected, and answers it.
LEMMA CommitMoves ==
    ASSUME MailProofs!IInv, NEW c \in Calls, Mail!Commit(c)
    PROVE  MailMoves(c) /\ GoesOn(c, "answered") /\ UNCHANGED applied
<1>1. /\ work' = Mail!SessionClosed(c, "answered")
      /\ log' = log \cup Mail!Rows(c)
      /\ UNCHANGED <<provider, dryRun, stored, applied>>
  BY DEF Mail!Commit, Mail!settings
<1>2. ASSUME NEW e \in Mail!Rows(c) PROVE e.by = c /\ (e.result = "ok" \/ dryRun)
  <2>1. PICK m \in work[c].ids :
            e = [by |-> c, msg |-> m, action |-> work[c].action,
                 result |-> IF dryRun THEN "dry run" ELSE "ok"]
    BY DEF Mail!Rows
  <2>2. e.by = c /\ e.result = IF dryRun THEN "dry run" ELSE "ok"
    BY <2>1
  <2>3. QED
    BY <2>2
<1>3. /\ GoesOn(c, "answered")
      /\ \A d \in Calls : d # c => work'[d] = work[d]
  BY <1>1, ClosedMoves
<1>4. \A e \in log' : e \in log \/ (e.by = c /\ (e.result = "ok" \/ dryRun))
  BY <1>1, <1>2
<1>5. log \subseteq log' /\ UNCHANGED applied
  BY <1>1
<1>6. QED
  BY <1>1, <1>3, <1>4, <1>5 DEF MailMoves, GoesOn

\* A mail action that fails logs nothing.
LEMMA FailMoves ==
    ASSUME MailProofs!IInv, NEW c \in Calls, Mail!Fail(c)
    PROVE  MailMoves(c) /\ GoesOn(c, "failed") /\ UNCHANGED <<applied, log>>
<1>1. /\ work' = Mail!SessionClosed(c, "failed")
      /\ UNCHANGED <<provider, dryRun, stored, applied, log>>
  BY DEF Mail!Fail, Mail!settings
<1>2. QED
  BY <1>1, ClosedMoves DEF MailMoves, GoesOn

-----------------------------------------------------------------------------
(* Unsubscribing.                                                           *)

\* What one of the four ways amounts to: contacts outside a dry run only, a POST only
\* to a one-click link, and success only of what went out.
Went(r, m, s, method, success) ==
    /\ answer' = [answer EXCEPT ![r] =
                     [msg |-> m, method |-> method, success |-> success, sender |-> s]]
    /\ posted \subseteq posted' /\ mailed \subseteq mailed'
    /\ posted' = posted \/ (posted' = posted \cup {<<r, m>>} /\ InfoOf[m].oneClick /\ ~dryRun)
    /\ mailed' = mailed \/ (mailed' = mailed \cup {<<r, m>>} /\ ~dryRun)
    /\ success => \/ dryRun
                  \/ method = "one_click" /\ <<r, m>> \in posted'
                  \/ method = "mailto" /\ <<r, m>> \in mailed'
    /\ UNCHANGED <<provider, dryRun, stored>>

\* Each of the ways out of a list has its method and its outcome.
LEMMA EachWay ==
    ASSUME NEW r, NEW m, NEW s, Unsub!UnsubscribeMessage(r, m, s)
    PROVE  \E method \in Unsub!Methods, success \in BOOLEAN : Went(r, m, s, method, success)
<1>1. CASE Unsub!Post(r, m, s)
  <2>1. CASE dryRun
    <3>1. Went(r, m, s, "one_click", TRUE)
      BY <1>1, <2>1 DEF Went, Unsub!Post, Unsub!Result, Unsub!UnsubscribeMessage
    <3>2. QED
      BY <3>1 DEF Unsub!Methods
  <2>2. CASE ~dryRun
    <3>1. PICK got, success \in BOOLEAN :
            /\ success => got
            /\ posted' = IF got THEN posted \cup {<<r, m>>} ELSE posted
            /\ Unsub!Result(r, m, s, "one_click", success)
      BY <1>1, <2>2 DEF Unsub!Post
    <3>2. InfoOf[m].oneClick /\ UNCHANGED <<mailed, provider, dryRun, stored>>
      BY <1>1 DEF Unsub!Post, Unsub!Posts, Unsub!UnsubscribeMessage
    <3>3. Went(r, m, s, "one_click", success)
      BY <2>2, <3>1, <3>2 DEF Went, Unsub!Result
    <3>4. QED
      BY <3>3 DEF Unsub!Methods
  <2>3. QED
    BY <2>1, <2>2
<1>2. CASE Unsub!Link(r, m, s)
  <2>1. Went(r, m, s, "http_link", FALSE)
    BY <1>2 DEF Went, Unsub!Link, Unsub!Result, Unsub!UnsubscribeMessage
  <2>2. QED
    BY <2>1 DEF Unsub!Methods
<1>3. CASE Unsub!Mail(r, m, s)
  <2>1. CASE dryRun
    <3>1. Went(r, m, s, "mailto", TRUE)
      BY <1>3, <2>1
      DEF Went, Unsub!Mail, Unsub!MailIsDry, Unsub!Result, Unsub!UnsubscribeMessage
    <3>2. QED
      BY <3>1 DEF Unsub!Methods
  <2>2. CASE ~dryRun
    <3>1. PICK sent \in BOOLEAN :
            /\ mailed' = IF sent THEN mailed \cup {<<r, m>>} ELSE mailed
            /\ \E success \in Unsub!SendSucceeds(sent) :
                   Unsub!Result(r, m, s, "mailto", success)
      BY <1>3, <2>2 DEF Unsub!Mail, Unsub!MailIsDry
    <3>2. PICK success \in Unsub!SendSucceeds(sent) : Unsub!Result(r, m, s, "mailto", success)
      BY <3>1
    <3>3. success \in BOOLEAN /\ (success => sent)
      BY DEF Unsub!SendSucceeds
    <3>4. UNCHANGED <<posted, provider, dryRun, stored>>
      BY <1>3 DEF Unsub!Mail, Unsub!UnsubscribeMessage
    <3>5. Went(r, m, s, "mailto", success)
      BY <2>2, <3>1, <3>2, <3>3, <3>4 DEF Went, Unsub!Result
    <3>6. QED
      BY <3>3, <3>5 DEF Unsub!Methods
  <2>3. QED
    BY <2>1, <2>2
<1>4. CASE Unsub!ScanBody(r, m, s)
  <2>1. PICK method \in {"none", "body_link"} : Unsub!Result(r, m, s, method, FALSE)
    BY <1>4 DEF Unsub!ScanBody
  <2>2. Went(r, m, s, method, FALSE)
    BY <1>4, <2>1 DEF Went, Unsub!ScanBody, Unsub!Result, Unsub!UnsubscribeMessage
  <2>3. QED
    BY <2>2 DEF Unsub!Methods
<1>5. QED
  BY <1>1, <1>2, <1>3, <1>4 DEF Unsub!UnsubscribeMessage

\* The button's request is not one of the chat's.
LEMMA WebIsApart == WebRequest \notin Calls
<1>1. 0 \notin Requests
  BY BoundAssumption DEF Requests
<1>2. QED
  BY <1>1 DEF WebRequest, Calls

\* What is known of unsubscribing stays known.
LEMMA UnsubKeeps ==
    ASSUME UnsubFine, stored \subseteq Messages, NEW r \in Calls \cup {WebRequest},
           NEW m \in stored, NEW s \in Senders \cup {"none"}, s \in {"none", SenderOf[m]},
           NEW method \in Unsub!Methods, NEW success \in BOOLEAN,
           Went(r, m, s, method, success)
    PROVE  /\ UnsubFine'
           /\ answer'[r].success = success
           /\ \A d \in Calls \cup {WebRequest} : d # r => answer'[d] = answer[d]
<1> DEFINE a == [msg |-> m, method |-> method, success |-> success, sender |-> s]
           R == Calls \cup {WebRequest}
<1>1. /\ DOMAIN answer = R /\ posted \subseteq R \X stored /\ mailed \subseteq R \X stored
      /\ answer' = [answer EXCEPT ![r] = a]
      /\ UNCHANGED <<provider, dryRun, stored>>
  BY DEF UnsubFine, Unsub!TypeOK, Went
<1>2. /\ a \in Unsub!Answer /\ a.sender \in {"none", SenderOf[a.msg]}
      /\ a.success = success /\ a.msg = m /\ a.method = method
  BY DEF Unsub!Answer
<1> HIDE DEF a
<1>3. /\ DOMAIN answer' = R /\ answer'[r] = a
      /\ \A d \in R : d # r => answer'[d] = answer[d]
  BY <1>1
<1>4. Unsub!TypeOK'
  <2>1. posted' \subseteq R \X stored /\ mailed' \subseteq R \X stored
    BY <1>1 DEF Went
  <2>2. \A d \in R : answer'[d] # Unsub!NoAnswer =>
            answer'[d] \in Unsub!Answer /\ answer'[d].sender \in {"none", SenderOf[answer'[d].msg]}
    BY <1>2, <1>3 DEF UnsubFine, Unsub!TypeOK
  <2>3. QED
    BY <1>1, <1>3, <2>1, <2>2 DEF Unsub!TypeOK
<1>5. Unsub!SuccessWentOut'
  <2> SUFFICES ASSUME NEW d \in R, answer'[d].success
               PROVE  \/ dryRun'
                      \/ answer'[d].method = "one_click" /\ <<d, answer'[d].msg>> \in posted'
                      \/ answer'[d].method = "mailto" /\ <<d, answer'[d].msg>> \in mailed'
    BY DEF Unsub!SuccessWentOut
  <2>1. CASE d = r
    BY <1>2, <1>3, <2>1 DEF Went
  <2>2. CASE d # r
    <3>1. answer'[d] = answer[d] /\ answer[d].success
      BY <1>3, <2>2
    <3>2. \/ dryRun
          \/ answer[d].method = "one_click" /\ <<d, answer[d].msg>> \in posted
          \/ answer[d].method = "mailto" /\ <<d, answer[d].msg>> \in mailed
      BY <3>1 DEF UnsubFine, Unsub!SuccessWentOut
    <3>3. posted \subseteq posted' /\ mailed \subseteq mailed' /\ dryRun' = dryRun
      BY DEF Went
    <3>4. QED
      BY <3>1, <3>2, <3>3
  <2>3. QED
    BY <2>1, <2>2
<1>6. Unsub!OnlyWantedContacts'
  <2>1. posted' = posted \/ (posted' = posted \cup {<<r, m>>} /\ InfoOf[m].oneClick /\ ~dryRun)
    BY DEF Went
  <2>2. \A p \in posted' : InfoOf[p[2]].oneClick
    BY <2>1 DEF UnsubFine, Unsub!OnlyWantedContacts
  <2>3. dryRun' => posted' = {} /\ mailed' = {}
    BY DEF UnsubFine, Unsub!OnlyWantedContacts, Went
  <2>4. QED
    BY <2>2, <2>3 DEF Unsub!OnlyWantedContacts
<1>7. QED
  BY <1>2, <1>3, <1>4, <1>5, <1>6 DEF UnsubFine

\* Nothing is unsubscribed from.
LEMMA UnsubStays ==
    ASSUME UnsubFine, UNCHANGED <<provider, dryRun, stored, posted, mailed, answer>>
    PROVE  UnsubFine'
  BY DEF UnsubFine, Unsub!TypeOK, Unsub!SuccessWentOut, Unsub!OnlyWantedContacts

-----------------------------------------------------------------------------
(* Tool calls, one by one.                                                  *)

\* A step of the tool call c does nothing to the others.
Touches(c) ==
    \A d \in Calls : d # c =>
        /\ answer'[d] = answer[d] /\ work'[d] = work[d]
        /\ d \in rules' <=> d \in rules
        /\ d \in Effects' <=> d \in Effects

\* What one tool call does changes nothing of another.
LEMMA SameCall ==
    ASSUME NEW c \in Calls, Touches(c), NEW d \in Calls, d # c
    PROVE  /\ Untouched(d) => Untouched(d)'
           /\ Earned(d) <=> Earned(d)'
           /\ d \in Effects' <=> d \in Effects
<1>1. /\ answer'[d] = answer[d] /\ work'[d] = work[d]
      /\ d \in rules' <=> d \in rules
      /\ d \in Effects' <=> d \in Effects
  BY DEF Touches
<1>2. Untouched(d) => Untouched(d)'
  BY <1>1 DEF Untouched
<1>3. Earned(d) <=> Earned(d)'
  BY <1>1 DEF Earned
<1>4. QED
  BY <1>1, <1>2, <1>3

\* Whatever moves the mail of c.
LEMMA MailTouches ==
    ASSUME NEW c \in Calls, MailMoves(c), UNCHANGED <<answer, rules>>
    PROVE  Touches(c)
<1> SUFFICES ASSUME NEW d \in Calls, d # c PROVE d \in Effects' <=> d \in Effects
  BY DEF Touches, MailMoves
<1>1. ASSUME d \in Effects PROVE d \in Effects'
  BY <1>1 DEF Effects, MailMoves
<1>2. ASSUME d \in Effects' PROVE d \in Effects
  <2>1. CASE d \in rules'
    BY <2>1 DEF Effects
  <2>2. CASE \E p \in applied' : d = p[1]
    BY <2>2 DEF Effects, MailMoves
  <2>3. CASE \E e \in log' : d = e.by
    BY <2>3 DEF Effects, MailMoves
  <2>4. QED
    BY <1>2, <2>1, <2>2, <2>3 DEF Effects
<1>3. QED
  BY <1>1, <1>2

\* A call that neither moves mail nor adds a rule.
LEMMA AnswerTouches ==
    ASSUME NEW c \in Calls, UNCHANGED <<work, rules, applied, log>>,
           \A d \in Calls : d # c => answer'[d] = answer[d]
    PROVE  Touches(c) /\ Effects' = Effects
  BY DEF Touches, Effects

\* The calls of a request are its own, and all different.
LEMMA OwnCalls ==
    ASSUME NEW k \in Requests, NEW left \in Seq(Calls), LastCalls(k, left)
    PROVE  /\ \A i \in 1..Len(left) : left[i] \in Calls /\ left[i][1] = k
           /\ \A i \in 2..Len(left) : left[i] # left[1]
<1>1. PICK n \in 1..MaxCalls[k] :
        Len(left) <= n /\ \A i \in 1..Len(left) : left[i] = <<k, (n - Len(left)) + i>>
  BY DEF LastCalls
<1>2. n \in Nat /\ Len(left) \in Nat
  BY BoundAssumption, LenProperties
<1>3. ASSUME NEW i \in 1..Len(left) PROVE left[i] \in Calls /\ left[i][1] = k
  <2>1. left[i] = <<k, (n - Len(left)) + i>>
    BY <1>1
  <2>2. QED
    BY <2>1, ElementOfSeq
<1>4. ASSUME NEW i \in 2..Len(left) PROVE left[i] # left[1]
  <2>1. i \in 1..Len(left) /\ 1 \in 1..Len(left) /\ i # 1
    BY <1>2
  <2>2. left[i][2] = (n - Len(left)) + i /\ left[1][2] = (n - Len(left)) + 1
    BY <1>1, <2>1
  <2>3. (n - Len(left)) + i # (n - Len(left)) + 1
    BY <1>2, <2>1
  <2>4. QED
    BY <2>2, <2>3
<1>5. QED
  BY <1>3, <1>4

\* The calls of request k, when its tools' turn has come.
LEMMA CallsOf ==
    ASSUME ChatInv, NEW k \in Requests, req[k].at = "tools"
    PROVE  /\ CallOf(k) \in Calls /\ CallOf(k)[1] = k
           /\ \A i \in 1..Len(req[k].left) : req[k].left[i] \in Calls /\ req[k].left[i][1] = k
           /\ \A i \in 2..Len(req[k].left) : req[k].left[i] # CallOf(k)
<1>1. ChatTypeOK /\ LastCalls(k, req[k].left)
  BY DEF ChatInv, TalkIsFine
<1> DEFINE left == req[k].left
<1>2. /\ left \in Seq(Calls) /\ Len(left) \in Nat /\ Len(left) >= 1
      /\ CallOf(k) = left[1]
  BY <1>1, CallsInHand
<1>3. /\ \A i \in 1..Len(left) : left[i] \in Calls /\ left[i][1] = k
      /\ \A i \in 2..Len(left) : left[i] # left[1]
  BY <1>1, <1>2, OwnCalls
<1> HIDE DEF left
<1>4. 1 \in 1..Len(left)
  BY <1>2
<1>5. QED
  BY <1>2, <1>3, <1>4 DEF left

\* A request is not concerned by what another one's tool does.
LEMMA OthersCalls ==
    ASSUME ChatInv, NEW k \in Requests, req[k].at = "tools", Touches(CallOf(k)),
           NEW j \in Requests, j # k, req'[j] = req[j], CallsAreFresh(j), EffectsAreTold(j)
    PROVE  CallsAreFresh(j)' /\ EffectsAreTold(j)'
<1>1. CallOf(k) \in Calls /\ CallOf(k)[1] = k
  BY CallsOf
<1>2. ASSUME NEW d \in Calls, d[1] = j
      PROVE  (Untouched(d) => Untouched(d)') /\ (d \in Effects' <=> d \in Effects)
  BY <1>1, <1>2, SameCall
<1>3. CallsAreFresh(j)'
  <2>1. CASE req[j].at \in {"unsent", "first", "plain"}
    BY <1>2, <2>1 DEF CallsAreFresh
  <2>2. CASE req[j].at = "tools"
    <3>1. PICK c \in Calls : c = CallOf(j) /\ c[1] = j
      BY <2>2, CallsOf
    <3>2. PICK left : left = req[j].left
      OBVIOUS
    <3>3. /\ req'[j].at = "tools" /\ req'[j].left = left /\ CallOf(j)' = c
          /\ Untouched(c) \/ AtWork(c)
          /\ \A i \in 2..Len(left) : Untouched(left[i])
      BY <2>2, <3>1, <3>2 DEF CallsAreFresh, CallOf
    <3>4. \A i \in 2..Len(left) : left[i] \in Calls /\ left[i][1] = j
      <4>1. Len(left) \in Nat
        BY <2>2, <3>2, CallsInHand DEF ChatInv
      <4>2. QED
        BY <2>2, <3>2, <4>1, CallsOf
    <3>5. \A i \in 2..Len(left) : Untouched(left[i])'
      <4> SUFFICES ASSUME NEW i \in 2..Len(left) PROVE Untouched(left[i])'
        OBVIOUS
      <4>1. PICK d \in Calls : d = left[i] /\ d[1] = j /\ Untouched(d)
        BY <3>3, <3>4
      <4>2. QED
        BY <1>2, <4>1
    <3>6. Untouched(c)' \/ AtWork(c)'
      <4>1. CASE Untouched(c)
        BY <1>2, <3>1, <4>1
      <4>2. CASE AtWork(c)
        BY <1>1, <3>1, <4>2 DEF AtWork, Touches
      <4>3. QED
        BY <3>3, <4>1, <4>2
    <3>7. QED
      BY <3>3, <3>5, <3>6 DEF CallsAreFresh, Untouched, AtWork
  <2>3. QED
    BY <2>1, <2>2 DEF CallsAreFresh
<1>4. EffectsAreTold(j)'
  <2> SUFFICES ASSUME NEW d \in Calls, d \in Effects', d[1] = j
               PROVE  /\ req[j].at \in {"second", "answered"} => Reports(req[j].messages, d)
                      /\ req[j].at = "tools" => Reports(req[j].messages, d) \/ d = CallOf(j)
    BY DEF EffectsAreTold, CallOf
  <2>1. QED
    BY <1>2 DEF EffectsAreTold
<1>5. QED
  BY <1>3, <1>4

\* What a conversation reports when it goes on.
LEMMA ReportsAppend ==
    ASSUME NEW h \in Seq(Message), NEW m \in Message, NEW call
    PROVE  Reports(Append(h, m), call)
               <=> Reports(h, call) \/ (m.role = "tool" /\ m.did /\ m.calls = <<call>>)
<1> DEFINE g == Append(h, m)
<1>1. /\ Len(h) \in Nat /\ Len(g) = Len(h) + 1
      /\ \A i \in 1..Len(h) : g[i] = h[i]
      /\ g[Len(h) + 1] = m
  BY Longer
<1> HIDE DEF g
<1>2. ASSUME Reports(h, call) PROVE Reports(g, call)
  <2>1. PICK i \in 1..Len(h) : h[i].role = "tool" /\ h[i].did /\ h[i].calls = <<call>>
    BY <1>2 DEF Reports
  <2>2. i \in 1..Len(g) /\ g[i] = h[i]
    BY <1>1
  <2>3. QED
    BY <2>1, <2>2 DEF Reports
<1>3. ASSUME m.role = "tool", m.did, m.calls = <<call>> PROVE Reports(g, call)
  <2>1. Len(h) + 1 \in 1..Len(g)
    BY <1>1
  <2>2. QED
    BY <1>1, <1>3, <2>1 DEF Reports
<1>4. ASSUME Reports(g, call)
      PROVE  Reports(h, call) \/ (m.role = "tool" /\ m.did /\ m.calls = <<call>>)
  <2>1. PICK i \in 1..Len(g) : g[i].role = "tool" /\ g[i].did /\ g[i].calls = <<call>>
    BY <1>4 DEF Reports
  <2>2. CASE i = Len(h) + 1
    BY <1>1, <2>1, <2>2
  <2>3. CASE i # Len(h) + 1
    <3>1. i \in 1..Len(h) /\ g[i] = h[i]
      BY <1>1, <2>3
    <3>2. QED
      BY <2>1, <3>1 DEF Reports
  <2>4. QED
    BY <2>2, <2>3
<1>5. QED
  BY <1>2, <1>3, <1>4 DEF g

\* A conversation in which nothing was said reports nothing.
LEMMA NothingReported == \A call : ~Reports(<<>>, call)
  BY EmptySeq DEF Reports

\* What Execute does to its request.
LEMMA Executed ==
    ASSUME ChatInv, NEW k \in Requests, NEW did \in BOOLEAN, Execute(k, did)
    PROVE  /\ Gone(k, AfterCall(req[k].left), Append(req[k].messages, Result(CallOf(k), did)),
                   Tail(req[k].left))
           /\ req[k].at = "tools" /\ UNCHANGED history
<1> DEFINE left == req[k].left
           h == req[k].messages
           m == Result(CallOf(k), did)
           at == AfterCall(left)
<1>1. /\ req[k].at = "tools" /\ UNCHANGED history
      /\ Goes(k, at, Append(h, m), Tail(left))
  BY DEF Execute, Result
<1>2. ChatTypeOK
  BY DEF ChatInv
<1>3. Tail(left) \in Seq(Calls) /\ CallOf(k) \in Calls /\ h \in Seq(Message)
  BY <1>1, <1>2, CallsInHand, InHand
<1>4. m \in Message
  BY <1>3, ResultFields
<1>5. at \in Places
  BY DEF AfterCall, Places
<1> HIDE DEF m, left, h, at
<1>6. Append(h, m) \in Seq(Message)
  BY <1>3, <1>4, Longer
<1>7. Gone(k, at, Append(h, m), Tail(left))
  BY <1>1, <1>2, <1>3, <1>5, <1>6, GoesGone
<1>8. QED
  BY <1>1, <1>7 DEF m, left, h, at

\* A call at work, or whose turn has not come, has not been reported.
LEMMA NotYetTold ==
    ASSUME ReportsAreEarned, NEW c \in Calls, Untouched(c) \/ AtWork(c)
    PROVE  ~Told(c)
<1>1. c \notin rules /\ ~answer[c].success /\ work[c].at # "answered"
  <2>1. CASE Untouched(c)
    BY <2>1 DEF Untouched, Effects
  <2>2. CASE AtWork(c)
    BY <2>2 DEF AtWork
  <2>3. QED
    BY <2>1, <2>2
<1>2. ~Earned(c)
  BY <1>1 DEF Earned
<1>3. QED
  BY <1>2 DEF ReportsAreEarned

\* The call c returns: what it did is told if there is something to tell.
LEMMA ToolReturns ==
    ASSUME ChatInv, CallsFine, NEW k \in Requests, NEW did \in BOOLEAN, Execute(k, did),
           NEW c \in Calls, c = CallOf(k), Touches(c),
           c \in Effects' => did, did => Earned(c)'
    PROVE  CallsFine'
<1>0. PICK left, h, rest : left = req[k].left /\ h = req[k].messages /\ rest = Tail(left)
  OBVIOUS
<1> DEFINE m == Result(c, did)
           at == AfterCall(left)
<1>1. Gone(k, at, Append(h, m), rest) /\ req[k].at = "tools" /\ UNCHANGED history
  BY <1>0, Executed
<1>2. ChatTypeOK /\ CallsAreFresh(k) /\ EffectsAreTold(k) /\ ReportsAreEarned
  BY DEF ChatInv, CallsFine
<1>3. /\ left \in Seq(Calls) /\ Len(left) \in Nat /\ Len(left) >= 1 /\ h \in Seq(Message)
      /\ rest \in Seq(Calls) /\ Len(rest) = Len(left) - 1
      /\ \A i \in 1..Len(left) - 1 : rest[i] = left[i+1]
      /\ (rest = <<>> <=> Len(left) = 1)
  BY <1>1, <1>2, <1>0, CallsInHand, InHand
<1>4. /\ c[1] = k
      /\ \A i \in 2..Len(left) : left[i] \in Calls /\ left[i] # c
  <2>1. /\ CallOf(k)[1] = k
        /\ \A i \in 1..Len(left) : left[i] \in Calls
        /\ \A i \in 2..Len(left) : left[i] # CallOf(k)
    BY <1>0, <1>1, CallsOf
  <2>2. QED
    BY <1>3, <2>1
<1>5. m \in Message /\ m.role = "tool" /\ m.calls = <<c>> /\ m.did = did
  BY ResultFields
<1>6. at = IF Len(left) = 1 THEN "second" ELSE "tools"
  BY DEF AfterCall
<1>7. (Untouched(c) \/ AtWork(c)) /\ \A i \in 2..Len(left) : Untouched(left[i])
  BY <1>0, <1>1, <1>2 DEF CallsAreFresh
<1> DEFINE g == Append(h, m)
<1>8. \A d \in Calls : Reports(g, d) <=> Reports(h, d) \/ (did /\ d = c)
  <2> SUFFICES ASSUME NEW d \in Calls
               PROVE  Reports(g, d) <=> Reports(h, d) \/ (did /\ d = c)
    OBVIOUS
  <2>1. Reports(g, d) <=> Reports(h, d) \/ (m.role = "tool" /\ m.did /\ m.calls = <<d>>)
    BY <1>3, <1>5, ReportsAppend
  <2>2. m.calls = <<d>> <=> d = c
    BY <1>5
  <2>3. QED
    BY <1>5, <2>1, <2>2
<1>9. /\ req'[k].at = at /\ req'[k].messages = g /\ req'[k].left = rest
      /\ req'[k].sent = req[k].sent
      /\ \A j \in Requests : j # k => req'[j] = req[j]
  BY <1>0, <1>1 DEF Gone
<1> HIDE DEF m, at, g
<1>10. CallsAreFresh(k)'
  <2>1. CASE at = "second"
    BY <1>9, <2>1 DEF CallsAreFresh
  <2>2. CASE at = "tools"
    <3>1. Len(left) >= 2
      BY <1>3, <1>6, <2>2
    <3>2. \A i \in 1..Len(rest) : i + 1 \in 2..Len(left) /\ rest[i] = left[i+1]
      BY <1>3
    <3>3. \A i \in 1..Len(rest) : rest[i] \in Calls /\ rest[i] # c
                                        /\ Untouched(rest[i])
      BY <1>4, <1>7, <3>2
    <3>4. \A i \in 1..Len(rest) : Untouched(rest[i])'
      <4> SUFFICES ASSUME NEW i \in 1..Len(rest) PROVE Untouched(rest[i])'
        OBVIOUS
      <4>1. PICK d \in Calls : d = rest[i] /\ d # c /\ Untouched(d)
        BY <3>3
      <4>2. Untouched(d)'
        BY <4>1, SameCall
      <4>3. QED
        BY <4>1, <4>2 DEF Untouched
    <3>5. Untouched(rest[1])' /\ \A i \in 2..Len(rest) : Untouched(rest[i])'
      BY <1>3, <3>1, <3>4
    <3>6. CallOf(k)' = rest[1]
      BY <1>3, <1>9, <3>1, HeadTailProperties, EmptySeq DEF CallOf
    <3>7. QED
      BY <1>9, <2>2, <3>5, <3>6 DEF CallsAreFresh, Untouched
  <2>3. QED
    BY <1>6, <2>1, <2>2
<1>11. EffectsAreTold(k)'
  <2> SUFFICES ASSUME NEW d \in Calls, d \in Effects', d[1] = k
               PROVE  Reports(req'[k].messages, d)
    BY DEF EffectsAreTold
  <2>1. CASE d = c
    BY <1>8, <1>9, <2>1
  <2>2. CASE d # c
    <3>1. d \in Effects
      BY <2>2, SameCall
    <3>2. Reports(h, d)
      BY <1>0, <1>1, <1>2, <2>2, <3>1 DEF EffectsAreTold
    <3>3. QED
      BY <1>8, <1>9, <3>2
  <2>3. QED
    BY <2>1, <2>2
<1>12. ReportsAreEarned'
  <2> SUFFICES ASSUME NEW d \in Calls, Told(d)' PROVE Earned(d)'
    BY DEF ReportsAreEarned
  <2>1. Told(d) \/ (d = c /\ did)
    BY <1>0, <1>1, <1>8, <1>9 DEF Told
  <2>2. CASE d = c
    <3>1. ~Told(c)
      BY <1>2, <1>7, NotYetTold
    <3>2. QED
      BY <2>1, <2>2, <3>1
  <2>3. CASE d # c
    BY <1>2, <2>1, <2>3, SameCall DEF ReportsAreEarned
  <2>4. QED
    BY <2>2, <2>3
<1>13. ASSUME NEW j \in Requests PROVE CallsAreFresh(j)' /\ EffectsAreTold(j)'
  <2>1. CASE j = k
    BY <1>10, <1>11, <2>1
  <2>2. CASE j # k
    <3>1. Touches(CallOf(k)) /\ CallsAreFresh(j) /\ EffectsAreTold(j) /\ req'[j] = req[j]
      BY <1>9, <2>2 DEF CallsFine
    <3>2. QED
      BY <1>1, <2>2, <3>1, OthersCalls
  <2>3. QED
    BY <2>1, <2>2
<1>14. QED
  BY <1>12, <1>13 DEF CallsFine

\* What is true of a call that is not the one a step is about stays true.
LEMMA OthersEarn ==
    ASSUME ReportsAreEarned, NEW c \in Calls, Touches(c), Untouched(c) \/ AtWork(c),
           \A d \in Calls : Told(d)' => Told(d)
    PROVE  ReportsAreEarned'
<1> SUFFICES ASSUME NEW d \in Calls, Told(d)' PROVE Earned(d)'
  BY DEF ReportsAreEarned
<1>1. Told(d) /\ Earned(d) /\ d # c
  BY NotYetTold DEF ReportsAreEarned
<1>2. QED
  BY <1>1, SameCall

\* The call c raises, whatever it did before: its request ends with an error.
LEMMA ToolRaises ==
    ASSUME ChatInv, CallsFine, NEW k \in Requests, ExecuteRaises(k),
           NEW c \in Calls, c = CallOf(k), Touches(c)
    PROVE  CallsFine'
<1>1. /\ req[k].at = "tools" /\ UNCHANGED history
      /\ Goes(k, "error", req[k].messages, <<>>)
  BY DEF ExecuteRaises
<1>2. ChatTypeOK /\ ReportsAreEarned /\ CallsAreFresh(k)
  BY DEF ChatInv, CallsFine
<1>3. Gone(k, "error", req[k].messages, <<>>)
  <2>1. req[k].messages \in Seq(Message) /\ <<>> \in Seq(Calls)
    BY <1>2, InHand, EmptySeq
  <2>2. QED
    BY <1>1, <1>2, <2>1, GoesGone DEF Places
<1>4. \A d \in Calls : Told(d)' => Told(d)
  BY <1>1, <1>3 DEF Told, Gone
<1>5. ReportsAreEarned'
  BY <1>1, <1>2, <1>4, OthersEarn DEF CallsAreFresh
<1>6. ASSUME NEW j \in Requests PROVE CallsAreFresh(j)' /\ EffectsAreTold(j)'
  <2>1. CASE j = k
    BY <1>3, <2>1 DEF CallsAreFresh, EffectsAreTold, Gone
  <2>2. CASE j # k
    <3>1. Touches(CallOf(k)) /\ CallsAreFresh(j) /\ EffectsAreTold(j) /\ req'[j] = req[j]
      BY <1>3, <2>2 DEF CallsFine, Gone
    <3>2. QED
      BY <1>1, <2>2, <3>1, OthersCalls
  <2>3. QED
    BY <2>1, <2>2
<1>7. QED
  BY <1>5, <1>6 DEF CallsFine

\* The call c gets on with its work.
LEMMA ToolGoesOn ==
    ASSUME ChatInv, CallsFine, NEW k \in Requests, req[k].at = "tools", UNCHANGED chatVars,
           NEW c \in Calls, c = CallOf(k), Touches(c), AtWork(c)'
    PROVE  CallsFine'
<1>1. UNCHANGED history /\ UNCHANGED req /\ CallOf(k)' = c
  BY DEF chatVars, CallOf
<1>2. ReportsAreEarned /\ CallsAreFresh(k) /\ EffectsAreTold(k)
  BY DEF CallsFine
<1>3. ReportsAreEarned'
  <2>1. \A d \in Calls : Told(d)' => Told(d)
    BY <1>1 DEF Told
  <2>2. QED
    BY <1>2, <2>1, OthersEarn DEF CallsAreFresh
<1>4. PICK left : left = req[k].left
  OBVIOUS
<1>5. CallsAreFresh(k)'
  <2>1. \A i \in 2..Len(left) : left[i] \in Calls /\ left[i] # c /\ Untouched(left[i])
    <3>1. Len(left) \in Nat
      BY <1>4, CallsInHand DEF ChatInv
    <3>2. QED
      BY <1>2, <1>4, <3>1, CallsOf DEF CallsAreFresh
  <2>2. ASSUME NEW i \in 2..Len(left) PROVE Untouched(left[i])'
    <3>1. PICK d \in Calls : d = left[i] /\ d # c /\ Untouched(d)
      BY <2>1
    <3>2. Untouched(d)'
      BY <3>1, SameCall
    <3>3. QED
      BY <3>1, <3>2
  <2>3. QED
    BY <1>1, <1>4, <2>2 DEF CallsAreFresh, AtWork, Untouched
<1>6. EffectsAreTold(k)'
  <2> SUFFICES ASSUME NEW d \in Calls, d \in Effects', d[1] = k
               PROVE  Reports(req[k].messages, d) \/ d = c
    BY <1>1 DEF EffectsAreTold
  <2>1. d # c => d \in Effects
    BY SameCall
  <2>2. QED
    BY <1>2, <2>1 DEF EffectsAreTold
<1>7. ASSUME NEW j \in Requests PROVE CallsAreFresh(j)' /\ EffectsAreTold(j)'
  <2>1. CASE j = k
    BY <1>5, <1>6, <2>1
  <2>2. CASE j # k
    <3>1. Touches(CallOf(k)) /\ CallsAreFresh(j) /\ EffectsAreTold(j) /\ req'[j] = req[j]
      BY <1>1 DEF CallsFine
    <3>2. QED
      BY <2>2, <3>1, OthersCalls
  <2>3. QED
    BY <2>1, <2>2
<1>8. QED
  BY <1>3, <1>7 DEF CallsFine

-----------------------------------------------------------------------------
(* The page and the LLM do nothing to the calls.                            *)

ToolsRest == UNCHANGED <<answer, work, rules, applied, log>>

\* While no tool works, nothing is done or undone.
LEMMA CallRests ==
    ASSUME ToolsRest, NEW d
    PROVE  /\ Untouched(d) => Untouched(d)'
           /\ Earned(d) => Earned(d)'
           /\ d \in Effects' => d \in Effects
  BY DEF ToolsRest, Untouched, Earned, Effects

\* Nor does anything change for a request that stays as it is.
LEMMA RequestRests ==
    ASSUME ToolsRest, NEW j \in Requests, CallsAreFresh(j), EffectsAreTold(j), req'[j] = req[j]
    PROVE  CallsAreFresh(j)' /\ EffectsAreTold(j)'
<1>1. CallsAreFresh(j)'
  BY DEF ToolsRest, CallsAreFresh, Untouched, AtWork, Effects, CallOf
<1>2. EffectsAreTold(j)'
  BY DEF ToolsRest, EffectsAreTold, Effects, CallOf
<1>3. QED
  BY <1>1, <1>2

\* Nothing new is told, and one request moves at most.
LEMMA TalkRests ==
    ASSUME CallsFine, ToolsRest, NEW k \in Requests,
           \A j \in Requests : j # k => req'[j] = req[j],
           \A d \in Calls : Told(d)' => Told(d),
           CallsAreFresh(k)' /\ EffectsAreTold(k)'
    PROVE  CallsFine'
<1>1. ReportsAreEarned'
  <2> SUFFICES ASSUME NEW d \in Calls, Told(d)' PROVE Earned(d)'
    BY DEF ReportsAreEarned
  <2>1. Earned(d)
    BY DEF CallsFine, ReportsAreEarned
  <2>2. QED
    BY <2>1, CallRests
<1>2. ASSUME NEW j \in Requests PROVE CallsAreFresh(j)' /\ EffectsAreTold(j)'
  BY RequestRests DEF CallsFine
<1>3. QED
  BY <1>1, <1>2 DEF CallsFine

\* A request goes on in words, or to its first tool.
LEMMA SpeakingKeeps ==
    ASSUME ChatInv, CallsFine, ToolsRest, UNCHANGED history, NEW k \in Requests,
           NEW at \in {"plain", "tools", "answered", "error"}, NEW messages \in Seq(Message),
           NEW left \in Seq(Calls), Gone(k, at, messages, left),
           \A d \in Calls : Reports(messages, d) <=> Reports(req[k].messages, d),
           req[k].at \in {"first", "plain", "second"},
           at \in {"plain", "tools"} => req[k].at \in {"first", "plain"},
           at = "tools" => left # <<>> /\ \A i \in 1..Len(left) : left[i][1] = k
    PROVE  CallsFine'
<1>1. /\ req'[k].at = at /\ req'[k].messages = messages /\ req'[k].left = left
      /\ req'[k].sent = req[k].sent
      /\ \A j \in Requests : j # k => req'[j] = req[j]
  BY DEF Gone
<1>2. CallsAreFresh(k) /\ EffectsAreTold(k)
  BY DEF CallsFine
<1>3. req[k].at \in {"first", "plain"} =>
          \A d \in Calls : d[1] = k => Untouched(d)' /\ d \notin Effects
  BY <1>2, CallRests DEF CallsAreFresh, Untouched
<1>4. CallsAreFresh(k)'
  <2>1. CASE at = "tools"
    <3>1. Len(left) \in Nat /\ Len(left) >= 1 /\ Head(left) = left[1]
      BY <2>1, HeadTailProperties, EmptySeq, LenProperties
    <3>2. \A i \in 1..Len(left) : left[i] \in Calls /\ left[i][1] = k
      BY <2>1, ElementOfSeq
    <3>3. ASSUME NEW i \in 1..Len(left) PROVE Untouched(left[i])'
      <4>1. PICK d \in Calls : d = left[i] /\ d[1] = k
        BY <3>2
      <4>2. Untouched(d)'
        BY <1>3, <2>1, <4>1
      <4>3. QED
        BY <4>1, <4>2
    <3>4. CallOf(k)' = left[1] /\ Untouched(left[1])' /\ \A i \in 2..Len(left) : Untouched(left[i])'
      BY <1>1, <3>1, <3>3 DEF CallOf
    <3>5. QED
      BY <1>1, <2>1, <3>4 DEF CallsAreFresh, Untouched
  <2>2. CASE at = "plain"
    BY <1>1, <1>3, <2>2 DEF CallsAreFresh
  <2>3. CASE at \in {"answered", "error"}
    BY <1>1, <2>3 DEF CallsAreFresh
  <2>4. QED
    BY <2>1, <2>2, <2>3
<1>5. EffectsAreTold(k)'
  <2> SUFFICES ASSUME NEW d \in Calls, d \in Effects', d[1] = k, at \in {"answered", "tools"}
               PROVE  Reports(messages, d)
    BY <1>1 DEF EffectsAreTold
  <2>1. d \in Effects
    BY CallRests
  <2>2. req[k].at = "second"
    BY <1>3, <2>1
  <2>3. QED
    BY <1>2, <2>1, <2>2 DEF EffectsAreTold
<1>6. \A d \in Calls : Told(d)' => Told(d)
  BY <1>1 DEF Told
<1>7. QED
  BY <1>1, <1>4, <1>5, <1>6, TalkRests

\* A failed turn reports what its conversation reported already.
LEMMA ErrorOrFallBackSpeaks ==
    ASSUME ChatInv, CallsFine, ToolsRest, NEW k \in Requests, Error(k) \/ FallBack(k)
    PROVE  CallsFine'
<1>1. /\ ChatTypeOK /\ UNCHANGED history
      /\ req[k].messages \in Seq(Message) /\ req[k].left \in Seq(Calls)
  BY InHand DEF ChatInv, Error, FallBack
<1>2. PICK at \in {"plain", "error"} :
        /\ Goes(k, at, req[k].messages, req[k].left)
        /\ req[k].at \in {"first", "plain", "second"}
        /\ at = "plain" => req[k].at = "first"
  BY DEF Error, FallBack
<1>3. PICK messages, left : messages = req[k].messages /\ left = req[k].left
  OBVIOUS
<1>4. Gone(k, at, messages, left)
  BY <1>1, <1>2, <1>3, GoesGone DEF Places
<1>5. QED
  BY <1>1, <1>2, <1>3, <1>4, SpeakingKeeps

\* A reply adds no report.
LEMMA ReplySpeaks ==
    ASSUME ChatInv, CallsFine, ToolsRest, NEW k \in Requests, Reply(k) \/ Summarize(k)
    PROVE  CallsFine'
<1>1. /\ ChatTypeOK /\ UNCHANGED history
      /\ req[k].messages \in Seq(Message) /\ req[k].left \in Seq(Calls)
  BY InHand DEF ChatInv, Reply, Summarize
<1>2. PICK h, messages, left :
        /\ h = req[k].messages /\ messages = Append(h, Text("assistant")) /\ left = req[k].left
  OBVIOUS
<1>3. /\ Goes(k, "answered", messages, left)
      /\ req[k].at \in {"first", "plain", "second"}
  BY <1>2 DEF Reply, Summarize, OutHistory
<1>4. /\ messages \in Seq(Message)
      /\ \A d \in Calls : Reports(messages, d) <=> Reports(h, d)
  BY <1>1, <1>2, TextIsMessage, Longer, ReportsAppend
<1>5. Gone(k, "answered", messages, left)
  BY <1>1, <1>2, <1>3, <1>4, GoesGone DEF Places
<1>6. QED
  BY <1>1, <1>2, <1>3, <1>4, <1>5, SpeakingKeeps

\* Tool calls that are about to be made are fresh, and not reported.
LEMMA CallToolsSpeaks ==
    ASSUME ChatInv, CallsFine, ToolsRest, NEW k \in Requests, CallTools(k)
    PROVE  CallsFine'
<1>1. /\ ChatTypeOK /\ UNCHANGED history /\ req[k].at \in {"first", "plain"}
      /\ req[k].messages \in Seq(Message)
  BY InHand DEF ChatInv, CallTools
<1>2. PICK n \in 1..MaxCalls[k] :
        Goes(k, "tools", Append(req[k].messages, Calling(k, n)), Calling(k, n).calls)
  BY DEF CallTools, Calling
<1>3. /\ Calling(k, n) \in Message /\ Calling(k, n).role = "assistant"
      /\ Calling(k, n).calls \in Seq(Calls) /\ Calling(k, n).calls # <<>>
      /\ Len(Calling(k, n).calls) = n /\ \A i \in 1..n : Calling(k, n).calls[i] = <<k, i>>
  BY CallingFields
<1>4. PICK h, messages, left :
        /\ h = req[k].messages /\ messages = Append(h, Calling(k, n))
        /\ left = Calling(k, n).calls
  OBVIOUS
<1>5. \A i \in 1..Len(left) : left[i][1] = k
  BY <1>3, <1>4
<1>6. /\ messages \in Seq(Message)
      /\ \A d \in Calls : Reports(messages, d) <=> Reports(h, d)
  BY <1>1, <1>3, <1>4, Longer, ReportsAppend
<1>7. Gone(k, "tools", messages, left)
  BY <1>1, <1>2, <1>3, <1>4, <1>6, GoesGone DEF Places
<1>8. QED
  BY <1>1, <1>3, <1>4, <1>5, <1>6, <1>7, SpeakingKeeps

\* A new turn takes over the reports of the history.
LEMMA SendSpeaks ==
    ASSUME ChatInv, CallsFine, ToolsRest, Send
    PROVE  CallsFine'
<1>1. PICK k \in Requests :
        /\ req[k].at = "unsent"
        /\ req' = [req EXCEPT ![k] = [at |-> "first", sent |-> history,
                       messages |-> Append(history, Text("user")), left |-> <<>>]]
  BY DEF Send
<1>2. /\ UNCHANGED history /\ history \in Seq(Message) /\ req \in [Requests -> Request]
      /\ CallsAreFresh(k)
  BY DEF Send, ChatInv, ChatTypeOK, CallsFine
<1> DEFINE m == Append(history, Text("user"))
           r == [at |-> "first", sent |-> history, messages |-> m, left |-> <<>>]
<1>3. \A d \in Calls : Reports(m, d) <=> Reports(history, d)
  BY <1>2, TextIsMessage, ReportsAppend
<1>4. r.at = "first" /\ r.sent = history /\ r.messages = m
  OBVIOUS
<1>5. req' = [req EXCEPT ![k] = r]
  BY <1>1
<1> HIDE DEF m, r
<1>6. /\ req'[k].at = "first" /\ req'[k].sent = history /\ req'[k].messages = m
      /\ \A j \in Requests : j # k => req'[j] = req[j]
  BY <1>2, <1>4, <1>5
<1>7. \A d \in Calls : Told(d)' => Told(d)
  BY <1>2, <1>3, <1>6 DEF Told
<1>8. \A d \in Calls : d[1] = k => Untouched(d)'
  BY <1>1, <1>2, CallRests DEF CallsAreFresh
<1>9. CallsAreFresh(k)' /\ EffectsAreTold(k)'
  BY <1>6, <1>8 DEF CallsAreFresh, EffectsAreTold
<1>10. QED
  BY <1>6, <1>7, <1>9, TalkRests

\* A history that is delivered reports what its request reported.
LEMMA DeliverSpeaks ==
    ASSUME ChatInv, CallsFine, ToolsRest, NEW k \in Requests, Deliver(k)
    PROVE  CallsFine'
<1>1. /\ req' = [req EXCEPT ![k] = Idle("over")]
      /\ history' \in {history, req[k].sent, req[k].messages}
  BY DEF Deliver, ErrorHistory
<1>2. req \in [Requests -> Request]
  BY DEF ChatInv, ChatTypeOK
<1>3. /\ Idle("over").at = "over" /\ Idle("over").sent = <<>> /\ Idle("over").messages = <<>>
  BY DEF Idle
<1>4. /\ req'[k].at = "over" /\ req'[k].sent = <<>> /\ req'[k].messages = <<>>
      /\ \A j \in Requests : j # k => req'[j] = req[j]
  BY <1>1, <1>2, <1>3
<1>5. \A d \in Calls : Told(d)' => Told(d)
  BY <1>1, <1>4, NothingReported DEF Told
<1>6. CallsAreFresh(k)' /\ EffectsAreTold(k)'
  BY <1>4 DEF CallsAreFresh, EffectsAreTold
<1>7. QED
  BY <1>4, <1>5, <1>6, TalkRests

\* Whatever is said without a tool, reports stay earned and complete.
LEMMA TalkSpeaks ==
    ASSUME ChatInv, CallsFine, ToolsRest, Talk \/ UNCHANGED chatVars
    PROVE  CallsFine'
<1>1. CASE Disconnect \/ Clear \/ UNCHANGED chatVars
  <2>1. UNCHANGED req /\ history' \in {history, <<>>}
    BY <1>1 DEF Disconnect, Clear, chatVars
  <2>2. ReportsAreEarned'
    <3> SUFFICES ASSUME NEW d \in Calls, Told(d)' PROVE Earned(d)'
      BY DEF ReportsAreEarned
    <3>1. Told(d)
      BY <2>1, NothingReported DEF Told
    <3>2. QED
      BY <3>1, CallRests DEF CallsFine, ReportsAreEarned
  <2>3. ASSUME NEW j \in Requests PROVE CallsAreFresh(j)' /\ EffectsAreTold(j)'
    BY <2>1, RequestRests DEF CallsFine
  <2>4. QED
    BY <2>2, <2>3 DEF CallsFine
<1>2. QED
  BY <1>1, SendSpeaks, DeliverSpeaks, ReplySpeaks, CallToolsSpeaks, ErrorOrFallBackSpeaks DEF Talk

-----------------------------------------------------------------------------
(* The tools.                                                               *)

\* The call whose turn has come has done nothing, or is at work.
LEMMA DueIsUntouched ==
    ASSUME CallsFine, NEW k \in Requests, Due(k), NEW c, c = CallOf(k)
    PROVE  Untouched(c)
  BY DEF Due, CallsFine, CallsAreFresh, AtWork

\* A mail action that goes on is that of the first call left.
LEMMA BusyIsAtWork ==
    ASSUME CallsFine, NEW k \in Requests, Busy(k), NEW c, c = CallOf(k)
    PROVE  AtWork(c)
  BY DEF Busy, CallsFine, CallsAreFresh, Untouched

\* The tools that move mail: to MailActions a step of one request, to the chat the
\* return of a tool, its failure, or nothing yet.
MailTool(k) == SelectRows(k) \/ AtProvider(k) \/ MailDone(k) \/ MailFails(k)

\* The tool selects; with nothing to select it returns at once.
LEMMA SelectRowsFine ==
    ASSUME IInv, NEW k \in Requests, SelectRows(k), NEW c \in Calls, c = CallOf(k)
    PROVE  MailMoves(c) /\ CallsFine' /\ ChatStep
<1>1. ChatInv /\ CallsFine /\ MailProofs!IInv /\ Untouched(c) /\ req[k].at = "tools"
  BY DueIsUntouched DEF IInv, MailIsSound, SelectRows, Due
<1>2. PICK action \in {"archive", "trash"}, s \in Senders : Mail!SelectSender(c, action, s)
  BY DEF SelectRows
<1>3. MailMoves(c) /\ UNCHANGED <<applied, log>> /\ \E ids : Selected(c, ids)
  BY <1>1, <1>2, SelectMoves
<1>4. UNCHANGED <<answer, rules>>
  BY DEF SelectRows, unsubVars
<1>5. Touches(c)
  BY <1>3, <1>4, MailTouches
<1>6. CASE work'[c].at = "answered"
  <2>1. Execute(k, FALSE)
    BY <1>6 DEF SelectRows
  <2>2. c \notin Effects'
    BY <1>1, <1>3, <1>4 DEF Untouched, Effects
  <2>3. QED
    BY <1>1, <1>3, <1>5, <2>1, <2>2, ToolReturns DEF ChatStep
<1>7. CASE work'[c].at # "answered"
  <2>1. UNCHANGED chatVars
    BY <1>7 DEF SelectRows
  <2>2. c \notin rules' /\ ~answer'[c].success
    BY <1>1, <1>4 DEF Untouched, Effects
  <2>3. AtWork(c)'
    BY <1>3, <1>7, <2>2 DEF AtWork, Selected
  <2>4. QED
    BY <1>1, <1>3, <1>5, <2>1, <2>3, ToolGoesOn DEF ChatStep
<1>8. QED
  BY <1>6, <1>7

\* Work at the provider is not reported yet.
LEMMA AtProviderFine ==
    ASSUME IInv, NEW k \in Requests, AtProvider(k), NEW c \in Calls, c = CallOf(k)
    PROVE  MailMoves(c) /\ CallsFine' /\ ChatStep
<1>1. ChatInv /\ CallsFine /\ MailProofs!IInv /\ AtWork(c) /\ req[k].at = "tools"
  BY BusyIsAtWork DEF IInv, MailIsSound, AtProvider, Busy
<1>2. UNCHANGED <<answer, rules>> /\ UNCHANGED chatVars
  BY DEF AtProvider, unsubVars
<1>3. MailMoves(c) /\ (GoesOn(c, "calling") \/ GoesOn(c, "logging"))
  BY <1>1, CallMoves, ReturnedMoves DEF AtProvider
<1>4. Touches(c)
  BY <1>2, <1>3, MailTouches
<1>5. AtWork(c)'
  <2>1. c \notin rules' /\ ~answer'[c].success
    BY <1>1, <1>2 DEF AtWork
  <2>2. work'[c].at \in {"calling", "logging"} /\ work'[c].ids # {}
    BY <1>1, <1>3 DEF AtWork, GoesOn
  <2>3. QED
    BY <2>1, <2>2 DEF AtWork
<1>6. QED
  BY <1>1, <1>2, <1>3, <1>4, <1>5, ToolGoesOn DEF ChatStep

\* A mail action that is answered is reported, with what it did.
LEMMA MailDoneFine ==
    ASSUME IInv, NEW k \in Requests, MailDone(k), NEW c \in Calls, c = CallOf(k)
    PROVE  MailMoves(c) /\ CallsFine' /\ ChatStep
<1>1. ChatInv /\ CallsFine /\ MailProofs!IInv /\ AtWork(c)
  BY BusyIsAtWork DEF IInv, MailIsSound, MailDone
<1>2. UNCHANGED <<answer, rules>> /\ Execute(k, TRUE) /\ Mail!Commit(c)
  BY DEF MailDone, unsubVars
<1>3. MailMoves(c) /\ GoesOn(c, "answered")
  BY <1>1, <1>2, CommitMoves
<1>4. Touches(c)
  BY <1>2, <1>3, MailTouches
<1>5. Earned(c)'
  BY <1>1, <1>3 DEF Earned, AtWork, GoesOn
<1>6. QED
  BY <1>1, <1>2, <1>3, <1>4, <1>5, ToolReturns DEF ChatStep

\* A mail action that fails ends the turn in an error.
LEMMA MailFailsFine ==
    ASSUME IInv, NEW k \in Requests, MailFails(k), NEW c \in Calls, c = CallOf(k)
    PROVE  MailMoves(c) /\ CallsFine' /\ ChatStep
<1>1. ChatInv /\ CallsFine /\ MailProofs!IInv
  BY DEF IInv, MailIsSound
<1>2. UNCHANGED <<answer, rules>> /\ ExecuteRaises(k) /\ Mail!Fail(c)
  BY DEF MailFails, unsubVars
<1>3. MailMoves(c)
  BY <1>1, <1>2, FailMoves
<1>4. Touches(c)
  BY <1>2, <1>3, MailTouches
<1>5. QED
  BY <1>1, <1>2, <1>3, <1>4, ToolRaises DEF ChatStep

\* What MailActions promises of the tool calls stays true.
LEMMA MailStepSound ==
    ASSUME MailIsSound, dryRun => applied = {}, NEW c \in Calls, MailMoves(c),
           MailProofs!IInv'
    PROVE  MailIsSound' /\ (dryRun' => applied' = {})
<1>1. applied \subseteq Calls \X Messages /\ applied' \subseteq Calls \X Messages
  BY WorkTypes DEF MailIsSound, MailProofs!IInv, MailProofs!TypeOK
<1>2. \A p \in applied' : p \in applied \/ (p[1] = c /\ ~dryRun)
  BY DEF MailMoves
<1>3. ASSUME NEW p \in applied' PROVE work'[p[1]].at # "idle"
  <2>1. p[1] \in Calls
    BY <1>1, <1>3
  <2>2. CASE p[1] = c
    BY <2>2 DEF MailMoves
  <2>3. CASE p[1] # c
    BY <1>2, <1>3, <2>1, <2>3 DEF MailMoves, MailIsSound
  <2>4. QED
    BY <2>2, <2>3
<1>4. \A e \in log' : e.result = "ok" \/ dryRun'
  BY DEF MailMoves, MailIsSound
<1>5. dryRun' => applied' = {}
  BY <1>2 DEF MailMoves
<1>6. QED
  BY <1>3, <1>4, <1>5 DEF MailIsSound

\* The invariant of MailActions holds of the tool calls through every step.
LEMMA MailStaysSound ==
    ASSUME ChatTypeOK, MailIsSound, [Next]_vars
    PROVE  MailProofs!IInv'
<1>1. SenderOf \in [Messages -> Senders]
  BY MessageAssumption
<1>2. CASE UNCHANGED Mail!vars
  <2>1. UNCHANGED MailProofs!vars
    BY <1>2 DEF Mail!vars, Mail!settings, MailProofs!vars, MailProofs!settings
  <2>2. QED
    BY <1>1, <2>1, MailProofs!NextIInv DEF MailIsSound
<1>3. CASE \E c \in Calls : Mail!RequestStep(c)
  <2>1. MailProofs!Next
    BY <1>3, MailSteps DEF MailProofs!Next
  <2>2. QED
    BY <1>1, <2>1, MailProofs!NextIInv DEF MailIsSound
<1>4. QED
  BY <1>2, <1>3, NextIsMail

\* A tool that only looks does nothing, and reports nothing done.
LEMMA LookFine ==
    ASSUME IInv, NEW k \in Requests, Look(k), NEW c \in Calls, c = CallOf(k)
    PROVE  CallsFine' /\ ChatStep
<1>1. ChatInv /\ CallsFine /\ Untouched(c)
  BY DueIsUntouched DEF IInv, Look
<1>2. UNCHANGED <<answer, work, rules, applied, log>>
  BY DEF Look, mailVars, unsubVars
<1>3. Touches(c) /\ c \notin Effects'
  BY <1>1, <1>2, AnswerTouches DEF Untouched
<1>4. QED
  BY <1>1, <1>3, ToolReturns, ToolRaises DEF Look, ChatStep

\* A rule that is added is reported, and stays.
LEMMA AddRuleFine ==
    ASSUME IInv, NEW k \in Requests, AddRule(k), NEW c \in Calls, c = CallOf(k)
    PROVE  CallsFine' /\ ChatStep /\ rules' \subseteq Calls
<1>1. ChatInv /\ CallsFine /\ rules \subseteq Calls
  BY DEF IInv
<1>2. UNCHANGED <<answer, work, applied, log>>
  BY DEF AddRule, mailVars, unsubVars
<1>3. CASE rules' = rules \cup CommittedRule(CallOf(k)) /\ Execute(k, TRUE)
  <2>1. rules' = rules \cup {c}
    BY <1>3 DEF CommittedRule
  <2>2. Touches(c)
    BY <1>2, <2>1 DEF Touches, Effects
  <2>3. Earned(c)'
    BY <2>1 DEF Earned
  <2>4. QED
    BY <1>1, <1>3, <2>1, <2>2, <2>3, ToolReturns DEF ChatStep
<1>4. CASE UNCHANGED rules /\ ExecuteRaises(k)
  <2>1. Touches(c)
    BY <1>2, <1>4, AnswerTouches
  <2>2. QED
    BY <1>1, <1>4, <2>1, ToolRaises DEF ChatStep
<1>5. QED
  BY <1>3, <1>4 DEF AddRule

\* The newest message of a sender is a stored one, of this sender.
LEMMA NewestIsOfSender ==
    ASSUME NEW s, NEW m \in Unsub!Newest(s) PROVE m \in stored /\ SenderOf[m] = s
  BY DEF Unsub!Newest, Unsub!OfSender

\* The unsubscribe tool reports the success of its own call.
LEMMA UnsubscribeToolFine ==
    ASSUME IInv, NEW k \in Requests, UnsubscribeTool(k), NEW c \in Calls, c = CallOf(k)
    PROVE  CallsFine' /\ UnsubFine' /\ ChatStep
<1>1. /\ ChatInv /\ CallsFine /\ UnsubFine /\ Untouched(c) /\ stored \subseteq Messages
  BY DueIsUntouched, WorkTypes DEF IInv, MailIsSound, UnsubscribeTool
<1>2. UNCHANGED <<provider, dryRun, stored, work, rules, applied, log>>
  BY DEF UnsubscribeTool, settings, mailVars
<1>3. CASE \E s \in Senders :
              Unsub!BySender(c, s) /\ Execute(k, answer'[CallOf(k)].success)
  <2>1. PICK s \in Senders : Unsub!BySender(c, s) /\ Execute(k, answer'[CallOf(k)].success)
    BY <1>3
  <2>2. PICK m \in Unsub!Newest(s) : Unsub!UnsubscribeMessage(c, m, s)
    BY <2>1 DEF Unsub!BySender
  <2>3. m \in stored /\ SenderOf[m] = s
    BY NewestIsOfSender
  <2>4. PICK method \in Unsub!Methods, success \in BOOLEAN : Went(c, m, s, method, success)
    BY <2>2, EachWay
  <2>5. /\ UnsubFine' /\ answer'[c].success = success
        /\ \A d \in Calls \cup {WebRequest} : d # c => answer'[d] = answer[d]
    BY <1>1, <2>3, <2>4, UnsubKeeps
  <2>6. Execute(k, success)
    BY <2>1, <2>5
  <2>7. Touches(c) /\ c \notin Effects'
    BY <1>1, <1>2, <2>5, AnswerTouches DEF Untouched
  <2>8. success => Earned(c)'
    BY <2>5 DEF Earned
  <2>9. QED
    BY <1>1, <2>5, <2>6, <2>7, <2>8, ToolReturns DEF ChatStep
<1>4. CASE (Execute(k, FALSE) \/ ExecuteRaises(k)) /\ UNCHANGED unsubVars
  <2>1. UNCHANGED <<posted, mailed, answer>>
    BY <1>4 DEF unsubVars
  <2>2. Touches(c) /\ c \notin Effects'
    BY <1>1, <1>2, <2>1, AnswerTouches DEF Untouched
  <2>3. UnsubFine'
    BY <1>1, <1>2, <2>1, UnsubStays
  <2>4. QED
    BY <1>1, <1>4, <2>2, <2>3, ToolReturns, ToolRaises DEF ChatStep
<1>5. QED
  BY <1>3, <1>4 DEF UnsubscribeTool

\* The page's own button touches no tool call.
LEMMA WebUnsubscribeFine ==
    ASSUME IInv, WebUnsubscribe
    PROVE  CallsFine' /\ UnsubFine'
<1>1. ChatInv /\ CallsFine /\ UnsubFine /\ stored \subseteq Messages
  BY WorkTypes DEF IInv, MailIsSound
<1>2. UNCHANGED <<history, waiting, req, work, rules, applied, log>>
  BY DEF WebUnsubscribe, chatVars, mailVars
<1>3. PICK m \in stored : Unsub!UnsubscribeMessage(WebRequest, m, "none")
  BY DEF WebUnsubscribe, Unsub!ByMessage
<1>4. PICK method \in Unsub!Methods, success \in BOOLEAN :
          Went(WebRequest, m, "none", method, success)
  BY <1>3, EachWay
<1>5. UnsubFine' /\ \A d \in Calls \cup {WebRequest} : d # WebRequest => answer'[d] = answer[d]
  BY <1>1, <1>4, UnsubKeeps
<1>6. \A d \in Calls : answer'[d] = answer[d]
  BY <1>5, WebIsApart
<1>7. \A d \in Calls : /\ Untouched(d) => Untouched(d)'
                       /\ AtWork(d) => AtWork(d)'
                       /\ Earned(d) => Earned(d)'
                       /\ d \in Effects' => d \in Effects
  BY <1>2, <1>6 DEF Untouched, AtWork, Earned, Effects
<1>8. ReportsAreEarned'
  <2> SUFFICES ASSUME NEW d \in Calls, Told(d)' PROVE Earned(d)'
    BY DEF ReportsAreEarned
  <2>1. Told(d)
    BY <1>2 DEF Told
  <2>2. QED
    BY <1>1, <1>7, <2>1 DEF CallsFine, ReportsAreEarned
<1>9. ASSUME NEW k \in Requests PROVE EffectsAreTold(k)'
  <2> SUFFICES ASSUME NEW d \in Calls, d \in Effects', d[1] = k
               PROVE  /\ req[k].at \in {"second", "answered"} => Reports(req[k].messages, d)
                      /\ req[k].at = "tools" => Reports(req[k].messages, d) \/ d = CallOf(k)
    BY <1>2 DEF EffectsAreTold, CallOf
  <2>1. QED
    BY <1>1, <1>7 DEF CallsFine, EffectsAreTold
<1>10. ASSUME NEW k \in Requests PROVE CallsAreFresh(k)'
  <2>1. req[k].at = "over"
    BY DEF WebUnsubscribe
  <2>2. QED
    BY <1>2, <2>1 DEF CallsAreFresh
<1>11. QED
  BY <1>5, <1>8, <1>9, <1>10 DEF CallsFine

-----------------------------------------------------------------------------
(* IInv.                                                                    *)

\* Nothing is said or done at the start.
LEMMA InitIInv == Init => IInv
<1> SUFFICES ASSUME Init PROVE IInv
  OBVIOUS
<1>1. /\ history = <<>> /\ waiting = 0 /\ req = [k \in Requests |-> Idle("unsent")]
      /\ rules = {} /\ applied = {} /\ log = {} /\ posted = {} /\ mailed = {}
      /\ answer = [r \in Calls \cup {WebRequest} |-> Unsub!NoAnswer]
  BY DEF Init, ChatInit, Mail!Init, Unsub!Init
<1>2. MailProofs!IInv
  <2>1. SenderOf \in [Messages -> Senders]
    BY MessageAssumption
  <2>2. MailProofs!Init
    BY Zenon
    DEF Init, Mail!Init, MailProofs!Init, Mail!NoLabels, MailProofs!NoLabels
  <2>3. QED
    BY <2>1, <2>2, MailProofs!InitIInv
<1>3. \A c \in Calls : work[c].at = "idle"
  BY DEF Init, Mail!Init
<1>4. Unsub!NoAnswer.success = FALSE
  BY DEF Unsub!NoAnswer
<1>5. UnsubFine
  <2>1. Unsub!TypeOK
    BY <1>1 DEF Unsub!TypeOK
  <2>2. Unsub!SuccessWentOut
    BY <1>1, <1>4 DEF Unsub!SuccessWentOut
  <2>3. Unsub!OnlyWantedContacts
    BY <1>1 DEF Unsub!OnlyWantedContacts
  <2>4. QED
    BY <2>1, <2>2, <2>3 DEF UnsubFine
<1>6. \A c \in Calls : Untouched(c)
  BY <1>1, <1>3, <1>4 DEF Untouched, Effects
<1>7. /\ Idle("unsent") \in Request /\ Idle("unsent").at = "unsent"
      /\ Idle("unsent").sent = <<>> /\ Idle("unsent").messages = <<>>
      /\ Idle("unsent").left = <<>>
  <2>1. <<>> \in Seq(Calls) /\ <<>> \in Seq(Message)
    BY EmptySeq
  <2>2. QED
    BY <2>1 DEF Idle, Request
<1>8. /\ req \in [Requests -> Request]
      /\ \A k \in Requests : /\ req[k].at = "unsent" /\ req[k].sent = <<>>
                             /\ req[k].messages = <<>> /\ req[k].left = <<>>
  BY <1>1, <1>7
<1>9. Paired(<<>>) /\ Ended(<<>>)
  BY EmptySeq DEF Paired, Ended
<1>10. ChatInv
  <2>1. <<>> \in Seq(Message) /\ 0 \in 0..MaxTurns
    BY EmptySeq, BoundAssumption
  <2>2. ChatTypeOK
    BY <1>1, <1>8, <2>1 DEF ChatTypeOK
  <2>3. \A k \in Requests : TalkIsFine(k)
    BY <1>8, <1>9 DEF TalkIsFine
  <2>4. QED
    BY <1>1, <1>9, <2>2, <2>3 DEF ChatInv
<1>11. CallsFine
  <2>1. \A c \in Calls : ~Told(c)
    BY <1>1, <1>8, NothingReported DEF Told
  <2>2. \A k \in Requests : CallsAreFresh(k)
    BY <1>6, <1>8 DEF CallsAreFresh
  <2>3. \A k \in Requests : EffectsAreTold(k)
    BY <1>8 DEF EffectsAreTold
  <2>4. QED
    BY <2>1, <2>2, <2>3 DEF CallsFine, ReportsAreEarned
<1>12. QED
  BY <1>1, <1>2, <1>5, <1>10, <1>11 DEF IInv, MailIsSound

\* A step that moves no mail leaves what MailActions promises.
LEMMA NoMailSound ==
    ASSUME MailIsSound, dryRun => applied = {}, MailProofs!IInv',
           UNCHANGED <<dryRun, work, applied, log>>
    PROVE  MailIsSound' /\ (dryRun' => applied' = {})
  BY DEF MailIsSound

\* A step of a tool keeps the invariant.
LEMMA UseToolIInv ==
    ASSUME IInv, NEW k \in Requests, UseTool(k), MailProofs!IInv'
    PROVE  IInv'
<1>1. /\ ChatInv /\ MailIsSound /\ UnsubFine /\ rules \subseteq Calls
      /\ (dryRun => applied = {})
  BY DEF IInv
<1>2. PICK c \in Calls : c = CallOf(k)
  <2>1. req[k].at = "tools"
    BY DEF UseTool, Look, SelectRows, AtProvider, MailDone, MailFails, UnsubscribeTool, AddRule,
           Due, Busy
  <2>2. QED
    BY <1>1, <2>1, CallsOf
<1>3. CASE MailTool(k)
  <2>1. MailMoves(c) /\ CallsFine' /\ ChatStep
    BY <1>2, <1>3, SelectRowsFine, AtProviderFine, MailDoneFine, MailFailsFine DEF MailTool
  <2>2. MailIsSound' /\ (dryRun' => applied' = {})
    BY <1>1, <2>1, MailStepSound
  <2>3. UNCHANGED <<posted, mailed, answer, rules>>
    BY <1>3 DEF MailTool, SelectRows, AtProvider, MailDone, MailFails, unsubVars
  <2>4. UnsubFine'
    BY <1>1, <2>1, <2>3, UnsubStays DEF MailMoves
  <2>5. ChatInv'
    BY <1>1, <2>1, ChatKeeps
  <2>6. QED
    BY <1>1, <2>1, <2>2, <2>3, <2>4, <2>5 DEF IInv
<1>4. CASE Look(k) \/ AddRule(k) \/ UnsubscribeTool(k)
  <2>1. CallsFine' /\ ChatStep
    BY <1>2, <1>4, LookFine, AddRuleFine, UnsubscribeToolFine
  <2>2. UNCHANGED <<dryRun, work, applied, log>>
    BY <1>4 DEF Look, AddRule, UnsubscribeTool, settings, mailVars
  <2>3. MailIsSound' /\ (dryRun' => applied' = {})
    BY <1>1, <2>2, NoMailSound
  <2>4. rules' \subseteq Calls
    <3>1. CASE AddRule(k)
      BY <1>2, <3>1, AddRuleFine
    <3>2. CASE Look(k) \/ UnsubscribeTool(k)
      BY <1>1, <3>2 DEF Look, UnsubscribeTool
    <3>3. QED
      BY <1>4, <3>1, <3>2
  <2>5. UnsubFine'
    <3>1. CASE UnsubscribeTool(k)
      BY <1>2, <3>1, UnsubscribeToolFine
    <3>2. CASE Look(k) \/ AddRule(k)
      BY <1>1, <3>2, UnsubStays DEF Look, AddRule, settings, unsubVars
    <3>3. QED
      BY <1>4, <3>1, <3>2
  <2>6. ChatInv'
    BY <1>1, <2>1, ChatKeeps
  <2>7. QED
    BY <2>1, <2>3, <2>4, <2>5, <2>6 DEF IInv
<1>5. QED
  BY <1>3, <1>4 DEF UseTool, MailTool

\* Every step does.
LEMMA NextIInv == IInv /\ [Next]_vars => IInv'
<1> SUFFICES ASSUME IInv, [Next]_vars PROVE IInv'
  OBVIOUS
<1>1. /\ ChatInv /\ ChatTypeOK /\ MailIsSound /\ UnsubFine /\ rules \subseteq Calls
      /\ CallsFine /\ (dryRun => applied = {})
  BY DEF IInv, ChatInv
<1>2. MailProofs!IInv'
  BY <1>1, MailStaysSound
<1>3. CASE \E k \in Requests : UseTool(k)
  BY <1>2, <1>3, UseToolIInv
<1>4. CASE WebUnsubscribe
  <2>1. /\ UNCHANGED chatVars /\ UNCHANGED rules
        /\ UNCHANGED <<dryRun, work, applied, log>>
    BY <1>4
    DEF WebUnsubscribe, mailVars, Unsub!ByMessage, Unsub!UnsubscribeMessage
  <2>2. ChatInv'
    BY <1>1, <2>1, ChatKeeps DEF ChatStep
  <2>3. QED
    BY <1>1, <1>2, <1>4, <2>1, <2>2, NoMailSound, WebUnsubscribeFine DEF IInv
<1>5. CASE (Talk \/ UNCHANGED chatVars)
           /\ UNCHANGED <<settings, stored, mailVars, unsubVars, rules>>
  <2>1. /\ UNCHANGED <<provider, dryRun, stored, work, applied, log>>
        /\ UNCHANGED <<posted, mailed, answer, rules>>
    BY <1>5 DEF settings, mailVars, unsubVars
  <2>2. ChatInv'
    BY <1>1, <1>5, ChatKeeps DEF ChatStep
  <2>3. CallsFine'
    BY <1>1, <1>5, <2>1, TalkSpeaks DEF ToolsRest
  <2>4. QED
    BY <1>1, <1>2, <2>1, <2>2, <2>3, NoMailSound, UnsubStays DEF IInv
<1>6. QED
  BY <1>3, <1>4, <1>5 DEF Next, vars

-----------------------------------------------------------------------------
(* The theorems.                                                            *)

\* IInv holds of every state that is reached.
LEMMA InvariantHolds == Spec => []IInv
<1>1. QED
  BY InitIInv, NextIInv, PTL DEF Spec

\* The page, the requests under way, the mail actions and what was unsubscribed from
\* have their types in every state of process_message and its tools.
THEOREM TypeCorrect == Spec => []TypeOK
<1>1. ASSUME IInv PROVE TypeOK
  <2>1. ChatTypeOK /\ Unsub!TypeOK /\ rules \subseteq Calls /\ MailProofs!TypeOK
    BY <1>1 DEF IInv, ChatInv, UnsubFine, MailIsSound, MailProofs!IInv
  <2>2. Mail!TypeOK
    BY <2>1, Zenon
    DEF Mail!TypeOK, MailProofs!TypeOK, Mail!Labels, MailProofs!Labels, Mail!LogRow,
        MailProofs!LogRow, Mail!Request, MailProofs!Request, Mail!Actions, MailProofs!Actions
  <2>3. QED
    BY <2>1, <2>2 DEF TypeOK
<1>2. QED
  BY <1>1, InvariantHolds, PTL

\* One failed turn does not spoil a conversation (services/chat.py, process_message;
\* templates/chat.html): whatever raised, was cleared or cut off, however many tools
\* an answer called, each conversation that is sent to the LLM has the result of
\* every tool call right behind it.
THEOREM ConversationsStayPaired == Spec => []ConversationsArePaired
<1>1. ASSUME IInv PROVE ConversationsArePaired
  BY <1>1 DEF IInv, ChatInv, TalkIsFine, ConversationsArePaired
<1>2. QED
  BY <1>1, InvariantHolds, PTL

\* What a call has earned is there.
LEMMA EarnedIsClaimed ==
    ASSUME IInv, NEW call \in Calls, Earned(call)
    PROVE  Claimed(call)
<1>1. CASE call \in rules
  BY <1>1 DEF Claimed
<1>2. CASE answer[call].success
  <2>1. \/ dryRun
        \/ <<call, answer[call].msg>> \in posted
        \/ <<call, answer[call].msg>> \in mailed
    BY <1>2 DEF IInv, UnsubFine, Unsub!SuccessWentOut
  <2>2. QED
    BY <1>2, <2>1 DEF Claimed
<1>3. CASE work[call].at = "answered" /\ work[call].ids # {}
  <2>1. /\ MailProofs!LoggedIfAnswered(call) /\ MailProofs!LogWasTrue
        /\ \A e \in log : e.result = "ok" \/ dryRun
    BY DEF IInv, MailIsSound, MailProofs!IInv, MailProofs!Sound
  <2>2. {e.msg : e \in {x \in log : x.by = call}} = work[call].ids
    BY <1>3, <2>1 DEF MailProofs!LoggedIfAnswered, MailProofs!LoggedBy
  <2>3. ASSUME NEW m \in work[call].ids
        PROVE  \/ dryRun \/ <<call, m>> \in applied
               \/ provider = "imap" /\ "INBOX" \notin mailbox[m]
    <3>1. PICK e \in log : e.by = call /\ e.msg = m
      BY <2>2
    <3>2. dryRun \/ MailProofs!Done(e.by, e.msg)
      BY <2>1 DEF MailProofs!LogWasTrue
    <3>3. QED
      BY <3>1, <3>2 DEF MailProofs!Done
  <2>4. QED
    BY <1>3, <2>2, <2>3 DEF Claimed, Moved
<1>4. QED
  BY <1>1, <1>2, <1>3 DEF Earned

\* Whatever a conversation says was done, for any number of turns whose tools
\* interleave, was done and is recorded: _trash_by_sender and _archive_by_sender
\* commit before they return, _add_rule and _unsubscribe_from_sender report what
\* went through, and a failed turn is answered with the history it was sent with.
THEOREM ToldWasDone == Spec => []ToldIsDone
<1>1. ASSUME IInv PROVE ToldIsDone
  <2>1. ASSUME NEW call \in Calls,
               Reports(history, call) \/ \E k \in Requests : Reports(req[k].messages, call)
        PROVE  Claimed(call)
    <3>1. Earned(call)
      BY <1>1, <2>1 DEF IInv, CallsFine, ReportsAreEarned, Told
    <3>2. QED
      BY <1>1, <3>1, EarnedIsClaimed
  <2>2. Unsub!SuccessWentOut
    BY <1>1 DEF IInv, UnsubFine
  <2>3. QED
    BY <2>1, <2>2 DEF ToldIsDone
<1>2. QED
  BY <1>1, InvariantHolds, PTL

\* An answer without an error keeps nothing back: each tool call of its turn that
\* moved a message, logged one or added a rule is reported in it.
THEOREM DoneWasTold == Spec => []DoneIsTold
<1>1. ASSUME IInv PROVE DoneIsTold
  <2>1. Effects \subseteq Calls
    <3>1. /\ rules \subseteq Calls
          /\ \A p \in applied : p[1] \in Calls
          /\ \A e \in log : e.by \in Calls
      BY <1>1, WorkTypes DEF IInv, MailIsSound, MailProofs!LogRow
    <3>2. QED
      BY <3>1 DEF Effects
  <2>2. QED
    BY <1>1, <2>1 DEF IInv, CallsFine, EffectsAreTold, DoneIsTold
<1>2. QED
  BY <1>1, InvariantHolds, PTL

\* unsubscribe.py:49-50, "DON'T auto-GET": only a one-click link is contacted, and in a
\* dry run neither the chat nor the page gets to a server, an address or the mailbox.
THEOREM ContactsAreWanted == Spec => []OnlyWantedContacts
<1>1. ASSUME IInv PROVE OnlyWantedContacts
  BY <1>1 DEF IInv, UnsubFine, OnlyWantedContacts
<1>2. QED
  BY <1>1, InvariantHolds, PTL

\* The chat's mail tools, whatever the conversation around them does, behave as the
\* requests of MailActions do: what is proved of those holds of the tool calls.
THEOREM ToolsAreMailActions == Spec => Mail!Spec
<1>1. Init => Mail!Init
  BY DEF Init
<1>2. ASSUME IInv, [Next]_vars PROVE [Mail!Next]_Mail!vars
  BY <1>2, NextIsMail DEF IInv, ChatInv, Mail!Next
<1>3. QED
  BY <1>1, <1>2, InvariantHolds, PTL DEF Spec, Mail!Spec
=============================================================================
