-------------------------------- MODULE Chat --------------------------------
(***************************************************************************)
(* process_message (mailllama/services/chat.py), its route                  *)
(* (web/routes/chat.py) and the page that keeps the conversation            *)
(* (templates/chat.html). The server keeps nothing: the page sends the      *)
(* history with every message and replaces it by the one in the answer. The *)
(* LLM may call tools, which commit one by one. A message of a history is   *)
(* its role, the tool calls it makes or answers, and whether it reports an  *)
(* effect. What the tools do is left open here: Assistant puts the mail     *)
(* actions, unsubscribing and rules behind them.                            *)
(***************************************************************************)
EXTENDS Naturals, Sequences

CONSTANTS
    MaxTurns,       \* bound: messages the user sends
    MaxCalls        \* bound: tool calls in the LLM's answer to each message

Requests == 1..MaxTurns

ASSUME BoundAssumption == MaxTurns \in Nat /\ MaxCalls \in [Requests -> Nat]

Calls == UNION {{k} \X (1..MaxCalls[k]) : k \in Requests}

Message == [role : {"user", "assistant", "tool"}, calls : Seq(Calls), did : BOOLEAN]

Request == [at : {"unsent", "first", "plain", "tools", "second", "answered", "error", "over"},
            sent : Seq(Message), messages : Seq(Message), left : Seq(Calls)]

VARIABLES
    history,    \* chatHistory of the page
    waiting,    \* the request the page waits for (0: none)
    req

chatVars == <<history, waiting, req>>

Idle(at) == [at |-> at, sent |-> <<>>, messages |-> <<>>, left |-> <<>>]

ChatInit ==
    /\ history = <<>>
    /\ waiting = 0
    /\ req = [k \in Requests |-> Idle("unsent")]

Text(role) == [role |-> role, calls |-> <<>>, did |-> FALSE]

-----------------------------------------------------------------------------
(* The page.                                                                *)

Send ==
    /\ waiting = 0
    /\ \E k \in Requests :
         /\ req[k].at = "unsent"
         /\ \A j \in Requests : j < k => req[j].at # "unsent"
         /\ req' = [req EXCEPT ![k] =
               [at |-> "first", sent |-> history,
                messages |-> Append(history, Text("user")), left |-> <<>>]]
         /\ waiting' = k
    /\ UNCHANGED history

\* Mutation: an error is answered with the messages so far.
ErrorHistoryPartial(k) == req[k].messages

ErrorHistory(k) == req[k].sent

\* The answer arrives, if the page is still there for it.
Deliver(k) ==
    /\ req[k].at \in {"answered", "error"}
    /\ req' = [req EXCEPT ![k] = Idle("over")]
    /\ IF waiting = k
       THEN /\ history' = IF req[k].at = "error" THEN ErrorHistory(k) ELSE req[k].messages
            /\ waiting' = 0
       ELSE UNCHANGED <<history, waiting>>

\* The connection breaks: the page gives up, the server does not notice.
Disconnect ==
    /\ waiting # 0
    /\ waiting' = 0
    /\ UNCHANGED <<history, req>>

\* clearChat does not stop a request that is under way.
Clear ==
    /\ history # <<>>
    /\ history' = <<>>
    /\ UNCHANGED <<waiting, req>>

-----------------------------------------------------------------------------
(* process_message.                                                         *)

\* Where a request goes on, with which conversation and tool calls to make.
Goes(k, at, messages, left) ==
    req' = [req EXCEPT ![k] =
               [at |-> at, sent |-> req[k].sent, messages |-> messages, left |-> left]]

\* No account's provider, no database, no tool that works with these arguments,
\* no LLM: the route answers with an error.
Error(k) ==
    /\ req[k].at \in {"first", "plain", "second"}
    /\ Goes(k, "error", req[k].messages, req[k].left)
    /\ UNCHANGED <<history, waiting>>

\* The call with tools fails: the same without.
FallBack(k) ==
    /\ req[k].at = "first"
    /\ Goes(k, "plain", req[k].messages, req[k].left)
    /\ UNCHANGED <<history, waiting>>

\* Mutation: the answer's history keeps what was said, not what was done.
OutHistorySaid(messages) ==
    SelectSeq(messages, LAMBDA m : m.role # "tool" /\ m.calls = <<>>)

OutHistory(messages) == messages

Reply(k) ==
    /\ req[k].at \in {"first", "plain"}
    /\ Goes(k, "answered", Append(OutHistory(req[k].messages), Text("assistant")), req[k].left)
    /\ UNCHANGED <<history, waiting>>

\* Which tools they call shows when their turn comes.
CallTools(k) ==
    /\ req[k].at \in {"first", "plain"}
    /\ \E n \in 1..MaxCalls[k] :
         LET ids == [i \in 1..n |-> <<k, i>>] IN
         Goes(k, "tools",
              Append(req[k].messages, [role |-> "assistant", calls |-> ids, did |-> FALSE]), ids)
    /\ UNCHANGED <<history, waiting>>

AfterCall(left) == IF Len(left) = 1 THEN "second" ELSE "tools"

CallOf(k) == Head(req[k].left)

\* A tool returns; its result says that something was done, or not.
Execute(k, did) ==
    /\ req[k].at = "tools"
    /\ Goes(k, AfterCall(req[k].left),
            Append(req[k].messages, [role |-> "tool", calls |-> <<CallOf(k)>>, did |-> did]),
            Tail(req[k].left))
    /\ UNCHANGED <<history, waiting>>

\* A tool raises: the calls after it are not made, those before it not undone.
ExecuteRaises(k) ==
    /\ req[k].at = "tools"
    /\ Goes(k, "error", req[k].messages, <<>>)
    /\ UNCHANGED <<history, waiting>>

\* The second answer is text; tool calls in it are not looked at.
Summarize(k) ==
    /\ req[k].at = "second"
    /\ Goes(k, "answered", Append(OutHistory(req[k].messages), Text("assistant")), req[k].left)
    /\ UNCHANGED <<history, waiting>>

-----------------------------------------------------------------------------
Talk ==
    \/ Send \/ Disconnect \/ Clear
    \/ \E k \in Requests :
         Error(k) \/ FallBack(k) \/ Reply(k) \/ CallTools(k) \/ Summarize(k) \/ Deliver(k)

-----------------------------------------------------------------------------
\* What an LLM accepts: a conversation that starts with the user, in which the
\* results of an answer's tool calls follow it one by one, in order, before
\* anything else is said.
Paired(h) ==
    /\ h # <<>> => h[1].role = "user"
    /\ \A i \in 1..Len(h) :
         /\ h[i].role = "assistant" => \A n \in 1..Len(h[i].calls) :
              i + n <= Len(h) /\ h[i+n].role = "tool" /\ h[i+n].calls = <<h[i].calls[n]>>
         /\ h[i].role = "tool" => \E j \in 1..(i-1) :
              h[j].role = "assistant" /\ i - j <= Len(h[j].calls)
         /\ h[i].role = "user" => i = 1 \/ h[i-1].role = "assistant"

Reports(h, call) == \E i \in 1..Len(h) : h[i].role = "tool" /\ h[i].did /\ h[i].calls = <<call>>

\* Type invariant: the page's history and the requests under way.
ChatTypeOK ==
    /\ history \in Seq(Message)
    /\ waiting \in 0..MaxTurns
    /\ req \in [Requests -> Request]
    /\ \A k \in Requests : req[k].at = "tools" <=> req[k].left # <<>>

\* One failed turn does not spoil a conversation: whatever failed, was cleared or
\* cut off, every conversation sent to the LLM is one it accepts.
ConversationsArePaired ==
    /\ Paired(history)
    /\ \A k \in Requests : req[k].at \in {"first", "plain", "second"} => Paired(req[k].messages)
=============================================================================
