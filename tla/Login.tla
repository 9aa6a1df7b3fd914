------------------------------- MODULE Login -------------------------------
(***************************************************************************)
(* Connecting a Gmail account (mailllama/web/routes/auth.py): the server    *)
(* makes up a PKCE verifier, leaves it in the session cookie                *)
(* (SessionMiddleware in mailllama/web/app.py) and sends the browser to     *)
(* Google; Google sends it back to the callback, which takes the verifier   *)
(* out of the cookie, has the code exchanged and stores the token,          *)
(* encrypted. All tabs of a browser share one cookie, whose content travels *)
(* with a request and comes back, changed or not, with the response,        *)
(* whatever else has arrived in between.                                    *)
(***************************************************************************)
EXTENDS Naturals

CONSTANTS
    Flows,          \* bound: logins that are started
    Emails,
    Keys, NoKey     \* values of SECRET_KEY; none

ASSUME NoKeyAssumption == NoKey \notin Keys

NoFlow == "none"

ASSUME NoFlowAssumption == NoFlow \notin Flows

VARIABLES
    server,     \* the process, with the settings it read when it started
    blob,       \* per account row: the key its token is encrypted with
                \* (NoKey: there is no row)
    jar,        \* the browser's session cookie
    flow,       \* per login: where it is, and the session of its request
    excused     \* logins that were disturbed, refused, or failed by others

loginVars == <<server, blob, jar, flow, excused>>

\* Signed with SECRET_KEY, or with a constant if there is none. The state that
\* goes with the verifier is never compared: all that matters is that a cookie
\* whose verifier was taken out is not gone.
Cookie == [key : Keys \cup {NoKey}, verifier : Flows \cup {NoFlow}]

NoCookie == [verifier |-> NoFlow]

Flow == [at : {"idle", "starting", "consent", "callback", "exchanged", "looked up",
               "stored", "refused", "connected", "failed"},
         session : Cookie \cup {NoCookie}, email : Emails \cup {NoFlow}, found : BOOLEAN]

Down == [up |-> FALSE, key |-> NoKey, client |-> FALSE]

LoginInit ==
    /\ server = Down
    /\ blob = [e \in Emails |-> NoKey]
    /\ jar = NoCookie
    /\ flow = [f \in Flows |-> [at |-> "idle", session |-> NoCookie, email |-> NoFlow,
                                found |-> FALSE]]
    /\ excused = {}

Consenting == {f \in Flows : flow[f].at = "consent"}

InServer == {f \in Flows : flow[f].at \in
                {"starting", "callback", "exchanged", "looked up", "stored", "refused"}}

-----------------------------------------------------------------------------
(* The process. get_settings caches what it read.                           *)

Launch(key, client) ==
    /\ ~server.up
    /\ server' = [up |-> TRUE, key |-> key, client |-> client]
    /\ excused' = IF jar # NoCookie /\ jar.key # key THEN excused \cup Consenting ELSE excused
    /\ UNCHANGED <<blob, jar, flow>>

\* Requests under way get no answer.
Stop ==
    /\ server.up
    /\ server' = Down
    /\ flow' = [f \in Flows |->
          IF f \in InServer THEN [flow[f] EXCEPT !.at = "failed", !.session = NoCookie]
          ELSE flow[f]]
    /\ excused' = excused \cup InServer
    /\ UNCHANGED <<blob, jar>>

-----------------------------------------------------------------------------
(* SessionMiddleware. It sends back what was changed; no other page changes *)
(* the session.                                                             *)

\* A cookie that is not signed with the key of this process is passed over.
Session(cookie) ==
    IF cookie # NoCookie /\ cookie.key = server.key THEN cookie ELSE NoCookie

\* A response sets the cookie, deletes it, or leaves it alone.
Arrives(cookie, f) ==
    /\ jar' = cookie
    /\ excused' = IF cookie # jar THEN excused \cup (Consenting \ {f}) ELSE excused

-----------------------------------------------------------------------------
(* gmail_start.                                                             *)

\* Mutation: a verifier that is already in the session is kept.
VerifierKept(f) ==
    IF flow[f].session.verifier = NoFlow THEN f ELSE flow[f].session.verifier

Verifier(f) == f

Start(f) ==
    /\ server.up
    /\ flow[f].at = "idle"
    /\ flow' = [flow EXCEPT ![f].at = IF server.client THEN "starting" ELSE "refused",
                            ![f].session = Session(jar)]
    /\ excused' = IF server.client THEN excused ELSE excused \cup {f}
    /\ UNCHANGED <<server, blob, jar>>

Redirected(f) ==
    /\ flow[f].at = "starting"
    /\ flow' = [flow EXCEPT ![f].at = "consent", ![f].session = NoCookie]
    /\ Arrives([key |-> server.key, verifier |-> Verifier(f)], f)
    /\ UNCHANGED <<server, blob>>

-----------------------------------------------------------------------------
(* gmail_callback.                                                          *)

Popped(session) == IF session = NoCookie THEN NoCookie ELSE [session EXCEPT !.verifier = NoFlow]

\* The user consents, with one of the accounts; the browser comes back with
\* whatever cookie it has by now. Without a SECRET_KEY nothing is exchanged.
Callback(f) ==
    /\ server.up
    /\ flow[f].at = "consent"
    /\ \E e \in Emails :
         flow' = [flow EXCEPT ![f].at = IF server.key = NoKey THEN "refused" ELSE "callback",
                              ![f].session = Session(jar), ![f].email = e]
    /\ excused' = IF server.key = NoKey THEN excused \cup {f} ELSE excused
    /\ UNCHANGED <<server, blob, jar>>

\* The user does not consent: a callback without a code is turned away before the
\* handler.
Deny(f) ==
    /\ server.up
    /\ flow[f].at = "consent"
    /\ flow' = [flow EXCEPT ![f].at = "refused", ![f].session = Session(jar)]
    /\ excused' = excused \cup {f}
    /\ UNCHANGED <<server, blob, jar>>

\* Google compares the verifier with the challenge it was given at the start, and
\* wants to know the client: the process may have lost its settings since.
Exchange(f) ==
    /\ flow[f].at = "callback"
    /\ flow' = [flow EXCEPT
          ![f].at = IF server.client /\ flow[f].session.verifier = f THEN "exchanged" ELSE "refused",
          ![f].session = Popped(flow[f].session)]
    /\ excused' = IF server.client THEN excused ELSE excused \cup {f}
    /\ UNCHANGED <<server, blob, jar>>

LookUp(f) ==
    /\ flow[f].at = "exchanged"
    /\ flow' = [flow EXCEPT ![f].at = "looked up", ![f].found = blob[flow[f].email] # NoKey]
    /\ UNCHANGED <<server, blob, jar, excused>>

\* The row is inserted, which fails if it is there by now, or updated.
Store(f) ==
    /\ flow[f].at = "looked up"
    /\ LET e == flow[f].email
           twice == ~flow[f].found /\ blob[e] # NoKey
       IN /\ blob' = IF twice THEN blob ELSE [blob EXCEPT ![e] = server.key]
          /\ flow' = [flow EXCEPT ![f].at = IF twice THEN "refused" ELSE "stored"]
          /\ excused' = excused \cup {g \in Flows \ {f} :
                flow[g].at = "looked up" /\ ~flow[g].found /\ flow[g].email = e}
    /\ UNCHANGED <<server, jar>>

\* Google, or the database, fails.
Trouble(f) ==
    /\ flow[f].at \in {"callback", "exchanged", "looked up"}
    /\ flow' = [flow EXCEPT ![f].at = "refused", ![f].session = Popped(flow[f].session)]
    /\ excused' = excused \cup {f}
    /\ UNCHANGED <<server, blob, jar>>

\* "Connected" empties the session and so deletes the cookie; an error leaves what
\* is left of it.
Finish(f) ==
    /\ flow[f].at \in {"stored", "refused"}
    /\ flow' = [flow EXCEPT ![f].session = NoCookie, ![f].found = FALSE,
                   ![f].at = IF flow[f].at = "stored" THEN "connected" ELSE "failed"]
    /\ IF flow[f].at = "stored" THEN Arrives(NoCookie, f)
       ELSE \E cookie \in {jar} \cup ({flow[f].session} \ {NoCookie}) : Arrives(cookie, f)
    /\ UNCHANGED <<server, blob>>

-----------------------------------------------------------------------------
LoginNext ==
    \/ Stop
    \/ \E f \in Flows :
         \/ Start(f) \/ Redirected(f) \/ Callback(f) \/ Deny(f) \/ Exchange(f)
         \/ LookUp(f) \/ Store(f) \/ Trouble(f) \/ Finish(f)

-----------------------------------------------------------------------------
\* Type invariant: cookies, requests under way, accounts.
LoginTypeOK ==
    /\ server \in [up : BOOLEAN, key : Keys \cup {NoKey}, client : BOOLEAN]
    /\ blob \in [Emails -> Keys \cup {NoKey}]
    /\ jar \in Cookie \cup {NoCookie}
    /\ flow \in [Flows -> Flow]
    /\ excused \subseteq Flows
    /\ \A f \in Flows : flow[f].at \in {"idle", "consent", "connected", "failed"}
                            => flow[f].session = NoCookie
    /\ ~server.up => InServer = {}

\* A login that nothing disturbs connects. It may fail only because another response
\* changed the cookie while the user was at Google's, the process stopped, or came
\* back with another key, lacks settings, the user, Google or the database refused,
\* or two logins made one new account at the same time; above all, a failed login is no
\* reason for the next one to fail ("Try again", auth.py:83).
LoginFailsForAReason == \A f \in Flows : flow[f].at = "failed" => f \in excused
=============================================================================
