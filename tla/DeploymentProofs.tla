------------------------- MODULE DeploymentProofs --------------------------
(***************************************************************************)
(* Proofs about Deployment, for any number of logins, accounts and keys,    *)
(* and however often setup is run, the file edited and the server started.  *)
(*                                                                         *)
(* The inductive invariant IInv says, beside the types,                     *)
(*   AnswersAreKept - while setup writes, the file is empty, and what it    *)
(*                    read and the user left alone is in its answers,       *)
(*   KeyIsKept      - unless the key was lost, setup has read the line it   *)
(*                    is in, and tokens and servers have no other,          *)
(*   LoginsGoWell   - a login nothing disturbed finds its cookie and its    *)
(*                    row as it left them.                                  *)
(***************************************************************************)
EXTENDS Deployment, TLAPS

\* What stands in the place of the key is a key, or nothing; a yes/no is one.
FileFits(file) ==
    /\ file["SECRET_KEY"].text \in SecretKeys \cup {NoValue}
    /\ file["DRY_RUN"].text \in {"true", "y", "false", NoValue}

TextsFit ==
    /\ FileFits(env) /\ FileFits(setup.was)
    /\ setup.at = "writing" => setup.answers["DRY_RUN"] \in {"true", "false"}

Typed == TypeOK /\ TextsFit

-----------------------------------------------------------------------------
(* Types: setup.                                                            *)

LEMMA PlainIsLine ==
    ASSUME NEW text \in Texts
    PROVE  Plain(text) \in Line /\ Plain(text).text = text /\ Plain(text).form = "plain"
  BY DEF Plain, Line

\* A key is read as it stands.
LEMMA SettingOfKey ==
    ASSUME NEW line, line.text \in SecretKeys \cup {NoValue}
    PROVE  Setting(line) = line.text
  BY KeyAssumption DEF Setting, NoValue

LEMMA EmptyFileIsFile == EmptyFile \in [Names -> Line] /\ FileFits(EmptyFile)
                         /\ EmptyFile["SECRET_KEY"].text = NoValue
<1>1. NoValue \in Texts
  BY DEF Texts
<1>2. QED
  BY <1>1, PlainIsLine DEF EmptyFile, Names, FileFits

LEMMA IdleSetupIsSetup ==
    IdleSetup \in SetupState /\ IdleSetup.at = "idle" /\ FileFits(IdleSetup.was)
<1>1. NoAnswers \in [Names -> Texts]
  BY DEF NoAnswers, Texts
<1>2. QED
  BY <1>1, EmptyFileIsFile DEF IdleSetup, SetupState

LEMMA SetupInitTyped == SetupInit => SetupTypeOK /\ TextsFit
  BY EmptyFileIsFile, IdleSetupIsSetup DEF SetupInit, SetupTypeOK, TextsFit

LEMMA ReadEnvIsRead ==
    ASSUME NEW file \in [Names -> Line], FileFits(file)
    PROVE  /\ ReadEnv(file) \in [Names -> Texts]
           /\ ReadEnv(file)["SECRET_KEY"] \in {NoValue, file["SECRET_KEY"].text}
           /\ ReadEnv(file)["SECRET_KEY"] \in SecretKeys \cup {NoValue}
           /\ \A n \in Names : file[n].form = "plain" => ReadEnv(file)[n] = file[n].text
  BY DEF ReadEnv, Line, Texts, Names, FileFits

LEMMA StartSetupTyped ==
    ASSUME SetupTypeOK, TextsFit, StartSetup
    PROVE  /\ SetupTypeOK' /\ TextsFit'
           /\ setup.at = "idle" /\ setup'.at = "asking" /\ setup'.was = env /\ env' = env
<1>1. setup \in SetupState /\ env \in [Names -> Line]
  BY DEF SetupTypeOK
<1>2. /\ setup' \in SetupState /\ setup'.at = "asking" /\ setup'.was = env
      /\ setup.at = "idle" /\ env' = env
  BY <1>1 DEF StartSetup, SetupState
<1>3. SetupTypeOK'
  BY <1>2 DEF StartSetup, SetupTypeOK
<1>4. TextsFit'
  BY <1>2 DEF TextsFit
<1>5. QED
  BY <1>2, <1>3, <1>4

\* The key to write is one that was read, or a new one.
LEMMA KeyToWriteIsKey ==
    ASSUME NEW seen, seen["SECRET_KEY"] \in SecretKeys \cup {NoValue}, NEW key \in KeyToWrite(seen)
    PROVE  key \in SecretKeys /\ (seen["SECRET_KEY"] # NoValue => key = seen["SECRET_KEY"])
  BY DEF KeyToWrite

LEMMA AnsweredIsAnswers ==
    ASSUME NEW seen \in [Names -> Texts], NEW dry \in {"true", "false"},
           NEW p \in {"gmail_api", "imap"}, NEW typed \in Texts
    PROVE  /\ Answered(seen, dry, p, typed) \in [Names -> Texts]
           /\ Answered(seen, dry, p, typed)["DRY_RUN"] = dry
<1>1. Asked(p) \in Names /\ Asked(p) # "DRY_RUN" /\ dry \in Texts /\ p \in Texts
  BY DEF Asked, Names, Texts
<1>2. QED
  BY <1>1 DEF Answered, Names

\* What is answered, with the key.
WithKey(answers, key) == [answers EXCEPT !["SECRET_KEY"] = key]

\* What the answers make of setup's state.
SetupHasAnswers(seen, dry, p, typed, key) ==
    /\ setup' \in SetupState
    /\ setup'.at = "writing" /\ setup'.was = setup.was
    /\ setup'.answers = WithKey(Answered(seen, dry, p, typed), key)
    /\ setup'.answers["SECRET_KEY"] = key /\ setup'.answers["DRY_RUN"] = dry
    /\ setup'.changed = Changed(seen, dry, p, typed)

LEMMA AnswerWithTyped ==
    ASSUME setup \in SetupState, NEW seen \in [Names -> Texts], NEW dry \in {"true", "false"},
           NEW p \in {"gmail_api", "imap"}, NEW typed \in {seen[Asked(p)], "se # cret"},
           NEW key \in SecretKeys, AnswerWith(seen, dry, p, typed, key)
    PROVE  SetupHasAnswers(seen, dry, p, typed, key)
<1> DEFINE answered == Answered(seen, dry, p, typed)
           answers == WithKey(answered, key)
           changed == Changed(seen, dry, p, typed)
<1>1. Asked(p) \in Names
  BY DEF Asked, Names
<1>2. typed \in Texts
  BY <1>1 DEF Texts
<1>3. answered \in [Names -> Texts] /\ answered["DRY_RUN"] = dry
  BY <1>2, AnsweredIsAnswers
<1>4. changed \in SUBSET Names
  BY DEF Changed
<1>5. setup' = [setup EXCEPT !.at = "writing", !.answers = answers, !.changed = changed]
  BY DEF AnswerWith, WithKey
<1> HIDE DEF answered, changed
<1>6. /\ answers \in [Names -> Texts] /\ answers["SECRET_KEY"] = key
      /\ answers["DRY_RUN"] = dry
  BY <1>3 DEF WithKey, Names, Texts
<1> HIDE DEF answers
<1>7. /\ setup' \in SetupState
      /\ setup'.at = "writing" /\ setup'.was = setup.was
      /\ setup'.answers = answers /\ setup'.changed = changed
  BY <1>4, <1>5, <1>6 DEF SetupState
<1>8. QED
  BY <1>6, <1>7 DEF SetupHasAnswers, answers, answered, changed

\* What Answer does, in one place.
LEMMA AnswerEffect ==
    ASSUME SetupTypeOK, TextsFit, Answer
    PROVE  \E seen \in [Names -> Texts], dry \in {"true", "false"}, p \in {"gmail_api", "imap"},
              key \in SecretKeys :
             \E typed \in {seen[Asked(p)], "se # cret"} :
               /\ seen = ReadEnv(setup.was)
               /\ seen["SECRET_KEY"] # NoValue => key = seen["SECRET_KEY"]
               /\ setup.at = "asking" /\ SetupHasAnswers(seen, dry, p, typed, key)
               /\ env' = EmptyFile /\ generated' = generated \cup {key}
               /\ lost' = (lost \/ KeyNotSeen(setup.was))
<1>1. setup \in SetupState /\ setup.was \in [Names -> Line]
  BY DEF SetupTypeOK, SetupState
<1>2. PICK seen \in [Names -> Texts] : seen = ReadEnv(setup.was)
  BY <1>1, ReadEnvIsRead DEF TextsFit
<1>3. PICK dry \in {"true", "false"}, p \in {"gmail_api", "imap"}, key \in KeyToWrite(seen) :
        \E typed \in {seen[Asked(p)], "se # cret"} : AnswerWith(seen, dry, p, typed, key)
  BY <1>2 DEF Answer
<1>4. PICK typed \in {seen[Asked(p)], "se # cret"} : AnswerWith(seen, dry, p, typed, key)
  BY <1>3
<1>5. key \in SecretKeys /\ (seen["SECRET_KEY"] # NoValue => key = seen["SECRET_KEY"])
  BY <1>1, <1>2, ReadEnvIsRead, KeyToWriteIsKey DEF TextsFit
<1>6. SetupHasAnswers(seen, dry, p, typed, key)
  BY <1>1, <1>4, <1>5, AnswerWithTyped
<1>7. /\ setup.at = "asking" /\ env' = EmptyFile /\ generated' = generated \cup {key}
      /\ lost' = (lost \/ KeyNotSeen(setup.was))
  BY <1>4 DEF Answer, AnswerWith
<1>8. QED
  BY <1>2, <1>5, <1>6, <1>7

LEMMA AnswerTyped ==
    ASSUME SetupTypeOK, TextsFit, Answer
    PROVE  SetupTypeOK' /\ TextsFit'
<1>1. PICK key \in SecretKeys, dry \in {"true", "false"} :
        /\ setup' \in SetupState /\ setup'.was = setup.was
        /\ setup'.answers["SECRET_KEY"] = key /\ setup'.answers["DRY_RUN"] = dry
        /\ env' = EmptyFile /\ generated' = generated \cup {key}
        /\ lost' = (lost \/ KeyNotSeen(setup.was))
  BY AnswerEffect DEF SetupHasAnswers
<1>2. SetupTypeOK'
  BY <1>1, EmptyFileIsFile DEF SetupTypeOK
<1>3. TextsFit'
  BY <1>1, EmptyFileIsFile DEF TextsFit
<1>4. QED
  BY <1>2, <1>3

LEMMA WriteFileTyped ==
    ASSUME SetupTypeOK, TextsFit, WriteFile
    PROVE  /\ SetupTypeOK' /\ TextsFit'
           /\ \A n \in Names : env'[n].text = setup.answers[n] /\ env'[n].form = "plain"
           /\ setup.at = "writing" /\ setup.answers["SECRET_KEY"] \in SecretKeys
<1>1. /\ setup.answers \in [Names -> Texts] /\ setup.answers["SECRET_KEY"] \in SecretKeys
      /\ setup.answers["DRY_RUN"] \in {"true", "false"} /\ setup.at = "writing"
  BY DEF WriteFile, SetupTypeOK, SetupState, TextsFit
<1>2. /\ env' \in [Names -> Line]
      /\ \A n \in Names : env'[n].text = setup.answers[n] /\ env'[n].form = "plain"
  BY <1>1, PlainIsLine DEF WriteFile
<1>3. SetupTypeOK'
  BY <1>2, IdleSetupIsSetup DEF WriteFile, SetupTypeOK
<1>4. FileFits(env')
  BY <1>1, <1>2 DEF FileFits, Names
<1>5. TextsFit'
  BY <1>4, IdleSetupIsSetup DEF WriteFile, TextsFit, FileFits
<1>6. QED
  BY <1>1, <1>2, <1>3, <1>5

LEMMA AbortTyped ==
    ASSUME SetupTypeOK, TextsFit, Abort
    PROVE  SetupTypeOK' /\ TextsFit'
<1>1. lost' \in BOOLEAN
  BY DEF Abort, SetupTypeOK
<1>2. QED
  BY <1>1, IdleSetupIsSetup DEF Abort, SetupTypeOK, TextsFit, FileFits

\* An edited line keeps a key, and what it says.
LEMMA EditTyped ==
    ASSUME SetupTypeOK, TextsFit, Edit
    PROVE  /\ SetupTypeOK' /\ TextsFit' /\ setup' = setup /\ lost' = lost
           /\ env'["SECRET_KEY"].text = env["SECRET_KEY"].text /\ env # EmptyFile
<1>1. PICK n \in Names : /\ env[n].text # NoValue
                         /\ \E line \in Edited(n, env[n]) : env' = [env EXCEPT ![n] = line]
  BY DEF Edit
<1>2. PICK line \in Edited(n, env[n]) : env' = [env EXCEPT ![n] = line]
  BY <1>1
<1>3. env \in [Names -> Line] /\ env[n] \in Line
  BY DEF SetupTypeOK
<1>4. \/ line = [env[n] EXCEPT !.form = "renamed"]
      \/ env[n].text = "true" /\ line = Plain("y")
      \/ n \in Credentials /\ line = [text |-> "se # cret", form |-> "quoted"]
  BY <1>2 DEF Edited
<1>5. /\ line \in Line
      /\ \/ line.text = env[n].text
         \/ env[n].text = "true" /\ line.text = "y"
         \/ n \in Credentials
  <2>1. CASE line = [env[n] EXCEPT !.form = "renamed"]
    BY <1>3, <2>1 DEF Line
  <2>2. CASE env[n].text = "true" /\ line = Plain("y")
    BY <2>2, PlainIsLine DEF Texts
  <2>3. CASE n \in Credentials /\ line = [text |-> "se # cret", form |-> "quoted"]
    BY <2>3 DEF Line, Texts
  <2>4. QED
    BY <1>4, <2>1, <2>2, <2>3
<1>6. env' \in [Names -> Line]
  BY <1>2, <1>3, <1>5
<1>7. env'["SECRET_KEY"].text = env["SECRET_KEY"].text
  BY <1>2, <1>3, <1>5, KeyAssumption DEF TextsFit, FileFits, Credentials, Names, NoValue
<1>8. env'["DRY_RUN"].text \in {"true", "y", "false", NoValue}
  BY <1>2, <1>3, <1>5 DEF TextsFit, FileFits, Credentials, Names
<1>9. setup' = setup /\ generated' = generated /\ lost' = lost
  BY DEF Edit
<1>10. env # EmptyFile
  BY <1>1 DEF EmptyFile, Plain
<1>11. QED
  BY <1>6, <1>7, <1>8, <1>9, <1>10 DEF SetupTypeOK, TextsFit, FileFits

LEMMA SetupTyped ==
    ASSUME SetupTypeOK, TextsFit, SetupNext
    PROVE  SetupTypeOK' /\ TextsFit'
  BY StartSetupTyped, AnswerTyped, WriteFileTyped, AbortTyped, EditTyped DEF SetupNext

-----------------------------------------------------------------------------
(* Logins: what each step makes of them.                                    *)

\* A step of f's login alone.
Moves(f, at, session, email, found) ==
    /\ flow' \in [Flows -> Flow]
    /\ \A g \in Flows \ {f} : flow'[g] = flow[g]
    /\ flow'[f].at = at /\ flow'[f].session = session
    /\ flow'[f].email = email /\ flow'[f].found = found

LEMMA MovesTo ==
    ASSUME flow \in [Flows -> Flow], NEW f \in Flows, NEW row \in Flow,
           flow' = [flow EXCEPT ![f] = row]
    PROVE  Moves(f, row.at, row.session, row.email, row.found)
  BY DEF Moves

\* What a request under way has.
LEMMA FlowFields ==
    ASSUME flow \in [Flows -> Flow], NEW f \in Flows
    PROVE  /\ flow[f] \in Flow /\ flow[f].session \in Cookie \cup {NoCookie}
           /\ flow[f].email \in Emails \cup {NoFlow} /\ flow[f].found \in BOOLEAN
  BY DEF Flow

\* A session is a cookie, or none; without a verifier too.
LEMMA SessionIsCookie ==
    ASSUME NEW cookie \in Cookie \cup {NoCookie}
    PROVE  Session(cookie) \in Cookie \cup {NoCookie} /\ Popped(cookie) \in Cookie \cup {NoCookie}
  BY DEF Session, Popped, Cookie

States == {"idle", "starting", "consent", "callback", "exchanged", "looked up",
           "stored", "refused", "connected", "failed"}

\* Most steps change the state of a login and its session.
LEMMA SessionMoves ==
    ASSUME flow \in [Flows -> Flow], NEW f \in Flows,
           NEW at \in States, NEW session \in Cookie \cup {NoCookie},
           flow' = [flow EXCEPT ![f].at = at, ![f].session = session]
    PROVE  Moves(f, at, session, flow[f].email, flow[f].found)
<1> DEFINE row == [flow[f] EXCEPT !.at = at, !.session = session]
<1>1. flow' = [flow EXCEPT ![f] = row]
  OBVIOUS
<1>2. flow[f] \in Flow
  OBVIOUS
<1>3. /\ row \in Flow /\ row.at = at /\ row.session = session
      /\ row.email = flow[f].email /\ row.found = flow[f].found
  BY <1>2 DEF Flow, States
<1> HIDE DEF row
<1>4. Moves(f, row.at, row.session, row.email, row.found)
  BY <1>1, <1>3, MovesTo
<1>5. QED
  BY <1>3, <1>4

LEMMA StartMoves ==
    ASSUME LoginTypeOK, NEW f \in Flows, Start(f)
    PROVE  Moves(f, IF server.client THEN "starting" ELSE "refused", Session(jar),
                 flow[f].email, flow[f].found)
<1>1. flow \in [Flows -> Flow] /\ Session(jar) \in Cookie \cup {NoCookie}
  BY SessionIsCookie DEF LoginTypeOK
<1>2. (IF server.client THEN "starting" ELSE "refused") \in States
  BY DEF States
<1>3. QED
  BY <1>1, <1>2, SessionMoves DEF Start

LEMMA RedirectedMoves ==
    ASSUME LoginTypeOK, NEW f \in Flows, Redirected(f)
    PROVE  Moves(f, "consent", NoCookie, flow[f].email, flow[f].found)
<1>1. flow \in [Flows -> Flow] /\ "consent" \in States
  BY DEF LoginTypeOK, States
<1>2. QED
  BY <1>1, SessionMoves DEF Redirected

LEMMA CallbackMoves ==
    ASSUME LoginTypeOK, NEW f \in Flows, Callback(f)
    PROVE  \E e \in Emails :
             Moves(f, IF server.key = NoKey THEN "refused" ELSE "callback", Session(jar),
                   e, flow[f].found)
<1> DEFINE at == IF server.key = NoKey THEN "refused" ELSE "callback"
<1>1. flow \in [Flows -> Flow] /\ Session(jar) \in Cookie \cup {NoCookie}
  BY SessionIsCookie DEF LoginTypeOK
<1>2. at \in {"refused", "callback"}
  OBVIOUS
<1>3. PICK e \in Emails :
        flow' = [flow EXCEPT ![f].at = at, ![f].session = Session(jar), ![f].email = e]
  BY DEF Callback
<1> HIDE DEF at
<1> DEFINE session == Session(jar)
           row == [flow[f] EXCEPT !.at = at, !.session = session, !.email = e]
<1> HIDE DEF session
<1>4. flow' = [flow EXCEPT ![f] = row]
  BY <1>1, <1>3 DEF session
<1>5. flow[f] \in Flow /\ session \in Cookie \cup {NoCookie}
  BY <1>1 DEF session
<1>6. /\ row \in Flow /\ row.at = at /\ row.session = session
      /\ row.email = e /\ row.found = flow[f].found
  BY <1>2, <1>5 DEF Flow
<1> HIDE DEF row
<1>7. Moves(f, row.at, row.session, row.email, row.found)
  BY <1>1, <1>4, <1>6, MovesTo
<1>8. Moves(f, at, Session(jar), e, flow[f].found)
  BY <1>6, <1>7 DEF session
<1>9. QED
  BY <1>8 DEF at

LEMMA ExchangeMoves ==
    ASSUME LoginTypeOK, NEW f \in Flows, Exchange(f)
    PROVE  Moves(f, IF server.client /\ flow[f].session.verifier = f THEN "exchanged" ELSE "refused",
                 Popped(flow[f].session), flow[f].email, flow[f].found)
<1>1. flow \in [Flows -> Flow] /\ Popped(flow[f].session) \in Cookie \cup {NoCookie}
  BY FlowFields, SessionIsCookie DEF LoginTypeOK
<1>2. (IF server.client /\ flow[f].session.verifier = f THEN "exchanged" ELSE "refused") \in States
  BY DEF States
<1>3. QED
  BY <1>1, <1>2, SessionMoves DEF Exchange

LEMMA DenyMoves ==
    ASSUME LoginTypeOK, NEW f \in Flows, Deny(f)
    PROVE  Moves(f, "refused", Session(jar), flow[f].email, flow[f].found)
<1>1. flow \in [Flows -> Flow] /\ Session(jar) \in Cookie \cup {NoCookie}
  BY SessionIsCookie DEF LoginTypeOK
<1>2. "refused" \in States
  BY DEF States
<1>3. QED
  BY <1>1, <1>2, SessionMoves DEF Deny

LEMMA TroubleMoves ==
    ASSUME LoginTypeOK, NEW f \in Flows, Trouble(f)
    PROVE  Moves(f, "refused", Popped(flow[f].session), flow[f].email, flow[f].found)
<1>1. flow \in [Flows -> Flow] /\ Popped(flow[f].session) \in Cookie \cup {NoCookie}
  BY FlowFields, SessionIsCookie DEF LoginTypeOK
<1>2. "refused" \in States
  BY DEF States
<1>3. QED
  BY <1>1, <1>2, SessionMoves DEF Trouble

LEMMA LookUpMoves ==
    ASSUME LoginTypeOK, NEW f \in Flows, LookUp(f)
    PROVE  Moves(f, "looked up", flow[f].session, flow[f].email, blob[flow[f].email] # NoKey)
<1> DEFINE found == blob[flow[f].email] # NoKey
           row == [flow[f] EXCEPT !.at = "looked up", !.found = found]
<1>1. flow \in [Flows -> Flow] /\ flow[f] \in Flow /\ found \in BOOLEAN
  BY DEF LoginTypeOK
<1>2. flow' = [flow EXCEPT ![f].at = "looked up", ![f].found = found]
  BY DEF LookUp
<1> HIDE DEF found
<1>3. flow' = [flow EXCEPT ![f] = row]
  BY <1>1, <1>2
<1>4. /\ row \in Flow /\ row.at = "looked up" /\ row.session = flow[f].session
      /\ row.email = flow[f].email /\ row.found = found
  BY <1>1 DEF Flow
<1> HIDE DEF row
<1>5. Moves(f, row.at, row.session, row.email, row.found)
  BY <1>1, <1>3, <1>4, MovesTo
<1>6. QED
  BY <1>4, <1>5 DEF found

\* The row is there although it was not found.
Twice(f) == ~flow[f].found /\ blob[flow[f].email] # NoKey

LEMMA StoreMoves ==
    ASSUME LoginTypeOK, NEW f \in Flows, Store(f)
    PROVE  /\ Moves(f, IF Twice(f) THEN "refused" ELSE "stored",
                    flow[f].session, flow[f].email, flow[f].found)
           /\ blob' = IF Twice(f) THEN blob ELSE [blob EXCEPT ![flow[f].email] = server.key]
           /\ excused' = excused \cup {g \in Flows \ {f} :
                 flow[g].at = "looked up" /\ ~flow[g].found /\ flow[g].email = flow[f].email}
<1> DEFINE at == IF Twice(f) THEN "refused" ELSE "stored"
           row == [flow[f] EXCEPT !.at = at]
<1>1. flow \in [Flows -> Flow] /\ flow[f] \in Flow
  BY DEF LoginTypeOK
<1>2. at \in {"refused", "stored"}
  OBVIOUS
<1>3. flow' = [flow EXCEPT ![f].at = at]
  BY DEF Store, Twice
<1> HIDE DEF at
<1>4. flow' = [flow EXCEPT ![f] = row]
  BY <1>1, <1>3
<1>5. /\ row \in Flow /\ row.at = at /\ row.session = flow[f].session
      /\ row.email = flow[f].email /\ row.found = flow[f].found
  BY <1>1, <1>2 DEF Flow
<1> HIDE DEF row
<1>6. Moves(f, row.at, row.session, row.email, row.found)
  BY <1>1, <1>4, <1>5, MovesTo
<1>7. Moves(f, at, flow[f].session, flow[f].email, flow[f].found)
  BY <1>5, <1>6
<1>8. /\ blob' = IF Twice(f) THEN blob ELSE [blob EXCEPT ![flow[f].email] = server.key]
      /\ excused' = excused \cup {g \in Flows \ {f} :
                 flow[g].at = "looked up" /\ ~flow[g].found /\ flow[g].email = flow[f].email}
  BY Zenon DEF Store, Twice
<1>9. QED
  BY <1>7, <1>8 DEF at

LEMMA FinishMoves ==
    ASSUME LoginTypeOK, NEW f \in Flows, Finish(f)
    PROVE  Moves(f, IF flow[f].at = "stored" THEN "connected" ELSE "failed",
                 NoCookie, flow[f].email, FALSE)
<1> DEFINE at == IF flow[f].at = "stored" THEN "connected" ELSE "failed"
           row == [flow[f] EXCEPT !.session = NoCookie, !.found = FALSE, !.at = at]
<1>1. flow \in [Flows -> Flow] /\ flow[f] \in Flow
  BY DEF LoginTypeOK
<1>2. at \in {"connected", "failed"}
  OBVIOUS
<1>3. flow' = [flow EXCEPT ![f].session = NoCookie, ![f].found = FALSE, ![f].at = at]
  BY DEF Finish
<1> HIDE DEF at
<1>4. flow' = [flow EXCEPT ![f] = row]
  BY <1>1, <1>3
<1>5. /\ row \in Flow /\ row.at = at /\ row.session = NoCookie
      /\ row.email = flow[f].email /\ row.found = FALSE
  BY <1>1, <1>2 DEF Flow
<1> HIDE DEF row
<1>6. Moves(f, row.at, row.session, row.email, row.found)
  BY <1>1, <1>4, <1>5, MovesTo
<1>7. QED
  BY <1>5, <1>6 DEF at

LEMMA StopMoves ==
    ASSUME LoginTypeOK, Stop
    PROVE  /\ flow' \in [Flows -> Flow]
           /\ \A f \in InServer : flow'[f].at = "failed" /\ flow'[f].session = NoCookie
           /\ \A f \in Flows \ InServer : flow'[f] = flow[f]
<1>1. flow \in [Flows -> Flow]
  BY DEF LoginTypeOK
<1>2. ASSUME NEW f \in Flows
      PROVE  LET row == [flow[f] EXCEPT !.at = "failed", !.session = NoCookie] IN
             row \in Flow /\ row.at = "failed" /\ row.session = NoCookie
  BY <1>1, FlowFields DEF Flow
<1>3. flow' = [f \in Flows |->
        IF f \in InServer THEN [flow[f] EXCEPT !.at = "failed", !.session = NoCookie] ELSE flow[f]]
  BY DEF Stop
<1>4. InServer \subseteq Flows
  BY DEF InServer
<1>5. QED
  BY <1>1, <1>2, <1>3, <1>4

-----------------------------------------------------------------------------
(* Types: logins.                                                           *)

\* What a step of one login must respect.
LEMMA MovesTyped ==
    ASSUME LoginTypeOK, NEW f \in Flows, NEW at, NEW session, NEW email, NEW found,
           Moves(f, at, session, email, found), server' = server, server.up,
           at \in {"idle", "consent", "connected", "failed"} => session = NoCookie,
           blob' \in [Emails -> Keys \cup {NoKey}],
           jar' \in Cookie \cup {NoCookie}, excused' \subseteq Flows
    PROVE  LoginTypeOK'
<1>1. \A g \in Flows : flow'[g].at \in {"idle", "consent", "connected", "failed"}
                           => flow'[g].session = NoCookie
  BY DEF LoginTypeOK, Moves
<1>2. QED
  BY <1>1 DEF LoginTypeOK, Moves

LEMMA InServerUp ==
    ASSUME LoginTypeOK, NEW f \in Flows,
           flow[f].at \in {"starting", "callback", "exchanged", "looked up", "stored", "refused"}
    PROVE  server.up
  BY DEF LoginTypeOK, InServer

LEMMA LoginInitTyped == LoginInit => LoginTypeOK
<1> SUFFICES ASSUME LoginInit PROVE LoginTypeOK
  OBVIOUS
<1>1. [at |-> "idle", session |-> NoCookie, email |-> NoFlow, found |-> FALSE] \in Flow
  BY DEF Flow
<1>2. flow \in [Flows -> Flow] /\ \A f \in Flows : flow[f].at = "idle" /\ flow[f].session = NoCookie
  BY <1>1 DEF LoginInit
<1>3. InServer = {}
  BY <1>2 DEF InServer
<1>4. QED
  BY <1>2, <1>3 DEF LoginInit, LoginTypeOK, Down

LEMMA ArrivesTyped ==
    ASSUME LoginTypeOK, NEW cookie \in Cookie \cup {NoCookie}, NEW f, Arrives(cookie, f)
    PROVE  jar' \in Cookie \cup {NoCookie} /\ excused' \subseteq Flows
  BY DEF Arrives, LoginTypeOK, Consenting

\* The file's key is one that a process may have.
LEMMA ServeTyped ==
    ASSUME LoginTypeOK, TextsFit, Serve
    PROVE  /\ LoginTypeOK' /\ server'.up /\ server'.key = Settings("SECRET_KEY")
           /\ ~server.up /\ UNCHANGED <<env, setup, generated, lost, blob, jar, flow>>
<1> DEFINE key == Settings("SECRET_KEY")
           client == Settings("GMAIL_CLIENT_SECRET") # NoValue
<1>1. key \in Keys \cup {NoKey} /\ client \in BOOLEAN
  BY SameKeysAssumption, SettingOfKey DEF TextsFit, FileFits, Settings
<1>2. /\ ~server.up /\ server' = [up |-> TRUE, key |-> key, client |-> client]
      /\ excused' = IF jar # NoCookie /\ jar.key # key THEN excused \cup Consenting ELSE excused
      /\ UNCHANGED <<env, setup, generated, lost, blob, jar, flow>>
  BY DEF Serve, Launch, setupVars
<1> HIDE DEF key, client
<1>3. excused' \subseteq Flows /\ InServer' = InServer
  BY <1>2 DEF LoginTypeOK, Consenting, InServer
<1>4. server' \in [up : BOOLEAN, key : Keys \cup {NoKey}, client : BOOLEAN] /\ server'.up
  BY <1>1, <1>2
<1>5. LoginTypeOK'
  BY <1>2, <1>3, <1>4 DEF LoginTypeOK
<1>6. QED
  BY <1>2, <1>4, <1>5 DEF key

LEMMA StopTyped ==
    ASSUME LoginTypeOK, Stop
    PROVE  LoginTypeOK' /\ ~server'.up
<1>1. InServer \subseteq Flows /\ InServer' = {}
  BY StopMoves DEF InServer
<1>2. server' \in [up : BOOLEAN, key : Keys \cup {NoKey}, client : BOOLEAN] /\ ~server'.up
  BY DEF Stop, Down
<1>3. \A f \in Flows : flow'[f].at \in {"idle", "consent", "connected", "failed"}
                           => flow'[f].session = NoCookie
  BY StopMoves DEF LoginTypeOK
<1>4. QED
  BY <1>1, <1>2, <1>3, StopMoves DEF Stop, LoginTypeOK

LEMMA RequestTyped ==
    ASSUME LoginTypeOK, NEW f \in Flows,
           \/ Start(f) \/ Redirected(f) \/ Callback(f) \/ Deny(f) \/ Exchange(f)
           \/ LookUp(f) \/ Trouble(f)
    PROVE  LoginTypeOK'
<1>1. CASE Start(f)
  <2>1. server' = server /\ server.up /\ blob' = blob /\ jar' = jar /\ excused' \subseteq Flows
    BY <1>1 DEF Start, LoginTypeOK
  <2>2. (IF server.client THEN "starting" ELSE "refused") \notin {"idle", "consent", "connected", "failed"}
    OBVIOUS
  <2>3. QED
    BY <1>1, <2>1, <2>2, StartMoves, MovesTyped DEF LoginTypeOK
<1>2. CASE Redirected(f)
  <2>1. server' = server /\ blob' = blob /\ flow[f].at = "starting"
    BY <1>2 DEF Redirected
  <2>2. server.up
    BY <2>1, InServerUp
  <2>3. [key |-> server.key, verifier |-> Verifier(f)] \in Cookie
    BY DEF Cookie, Verifier, LoginTypeOK
  <2>4. jar' \in Cookie \cup {NoCookie} /\ excused' \subseteq Flows
    BY <1>2, <2>3, ArrivesTyped DEF Redirected
  <2>5. QED
    BY <1>2, <2>1, <2>2, <2>4, RedirectedMoves, MovesTyped DEF LoginTypeOK
<1>3. CASE Callback(f)
  <2>1. server' = server /\ server.up /\ blob' = blob /\ jar' = jar /\ excused' \subseteq Flows
    BY <1>3 DEF Callback, LoginTypeOK
  <2>2. (IF server.key = NoKey THEN "refused" ELSE "callback")
           \notin {"idle", "consent", "connected", "failed"}
    OBVIOUS
  <2>3. QED
    BY <1>3, <2>1, <2>2, CallbackMoves, MovesTyped DEF LoginTypeOK
<1>4. CASE Exchange(f)
  <2>1. /\ server' = server /\ blob' = blob /\ jar' = jar /\ excused' \subseteq Flows
        /\ flow[f].at = "callback"
    BY <1>4 DEF Exchange, LoginTypeOK
  <2>2. (IF server.client /\ flow[f].session.verifier = f THEN "exchanged" ELSE "refused")
           \notin {"idle", "consent", "connected", "failed"}
    OBVIOUS
  <2>3. QED
    BY <1>4, <2>1, <2>2, InServerUp, ExchangeMoves, MovesTyped DEF LoginTypeOK
<1>5. CASE LookUp(f)
  <2>1. server' = server /\ blob' = blob /\ jar' = jar /\ excused' = excused /\ flow[f].at = "exchanged"
    BY <1>5 DEF LookUp
  <2>2. QED
    BY <1>5, <2>1, InServerUp, LookUpMoves, MovesTyped DEF LoginTypeOK
<1>6. CASE Trouble(f)
  <2>1. /\ server' = server /\ blob' = blob /\ jar' = jar /\ excused' = excused \cup {f}
        /\ flow[f].at \in {"callback", "exchanged", "looked up"}
    BY <1>6 DEF Trouble
  <2>2. QED
    BY <1>6, <2>1, InServerUp, TroubleMoves, MovesTyped DEF LoginTypeOK
<1>7. CASE Deny(f)
  <2>1. server' = server /\ server.up /\ blob' = blob /\ jar' = jar /\ excused' = excused \cup {f}
    BY <1>7 DEF Deny
  <2>2. QED
    BY <1>7, <2>1, DenyMoves, MovesTyped DEF LoginTypeOK
<1>8. QED
  BY <1>1, <1>2, <1>3, <1>4, <1>5, <1>6, <1>7

LEMMA StoreTyped ==
    ASSUME LoginTypeOK, NEW f \in Flows, Store(f)
    PROVE  LoginTypeOK'
<1>1. server' = server /\ jar' = jar /\ flow[f].at = "looked up"
  BY DEF Store
<1>2. blob' \in [Emails -> Keys \cup {NoKey}] /\ excused' \subseteq Flows
  BY StoreMoves DEF LoginTypeOK
<1>3. (IF Twice(f) THEN "refused" ELSE "stored") \notin {"idle", "consent", "connected", "failed"}
  OBVIOUS
<1>4. QED
  BY <1>1, <1>2, <1>3, InServerUp, StoreMoves, MovesTyped DEF LoginTypeOK

\* The cookie comes back without the verifier, is deleted, or stays.
LEMMA FinishArrives ==
    ASSUME LoginTypeOK, NEW f \in Flows, Finish(f)
    PROVE  \E cookie \in Cookie \cup {NoCookie} : Arrives(cookie, f)
<1>1. jar \in Cookie \cup {NoCookie} /\ flow[f].session \in Cookie \cup {NoCookie}
  BY FlowFields DEF LoginTypeOK
<1>2. CASE flow[f].at = "stored"
  BY <1>2 DEF Finish
<1>3. CASE flow[f].at # "stored"
  BY <1>1, <1>3 DEF Finish
<1>4. QED
  BY <1>2, <1>3

LEMMA FinishTyped ==
    ASSUME LoginTypeOK, NEW f \in Flows, Finish(f)
    PROVE  LoginTypeOK'
<1>1. server' = server /\ blob' = blob /\ flow[f].at \in {"stored", "refused"}
  BY DEF Finish
<1>2. jar' \in Cookie \cup {NoCookie} /\ excused' \subseteq Flows
  BY FinishArrives, ArrivesTyped
<1>3. QED
  BY <1>1, <1>2, InServerUp, FinishMoves, MovesTyped DEF LoginTypeOK

LEMMA LoginTyped ==
    ASSUME LoginTypeOK, LoginNext
    PROVE  LoginTypeOK'
  BY StopTyped, RequestTyped, StoreTyped, FinishTyped DEF LoginNext

LEMMA LoginUnchanged ==
    ASSUME LoginTypeOK, UNCHANGED loginVars
    PROVE  LoginTypeOK'
  BY DEF LoginTypeOK, loginVars, InServer

\* What does not touch the file and setup leaves their types.
LEMMA SetupUnchanged ==
    ASSUME SetupTypeOK, TextsFit, UNCHANGED setupVars
    PROVE  SetupTypeOK' /\ TextsFit'
  BY DEF SetupTypeOK, TextsFit, setupVars

LEMMA InitTyped == Init => Typed
  BY SetupInitTyped, LoginInitTyped DEF Init, Typed, TypeOK

LEMMA NextTyped ==
    ASSUME Typed, [Next]_vars
    PROVE  Typed'
<1>1. SetupTypeOK /\ LoginTypeOK /\ TextsFit
  BY DEF Typed, TypeOK
<1>2. CASE Serve
  BY <1>1, <1>2, ServeTyped, SetupUnchanged DEF Serve, Typed, TypeOK
<1>3. CASE SetupNext /\ UNCHANGED loginVars
  BY <1>1, <1>3, SetupTyped, LoginUnchanged DEF Typed, TypeOK
<1>4. CASE LoginNext /\ UNCHANGED setupVars
  BY <1>1, <1>4, LoginTyped, SetupUnchanged DEF Typed, TypeOK
<1>5. CASE UNCHANGED vars
  BY <1>1, <1>5, LoginUnchanged, SetupUnchanged DEF vars, Typed, TypeOK
<1>6. QED
  BY <1>2, <1>3, <1>4, <1>5 DEF Next

-----------------------------------------------------------------------------
(* The answers. While setup writes, the file is empty, and the answers hold *)
(* what was read of every setting that was written as setup writes it, and  *)
(* not changed.                                                             *)

Own(line) == line.form = "plain" /\ line.text \notin {"y", NoValue}

KeepsRead(answers, was, changed) == \A n \in Names \ changed : Own(was[n]) => answers[n] = was[n].text

AnswersAreKept ==
    setup.at = "writing" =>
        env = EmptyFile /\ KeepsRead(setup.answers, setup.was, setup.changed)

LEMMA InitAnswers == Init => AnswersAreKept
  BY IdleSetupIsSetup DEF Init, SetupInit, AnswersAreKept

\* A prompt that was answered with what it offered keeps what was read.
LEMMA AnsweredKeepsRead ==
    ASSUME NEW was \in [Names -> Line], FileFits(was), NEW seen \in [Names -> Texts],
           seen = ReadEnv(was), NEW dry \in {"true", "false"},
           NEW p \in {"gmail_api", "imap"}, NEW typed \in {seen[Asked(p)], "se # cret"},
           NEW key \in SecretKeys, seen["SECRET_KEY"] # NoValue => key = seen["SECRET_KEY"]
    PROVE  KeepsRead(WithKey(Answered(seen, dry, p, typed), key), was, Changed(seen, dry, p, typed))
<1> DEFINE offered == Defaults(seen)
           given == [offered EXCEPT !["DRY_RUN"] = dry, !["MAIL_PROVIDER"] = p, ![Asked(p)] = typed]
           answers == WithKey(Answered(seen, dry, p, typed), key)
<1>1. Asked(p) \in {"GMAIL_CLIENT_SECRET", "IMAP_PASSWORD"}
  BY DEF Asked
<1>2. \A n \in Names : Own(was[n]) => seen[n] = was[n].text /\ seen[n] \notin {"y", NoValue}
  BY ReadEnvIsRead DEF Own
<1>3. seen["DRY_RUN"] \in {"true", "y", "false", NoValue}
  BY DEF ReadEnv, FileFits, Names
<1>4. \A n \in Names : seen[n] \notin {"y", NoValue} => offered[n] = seen[n]
  BY <1>3 DEF Defaults, Or, EnvBool, Names
<1>5. offered \in [Names -> Texts]
  BY DEF Defaults, Or, EnvBool, Names, Texts
<1>6. /\ given["DRY_RUN"] = dry /\ given["MAIL_PROVIDER"] = p /\ given[Asked(p)] = typed
  BY <1>1, <1>5 DEF Names
<1>7. /\ answers["DRY_RUN"] = dry /\ answers["MAIL_PROVIDER"] = p /\ answers[Asked(p)] = typed
      /\ answers["SECRET_KEY"] = key
      /\ \A n \in Names \ {"DRY_RUN", "MAIL_PROVIDER", "SECRET_KEY", Asked(p)} : answers[n] = seen[n]
  BY <1>1 DEF WithKey, Answered, Names
<1>8. Changed(seen, dry, p, typed) = {n \in Names : given[n] # offered[n]}
  BY DEF Changed
<1> HIDE DEF offered, given, answers
<1>9. KeepsRead(answers, was, {n \in Names : given[n] # offered[n]})
  <2> SUFFICES ASSUME NEW n \in Names, given[n] = offered[n], Own(was[n])
               PROVE  answers[n] = was[n].text
    BY DEF KeepsRead
  <2>1. seen[n] = was[n].text /\ seen[n] # NoValue /\ offered[n] = seen[n]
    BY <1>2, <1>4
  <2>2. QED
    BY <1>6, <1>7, <2>1
<1>10. QED
  BY <1>8, <1>9 DEF answers

LEMMA SetupAnswers ==
    ASSUME Typed, AnswersAreKept, SetupNext
    PROVE  AnswersAreKept'
<1>0. SetupTypeOK /\ TextsFit /\ setup.was \in [Names -> Line]
  BY DEF Typed, TypeOK, SetupTypeOK, SetupState
<1>1. CASE StartSetup
  BY <1>0, <1>1, StartSetupTyped DEF AnswersAreKept
<1>2. CASE Answer
  <2>1. PICK seen \in [Names -> Texts], dry \in {"true", "false"}, p \in {"gmail_api", "imap"},
             key \in SecretKeys :
          \E typed \in {seen[Asked(p)], "se # cret"} :
            /\ seen = ReadEnv(setup.was)
            /\ seen["SECRET_KEY"] # NoValue => key = seen["SECRET_KEY"]
            /\ setup.at = "asking" /\ SetupHasAnswers(seen, dry, p, typed, key)
            /\ env' = EmptyFile /\ generated' = generated \cup {key}
            /\ lost' = (lost \/ KeyNotSeen(setup.was))
    BY <1>0, <1>2, AnswerEffect
  <2>2. KeepsRead(setup'.answers, setup'.was, setup'.changed)
    BY <1>0, <2>1, AnsweredKeepsRead DEF TextsFit, SetupHasAnswers
  <2>3. QED
    BY <2>1, <2>2 DEF AnswersAreKept
<1>3. CASE WriteFile \/ Abort
  BY <1>3, IdleSetupIsSetup DEF WriteFile, Abort, AnswersAreKept
<1>4. CASE Edit
  <2>1. setup' = setup /\ env # EmptyFile
    BY <1>0, <1>4, EditTyped
  <2>2. QED
    BY <2>1 DEF AnswersAreKept
<1>5. QED
  BY <1>1, <1>2, <1>3, <1>4 DEF SetupNext

-----------------------------------------------------------------------------
(* The key. As long as setup was not killed while it wrote, and did not     *)
(* overlook the key, there is one key, and setup has it before it.          *)

OneKey ==
    /\ setup.at = "asking" => setup.was["SECRET_KEY"].text = env["SECRET_KEY"].text
    /\ \A e \in Emails : blob[e] \in {NoKey, KeyAtRest}
    /\ server.up => server.key \in {NoKey, KeyAtRest}

KeyIsKept == ~lost => OneKey

LEMMA InitKey == Init => KeyIsKept
  BY IdleSetupIsSetup DEF Init, SetupInit, LoginInit, Down, KeyIsKept, OneKey

\* The key of the file is the text of its line.
LEMMA KeyOfFile ==
    ASSUME TextsFit
    PROVE  Settings("SECRET_KEY") = env["SECRET_KEY"].text
  BY SettingOfKey DEF TextsFit, FileFits, Settings

\* A step that leaves the key at rest as it is, the accounts and the server.
LEMMA SameKey ==
    ASSUME OneKey, KeyAtRest' = KeyAtRest, UNCHANGED loginVars,
           setup'.at = "asking" => setup'.was["SECRET_KEY"].text = env'["SECRET_KEY"].text
    PROVE  OneKey'
  BY DEF OneKey, loginVars

LEMMA StartSetupKey ==
    ASSUME Typed, OneKey, StartSetup, UNCHANGED loginVars
    PROVE  OneKey'
<1>1. setup.at = "idle" /\ setup'.at = "asking" /\ setup'.was = env /\ env' = env
  BY StartSetupTyped DEF Typed, TypeOK
<1>2. KeyAtRest' = KeyAtRest
  BY <1>1 DEF KeyAtRest, Settings
<1>3. QED
  BY <1>1, <1>2, SameKey

\* A key is generated when setup read none; as it did not overlook one, there is
\* none: then no token is stored, and no server has a key.
LEMMA AnswerKey ==
    ASSUME Typed, OneKey, Answer, ~lost', UNCHANGED loginVars
    PROVE  OneKey'
<1>1. SetupTypeOK /\ TextsFit /\ setup.was \in [Names -> Line] /\ FileFits(setup.was)
  BY DEF Typed, TypeOK, SetupTypeOK, SetupState, TextsFit
<1>2. PICK seen \in [Names -> Texts], key \in SecretKeys :
        /\ seen = ReadEnv(setup.was)
        /\ seen["SECRET_KEY"] # NoValue => key = seen["SECRET_KEY"]
        /\ setup.at = "asking" /\ setup'.at = "writing" /\ setup'.answers["SECRET_KEY"] = key
        /\ lost' = (lost \/ KeyNotSeen(setup.was))
  BY <1>1, AnswerEffect DEF SetupHasAnswers
<1>3. KeyAtRest = env["SECRET_KEY"].text /\ KeyAtRest' = key
  BY <1>1, <1>2, KeyOfFile DEF KeyAtRest
<1>4. /\ setup.was["SECRET_KEY"].text = env["SECRET_KEY"].text
      /\ Setting(setup.was["SECRET_KEY"]) = setup.was["SECRET_KEY"].text
  BY <1>1, <1>2, SettingOfKey DEF OneKey, FileFits
<1>5. seen["SECRET_KEY"] \in {NoValue, setup.was["SECRET_KEY"].text}
  BY <1>1, <1>2, ReadEnvIsRead
<1>6. seen["SECRET_KEY"] = NoValue => setup.was["SECRET_KEY"].text = NoValue
  BY <1>2, <1>4 DEF KeyNotSeen
<1>7. KeyAtRest' = KeyAtRest \/ KeyAtRest = NoKey
  BY <1>2, <1>3, <1>4, <1>5, <1>6, SameKeysAssumption
<1>8. CASE KeyAtRest' = KeyAtRest
  BY <1>2, <1>8, SameKey
<1>9. CASE KeyAtRest = NoKey
  BY <1>2, <1>9 DEF OneKey, loginVars
<1>10. QED
  BY <1>7, <1>8, <1>9

LEMMA WriteFileKey ==
    ASSUME Typed, OneKey, WriteFile, UNCHANGED loginVars
    PROVE  OneKey'
<1>1. /\ env'["SECRET_KEY"].text = setup.answers["SECRET_KEY"] /\ setup.at = "writing"
      /\ TextsFit'
  BY WriteFileTyped DEF Typed, TypeOK, Names
<1>2. setup'.at = "idle"
  BY IdleSetupIsSetup DEF WriteFile
<1>3. Settings("SECRET_KEY")' = env'["SECRET_KEY"].text
  BY <1>1, SettingOfKey DEF TextsFit, FileFits, Settings
<1>4. KeyAtRest' = KeyAtRest
  BY <1>1, <1>2, <1>3 DEF KeyAtRest
<1>5. QED
  BY <1>2, <1>4, SameKey

LEMMA SetupKey ==
    ASSUME Typed, KeyIsKept, SetupNext, UNCHANGED loginVars
    PROVE  KeyIsKept'
<1> SUFFICES ASSUME ~lost' PROVE OneKey'
  BY DEF KeyIsKept
<1>0. SetupTypeOK /\ TextsFit
  BY DEF Typed, TypeOK
<1>1. CASE StartSetup
  BY <1>1, StartSetupKey DEF KeyIsKept, StartSetup
<1>2. CASE Answer
  BY <1>2, AnswerKey DEF KeyIsKept, Answer
<1>3. CASE WriteFile
  BY <1>3, WriteFileKey DEF KeyIsKept, WriteFile
<1>4. CASE Abort
  <2>1. ~lost /\ setup.at # "writing" /\ setup'.at = "idle" /\ env' = env
    BY <1>4, IdleSetupIsSetup DEF Abort
  <2>2. OneKey /\ KeyAtRest' = KeyAtRest
    BY <2>1 DEF KeyIsKept, KeyAtRest, Settings
  <2>3. QED
    BY <2>1, <2>2, SameKey
<1>5. CASE Edit
  <2>1. /\ ~lost /\ env'["SECRET_KEY"].text = env["SECRET_KEY"].text /\ setup' = setup
        /\ TextsFit'
    BY <1>0, <1>5, EditTyped
  <2>2. Settings("SECRET_KEY")' = env'["SECRET_KEY"].text
    BY <2>1, SettingOfKey DEF TextsFit, FileFits, Settings
  <2>3. OneKey /\ KeyAtRest' = KeyAtRest
    BY <1>0, <2>1, <2>2, KeyOfFile DEF KeyIsKept, KeyAtRest
  <2>4. QED
    BY <2>1, <2>3, SameKey DEF OneKey
<1>6. QED
  BY <1>1, <1>2, <1>3, <1>4, <1>5 DEF SetupNext

\* A server that starts while the file is empty has no key; any other has the one
\* that is at rest.
LEMMA ServeKey ==
    ASSUME Typed, KeyIsKept, AnswersAreKept, Serve
    PROVE  KeyIsKept'
<1>1. /\ server'.up /\ server'.key = Settings("SECRET_KEY")
      /\ UNCHANGED <<env, setup, generated, lost, blob, jar, flow>>
  BY ServeTyped DEF Typed, TypeOK
<1>2. setup.at = "writing" => Settings("SECRET_KEY") = NoKey
  BY EmptyFileIsFile, SettingOfKey, SameKeysAssumption DEF AnswersAreKept, Settings
<1>3. QED
  BY <1>1, <1>2 DEF KeyIsKept, OneKey, KeyAtRest, Settings

LEMMA LoginKey ==
    ASSUME Typed, KeyIsKept, LoginNext, UNCHANGED setupVars
    PROVE  KeyIsKept'
<1> SUFFICES ASSUME ~lost' PROVE OneKey'
  BY DEF KeyIsKept
<1>1. /\ OneKey /\ LoginTypeOK /\ KeyAtRest' = KeyAtRest
      /\ env' = env /\ setup' = setup /\ Settings("SECRET_KEY")' = Settings("SECRET_KEY")
  BY DEF KeyIsKept, setupVars, KeyAtRest, Settings, Typed, TypeOK
<1>2. CASE Stop
  BY <1>1, <1>2, StopTyped DEF OneKey, Stop
<1>3. ASSUME server' = server, blob' = blob PROVE OneKey'
  BY <1>1, <1>3 DEF OneKey
<1>4. ASSUME NEW f \in Flows, Store(f) PROVE OneKey'
  <2>1. server.up /\ server' = server
    BY <1>1, <1>4, InServerUp DEF Store
  <2>2. blob' \in [Emails -> Keys \cup {NoKey}] /\ blob \in [Emails -> Keys \cup {NoKey}]
    BY <1>1, <1>4, StoreTyped DEF LoginTypeOK
  <2>3. \A e \in Emails : blob'[e] \in {blob[e], server.key}
    BY <1>1, <1>4, <2>2, StoreMoves
  <2>4. QED
    BY <1>1, <2>1, <2>3 DEF OneKey
<1>5. ASSUME NEW f \in Flows,
             \/ Start(f) \/ Redirected(f) \/ Callback(f) \/ Deny(f) \/ Exchange(f)
             \/ LookUp(f) \/ Trouble(f) \/ Finish(f)
      PROVE  server' = server /\ blob' = blob
  BY <1>5 DEF Start, Redirected, Callback, Deny, Exchange, LookUp, Trouble, Finish
<1>6. QED
  BY <1>2, <1>3, <1>4, <1>5 DEF LoginNext

-----------------------------------------------------------------------------
(* The logins that nothing disturbed.                                       *)

\* The cookie waits for it at Google's, with its verifier and a key the process
\* knows; it comes back with it, and an account; the row it did not find is not there;
\* and it has not failed.
Undisturbed(f) ==
    /\ flow[f].at = "consent" => jar.verifier = f /\ (server.up => jar.key = server.key)
    /\ flow[f].at = "callback" => flow[f].session.verifier = f
    /\ flow[f].at \in {"callback", "exchanged", "looked up"} => flow[f].email \in Emails
    /\ flow[f].at = "looked up" /\ ~flow[f].found => blob[flow[f].email] = NoKey
    /\ flow[f].at \notin {"refused", "failed"}

LoginsGoWell == \A f \in Flows \ excused : Undisturbed(f)

LEMMA InitLogins == Init => LoginsGoWell
<1> SUFFICES ASSUME Init, NEW f \in Flows PROVE Undisturbed(f)
  BY DEF LoginsGoWell
<1>1. flow[f].at = "idle"
  BY DEF Init, LoginInit
<1>2. QED
  BY <1>1 DEF Undisturbed

\* A step of one login does not disturb another without excusing it.
LEMMA OthersGoWell ==
    ASSUME LoginsGoWell, NEW f \in Flows, NEW at, NEW session, NEW email, NEW found,
           Moves(f, at, session, email, found), server' = server, excused \subseteq excused',
           jar' # jar => Consenting \ {f} \subseteq excused',
           \A g \in Flows \ {f} :
             g \notin excused' /\ flow[g].at = "looked up" /\ ~flow[g].found /\ flow[g].email \in Emails
               => blob'[flow[g].email] = blob[flow[g].email],
           f \notin excused' => Undisturbed(f)'
    PROVE  LoginsGoWell'
<1>1. ASSUME NEW g \in Flows \ {f}, g \notin excused' PROVE Undisturbed(g)'
  <2>1. Undisturbed(g) /\ flow'[g] = flow[g]
    BY <1>1 DEF LoginsGoWell, Moves
  <2>2. flow[g].at = "consent" => jar' = jar
    BY <1>1 DEF Consenting
  <2>3. QED
    BY <1>1, <2>1, <2>2 DEF Undisturbed
<1>2. QED
  BY <1>1 DEF LoginsGoWell

\* A cookie with a verifier is one.
LEMMA CookieOfFlow ==
    ASSUME jar \in Cookie \cup {NoCookie}, NEW f \in Flows, jar.verifier = f
    PROVE  jar # NoCookie
  BY NoFlowAssumption DEF NoCookie

LEMMA LaunchGoesWell ==
    ASSUME Typed, LoginsGoWell, Serve
    PROVE  LoginsGoWell'
<1>1. /\ jar \in Cookie \cup {NoCookie} /\ LoginTypeOK /\ TextsFit
  BY DEF Typed, TypeOK, LoginTypeOK
<1>2. /\ server'.key = Settings("SECRET_KEY") /\ UNCHANGED <<blob, jar, flow>>
  BY <1>1, ServeTyped
<1>3. excused' = IF jar # NoCookie /\ jar.key # Settings("SECRET_KEY")
                 THEN excused \cup Consenting ELSE excused
  BY DEF Serve, Launch
<1>4. ASSUME NEW f \in Flows, f \notin excused' PROVE Undisturbed(f)'
  <2>1. Undisturbed(f)
    BY <1>3, <1>4 DEF LoginsGoWell
  <2>2. flow[f].at = "consent" => jar.key = Settings("SECRET_KEY")
    BY <1>1, <1>3, <1>4, <2>1, CookieOfFlow DEF Consenting, Undisturbed
  <2>3. QED
    BY <1>2, <2>1, <2>2 DEF Undisturbed
<1>5. QED
  BY <1>4 DEF LoginsGoWell

LEMMA StopGoesWell ==
    ASSUME Typed, LoginsGoWell, Stop
    PROVE  LoginsGoWell'
<1>1. LoginTypeOK
  BY DEF Typed, TypeOK
<1>2. /\ ~server'.up /\ UNCHANGED <<blob, jar>> /\ excused' = excused \cup InServer
      /\ \A f \in Flows \ InServer : flow'[f] = flow[f]
  BY <1>1, StopTyped, StopMoves DEF Stop
<1>3. ASSUME NEW f \in Flows, f \notin excused' PROVE Undisturbed(f)'
  <2>1. Undisturbed(f) /\ flow'[f] = flow[f]
    BY <1>2, <1>3 DEF LoginsGoWell
  <2>2. QED
    BY <1>2, <2>1 DEF Undisturbed
<1>4. QED
  BY <1>3 DEF LoginsGoWell

LEMMA StartGoesWell ==
    ASSUME Typed, LoginsGoWell, NEW f \in Flows, Start(f)
    PROVE  LoginsGoWell'
<1> DEFINE at == IF server.client THEN "starting" ELSE "refused"
<1>1. Moves(f, at, Session(jar), flow[f].email, flow[f].found)
  BY StartMoves DEF Typed, TypeOK
<1>2. /\ UNCHANGED <<server, blob, jar>>
      /\ excused \subseteq excused' /\ (f \notin excused' => at = "starting")
  BY DEF Start
<1> HIDE DEF at
<1>3. f \notin excused' => Undisturbed(f)'
  BY <1>1, <1>2 DEF Moves, Undisturbed
<1>4. QED
  BY <1>1, <1>2, <1>3, OthersGoWell

LEMMA ArrivesExcuses ==
    ASSUME NEW cookie, NEW f, Arrives(cookie, f)
    PROVE  excused \subseteq excused' /\ (jar' # jar => Consenting \ {f} \subseteq excused')
  BY DEF Arrives

LEMMA RedirectedGoesWell ==
    ASSUME Typed, LoginsGoWell, NEW f \in Flows, Redirected(f)
    PROVE  LoginsGoWell'
<1>1. Moves(f, "consent", NoCookie, flow[f].email, flow[f].found)
  BY RedirectedMoves DEF Typed, TypeOK
<1>2. UNCHANGED <<server, blob>> /\ Arrives([key |-> server.key, verifier |-> f], f)
  BY DEF Redirected, Verifier
<1>3. jar'.verifier = f /\ jar'.key = server.key
  BY <1>2 DEF Arrives
<1>4. Undisturbed(f)'
  BY <1>1, <1>2, <1>3 DEF Moves, Undisturbed
<1>5. excused \subseteq excused' /\ (jar' # jar => Consenting \ {f} \subseteq excused')
  BY <1>2, ArrivesExcuses
<1>6. QED
  BY <1>1, <1>2, <1>4, <1>5, OthersGoWell

\* The cookie of an undisturbed login is taken for what it is.
LEMMA CallbackGoesWell ==
    ASSUME Typed, LoginsGoWell, NEW f \in Flows, Callback(f)
    PROVE  LoginsGoWell'
<1> DEFINE at == IF server.key = NoKey THEN "refused" ELSE "callback"
<1>1. PICK e \in Emails : Moves(f, at, Session(jar), e, flow[f].found)
  BY CallbackMoves DEF Typed, TypeOK
<1>2. /\ UNCHANGED <<server, blob, jar>> /\ server.up /\ flow[f].at = "consent"
      /\ excused \subseteq excused' /\ (f \notin excused' => at = "callback")
  BY DEF Callback
<1> HIDE DEF at
<1>3. ASSUME f \notin excused' PROVE Undisturbed(f)'
  <2>1. jar.verifier = f /\ jar.key = server.key
    BY <1>2, <1>3 DEF LoginsGoWell, Undisturbed
  <2>2. jar # NoCookie
    BY <2>1, CookieOfFlow DEF Typed, TypeOK, LoginTypeOK
  <2>3. Session(jar).verifier = f
    BY <2>1, <2>2 DEF Session
  <2>4. QED
    BY <1>1, <1>2, <1>3, <2>3 DEF Moves, Undisturbed
<1>4. QED
  BY <1>1, <1>2, <1>3, OthersGoWell

LEMMA ExchangeGoesWell ==
    ASSUME Typed, LoginsGoWell, NEW f \in Flows, Exchange(f)
    PROVE  LoginsGoWell'
<1> DEFINE at == IF server.client /\ flow[f].session.verifier = f THEN "exchanged" ELSE "refused"
<1>1. Moves(f, at, Popped(flow[f].session), flow[f].email, flow[f].found)
  BY ExchangeMoves DEF Typed, TypeOK
<1>2. /\ UNCHANGED <<server, blob, jar>> /\ flow[f].at = "callback"
      /\ excused \subseteq excused' /\ (f \notin excused' => server.client)
  BY DEF Exchange
<1>3. f \notin excused' => at = "exchanged" /\ flow[f].email \in Emails
  BY <1>2 DEF LoginsGoWell, Undisturbed
<1> HIDE DEF at
<1>4. f \notin excused' => Undisturbed(f)'
  BY <1>1, <1>2, <1>3 DEF Moves, Undisturbed
<1>5. QED
  BY <1>1, <1>2, <1>4, OthersGoWell

LEMMA DenyGoesWell ==
    ASSUME Typed, LoginsGoWell, NEW f \in Flows, Deny(f)
    PROVE  LoginsGoWell'
<1>1. Moves(f, "refused", Session(jar), flow[f].email, flow[f].found)
  BY DenyMoves DEF Typed, TypeOK
<1>2. UNCHANGED <<server, blob, jar>> /\ excused' = excused \cup {f}
  BY DEF Deny
<1>3. QED
  BY <1>1, <1>2, OthersGoWell

LEMMA LookUpGoesWell ==
    ASSUME Typed, LoginsGoWell, NEW f \in Flows, LookUp(f)
    PROVE  LoginsGoWell'
<1> DEFINE found == blob[flow[f].email] # NoKey
<1>1. Moves(f, "looked up", flow[f].session, flow[f].email, found)
  BY LookUpMoves DEF Typed, TypeOK
<1>2. UNCHANGED <<server, blob, jar, excused>> /\ flow[f].at = "exchanged"
  BY DEF LookUp
<1>3. /\ ~found => blob[flow[f].email] = NoKey
      /\ f \notin excused => flow[f].email \in Emails
  BY <1>2 DEF LoginsGoWell, Undisturbed
<1> HIDE DEF found
<1>4. f \notin excused' => Undisturbed(f)'
  BY <1>1, <1>2, <1>3 DEF Moves, Undisturbed
<1>5. QED
  BY <1>1, <1>2, <1>4, OthersGoWell

\* Of two logins that found no row for an account, the first to store excuses the other.
LEMMA StoreGoesWell ==
    ASSUME Typed, LoginsGoWell, NEW f \in Flows, Store(f)
    PROVE  LoginsGoWell'
<1> DEFINE at == IF Twice(f) THEN "refused" ELSE "stored"
<1>1. /\ Moves(f, at, flow[f].session, flow[f].email, flow[f].found)
      /\ blob' = IF Twice(f) THEN blob ELSE [blob EXCEPT ![flow[f].email] = server.key]
      /\ excused' = excused \cup {g \in Flows \ {f} :
            flow[g].at = "looked up" /\ ~flow[g].found /\ flow[g].email = flow[f].email}
  BY StoreMoves DEF Typed, TypeOK
<1>2. UNCHANGED <<server, jar>> /\ flow[f].at = "looked up"
  BY DEF Store
<1>3. f \notin excused => at = "stored"
  BY <1>2 DEF LoginsGoWell, Undisturbed, Twice
<1> HIDE DEF at
<1>4. f \notin excused' => Undisturbed(f)'
  BY <1>1, <1>3 DEF Moves, Undisturbed
<1>5. \A g \in Flows \ {f} :
        g \notin excused' /\ flow[g].at = "looked up" /\ ~flow[g].found /\ flow[g].email \in Emails
          => blob'[flow[g].email] = blob[flow[g].email]
  BY <1>1 DEF Typed, TypeOK, LoginTypeOK
<1>6. QED
  BY <1>1, <1>2, <1>4, <1>5, OthersGoWell

LEMMA TroubleGoesWell ==
    ASSUME Typed, LoginsGoWell, NEW f \in Flows, Trouble(f)
    PROVE  LoginsGoWell'
<1>1. Moves(f, "refused", Popped(flow[f].session), flow[f].email, flow[f].found)
  BY TroubleMoves DEF Typed, TypeOK
<1>2. UNCHANGED <<server, blob, jar>> /\ excused' = excused \cup {f}
  BY DEF Trouble
<1>3. QED
  BY <1>1, <1>2, OthersGoWell

LEMMA FinishGoesWell ==
    ASSUME Typed, LoginsGoWell, NEW f \in Flows, Finish(f)
    PROVE  LoginsGoWell'
<1> DEFINE at == IF flow[f].at = "stored" THEN "connected" ELSE "failed"
<1>1. Moves(f, at, NoCookie, flow[f].email, FALSE)
  BY FinishMoves DEF Typed, TypeOK
<1>2. UNCHANGED <<server, blob>> /\ flow[f].at \in {"stored", "refused"}
  BY DEF Finish
<1>3. excused \subseteq excused' /\ (jar' # jar => Consenting \ {f} \subseteq excused')
  BY FinishArrives, ArrivesExcuses DEF Typed, TypeOK
<1>4. f \notin excused => at = "connected"
  BY <1>2 DEF LoginsGoWell, Undisturbed
<1> HIDE DEF at
<1>5. f \notin excused' => Undisturbed(f)'
  BY <1>1, <1>3, <1>4 DEF Moves, Undisturbed
<1>6. QED
  BY <1>1, <1>2, <1>3, <1>5, OthersGoWell

-----------------------------------------------------------------------------
(* The inductive invariant.                                                 *)

IInv == Typed /\ AnswersAreKept /\ KeyIsKept /\ LoginsGoWell

LEMMA InitIInv == Init => IInv
  BY InitTyped, InitAnswers, InitKey, InitLogins DEF IInv

LEMMA NextIInv ==
    ASSUME IInv, [Next]_vars
    PROVE  IInv'
<1>1. Typed /\ AnswersAreKept /\ KeyIsKept /\ LoginsGoWell /\ Typed'
  BY NextTyped DEF IInv
<1>2. CASE Serve
  <2>1. UNCHANGED <<env, setup>>
    BY <1>2 DEF Serve, setupVars
  <2>2. AnswersAreKept'
    BY <1>1, <2>1 DEF AnswersAreKept
  <2>3. QED
    BY <1>1, <1>2, <2>2, ServeKey, LaunchGoesWell DEF IInv
<1>3. CASE SetupNext /\ UNCHANGED loginVars
  <2>1. LoginsGoWell'
    BY <1>1, <1>3 DEF LoginsGoWell, Undisturbed, loginVars
  <2>2. QED
    BY <1>1, <1>3, <2>1, SetupAnswers, SetupKey DEF IInv
<1>4. CASE LoginNext /\ UNCHANGED setupVars
  <2>1. LoginsGoWell'
    BY <1>1, <1>4, StopGoesWell, StartGoesWell, RedirectedGoesWell, CallbackGoesWell,
       DenyGoesWell, ExchangeGoesWell, LookUpGoesWell, StoreGoesWell, TroubleGoesWell, FinishGoesWell
    DEF LoginNext
  <2>2. AnswersAreKept'
    BY <1>1, <1>4 DEF AnswersAreKept, setupVars
  <2>3. QED
    BY <1>1, <1>4, <2>1, <2>2, LoginKey DEF IInv
<1>5. CASE UNCHANGED vars
  <2>1. UNCHANGED <<env, setup, lost, server, blob, jar, flow, excused>>
    BY <1>5 DEF vars, setupVars, loginVars
  <2>2. AnswersAreKept' /\ KeyIsKept' /\ LoginsGoWell'
    BY <1>1, <2>1 DEF AnswersAreKept, KeyIsKept, OneKey, KeyAtRest, Settings, LoginsGoWell, Undisturbed
  <2>3. QED
    BY <1>1, <2>2 DEF IInv
<1>6. QED
  BY <1>2, <1>3, <1>4, <1>5 DEF Next

LEMMA SpecIInv == Spec => []IInv
  BY InitIInv, NextIInv, PTL DEF Spec

-----------------------------------------------------------------------------
\* The types of Deployment: the file, setup's answers, cookies, requests, accounts.
THEOREM TypeCorrect == Spec => []TypeOK
<1>1. IInv => TypeOK
  BY DEF IInv, Typed
<1>2. QED
  BY <1>1, SpecIInv, PTL

\* However often setup is run and aborted, .env is edited and servers are started,
\* every stored token can be decrypted with the key of the file and with that of every
\* server that has one: the key is lost in two ways only, a setup killed while it
\* writes, and a setup that does not see the key the programs see.
THEOREM KeyStays == Spec => []KeyOpensTokens
<1>1. IInv => KeyOpensTokens
  BY DEF IInv, KeyIsKept, OneKey, KeyOpensTokens, TokensOpen
<1>2. QED
  BY <1>1, SpecIInv, PTL

\* Every login that fails was disturbed, refused, or failed by others.
THEOREM LoginsFailForAReason == Spec => []LoginFailsForAReason
<1>1. IInv => LoginFailsForAReason
  BY DEF IInv, LoginsGoWell, Undisturbed, LoginFailsForAReason
<1>2. QED
  BY <1>1, SpecIInv, PTL

\* What a line of setup's own spelling says, it says after the next setup, unless the
\* user answered its own prompt with something else, whichever provider was chosen.
THEOREM SettingsStay == Spec => UntouchedSettingsStay
<1>1. IInv /\ [Next]_vars =>
        [WriteFile =>
           \A n \in Names \ setup.changed :
             LET line == setup.was[n] IN
             line.form = "plain" /\ line.text \notin {"y", NoValue}
               => Setting(env'[n]) = Setting(line)]_vars
  <2> SUFFICES ASSUME IInv, WriteFile, NEW n \in Names \ setup.changed, Own(setup.was[n])
               PROVE  Setting(env'[n]) = Setting(setup.was[n])
    BY DEF Own
  <2>1. /\ setup.at = "writing"
        /\ env'[n].text = setup.answers[n] /\ env'[n].form = "plain"
    BY WriteFileTyped DEF IInv, Typed, TypeOK
  <2>2. setup.answers[n] = setup.was[n].text
    BY <2>1 DEF IInv, AnswersAreKept, KeepsRead
  <2>3. QED
    BY <2>1, <2>2 DEF Setting, Own
<1>2. QED
  BY <1>1, SpecIInv, PTL DEF Spec, UntouchedSettingsStay
=============================================================================
