------------------------------- MODULE Setup -------------------------------
(***************************************************************************)
(* `mailllama setup` (mailllama/cli.py): it reads the .env file, asks for   *)
(* every setting, offering what it read, and writes the file anew. The      *)
(* programs read the same file with another parser (pydantic-settings,      *)
(* mailllama/config.py), and their owner edits it by hand. Of the settings  *)
(* there is one of each kind: the key that is generated once, a yes/no      *)
(* question, the provider that decides which credentials are asked for, and *)
(* one credential of each provider.                                         *)
(***************************************************************************)
EXTENDS Naturals

CONSTANT SecretKeys     \* bound: the keys setup may generate

NoValue == "none"

\* A key looks like nothing else.
ASSUME KeyAssumption == SecretKeys \cap {NoValue, "true", "y", "se # cret"} = {}

Names == {"SECRET_KEY", "DRY_RUN", "MAIL_PROVIDER", "GMAIL_CLIENT_SECRET", "IMAP_PASSWORD"}

Credentials == {"GMAIL_CLIENT_SECRET", "IMAP_PASSWORD"}

\* What can stand behind the "=": "y" is another way to say true, and a password may
\* have a "#" in it.
Texts == SecretKeys \cup {"true", "y", "false", "gmail_api", "imap", "se # cret", NoValue}

\* A line is written the way setup writes it, in quotes, or with its name in lower
\* case or behind "export". A missing line has no text.
Line == [text : Texts, form : {"plain", "quoted", "renamed"}]

Plain(text) == [text |-> text, form |-> "plain"]

EmptyFile == [n \in Names |-> Plain(NoValue)]

VARIABLES
    env,        \* the file
    setup,      \* the setup command: the file it has read, what it will write
    generated,  \* keys generated so far
    lost        \* has the file lost its key?

setupVars == <<env, setup, generated, lost>>

SetupState == [at : {"idle", "asking", "writing"}, was : [Names -> Line],
               changed : SUBSET Names, answers : [Names -> Texts]]

NoAnswers == [n \in Names |-> NoValue]

IdleSetup == [at |-> "idle", was |-> EmptyFile, changed |-> {}, answers |-> NoAnswers]

SetupInit ==
    /\ env = EmptyFile
    /\ setup = IdleSetup
    /\ generated = {}
    /\ lost = FALSE

-----------------------------------------------------------------------------
\* What the programs make of a line: without quotes a value ends before " #".
Setting(line) ==
    CASE line.text = "y" -> "true"
      [] line.text = "se # cret" /\ line.form # "quoted" -> "se"
      [] OTHER -> line.text

Settings(n) == Setting(env[n])

\* What setup makes of the file: it takes quotes off, and knows no other names.
ReadEnv(file) == [n \in Names |-> IF file[n].form = "renamed" THEN NoValue ELSE file[n].text]

StartSetup ==
    /\ setup.at = "idle"
    /\ setup' = [setup EXCEPT !.at = "asking", !.was = env]
    /\ UNCHANGED <<env, generated, lost>>

Or(v, default) == IF v = NoValue THEN default ELSE v

\* "y" is not in its list.
EnvBool(text) == IF text = "true" THEN "true" ELSE "false"

\* Enter at a prompt gives what was read, or else the default, which for a
\* credential is nothing.
Defaults(seen) ==
    [seen EXCEPT !["DRY_RUN"] = EnvBool(seen["DRY_RUN"]),
                 !["MAIL_PROVIDER"] = Or(seen["MAIL_PROVIDER"], "gmail_api")]

Asked(p) == IF p = "gmail_api" THEN "GMAIL_CLIENT_SECRET" ELSE "IMAP_PASSWORD"

\* Mutation: the credentials of the other provider are not carried over.
AnsweredForgets(seen, dry, p, typed) ==
    [NoAnswers EXCEPT !["SECRET_KEY"] = seen["SECRET_KEY"], !["DRY_RUN"] = dry,
                      !["MAIL_PROVIDER"] = p, ![Asked(p)] = typed]

Answered(seen, dry, p, typed) ==
    [seen EXCEPT !["DRY_RUN"] = dry, !["MAIL_PROVIDER"] = p, ![Asked(p)] = typed]

\* Mutation: every run generates a key.
KeyToWriteNew(seen) == SecretKeys \ generated

\* Mutation: the file's key is taken as it is.
KeyToWriteAsRead(seen) == {seen["SECRET_KEY"]}

\* The key that was read, or a new one.
KeyToWrite(seen) ==
    IF seen["SECRET_KEY"] # NoValue THEN {seen["SECRET_KEY"]} ELSE SecretKeys \ generated

\* The prompts at which the user did not just press Enter.
Changed(seen, dry, p, typed) ==
    LET given == [Defaults(seen) EXCEPT !["DRY_RUN"] = dry, !["MAIL_PROVIDER"] = p,
                                        ![Asked(p)] = typed]
    IN {n \in Names : given[n] # Defaults(seen)[n]}

AnswerWith(seen, dry, p, typed, key) ==
    /\ setup' = [setup EXCEPT
          !.at = "writing",
          !.answers = [Answered(seen, dry, p, typed) EXCEPT !["SECRET_KEY"] = key],
          !.changed = Changed(seen, dry, p, typed)]
    /\ generated' = generated \cup {key}

\* There was a key in the file, and setup did not see it.
KeyNotSeen(file) ==
    ReadEnv(file)["SECRET_KEY"] = NoValue /\ Setting(file["SECRET_KEY"]) # NoValue

\* At each prompt the user presses Enter or says something else; then the file is
\* truncated. A new key is unlike all before it.
Answer ==
    /\ setup.at = "asking"
    /\ LET seen == ReadEnv(setup.was) IN
         \E dry \in {"true", "false"}, p \in {"gmail_api", "imap"}, key \in KeyToWrite(seen) :
           \E typed \in {seen[Asked(p)], "se # cret"} :
             AnswerWith(seen, dry, p, typed, key)
    /\ lost' = (lost \/ KeyNotSeen(setup.was))
    /\ env' = EmptyFile

\* The answers as they are, without quotes; empty ones get no line.
WriteFile ==
    /\ setup.at = "writing"
    /\ env' = [n \in Names |-> Plain(setup.answers[n])]
    /\ setup' = IdleSetup
    /\ UNCHANGED <<generated, lost>>

\* Control-C at a prompt, or the process is killed: in the middle of writing the
\* file stays empty.
Abort ==
    /\ setup.at # "idle"
    /\ setup' = IdleSetup
    /\ lost' = (lost \/ setup.at = "writing")
    /\ UNCHANGED <<env, generated>>

\* The owner edits a line and leaves one the programs understand, not always as
\* setup would write it: the name otherwise, another "true", a new password in quotes.
Edited(n, line) ==
    {[line EXCEPT !.form = "renamed"]}
      \cup (IF line.text = "true" THEN {Plain("y")} ELSE {})
      \cup (IF n \in Credentials THEN {[text |-> "se # cret", form |-> "quoted"]} ELSE {})

\* Bound: one such line at a time.
Edit ==
    /\ \A n \in Names : env[n].form = "plain" /\ env[n].text # "y"
    /\ \E n \in Names :
         /\ env[n].text # NoValue
         /\ \E line \in Edited(n, env[n]) : env' = [env EXCEPT ![n] = line]
    /\ UNCHANGED <<setup, generated, lost>>

SetupNext == StartSetup \/ Answer \/ WriteFile \/ Abort \/ Edit

-----------------------------------------------------------------------------
\* Type invariant: the file, and setup's answers.
SetupTypeOK ==
    /\ env \in [Names -> Line]
    /\ setup \in SetupState
    /\ generated \subseteq SecretKeys
    /\ lost \in BOOLEAN
    /\ setup.at = "writing" => setup.answers["SECRET_KEY"] \in generated
=============================================================================
