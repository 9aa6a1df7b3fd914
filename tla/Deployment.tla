----------------------------- MODULE Deployment -----------------------------
(***************************************************************************)
(* An installation of MailLlama over time: setup is run again and again,    *)
(* the owner edits .env, the server stops and starts with what the file     *)
(* says at that moment, and accounts are connected, their tokens encrypted  *)
(* with the key the process has.                                            *)
(***************************************************************************)
EXTENDS Setup, Login

\* Without a line in the file the process has no key.
ASSUME SameKeysAssumption == Keys = SecretKeys /\ NoKey = NoValue

vars == <<setupVars, loginVars>>

Init == SetupInit /\ LoginInit

\* `mailllama serve`, at any moment, in the middle of a setup too.
Serve ==
    /\ Launch(Settings("SECRET_KEY"), Settings("GMAIL_CLIENT_SECRET") # NoValue)
    /\ UNCHANGED setupVars

Next ==
    \/ Serve
    \/ SetupNext /\ UNCHANGED loginVars
    \/ LoginNext /\ UNCHANGED setupVars

Spec == Init /\ [][Next]_vars

-----------------------------------------------------------------------------
\* Type invariant of the installation.
TypeOK == SetupTypeOK /\ LoginTypeOK

\* The key of the file, also of one that is just being written.
KeyAtRest == IF setup.at = "writing" THEN setup.answers["SECRET_KEY"] ELSE Settings("SECRET_KEY")

\* Stored tokens can be decrypted with the key of the file, and by every running
\* server that has one.
TokensOpen ==
    \A e \in Emails : blob[e] # NoKey =>
        /\ KeyAtRest = blob[e]
        /\ server.up => server.key \in {NoKey, blob[e]}

\* There are two ways to lose the key "required to decrypt stored OAuth tokens"
\* (cli.py:313), and no third one, however often setup is run and aborted, settings
\* are edited and servers are started: setup is killed while it writes, or setup does
\* not see the key that is in the file (which SetupKeepsValues is about).
KeyOpensTokens == ~lost => TokensOpen

\* A setting that is written the way setup writes it survives the next setup, unless
\* the user answered its own prompt with something else: whichever provider's branch
\* was taken ("press Enter to keep each one", cli.py:131-132). SetupKeepsValues tells
\* what becomes of other spellings.
UntouchedSettingsStay ==
    [][WriteFile =>
         \A n \in Names \ setup.changed :
             LET line == setup.was[n] IN
             line.form = "plain" /\ line.text \notin {"y", NoValue}
               => Setting(env'[n]) = Setting(line)]_vars

\* What setup promises (cli.py:131-134): "existing values in .env are loaded as
\* defaults (press Enter to keep each one)", and secrets "already present - like
\* SECRET_KEY - are preserved; this command will never rotate them".
SetupKeepsValues ==
    [][WriteFile =>
         \A n \in Names \ setup.changed :
             Setting(setup.was[n]) # NoValue => Setting(env'[n]) = Setting(setup.was[n])]_vars
=============================================================================
