--------------------------- MODULE ClaudeAuthCache ---------------------------
(***************************************************************************)
(* What "claude auth status" answered, kept for the settings calls in the     *)
(* engine's store, which may be lost, and in a file next to the agents.  A    *)
(* sign-in asks the CLI whatever is kept, then forgets both copies.           *)
(*                                                                         *)
(* A verdict is "in", "out" or, when the CLI did not tell, "unknown"; only    *)
(* the first two are kept.  Every access to a copy is a step of its own.      *)
(***************************************************************************)
EXTENDS FiniteSets

CONSTANT Probers   \* settings calls in progress

VARIABLES
  signedIn,    \* what the CLI would say
  inStore,     \* the verdict in the engine's store, "none" when absent or old
  inFile,      \* the verdict in the file
  prober,      \* what each settings call does, and the verdict it carries
  signing,     \* where the answer to a sign-in is, and its verdict
  uncrossed,       \* history: no settings call has crossed that answer
  quiet        \* history: such an answer was "in", and the session has not ended

authVars == <<signedIn, inStore, inFile, prober, signing, uncrossed, quiet>>

Verdicts == {"in", "out"}
Away == [at |-> "idle", verdict |-> "none"]

AuthInit ==
  /\ signedIn \in BOOLEAN
  /\ inStore = "none" /\ inFile = "none"
  /\ prober = [p \in Probers |-> Away]
  /\ signing = Away
  /\ uncrossed = FALSE /\ quiet = FALSE

\* claudeAuthenticationProbe: the CLI may time out, be missing, print anything
Probed == {"unknown", IF signedIn THEN "in" ELSE "out"}

Advance(p, where, what) == prober' = [prober EXCEPT ![p] = [at |-> where, verdict |-> what]]

\* claudeCachedAuthenticationProbe: the store first
ReadStore(p) ==
  /\ prober[p].at = "idle"
  /\ inStore = "none" /\ Advance(p, "file", "none")
  /\ uncrossed' = FALSE
  /\ UNCHANGED <<signedIn, inStore, inFile, signing, quiet>>

\* then the file, else the CLI
ReadVerdictFile(p) ==
  /\ prober[p].at = "file"
  /\ IF inFile \in Verdicts
     THEN Advance(p, "mirror", inFile)
     ELSE \E v \in Probed : IF v = "unknown" THEN Advance(p, "idle", "none")
                            ELSE Advance(p, "store", v)
  /\ UNCHANGED <<signedIn, inStore, inFile, signing, uncrossed, quiet>>

\* a verdict of the file is copied to the store, one of the CLI to both
KeepInStore(p) ==
  /\ prober[p].at \in {"mirror", "store"}
  /\ inStore' = prober[p].verdict
  /\ IF prober[p].at = "mirror" THEN Advance(p, "idle", "none")
     ELSE Advance(p, "keep", prober[p].verdict)
  /\ UNCHANGED <<signedIn, inFile, signing, uncrossed, quiet>>

\* claudeAuthProbeFileWrite, whose failures are ignored
KeepInFile(p) ==
  /\ prober[p].at = "keep"
  /\ inFile' \in {prober[p].verdict, inFile}
  /\ Advance(p, "idle", "none")
  /\ UNCHANGED <<signedIn, inStore, signing, uncrossed, quiet>>

\* the window of a copy ends; the engine's store is lost
VerdictsExpire ==
  /\ inStore # "none" \/ inFile # "none"
  /\ inStore' = "none" /\ inFile' = "none"
  /\ UNCHANGED <<signedIn, prober, signing, uncrossed, quiet>>

StoreIsLost ==
  /\ inStore # "none"
  /\ inStore' = "none"
  /\ UNCHANGED <<signedIn, inFile, prober, signing, uncrossed, quiet>>

\* the user signs in or out in the CLI or on the provider's site
UserSignsIn ==
  /\ ~signedIn
  /\ signedIn' = TRUE
  /\ UNCHANGED <<inStore, inFile, prober, signing, uncrossed, quiet>>

SessionEnds ==
  /\ signedIn
  /\ signedIn' = FALSE /\ quiet' = FALSE
  /\ UNCHANGED <<inStore, inFile, prober, signing, uncrossed>>

\* fault: the answer to a sign-in may come from a copy
CheckKept == IF inStore \in Verdicts THEN {inStore} ELSE Probed

\* claudeDoctorAuthentication with forceCheck
CheckForced == Probed

\* publicClaudeLogin after the login process has ended
AnswerSignIn ==
  /\ signing.at = "idle"
  /\ \E v \in CheckForced :
       signing' = [at |-> IF v = "unknown" THEN "told" ELSE "store", verdict |-> v]
  /\ uncrossed' = (\A p \in Probers : prober[p].at = "idle")
  /\ UNCHANGED <<signedIn, inStore, inFile, prober, quiet>>

\* the forced check keeps its verdict as any other
KeepSignIn ==
  /\ signing.at \in {"store", "keep"}
  /\ IF signing.at = "store"
     THEN inStore' = signing.verdict /\ UNCHANGED inFile
     ELSE inFile' \in {signing.verdict, inFile} /\ UNCHANGED inStore
  /\ signing' = [signing EXCEPT !.at = IF @ = "store" THEN "keep" ELSE "told"]
  /\ UNCHANGED <<signedIn, prober, uncrossed, quiet>>

\* fault: only the store is cleared
CopiesInStore == {"store"}

\* the copies invalidateClaudeAuthenticationProbe clears
CopiesToForget == {"store", "file"}

\* a sign-in that succeeded forgets its own verdict too, the store first; when the
\* CLI did not tell, the credentials file decides
ForgetStore ==
  /\ signing.at = "told" /\ signing.verdict \in {"in", "unknown"}
  /\ inStore' = "none"
  /\ signing' = [signing EXCEPT !.at = "forget"]
  /\ UNCHANGED <<signedIn, inFile, prober, uncrossed, quiet>>

ForgetFile ==
  /\ signing.at = "forget"
  /\ inFile' = IF "file" \in CopiesToForget THEN "none" ELSE inFile
  /\ signing' = Away
  /\ quiet' = (uncrossed /\ signedIn)
  /\ UNCHANGED <<signedIn, inStore, prober, uncrossed>>

SignInFailed ==
  /\ signing.at = "told" /\ signing.verdict # "in"
  /\ signing' = Away
  /\ UNCHANGED <<signedIn, inStore, inFile, prober, uncrossed, quiet>>

AuthNext ==
  \/ \E p \in Probers :
       ReadStore(p) \/ ReadVerdictFile(p) \/ KeepInStore(p) \/ KeepInFile(p)
  \/ VerdictsExpire \/ StoreIsLost \/ UserSignsIn \/ SessionEnds
  \/ AnswerSignIn \/ KeepSignIn \/ ForgetStore \/ ForgetFile \/ SignInFailed

AuthSpec == AuthInit /\ [][AuthNext]_authVars

-----------------------------------------------------------------------------
\* Once a sign-in has been answered, and no settings call crossed that answer, none of
\* the later ones is told "out" from a copy until the session really ends, although the
\* store may be lost and a file write may have failed.
SignInIsSeen ==
  quiet => /\ inStore # "out" /\ inFile # "out"
           /\ \A p \in Probers : prober[p].verdict # "out"

\* The answer to a sign-in is that of the CLI: a user who has signed in is not told
\* otherwise by an older verdict.
SignInIsTold ==
  [][signing.at = "idle" /\ signing'.verdict = "out" => ~signedIn]_authVars

\* A sign-in prevails over every verdict from before it.
SignInPrevails == []SignInIsSeen /\ SignInIsTold
=============================================================================
