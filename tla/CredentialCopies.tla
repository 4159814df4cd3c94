--------------------------- MODULE CredentialCopies ---------------------------
(***************************************************************************)
(* How the session of a provider reaches the home of a conversation.  A     *)
(* setup of a home compares its credentials file with those of its sources: *)
(* the workstation's own home and, for the home of a conversation, the      *)
(* managed home of its user; with Claude on macOS, the Keychain too.        *)
(* Setups overlap and may stop, the user signs in and out, and the CLIs     *)
(* that run in the homes rewrite their files.                               *)
(*                                                                         *)
(* Sessions are numbered by their expiry.  Only the order of the times at   *)
(* which files were last written counts: a copy is a new file.              *)
(***************************************************************************)
EXTENDS Naturals

CONSTANTS
  CopyCalls,     \* setups in progress
  SessionCount   \* bound: sessions the provider gives

ASSUME SessionAssumption == SessionCount \in Nat

Places == {"station", "user", "conversation"}
Managed == {"user", "conversation"}
Broken == SessionCount + 1   \* a file whose copy was cut short

VARIABLES
  account,     \* "codex", "claude" or "claude on macOS"
  renews,      \* the sessions of Claude carry a refresh token
  sessionIn,   \* the session in the credentials file of each place, 0 for no file
  keychain,    \* the session in the Keychain, or 0
  later,       \* pairs of places: the file of the first was written last of the two
  given,       \* how many sessions were given
  spent,       \* the sessions up to this one have expired
  copying,     \* what each setup found, and (history) whether no other overlapped it
  signedInAs   \* history: the session of the last sign-in at the workstation, while no
               \* setup crossed it and no CLI has written since; or 0

copyVars == <<account, renews, sessionIn, keychain, later, given, spent, copying,
              signedInAs>>

NoCopy == [at |-> "idle", home |-> "user", from |-> "none", usable |-> FALSE, force |-> FALSE,
           alone |-> FALSE]

CopyInit ==
  /\ account \in {"codex", "claude", "claude on macOS"}
  /\ renews \in IF account = "codex" THEN {FALSE} ELSE BOOLEAN
  /\ sessionIn = [p \in Places |-> 0] /\ keychain = 0
  /\ later = {}
  /\ given = 0 /\ spent = 0
  /\ copying = [c \in CopyCalls |-> NoCopy]
  /\ signedInAs = 0

NobodyCopies == \A c \in CopyCalls : copying[c].at = "idle"

IsSession(x) == x # Broken /\ x # 0
Usable(x) == IsSession(x) /\ (x > spent \/ renews)

\* a file that cannot be read is a session without expiry for Codex, none for Claude
Holds(x) == IsSession(x) \/ (account = "codex" /\ x = Broken)

\* a Claude session past its time that carries a refresh token is only stale
HasExpired(x) == IsSession(x) /\ x <= spent /\ ~renews

Touch(p) == later' = {e \in later : e[2] # p} \cup ({p} \X (Places \ {p}))

-----------------------------------------------------------------------------
(* The user and the CLIs.                                                  *)

SignInAtStation ==
  /\ given < SessionCount
  /\ given' = given + 1
  /\ IF account = "claude on macOS"
     THEN keychain' = given' /\ UNCHANGED <<sessionIn, later>>
     ELSE sessionIn' = [sessionIn EXCEPT !["station"] = given'] /\ Touch("station")
          /\ UNCHANGED keychain
  /\ signedInAs' = IF NobodyCopies THEN given' ELSE 0
  /\ UNCHANGED <<account, renews, spent, copying>>

\* the CLI that runs in a home refreshes its session, or writes it in its layout
CliWrites(p) ==
  /\ IsSession(sessionIn[p])
  /\ \/ UNCHANGED <<sessionIn, given>>
     \/ /\ given < SessionCount /\ given' = given + 1
        /\ sessionIn' = [sessionIn EXCEPT ![p] = given']
  /\ Touch(p)
  /\ signedInAs' = 0
  /\ UNCHANGED <<account, renews, keychain, spent, copying>>

SignOut(p) ==
  /\ sessionIn[p] # 0
  /\ sessionIn' = [sessionIn EXCEPT ![p] = 0]
  /\ signedInAs' = 0
  /\ UNCHANGED <<account, renews, keychain, later, given, spent, copying>>

\* a session counts as expired one minute early, so none expires under a copy
SessionExpires ==
  /\ spent < given /\ NobodyCopies
  /\ spent' = spent + 1
  /\ signedInAs' = IF signedInAs = spent' THEN 0 ELSE signedInAs
  /\ UNCHANGED <<account, renews, sessionIn, keychain, later, given, copying>>

-----------------------------------------------------------------------------
(* The setup of a home.                                                    *)

Sources(home) == IF home = "user" THEN {"station"} ELSE {"user", "station"}

\* newestUsableCodexAuthFile, newestUsableClaudeCredentialsFile
Candidates(home) == {p \in Sources(home) : Holds(sessionIn[p]) /\ ~HasExpired(sessionIn[p])}

\* fault: the newest file is copied whatever it holds
AnyIfNone(home) == {p \in Sources(home) : sessionIn[p] # 0}

\* without a usable source, Codex takes the newest file there is
LastResort(home) == IF account = "codex" THEN {p \in Sources(home) : sessionIn[p] # 0} ELSE {}

\* fault: the managed home of the user comes first
ManagedFirst(places) == IF "user" \in places THEN "user" ELSE CHOOSE p \in places : TRUE

Newest(places) == CHOOSE p \in places : \A q \in places : <<q, p>> \notin later
Expiry(x) == IF IsSession(x) THEN x ELSE 0

\* the Keychain wins over a source and a home that expire before it
KeychainIsNewer(source, home) ==
  keychain > Expiry(sessionIn[source]) /\ keychain > Expiry(sessionIn[home])

Chosen(home) ==
  LET usable == Candidates(home)
      others == LastResort(home)
  IN CASE usable # {} -> IF KeychainIsNewer(Newest(usable), home) THEN "keychain" ELSE Newest(usable)
       [] usable = {} /\ keychain # 0 -> "keychain"
       [] usable = {} /\ keychain = 0 /\ others # {} -> Newest(others)
       [] OTHER -> "none"

\* fault: a home whose session has expired is replaced only by a newer file
NeverForced(home) == FALSE

\* a home whose session has expired is replaced whatever the times of the files
Forced(home) == Candidates(home) # {} /\ HasExpired(sessionIn[home])

ChooseSource(c, home) ==
  /\ copying[c].at = "idle"
  /\ copying' = [d \in CopyCalls |->
       IF d = c THEN [at |-> "copy", home |-> home, from |-> Chosen(home),
                      usable |-> Candidates(home) # {}, force |-> Forced(home), alone |-> NobodyCopies]
       ELSE [copying[d] EXCEPT !.alone = FALSE]]
  /\ UNCHANGED <<account, renews, sessionIn, keychain, later, given, spent, signedInAs>>

\* syncAgentUserFile: an existing file is replaced by a newer one, or by force
Replaces(from, home, force) ==
  sessionIn[home] = 0 \/ force \/ <<from, home>> \in later

CopyFrom(c) ==
  LET me == copying[c]
      source == IF me.from = "keychain" THEN keychain
                ELSE IF me.from = "none" THEN 0 ELSE sessionIn[me.from]
      copies == /\ source # 0 /\ source # sessionIn[me.home]
                /\ me.from = "keychain" \/ Replaces(me.from, me.home, me.force)
  IN /\ me.at = "copy"
     /\ IF copies
        THEN sessionIn' = [sessionIn EXCEPT ![me.home] = source] /\ Touch(me.home)
        ELSE UNCHANGED <<sessionIn, later>>
     /\ copying' = [copying EXCEPT ![c] = NoCopy]
     /\ UNCHANGED <<account, renews, keychain, given, spent, signedInAs>>

\* the engine stops in the middle of a copy
CopyStops(c) ==
  /\ copying[c].at = "copy" /\ copying[c].from # "none"
  /\ sessionIn' = [sessionIn EXCEPT ![copying[c].home] = Broken]
  /\ Touch(copying[c].home)
  /\ copying' = [d \in CopyCalls |-> NoCopy]
  /\ signedInAs' = 0
  /\ UNCHANGED <<account, renews, keychain, given, spent>>

CopyNext ==
  \/ SignInAtStation \/ SessionExpires
  \/ \E p \in Places : CliWrites(p) \/ SignOut(p)
  \/ \E c \in CopyCalls :
       CopyFrom(c) \/ CopyStops(c) \/ \E home \in Managed : ChooseSource(c, home)

CopySpec == CopyInit /\ [][CopyNext]_copyVars

-----------------------------------------------------------------------------
\* A session the user signed in with at the workstation is the one a home has after
\* its next setup, although copies of older sessions lie in the other homes with the
\* time at which they were copied.  A sign-in while a setup is copying may be
\* hidden by that copy, and a session that a CLI has just rewritten keeps its place.
SignInReachesHomes ==
  [][\A c \in CopyCalls : CopyFrom(c) /\ signedInAs # 0 => sessionIn'[copying[c].home] = signedInAs]_copyVars

\* A setup that copies from a usable session leaves its home with a usable one,
\* whatever the home had and whichever of the two was written last.  (With
\* Codex or the Keychain, an overlapping setup may copy an expired session between.)
SetupBringsSession ==
  [][\A c \in CopyCalls :
       CopyFrom(c) /\ (\A p \in Places : sessionIn[p] # Broken)
         /\ (account = "claude" \/ copying[c].alone)
         /\ copying[c].usable /\ copying[c].from \in Places
         /\ Usable(sessionIn[copying[c].from])
       => Usable(sessionIn'[copying[c].home])]_copyVars

\* A setup of a Claude home never takes a usable session away from it.  One of a
\* Codex home can: without a usable source it copies the newest file it finds.
UsableIsKept ==
  [][\A c \in CopyCalls :
       CopyFrom(c) /\ account = "claude" /\ Usable(sessionIn[copying[c].home])
       => Usable(sessionIn'[copying[c].home])]_copyVars

\* Copies of sessions that go by the times of files bring a home the session the
\* user has, and take no usable one from it.
CopiesBringSessions == SignInReachesHomes /\ SetupBringsSession /\ UsableIsKept
=============================================================================
