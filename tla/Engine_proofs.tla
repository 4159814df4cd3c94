--------------------------- MODULE Engine_proofs ---------------------------
(***************************************************************************)
(* Theorems about what the setups and the conversations of an engine share *)
(* (the cache of the Claude sign-in, the managed skills, the homes and the *)
(* configuration of Vibe, the debug ports, the files and the credentials   *)
(* of the conversations) and about what the streams of Codex, of Claude    *)
(* and of Vibe show, for every number of calls, setups, skills,            *)
(* conversations, texts and pieces.                                        *)
(***************************************************************************)
EXTENDS MCEngine, JournalUsage_proofs, TLAPS, FiniteSetTheorems, SequenceTheorems,
        WellFoundedInduction

-----------------------------------------------------------------------------
(* The sign-in of Claude.                                                   *)

Kept == Verdicts \cup {"none"}

\* Every variable keeps its type; who is idle carries no verdict.
AuthTypeOK ==
  /\ signedIn \in BOOLEAN /\ uncrossed \in BOOLEAN /\ quiet \in BOOLEAN
  /\ inStore \in Kept /\ inFile \in Kept
  /\ prober \in [Probers -> [at : {"idle", "file", "mirror", "store", "keep"}, verdict : Kept]]
  /\ signing \in [at : {"idle", "store", "keep", "told", "forget"},
                  verdict : Kept \cup {"unknown"}]
  /\ signing.at = "idle" => signing.verdict = "none"
  /\ signing.at \in {"store", "keep"} => signing.verdict \in Verdicts
  /\ \A p \in Probers :
       IF prober[p].at \in {"idle", "file"} THEN prober[p].verdict = "none"
       ELSE prober[p].verdict \in Verdicts

\* An answer that no settings call has crossed forgets what is in the store before
\* anyone writes there again.
Forgotten ==
  uncrossed => /\ \A p \in Probers : prober[p].at = "idle" /\ prober[p].verdict = "none"
               /\ signing.at = "forget" => inStore = "none"

\* A user who was told "in" is signed in, and nothing that may be kept says
\* otherwise: a sign-in that said so began before.
NoneSaysOut ==
  quiet => /\ signedIn
           /\ inStore # "out" /\ inFile # "out" /\ signing.verdict # "out"
           /\ \A p \in Probers : prober[p].verdict # "out"

AuthInv == AuthTypeOK /\ Forgotten /\ NoneSaysOut

\* The cache starts empty.
LEMMA AuthInvInit == AuthInit => AuthInv
<1> SUFFICES ASSUME AuthInit PROVE AuthInv
  OBVIOUS
<1>1. /\ Away \in [at : {"idle", "file", "mirror", "store", "keep"}, verdict : Kept]
      /\ Away \in [at : {"idle", "store", "keep", "told", "forget"},
                   verdict : Kept \cup {"unknown"}]
      /\ Away.at = "idle" /\ Away.verdict = "none"
  BY DEF Away, Kept
<1>2. \A p \in Probers : prober[p] = Away
  BY DEF AuthInit
<1>3. prober \in [Probers -> [at : {"idle", "file", "mirror", "store", "keep"}, verdict : Kept]]
  BY <1>1 DEF AuthInit
<1>4. AuthTypeOK
  BY <1>1, <1>2, <1>3 DEF AuthInit, AuthTypeOK, Kept
<1>5. Forgotten /\ NoneSaysOut
  BY DEF AuthInit, Forgotten, NoneSaysOut
<1>6. QED
  BY <1>4, <1>5 DEF AuthInv

\* A settings call takes its verdict from a copy or from the CLI.
LEMMA ProberKeeps ==
  ASSUME AuthInv, NEW p \in Probers,
         ReadStore(p) \/ ReadVerdictFile(p) \/ KeepInStore(p) \/ KeepInFile(p)
  PROVE  AuthInv'
<1> USE DEF AuthInv, AuthTypeOK, Kept, Verdicts, Advance
<1>1. CASE ReadStore(p)
  BY <1>1 DEF ReadStore, Forgotten, NoneSaysOut
<1>2. CASE ReadVerdictFile(p)
  BY <1>2 DEF ReadVerdictFile, Probed, Forgotten, NoneSaysOut
<1>3. CASE KeepInStore(p)
  BY <1>3 DEF KeepInStore, Forgotten, NoneSaysOut
<1>4. CASE KeepInFile(p)
  BY <1>4 DEF KeepInFile, Forgotten, NoneSaysOut
<1>5. QED
  BY <1>1, <1>2, <1>3, <1>4

\* What happens around the bridge, and the answer to a sign-in.
LEMMA SignInKeeps ==
  ASSUME AuthInv,
         \/ VerdictsExpire \/ StoreIsLost \/ UserSignsIn \/ SessionEnds
         \/ AnswerSignIn \/ KeepSignIn \/ ForgetStore \/ ForgetFile \/ SignInFailed
  PROVE  AuthInv'
<1> USE DEF AuthInv, AuthTypeOK, Kept, Verdicts
<1>1. CASE VerdictsExpire \/ StoreIsLost \/ UserSignsIn \/ SessionEnds
  <2>1. CASE VerdictsExpire
    BY <2>1 DEF VerdictsExpire, Forgotten, NoneSaysOut
  <2>2. CASE StoreIsLost
    BY <2>2 DEF StoreIsLost, Forgotten, NoneSaysOut
  <2>3. CASE UserSignsIn
    BY <2>3 DEF UserSignsIn, Forgotten, NoneSaysOut
  <2>4. CASE SessionEnds
    BY <2>4 DEF SessionEnds, Forgotten, NoneSaysOut
  <2>5. QED
    BY <1>1, <2>1, <2>2, <2>3, <2>4
<1>2. CASE AnswerSignIn
  <2>1. PICK v \in Probed :
          signing' = [at |-> IF v = "unknown" THEN "told" ELSE "store", verdict |-> v]
    BY <1>2 DEF AnswerSignIn, CheckForced
  <2>2. v \in {"in", "out", "unknown"} /\ (v = "out" => ~signedIn)
    BY DEF Probed
  <2>3. AuthTypeOK'
    BY <1>2, <2>1, <2>2 DEF AnswerSignIn
  <2>4. \A p \in Probers : prober[p].at = "idle" => prober[p].verdict = "none"
    OBVIOUS
  <2>5. Forgotten'
    BY <1>2, <2>1, <2>4 DEF AnswerSignIn, Forgotten
  <2>6. NoneSaysOut'
    BY <1>2, <2>1, <2>2 DEF AnswerSignIn, NoneSaysOut
  <2>7. QED
    BY <2>3, <2>5, <2>6
<1>3. CASE KeepSignIn
  BY <1>3 DEF KeepSignIn, Forgotten, NoneSaysOut
<1>4. CASE ForgetStore \/ SignInFailed
  BY <1>4 DEF ForgetStore, SignInFailed, Away, Forgotten, NoneSaysOut
<1>5. CASE ForgetFile
  BY <1>5 DEF ForgetFile, CopiesToForget, Away, Forgotten, NoneSaysOut
<1>6. QED
  BY <1>1, <1>2, <1>3, <1>4, <1>5

\* A sign-in prevails over every verdict from before it: its answer is that of the
\* CLI, and no copy contradicts it until the session ends
\* (invalidateClaudeAuthenticationProbe).
THEOREM SignInIsKept == AuthSpec => SignInPrevails
<1>1. AuthInv /\ [AuthNext]_authVars => AuthInv'
  <2> SUFFICES ASSUME AuthInv, [AuthNext]_authVars PROVE AuthInv'
    OBVIOUS
  <2>1. CASE UNCHANGED authVars
    BY <2>1 DEF authVars, AuthInv, AuthTypeOK, Forgotten, NoneSaysOut
  <2>2. QED
    BY <2>1, ProberKeeps, SignInKeeps DEF AuthNext
<1>2. AuthInv => SignInIsSeen
  BY DEF AuthInv, NoneSaysOut, SignInIsSeen
<1>3. AuthInv /\ [AuthNext]_authVars
        => (signing.at = "idle" /\ signing'.verdict = "out" => ~signedIn)
  <2> SUFFICES ASSUME AuthInv, [AuthNext]_authVars, signing.at = "idle", signing'.verdict = "out"
               PROVE  ~signedIn
    OBVIOUS
  <2>1. signing.verdict = "none"
    BY DEF AuthInv, AuthTypeOK
  <2>2. CASE AnswerSignIn
    BY <2>2 DEF AnswerSignIn, CheckForced, Probed
  <2>3. CASE UNCHANGED signing
    BY <2>1, <2>3
  <2>4. CASE KeepSignIn \/ ForgetStore \/ ForgetFile \/ SignInFailed
    BY <2>4 DEF KeepSignIn, ForgetStore, ForgetFile, SignInFailed
  <2>5. QED
    BY <2>2, <2>3, <2>4 DEF AuthNext, authVars, ReadStore, ReadVerdictFile, KeepInStore,
      KeepInFile, VerdictsExpire, StoreIsLost, UserSignsIn, SessionEnds
<1>4. QED
  BY <1>1, <1>2, <1>3, AuthInvInit, PTL DEF AuthSpec, SignInPrevails, SignInIsTold
-----------------------------------------------------------------------------
(* The managed skills.                                                      *)

SkillCalls == [skill : Skills \cup {"none"}, loaded : Nat]
SkillBundles == [skills : [Skills -> Nat], refresh : BOOLEAN, asks : SUBSET Skills]

SkillTypes ==
  /\ agentKind \in Kinds /\ conversation \in {"closed", "open", "turn"}
  /\ released \in [Skills -> Nat \ {0}]
  /\ onDisk \in [Skills -> Nat] /\ acknowledged \in [Skills -> Nat]
  /\ bundle \in SkillBundles
  /\ readSlugs \subseteq Skills /\ readHere \subseteq Skills
  /\ skillCalls \in [ReadCalls -> SkillCalls]
  /\ knows \in [Skills -> SUBSET Nat]

\* a version is installed after it is released, acknowledged after it is installed
VersionsRise ==
  \A s \in Skills :
    acknowledged[s] <= onDisk[s] /\ bundle.skills[s] <= onDisk[s] /\ onDisk[s] <= released[s]

\* a call of the turn loads a version between that of the bundle and that on disk
LoadsOfTurn ==
  /\ conversation # "turn" => \A c \in ReadCalls : skillCalls[c] = NoCall
  /\ \A c \in ReadCalls : skillCalls[c].loaded > 0 =>
       /\ skillCalls[c].skill \in Skills
       /\ bundle.skills[skillCalls[c].skill] <= skillCalls[c].loaded
       /\ skillCalls[c].loaded <= onDisk[skillCalls[c].skill]

\* what is recorded as read was read since the bundle was taken
ReadSinceTaken ==
  \A s \in readSlugs : \E v \in knows[s] : bundle.skills[s] <= v /\ v <= onDisk[s]

\* a bundle asks for what is not acknowledged, and records the reads it asks for,
\* unless it is a Codex app-server's
BundleAsks ==
  conversation # "closed" =>
    /\ \A s \in Skills : bundle.skills[s] > 0
    /\ bundle.asks = {s \in Skills : acknowledged[s] # bundle.skills[s]}
    /\ bundle.refresh <=> bundle.asks # {}
    /\ bundle.refresh /\ agentKind # "codex-app-server" => readHere \subseteq readSlugs

SkillInv ==
  /\ SkillTypes /\ VersionsRise /\ LoadsOfTurn /\ ReadSinceTaken /\ BundleAsks
  /\ ReadsAreKnown

\* The records of the skills: a call at rest, the bundle of some files.
LEMMA SkillRecords ==
  /\ NoCall \in SkillCalls /\ NoCall.loaded = 0
  /\ Nothing \in SkillBundles
  /\ \A files \in [Skills -> Nat] :
       /\ StateOf(files) \in SkillBundles /\ StateOf(files).skills = files
       /\ StateOf(files).asks = {s \in Skills : files[s] = 0 \/ acknowledged[s] # files[s]}
       /\ StateOf(files).refresh <=> StateOf(files).asks # {}
<1>1. NoCall \in SkillCalls /\ NoCall.loaded = 0
  BY DEF NoCall, SkillCalls
<1>2. Nothing \in SkillBundles
  BY DEF Nothing, SkillBundles
<1>3. ASSUME NEW files \in [Skills -> Nat]
      PROVE  /\ StateOf(files) \in SkillBundles /\ StateOf(files).skills = files
             /\ StateOf(files).asks = {s \in Skills : files[s] = 0 \/ acknowledged[s] # files[s]}
             /\ StateOf(files).refresh <=> StateOf(files).asks # {}
  BY DEF StateOf, SkillBundles
<1> QED BY <1>1, <1>2, <1>3

\* The conversation starts closed, with nothing installed and nothing read.
LEMMA SkillInvInit == SkillInit => SkillInv
<1> SUFFICES ASSUME SkillInit PROVE SkillInv
  OBVIOUS
<1>1. SkillTypes
  BY SkillRecords DEF SkillInit, SkillTypes
<1>2. /\ \A s \in Skills : released[s] = 1 /\ onDisk[s] = 0 /\ acknowledged[s] = 0
      /\ \A s \in Skills : bundle.skills[s] = 0
      /\ \A c \in ReadCalls : skillCalls[c] = NoCall
  BY DEF SkillInit, Nothing
<1>3. VersionsRise
  <2> SUFFICES ASSUME NEW s \in Skills
               PROVE  /\ acknowledged[s] <= onDisk[s] /\ bundle.skills[s] <= onDisk[s]
                      /\ onDisk[s] <= released[s]
    BY DEF VersionsRise
  <2>1. acknowledged[s] = 0 /\ bundle.skills[s] = 0 /\ onDisk[s] = 0 /\ released[s] = 1
    BY <1>2
  <2> QED BY <2>1
<1>4. LoadsOfTurn
  BY <1>2, SkillRecords DEF LoadsOfTurn
<1>5. ReadSinceTaken /\ BundleAsks /\ ReadsAreKnown
  BY <1>2 DEF SkillInit, ReadSinceTaken, BundleAsks, ReadsAreKnown, AcknowledgedWasRead,
              ReadSkillsAreNotAsked
<1> QED BY <1>1, <1>3, <1>4, <1>5 DEF SkillInv

\* The end of a call whose read counts.
CountsRead(c) ==
  /\ skillCalls[c].loaded > 0
  /\ RecordRead(skillCalls[c].skill)
  /\ knows' = [knows EXCEPT ![skillCalls[c].skill] = @ \cup {skillCalls[c].loaded}]
  /\ readHere' = readHere \cup {skillCalls[c].skill}

\* What it changes is well typed.
LEMMA ReadIsTyped ==
  ASSUME SkillTypes, LoadsOfTurn, NEW c \in ReadCalls, CountsRead(c)
  PROVE  /\ bundle' \in SkillBundles /\ acknowledged' \in [Skills -> Nat]
         /\ readSlugs' \subseteq Skills /\ readHere' \subseteq Skills
         /\ knows' \in [Skills -> SUBSET Nat]
<1> DEFINE skill == skillCalls[c].skill
           version == skillCalls[c].loaded
<1>1. skillCalls[c] \in SkillCalls /\ version > 0
  BY DEF CountsRead, SkillTypes
<1>2. skill \in Skills /\ version \in Nat
  BY <1>1 DEF LoadsOfTurn, SkillCalls
<1>3. /\ bundle \in SkillBundles /\ acknowledged \in [Skills -> Nat]
      /\ readSlugs \subseteq Skills /\ readHere \subseteq Skills
      /\ knows \in [Skills -> SUBSET Nat]
  BY DEF SkillTypes
<1>4. RecordRead(skill)
  BY DEF CountsRead
<1>5. knows' = [knows EXCEPT ![skill] = @ \cup {version}] /\ readHere' = readHere \cup {skill}
  BY DEF CountsRead
<1> HIDE DEF skill, version
<1>6. knows' \in [Skills -> SUBSET Nat] /\ readHere' \subseteq Skills
  BY <1>2, <1>3, <1>5
<1>7. bundle.skills \in [Skills -> Nat]
      /\ [bundle EXCEPT !.refresh = FALSE, !.asks = {}] \in SkillBundles
  BY <1>3 DEF SkillBundles
<1>8. /\ readSlugs' \in {readSlugs, readSlugs \cup {skill}}
      /\ acknowledged' \in {acknowledged, bundle.skills}
      /\ bundle' \in {bundle, [bundle EXCEPT !.refresh = FALSE, !.asks = {}]}
  BY <1>4 DEF RecordRead
<1> QED BY <1>2, <1>3, <1>6, <1>7, <1>8

\* Every step leaves the skills well typed.
LEMMA SkillTypesStep ==
  ASSUME SkillTypes, LoadsOfTurn, [SkillNext]_skillVars
  PROVE  SkillTypes'
<1> USE SkillRecords DEF SkillTypes
<1>1. ASSUME NEW s \in Skills, Release(s) PROVE SkillTypes'
  <2>1. released' \in [Skills -> Nat \ {0}]
    BY <1>1 DEF Release
  <2> QED BY <1>1, <2>1 DEF Release
<1>2. ASSUME NEW some \in SUBSET Skills, InstallSkills(some) PROVE SkillTypes'
  <2>1. onDisk' \in [Skills -> Nat]
    BY <1>2 DEF InstallSkills
  <2> QED BY <1>2, <2>1 DEF InstallSkills
<1>3. ASSUME NEW resumed \in BOOLEAN, OpenConversation(resumed) PROVE SkillTypes'
  <2>1. released \in [Skills -> Nat]
    OBVIOUS
  <2>a. StateOf(released) \in SkillBundles
    BY <2>1
  <2>2. [StateOf(released) EXCEPT !.refresh = FALSE, !.asks = {}] \in SkillBundles
    BY <2>a DEF SkillBundles
  <2>3. bundle' \in SkillBundles /\ acknowledged' \in [Skills -> Nat]
    BY <1>3, <2>1, <2>a, <2>2 DEF OpenConversation
  <2>4. knows' \in [Skills -> SUBSET Nat]
    <3>1. [s \in Skills |-> knows[s] \cup {released[s]}] \in [Skills -> SUBSET Nat]
      BY <2>1
    <3> QED BY <1>3, <3>1 DEF OpenConversation
  <2>5. skillCalls' \in [ReadCalls -> SkillCalls]
    BY <1>3 DEF OpenConversation, NoCalls
  <2> QED BY <1>3, <2>1, <2>3, <2>4, <2>5 DEF OpenConversation
<1>4. ASSUME SubmitTurn PROVE SkillTypes'
  <2>1. /\ bundle' \in {bundle, StateOf(onDisk)} /\ readSlugs' \in {readSlugs, {}}
        /\ readHere' \in {readHere, {}} /\ conversation' \in {"closed", "turn"}
        /\ UNCHANGED <<agentKind, released, onDisk, acknowledged, skillCalls, knows>>
    BY <1>4 DEF SubmitTurn, ForgetReads
  <2> QED BY <2>1
<1>5. ASSUME NEW c \in ReadCalls, NEW s \in Skills, BeginRead(c, s) PROVE SkillTypes'
  <2>1. [skill |-> s, loaded |-> 0] \in SkillCalls
    BY DEF SkillCalls
  <2>2. skillCalls' \in [ReadCalls -> SkillCalls]
    BY <1>5, <2>1 DEF BeginRead
  <2> QED BY <1>5, <2>2 DEF BeginRead
<1>6. ASSUME NEW c \in ReadCalls, LoadSkill(c) PROVE SkillTypes'
  <2>1. skillCalls[c] \in SkillCalls /\ skillCalls[c] # NoCall /\ skillCalls[c].loaded = 0
    BY <1>6 DEF LoadSkill
  <2>2. skillCalls[c].skill \in Skills
    BY <2>1 DEF SkillCalls, NoCall
  <2>3. [skillCalls[c] EXCEPT !.loaded = onDisk[skillCalls[c].skill]] \in SkillCalls
    BY <2>1, <2>2 DEF SkillCalls
  <2>4. skillCalls' \in [ReadCalls -> SkillCalls]
    BY <1>6, <2>3 DEF LoadSkill
  <2> QED BY <1>6, <2>4 DEF LoadSkill
<1>7. ASSUME NEW c \in ReadCalls, NEW failed \in BOOLEAN, EndRead(c, failed) PROVE SkillTypes'
  <2>1. skillCalls' \in [ReadCalls -> SkillCalls]
    BY <1>7 DEF EndRead
  <2>2. UNCHANGED <<agentKind, released, onDisk, conversation>>
    BY <1>7 DEF EndRead
  <2>3. CASE UNCHANGED <<acknowledged, bundle, readSlugs, knows, readHere>>
    BY <2>1, <2>2, <2>3
  <2>4. CASE CountsRead(c)
    <3>1. /\ bundle' \in SkillBundles /\ acknowledged' \in [Skills -> Nat]
          /\ readSlugs' \subseteq Skills /\ readHere' \subseteq Skills
          /\ knows' \in [Skills -> SUBSET Nat]
      BY <2>4, ReadIsTyped
    <3> QED BY <2>1, <2>2, <3>1
  <2> QED BY <1>7, <2>3, <2>4 DEF EndRead, CountsRead
<1>8. CASE EndSkillTurn
  <2>1. skillCalls' \in [ReadCalls -> SkillCalls]
    BY <1>8 DEF EndSkillTurn, NoCalls
  <2> QED BY <1>8, <2>1 DEF EndSkillTurn
<1>9. CASE CloseConversation
  <2>1. skillCalls' \in [ReadCalls -> SkillCalls]
    BY <1>9 DEF CloseConversation, NoCalls
  <2> QED BY <1>9, <2>1 DEF CloseConversation
<1>10. CASE UNCHANGED skillVars
  BY <1>10 DEF skillVars
<1> QED BY <1>1, <1>2, <1>3, <1>4, <1>5, <1>6, <1>7, <1>8, <1>9, <1>10 DEF SkillNext

\* Versions only rise, and a bundle is taken from the files on disk.
LEMMA SkillMoves ==
  ASSUME SkillTypes, VersionsRise, LoadsOfTurn, [SkillNext]_skillVars
  PROVE  /\ \A s \in Skills : /\ released[s] <= released'[s] /\ onDisk[s] <= onDisk'[s]
                              /\ onDisk'[s] <= released'[s]
         /\ \/ bundle'.skills = bundle.skills
            \/ bundle'.skills = onDisk' /\ readSlugs' = {}
         /\ \/ acknowledged' = acknowledged
            \/ acknowledged' = bundle.skills /\ \E c \in ReadCalls : CountsRead(c)
            \/ acknowledged' = onDisk' /\ \E resumed \in BOOLEAN : OpenConversation(resumed)
<1> DEFINE Rise == \A s \in Skills : /\ released[s] <= released'[s] /\ onDisk[s] <= onDisk'[s]
                                     /\ onDisk'[s] <= released'[s]
<1>t. /\ released \in [Skills -> Nat] /\ onDisk \in [Skills -> Nat]
      /\ acknowledged \in [Skills -> Nat] /\ bundle \in SkillBundles
  BY DEF SkillTypes
<1>v. \A s \in Skills : released[s] \in Nat /\ onDisk[s] \in Nat /\ onDisk[s] <= released[s]
  BY <1>t DEF VersionsRise
<1>s. UNCHANGED <<released, onDisk>> => Rise
  BY <1>v
<1>1. ASSUME NEW s \in Skills, Release(s)
      PROVE  Rise /\ UNCHANGED <<bundle, acknowledged>>
  BY <1>1, <1>t, <1>v DEF Release
<1>2. ASSUME NEW some \in SUBSET Skills, InstallSkills(some)
      PROVE  Rise /\ UNCHANGED <<bundle, acknowledged>>
  BY <1>2, <1>t, <1>v DEF InstallSkills
<1>3. ASSUME NEW resumed \in BOOLEAN, OpenConversation(resumed)
      PROVE  /\ Rise /\ bundle'.skills = onDisk' /\ readSlugs' = {}
             /\ acknowledged' \in {acknowledged, onDisk'}
  <2>1. /\ onDisk' = released /\ released' = released /\ readSlugs' = {}
        /\ acknowledged' \in {acknowledged, released}
        /\ bundle' \in {StateOf(released), [StateOf(released) EXCEPT !.refresh = FALSE, !.asks = {}]}
    BY <1>3 DEF OpenConversation
  <2>2. StateOf(released) \in SkillBundles /\ StateOf(released).skills = released
    BY <1>t, SkillRecords
  <2>3. bundle'.skills = released
    BY <2>1, <2>2 DEF SkillBundles
  <2> QED BY <1>v, <2>1, <2>3
<1>4. ASSUME SubmitTurn
      PROVE  /\ Rise /\ acknowledged' = acknowledged
             /\ bundle'.skills = bundle.skills \/ (bundle'.skills = onDisk' /\ readSlugs' = {})
  <2>1. StateOf(onDisk).skills = onDisk
    BY <1>t, SkillRecords
  <2>2. UNCHANGED <<released, onDisk, acknowledged>>
    BY <1>4 DEF SubmitTurn
  <2>3. CASE bundle' = bundle
    BY <1>s, <2>2, <2>3
  <2>4. CASE bundle' = StateOf(onDisk) /\ onDisk # bundle.skills
    <3>1. readSlugs' = {} \/ bundle' = bundle
      BY <1>4, <2>1, <2>4 DEF SubmitTurn, ForgetReads
    <3> QED BY <1>s, <2>1, <2>2, <2>4, <3>1
  <2>5. CASE bundle' = StateOf(onDisk) /\ onDisk = bundle.skills
    BY <1>s, <2>1, <2>2, <2>5
  <2> QED BY <1>4, <2>1, <2>3, <2>4, <2>5 DEF SubmitTurn
<1>5. ASSUME NEW c \in ReadCalls, NEW failed \in BOOLEAN, EndRead(c, failed)
      PROVE  /\ Rise /\ bundle'.skills = bundle.skills
             /\ \/ acknowledged' = acknowledged
                \/ acknowledged' = bundle.skills /\ CountsRead(c)
  <2>1. UNCHANGED <<released, onDisk>>
    BY <1>5 DEF EndRead
  <2>2. CASE UNCHANGED <<acknowledged, bundle, readSlugs, knows, readHere>>
    BY <1>s, <2>1, <2>2
  <2>3. CASE CountsRead(c)
    <3>1. [bundle EXCEPT !.refresh = FALSE, !.asks = {}].skills = bundle.skills
      BY <1>t DEF SkillBundles
    <3>2. /\ acknowledged' \in {acknowledged, bundle.skills}
          /\ bundle' \in {bundle, [bundle EXCEPT !.refresh = FALSE, !.asks = {}]}
      BY <2>3 DEF CountsRead, RecordRead
    <3> QED BY <1>s, <2>1, <2>3, <3>1, <3>2
  <2> QED BY <1>5, <2>2, <2>3 DEF EndRead, CountsRead
<1>6. ASSUME NEW c \in ReadCalls, NEW s \in Skills, BeginRead(c, s)
      PROVE  Rise /\ UNCHANGED <<bundle, acknowledged>>
  BY <1>s, <1>6 DEF BeginRead
<1>7. ASSUME NEW c \in ReadCalls, LoadSkill(c)
      PROVE  Rise /\ UNCHANGED <<bundle, acknowledged>>
  BY <1>s, <1>7 DEF LoadSkill
<1>8. EndSkillTurn \/ CloseConversation \/ UNCHANGED skillVars
        => Rise /\ UNCHANGED <<bundle, acknowledged>>
  BY <1>s DEF EndSkillTurn, CloseConversation, skillVars
<1> HIDE DEF Rise
<1>9. /\ Rise
      /\ \/ bundle'.skills = bundle.skills
         \/ bundle'.skills = onDisk' /\ readSlugs' = {}
      /\ \/ acknowledged' = acknowledged
         \/ acknowledged' = bundle.skills /\ \E c \in ReadCalls : CountsRead(c)
         \/ acknowledged' = onDisk' /\ \E resumed \in BOOLEAN : OpenConversation(resumed)
  BY <1>1, <1>2, <1>3, <1>4, <1>5, <1>6, <1>7, <1>8 DEF SkillNext
<1> QED BY <1>9 DEF Rise

\* The versions keep their order.
LEMMA VersionsRiseStep ==
  ASSUME SkillTypes, VersionsRise, LoadsOfTurn, [SkillNext]_skillVars
  PROVE  VersionsRise'
<1>1. SkillTypes'
  BY SkillTypesStep
<1> SUFFICES ASSUME NEW s \in Skills
             PROVE  /\ acknowledged'[s] <= onDisk'[s] /\ bundle'.skills[s] <= onDisk'[s]
                    /\ onDisk'[s] <= released'[s]
  BY DEF VersionsRise
<1>2. /\ bundle.skills[s] \in Nat /\ onDisk[s] \in Nat /\ acknowledged[s] \in Nat
      /\ onDisk'[s] \in Nat
  BY <1>1 DEF SkillTypes, SkillBundles
<1>3. acknowledged[s] <= onDisk[s] /\ bundle.skills[s] <= onDisk[s]
  BY DEF VersionsRise
<1>4. onDisk[s] <= onDisk'[s] /\ onDisk'[s] <= released'[s]
  BY SkillMoves
<1>5. bundle'.skills = bundle.skills \/ bundle'.skills = onDisk'
  BY SkillMoves
<1>6. acknowledged' \in {acknowledged, bundle.skills, onDisk'}
  BY SkillMoves
<1>7. bundle'.skills[s] \in {bundle.skills[s], onDisk'[s]}
  BY <1>5
<1>8. acknowledged'[s] \in {acknowledged[s], bundle.skills[s], onDisk'[s]}
  BY <1>6
<1> QED BY <1>2, <1>3, <1>4, <1>7, <1>8

\* The calls of a turn load versions between that of the bundle and that on disk.
LEMMA LoadsOfTurnStep ==
  ASSUME SkillTypes, VersionsRise, LoadsOfTurn, [SkillNext]_skillVars
  PROVE  LoadsOfTurn'
<1> DEFINE Loaded(call, b, files) ==
      call.loaded > 0 => /\ call.skill \in Skills
                         /\ b.skills[call.skill] <= call.loaded
                         /\ call.loaded <= files[call.skill]
<1>t. /\ skillCalls \in [ReadCalls -> SkillCalls] /\ onDisk \in [Skills -> Nat]
      /\ \A s \in Skills : bundle.skills[s] \in Nat /\ onDisk[s] \in Nat
      /\ \A s \in Skills : onDisk'[s] \in Nat
  BY SkillTypesStep DEF SkillTypes, SkillBundles
<1>l. \A c \in ReadCalls : Loaded(skillCalls[c], bundle, onDisk)
  BY DEF LoadsOfTurn
<1>n. \A b, files : Loaded(NoCall, b, files)
  BY SkillRecords
<1>r. \A s \in Skills : onDisk[s] <= onDisk'[s]
  BY SkillMoves
<1>s. ASSUME NEW c \in ReadCalls, bundle'.skills = bundle.skills
      PROVE  Loaded(skillCalls[c], bundle', onDisk')
  <2> SUFFICES ASSUME skillCalls[c].loaded > 0
               PROVE  /\ skillCalls[c].skill \in Skills
                      /\ bundle'.skills[skillCalls[c].skill] <= skillCalls[c].loaded
                      /\ skillCalls[c].loaded <= onDisk'[skillCalls[c].skill]
    OBVIOUS
  <2>1. /\ skillCalls[c].skill \in Skills /\ skillCalls[c].loaded \in Nat
        /\ bundle.skills[skillCalls[c].skill] <= skillCalls[c].loaded
        /\ skillCalls[c].loaded <= onDisk[skillCalls[c].skill]
    BY <1>l, <1>t DEF SkillCalls
  <2>2. /\ onDisk[skillCalls[c].skill] <= onDisk'[skillCalls[c].skill]
        /\ onDisk[skillCalls[c].skill] \in Nat /\ onDisk'[skillCalls[c].skill] \in Nat
    BY <1>r, <1>t, <2>1
  <2> QED BY <1>s, <2>1, <2>2
<1> SUFFICES /\ conversation' # "turn" => \A c \in ReadCalls : skillCalls'[c] = NoCall
             /\ \A c \in ReadCalls : Loaded(skillCalls'[c], bundle', onDisk')
  BY DEF LoadsOfTurn
<1> HIDE DEF Loaded
<1>1. ASSUME NEW s \in Skills, Release(s)
      PROVE  /\ conversation' # "turn" => \A c \in ReadCalls : skillCalls'[c] = NoCall
             /\ \A c \in ReadCalls : Loaded(skillCalls'[c], bundle', onDisk')
  BY <1>1, <1>l DEF Release, LoadsOfTurn
<1>2. ASSUME NEW some \in SUBSET Skills, InstallSkills(some)
      PROVE  /\ conversation' # "turn" => \A c \in ReadCalls : skillCalls'[c] = NoCall
             /\ \A c \in ReadCalls : Loaded(skillCalls'[c], bundle', onDisk')
  BY <1>2, <1>s DEF InstallSkills, LoadsOfTurn
<1>3. ASSUME NEW resumed \in BOOLEAN, OpenConversation(resumed)
      PROVE  /\ conversation' # "turn" => \A c \in ReadCalls : skillCalls'[c] = NoCall
             /\ \A c \in ReadCalls : Loaded(skillCalls'[c], bundle', onDisk')
  <2>1. \A c \in ReadCalls : skillCalls'[c] = NoCall
    BY <1>3 DEF OpenConversation, NoCalls
  <2> QED BY <1>n, <2>1
<1>4. ASSUME SubmitTurn
      PROVE  /\ conversation' # "turn" => \A c \in ReadCalls : skillCalls'[c] = NoCall
             /\ \A c \in ReadCalls : Loaded(skillCalls'[c], bundle', onDisk')
  <2>1. conversation = "open" /\ skillCalls' = skillCalls
    BY <1>4 DEF SubmitTurn
  <2>2. \A c \in ReadCalls : skillCalls'[c] = NoCall
    BY <2>1 DEF LoadsOfTurn
  <2> QED BY <1>n, <2>2
<1>5. ASSUME NEW d \in ReadCalls, NEW s \in Skills, BeginRead(d, s)
      PROVE  /\ conversation' # "turn" => \A c \in ReadCalls : skillCalls'[c] = NoCall
             /\ \A c \in ReadCalls : Loaded(skillCalls'[c], bundle', onDisk')
  <2>1. /\ conversation' = "turn" /\ UNCHANGED <<bundle, onDisk>>
        /\ skillCalls' = [skillCalls EXCEPT ![d] = [skill |-> s, loaded |-> 0]]
    BY <1>5 DEF BeginRead
  <2>2. Loaded([skill |-> s, loaded |-> 0], bundle', onDisk')
    BY DEF Loaded
  <2>3. \A c \in ReadCalls : skillCalls'[c] = IF c = d THEN [skill |-> s, loaded |-> 0]
                                              ELSE skillCalls[c]
    BY <1>t, <2>1
  <2> QED BY <1>l, <2>1, <2>2, <2>3
<1>6. ASSUME NEW d \in ReadCalls, LoadSkill(d)
      PROVE  /\ conversation' # "turn" => \A c \in ReadCalls : skillCalls'[c] = NoCall
             /\ \A c \in ReadCalls : Loaded(skillCalls'[c], bundle', onDisk')
  <2> DEFINE after == [skillCalls[d] EXCEPT !.loaded = onDisk[skillCalls[d].skill]]
  <2>1. /\ UNCHANGED <<bundle, onDisk, conversation>> /\ skillCalls[d] # NoCall
        /\ skillCalls[d].loaded = 0 /\ skillCalls' = [skillCalls EXCEPT ![d] = after]
    BY <1>6 DEF LoadSkill
  <2>2. skillCalls[d] \in SkillCalls
    BY <1>t
  <2>3. skillCalls[d].skill \in Skills
    BY <2>1, <2>2 DEF SkillCalls, NoCall
  <2>4. after.skill = skillCalls[d].skill /\ after.loaded = onDisk[skillCalls[d].skill]
    BY <2>2 DEF SkillCalls
  <2> HIDE DEF after
  <2>5. Loaded(after, bundle', onDisk')
    BY <1>t, <2>1, <2>3, <2>4 DEF Loaded, VersionsRise
  <2>6. \A c \in ReadCalls : skillCalls'[c] = IF c = d THEN after ELSE skillCalls[c]
    BY <1>t, <2>1
  <2>7. conversation' = "turn"
    BY <2>1 DEF LoadsOfTurn
  <2> QED BY <1>l, <2>1, <2>5, <2>6, <2>7
<1>7. ASSUME NEW d \in ReadCalls, NEW failed \in BOOLEAN, EndRead(d, failed)
      PROVE  /\ conversation' # "turn" => \A c \in ReadCalls : skillCalls'[c] = NoCall
             /\ \A c \in ReadCalls : Loaded(skillCalls'[c], bundle', onDisk')
  <2>1. /\ UNCHANGED <<onDisk, conversation>> /\ skillCalls[d].loaded > 0
        /\ skillCalls' = [skillCalls EXCEPT ![d] = NoCall]
    BY <1>7 DEF EndRead
  <2>2. \A c \in ReadCalls : skillCalls'[c] = IF c = d THEN NoCall ELSE skillCalls[c]
    BY <1>t, <2>1
  <2>3. bundle'.skills = bundle.skills
    <3>1. CASE UNCHANGED bundle
      BY <3>1
    <3>2. CASE bundle' = [bundle EXCEPT !.refresh = FALSE, !.asks = {}]
      BY <3>2 DEF SkillTypes, SkillBundles
    <3> QED BY <1>7, <3>1, <3>2 DEF EndRead, RecordRead
  <2>4. conversation' = "turn"
    BY <2>1, SkillRecords DEF LoadsOfTurn
  <2> QED BY <1>n, <1>s, <2>2, <2>3, <2>4
<1>8. ASSUME EndSkillTurn \/ CloseConversation
      PROVE  /\ conversation' # "turn" => \A c \in ReadCalls : skillCalls'[c] = NoCall
             /\ \A c \in ReadCalls : Loaded(skillCalls'[c], bundle', onDisk')
  <2>1. \A c \in ReadCalls : skillCalls'[c] = NoCall
    BY <1>8 DEF EndSkillTurn, CloseConversation, NoCalls
  <2> QED BY <1>n, <2>1
<1>9. ASSUME UNCHANGED skillVars
      PROVE  /\ conversation' # "turn" => \A c \in ReadCalls : skillCalls'[c] = NoCall
             /\ \A c \in ReadCalls : Loaded(skillCalls'[c], bundle', onDisk')
  BY <1>9, <1>l DEF skillVars, LoadsOfTurn
<1> QED BY <1>1, <1>2, <1>3, <1>4, <1>5, <1>6, <1>7, <1>8, <1>9 DEF SkillNext

\* What was read since the bundle was taken is a version between the two.
LEMMA ReadSinceTakenStep ==
  ASSUME SkillTypes, VersionsRise, LoadsOfTurn, ReadSinceTaken, [SkillNext]_skillVars
  PROVE  ReadSinceTaken'
<1>t. /\ \A s \in Skills : bundle.skills[s] \in Nat /\ onDisk[s] \in Nat
      /\ \A s \in Skills : onDisk'[s] \in Nat
      /\ \A s \in Skills : knows[s] \subseteq Nat
      /\ knows \in [Skills -> SUBSET Nat] /\ readSlugs \subseteq Skills
  BY SkillTypesStep DEF SkillTypes, SkillBundles
<1>r. \A s \in Skills : onDisk[s] <= onDisk'[s]
  BY SkillMoves
<1>1. CASE readSlugs' = {}
  BY <1>1 DEF ReadSinceTaken
<1>2. CASE /\ bundle'.skills = bundle.skills /\ readSlugs' \subseteq readSlugs
           /\ \A s \in Skills : knows[s] \subseteq knows'[s]
  <2> SUFFICES ASSUME NEW s \in readSlugs'
               PROVE  \E v \in knows'[s] : bundle'.skills[s] <= v /\ v <= onDisk'[s]
    BY DEF ReadSinceTaken
  <2>1. s \in readSlugs /\ s \in Skills
    BY <1>2, <1>t
  <2>2. PICK v \in knows[s] : bundle.skills[s] <= v /\ v <= onDisk[s]
    BY <2>1 DEF ReadSinceTaken
  <2>3. v \in knows'[s] /\ v \in Nat
    BY <1>2, <1>t, <2>1, <2>2
  <2>4. bundle'.skills[s] <= v /\ v <= onDisk'[s]
    BY <1>2, <1>t, <1>r, <2>1, <2>2, <2>3
  <2> QED BY <2>3, <2>4
<1>3. ASSUME NEW c \in ReadCalls, CountsRead(c), onDisk' = onDisk
      PROVE  ReadSinceTaken'
  <2> DEFINE skill == skillCalls[c].skill
             version == skillCalls[c].loaded
  <2>1. /\ skill \in Skills /\ version \in Nat
        /\ bundle.skills[skill] <= version /\ version <= onDisk[skill]
    BY <1>3 DEF CountsRead, LoadsOfTurn, SkillTypes, SkillCalls
  <2>2. /\ knows' = [knows EXCEPT ![skill] = @ \cup {version}]
        /\ readSlugs' \subseteq readSlugs \cup {skill}
        /\ bundle' \in {bundle, [bundle EXCEPT !.refresh = FALSE, !.asks = {}]}
    BY <1>3 DEF CountsRead, RecordRead
  <2> HIDE DEF skill, version
  <2>3. bundle'.skills = bundle.skills
    BY <2>2 DEF SkillTypes, SkillBundles
  <2>4. \A s \in Skills : knows[s] \subseteq knows'[s]
    BY <1>t, <2>2
  <2>5. version \in knows'[skill]
    BY <1>t, <2>1, <2>2
  <2> SUFFICES ASSUME NEW s \in readSlugs'
               PROVE  \E v \in knows'[s] : bundle'.skills[s] <= v /\ v <= onDisk'[s]
    BY DEF ReadSinceTaken
  <2>6. CASE s = skill
    BY <1>3, <2>1, <2>3, <2>5, <2>6
  <2>7. CASE s \in readSlugs
    <3>1. PICK v \in knows[s] : bundle.skills[s] <= v /\ v <= onDisk[s]
      BY <2>7 DEF ReadSinceTaken
    <3>2. v \in knows'[s]
      BY <1>t, <2>4, <2>7, <3>1
    <3> QED BY <1>3, <2>3, <3>1, <3>2
  <2> QED BY <2>2, <2>6, <2>7
<1>4. ASSUME NEW s \in Skills, Release(s) PROVE ReadSinceTaken'
  BY <1>2, <1>4 DEF Release
<1>5. ASSUME NEW some \in SUBSET Skills, InstallSkills(some) PROVE ReadSinceTaken'
  BY <1>2, <1>5 DEF InstallSkills
<1>6. ASSUME NEW resumed \in BOOLEAN, OpenConversation(resumed) PROVE ReadSinceTaken'
  BY <1>1, <1>6 DEF OpenConversation
<1>7. ASSUME SubmitTurn PROVE ReadSinceTaken'
  <2>1. readSlugs' \subseteq readSlugs /\ knows' = knows
    BY <1>7 DEF SubmitTurn, ForgetReads
  <2>2. bundle'.skills = bundle.skills \/ readSlugs' = {}
    BY SkillMoves
  <2> QED BY <1>1, <1>2, <2>1, <2>2
<1>8. ASSUME NEW c \in ReadCalls, NEW s \in Skills, BeginRead(c, s) PROVE ReadSinceTaken'
  BY <1>2, <1>8 DEF BeginRead
<1>9. ASSUME NEW c \in ReadCalls, LoadSkill(c) PROVE ReadSinceTaken'
  BY <1>2, <1>9 DEF LoadSkill
<1>10. ASSUME NEW c \in ReadCalls, NEW failed \in BOOLEAN, EndRead(c, failed)
       PROVE  ReadSinceTaken'
  <2>1. CASE UNCHANGED <<bundle, readSlugs, knows>>
    BY <1>2, <2>1
  <2>2. CASE CountsRead(c)
    BY <1>3, <1>10, <2>2 DEF EndRead
  <2> QED BY <1>10, <2>1, <2>2 DEF EndRead, CountsRead
<1>11. ASSUME EndSkillTurn \/ CloseConversation \/ UNCHANGED skillVars PROVE ReadSinceTaken'
  <2>1. UNCHANGED <<bundle, readSlugs, knows>>
    BY <1>11 DEF EndSkillTurn, CloseConversation, skillVars
  <2> QED BY <1>2, <2>1
<1> QED BY <1>4, <1>5, <1>6, <1>7, <1>8, <1>9, <1>10, <1>11 DEF SkillNext

\* What is taken for read was read: a version that is acknowledged rises no more.
LEMMA AcknowledgedWasReadStep ==
  ASSUME SkillTypes, VersionsRise, LoadsOfTurn, ReadSinceTaken, BundleAsks,
         AcknowledgedWasRead, [SkillNext]_skillVars
  PROVE  AcknowledgedWasRead'
<1>t. \A s \in Skills : /\ onDisk[s] \in Nat /\ onDisk'[s] \in Nat /\ acknowledged[s] \in Nat
                        /\ bundle.skills[s] \in Nat /\ bundle'.skills[s] \in Nat
                        /\ knows'[s] \subseteq Nat
  BY SkillTypesStep DEF SkillTypes, SkillBundles
<1>1. CASE acknowledged' = acknowledged /\ \A s \in Skills : knows[s] \subseteq knows'[s]
  <2> SUFFICES ASSUME NEW s \in Skills, acknowledged'[s] > 0, acknowledged'[s] = onDisk'[s]
               PROVE  onDisk'[s] \in knows'[s]
    BY DEF AcknowledgedWasRead
  <2>1. acknowledged[s] <= onDisk[s] /\ onDisk[s] <= onDisk'[s]
    BY SkillMoves DEF VersionsRise
  <2>2. acknowledged[s] = onDisk[s] /\ onDisk'[s] = onDisk[s] /\ acknowledged[s] > 0
    BY <1>1, <1>t, <2>1
  <2>3. onDisk[s] \in knows[s]
    BY <2>2 DEF AcknowledgedWasRead
  <2> QED BY <1>1, <2>2, <2>3
<1>2. ASSUME NEW resumed \in BOOLEAN, OpenConversation(resumed)
      PROVE  AcknowledgedWasRead'
  <2>1. CASE UNCHANGED <<acknowledged, knows>>
    BY <1>1, <2>1
  <2>2. CASE onDisk' = released /\ knows' = [s \in Skills |-> knows[s] \cup {released[s]}]
    BY <2>2 DEF AcknowledgedWasRead
  <2> QED BY <1>2, <2>1, <2>2 DEF OpenConversation
<1>3. ASSUME NEW c \in ReadCalls, CountsRead(c), onDisk' = onDisk
      PROVE  AcknowledgedWasRead'
  <2>1. \A s \in Skills : knows[s] \subseteq knows'[s]
    <3>1. knows \in [Skills -> SUBSET Nat]
      BY DEF SkillTypes
    <3> QED BY <1>3, <3>1 DEF CountsRead
  <2>2. CASE acknowledged' = acknowledged
    BY <1>1, <2>1, <2>2
  <2>3. CASE acknowledged' # acknowledged
    <3>1. bundle.asks \subseteq readSlugs' /\ acknowledged' = bundle.skills
      BY <1>3, <2>3 DEF CountsRead, RecordRead
    <3>2. conversation = "turn"
      BY <1>3, SkillRecords DEF CountsRead, LoadsOfTurn
    <3>3. bundle.asks = {s \in Skills : acknowledged[s] # bundle.skills[s]}
      BY <3>2 DEF BundleAsks
    <3>4. bundle'.skills = bundle.skills
      <4>1. bundle' \in {bundle, [bundle EXCEPT !.refresh = FALSE, !.asks = {}]}
        BY <1>3 DEF CountsRead, RecordRead
      <4> QED BY <4>1 DEF SkillTypes, SkillBundles
    <3> SUFFICES ASSUME NEW s \in Skills, acknowledged'[s] > 0, acknowledged'[s] = onDisk'[s]
                 PROVE  onDisk'[s] \in knows'[s]
      BY DEF AcknowledgedWasRead
    <3>5. bundle.skills[s] = onDisk[s] /\ bundle'.skills[s] = onDisk[s] /\ onDisk[s] > 0
      BY <1>3, <3>1, <3>4
    <3>6. CASE s \in bundle.asks
      <4>1. ReadSinceTaken'
        BY ReadSinceTakenStep
      <4>2. PICK v \in knows'[s] : bundle'.skills[s] <= v /\ v <= onDisk'[s]
        BY <3>1, <3>6, <4>1 DEF ReadSinceTaken
      <4>3. v \in Nat
        BY <1>t, <4>2
      <4>4. v = onDisk'[s]
        BY <1>3, <1>t, <3>5, <4>2, <4>3
      <4> QED BY <4>2, <4>4
    <3>7. CASE s \notin bundle.asks
      <4>1. acknowledged[s] = onDisk[s] /\ acknowledged[s] > 0
        BY <3>3, <3>5, <3>7
      <4>2. onDisk[s] \in knows[s]
        BY <4>1 DEF AcknowledgedWasRead
      <4> QED BY <1>3, <2>1, <4>2
    <3> QED BY <3>6, <3>7
  <2> QED BY <2>2, <2>3
<1>4. ASSUME NEW s \in Skills, Release(s) PROVE AcknowledgedWasRead'
  BY <1>1, <1>4 DEF Release
<1>5. ASSUME NEW some \in SUBSET Skills, InstallSkills(some) PROVE AcknowledgedWasRead'
  BY <1>1, <1>5 DEF InstallSkills
<1>6. ASSUME SubmitTurn PROVE AcknowledgedWasRead'
  BY <1>1, <1>6 DEF SubmitTurn
<1>7. ASSUME NEW c \in ReadCalls, NEW s \in Skills, BeginRead(c, s) PROVE AcknowledgedWasRead'
  BY <1>1, <1>7 DEF BeginRead
<1>8. ASSUME NEW c \in ReadCalls, LoadSkill(c) PROVE AcknowledgedWasRead'
  BY <1>1, <1>8 DEF LoadSkill
<1>9. ASSUME NEW c \in ReadCalls, NEW failed \in BOOLEAN, EndRead(c, failed)
      PROVE  AcknowledgedWasRead'
  <2>1. CASE UNCHANGED <<acknowledged, knows>>
    BY <1>1, <2>1
  <2>2. CASE CountsRead(c)
    BY <1>3, <1>9, <2>2 DEF EndRead
  <2> QED BY <1>9, <2>1, <2>2 DEF EndRead, CountsRead
<1>10. ASSUME EndSkillTurn \/ CloseConversation \/ UNCHANGED skillVars PROVE AcknowledgedWasRead'
  <2>1. UNCHANGED <<acknowledged, knows>>
    BY <1>10 DEF EndSkillTurn, CloseConversation, skillVars
  <2> QED BY <1>1, <2>1
<1> QED BY <1>2, <1>4, <1>5, <1>6, <1>7, <1>8, <1>9, <1>10 DEF SkillNext

\* A bundle asks for what is not acknowledged, and for what was not read since.
LEMMA BundleAsksStep ==
  ASSUME SkillTypes, VersionsRise, LoadsOfTurn, BundleAsks, ReadSkillsAreNotAsked,
         [SkillNext]_skillVars
  PROVE  BundleAsks' /\ ReadSkillsAreNotAsked'
<1> DEFINE Post == BundleAsks' /\ ReadSkillsAreNotAsked'
<1>t. /\ released \in [Skills -> Nat \ {0}] /\ onDisk \in [Skills -> Nat]
      /\ acknowledged \in [Skills -> Nat] /\ bundle \in SkillBundles
      /\ bundle.skills \in [Skills -> Nat]
  BY DEF SkillTypes, SkillBundles
<1>k. agentKind' = agentKind
  BY DEF SkillNext, Release, InstallSkills, OpenConversation, SubmitTurn, BeginRead,
         LoadSkill, EndRead, EndSkillTurn, CloseConversation, skillVars
<1>1. CASE /\ UNCHANGED <<acknowledged, bundle, readSlugs, readHere>>
           /\ conversation' # "closed" => conversation # "closed"
  BY <1>1, <1>k DEF BundleAsks, ReadSkillsAreNotAsked
<1>2. CASE conversation' = "closed"
  BY <1>2 DEF BundleAsks, ReadSkillsAreNotAsked
<1>3. ASSUME NEW resumed \in BOOLEAN, OpenConversation(resumed) PROVE Post
  <2>1. /\ released \in [Skills -> Nat] /\ \A s \in Skills : released[s] > 0
        /\ readHere' = {}
    BY <1>3, <1>t DEF OpenConversation
  <2>2. /\ StateOf(released) \in SkillBundles /\ StateOf(released).skills = released
        /\ StateOf(released).asks = {s \in Skills : released[s] = 0 \/ acknowledged[s] # released[s]}
        /\ StateOf(released).refresh <=> StateOf(released).asks # {}
    BY <2>1, SkillRecords
  <2>3. StateOf(released).asks = {s \in Skills : acknowledged[s] # released[s]}
    BY <2>1, <2>2
  <2>4. CASE acknowledged' = acknowledged /\ bundle' = StateOf(released)
    BY <2>1, <2>2, <2>3, <2>4 DEF BundleAsks, ReadSkillsAreNotAsked
  <2>5. CASE /\ acknowledged' = released
             /\ bundle' = [StateOf(released) EXCEPT !.refresh = FALSE, !.asks = {}]
    <3>1. bundle'.skills = released /\ bundle'.refresh = FALSE /\ bundle'.asks = {}
      BY <2>2, <2>5 DEF SkillBundles
    <3> QED BY <2>1, <2>5, <3>1 DEF BundleAsks, ReadSkillsAreNotAsked
  <2> QED BY <1>3, <2>4, <2>5 DEF OpenConversation
<1>4. ASSUME SubmitTurn PROVE Post
  <2>1. CASE conversation' = "closed"
    BY <1>2, <2>1
  <2>2. CASE conversation' # "closed"
    <3>1. /\ StateOf(onDisk).skills = onDisk
          /\ StateOf(onDisk).asks = {s \in Skills : onDisk[s] = 0 \/ acknowledged[s] # onDisk[s]}
          /\ StateOf(onDisk).refresh <=> StateOf(onDisk).asks # {}
      BY <1>t, SkillRecords
    <3>2. /\ conversation = "open" /\ bundle' = StateOf(onDisk) /\ acknowledged' = acknowledged
          /\ IF onDisk # bundle.skills THEN readSlugs' = {} /\ readHere' = {}
                                       ELSE readSlugs' = readSlugs /\ readHere' = readHere
      BY <1>4, <2>2, <3>1 DEF SubmitTurn, ForgetReads
    <3>3. /\ \A s \in Skills : bundle.skills[s] > 0
          /\ bundle.asks = {s \in Skills : acknowledged[s] # bundle.skills[s]}
          /\ bundle.refresh <=> bundle.asks # {}
          /\ bundle.refresh /\ agentKind # "codex-app-server" => readHere \subseteq readSlugs
      BY <3>2 DEF BundleAsks
    <3>4. \A s \in Skills : onDisk[s] > 0
      BY <1>t, <3>3 DEF VersionsRise
    <3>5. StateOf(onDisk).asks = {s \in Skills : acknowledged[s] # onDisk[s]}
      BY <3>1, <3>4
    <3>6. BundleAsks'
      BY <1>k, <3>1, <3>2, <3>3, <3>4, <3>5 DEF BundleAsks
    <3>7. CASE onDisk # bundle.skills
      <4>1. readHere' = {} /\ (bundle'.refresh => bundle'.asks # {})
        BY <3>1, <3>2, <3>7
      <4>2. ReadSkillsAreNotAsked'
        BY <4>1 DEF ReadSkillsAreNotAsked
      <4> QED BY <3>6, <4>2
    <3>8. CASE onDisk = bundle.skills
      <4>1. /\ bundle'.asks = bundle.asks /\ (bundle'.refresh <=> bundle.refresh)
            /\ readHere' = readHere
        BY <3>1, <3>2, <3>3, <3>5, <3>8
      <4>2. ReadSkillsAreNotAsked'
        BY <1>k, <3>2, <4>1 DEF ReadSkillsAreNotAsked
      <4> QED BY <3>6, <4>2
    <3> QED BY <3>7, <3>8
  <2> QED BY <2>1, <2>2
<1>5. ASSUME NEW c \in ReadCalls, CountsRead(c), conversation' = conversation PROVE Post
  <2> DEFINE skill == skillCalls[c].skill
  <2>1. conversation = "turn"
    BY <1>5, SkillRecords DEF CountsRead, LoadsOfTurn
  <2>2. /\ \A s \in Skills : bundle.skills[s] > 0
        /\ bundle.asks = {s \in Skills : acknowledged[s] # bundle.skills[s]}
        /\ bundle.refresh <=> bundle.asks # {}
        /\ bundle.refresh /\ agentKind # "codex-app-server" => readHere \subseteq readSlugs
    BY <2>1 DEF BundleAsks
  <2>3. RecordRead(skill) /\ readHere' = readHere \cup {skill}
    BY <1>5 DEF CountsRead
  <2> HIDE DEF skill
  <2>4. CASE ~Records(skill)
    <3>1. UNCHANGED <<readSlugs, acknowledged, bundle>>
      BY <2>3, <2>4 DEF RecordRead
    <3> QED BY <1>k, <2>2, <2>4, <3>1 DEF Records, BundleAsks, ReadSkillsAreNotAsked
  <2>5. CASE Records(skill) /\ bundle.asks \subseteq readSlugs'
    <3>1. Ready(bundle)
      BY <2>2 DEF Ready
    <3>2. /\ acknowledged' = bundle.skills
          /\ bundle' = [bundle EXCEPT !.refresh = FALSE, !.asks = {}]
      BY <2>3, <2>5, <3>1 DEF RecordRead
    <3>3. bundle'.skills = bundle.skills /\ bundle'.refresh = FALSE /\ bundle'.asks = {}
      BY <1>t, <3>2 DEF SkillBundles
    <3> QED BY <2>2, <3>2, <3>3 DEF BundleAsks, ReadSkillsAreNotAsked
  <2>6. CASE Records(skill) /\ ~(bundle.asks \subseteq readSlugs')
    <3>1. readSlugs' = readSlugs \cup {skill} /\ UNCHANGED <<acknowledged, bundle>>
      BY <2>3, <2>6 DEF RecordRead
    <3>2. readHere' \subseteq readSlugs'
      BY <2>2, <2>3, <2>6, <3>1 DEF Records
    <3> QED BY <1>k, <2>2, <2>6, <3>1, <3>2 DEF Records, BundleAsks, ReadSkillsAreNotAsked
  <2> QED BY <2>4, <2>5, <2>6
<1>6. ASSUME NEW s \in Skills, Release(s) PROVE Post
  BY <1>1, <1>6 DEF Release
<1>7. ASSUME NEW some \in SUBSET Skills, InstallSkills(some) PROVE Post
  BY <1>1, <1>7 DEF InstallSkills
<1>8. ASSUME NEW c \in ReadCalls, NEW s \in Skills, BeginRead(c, s) PROVE Post
  BY <1>1, <1>8 DEF BeginRead
<1>9. ASSUME NEW c \in ReadCalls, LoadSkill(c) PROVE Post
  BY <1>1, <1>9 DEF LoadSkill
<1>10. ASSUME NEW c \in ReadCalls, NEW failed \in BOOLEAN, EndRead(c, failed) PROVE Post
  <2>1. CASE UNCHANGED <<acknowledged, bundle, readSlugs, readHere>>
    BY <1>1, <1>10, <2>1 DEF EndRead
  <2>2. CASE CountsRead(c)
    BY <1>5, <1>10, <2>2 DEF EndRead
  <2> QED BY <1>10, <2>1, <2>2 DEF EndRead, CountsRead
<1>11. ASSUME EndSkillTurn PROVE Post
  BY <1>1, <1>11 DEF EndSkillTurn
<1>12. ASSUME CloseConversation PROVE Post
  BY <1>2, <1>12 DEF CloseConversation
<1>13. ASSUME UNCHANGED skillVars PROVE Post
  BY <1>1, <1>13 DEF skillVars
<1> QED BY <1>3, <1>4, <1>6, <1>7, <1>8, <1>9, <1>10, <1>11, <1>12, <1>13 DEF SkillNext

\* A skill is taken for read only when the agent was given the version on disk,
\* and what it has read is not asked again, for any number of skills and of calls.
THEOREM ReadsCorrect == SkillSpec => []ReadsAreKnown
<1>1. SkillInv /\ [SkillNext]_skillVars => SkillInv'
  BY SkillTypesStep, VersionsRiseStep, LoadsOfTurnStep, ReadSinceTakenStep,
     AcknowledgedWasReadStep, BundleAsksStep DEF SkillInv, ReadsAreKnown
<1>2. SkillInv => ReadsAreKnown
  BY DEF SkillInv
<1> QED BY <1>1, <1>2, SkillInvInit, PTL DEF SkillSpec

-----------------------------------------------------------------------------
(* The home of the Studio agents.                                           *)

SetupPlaces == {"idle", "servers", "flowServer", "generalist", "pack", "clean",
                "router", "drop", "check"}
Wired == SUBSET {Legacy, Flow}
HomeSkills == SUBSET {"generalist", "flow", "nocode"}
SetupsAt == [at : SetupPlaces, holds : BOOLEAN, read : Wired, ok : BOOLEAN]

HomeTypes ==
  /\ homeKind \in {"codex", "claude"} /\ flowLoaded \in BOOLEAN
  /\ servers \in Wired /\ skillsIn \in HomeSkills
  /\ router \in {"none", "flow", "legacy"}
  /\ setup \in [HomeCalls -> SetupsAt]
  /\ setupAnswer \in {"none", "ready", "other"}
  /\ served \in BOOLEAN /\ steady \in {"no", "lone", "shared"}

\* only a patch of the file of Codex holds what it has read, and what it writes
\* back has the standard server of a home that had it
HoldsAPatch ==
  \A c \in HomeCalls :
    /\ setup[c].holds => homeKind = "codex" /\ setup[c].at \in DOMAIN Patching
    /\ setup[c].at \in {"flowServer", "pack", "clean"} => homeKind = "codex"
    /\ setup[c].holds /\ served => Legacy \in setup[c].read

\* what a setup has behind it is still there, since the Flow capability has not
\* changed under it
DoneStays ==
  steady # "no" => \A c \in HomeCalls :
    /\ setup[c].at \in {"flowServer", "pack"} => flowLoaded
    /\ setup[c].at = "clean" => ~flowLoaded
    /\ setup[c].at = "generalist" /\ setup[c].holds => "generalist" \in skillsIn
    /\ setup[c].at \in {"pack", "clean", "router", "drop", "check"} /\ setup[c].ok
         => "generalist" \in skillsIn
    /\ setup[c].at = "pack" /\ setup[c].holds => "flow" \in skillsIn
    /\ setup[c].at \in {"router", "drop", "check"} /\ setup[c].ok /\ flowLoaded
         => "flow" \in skillsIn
    /\ setup[c].at = "drop" \/ (setup[c].at = "check" /\ setup[c].ok)
         => router = IF flowLoaded THEN "flow" ELSE "legacy"

\* a lone setup writes back what is in the file, and what it has removed stays away
LoneRemoves ==
  steady = "lone" => \A c \in HomeCalls :
    /\ \A d \in HomeCalls : setup[c].at # "idle" /\ setup[d].at # "idle" => c = d
    /\ setup[c].holds => setup[c].read = servers
    /\ setup[c].at = "clean" /\ setup[c].holds => "flow" \notin skillsIn
    /\ setup[c].at \in {"router", "drop", "check"} /\ setup[c].ok
         /\ homeKind = "codex" /\ ~flowLoaded
         => "flow" \notin skillsIn /\ Flow \notin servers
    /\ setup[c].at = "check" /\ setup[c].ok => "nocode" \notin skillsIn

HomeInv == HomeTypes /\ HoldsAPatch /\ DoneStays /\ LoneRemoves /\ HomeIsReady

\* A step of a setup moves it, and no other.
LEMMA SetupProceeds ==
  ASSUME HomeTypes, NEW c \in HomeCalls, NEW there \in SetupPlaces, NEW isOk \in BOOLEAN,
         Proceed(c, there, isOk)
  PROVE  /\ setup' \in [HomeCalls -> SetupsAt]
         /\ setup'[c].at = there /\ setup'[c].ok = isOk
         /\ setup'[c].holds = setup[c].holds /\ setup'[c].read = setup[c].read
         /\ \A d \in HomeCalls : d # c => setup'[d] = setup[d]
<1> DEFINE moved == [setup[c] EXCEPT !.at = there, !.ok = isOk]
<1>1. setup' = [setup EXCEPT ![c] = moved]
  BY DEF Proceed, HomeTypes, SetupsAt
<1>2. moved \in SetupsAt
  BY DEF HomeTypes, SetupsAt
<1> HIDE DEF moved
<1>3. setup \in [HomeCalls -> SetupsAt]
  BY DEF HomeTypes
<1>4. /\ setup' \in [HomeCalls -> SetupsAt] /\ setup'[c] = moved
      /\ \A d \in HomeCalls : d # c => setup'[d] = setup[d]
  BY <1>1, <1>2, <1>3
<1>5. /\ moved.at = there /\ moved.ok = isOk
      /\ moved.holds = setup[c].holds /\ moved.read = setup[c].read
  BY <1>3 DEF moved, SetupsAt
<1>6. QED
  BY <1>4, <1>5

\* A patch is read and written back, and a setup that answers rests.
LEMMA SetupRecords ==
  ASSUME HomeTypes, NEW c \in HomeCalls
  PROVE  /\ RestingSetup \in SetupsAt
         /\ [setup[c] EXCEPT !.holds = TRUE, !.read = servers] \in SetupsAt
         /\ \A there \in SetupPlaces :
              [RestingSetup EXCEPT !.at = there, !.ok = setup[c].ok] \in SetupsAt
<1>1. setup[c] \in SetupsAt /\ servers \in Wired
  BY DEF HomeTypes
<1>2. "idle" \in SetupPlaces /\ {} \in Wired
  BY DEF SetupPlaces, Wired
<1>3. RestingSetup \in SetupsAt
  BY <1>2 DEF RestingSetup, SetupsAt
<1>4. QED
  BY <1>1, <1>2, <1>3 DEF RestingSetup, SetupsAt

\* Where a step of a setup leads, and what it leaves of the servers, is of its type.
LEMMA HomeTypesStep ==
  ASSUME HomeTypes, HoldsAPatch, NEW c \in HomeCalls, HomeSetupStep(c)
  PROVE  HomeTypes'
<1>1. setup \in [HomeCalls -> SetupsAt] /\ setup[c] \in SetupsAt
  BY DEF HomeTypes
<1>2. \A there \in SetupPlaces, isOk \in BOOLEAN :
        Proceed(c, there, isOk) => setup' \in [HomeCalls -> SetupsAt]
  BY SetupProceeds
<1>3. setup[c].at \in SetupPlaces /\ setup[c].read \in Wired /\ setup[c].ok \in BOOLEAN
  BY <1>1 DEF SetupsAt
<1>4. DOMAIN Patching = {"servers", "flowServer", "generalist", "pack", "clean"}
  BY DEF Patching
<1> USE DEF SetupPlaces
<1>5. CASE BeginSetup(c)
  BY <1>2, <1>5 DEF BeginSetup, HomeTypes
<1>6. CASE ReadConfig(c)
  <2>1. setup' = [setup EXCEPT ![c] = [setup[c] EXCEPT !.holds = TRUE, !.read = servers]]
    BY <1>1, <1>6 DEF ReadConfig, SetupsAt
  <2>2. setup' \in [HomeCalls -> SetupsAt]
    BY <1>1, <2>1, SetupRecords
  <2>3. skillsIn' \in HomeSkills
    BY <1>6 DEF ReadConfig, WithSkills, HomeTypes, HomeSkills
  <2>4. QED
    BY <1>6, <2>2, <2>3 DEF ReadConfig, placeVars, HomeTypes
<1>7. CASE RewriteConfig(c)
  <2>1. PICK there \in AfterPatch(setup[c].at) :
          setup' = [setup EXCEPT ![c] = [RestingSetup EXCEPT !.at = there, !.ok = setup[c].ok]]
    BY <1>7 DEF RewriteConfig
  <2>2. there \in SetupPlaces
    BY <2>1 DEF AfterPatch
  <2>3. setup' \in [HomeCalls -> SetupsAt]
    BY <1>1, <2>1, <2>2, SetupRecords
  <2>4. setup[c].at \in DOMAIN Patching
    BY <1>7 DEF RewriteConfig, HoldsAPatch
  <2>5. Patched(setup[c].at, setup[c].read) \in Wired
    BY <1>3, <1>4, <2>4 DEF Patched, Patching, Wired
  <2>6. servers' \in Wired
    BY <1>3, <1>7, <2>5 DEF RewriteConfig, Rewritten, HomeTypes
  <2>7. QED
    BY <1>7, <2>3, <2>6 DEF RewriteConfig, placeVars, HomeTypes
<1>8. CASE PatchFails(c)
  <2>1. PICK there \in SetupPlaces, isOk \in BOOLEAN : Proceed(c, there, isOk)
    BY <1>3, <1>8 DEF PatchFails, AfterPatch
  <2>2. QED
    BY <1>2, <1>8, <2>1 DEF PatchFails, placeVars, HomeTypes
<1>9. CASE WriteServers(c)
  BY <1>2, <1>9 DEF WriteServers, placeVars, HomeTypes, Wired
<1>10. CASE InstallClaude(c) \/ DropNoCode(c)
  <2>1. skillsIn' \in HomeSkills
    BY <1>10 DEF InstallClaude, DropNoCode, HomeTypes, HomeSkills
  <2>2. PICK isOk \in BOOLEAN : Proceed(c, "router", isOk) \/ Proceed(c, "check", isOk)
    BY <1>3, <1>10 DEF InstallClaude, DropNoCode
  <2>3. QED
    BY <1>2, <1>10, <2>1, <2>2 DEF InstallClaude, DropNoCode, placeVars, HomeTypes
<1>11. CASE WriteRouter(c)
  BY <1>2, <1>3, <1>11 DEF WriteRouter, placeVars, HomeTypes
<1>12. CASE CheckSetup(c) \/ PreflightAnswers(c)
  BY <1>1, <1>12, SetupRecords DEF CheckSetup, PreflightAnswers, AnswerSetup, placeVars, HomeTypes
<1>13. QED
  BY <1>5, <1>6, <1>7, <1>8, <1>9, <1>10, <1>11, <1>12 DEF HomeSetupStep

\* A failure to patch is told apart from what it was about.
LEMMA PatchFailure ==
  ASSUME HomeTypes, NEW c \in HomeCalls, PatchFails(c)
  PROVE  \E there \in SetupPlaces, isOk \in BOOLEAN :
           /\ Proceed(c, there, isOk)
           /\ there \in {"generalist", "pack", "clean", "router"}
           /\ there # "generalist" => ~isOk
           /\ there = "pack" => flowLoaded
           /\ there = "clean" => ~flowLoaded
<1>1. setup[c].ok \in BOOLEAN
  BY DEF HomeTypes, SetupsAt
<1>2. CASE setup[c].at \in {"servers", "flowServer"}
  BY <1>1, <1>2 DEF PatchFails, SetupPlaces
<1>3. CASE setup[c].at \notin {"servers", "flowServer"}
  <2>1. PICK there \in AfterPatch(setup[c].at) : Proceed(c, there, FALSE)
    BY <1>3 DEF PatchFails
  <2>2. QED
    BY <1>3, <2>1 DEF AfterPatch, SetupPlaces
<1>4. QED
  BY <1>2, <1>3

\* What a patch holds has the standard server, which nothing else takes away.
LEMMA HoldsAPatchStep ==
  ASSUME HomeTypes, HoldsAPatch, StandardServerStays, NEW c \in HomeCalls, HomeSetupStep(c)
  PROVE  HoldsAPatch'
<1>0. ASSUME NEW there \in SetupPlaces, NEW isOk \in BOOLEAN, Proceed(c, there, isOk)
      PROVE  /\ setup'[c].at = there /\ setup'[c].ok = isOk
             /\ setup'[c].holds = setup[c].holds /\ setup'[c].read = setup[c].read
             /\ \A d \in HomeCalls : d # c => setup'[d] = setup[d]
  BY <1>0, SetupProceeds
<1> USE DEF HomeTypes, SetupsAt, HoldsAPatch, StandardServerStays, Legacy, Flow
<1>1. CASE BeginSetup(c)
  <2>1. /\ ~setup[c].holds
        /\ setup'[c].at = "servers" /\ ~setup'[c].holds
        /\ \A d \in HomeCalls : d # c => setup'[d] = setup[d]
    BY <1>1, <1>0 DEF BeginSetup, AtStep, SetupPlaces
  <2>2. CASE NoSetup
    <3>1. \A d \in HomeCalls : setup[d].at = "idle" /\ ~setup[d].holds
      BY <2>2 DEF NoSetup, Patching
    <3>2. QED
      BY <1>1, <2>1, <3>1 DEF BeginSetup
  <2>3. CASE ~NoSetup
    BY <1>1, <2>1, <2>3 DEF BeginSetup
  <2>4. QED
    BY <2>2, <2>3
<1>2. CASE ReadConfig(c)
  BY <1>2 DEF ReadConfig, Patches, Patching, WithSkills, placeVars
<1>3. CASE RewriteConfig(c)
  BY <1>3 DEF RewriteConfig, AfterPatch, Rewritten, Patched, Patching, RestingSetup, placeVars
<1>4. CASE WriteServers(c)
  BY <1>4 DEF WriteServers, AtStep, Proceed, placeVars
<1>5. CASE InstallClaude(c)
  BY <1>5 DEF InstallClaude, AtStep, Proceed, placeVars
<1>6. CASE WriteRouter(c)
  BY <1>6 DEF WriteRouter, AtStep, Proceed, placeVars
<1>7. CASE DropNoCode(c)
  BY <1>7 DEF DropNoCode, AtStep, Proceed, placeVars
<1>8. CASE CheckSetup(c)
  BY <1>8 DEF CheckSetup, AtStep, AnswerSetup, ServersAreReady, SkillsAreReady, RestingSetup, placeVars
<1>9. CASE PreflightAnswers(c)
  BY <1>9 DEF PreflightAnswers, AtStep, AnswerSetup, RestingSetup, placeVars
<1>10. CASE PatchFails(c)
  <2>1. PICK there \in SetupPlaces, isOk \in BOOLEAN :
          /\ Proceed(c, there, isOk)
          /\ there \in {"generalist", "pack", "clean", "router"}
          /\ there # "generalist" => ~isOk
          /\ there = "pack" => flowLoaded
          /\ there = "clean" => ~flowLoaded
    BY <1>10, PatchFailure
  <2>2. UNCHANGED <<placeVars, servers, skillsIn, router, setupAnswer>> /\ Patches(c)
    BY <1>10 DEF PatchFails
  <2>3. /\ setup'[c].at = there /\ setup'[c].ok = isOk
        /\ setup'[c].holds = setup[c].holds /\ setup'[c].read = setup[c].read
        /\ \A d \in HomeCalls : d # c => setup'[d] = setup[d]
    BY <1>0, <2>1
  <2>4. QED
    BY <2>1, <2>2, <2>3 DEF Patches, Patching, placeVars
<1>11. QED
  BY <1>1, <1>2, <1>3, <1>4, <1>5, <1>6, <1>7, <1>8, <1>9, <1>10 DEF HomeSetupStep

\* No step of a setup undoes what another has behind it.
LEMMA DoneStaysStep ==
  ASSUME HomeTypes, HoldsAPatch, DoneStays, NEW c \in HomeCalls, HomeSetupStep(c)
  PROVE  DoneStays'
<1>0. ASSUME NEW there \in SetupPlaces, NEW isOk \in BOOLEAN, Proceed(c, there, isOk)
      PROVE  /\ setup'[c].at = there /\ setup'[c].ok = isOk
             /\ setup'[c].holds = setup[c].holds /\ setup'[c].read = setup[c].read
             /\ \A d \in HomeCalls : d # c => setup'[d] = setup[d]
  BY <1>0, SetupProceeds
<1> USE DEF HomeTypes, SetupsAt, HoldsAPatch, DoneStays
<1>1. CASE BeginSetup(c)
  <2>1. /\ ~setup[c].holds
        /\ setup'[c].at = "servers" /\ ~setup'[c].holds
        /\ \A d \in HomeCalls : d # c => setup'[d] = setup[d]
    BY <1>1, <1>0 DEF BeginSetup, AtStep, SetupPlaces
  <2>2. CASE NoSetup
    <3>1. \A d \in HomeCalls : setup[d].at = "idle" /\ ~setup[d].holds
      BY <2>2 DEF NoSetup, Patching
    <3>2. QED
      BY <1>1, <2>1, <3>1 DEF BeginSetup
  <2>3. CASE ~NoSetup
    BY <1>1, <2>1, <2>3 DEF BeginSetup
  <2>4. QED
    BY <2>2, <2>3
<1>2. CASE ReadConfig(c)
  BY <1>2 DEF ReadConfig, Patches, Patching, WithSkills, placeVars
<1>3. CASE RewriteConfig(c)
  BY <1>3 DEF RewriteConfig, AfterPatch, Rewritten, Patched, Patching, RestingSetup, placeVars
<1>4. CASE WriteServers(c)
  BY <1>4 DEF WriteServers, AtStep, Proceed, placeVars
<1>5. CASE InstallClaude(c)
  BY <1>5 DEF InstallClaude, AtStep, Proceed, placeVars
<1>6. CASE WriteRouter(c)
  BY <1>6 DEF WriteRouter, AtStep, Proceed, placeVars
<1>7. CASE DropNoCode(c)
  BY <1>7 DEF DropNoCode, AtStep, Proceed, placeVars
<1>8. CASE CheckSetup(c)
  BY <1>8 DEF CheckSetup, AtStep, AnswerSetup, ServersAreReady, SkillsAreReady, RestingSetup, placeVars
<1>9. CASE PreflightAnswers(c)
  BY <1>9 DEF PreflightAnswers, AtStep, AnswerSetup, RestingSetup, placeVars
<1>10. CASE PatchFails(c)
  <2>1. PICK there \in SetupPlaces, isOk \in BOOLEAN :
          /\ Proceed(c, there, isOk)
          /\ there \in {"generalist", "pack", "clean", "router"}
          /\ there # "generalist" => ~isOk
          /\ there = "pack" => flowLoaded
          /\ there = "clean" => ~flowLoaded
    BY <1>10, PatchFailure
  <2>2. UNCHANGED <<placeVars, servers, skillsIn, router, setupAnswer>> /\ Patches(c)
    BY <1>10 DEF PatchFails
  <2>3. /\ setup'[c].at = there /\ setup'[c].ok = isOk
        /\ setup'[c].holds = setup[c].holds /\ setup'[c].read = setup[c].read
        /\ \A d \in HomeCalls : d # c => setup'[d] = setup[d]
    BY <1>0, <2>1
  <2>4. QED
    BY <2>1, <2>2, <2>3 DEF Patches, Patching, placeVars
<1>11. QED
  BY <1>1, <1>2, <1>3, <1>4, <1>5, <1>6, <1>7, <1>8, <1>9, <1>10 DEF HomeSetupStep

\* What a lone setup has removed is not brought back.
LEMMA LoneRemovesStep ==
  ASSUME HomeTypes, HoldsAPatch, LoneRemoves, DoneStays, NEW c \in HomeCalls, HomeSetupStep(c)
  PROVE  LoneRemoves'
<1>0. ASSUME NEW there \in SetupPlaces, NEW isOk \in BOOLEAN, Proceed(c, there, isOk)
      PROVE  /\ setup'[c].at = there /\ setup'[c].ok = isOk
             /\ setup'[c].holds = setup[c].holds /\ setup'[c].read = setup[c].read
             /\ \A d \in HomeCalls : d # c => setup'[d] = setup[d]
  BY <1>0, SetupProceeds
<1> USE DEF HomeTypes, SetupsAt, HoldsAPatch, LoneRemoves, DoneStays, Legacy, Flow
<1>1. CASE BeginSetup(c)
  <2>1. /\ ~setup[c].holds
        /\ setup'[c].at = "servers" /\ ~setup'[c].holds
        /\ \A d \in HomeCalls : d # c => setup'[d] = setup[d]
    BY <1>1, <1>0 DEF BeginSetup, AtStep, SetupPlaces
  <2>2. CASE NoSetup
    <3>1. \A d \in HomeCalls : setup[d].at = "idle" /\ ~setup[d].holds
      BY <2>2 DEF NoSetup, Patching
    <3>2. QED
      BY <1>1, <2>1, <3>1 DEF BeginSetup
  <2>3. CASE ~NoSetup
    BY <1>1, <2>1, <2>3 DEF BeginSetup
  <2>4. QED
    BY <2>2, <2>3
<1>2. CASE ReadConfig(c)
  BY <1>2 DEF ReadConfig, Patches, Patching, WithSkills, placeVars
<1>3. CASE RewriteConfig(c)
  BY <1>3 DEF RewriteConfig, AfterPatch, Rewritten, Patched, Patching, RestingSetup, placeVars
<1>4. CASE WriteServers(c)
  BY <1>4 DEF WriteServers, AtStep, Proceed, placeVars
<1>5. CASE InstallClaude(c)
  BY <1>5 DEF InstallClaude, AtStep, Proceed, placeVars
<1>6. CASE WriteRouter(c)
  BY <1>6 DEF WriteRouter, AtStep, Proceed, placeVars
<1>7. CASE DropNoCode(c)
  BY <1>7 DEF DropNoCode, AtStep, Proceed, placeVars
<1>8. CASE CheckSetup(c)
  BY <1>8 DEF CheckSetup, AtStep, AnswerSetup, ServersAreReady, SkillsAreReady, RestingSetup, placeVars
<1>9. CASE PreflightAnswers(c)
  BY <1>9 DEF PreflightAnswers, AtStep, AnswerSetup, RestingSetup, placeVars
<1>10. CASE PatchFails(c)
  <2>1. PICK there \in SetupPlaces, isOk \in BOOLEAN :
          /\ Proceed(c, there, isOk)
          /\ there \in {"generalist", "pack", "clean", "router"}
          /\ there # "generalist" => ~isOk
          /\ there = "pack" => flowLoaded
          /\ there = "clean" => ~flowLoaded
    BY <1>10, PatchFailure
  <2>2. UNCHANGED <<placeVars, servers, skillsIn, router, setupAnswer>> /\ Patches(c)
    BY <1>10 DEF PatchFails
  <2>3. /\ setup'[c].at = there /\ setup'[c].ok = isOk
        /\ setup'[c].holds = setup[c].holds /\ setup'[c].read = setup[c].read
        /\ \A d \in HomeCalls : d # c => setup'[d] = setup[d]
    BY <1>0, <2>1
  <2>4. QED
    BY <2>1, <2>2, <2>3 DEF Patches, Patching, placeVars
<1>11. QED
  BY <1>1, <1>2, <1>3, <1>4, <1>5, <1>6, <1>7, <1>8, <1>9, <1>10 DEF HomeSetupStep

\* The last of the setups that answers ready has checked the home.
LEMMA HomeIsReadyStep ==
  ASSUME HomeInv, NEW c \in HomeCalls, HomeSetupStep(c)
  PROVE  HomeIsReady'
<1>0. ASSUME NEW there \in SetupPlaces, NEW isOk \in BOOLEAN, Proceed(c, there, isOk)
      PROVE  /\ setup'[c].at = there /\ setup'[c].ok = isOk
             /\ setup'[c].holds = setup[c].holds /\ setup'[c].read = setup[c].read
             /\ \A d \in HomeCalls : d # c => setup'[d] = setup[d]
  BY <1>0, SetupProceeds DEF HomeInv
<1> USE DEF HomeInv, HomeTypes, SetupsAt, HoldsAPatch, LoneRemoves, DoneStays, HomeIsReady, StandardServerStays, ReadyHomeIsComplete, ReadyHomeIsClean, NoSetup, Legacy, Flow
<1>1. CASE BeginSetup(c)
  <2>1. /\ ~setup[c].holds
        /\ setup'[c].at = "servers" /\ ~setup'[c].holds
        /\ \A d \in HomeCalls : d # c => setup'[d] = setup[d]
    BY <1>1, <1>0 DEF BeginSetup, AtStep, SetupPlaces
  <2>2. CASE NoSetup
    <3>1. \A d \in HomeCalls : setup[d].at = "idle" /\ ~setup[d].holds
      BY <2>2 DEF NoSetup, Patching
    <3>2. QED
      BY <1>1, <2>1, <3>1 DEF BeginSetup
  <2>3. CASE ~NoSetup
    BY <1>1, <2>1, <2>3 DEF BeginSetup
  <2>4. QED
    BY <2>2, <2>3
<1>2. CASE ReadConfig(c)
  BY <1>2 DEF ReadConfig, Patches, Patching, WithSkills, placeVars
<1>3. CASE RewriteConfig(c)
  BY <1>3 DEF RewriteConfig, AfterPatch, Rewritten, Patched, Patching, RestingSetup, placeVars
<1>4. CASE WriteServers(c)
  BY <1>4 DEF WriteServers, AtStep, Proceed, placeVars
<1>5. CASE InstallClaude(c)
  BY <1>5 DEF InstallClaude, AtStep, Proceed, placeVars
<1>6. CASE WriteRouter(c)
  BY <1>6 DEF WriteRouter, AtStep, Proceed, placeVars
<1>7. CASE DropNoCode(c)
  BY <1>7 DEF DropNoCode, AtStep, Proceed, placeVars
<1>8. CASE CheckSetup(c)
  BY <1>8 DEF CheckSetup, AtStep, AnswerSetup, ServersAreReady, SkillsAreReady, RestingSetup, placeVars
<1>9. CASE PreflightAnswers(c)
  BY <1>9 DEF PreflightAnswers, AtStep, AnswerSetup, RestingSetup, placeVars
<1>10. CASE PatchFails(c)
  <2>1. PICK there \in SetupPlaces, isOk \in BOOLEAN :
          /\ Proceed(c, there, isOk)
          /\ there \in {"generalist", "pack", "clean", "router"}
          /\ there # "generalist" => ~isOk
          /\ there = "pack" => flowLoaded
          /\ there = "clean" => ~flowLoaded
    BY <1>10, PatchFailure
  <2>2. UNCHANGED <<placeVars, servers, skillsIn, router, setupAnswer>> /\ Patches(c)
    BY <1>10 DEF PatchFails
  <2>3. /\ setup'[c].at = there /\ setup'[c].ok = isOk
        /\ setup'[c].holds = setup[c].holds /\ setup'[c].read = setup[c].read
        /\ \A d \in HomeCalls : d # c => setup'[d] = setup[d]
    BY <1>0, <2>1
  <2>4. QED
    BY <2>1, <2>2, <2>3 DEF Patches, Patching, placeVars
<1>11. QED
  BY <1>1, <1>2, <1>3, <1>4, <1>5, <1>6, <1>7, <1>8, <1>9, <1>10 DEF HomeSetupStep

\* A home begins without servers, and with no skill but perhaps that of NoCode.
LEMMA HomeInvInit == HomeSetupInit => HomeInv
<1> SUFFICES ASSUME HomeSetupInit PROVE HomeInv
  OBVIOUS
<1>1. RestingSetup \in SetupsAt /\ ~RestingSetup.holds /\ RestingSetup.at = "idle"
  BY DEF RestingSetup, SetupsAt, SetupPlaces, Wired
<1>2. \A c \in HomeCalls : setup[c] = RestingSetup
  BY DEF HomeSetupInit
<1>3. HomeTypes
  BY <1>1 DEF HomeSetupInit, HomeTypes, Wired, HomeSkills
<1>4. HoldsAPatch /\ DoneStays /\ LoneRemoves
  BY <1>1, <1>2 DEF HomeSetupInit, HoldsAPatch, DoneStays, LoneRemoves
<1>5. HomeIsReady
  BY DEF HomeSetupInit, HomeIsReady, ReadyHomeIsComplete, ReadyHomeIsClean, StandardServerStays
<1>6. QED
  BY <1>3, <1>4, <1>5 DEF HomeInv

\* What the Flow capability does, or a stop of the engine, ends every promise but
\* that of the standard server.
LEMMA HomeInvDisturbed ==
  ASSUME HomeInv, FlowComesOrGoes \/ StopSetups
  PROVE  HomeInv'
<1> USE DEF HomeInv, HomeTypes, HoldsAPatch, DoneStays, LoneRemoves, HomeIsReady,
            ReadyHomeIsComplete, ReadyHomeIsClean, StandardServerStays
<1>1. CASE FlowComesOrGoes
  BY <1>1 DEF FlowComesOrGoes
<1>2. CASE StopSetups
  <2>1. RestingSetup \in SetupsAt /\ ~RestingSetup.holds /\ RestingSetup.at = "idle"
    BY DEF RestingSetup, SetupsAt, SetupPlaces, Wired
  <2>2. \A c \in HomeCalls : setup'[c] = RestingSetup
    BY <1>2 DEF StopSetups
  <2>3. QED
    BY <1>2, <2>1, <2>2 DEF StopSetups
<1>3. QED
  BY <1>1, <1>2

\* A home has what its agents are sent to, and a lone setup leaves it nothing else,
\* for every number of overlapping setups of codexSetup and claudeSetup.
THEOREM HomeCorrect == HomeSetupSpec => []HomeIsReady
<1>1. HomeInv /\ [HomeSetupNext]_homeSetupVars => HomeInv'
  <2> SUFFICES ASSUME HomeInv, [HomeSetupNext]_homeSetupVars PROVE HomeInv'
    OBVIOUS
  <2>1. ASSUME NEW c \in HomeCalls, HomeSetupStep(c) PROVE HomeInv'
    <3>1. HomeTypes /\ HoldsAPatch /\ DoneStays /\ LoneRemoves /\ StandardServerStays
      BY DEF HomeInv, HomeIsReady
    <3>2. HomeTypes' /\ HoldsAPatch' /\ DoneStays' /\ LoneRemoves' /\ HomeIsReady'
      BY <2>1, <3>1, HomeTypesStep, HoldsAPatchStep, DoneStaysStep, LoneRemovesStep,
         HomeIsReadyStep
    <3>3. QED
      BY <3>2 DEF HomeInv
  <2>2. CASE UNCHANGED homeSetupVars
    BY <2>2 DEF homeSetupVars, HomeInv, HomeTypes, HoldsAPatch, DoneStays, LoneRemoves,
      HomeIsReady, ReadyHomeIsComplete, ReadyHomeIsClean, StandardServerStays, NoSetup
  <2>3. QED
    BY <2>1, <2>2, HomeInvDisturbed DEF HomeSetupNext
<1>2. HomeInv => HomeIsReady
  BY DEF HomeInv
<1>3. QED
  BY <1>1, <1>2, HomeInvInit, PTL DEF HomeSetupSpec

-----------------------------------------------------------------------------
(* The leases of the viewer debug ports.                                    *)

Leases == [port : Nat, old : BOOLEAN]
Askings == [on : BOOLEAN, taken : SUBSET ViewerPorts, raced : BOOLEAN]

\* Leases, and what a call has read of them, keep their types.
LeaseTypes ==
  /\ basePort \in [Leasers -> ViewerPorts]
  /\ leaseOf \in [Leasers -> Leases]
  /\ asking \in [Leasers -> Askings]

\* A call that no other has crossed knows every port that the others lease.
TakenIsKnown ==
  \A c \in Leasers : asking[c].on /\ ~asking[c].raced => LeasedByOthers(c) \subseteq asking[c].taken

LeaseInv == LeaseTypes /\ TakenIsKnown

\* The port that is found is in use nowhere and leased to nobody.
LEMMA FoundIsFree ==
  ASSUME LeaseTypes, NEW c \in Leasers, NEW busy \in SUBSET ViewerPorts,
         FirstFree(c, busy) # PortCount
  PROVE  FirstFree(c, busy) \in ViewerPorts \ (asking[c].taken \cup busy)
<1> DEFINE Candidate(k) == (basePort[c] + k) % PortCount
           free == {k \in ViewerPorts : Candidate(k) \notin asking[c].taken \cup busy}
           first == CHOOSE k \in free : \A n \in free : k <= n
<1>1. FirstFree(c, busy) = IF free = {} THEN PortCount ELSE Candidate(first)
  BY DEF FirstFree
<1>2. free # {} /\ free \in SUBSET Nat
  BY <1>1 DEF ViewerPorts
<1>3. first \in free
  <2> HIDE DEF free
  <2>1. \E k \in free : \A n \in free : k <= n
    BY <1>2, LeastMember
  <2>2. QED
    BY <2>1
<1>4. basePort[c] \in Nat /\ first \in Nat /\ PortCount \in Nat \ {0}
  BY <1>2, <1>3, PortAssumption DEF LeaseTypes, ViewerPorts
<1>5. Candidate(first) \in ViewerPorts
  <2> HIDE DEF first, free
  <2>1. \A m \in Nat : m % PortCount \in 0 .. (PortCount - 1)
    BY <1>4
  <2>2. basePort[c] + first \in Nat
    BY <1>4
  <2>3. QED
    BY <2>1, <2>2 DEF ViewerPorts
<1>6. Candidate(first) \notin asking[c].taken \cup busy
  <2> HIDE DEF first
  <2>1. QED
    BY <1>3
<1>7. QED
  BY <1>1, <1>2, <1>5, <1>6

\* The others' ports become fewer when leases are only dropped.
LEMMA PortsShrink ==
  ASSUME UNCHANGED asking, TakenIsKnown,
         \A d \in Leasers : leaseOf'[d].port \in {leaseOf[d].port, PortCount}
  PROVE  TakenIsKnown'
<1>1. \A c \in Leasers : LeasedByOthers(c)' \subseteq LeasedByOthers(c)
  <2> SUFFICES ASSUME NEW c \in Leasers, NEW d \in Leasers \ {c},
                      leaseOf'[d].port \in ViewerPorts
               PROVE  leaseOf'[d].port \in LeasedByOthers(c)
    BY DEF LeasedByOthers
  <2>1. PortCount \notin ViewerPorts
    BY PortAssumption DEF ViewerPorts
  <2>2. QED
    BY <2>1 DEF LeasedByOthers
<1>2. QED
  BY <1>1 DEF TakenIsKnown

\* The records that the steps write are leases and askings.
LEMMA LeaseRecords ==
  /\ NoLease \in Leases /\ NotAsking \in Askings
  /\ NoLease.port = PortCount /\ ~NotAsking.on
  /\ \A p \in ViewerPorts : [port |-> p, old |-> FALSE] \in Leases
  /\ \A c : [on |-> TRUE, taken |-> LeasedByOthers(c), raced |-> FALSE] \in Askings
<1>1. PortCount \in Nat /\ ViewerPorts \subseteq Nat
  BY PortAssumption DEF ViewerPorts
<1>2. \A c : LeasedByOthers(c) \in SUBSET ViewerPorts
  BY DEF LeasedByOthers
<1>3. QED
  BY <1>1, <1>2 DEF NoLease, NotAsking, Leases, Askings

\* A lease that is written races every other call.
LEMMA WrittenRaces ==
  ASSUME LeaseTypes, NEW c \in Leasers
  PROVE  /\ Written(c) \in [Leasers -> Askings]
         /\ Written(c)[c] = NotAsking
         /\ \A d \in Leasers : d # c => /\ Written(c)[d].on = asking[d].on
                                        /\ asking[d].on => Written(c)[d].raced
<1>1. \A d \in Leasers : asking[d] \in Askings
  BY DEF LeaseTypes
<1>2. \A d \in Leasers : [asking[d] EXCEPT !.raced = asking[d].on] \in Askings
  BY <1>1 DEF Askings
<1>3. Written(c) \in [Leasers -> Askings]
  BY <1>2, LeaseRecords DEF Written
<1>4. \A d \in Leasers : d # c => Written(c)[d] = [asking[d] EXCEPT !.raced = asking[d].on]
  BY DEF Written
<1>5. QED
  BY <1>1, <1>3, <1>4 DEF Written, Askings

\* A call that is granted a port keeps its own lease or writes one.
LEMMA PortIsGranted ==
  ASSUME LeaseInv, NEW c \in Leasers, GrantPort(c)
  PROVE  /\ LeaseInv'
         /\ \A d \in Leasers : d # c => asking'[d].on = asking[d].on
         /\ ~asking[c].raced /\ leaseOf'[c] # NoLease =>
              \/ \A d \in Leasers \ {c} : leaseOf'[d].port # leaseOf'[c].port
              \/ leaseOf' = leaseOf /\ ~OwnLeaseHolds(c)
<1>1. LeaseTypes /\ TakenIsKnown /\ asking[c].on
  BY DEF LeaseInv, GrantPort
<1>2. ASSUME ~asking[c].raced
      PROVE  \A d \in Leasers \ {c} :
               leaseOf[d].port \in asking[c].taken \/ leaseOf[d].port \notin ViewerPorts
  BY <1>1, <1>2 DEF TakenIsKnown, LeasedByOthers
<1>3. CASE asking' = [asking EXCEPT ![c] = NotAsking] /\ UNCHANGED leaseOf
  <2>1. asking' \in [Leasers -> Askings] /\ ~asking'[c].on
        /\ \A d \in Leasers : d # c => asking'[d] = asking[d]
    BY <1>1, <1>3, LeaseRecords DEF LeaseTypes
  <2>2. LeaseInv'
    BY <1>1, <1>3, <2>1 DEF LeaseInv, LeaseTypes, TakenIsKnown, LeasedByOthers, GrantPort
  <2>3. ~asking[c].raced /\ OwnLeaseHolds(c) =>
          \A d \in Leasers \ {c} : leaseOf[d].port # leaseOf[c].port
    BY <1>2 DEF OwnLeaseHolds
  <2>4. QED
    BY <1>3, <2>1, <2>2, <2>3
<1>4. CASE ~(asking' = [asking EXCEPT ![c] = NotAsking] /\ UNCHANGED leaseOf)
  <2>1. PICK busy \in SUBSET ViewerPorts :
          /\ FirstFree(c, busy) # PortCount
          /\ leaseOf' = [leaseOf EXCEPT ![c] = [port |-> FirstFree(c, busy), old |-> FALSE]]
          /\ asking' = Written(c)
    BY <1>4 DEF GrantPort
  <2> DEFINE port == FirstFree(c, busy)
  <2>2. port \in ViewerPorts /\ port \notin asking[c].taken
    BY <1>1, <2>1, FoundIsFree
  <2> HIDE DEF port
  <2>3. leaseOf' = [leaseOf EXCEPT ![c] = [port |-> port, old |-> FALSE]]
    BY <2>1 DEF port
  <2>4. leaseOf' \in [Leasers -> Leases] /\ leaseOf'[c].port = port
        /\ \A d \in Leasers : d # c => leaseOf'[d] = leaseOf[d]
    BY <1>1, <2>2, <2>3, LeaseRecords DEF LeaseTypes
  <2>5. /\ asking' \in [Leasers -> Askings] /\ asking'[c] = NotAsking
        /\ \A d \in Leasers : d # c => /\ asking'[d].on = asking[d].on
                                       /\ asking[d].on => asking'[d].raced
    BY <1>1, <2>1, WrittenRaces
  <2>6. LeaseTypes'
    BY <1>1, <2>4, <2>5 DEF GrantPort, LeaseTypes
  <2>7. TakenIsKnown'
    BY <2>5, LeaseRecords DEF TakenIsKnown
  <2>8. ~asking[c].raced => \A d \in Leasers \ {c} : leaseOf'[d].port # leaseOf'[c].port
    BY <1>2, <2>2, <2>4
  <2>9. QED
    BY <2>5, <2>6, <2>7, <2>8 DEF LeaseInv
<1>5. QED
  BY <1>3, <1>4

\* No other step ends a call or writes a lease.
LEMMA LeaseSteps ==
  ASSUME LeaseInv, LeaseNext, \A c \in Leasers : ~GrantPort(c)
  PROVE  LeaseInv' /\ \A d \in Leasers : asking[d].on => asking'[d].on
<1>1. LeaseTypes /\ TakenIsKnown
  BY DEF LeaseInv
<1>2. ASSUME NEW c \in Leasers, AskPort(c)
      PROVE  LeaseInv' /\ \A d \in Leasers : asking[d].on => asking'[d].on
  <2> DEFINE asked == [on |-> TRUE, taken |-> LeasedByOthers(c), raced |-> FALSE]
  <2>1. asked \in Askings /\ asked.on /\ asked.taken = LeasedByOthers(c)
    BY LeaseRecords
  <2> HIDE DEF asked
  <2>2. asking' = [asking EXCEPT ![c] = asked] /\ UNCHANGED <<basePort, leaseOf>>
    BY <1>2 DEF AskPort, asked
  <2>3. asking' \in [Leasers -> Askings] /\ asking'[c] = asked
        /\ \A d \in Leasers : d # c => asking'[d] = asking[d]
    BY <1>1, <2>1, <2>2 DEF LeaseTypes
  <2>4. QED
    BY <1>1, <2>1, <2>2, <2>3 DEF LeaseInv, LeaseTypes, TakenIsKnown, LeasedByOthers
<1>3. ASSUME NEW c \in Leasers, CleanLease(c) \/ SweepLease(c)
      PROVE  LeaseInv' /\ UNCHANGED asking
  <2>1. leaseOf' = [leaseOf EXCEPT ![c] = NoLease] /\ UNCHANGED <<basePort, asking>>
    BY <1>3 DEF CleanLease, SweepLease
  <2>2. leaseOf' \in [Leasers -> Leases]
        /\ \A d \in Leasers : leaseOf'[d].port \in {leaseOf[d].port, PortCount}
    BY <1>1, <2>1, LeaseRecords DEF LeaseTypes
  <2>3. QED
    BY <1>1, <2>1, <2>2, PortsShrink DEF LeaseInv, LeaseTypes
<1>4. CASE LeasesAge
  <2>1. \A d \in Leasers : /\ [leaseOf[d] EXCEPT !.old = TRUE] \in Leases
                           /\ [leaseOf[d] EXCEPT !.old = TRUE].port = leaseOf[d].port
    BY <1>1 DEF LeaseTypes, Leases
  <2>2. leaseOf' \in [Leasers -> Leases]
        /\ \A d \in Leasers : leaseOf'[d].port \in {leaseOf[d].port, PortCount}
    BY <1>4, <2>1, LeaseRecords DEF LeasesAge
  <2>3. UNCHANGED <<basePort, asking>>
    BY <1>4 DEF LeasesAge
  <2>4. QED
    BY <1>1, <2>2, <2>3, PortsShrink DEF LeaseInv, LeaseTypes
<1>5. CASE UNCHANGED <<basePort, leaseOf, asking>>
  BY <1>1, <1>5 DEF LeaseInv, LeaseTypes, TakenIsKnown, LeasedByOthers
<1>6. QED
  BY <1>2, <1>3, <1>4, <1>5 DEF LeaseNext, BecomeKnown, BecomeUnknown, BeginLeaseSweep,
     EndLeaseSweep

\* A call that no other crosses answers a port that no other conversation leases, for
\* every number of conversations and ports (ensureManagedViewerDebugPort).
THEOREM LeasesCorrect == LeaseSpec => QuietCallIsAlone
<1>1. LeaseInit => LeaseInv
  <2> SUFFICES ASSUME LeaseInit PROVE LeaseInv
    OBVIOUS
  <2>1. LeaseTypes
    BY LeaseRecords DEF LeaseInit, LeaseTypes
  <2>2. \A c \in Leasers : ~asking[c].on
    BY LeaseRecords DEF LeaseInit
  <2>3. QED
    BY <2>1, <2>2 DEF LeaseInv, TakenIsKnown
<1>2. LeaseInv /\ [LeaseNext]_leaseVars => LeaseInv'
  <2>1. LeaseInv /\ UNCHANGED leaseVars => LeaseInv'
    BY DEF LeaseInv, LeaseTypes, TakenIsKnown, LeasedByOthers, leaseVars
  <2>2. QED
    BY <2>1, PortIsGranted, LeaseSteps
<1>3. LeaseInv /\ [LeaseNext]_leaseVars =>
        [\A c \in Leasers :
           asking[c].on /\ ~asking'[c].on /\ ~asking[c].raced /\ leaseOf'[c] # NoLease
           => \/ \A d \in Leasers \ {c} : leaseOf'[d].port # leaseOf'[c].port
              \/ leaseOf' = leaseOf /\ ~OwnLeaseHolds(c)]_leaseVars
  <2> SUFFICES ASSUME LeaseInv, LeaseNext, NEW c \in Leasers,
                      asking[c].on, ~asking'[c].on, ~asking[c].raced, leaseOf'[c] # NoLease
               PROVE  \/ \A d \in Leasers \ {c} : leaseOf'[d].port # leaseOf'[c].port
                      \/ leaseOf' = leaseOf /\ ~OwnLeaseHolds(c)
    OBVIOUS
  <2>1. GrantPort(c)
    BY PortIsGranted, LeaseSteps
  <2>2. QED
    BY <2>1, PortIsGranted
<1>4. QED
  BY <1>1, <1>2, <1>3, PTL DEF LeaseSpec, QuietCallIsAlone

-----------------------------------------------------------------------------
(* The homes on disk.                                                       *)

Sweeps == [at : {"idle", "pids", "homes"}, kept : SUBSET StoredHomes,
           todo : SUBSET StoredHomes, stale : Conversations \cup {NoConversation},
           tombs : SUBSET Conversations, since : SUBSET Conversations]

StorageTypes ==
  /\ record \in [Conversations -> {"none", "active", "deleted", "expired"}]
  /\ sessionHome \in [Conversations -> StoredHomes]
  /\ storedHome \in [StoredHomes -> {"none", "new", "old"}]
  /\ agentOf \in [Conversations -> {"down", "owned", "orphan"}]
  /\ pidKnown \subseteq Conversations /\ startOf \subseteq Conversations
  /\ sweeping \in Sweeps
  /\ cleaning \in [Conversations -> {"idle", "homes", "raced", "clean", "unnamed"}]
  /\ sweepDue \in BOOLEAN /\ lost \subseteq Conversations

\* a session lies in the home of its conversation or in a legacy one
SessionsAtHome == \A c \in Conversations : sessionHome[c] \in {c} \cup LegacyHomes

\* an agent that no PID file tells had its file taken by the sweep
FilesTell ==
  /\ \A c \in Conversations : agentOf[c] # "down" /\ c \notin pidKnown => c \in lost
  /\ \A c \in startOf : agentOf[c] # "owned"

\* a cleanup that no start has crossed stopped what it could stop
CleanupStops ==
  \A c \in Conversations : cleaning[c] \in {"homes"} \cup Cleaned =>
    /\ c \notin startOf /\ c \notin pidKnown
    /\ agentOf[c] = "down" \/ c \in lost

\* the sweep keeps what was in use when it began, and has yet to read a PID file
\* that tells of an orphan
SweepKeeps ==
  sweeping.at # "idle" =>
    /\ startOf \subseteq sweeping.since
    /\ \A c \in Conversations \ sweeping.since :
         /\ record[c] = "active" => c \in sweeping.kept /\ sessionHome[c] \in sweeping.kept
         /\ agentOf[c] = "owned" => c \in sweeping.kept
         /\ agentOf[c] = "orphan" /\ c \in pidKnown =>
              c \in sweeping.kept \/ (sweeping.at = "pids" /\ c \in sweeping.todo)

StorageInv ==
  /\ StorageTypes /\ SessionsAtHome /\ FilesTell /\ CleanupStops /\ SweepKeeps
  /\ CleanedLeavesNothing

\* Every step keeps the types.
LEMMA StorageTypesStep ==
  ASSUME StorageTypes, StorageNext
  PROVE  StorageTypes'
<1> USE DEF StorageTypes, Sweeps, StoredHomes, Cleaned
<1>1. ASSUME NEW c \in Conversations, RecordConversation(c) PROVE StorageTypes'
  BY <1>1, HomeNames DEF RecordConversation, Meanwhile
<1>2. ASSUME NEW c \in Conversations, MarkDeleted(c) PROVE StorageTypes'
  BY <1>2, HomeNames DEF MarkDeleted
<1>3. ASSUME NEW c \in Conversations, StartHome(c) PROVE StorageTypes'
  BY <1>3, HomeNames DEF StartHome, Meanwhile
<1>4. ASSUME NEW c \in Conversations, SpawnInHome(c) PROVE StorageTypes'
  BY <1>4, HomeNames DEF SpawnInHome
<1>5. ASSUME NEW c \in Conversations, AgentEnds(c) PROVE StorageTypes'
  BY <1>5, HomeNames DEF AgentEnds
<1>6. ASSUME NEW c \in Conversations, ReadPidFile(c) PROVE StorageTypes'
  <2>1. /\ [sweeping EXCEPT !.todo = @ \ {c}, !.kept = @ \cup {c}] \in Sweeps
        /\ [sweeping EXCEPT !.todo = @ \ {c}, !.stale = c] \in Sweeps
    BY DEF Sweeps, StoredHomes
  <2>2. QED
    BY <1>6, <2>1 DEF ReadPidFile
<1>7. ASSUME NEW c \in Conversations, CleanAgent(c) PROVE StorageTypes'
  BY <1>7, HomeNames DEF CleanAgent, CanBeStopped
<1>8. ASSUME NEW c \in Conversations, CleanHomes(c) PROVE StorageTypes'
  BY <1>8, HomeNames DEF CleanHomes
<1>9. ASSUME NEW h \in StoredHomes, SweepHome(h) PROVE StorageTypes'
  BY <1>9, HomeNames DEF SweepHome
<1>10. CASE BeginStorageSweep
  BY <1>10, HomeNames DEF BeginStorageSweep, Referenced, ActiveRecords, Owned
<1>11. CASE DeletePidFile
  BY <1>11, HomeNames DEF DeletePidFile
<1>12. CASE ListHomes
  <2>1. {h \in StoredHomes : storedHome[h] # "none"} \in SUBSET StoredHomes
    OBVIOUS
  <2>2. sweeping' \in Sweeps
    BY <1>12, <2>1 DEF ListHomes, Sweeps
  <2>3. QED
    BY <1>12, <2>2 DEF ListHomes
<1>13. CASE EndStorageSweep
  <2>1. record' \in [Conversations -> {"none", "active", "deleted", "expired"}]
    BY <1>13 DEF EndStorageSweep
  <2>2. sweeping' \in Sweeps
    BY <1>13 DEF EndStorageSweep, NoSweep, Sweeps
  <2>3. QED
    BY <1>13, <2>1, <2>2 DEF EndStorageSweep
<1>14. CASE StopStorageEngine
  BY <1>14, HomeNames DEF StopStorageEngine, NoSweep
<1>15. CASE DayPasses
  BY <1>15, HomeNames DEF DayPasses
<1>16. QED
  BY <1>1, <1>2, <1>3, <1>4, <1>5, <1>6, <1>7, <1>8, <1>9, <1>10, <1>11, <1>12, <1>13, <1>14, <1>15 DEF StorageNext

\* Every step that takes a PID file away stops its agent, but that of the sweep.
LEMMA FilesTellStep ==
  ASSUME StorageTypes, FilesTell, StorageNext
  PROVE  FilesTell'
<1> USE DEF StorageTypes, FilesTell
<1>1. ASSUME NEW c \in Conversations, RecordConversation(c) PROVE FilesTell'
  BY <1>1, HomeNames DEF RecordConversation, Meanwhile
<1>2. ASSUME NEW c \in Conversations, MarkDeleted(c) PROVE FilesTell'
  BY <1>2, HomeNames DEF MarkDeleted
<1>3. ASSUME NEW c \in Conversations, StartHome(c) PROVE FilesTell'
  BY <1>3, HomeNames DEF StartHome, Meanwhile
<1>4. ASSUME NEW c \in Conversations, SpawnInHome(c) PROVE FilesTell'
  BY <1>4, HomeNames DEF SpawnInHome
<1>5. ASSUME NEW c \in Conversations, AgentEnds(c) PROVE FilesTell'
  BY <1>5, HomeNames DEF AgentEnds
<1>6. ASSUME NEW c \in Conversations, ReadPidFile(c) PROVE FilesTell'
  BY <1>6, HomeNames DEF ReadPidFile
<1>7. ASSUME NEW c \in Conversations, CleanAgent(c) PROVE FilesTell'
  BY <1>7, HomeNames DEF CleanAgent, CanBeStopped
<1>8. ASSUME NEW c \in Conversations, CleanHomes(c) PROVE FilesTell'
  BY <1>8, HomeNames DEF CleanHomes
<1>9. ASSUME NEW h \in StoredHomes, SweepHome(h) PROVE FilesTell'
  BY <1>9, HomeNames DEF SweepHome
<1>10. CASE BeginStorageSweep
  BY <1>10, HomeNames DEF BeginStorageSweep, Referenced, ActiveRecords, Owned
<1>11. CASE DeletePidFile
  BY <1>11, HomeNames DEF DeletePidFile
<1>12. CASE ListHomes
  BY <1>12, HomeNames DEF ListHomes
<1>13. CASE EndStorageSweep
  BY <1>13, HomeNames DEF EndStorageSweep, NoSweep
<1>14. CASE StopStorageEngine
  BY <1>14, HomeNames DEF StopStorageEngine, NoSweep
<1>15. CASE DayPasses
  BY <1>15, HomeNames DEF DayPasses
<1>16. QED
  BY <1>1, <1>2, <1>3, <1>4, <1>5, <1>6, <1>7, <1>8, <1>9, <1>10, <1>11, <1>12, <1>13, <1>14, <1>15 DEF StorageNext

\* A cleanup that stopped what it could is crossed or stays true.
LEMMA CleanupStopsStep ==
  ASSUME StorageTypes, FilesTell, CleanupStops, StorageNext
  PROVE  CleanupStops'
<1> USE DEF StorageTypes, FilesTell, CleanupStops, Cleaned
<1>1. ASSUME NEW c \in Conversations, RecordConversation(c) PROVE CleanupStops'
  BY <1>1, HomeNames DEF RecordConversation, Meanwhile
<1>2. ASSUME NEW c \in Conversations, MarkDeleted(c) PROVE CleanupStops'
  BY <1>2, HomeNames DEF MarkDeleted
<1>3. ASSUME NEW c \in Conversations, StartHome(c) PROVE CleanupStops'
  BY <1>3, HomeNames DEF StartHome, Meanwhile
<1>4. ASSUME NEW c \in Conversations, SpawnInHome(c) PROVE CleanupStops'
  BY <1>4, HomeNames DEF SpawnInHome
<1>5. ASSUME NEW c \in Conversations, AgentEnds(c) PROVE CleanupStops'
  BY <1>5, HomeNames DEF AgentEnds
<1>6. ASSUME NEW c \in Conversations, ReadPidFile(c) PROVE CleanupStops'
  BY <1>6, HomeNames DEF ReadPidFile
<1>7. ASSUME NEW c \in Conversations, CleanAgent(c) PROVE CleanupStops'
  BY <1>7, HomeNames DEF CleanAgent, CanBeStopped
<1>8. ASSUME NEW c \in Conversations, CleanHomes(c) PROVE CleanupStops'
  BY <1>8, HomeNames DEF CleanHomes
<1>9. ASSUME NEW h \in StoredHomes, SweepHome(h) PROVE CleanupStops'
  BY <1>9, HomeNames DEF SweepHome
<1>10. CASE BeginStorageSweep
  BY <1>10, HomeNames DEF BeginStorageSweep, Referenced, ActiveRecords, Owned
<1>11. CASE DeletePidFile
  BY <1>11, HomeNames DEF DeletePidFile
<1>12. CASE ListHomes
  BY <1>12, HomeNames DEF ListHomes
<1>13. CASE EndStorageSweep
  BY <1>13, HomeNames DEF EndStorageSweep, NoSweep
<1>14. CASE StopStorageEngine
  BY <1>14, HomeNames DEF StopStorageEngine, NoSweep
<1>15. CASE DayPasses
  BY <1>15, HomeNames DEF DayPasses
<1>16. QED
  BY <1>1, <1>2, <1>3, <1>4, <1>5, <1>6, <1>7, <1>8, <1>9, <1>10, <1>11, <1>12, <1>13, <1>14, <1>15 DEF StorageNext

\* What comes into use during a sweep came after it began.
LEMMA SweepKeepsStep ==
  ASSUME StorageTypes, SessionsAtHome, SweepKeeps, StorageNext
  PROVE  SweepKeeps'
<1> USE DEF StorageTypes, SessionsAtHome, SweepKeeps, StoredHomes, Sweeps
<1>1. ASSUME NEW c \in Conversations, RecordConversation(c) PROVE SweepKeeps'
  BY <1>1, HomeNames DEF RecordConversation, Meanwhile
<1>2. ASSUME NEW c \in Conversations, MarkDeleted(c) PROVE SweepKeeps'
  BY <1>2, HomeNames DEF MarkDeleted
<1>3. ASSUME NEW c \in Conversations, StartHome(c) PROVE SweepKeeps'
  BY <1>3, HomeNames DEF StartHome, Meanwhile
<1>4. ASSUME NEW c \in Conversations, SpawnInHome(c) PROVE SweepKeeps'
  BY <1>4, HomeNames DEF SpawnInHome
<1>5. ASSUME NEW c \in Conversations, AgentEnds(c) PROVE SweepKeeps'
  BY <1>5, HomeNames DEF AgentEnds
<1>6. ASSUME NEW c \in Conversations, ReadPidFile(c) PROVE SweepKeeps'
  BY <1>6, HomeNames DEF ReadPidFile
<1>7. ASSUME NEW c \in Conversations, CleanAgent(c) PROVE SweepKeeps'
  BY <1>7, HomeNames DEF CleanAgent, CanBeStopped
<1>8. ASSUME NEW c \in Conversations, CleanHomes(c) PROVE SweepKeeps'
  BY <1>8, HomeNames DEF CleanHomes
<1>9. ASSUME NEW h \in StoredHomes, SweepHome(h) PROVE SweepKeeps'
  BY <1>9, HomeNames DEF SweepHome
<1>10. CASE BeginStorageSweep
  BY <1>10, HomeNames DEF BeginStorageSweep, Referenced, ActiveRecords, Owned
<1>11. CASE DeletePidFile
  BY <1>11, HomeNames DEF DeletePidFile
<1>12. CASE ListHomes
  BY <1>12, HomeNames DEF ListHomes
<1>13. CASE EndStorageSweep
  BY <1>13, HomeNames DEF EndStorageSweep, NoSweep
<1>14. CASE StopStorageEngine
  BY <1>14, HomeNames DEF StopStorageEngine, NoSweep
<1>15. CASE DayPasses
  BY <1>15, HomeNames DEF DayPasses
<1>16. QED
  BY <1>1, <1>2, <1>3, <1>4, <1>5, <1>6, <1>7, <1>8, <1>9, <1>10, <1>11, <1>12, <1>13, <1>14, <1>15 DEF StorageNext

\* Only a start brings a home back, and it says so.
LEMMA CleanedStep ==
  ASSUME StorageTypes, SessionsAtHome, CleanupStops, CleanupStops', CleanedLeavesNothing, StorageNext
  PROVE  CleanedLeavesNothing'
<1> USE DEF StorageTypes, SessionsAtHome, CleanupStops, CleanedLeavesNothing, StoredHomes,
        Cleaned
<1>1. ASSUME NEW c \in Conversations, RecordConversation(c) PROVE CleanedLeavesNothing'
  BY <1>1, HomeNames DEF RecordConversation, Meanwhile
<1>2. ASSUME NEW c \in Conversations, MarkDeleted(c) PROVE CleanedLeavesNothing'
  BY <1>2, HomeNames DEF MarkDeleted
<1>3. ASSUME NEW c \in Conversations, StartHome(c) PROVE CleanedLeavesNothing'
  BY <1>3, HomeNames DEF StartHome, Meanwhile
<1>4. ASSUME NEW c \in Conversations, SpawnInHome(c) PROVE CleanedLeavesNothing'
  BY <1>4, HomeNames DEF SpawnInHome
<1>5. ASSUME NEW c \in Conversations, AgentEnds(c) PROVE CleanedLeavesNothing'
  BY <1>5, HomeNames DEF AgentEnds
<1>6. ASSUME NEW c \in Conversations, ReadPidFile(c) PROVE CleanedLeavesNothing'
  BY <1>6, HomeNames DEF ReadPidFile
<1>7. ASSUME NEW c \in Conversations, CleanAgent(c) PROVE CleanedLeavesNothing'
  BY <1>7, HomeNames DEF CleanAgent, CanBeStopped
<1>8. ASSUME NEW c \in Conversations, CleanHomes(c) PROVE CleanedLeavesNothing'
  BY <1>8, HomeNames DEF CleanHomes
<1>9. ASSUME NEW h \in StoredHomes, SweepHome(h) PROVE CleanedLeavesNothing'
  BY <1>9, HomeNames DEF SweepHome
<1>10. CASE BeginStorageSweep
  BY <1>10, HomeNames DEF BeginStorageSweep, Referenced, ActiveRecords, Owned
<1>11. CASE DeletePidFile
  BY <1>11, HomeNames DEF DeletePidFile
<1>12. CASE ListHomes
  BY <1>12, HomeNames DEF ListHomes
<1>13. CASE EndStorageSweep
  BY <1>13, HomeNames DEF EndStorageSweep, NoSweep
<1>14. CASE StopStorageEngine
  BY <1>14, HomeNames DEF StopStorageEngine, NoSweep
<1>15. CASE DayPasses
  BY <1>15, HomeNames DEF DayPasses
<1>16. QED
  BY <1>1, <1>2, <1>3, <1>4, <1>5, <1>6, <1>7, <1>8, <1>9, <1>10, <1>11, <1>12, <1>13, <1>14, <1>15 DEF StorageNext

\* The sweep removes a home that its references do not name.
LEMMA SweepRemoves ==
  ASSUME StorageInv, StorageNext, NEW h \in StoredHomes, NEW c \in Conversations,
         h \in sweeping.todo, sweeping'.todo = sweeping.todo \ {h},
         storedHome[h] = "old", storedHome'[h] = "none", Serves(h, c)
  PROVE  c \in sweeping.since
<1>1. StorageTypes /\ SweepKeeps
  BY DEF StorageInv
<1>2. PICK x \in StoredHomes : SweepHome(x)
  <2>1. sweeping' # sweeping /\ storedHome' # storedHome
    OBVIOUS
  <2>2. ~DayPasses /\ \A d \in Conversations : ~StartHome(d)
    BY <1>1 DEF DayPasses, StartHome, StorageTypes
  <2>3. QED
    BY <2>1, <2>2 DEF StorageNext, RecordConversation, MarkDeleted, SpawnInHome, AgentEnds,
      ReadPidFile, CleanAgent, CleanHomes, BeginStorageSweep, DeletePidFile, ListHomes,
      EndStorageSweep, StopStorageEngine
<1>3. x = h /\ h \notin sweeping.kept /\ sweeping.at = "homes"
  BY <1>1, <1>2 DEF SweepHome, StorageTypes
<1>4. QED
  BY <1>1, <1>3 DEF Serves, SweepKeeps

\* The sweep removes no home that serves a conversation, and a cleanup that nothing
\* crossed leaves nothing, for every number of conversations and homes
\* (cleanupOrphanedAgentStorage, cleanupConversationArtifacts).
THEOREM StorageCorrect == StorageSpec => StorageIsSafe
<1>1. StorageInit => StorageInv
  <2> SUFFICES ASSUME StorageInit PROVE StorageInv
    OBVIOUS
  <2>1. StorageTypes
    BY DEF StorageInit, StorageTypes, StoredHomes, NoSweep, Sweeps
  <2>2. SessionsAtHome /\ FilesTell /\ CleanupStops /\ SweepKeeps /\ CleanedLeavesNothing
    BY DEF StorageInit, NoSweep, SessionsAtHome, FilesTell, CleanupStops, SweepKeeps,
      CleanedLeavesNothing, Cleaned
  <2>3. QED
    BY <2>1, <2>2 DEF StorageInv
<1>2. StorageInv /\ [StorageNext]_storageVars => StorageInv'
  <2> SUFFICES ASSUME StorageInv, [StorageNext]_storageVars PROVE StorageInv'
    OBVIOUS
  <2>1. CASE StorageNext
    <3>1. StorageTypes /\ SessionsAtHome /\ FilesTell /\ CleanupStops /\ SweepKeeps
          /\ CleanedLeavesNothing
      BY DEF StorageInv
    <3>2. sessionHome' = sessionHome
      BY <2>1 DEF StorageNext, RecordConversation, MarkDeleted, StartHome, SpawnInHome,
        AgentEnds, ReadPidFile, CleanAgent, CleanHomes, SweepHome, BeginStorageSweep,
        DeletePidFile, ListHomes, EndStorageSweep, StopStorageEngine, DayPasses
    <3>3. SessionsAtHome'
      BY <3>1, <3>2 DEF SessionsAtHome
    <3>4. StorageTypes' /\ FilesTell' /\ CleanupStops' /\ SweepKeeps'
      BY <2>1, <3>1, StorageTypesStep, FilesTellStep, CleanupStopsStep, SweepKeepsStep
    <3>5. CleanedLeavesNothing'
      BY <2>1, <3>1, <3>4, CleanedStep
    <3>6. QED
      BY <3>3, <3>4, <3>5 DEF StorageInv
  <2>2. CASE UNCHANGED storageVars
    BY <2>2 DEF storageVars, StorageInv, StorageTypes, SessionsAtHome, FilesTell,
      CleanupStops, SweepKeeps, CleanedLeavesNothing, Cleaned
  <2>3. QED
    BY <2>1, <2>2
<1>3. StorageInv => CleanedLeavesNothing
  BY DEF StorageInv
<1>4. StorageInv /\ [StorageNext]_storageVars =>
        [\A h \in StoredHomes, c \in Conversations :
           /\ h \in sweeping.todo /\ sweeping'.todo = sweeping.todo \ {h}
           /\ storedHome[h] = "old" /\ storedHome'[h] = "none"
           /\ Serves(h, c)
           => c \in sweeping.since]_storageVars
  BY SweepRemoves
<1>5. QED
  BY <1>1, <1>2, <1>3, <1>4, PTL DEF StorageSpec, StorageIsSafe, HomeInUseIsKept

-----------------------------------------------------------------------------
(* The items of a Codex turn.                                               *)

\* the pieces of a text that follow the first n
Following(n, w) == [k \in 1 .. w - n |-> n + k]

ItemTypes ==
  /\ phaseOf \in [AgentMessages -> Phases]
  /\ written \in [Items -> Nat]
  /\ recorded \subseteq Items /\ streamed \subseteq AgentMessages
  /\ completed \subseteq recorded
  /\ updates \in [Items -> Nat]
  /\ stored \in [Items -> Seq(Nat)] /\ pending \in [Items -> Seq(Nat)]
  /\ shown \in [Items -> Seq(Nat)]
  /\ listed.left \subseteq Items

\* an open text is shown up to a piece and what follows is pending; nothing of a
\* message that is not streamed is shown
OpenText(i) ==
  \E n \in 0 .. written[i] :
    /\ shown[i] = Following(0, n) /\ pending[i] = Following(n, written[i])
    /\ i \in AgentMessages \ streamed => n = 0

\* what is stored of a text is all of it, and so is what is shown once completed
TextIsKept(i) ==
  /\ stored[i] = Following(0, written[i])
  /\ i \in completed => shown[i] = Following(0, written[i])
  /\ i \notin completed => OpenText(i)

\* a text that was pushed last was flushed or completed
LastWasShown ==
  /\ lastAnswer = NoText \/ lastAnswer.item \in completed
  /\ lastProgress = NoText \/ lastProgress.item \in streamed \cup completed

\* a tool is started once and ended once
ToolsAreCounted ==
  \A i \in Tools : /\ i \notin recorded => updates[i] = 0
                   /\ i \notin completed => updates[i] <= 1
                   /\ updates[i] <= 2

ItemInv ==
  /\ ItemTypes /\ LastWasShown /\ ToolsAreCounted
  /\ \A i \in Streamed : TextIsKept(i)

\* what TextDelivery asks of a step
TextIsDelivered(i) ==
  \/ /\ i \notin completed
     /\ written'[i] >= written[i]
     /\ \E n \in Len(shown[i]) .. written'[i] : shown'[i] = Following(0, n)
     /\ i \in completed' => shown'[i] = Following(0, written'[i])
  \/ /\ written'[i] = written[i] /\ shown'[i] = shown[i]
     /\ i \in completed <=> i \in completed'

\* Pieces that follow each other make a text.
LEMMA FollowingPieces ==
  ASSUME NEW n \in Nat, NEW w \in Nat, n <= w
  PROVE  /\ Following(n, w) \in Seq(Nat) /\ Len(Following(n, w)) = w - n
         /\ Following(n, w) = <<>> <=> n = w
         /\ Append(Following(n, w), w + 1) = Following(n, w + 1)
         /\ Following(0, n) \o Following(n, w) = Following(0, w)
<1>1. \A a, b \in Nat : a <= b => /\ Following(a, b) \in Seq(Nat)
                                  /\ Len(Following(a, b)) = b - a
                                  /\ \A k \in 1 .. b - a : Following(a, b)[k] = a + k
  <2> SUFFICES ASSUME NEW a \in Nat, NEW b \in Nat, a <= b
               PROVE  /\ Following(a, b) \in Seq(Nat)
                      /\ Len(Following(a, b)) = b - a
                      /\ \A k \in 1 .. b - a : Following(a, b)[k] = a + k
    OBVIOUS
  <2>1. b - a \in Nat
    OBVIOUS
  <2>2. \A k \in 1 .. b - a : a + k \in Nat
    OBVIOUS
  <2>3. Following(a, b) \in [1 .. b - a -> Nat]
    BY <2>2 DEF Following
  <2>4. QED
    BY <2>1, <2>3 DEF Following
<1>2. Following(n, w) = <<>> <=> n = w
  <2>1. Following(n, w) \in Seq(Nat) /\ Len(Following(n, w)) = w - n
    BY <1>1
  <2>2. Following(n, w) = <<>> <=> Len(Following(n, w)) = 0
    BY <2>1, EmptySeq
  <2>3. QED
    BY <2>1, <2>2
<1>3. Append(Following(n, w), w + 1) = Following(n, w + 1)
  <2>1. /\ Following(n, w) \in Seq(Nat) /\ Len(Following(n, w)) = w - n
        /\ \A k \in 1 .. w - n : Following(n, w)[k] = n + k
    BY <1>1
  <2>2. /\ Following(n, w + 1) \in Seq(Nat) /\ Len(Following(n, w + 1)) = w + 1 - n
        /\ \A k \in 1 .. w + 1 - n : Following(n, w + 1)[k] = n + k
    BY <1>1
  <2> DEFINE longer == Append(Following(n, w), w + 1)
  <2>3. /\ longer \in Seq(Nat) /\ Len(longer) = w + 1 - n
        /\ longer[w - n + 1] = w + 1
        /\ \A k \in 1 .. w - n : longer[k] = n + k
    BY <2>1, AppendProperties
  <2>4. \A k \in 1 .. w + 1 - n : longer[k] = n + k
    <3> SUFFICES ASSUME NEW k \in 1 .. w + 1 - n PROVE longer[k] = n + k
      OBVIOUS
    <3>1. k \in 1 .. w - n \/ k = w - n + 1
      OBVIOUS
    <3> HIDE DEF longer
    <3>2. QED
      BY <2>3, <3>1
  <2> HIDE DEF longer
  <2>5. longer = Following(n, w + 1)
    BY <2>2, <2>3, <2>4, SeqEqual
  <2>6. QED
    BY <2>5 DEF longer
<1>4. Following(0, n) \o Following(n, w) = Following(0, w)
  <2>1. /\ Following(0, n) \in Seq(Nat) /\ Len(Following(0, n)) = n
        /\ \A k \in 1 .. n : Following(0, n)[k] = k
    BY <1>1
  <2>2. /\ Following(n, w) \in Seq(Nat) /\ Len(Following(n, w)) = w - n
        /\ \A k \in 1 .. w - n : Following(n, w)[k] = n + k
    BY <1>1
  <2>3. /\ Following(0, w) \in Seq(Nat) /\ Len(Following(0, w)) = w
        /\ \A k \in 1 .. w : Following(0, w)[k] = k
    BY <1>1
  <2> DEFINE whole == Following(0, n) \o Following(n, w)
  <2>4. whole \in Seq(Nat) /\ Len(whole) = w
    BY <2>1, <2>2, ConcatProperties
  <2>5. \A k \in 1 .. w : whole[k] = k
    <3> SUFFICES ASSUME NEW k \in 1 .. w PROVE whole[k] = k
      OBVIOUS
    <3>1. whole[k] = IF k <= n THEN Following(0, n)[k] ELSE Following(n, w)[k - n]
      BY <2>1, <2>2, ConcatProperties
    <3>2. CASE k <= n
      BY <2>1, <3>1, <3>2
    <3>3. CASE ~(k <= n)
      <4>1. k - n \in 1 .. w - n /\ n + (k - n) = k
        BY <3>3
      <4>2. QED
        BY <2>2, <3>1, <3>3, <4>1
    <3>4. QED
      BY <3>2, <3>3
  <2>6. QED
    BY <2>3, <2>4, <2>5, SeqEqual
<1>5. QED
  BY <1>1, <1>2, <1>3, <1>4

\* A whole text, and nothing of it.
LEMMA WholeText ==
  ASSUME NEW w \in Nat
  PROVE  /\ Following(0, w) \in Seq(Nat) /\ Following(w, w) = <<>>
         /\ Append(Following(0, w), w + 1) = Following(0, w + 1)
<1> DEFINE none == 0
<1>1. none \in Nat /\ none <= w /\ w <= w
  OBVIOUS
<1> HIDE DEF none
<1>2. Following(none, w) \in Seq(Nat) /\ Append(Following(none, w), w + 1) = Following(none, w + 1)
  BY <1>1, FollowingPieces
<1>3. Following(w, w) = <<>>
  BY <1>1, FollowingPieces
<1>4. QED
  BY <1>2, <1>3 DEF none

\* Where the items of a text stand apart.
LEMMA ItemKinds ==
  /\ Streamed \subseteq Items /\ AgentMessages \subseteq Streamed
  /\ \A i \in Streamed : i \notin Plans \cup Tools
  /\ \A i \in Reasonings : i \notin AgentMessages
BY ItemAssumption DEF Streamed, Items

\* A text that a step leaves alone keeps what it promises.
LEMMA TextLeftAlone ==
  ASSUME ItemTypes, NEW i \in Streamed, TextIsKept(i),
         written'[i] = written[i], stored'[i] = stored[i],
         pending'[i] = pending[i], shown'[i] = shown[i],
         i \in streamed <=> i \in streamed', i \in completed <=> i \in completed'
  PROVE  TextIsKept(i)' /\ TextIsDelivered(i)
BY DEF TextIsKept, OpenText, TextIsDelivered

\* What a text has shown has the length of what it has shown.
LEMMA ShownLength ==
  ASSUME ItemTypes, NEW i \in Streamed, NEW n \in 0 .. written[i],
         shown[i] = Following(0, n)
  PROVE  /\ n \in Nat /\ written[i] \in Nat /\ n <= written[i]
         /\ Len(shown[i]) = n
<1>1. n \in Nat /\ written[i] \in Nat /\ n <= written[i]
  BY ItemKinds DEF ItemTypes
<1>2. Len(Following(0, n)) = n
  BY <1>1, FollowingPieces
<1>3. QED
  BY <1>1, <1>2

\* A flush shows what is pending.
LEMMA FlushShows ==
  ASSUME ItemTypes, NEW i \in Streamed, OpenText(i), NEW force \in BOOLEAN, Flush(i, force)
  PROVE  /\ pending' \in [Items -> Seq(Nat)] /\ shown' \in [Items -> Seq(Nat)]
         /\ \A j \in Items : j # i => pending'[j] = pending[j] /\ shown'[j] = shown[j]
         /\ streamed' = streamed \/ (i \in AgentMessages /\ streamed' = streamed \cup {i})
         /\ \E n \in Len(shown[i]) .. written[i] :
              /\ shown'[i] = Following(0, n) /\ pending'[i] = Following(n, written[i])
              /\ i \in AgentMessages \ streamed' => n = 0
              /\ force => n = written[i]
         /\ force /\ pending[i] # <<>> /\ i \in AgentMessages => i \in streamed'
<1>1. PICK n \in 0 .. written[i] :
        /\ shown[i] = Following(0, n) /\ pending[i] = Following(n, written[i])
        /\ i \in AgentMessages \ streamed => n = 0
  BY DEF OpenText
<1>2. /\ n \in Nat /\ written[i] \in Nat /\ n <= written[i] /\ Len(shown[i]) = n
  BY <1>1, ShownLength
<1>3. /\ pending[i] = <<>> <=> n = written[i]
      /\ Following(written[i], written[i]) = <<>>
      /\ shown[i] \o pending[i] = Following(0, written[i])
      /\ Following(0, written[i]) \in Seq(Nat)
  <2>1. PICK w \in Nat : w = written[i]
    BY <1>2
  <2>2. /\ Following(n, w) = <<>> <=> n = w
        /\ Following(0, n) \o Following(n, w) = Following(0, w)
    BY <1>2, <2>1, FollowingPieces
  <2>3. Following(w, w) = <<>> /\ Following(0, w) \in Seq(Nat)
    BY WholeText
  <2>4. QED
    BY <1>1, <2>1, <2>2, <2>3
<1>4. i \in Items /\ <<>> \in Seq(Nat)
  BY ItemKinds
<1>5. CASE pending[i] # <<>> /\ force
  <2>1. /\ pending' = [pending EXCEPT ![i] = <<>>]
        /\ shown' = [shown EXCEPT ![i] = Following(0, written[i])]
        /\ streamed' = IF i \in AgentMessages THEN streamed \cup {i} ELSE streamed
    BY <1>3, <1>5 DEF Flush
  <2>2. /\ pending' \in [Items -> Seq(Nat)] /\ shown' \in [Items -> Seq(Nat)]
        /\ \A j \in Items : j # i => pending'[j] = pending[j] /\ shown'[j] = shown[j]
        /\ shown'[i] = Following(0, written[i]) /\ pending'[i] = <<>>
    BY <1>3, <1>4, <2>1 DEF ItemTypes
  <2>3. written[i] \in Len(shown[i]) .. written[i]
    BY <1>2
  <2>4. i \in AgentMessages => i \in streamed'
    BY <2>1
  <2>5. QED
    BY <1>3, <2>1, <2>2, <2>3, <2>4
<1>6. CASE ~(pending[i] # <<>> /\ force)
  <2>1. UNCHANGED <<pending, shown, streamed>>
    BY <1>6 DEF Flush
  <2>2. n \in Len(shown[i]) .. written[i] /\ (force => n = written[i])
    BY <1>2, <1>3, <1>6
  <2>3. QED
    BY <1>1, <1>6, <2>1, <2>2 DEF ItemTypes
<1>7. QED
  BY <1>5, <1>6

\* What is shown further is delivered.
LEMMA ShownIsDelivered ==
  ASSUME ItemTypes, NEW i \in Streamed, TextIsKept(i), i \notin completed,
         written'[i] = written[i] \/ (written'[i] = written[i] + 1 /\ i \notin completed'),
         stored'[i] = Following(0, written'[i]),
         NEW n \in Nat, n >= Len(shown[i]), n <= written'[i], shown'[i] = Following(0, n),
         i \in completed' => n = written'[i],
         i \notin completed' => /\ pending'[i] = Following(n, written'[i])
                                /\ i \in AgentMessages \ streamed' => n = 0
  PROVE  TextIsKept(i)' /\ TextIsDelivered(i)
<1>1. written[i] \in Nat /\ Len(shown[i]) \in Nat
  BY ItemKinds DEF ItemTypes
<1>2. written'[i] >= written[i] /\ n \in Len(shown[i]) .. written'[i] /\ n \in 0 .. written'[i]
  BY <1>1
<1>3. TextIsDelivered(i)
  BY <1>2 DEF TextIsDelivered
<1>4. TextIsKept(i)'
  BY <1>2 DEF TextIsKept, OpenText
<1>5. QED
  BY <1>3, <1>4

\* The step of an item: the texts of the others are left alone.
TextStep(i) ==
  /\ ItemTypes' /\ LastWasShown'
  /\ i \in Streamed => TextIsKept(i)' /\ TextIsDelivered(i)
  /\ \A j \in Items \ {i} :
       /\ written'[j] = written[j] /\ stored'[j] = stored[j]
       /\ pending'[j] = pending[j] /\ shown'[j] = shown[j]
       /\ j \in streamed <=> j \in streamed'
       /\ j \in completed <=> j \in completed'

\* A message that is started flushes what its phase allows.
LEMMA MessageStarts ==
  ASSUME ItemInv, NEW i \in AgentMessages, StartMessage(i)
  PROVE  TextStep(i)
<1>1. ItemTypes /\ LastWasShown /\ i \in Streamed /\ i \in Items /\ TextIsKept(i)
  BY ItemKinds DEF ItemInv
<1>2. i \notin completed /\ OpenText(i) /\ i \notin recorded
  BY <1>1 DEF StartMessage, ItemTypes, TextIsKept
<1>3. PICK force \in BOOLEAN : FlushMessage(i, force)
  BY DEF StartMessage
<1>4. Flush(i, force)
  BY <1>3 DEF FlushMessage
<1>5. /\ recorded' = recorded \cup {i}
      /\ UNCHANGED <<phaseOf, written, stored, completed, lastAnswer, updates, listed>>
  BY DEF StartMessage
<1>6. /\ pending' \in [Items -> Seq(Nat)] /\ shown' \in [Items -> Seq(Nat)]
      /\ \A j \in Items : j # i => pending'[j] = pending[j] /\ shown'[j] = shown[j]
      /\ streamed' = streamed \/ streamed' = streamed \cup {i}
      /\ force /\ pending[i] # <<>> => i \in streamed'
  BY <1>1, <1>2, <1>4, FlushShows
<1>7. PICK n \in Len(shown[i]) .. written[i] :
        /\ shown'[i] = Following(0, n) /\ pending'[i] = Following(n, written[i])
        /\ i \in AgentMessages \ streamed' => n = 0
  BY <1>1, <1>2, <1>4, FlushShows
<1>8. n \in Nat /\ n >= Len(shown[i]) /\ n <= written[i]
  BY <1>1, <1>7 DEF ItemTypes
<1>9. stored[i] = Following(0, written[i])
  BY <1>1 DEF TextIsKept
<1>10. TextIsKept(i)' /\ TextIsDelivered(i)
  BY <1>1, <1>2, <1>5, <1>7, <1>8, <1>9, ShownIsDelivered
<1>11. ItemTypes'
  BY <1>1, <1>5, <1>6 DEF ItemTypes
<1>12. LastWasShown'
  BY <1>1, <1>3, <1>5, <1>6 DEF LastWasShown, FlushMessage, Tell
<1>13. QED
  BY <1>5, <1>6, <1>10, <1>11, <1>12 DEF TextStep

\* Another item that is started has no text of its own to show.
LEMMA OtherStarts ==
  ASSUME ItemInv, NEW i \in Items, StartOther(i)
  PROVE  TextStep(i)
<1>1. ItemTypes /\ LastWasShown /\ (i \in Streamed => TextIsKept(i))
  BY DEF ItemInv
<1>2. UNCHANGED <<written, stored, pending, streamed, completed, shown, lastAnswer, lastProgress>>
  BY DEF StartOther
<1>3. i \in Streamed => TextIsKept(i)' /\ TextIsDelivered(i)
  BY <1>1, <1>2, TextLeftAlone
<1>4. updates' \in [Items -> Nat]
  BY <1>1 DEF StartOther, ItemTypes
<1>5. ItemTypes' /\ LastWasShown'
  BY <1>1, <1>2, <1>4 DEF StartOther, ItemTypes, LastWasShown
<1>6. QED
  BY <1>2, <1>3, <1>5 DEF TextStep

\* A piece that is written is stored.
LEMMA PieceIsStored ==
  ASSUME ItemInv, NEW i \in Items, Write(i)
  PROVE  /\ written[i] \in Nat /\ written'[i] = written[i] + 1
         /\ written' \in [Items -> Nat] /\ stored' \in [Items -> Seq(Nat)]
         /\ \A j \in Items : j # i => written'[j] = written[j] /\ stored'[j] = stored[j]
         /\ i \in Streamed => stored'[i] = Following(0, written'[i])
<1>1. /\ written \in [Items -> Nat] /\ stored \in [Items -> Seq(Nat)]
      /\ i \in Streamed => stored[i] = Following(0, written[i])
  BY DEF ItemInv, ItemTypes, TextIsKept
<1>2. written' = [written EXCEPT ![i] = written[i] + 1]
  BY DEF Write
<1>3. written'[i] = written[i] + 1 /\ written' \in [Items -> Nat]
      /\ \A j \in Items : j # i => written'[j] = written[j]
  BY <1>1, <1>2
<1>4. Append(stored[i], written'[i]) \in Seq(Nat)
  BY <1>1, <1>3
<1>5. stored' = [stored EXCEPT ![i] = Append(stored[i], written'[i])]
  BY DEF Write
<1>6. stored'[i] = Append(stored[i], written'[i]) /\ stored' \in [Items -> Seq(Nat)]
      /\ \A j \in Items : j # i => stored'[j] = stored[j]
  BY <1>1, <1>4, <1>5
<1>7. ASSUME i \in Streamed PROVE stored'[i] = Following(0, written'[i])
  <2>1. PICK w \in Nat : w = written[i]
    BY <1>1
  <2>2. Append(Following(0, w), w + 1) = Following(0, w + 1)
    BY WholeText
  <2>3. QED
    BY <1>1, <1>3, <1>6, <1>7, <2>1, <2>2
<1>8. QED
  BY <1>1, <1>3, <1>6, <1>7

\* A piece joins what is pending of its text, and all of it is shown if the text breaks.
LEMMA PieceJoins ==
  ASSUME ItemInv, NEW i \in Items, TextDelta(i)
  PROVE  \E n \in 0 .. written[i], breaks \in BOOLEAN :
           /\ shown[i] = Following(0, n) /\ Len(shown[i]) = n
           /\ i \in AgentMessages \ streamed => n = 0
           /\ Following(n, written'[i]) \in Seq(Nat) /\ Following(0, written'[i]) \in Seq(Nat)
           /\ shown[i] \o Following(n, written'[i]) = Following(0, written'[i])
           /\ pending' = [pending EXCEPT ![i] = IF breaks THEN Following(written'[i], written'[i])
                                                ELSE Following(n, written'[i])]
           /\ shown' = [shown EXCEPT ![i] = IF breaks THEN Following(0, written'[i]) ELSE shown[i]]
           /\ streamed' = IF breaks /\ i \in AgentMessages THEN streamed \cup {i} ELSE streamed
           /\ Tell(i, Following(n, written'[i]),
                   breaks /\ i \in AgentMessages /\ phaseOf[i] = "final_answer")
<1>1. ItemTypes /\ LastWasShown /\ i \in Streamed /\ TextIsKept(i)
  BY DEF ItemInv, TextDelta, Streamed
<1>2. i \notin completed /\ OpenText(i) /\ Write(i)
  BY <1>1 DEF TextDelta, Write, TextIsKept
<1>3. PICK n \in 0 .. written[i] :
        /\ shown[i] = Following(0, n) /\ pending[i] = Following(n, written[i])
        /\ i \in AgentMessages \ streamed => n = 0
  BY <1>2 DEF OpenText
<1>4. n \in Nat /\ written[i] \in Nat /\ n <= written[i] /\ Len(shown[i]) = n
  BY <1>1, <1>3, ShownLength
<1>5. /\ written'[i] = written[i] + 1
      /\ written' \in [Items -> Nat] /\ stored' \in [Items -> Seq(Nat)]
      /\ \A j \in Items : j # i => written'[j] = written[j] /\ stored'[j] = stored[j]
      /\ stored'[i] = Following(0, written'[i])
  BY <1>1, <1>2, PieceIsStored
<1> DEFINE whole == Append(pending[i], written'[i])
<1>6. whole = Following(n, written'[i]) /\ whole \in Seq(Nat)
      /\ shown[i] \o whole = Following(0, written'[i]) /\ Following(0, written'[i]) \in Seq(Nat)
      /\ Following(written'[i], written'[i]) = <<>>
  <2>1. PICK w \in Nat : w = written[i]
    BY <1>4
  <2>2. PICK v \in Nat : v = w + 1
    BY <2>1
  <2>3. n <= w /\ n <= v /\ written'[i] = v
    BY <1>4, <1>5, <2>1, <2>2
  <2>4. Append(Following(n, w), w + 1) = Following(n, w + 1)
    BY <1>4, <2>3, FollowingPieces
  <2>5. Following(0, n) \o Following(n, v) = Following(0, v) /\ Following(n, v) \in Seq(Nat)
    BY <1>4, <2>3, FollowingPieces
  <2>6. Following(0, v) \in Seq(Nat) /\ Following(v, v) = <<>>
    BY WholeText
  <2>7. whole = Following(n, v)
    BY <1>3, <2>1, <2>2, <2>3, <2>4
  <2> HIDE DEF whole
  <2>8. QED
    BY <1>3, <2>3, <2>5, <2>6, <2>7
<1> HIDE DEF whole
<1>b. PICK breaks \in BOOLEAN : Join(i, breaks)
  BY DEF TextDelta
<1>7. /\ pending' = [pending EXCEPT ![i] = IF breaks THEN <<>> ELSE whole]
      /\ shown' = [shown EXCEPT ![i] = IF breaks THEN shown[i] \o whole ELSE shown[i]]
      /\ streamed' = IF breaks /\ i \in AgentMessages THEN streamed \cup {i} ELSE streamed
      /\ Tell(i, whole, breaks /\ i \in AgentMessages /\ phaseOf[i] = "final_answer")
  BY <1>b DEF Join, whole
<1>8. QED
  BY <1>3, <1>4, <1>6, <1>7

\* A piece of a message or of a summary is pending, or shown with what was.
LEMMA PieceIsPending ==
  ASSUME ItemInv, NEW i \in Items, TextDelta(i)
  PROVE  TextStep(i)
<1>1. ItemTypes /\ LastWasShown /\ i \in Streamed /\ TextIsKept(i)
  BY DEF ItemInv, TextDelta, Streamed
<1>2. i \notin completed /\ OpenText(i) /\ Write(i)
  BY <1>1 DEF TextDelta, Write, TextIsKept
<1>3. PICK n \in 0 .. written[i], breaks \in BOOLEAN :
        /\ shown[i] = Following(0, n) /\ Len(shown[i]) = n
        /\ i \in AgentMessages \ streamed => n = 0
        /\ Following(n, written'[i]) \in Seq(Nat) /\ Following(0, written'[i]) \in Seq(Nat)
        /\ pending' = [pending EXCEPT ![i] = IF breaks THEN Following(written'[i], written'[i])
                                             ELSE Following(n, written'[i])]
        /\ shown' = [shown EXCEPT ![i] = IF breaks THEN Following(0, written'[i]) ELSE shown[i]]
        /\ streamed' = IF breaks /\ i \in AgentMessages THEN streamed \cup {i} ELSE streamed
        /\ Tell(i, Following(n, written'[i]),
                breaks /\ i \in AgentMessages /\ phaseOf[i] = "final_answer")
  BY PieceJoins
<1>4. n \in Nat /\ written[i] \in Nat /\ n <= written[i]
  BY <1>1, <1>3, ShownLength
<1>5. /\ written'[i] = written[i] + 1
      /\ written' \in [Items -> Nat] /\ stored' \in [Items -> Seq(Nat)]
      /\ \A j \in Items : j # i => written'[j] = written[j] /\ stored'[j] = stored[j]
      /\ stored'[i] = Following(0, written'[i])
  BY <1>1, <1>2, PieceIsStored
<1>6. Following(written'[i], written'[i]) \in Seq(Nat)
  <2>1. written'[i] \in Nat
    BY <1>4, <1>5
  <2>2. QED
    BY <2>1, WholeText
<1>8. UNCHANGED <<phaseOf, recorded, completed, lastAnswer, updates, listed>>
  BY DEF TextDelta
<1>9. /\ pending' \in [Items -> Seq(Nat)] /\ shown' \in [Items -> Seq(Nat)]
      /\ \A j \in Items : j # i => pending'[j] = pending[j] /\ shown'[j] = shown[j]
      /\ pending'[i] = IF breaks THEN Following(written'[i], written'[i])
                       ELSE Following(n, written'[i])
      /\ shown'[i] = IF breaks THEN Following(0, written'[i]) ELSE shown[i]
  BY <1>1, <1>3, <1>6 DEF ItemTypes
<1>10. ItemTypes'
  BY <1>1, <1>3, <1>5, <1>8, <1>9 DEF ItemTypes
<1>11. LastWasShown'
  BY <1>1, <1>3, <1>8 DEF LastWasShown, Tell
<1>12. TextIsKept(i)' /\ TextIsDelivered(i)
  <2>1. CASE breaks
    <3>1. PICK v \in Nat : v = written'[i]
      BY <1>4, <1>5
    <3>2. v >= Len(shown[i]) /\ v <= written'[i]
      BY <1>3, <1>4, <1>5, <3>1
    <3>3. shown'[i] = Following(0, v) /\ pending'[i] = Following(v, written'[i])
          /\ i \notin AgentMessages \ streamed'
      BY <1>3, <1>9, <2>1, <3>1
    <3>4. i \notin completed'
      BY <1>2, <1>8
    <3>5. QED
      BY <1>1, <1>2, <1>5, <3>1, <3>2, <3>3, <3>4, ShownIsDelivered
  <2>2. CASE ~breaks
    <3>1. n <= written'[i] /\ n >= Len(shown[i])
      BY <1>3, <1>4, <1>5
    <3>2. QED
      BY <1>1, <1>2, <1>3, <1>4, <1>5, <1>8, <1>9, <2>2, <3>1, ShownIsDelivered
  <2>3. QED
    BY <2>1, <2>2
<1>13. QED
  BY <1>3, <1>5, <1>8, <1>9, <1>10, <1>11, <1>12 DEF TextStep

\* A piece of a plan is stored.
LEMMA PlanIsStored ==
  ASSUME ItemInv, NEW i \in Items, PlanDelta(i)
  PROVE  TextStep(i)
<1>1. ItemTypes /\ LastWasShown /\ i \notin Streamed /\ Write(i)
  BY ItemKinds DEF ItemInv, PlanDelta
<1>2. /\ written' \in [Items -> Nat] /\ stored' \in [Items -> Seq(Nat)] /\ written'[i] \in Nat
      /\ \A j \in Items : j # i => written'[j] = written[j] /\ stored'[j] = stored[j]
  BY <1>1, PieceIsStored
<1>3. Append(pending[i], written'[i]) \in Seq(Nat)
  BY <1>1, <1>2 DEF ItemTypes
<1>4. pending' = [pending EXCEPT ![i] = Append(pending[i], written'[i])]
      /\ UNCHANGED <<phaseOf, recorded, streamed, completed, lastAnswer, lastProgress,
                     shown, updates, listed>>
  BY DEF PlanDelta
<1>5. pending' \in [Items -> Seq(Nat)] /\ \A j \in Items : j # i => pending'[j] = pending[j]
  BY <1>1, <1>3, <1>4 DEF ItemTypes
<1>6. ItemTypes' /\ LastWasShown'
  BY <1>1, <1>2, <1>4, <1>5 DEF ItemTypes, LastWasShown
<1>7. QED
  BY <1>1, <1>2, <1>4, <1>5, <1>6 DEF TextStep

\* A text that is completed is whole: what is pending is flushed, what was never
\* streamed is shown as it is stored.
LEMMA MessageIsWhole ==
  ASSUME ItemInv, NEW i \in AgentMessages, i \notin completed, CompleteMessage(i)
  PROVE  /\ pending' \in [Items -> Seq(Nat)] /\ shown' \in [Items -> Seq(Nat)]
         /\ \A j \in Items : j # i => pending'[j] = pending[j] /\ shown'[j] = shown[j]
         /\ streamed' = streamed
         /\ shown'[i] = Following(0, written[i])
         /\ lastAnswer' = lastAnswer \/ lastAnswer'.item = i
         /\ lastProgress' = lastProgress \/ lastProgress'.item = i
<1>1. ItemTypes /\ LastWasShown /\ i \in Streamed /\ i \in Items /\ TextIsKept(i)
  BY ItemKinds DEF ItemInv
<1>2. OpenText(i) /\ stored[i] = Following(0, written[i])
  BY <1>1 DEF TextIsKept
<1>3. CASE i \in streamed
  <2>1. FlushMessage(i, TRUE) /\ UNCHANGED lastAnswer
    BY <1>3 DEF CompleteMessage
  <2>2. Flush(i, TRUE)
    BY <2>1 DEF FlushMessage
  <2>3. /\ pending' \in [Items -> Seq(Nat)] /\ shown' \in [Items -> Seq(Nat)]
        /\ \A j \in Items : j # i => pending'[j] = pending[j] /\ shown'[j] = shown[j]
        /\ streamed' = streamed \/ streamed' = streamed \cup {i}
        /\ shown'[i] = Following(0, written[i])
    BY <1>1, <1>2, <2>2, FlushShows
  <2>4. lastProgress' = lastProgress \/ lastProgress'.item = i
    BY <2>1 DEF FlushMessage, Tell
  <2>5. QED
    BY <1>3, <2>1, <2>3, <2>4
<1>4. CASE i \notin streamed
  <2>1. UNCHANGED <<pending, streamed>>
    BY <1>4 DEF CompleteMessage
  <2>2. shown[i] = <<>>
    <3>1. shown[i] = Following(0, 0)
      BY <1>2, <1>4 DEF OpenText
    <3>2. QED
      BY <3>1, WholeText
  <2>3. \A sequence \in Seq(Nat) : <<>> \o sequence = sequence
    BY ConcatEmptySeq
  <2>4. stored[i] \in Seq(Nat)
    BY <1>1 DEF ItemTypes
  <2>5. CASE stored[i] = <<>>
    BY <1>1, <1>2, <1>4, <2>1, <2>2, <2>5 DEF CompleteMessage, ItemTypes
  <2>6. CASE stored[i] # <<>>
    <3> DEFINE text == [item |-> i, text |-> stored[i]]
    <3>1. text # NoText /\ text.item = i
      BY <2>6 DEF NoText
    <3>2. lastAnswer # text /\ lastProgress # text
      BY <1>1, <1>4, <3>1 DEF LastWasShown
    <3>3. /\ shown' = [shown EXCEPT ![i] = shown[i] \o stored[i]]
          /\ lastAnswer' = lastAnswer \/ lastAnswer' = text
          /\ lastProgress' = lastProgress \/ lastProgress' = text
      BY <1>4, <2>6, <3>2 DEF CompleteMessage, Tell
    <3>4. shown' = [shown EXCEPT ![i] = stored[i]]
      BY <2>2, <2>3, <2>4, <3>3
    <3>5. QED
      BY <1>1, <1>2, <2>1, <2>4, <3>1, <3>3, <3>4 DEF ItemTypes
  <2>7. QED
    BY <2>5, <2>6
<1>5. QED
  BY <1>3, <1>4

\* An item that is completed, once more or for the first time.
LEMMA CompletedIsWhole ==
  ASSUME ItemInv, NEW i \in Items, HandleCompleted(i), listed'.left \subseteq Items
  PROVE  TextStep(i)
<1>1. ItemTypes /\ LastWasShown /\ (i \in Streamed => TextIsKept(i))
  BY DEF ItemInv
<1>2. recorded' = recorded \cup {i} /\ UNCHANGED <<phaseOf, written, stored>>
  BY DEF HandleCompleted
<1>3. CASE Handled(i)
  <2>1. UNCHANGED <<pending, shown, streamed, completed, lastAnswer, lastProgress, updates>>
    BY <1>3 DEF HandleCompleted
  <2>2. i \in Streamed => TextIsKept(i)' /\ TextIsDelivered(i)
    BY <1>1, <1>2, <2>1, TextLeftAlone
  <2>3. ItemTypes' /\ LastWasShown'
    BY <1>1, <1>2, <2>1 DEF ItemTypes, LastWasShown
  <2>4. QED
    BY <1>2, <2>1, <2>2, <2>3 DEF TextStep
<1>4. CASE ~Handled(i)
  <2>1. completed' = completed \cup {i} /\ i \notin completed
    BY <1>4 DEF HandleCompleted, Handled
  <2>2. \A j \in Items \ {i} : j \in completed <=> j \in completed'
    BY <2>1
  <2>3. ASSUME i \in Streamed, shown'[i] = Following(0, written[i])
        PROVE  TextIsKept(i)' /\ TextIsDelivered(i)
    <3>1. OpenText(i) /\ stored[i] = Following(0, written[i])
      BY <1>1, <2>1, <2>3 DEF TextIsKept
    <3>2. PICK n \in 0 .. written[i] : shown[i] = Following(0, n)
      BY <3>1 DEF OpenText
    <3>3. written[i] \in Nat /\ Len(shown[i]) <= written[i]
      BY <1>1, <2>3, <3>2, ShownLength
    <3>4. PICK w \in Nat : w = written[i]
      BY <3>3
    <3>5. i \in completed' /\ written'[i] = written[i] /\ stored'[i] = stored[i]
      BY <1>2, <2>1
    <3>6. QED
      BY <1>1, <2>1, <2>3, <3>1, <3>3, <3>4, <3>5, ShownIsDelivered
  <2>4. CASE i \in AgentMessages
    <3>1. CompleteMessage(i) /\ UNCHANGED updates
      BY <1>4, <2>4, ItemAssumption DEF HandleCompleted
    <3>2. /\ pending' \in [Items -> Seq(Nat)] /\ shown' \in [Items -> Seq(Nat)]
          /\ \A j \in Items : j # i => pending'[j] = pending[j] /\ shown'[j] = shown[j]
          /\ streamed' = streamed
          /\ shown'[i] = Following(0, written[i])
          /\ lastAnswer' = lastAnswer \/ lastAnswer'.item = i
          /\ lastProgress' = lastProgress \/ lastProgress'.item = i
      BY <2>1, <2>4, <3>1, MessageIsWhole
    <3>3. ItemTypes' /\ LastWasShown'
      BY <1>1, <1>2, <2>1, <3>1, <3>2 DEF ItemTypes, LastWasShown
    <3>4. TextIsKept(i)' /\ TextIsDelivered(i)
      BY <2>3, <2>4, <3>2, ItemKinds
    <3>5. QED
      BY <1>2, <2>2, <3>2, <3>3, <3>4 DEF TextStep
  <2>5. CASE i \in Reasonings
    <3>1. CompleteReasoning(i) /\ i \in Streamed /\ i \notin AgentMessages
      BY <1>4, <2>5, ItemAssumption DEF HandleCompleted, Streamed
    <3>2. OpenText(i) /\ Flush(i, TRUE)
      BY <1>1, <2>1, <3>1 DEF TextIsKept, CompleteReasoning
    <3>3. /\ pending' \in [Items -> Seq(Nat)] /\ shown' \in [Items -> Seq(Nat)]
          /\ \A j \in Items : j # i => pending'[j] = pending[j] /\ shown'[j] = shown[j]
          /\ streamed' = streamed
          /\ shown'[i] = Following(0, written[i])
      BY <1>1, <3>1, <3>2, FlushShows
    <3>4. updates' \in [Items -> Nat] /\ UNCHANGED <<lastAnswer, lastProgress>>
      BY <1>1, <3>1 DEF CompleteReasoning, ItemTypes
    <3>5. ItemTypes' /\ LastWasShown'
      BY <1>1, <1>2, <2>1, <3>3, <3>4 DEF ItemTypes, LastWasShown
    <3>6. TextIsKept(i)' /\ TextIsDelivered(i)
      BY <2>3, <3>1, <3>3
    <3>7. QED
      BY <1>2, <2>2, <3>3, <3>5, <3>6 DEF TextStep
  <2>6. CASE i \in Plans \cup Tools
    <3>1. CompleteOther(i) /\ i \notin Streamed
      BY <1>4, <2>6, ItemAssumption DEF HandleCompleted, Streamed
    <3>2. updates' \in [Items -> Nat]
          /\ UNCHANGED <<pending, shown, streamed, lastAnswer, lastProgress>>
      BY <1>1, <3>1 DEF CompleteOther, ItemTypes
    <3>3. ItemTypes' /\ LastWasShown'
      BY <1>1, <1>2, <2>1, <3>2 DEF ItemTypes, LastWasShown
    <3>4. QED
      BY <1>2, <2>2, <3>1, <3>2, <3>3 DEF TextStep
  <2>7. QED
    BY <2>4, <2>5, <2>6 DEF Items
<1>5. QED
  BY <1>3, <1>4

\* Every step is that of one item, or the end of the turn, which leaves every text alone.
LEMMA ItemSteps ==
  ASSUME ItemInv, ItemNext
  PROVE  /\ ItemTypes' /\ LastWasShown'
         /\ \A j \in Streamed : TextIsKept(j)' /\ TextIsDelivered(j)
<1>1. ItemTypes /\ LastWasShown /\ \A j \in Streamed : TextIsKept(j)
  BY DEF ItemInv
<1>2. ASSUME NEW i \in Items, TextStep(i)
      PROVE  /\ ItemTypes' /\ LastWasShown'
             /\ \A j \in Streamed : TextIsKept(j)' /\ TextIsDelivered(j)
  <2>1. ASSUME NEW j \in Streamed, j # i PROVE TextIsKept(j)' /\ TextIsDelivered(j)
    <3>1. j \in Items
      BY ItemKinds
    <3>2. QED
      BY <1>1, <1>2, <2>1, <3>1, TextLeftAlone DEF TextStep
  <2>2. QED
    BY <1>2, <2>1 DEF TextStep
<1>3. ASSUME NEW i \in Items, ListItem(i) PROVE TextStep(i)
  <2>1. listed'.left \subseteq Items
    BY <1>1, <1>3 DEF ListItem, ItemTypes
  <2>2. QED
    BY <1>3, <2>1, CompletedIsWhole DEF ListItem
<1>4. ASSUME NEW i \in Items, CompleteItem(i) PROVE TextStep(i)
  <2>1. listed'.left \subseteq Items
    BY <1>1, <1>4 DEF CompleteItem, ItemTypes
  <2>2. QED
    BY <1>4, <2>1, CompletedIsWhole DEF CompleteItem
<1>5. ASSUME NEW i \in Items, StartMessage(i) PROVE TextStep(i)
  BY <1>5, MessageStarts DEF StartMessage
<1>6. CASE CompleteTurn
  <2>1. listed'.left \subseteq Items
    BY <1>6 DEF CompleteTurn
  <2>2. UNCHANGED <<phaseOf, written, recorded, stored, pending, streamed, completed,
                    lastAnswer, lastProgress, shown, updates>>
    BY <1>6 DEF CompleteTurn
  <2>3. ItemTypes' /\ LastWasShown'
    BY <1>1, <2>1, <2>2 DEF ItemTypes, LastWasShown
  <2>4. QED
    BY <1>1, <2>2, <2>3, TextLeftAlone
<1>7. QED
  BY <1>2, <1>3, <1>4, <1>5, <1>6, OtherStarts, PieceIsPending, PlanIsStored DEF ItemNext

\* A tool is reported once when it starts and once when it ends.
LEMMA ToolsStayCounted ==
  ASSUME ItemInv, [ItemNext]_itemVars
  PROVE  ToolsAreCounted'
<1> SUFFICES ASSUME NEW x \in Tools
             PROVE  /\ x \notin recorded' => updates'[x] = 0
                    /\ x \notin completed' => updates'[x] <= 1
                    /\ updates'[x] <= 2
  BY DEF ToolsAreCounted
<1>1. /\ updates \in [Items -> Nat] /\ x \in Items /\ completed \subseteq recorded
      /\ x \notin recorded => updates[x] = 0
      /\ x \notin completed => updates[x] <= 1
      /\ updates[x] <= 2
      /\ x \notin AgentMessages \cup Reasonings \cup Plans
  BY ItemAssumption DEF ItemInv, ItemTypes, ToolsAreCounted, Items
<1>2. CASE UNCHANGED <<recorded, completed, updates>>
  BY <1>1, <1>2
<1>3. ASSUME NEW i \in Items, StartMessage(i)
      PROVE  UNCHANGED <<completed, updates>> /\ (x \in recorded' <=> x \in recorded)
  BY <1>1, <1>3 DEF StartMessage
<1>4. ASSUME NEW i \in Items, StartOther(i)
      PROVE  /\ updates'[x] = IF i = x THEN updates[x] + 1 ELSE updates[x]
             /\ recorded' = recorded \cup {i} /\ i \notin recorded /\ completed' = completed
  BY <1>1, <1>4 DEF StartOther
<1>5. ASSUME NEW i \in Items, HandleCompleted(i)
      PROVE  \/ UNCHANGED <<completed, updates>> /\ recorded' = recorded \cup {i}
                /\ i \in completed
             \/ /\ updates'[x] = IF i = x THEN updates[x] + 1 ELSE updates[x]
                /\ recorded' = recorded \cup {i}
                /\ i \notin completed /\ completed' = completed \cup {i}
  <2>1. CASE Handled(i)
    BY <1>5, <2>1 DEF HandleCompleted, Handled
  <2>2. CASE ~Handled(i)
    <3>1. /\ recorded' = recorded \cup {i} /\ i \notin completed
          /\ completed' = completed \cup {i}
      BY <1>5, <2>2 DEF HandleCompleted, Handled
    <3>2. CASE i = x
      <4>1. CompleteOther(i)
        BY <1>1, <1>5, <2>2, <3>2 DEF HandleCompleted
      <4>2. QED
        BY <1>1, <3>1, <3>2, <4>1 DEF CompleteOther
    <3>3. CASE i # x
      BY <1>1, <1>5, <2>2, <3>1, <3>3 DEF HandleCompleted, CompleteReasoning, CompleteOther
    <3>4. QED
      BY <3>2, <3>3
  <2>3. QED
    BY <2>1, <2>2
<1>6. ASSUME NEW i \in Items, HandleCompleted(i)
      PROVE  /\ x \notin recorded' => updates'[x] = 0
             /\ x \notin completed' => updates'[x] <= 1
             /\ updates'[x] <= 2
  BY <1>1, <1>5, <1>6
<1>7. ASSUME NEW i \in Items, StartOther(i)
      PROVE  /\ x \notin recorded' => updates'[x] = 0
             /\ x \notin completed' => updates'[x] <= 1
             /\ updates'[x] <= 2
  BY <1>1, <1>4, <1>7
<1>8. CASE UNCHANGED itemVars \/ CompleteTurn
           \/ \E i \in Items : TextDelta(i) \/ PlanDelta(i)
  BY <1>2, <1>8 DEF itemVars, CompleteTurn, TextDelta, PlanDelta
<1>9. CASE \E i \in Items : StartMessage(i)
  BY <1>1, <1>3, <1>9
<1>10. QED
  BY <1>6, <1>7, <1>8, <1>9 DEF ItemNext, CompleteItem, ListItem

\* What is told of a message, and what of it was pushed last.
TellsOf(i) == \/ phaseOf[i] = "final_answer" /\ i \in streamed
              \/ phaseOf[i] = "commentary" /\ i \notin streamed

MessageIsTold(i) ==
  /\ told[i] = IF TellsOf(i) THEN shown[i] ELSE <<>>
  /\ lastProgress # NoText /\ lastProgress.item = i /\ i \notin completed =>
       \E m \in Nat, n \in Nat : /\ m < n /\ n <= Len(shown[i])
                                  /\ lastProgress.text = Following(m, n)

MessagesAreTold ==
  /\ told \in [AgentMessages -> Seq(Nat)]
  /\ \A i \in AgentMessages : MessageIsTold(i)

\* What is pushed last is new: it follows what was shown of the message.
LEMMA NewsAreTold ==
  ASSUME MessagesAreTold, NEW i \in AgentMessages, i \notin completed,
         NEW n \in Nat, NEW w \in Nat, n < w, Len(shown[i]) = n, Tell(i, Following(n, w), TRUE)
  PROVE  /\ told' = [told EXCEPT ![i] = told[i] \o Following(n, w)]
         /\ lastProgress' = [item |-> i, text |-> Following(n, w)]
         /\ lastProgress' # NoText
<1> DEFINE news == [item |-> i, text |-> Following(n, w)]
<1>1. lastProgress' = news /\ (lastProgress # news => told' = [told EXCEPT ![i] = told[i] \o Following(n, w)])
  BY DEF Tell
<1>2. /\ Following(n, w) # <<>> /\ Following(n, w)[1] = n + 1
  <2>1. n <= w /\ n # w /\ 1 \in 1 .. w - n
    OBVIOUS
  <2>2. Following(n, w) # <<>>
    BY <2>1, FollowingPieces
  <2>3. QED
    BY <2>1, <2>2 DEF Following
<1>3. news # NoText /\ news.item = i /\ news.text = Following(n, w)
  BY <1>2 DEF NoText
<1> HIDE DEF news
<1>4. lastProgress # news
  <2> SUFFICES ASSUME lastProgress = news PROVE FALSE
    OBVIOUS
  <2>1. PICK a \in Nat, b \in Nat : a < b /\ b <= n /\ Following(n, w) = Following(a, b)
    BY <1>3 DEF MessagesAreTold, MessageIsTold
  <2>2. 1 \in 1 .. b - a
    BY <2>1
  <2>3. Following(a, b)[1] = a + 1
    BY <2>2 DEF Following
  <2>4. QED
    BY <1>2, <2>1, <2>3
<1>5. QED
  BY <1>1, <1>3, <1>4 DEF news

\* A message is told as it is flushed.
LEMMA FlushTells ==
  ASSUME ItemInv, MessagesAreTold, NEW i \in AgentMessages, i \notin completed,
         NEW force \in BOOLEAN, FlushMessage(i, force), UNCHANGED <<phaseOf, written>>
  PROVE  /\ MessageIsTold(i)' /\ told' \in [AgentMessages -> Seq(Nat)]
         /\ \A j \in AgentMessages : j # i => told'[j] = told[j]
         /\ lastProgress' = lastProgress \/ (lastProgress'.item = i /\ lastProgress' # NoText)
<1>1. ItemTypes /\ i \in Streamed /\ i \in Items /\ TextIsKept(i) /\ OpenText(i) /\ Flush(i, force)
  BY ItemKinds DEF ItemInv, TextIsKept, FlushMessage
<1>2. PICK n \in 0 .. written[i] :
        /\ shown[i] = Following(0, n) /\ pending[i] = Following(n, written[i])
        /\ i \in AgentMessages \ streamed => n = 0
  BY <1>1 DEF OpenText
<1>3. PICK w \in Nat : w = written[i]
  BY <1>1 DEF ItemTypes
<1>4. n \in Nat /\ n <= w /\ Len(shown[i]) = n
  BY <1>1, <1>2, <1>3, ShownLength
<1>5. /\ Following(n, w) \in Seq(Nat) /\ (Following(n, w) = <<>> <=> n = w)
      /\ Following(0, n) \o Following(n, w) = Following(0, w)
      /\ Following(0, w) \in Seq(Nat)
  BY <1>4, FollowingPieces, WholeText
<1>6. Len(Following(0, w)) = w
  <2>1. PICK none \in Nat : none = 0 /\ none <= w
    BY <1>4
  <2>2. Len(Following(none, w)) = w - none
    BY <2>1, FollowingPieces
  <2>3. QED
    BY <2>1, <2>2
<1>7. told[i] \in Seq(Nat) /\ MessageIsTold(i)
  BY DEF MessagesAreTold
<1>8. CASE pending[i] # <<>> /\ force
  <2>1. n < w /\ streamed' = streamed \cup {i} /\ shown' = [shown EXCEPT ![i] = Following(0, w)]
    <3>1. pending[i] = Following(n, w) /\ n # w
      BY <1>2, <1>3, <1>5, <1>8
    <3>2. shown[i] \o pending[i] = Following(0, w)
      BY <1>2, <1>5, <3>1
    <3>3. streamed' = streamed \cup {i} /\ shown' = [shown EXCEPT ![i] = shown[i] \o pending[i]]
      BY <1>1, <1>8 DEF Flush
    <3>4. QED
      BY <1>4, <3>1, <3>2, <3>3
  <2>2. i \in streamed' /\ shown'[i] = Following(0, w) /\ Len(shown'[i]) = w
    BY <1>1, <1>6, <2>1 DEF ItemTypes
  <2>3. CASE phaseOf[i] = "final_answer"
    <3>1. Tell(i, Following(n, w), TRUE)
      BY <1>2, <1>3, <1>8, <2>3 DEF FlushMessage, Tell
    <3>2. /\ told' = [told EXCEPT ![i] = told[i] \o Following(n, w)]
          /\ lastProgress' = [item |-> i, text |-> Following(n, w)] /\ lastProgress' # NoText
      BY <1>4, <2>1, <3>1, NewsAreTold
    <3>3. told[i] = Following(0, n)
      <4>1. CASE i \in streamed
        BY <1>2, <1>7, <2>3, <4>1 DEF MessageIsTold, TellsOf
      <4>2. CASE i \notin streamed
        <5>1. told[i] = <<>> /\ n = 0
          BY <1>2, <1>7, <2>3, <4>2 DEF MessageIsTold, TellsOf
        <5>2. QED
          BY <5>1, WholeText
      <4>3. QED
        BY <4>1, <4>2
    <3>4. told'[i] = shown'[i] /\ \A j \in AgentMessages : j # i => told'[j] = told[j]
      BY <1>5, <2>2, <3>2, <3>3 DEF MessagesAreTold
    <3>5. told' \in [AgentMessages -> Seq(Nat)]
      BY <1>5, <3>2, <3>3 DEF MessagesAreTold
    <3>6. lastProgress'.item = i /\ lastProgress'.text = Following(n, w)
      BY <3>2
    <3>7. w <= Len(shown'[i])
      BY <2>2
    <3>8. MessageIsTold(i)'
      BY <1>4, <2>1, <2>2, <2>3, <3>4, <3>6, <3>7 DEF MessageIsTold, TellsOf
    <3>9. QED
      BY <3>2, <3>4, <3>5, <3>6, <3>8
  <2>4. CASE phaseOf[i] # "final_answer"
    <3>1. UNCHANGED <<lastProgress, told>>
      BY <2>4 DEF FlushMessage, Tell
    <3>2. told[i] = <<>>
      <4>1. CASE i \in streamed
        BY <1>7, <2>4, <4>1 DEF MessageIsTold, TellsOf
      <4>2. CASE i \notin streamed
        <5>1. shown[i] = <<>>
          BY <1>2, <4>2, WholeText
        <5>2. QED
          BY <1>7, <5>1 DEF MessageIsTold
      <4>3. QED
        BY <4>1, <4>2
    <3>3. Len(shown[i]) <= Len(shown'[i])
      BY <1>4, <2>2
    <3>5. ASSUME lastProgress # NoText, lastProgress.item = i
          PROVE  \E a \in Nat, b \in Nat : /\ a < b /\ b <= Len(shown'[i])
                                            /\ lastProgress.text = Following(a, b)
      <4>1. PICK a \in Nat, b \in Nat : a < b /\ b <= Len(shown[i]) /\ lastProgress.text = Following(a, b)
        BY <1>7, <3>5 DEF MessageIsTold
      <4>2. b <= Len(shown'[i])
        BY <1>4, <2>2, <3>3, <4>1
      <4>3. QED
        BY <4>1, <4>2
    <3>6. MessageIsTold(i)'
      BY <2>2, <2>4, <3>1, <3>2, <3>5 DEF MessageIsTold, TellsOf
    <3>7. QED
      BY <3>1, <3>6 DEF MessagesAreTold
  <2>5. QED
    BY <2>3, <2>4
<1>9. CASE ~(pending[i] # <<>> /\ force)
  <2>1. UNCHANGED <<shown, streamed, lastProgress, told>>
    BY <1>9 DEF FlushMessage, Flush, Tell
  <2>2. MessageIsTold(i)'
    BY <1>7, <2>1 DEF MessageIsTold, TellsOf
  <2>3. QED
    BY <2>1, <2>2 DEF MessagesAreTold
<1>10. QED
  BY <1>8, <1>9

\* A message is told as its pieces are shown.
LEMMA PieceIsTold ==
  ASSUME ItemInv, MessagesAreTold, NEW i \in AgentMessages, TextDelta(i)
  PROVE  /\ MessageIsTold(i)' /\ told' \in [AgentMessages -> Seq(Nat)]
         /\ \A j \in AgentMessages : j # i => told'[j] = told[j]
         /\ lastProgress' = lastProgress \/ (lastProgress'.item = i /\ lastProgress' # NoText)
<1>1. ItemTypes /\ i \in Items /\ Write(i) /\ i \notin completed
  BY ItemKinds DEF ItemInv, TextDelta, Write
<1>2. PICK n \in 0 .. written[i], breaks \in BOOLEAN :
        /\ shown[i] = Following(0, n) /\ Len(shown[i]) = n
        /\ i \in AgentMessages \ streamed => n = 0
        /\ Following(n, written'[i]) \in Seq(Nat) /\ Following(0, written'[i]) \in Seq(Nat)
        /\ shown[i] \o Following(n, written'[i]) = Following(0, written'[i])
        /\ shown' = [shown EXCEPT ![i] = IF breaks THEN Following(0, written'[i]) ELSE shown[i]]
        /\ streamed' = IF breaks /\ i \in AgentMessages THEN streamed \cup {i} ELSE streamed
        /\ Tell(i, Following(n, written'[i]),
                breaks /\ i \in AgentMessages /\ phaseOf[i] = "final_answer")
  BY <1>1, PieceJoins
<1>3. PICK w \in Nat : w = written'[i] /\ n < w /\ n \in Nat
  <2>1. written[i] \in Nat /\ written'[i] = written[i] + 1
    BY <1>1, PieceIsStored
  <2>2. QED
    BY <1>2, <2>1
<1>4. Len(Following(0, w)) = w
  <2>1. PICK none \in Nat : none = 0 /\ none <= w
    BY <1>3
  <2>2. Len(Following(none, w)) = w - none
    BY <2>1, FollowingPieces
  <2>3. QED
    BY <2>1, <2>2
<1>5. told[i] \in Seq(Nat) /\ MessageIsTold(i) /\ UNCHANGED <<phaseOf, completed>>
  BY DEF MessagesAreTold, TextDelta
<1>6. CASE breaks /\ phaseOf[i] = "final_answer"
  <2>1. Tell(i, Following(n, w), TRUE)
    BY <1>2, <1>3, <1>6 DEF Tell
  <2>2. /\ told' = [told EXCEPT ![i] = told[i] \o Following(n, w)]
        /\ lastProgress' = [item |-> i, text |-> Following(n, w)] /\ lastProgress' # NoText
    <3>1. n \in Nat /\ n < w /\ Len(shown[i]) = n /\ i \notin completed
      BY <1>1, <1>2, <1>3
    <3>2. QED
      BY <2>1, <3>1, NewsAreTold
  <2>3. i \in streamed' /\ shown'[i] = Following(0, w)
    BY <1>1, <1>2, <1>3, <1>6 DEF ItemTypes
  <2>4. told[i] = shown[i]
    <3>1. CASE i \in streamed
      BY <1>5, <1>6, <3>1 DEF MessageIsTold, TellsOf
    <3>2. CASE i \notin streamed
      <4>1. told[i] = <<>> /\ n = 0
        BY <1>2, <1>5, <1>6, <3>2 DEF MessageIsTold, TellsOf
      <4>2. QED
        BY <1>2, <4>1, WholeText
    <3>3. QED
      BY <3>1, <3>2
  <2>5. told'[i] = shown'[i] /\ \A j \in AgentMessages : j # i => told'[j] = told[j]
    BY <1>2, <1>3, <2>2, <2>3, <2>4 DEF MessagesAreTold
  <2>6. told' \in [AgentMessages -> Seq(Nat)]
    BY <1>2, <1>3, <2>2, <2>4 DEF MessagesAreTold
  <2>7. lastProgress'.item = i /\ lastProgress'.text = Following(n, w) /\ w <= Len(shown'[i])
    BY <1>4, <2>2, <2>3
  <2>8. MessageIsTold(i)'
    BY <1>3, <1>5, <1>6, <2>3, <2>5, <2>7 DEF MessageIsTold, TellsOf
  <2>9. QED
    BY <2>2, <2>5, <2>6, <2>7, <2>8
<1>7. CASE ~(breaks /\ phaseOf[i] = "final_answer")
  <2>1. UNCHANGED <<lastProgress, told>>
    BY <1>2, <1>7 DEF Tell
  <2>2. /\ ~breaks => shown'[i] = shown[i] /\ streamed' = streamed
        /\ breaks => shown'[i] = Following(0, w) /\ i \in streamed' /\ phaseOf[i] # "final_answer"
    BY <1>1, <1>2, <1>3, <1>7 DEF ItemTypes
  <2>3. breaks => told[i] = <<>>
    <3>1. CASE i \in streamed
      BY <1>5, <1>7, <3>1 DEF MessageIsTold, TellsOf
    <3>2. CASE i \notin streamed
      <4>1. shown[i] = <<>>
        BY <1>2, <3>2, WholeText
      <4>2. QED
        BY <1>5, <4>1 DEF MessageIsTold
    <3>3. QED
      BY <3>1, <3>2
  <2>4. told'[i] = IF TellsOf(i)' THEN shown'[i] ELSE <<>>
    <3>1. CASE breaks
      BY <1>5, <2>1, <2>2, <2>3, <3>1 DEF TellsOf
    <3>2. CASE ~breaks
      BY <1>5, <2>1, <2>2, <3>2 DEF MessageIsTold, TellsOf
    <3>3. QED
      BY <3>1, <3>2
  <2>5. ASSUME lastProgress # NoText, lastProgress.item = i
        PROVE  \E a \in Nat, b \in Nat : /\ a < b /\ b <= Len(shown'[i])
                                          /\ lastProgress.text = Following(a, b)
    <3>1. PICK a \in Nat, b \in Nat : a < b /\ b <= n /\ lastProgress.text = Following(a, b)
      BY <1>1, <1>2, <1>5, <2>5 DEF MessageIsTold
    <3>2. Len(shown'[i]) = IF breaks THEN w ELSE n
      BY <1>2, <1>4, <2>2
    <3>3. b <= Len(shown'[i])
      BY <1>3, <3>1, <3>2
    <3>4. QED
      BY <3>1, <3>3
  <2>6. MessageIsTold(i)'
    BY <2>1, <2>4, <2>5 DEF MessageIsTold
  <2>7. QED
    BY <2>1, <2>6 DEF MessagesAreTold
<1>8. QED
  BY <1>6, <1>7

\* A message that is completed is told as it is shown.
LEMMA WholeIsTold ==
  ASSUME ItemInv, MessagesAreTold, NEW i \in AgentMessages, i \notin completed, i \in completed',
         CompleteMessage(i), UNCHANGED <<phaseOf, written>>
  PROVE  /\ MessageIsTold(i)' /\ told' \in [AgentMessages -> Seq(Nat)]
         /\ \A j \in AgentMessages : j # i => told'[j] = told[j]
         /\ lastProgress' = lastProgress \/ (lastProgress'.item = i /\ lastProgress' # NoText)
<1>1. ItemTypes /\ i \in Streamed /\ i \in Items /\ TextIsKept(i) /\ OpenText(i) /\ LastWasShown
  BY ItemKinds DEF ItemInv, TextIsKept
<1>2. CASE i \in streamed
  <2>1. FlushMessage(i, TRUE)
    BY <1>2 DEF CompleteMessage
  <2>2. QED
    BY <2>1, FlushTells
<1>3. CASE i \notin streamed
  <2>1. streamed' = streamed /\ shown' \in [Items -> Seq(Nat)] /\ shown'[i] = Following(0, written[i])
    BY MessageIsWhole
  <2>2. stored[i] = Following(0, written[i]) /\ stored[i] \in Seq(Nat)
    BY <1>1 DEF TextIsKept, ItemTypes
  <2>3. shown[i] = <<>> /\ told[i] = <<>> /\ told \in [AgentMessages -> Seq(Nat)]
    <3>1. shown[i] = Following(0, 0)
      BY <1>1, <1>3 DEF OpenText
    <3>2. shown[i] = <<>>
      BY <3>1, WholeText
    <3>3. QED
      BY <3>2 DEF MessagesAreTold, MessageIsTold
  <2>4. CASE stored[i] # <<>> /\ phaseOf[i] = "commentary"
    <3> DEFINE text == [item |-> i, text |-> stored[i]]
    <3>1. text # NoText /\ text.item = i
      BY <2>4 DEF NoText
    <3>2. lastProgress # text
      BY <1>1, <1>3, <3>1 DEF LastWasShown
    <3>3. lastProgress' = text /\ told' = [told EXCEPT ![i] = told[i] \o stored[i]]
      BY <1>3, <2>4, <3>2 DEF CompleteMessage, Tell
    <3>4. \A sequence \in Seq(Nat) : <<>> \o sequence = sequence
      BY ConcatEmptySeq
    <3>5. told' = [told EXCEPT ![i] = stored[i]]
      BY <2>2, <2>3, <3>3, <3>4
    <3>6. told'[i] = shown'[i] /\ told' \in [AgentMessages -> Seq(Nat)]
          /\ \A j \in AgentMessages : j # i => told'[j] = told[j]
      BY <2>1, <2>2, <2>3, <3>5
    <3>7. MessageIsTold(i)'
      BY <1>3, <2>1, <2>4, <3>6 DEF MessageIsTold, TellsOf
    <3>8. QED
      BY <3>1, <3>3, <3>6, <3>7
  <2>5. CASE ~(stored[i] # <<>> /\ phaseOf[i] = "commentary")
    <3>1. UNCHANGED <<lastProgress, told>>
      BY <1>3, <2>5 DEF CompleteMessage
    <3>2. TellsOf(i)' => shown'[i] = <<>>
      BY <1>3, <2>1, <2>2, <2>5 DEF TellsOf
    <3>3. QED
      BY <2>3, <3>1, <3>2 DEF MessageIsTold
  <2>6. QED
    BY <2>4, <2>5
<1>4. QED
  BY <1>2, <1>3

\* Every message is told as it is shown, whatever steps.
LEMMA MessagesStayTold ==
  ASSUME ItemInv, MessagesAreTold, [ItemNext]_itemVars
  PROVE  MessagesAreTold'
<1>1. told \in [AgentMessages -> Seq(Nat)] /\ \A j \in AgentMessages : MessageIsTold(j)
  BY DEF MessagesAreTold
<1>2. ASSUME UNCHANGED <<phaseOf, shown, told, streamed, lastProgress>>, completed \subseteq completed'
      PROVE  MessagesAreTold'
  BY <1>1, <1>2 DEF MessagesAreTold, MessageIsTold, TellsOf
<1>3. ASSUME NEW i \in Items, TextStep(i), UNCHANGED phaseOf,
             told' \in [AgentMessages -> Seq(Nat)],
             \A j \in AgentMessages : j # i => told'[j] = told[j],
             lastProgress' = lastProgress \/ (lastProgress'.item = i /\ lastProgress' # NoText),
             i \in AgentMessages => MessageIsTold(i)'
      PROVE  MessagesAreTold'
  <2> SUFFICES ASSUME NEW j \in AgentMessages, j # i PROVE MessageIsTold(j)'
    BY <1>3 DEF MessagesAreTold
  <2>1. /\ told'[j] = told[j] /\ shown'[j] = shown[j]
        /\ j \in streamed <=> j \in streamed'
        /\ j \in completed <=> j \in completed'
    BY <1>3, ItemKinds DEF TextStep
  <2>2. lastProgress'.item = j => lastProgress' = lastProgress
    BY <1>3
  <2>3. MessageIsTold(j)
    BY <1>1
  <2>4. QED
    BY <1>3, <2>1, <2>2, <2>3 DEF MessageIsTold, TellsOf
<1>4. ASSUME NEW i \in Items, StartMessage(i) PROVE MessagesAreTold'
  <2>1. /\ i \in AgentMessages /\ i \notin completed /\ UNCHANGED <<phaseOf, written>>
        /\ \E force \in BOOLEAN : FlushMessage(i, force)
    BY <1>4 DEF StartMessage, ItemInv, ItemTypes
  <2>2. TextStep(i)
    BY <1>4, <2>1, MessageStarts
  <2>3. QED
    BY <1>3, <2>1, <2>2, FlushTells
<1>5. ASSUME NEW i \in Items, TextDelta(i) PROVE MessagesAreTold'
  <2>1. TextStep(i) /\ UNCHANGED phaseOf
    BY <1>5, PieceIsPending DEF TextDelta
  <2>2. CASE i \in AgentMessages
    BY <1>3, <1>5, <2>1, <2>2, PieceIsTold
  <2>3. CASE i \notin AgentMessages
    <3>1. \E breaks \in BOOLEAN : Join(i, breaks)
      BY <1>5 DEF TextDelta
    <3>3. UNCHANGED <<lastProgress, told>>
      BY <2>3, <3>1 DEF Join, Tell
    <3>2. QED
      BY <1>1, <1>3, <2>1, <2>3, <3>3
  <2>4. QED
    BY <2>2, <2>3
<1>6. ASSUME NEW i \in Items, HandleCompleted(i), listed'.left \subseteq Items PROVE MessagesAreTold'
  <2>1. TextStep(i) /\ UNCHANGED <<phaseOf, written>>
    BY <1>6, CompletedIsWhole DEF HandleCompleted
  <2>2. CASE Handled(i)
    BY <1>2, <1>6, <2>2 DEF HandleCompleted
  <2>3. CASE ~Handled(i) /\ i \in AgentMessages
    <3>1. i \notin completed /\ i \in completed' /\ CompleteMessage(i)
      BY <1>6, <2>3, ItemAssumption DEF HandleCompleted, Handled
    <3>2. QED
      BY <1>3, <2>1, <2>3, <3>1, WholeIsTold
  <2>4. CASE ~Handled(i) /\ i \notin AgentMessages
    <3>1. UNCHANGED <<lastProgress, told>>
      BY <1>6, <2>4 DEF HandleCompleted, CompleteReasoning, CompleteOther
    <3>2. QED
      BY <1>1, <1>3, <2>1, <2>4, <3>1
  <2>5. QED
    BY <2>2, <2>3, <2>4
<1>7. ASSUME NEW i \in Items, CompleteItem(i) \/ ListItem(i) PROVE MessagesAreTold'
  <2>1. HandleCompleted(i) /\ listed'.left \subseteq Items
    <3>1. listed.left \subseteq Items
      BY DEF ItemInv, ItemTypes
    <3>2. CASE CompleteItem(i)
      BY <3>1, <3>2 DEF CompleteItem
    <3>3. CASE ListItem(i)
      <4>1. listed'.left = listed.left \ {i}
        BY <3>3 DEF ListItem
      <4>2. QED
        BY <3>1, <3>3, <4>1 DEF ListItem
    <3>4. QED
      BY <1>7, <3>2, <3>3
  <2>2. QED
    BY <1>6, <2>1
<1>8. ASSUME NEW i \in Items, StartOther(i) \/ PlanDelta(i) PROVE MessagesAreTold'
  BY <1>2, <1>8 DEF StartOther, PlanDelta
<1>9. CASE CompleteTurn \/ UNCHANGED itemVars
  BY <1>2, <1>9 DEF CompleteTurn, itemVars
<1>10. QED
  BY <1>4, <1>5, <1>7, <1>8, <1>9 DEF ItemNext

\* The client is shown a Codex turn as it was: every text in order, once and whole, as
\* TextDelivery promises, and every tool with one end, for every number of items and of
\* pieces (codexAppServerHandleItem).
THEOREM ItemsCorrect == ItemSpec => TurnIsShown
<1>1. ItemInit => ItemInv /\ MessagesAreTold /\ Delivery!DeliveryInit
  <2> SUFFICES ASSUME ItemInit PROVE ItemInv /\ MessagesAreTold /\ Delivery!DeliveryInit
    OBVIOUS
  <2>1. <<>> \in Seq(Nat) /\ Following(0, 0) = <<>>
    BY WholeText
  <2>2. /\ phaseOf \in [AgentMessages -> Phases]
        /\ \A i \in Items : /\ written[i] = 0 /\ stored[i] = <<>> /\ pending[i] = <<>>
                            /\ shown[i] = <<>> /\ updates[i] = 0
        /\ recorded = {} /\ streamed = {} /\ completed = {}
        /\ lastAnswer = NoText /\ lastProgress = NoText /\ listed.left = {}
    BY DEF ItemInit, NotOver
  <2>3. ItemTypes
    BY <2>1 DEF ItemInit, ItemTypes, NotOver
  <2>4. \A i \in Streamed : TextIsKept(i)
    BY <2>1, <2>2, ItemKinds DEF TextIsKept, OpenText
  <2>5. LastWasShown /\ ToolsAreCounted
    BY <2>2 DEF LastWasShown, ToolsAreCounted, Items
  <2>8. MessagesAreTold
    BY <2>1, <2>2, ItemKinds DEF ItemInit, MessagesAreTold, MessageIsTold
  <2>6. Delivery!DeliveryInit
    BY <2>2, ItemKinds DEF Delivery!DeliveryInit
  <2>7. QED
    BY <2>3, <2>4, <2>5, <2>6, <2>8 DEF ItemInv
<1>2. ItemInv /\ [ItemNext]_itemVars
        => ItemInv' /\ [\A i \in Streamed : TextIsDelivered(i)]_itemVars
  <2>1. ItemInv /\ ItemNext => ItemInv' /\ \A i \in Streamed : TextIsDelivered(i)
    BY ItemSteps, ToolsStayCounted DEF ItemInv
  <2>2. ItemInv /\ UNCHANGED itemVars => ItemInv'
    BY DEF itemVars, ItemInv, ItemTypes, LastWasShown, ToolsAreCounted, TextIsKept, OpenText
  <2>3. QED
    BY <2>1, <2>2
<1>3. ItemInv /\ ItemInv' /\ [\A i \in Streamed : TextIsDelivered(i)]_itemVars =>
        [Delivery!DeliveryNext]_<<[i \in Streamed |-> written[i]], [i \in Streamed |-> shown[i]],
                                  completed \cap Streamed>>
  <2>1. ASSUME ItemTypes, ItemTypes', NEW i \in Streamed, TextIsDelivered(i)
        PROVE  Delivery!Delivered(i)
    <3>1. \A n \in Nat : Delivery!UpTo(n) = Following(0, n)
      BY DEF Delivery!UpTo, Following
    <3>2. Len(shown[i]) \in Nat /\ written'[i] \in Nat
      BY <2>1, ItemKinds DEF ItemTypes
    <3>3. Len(shown[i]) .. written'[i] \subseteq Nat
      BY <3>2
    <3>4. QED
      BY <2>1, <3>1, <3>2, <3>3 DEF TextIsDelivered, Delivery!Delivered
  <2>2. ItemTypes /\ ItemTypes' /\ (\A i \in Streamed : TextIsDelivered(i)) => Delivery!DeliveryNext
    BY <2>1 DEF Delivery!DeliveryNext
  <2>3. QED
    BY <2>2 DEF itemVars, ItemInv
<1>4. ItemInv => ToolEndsOnce
  BY DEF ItemInv, ToolsAreCounted, ToolEndsOnce
<1>5. ItemInv /\ MessagesAreTold /\ [ItemNext]_itemVars => MessagesAreTold'
  BY MessagesStayTold
<1>6. MessagesAreTold => TextsAreTold
  BY DEF MessagesAreTold, MessageIsTold, TellsOf, TextsAreTold
<1>7. QED
  BY <1>1, <1>2, <1>3, <1>4, <1>5, <1>6, PTL DEF ItemSpec, TurnIsShown, ItemsAreDelivered, Delivery!DeliverySpec

-----------------------------------------------------------------------------
(* The stream of a Claude turn.                                             *)

StreamTypes ==
  /\ made \in [TextBlocks -> Nat] /\ view \in [TextBlocks -> Seq(Nat)]
  /\ open \in Blocks \cup {NoBlock} /\ tail \in {"stream", "repeat", NoBlock}
  /\ begun \subseteq Blocks /\ due \subseteq begun \cap TextBlocks
  /\ toolCalls \subseteq begun
  /\ last \in (begun \cap TextBlocks) \cup {NoBlock}

\* a text is written once begun, and shown when it is due
ShownWhenDue ==
  \A t \in TextBlocks : /\ t \notin begun => made[t] = 0
                        /\ view[t] = IF t \in due THEN Following(0, made[t]) ELSE <<>>

\* what is streamed is known to the turn, and is no text that was shown
OpenIsKnown ==
  /\ open \in TextBlocks => open = last /\ open \in streamState /\ open \notin due
  /\ open \in Calls => open \in toolCalls

\* the last text is the only one that is not due, and waits once it has stopped
LastWaits ==
  over = "no" =>
    /\ \A t \in begun \cap TextBlocks : t \in due \/ t = last
    /\ narration = IF /\ last # NoBlock /\ last \notin due /\ made[last] > 0
                      /\ ~(open = last /\ tail = "stream")
                   THEN <<last>> ELSE <<>>

StreamInv == StreamTypes /\ ShownWhenDue /\ OpenIsKnown /\ LastWaits

\* what TextDelivery asks of a step of the stream
ViewIsDelivered(t) ==
  \/ /\ t \notin due
     /\ made'[t] >= made[t]
     /\ \E n \in Len(view[t]) .. made'[t] : view'[t] = Following(0, n)
     /\ t \in due' => view'[t] = Following(0, made'[t])
  \/ /\ made'[t] = made[t] /\ view'[t] = view[t]
     /\ t \in due <=> t \in due'

\* A text that waits is shown once when the narration is, and no other is.
LEMMA ShowsOnce ==
  ASSUME NEW t \in TextBlocks, made[t] \in Nat
  PROVE  /\ Shows(t, <<>>) = <<>>
         /\ \A u : Shows(t, <<u>>) = IF t = u THEN Following(0, made[t]) ELSE <<>>
<1> DEFINE places(texts) == {n \in DOMAIN texts : texts[n] = t}
<1>1. ASSUME NEW texts, Cardinality(places(texts)) = 0 PROVE Shows(t, texts) = <<>>
  <2>1. Shows(t, texts) =
          [k \in 1 .. (Cardinality(places(texts)) * made[t]) |-> ((k - 1) % made[t]) + 1]
    BY Zenon DEF Shows
  <2>2. 1 .. (Cardinality(places(texts)) * made[t]) = {}
    BY <1>1
  <2>3. QED
    BY <2>1, <2>2
<1>2. \A texts : Cardinality(places(texts)) = 1 => Shows(t, texts) = Following(0, made[t])
  <2>1. \A k \in 1 .. made[t] : ((k - 1) % made[t]) + 1 = k
    OBVIOUS
  <2>2. ASSUME NEW texts, Cardinality(places(texts)) = 1
        PROVE  Shows(t, texts) = [k \in 1 .. made[t] |-> ((k - 1) % made[t]) + 1]
    <3>1. Shows(t, texts) =
            [k \in 1 .. (Cardinality(places(texts)) * made[t]) |-> ((k - 1) % made[t]) + 1]
      BY Zenon DEF Shows
    <3>2. Cardinality(places(texts)) * made[t] = made[t]
      BY <2>2
    <3>3. QED
      BY <3>1, <3>2
  <2>3. Following(0, made[t]) = [k \in 1 .. made[t] |-> k]
    BY DEF Following
  <2>4. QED
    BY <2>1, <2>2, <2>3
<1>3. places(<<>>) = {} /\ Cardinality({}) = 0
  BY FS_EmptySet
<1>4. \A u : u = t => places(<<u>>) = {1} /\ Cardinality({1}) = 1
  BY FS_Singleton
<1>5. \A u : u # t => places(<<u>>) = {}
  OBVIOUS
<1> HIDE DEF places
<1>6. QED
  BY <1>1, <1>2, <1>3, <1>4, <1>5

\* What shows the waiting texts when nothing is open: each of them is due and shown.
LEMMA DueIsShown ==
  ASSUME StreamInv, over = "no", open = NoBlock, made' = made, due' = due \cup DueNow,
         NEW texts,
         texts = narration \/ (last # NoBlock /\ made[last] > 0 /\ last \notin due /\ texts = <<last>>),
         view' = [t \in TextBlocks |-> view[t] \o Shows(t, texts)]
  PROVE  /\ view' \in [TextBlocks -> Seq(Nat)]
         /\ due' \subseteq begun \cap TextBlocks
         /\ \A t \in begun \cap TextBlocks : made[t] > 0 => t \in due'
         /\ \A t \in TextBlocks :
              /\ view'[t] = IF t \in due' THEN Following(0, made[t]) ELSE <<>>
              /\ ViewIsDelivered(t)
<1>1. /\ StreamTypes /\ ShownWhenDue /\ LastWaits
  BY DEF StreamInv
<1>2. NoBlock \notin Blocks
  BY BlockAssumption DEF NoBlock
<1>3. texts = IF last # NoBlock /\ last \notin due /\ made[last] > 0 THEN <<last>> ELSE <<>>
  BY <1>1, <1>2 DEF LastWaits
<1>4. due' = due \cup {t \in begun \cap TextBlocks : made[t] > 0}
  BY <1>1, <1>2 DEF DueNow, Blocks, StreamTypes
<1>5. ASSUME NEW t \in TextBlocks
      PROVE  /\ view'[t] \in Seq(Nat)
             /\ view'[t] = IF t \in due' THEN Following(0, made[t]) ELSE <<>>
             /\ ViewIsDelivered(t)
  <2>1. made[t] \in Nat /\ view[t] \in Seq(Nat) /\ view'[t] = view[t] \o Shows(t, texts)
    BY <1>1 DEF StreamTypes
  <2>2. view[t] = IF t \in due THEN Following(0, made[t]) ELSE <<>>
    BY <1>1 DEF ShownWhenDue
  <2>3. Following(0, made[t]) \in Seq(Nat) /\ Following(0, 0) = <<>> /\ Len(<<>>) = 0
    BY <2>1, WholeText
  <2>4. view[t] \o <<>> = view[t] /\ <<>> \o Following(0, made[t]) = Following(0, made[t])
    BY <2>1, <2>3, ConcatEmptySeq
  <2>5. CASE t = last /\ t \notin due /\ made[t] > 0
    <3>1. Shows(t, texts) = Following(0, made[t])
      BY <1>2, <1>3, <2>1, <2>5, ShowsOnce DEF Blocks
    <3>2. t \in due'
      BY <1>1, <1>2, <1>4, <2>5 DEF StreamTypes, Blocks
    <3>3. view'[t] = Following(0, made[t])
      BY <2>1, <2>2, <2>4, <2>5, <3>1
    <3>4. made[t] \in Len(view[t]) .. made'[t] /\ made'[t] >= made[t]
      BY <2>1, <2>2, <2>3, <2>5
    <3>5. QED
      <4>1. view'[t] = Following(0, made'[t])
        BY <3>3
      <4>2. QED
        BY <2>3, <2>5, <3>2, <3>3, <3>4, <4>1 DEF ViewIsDelivered
  <2>6. CASE ~(t = last /\ t \notin due /\ made[t] > 0)
    <3>1. Shows(t, texts) = <<>>
      BY <1>2, <1>3, <2>1, <2>6, ShowsOnce DEF Blocks
    <3>2. view'[t] = view[t]
      BY <2>1, <2>4, <3>1
    <3>3. t \in due' <=> t \in due
      BY <1>1, <1>4, <2>6 DEF LastWaits
    <3>4. QED
      BY <2>1, <2>2, <3>2, <3>3 DEF ViewIsDelivered
  <2>7. QED
    BY <2>5, <2>6
<1>6. view' \in [TextBlocks -> Seq(Nat)]
  BY <1>5
<1>7. QED
  BY <1>1, <1>4, <1>5, <1>6 DEF StreamTypes

\* what a step of the stream keeps, and what it shows
StepIsDelivered == StreamInv' /\ \A t \in TextBlocks : ViewIsDelivered(t)

\* A block begins when nothing is open, and the text before it has been shown.
LEMMA BlockBegins ==
  ASSUME StreamInv, NEW b \in Blocks, MayBegin(b)
  PROVE  /\ over = "no" /\ open = NoBlock /\ b \notin begun /\ b # NoBlock
         /\ b \notin toolCalls /\ b \notin due
         /\ b \in TextBlocks => /\ narration = <<>> /\ made[b] = 0 /\ view[b] = <<>>
                                /\ \A t \in begun \cap TextBlocks : t \in due
BY BlockAssumption DEF StreamInv, StreamTypes, ShownWhenDue, LastWaits, MayBegin, InTurn,
                       NoBlock, Blocks

\* A tool call that begins shows what waits.
LEMMA CallBegins ==
  ASSUME StreamInv, NEW b \in Calls, MayBegin(b), Register(b), due' = due \cup DueNow,
         made' = made, last' = last, begun' = begun \cup {b}, over' = over,
         \/ open' = b /\ tail' = "stream"
         \/ UNCHANGED <<open, tail>>
  PROVE  StepIsDelivered
<1>1. /\ over = "no" /\ open = NoBlock /\ b \notin begun /\ b # NoBlock
      /\ b \notin toolCalls /\ b \in Blocks
  BY BlockBegins DEF Blocks
<1>2. ShowNarration /\ toolCalls' = toolCalls \cup {b}
  BY <1>1 DEF Register
<1>3. /\ view' \in [TextBlocks -> Seq(Nat)]
      /\ due' \subseteq begun \cap TextBlocks
      /\ \A t \in begun \cap TextBlocks : made[t] > 0 => t \in due'
      /\ \A t \in TextBlocks :
           /\ view'[t] = IF t \in due' THEN Following(0, made[t]) ELSE <<>>
           /\ ViewIsDelivered(t)
  BY <1>1, <1>2, DueIsShown DEF ShowNarration
<1>4. b \notin TextBlocks /\ NoBlock \notin TextBlocks
  BY BlockAssumption DEF Blocks, NoBlock
<1>5. StreamTypes'
  BY <1>1, <1>2, <1>3, <1>4 DEF StreamInv, StreamTypes
<1>6. ShownWhenDue'
  BY <1>3 DEF StreamInv, ShownWhenDue
<1>7. OpenIsKnown'
  BY <1>1, <1>2, <1>4 DEF StreamInv, StreamTypes, OpenIsKnown, NoBlock
<1>8. LastWaits'
  <2>1. \A t \in begun' \cap TextBlocks : t \in begun \cap TextBlocks
    BY <1>4
  <2>2. \A t \in begun \cap TextBlocks : t \in due' \/ t = last
    BY <1>1, <1>3 DEF StreamInv, LastWaits, StreamTypes, DueNow
  <2>3. last # NoBlock => last \in begun \cap TextBlocks
    BY DEF StreamInv, StreamTypes
  <2>4. narration' = <<>>
    BY <1>2 DEF ShowNarration
  <2>5. QED
    BY <1>1, <1>3, <2>1, <2>2, <2>3, <2>4 DEF LastWaits
<1>9. QED
  BY <1>3, <1>5, <1>6, <1>7, <1>8 DEF StepIsDelivered, StreamInv

\* A step that writes and shows nothing delivers what was delivered.
LEMMA NothingShown ==
  ASSUME ShownWhenDue, UNCHANGED <<made, view, due>>, begun \subseteq begun'
  PROVE  ShownWhenDue' /\ \A t \in TextBlocks : ViewIsDelivered(t)
BY DEF ShownWhenDue, ViewIsDelivered

\* A block of the stream begins: a tool call shows what waits, a text shows nothing.
LEMMA BlockStarts ==
  ASSUME StreamInv, NEW b \in Blocks, StartBlock(b)
  PROVE  StepIsDelivered
<1>1. CASE b \in Calls
  BY <1>1, BlockAssumption, CallBegins DEF StartBlock, Blocks
<1>2. CASE b \in TextBlocks
  <2>1. b \notin Calls /\ NoBlock \notin Blocks
    BY <1>2, BlockAssumption DEF NoBlock
  <2>2. /\ over = "no" /\ open = NoBlock /\ b \notin begun /\ b \notin due
        /\ narration = <<>> /\ made[b] = 0
        /\ \A t \in begun \cap TextBlocks : t \in due
    BY <1>2, BlockBegins DEF StartBlock
  <2>3. /\ UNCHANGED <<made, view, due, narration, toolCalls, over>>
        /\ open' = b /\ tail' = "stream" /\ begun' = begun \cup {b} /\ last' = b
        /\ streamState' = streamState \cup {b}
    BY <1>2, <2>1 DEF StartBlock
  <2>4. StreamTypes'
    BY <1>2, <2>3 DEF StreamInv, StreamTypes
  <2>5. OpenIsKnown' /\ LastWaits'
    BY <1>2, <2>1, <2>2, <2>3 DEF OpenIsKnown, LastWaits
  <2>6. QED
    BY <2>3, <2>4, <2>5, NothingShown DEF StepIsDelivered, StreamInv
<1>3. QED
  BY <1>1, <1>2 DEF Blocks

\* A delta is written to the text that is open, which has not been shown.
LEMMA TextIsWritten ==
  ASSUME StreamInv, NEW t \in TextBlocks, TextPart(t)
  PROVE  StepIsDelivered
<1>1. /\ open = t /\ t = last /\ t \notin due /\ t \in begun /\ tail = "stream"
      /\ made' = [made EXCEPT ![t] = @ + 1]
      /\ UNCHANGED <<open, tail, begun, streamState, narration, toolCalls, view, due, last, over>>
  BY BlockAssumption DEF TextPart, StreamInv, OpenIsKnown, StreamTypes, NoBlock, Blocks
<1>2. made \in [TextBlocks -> Nat] /\ view[t] = <<>> /\ Following(0, 0) = <<>>
  BY <1>1, WholeText DEF StreamInv, StreamTypes, ShownWhenDue
<1>3. StreamTypes' /\ OpenIsKnown'
  BY <1>1 DEF StreamInv, StreamTypes, OpenIsKnown
<1>4. ShownWhenDue'
  BY <1>1, <1>2 DEF StreamInv, ShownWhenDue
<1>5. LastWaits'
  BY <1>1 DEF StreamInv, LastWaits
<1>6. ASSUME NEW u \in TextBlocks PROVE ViewIsDelivered(u)
  <2>1. CASE u = t
    <3>1. 0 \in Len(view[t]) .. made'[t] /\ made'[t] >= made[t]
      BY <1>1, <1>2
    <3>2. view'[t] = Following(0, 0)
      BY <1>1, <1>2
    <3>3. QED
      BY <1>1, <2>1, <3>1, <3>2 DEF ViewIsDelivered
  <2>2. CASE u # t
    BY <1>1, <1>2, <2>2 DEF ViewIsDelivered
  <2>3. QED
    BY <2>1, <2>2
<1>7. QED
  BY <1>3, <1>4, <1>5, <1>6 DEF StepIsDelivered, StreamInv

\* A repetition of a block that was streamed shows nothing and lets nothing wait again.
LEMMA BlockRepeats ==
  ASSUME StreamInv, NEW b \in Blocks, RepeatBlock(b)
  PROVE  StepIsDelivered
<1>1. UNCHANGED <<made, view, due, begun, streamState, narration, toolCalls, last, over>>
  BY BlockAssumption DEF RepeatBlock, Register, Buffered, StreamInv, OpenIsKnown, Blocks
<1>2. /\ open = b /\ b # NoBlock
      /\ \/ open' = open /\ tail' = tail
         \/ open' = NoBlock /\ tail' = NoBlock /\ tail = "repeat"
  BY BlockAssumption DEF RepeatBlock, NoBlock
<1>3. StreamTypes' /\ OpenIsKnown'
  BY <1>1, <1>2, BlockAssumption DEF StreamInv, StreamTypes, OpenIsKnown, NoBlock, Blocks
<1>4. LastWaits'
  BY <1>1, <1>2 DEF StreamInv, LastWaits, NoBlock
<1>5. QED
  BY <1>1, <1>3, <1>4, NothingShown DEF StepIsDelivered, StreamInv

\* A text that stops waits, if anything was written of it.
LEMMA BlockStops ==
  ASSUME StreamInv, NEW b \in Blocks, StopBlock(b)
  PROVE  StepIsDelivered
<1>1. UNCHANGED <<made, view, due, begun, streamState, toolCalls, last, over>>
  BY DEF StopBlock
<1>2. /\ open = b /\ b # NoBlock /\ tail = "stream"
      /\ \/ open' = open /\ tail' = "repeat"
         \/ open' = NoBlock /\ tail' = NoBlock
      /\ narration' = IF b \in TextBlocks /\ made[b] > 0 THEN Append(narration, b) ELSE narration
  BY BlockAssumption DEF StopBlock, NoBlock
<1>3. StreamTypes' /\ OpenIsKnown'
  BY <1>1, <1>2, BlockAssumption DEF StreamInv, StreamTypes, OpenIsKnown, NoBlock, Blocks
<1>4. LastWaits'
  <2> SUFFICES ASSUME over = "no" PROVE LastWaits'
    BY <1>1 DEF LastWaits
  <2>1. CASE b \in TextBlocks
    <3>1. b = last /\ last \notin due /\ narration = <<>>
      BY <1>2, <2>1 DEF StreamInv, OpenIsKnown, LastWaits
    <3>2. Append(<<>>, b) = <<b>>
      OBVIOUS
    <3>3. QED
      BY <1>1, <1>2, <2>1, <3>1, <3>2 DEF StreamInv, LastWaits, NoBlock
  <2>2. CASE b \notin TextBlocks
    <3>1. last = NoBlock \/ (open # last /\ open' # last)
      BY <1>2, <2>2, BlockAssumption DEF StreamInv, StreamTypes, NoBlock, Blocks
    <3>2. QED
      BY <1>1, <1>2, <2>2, <3>1 DEF StreamInv, LastWaits
  <2>3. QED
    BY <2>1, <2>2
<1>5. QED
  BY <1>1, <1>3, <1>4, NothingShown DEF StepIsDelivered, StreamInv

\* A message that was not streamed brings a whole text, which waits, or a tool call.
LEMMA BlockComesWhole ==
  ASSUME StreamInv, NEW b \in Blocks, WholeBlock(b)
  PROVE  StepIsDelivered
<1>1. CASE b \in Calls
  BY <1>1, BlockAssumption, CallBegins DEF WholeBlock, Blocks
<1>2. CASE b \in TextBlocks
  <2>1. b \notin Calls /\ NoBlock \notin Blocks
    BY <1>2, BlockAssumption DEF NoBlock
  <2>2. /\ over = "no" /\ open = NoBlock /\ b \notin begun /\ b \notin due
        /\ narration = <<>> /\ made[b] = 0 /\ view[b] = <<>>
        /\ \A t \in begun \cap TextBlocks : t \in due
    BY <1>2, BlockBegins DEF WholeBlock
  <2>3. /\ UNCHANGED <<view, due, open, tail, toolCalls, streamState, over>>
        /\ begun' = begun \cup {b} /\ last' = b
        /\ made' = [made EXCEPT ![b] = 1] /\ narration' = Append(narration, b)
    BY <1>2, <2>1 DEF WholeBlock
  <2>4. made \in [TextBlocks -> Nat] /\ Following(0, 0) = <<>>
    BY WholeText DEF StreamInv, StreamTypes
  <2>5. StreamTypes' /\ OpenIsKnown'
    BY <1>2, <2>1, <2>2, <2>3 DEF StreamInv, StreamTypes, OpenIsKnown, Blocks
  <2>6. LastWaits'
    <3>1. narration' = <<b>> /\ made'[b] = 1
      BY <1>2, <2>2, <2>3, <2>4
    <3>2. QED
      BY <1>2, <2>1, <2>2, <2>3, <3>1 DEF LastWaits, Blocks
  <2>7. ShownWhenDue'
    BY <2>2, <2>3 DEF StreamInv, ShownWhenDue
  <2>8. ASSUME NEW u \in TextBlocks PROVE ViewIsDelivered(u)
    <3>1. CASE u = b
      <4>1. 0 \in Len(view[b]) .. made'[b] /\ made'[b] >= made[b]
        BY <1>2, <2>2, <2>3, <2>4
      <4>2. view'[b] = Following(0, 0)
        BY <2>2, <2>3, <2>4
      <4>3. QED
        BY <2>2, <2>3, <3>1, <4>1, <4>2 DEF ViewIsDelivered
    <3>2. CASE u # b
      BY <2>3, <2>4, <3>2 DEF ViewIsDelivered
    <3>3. QED
      BY <3>1, <3>2
  <2>9. QED
    BY <2>5, <2>6, <2>7, <2>8 DEF StepIsDelivered, StreamInv
<1>3. QED
  BY <1>1, <1>2 DEF Blocks

\* The result of the turn shows what waits, from what it repeats or from the narration,
\* or nothing for a /compact.
LEMMA TurnEnds ==
  ASSUME StreamInv, EndSuccess
  PROVE  StepIsDelivered
<1>1. /\ over = "no" /\ open = NoBlock /\ over' = "completed"
      /\ UNCHANGED <<made, open, begun, tail, streamState, toolCalls, last>>
  BY DEF EndSuccess, InTurn
<1>2. LastWaits' /\ OpenIsKnown'
  BY <1>1, BlockAssumption DEF LastWaits, OpenIsKnown, NoBlock, Blocks
<1>3. CASE menu = "compact"
  <2>1. UNCHANGED <<view, due>>
    BY <1>3 DEF EndSuccess
  <2>2. StreamTypes'
    BY <1>1, <2>1 DEF StreamInv, StreamTypes
  <2>3. QED
    BY <1>1, <1>2, <2>1, <2>2, NothingShown DEF StepIsDelivered, StreamInv
<1>4. CASE menu # "compact"
  <2>1. PICK texts \in ResultTexts :
          /\ view' = [t \in TextBlocks |-> view[t] \o Shows(t, ClaudeAnswer(texts))]
          /\ due' = due \cup DueNow
    BY <1>4 DEF EndSuccess
  <2>2. \/ ClaudeAnswer(texts) = narration
        \/ /\ last # NoBlock /\ made[last] > 0 /\ last \notin due
           /\ ClaudeAnswer(texts) = <<last>>
    BY <2>1 DEF ResultTexts, ClaudeAnswer, StreamInv, StreamTypes
  <2>3. /\ view' \in [TextBlocks -> Seq(Nat)]
        /\ due' \subseteq begun \cap TextBlocks
        /\ \A t \in TextBlocks :
             /\ view'[t] = IF t \in due' THEN Following(0, made[t]) ELSE <<>>
             /\ ViewIsDelivered(t)
    BY <1>1, <2>1, <2>2, DueIsShown
  <2>4. StreamTypes' /\ ShownWhenDue'
    BY <1>1, <2>3 DEF StreamInv, StreamTypes, ShownWhenDue
  <2>5. QED
    BY <1>2, <2>3, <2>4 DEF StepIsDelivered, StreamInv
<1>5. QED
  BY <1>3, <1>4

\* The other steps of the stream show nothing.
LEMMA OtherLines ==
  ASSUME StreamInv, StartBlocks \/ EndError \/ \E x \in Calls : CallResult(x)
  PROVE  StepIsDelivered
<1>1. /\ UNCHANGED <<made, view, due, begun, open, tail, narration, toolCalls, last>>
      /\ over' = over \/ over' = "error"
      /\ streamState' = streamState \/ open = NoBlock
  BY DEF StartBlocks, EndError, CallResult
<1>2. StreamTypes' /\ OpenIsKnown' /\ LastWaits'
  BY <1>1, BlockAssumption DEF StreamInv, StreamTypes, OpenIsKnown, LastWaits, NoBlock, Blocks
<1>3. QED
  BY <1>1, <1>2, NothingShown DEF StepIsDelivered, StreamInv

\* The client is shown each text of a Claude turn once and whole, before the tool call
\* that follows it or when the turn ends, as TextDelivery promises, for every number of
\* blocks and deltas (claudeFlushNarration, claudeRegisterToolUse, claudeHandleResult).
THEOREM StreamCorrect == StreamSpec => TextsAreDelivered
<1>1. StreamInit => StreamInv /\ ClaudeDelivery!DeliveryInit
  <2>1. <<>> \in Seq(Nat) /\ Following(0, 0) = <<>>
    BY WholeText
  <2>2. ASSUME StreamInit PROVE StreamTypes
    <3>1. view \in [TextBlocks -> Seq(Nat)] /\ made \in [TextBlocks -> Nat]
      BY <2>1, <2>2 DEF StreamInit
    <3>2. begun = {} /\ due = {} /\ toolCalls = {} /\ last = NoBlock /\ open = NoBlock /\ tail = NoBlock
      BY <2>2 DEF StreamInit
    <3>3. QED
      BY <3>1, <3>2 DEF StreamTypes
  <2>3. StreamInit => ShownWhenDue
    BY <2>1 DEF StreamInit, ShownWhenDue
  <2>4. StreamInit => OpenIsKnown /\ LastWaits
    BY BlockAssumption DEF StreamInit, OpenIsKnown, LastWaits, NoBlock, Blocks
  <2>5. StreamInit => ClaudeDelivery!DeliveryInit
    BY DEF StreamInit, ClaudeDelivery!DeliveryInit
  <2>6. QED
    BY <2>2, <2>3, <2>4, <2>5 DEF StreamInv
<1>2. StreamInv /\ [StreamNext]_streamVars
        => StreamInv' /\ [\A t \in TextBlocks : ViewIsDelivered(t)]_streamVars
  <2>1. StreamInv /\ StreamNext => StepIsDelivered
    BY BlockStarts, TextIsWritten, BlockRepeats, BlockStops, BlockComesWhole, TurnEnds,
       OtherLines DEF StreamNext
  <2>2. StreamInv /\ UNCHANGED streamVars => StreamInv'
    BY DEF streamVars, StreamInv, StreamTypes, ShownWhenDue, OpenIsKnown, LastWaits
  <2>3. QED
    BY <2>1, <2>2 DEF StepIsDelivered
<1>3. StreamInv /\ StreamInv' /\ [\A t \in TextBlocks : ViewIsDelivered(t)]_streamVars
        => [ClaudeDelivery!DeliveryNext]_<<made, view, due>>
  <2>1. ASSUME StreamTypes, StreamTypes', NEW t \in TextBlocks, ViewIsDelivered(t)
        PROVE  ClaudeDelivery!Delivered(t)
    <3>1. \A n \in Nat : ClaudeDelivery!UpTo(n) = Following(0, n)
      BY DEF ClaudeDelivery!UpTo, Following
    <3>2. Len(view[t]) \in Nat /\ made'[t] \in Nat
      BY <2>1 DEF StreamTypes
    <3>3. Len(view[t]) .. made'[t] \subseteq Nat
      BY <3>2
    <3>4. QED
      BY <2>1, <3>1, <3>2, <3>3 DEF ViewIsDelivered, ClaudeDelivery!Delivered
  <2>2. StreamTypes /\ StreamTypes' /\ (\A t \in TextBlocks : ViewIsDelivered(t))
          => ClaudeDelivery!DeliveryNext
    BY <2>1 DEF ClaudeDelivery!DeliveryNext
  <2>3. QED
    BY <2>2 DEF streamVars, StreamInv
<1>4. QED
  BY <1>1, <1>2, <1>3, PTL DEF StreamSpec, TextsAreDelivered, ClaudeDelivery!DeliverySpec

-----------------------------------------------------------------------------
(* The set-up of Vibe.                                                      *)

Files == [visible : Visible \cup {"none", "edited"},
          query : Queries \cup {"none", "edited", ByMcp}]

SetupTypes ==
  /\ setupPc \in [Setups -> {"idle", "detected", "write", "fill", "intent", "migrate",
                             "patch", "refill", "bootstrap", "venv", "pip", "skills"}]
  /\ wanted \in [Setups -> Wants \cup {NoWant}]
  /\ selected \in [Setups -> Files] /\ config \in Files
  /\ intent \in Wants \cup {NoWant} /\ kept \in Wants \cup {NoWant}
  /\ answered \in [Setups -> {"none", "error", "configuration_error", "missing", "ready"}]
  /\ alone \in [Setups -> BOOLEAN]

\* a setup that runs wants a config and has answered nothing
RunningWants ==
  \A s \in Setups : ~At(s, "idle") => wanted[s] \in Wants /\ answered[s] = "none"

\* while a setup is alone, no other runs
LoneIsAlone == \A s, t \in Setups : alone[s] /\ t # s => At(t, "idle")

\* what a lone setup reads is the file, and what it goes on with, or answers ready on,
\* reads back as it wants
LoneIsApplied ==
  \A s \in Setups : alone[s] =>
    /\ At(s, "detected") => selected[s] = config
    /\ setupPc[s] \in {"intent", "migrate", "bootstrap", "venv", "pip", "skills"}
         => config.visible = wanted[s].visible
    /\ setupPc[s] \in {"write", "fill", "patch", "refill"}
         => selected[s].visible = wanted[s].visible
    /\ answered[s] = "ready" => /\ config.visible = wanted[s].visible /\ wanted[s] \in Wants
                                /\ venv \in {"foreign", "ready"}

\* while a config is kept no setup runs but a lone one, which writes it or nothing, and
\* the file reads back as the config unless it is about to be written
KeptIsApplied ==
  kept # NoWant =>
    /\ \A s \in Setups : alone[s] \/ At(s, "idle")
    /\ \A s \in Setups : setupPc[s] \notin {"idle", "detected"} => wanted[s] = kept
    /\ (\A s \in Setups : setupPc[s] \notin {"write", "fill", "refill"})
         => config.visible = kept.visible

SetupInv == SetupTypes /\ RunningWants /\ LoneIsAlone /\ LoneIsApplied /\ KeptIsApplied

\* What a file reads back as: a wish, or nothing the bridge writes.
LEMMA WantsAreFiles ==
  /\ Wants \subseteq Files /\ NoWant \notin Wants
  /\ NoWant \in Files /\ NoFile \in Files /\ Edited \in Files
  /\ NoFile \notin Wants /\ Edited \notin Wants
  /\ \A w \in Wants : w.visible \in Visible
  /\ \A f \in Files : /\ [f EXCEPT !.query = ByMcp] \in Files
                      /\ [f EXCEPT !.query = ByMcp].visible = f.visible
BY VisibleAssumption DEF Wants, Files, NoWant, NoFile, Edited

\* Each step of a setup keeps what the setups have established.
LEMMA SetupStep ==
  ASSUME SetupInv, NEW s \in Setups, VibeSetupStep(s)
  PROVE  SetupInv'
<1> USE WantsAreFiles DEF SetupInv, At, Goto
<1>1. CASE DetectHome(s)
  <2>1. Idle = Setups => \A t \in Setups : At(t, "idle")
    BY DEF Idle
  <2>2. /\ \A t \in Setups : alone'[t] <=> t = s /\ Idle = Setups
        /\ \A t \in Setups \ {s} : setupPc'[t] = setupPc[t]
        /\ setupPc'[s] = "detected"
    BY <1>1 DEF DetectHome, SetupTypes
  <2>3. SetupTypes'
    BY <1>1, <2>1, <2>2 DEF DetectHome, SetupTypes, Settle, Idle, homeVars, RunningWants
  <2>4. RunningWants'
    BY <1>1, <2>1, <2>2 DEF DetectHome, SetupTypes, Settle, Idle, homeVars, RunningWants
  <2>5. LoneIsAlone'
    BY <2>1, <2>2 DEF LoneIsAlone
  <2>6. LoneIsApplied'
    BY <1>1, <2>1, <2>2 DEF DetectHome, SetupTypes, Settle, Idle, homeVars,
       LoneIsApplied, LoneIsAlone, RunningWants
  <2>7. KeptIsApplied'
    BY <1>1, <2>1, <2>2 DEF DetectHome, SetupTypes, KeptIsApplied, LoneIsAlone,
       LoneIsApplied, RunningWants, Settle, homeVars
  <2>8. QED
    BY <2>3, <2>4, <2>5, <2>6, <2>7
<1>2. CASE CompareConfig(s)
  <2>1. SetupTypes'
    BY <1>2 DEF CompareConfig, SetupTypes, homeVars, RunningWants
  <2>2. RunningWants'
    BY <1>2 DEF CompareConfig, SetupTypes, homeVars, RunningWants
  <2>3. LoneIsAlone'
    BY <1>2 DEF CompareConfig, SetupTypes, homeVars, LoneIsAlone
  <2>4. LoneIsApplied'
    BY <1>2 DEF CompareConfig, SetupTypes, homeVars, LoneIsApplied, LoneIsAlone,
       RunningWants, IsReused, Matches
  <2>5. KeptIsApplied'
    BY <1>2 DEF CompareConfig, SetupTypes, homeVars, KeptIsApplied, LoneIsAlone,
       LoneIsApplied, RunningWants, IsReused, Matches
  <2>6. QED
    BY <2>1, <2>2, <2>3, <2>4, <2>5
<1>3. CASE TruncateConfig(s)
  <2>1. SetupTypes'
    BY <1>3 DEF TruncateConfig, SetupTypes, homeVars, Answer, RunningWants
  <2>2. RunningWants'
    BY <1>3 DEF TruncateConfig, SetupTypes, homeVars, Answer, RunningWants
  <2>3. LoneIsAlone'
    BY <1>3 DEF TruncateConfig, SetupTypes, homeVars, Answer, LoneIsAlone
  <2>4. LoneIsApplied'
    BY <1>3 DEF TruncateConfig, SetupTypes, homeVars, Answer, LoneIsApplied, LoneIsAlone,
       RunningWants
  <2>5. KeptIsApplied'
    BY <1>3 DEF TruncateConfig, SetupTypes, homeVars, Answer, KeptIsApplied, LoneIsAlone,
       LoneIsApplied, RunningWants
  <2>6. QED
    BY <2>1, <2>2, <2>3, <2>4, <2>5
<1>10. CASE FillConfig(s)
  <2>1. SetupTypes'
    BY <1>10 DEF FillConfig, SetupTypes, homeVars, Answer, RunningWants, Filling
  <2>2. RunningWants'
    BY <1>10 DEF FillConfig, SetupTypes, homeVars, Answer, RunningWants, Filling
  <2>3. LoneIsAlone'
    BY <1>10 DEF FillConfig, SetupTypes, homeVars, Answer, LoneIsAlone, Filling
  <2>4. LoneIsApplied'
    BY <1>10 DEF FillConfig, SetupTypes, homeVars, Answer, LoneIsApplied, LoneIsAlone,
       RunningWants, Filling
  <2>5. KeptIsApplied'
    BY <1>10 DEF FillConfig, SetupTypes, homeVars, Answer, KeptIsApplied, LoneIsAlone,
       LoneIsApplied, RunningWants, Filling
  <2>6. QED
    BY <2>1, <2>2, <2>3, <2>4, <2>5
<1>11. CASE MigrateConfig(s)
  <2>1. SetupTypes'
    BY <1>11 DEF MigrateConfig, SetupTypes, homeVars, Answer, RunningWants
  <2>2. RunningWants'
    BY <1>11 DEF MigrateConfig, SetupTypes, homeVars, Answer, RunningWants
  <2>3. LoneIsAlone'
    BY <1>11 DEF MigrateConfig, SetupTypes, homeVars, Answer, LoneIsAlone
  <2>4. LoneIsApplied'
    BY <1>11 DEF MigrateConfig, SetupTypes, homeVars, Answer, LoneIsApplied, LoneIsAlone,
       RunningWants
  <2>5. KeptIsApplied'
    BY <1>11 DEF MigrateConfig, SetupTypes, homeVars, Answer, KeptIsApplied, LoneIsAlone,
       LoneIsApplied, RunningWants
  <2>6. QED
    BY <2>1, <2>2, <2>3, <2>4, <2>5
<1>4. CASE WriteIntent(s)
  <2>1. SetupTypes'
    BY <1>4 DEF WriteIntent, SetupTypes, RunningWants
  <2>2. RunningWants'
    BY <1>4 DEF WriteIntent, SetupTypes, RunningWants
  <2>3. LoneIsAlone'
    BY <1>4 DEF WriteIntent, SetupTypes, LoneIsAlone
  <2>4. LoneIsApplied'
    BY <1>4 DEF WriteIntent, SetupTypes, LoneIsApplied, LoneIsAlone, RunningWants
  <2>5. KeptIsApplied'
    BY <1>4 DEF WriteIntent, SetupTypes, KeptIsApplied, LoneIsAlone, LoneIsApplied,
       RunningWants
  <2>6. QED
    BY <2>1, <2>2, <2>3, <2>4, <2>5
<1>5. CASE BootstrapHome(s)
  <2>1. SetupTypes'
    BY <1>5 DEF BootstrapHome, SetupTypes, Answer, homeVars, RunningWants
  <2>2. RunningWants'
    BY <1>5 DEF BootstrapHome, SetupTypes, Answer, homeVars, RunningWants
  <2>3. LoneIsAlone'
    BY <1>5 DEF BootstrapHome, SetupTypes, Answer, homeVars, LoneIsAlone
  <2>4. LoneIsApplied'
    BY <1>5 DEF BootstrapHome, SetupTypes, Answer, homeVars, LoneIsApplied, LoneIsAlone,
       RunningWants
  <2>5. KeptIsApplied'
    BY <1>5 DEF BootstrapHome, SetupTypes, Answer, homeVars, KeptIsApplied, LoneIsAlone,
       LoneIsApplied, RunningWants
  <2>6. QED
    BY <2>1, <2>2, <2>3, <2>4, <2>5
<1>6. CASE BuildVenv(s)
  <2>1. SetupTypes'
    BY <1>6 DEF BuildVenv, SetupTypes, Answer, homeVars, RunningWants
  <2>2. RunningWants'
    BY <1>6 DEF BuildVenv, SetupTypes, Answer, homeVars, RunningWants
  <2>3. LoneIsAlone'
    BY <1>6 DEF BuildVenv, SetupTypes, Answer, homeVars, LoneIsAlone
  <2>4. LoneIsApplied'
    BY <1>6 DEF BuildVenv, SetupTypes, Answer, homeVars, LoneIsApplied, LoneIsAlone,
       RunningWants
  <2>5. KeptIsApplied'
    BY <1>6 DEF BuildVenv, SetupTypes, Answer, homeVars, KeptIsApplied, LoneIsAlone,
       LoneIsApplied, RunningWants
  <2>6. QED
    BY <2>1, <2>2, <2>3, <2>4, <2>5
<1>7. CASE InstallPackages(s)
  <2>1. SetupTypes'
    BY <1>7 DEF InstallPackages, SetupTypes, Answer, homeVars, RunningWants
  <2>2. RunningWants'
    BY <1>7 DEF InstallPackages, SetupTypes, Answer, homeVars, RunningWants
  <2>3. LoneIsAlone'
    BY <1>7 DEF InstallPackages, SetupTypes, Answer, homeVars, LoneIsAlone
  <2>4. LoneIsApplied'
    BY <1>7 DEF InstallPackages, SetupTypes, Answer, homeVars, LoneIsApplied,
       LoneIsAlone, RunningWants
  <2>5. KeptIsApplied'
    BY <1>7 DEF InstallPackages, SetupTypes, Answer, homeVars, KeptIsApplied,
       LoneIsAlone, LoneIsApplied, RunningWants
  <2>6. QED
    BY <2>1, <2>2, <2>3, <2>4, <2>5
<1>8. CASE SyncSkills(s)
  <2>1. config'.visible = config.visible /\ config' \in Files
    BY <1>8 DEF SyncSkills, SetupTypes
  <2>2. /\ UNCHANGED <<selected, intent, venv, alone, kept>> /\ setupPc[s] = "skills"
        /\ \E status \in {"ready", "missing", "configuration_error"} :
             /\ Answer(s, status)
             /\ status = "ready" => venv \in {"foreign", "ready"}
    BY <1>8 DEF SyncSkills
  <2>3. SetupTypes'
    BY <2>1, <2>2 DEF SetupTypes, Answer, RunningWants
  <2>4. RunningWants'
    BY <2>1, <2>2 DEF SetupTypes, Answer, RunningWants
  <2>5. LoneIsAlone'
    BY <2>1, <2>2 DEF SetupTypes, Answer, LoneIsAlone
  <2>6. LoneIsApplied'
    BY <2>1, <2>2 DEF SetupTypes, Answer, LoneIsApplied, LoneIsAlone, RunningWants
  <2>7. KeptIsApplied'
    BY <2>1, <2>2 DEF SetupTypes, Answer, KeptIsApplied, LoneIsAlone, LoneIsApplied,
       RunningWants
  <2>8. QED
    BY <2>3, <2>4, <2>5, <2>6, <2>7
<1>9. QED
  BY <1>1, <1>2, <1>3, <1>4, <1>5, <1>6, <1>7, <1>8, <1>10, <1>11 DEF VibeSetupStep

\* A setup that is alone and compares what was kept for it does not write.
LEMMA KeptIsNotWritten ==
  ASSUME SetupInv, NEW s \in Setups, VibeSetupStep(s), NEW t \in Setups,
         kept # NoWant, kept = wanted[t], kept' = kept, alone[t], At(t, "detected")
  PROVE  setupPc'[t] # "write"
<1>1. CASE s = t
  <2>1. CompareConfig(t)
    BY <1>1 DEF VibeSetupStep, DetectHome, TruncateConfig, FillConfig, Filling, WriteIntent,
                MigrateConfig, BootstrapHome, BuildVenv, InstallPackages, SyncSkills, At
  <2>2. intent = wanted[t]
    BY <2>1 DEF CompareConfig
  <2>3. \A u \in Setups : setupPc[u] \notin {"write", "fill", "refill"}
    BY DEF SetupInv, LoneIsAlone, At
  <2>4. selected[t].visible = wanted[t].visible
    BY <2>3 DEF SetupInv, KeptIsApplied, LoneIsApplied
  <2>5. QED
    BY <2>1, <2>2, <2>4 DEF CompareConfig, IsReused, Matches, Goto, SetupInv, SetupTypes
<1>2. CASE s # t
  <2>1. setupPc'[t] = setupPc[t]
    BY <1>2 DEF VibeSetupStep, DetectHome, CompareConfig, TruncateConfig, FillConfig,
                WriteIntent, MigrateConfig, BootstrapHome, BuildVenv, InstallPackages, SyncSkills, Goto, Answer,
                SetupInv, SetupTypes
  <2>2. QED
    BY <2>1 DEF At
<1>3. QED
  BY <1>1, <1>2

\* When the engine stops or the file is edited, no setup runs any more.
LEMMA AllAreOver ==
  ASSUME SetupTypes, StopEngine \/ EditConfig
  PROVE  /\ SetupTypes' /\ kept' = NoWant
         /\ \A s \in Setups : setupPc'[s] = "idle" /\ answered'[s] = "none"
<1>1. CASE StopEngine
  <2>1. SetupTypes'
    BY <1>1, WantsAreFiles DEF SetupTypes, StopEngine, homeVars
  <2>2. QED
    BY <1>1, <2>1 DEF StopEngine
<1>2. CASE EditConfig
  <2>1. config' \in Files
    BY <1>2, WantsAreFiles DEF EditConfig
  <2>2. SetupTypes'
    BY <1>2, <2>1 DEF SetupTypes, EditConfig
  <2>3. \A s \in Setups : setupPc[s] = "idle"
    BY <1>2 DEF EditConfig, Idle, At
  <2>4. QED
    BY <1>2, <2>2, <2>3 DEF EditConfig
<1>3. QED
  BY <1>1, <1>2

\* A setup that no other overlapped and that answers ready leaves the config it wants and
\* a runnable runtime, and does not write again what was kept, for every number of setups
\* and whatever stops and edits come before it (vibeSetup).
THEOREM ConfigCorrect == VibeSetupSpec => ConfigIsJudged
<1> DEFINE Unwritten == \A s \in Setups :
             /\ kept # NoWant /\ kept = wanted[s] /\ kept' = kept /\ alone[s]
             => ~(At(s, "detected") /\ setupPc'[s] = "write")
<1>1. VibeSetupInit => SetupInv
  BY WantsAreFiles DEF VibeSetupInit, SetupInv, SetupTypes, RunningWants, LoneIsAlone,
                       LoneIsApplied, KeptIsApplied, At
<1>2. ASSUME SetupInv, StopEngine \/ EditConfig PROVE SetupInv' /\ Unwritten
  <2>1. /\ SetupTypes' /\ kept' = NoWant
        /\ \A s \in Setups : setupPc'[s] = "idle" /\ answered'[s] = "none"
    BY <1>2, AllAreOver DEF SetupInv
  <2>2. QED
    BY <2>1 DEF SetupInv, RunningWants, LoneIsAlone, LoneIsApplied, KeptIsApplied, At
<1>3. SetupInv /\ UNCHANGED setupVars => SetupInv'
  BY DEF setupVars, homeVars, SetupInv, SetupTypes, RunningWants, LoneIsAlone, LoneIsApplied,
         KeptIsApplied, At
<1>4. SetupInv /\ [VibeSetupNext]_setupVars => SetupInv' /\ [Unwritten]_setupVars
  <2>1. ASSUME SetupInv, NEW s \in Setups, VibeSetupStep(s) PROVE SetupInv' /\ Unwritten
    BY <2>1, SetupStep, KeptIsNotWritten
  <2>2. QED
    BY <1>2, <1>3, <2>1 DEF VibeSetupNext
<1>5. SetupInv => ReadySetupApplied
  <2>1. NoFile.visible \notin Visible /\ Edited.visible \notin Visible
    BY VisibleAssumption DEF NoFile, NoWant, Edited
  <2>2. QED
    BY <2>1, WantsAreFiles DEF SetupInv, LoneIsApplied, ReadySetupApplied, Matches
<1>6. QED
  BY <1>1, <1>4, <1>5, PTL DEF VibeSetupSpec, ConfigIsJudged, ConfigIsReused

-----------------------------------------------------------------------------
(* The sessions of the homes.                                               *)

CopyRecords ==
  [at : {"idle", "copy"}, home : Managed, from : Places \cup {"keychain", "none"},
   usable : BOOLEAN, force : BOOLEAN, alone : BOOLEAN]

\* a session in a file or in the Keychain was given, and only Claude on macOS has a Keychain
CopyTypes ==
  /\ account \in {"codex", "claude", "claude on macOS"} /\ renews \in BOOLEAN
  /\ given \in 0 .. SessionCount /\ spent \in 0 .. given
  /\ sessionIn \in [Places -> (0 .. given) \cup {Broken}]
  /\ keychain \in 0 .. given
  /\ account # "claude on macOS" => keychain = 0
  /\ copying \in [CopyCalls -> CopyRecords]
  /\ signedInAs \in {0, given}

\* of two files one was written last
LaterIsOrder == \A p, q \in Places : <<p, q>> \in later => <<q, p>> \notin later

\* the session of a sign-in is the newest one, where it was given and in every file
\* written since
SignedInIsNewest ==
  signedInAs # 0 =>
    /\ signedInAs > spent
    /\ IF account = "claude on macOS" THEN keychain = signedInAs
                                      ELSE sessionIn["station"] = signedInAs
    /\ \A p, q \in Places : sessionIn[p] = signedInAs /\ sessionIn[q] # signedInAs
                              => <<p, q>> \in later

\* a copy brings the session of a sign-in, or leaves a home that has it alone
SignInIsCarried(c) ==
  copying[c].at = "copy" /\ signedInAs # 0 =>
    \/ copying[c].from = "keychain" /\ keychain = signedInAs
    \/ copying[c].from \in Places /\ sessionIn[copying[c].from] = signedInAs
    \/ /\ copying[c].from \in Places /\ sessionIn[copying[c].home] = signedInAs
       /\ ~copying[c].force /\ <<copying[c].from, copying[c].home>> \notin later

\* while a setup is alone no other copies
AloneCopies(c) ==
  copying[c].alone => \A d \in CopyCalls : d # c => copying[d].at = "idle"

\* a Claude setup copies a usable session or nothing
ClaudeCopiesUsable(c) ==
  copying[c].at = "copy" /\ account = "claude" /\ copying[c].from \in Places
    => sessionIn[copying[c].from] = 0 \/ Usable(sessionIn[copying[c].from])

\* a home that is not replaced by force has no expired session
UnforcedIsUnexpired(c) ==
  copying[c].at = "copy" /\ copying[c].usable /\ ~copying[c].force
    /\ (account = "claude" \/ copying[c].alone)
    => ~HasExpired(sessionIn[copying[c].home])

CopyIsSound(c) ==
  SignInIsCarried(c) /\ AloneCopies(c) /\ ClaudeCopiesUsable(c) /\ UnforcedIsUnexpired(c)

CopyInv ==
  CopyTypes /\ LaterIsOrder /\ SignedInIsNewest /\ \A c \in CopyCalls : CopyIsSound(c)

\* The places of a credential are those of the user and of the conversations.
LEMMA PlacesKnown ==
  /\ Managed \subseteq Places /\ "station" \in Places \ Managed
  /\ "keychain" \notin Places /\ "none" \notin Places
  /\ Broken \in Nat /\ Broken > SessionCount /\ SessionCount \in Nat
BY SessionAssumption DEF Managed, Places, Broken

\* The sessions are numbers, up to the last one given.
LEMMA NumbersKnown ==
  ASSUME CopyTypes
  PROVE  /\ given \in Nat /\ spent \in Nat /\ given < Broken /\ keychain \in Nat /\ Broken \in Nat
         /\ \A p \in Places : sessionIn[p] \in Nat
         /\ \A p \in Places : IsSession(sessionIn[p]) => sessionIn[p] <= given
         /\ signedInAs # 0 => signedInAs = given /\ given > 0
<1>1. /\ given \in 0 .. SessionCount /\ spent \in 0 .. given /\ keychain \in 0 .. given
      /\ signedInAs \in {0, given}
      /\ \A p \in Places : sessionIn[p] \in (0 .. given) \cup {Broken}
  BY DEF CopyTypes
<1>2. \A p \in Places : IsSession(sessionIn[p]) => sessionIn[p] <= given
  BY <1>1, PlacesKnown DEF IsSession
<1>3. \A p \in Places : sessionIn[p] \in Nat
  BY <1>1, PlacesKnown
<1>4. signedInAs # 0 => signedInAs = given /\ given > 0
  <2>1. given \in Nat
    BY <1>1, PlacesKnown
  <2>2. CASE signedInAs = 0
    BY <2>2
  <2>3. CASE signedInAs = given /\ given # 0
    BY <2>1, <2>3
  <2>4. QED
    BY <1>1, <2>2, <2>3
<1>5. QED
  BY <1>1, <1>2, <1>3, <1>4, PlacesKnown

\* The fields of a setup, before and after another one makes it not alone.
LEMMA CopyFields ==
  /\ NoCopy \in CopyRecords /\ NoCopy.at = "idle" /\ ~NoCopy.alone
  /\ \A r \in CopyRecords :
       /\ r.at \in {"idle", "copy"} /\ r.home \in Managed
       /\ r.from \in Places \cup {"keychain", "none"}
       /\ r.usable \in BOOLEAN /\ r.force \in BOOLEAN /\ r.alone \in BOOLEAN
BY DEF CopyRecords, NoCopy, Managed

\* The newest of some places, of which there are at most two.
LEMMA NewestIs ==
  ASSUME LaterIsOrder, NEW places \in SUBSET {"user", "station"}, places # {}
  PROVE  /\ Newest(places) \in places
         /\ \A q \in places : <<q, Newest(places)>> \notin later
<1>1. \E p \in places : \A q \in places : <<q, p>> \notin later
  <2>1. <<"user", "user">> \notin later /\ <<"station", "station">> \notin later
        /\ ~(<<"user", "station">> \in later /\ <<"station", "user">> \in later)
    BY DEF LaterIsOrder, Places
  <2>2. CASE places = {"user"}
    BY <2>1, <2>2
  <2>3. CASE places = {"station"}
    BY <2>1, <2>3
  <2>4. CASE "user" \in places /\ "station" \in places
    BY <2>1, <2>4
  <2>5. QED
    BY <2>2, <2>3, <2>4
<1>2. QED
  BY <1>1 DEF Newest

\* What a setup chooses to copy.
LEMMA ChosenIs ==
  ASSUME CopyTypes, LaterIsOrder, SignedInIsNewest, NEW home \in Managed
  PROVE  /\ Chosen(home) \in Places \cup {"keychain", "none"}
         /\ account = "claude" /\ Chosen(home) \in Places => Usable(sessionIn[Chosen(home)])
         /\ signedInAs # 0 =>
              \/ Chosen(home) = "keychain" /\ keychain = signedInAs
              \/ Chosen(home) \in Places /\ sessionIn[Chosen(home)] = signedInAs
              \/ /\ Chosen(home) \in Places /\ sessionIn[home] = signedInAs
                 /\ ~Forced(home) /\ <<Chosen(home), home>> \notin later
<1> DEFINE usable == Candidates(home)
           others == LastResort(home)
           newest == Newest(usable)
<1>1. usable \subseteq {"user", "station"} /\ others \subseteq {"user", "station"}
  BY DEF Candidates, LastResort, Sources
<1>2. {"user", "station"} \subseteq Places /\ home \in Places
  BY PlacesKnown DEF Places, Managed
<1>3. usable # {} => newest \in usable /\ \A q \in usable : <<q, newest>> \notin later
  BY <1>1, NewestIs
<1>4. others # {} => Newest(others) \in others
  BY <1>1, NewestIs
<1>5. \A p \in usable : p \in Places /\ Holds(sessionIn[p]) /\ ~HasExpired(sessionIn[p])
  BY <1>1, <1>2 DEF Candidates
<1>6. /\ given \in Nat /\ spent \in Nat /\ given < Broken /\ keychain \in Nat /\ Broken \in Nat
      /\ \A p \in Places : sessionIn[p] \in Nat
      /\ \A p \in Places : IsSession(sessionIn[p]) => sessionIn[p] <= given
      /\ signedInAs # 0 => signedInAs = given /\ given > 0
  BY NumbersKnown
<1>7. ASSUME account = "claude" PROVE others = {} /\ keychain = 0
  BY <1>7 DEF LastResort, CopyTypes
<1>8. ASSUME account = "claude", NEW p \in usable PROVE Usable(sessionIn[p])
  BY <1>5, <1>6, <1>8 DEF Holds, HasExpired, Usable, IsSession
<1>9. Chosen(home) =
        CASE usable # {} -> IF KeychainIsNewer(newest, home) THEN "keychain" ELSE newest
          [] usable = {} /\ keychain # 0 -> "keychain"
          [] usable = {} /\ keychain = 0 /\ others # {} -> Newest(others)
          [] OTHER -> "none"
  BY DEF Chosen
<1> HIDE DEF usable, others, newest
<1>10. CASE usable # {}
  <2>1. Chosen(home) = IF KeychainIsNewer(newest, home) THEN "keychain" ELSE newest
    BY <1>9, <1>10
  <2>2. ASSUME signedInAs # 0
        PROVE  \/ Chosen(home) = "keychain" /\ keychain = signedInAs
               \/ Chosen(home) \in Places /\ sessionIn[Chosen(home)] = signedInAs
               \/ /\ Chosen(home) \in Places /\ sessionIn[home] = signedInAs
                  /\ ~Forced(home) /\ <<Chosen(home), home>> \notin later
    <3>1. /\ signedInAs = given /\ signedInAs > spent /\ given > 0
          /\ \A p, q \in Places : sessionIn[p] = signedInAs /\ sessionIn[q] # signedInAs
                                    => <<p, q>> \in later
      BY <1>6, <2>2 DEF SignedInIsNewest
    <3>2. CASE account # "claude on macOS"
      <4>1. sessionIn["station"] = given /\ keychain = 0
        BY <2>2, <3>1, <3>2 DEF SignedInIsNewest, CopyTypes
      <4>2. "station" \in usable
        BY <1>6, <3>1, <4>1 DEF usable, Candidates, Sources, Holds, HasExpired, IsSession
      <4>3. ~KeychainIsNewer(newest, home)
        <5>1. \A x \in Nat : Expiry(x) >= 0
          BY DEF Expiry
        <5>2. sessionIn[home] \in Nat /\ Expiry(sessionIn[home]) \in Nat
          BY <1>2, <1>6 DEF Expiry
        <5>3. QED
          BY <4>1, <5>1, <5>2 DEF KeychainIsNewer
      <4>4. sessionIn[newest] = signedInAs
        BY <1>3, <1>5, <1>10, <3>1, <4>1, <4>2
      <4>5. QED
        BY <1>3, <1>5, <1>10, <2>1, <4>3, <4>4
    <3>3. CASE account = "claude on macOS"
      <4>1. keychain = given
        BY <2>2, <3>1, <3>3 DEF SignedInIsNewest
      <4>2. CASE KeychainIsNewer(newest, home)
        BY <2>1, <3>1, <4>1, <4>2
      <4>3. CASE ~KeychainIsNewer(newest, home) /\ sessionIn[newest] # given
        <5>1. newest \in Places /\ Expiry(sessionIn[newest]) < given
          BY <1>3, <1>5, <1>6, <1>10, <3>1, <4>3 DEF Expiry
        <5>2. sessionIn[home] = given
          BY <1>2, <1>6, <3>1, <4>1, <4>3, <5>1 DEF KeychainIsNewer, Expiry
        <5>3. ~Forced(home)
          BY <1>6, <3>1, <5>2 DEF Forced, HasExpired
        <5>4. <<newest, home>> \notin later
          BY <1>2, <3>1, <4>3, <5>1, <5>2 DEF LaterIsOrder
        <5>5. QED
          BY <2>1, <3>1, <4>3, <5>1, <5>2, <5>3, <5>4
      <4>4. QED
        BY <1>3, <1>5, <1>10, <2>1, <3>1, <4>2, <4>3
    <3>4. QED
      BY <3>2, <3>3
  <2>3. Chosen(home) \in Places \cup {"keychain", "none"}
    BY <1>3, <1>5, <1>10, <2>1
  <2>4. account = "claude" /\ Chosen(home) \in Places => Usable(sessionIn[Chosen(home)])
    BY <1>3, <1>8, <1>10, <2>1, PlacesKnown
  <2>5. QED
    BY <2>2, <2>3, <2>4
<1>11. CASE usable = {}
  <2>1. signedInAs # 0 => keychain = signedInAs
    <3>1. ASSUME signedInAs # 0, account # "claude on macOS" PROVE FALSE
      <4>1. sessionIn["station"] = signedInAs /\ signedInAs = given /\ given > spent /\ given > 0
        BY <1>6, <3>1 DEF SignedInIsNewest
      <4>2. "station" \in usable
        BY <1>6, <4>1 DEF usable, Candidates, Sources, Holds, HasExpired, IsSession
      <4>3. QED
        BY <1>11, <4>2
    <3>2. QED
      BY <3>1 DEF SignedInIsNewest
  <2>2. keychain # 0 => Chosen(home) = "keychain"
    BY <1>9, <1>11
  <2>3. keychain = 0 => Chosen(home) \in others \cup {"none"}
    BY <1>4, <1>9, <1>11
  <2>4. others \subseteq Places
    BY <1>1, <1>2
  <2>5. QED
    BY <1>7, <2>1, <2>2, <2>3, <2>4, PlacesKnown
<1>12. QED
  BY <1>10, <1>11

\* A file that is written is the last one written.
LEMMA WrittenLast ==
  ASSUME LaterIsOrder, NEW p \in Places, Touch(p)
  PROVE  /\ LaterIsOrder'
         /\ \A x, y \in Places : <<x, y>> \in later'
              <=> (x = p /\ y # p) \/ (<<x, y>> \in later /\ y # p)
<1>1. \A x, y \in Places : <<x, y>> \in later'
        <=> (x = p /\ y # p) \/ (<<x, y>> \in later /\ y # p)
  BY DEF Touch
<1>2. LaterIsOrder'
  BY <1>1 DEF LaterIsOrder
<1>3. QED
  BY <1>1, <1>2

\* what a setup copies
Source(c) == IF copying[c].from = "keychain" THEN keychain
             ELSE IF copying[c].from = "none" THEN 0 ELSE sessionIn[copying[c].from]

CopyHappens(c) ==
  /\ Source(c) # 0 /\ Source(c) # sessionIn[copying[c].home]
  /\ copying[c].from = "keychain"
       \/ Replaces(copying[c].from, copying[c].home, copying[c].force)

\* What a copy that goes on does: it writes its home, or leaves all as it was.
LEMMA CopyIs ==
  ASSUME NEW c \in CopyCalls, CopyFrom(c)
  PROVE  /\ copying[c].at = "copy"
         /\ UNCHANGED <<account, renews, keychain, given, spent, signedInAs>>
         /\ copying' = [copying EXCEPT ![c] = NoCopy]
         /\ CopyHappens(c) => /\ sessionIn' = [sessionIn EXCEPT ![copying[c].home] = Source(c)]
                              /\ Touch(copying[c].home)
         /\ ~CopyHappens(c) => UNCHANGED <<sessionIn, later>>
BY DEF CopyFrom, CopyHappens, Source

\* What a copy leaves in its home: the session of the last sign-in; and what was judged
\* when it was chosen.
LEMMA CopyBrings ==
  ASSUME CopyInv, NEW c \in CopyCalls, CopyFrom(c)
  PROVE  /\ signedInAs # 0 => /\ sessionIn'[copying[c].home] = signedInAs
                              /\ CopyHappens(c) => Source(c) = signedInAs
         /\ account = "claude" /\ CopyHappens(c) => Usable(Source(c))
         /\ (\A p \in Places : sessionIn[p] # Broken)
              /\ (account = "claude" \/ copying[c].alone)
              /\ copying[c].usable /\ copying[c].from \in Places
              /\ Usable(sessionIn[copying[c].from])
              => Usable(sessionIn'[copying[c].home])
         /\ Source(c) \in (0 .. given) \cup {Broken}
<1> DEFINE me == copying[c]
<1>1. /\ me.at = "copy" /\ me.home \in Places /\ me.from \in Places \cup {"keychain", "none"}
      /\ me.force \in BOOLEAN /\ me.home # "station"
  <2>1. me \in CopyRecords
    BY DEF CopyInv, CopyTypes
  <2>2. me.home \in Managed /\ me.from \in Places \cup {"keychain", "none"} /\ me.force \in BOOLEAN
    BY <2>1, CopyFields
  <2>3. QED
    BY <2>2, CopyIs, PlacesKnown
<1>2. CopyTypes /\ LaterIsOrder /\ SignedInIsNewest /\ CopyIsSound(c)
  BY DEF CopyInv
<1>3. sessionIn \in [Places -> (0 .. given) \cup {Broken}] /\ keychain \in 0 .. given
  BY <1>2 DEF CopyTypes
<1>4. sessionIn'[me.home] = IF CopyHappens(c) THEN Source(c) ELSE sessionIn[me.home]
  BY <1>1, <1>3, CopyIs
<1>5. /\ me.from = "keychain" => Source(c) = keychain
      /\ me.from = "none" => Source(c) = 0
      /\ me.from \in Places => Source(c) = sessionIn[me.from]
  BY PlacesKnown DEF Source
<1>6. Source(c) \in (0 .. given) \cup {Broken}
  BY <1>1, <1>2, <1>3, <1>5, NumbersKnown
<1>7. ASSUME signedInAs # 0
      PROVE  sessionIn'[me.home] = signedInAs /\ (CopyHappens(c) => Source(c) = signedInAs)
  <2>1. CASE me.from = "keychain" /\ keychain = signedInAs
    BY <1>4, <1>5, <1>7, <2>1 DEF CopyHappens
  <2>2. CASE me.from \in Places /\ sessionIn[me.from] = signedInAs
    <3>1. CASE sessionIn[me.home] = signedInAs
      BY <1>4, <1>5, <2>2, <3>1
    <3>2. CASE sessionIn[me.home] # signedInAs
      <4>1. <<me.from, me.home>> \in later
        BY <1>1, <1>2, <1>7, <2>2, <3>2 DEF SignedInIsNewest
      <4>2. CopyHappens(c)
        BY <1>5, <1>7, <2>2, <3>2, <4>1 DEF CopyHappens, Replaces
      <4>3. QED
        BY <1>4, <1>5, <2>2, <4>2
    <3>3. QED
      BY <3>1, <3>2
  <2>3. CASE /\ me.from \in Places /\ sessionIn[me.home] = signedInAs
             /\ ~me.force /\ <<me.from, me.home>> \notin later
    <3>1. ~CopyHappens(c)
      BY <1>7, <2>3, PlacesKnown DEF CopyHappens, Replaces
    <3>2. QED
      BY <1>4, <2>3, <3>1
  <2>4. QED
    BY <1>1, <1>2, <1>7, <2>1, <2>2, <2>3 DEF CopyIsSound, SignInIsCarried
<1>8. account = "claude" /\ CopyHappens(c) => Usable(Source(c))
  <2>1. account = "claude" => keychain = 0
    BY <1>2 DEF CopyTypes
  <2>2. QED
    BY <1>1, <1>2, <1>5, <2>1 DEF CopyIsSound, ClaudeCopiesUsable, CopyHappens
<1>9. ASSUME \A p \in Places : sessionIn[p] # Broken,
             account = "claude" \/ me.alone, me.usable, me.from \in Places,
             Usable(sessionIn[me.from])
      PROVE  Usable(sessionIn'[me.home])
  <2>1. Source(c) # 0 /\ Usable(Source(c))
    BY <1>5, <1>9 DEF Usable, IsSession
  <2>2. CASE CopyHappens(c)
    BY <1>4, <2>1, <2>2
  <2>3. CASE ~CopyHappens(c) /\ Source(c) = sessionIn[me.home]
    BY <1>4, <2>1, <2>3
  <2>4. CASE ~CopyHappens(c) /\ Source(c) # sessionIn[me.home]
    <3>1. sessionIn[me.home] # 0 /\ ~me.force
      BY <2>1, <2>4 DEF CopyHappens, Replaces
    <3>2. ~HasExpired(sessionIn[me.home]) /\ sessionIn[me.home] # Broken
      BY <1>1, <1>2, <1>9, <3>1 DEF CopyIsSound, UnforcedIsUnexpired
    <3>3. sessionIn[me.home] \in Nat /\ spent \in Nat
      BY <1>1, <1>2, NumbersKnown
    <3>4. QED
      BY <1>4, <2>4, <3>1, <3>2, <3>3 DEF HasExpired, Usable, IsSession
  <2>5. QED
    BY <2>2, <2>3, <2>4
<1>10. QED
  BY <1>6, <1>7, <1>8, <1>9

\* The last session given is the newest, and the others remain sessions given.
LEMMA SessionIsGiven ==
  ASSUME CopyTypes, given' = given + 1, given < SessionCount
  PROVE  /\ given' \in 0 .. SessionCount /\ given' # 0 /\ given' > spent /\ given' \in Nat
         /\ spent \in 0 .. given' /\ keychain \in 0 .. given' /\ given' \in 0 .. given'
         /\ (0 .. given) \subseteq (0 .. given') /\ IsSession(given')
         /\ \A x \in (0 .. given) \cup {Broken} : x # given'
<1>1. /\ given \in Nat /\ SessionCount \in Nat /\ Broken \in Nat /\ Broken > SessionCount
      /\ spent \in 0 .. given /\ keychain \in 0 .. given
  BY PlacesKnown, NumbersKnown DEF CopyTypes
<1>2. given' \in Nat /\ given' > given /\ given' # Broken /\ given' <= SessionCount
  BY <1>1
<1>3. QED
  BY <1>1, <1>2 DEF IsSession

\* What the user and the CLIs write over is no sign-in; a setup finds in a file what it was,
\* nothing, or a session that has not expired.
LEMMA FilesChange ==
  ASSUME CopyInv, UNCHANGED <<account, renews, keychain, spent>>, signedInAs' = 0,
         given' \in 0 .. SessionCount, spent \in 0 .. given', keychain \in 0 .. given',
         LaterIsOrder', sessionIn' \in [Places -> (0 .. given') \cup {Broken}],
         \/ /\ UNCHANGED copying
            /\ \A p \in Places : \/ sessionIn'[p] = sessionIn[p] \/ sessionIn'[p] = 0
                                 \/ IsSession(sessionIn'[p]) /\ sessionIn'[p] > spent
         \/ copying' = [d \in CopyCalls |-> NoCopy]
  PROVE  CopyInv'
<1>1. CopyTypes /\ \A c \in CopyCalls : CopyIsSound(c)
  BY DEF CopyInv
<1>2. copying' \in [CopyCalls -> CopyRecords]
  BY <1>1, CopyFields DEF CopyTypes
<1>3. CopyTypes'
  BY <1>1, <1>2 DEF CopyTypes
<1>4. SignedInIsNewest' /\ \A c \in CopyCalls : SignInIsCarried(c)'
  BY DEF SignedInIsNewest, SignInIsCarried
<1>5. ASSUME NEW c \in CopyCalls
      PROVE  AloneCopies(c)' /\ ClaudeCopiesUsable(c)' /\ UnforcedIsUnexpired(c)'
  <2>1. CASE copying' = [d \in CopyCalls |-> NoCopy]
    BY <1>5, <2>1, CopyFields DEF AloneCopies, ClaudeCopiesUsable, UnforcedIsUnexpired
  <2>2. CASE UNCHANGED copying
    <3>1. /\ copying[c].home \in Places
          /\ AloneCopies(c) /\ ClaudeCopiesUsable(c) /\ UnforcedIsUnexpired(c)
      BY <1>1, <1>5, CopyFields, PlacesKnown DEF CopyTypes, CopyIsSound
    <3>2. \/ copying' = [d \in CopyCalls |-> NoCopy]
          \/ \A p \in Places : \/ sessionIn'[p] = sessionIn[p] \/ sessionIn'[p] = 0
                               \/ IsSession(sessionIn'[p]) /\ sessionIn'[p] > spent
      OBVIOUS
    <3>3. \A x : IsSession(x) /\ x > spent => Usable(x) /\ (spent \in Nat /\ x \in Nat => ~HasExpired(x))
      BY DEF Usable, HasExpired
    <3>4. ~HasExpired(0)
      BY DEF HasExpired, IsSession
    <3>5. spent \in Nat /\ given' \in Nat /\ Broken \in Nat
      BY <1>1, NumbersKnown, PlacesKnown
    <3>6. \A p \in Places : sessionIn'[p] \in Nat
      BY <3>5
    <3>7. QED
      BY <2>1, <2>2, <3>1, <3>2, <3>3, <3>4, <3>5, <3>6
      DEF AloneCopies, ClaudeCopiesUsable, UnforcedIsUnexpired, Usable, HasExpired
  <2>3. QED
    BY <2>1, <2>2
<1>6. QED
  BY <1>3, <1>4, <1>5 DEF CopyInv, CopyIsSound

\* A sign-in at the workstation.
LEMMA UserGetsSession ==
  ASSUME CopyInv, SignInAtStation
  PROVE  CopyInv'
<1>1. CopyTypes /\ LaterIsOrder /\ SignedInIsNewest /\ \A c \in CopyCalls : CopyIsSound(c)
  BY DEF CopyInv
<1>2. /\ given' = given + 1 /\ given < SessionCount
      /\ UNCHANGED <<account, renews, spent, copying>>
      /\ signedInAs' \in {0, given'} /\ (signedInAs' # 0 => NobodyCopies)
  BY DEF SignInAtStation
<1>3. /\ given' \in 0 .. SessionCount /\ given' # 0 /\ given' > spent /\ given' \in Nat
      /\ spent \in 0 .. given' /\ keychain \in 0 .. given' /\ given' \in 0 .. given'
      /\ (0 .. given) \subseteq (0 .. given') /\ IsSession(given')
      /\ \A x \in (0 .. given) \cup {Broken} : x # given'
  BY <1>1, <1>2, SessionIsGiven
<1>4. \A c \in CopyCalls : SignInIsCarried(c)'
  BY <1>2 DEF SignInIsCarried, NobodyCopies
<1>5. \A p \in Places : sessionIn[p] \in (0 .. given) \cup {Broken}
  BY <1>1 DEF CopyTypes
<1>6. CASE account = "claude on macOS"
  <2>1. keychain' = given' /\ UNCHANGED <<sessionIn, later>>
    BY <1>6 DEF SignInAtStation
  <2>2. CopyTypes'
    BY <1>1, <1>2, <1>3, <1>6, <2>1 DEF CopyTypes
  <2>3. SignedInIsNewest'
    <3>1. signedInAs' # 0 => \A p \in Places : sessionIn'[p] # signedInAs'
      BY <1>2, <1>3, <1>5, <2>1
    <3>2. QED
      BY <1>2, <1>3, <1>6, <2>1, <3>1 DEF SignedInIsNewest
  <2>4. ASSUME NEW c \in CopyCalls PROVE CopyIsSound(c)'
    BY <1>1, <1>2, <1>4, <1>6, <2>1
    DEF CopyIsSound, AloneCopies, ClaudeCopiesUsable, UnforcedIsUnexpired, HasExpired, IsSession
  <2>5. QED
    BY <1>1, <2>1, <2>2, <2>3, <2>4 DEF CopyInv, LaterIsOrder
<1>7. CASE account # "claude on macOS"
  <2>1. /\ sessionIn' = [sessionIn EXCEPT !["station"] = given'] /\ Touch("station")
        /\ UNCHANGED keychain
    BY <1>7 DEF SignInAtStation
  <2>2. sessionIn' \in [Places -> (0 .. given') \cup {Broken}]
    BY <1>1, <1>3, <2>1 DEF CopyTypes
  <2>3. CopyTypes'
    BY <1>1, <1>2, <1>3, <1>7, <2>1, <2>2 DEF CopyTypes
  <2>4. /\ LaterIsOrder'
        /\ \A x, y \in Places : <<x, y>> \in later'
             <=> (x = "station" /\ y # "station") \/ (<<x, y>> \in later /\ y # "station")
    BY <1>1, <2>1, PlacesKnown, WrittenLast
  <2>5. \A p \in Places : sessionIn'[p] = IF p = "station" THEN given' ELSE sessionIn[p]
    BY <1>1, <2>1, PlacesKnown DEF CopyTypes
  <2>6. SignedInIsNewest'
    <3>1. sessionIn'["station"] = given' /\ \A p \in Places : sessionIn'[p] = given' => p = "station"
      BY <1>3, <1>5, <2>5, PlacesKnown
    <3>2. ASSUME signedInAs' # 0, NEW p \in Places, NEW q \in Places,
                 sessionIn'[p] = signedInAs', sessionIn'[q] # signedInAs'
          PROVE  <<p, q>> \in later'
      BY <1>2, <2>4, <3>1, <3>2
    <3>3. signedInAs' # 0 => signedInAs' = given'
      BY <1>2
    <3>4. QED
      BY <1>2, <1>3, <1>7, <3>1, <3>2, <3>3 DEF SignedInIsNewest
  <2>7. ASSUME NEW c \in CopyCalls PROVE CopyIsSound(c)'
    <3>1. copying[c].home \in Managed
      BY <1>1, CopyFields DEF CopyTypes
    <3>2. sessionIn'[copying[c].home] = sessionIn[copying[c].home]
      BY <2>5, <3>1, PlacesKnown
    <3>3. QED
      BY <1>1, <1>2, <1>3, <1>4, <2>5, <3>2
      DEF CopyIsSound, AloneCopies, ClaudeCopiesUsable, UnforcedIsUnexpired, HasExpired, Usable
  <2>8. QED
    BY <2>3, <2>4, <2>6, <2>7 DEF CopyInv
<1>8. QED
  BY <1>6, <1>7

\* A CLI that renews its session writes it last in its place.
LEMMA CliRewrites ==
  ASSUME CopyInv, NEW p \in Places, CliWrites(p)
  PROVE  CopyInv'
<1>1. CopyTypes /\ LaterIsOrder
  BY DEF CopyInv
<1>2. LaterIsOrder' /\ UNCHANGED <<account, renews, keychain, spent, copying>> /\ signedInAs' = 0
  BY <1>1, WrittenLast DEF CliWrites
<1>3. given \in 0 .. SessionCount /\ spent \in 0 .. given /\ keychain \in 0 .. given
      /\ sessionIn \in [Places -> (0 .. given) \cup {Broken}]
  BY <1>1 DEF CopyTypes
<1>4. CASE UNCHANGED <<sessionIn, given>>
  BY <1>2, <1>3, <1>4, FilesChange
<1>5. CASE /\ given < SessionCount /\ given' = given + 1
           /\ sessionIn' = [sessionIn EXCEPT ![p] = given']
  <2>1. /\ given' \in 0 .. SessionCount /\ given' > spent
        /\ spent \in 0 .. given' /\ keychain \in 0 .. given' /\ given' \in 0 .. given'
        /\ (0 .. given) \subseteq (0 .. given') /\ IsSession(given')
    BY <1>1, <1>5, SessionIsGiven
  <2>2. sessionIn' \in [Places -> (0 .. given') \cup {Broken}]
    BY <1>3, <1>5, <2>1
  <2>3. \A q \in Places : sessionIn'[q] = IF q = p THEN given' ELSE sessionIn[q]
    BY <1>3, <1>5
  <2>4. QED
    BY <1>2, <2>1, <2>2, <2>3, FilesChange
<1>6. QED
  BY <1>4, <1>5 DEF CliWrites

\* A sign-out empties one place.
LEMMA UserSignsOut ==
  ASSUME CopyInv, NEW p \in Places, SignOut(p)
  PROVE  CopyInv'
<1>1. given \in 0 .. SessionCount /\ spent \in 0 .. given /\ keychain \in 0 .. given
      /\ sessionIn \in [Places -> (0 .. given) \cup {Broken}] /\ LaterIsOrder /\ given \in Nat
  BY NumbersKnown DEF CopyInv, CopyTypes
<1>2. /\ UNCHANGED <<account, renews, keychain, later, given, spent, copying>> /\ signedInAs' = 0
      /\ sessionIn' = [sessionIn EXCEPT ![p] = 0]
  BY DEF SignOut
<1>3. /\ sessionIn' \in [Places -> (0 .. given') \cup {Broken}]
      /\ \A q \in Places : sessionIn'[q] = sessionIn[q] \/ sessionIn'[q] = 0
  BY <1>1, <1>2
<1>4. LaterIsOrder'
  BY <1>1, <1>2 DEF LaterIsOrder
<1>5. QED
  BY <1>1, <1>2, <1>3, <1>4, FilesChange

\* An engine that stops leaves a copy cut short in the home it wrote.
LEMMA EngineStopsCopying ==
  ASSUME CopyInv, NEW c \in CopyCalls, CopyStops(c)
  PROVE  CopyInv'
<1>1. given \in 0 .. SessionCount /\ spent \in 0 .. given /\ keychain \in 0 .. given
      /\ sessionIn \in [Places -> (0 .. given) \cup {Broken}] /\ LaterIsOrder
      /\ copying[c] \in CopyRecords
  BY DEF CopyInv, CopyTypes
<1>2. copying[c].home \in Places
  BY <1>1, CopyFields, PlacesKnown
<1>3. /\ UNCHANGED <<account, renews, keychain, given, spent>> /\ signedInAs' = 0
      /\ sessionIn' = [sessionIn EXCEPT ![copying[c].home] = Broken]
      /\ Touch(copying[c].home) /\ copying' = [d \in CopyCalls |-> NoCopy]
  BY DEF CopyStops
<1>4. LaterIsOrder'
  BY <1>1, <1>2, <1>3, WrittenLast
<1>5. QED
  BY <1>1, <1>3, <1>4, FilesChange

\* A session expires while nobody copies.
LEMMA OneExpires ==
  ASSUME CopyInv, SessionExpires
  PROVE  CopyInv'
<1>1. CopyTypes /\ LaterIsOrder /\ SignedInIsNewest /\ \A c \in CopyCalls : CopyIsSound(c)
  BY DEF CopyInv
<1>2. /\ spent < given /\ NobodyCopies /\ spent' = spent + 1
      /\ signedInAs' = IF signedInAs = spent' THEN 0 ELSE signedInAs
      /\ UNCHANGED <<account, renews, sessionIn, keychain, later, given, copying>>
  BY DEF SessionExpires
<1>3. spent' \in 0 .. given /\ spent \in Nat /\ given \in Nat
  BY <1>1, <1>2, NumbersKnown
<1>4. CopyTypes' /\ LaterIsOrder'
  BY <1>1, <1>2, <1>3 DEF CopyTypes, LaterIsOrder
<1>5. SignedInIsNewest'
  <2>1. signedInAs' # 0 =>
          /\ signedInAs' = signedInAs /\ signedInAs # 0 /\ signedInAs # spent + 1
          /\ signedInAs > spent /\ signedInAs \in Nat
    BY <1>1, <1>2, NumbersKnown DEF SignedInIsNewest
  <2>2. ASSUME signedInAs' # 0 PROVE signedInAs' > spent'
    <3>1. signedInAs \in Nat /\ spent \in Nat /\ signedInAs > spent /\ signedInAs # spent + 1
      BY <1>3, <2>1, <2>2
    <3>2. signedInAs > spent + 1
      BY <3>1
    <3>3. QED
      BY <1>2, <2>1, <2>2, <3>2
  <2>3. QED
    BY <1>1, <1>2, <2>1, <2>2 DEF SignedInIsNewest
<1>6. ASSUME NEW c \in CopyCalls PROVE CopyIsSound(c)'
  <2>1. copying'[c].at # "copy" /\ AloneCopies(c)
    BY <1>1, <1>2 DEF NobodyCopies, CopyIsSound
  <2>2. QED
    BY <1>2, <2>1
    DEF CopyIsSound, SignInIsCarried, AloneCopies, ClaudeCopiesUsable, UnforcedIsUnexpired
<1>7. QED
  BY <1>4, <1>5, <1>6 DEF CopyInv

\* A setup chooses what it copies.
LEMMA SourceIsChosen ==
  ASSUME CopyInv, NEW c \in CopyCalls, NEW home \in Managed, ChooseSource(c, home)
  PROVE  CopyInv'
<1>1. CopyTypes /\ LaterIsOrder /\ SignedInIsNewest /\ \A d \in CopyCalls : CopyIsSound(d)
  BY DEF CopyInv
<1>2. /\ copying[c].at = "idle"
      /\ UNCHANGED <<account, renews, sessionIn, keychain, later, given, spent, signedInAs>>
  BY DEF ChooseSource
<1>3. /\ Chosen(home) \in Places \cup {"keychain", "none"}
      /\ account = "claude" /\ Chosen(home) \in Places => Usable(sessionIn[Chosen(home)])
      /\ signedInAs # 0 =>
           \/ Chosen(home) = "keychain" /\ keychain = signedInAs
           \/ Chosen(home) \in Places /\ sessionIn[Chosen(home)] = signedInAs
           \/ /\ Chosen(home) \in Places /\ sessionIn[home] = signedInAs
              /\ ~Forced(home) /\ <<Chosen(home), home>> \notin later
  BY <1>1, ChosenIs
<1>4. /\ copying'[c].at = "copy" /\ copying'[c].home = home /\ copying'[c].from = Chosen(home)
      /\ copying'[c].usable = (Candidates(home) # {}) /\ copying'[c].force = Forced(home)
      /\ copying'[c].alone = NobodyCopies
  BY DEF ChooseSource
<1>5. copying'[c] \in CopyRecords
  <2>1. Forced(home) \in BOOLEAN /\ (Candidates(home) # {}) \in BOOLEAN /\ NobodyCopies \in BOOLEAN
    BY DEF Forced, NobodyCopies
  <2>2. copying'[c] = [at |-> "copy", home |-> home, from |-> Chosen(home),
                      usable |-> Candidates(home) # {}, force |-> Forced(home),
                      alone |-> NobodyCopies]
    BY DEF ChooseSource
  <2>3. QED
    BY <1>3, <2>1, <2>2 DEF CopyRecords
<1>6. ASSUME NEW d \in CopyCalls, d # c
      PROVE  /\ copying'[d] \in CopyRecords /\ ~copying'[d].alone
             /\ copying'[d].at = copying[d].at /\ copying'[d].home = copying[d].home
             /\ copying'[d].from = copying[d].from /\ copying'[d].usable = copying[d].usable
             /\ copying'[d].force = copying[d].force
  <2>1. copying[d] \in CopyRecords
    BY <1>1, <1>6 DEF CopyTypes
  <2>2. copying'[d] = [copying[d] EXCEPT !.alone = FALSE]
    BY <1>6 DEF ChooseSource
  <2>3. QED
    BY <2>1, <2>2 DEF CopyRecords
<1>7. CopyTypes'
  <2>1. copying' \in [CopyCalls -> CopyRecords]
    <3>1. copying' = [d \in CopyCalls |-> copying'[d]]
      BY DEF ChooseSource
    <3>2. \A d \in CopyCalls : copying'[d] \in CopyRecords
      BY <1>5, <1>6
    <3>3. QED
      BY <3>1, <3>2
  <2>2. QED
    BY <1>1, <1>2, <2>1 DEF CopyTypes
<1>8. LaterIsOrder' /\ SignedInIsNewest'
  BY <1>1, <1>2 DEF LaterIsOrder, SignedInIsNewest
<1>9. CopyIsSound(c)'
  <2>1. SignInIsCarried(c)' /\ ClaudeCopiesUsable(c)'
    BY <1>2, <1>3, <1>4 DEF SignInIsCarried, ClaudeCopiesUsable, Usable
  <2>2. AloneCopies(c)'
    BY <1>4, <1>6 DEF AloneCopies, NobodyCopies
  <2>3. UnforcedIsUnexpired(c)'
    BY <1>2, <1>4 DEF UnforcedIsUnexpired, Forced, HasExpired
  <2>4. QED
    BY <2>1, <2>2, <2>3 DEF CopyIsSound
<1>10. ASSUME NEW d \in CopyCalls, d # c PROVE CopyIsSound(d)'
  BY <1>1, <1>2, <1>6, <1>10
  DEF CopyIsSound, SignInIsCarried, AloneCopies, ClaudeCopiesUsable, UnforcedIsUnexpired,
      Usable, HasExpired
<1>11. QED
  BY <1>7, <1>8, <1>9, <1>10 DEF CopyInv

\* A setup copies, and ends.
LEMMA HomeIsCopied ==
  ASSUME CopyInv, NEW c \in CopyCalls, CopyFrom(c)
  PROVE  CopyInv'
<1> DEFINE home == copying[c].home
           x == sessionIn'[home]
<1>1. CopyTypes /\ LaterIsOrder /\ SignedInIsNewest /\ \A d \in CopyCalls : CopyIsSound(d)
  BY DEF CopyInv
<1>2. /\ copying[c].at = "copy"
      /\ UNCHANGED <<account, renews, keychain, given, spent, signedInAs>>
      /\ copying' = [copying EXCEPT ![c] = NoCopy]
      /\ CopyHappens(c) => sessionIn' = [sessionIn EXCEPT ![home] = Source(c)] /\ Touch(home)
      /\ ~CopyHappens(c) => UNCHANGED <<sessionIn, later>>
  BY CopyIs
<1>3. /\ signedInAs # 0 => x = signedInAs
      /\ account = "claude" /\ CopyHappens(c) => Usable(Source(c))
      /\ Source(c) \in (0 .. given) \cup {Broken}
      /\ CopyHappens(c) => Source(c) # sessionIn[home]
  BY CopyBrings DEF CopyHappens
<1>4. home \in Places \ {"station"} /\ \A d \in CopyCalls : copying[d].home \in Places
  BY <1>1, CopyFields, PlacesKnown DEF CopyTypes
<1>5. sessionIn \in [Places -> (0 .. given) \cup {Broken}]
  BY <1>1 DEF CopyTypes
<1>6. /\ copying' \in [CopyCalls -> CopyRecords] /\ copying'[c].at = "idle" /\ ~copying'[c].alone
      /\ \A d \in CopyCalls : d # c => copying'[d] = copying[d]
  BY <1>1, <1>2, CopyFields DEF CopyTypes
<1>7. CASE ~CopyHappens(c)
  <2>1. UNCHANGED <<sessionIn, later>>
    BY <1>2, <1>7
  <2>2. CopyTypes' /\ LaterIsOrder' /\ SignedInIsNewest'
    BY <1>1, <1>2, <1>6, <2>1 DEF CopyTypes, LaterIsOrder, SignedInIsNewest
  <2>3. ASSUME NEW d \in CopyCalls PROVE CopyIsSound(d)'
    BY <1>1, <1>2, <1>6, <2>1
    DEF CopyIsSound, SignInIsCarried, AloneCopies, ClaudeCopiesUsable, UnforcedIsUnexpired,
        Usable, HasExpired
  <2>4. QED
    BY <2>2, <2>3 DEF CopyInv
<1>8. CASE CopyHappens(c)
  <2>1. \A p \in Places : sessionIn'[p] = IF p = home THEN Source(c) ELSE sessionIn[p]
    BY <1>2, <1>4, <1>5, <1>8
  <2>2. sessionIn' \in [Places -> (0 .. given') \cup {Broken}]
    BY <1>2, <1>3, <1>4, <1>5, <1>8
  <2>3. /\ LaterIsOrder'
        /\ \A p, q \in Places : <<p, q>> \in later'
             <=> (p = home /\ q # home) \/ (<<p, q>> \in later /\ q # home)
    BY <1>1, <1>2, <1>4, <1>8, WrittenLast
  <2>4. signedInAs # 0 => Source(c) = signedInAs /\ sessionIn[home] # signedInAs
    BY <1>3, <1>4, <1>8, <2>1
  <2>5. CopyTypes'
    BY <1>1, <1>2, <1>6, <2>2 DEF CopyTypes
  <2>6. SignedInIsNewest'
    <3>1. ASSUME signedInAs # 0, NEW p \in Places, NEW q \in Places,
                 sessionIn'[p] = signedInAs, sessionIn'[q] # signedInAs
          PROVE  <<p, q>> \in later'
      BY <1>1, <2>1, <2>3, <2>4, <3>1 DEF SignedInIsNewest
    <3>2. signedInAs # 0 => sessionIn["station"] = sessionIn'["station"]
      BY <1>4, <2>1, PlacesKnown
    <3>3. QED
      BY <1>1, <1>2, <3>1, <3>2 DEF SignedInIsNewest
  <2>7. CopyIsSound(c)'
    BY <1>6
    DEF CopyIsSound, SignInIsCarried, AloneCopies, ClaudeCopiesUsable, UnforcedIsUnexpired
  <2>8. ASSUME NEW d \in CopyCalls, d # c PROVE CopyIsSound(d)'
    <3>1. CopyIsSound(d) /\ copying'[d] = copying[d] /\ copying[d].home \in Places
      BY <1>1, <1>4, <1>6, <2>8
    <3>2. SignInIsCarried(d)'
      BY <1>2, <2>1, <2>3, <2>4, <3>1 DEF CopyIsSound, SignInIsCarried
    <3>3. AloneCopies(d)' /\ ~copying[d].alone
      BY <1>2, <1>6, <2>8, <3>1 DEF CopyIsSound, AloneCopies
    <3>4. ClaudeCopiesUsable(d)'
      BY <1>2, <1>3, <1>8, <2>1, <3>1 DEF CopyIsSound, ClaudeCopiesUsable, Usable
    <3>5. Usable(Source(c)) => ~HasExpired(Source(c))
      BY <1>1, <1>3, NumbersKnown DEF Usable, HasExpired
    <3>6. UnforcedIsUnexpired(d)'
      BY <1>2, <1>3, <1>8, <2>1, <3>1, <3>3, <3>5 DEF CopyIsSound, UnforcedIsUnexpired, HasExpired
    <3>7. QED
      BY <3>2, <3>3, <3>4, <3>6 DEF CopyIsSound
  <2>9. QED
    BY <2>3, <2>5, <2>6, <2>7, <2>8 DEF CopyInv
<1>9. QED
  BY <1>7, <1>8

\* The next setup of a home brings the session the user signed in with; a setup that copies
\* from a usable session leaves its home with one, and none of Claude takes one away, for
\* every number of setups and sessions (syncAgentUserFile, syncCodexAuthenticationFile,
\* syncClaudeCredentials).
THEOREM CopiesCorrect == CopySpec => CopiesBringSessions
<1>1. CopyInit => CopyInv
  <2> SUFFICES ASSUME CopyInit PROVE CopyInv
    OBVIOUS
  <2>1. copying \in [CopyCalls -> CopyRecords] /\ \A c \in CopyCalls : copying[c] = NoCopy
    BY CopyFields DEF CopyInit
  <2>2. CopyTypes
    <3>1. 0 \in 0 .. SessionCount /\ 0 \in 0 .. 0
      BY PlacesKnown
    <3>2. QED
      BY <2>1, <3>1 DEF CopyInit, CopyTypes
  <2>3. LaterIsOrder /\ SignedInIsNewest
    BY DEF CopyInit, LaterIsOrder, SignedInIsNewest
  <2>4. ASSUME NEW c \in CopyCalls PROVE CopyIsSound(c)
    BY <2>1, CopyFields
    DEF CopyIsSound, SignInIsCarried, AloneCopies, ClaudeCopiesUsable, UnforcedIsUnexpired
  <2>5. QED
    BY <2>2, <2>3, <2>4 DEF CopyInv
<1>2. CopyInv /\ [CopyNext]_copyVars => CopyInv'
  <2>1. CopyInv /\ CopyNext => CopyInv'
    BY UserGetsSession, OneExpires, CliRewrites, UserSignsOut, HomeIsCopied, EngineStopsCopying,
       SourceIsChosen DEF CopyNext
  <2>2. ASSUME CopyInv, UNCHANGED copyVars PROVE CopyInv'
    <3>1. UNCHANGED <<account, renews, sessionIn, keychain, later, given, spent, copying, signedInAs>>
      BY <2>2 DEF copyVars
    <3>2. CopyTypes' /\ LaterIsOrder' /\ SignedInIsNewest'
      BY <2>2, <3>1 DEF CopyInv, CopyTypes, LaterIsOrder, SignedInIsNewest
    <3>3. \A c \in CopyCalls : CopyIsSound(c)'
      BY <2>2, <3>1
      DEF CopyInv, CopyIsSound, SignInIsCarried, AloneCopies, ClaudeCopiesUsable,
          UnforcedIsUnexpired, Usable, HasExpired
    <3>4. QED
      BY <3>2, <3>3 DEF CopyInv
  <2>3. QED
    BY <2>1, <2>2
<1>3. CopyInv => \A c \in CopyCalls :
        CopyFrom(c) /\ signedInAs # 0 => sessionIn'[copying[c].home] = signedInAs
  BY CopyBrings
<1>4. CopyInv => \A c \in CopyCalls :
        CopyFrom(c) /\ (\A p \in Places : sessionIn[p] # Broken)
          /\ (account = "claude" \/ copying[c].alone)
          /\ copying[c].usable /\ copying[c].from \in Places
          /\ Usable(sessionIn[copying[c].from])
        => Usable(sessionIn'[copying[c].home])
  BY CopyBrings
<1>5. CopyInv => \A c \in CopyCalls :
        CopyFrom(c) /\ account = "claude" /\ Usable(sessionIn[copying[c].home])
        => Usable(sessionIn'[copying[c].home])
  <2> SUFFICES ASSUME CopyInv, NEW c \in CopyCalls, CopyFrom(c), account = "claude",
                      Usable(sessionIn[copying[c].home])
               PROVE  Usable(sessionIn'[copying[c].home])
    OBVIOUS
  <2>1. CASE CopyHappens(c)
    <3>1. copying[c].home \in Places
      BY CopyFields, PlacesKnown DEF CopyInv, CopyTypes
    <3>2. sessionIn'[copying[c].home] = Source(c)
      BY <2>1, <3>1, CopyIs DEF CopyInv, CopyTypes
    <3>3. QED
      BY <2>1, <3>2, CopyBrings
  <2>2. CASE ~CopyHappens(c)
    BY <2>2, CopyIs
  <2>3. QED
    BY <2>1, <2>2
<1>6. QED
  BY <1>1, <1>2, <1>3, <1>4, <1>5, PTL
  DEF CopySpec, CopiesBringSessions, SignInReachesHomes, SetupBringsSession, UsableIsKept

-----------------------------------------------------------------------------
(* What the reader of a Vibe process makes of what it reads.                *)

Lines ==
  [kind : {"start", "update", "end", "ask", "loaded"}, call : ToolCalls \cup {NoToolCall},
   titled : BOOLEAN, old : BOOLEAN]

UpdateTypes ==
  /\ callStage \in [ToolCalls -> {"unborn", "past", "told", "asking", "over"}]
  /\ loadStage \in {"loading", "open"}
  /\ updateLines \in Seq(Lines)
  /\ toolCallTitles \in Seq(ToolCalls)
  /\ heard \subseteq ToolCalls
  /\ newer \in [ToolCalls -> SUBSET ToolCalls]

\* a line that is read
Line(n) == updateLines[n]
LinesLeft == 1 .. Len(updateLines)

\* a line that is no answer to session/load is about a call; while a session is being
\* loaded it is history, which begins calls
LinesAreKnown ==
  \A n \in LinesLeft :
    /\ Line(n).old => Line(n).kind = "start"
    /\ Line(n).kind # "loaded" => /\ Line(n).call \in ToolCalls
                                  /\ loadStage = "loading" => Line(n).old

\* no turn begins while a session is being loaded, and the flag is up meanwhile; the load
\* is not given up before its end
LoadIsFlagged ==
  /\ replayingSession <=> loadStage = "loading"
  /\ loadStage = "loading" => /\ ~gaveUpLoad
                              /\ \A c \in ToolCalls : callStage[c] \in {"unborn", "past"}

\* nothing is replayed after the answer to session/load
AnswerComesLast ==
  \A n \in LinesLeft :
    Line(n).kind = "loaded" =>
      /\ replayEnded /\ ~Line(n).old
      /\ \A m \in LinesLeft : m > n => ~Line(m).old

\* once the answer was read, or a load that is over was not given up, no history is left
NoHistoryLeft == replayEnded /\ \A n \in LinesLeft : ~Line(n).old
LoadedIsOver == loadAnswered \/ (loadStage = "open" /\ ~gaveUpLoad) => NoHistoryLeft

\* titles are remembered once, and those remembered after one are newer than it
TitlesAreRecent ==
  /\ Len(toolCallTitles) <= TitlesKept
  /\ \A n \in DOMAIN toolCallTitles : toolCallTitles[n] \in heard
  /\ \A m, n \in DOMAIN toolCallTitles : toolCallTitles[m] = toolCallTitles[n] => m = n
  /\ \A c \in ToolCalls : IsFiniteSet(newer[c])
  /\ \A c \in ToolCalls \ heard : newer[c] = {}
  /\ \A c \in heard :
       \/ Cardinality(newer[c]) >= TitlesKept
       \/ \E n \in DOMAIN toolCallTitles :
            /\ toolCallTitles[n] = c
            /\ \A m \in DOMAIN toolCallTitles : m > n => toolCallTitles[m] \in newer[c]

UpdatesInv ==
  /\ UpdateTypes /\ LinesAreKnown /\ LoadIsFlagged /\ AnswerComesLast /\ LoadedIsOver
  /\ HistoryIsSorted /\ TitlesAreRecent

\* A line is printed after those that are left.
LEMMA LineIsPrinted ==
  ASSUME updateLines \in Seq(Lines), NEW new \in Lines, updateLines' = Append(updateLines, new)
  PROVE  /\ updateLines' \in Seq(Lines) /\ Len(updateLines) \in Nat
         /\ Len(updateLines') = Len(updateLines) + 1
         /\ \A n \in LinesLeft : Line(n)' = Line(n)
         /\ updateLines'[Len(updateLines) + 1] = new
<1>1. /\ updateLines' \in Seq(Lines) /\ Len(updateLines) \in Nat
      /\ Len(updateLines') = Len(updateLines) + 1
      /\ \A n \in 1 .. Len(updateLines) : updateLines'[n] = updateLines[n]
      /\ updateLines'[Len(updateLines) + 1] = new
  BY AppendProperties, LenProperties
<1>2. QED
  BY <1>1 DEF Line, LinesLeft

\* The first line that is left is read.
LEMMA LineIsRead ==
  ASSUME updateLines \in Seq(Lines), updateLines # <<>>, updateLines' = Tail(updateLines)
  PROVE  /\ 1 \in LinesLeft /\ Head(updateLines) = Line(1) /\ Line(1) \in Lines
         /\ updateLines' \in Seq(Lines) /\ Len(updateLines) \in Nat
         /\ \A n \in LinesLeft' : /\ n \in Nat /\ n + 1 \in LinesLeft /\ n + 1 > 1
                                  /\ Line(n)' = Line(n + 1)
<1>1. /\ Head(updateLines) \in Lines /\ Tail(updateLines) \in Seq(Lines)
      /\ Len(Tail(updateLines)) = Len(updateLines) - 1
      /\ \A n \in 1 .. Len(Tail(updateLines)) : Tail(updateLines)[n] = updateLines[n + 1]
  BY HeadTailProperties
<1>2. Len(updateLines) \in Nat /\ Len(updateLines) # 0
  BY EmptySeq, LenProperties, SeqEqual
<1>3. Head(updateLines) = updateLines[1]
  OBVIOUS
<1>4. QED
  BY <1>1, <1>2, <1>3 DEF Line, LinesLeft

\* What the agent prints: history until it has answered session/load, then its turns.
LEMMA AgentPrints ==
  ASSUME UpdatesInv,
         NEW kind \in {"start", "update", "end", "ask", "loaded"},
         NEW c \in ToolCalls \cup {NoToolCall}, NEW titled \in BOOLEAN, NEW old \in BOOLEAN,
         Prints(kind, c, titled, old),
         UNCHANGED <<startVars, memoryVars, loadAnswered, leaked, dropped>>,
         callStage' \in [ToolCalls -> {"unborn", "past", "told", "asking", "over"}],
         loadStage = "loading" => \A d \in ToolCalls : callStage'[d] \in {"unborn", "past"},
         \/ kind = "loaded" /\ ~old /\ ~replayEnded /\ replayEnded'
         \/ /\ kind = "start" /\ old /\ c \in ToolCalls
            /\ ~replayEnded /\ UNCHANGED replayEnded
         \/ /\ kind # "loaded" /\ ~old /\ c \in ToolCalls
            /\ loadStage = "open" /\ UNCHANGED replayEnded
  PROVE  UpdatesInv'
<1>1. /\ UpdateTypes /\ LinesAreKnown /\ LoadIsFlagged /\ AnswerComesLast /\ LoadedIsOver
      /\ HistoryIsSorted /\ TitlesAreRecent
  BY DEF UpdatesInv
<1>2. /\ UNCHANGED <<replayingSession, loadStage, gaveUpLoad, toolCallTitles, heard, newer,
                     loadAnswered, leaked, dropped>>
  BY DEF startVars, memoryVars
<1>3. PICK latest : latest = Len(updateLines) + 1
  OBVIOUS
<1>4. /\ updateLines' \in Seq(Lines)
      /\ latest \in LinesLeft' /\ latest \notin LinesLeft
      /\ \A n \in LinesLeft : n < latest /\ n \in LinesLeft' /\ Line(n)' = Line(n)
      /\ \A n \in LinesLeft' : n \in LinesLeft \/ n = latest
      /\ \A n \in LinesLeft' : ~(n > latest)
      /\ Line(latest)'.kind = kind /\ Line(latest)'.call = c /\ Line(latest)'.old = old
  <2> DEFINE new == [kind |-> kind, call |-> c, titled |-> titled, old |-> old]
  <2>1. new \in Lines /\ new.kind = kind /\ new.call = c /\ new.old = old
    BY DEF Lines
  <2>2. updateLines \in Seq(Lines) /\ updateLines' = Append(updateLines, new)
    BY <1>1 DEF Prints, UpdateTypes
  <2> HIDE DEF new
  <2>3. /\ updateLines' \in Seq(Lines) /\ Len(updateLines) \in Nat
        /\ Len(updateLines') = Len(updateLines) + 1
        /\ \A n \in LinesLeft : Line(n)' = Line(n)
        /\ updateLines'[Len(updateLines) + 1] = new
    BY <2>1, <2>2, LineIsPrinted
  <2>4. QED
    BY <1>3, <2>1, <2>3 DEF LinesLeft, Line
<1>5. UpdateTypes'
  BY <1>1, <1>2, <1>4 DEF UpdateTypes
<1>6. LinesAreKnown'
  BY <1>1, <1>2, <1>4 DEF LinesAreKnown
<1>7. LoadIsFlagged'
  BY <1>1, <1>2 DEF LoadIsFlagged
<1>8. AnswerComesLast'
  <2> SUFFICES ASSUME NEW n \in LinesLeft', Line(n)'.kind = "loaded"
               PROVE  /\ replayEnded' /\ ~Line(n)'.old
                      /\ \A m \in LinesLeft' : m > n => ~Line(m)'.old
    BY DEF AnswerComesLast
  <2>1. CASE n = latest
    BY <1>4, <2>1
  <2>2. CASE n \in LinesLeft
    <3>1. replayEnded /\ ~Line(n).old /\ \A m \in LinesLeft : m > n => ~Line(m).old
      BY <1>1, <1>4, <2>2 DEF AnswerComesLast
    <3>2. ~old /\ replayEnded'
      BY <3>1
    <3>3. QED
      BY <1>4, <2>2, <3>1, <3>2
  <2>3. QED
    BY <1>4, <2>1, <2>2
<1>9. LoadedIsOver'
  <2>1. ASSUME NoHistoryLeft PROVE NoHistoryLeft'
    BY <1>4, <2>1 DEF NoHistoryLeft
  <2>2. QED
    BY <1>1, <1>2, <2>1 DEF LoadedIsOver
<1>10. HistoryIsSorted' /\ TitlesAreRecent'
  BY <1>1, <1>2 DEF HistoryIsSorted, TitlesAreRecent
<1>11. QED
  BY <1>5, <1>6, <1>7, <1>8, <1>9, <1>10 DEF UpdatesInv

\* What is left of the lines when the first of them was read.
LEMMA ReaderReads ==
  ASSUME UpdatesInv, updateLines # <<>>, updateLines' = Tail(updateLines), UNCHANGED startVars,
         UNCHANGED replayEnded
  PROVE  /\ 1 \in LinesLeft /\ Head(updateLines) = Line(1) /\ Line(1) \in Lines
         /\ updateLines' \in Seq(Lines)
         /\ LinesAreKnown' /\ AnswerComesLast'
         /\ NoHistoryLeft => NoHistoryLeft'
         /\ Line(1).kind = "loaded" => NoHistoryLeft'
<1>1. UpdateTypes /\ LinesAreKnown /\ AnswerComesLast
  BY DEF UpdatesInv
<1>2. /\ 1 \in LinesLeft /\ Head(updateLines) = Line(1) /\ Line(1) \in Lines
      /\ updateLines' \in Seq(Lines) /\ Len(updateLines) \in Nat
      /\ \A n \in LinesLeft' : /\ n \in Nat /\ n + 1 \in LinesLeft /\ n + 1 > 1
                               /\ Line(n)' = Line(n + 1)
  BY <1>1, LineIsRead DEF UpdateTypes
<1>3. LinesAreKnown'
  BY <1>1, <1>2 DEF LinesAreKnown, startVars
<1>4. AnswerComesLast'
  <2> SUFFICES ASSUME NEW n \in LinesLeft', Line(n)'.kind = "loaded"
               PROVE  /\ replayEnded' /\ ~Line(n)'.old
                      /\ \A m \in LinesLeft' : m > n => ~Line(m)'.old
    BY DEF AnswerComesLast
  <2>1. replayEnded /\ ~Line(n + 1).old /\ \A m \in LinesLeft : m > n + 1 => ~Line(m).old
    BY <1>1, <1>2 DEF AnswerComesLast
  <2>2. ASSUME NEW m \in LinesLeft', m > n PROVE ~Line(m)'.old
    <3>1. m + 1 \in LinesLeft /\ m + 1 > n + 1
      BY <1>2, <2>2
    <3>2. QED
      BY <1>2, <2>1, <2>2, <3>1
  <2>3. QED
    BY <1>2, <2>1, <2>2
<1>5. NoHistoryLeft => NoHistoryLeft'
  BY <1>2 DEF NoHistoryLeft
<1>6. Line(1).kind = "loaded" => NoHistoryLeft'
  BY <1>1, <1>2 DEF AnswerComesLast, NoHistoryLeft
<1>7. QED
  BY <1>2, <1>3, <1>4, <1>5, <1>6

\* A set that holds the elements of a sequence that has none twice, but for one element
\* put in the place of the first, is as large as the sequence is long.
LEMMA AsManyAsPlaces ==
  ASSUME NEW S, IsFiniteSet(S), NEW K \in Nat, NEW s, NEW d \in S,
         \A m \in 2 .. K : s[m] \in S /\ s[m] # d,
         \A m, n \in 2 .. K : s[m] = s[n] => m = n
  PROVE  Cardinality(S) >= K
<1> DEFINE f == [m \in 1 .. K |-> IF m = 1 THEN d ELSE s[m]]
<1>1. IsFiniteSet(1 .. K) /\ Cardinality(1 .. K) = K
  <2>1. 1 \in Int /\ K \in Int
    OBVIOUS
  <2>2. IsFiniteSet(1 .. K) /\ Cardinality(1 .. K) = IF 1 > K THEN 0 ELSE K - 1 + 1
    BY <2>1, FS_Interval
  <2>3. QED
    BY <2>2
<1>2. \A m \in 1 .. K : m = 1 \/ m \in 2 .. K
  OBVIOUS
<1>3. f \in [1 .. K -> S]
  BY <1>2
<1>4. \A m, n \in 1 .. K : f[m] = f[n] => m = n
  BY <1>2
<1>5. Cardinality(S) \in Nat
  BY FS_CardinalityType
<1> HIDE DEF f
<1>6. ~(Cardinality(S) < Cardinality(1 .. K))
  BY <1>1, <1>3, <1>4, FS_PigeonHole
<1>7. QED
  BY <1>1, <1>5, <1>6

\* Where the titles are when one more is remembered.
LEMMA TitleIsRemembered ==
  ASSUME toolCallTitles \in Seq(ToolCalls), NEW K \in Nat, K = Len(toolCallTitles), K <= TitlesKept,
         NEW d \in ToolCalls, toolCallTitles' = Remember(d)
  PROVE  /\ toolCallTitles' \in Seq(ToolCalls)
         /\ \/ /\ K < TitlesKept /\ DOMAIN toolCallTitles' = 1 .. (K + 1)
               /\ toolCallTitles'[K + 1] = d /\ Len(toolCallTitles') = K + 1
               /\ \A m \in 1 .. K : toolCallTitles'[m] = toolCallTitles[m]
            \/ /\ K = TitlesKept /\ DOMAIN toolCallTitles' = 1 .. K
               /\ toolCallTitles'[K] = d /\ Len(toolCallTitles') = K
               /\ \A m \in 1 .. (K - 1) : toolCallTitles'[m] = toolCallTitles[m + 1]
<1>1. CASE K # TitlesKept
  <2>1. toolCallTitles' = Append(toolCallTitles, d) /\ K < TitlesKept
    BY <1>1, TitlesAssumption DEF Remember
  <2>2. QED
    BY <1>1, <2>1, AppendProperties, LenProperties
<1>2. CASE K = TitlesKept
  <2>1. toolCallTitles' = Append(Tail(toolCallTitles), d)
    BY <1>2 DEF Remember
  <2>2. toolCallTitles # <<>>
    BY <1>2, TitlesAssumption, EmptySeq
  <2>3. /\ Tail(toolCallTitles) \in Seq(ToolCalls) /\ Len(Tail(toolCallTitles)) = K - 1
        /\ \A m \in 1 .. (K - 1) : Tail(toolCallTitles)[m] = toolCallTitles[m + 1]
    BY <2>2, HeadTailProperties
  <2>4. PICK rest \in Seq(ToolCalls) : rest = Tail(toolCallTitles)
    BY <2>3
  <2>5. /\ Append(rest, d) \in Seq(ToolCalls) /\ Len(Append(rest, d)) = Len(rest) + 1
        /\ \A m \in 1 .. Len(rest) : Append(rest, d)[m] = rest[m]
        /\ Append(rest, d)[Len(rest) + 1] = d
    BY AppendProperties
  <2>6. Len(rest) = K - 1 /\ K - 1 + 1 = K
    BY <2>3, <2>4
  <2>7. DOMAIN toolCallTitles' = 1 .. Len(toolCallTitles')
    BY <2>1, <2>4, <2>5, LenProperties
  <2>8. QED
    BY <1>2, <2>1, <2>3, <2>4, <2>5, <2>6, <2>7
<1>3. QED
  BY <1>1, <1>2

\* A title that is heard is remembered, and it is newer than those heard before; one of
\* these is forgotten only when as many are newer as are remembered.
LEMMA TitleIsHeard ==
  ASSUME UpdateTypes, TitlesAreRecent, NEW line \in Lines, line.call \in ToolCalls, HearTitle(line)
  PROVE  /\ TitlesAreRecent'
         /\ toolCallTitles' \in Seq(ToolCalls) /\ heard' \subseteq ToolCalls
         /\ newer' \in [ToolCalls -> SUBSET ToolCalls]
<1> DEFINE d == line.call
           K == Len(toolCallTitles)
<1>1. /\ toolCallTitles \in Seq(ToolCalls) /\ heard \subseteq ToolCalls
      /\ newer \in [ToolCalls -> SUBSET ToolCalls] /\ K \in Nat
      /\ DOMAIN toolCallTitles = 1 .. K /\ TitlesKept \in Nat /\ TitlesKept > 0 /\ K <= TitlesKept
      /\ \A c \in ToolCalls : IsFiniteSet(newer[c])
      /\ \A m, n \in 1 .. K : toolCallTitles[m] = toolCallTitles[n] => m = n
  BY LenProperties, TitlesAssumption DEF UpdateTypes, TitlesAreRecent
<1>2. CASE ~line.titled
  <2>1. UNCHANGED <<toolCallTitles, heard, newer>>
    BY <1>2 DEF HearTitle
  <2>2. QED
    BY <1>1, <2>1 DEF TitlesAreRecent
<1>3. CASE line.titled
  <2>1. /\ toolCallTitles' = IF InSeq(d, toolCallTitles) THEN toolCallTitles ELSE Remember(d)
        /\ heard' = heard \cup {d}
        /\ newer' = [c \in ToolCalls |->
                       IF c \in heard \ {d} /\ Cardinality(newer[c]) < TitlesKept
                       THEN newer[c] \cup {d} ELSE newer[c]]
    BY <1>3 DEF HearTitle
  <2>2. /\ heard' \subseteq ToolCalls /\ newer' \in [ToolCalls -> SUBSET ToolCalls]
        /\ \A c \in ToolCalls \ heard' : newer'[c] = {}
    BY <1>1, <2>1 DEF TitlesAreRecent
  <2>3. ASSUME NEW c \in ToolCalls
        PROVE  /\ IsFiniteSet(newer'[c])
               /\ Cardinality(newer[c]) >= TitlesKept => Cardinality(newer'[c]) >= TitlesKept
               /\ newer[c] \subseteq newer'[c]
               /\ c \in heard /\ c # d /\ Cardinality(newer[c]) < TitlesKept => d \in newer'[c]
    <3>1. IsFiniteSet(newer[c] \cup {d}) /\ Cardinality(newer[c]) \in Nat
      BY <1>1, FS_AddElement, FS_CardinalityType
    <3>2. newer'[c] = IF c \in heard \ {d} /\ Cardinality(newer[c]) < TitlesKept
                      THEN newer[c] \cup {d} ELSE newer[c]
      BY <2>1
    <3> HIDE DEF d
    <3>3. QED
      BY <1>1, <3>1, <3>2
  <2>4. CASE InSeq(d, toolCallTitles)
    <3>1. toolCallTitles' = toolCallTitles
      BY <2>1, <2>4
    <3>2. heard' = heard
      BY <1>1, <2>1, <2>4 DEF InSeq, TitlesAreRecent
    <3>3. ASSUME NEW c \in heard'
          PROVE  \/ Cardinality(newer'[c]) >= TitlesKept
                 \/ \E n \in 1 .. K : /\ toolCallTitles[n] = c
                                      /\ \A m \in 1 .. K : m > n => toolCallTitles[m] \in newer'[c]
      BY <1>1, <2>3, <3>2 DEF TitlesAreRecent
    <3>4. QED
      BY <1>1, <2>2, <2>3, <3>1, <3>2, <3>3 DEF TitlesAreRecent
  <2>5. CASE ~InSeq(d, toolCallTitles)
    <3>1. PICK k \in Nat : k = K
      BY <1>1
    <3>2. \A m \in 1 .. k : toolCallTitles[m] # d
      BY <1>1, <2>5, <3>1 DEF InSeq
    <3>3. ASSUME NEW c \in heard', c # d, Cardinality(newer'[c]) < TitlesKept
          PROVE  /\ d \in newer'[c]
                 /\ \E n \in 1 .. k :
                      /\ toolCallTitles[n] = c
                      /\ \A m \in 1 .. k : m > n => toolCallTitles[m] \in newer'[c]
      <4>1. c \in heard /\ c \in ToolCalls
        BY <1>1, <2>1, <3>3
      <4>2. Cardinality(newer[c]) \in Nat /\ Cardinality(newer'[c]) \in Nat
        BY <1>1, <2>3, <4>1, FS_CardinalityType
      <4>3. ~(Cardinality(newer[c]) >= TitlesKept)
        BY <1>1, <2>3, <3>3, <4>1, <4>2
      <4>4. \E n \in 1 .. k : /\ toolCallTitles[n] = c
                               /\ \A m \in 1 .. k : m > n => toolCallTitles[m] \in newer[c]
        BY <1>1, <3>1, <4>1, <4>3 DEF TitlesAreRecent
      <4>5. d \in newer'[c] /\ newer[c] \subseteq newer'[c]
        BY <1>1, <2>3, <3>3, <4>1, <4>2, <4>3
      <4>6. QED
        BY <4>4, <4>5
    <3>4. \A c \in ToolCalls : Cardinality(newer'[c]) \in Nat
      BY <2>3, FS_CardinalityType
    <3> HIDE DEF d, K
    <3>5. d \in ToolCalls
      BY DEF d
    <3>6. /\ toolCallTitles' \in Seq(ToolCalls)
          /\ \/ /\ k < TitlesKept /\ DOMAIN toolCallTitles' = 1 .. (k + 1)
                /\ toolCallTitles'[k + 1] = d /\ Len(toolCallTitles') = k + 1
                /\ \A m \in 1 .. k : toolCallTitles'[m] = toolCallTitles[m]
             \/ /\ k = TitlesKept /\ DOMAIN toolCallTitles' = 1 .. k
                /\ toolCallTitles'[k] = d /\ Len(toolCallTitles') = k
                /\ \A m \in 1 .. (k - 1) : toolCallTitles'[m] = toolCallTitles[m + 1]
      BY <1>1, <2>1, <2>5, <3>1, <3>5, TitleIsRemembered DEF K
    <3>7. CASE /\ k < TitlesKept /\ DOMAIN toolCallTitles' = 1 .. (k + 1)
               /\ toolCallTitles'[k + 1] = d /\ Len(toolCallTitles') = k + 1
               /\ \A m \in 1 .. k : toolCallTitles'[m] = toolCallTitles[m]
      <4>1. \A m \in 1 .. (k + 1) : m \in 1 .. k \/ m = k + 1
        OBVIOUS
      <4>2. ASSUME NEW c \in heard', Cardinality(newer'[c]) < TitlesKept
            PROVE  \E n \in 1 .. (k + 1) :
                     /\ toolCallTitles'[n] = c
                     /\ \A m \in 1 .. (k + 1) : m > n => toolCallTitles'[m] \in newer'[c]
        BY <3>3, <3>7, <4>1, <4>2
      <4>3. /\ Len(toolCallTitles') <= TitlesKept
            /\ \A n \in 1 .. (k + 1) : toolCallTitles'[n] \in heard'
        BY <1>1, <2>1, <3>1, <3>7, <4>1 DEF TitlesAreRecent, K, d
      <4>4. \A m, n \in 1 .. (k + 1) : toolCallTitles'[m] = toolCallTitles'[n] => m = n
        BY <1>1, <3>1, <3>2, <3>7, <4>1 DEF K
      <4>5. ASSUME NEW c \in heard'
            PROVE  \/ Cardinality(newer'[c]) >= TitlesKept
                   \/ \E n \in 1 .. (k + 1) :
                        /\ toolCallTitles'[n] = c
                        /\ \A m \in 1 .. (k + 1) : m > n => toolCallTitles'[m] \in newer'[c]
        BY <1>1, <2>2, <3>4, <4>2
      <4>6. DOMAIN toolCallTitles' = 1 .. (k + 1)
        BY <3>7
      <4>7. \A c \in ToolCalls : IsFiniteSet(newer'[c])
        BY <2>3
      <4>8. \A c \in ToolCalls \ heard' : newer'[c] = {}
        BY <2>2
      <4>9. QED
        BY <2>2, <3>6, <4>3, <4>4, <4>5, <4>6, <4>7, <4>8 DEF TitlesAreRecent
    <3>8. CASE /\ k = TitlesKept /\ DOMAIN toolCallTitles' = 1 .. k
               /\ toolCallTitles'[k] = d /\ Len(toolCallTitles') = k
               /\ \A m \in 1 .. (k - 1) : toolCallTitles'[m] = toolCallTitles[m + 1]
      <4>1. \A m \in 1 .. k : (m \in 1 .. (k - 1) /\ m + 1 \in 1 .. k) \/ m = k
        OBVIOUS
      <4>2. ASSUME NEW c \in heard', Cardinality(newer'[c]) < TitlesKept
            PROVE  \E n \in 1 .. k :
                     /\ toolCallTitles'[n] = c
                     /\ \A m \in 1 .. k : m > n => toolCallTitles'[m] \in newer'[c]
        <5>1. CASE c = d
          BY <1>1, <3>8, <5>1
        <5>2. CASE c # d
          <6>1. PICK n \in 1 .. k : /\ toolCallTitles[n] = c
                                    /\ \A m \in 1 .. k : m > n => toolCallTitles[m] \in newer'[c]
            BY <3>3, <4>2, <5>2
          <6>2. d \in newer'[c]
            BY <3>3, <4>2, <5>2
          <6>3. n # 1
            <7>1. SUFFICES ASSUME n = 1 PROVE FALSE
              OBVIOUS
            <7>2. \A m \in 2 .. k : toolCallTitles[m] \in newer'[c] /\ toolCallTitles[m] # d
              BY <3>2, <6>1, <7>1
            <7>3. \A m, j \in 2 .. k : toolCallTitles[m] = toolCallTitles[j] => m = j
              BY <1>1, <3>1 DEF K
            <7>4. IsFiniteSet(newer'[c]) /\ c \in ToolCalls
              BY <2>2, <2>3
            <7>5. Cardinality(newer'[c]) >= k
              BY <6>2, <7>2, <7>3, <7>4, AsManyAsPlaces
            <7>6. QED
              BY <3>4, <3>8, <4>2, <7>4, <7>5
          <6>4. /\ n - 1 \in 1 .. (k - 1) /\ n - 1 \in 1 .. k /\ n - 1 + 1 = n
            BY <6>3
          <6>5. toolCallTitles'[n - 1] = c
            BY <3>8, <6>1, <6>4
          <6>6. ASSUME NEW m \in 1 .. k, m > n - 1 PROVE toolCallTitles'[m] \in newer'[c]
            <7>1. m + 1 > n
              BY <6>6
            <7>2. QED
              BY <3>8, <4>1, <6>1, <6>2, <7>1
          <6>7. QED
            BY <6>4, <6>5, <6>6
        <5>3. QED
          BY <5>1, <5>2
      <4>3. /\ Len(toolCallTitles') <= TitlesKept
            /\ \A n \in 1 .. k : toolCallTitles'[n] \in heard'
        BY <1>1, <2>1, <3>1, <3>8, <4>1 DEF TitlesAreRecent, K, d
      <4>4. \A m, n \in 1 .. k : toolCallTitles'[m] = toolCallTitles'[n] => m = n
        BY <1>1, <3>1, <3>2, <3>8, <4>1 DEF K
      <4>5. ASSUME NEW c \in heard'
            PROVE  \/ Cardinality(newer'[c]) >= TitlesKept
                   \/ \E n \in 1 .. k :
                        /\ toolCallTitles'[n] = c
                        /\ \A m \in 1 .. k : m > n => toolCallTitles'[m] \in newer'[c]
        BY <1>1, <2>2, <3>4, <4>2
      <4>6. DOMAIN toolCallTitles' = 1 .. k
        BY <3>8
      <4>7. \A c \in ToolCalls : IsFiniteSet(newer'[c])
        BY <2>3
      <4>8. \A c \in ToolCalls \ heard' : newer'[c] = {}
        BY <2>2
      <4>9. QED
        BY <2>2, <3>6, <4>3, <4>4, <4>5, <4>6, <4>7, <4>8 DEF TitlesAreRecent
    <3>9. QED
      BY <2>2, <3>6, <3>7, <3>8
  <2>6. QED
    BY <2>4, <2>5
<1>4. QED
  BY <1>2, <1>3

\* Initially nothing was printed, read or remembered.
LEMMA UpdatesInitially == UpdatesInit => UpdatesInv
<1> SUFFICES ASSUME UpdatesInit PROVE UpdatesInv
  OBVIOUS
<1>1. /\ updateLines = <<>> /\ updateLines \in Seq(Lines) /\ Len(updateLines) = 0
      /\ toolCallTitles \in Seq(ToolCalls) /\ DOMAIN toolCallTitles = {}
      /\ Len(toolCallTitles) = 0
  BY EmptySeq DEF UpdatesInit
<1>2. LinesLeft = {}
  BY <1>1 DEF LinesLeft
<1>3. UpdateTypes
  BY <1>1 DEF UpdateTypes, UpdatesInit
<1>4. TitlesAreRecent
  BY <1>1, FS_EmptySet, TitlesAssumption DEF TitlesAreRecent, UpdatesInit
<1>5. LinesAreKnown /\ LoadIsFlagged /\ AnswerComesLast /\ LoadedIsOver /\ HistoryIsSorted
  BY <1>2 DEF LinesAreKnown, LoadIsFlagged, AnswerComesLast, LoadedIsOver, NoHistoryLeft,
              HistoryIsSorted, UpdatesInit
<1>6. QED
  BY <1>3, <1>4, <1>5 DEF UpdatesInv

\* The agent replays calls, answers session/load and runs turns.
LEMMA AgentSpeaks ==
  ASSUME UpdatesInv,
         \/ \E c \in ToolCalls : ReplayCall(c) \/ BeginCall(c) \/ UpdateCall(c) \/ AskPermission(c)
         \/ AnswerLoad
  PROVE  UpdatesInv'
<1>1. /\ callStage \in [ToolCalls -> {"unborn", "past", "told", "asking", "over"}]
      /\ loadStage = "loading" => \A c \in ToolCalls : callStage[c] \in {"unborn", "past"}
  BY DEF UpdatesInv, UpdateTypes, LoadIsFlagged
<1>2. ASSUME NEW c \in ToolCalls, ReplayCall(c) PROVE UpdatesInv'
  <2>1. PICK titled \in BOOLEAN : Prints("start", c, titled, TRUE)
    BY <1>2 DEF ReplayCall
  <2>2. /\ UNCHANGED <<startVars, memoryVars, loadAnswered, leaked, dropped>>
        /\ callStage' \in [ToolCalls -> {"unborn", "past", "told", "asking", "over"}]
        /\ loadStage = "loading" => \A d \in ToolCalls : callStage'[d] \in {"unborn", "past"}
        /\ ~replayEnded /\ UNCHANGED replayEnded
    BY <1>1, <1>2 DEF ReplayCall, Becomes
  <2>3. QED
    BY <2>1, <2>2, AgentPrints
<1>3. ASSUME NEW c \in ToolCalls, BeginCall(c) PROVE UpdatesInv'
  <2>1. PICK titled \in BOOLEAN : Prints("start", c, titled, FALSE)
    BY <1>3 DEF BeginCall
  <2>2. /\ UNCHANGED <<startVars, memoryVars, loadAnswered, leaked, dropped>>
        /\ callStage' \in [ToolCalls -> {"unborn", "past", "told", "asking", "over"}]
        /\ loadStage = "open" /\ UNCHANGED replayEnded
    BY <1>1, <1>3 DEF BeginCall, Becomes
  <2>3. QED
    BY <2>1, <2>2, AgentPrints
<1>4. ASSUME NEW c \in ToolCalls, UpdateCall(c) PROVE UpdatesInv'
  <2>1. PICK kind \in {"update", "end"}, titled \in BOOLEAN :
          /\ Becomes(c, IF kind = "end" THEN "over" ELSE "told")
          /\ Prints(kind, c, titled, FALSE)
    BY <1>4 DEF UpdateCall
  <2>2. /\ UNCHANGED <<startVars, memoryVars, loadAnswered, leaked, dropped>>
        /\ callStage' \in [ToolCalls -> {"unborn", "past", "told", "asking", "over"}]
        /\ loadStage # "loading" /\ UNCHANGED replayEnded
    BY <1>1, <1>4, <2>1 DEF UpdateCall, Becomes
  <2>3. loadStage = "open"
    BY <2>2 DEF UpdatesInv, UpdateTypes
  <2>4. QED
    BY <2>1, <2>2, <2>3, AgentPrints
<1>5. ASSUME NEW c \in ToolCalls, AskPermission(c) PROVE UpdatesInv'
  <2>1. PICK titled \in BOOLEAN : Prints("ask", c, titled, FALSE)
    BY <1>5 DEF AskPermission
  <2>2. /\ UNCHANGED <<startVars, memoryVars, loadAnswered, leaked, dropped>>
        /\ callStage' \in [ToolCalls -> {"unborn", "past", "told", "asking", "over"}]
        /\ loadStage # "loading" /\ UNCHANGED replayEnded
    BY <1>1, <1>5 DEF AskPermission, Becomes
  <2>3. loadStage = "open"
    BY <2>2 DEF UpdatesInv, UpdateTypes
  <2>4. QED
    BY <2>1, <2>2, <2>3, AgentPrints
<1>6. ASSUME AnswerLoad PROVE UpdatesInv'
  <2>1. /\ Prints("loaded", NoToolCall, FALSE, FALSE)
        /\ UNCHANGED <<startVars, memoryVars, loadAnswered, leaked, dropped>>
        /\ callStage' = callStage /\ ~replayEnded /\ replayEnded'
    BY <1>6 DEF AnswerLoad
  <2>2. QED
    BY <1>1, <2>1, AgentPrints
<1>7. QED
  BY <1>2, <1>3, <1>4, <1>5, <1>6

\* The wait of the start ends: without an answer, the load was given up.
LEMMA StartGoesOn == UpdatesInv /\ EndLoad => UpdatesInv'
<1> SUFFICES ASSUME UpdatesInv, EndLoad PROVE UpdatesInv'
  OBVIOUS
<1>1. /\ UpdateTypes /\ LinesAreKnown /\ LoadIsFlagged /\ AnswerComesLast /\ LoadedIsOver
      /\ HistoryIsSorted /\ TitlesAreRecent
  BY DEF UpdatesInv
<1>2. /\ UNCHANGED <<callStage, replayEnded, toolCallTitles, heard, newer, loadAnswered,
                     updateLines, leaked, dropped>>
      /\ loadStage = "loading" /\ loadStage' = "open" /\ replayingSession' = FALSE
      /\ gaveUpLoad' = ~loadAnswered
  BY DEF EndLoad, LowerFlag, agentVars, memoryVars
<1>3. UpdateTypes' /\ TitlesAreRecent'
  BY <1>1, <1>2 DEF UpdateTypes, TitlesAreRecent
<1>4. LinesAreKnown' /\ AnswerComesLast'
  BY <1>1, <1>2 DEF LinesAreKnown, AnswerComesLast, Line, LinesLeft
<1>5. LoadIsFlagged' /\ LoadedIsOver'
  BY <1>1, <1>2 DEF LoadIsFlagged, LoadedIsOver, NoHistoryLeft, Line, LinesLeft
<1>6. HistoryIsSorted'
  BY <1>1, <1>2 DEF HistoryIsSorted, LoadIsFlagged
<1>7. QED
  BY <1>3, <1>4, <1>5, <1>6 DEF UpdatesInv

\* An update is dropped only while a session is loaded, when only history is printed; it
\* is shown only when the load is over, when history is left only if it was given up.
LEMMA UpdateIsHandled == UpdatesInv /\ HandleUpdate => UpdatesInv'
<1> SUFFICES ASSUME UpdatesInv, HandleUpdate PROVE UpdatesInv'
  OBVIOUS
<1>1. /\ UpdateTypes /\ LinesAreKnown /\ LoadIsFlagged /\ AnswerComesLast /\ LoadedIsOver
      /\ HistoryIsSorted /\ TitlesAreRecent
  BY DEF UpdatesInv
<1>2. /\ updateLines # <<>> /\ updateLines' = Tail(updateLines) /\ UNCHANGED startVars
      /\ UNCHANGED <<replayingSession, loadStage, gaveUpLoad, callStage, replayEnded,
                     loadAnswered>>
  BY DEF HandleUpdate, agentVars, startVars
<1>3. /\ 1 \in LinesLeft /\ Head(updateLines) = Line(1) /\ Line(1) \in Lines
      /\ updateLines' \in Seq(Lines) /\ LinesAreKnown' /\ AnswerComesLast'
      /\ NoHistoryLeft => NoHistoryLeft'
  BY <1>2, ReaderReads
<1>4. PICK line \in Lines : line = Head(updateLines)
  BY <1>3
<1>5. /\ line.kind \in {"start", "update", "end"}
      /\ IF replayingSession
         THEN dropped' = (dropped \/ ~line.old) /\ UNCHANGED <<memoryVars, leaked>>
         ELSE HearTitle(line) /\ leaked' = (leaked \/ line.old) /\ UNCHANGED dropped
  BY <1>4 DEF HandleUpdate
<1>6. line.call \in ToolCalls /\ (loadStage = "loading" => line.old)
  BY <1>1, <1>3, <1>4, <1>5 DEF LinesAreKnown
<1>7. /\ TitlesAreRecent'
      /\ toolCallTitles' \in Seq(ToolCalls) /\ heard' \subseteq ToolCalls
      /\ newer' \in [ToolCalls -> SUBSET ToolCalls]
  <2>1. CASE replayingSession
    <3>1. UNCHANGED <<toolCallTitles, heard, newer>>
      BY <1>5, <2>1 DEF memoryVars
    <3>2. QED
      BY <1>1, <3>1 DEF TitlesAreRecent, UpdateTypes
  <2>2. CASE ~replayingSession
    BY <1>1, <1>5, <1>6, <2>2, TitleIsHeard
  <2>3. QED
    BY <2>1, <2>2
<1>8. UpdateTypes'
  BY <1>1, <1>2, <1>3, <1>7 DEF UpdateTypes
<1>9. LoadIsFlagged' /\ LoadedIsOver'
  BY <1>1, <1>2, <1>3 DEF LoadIsFlagged, LoadedIsOver
<1>10. HistoryIsSorted'
  <2>1. CASE replayingSession
    BY <1>1, <1>2, <1>5, <1>6, <2>1 DEF HistoryIsSorted, LoadIsFlagged
  <2>2. CASE ~replayingSession
    <3>1. loadStage = "open"
      BY <1>1, <2>2 DEF LoadIsFlagged, UpdateTypes
    <3>2. line.old => gaveUpLoad
      BY <1>1, <1>3, <1>4, <3>1 DEF LoadedIsOver, NoHistoryLeft
    <3>3. QED
      BY <1>1, <1>2, <1>5, <2>2, <3>2 DEF HistoryIsSorted
  <2>3. QED
    BY <2>1, <2>2
<1>11. QED
  BY <1>1, <1>3, <1>7, <1>8, <1>9, <1>10 DEF UpdatesInv

\* When the answer to session/load is read, no history is left behind it.
LEMMA AnswerIsHandled == UpdatesInv /\ HandleLoaded => UpdatesInv'
<1> SUFFICES ASSUME UpdatesInv, HandleLoaded PROVE UpdatesInv'
  OBVIOUS
<1>1. /\ UpdateTypes /\ LinesAreKnown /\ LoadIsFlagged /\ AnswerComesLast /\ LoadedIsOver
      /\ HistoryIsSorted /\ TitlesAreRecent
  BY DEF UpdatesInv
<1>2. /\ updateLines # <<>> /\ updateLines' = Tail(updateLines) /\ UNCHANGED startVars
      /\ Head(updateLines).kind = "loaded"
      /\ UNCHANGED <<replayingSession, loadStage, gaveUpLoad, callStage, replayEnded, leaked,
                     dropped, toolCallTitles, heard, newer>>
  BY DEF HandleLoaded, agentVars, startVars, memoryVars
<1>3. /\ Head(updateLines) = Line(1)
      /\ updateLines' \in Seq(Lines) /\ LinesAreKnown' /\ AnswerComesLast'
      /\ Line(1).kind = "loaded" => NoHistoryLeft'
  BY <1>2, ReaderReads
<1>4. UpdateTypes' /\ TitlesAreRecent'
  BY <1>1, <1>2, <1>3 DEF UpdateTypes, TitlesAreRecent
<1>5. LoadIsFlagged' /\ LoadedIsOver' /\ HistoryIsSorted'
  BY <1>1, <1>2, <1>3 DEF LoadIsFlagged, LoadedIsOver, HistoryIsSorted
<1>6. QED
  BY <1>3, <1>4, <1>5 DEF UpdatesInv

\* A request is answered at once; it is of a turn.
LEMMA RequestIsHandled == UpdatesInv /\ HandleRequest => UpdatesInv'
<1> SUFFICES ASSUME UpdatesInv, HandleRequest PROVE UpdatesInv'
  OBVIOUS
<1>1. /\ UpdateTypes /\ LinesAreKnown /\ LoadIsFlagged /\ AnswerComesLast /\ LoadedIsOver
      /\ HistoryIsSorted /\ TitlesAreRecent
  BY DEF UpdatesInv
<1>2. /\ updateLines # <<>> /\ updateLines' = Tail(updateLines) /\ UNCHANGED startVars
      /\ Head(updateLines).kind = "ask"
      /\ callStage' = [callStage EXCEPT ![Head(updateLines).call] = "told"]
      /\ UNCHANGED <<replayingSession, loadStage, gaveUpLoad, replayEnded, loadAnswered, leaked,
                     dropped, toolCallTitles, heard, newer>>
  BY DEF HandleRequest, Becomes, startVars, memoryVars
<1>3. /\ 1 \in LinesLeft /\ Head(updateLines) = Line(1)
      /\ updateLines' \in Seq(Lines) /\ LinesAreKnown' /\ AnswerComesLast'
      /\ NoHistoryLeft => NoHistoryLeft'
  BY <1>2, ReaderReads
<1>4. loadStage # "loading"
  BY <1>1, <1>2, <1>3 DEF LinesAreKnown
<1>5. UpdateTypes' /\ TitlesAreRecent'
  BY <1>1, <1>2, <1>3 DEF UpdateTypes, TitlesAreRecent
<1>6. LoadIsFlagged' /\ LoadedIsOver' /\ HistoryIsSorted'
  BY <1>1, <1>2, <1>3, <1>4 DEF LoadIsFlagged, LoadedIsOver, HistoryIsSorted
<1>7. QED
  BY <1>3, <1>5, <1>6 DEF UpdatesInv

\* Every step of the agent, of the start and of the reader keeps the invariant.
LEMMA UpdatesStep == UpdatesInv /\ [UpdatesNext]_updateVars => UpdatesInv'
<1>1. UpdatesInv /\ UpdatesNext => UpdatesInv'
  BY AgentSpeaks, StartGoesOn, UpdateIsHandled, AnswerIsHandled, RequestIsHandled DEF UpdatesNext
<1>2. UpdatesInv /\ UNCHANGED updateVars => UpdatesInv'
  BY DEF UpdatesInv, UpdateTypes, LinesAreKnown, LoadIsFlagged, AnswerComesLast, LoadedIsOver,
         NoHistoryLeft, HistoryIsSorted, TitlesAreRecent, Line, LinesLeft, updateVars, agentVars,
         startVars, memoryVars
<1>3. QED
  BY <1>1, <1>2

\* The judgement on the first line that is left, whenever it asks for a permission.
PermissionStep ==
  updateLines # <<>> /\ Head(updateLines).kind = "ask" /\ verdict' # verdict =>
    LET line == Head(updateLines)
        c == line.call
    IN  /\ verdict' = "allowed" /\ restricted /\ runs[c] = "other" =>
             /\ c \in Effects /\ ~line.titled
             /\ c \notin heard \/ Cardinality(newer[c]) >= TitlesKept
        /\ verdict' = "refused" => restricted /\ runs[c] = "other"

\* A tool that is not allowed gets through only when its title is not known.
LEMMA PermissionIsRight == UpdatesInv /\ [UpdatesNext]_updateVars => PermissionStep
<1> SUFFICES ASSUME UpdatesInv, [UpdatesNext]_updateVars, updateLines # <<>>,
                    Head(updateLines).kind = "ask", verdict' # verdict
             PROVE  PermissionStep
  BY DEF PermissionStep
<1>1. HandleRequest
  BY DEF UpdatesNext, updateVars, ReplayCall, BeginCall, UpdateCall, AskPermission, AnswerLoad,
         EndLoad, HandleUpdate, HandleLoaded
<1>2. PICK line : line = Head(updateLines)
  OBVIOUS
<1>3. line.kind = "ask" /\ line.call \in ToolCalls
  <2>1. updateLines \in Seq(Lines) /\ LinesAreKnown
    BY DEF UpdatesInv, UpdateTypes
  <2>2. 1 \in LinesLeft /\ Head(updateLines) = Line(1)
    BY <1>1, <2>1, LineIsRead DEF HandleRequest
  <2>3. QED
    BY <1>2, <2>1, <2>2 DEF LinesAreKnown
<1>4. /\ verdict' = "refused" => Refused(line)
      /\ verdict' = "allowed" => ~Refused(line)
  BY <1>1, <1>2 DEF HandleRequest
<1>5. verdict' = "refused" => restricted /\ runs[line.call] = "other"
  BY <1>4 DEF Refused
<1>6. ASSUME verdict' = "allowed", restricted, runs[line.call] = "other"
      PROVE  /\ line.call \in Effects /\ ~line.titled
             /\ line.call \notin heard \/ Cardinality(newer[line.call]) >= TitlesKept
  <2>1. ~TitleIsKnown(line)
    BY <1>4, <1>6 DEF Refused
  <2>2. /\ line.call \in Effects /\ ~line.titled
        /\ \A n \in DOMAIN toolCallTitles : toolCallTitles[n] # line.call
    BY <1>3, <2>1 DEF TitleIsKnown, ToolCalls, InSeq
  <2>3. QED
    BY <2>2 DEF UpdatesInv, TitlesAreRecent
<1>7. QED
  BY <1>2, <1>5, <1>6 DEF PermissionStep

\* For any number of calls, of titles remembered and of lines on the way: the history of a
\* session that is loaded is never shown as new unless its load was given up, no update of
\* a turn is dropped as history, and a tool the policy forbids is allowed only when no
\* title of it is at hand.
THEOREM UpdatesCorrect == UpdatesSpec => UpdatesAreJudged
<1>1. UpdatesInit => UpdatesInv
  BY UpdatesInitially
<1>2. UpdatesInv /\ [UpdatesNext]_updateVars => UpdatesInv'
  BY UpdatesStep
<1>3. UpdatesInv => HistoryIsSorted
  BY DEF UpdatesInv
<1>4. UpdatesInv /\ [UpdatesNext]_updateVars => [PermissionStep]_updateVars
  BY PermissionIsRight
<1>5. UpdatesSpec => [][PermissionStep]_updateVars
  BY <1>1, <1>2, <1>4, PTL DEF UpdatesSpec
<1>6. [][PermissionStep]_updateVars => PermissionIsJudged
  BY PTL DEF PermissionStep, PermissionIsJudged
<1>7. UpdatesSpec => []HistoryIsSorted
  BY <1>1, <1>2, <1>3, PTL DEF UpdatesSpec
<1>8. QED
  BY <1>5, <1>6, <1>7, PTL DEF UpdatesAreJudged

-----------------------------------------------------------------------------
(* Side by side                                                             *)

\* In every scene the other parts stand still: a behaviour of the whole is a behaviour of
\* each part.
LEMMA EngineIsPlayed ==
  EngineSpec => /\ SkillSpec /\ VibeSetupSpec /\ StorageSpec /\ LeaseSpec /\ AuthSpec
                /\ HomeSetupSpec /\ CopySpec /\ UsageSpec /\ ItemSpec /\ StreamSpec
                /\ UpdatesSpec
<1> DEFINE vs == <<scene, skillVars, setupVars, storageVars, leaseVars, authVars,
                   homeSetupVars, copyVars, usageVars, itemVars, streamVars, updateVars>>
<1>1. EngineInit => /\ SkillInit /\ VibeSetupInit /\ StorageInit /\ LeaseInit /\ AuthInit
                    /\ HomeSetupInit /\ CopyInit /\ UsageInit /\ ItemInit /\ StreamInit
                    /\ UpdatesInit
  BY DEF EngineInit
<1>2. [EngineNext]_vs => [SkillNext]_skillVars
  BY DEF EngineNext, Plays
<1>3. [EngineNext]_vs => [VibeSetupNext]_setupVars
  BY DEF EngineNext, Plays
<1>4. [EngineNext]_vs => [StorageNext]_storageVars
  BY DEF EngineNext, Plays
<1>5. [EngineNext]_vs => [LeaseNext]_leaseVars
  BY DEF EngineNext, Plays
<1>6. [EngineNext]_vs => [AuthNext]_authVars
  BY DEF EngineNext, Plays
<1>7. [EngineNext]_vs => [HomeSetupNext]_homeSetupVars
  BY DEF EngineNext, Plays
<1>8. [EngineNext]_vs => [CopyNext]_copyVars
  BY DEF EngineNext, Plays
<1>9. [EngineNext]_vs => [ItemNext]_itemVars
  BY DEF EngineNext, Plays
<1>10. [EngineNext]_vs => [StreamNext]_streamVars
  BY DEF EngineNext, Plays
<1>11. [EngineNext]_vs => [UpdatesNext]_updateVars
  BY DEF EngineNext, Plays
<1>12. [EngineNext]_vs => [UsageNext]_usageVars
  BY DEF EngineNext, Plays
<1> QED BY <1>1, <1>2, <1>3, <1>4, <1>5, <1>6, <1>7, <1>8, <1>9, <1>10, <1>11, <1>12, PTL
        DEF EngineSpec, SkillSpec, VibeSetupSpec, StorageSpec, LeaseSpec, AuthSpec, HomeSetupSpec,
            CopySpec, UsageSpec, ItemSpec, StreamSpec, UpdatesSpec

\* What the setups and the conversations of an engine share and what its streams show:
\* all that the run of MCEngine checks, for every number of calls, homes, skills,
\* conversations, segments and pieces.
THEOREM EngineCorrect ==
  EngineSpec => /\ []ReadsAreKnown /\ ConfigIsJudged /\ StorageIsSafe /\ QuietCallIsAlone
                /\ SignInPrevails /\ []HomeIsReady /\ CopiesBringSessions /\ []UsageIsCounted
                /\ TurnIsShown /\ TextsAreDelivered /\ UpdatesAreJudged
BY EngineIsPlayed, ReadsCorrect, ConfigCorrect, StorageCorrect, LeasesCorrect, SignInIsKept,
   HomeCorrect, CopiesCorrect, UsageCorrect, ItemsCorrect, StreamCorrect, UpdatesCorrect, PTL
=============================================================================
