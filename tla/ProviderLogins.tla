---------------------------- MODULE ProviderLogins ----------------------------
(***************************************************************************)
(* The browser sign-in of a provider in the home of one user: a login         *)
(* process, kept in a registry under its home, that ends when the user has    *)
(* signed in.  A start reads the registry, checks the credentials, logs out    *)
(* (Codex only) and spawns the process in separate steps, with no lock.       *)
(***************************************************************************)
EXTENDS Naturals, FiniteSets

CONSTANTS
  LoginCallers,     \* the starts that may be in progress together
  LoginProcesses,   \* bound: the processes that may be spawned
  NoLogin

VARIABLES
  loginProvider,
  credentials,    \* the home holds valid credentials
  login,          \* "unborn", "waiting", "signed" (still running) or "over"
  loginEntry,     \* the process the registry holds
  overdue,        \* the processes older than ten minutes
  starter,        \* where each start is, and if it is forced
  crossed         \* history: two starts have been in progress together

loginVars == <<loginProvider, credentials, login, loginEntry, overdue, starter, crossed>>

Off == [at |-> "idle", forced |-> FALSE]

LoginInit ==
  /\ loginProvider \in {"codex", "claude", "vibe"}
  /\ credentials \in BOOLEAN
  /\ login = [p \in LoginProcesses |-> "unborn"]
  /\ loginEntry = NoLogin
  /\ overdue = {}
  /\ starter = [s \in LoginCallers |-> Off]
  /\ crossed = FALSE

RunsLogin(p) == p \in LoginProcesses /\ login[p] \in {"waiting", "signed"}

\* fault: a login in progress is not looked for
NeverRunning == FALSE

LoginIsRunning == RunsLogin(loginEntry)

\* a start answers the login in progress, or goes on
StartLogin(s) ==
  /\ starter[s].at = "idle" /\ ~LoginIsRunning
  /\ \E force \in BOOLEAN :
       starter' = [starter EXCEPT ![s] = [at |-> "checking", forced |-> force]]
  /\ crossed' = (crossed \/ \E t \in LoginCallers : starter[t].at # "idle")
  /\ UNCHANGED <<loginProvider, credentials, login, loginEntry, overdue>>

\* fault: the credentials are not checked
AlwaysAgain(s) == TRUE

\* valid credentials are enough, unless the caller forces a login
MustLogin(s) == ~credentials \/ starter[s].forced

CheckCredentials(s) ==
  /\ starter[s].at = "checking"
  /\ starter' = [starter EXCEPT ![s] =
       IF MustLogin(s)
       THEN [@ EXCEPT !.at = IF loginProvider = "codex" THEN "logout" ELSE "spawn"]
       ELSE Off]
  /\ UNCHANGED <<loginProvider, credentials, login, loginEntry, overdue, crossed>>

LogOut(s) ==
  /\ starter[s].at = "logout"
  /\ credentials' = FALSE
  /\ starter' = [starter EXCEPT ![s].at = "spawn"]
  /\ UNCHANGED <<loginProvider, login, loginEntry, overdue, crossed>>

\* the process replaces whatever the registry holds
SpawnLogin(s) ==
  /\ starter[s].at = "spawn"
  /\ \E p \in {q \in LoginProcesses : login[q] = "unborn"} :
       /\ login' = [login EXCEPT ![p] = "waiting"]
       /\ loginEntry' = p
  /\ starter' = [starter EXCEPT ![s] = Off]
  /\ UNCHANGED <<loginProvider, credentials, overdue, crossed>>

\* the user signs in, in the browser; the process ends then, or gives up
SignIn(p) ==
  /\ login[p] = "waiting"
  /\ login' = [login EXCEPT ![p] = "signed"]
  /\ credentials' = TRUE
  /\ UNCHANGED <<loginProvider, loginEntry, overdue, starter, crossed>>

LoginExits(p) ==
  /\ RunsLogin(p)
  /\ login' = [login EXCEPT ![p] = "over"]
  /\ UNCHANGED <<loginProvider, credentials, loginEntry, overdue, starter, crossed>>

TenMinutes(p) ==
  /\ RunsLogin(p) /\ p \notin overdue
  /\ overdue' = overdue \cup {p}
  /\ UNCHANGED <<loginProvider, credentials, login, loginEntry, starter, crossed>>

\* fault: a login is never too old
NeverExpires(p) == FALSE

\* expireLoginProcess; Codex stops the process once the credentials are newer
StatusEnds(p) ==
  \/ loginProvider # "codex" /\ p \in overdue
  \/ loginProvider = "codex" /\ login[p] = "signed"

\* a status call on the login the registry holds
LoginStatus ==
  /\ LoginIsRunning /\ StatusEnds(loginEntry)
  /\ login' = [login EXCEPT ![loginEntry] = "over"]
  /\ UNCHANGED <<loginProvider, credentials, loginEntry, overdue, starter, crossed>>

LoginNext ==
  \/ \E s \in LoginCallers :
       StartLogin(s) \/ CheckCredentials(s) \/ LogOut(s) \/ SpawnLogin(s)
  \/ \E p \in LoginProcesses : SignIn(p) \/ LoginExits(p) \/ TenMinutes(p)
  \/ LoginStatus

LoginSpec == LoginInit /\ [][LoginNext]_loginVars

\* the user interface polls the status, and time passes
LoginFair ==
  /\ WF_loginVars(LoginStatus)
  /\ \A p \in LoginProcesses : WF_loginVars(TenMinutes(p))

LoginFairSpec == LoginSpec /\ LoginFair

-----------------------------------------------------------------------------
\* Two logins of one home run together only after two starts have crossed: a start
\* never adds a login to the one in progress.
OneLogin == crossed \/ Cardinality({p \in LoginProcesses : RunsLogin(p)}) <= 1

\* As long as no two starts have crossed, credentials in place are removed by a forced
\* start only: a user who has signed in stays so.
SignInSurvives ==
  [][credentials /\ ~credentials' =>
     crossed \/ \E s \in LoginCallers : starter[s].at = "logout" /\ starter[s].forced]_loginVars

\* A Claude or Vibe login the registry holds ends although the user never signs in,
\* as long as its status is asked.
LoginEnds ==
  \A p \in LoginProcesses :
    (loginProvider # "codex" /\ loginEntry = p /\ RunsLogin(p))
      ~> (loginEntry # p \/ ~RunsLogin(p))

\* Starts that do not cross keep to one login and remove no credentials but those
\* they were forced to.
LoginsAreSafe == []OneLogin /\ SignInSurvives
=============================================================================
