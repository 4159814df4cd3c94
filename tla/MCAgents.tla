------------------------------ MODULE MCAgents ------------------------------
(***************************************************************************)
(* The turns and the process of a Codex and of a Claude conversation, side  *)
(* by side.  A behaviour is one of the scene it starts in; the other scenes *)
(* stand still.                                                             *)
(***************************************************************************)
EXTENDS CodexTurns, CodexSession, ClaudeTurns, ClaudeSession

VARIABLE scene

Plays(s) ==
  /\ scene = s /\ UNCHANGED scene
  /\ s # "codexTurns"    => UNCHANGED codexTurnsVars
  /\ s # "codexSession"  => UNCHANGED codexSessionVars
  /\ s # "claudeTurns"   => UNCHANGED claudeVars
  /\ s # "claudeSession" => UNCHANGED sessionVars

AgentsInit ==
  /\ scene \in {"codexTurns", "codexSession", "claudeTurns", "claudeSession"}
  /\ CodexTurnsInit /\ CodexSessionInit /\ ClaudeInit /\ SessionInit

AgentsNext ==
  \/ Plays("codexTurns") /\ CodexTurnsNext
  \/ Plays("codexSession") /\ CodexSessionNext
  \/ Plays("claudeTurns") /\ ClaudeNext
  \/ Plays("claudeSession") /\ SessionNext

\* the fairness of each module, in its own scene
AgentsFair ==
  /\ WF_codexTurnsVars(scene = "codexTurns" /\ ReaderStep)
  /\ WF_codexTurnsVars(scene = "codexTurns" /\ CodexEndsTurn)
  /\ WF_codexSessionVars(scene = "codexSession" /\ CodexCallStep)
  /\ WF_claudeVars(scene = "claudeTurns" /\ Hear)
  /\ WF_claudeVars(scene = "claudeTurns" /\ ClaudeAnswers)
  /\ WF_sessionVars(scene = "claudeSession" /\ CallStep)

AgentsSpec ==
  /\ AgentsInit
  /\ [][AgentsNext]_<<scene, codexTurnsVars, codexSessionVars, claudeVars, sessionVars>>
  /\ AgentsFair

\* The turns of Codex and of Claude: a running turn holds the flag, and an
\* interrupt that answers "interrupted" has ended the turn it saw.
TurnsInv == CodexTypeOK /\ ClaudeTypeOK
            /\ RunningTurnHoldsFlag /\ InterruptEndsTurn /\ HaltEndsTurn

\* The turns of Codex and of Claude give the flag back, and a Claude without its
\* MCP server is stopped.
TurnsEnd == TurnReleasesFlag /\ ClaudeReleasesFlag /\ BareProcessStops

\* Every start and every prompt of Codex and of Claude is answered, those that
\* restart the process included.
CallsAreAnswered == CodexCallIsAnswered /\ CallIsAnswered
=============================================================================
