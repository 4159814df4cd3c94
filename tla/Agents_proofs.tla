---------------------------- MODULE Agents_proofs ----------------------------
(* Theorems about the turns and the processes of Codex and of Claude, for    *)
(* every number of calls.                                                    *)
EXTENDS MCAgents, TLAPS

\* What reading the first line of a pipe does.
LEMMA TailFacts ==
  ASSUME NEW S, NEW s \in Seq(S), s # <<>>
  PROVE  /\ Head(s) \in S
         /\ Tail(s) \in Seq(S)
         /\ 1 \in DOMAIN s /\ s[1] = Head(s)
         /\ \A k \in DOMAIN Tail(s) :
              k \in Nat /\ k + 1 \in DOMAIN s /\ k + 1 # 1 /\ Tail(s)[k] = s[k + 1]
OBVIOUS

\* What printing a line on a pipe does.
LEMMA AppendFacts ==
  ASSUME NEW S, NEW s \in Seq(S), NEW e \in S
  PROVE  /\ Append(s, e) \in Seq(S)
         /\ \A k \in DOMAIN Append(s, e) :
              \/ k \in DOMAIN s /\ Append(s, e)[k] = s[k]
              \/ k = Len(s) + 1 /\ k \notin DOMAIN s /\ Append(s, e)[k] = e
OBVIOUS

\* A pipe starts, and ends with its process, empty.
LEMMA EmptyPipe ==
  ASSUME NEW S PROVE <<>> \in Seq(S) /\ DOMAIN <<>> = {}
OBVIOUS

\* What printing one line, or two at once, does.
LEMMA ConcatFacts ==
  ASSUME NEW S, NEW s \in Seq(S), NEW a \in S, NEW b \in S
  PROVE  /\ s \o <<a>> = Append(s, a)
         /\ s \o <<a, b>> = Append(Append(s, a), b)
OBVIOUS

-----------------------------------------------------------------------------
(* The turns of Codex, when the client prompts only once the last turn is   *)
(* over and read: one turn at a time is anywhere between its write and the  *)
(* last line about it.                                                      *)

\* The prompt of the turn is written and not read, or accepted, or it runs.
Prompted(c) == \E k \in DOMAIN stdin : stdin[k] = [kind |-> "prompt", turn |-> c]
Queued(c) == \E k \in DOMAIN waiting : waiting[k] = c
Ahead(c) == Prompted(c) \/ Queued(c)
Pending(c) == Ahead(c) \/ running = c

\* A line about the turn is printed and not read, or is being handled.
Printed(c) == \E k \in DOMAIN stdout : stdout[k].turn = c
Handling == reader \notin {"idle", "ended"}
About(c) == Pending(c) \/ Printed(c) \/ (Handling /\ line.turn = c)

LastWords == {"refused", "completed"}

CodexOneTurn ==
  /\ \A c, d \in Prompts : About(c) /\ About(d) => c = d
  /\ \A c, d \in Prompts : pc[c] \in Serving /\ About(d) => c = d
  /\ \A c, d \in Prompts : pc[c] \in Serving /\ pc[d] \in Serving => c = d
  /\ \A c \in Prompts : About(c) => pc[c] \in {"sent", "claimed", "submitted"}

CodexOnePlace ==
  /\ \A c \in Prompts : /\ Prompted(c) => ~Queued(c) /\ running # c
                        /\ Queued(c) => running # c
  /\ \A k, l \in DOMAIN stdin :
       stdin[k].kind = "prompt" /\ stdin[l].kind = "prompt" => k = l
  /\ \A k, l \in DOMAIN waiting : k = l

CodexLastWords ==
  /\ \A c \in Prompts : Pending(c) => /\ \A k \in DOMAIN stdout : stdout[k].kind \notin LastWords
                                      /\ reader # "end"
                                      /\ reader \in {"drop", "clear"} => c \in failed
  /\ \A k, l \in DOMAIN stdout :
       stdout[k].kind = "completed" /\ stdout[l].kind = "completed" => k = l
  /\ \A k \in DOMAIN stdout : stdout[k].kind = "completed" => ~turnEnded /\ reader # "end"
  /\ reader = "end" => ~turnEnded
  /\ \A c \in Prompts : pc[c] = "reset" \/ Pending(c) => ~turnEnded

\* An error is reported of a turn that runs, of which the reader may yet hear.
CodexFailed ==
  /\ \A c \in failed : pc[c] \in {"sent", "claimed", "submitted"}
  /\ \A c \in Prompts : Ahead(c) => c \notin failed
  /\ \A k \in DOMAIN stdout : stdout[k].kind = "error" => stdout[k].turn \in failed

CodexFlag ==
  /\ ~alive => \A c \in Prompts : ~Pending(c)
  /\ stopping # "open" => ~alive
  /\ \A c \in Prompts : Pending(c) /\ pc[c] = "submitted" /\ c \notin failed => turnActive
  /\ \A c \in Prompts : turnRequestId = c => pc[c] \in {"claimed", "submitted"}

CodexBreaks ==
  \A b \in Breaks, c \in Prompts : seen[b] = c =>
    /\ pc[c] \in {"claimed", "submitted"}
    /\ bpc[b] \in {"stopping", "waiting"} /\ Pending(c) /\ c \notin failed => turnActive
    /\ bpc[b] = "interrupted" /\ Pending(c) => c \in failed

CodexInv == /\ CodexOneTurn /\ CodexOnePlace /\ CodexLastWords
            /\ CodexFailed /\ CodexFlag /\ CodexBreaks

-----------------------------------------------------------------------------
(* The turns of Claude Code, when the client prompts only once the last     *)
(* turn is over and read.                                                   *)

Fed(m) == \E k \in DOMAIN fed : fed[k] = m
Open(m) == Fed(m) \/ answering = m

\* the reader is on its way to stop the process
BareStop == {"dropAndStop", "clearAndStop", "stop"}

ClaudeOneTurn ==
  /\ \A m, n \in Messages : Open(m) /\ Open(n) => m = n
  /\ \A m, n \in Messages : at[m] \in InService /\ Open(n) => m = n
  /\ \A m, n \in Messages : at[m] \in InService /\ at[n] \in InService => m = n
  /\ \A m \in Messages : Open(m) => at[m] \in {"written", "claimed", "submitted"}
  /\ \A m \in Messages : Fed(m) => answering # m
  /\ \A k, l \in DOMAIN fed : fed[k] # NoMessage /\ fed[l] # NoMessage => k = l

ClaudeLines ==
  /\ \A m \in Messages : Open(m) => /\ \A k \in DOMAIN said : said[k] \in {"init", "bareInit"}
                                    /\ ear \notin {"drop", "clear"}
  /\ \A m \in Messages : at[m] \in {"accepted", "reset"} => said = <<>> /\ ear \in {"idle", "ended"}

ClaudeHolds ==
  /\ ~lives => \A m \in Messages : ~Open(m)
  /\ shutting # "open" \/ ear = "close" => ~lives
  /\ \A m \in Messages : Open(m) /\ at[m] = "submitted" => claudeActive \/ ear \in BareStop
  /\ \A m \in Messages : claudeRequest = m => at[m] \in {"claimed", "submitted"}

ClaudeHalted ==
  \A h \in Halts, m \in Messages : haltSaw[h] = m =>
    /\ at[m] \in {"claimed", "submitted"}
    /\ haltAt[h] \in {"stopping", "waiting"} /\ Open(m) => claudeActive \/ ear \in BareStop
    /\ haltAt[h] = "interrupted" /\ Open(m) => ear \in BareStop

ClaudeInv == ClaudeOneTurn /\ ClaudeLines /\ ClaudeHolds /\ ClaudeHalted

\* What the bridge writes.
Inputs == [kind : {"prompt", "interrupt"}, turn : Prompts]

CodexPipesOK ==
  /\ stdin \in Seq(Inputs)
  /\ stdout \in Seq(Lines)
  /\ waiting \in Seq(Prompts)

CodexThreadsOK ==
  /\ turnActive \in BOOLEAN /\ turnEnded \in BOOLEAN /\ alive \in BOOLEAN
  /\ turnRequestId \in Prompts \cup {NoTurn} /\ activeTurnId \in Prompts \cup {NoTurn}
  /\ running \in Prompts \cup {NoTurn}
  /\ status \in {"running", "completed", "error", "exited", "closed"}
  /\ pc \in [Prompts -> {"new", "not_running", "submitted", "error"} \cup Serving]
  /\ bpc \in [Breaks -> {"new", "exited", "idle", "stopping", "not_interruptible",
                         "waiting", "error", "timeout", "interrupted"}]
  /\ seen \in [Breaks -> Prompts \cup {NoTurn}]
  /\ reader \in {"idle", "raise", "end", "drop", "clear", "ended"}
  /\ line \in Lines \cup {NoLine} /\ (Handling => line \in Lines)
  /\ stopping \in {"open", "killed", "closed"}
  /\ failed \subseteq Prompts /\ ends \subseteq Prompts

CodexShape == CodexPipesOK /\ CodexThreadsOK

\* The shape the proofs use is the type invariant.
LEMMA CodexTypes == CodexShape => CodexTypeOK
BY DEF CodexShape, CodexTypeOK, CodexPipesOK, CodexThreadsOK, Inputs

\* The steps that write or read no pipe.
PipesStay == UNCHANGED <<stdin, stdout, waiting, running, failed>>

\* The steps that leave the pipes alone.
LEMMA CodexQuietSteps ==
  ASSUME \/ \E c \in Prompts : \/ Receive(c) \/ Reset(c) \/ Claim(c) \/ Raise(c)
                               \/ FailDrop(c) \/ FailClear(c)
         \/ RaiseStarted \/ EndTurn \/ DropFlag \/ ClearFlag \/ ReaderEnds
         \/ \E b \in Breaks : StartBreak(b) \/ EndBreak(b)
         \/ Close
         \/ UNCHANGED codexTurnsVars
  PROVE  PipesStay
<1> USE DEF PipesStay, codexVars, codexTurnsVars
<1>1. ASSUME NEW c \in Prompts, \/ Receive(c) \/ Reset(c) \/ Claim(c) \/ Raise(c)
                                \/ FailDrop(c) \/ FailClear(c)
      PROVE  PipesStay
  BY <1>1 DEF Receive, Reset, Claim, Raise, FailDrop, FailClear
<1>2. CASE RaiseStarted \/ EndTurn \/ DropFlag \/ ClearFlag \/ ReaderEnds \/ Close
  BY <1>2 DEF RaiseStarted, EndTurn, DropFlag, ClearFlag, ReaderEnds, Close
<1>3. ASSUME NEW b \in Breaks, StartBreak(b) \/ EndBreak(b) PROVE PipesStay
  BY <1>3 DEF StartBreak, EndBreak
<1>4. CASE UNCHANGED codexTurnsVars
  BY <1>4
<1>5. QED
  BY <1>1, <1>2, <1>3, <1>4

Reading == ReadAccepted \/ ReadRefused \/ ReadStarted \/ ReadError \/ ReadCompleted

\* What a line read leaves.
LEMMA CodexReads ==
  ASSUME CodexShape, Reading
  PROVE  /\ reader = "idle" /\ stdout # <<>> /\ stdout' = Tail(stdout) /\ line' = Head(stdout)
         /\ line' \in Lines
         /\ UNCHANGED <<pc, bpc, seen, stopping, alive, stdin, waiting, running, failed,
                        turnActive, turnEnded, ends>>
         /\ reader' \in {"idle", "raise", "end", "drop"}
<1> USE DEF Read, breakVars, flagVars, entryVars
<1>1. /\ reader = "idle" /\ stdout # <<>> /\ stdout' = Tail(stdout) /\ line' = Head(stdout)
      /\ UNCHANGED <<pc, bpc, seen, stopping, alive, stdin, waiting, running, failed>>
  BY DEF Reading, ReadAccepted, ReadRefused, ReadStarted, ReadError, ReadCompleted
<1>2. UNCHANGED <<turnActive, turnEnded, ends>>
  BY DEF Reading, ReadAccepted, ReadRefused, ReadStarted, ReadError, ReadCompleted
<1>3. reader' \in {"idle", "raise", "end", "drop"}
  BY DEF Reading, ReadAccepted, ReadRefused, ReadStarted, ReadError, ReadCompleted
<1>4. line' \in Lines
  BY <1>1, TailFacts DEF CodexShape, CodexPipesOK
<1>5. QED
  BY <1>1, <1>2, <1>3, <1>4

\* What the app-server prints of the turn it runs.
LEMMA CodexLastLines ==
  ASSUME CodexShape, running # NoTurn, NEW word \in {"error", "completed"}, Prints(word, running)
  PROVE  /\ running \in Prompts /\ stdout' \in Seq(Lines)
         /\ \A k \in DOMAIN stdout' :
              \/ k \in DOMAIN stdout /\ stdout'[k] = stdout[k]
              \/ /\ k = Len(stdout) + 1 /\ k \notin DOMAIN stdout
                 /\ stdout'[k].turn = running /\ stdout'[k].kind = word
<1> DEFINE news == [kind |-> word, turn |-> running]
<1>1. running \in Prompts /\ stdout \in Seq(Lines) /\ stdout' = Append(stdout, news)
  BY DEF Prints, CodexShape, CodexThreadsOK, CodexPipesOK
<1>2. news \in Lines /\ news.turn = running /\ news.kind = word
  BY <1>1 DEF Lines
<1> HIDE DEF news
<1>3. QED
  BY <1>1, <1>2, AppendFacts

\* The pipes carry prompts, interrupts and lines about turns.
LEMMA CodexPipesStep ==
  ASSUME CodexShape, [CodexTurnsNext]_codexTurnsVars
  PROVE  CodexPipesOK'
<1> USE DEF CodexPipesOK, flagVars, entryVars, breakVars, readVars, codexVars
<1>p. CodexPipesOK /\ CodexThreadsOK
  BY DEF CodexShape
<1>1. ASSUME PipesStay PROVE CodexPipesOK'
  BY <1>p, <1>1 DEF PipesStay
<1>2. ASSUME NEW c \in Prompts, Send(c) PROVE CodexPipesOK'
  <2>1. [kind |-> "prompt", turn |-> c] \in Inputs
    BY DEF Inputs
  <2>2. /\ UNCHANGED <<stdout, waiting>>
        /\ stdin' = stdin \/ stdin' = Append(stdin, [kind |-> "prompt", turn |-> c])
    BY <1>2 DEF Send
  <2>3. stdin \in Seq(Inputs)
    BY <1>p
  <2>4. Append(stdin, [kind |-> "prompt", turn |-> c]) \in Seq(Inputs)
    BY <2>1, <2>3, AppendFacts
  <2> QED BY <1>p, <2>2, <2>3, <2>4
<1>3. CASE Reading
  BY <1>p, <1>3, CodexReads, TailFacts
<1>4. ASSUME NEW b \in Breaks, WriteInterrupt(b) PROVE CodexPipesOK'
  <2>1. /\ UNCHANGED <<stdout, waiting>>
        /\ \/ stdin' = stdin
           \/ activeTurnId # NoTurn /\ stdin' = Append(stdin, [kind |-> "interrupt", turn |-> activeTurnId])
    BY <1>4 DEF WriteInterrupt
  <2>2. activeTurnId # NoTurn => [kind |-> "interrupt", turn |-> activeTurnId]
                                    \in Inputs
    BY <1>p DEF CodexThreadsOK, Inputs
  <2>3. QED
    BY <1>p, <2>1, <2>2, AppendFacts
<1>5. CASE StopProcess \/ CodexExits
  <2>1. stdin' = <<>> /\ waiting' = <<>> /\ stdout' = stdout
    BY <1>5 DEF StopProcess, CodexExits, Gone
  <2>2. QED
    BY <1>p, <2>1, EmptyPipe
<1>6. CASE CodexTakesPrompt
  <2>1. stdin # <<>> /\ stdin' = Tail(stdin)
    BY <1>6 DEF CodexTakesPrompt
  <2>2. Head(stdin).turn \in Prompts /\ stdin' \in Seq(Inputs)
    <3>1. Head(stdin) \in Inputs /\ Tail(stdin) \in Seq(Inputs)
      BY <1>p, <2>1, TailFacts
    <3>2. QED
      BY <2>1, <3>1 DEF Inputs
  <2>3. \A kind \in {"accepted", "refused"} : [kind |-> kind, turn |-> Head(stdin).turn] \in Lines
    BY <2>2 DEF Lines
  <2>4. /\ \E kind \in {"accepted", "refused"} :
             stdout' = Append(stdout, [kind |-> kind, turn |-> Head(stdin).turn])
        /\ waiting' = waiting \/ waiting' = Append(waiting, Head(stdin).turn)
    BY <1>6 DEF CodexTakesPrompt, Prints
  <2>5. stdout' \in Seq(Lines)
    BY <1>p, <2>3, <2>4
  <2>6. waiting' \in Seq(Prompts)
    <3>1. waiting \in Seq(Prompts) /\ Head(stdin).turn \in Prompts
      BY <1>p, <2>2
    <3>2. Append(waiting, Head(stdin).turn) \in Seq(Prompts)
      BY <3>1, AppendFacts
    <3>3. QED
      BY <2>4, <3>1, <3>2
  <2>7. QED
    BY <2>2, <2>5, <2>6
<1>7. CASE CodexTakesInterrupt
  <2>1. stdin # <<>> /\ stdin' = Tail(stdin) /\ waiting' = waiting
        /\ \/ stdout' = stdout
           \/ stdout' = Append(stdout, [kind |-> "completed", turn |-> Head(stdin).turn])
    BY <1>7 DEF CodexTakesInterrupt, Prints
  <2>2. Head(stdin).turn \in Prompts /\ stdin' \in Seq(Inputs)
    <3>1. Head(stdin) \in Inputs /\ Tail(stdin) \in Seq(Inputs)
      BY <1>p, <2>1, TailFacts
    <3>2. QED
      BY <2>1, <3>1 DEF Inputs
  <2>3. [kind |-> "completed", turn |-> Head(stdin).turn] \in Lines
    BY <2>2 DEF Lines
  <2>4. stdout' \in Seq(Lines)
    <3>1. Append(stdout, [kind |-> "completed", turn |-> Head(stdin).turn]) \in Seq(Lines)
      BY <1>p, <2>3, AppendFacts
    <3>2. QED
      BY <1>p, <2>1, <3>1
  <2>5. QED
    BY <1>p, <2>1, <2>2, <2>4
<1>8. CASE CodexStartsTurn
  <2>1. /\ waiting # <<>> /\ waiting' = Tail(waiting) /\ stdin' = stdin
        /\ stdout' = Append(stdout, [kind |-> "started", turn |-> Head(waiting)])
    BY <1>8 DEF CodexStartsTurn, Prints
  <2>2. Head(waiting) \in Prompts /\ waiting' \in Seq(Prompts)
    BY <1>p, <2>1, TailFacts
  <2>3. [kind |-> "started", turn |-> Head(waiting)] \in Lines
    BY <2>2 DEF Lines
  <2>4. QED
    BY <1>p, <2>1, <2>2, <2>3, AppendFacts
<1>9. CASE CodexEndsTurn \/ CodexReportsError
  <2>1. /\ UNCHANGED <<stdin, waiting>> /\ running # NoTurn
        /\ Prints("completed", running) \/ Prints("error", running)
    BY <1>9 DEF CodexEndsTurn, CodexReportsError
  <2>2. QED
    BY <1>p, <2>1, CodexLastLines
<1>10. QED
  BY <1>1, <1>2, <1>3, <1>4, <1>5, <1>6, <1>7, <1>8, <1>9, CodexQuietSteps
  DEF CodexTurnsNext, PromptStep, ReaderStep, BreakStep, CodexStep, Reading

\* Where the threads and the process are.
LEMMA CodexThreadsStep ==
  ASSUME CodexShape, [CodexTurnsNext]_codexTurnsVars
  PROVE  CodexThreadsOK'
<1> USE DEF CodexThreadsOK, Handling, flagVars, entryVars, breakVars, readVars, codexVars
<1>p. CodexPipesOK /\ CodexThreadsOK
  BY DEF CodexShape
<1>1. ASSUME NEW c \in Prompts, PromptStep(c) PROVE CodexThreadsOK'
  <2> USE DEF Moved, Serving
  <2>1. CASE Receive(c)
    BY <1>p, <2>1 DEF Receive
  <2>2. CASE Reset(c)
    BY <1>p, <2>2 DEF Reset
  <2>3. CASE Send(c)
    BY <1>p, <2>3 DEF Send
  <2>4. CASE Claim(c)
    BY <1>p, <2>4 DEF Claim
  <2>5. CASE Raise(c)
    BY <1>p, <2>5 DEF Raise
  <2>6. CASE FailDrop(c)
    BY <1>p, <2>6 DEF FailDrop
  <2>7. CASE FailClear(c)
    BY <1>p, <2>7 DEF FailClear
  <2>8. QED
    BY <1>1, <2>1, <2>2, <2>3, <2>4, <2>5, <2>6, <2>7 DEF PromptStep
<1>2. CASE Reading
  <2>1. line' \in Lines /\ line'.turn \in Prompts
    BY <1>2, CodexReads DEF Lines
  <2>2. /\ turnRequestId' \in {turnRequestId, NoTurn} /\ activeTurnId' \in {activeTurnId, line'.turn}
        /\ status' \in {status, "running", "error"}
    BY <1>2 DEF Reading, ReadAccepted, ReadRefused, ReadStarted, ReadError, ReadCompleted
  <2>3. QED
    BY <1>p, <1>2, <2>1, <2>2, CodexReads
<1>3. CASE RaiseStarted \/ DropFlag \/ ClearFlag
  BY <1>p, <1>3 DEF RaiseStarted, DropFlag, ClearFlag
<1>4. CASE EndTurn
  <2>1. line.turn \in Prompts
    BY <1>p, <1>4 DEF EndTurn, Lines
  <2>2. QED
    BY <1>p, <1>4, <2>1 DEF EndTurn
<1>5. CASE ReaderEnds
  BY <1>p, <1>5 DEF ReaderEnds
<1>6. ASSUME NEW b \in Breaks, BreakStep(b) PROVE CodexThreadsOK'
  <2>1. CASE StartBreak(b)
    BY <1>p, <2>1 DEF StartBreak
  <2>2. CASE WriteInterrupt(b)
    BY <1>p, <2>2 DEF WriteInterrupt
  <2>3. CASE EndBreak(b)
    BY <1>p, <2>3 DEF EndBreak
  <2>4. QED
    BY <1>6, <2>1, <2>2, <2>3 DEF BreakStep
<1>7. CASE StopProcess \/ Close \/ CodexExits
  BY <1>p, <1>7 DEF StopProcess, Close, CodexExits, Gone
<1>8. CASE CodexTakesPrompt \/ CodexTakesInterrupt \/ CodexEndsTurn
  BY <1>p, <1>8 DEF CodexTakesPrompt, CodexTakesInterrupt, CodexEndsTurn
<1>r. CASE CodexReportsError
  <2>1. running \in Prompts /\ failed' = failed \cup {running}
    BY <1>p, <1>r DEF CodexReportsError
  <2>2. QED
    BY <1>p, <1>r, <2>1 DEF CodexReportsError
<1>9. CASE CodexStartsTurn
  <2>1. running' \in Prompts
    BY <1>p, <1>9, TailFacts DEF CodexPipesOK, CodexStartsTurn
  <2>2. QED
    BY <1>p, <1>9, <2>1 DEF CodexStartsTurn
<1>10. CASE UNCHANGED codexTurnsVars
  BY <1>p, <1>10 DEF codexTurnsVars
<1>11. QED
  BY <1>1, <1>2, <1>3, <1>4, <1>5, <1>6, <1>7, <1>8, <1>9, <1>r, <1>10
  DEF CodexTurnsNext, ReaderStep, CodexStep, Reading

\* Where a turn may be found after a step: where it was, unless its prompt is
\* being written.
LEMMA CodexMoves ==
  ASSUME CodexShape, [CodexTurnsNext]_codexTurnsVars
  PROVE  \A d \in Prompts :
           /\ Pending(d)' => Pending(d) \/ (pc[d] = "reset" /\ pc'[d] = "sent")
           /\ About(d)' => About(d) \/ (pc[d] = "reset" /\ pc'[d] = "sent")
           /\ Ahead(d)' => Ahead(d) \/ (pc[d] = "reset" /\ pc'[d] = "sent")
<1> DEFINE Sending(d) == pc[d] = "reset" /\ pc'[d] = "sent"
<1> USE DEF flagVars, entryVars, breakVars, readVars, codexVars
<1>t. /\ stdin \in Seq(Inputs) /\ stdout \in Seq(Lines) /\ waiting \in Seq(Prompts)
      /\ running \in Prompts \cup {NoTurn}
  BY DEF CodexShape, CodexPipesOK, CodexThreadsOK
<1>1. ASSUME PipesStay, Handling' => Handling /\ line' = line
      PROVE  \A d \in Prompts : /\ Pending(d)' => Pending(d)
                                /\ About(d)' => About(d)
                                /\ Ahead(d)' => Ahead(d)
  BY <1>1 DEF PipesStay, Ahead, Pending, About, Prompted, Queued, Printed
<1>2. CASE PipesStay
  <2>1. Handling' => Handling /\ line' = line
    <3>1. ASSUME NEW c \in Prompts, PromptStep(c), PipesStay PROVE UNCHANGED <<reader, line>>
      BY <3>1 DEF PromptStep, Receive, Reset, Send, Claim, Raise, FailDrop, FailClear
    <3>2. ~Reading
      <4>1. ASSUME Reading PROVE stdout' = Tail(stdout) /\ stdout # <<>>
        BY <4>1, CodexReads
      <4>2. Tail(stdout) # stdout \/ stdout = <<>>
        BY <1>t
      <4>3. QED
        BY <1>2, <4>1, <4>2 DEF PipesStay
    <3>3. CASE RaiseStarted \/ EndTurn \/ DropFlag \/ ClearFlag \/ ReaderEnds
      BY <3>3 DEF RaiseStarted, EndTurn, DropFlag, ClearFlag, ReaderEnds, Handling
    <3>4. ASSUME NEW b \in Breaks, BreakStep(b) PROVE UNCHANGED <<reader, line>>
      BY <3>4 DEF BreakStep, StartBreak, WriteInterrupt, EndBreak
    <3>5. CASE StopProcess \/ Close \/ CodexStep \/ CodexExits
      BY <3>5 DEF StopProcess, Close, CodexStep, CodexExits, CodexTakesPrompt,
        CodexTakesInterrupt, CodexStartsTurn, CodexReportsError, CodexEndsTurn, Handling
    <3>6. CASE UNCHANGED codexTurnsVars
      BY <3>6 DEF codexTurnsVars, Handling
    <3>7. QED
      BY <1>2, <3>1, <3>2, <3>3, <3>4, <3>5, <3>6 DEF CodexTurnsNext, ReaderStep, Reading, Handling
  <2>2. QED
    BY <1>1, <1>2, <2>1
<1>3. ASSUME NEW c \in Prompts, Send(c)
      PROVE  \A d \in Prompts : /\ Pending(d)' => Pending(d) \/ Sending(d)
                                /\ About(d)' => About(d) \/ Sending(d)
                                /\ Ahead(d)' => Ahead(d) \/ Sending(d)
  <2>1. UNCHANGED <<stdout, waiting, running, failed, reader, line>>
    BY <1>3 DEF Send
  <2>2. CASE stdin' = stdin
    BY <1>1, <2>1, <2>2 DEF PipesStay, Handling
  <2>3. CASE stdin' # stdin
    <3>1. /\ pc[c] = "reset" /\ pc' = [pc EXCEPT ![c] = "sent"]
          /\ stdin' = Append(stdin, [kind |-> "prompt", turn |-> c])
      BY <1>3, <2>3 DEF Send, Moved
    <3>2. Sending(c)
      BY <3>1 DEF CodexShape, CodexThreadsOK
    <3>3. [kind |-> "prompt", turn |-> c] \in Inputs
      BY DEF Inputs
    <3>4. \A k \in DOMAIN stdin' :
            \/ k \in DOMAIN stdin /\ stdin'[k] = stdin[k]
            \/ stdin'[k] = [kind |-> "prompt", turn |-> c]
      BY <1>t, <3>1, <3>3, AppendFacts
    <3>5. \A d \in Prompts : Prompted(d)' => Prompted(d) \/ d = c
      BY <3>4 DEF Prompted
    <3>6. QED
      BY <2>1, <3>2, <3>5 DEF Ahead, Pending, About, Queued, Printed, Handling
  <2>4. QED
    BY <2>2, <2>3
<1>4. CASE Reading
  <2>1. /\ reader = "idle" /\ stdout # <<>> /\ stdout' = Tail(stdout) /\ line' = Head(stdout)
        /\ UNCHANGED <<stdin, waiting, running>>
    BY <1>4, CodexReads
  <2>2. /\ 1 \in DOMAIN stdout /\ stdout[1] = Head(stdout)
        /\ \A k \in DOMAIN stdout' : k + 1 \in DOMAIN stdout /\ stdout'[k] = stdout[k + 1]
    BY <1>t, <2>1, TailFacts
  <2>3. \A d \in Prompts : (Printed(d)' => Printed(d)) /\ (line'.turn = d => Printed(d))
    BY <2>1, <2>2 DEF Printed
  <2>4. QED
    BY <2>1, <2>3 DEF Ahead, Pending, Prompted, Queued, About
<1>5. ASSUME NEW b \in Breaks, WriteInterrupt(b)
      PROVE  \A d \in Prompts : /\ Pending(d)' => Pending(d)
                                /\ About(d)' => About(d)
                                /\ Ahead(d)' => Ahead(d)
  <2>1. UNCHANGED <<stdout, waiting, running, failed, reader, line>>
    BY <1>5 DEF WriteInterrupt
  <2>2. CASE stdin' = stdin
    BY <1>1, <2>1, <2>2 DEF PipesStay, Handling
  <2>3. CASE stdin' # stdin
    <3>1. /\ stdin' = Append(stdin, [kind |-> "interrupt", turn |-> activeTurnId])
          /\ activeTurnId # NoTurn
      BY <1>5, <2>3 DEF WriteInterrupt
    <3>2. [kind |-> "interrupt", turn |-> activeTurnId] \in Inputs
      BY <3>1 DEF Inputs, CodexShape, CodexThreadsOK
    <3>3. \A k \in DOMAIN stdin' :
            (k \in DOMAIN stdin /\ stdin'[k] = stdin[k]) \/ stdin'[k].kind = "interrupt"
      BY <1>t, <3>1, <3>2, AppendFacts
    <3>4. \A d \in Prompts : Prompted(d)' => Prompted(d)
      BY <3>3 DEF Prompted
    <3>5. QED
      BY <2>1, <3>4 DEF Ahead, Pending, About, Queued, Printed, Handling
  <2>4. QED
    BY <2>2, <2>3
<1>6. CASE StopProcess \/ CodexExits
  <2>1. stdin' = <<>> /\ waiting' = <<>> /\ running' = NoTurn /\ UNCHANGED <<stdout, reader, line>>
    BY <1>6 DEF StopProcess, CodexExits, Gone
  <2>2. \A d \in Prompts : ~Pending(d)' /\ ~Ahead(d)'
    BY <2>1, EmptyPipe, TurnAssumption DEF Ahead, Pending, Prompted, Queued
  <2>3. QED
    BY <2>1, <2>2 DEF About, Printed, Handling
<1>7. CASE CodexTakesPrompt
  <2>1. /\ stdin # <<>> /\ Head(stdin).kind = "prompt" /\ stdin' = Tail(stdin)
        /\ UNCHANGED <<running, reader, line>>
        /\ \E kind \in {"accepted", "refused"} :
             stdout' = Append(stdout, [kind |-> kind, turn |-> Head(stdin).turn])
        /\ waiting' = waiting \/ waiting' = Append(waiting, Head(stdin).turn)
    BY <1>7 DEF CodexTakesPrompt, Prints
  <2>2. /\ Head(stdin) \in Inputs /\ 1 \in DOMAIN stdin /\ stdin[1] = Head(stdin)
        /\ \A k \in DOMAIN stdin' : k + 1 \in DOMAIN stdin /\ stdin'[k] = stdin[k + 1]
    BY <1>t, <2>1, TailFacts
  <2> DEFINE c == Head(stdin).turn
  <2>3. c \in Prompts /\ Head(stdin) = [kind |-> "prompt", turn |-> c]
    BY <2>1, <2>2 DEF Inputs
  <2>4. Prompted(c)
    BY <2>2, <2>3 DEF Prompted
  <2>5. \A d \in Prompts : Prompted(d)' => Prompted(d)
    BY <2>2 DEF Prompted
  <2>6. \A k \in DOMAIN stdout' : (k \in DOMAIN stdout /\ stdout'[k] = stdout[k]) \/ stdout'[k].turn = c
    <3>1. PICK kind \in {"accepted", "refused"} : stdout' = Append(stdout, [kind |-> kind, turn |-> c])
      BY <2>1
    <3>2. [kind |-> kind, turn |-> c] \in Lines
      BY <2>3 DEF Lines
    <3>3. QED
      BY <1>t, <3>1, <3>2, AppendFacts
  <2>7. \A k \in DOMAIN waiting' : \/ k \in DOMAIN waiting /\ waiting'[k] = waiting[k]
 \/ waiting'[k] = c
    <3>1. CASE waiting' = waiting
      BY <3>1
    <3>2. CASE waiting' = Append(waiting, c)
      BY <1>t, <2>3, <3>2, AppendFacts
    <3>3. QED
      BY <2>1, <3>1, <3>2
  <2> HIDE DEF c
  <2>8. \A d \in Prompts : (Printed(d)' => Printed(d) \/ d = c) /\ (Queued(d)' => Queued(d) \/ d = c)
    BY <2>6, <2>7 DEF Printed, Queued
  <2>9. QED
    BY <2>1, <2>4, <2>5, <2>8 DEF Ahead, Pending, About, Handling
<1>8. CASE CodexTakesInterrupt
  <2>1. /\ stdin # <<>> /\ stdin' = Tail(stdin)
        /\ UNCHANGED <<waiting, reader, line>>
        /\ \/ UNCHANGED <<running, stdout>>
           \/ /\ running = Head(stdin).turn /\ running' = NoTurn
              /\ stdout' = Append(stdout, [kind |-> "completed", turn |-> Head(stdin).turn])
    BY <1>8 DEF CodexTakesInterrupt, Prints
  <2>2. /\ Head(stdin) \in Inputs
        /\ \A k \in DOMAIN stdin' : k + 1 \in DOMAIN stdin /\ stdin'[k] = stdin[k + 1]
    BY <1>t, <2>1, TailFacts
  <2>3. \A d \in Prompts : Prompted(d)' => Prompted(d)
    BY <2>2 DEF Prompted
  <2>4. CASE UNCHANGED <<running, stdout>>
    BY <2>1, <2>3, <2>4 DEF Ahead, Pending, Queued, About, Printed, Handling
  <2>5. CASE /\ running = Head(stdin).turn /\ running' = NoTurn
             /\ stdout' = Append(stdout, [kind |-> "completed", turn |-> Head(stdin).turn])
    <3>1. [kind |-> "completed", turn |-> Head(stdin).turn] \in Lines
      BY <2>2 DEF Inputs, Lines
    <3>2. \A k \in DOMAIN stdout' : (k \in DOMAIN stdout /\ stdout'[k] = stdout[k]) \/ stdout'[k].turn = running
      BY <1>t, <2>5, <3>1, AppendFacts
    <3>3. \A d \in Prompts : Printed(d)' => Printed(d) \/ d = running
      BY <3>2 DEF Printed
    <3>4. QED
      BY <2>1, <2>3, <2>5, <3>3, TurnAssumption DEF Ahead, Pending, Queued, About, Handling
  <2>6. QED
    BY <2>1, <2>4, <2>5
<1>9. CASE CodexStartsTurn
  <2>1. /\ running = NoTurn /\ waiting # <<>>
        /\ running' = Head(waiting) /\ waiting' = Tail(waiting)
        /\ stdout' = Append(stdout, [kind |-> "started", turn |-> Head(waiting)])
        /\ UNCHANGED <<stdin, reader, line>>
    BY <1>9 DEF CodexStartsTurn, Prints
  <2>2. /\ Head(waiting) \in Prompts /\ 1 \in DOMAIN waiting /\ waiting[1] = Head(waiting)
        /\ \A k \in DOMAIN waiting' : k + 1 \in DOMAIN waiting /\ waiting'[k] = waiting[k + 1]
    BY <1>t, <2>1, TailFacts
  <2>3. Queued(Head(waiting)) /\ \A d \in Prompts : Queued(d)' => Queued(d)
    BY <2>2 DEF Queued
  <2>4. [kind |-> "started", turn |-> Head(waiting)] \in Lines
    BY <2>2 DEF Lines
  <2>5. \A k \in DOMAIN stdout' : (k \in DOMAIN stdout /\ stdout'[k] = stdout[k]) \/ stdout'[k].turn = Head(waiting)
    BY <1>t, <2>1, <2>4, AppendFacts
  <2>6. \A d \in Prompts : Printed(d)' => Printed(d) \/ d = Head(waiting)
    BY <2>5 DEF Printed
  <2>7. QED
    BY <2>1, <2>3, <2>6 DEF Ahead, Pending, Prompted, About, Handling
<1>10. CASE CodexEndsTurn \/ CodexReportsError
  <2>1. /\ running # NoTurn /\ running' \in {running, NoTurn} /\ UNCHANGED <<stdin, waiting, reader, line>>
        /\ Prints("completed", running) \/ Prints("error", running)
    BY <1>10 DEF CodexEndsTurn, CodexReportsError
  <2>2. \A k \in DOMAIN stdout' : (k \in DOMAIN stdout /\ stdout'[k] = stdout[k]) \/ stdout'[k].turn = running
    BY <2>1, CodexLastLines
  <2>3. \A d \in Prompts : Printed(d)' => Printed(d) \/ d = running
    BY <2>2 DEF Printed
  <2>4. QED
    BY <2>1, <2>3, TurnAssumption DEF Ahead, Pending, Prompted, Queued, About, Handling
<1>11. QED
  BY <1>2, <1>3, <1>4, <1>5, <1>6, <1>7, <1>8, <1>9, <1>10, CodexQuietSteps
  DEF CodexTurnsNext, PromptStep, ReaderStep, BreakStep, CodexStep, Reading

\* Where a call goes: forward, and alone when it arrives.
LEMMA CodexCallMoves ==
  ASSUME CodexShape, Patient, NEW c \in Prompts, PromptStep(c)
  PROVE  /\ \A d \in Prompts \ {c} : pc'[d] = pc[d]
         /\ \/ pc[c] = "new" /\ Quiet /\ pc'[c] \in {"accepted", "not_running"}
            \/ pc[c] = "accepted" /\ pc'[c] = "reset"
            \/ pc[c] = "reset" /\ (pc'[c] = "failing" \/ (pc'[c] = "sent" /\ Writable))
            \/ pc[c] = "sent" /\ pc'[c] = "claimed"
            \/ pc[c] = "claimed" /\ pc'[c] = "submitted" /\ turnActive'
            \/ pc[c] = "failing" /\ pc'[c] = "dropping"
            \/ pc[c] = "dropping" /\ pc'[c] = "error"
<1>t. pc \in [Prompts -> {"new", "not_running", "submitted", "error"} \cup Serving]
  BY DEF CodexShape, CodexThreadsOK
<1>1. ASSUME NEW from, NEW to, Moved(c, from, to)
      PROVE  pc[c] = from /\ pc'[c] = to /\ \A d \in Prompts \ {c} : pc'[d] = pc[d]
  BY <1>t, <1>1 DEF Moved
<1>2. CASE Receive(c)
  BY <1>1, <1>2 DEF Receive
<1>3. CASE Reset(c)
  BY <1>1, <1>3 DEF Reset
<1>4. CASE Send(c)
  BY <1>1, <1>4 DEF Send
<1>5. CASE Claim(c)
  BY <1>1, <1>5 DEF Claim
<1>6. CASE Raise(c)
  BY <1>1, <1>6 DEF Raise
<1>7. CASE FailDrop(c)
  BY <1>1, <1>7 DEF FailDrop
<1>8. CASE FailClear(c)
  BY <1>1, <1>8 DEF FailClear
<1>9. QED
  BY <1>2, <1>3, <1>4, <1>5, <1>6, <1>7, <1>8 DEF PromptStep

\* Other threads leave the calls where they are.
LEMMA CodexCallsStay ==
  ASSUME [CodexTurnsNext]_codexTurnsVars, \A c \in Prompts : ~PromptStep(c)
  PROVE  pc' = pc
<1> USE DEF breakVars, readVars, codexVars
<1>1. CASE ReaderStep
  BY <1>1 DEF ReaderStep, Read, ReadAccepted, ReadRefused, ReadStarted, RaiseStarted, ReadError,
    ReadCompleted, EndTurn, DropFlag, ClearFlag, ReaderEnds
<1>2. ASSUME NEW b \in Breaks, BreakStep(b) PROVE pc' = pc
  BY <1>2 DEF BreakStep, StartBreak, WriteInterrupt, EndBreak
<1>3. CASE StopProcess \/ Close \/ CodexStep \/ CodexExits
  BY <1>3 DEF StopProcess, Close, CodexStep, CodexExits, CodexTakesPrompt, CodexTakesInterrupt,
    CodexStartsTurn, CodexReportsError, CodexEndsTurn
<1>4. CASE UNCHANGED codexTurnsVars
  BY <1>4 DEF codexTurnsVars
<1>5. QED
  BY <1>1, <1>2, <1>3, <1>4 DEF CodexTurnsNext

\* An error reported is not taken back, and is of a turn that runs.
LEMMA CodexKeepsFailed ==
  ASSUME CodexShape, [CodexTurnsNext]_codexTurnsVars
  PROVE  \/ failed' = failed
         \/ CodexReportsError /\ failed' = failed \cup {running}
<1> USE DEF flagVars, entryVars, breakVars, readVars, codexVars
<1>1. ASSUME NEW c \in Prompts, PromptStep(c) PROVE failed' = failed
  BY <1>1 DEF PromptStep, Receive, Reset, Send, Claim, Raise, FailDrop, FailClear
<1>2. CASE ReaderStep
  BY <1>2 DEF ReaderStep, Read, ReadAccepted, ReadRefused, ReadStarted, RaiseStarted, ReadError,
    ReadCompleted, EndTurn, DropFlag, ClearFlag, ReaderEnds
<1>3. ASSUME NEW b \in Breaks, BreakStep(b) PROVE failed' = failed
  BY <1>3 DEF BreakStep, StartBreak, WriteInterrupt, EndBreak
<1>4. CASE StopProcess \/ Close \/ CodexExits \/ UNCHANGED codexTurnsVars
  BY <1>4 DEF StopProcess, Close, CodexExits, Gone, codexTurnsVars
<1>5. CASE CodexStep
  BY <1>5 DEF CodexStep, CodexTakesPrompt, CodexTakesInterrupt, CodexStartsTurn, CodexReportsError,
    CodexEndsTurn
<1>6. QED
  BY <1>1, <1>2, <1>3, <1>4, <1>5 DEF CodexTurnsNext

\* What is new on the stdout of the process.
LEMMA CodexNews ==
  ASSUME CodexShape, [CodexTurnsNext]_codexTurnsVars
  PROVE  \A k \in DOMAIN stdout' :
           \/ \E l \in DOMAIN stdout : stdout'[k] = stdout[l]
           \/ stdout'[k].kind # "error"
           \/ CodexReportsError /\ stdout'[k].turn = running
<1> USE DEF flagVars, entryVars, breakVars, readVars, codexVars
<1>t. /\ stdin \in Seq(Inputs) /\ stdout \in Seq(Lines) /\ waiting \in Seq(Prompts)
      /\ running \in Prompts \cup {NoTurn}
  BY DEF CodexShape, CodexPipesOK, CodexThreadsOK
<1>1. CASE stdout' = stdout
  BY <1>1
<1>2. CASE Reading
  <2>1. stdout # <<>> /\ stdout' = Tail(stdout)
    BY <1>2, CodexReads
  <2>2. QED
    BY <1>t, <2>1, TailFacts
<1>3. ASSUME NEW c \in Prompts, PromptStep(c) PROVE stdout' = stdout
  BY <1>3 DEF PromptStep, Receive, Reset, Send, Claim, Raise, FailDrop, FailClear
<1>4. CASE RaiseStarted \/ EndTurn \/ DropFlag \/ ClearFlag \/ ReaderEnds
  BY <1>4 DEF RaiseStarted, EndTurn, DropFlag, ClearFlag, ReaderEnds
<1>5. ASSUME NEW b \in Breaks, BreakStep(b) PROVE stdout' = stdout
  BY <1>5 DEF BreakStep, StartBreak, WriteInterrupt, EndBreak
<1>6. CASE StopProcess \/ Close \/ CodexExits \/ UNCHANGED codexTurnsVars
  BY <1>6 DEF StopProcess, Close, CodexExits, Gone, codexTurnsVars
<1>7. ASSUME NEW t \in Prompts, NEW word \in {"accepted", "refused", "started", "completed"},
             Prints(word, t)
      PROVE  \A k \in DOMAIN stdout' :
               (\E l \in DOMAIN stdout : stdout'[k] = stdout[l]) \/ stdout'[k].kind # "error"
  <2>1. [kind |-> word, turn |-> t] \in Lines
    BY DEF Lines
  <2>2. QED
    BY <1>t, <1>7, <2>1, AppendFacts DEF Prints
<1>8. CASE CodexTakesPrompt \/ CodexTakesInterrupt
  <2>1. stdin # <<>>
    BY <1>8 DEF CodexTakesPrompt, CodexTakesInterrupt
  <2>2. Head(stdin).turn \in Prompts
    <3>1. Head(stdin) \in Inputs
      BY <1>t, <2>1, TailFacts
    <3>2. QED
      BY <3>1 DEF Inputs
  <2>3. \/ stdout' = stdout
        \/ \E word \in {"accepted", "refused", "completed"} : Prints(word, Head(stdin).turn)
    BY <1>8 DEF CodexTakesPrompt, CodexTakesInterrupt
  <2>4. QED
    BY <1>1, <1>7, <2>2, <2>3
<1>9. CASE CodexStartsTurn
  <2>1. Head(waiting) \in Prompts /\ Prints("started", Head(waiting))
    BY <1>t, <1>9, TailFacts DEF CodexStartsTurn
  <2>2. QED
    BY <1>7, <2>1
<1>10. CASE CodexEndsTurn
  <2>1. running \in Prompts /\ Prints("completed", running)
    BY <1>t, <1>10 DEF CodexEndsTurn
  <2>2. QED
    BY <1>7, <2>1
<1>11. CASE CodexReportsError
  <2>1. running # NoTurn /\ Prints("error", running)
    BY <1>11 DEF CodexReportsError
  <2>2. QED
    BY <1>11, <2>1, CodexLastLines
<1>12. QED
  BY <1>1, <1>2, <1>3, <1>4, <1>5, <1>6, <1>8, <1>9, <1>10, <1>11
  DEF CodexTurnsNext, ReaderStep, CodexStep, Reading

\* A patient client prompts when no turn is anywhere.
LEMMA QuietIsAlone ==
  ASSUME CodexShape, CodexInv, Quiet
  PROVE  \A d \in Prompts : ~About(d)
<1> SUFFICES ASSUME NEW d \in Prompts, About(d) PROVE FALSE
  BY Zenon
<1>1. Pending(d)
  <2>1. DOMAIN stdout = {}
    BY EmptyPipe DEF Quiet
  <2>2. QED
    BY <2>1 DEF Quiet, About, Printed, Handling
<1>2. pc[d] = "submitted"
  BY DEF CodexInv, CodexOneTurn, Quiet, Serving
<1>3. QED
  BY <1>1, <1>2, TurnAssumption DEF CodexInv, CodexFailed, CodexFlag, Pending, Quiet

\* One turn at a time.
LEMMA CodexOneTurnStep ==
  ASSUME CodexShape, CodexInv, Patient, [CodexTurnsNext]_codexTurnsVars
  PROVE  CodexOneTurn'
<1>i. CodexOneTurn
  BY DEF CodexInv
<1>1. CASE \A c \in Prompts : ~PromptStep(c)
  <2>1. pc' = pc
    BY <1>1, CodexCallsStay
  <2>2. \A d \in Prompts : About(d)' => About(d)
    BY <2>1, CodexMoves
  <2>3. QED
    BY <1>i, <2>1, <2>2 DEF CodexOneTurn
<1>2. ASSUME NEW c \in Prompts, PromptStep(c) PROVE CodexOneTurn'
  <2>1. /\ \A d \in Prompts \ {c} : pc'[d] = pc[d]
        /\ \/ pc[c] = "new" /\ Quiet /\ pc'[c] \in {"accepted", "not_running"}
           \/ pc[c] = "accepted" /\ pc'[c] = "reset"
           \/ pc[c] = "reset" /\ pc'[c] \in {"sent", "failing"}
           \/ pc[c] = "sent" /\ pc'[c] = "claimed"
           \/ pc[c] = "claimed" /\ pc'[c] = "submitted"
           \/ pc[c] = "failing" /\ pc'[c] = "dropping"
           \/ pc[c] = "dropping" /\ pc'[c] = "error"
    BY <1>2, CodexCallMoves
  <2>2. \A d \in Prompts : About(d)' => About(d) \/ (d = c /\ pc[c] = "reset" /\ pc'[c] = "sent")
    BY <2>1, CodexMoves
  <2>3. CASE pc[c] = "new"
    <3>1. \A d \in Prompts : ~About(d)'
      BY <2>1, <2>2, <2>3, QuietIsAlone
    <3>2. \A d \in Prompts : pc[d] \notin Serving
      BY <2>1, <2>3 DEF Quiet
    <3>3. QED
      BY <2>1, <3>1, <3>2 DEF CodexOneTurn
  <2>4. CASE pc[c] # "new"
    <3>1. \A d \in Prompts : pc'[d] \in Serving => pc[d] \in Serving
      BY <2>1, <2>4 DEF Serving
    <3>2. pc[c] \in Serving
      BY <2>1, <2>4 DEF Serving
    <3>3. \A d \in Prompts : About(d)' => About(d) \/ d = c
      BY <2>2
    <3>4. \A d, e \in Prompts : About(d)' /\ About(e)' => d = e
      BY <1>i, <3>2, <3>3 DEF CodexOneTurn
    <3>5. \A d, e \in Prompts : pc'[d] \in Serving /\ About(e)' => d = e
      BY <1>i, <3>1, <3>2, <3>3 DEF CodexOneTurn
    <3>6. \A d \in Prompts : About(d)' => pc'[d] \in {"sent", "claimed", "submitted"}
      BY <1>i, <2>1, <2>2 DEF CodexOneTurn
    <3>7. QED
      BY <1>i, <3>1, <3>4, <3>5, <3>6 DEF CodexOneTurn
  <2>5. QED
    BY <2>3, <2>4
<1>3. QED
  BY <1>1, <1>2

\* A turn is in one place at a time.
LEMMA CodexOnePlaceStep ==
  ASSUME CodexShape, CodexInv, Patient, [CodexTurnsNext]_codexTurnsVars
  PROVE  CodexOnePlace'
<1> USE DEF flagVars, entryVars, breakVars, readVars, codexVars
<1>t. /\ stdin \in Seq(Inputs) /\ stdout \in Seq(Lines) /\ waiting \in Seq(Prompts)
      /\ running \in Prompts \cup {NoTurn}
  BY DEF CodexShape, CodexPipesOK, CodexThreadsOK
<1>i. /\ \A c, d \in Prompts : Pending(c) /\ Pending(d) => c = d
      /\ \A c, d \in Prompts : pc[c] \in Serving /\ Pending(d) => c = d
      /\ \A c \in Prompts : Pending(c) => pc[c] \in {"sent", "claimed", "submitted"}
      /\ CodexOnePlace
  BY DEF CodexInv, CodexOneTurn, About
<1>1. ASSUME PipesStay PROVE CodexOnePlace'
  BY <1>i, <1>1 DEF PipesStay, CodexOnePlace, Prompted, Queued
<1>2. ASSUME NEW c \in Prompts, Send(c) PROVE CodexOnePlace'
  <2>1. UNCHANGED <<stdout, waiting, running, failed>>
    BY <1>2 DEF Send
  <2>2. CASE stdin' = stdin
    BY <1>1, <2>1, <2>2 DEF PipesStay
  <2>3. CASE stdin' # stdin
    <3>1. pc[c] = "reset" /\ stdin' = Append(stdin, [kind |-> "prompt", turn |-> c])
      BY <1>2, <2>3 DEF Send, Moved
    <3>2. [kind |-> "prompt", turn |-> c] \in Inputs
      BY DEF Inputs
    <3>3. \A k \in DOMAIN stdin' :
            \/ k \in DOMAIN stdin /\ stdin'[k] = stdin[k]
            \/ k = Len(stdin) + 1 /\ stdin'[k] = [kind |-> "prompt", turn |-> c]
      BY <1>t, <3>1, <3>2, AppendFacts
    <3>4. \A d \in Prompts : ~Pending(d)
      BY <1>i, <3>1 DEF Serving
    <3>5. \A k \in DOMAIN stdin : stdin[k].kind # "prompt"
      <4>1. \A k \in DOMAIN stdin : stdin[k] \in Inputs
        BY <1>t
      <4>2. \A k \in DOMAIN stdin : stdin[k].kind = "prompt" =>
              stdin[k].turn \in Prompts /\ Prompted(stdin[k].turn)
        BY <4>1 DEF Inputs, Prompted
      <4>3. QED
        BY <3>4, <4>2 DEF Ahead, Pending
    <3>6. \A k, l \in DOMAIN stdin' : stdin'[k].kind = "prompt" /\ stdin'[l].kind = "prompt" => k = l
      BY <3>3, <3>5
    <3>7. \A k, l \in DOMAIN waiting' : k = l
      BY <1>i, <2>1 DEF CodexOnePlace
    <3>8. \A d \in Prompts : ~Queued(d)' /\ running' # d
      BY <2>1, <3>4 DEF Ahead, Pending, Queued
    <3>9. QED
      BY <3>6, <3>7, <3>8 DEF CodexOnePlace
  <2>4. QED
    BY <2>2, <2>3
<1>3. CASE Reading
  <2>1. UNCHANGED <<stdin, waiting, running>>
    BY <1>3, CodexReads
  <2>2. QED
    BY <1>i, <2>1 DEF CodexOnePlace, Prompted, Queued
<1>4. ASSUME NEW b \in Breaks, WriteInterrupt(b) PROVE CodexOnePlace'
  <2>1. UNCHANGED <<stdout, waiting, running, failed>>
    BY <1>4 DEF WriteInterrupt
  <2>2. CASE stdin' = stdin
    BY <1>1, <2>1, <2>2 DEF PipesStay
  <2>3. CASE stdin' # stdin
    <3>1. /\ stdin' = Append(stdin, [kind |-> "interrupt", turn |-> activeTurnId])
          /\ activeTurnId # NoTurn
      BY <1>4, <2>3 DEF WriteInterrupt
    <3>2. [kind |-> "interrupt", turn |-> activeTurnId] \in Inputs
      BY <3>1 DEF Inputs, CodexShape, CodexThreadsOK
    <3>3. \A k \in DOMAIN stdin' :
            \/ k \in DOMAIN stdin /\ stdin'[k] = stdin[k]
            \/ stdin'[k].kind = "interrupt"
      BY <1>t, <3>1, <3>2, AppendFacts
    <3>4. \A d \in Prompts : Prompted(d)' => Prompted(d)
      BY <3>3 DEF Prompted
    <3>5. QED
      BY <1>i, <2>1, <3>3, <3>4 DEF CodexOnePlace, Queued
  <2>4. QED
    BY <2>2, <2>3
<1>5. CASE StopProcess \/ CodexExits
  <2>1. stdin' = <<>> /\ waiting' = <<>> /\ running' = NoTurn
    BY <1>5 DEF StopProcess, CodexExits, Gone
  <2>2. QED
    BY <2>1, EmptyPipe DEF CodexOnePlace, Prompted, Queued
<1>6. CASE CodexTakesPrompt
  <2>1. /\ stdin # <<>> /\ Head(stdin).kind = "prompt" /\ stdin' = Tail(stdin) /\ running' = running
        /\ waiting' = waiting \/ waiting' = Append(waiting, Head(stdin).turn)
    BY <1>6 DEF CodexTakesPrompt
  <2>2. /\ Head(stdin) \in Inputs /\ 1 \in DOMAIN stdin /\ stdin[1] = Head(stdin)
        /\ \A k \in DOMAIN stdin' : k + 1 \in DOMAIN stdin /\ k + 1 # 1 /\ stdin'[k] = stdin[k + 1] /\ k \in Nat
    BY <1>t, <2>1, TailFacts
  <2>3. PICK c \in Prompts : Head(stdin) = [kind |-> "prompt", turn |-> c]
    BY <2>1, <2>2 DEF Inputs
  <2>4. Prompted(c) /\ Head(stdin).turn = c
    BY <2>2, <2>3 DEF Prompted
  <2>5. \A d \in Prompts : ~Queued(d) /\ running # d
    BY <1>i, <2>4 DEF Ahead, Pending, CodexOnePlace
  <2>6. DOMAIN waiting = {}
    <3>1. \A k \in DOMAIN waiting : waiting[k] \in Prompts
      BY <1>t
    <3>2. QED
      BY <2>5, <3>1 DEF Queued
  <2>7. \A k \in DOMAIN stdin' : stdin'[k].kind # "prompt"
    BY <1>i, <2>1, <2>2 DEF CodexOnePlace
  <2>8. \A d \in Prompts : ~Prompted(d)'
    BY <2>7 DEF Prompted
  <2>9. \A k, l \in DOMAIN waiting' : k = l
    <3>1. CASE waiting' = waiting
      BY <2>6, <3>1
    <3>2. CASE waiting' = Append(waiting, c)
      BY <1>t, <2>6, <3>2, AppendFacts
    <3>3. QED
      BY <2>1, <2>4, <3>1, <3>2
  <2>10. QED
    BY <2>1, <2>5, <2>7, <2>8, <2>9 DEF CodexOnePlace
<1>7. CASE CodexTakesInterrupt
  <2>1. /\ stdin # <<>> /\ stdin' = Tail(stdin) /\ waiting' = waiting
        /\ running' \in {running, NoTurn}
    BY <1>7 DEF CodexTakesInterrupt
  <2>2. \A k \in DOMAIN stdin' : k + 1 \in DOMAIN stdin /\ stdin'[k] = stdin[k + 1] /\ k \in Nat
    BY <1>t, <2>1, TailFacts
  <2>3. \A d \in Prompts : Prompted(d)' => Prompted(d)
    BY <2>2 DEF Prompted
  <2>4. \A k, l \in DOMAIN stdin' : stdin'[k].kind = "prompt" /\ stdin'[l].kind = "prompt" => k = l
    BY <1>i, <2>2 DEF CodexOnePlace
  <2>5. QED
    BY <1>i, <2>1, <2>3, <2>4, TurnAssumption DEF CodexOnePlace, Queued
<1>8. CASE CodexStartsTurn
  <2>1. /\ running = NoTurn /\ waiting # <<>>
        /\ running' = Head(waiting) /\ waiting' = Tail(waiting) /\ stdin' = stdin
    BY <1>8 DEF CodexStartsTurn
  <2>2. /\ Head(waiting) \in Prompts /\ 1 \in DOMAIN waiting /\ waiting[1] = Head(waiting)
        /\ \A k \in DOMAIN waiting' : k + 1 \in DOMAIN waiting /\ k + 1 # 1
    BY <1>t, <2>1, TailFacts
  <2>3. DOMAIN waiting' = {}
    BY <1>i, <2>2 DEF CodexOnePlace
  <2>4. Queued(Head(waiting))
    BY <2>2 DEF Queued
  <2>5. \A d \in Prompts : ~Queued(d)' /\ (Prompted(d)' => running' # d)
    BY <1>i, <2>1, <2>2, <2>3, <2>4 DEF CodexOnePlace, Queued, Prompted
  <2>6. QED
    BY <1>i, <2>1, <2>3, <2>5 DEF CodexOnePlace
<1>9. CASE CodexEndsTurn \/ CodexReportsError
  <2>1. UNCHANGED <<stdin, waiting>> /\ running' \in {running, NoTurn}
    BY <1>9 DEF CodexEndsTurn, CodexReportsError
  <2>2. QED
    BY <1>i, <2>1, TurnAssumption DEF CodexOnePlace, Prompted, Queued
<1>10. QED
  BY <1>1, <1>2, <1>3, <1>4, <1>5, <1>6, <1>7, <1>8, <1>9, CodexQuietSteps
  DEF CodexTurnsNext, PromptStep, ReaderStep, BreakStep, CodexStep, Reading

\* The last line about a turn comes last, and its end is to be reported.
LEMMA CodexLastWordsStep ==
  ASSUME CodexShape, CodexInv, Patient, [CodexTurnsNext]_codexTurnsVars
  PROVE  CodexLastWords'
<1> USE DEF flagVars, entryVars, breakVars, readVars, codexVars, LastWords
<1>t. /\ stdin \in Seq(Inputs) /\ stdout \in Seq(Lines) /\ waiting \in Seq(Prompts)
      /\ running \in Prompts \cup {NoTurn} /\ (Handling => line \in Lines)
  BY DEF CodexShape, CodexPipesOK, CodexThreadsOK
<1>i. CodexLastWords /\ CodexOneTurn /\ CodexOnePlace /\ CodexFailed
  BY DEF CodexInv
<1>f. failed \subseteq failed'
  BY CodexKeepsFailed
<1>m. \A d \in Prompts : Pending(d)' => Pending(d) \/ (pc[d] = "reset" /\ pc'[d] = "sent")
  BY CodexMoves
<1>r. ASSUME NEW c \in Prompts, pc[c] = "reset"
      PROVE  (\A d \in Prompts : ~About(d)) /\ DOMAIN stdout = {} /\ ~Handling
  <2>1. \A d \in Prompts : ~About(d)
    BY <1>i, <1>r DEF CodexOneTurn, Serving
  <2>2. \A k \in DOMAIN stdout : stdout[k].turn \in Prompts
    <3>1. \A k \in DOMAIN stdout : stdout[k] \in Lines
      BY <1>t
    <3>2. QED
      BY <3>1 DEF Lines
  <2>3. DOMAIN stdout = {}
    BY <2>1, <2>2 DEF About, Printed
  <2>4. ~Handling
    BY <1>t, <2>1 DEF About, Lines
  <2>5. QED
    BY <2>1, <2>3, <2>4
<1>1. ASSUME UNCHANGED <<stdout, turnEnded>>, reader' = reader \/ reader' \notin {"end", "drop", "clear"},
             \A d \in Prompts : Pending(d)' => Pending(d),
             \A d \in Prompts : pc'[d] = "reset" => pc[d] = "reset"
      PROVE  CodexLastWords'
  BY <1>i, <1>f, <1>1 DEF CodexLastWords
<1>2. ASSUME NEW c \in Prompts, PromptStep(c) PROVE CodexLastWords'
  <2>1. UNCHANGED <<stdout, reader>>
    BY <1>2 DEF PromptStep, Receive, Reset, Send, Claim, Raise, FailDrop, FailClear
  <2>2. CASE Reset(c)
    <3>1. turnEnded' = FALSE /\ pc[c] = "accepted" /\ pc'[c] = "reset" /\ PipesStay
      BY <2>2, CodexQuietSteps DEF Reset, Moved, CodexShape, CodexThreadsOK
    <3>2. \A d \in Prompts : Pending(d)' => Pending(d)
      BY <3>1 DEF PipesStay, Ahead, Pending, Prompted, Queued
    <3>3. QED
      BY <1>i, <1>f, <2>1, <3>1, <3>2 DEF CodexLastWords
  <2>3. CASE pc[c] = "reset"
    <3>1. turnEnded' = turnEnded /\ ~turnEnded
      BY <1>2, <1>i, <2>3 DEF PromptStep, Receive, Reset, Send, Claim, Raise, FailDrop, FailClear,
        Moved, CodexLastWords
    <3>2. DOMAIN stdout' = {} /\ reader' \notin {"end", "drop", "clear"}
      BY <1>r, <2>1, <2>3 DEF Handling
    <3>3. QED
      BY <3>1, <3>2 DEF CodexLastWords
  <2>4. CASE ~Reset(c) /\ pc[c] # "reset"
    <3>1. turnEnded' = turnEnded
      BY <1>2, <2>4 DEF PromptStep, Receive, Reset, Send, Claim, Raise, FailDrop, FailClear
    <3>2. pc'[c] # "reset" /\ \A d \in Prompts \ {c} : pc'[d] = pc[d]
      <4>1. Receive(c) \/ Claim(c) \/ Raise(c) \/ FailDrop(c) \/ FailClear(c) \/ Send(c)
        BY <1>2, <2>4 DEF PromptStep
      <4>2. pc[c] # "accepted"
        BY <4>1, <2>4 DEF Receive, Claim, Raise, FailDrop, FailClear, Send, Moved
      <4>3. QED
        BY <1>2, <2>4, <4>2, CodexCallMoves
    <3>3. \A d \in Prompts : Pending(d)' => Pending(d)
      BY <1>m, <2>4, <3>2
    <3>4. QED
      BY <1>1, <2>1, <3>1, <3>2, <3>3
  <2>5. QED
    BY <2>2, <2>3, <2>4
<1>3. CASE \A c \in Prompts : ~PromptStep(c)
  <2>1. pc' = pc /\ \A d \in Prompts : Pending(d)' => Pending(d)
    BY <1>3, <1>m, CodexCallsStay
  <2>2. CASE Reading
    <3>1. /\ reader = "idle" /\ stdout # <<>> /\ stdout' = Tail(stdout) /\ turnEnded' = turnEnded
      BY <2>2, CodexReads
    <3>2. /\ 1 \in DOMAIN stdout /\ stdout[1] = Head(stdout)
          /\ \A k \in DOMAIN stdout' : k \in Nat /\ k + 1 \in DOMAIN stdout /\ k + 1 # 1 /\ stdout'[k] = stdout[k + 1]
      BY <1>t, <3>1, TailFacts
    <3>3. /\ reader' = "drop" => stdout[1].kind \in LastWords \cup {"error"}
          /\ reader' = "end" => stdout[1].kind = "completed" /\ ~turnEnded
          /\ reader' # "clear"
      BY <2>2, <3>2 DEF Reading, Read, ReadAccepted, ReadRefused, ReadStarted, ReadError, ReadCompleted
    <3>9. \A c \in Prompts : Pending(c) /\ stdout[1].kind = "error" => c \in failed
      <4>1. stdout[1] \in Lines /\ (stdout[1].kind = "error" => stdout[1].turn \in failed)
        BY <1>t, <1>i, <3>2 DEF CodexFailed
      <4>2. stdout[1].turn \in Prompts /\ Printed(stdout[1].turn)
        BY <3>2, <4>1 DEF Lines, Printed
      <4>3. QED
        BY <1>i, <4>1, <4>2 DEF CodexOneTurn, About
    <3>4. \A c \in Prompts : Pending(c)' => /\ \A k \in DOMAIN stdout' : stdout'[k].kind \notin LastWords
                                            /\ reader' # "end"
                                            /\ reader' \in {"drop", "clear"} => c \in failed'
      BY <1>i, <1>f, <2>1, <3>2, <3>3, <3>9 DEF CodexLastWords
    <3>5. \A k, l \in DOMAIN stdout' : stdout'[k].kind = "completed" /\ stdout'[l].kind = "completed" => k = l
      <4>1. \A k, l \in DOMAIN stdout' : stdout'[k].kind = "completed" /\ stdout'[l].kind = "completed" => k + 1 = l + 1
        BY <1>i, <3>2 DEF CodexLastWords
      <4>2. QED
        BY <3>2, <4>1
    <3>6. \A k \in DOMAIN stdout' : stdout'[k].kind = "completed" => ~turnEnded /\ reader' # "end"
      BY <1>i, <3>2, <3>3 DEF CodexLastWords
    <3>7. \A c \in Prompts : pc'[c] = "reset" \/ Pending(c)' => ~turnEnded
      BY <1>i, <2>1 DEF CodexLastWords
    <3>8. QED
      BY <3>1, <3>3, <3>4, <3>5, <3>6, <3>7 DEF CodexLastWords
  <2>3. CASE EndTurn
    <3>1. reader = "end" /\ reader' = "drop" /\ stdout' = stdout
      BY <2>3 DEF EndTurn
    <3>2. \A c \in Prompts : pc[c] # "reset" /\ ~Pending(c)
      BY <1>i, <1>r, <3>1 DEF CodexLastWords, Handling
    <3>3. QED
      BY <1>i, <2>1, <3>1, <3>2 DEF CodexLastWords
  <2>4. CASE DropFlag
    <3>1. UNCHANGED <<stdout, turnEnded>> /\ reader = "drop" /\ reader' = "clear"
      BY <2>4 DEF DropFlag
    <3>2. QED
      BY <1>i, <1>f, <2>1, <3>1 DEF CodexLastWords
  <2>5. CASE RaiseStarted \/ ClearFlag \/ ReaderEnds
    <3>1. UNCHANGED <<stdout, turnEnded>> /\ reader' \in {"idle", "ended"}
      BY <2>5 DEF RaiseStarted, ClearFlag, ReaderEnds
    <3>2. QED
      BY <1>1, <2>1, <3>1
  <2>6. ASSUME NEW b \in Breaks, BreakStep(b) PROVE CodexLastWords'
    <3>1. UNCHANGED <<stdout, turnEnded, reader>>
      BY <2>6 DEF BreakStep, StartBreak, WriteInterrupt, EndBreak
    <3>2. QED
      BY <1>1, <2>1, <3>1
  <2>7. CASE StopProcess \/ Close \/ CodexExits \/ UNCHANGED codexTurnsVars
    <3>1. UNCHANGED <<stdout, turnEnded, reader>>
      BY <2>7 DEF StopProcess, Close, CodexExits, Gone, codexTurnsVars
    <3>2. QED
      BY <1>1, <2>1, <3>1
  <2>8. ASSUME UNCHANGED <<turnEnded, reader>>, NEW c \in Prompts, Pending(c),
               \A k \in DOMAIN stdout' :
                 \/ k \in DOMAIN stdout /\ stdout'[k] = stdout[k]
                 \/ k \notin DOMAIN stdout /\ stdout'[k].kind \in {"accepted", "started", "error"} \cup LastWords,
               \A k, l \in DOMAIN stdout' \ DOMAIN stdout :
                 stdout'[k].kind = "completed" /\ stdout'[l].kind = "completed" => k = l,
               \/ \A k \in DOMAIN stdout' \ DOMAIN stdout : stdout'[k].kind \notin LastWords
               \/ \A d \in Prompts : ~Pending(d)'
        PROVE  CodexLastWords'
    <3>1. /\ \A k \in DOMAIN stdout : stdout[k].kind \notin LastWords
          /\ reader # "end" /\ ~turnEnded
      BY <1>i, <2>8 DEF CodexLastWords
    <3>2. \A k \in DOMAIN stdout' : k \in DOMAIN stdout => stdout'[k].kind \notin LastWords
      BY <2>8, <3>1
    <3>3. \A k, l \in DOMAIN stdout' : stdout'[k].kind = "completed" /\ stdout'[l].kind = "completed" => k = l
      BY <2>8, <3>2
    <3>4. \A d \in Prompts : Pending(d)' => \A k \in DOMAIN stdout' : stdout'[k].kind \notin LastWords
      BY <2>8, <3>2
    <3>5. QED
      BY <1>i, <1>f, <2>1, <2>8, <3>1, <3>3, <3>4 DEF CodexLastWords
  <2>9. CASE CodexTakesPrompt
    <3>1. /\ stdin # <<>> /\ Head(stdin).kind = "prompt" /\ stdin' = Tail(stdin)
          /\ UNCHANGED <<running, reader, turnEnded>>
          /\ \E kind \in {"accepted", "refused"} :
               /\ stdout' = Append(stdout, [kind |-> kind, turn |-> Head(stdin).turn])
               /\ kind = "refused" => waiting' = waiting
      BY <2>9 DEF CodexTakesPrompt, Prints
    <3>2. /\ Head(stdin) \in Inputs /\ 1 \in DOMAIN stdin /\ stdin[1] = Head(stdin)
          /\ \A k \in DOMAIN stdin' : k + 1 \in DOMAIN stdin /\ k + 1 # 1 /\ stdin'[k] = stdin[k + 1]
      BY <1>t, <3>1, TailFacts
    <3>3. PICK c \in Prompts : Head(stdin) = [kind |-> "prompt", turn |-> c]
      BY <3>1, <3>2 DEF Inputs
    <3>4. PICK kind \in {"accepted", "refused"} :
            /\ stdout' = Append(stdout, [kind |-> kind, turn |-> c])
            /\ kind = "refused" => waiting' = waiting
      BY <3>1, <3>3
    <3>5. Prompted(c) /\ Pending(c)
      BY <3>2, <3>3 DEF Prompted, Ahead, Pending
    <3>6. [kind |-> kind, turn |-> c] \in Lines
      BY DEF Lines
    <3>7. \A k \in DOMAIN stdout' :
            \/ k \in DOMAIN stdout /\ stdout'[k] = stdout[k]
            \/ k \notin DOMAIN stdout /\ stdout'[k].kind = kind
      BY <1>t, <3>4, <3>6, AppendFacts
    <3>8. kind = "refused" => \A d \in Prompts : ~Pending(d)'
      <4>1. \A d \in Prompts : ~Prompted(d)'
        BY <1>i, <3>1, <3>2 DEF Prompted, CodexOnePlace
      <4>2. \A d \in Prompts : ~Queued(d) /\ running # d
        BY <1>i, <3>5 DEF CodexOnePlace, CodexOneTurn, About, Ahead, Pending
      <4>3. QED
        BY <3>1, <3>4, <4>1, <4>2 DEF Ahead, Pending, Queued
    <3>9. QED
      BY <2>8, <3>1, <3>5, <3>7, <3>8
  <2>10. CASE CodexTakesInterrupt
    <3>1. /\ stdin # <<>> /\ stdin' = Tail(stdin)
          /\ UNCHANGED <<waiting, reader, turnEnded>>
          /\ \/ UNCHANGED <<running, stdout>>
             \/ /\ running = Head(stdin).turn /\ running' = NoTurn
                /\ stdout' = Append(stdout, [kind |-> "completed", turn |-> Head(stdin).turn])
      BY <2>10 DEF CodexTakesInterrupt, Prints
    <3>2. CASE UNCHANGED <<running, stdout>>
      BY <1>1, <2>1, <3>1, <3>2
    <3>3. CASE /\ running = Head(stdin).turn /\ running' = NoTurn
               /\ stdout' = Append(stdout, [kind |-> "completed", turn |-> Head(stdin).turn])
      <4>1. /\ Head(stdin) \in Inputs
            /\ \A k \in DOMAIN stdin' : k + 1 \in DOMAIN stdin /\ stdin'[k] = stdin[k + 1]
        BY <1>t, <3>1, TailFacts
      <4>2. running \in Prompts /\ Pending(running) /\ [kind |-> "completed", turn |-> running] \in Lines
        BY <3>3, <4>1 DEF Inputs, Ahead, Pending, Lines
      <4>3. \A k \in DOMAIN stdout' :
              \/ k \in DOMAIN stdout /\ stdout'[k] = stdout[k]
              \/ k = Len(stdout) + 1 /\ k \notin DOMAIN stdout /\ stdout'[k].kind = "completed"
        BY <1>t, <3>3, <4>2, AppendFacts
      <4>4. \A d \in Prompts : Prompted(d)' => Prompted(d)
        BY <4>1 DEF Prompted
      <4>5. \A d \in Prompts : ~Prompted(d) /\ ~Queued(d)
        BY <1>i, <4>2 DEF CodexOnePlace, CodexOneTurn, About, Ahead, Pending
      <4>6. \A d \in Prompts : ~Pending(d)'
        BY <3>1, <3>3, <4>4, <4>5, TurnAssumption DEF Ahead, Pending, Queued
      <4>7. QED
        BY <2>8, <3>1, <4>2, <4>3, <4>6
    <3>4. QED
      BY <3>1, <3>2, <3>3
  <2>11. CASE CodexStartsTurn
    <3>1. /\ waiting # <<>> /\ UNCHANGED <<reader, turnEnded>>
          /\ stdout' = Append(stdout, [kind |-> "started", turn |-> Head(waiting)])
      BY <2>11 DEF CodexStartsTurn, Prints
    <3>2. /\ Head(waiting) \in Prompts /\ 1 \in DOMAIN waiting /\ waiting[1] = Head(waiting)
      BY <1>t, <3>1, TailFacts
    <3>3. Pending(Head(waiting)) /\ [kind |-> "started", turn |-> Head(waiting)] \in Lines
      BY <3>2 DEF Ahead, Pending, Queued, Lines
    <3>4. \A k \in DOMAIN stdout' :
            \/ k \in DOMAIN stdout /\ stdout'[k] = stdout[k]
            \/ k \notin DOMAIN stdout /\ stdout'[k].kind = "started"
      BY <1>t, <3>1, <3>3, AppendFacts
    <3>5. QED
      BY <2>8, <3>1, <3>2, <3>3, <3>4
  <2>12. CASE CodexEndsTurn
    <3>2. /\ running # NoTurn /\ running' = NoTurn /\ UNCHANGED <<stdin, waiting, reader, turnEnded>>
          /\ Prints("completed", running)
      BY <2>12 DEF CodexEndsTurn
    <3>1. \A k \in DOMAIN stdout' :
            \/ k \in DOMAIN stdout /\ stdout'[k] = stdout[k]
            \/ k = Len(stdout) + 1 /\ k \notin DOMAIN stdout /\ stdout'[k].kind = "completed"
      BY <3>2, CodexLastLines
    <3>3. running \in Prompts /\ Pending(running)
      BY <1>t, <3>2 DEF Ahead, Pending
    <3>4. \A d \in Prompts : ~Prompted(d) /\ ~Queued(d)
      BY <1>i, <3>3 DEF CodexOnePlace, CodexOneTurn, About, Ahead, Pending
    <3>5. \A d \in Prompts : ~Pending(d)'
      BY <3>2, <3>4, TurnAssumption DEF Ahead, Pending, Prompted, Queued
    <3>6. QED
      BY <2>8, <3>1, <3>2, <3>3, <3>5
  <2>13. CASE CodexReportsError
    <3>1. running # NoTurn /\ UNCHANGED <<reader, turnEnded>> /\ Prints("error", running)
      BY <2>13 DEF CodexReportsError
    <3>2. running \in Prompts /\ Pending(running)
      BY <1>t, <3>1 DEF Pending
    <3>3. \A k \in DOMAIN stdout' :
            \/ k \in DOMAIN stdout /\ stdout'[k] = stdout[k]
            \/ k \notin DOMAIN stdout /\ stdout'[k].kind = "error"
      BY <3>1, CodexLastLines
    <3>4. QED
      BY <2>8, <3>1, <3>2, <3>3
  <2>14. QED
    BY <1>3, <2>2, <2>3, <2>4, <2>5, <2>6, <2>7, <2>9, <2>10, <2>11, <2>12, <2>13
    DEF CodexTurnsNext, ReaderStep, CodexStep, Reading
<1>4. QED
  BY <1>2, <1>3

\* An error is of a turn that was begun, and a line that tells of one is of it.
LEMMA CodexFailedStep ==
  ASSUME CodexShape, CodexInv, Patient, [CodexTurnsNext]_codexTurnsVars
  PROVE  CodexFailed'
<1>i. CodexFailed /\ CodexOneTurn /\ CodexOnePlace /\ failed \subseteq Prompts
  BY DEF CodexInv, CodexShape, CodexThreadsOK
<1>1. \/ failed' = failed
      \/ CodexReportsError /\ running \in Prompts /\ failed' = failed \cup {running}
  BY CodexKeepsFailed DEF CodexReportsError, CodexShape, CodexThreadsOK
<1>2. \A c \in failed' : pc'[c] \in {"sent", "claimed", "submitted"}
  <2>1. \A c \in failed' : c \in Prompts /\ pc[c] \in {"sent", "claimed", "submitted"}
    BY <1>i, <1>1 DEF CodexFailed, CodexOneTurn, About, Pending
  <2>2. CASE \A c \in Prompts : ~PromptStep(c)
    BY <2>1, <2>2, CodexCallsStay
  <2>3. ASSUME NEW c \in Prompts, PromptStep(c)
        PROVE  \A d \in Prompts : pc[d] \in {"sent", "claimed", "submitted"}
                                   => pc'[d] \in {"sent", "claimed", "submitted"}
    BY <2>3, CodexCallMoves
  <2>4. QED
    BY <2>1, <2>2, <2>3
<1>3. \A c \in Prompts : Ahead(c)' => c \notin failed'
  <2> SUFFICES ASSUME NEW c \in Prompts, Ahead(c)' PROVE c \notin failed'
    OBVIOUS
  <2>1. Ahead(c) \/ pc[c] = "reset"
    BY CodexMoves
  <2>2. c \notin failed
    BY <1>i, <2>1 DEF CodexFailed
  <2>3. CASE CodexReportsError
    <3>1. UNCHANGED <<stdin, waiting>>
      BY <2>3 DEF CodexReportsError
    <3>2. Ahead(c)
      BY <3>1 DEF Ahead, Prompted, Queued
    <3>3. running # c
      BY <1>i, <3>2 DEF CodexOnePlace, Ahead
    <3>4. QED
      BY <1>1, <2>2, <3>3
  <2>4. QED
    BY <1>1, <2>2, <2>3
<1>4. \A k \in DOMAIN stdout' : stdout'[k].kind = "error" => stdout'[k].turn \in failed'
  <2> SUFFICES ASSUME NEW k \in DOMAIN stdout', stdout'[k].kind = "error"
               PROVE  stdout'[k].turn \in failed'
    OBVIOUS
  <2>1. CASE \E l \in DOMAIN stdout : stdout'[k] = stdout[l]
    BY <1>i, <1>1, <2>1 DEF CodexFailed
  <2>2. CASE CodexReportsError /\ stdout'[k].turn = running
    BY <2>2 DEF CodexReportsError
  <2>3. QED
    BY <2>1, <2>2, CodexNews
<1>5. QED
  BY <1>2, <1>3, <1>4 DEF CodexFailed

\* The steps that give the flag back find no turn pending but one of which an
\* error was reported.
LEMMA CodexFlagFalls ==
  ASSUME CodexShape, CodexInv, [CodexTurnsNext]_codexTurnsVars
  PROVE  turnActive' \/ turnActive' = turnActive \/ \A d \in Prompts : Pending(d)' => d \in failed'
<1> USE DEF flagVars, entryVars, breakVars, readVars, codexVars
<1>1. ASSUME NEW c \in Prompts, PromptStep(c)
      PROVE  turnActive' \/ turnActive' = turnActive \/ \A d \in Prompts : Pending(d)' => d \in failed'
  <2>1. CASE FailDrop(c)
    <3>1. pc[c] = "failing" /\ PipesStay
      BY <2>1, CodexQuietSteps DEF FailDrop, Moved
    <3>2. \A d \in Prompts : ~Pending(d)
      BY <3>1 DEF CodexInv, CodexOneTurn, About, Serving
    <3>3. QED
      BY <3>1, <3>2 DEF PipesStay, Ahead, Pending, Prompted, Queued
  <2>2. CASE ~FailDrop(c)
    BY <1>1, <2>2 DEF PromptStep, Receive, Reset, Send, Claim, Raise, FailClear
  <2>3. QED
    BY <2>1, <2>2
<1>2. CASE DropFlag
  <2>1. reader = "drop" /\ PipesStay
    BY <1>2, CodexQuietSteps DEF DropFlag
  <2>2. QED
    BY <2>1 DEF CodexInv, CodexLastWords, PipesStay, Ahead, Pending, Prompted, Queued
<1>3. CASE Close
  <2>1. stopping = "killed" /\ PipesStay
    BY <1>3, CodexQuietSteps DEF Close
  <2>2. QED
    BY <2>1 DEF CodexInv, CodexFlag, PipesStay, Ahead, Pending, Prompted, Queued
<1>4. CASE Reading
  BY <1>4, CodexReads
<1>5. CASE RaiseStarted \/ EndTurn \/ ClearFlag \/ ReaderEnds \/ StopProcess \/ CodexExits
  BY <1>5 DEF RaiseStarted, EndTurn, ClearFlag, ReaderEnds, StopProcess, CodexExits
<1>6. ASSUME NEW b \in Breaks, BreakStep(b) PROVE turnActive' = turnActive
  BY <1>6 DEF BreakStep, StartBreak, WriteInterrupt, EndBreak
<1>7. CASE CodexStep \/ UNCHANGED codexTurnsVars
  BY <1>7 DEF CodexStep, CodexTakesPrompt, CodexTakesInterrupt, CodexStartsTurn, CodexReportsError, CodexEndsTurn,
    codexTurnsVars
<1>8. QED
  BY <1>1, <1>2, <1>3, <1>4, <1>5, <1>6, <1>7 DEF CodexTurnsNext, ReaderStep, Reading

\* The request that holds the flag is that of a call on its way to its answer.
LEMMA CodexRequest ==
  ASSUME CodexShape, CodexFlag, [CodexTurnsNext]_codexTurnsVars
  PROVE  turnRequestId' \in {turnRequestId, NoTurn}
           \/ \E c \in Prompts : Claim(c) /\ turnRequestId' = c
<1> USE DEF flagVars, entryVars, breakVars, readVars, codexVars
<1>1. ASSUME NEW c \in Prompts, PromptStep(c)
      PROVE  turnRequestId' \in {turnRequestId, NoTurn} \/ (Claim(c) /\ turnRequestId' = c)
  BY <1>1 DEF PromptStep, Receive, Reset, Send, Claim, Raise, FailDrop, FailClear
<1>2. CASE ReaderStep
  BY <1>2 DEF ReaderStep, Read, ReadAccepted, ReadRefused, ReadStarted, RaiseStarted, ReadError,
    ReadCompleted, EndTurn, DropFlag, ClearFlag, ReaderEnds
<1>3. ASSUME NEW b \in Breaks, BreakStep(b) PROVE turnRequestId' = turnRequestId
  BY <1>3 DEF BreakStep, StartBreak, WriteInterrupt, EndBreak
<1>4. CASE StopProcess \/ Close \/ CodexExits \/ CodexStep \/ UNCHANGED codexTurnsVars
  BY <1>4 DEF StopProcess, Close, CodexExits, CodexStep, CodexTakesPrompt, CodexTakesInterrupt,
    CodexStartsTurn, CodexReportsError, CodexEndsTurn, codexTurnsVars
<1>5. QED
  BY <1>1, <1>2, <1>3, <1>4 DEF CodexTurnsNext

\* Calls go forward.
LEMMA CodexForward ==
  ASSUME CodexShape, Patient, [CodexTurnsNext]_codexTurnsVars
  PROVE  \A c \in Prompts :
           /\ pc[c] \in {"claimed", "submitted"} => pc'[c] \in {"claimed", "submitted"}
           /\ pc'[c] = "submitted" => pc[c] = "submitted" \/ turnActive'
           /\ pc[c] = "reset" /\ pc'[c] = "sent" => Send(c) /\ Writable
<1>1. CASE \A c \in Prompts : ~PromptStep(c)
  BY <1>1, CodexCallsStay
<1>2. ASSUME NEW c \in Prompts, PromptStep(c)
      PROVE  \A d \in Prompts :
               /\ pc[d] \in {"claimed", "submitted"} => pc'[d] \in {"claimed", "submitted"}
               /\ pc'[d] = "submitted" => pc[d] = "submitted" \/ turnActive'
               /\ pc[d] = "reset" /\ pc'[d] = "sent" => Send(d) /\ Writable
  <2>1. pc[c] = "reset" => Send(c)
    BY <1>2 DEF PromptStep, Receive, Reset, Claim, Raise, FailDrop, FailClear, Moved
  <2>2. QED
    BY <1>2, <2>1, CodexCallMoves
<1>3. QED
  BY <1>1, <1>2

\* A submitted turn that is pending holds the flag.
LEMMA CodexFlagStep ==
  ASSUME CodexShape, CodexInv, Patient, [CodexTurnsNext]_codexTurnsVars
  PROVE  CodexFlag'
<1> USE DEF flagVars, entryVars, breakVars, readVars, codexVars
<1>i. CodexFlag /\ CodexOneTurn
  BY DEF CodexInv
<1>m. \A d \in Prompts : Pending(d)' => Pending(d) \/ (pc[d] = "reset" /\ pc'[d] = "sent")
  BY CodexMoves
<1>1. (~alive => \A c \in Prompts : ~Pending(c))' /\ (stopping # "open" => ~alive)'
  <2>1. CASE StopProcess \/ CodexExits
    <3>1. stdin' = <<>> /\ waiting' = <<>> /\ running' = NoTurn /\ ~alive'
      BY <2>1 DEF StopProcess, CodexExits, Gone
    <3>2. QED
      BY <3>1, EmptyPipe, TurnAssumption DEF Ahead, Pending, Prompted, Queued
  <2>2. CASE ~(StopProcess \/ CodexExits)
    <3>1. alive' = alive /\ (stopping' = stopping \/ stopping = "killed")
      <4>1. ASSUME NEW c \in Prompts, PromptStep(c) PROVE UNCHANGED <<alive, stopping>>
        BY <4>1 DEF PromptStep, Receive, Reset, Send, Claim, Raise, FailDrop, FailClear
      <4>2. CASE ReaderStep
        BY <4>2 DEF ReaderStep, Read, ReadAccepted, ReadRefused, ReadStarted, RaiseStarted, ReadError,
          ReadCompleted, EndTurn, DropFlag, ClearFlag, ReaderEnds
      <4>3. ASSUME NEW b \in Breaks, BreakStep(b) PROVE UNCHANGED <<alive, stopping>>
        BY <4>3 DEF BreakStep, StartBreak, WriteInterrupt, EndBreak
      <4>4. CASE Close \/ CodexStep \/ UNCHANGED codexTurnsVars
        BY <4>4 DEF Close, CodexStep, CodexTakesPrompt, CodexTakesInterrupt,
          CodexStartsTurn, CodexReportsError, CodexEndsTurn, codexTurnsVars
      <4>5. QED
        BY <2>2, <4>1, <4>2, <4>3, <4>4 DEF CodexTurnsNext
    <3>2. ~alive => \A d \in Prompts : ~Pending(d)'
      BY <1>i, <1>m, CodexForward DEF CodexFlag, Writable
    <3>3. QED
      BY <1>i, <3>1, <3>2 DEF CodexFlag
  <2>3. QED
    BY <2>1, <2>2
<1>2. \A c \in Prompts : Pending(c)' /\ pc'[c] = "submitted" /\ c \notin failed' => turnActive'
  <2> SUFFICES ASSUME NEW c \in Prompts, Pending(c)', pc'[c] = "submitted", c \notin failed', ~turnActive'
               PROVE  FALSE
    OBVIOUS
  <2>1. pc[c] = "submitted" /\ Pending(c)
    BY <1>m, CodexForward
  <2>2. turnActive' = turnActive
    BY CodexFlagFalls
  <2>3. c \notin failed
    BY CodexKeepsFailed
  <2>4. QED
    BY <1>i, <2>1, <2>2, <2>3 DEF CodexFlag
<1>3. \A c \in Prompts : turnRequestId' = c => pc'[c] \in {"claimed", "submitted"}
  <2>1. ASSUME NEW c \in Prompts, Claim(c) PROVE pc'[c] = "claimed"
    BY <2>1 DEF Claim, Moved, CodexShape, CodexThreadsOK
  <2>2. QED
    BY <1>i, <2>1, CodexForward, CodexRequest, TurnAssumption DEF CodexFlag
<1>4. QED
  BY <1>1, <1>2, <1>3 DEF CodexFlag

\* An interrupt that saw a turn hold the flag sees the flag fall after the turn.
LEMMA CodexBreaksStep ==
  ASSUME CodexShape, CodexInv, Patient, [CodexTurnsNext]_codexTurnsVars
  PROVE  CodexBreaks'
<1> USE DEF flagVars, entryVars, breakVars, readVars, codexVars
<1>i. CodexFlag /\ CodexBreaks
  BY DEF CodexInv
<1>t. /\ seen \in [Breaks -> Prompts \cup {NoTurn}]
      /\ bpc \in [Breaks -> {"new", "exited", "idle", "stopping", "not_interruptible",
                             "waiting", "error", "timeout", "interrupted"}]
  BY DEF CodexShape, CodexThreadsOK
<1>m. \A d \in Prompts : pc[d] \in {"claimed", "submitted"} /\ Pending(d)' => Pending(d)
  BY CodexMoves
<1>1. ASSUME NEW b \in Breaks, bpc'[b] = bpc[b], seen'[b] = seen[b], NEW c \in Prompts, seen'[b] = c
      PROVE  /\ pc'[c] \in {"claimed", "submitted"}
             /\ bpc'[b] \in {"stopping", "waiting"} /\ Pending(c)' /\ c \notin failed' => turnActive'
             /\ bpc'[b] = "interrupted" /\ Pending(c)' => c \in failed'
  <2>1. /\ pc[c] \in {"claimed", "submitted"}
        /\ bpc[b] \in {"stopping", "waiting"} /\ Pending(c) /\ c \notin failed => turnActive
        /\ bpc[b] = "interrupted" /\ Pending(c) => c \in failed
    BY <1>i, <1>1 DEF CodexBreaks
  <2>2. QED
    BY <1>1, <1>m, <2>1, CodexForward, CodexFlagFalls, CodexKeepsFailed
<1>2. CASE \A b \in Breaks : ~BreakStep(b)
  <2>1. UNCHANGED <<bpc, seen>>
    <3>1. ASSUME NEW c \in Prompts, PromptStep(c) PROVE UNCHANGED <<bpc, seen>>
      BY <3>1 DEF PromptStep, Receive, Reset, Send, Claim, Raise, FailDrop, FailClear
    <3>2. CASE ReaderStep
      BY <3>2 DEF ReaderStep, Read, ReadAccepted, ReadRefused, ReadStarted, RaiseStarted, ReadError,
        ReadCompleted, EndTurn, DropFlag, ClearFlag, ReaderEnds
    <3>3. CASE StopProcess \/ Close \/ CodexStep \/ CodexExits \/ UNCHANGED codexTurnsVars
      BY <3>3 DEF StopProcess, Close, CodexStep, CodexExits, CodexTakesPrompt, CodexTakesInterrupt,
        CodexStartsTurn, CodexReportsError, CodexEndsTurn, codexTurnsVars
    <3>4. QED
      BY <1>2, <3>1, <3>2, <3>3 DEF CodexTurnsNext
  <2>2. QED
    BY <1>1, <2>1 DEF CodexBreaks
<1>3. ASSUME NEW b \in Breaks, BreakStep(b) PROVE CodexBreaks'
  <2>1. pc' = pc /\ UNCHANGED <<turnActive, alive, failed>>
    BY <1>3 DEF BreakStep, StartBreak, WriteInterrupt, EndBreak
  <2>2. \A a \in Breaks \ {b} : bpc'[a] = bpc[a] /\ seen'[a] = seen[a]
    BY <1>t, <1>3 DEF BreakStep, StartBreak, WriteInterrupt, EndBreak
  <2>3. \A d \in Prompts : Pending(d)' => Pending(d)
    BY <2>1, CodexMoves
  <2>4. SUFFICES ASSUME NEW c \in Prompts, seen'[b] = c
                 PROVE  /\ pc[c] \in {"claimed", "submitted"}
                        /\ bpc'[b] \in {"stopping", "waiting"} /\ Pending(c) /\ c \notin failed => turnActive
                        /\ bpc'[b] = "interrupted" /\ Pending(c) => c \in failed
    BY <1>1, <2>1, <2>2, <2>3 DEF CodexBreaks
  <2>5. CASE StartBreak(b)
    <3>1. seen'[b] = turnRequestId /\ bpc'[b] \in {"exited", "stopping", "idle"}
          /\ (bpc'[b] = "stopping" => turnActive)
      BY <1>t, <2>5 DEF StartBreak
    <3>2. QED
      BY <1>i, <2>4, <3>1 DEF CodexFlag
  <2>6. CASE WriteInterrupt(b)
    <3>1. seen'[b] = seen[b] /\ bpc[b] = "stopping" /\ bpc'[b] # "interrupted"
      BY <1>t, <2>6 DEF WriteInterrupt
    <3>2. QED
      BY <1>i, <2>4, <3>1 DEF CodexBreaks
  <2>7. CASE EndBreak(b)
    <3>1. /\ seen'[b] = seen[b] /\ bpc[b] = "waiting"
          /\ bpc'[b] \notin {"stopping", "waiting"}
          /\ bpc'[b] = "interrupted" => ~turnActive
      BY <1>t, <2>7 DEF EndBreak
    <3>2. QED
      BY <1>i, <2>4, <3>1 DEF CodexBreaks
  <2>8. QED
    BY <1>3, <2>5, <2>6, <2>7 DEF BreakStep
<1>4. QED
  BY <1>2, <1>3

\* The inductive invariant of the turns of Codex.
LEMMA CodexTurnsCorrect ==
  ASSUME Patient
  PROVE  CodexTurnsSpec => [](CodexShape /\ CodexInv)
<1>1. CodexTurnsInit => CodexShape /\ CodexInv
  <2> SUFFICES ASSUME CodexTurnsInit PROVE CodexShape /\ CodexInv
    OBVIOUS
  <2>1. CodexPipesOK
    BY EmptyPipe DEF CodexTurnsInit, CodexPipesOK
  <2>2. CodexThreadsOK
    BY DEF CodexTurnsInit, CodexThreadsOK, Handling
  <2>3. \A c \in Prompts : ~About(c) /\ ~Pending(c) /\ ~Ahead(c)
    <3>1. /\ DOMAIN stdin = {} /\ DOMAIN stdout = {} /\ DOMAIN waiting = {}
          /\ running = NoTurn /\ reader = "idle"
      BY EmptyPipe DEF CodexTurnsInit
    <3>2. \A c \in Prompts : ~Ahead(c) /\ ~Printed(c)
      BY <3>1 DEF Ahead, Prompted, Queued, Printed
    <3>3. ~Handling /\ \A c \in Prompts : running # c
      BY TurnAssumption DEF CodexTurnsInit, Handling
    <3>4. QED
      BY <3>2, <3>3, Zenon DEF About, Pending
  <2>4. CodexOnePlace
    BY EmptyPipe, <2>3 DEF CodexTurnsInit, CodexOnePlace, Ahead, Pending
  <2>5. CodexLastWords
    BY EmptyPipe, <2>3 DEF CodexTurnsInit, CodexLastWords
  <2>8. CodexFailed
    BY EmptyPipe DEF CodexTurnsInit, CodexFailed
  <2>6. CodexOneTurn /\ CodexFlag /\ CodexBreaks
    BY <2>3, TurnAssumption DEF CodexTurnsInit, CodexOneTurn, CodexFlag, CodexBreaks, Serving
  <2>7. QED
    BY <2>1, <2>2, <2>4, <2>5, <2>6, <2>8 DEF CodexShape, CodexInv
<1>2. CodexShape /\ CodexInv /\ [CodexTurnsNext]_codexTurnsVars => (CodexShape /\ CodexInv)'
  <2> SUFFICES ASSUME CodexShape, CodexInv, [CodexTurnsNext]_codexTurnsVars
               PROVE  (CodexShape /\ CodexInv)'
    OBVIOUS
  <2>1. CodexShape'
    BY CodexPipesStep, CodexThreadsStep DEF CodexShape
  <2>2. CodexInv'
    BY CodexOneTurnStep, CodexOnePlaceStep, CodexLastWordsStep, CodexFailedStep, CodexFlagStep,
      CodexBreaksStep DEF CodexInv
  <2>3. QED
    BY <2>1, <2>2
<1>3. QED
  BY <1>1, <1>2, PTL DEF CodexTurnsSpec

\* Every end of a turn is reported, when the client prompts only once the last
\* turn is over and read (pushCodexTurnEnd, codexPrompt).
THEOREM EndsReported ==
  ASSUME Patient
  PROVE  CodexTurnsSpec => EveryEndIsReported
<1>1. CodexShape /\ CodexInv /\ ReadCompleted => ~turnEnded
  <2> SUFFICES ASSUME CodexShape, CodexInv, ReadCompleted PROVE ~turnEnded
    OBVIOUS
  <2>1. stdout # <<>> /\ Head(stdout).kind = "completed"
    BY DEF ReadCompleted, Read
  <2>2. 1 \in DOMAIN stdout /\ stdout[1] = Head(stdout)
    BY <2>1, TailFacts DEF CodexShape, CodexPipesOK
  <2>3. QED
    BY <2>1, <2>2 DEF CodexInv, CodexLastWords
<1>2. CodexShape /\ CodexInv /\ [CodexTurnsNext]_codexTurnsVars => (ReadCompleted => ~turnEnded)
  BY <1>1
<1>3. QED
  BY <1>2, CodexTurnsCorrect, PTL DEF CodexTurnsSpec, EveryEndIsReported

\* What the invariant says of the flag and of interrupts.
LEMMA CodexPromises ==
  CodexShape /\ CodexInv => CodexTypeOK /\ RunningTurnHoldsFlag /\ InterruptEndsTurn
<1> SUFFICES ASSUME CodexShape, CodexInv
             PROVE  CodexTypeOK /\ RunningTurnHoldsFlag /\ InterruptEndsTurn
  OBVIOUS
<1>1. RunningTurnHoldsFlag
  BY DEF RunningTurnHoldsFlag, CodexInv, CodexFlag, Pending
<1>2. InterruptEndsTurn
  BY DEF InterruptEndsTurn, CodexInv, CodexBreaks, Ahead, Pending, Prompted, Queued
<1>3. QED
  BY <1>1, <1>2, CodexTypes

-----------------------------------------------------------------------------
(* The same for Claude Code. *)

ClaudePipesOK ==
  /\ fed \in Seq(Messages \cup {NoMessage})
  /\ said \in Seq({"init", "bareInit", "failure", "result"})

ClaudeThreadsOK ==
  /\ claudeActive \in BOOLEAN /\ lives \in BOOLEAN
  /\ claudeRequest \in Messages \cup {NoMessage} /\ answering \in Messages \cup {NoMessage}
  /\ claudeStatus \in {"running", "completed", "error", "exited", "closed"}
  /\ at \in [Messages -> {"new", "not_running", "submitted", "error"} \cup InService]
  /\ haltAt \in [Halts -> {"new", "exited", "idle", "stopping", "waiting", "error",
                           "timeout", "interrupted"}]
  /\ haltSaw \in [Halts -> Messages \cup {NoMessage}]
  /\ ear \in {"idle", "drop", "clear", "dropAndStop", "clearAndStop", "stop", "close", "ended"}
  /\ shutting \in {"open", "killed", "killedByOther", "closed"}

ClaudeShape == ClaudePipesOK /\ ClaudeThreadsOK

\* The shape the proofs use is the type invariant.
LEMMA ClaudeTypes == ClaudeShape => ClaudeTypeOK
BY DEF ClaudeShape, ClaudeTypeOK, ClaudePipesOK, ClaudeThreadsOK

MessageStep(m) == \/ TakeMessage(m) \/ ResetTurn(m) \/ WriteMessage(m)
                  \/ ClaimFlag(m) \/ RaiseFlag(m) \/ DropFailed(m) \/ ClearFailed(m)
HaltStep(h) == StartHalt(h) \/ WriteHalt(h) \/ EndHalt(h)
Hearing == HearInit \/ HearBareInit \/ HearFailure \/ HearResult

\* The actions of Claude, those that hear a line together.
LEMMA ClaudeSteps ==
  ASSUME [ClaudeNext]_claudeVars
  PROVE  \/ \E m \in Messages : MessageStep(m)
         \/ Hearing \/ DropTurn \/ ClearDropped \/ StopItself \/ CloseItself \/ HearEnd
         \/ \E h \in Halts : HaltStep(h)
         \/ StopByOther \/ CloseByOther
         \/ ClaudeTakesMessage \/ ClaudeTakesHalt \/ ClaudeAnswers \/ ClaudeExits
         \/ UNCHANGED claudeVars
BY DEF ClaudeNext, Hear, Hearing, MessageStep, HaltStep

\* What a line heard leaves.
LEMMA ClaudeHears ==
  ASSUME ClaudeShape, Hearing
  PROVE  /\ ear = "idle" /\ said # <<>> /\ said' = Tail(said)
         /\ Head(said) \in {"init", "bareInit", "failure", "result"}
         /\ UNCHANGED <<claudeActive, claudeRequest, at, haltAt, haltSaw, lives, fed, answering, shutting>>
         /\ claudeStatus' \in {claudeStatus, "error", "completed"}
         /\ \/ Head(said) = "init" /\ ear' = ear
            \/ Head(said) = "bareInit" /\ ear' = "dropAndStop"
            \/ Head(said) \in {"failure", "result"} /\ ear' = "drop"
<1> USE DEF Hears, claudeFlag, claudeHalts
<1>1. CASE HearInit
  BY <1>1 DEF HearInit
<1>2. CASE HearBareInit
  BY <1>2 DEF HearBareInit
<1>3. CASE HearFailure
  BY <1>3 DEF HearFailure
<1>4. CASE HearResult
  BY <1>4 DEF HearResult
<1>5. QED
  BY <1>1, <1>2, <1>3, <1>4 DEF Hearing

\* The pipes carry messages, interrupts and the lines of turns.
LEMMA ClaudePipesStep ==
  ASSUME ClaudeShape, [ClaudeNext]_claudeVars
  PROVE  ClaudePipesOK'
<1> USE DEF ClaudePipesOK, claudeFlag, claudeHalts, claudeProc
<1>p. ClaudePipesOK /\ answering \in Messages \cup {NoMessage}
  BY DEF ClaudeShape, ClaudeThreadsOK
<1>1. ASSUME NEW m \in Messages, MessageStep(m) PROVE ClaudePipesOK'
  <2>1. said' = said /\ (fed' = fed \/ fed' = Append(fed, m))
    BY <1>1 DEF MessageStep, TakeMessage, ResetTurn, WriteMessage, ClaimFlag, RaiseFlag,
      DropFailed, ClearFailed
  <2>2. Append(fed, m) \in Seq(Messages \cup {NoMessage})
    BY <1>p, AppendFacts
  <2>3. QED
    BY <1>p, <2>1, <2>2
<1>2. CASE Hearing
  BY <1>p, <1>2, ClaudeHears, TailFacts
<1>3. CASE DropTurn \/ ClearDropped \/ CloseItself \/ HearEnd \/ CloseByOther \/ UNCHANGED claudeVars
  BY <1>p, <1>3 DEF DropTurn, ClearDropped, CloseItself, HearEnd, CloseByOther, claudeVars
<1>4. CASE StopItself \/ StopByOther \/ ClaudeExits
  <2>1. fed' = <<>> /\ said' = said
    BY <1>4 DEF StopItself, StopByOther, ClaudeExits, Dies
  <2>2. QED
    BY <1>p, <2>1, EmptyPipe
<1>5. ASSUME NEW h \in Halts, HaltStep(h) PROVE ClaudePipesOK'
  <2>1. said' = said /\ (fed' = fed \/ fed' = Append(fed, NoMessage))
    BY <1>5 DEF HaltStep, StartHalt, WriteHalt, EndHalt
  <2>2. Append(fed, NoMessage) \in Seq(Messages \cup {NoMessage})
    BY <1>p, AppendFacts
  <2>3. QED
    BY <1>p, <2>1, <2>2
<1>6. CASE ClaudeTakesMessage \/ ClaudeTakesHalt \/ ClaudeAnswers
  <2>1. fed' = fed \/ (fed # <<>> /\ fed' = Tail(fed))
    BY <1>6 DEF ClaudeTakesMessage, ClaudeTakesHalt, ClaudeAnswers
  <2>2. said' = said \/ \E s \in {"init", "bareInit", "failure", "result"} : said' = Append(said, s)
    BY <1>6 DEF ClaudeTakesMessage, ClaudeTakesHalt, ClaudeAnswers
  <2>3. \A s \in {"init", "bareInit", "failure", "result"} :
          Append(said, s) \in Seq({"init", "bareInit", "failure", "result"})
    BY <1>p, AppendFacts
  <2>4. fed # <<>> => Tail(fed) \in Seq(Messages \cup {NoMessage})
    BY <1>p, TailFacts
  <2>5. QED
    BY <1>p, <2>1, <2>2, <2>3, <2>4
<1>7. QED
  BY <1>1, <1>2, <1>3, <1>4, <1>5, <1>6, ClaudeSteps

\* Where the threads and the process are.
LEMMA ClaudeThreadsStep ==
  ASSUME ClaudeShape, [ClaudeNext]_claudeVars
  PROVE  ClaudeThreadsOK'
<1> USE DEF ClaudeThreadsOK, claudeFlag, claudeHalts, claudeProc
<1>p. ClaudePipesOK /\ ClaudeThreadsOK
  BY DEF ClaudeShape
<1>1. ASSUME NEW m \in Messages, MessageStep(m) PROVE ClaudeThreadsOK'
  <2> USE DEF Steps, InService
  <2>1. CASE TakeMessage(m) \/ ResetTurn(m) \/ WriteMessage(m)
    BY <1>p, <2>1 DEF TakeMessage, ResetTurn, WriteMessage
  <2>2. CASE ClaimFlag(m)
    BY <1>p, <2>2 DEF ClaimFlag
  <2>3. CASE RaiseFlag(m)
    BY <1>p, <2>3 DEF RaiseFlag
  <2>4. CASE DropFailed(m)
    BY <1>p, <2>4 DEF DropFailed
  <2>5. CASE ClearFailed(m)
    BY <1>p, <2>5 DEF ClearFailed
  <2>6. QED
    BY <1>1, <2>1, <2>2, <2>3, <2>4, <2>5 DEF MessageStep
<1>2. CASE Hearing
  BY <1>p, <1>2, ClaudeHears
<1>3. CASE DropTurn \/ ClearDropped
  BY <1>p, <1>3 DEF DropTurn, ClearDropped
<1>4. CASE StopItself \/ CloseItself \/ HearEnd
  BY <1>p, <1>4 DEF StopItself, CloseItself, HearEnd, Dies
<1>5. ASSUME NEW h \in Halts, HaltStep(h) PROVE ClaudeThreadsOK'
  <2>1. CASE StartHalt(h)
    BY <1>p, <2>1 DEF StartHalt
  <2>2. CASE WriteHalt(h)
    BY <1>p, <2>2 DEF WriteHalt
  <2>3. CASE EndHalt(h)
    BY <1>p, <2>3 DEF EndHalt
  <2>4. QED
    BY <1>5, <2>1, <2>2, <2>3 DEF HaltStep
<1>6. CASE StopByOther \/ CloseByOther \/ ClaudeExits
  BY <1>p, <1>6 DEF StopByOther, CloseByOther, ClaudeExits, Dies
<1>7. CASE ClaudeTakesMessage
  <2>1. answering' \in Messages \cup {NoMessage}
    BY <1>p, <1>7, TailFacts DEF ClaudePipesOK, ClaudeTakesMessage
  <2>2. QED
    BY <1>p, <1>7, <2>1 DEF ClaudeTakesMessage
<1>8. CASE ClaudeTakesHalt \/ ClaudeAnswers
  BY <1>p, <1>8 DEF ClaudeTakesHalt, ClaudeAnswers
<1>9. CASE UNCHANGED claudeVars
  BY <1>p, <1>9 DEF claudeVars
<1>10. QED
  BY <1>1, <1>2, <1>3, <1>4, <1>5, <1>6, <1>7, <1>8, <1>9, ClaudeSteps

\* Where a call goes: forward, and alone when it arrives.
LEMMA ClaudeCallMoves ==
  ASSUME ClaudeShape, Patience, NEW m \in Messages, MessageStep(m)
  PROVE  /\ \A n \in Messages \ {m} : at'[n] = at[n]
         /\ \/ at[m] = "new" /\ AtRest /\ at'[m] \in {"accepted", "not_running"}
            \/ at[m] = "accepted" /\ at'[m] = "reset"
            \/ at[m] = "reset" /\ (at'[m] = "failing" \/ (at'[m] = "written" /\ CanWrite))
            \/ at[m] = "written" /\ at'[m] = "claimed"
            \/ at[m] = "claimed" /\ at'[m] = "submitted" /\ claudeActive'
            \/ at[m] = "failing" /\ at'[m] = "dropping"
            \/ at[m] = "dropping" /\ at'[m] = "error"
         /\ UNCHANGED <<said, ear, answering, lives, shutting, haltAt, haltSaw>>
         /\ fed' = fed \/ (at'[m] = "written" /\ at[m] = "reset" /\ fed' = Append(fed, m))
         /\ claudeActive' \/ claudeActive' = claudeActive \/ at[m] = "failing"
         /\ claudeRequest' \in {claudeRequest, NoMessage} \/ (claudeRequest' = m /\ at'[m] = "claimed")
<1> USE DEF claudeFlag, claudeHalts, claudeProc
<1>t. at \in [Messages -> {"new", "not_running", "submitted", "error"} \cup InService]
  BY DEF ClaudeShape, ClaudeThreadsOK
<1>1. ASSUME NEW from, NEW to, Steps(m, from, to)
      PROVE  at[m] = from /\ at'[m] = to /\ \A n \in Messages \ {m} : at'[n] = at[n]
  BY <1>t, <1>1 DEF Steps
<1>2. CASE TakeMessage(m)
  BY <1>1, <1>2 DEF TakeMessage
<1>3. CASE ResetTurn(m)
  BY <1>1, <1>3 DEF ResetTurn
<1>4. CASE WriteMessage(m)
  BY <1>1, <1>4 DEF WriteMessage
<1>5. CASE ClaimFlag(m)
  BY <1>1, <1>5 DEF ClaimFlag
<1>6. CASE RaiseFlag(m)
  BY <1>1, <1>6 DEF RaiseFlag
<1>7. CASE DropFailed(m)
  BY <1>1, <1>7 DEF DropFailed
<1>8. CASE ClearFailed(m)
  BY <1>1, <1>8 DEF ClearFailed
<1>9. QED
  BY <1>2, <1>3, <1>4, <1>5, <1>6, <1>7, <1>8 DEF MessageStep

\* Other threads leave the calls where they are, and open no turn.
LEMMA ClaudeOthers ==
  ASSUME ClaudeShape, [ClaudeNext]_claudeVars, \A m \in Messages : ~MessageStep(m)
  PROVE  /\ at' = at
         /\ \A m \in Messages : (Fed(m)' => Fed(m)) /\ (Open(m)' => Open(m))
         /\ claudeRequest' \in {claudeRequest, NoMessage}
<1> USE DEF claudeFlag, claudeHalts, claudeProc
<1>t. fed \in Seq(Messages \cup {NoMessage}) /\ answering \in Messages \cup {NoMessage}
  BY DEF ClaudeShape, ClaudePipesOK, ClaudeThreadsOK
<1> DEFINE Same == /\ at' = at
                   /\ \A m \in Messages : (Fed(m)' => Fed(m)) /\ (Open(m)' => Open(m))
                   /\ claudeRequest' \in {claudeRequest, NoMessage}
<1>1. ASSUME at' = at, UNCHANGED <<fed, answering>>, claudeRequest' \in {claudeRequest, NoMessage}
      PROVE  Same
  BY <1>1 DEF Fed, Open
<1>2. CASE Hearing
  BY <1>1, <1>2, ClaudeHears
<1>3. CASE DropTurn \/ ClearDropped \/ CloseItself \/ HearEnd \/ CloseByOther \/ UNCHANGED claudeVars
  BY <1>1, <1>3 DEF DropTurn, ClearDropped, CloseItself, HearEnd, CloseByOther, claudeVars
<1>4. CASE StopItself \/ StopByOther \/ ClaudeExits
  <2>1. fed' = <<>> /\ answering' = NoMessage /\ at' = at /\ claudeRequest' = claudeRequest
    BY <1>4 DEF StopItself, StopByOther, ClaudeExits, Dies
  <2>2. QED
    BY <2>1, EmptyPipe, ClaudeAssumption DEF Fed, Open
<1>5. ASSUME NEW h \in Halts, HaltStep(h) PROVE Same
  <2>1. /\ at' = at /\ UNCHANGED <<answering, claudeRequest>>
        /\ fed' = fed \/ fed' = Append(fed, NoMessage)
    BY <1>5 DEF HaltStep, StartHalt, WriteHalt, EndHalt
  <2>2. \A k \in DOMAIN fed' : \/ k \in DOMAIN fed /\ fed'[k] = fed[k]
 \/ fed'[k] = NoMessage
    <3>1. CASE fed' = fed
      BY <3>1
    <3>2. CASE fed' = Append(fed, NoMessage)
      BY <1>t, <3>2, AppendFacts
    <3>3. QED
      BY <2>1, <3>1, <3>2
  <2>3. \A m \in Messages : Fed(m)' => Fed(m)
    BY <2>2, ClaudeAssumption DEF Fed
  <2>4. QED
    BY <2>1, <2>3 DEF Open
<1>6. CASE ClaudeTakesMessage
  <2>1. /\ fed # <<>> /\ answering' = Head(fed) /\ fed' = Tail(fed)
        /\ at' = at /\ claudeRequest' = claudeRequest
    BY <1>6 DEF ClaudeTakesMessage
  <2>2. /\ 1 \in DOMAIN fed /\ fed[1] = Head(fed)
        /\ \A k \in DOMAIN fed' : k + 1 \in DOMAIN fed /\ fed'[k] = fed[k + 1]
    BY <1>t, <2>1, TailFacts
  <2>3. QED
    BY <2>1, <2>2 DEF Fed, Open
<1>7. CASE ClaudeTakesHalt \/ ClaudeAnswers
  <2>1. /\ fed' = fed \/ (fed # <<>> /\ fed' = Tail(fed))
        /\ answering' = NoMessage /\ at' = at /\ claudeRequest' = claudeRequest
    BY <1>7 DEF ClaudeTakesHalt, ClaudeAnswers
  <2>2. \A m \in Messages : Fed(m)' => Fed(m)
    <3>1. CASE fed' = fed
      BY <3>1 DEF Fed
    <3>2. CASE fed # <<>> /\ fed' = Tail(fed)
      <4>1. \A k \in DOMAIN fed' : k + 1 \in DOMAIN fed /\ fed'[k] = fed[k + 1]
        BY <1>t, <3>2, TailFacts
      <4>2. QED
        BY <4>1 DEF Fed
    <3>3. QED
      BY <2>1, <3>1, <3>2
  <2>3. QED
    BY <2>1, <2>2, ClaudeAssumption DEF Open
<1>8. QED
  BY <1>2, <1>3, <1>4, <1>5, <1>6, <1>7, ClaudeSteps

\* A message opens a turn when it is written.
LEMMA ClaudeOpens ==
  ASSUME ClaudeShape, Patience, NEW m \in Messages, MessageStep(m)
  PROVE  \A n \in Messages :
           /\ Fed(n)' => Fed(n) \/ (n = m /\ at[m] = "reset" /\ at'[m] = "written")
           /\ Open(n)' => Open(n) \/ (n = m /\ at[m] = "reset" /\ at'[m] = "written")
<1>t. fed \in Seq(Messages \cup {NoMessage})
  BY DEF ClaudeShape, ClaudePipesOK
<1>1. answering' = answering /\ (fed' = fed \/ (at'[m] = "written" /\ at[m] = "reset" /\ fed' = Append(fed, m)))
  BY ClaudeCallMoves
<1>2. CASE fed' = fed
  BY <1>1, <1>2 DEF Fed, Open
<1>3. CASE at'[m] = "written" /\ at[m] = "reset" /\ fed' = Append(fed, m)
  <2>1. \A k \in DOMAIN fed' : \/ k \in DOMAIN fed /\ fed'[k] = fed[k]
 \/ fed'[k] = m
    BY <1>t, <1>3, AppendFacts
  <2>2. \A n \in Messages : Fed(n)' => Fed(n) \/ n = m
    BY <2>1 DEF Fed
  <2>3. QED
    BY <1>1, <1>3, <2>2 DEF Open
<1>4. QED
  BY <1>1, <1>2, <1>3

\* A patient client sends a message when no turn is open.
LEMMA AtRestIsAlone ==
  ASSUME ClaudeInv, AtRest
  PROVE  \A n \in Messages : ~Open(n)
BY DEF ClaudeInv, ClaudeOneTurn, ClaudeHolds, AtRest, InService, BareStop

\* One turn at a time.
LEMMA ClaudeOneTurnStep ==
  ASSUME ClaudeShape, ClaudeInv, Patience, [ClaudeNext]_claudeVars
  PROVE  ClaudeOneTurn'
<1> USE DEF claudeFlag, claudeHalts, claudeProc
<1>i. ClaudeOneTurn
  BY DEF ClaudeInv
<1>t. fed \in Seq(Messages \cup {NoMessage}) /\ answering \in Messages \cup {NoMessage}
  BY DEF ClaudeShape, ClaudePipesOK, ClaudeThreadsOK
<1>1. ASSUME NEW m \in Messages, MessageStep(m) PROVE ClaudeOneTurn'
  <2>1. /\ \A n \in Messages \ {m} : at'[n] = at[n]
        /\ \/ at[m] = "new" /\ AtRest /\ at'[m] \in {"accepted", "not_running"}
           \/ at[m] = "accepted" /\ at'[m] = "reset"
           \/ at[m] = "reset" /\ at'[m] \in {"written", "failing"}
           \/ at[m] = "written" /\ at'[m] = "claimed"
           \/ at[m] = "claimed" /\ at'[m] = "submitted"
           \/ at[m] = "failing" /\ at'[m] = "dropping"
           \/ at[m] = "dropping" /\ at'[m] = "error"
        /\ answering' = answering
        /\ fed' = fed \/ (at'[m] = "written" /\ at[m] = "reset" /\ fed' = Append(fed, m))
    BY <1>1, ClaudeCallMoves
  <2>2. \A n \in Messages :
           /\ Fed(n)' => Fed(n) \/ (n = m /\ at[m] = "reset" /\ at'[m] = "written")
           /\ Open(n)' => Open(n) \/ (n = m /\ at[m] = "reset" /\ at'[m] = "written")
    BY <1>1, ClaudeOpens
  <2>3. /\ \A n \in Messages : Fed(n)' => answering' # n
        /\ \A k, l \in DOMAIN fed' : fed'[k] # NoMessage /\ fed'[l] # NoMessage => k = l
    <3>1. CASE fed' = fed
      BY <1>i, <2>1, <3>1 DEF ClaudeOneTurn, Fed
    <3>2. CASE at'[m] = "written" /\ at[m] = "reset" /\ fed' = Append(fed, m)
      <4>1. \A n \in Messages : ~Open(n)
        BY <1>i, <3>2 DEF ClaudeOneTurn, InService
      <4>2. \A k \in DOMAIN fed : fed[k] = NoMessage
        <5>1. \A k \in DOMAIN fed : fed[k] \in Messages \cup {NoMessage}
          BY <1>t
        <5>2. QED
          BY <4>1, <5>1 DEF Open, Fed
      <4>3. \A k \in DOMAIN fed' : \/ k \in DOMAIN fed /\ fed'[k] = fed[k]
                                   \/ k = Len(fed) + 1
        BY <1>t, <3>2, AppendFacts
      <4>4. QED
        BY <2>1, <4>1, <4>2, <4>3 DEF Open
    <3>3. QED
      BY <2>1, <3>1, <3>2
  <2>4. CASE at[m] = "new"
    <3>1. \A n \in Messages : ~Open(n)' /\ at[n] \notin InService
      BY <2>1, <2>2, <2>4, AtRestIsAlone DEF AtRest
    <3>2. QED
      BY <2>1, <2>3, <3>1 DEF ClaudeOneTurn
  <2>5. CASE at[m] # "new"
    <3>1. \A n \in Messages : at'[n] \in InService => at[n] \in InService
      BY <2>1, <2>5 DEF InService
    <3>2. at[m] \in InService
      BY <2>1, <2>5 DEF InService
    <3>3. \A n \in Messages : Open(n)' => Open(n) \/ n = m
      BY <2>2
    <3>4. \A n, o \in Messages : Open(n)' /\ Open(o)' => n = o
      BY <1>i, <3>2, <3>3 DEF ClaudeOneTurn
    <3>5. \A n, o \in Messages : at'[n] \in InService /\ Open(o)' => n = o
      BY <1>i, <3>1, <3>2, <3>3 DEF ClaudeOneTurn
    <3>6. \A n \in Messages : Open(n)' => at'[n] \in {"written", "claimed", "submitted"}
      BY <1>i, <2>1, <2>2 DEF ClaudeOneTurn
    <3>7. QED
      BY <1>i, <2>3, <3>1, <3>4, <3>5, <3>6 DEF ClaudeOneTurn
  <2>6. QED
    BY <2>4, <2>5
<1>2. CASE \A m \in Messages : ~MessageStep(m)
  <2>1. at' = at /\ \A m \in Messages : (Fed(m)' => Fed(m)) /\ (Open(m)' => Open(m))
    BY <1>2, ClaudeOthers
  <2>2. /\ \A m \in Messages : Fed(m)' => answering' # m
        /\ \A k, l \in DOMAIN fed' : fed'[k] # NoMessage /\ fed'[l] # NoMessage => k = l
    <3>1. ASSUME UNCHANGED fed, answering' \in {answering, NoMessage}
          PROVE  /\ \A m \in Messages : Fed(m)' => answering' # m
                 /\ \A k, l \in DOMAIN fed' : fed'[k] # NoMessage /\ fed'[l] # NoMessage => k = l
      BY <1>i, <3>1, ClaudeAssumption DEF ClaudeOneTurn, Fed
    <3>2. CASE Hearing
      BY <3>1, <3>2, ClaudeHears
    <3>3. CASE DropTurn \/ ClearDropped \/ CloseItself \/ HearEnd \/ CloseByOther \/ UNCHANGED claudeVars
      BY <3>1, <3>3 DEF DropTurn, ClearDropped, CloseItself, HearEnd, CloseByOther, claudeVars
    <3>4. CASE StopItself \/ StopByOther \/ ClaudeExits
      <4>1. fed' = <<>> /\ answering' = NoMessage
        BY <3>4 DEF StopItself, StopByOther, ClaudeExits, Dies
      <4>2. QED
        BY <4>1, EmptyPipe DEF Fed
    <3>5. ASSUME NEW h \in Halts, HaltStep(h)
          PROVE  /\ \A m \in Messages : Fed(m)' => answering' # m
                 /\ \A k, l \in DOMAIN fed' : fed'[k] # NoMessage /\ fed'[l] # NoMessage => k = l
      <4>1. answering' = answering /\ (fed' = fed \/ fed' = Append(fed, NoMessage))
        BY <3>5 DEF HaltStep, StartHalt, WriteHalt, EndHalt
      <4>2. CASE fed' = Append(fed, NoMessage)
        <5>1. \A k \in DOMAIN fed' : \/ k \in DOMAIN fed /\ fed'[k] = fed[k]
 \/ fed'[k] = NoMessage
          BY <1>t, <4>2, AppendFacts
        <5>2. QED
          BY <1>i, <2>1, <4>1, <5>1 DEF ClaudeOneTurn
      <4>3. QED
        BY <3>1, <4>1, <4>2
    <3>6. CASE ClaudeTakesMessage
      <4>1. fed # <<>> /\ Head(fed) # NoMessage /\ answering' = Head(fed) /\ fed' = Tail(fed)
        BY <3>6 DEF ClaudeTakesMessage
      <4>2. /\ 1 \in DOMAIN fed /\ fed[1] = Head(fed)
            /\ \A k \in DOMAIN fed' : k + 1 \in DOMAIN fed /\ k + 1 # 1 /\ fed'[k] = fed[k + 1]
        BY <1>t, <4>1, TailFacts
      <4>3. \A k \in DOMAIN fed' : fed'[k] = NoMessage
        BY <1>i, <4>1, <4>2 DEF ClaudeOneTurn
      <4>4. QED
        BY <4>3, ClaudeAssumption DEF Fed
    <3>7. CASE ClaudeTakesHalt
      <4>1. fed # <<>> /\ answering' = NoMessage /\ fed' = Tail(fed)
        BY <3>7 DEF ClaudeTakesHalt
      <4>2. \A k \in DOMAIN fed' : k \in Nat /\ k + 1 \in DOMAIN fed /\ fed'[k] = fed[k + 1]
        BY <1>t, <4>1, TailFacts
      <4>3. \A k, l \in DOMAIN fed' : fed'[k] # NoMessage /\ fed'[l] # NoMessage => k + 1 = l + 1
        BY <1>i, <4>2 DEF ClaudeOneTurn
      <4>4. \A k, l \in DOMAIN fed' : fed'[k] # NoMessage /\ fed'[l] # NoMessage => k = l
        BY <4>2, <4>3
      <4>5. QED
        BY <4>1, <4>4, ClaudeAssumption
    <3>8. CASE ClaudeAnswers
      BY <3>1, <3>8 DEF ClaudeAnswers
    <3>9. QED
      BY <1>2, <3>2, <3>3, <3>4, <3>5, <3>6, <3>7, <3>8, ClaudeSteps
  <2>3. QED
    BY <1>i, <2>1, <2>2 DEF ClaudeOneTurn
<1>3. QED
  BY <1>1, <1>2

\* The lines of a turn come before its last one, and that one before a message.
LEMMA ClaudeLinesStep ==
  ASSUME ClaudeShape, ClaudeInv, Patience, [ClaudeNext]_claudeVars
  PROVE  ClaudeLines'
<1> USE DEF claudeFlag, claudeHalts, claudeProc
<1>i. ClaudeLines /\ ClaudeOneTurn
  BY DEF ClaudeInv
<1>t. /\ fed \in Seq(Messages \cup {NoMessage}) /\ answering \in Messages \cup {NoMessage}
      /\ said \in Seq({"init", "bareInit", "failure", "result"})
  BY DEF ClaudeShape, ClaudePipesOK, ClaudeThreadsOK
<1>1. ASSUME NEW m \in Messages, MessageStep(m) PROVE ClaudeLines'
  <2>1. UNCHANGED <<said, ear>>
    BY <1>1, ClaudeCallMoves
  <2>2. \A n \in Messages : Open(n)' => Open(n) \/ (n = m /\ at[m] = "reset")
    BY <1>1, ClaudeOpens
  <2>3. \A n \in Messages : Open(n)' => /\ \A k \in DOMAIN said' : said'[k] \in {"init", "bareInit"}
                                        /\ ear' \notin {"drop", "clear"}
    BY <1>i, <2>1, <2>2, EmptyPipe DEF ClaudeLines
  <2>4. \A n \in Messages : at'[n] \in {"accepted", "reset"} => at[n] \in {"accepted", "reset"} \/ AtRest
    BY <1>1, ClaudeCallMoves
  <2>5. \A n \in Messages : at'[n] \in {"accepted", "reset"} => said' = <<>> /\ ear' \in {"idle", "ended"}
    BY <1>i, <2>1, <2>4 DEF ClaudeLines, AtRest
  <2>6. QED
    BY <2>3, <2>5 DEF ClaudeLines
<1>2. CASE \A m \in Messages : ~MessageStep(m)
  <2>1. at' = at /\ \A m \in Messages : (Fed(m)' => Fed(m)) /\ (Open(m)' => Open(m))
    BY <1>2, ClaudeOthers
  <2>2. ASSUME UNCHANGED <<said, ear>> PROVE ClaudeLines'
    BY <1>i, <2>1, <2>2 DEF ClaudeLines
  <2>3. CASE Hearing
    <3>1. /\ said # <<>> /\ said' = Tail(said) /\ ear = "idle"
          /\ \/ Head(said) = "init" /\ ear' = ear
             \/ Head(said) = "bareInit" /\ ear' = "dropAndStop"
             \/ Head(said) \in {"failure", "result"} /\ ear' = "drop"
      BY <2>3, ClaudeHears
    <3>2. /\ 1 \in DOMAIN said /\ said[1] = Head(said)
          /\ \A k \in DOMAIN said' : k + 1 \in DOMAIN said /\ said'[k] = said[k + 1]
      BY <1>t, <3>1, TailFacts
    <3>3. QED
      BY <1>i, <2>1, <3>1, <3>2 DEF ClaudeLines
  <2>4. CASE DropTurn
    BY <1>i, <2>1, <2>4 DEF ClaudeLines, DropTurn
  <2>5. CASE ClearDropped
    BY <1>i, <2>1, <2>5 DEF ClaudeLines, ClearDropped
  <2>6. CASE StopItself
    BY <1>i, <2>1, <2>6 DEF ClaudeLines, StopItself, Dies
  <2>7. CASE CloseItself
    BY <1>i, <2>1, <2>7 DEF ClaudeLines, CloseItself
  <2>8. CASE HearEnd
    BY <1>i, <2>1, <2>8 DEF ClaudeLines, HearEnd
  <2>9. ASSUME NEW h \in Halts, HaltStep(h) PROVE ClaudeLines'
    BY <2>2, <2>9 DEF HaltStep, StartHalt, WriteHalt, EndHalt
  <2>10. CASE StopByOther \/ CloseByOther \/ ClaudeExits \/ UNCHANGED claudeVars
    BY <2>2, <2>10 DEF StopByOther, CloseByOther, ClaudeExits, Dies, claudeVars
  <2>11. ASSUME NEW m \in Messages, Open(m)
         PROVE  /\ \A n \in Messages : at[n] \notin {"accepted", "reset"}
                /\ \A k \in DOMAIN said : said[k] \in {"init", "bareInit"}
                /\ ear \notin {"drop", "clear"}
                /\ answering = m => \A n \in Messages : ~Fed(n)
    BY <1>i, <2>11 DEF ClaudeLines, ClaudeOneTurn, InService, Open
  <2>12. CASE ClaudeTakesMessage
    <3>1. /\ fed # <<>> /\ Head(fed) # NoMessage /\ ear' = ear
          /\ said' \in {Append(said, "init"), Append(said, "bareInit")}
      BY <2>12 DEF ClaudeTakesMessage
    <3>2. Head(fed) \in Messages /\ 1 \in DOMAIN fed /\ fed[1] = Head(fed)
      BY <1>t, <3>1, TailFacts
    <3>3. Open(Head(fed))
      BY <3>2 DEF Open, Fed
    <3>4. \A k \in DOMAIN said' : (k \in DOMAIN said /\ said'[k] = said[k]) \/ said'[k] \in {"init", "bareInit"}
      BY <1>t, <3>1, AppendFacts
    <3>5. QED
      BY <2>1, <2>11, <3>1, <3>2, <3>3, <3>4 DEF ClaudeLines
  <2>13. CASE ClaudeTakesHalt \/ ClaudeAnswers
    <3>1. CASE answering = NoMessage
      BY <2>2, <2>13, <3>1 DEF ClaudeTakesHalt, ClaudeAnswers
    <3>2. CASE answering # NoMessage
      <4>1. answering \in Messages /\ Open(answering) /\ answering' = NoMessage
        BY <1>t, <2>13, <3>2 DEF Open, ClaudeTakesHalt, ClaudeAnswers
      <4>2. \A n \in Messages : ~Open(n)'
        BY <2>1, <2>11, <4>1, ClaudeAssumption DEF Open
      <4>3. QED
        BY <2>1, <2>11, <4>1, <4>2 DEF ClaudeLines
    <3>3. QED
      BY <3>1, <3>2
  <2>14. QED
    BY <1>2, <2>3, <2>4, <2>5, <2>6, <2>7, <2>8, <2>9, <2>10, <2>12, <2>13, ClaudeSteps
<1>3. QED
  BY <1>1, <1>2

\* The flag falls when no turn is open, or on the way to a stop.
LEMMA ClaudeFlagFalls ==
  ASSUME ClaudeShape, ClaudeInv, Patience, [ClaudeNext]_claudeVars
  PROVE  \A n \in Messages : Open(n)' =>
           /\ claudeActive' \/ claudeActive' = claudeActive \/ ear' \in BareStop
           /\ ear \in BareStop => ear' \in BareStop
<1> USE DEF claudeFlag, claudeHalts, claudeProc
<1>i. ClaudeLines /\ ClaudeOneTurn /\ ClaudeHolds
  BY DEF ClaudeInv
<1>1. ASSUME NEW m \in Messages, MessageStep(m)
      PROVE  \A n \in Messages : Open(n)' =>
               /\ claudeActive' \/ claudeActive' = claudeActive \/ ear' \in BareStop
               /\ ear \in BareStop => ear' \in BareStop
  <2>1. ear' = ear /\ (claudeActive' \/ claudeActive' = claudeActive \/ at[m] = "failing")
    BY <1>1, ClaudeCallMoves
  <2>2. at[m] = "failing" => \A n \in Messages : ~Open(n)'
    BY <1>i, <1>1, ClaudeOpens DEF ClaudeOneTurn, InService
  <2>3. QED
    BY <2>1, <2>2
<1>2. CASE \A m \in Messages : ~MessageStep(m)
  <2>1. \A m \in Messages : Open(m)' => Open(m)
    BY <1>2, ClaudeOthers
  <2>2. SUFFICES ASSUME NEW n \in Messages, Open(n), Open(n)'
                 PROVE  /\ claudeActive' \/ claudeActive' = claudeActive \/ ear' \in BareStop
                        /\ ear \in BareStop => ear' \in BareStop
    BY <2>1
  <2>3. ear \notin {"drop", "clear"} /\ lives /\ ear # "close" /\ shutting = "open"
    BY <1>i, <2>2 DEF ClaudeLines, ClaudeHolds
  <2>4. CASE Hearing
    BY <2>4, ClaudeHears DEF BareStop
  <2>5. CASE DropTurn \/ ClearDropped
    BY <2>3, <2>5 DEF DropTurn, ClearDropped, BareStop
  <2>6. ~StopItself /\ ~StopByOther /\ ~ClaudeExits
    <3>1. StopItself \/ StopByOther \/ ClaudeExits => fed' = <<>> /\ answering' = NoMessage
      BY DEF StopItself, StopByOther, ClaudeExits, Dies
    <3>2. QED
      BY <2>2, <3>1, EmptyPipe, ClaudeAssumption DEF Open, Fed
  <2>7. ~CloseItself /\ ~CloseByOther /\ ~HearEnd
    BY <2>3 DEF CloseItself, CloseByOther, HearEnd
  <2>8. ASSUME NEW h \in Halts, HaltStep(h) PROVE UNCHANGED <<claudeActive, ear>>
    BY <2>8 DEF HaltStep, StartHalt, WriteHalt, EndHalt
  <2>9. CASE ClaudeTakesMessage \/ ClaudeTakesHalt \/ ClaudeAnswers \/ UNCHANGED claudeVars
    BY <2>9 DEF ClaudeTakesMessage, ClaudeTakesHalt, ClaudeAnswers, claudeVars
  <2>10. QED
    BY <1>2, <2>4, <2>5, <2>6, <2>7, <2>8, <2>9, ClaudeSteps
<1>3. QED
  BY <1>1, <1>2

\* Calls go forward.
LEMMA ClaudeForward ==
  ASSUME ClaudeShape, Patience, [ClaudeNext]_claudeVars
  PROVE  \A m \in Messages :
           /\ at[m] \in {"claimed", "submitted"} =>
                at'[m] \in {"claimed", "submitted"} /\ (Open(m)' => Open(m))
           /\ at'[m] = "submitted" => (at[m] = "submitted" \/ claudeActive') /\ (Open(m)' => Open(m))
           /\ claudeRequest' = m => claudeRequest = m \/ at'[m] = "claimed"
<1>1. CASE \A m \in Messages : ~MessageStep(m)
  BY <1>1, ClaudeOthers, ClaudeAssumption
<1>2. ASSUME NEW m \in Messages, MessageStep(m)
      PROVE  \A n \in Messages :
               /\ at[n] \in {"claimed", "submitted"} =>
                    at'[n] \in {"claimed", "submitted"} /\ (Open(n)' => Open(n))
               /\ at'[n] = "submitted" => (at[n] = "submitted" \/ claudeActive') /\ (Open(n)' => Open(n))
               /\ claudeRequest' = n => claudeRequest = n \/ at'[n] = "claimed"
  <2>1. \A n \in Messages : Open(n)' => Open(n) \/ (n = m /\ at[m] = "reset" /\ at'[m] = "written")
    BY <1>2, ClaudeOpens
  <2>2. QED
    BY <1>2, <2>1, ClaudeCallMoves, ClaudeAssumption
<1>3. QED
  BY <1>1, <1>2

\* A submitted turn that is open holds the flag, unless the process is to stop.
LEMMA ClaudeHoldsStep ==
  ASSUME ClaudeShape, ClaudeInv, Patience, [ClaudeNext]_claudeVars
  PROVE  ClaudeHolds'
<1> USE DEF claudeFlag, claudeHalts, claudeProc
<1>i. ClaudeHolds
  BY DEF ClaudeInv
<1>1. (~lives => \A m \in Messages : ~Open(m))' /\ (shutting # "open" \/ ear = "close" => ~lives)'
  <2>1. CASE StopItself \/ StopByOther \/ ClaudeExits
    <3>1. fed' = <<>> /\ answering' = NoMessage /\ ~lives'
      BY <2>1 DEF StopItself, StopByOther, ClaudeExits, Dies
    <3>2. QED
      BY <3>1, EmptyPipe, ClaudeAssumption DEF Open, Fed
  <2>2. ASSUME NEW m \in Messages, MessageStep(m)
        PROVE  (~lives => \A n \in Messages : ~Open(n))' /\ (shutting # "open" \/ ear = "close" => ~lives)'
    <3>1. UNCHANGED <<lives, shutting, ear>>
      BY <2>2, ClaudeCallMoves
    <3>2. ~lives => \A n \in Messages : Open(n)' => Open(n)
      BY <2>2, ClaudeOpens, ClaudeCallMoves DEF CanWrite
    <3>3. QED
      BY <1>i, <3>1, <3>2 DEF ClaudeHolds
  <2>3. CASE ~(StopItself \/ StopByOther \/ ClaudeExits) /\ \A m \in Messages : ~MessageStep(m)
    <3>1. /\ lives' = lives
          /\ shutting' = shutting \/ ear = "close" \/ shutting = "killedByOther"
          /\ ear' = "close" => ear = "close"
      <4>1. CASE Hearing
        BY <4>1, ClaudeHears
      <4>2. CASE DropTurn \/ ClearDropped \/ CloseItself \/ HearEnd \/ CloseByOther
        BY <4>2 DEF DropTurn, ClearDropped, CloseItself, HearEnd, CloseByOther
      <4>3. ASSUME NEW h \in Halts, HaltStep(h) PROVE UNCHANGED <<lives, shutting, ear>>
        BY <4>3 DEF HaltStep, StartHalt, WriteHalt, EndHalt
      <4>4. CASE ClaudeTakesMessage \/ ClaudeTakesHalt \/ ClaudeAnswers \/ UNCHANGED claudeVars
        BY <4>4 DEF ClaudeTakesMessage, ClaudeTakesHalt, ClaudeAnswers, claudeVars
      <4>5. QED
        BY <2>3, <4>1, <4>2, <4>3, <4>4, ClaudeSteps
    <3>2. \A m \in Messages : Open(m)' => Open(m)
      BY <2>3, ClaudeOthers
    <3>3. QED
      BY <1>i, <3>1, <3>2 DEF ClaudeHolds
  <2>4. QED
    BY <2>1, <2>2, <2>3
<1>2. \A m \in Messages : Open(m)' /\ at'[m] = "submitted" => claudeActive' \/ ear' \in BareStop
  BY <1>i, ClaudeForward, ClaudeFlagFalls DEF ClaudeHolds
<1>3. \A m \in Messages : claudeRequest' = m => at'[m] \in {"claimed", "submitted"}
  BY <1>i, ClaudeForward DEF ClaudeHolds
<1>4. QED
  BY <1>1, <1>2, <1>3 DEF ClaudeHolds

\* An interrupt that saw a turn hold the flag sees it fall after the turn.
LEMMA ClaudeHaltedStep ==
  ASSUME ClaudeShape, ClaudeInv, Patience, [ClaudeNext]_claudeVars
  PROVE  ClaudeHalted'
<1> USE DEF claudeFlag, claudeHalts, claudeProc
<1>i. ClaudeHolds /\ ClaudeHalted
  BY DEF ClaudeInv
<1>t. /\ haltSaw \in [Halts -> Messages \cup {NoMessage}]
      /\ haltAt \in [Halts -> {"new", "exited", "idle", "stopping", "waiting", "error",
                               "timeout", "interrupted"}]
  BY DEF ClaudeShape, ClaudeThreadsOK
<1>1. ASSUME NEW h \in Halts, haltAt'[h] = haltAt[h], haltSaw'[h] = haltSaw[h],
             NEW m \in Messages, haltSaw'[h] = m
      PROVE  /\ at'[m] \in {"claimed", "submitted"}
             /\ haltAt'[h] \in {"stopping", "waiting"} /\ Open(m)' => claudeActive' \/ ear' \in BareStop
             /\ haltAt'[h] = "interrupted" /\ Open(m)' => ear' \in BareStop
  <2>1. /\ at[m] \in {"claimed", "submitted"}
        /\ haltAt[h] \in {"stopping", "waiting"} /\ Open(m) => claudeActive \/ ear \in BareStop
        /\ haltAt[h] = "interrupted" /\ Open(m) => ear \in BareStop
    BY <1>i, <1>1 DEF ClaudeHalted
  <2>2. QED
    BY <1>1, <2>1, ClaudeForward, ClaudeFlagFalls
<1>2. CASE \A h \in Halts : ~HaltStep(h)
  <2>1. UNCHANGED <<haltAt, haltSaw>>
    <3>1. ASSUME NEW m \in Messages, MessageStep(m) PROVE UNCHANGED <<haltAt, haltSaw>>
      BY <3>1, ClaudeCallMoves
    <3>2. CASE Hearing
      BY <3>2, ClaudeHears
    <3>3. CASE DropTurn \/ ClearDropped \/ StopItself \/ CloseItself \/ HearEnd
      BY <3>3 DEF DropTurn, ClearDropped, StopItself, CloseItself, HearEnd
    <3>4. CASE StopByOther \/ CloseByOther \/ ClaudeExits \/ UNCHANGED claudeVars
      BY <3>4 DEF StopByOther, CloseByOther, ClaudeExits, claudeVars
    <3>5. CASE ClaudeTakesMessage \/ ClaudeTakesHalt \/ ClaudeAnswers
      BY <3>5 DEF ClaudeTakesMessage, ClaudeTakesHalt, ClaudeAnswers
    <3>6. QED
      BY <1>2, <3>1, <3>2, <3>3, <3>4, <3>5, ClaudeSteps
  <2>2. QED
    BY <1>1, <2>1 DEF ClaudeHalted
<1>3. ASSUME NEW h \in Halts, HaltStep(h) PROVE ClaudeHalted'
  <2>1. at' = at /\ UNCHANGED <<claudeActive, lives, ear>>
    BY <1>3 DEF HaltStep, StartHalt, WriteHalt, EndHalt
  <2>2. \A g \in Halts \ {h} : haltAt'[g] = haltAt[g] /\ haltSaw'[g] = haltSaw[g]
    BY <1>t, <1>3 DEF HaltStep, StartHalt, WriteHalt, EndHalt
  <2>3. \A m \in Messages : at[m] \in {"claimed", "submitted"} /\ Open(m)' => Open(m)
    BY ClaudeForward
  <2>4. SUFFICES ASSUME NEW m \in Messages, haltSaw'[h] = m
                 PROVE  /\ at[m] \in {"claimed", "submitted"}
                        /\ haltAt'[h] \in {"stopping", "waiting"} /\ Open(m) => claudeActive \/ ear \in BareStop
                        /\ haltAt'[h] = "interrupted" /\ Open(m) => ear \in BareStop
    BY <1>1, <2>1, <2>2, <2>3 DEF ClaudeHalted
  <2>5. CASE StartHalt(h)
    <3>1. haltSaw'[h] = claudeRequest /\ haltAt'[h] \in {"exited", "stopping", "idle"}
          /\ (haltAt'[h] = "stopping" => claudeActive)
      BY <1>t, <2>5 DEF StartHalt
    <3>2. QED
      BY <1>i, <2>4, <3>1 DEF ClaudeHolds
  <2>6. CASE WriteHalt(h)
    <3>1. haltSaw'[h] = haltSaw[h] /\ haltAt[h] = "stopping" /\ haltAt'[h] # "interrupted"
      BY <1>t, <2>6 DEF WriteHalt
    <3>2. QED
      BY <1>i, <2>4, <3>1 DEF ClaudeHalted
  <2>7. CASE EndHalt(h)
    <3>1. /\ haltSaw'[h] = haltSaw[h] /\ haltAt[h] = "waiting"
          /\ haltAt'[h] \notin {"stopping", "waiting"}
          /\ haltAt'[h] = "interrupted" => ~claudeActive
      BY <1>t, <2>7 DEF EndHalt
    <3>2. QED
      BY <1>i, <2>4, <3>1 DEF ClaudeHalted
  <2>8. QED
    BY <1>3, <2>5, <2>6, <2>7 DEF HaltStep
<1>4. QED
  BY <1>2, <1>3

\* The inductive invariant of the turns of Claude Code.
LEMMA ClaudeTurnsCorrect ==
  ASSUME Patience
  PROVE  ClaudeSpec => [](ClaudeShape /\ ClaudeInv)
<1>1. ClaudeInit => ClaudeShape /\ ClaudeInv
  <2> SUFFICES ASSUME ClaudeInit PROVE ClaudeShape /\ ClaudeInv
    OBVIOUS
  <2>1. ClaudePipesOK
    BY EmptyPipe DEF ClaudeInit, ClaudePipesOK
  <2>2. ClaudeThreadsOK
    BY DEF ClaudeInit, ClaudeThreadsOK
  <2>3. \A m \in Messages : ~Open(m) /\ ~Fed(m)
    BY EmptyPipe, ClaudeAssumption DEF ClaudeInit, Open, Fed
  <2>4. ClaudeOneTurn
    BY EmptyPipe, <2>3 DEF ClaudeInit, ClaudeOneTurn, InService
  <2>5. ClaudeLines /\ ClaudeHolds /\ ClaudeHalted
    BY <2>3, ClaudeAssumption DEF ClaudeInit, ClaudeLines, ClaudeHolds, ClaudeHalted
  <2>6. QED
    BY <2>1, <2>2, <2>4, <2>5 DEF ClaudeShape, ClaudeInv
<1>2. ClaudeShape /\ ClaudeInv /\ [ClaudeNext]_claudeVars => (ClaudeShape /\ ClaudeInv)'
  <2> SUFFICES ASSUME ClaudeShape, ClaudeInv, [ClaudeNext]_claudeVars
               PROVE  (ClaudeShape /\ ClaudeInv)'
    OBVIOUS
  <2>1. ClaudeShape'
    BY ClaudePipesStep, ClaudeThreadsStep DEF ClaudeShape
  <2>2. ClaudeInv'
    BY ClaudeOneTurnStep, ClaudeLinesStep, ClaudeHoldsStep, ClaudeHaltedStep DEF ClaudeInv
  <2>3. QED
    BY <2>1, <2>2
<1>3. QED
  BY <1>1, <1>2, PTL DEF ClaudeSpec

\* What the invariant says of interrupts.
LEMMA ClaudePromises ==
  ClaudeShape /\ ClaudeInv => ClaudeTypeOK /\ HaltEndsTurn
<1> SUFFICES ASSUME ClaudeShape, ClaudeInv PROVE ClaudeTypeOK /\ HaltEndsTurn
  OBVIOUS
<1>1. HaltEndsTurn
  BY DEF HaltEndsTurn, ClaudeInv, ClaudeHalted, Open, Fed, BareStop
<1>2. QED
  BY <1>1, ClaudeTypes

-----------------------------------------------------------------------------
\* The turns of Codex and of Claude Code, when their clients prompt only once the
\* last turn is over and read: the flag is up while a turn runs, and an interrupt
\* that answers "interrupted" has ended the turn it saw, for every number of calls.
THEOREM TurnsCorrect ==
  ASSUME Patient, Patience
  PROVE  CodexTurnsSpec /\ ClaudeSpec => []TurnsInv
<1>1. (CodexShape /\ CodexInv) /\ (ClaudeShape /\ ClaudeInv) => TurnsInv
  BY CodexPromises, ClaudePromises DEF TurnsInv
<1>2. QED
  BY <1>1, CodexTurnsCorrect, ClaudeTurnsCorrect, PTL

-----------------------------------------------------------------------------
(* The starts and the prompts of a Codex conversation: the thread, the      *)
(* bundle and the process stay together from one process to the next.       *)

CodexEntries == [thread : Nat, begun : BOOLEAN, viewer : Viewers, bundle : Nat]
Servers == [thread : Nat, bundle : Nat]
CodexAnswers == {"none", "already_running", "started", "error", "unknown_thread", "not_found",
                 "not_running", "restart_required", "submitted"}
CodexRequests ==
  [stage : {"idle", "start", "prompt"} \cup Starting, prompt : BOOLEAN,
   viewer : Viewers \cup {Unset}, thread : Nat, before : Nat, retried : BOOLEAN,
   status : CodexAnswers]
Registering == {"launch", "initialize", "thread", "mcp"}

CodexSessionShape ==
  /\ request \in CodexRequests
  /\ codexEntry \in CodexEntries \cup {Unset}
  /\ request.stage \in Registering => codexEntry \in CodexEntries
  /\ server \in Servers \cup {Unset}
  /\ held \in Nat /\ opened \in Nat /\ onDisk \in Nat
  /\ kept \subseteq Nat

\* threads are numbered as the app-server opens them
ThreadsAreOpened ==
  /\ kept \subseteq 1 .. opened
  /\ held <= opened /\ request.thread <= opened
  /\ codexEntry \in CodexEntries => codexEntry.thread <= opened

\* the process runs with the bundle and, once open, in the thread of its entry
ServerFollowsEntry ==
  /\ request.stage \in {"setup", "launch"} => server = Unset
  /\ server # Unset => codexEntry # Unset /\ server.bundle = codexEntry.bundle
  /\ server # Unset /\ request.stage \notin {"initialize", "thread"}
       => server.thread = codexEntry.thread

\* the client knows the thread of a process that runs, and names no other
ClientFollowsEntry ==
  /\ Up /\ request.stage = "idle" => held = codexEntry.thread
  /\ Up /\ request.stage \in {"start", "prompt"} => request.thread \in {NoThread, codexEntry.thread}
  /\ request.stage \in Registering => request.thread \in {NoThread, codexEntry.thread}

\* a thread with an accepted turn is begun, and a call carries it to its end
ThreadIsCarried ==
  /\ request.stage = "prompt" => request.prompt
  /\ codexEntry \in CodexEntries /\ codexEntry.thread \in kept => codexEntry.begun
  /\ request.prompt /\ request.before \in kept =>
       /\ request.stage \in {"start", "setup"} => request.thread = request.before
       /\ request.stage \in Registering => codexEntry.thread = request.before
       /\ request.stage = "prompt" /\ Up => codexEntry.thread = request.before

\* the second attempt of a prompt names no thread
RetryIsAnew ==
  request.retried =>
    /\ request.stage \in {"start", "setup"} => request.thread = NoThread
    /\ request.stage \in {"launch", "initialize", "thread"} => codexEntry.thread = NoThread

CodexSessionInv ==
  /\ CodexSessionShape /\ ThreadsAreOpened /\ ServerFollowsEntry /\ ClientFollowsEntry
  /\ ThreadIsCarried /\ RetryIsAnew

USE DEF NoThread

\* What is not an entry of Codex.
LEMMA CodexEntryIsSet ==
  /\ Unset \notin CodexEntries
  /\ codexEntry \in CodexEntries \cup {Unset} /\ codexEntry # Unset => codexEntry \in CodexEntries
BY UnsetIsNoEntry DEF CodexEntries

\* An answer ends the call, and tells the thread of the entry it is about.
LEMMA TellsFacts ==
  ASSUME NEW word \in CodexAnswers, NEW e, Tells(word, e)
  PROVE  /\ request' \in CodexRequests
         /\ request'.stage = "idle" /\ request'.prompt = FALSE /\ request'.retried = FALSE
         /\ request'.thread = NoThread /\ request'.status = word
         /\ held' = IF e = Unset THEN held ELSE e.thread
BY DEF Tells, NoRequest, CodexRequests, CodexAnswers

\* A stage that follows another leaves the rest of the request as it is.
LEMMA MovesFacts ==
  ASSUME request \in CodexRequests, NEW stage \in {"start", "prompt"} \cup Starting, Moves(stage)
  PROVE  /\ request' \in CodexRequests
         /\ request'.stage = stage /\ request'.prompt = request.prompt
         /\ request'.thread = request.thread /\ request'.before = request.before
         /\ request'.retried = request.retried /\ request'.viewer = request.viewer
BY DEF Moves, CodexRequests

\* What a call asks for, and the two ways a prompt starts the process again.
LEMMA RequestFacts ==
  ASSUME CodexSessionShape
  PROVE  /\ CodexCallArrives =>
              /\ request' \in CodexRequests
              /\ request'.stage = IF request'.prompt THEN "prompt" ELSE "start"
              /\ request'.thread \in {NoThread, held} /\ request'.retried = FALSE
              /\ request'.before = IF codexEntry = Unset THEN NoThread ELSE codexEntry.thread
         /\ ThreadUnknown /\ request.prompt /\ ~request.retried =>
              /\ request' \in CodexRequests /\ request'.stage = "start"
              /\ request'.thread = NoThread /\ request'.prompt /\ request'.retried
              /\ request'.before = request.before
              /\ server' = Unset /\ held' = held
         /\ RestartForBundle =>
              /\ request' \in CodexRequests /\ request'.stage = "start"
              /\ request'.thread = RestartThread /\ request'.prompt = request.prompt
              /\ request'.retried = FALSE /\ request'.before = request.before
<1> USE CodexEntryIsSet DEF CodexSessionShape
<1>1. ASSUME CodexCallArrives
      PROVE  /\ request' \in CodexRequests
             /\ request'.stage = IF request'.prompt THEN "prompt" ELSE "start"
             /\ request'.thread \in {NoThread, held} /\ request'.retried = FALSE
             /\ request'.before = IF codexEntry = Unset THEN NoThread ELSE codexEntry.thread
  <2>1. PICK viewer \in Viewers \cup {Unset}, thread \in {NoThread, held}, prompt \in BOOLEAN :
          request' = [NoRequest EXCEPT !.stage = IF prompt THEN "prompt" ELSE "start",
                                    !.prompt = prompt, !.viewer = viewer, !.thread = thread,
                                    !.before = IF codexEntry = Unset THEN NoThread
                                               ELSE codexEntry.thread]
    BY <1>1 DEF CodexCallArrives
  <2>2. (IF codexEntry = Unset THEN NoThread ELSE codexEntry.thread) \in Nat /\ thread \in Nat
    BY DEF CodexEntries
  <2>3. /\ request' \in CodexRequests
        /\ request'.stage = IF prompt THEN "prompt" ELSE "start"
        /\ request'.prompt = prompt /\ request'.thread = thread /\ request'.retried = FALSE
        /\ request'.before = IF codexEntry = Unset THEN NoThread ELSE codexEntry.thread
    BY <2>1, <2>2 DEF NoRequest, CodexRequests, CodexAnswers
  <2> QED BY <2>3
<1>2. ASSUME ThreadUnknown, request.prompt, ~request.retried
      PROVE  /\ request' \in CodexRequests /\ request'.stage = "start"
              /\ request'.thread = NoThread /\ request'.prompt /\ request'.retried
              /\ request'.before = request.before
              /\ server' = Unset /\ held' = held
  <2>1. /\ request' = [request EXCEPT !.stage = "start", !.retried = TRUE, !.thread = NoThread]
        /\ server' = Unset /\ held' = held
    BY <1>2 DEF ThreadUnknown
  <2>2. request \in CodexRequests
    OBVIOUS
  <2> QED BY <1>2, <2>1, <2>2 DEF CodexRequests
<1>3. ASSUME RestartForBundle
      PROVE  /\ request' \in CodexRequests /\ request'.stage = "start"
              /\ request'.thread = RestartThread /\ request'.prompt = request.prompt
              /\ request'.retried = FALSE /\ request'.before = request.before
  <2>1. codexEntry \in CodexEntries
    BY <1>3 DEF RestartForBundle, Up
  <2>2. codexEntry.viewer \in Viewers /\ codexEntry.thread \in Nat /\ request.thread \in Nat
    BY <2>1 DEF CodexEntries, CodexRequests
  <2>3. RestartThread \in Nat
    BY <2>1, <2>2 DEF RestartThread, Named, CodexEntries
  <2> QED BY <1>3, <2>2, <2>3 DEF RestartForBundle, CodexRequests
<1> QED BY <1>1, <1>2, <1>3

\* The entry with the thread a client names.
LEMMA NamedFacts ==
  ASSUME CodexSessionShape, codexEntry # Unset
  PROVE  /\ codexEntry \in CodexEntries
         /\ Named \in CodexEntries /\ Named # Unset
         /\ Named.thread = IF request.thread = NoThread THEN codexEntry.thread ELSE request.thread
         /\ Named.begun = codexEntry.begun /\ Named.bundle = codexEntry.bundle
         /\ Named.viewer = codexEntry.viewer
<1>1. codexEntry \in CodexEntries /\ request.thread \in Nat
  BY CodexEntryIsSet DEF CodexSessionShape, CodexRequests
<1> QED BY <1>1, UnsetIsNoEntry DEF Named, CodexEntries

\* The state after an answer is well typed.
LEMMA AnswerIsTyped ==
  ASSUME CodexSessionShape, NEW word \in CodexAnswers, NEW e \in CodexEntries \cup {Unset},
         Tells(word, e), UNCHANGED <<opened, onDisk>>,
         codexEntry' \in CodexEntries \cup {Unset}, server' \in Servers \cup {Unset},
         kept' \subseteq Nat
  PROVE  CodexSessionShape'
<1>1. request' \in CodexRequests /\ request'.stage = "idle"
  BY TellsFacts
<1>2. held' = IF e = Unset THEN held ELSE e.thread
  BY TellsFacts
<1>3. e \in CodexEntries => e.thread \in Nat
  BY DEF CodexEntries
<1>4. held' \in Nat
  BY <1>2, <1>3 DEF CodexSessionShape
<1>5. request'.stage \notin Registering
  BY <1>1 DEF Registering
<1> QED BY <1>1, <1>4, <1>5 DEF CodexSessionShape

\* Every step leaves the conversation well typed.
LEMMA CodexSessionShapeStep ==
  ASSUME CodexSessionShape, [CodexSessionNext]_codexSessionVars
  PROVE  CodexSessionShape'
<1> USE CodexSessionAssumption, CodexEntryIsSet DEF CodexSessionShape, Registering, CodexAnswers
<1>a. request \in CodexRequests /\ request.thread \in Nat /\ request.viewer \in Viewers \cup {Unset}
  BY DEF CodexRequests
<1>b. /\ codexEntry \in CodexEntries => codexEntry.thread \in Nat
      /\ codexEntry # Unset => codexEntry.thread \in Nat
  BY DEF CodexEntries
<1>1. CASE CodexCallArrives
  <2>1. request' \in CodexRequests /\ request'.stage \in {"prompt", "start"}
    BY <1>1, RequestFacts
  <2> QED BY <1>1, <2>1 DEF CodexCallArrives
<1>2. CASE ReuseServer
  <2>1. Tells("already_running", codexEntry)
    BY <1>2 DEF ReuseServer
  <2> QED BY <1>2, <2>1, AnswerIsTyped DEF ReuseServer
<1>3. CASE StopServer
  BY <1>3, <1>a, MovesFacts DEF StopServer, Starting
<1>19. CASE NoServer
  BY <1>19, <1>a, MovesFacts DEF NoServer, Starting
<1>4. CASE CodexSetupFails
  <2>1. Tells("error", Unset)
    BY <1>4 DEF CodexSetupFails
  <2> QED BY <1>4, <2>1, AnswerIsTyped DEF CodexSetupFails
<1>5. CASE CreateCodexEntry
  <2>1. codexEntry' \in CodexEntries
    BY <1>5, <1>a DEF CreateCodexEntry, AskedViewer, CodexEntries
  <2> QED BY <1>5, <1>a, <2>1, MovesFacts DEF CreateCodexEntry, Starting
<1>6. CASE LaunchServer
  <2>1. codexEntry.bundle \in Nat
    BY <1>6 DEF LaunchServer, CodexEntries
  <2>2. server' \in Servers
    BY <1>6, <2>1 DEF LaunchServer, Servers
  <2> QED BY <1>6, <1>a, <2>2, MovesFacts DEF LaunchServer, Starting
<1>7. CASE Initialized
  BY <1>7, <1>a, MovesFacts DEF Initialized, Starting
<1>8. CASE OpenThread
  <2>1. codexEntry \in CodexEntries /\ server \in Servers
    BY <1>8 DEF OpenThread
  <2>2. opened' \in Nat /\ codexEntry' \in CodexEntries
    BY <1>8, <2>1 DEF OpenThread, CodexEntries
  <2>3. codexEntry'.thread \in Nat
    BY <2>2 DEF CodexEntries
  <2>4. server' \in Servers
    BY <1>8, <2>1, <2>3 DEF OpenThread, Servers
  <2> QED BY <1>8, <1>a, <2>2, <2>4, MovesFacts DEF OpenThread, Starting
<1>9. CASE ServerReady
  <2>1. CASE request.prompt
    BY <1>9, <1>a, <2>1, MovesFacts DEF ServerReady
  <2>2. CASE ~request.prompt
    <3>1. Tells("started", codexEntry)
      BY <1>9, <2>2 DEF ServerReady
    <3> QED BY <1>9, <3>1, AnswerIsTyped DEF ServerReady
  <2> QED BY <2>1, <2>2
<1>10. CASE ServerStartFails
  <2>1. Tells("error", codexEntry)
    BY <1>10 DEF ServerStartFails, StartError
  <2> QED BY <1>10, <2>1, AnswerIsTyped DEF ServerStartFails, StartError
<1>11. CASE ThreadUnknown
  <2>1. CASE request.prompt /\ ~request.retried
    BY <1>11, <2>1, RequestFacts DEF ThreadUnknown
  <2>2. CASE ~(request.prompt /\ ~request.retried)
    <3>1. Tells("unknown_thread", codexEntry) /\ server' = Unset
      BY <1>11, <2>2 DEF ThreadUnknown, StartError
    <3> QED BY <1>11, <3>1, AnswerIsTyped DEF ThreadUnknown
  <2> QED BY <2>1, <2>2
<1>12. CASE CodexRefuses
  <2> DEFINE told == IF codexEntry = Unset THEN "not_found" ELSE "not_running"
  <2>1. told \in CodexAnswers /\ Tells(told, codexEntry)
    BY <1>12 DEF CodexRefuses
  <2> HIDE DEF told
  <2> QED BY <1>12, <2>1, AnswerIsTyped DEF CodexRefuses
<1>13. CASE RestartRequired
  <2>1. Named \in CodexEntries
    BY <1>13, NamedFacts DEF RestartRequired, Up
  <2>2. Tells("restart_required", Named)
    BY <1>13 DEF RestartRequired
  <2> QED BY <1>13, <2>1, <2>2, AnswerIsTyped DEF RestartRequired
<1>14. CASE RestartForBundle
  BY <1>14, RequestFacts DEF RestartForBundle
<1>15. CASE SubmitToCodex
  <2>1. Named.thread \in Nat /\ Named \in CodexEntries
    BY <1>15, NamedFacts DEF SubmitToCodex, Up, CodexEntries
  <2>2. codexEntry' \in CodexEntries /\ kept' \subseteq Nat
    BY <1>15, <2>1 DEF SubmitToCodex, CodexEntries
  <2>3. Tells("error", Named) \/ Tells("submitted", Named)
    BY <1>15 DEF SubmitToCodex
  <2> QED BY <1>15, <2>1, <2>2, <2>3, AnswerIsTyped DEF SubmitToCodex
<1>16. CASE ServerDies
  BY <1>16 DEF ServerDies
<1>17. CASE SkillsChange
  BY <1>17 DEF SkillsChange
<1>18. CASE UNCHANGED codexSessionVars
  BY <1>18 DEF codexSessionVars
<1> QED BY <1>1, <1>2, <1>3, <1>4, <1>5, <1>6, <1>7, <1>8, <1>9, <1>10, <1>11, <1>12, <1>13,
           <1>14, <1>15, <1>16, <1>17, <1>18, <1>19
        DEF CodexSessionNext, CodexCallStep

\* The actions that answer, and those that go from one stage to the next.
CodexAnswersCall ==
  \/ ReuseServer \/ CodexSetupFails \/ ServerStartFails
  \/ /\ ServerReady
     /\ ~request.prompt
  \/ /\ ThreadUnknown
     /\ ~(request.prompt /\ ~request.retried)
  \/ CodexRefuses \/ RestartRequired \/ SubmitToCodex

\* Every answer tells of the entry, of the entry with the thread the client
\* named, or of none; and leaves a process only where it leaves its entry.
LEMMA AnswerFacts ==
  ASSUME CodexSessionShape, CodexAnswersCall
  PROVE  /\ request' \in CodexRequests
         /\ request'.stage = "idle" /\ request'.prompt = FALSE /\ request'.retried = FALSE
         /\ request'.thread = NoThread
         /\ \/ /\ held' = held /\ UNCHANGED <<codexEntry, server>>
               /\ codexEntry = Unset \/ request.stage = "setup"
            \/ /\ codexEntry # Unset /\ held' = codexEntry.thread
               /\ codexEntry' = codexEntry /\ server' \in {server, Unset}
            \/ /\ codexEntry # Unset /\ server # Unset /\ request.stage = "prompt"
               /\ held' = Named.thread
               /\ \/ codexEntry' = Unset /\ server' = Unset
                  \/ /\ codexEntry' \in CodexEntries /\ server' = server
                     /\ codexEntry'.thread = Named.thread
                     /\ codexEntry'.bundle = codexEntry.bundle
                     /\ codexEntry.begun => codexEntry'.begun
         /\ opened' = opened
<1> USE CodexEntryIsSet DEF CodexAnswers
<1>1. CASE ReuseServer
  <2>1. Tells("already_running", codexEntry)
    BY <1>1 DEF ReuseServer
  <2> QED BY <1>1, <2>1, TellsFacts DEF ReuseServer, Up
<1>2. CASE CodexSetupFails
  <2>1. Tells("error", Unset)
    BY <1>2 DEF CodexSetupFails
  <2> QED BY <1>2, <2>1, TellsFacts DEF CodexSetupFails
<1>3. CASE ServerReady /\ ~request.prompt
  <2>1. Tells("started", codexEntry)
    BY <1>3 DEF ServerReady
  <2>2. codexEntry # Unset
    BY <1>3 DEF ServerReady, CodexSessionShape, Registering
  <2> QED BY <1>3, <2>1, <2>2, TellsFacts DEF ServerReady
<1>4. CASE ServerStartFails
  <2>1. Tells("error", codexEntry)
    BY <1>4 DEF ServerStartFails, StartError
  <2>2. codexEntry # Unset
    BY <1>4 DEF ServerStartFails, CodexSessionShape, Registering, Starting
  <2> QED BY <1>4, <2>1, <2>2, TellsFacts DEF ServerStartFails, StartError
<1>5. CASE ThreadUnknown /\ ~(request.prompt /\ ~request.retried)
  <2>1. Tells("unknown_thread", codexEntry) /\ server' = Unset
    BY <1>5 DEF ThreadUnknown, StartError
  <2>2. codexEntry # Unset
    BY <1>5 DEF ThreadUnknown, CodexSessionShape, Registering
  <2> QED BY <1>5, <2>1, <2>2, TellsFacts DEF ThreadUnknown
<1>6. CASE CodexRefuses
  <2> DEFINE told == IF codexEntry = Unset THEN "not_found" ELSE "not_running"
  <2>1. told \in CodexAnswers /\ Tells(told, codexEntry)
    BY <1>6 DEF CodexRefuses
  <2> HIDE DEF told
  <2> QED BY <1>6, <2>1, TellsFacts DEF CodexRefuses
<1>7. CASE RestartRequired
  <2>1. Tells("restart_required", Named)
    BY <1>7 DEF RestartRequired
  <2> QED BY <1>7, <2>1, TellsFacts, NamedFacts DEF RestartRequired, Up
<1>8. CASE SubmitToCodex
  <2>1. Tells("error", Named) \/ Tells("submitted", Named)
    BY <1>8 DEF SubmitToCodex
  <2>2. /\ Named \in CodexEntries /\ Named # Unset /\ Named.begun = codexEntry.begun
        /\ codexEntry # Unset /\ server # Unset /\ onDisk = codexEntry.bundle
        /\ codexEntry \in CodexEntries /\ codexEntry.bundle \in Nat
    BY <1>8, NamedFacts DEF SubmitToCodex, Up, BundleChanged, CodexEntries
  <2>3. /\ codexEntry' \in CodexEntries /\ codexEntry'.thread = Named.thread
        /\ codexEntry'.bundle = codexEntry.bundle
        /\ codexEntry.begun => codexEntry'.begun
    BY <1>8, <2>2 DEF SubmitToCodex, CodexEntries
  <2> QED BY <1>8, <2>1, <2>2, <2>3, TellsFacts DEF SubmitToCodex
<1> QED BY <1>1, <1>2, <1>3, <1>4, <1>5, <1>6, <1>7, <1>8 DEF CodexAnswersCall

\* The actions of a conversation, the answers together.
LEMMA CodexSessionSteps ==
  ASSUME [CodexSessionNext]_codexSessionVars
  PROVE  \/ CodexAnswersCall \/ CodexCallArrives
         \/ StopServer \/ NoServer \/ CreateCodexEntry \/ LaunchServer \/ Initialized
         \/ OpenThread \/ RestartForBundle
         \/ ServerReady /\ request.prompt
         \/ ThreadUnknown /\ request.prompt /\ ~request.retried
         \/ ServerDies \/ SkillsChange \/ UNCHANGED codexSessionVars
BY DEF CodexSessionNext, CodexCallStep, CodexAnswersCall

\* The requests and the processes that the other actions leave.
LEMMA StageFacts ==
  ASSUME CodexSessionShape
  PROVE  /\ StopServer \/ NoServer =>
              /\ request.stage = "start" /\ request'.stage = "setup"
              /\ request'.thread = request.thread /\ request'.prompt = request.prompt
              /\ request'.before = request.before /\ request'.retried = request.retried
         /\ CreateCodexEntry =>
              /\ request.stage = "setup" /\ request'.stage = "launch"
              /\ request'.thread = request.thread /\ request'.prompt = request.prompt
              /\ request'.before = request.before /\ request'.retried = request.retried
              /\ codexEntry' \in CodexEntries /\ codexEntry'.thread = request.thread
              /\ codexEntry'.begun = (request.thread # NoThread)
         /\ LaunchServer =>
              /\ request.stage = "launch" /\ request'.stage = "initialize"
              /\ request'.thread = request.thread /\ request'.prompt = request.prompt
              /\ request'.before = request.before /\ request'.retried = request.retried
              /\ server'.bundle = codexEntry.bundle
         /\ Initialized =>
              /\ request.stage = "initialize" /\ request'.stage = "thread"
              /\ request'.thread = request.thread /\ request'.prompt = request.prompt
              /\ request'.before = request.before /\ request'.retried = request.retried
         /\ OpenThread =>
              /\ request.stage = "thread" /\ request'.stage = "mcp" /\ server # Unset
              /\ request'.thread = request.thread /\ request'.prompt = request.prompt
              /\ request'.before = request.before /\ request'.retried = request.retried
              /\ codexEntry \in CodexEntries /\ codexEntry' \in CodexEntries
              /\ codexEntry'.begun = codexEntry.begun
              /\ codexEntry'.bundle = codexEntry.bundle
              /\ server'.bundle = server.bundle /\ server'.thread = codexEntry'.thread
              /\ \/ /\ codexEntry.thread = NoThread
                    /\ opened' = opened + 1 /\ codexEntry'.thread = opened + 1
                 \/ /\ codexEntry.thread \in kept
                    /\ opened' = opened /\ codexEntry' = codexEntry
         /\ ServerReady /\ request.prompt =>
              /\ request.stage = "mcp" /\ request'.stage = "prompt" /\ server # Unset
              /\ request'.thread = request.thread /\ request'.prompt = request.prompt
              /\ request'.before = request.before /\ request'.retried = request.retried
<1> USE DEF CodexSessionShape
<1>a. request \in CodexRequests /\ request.thread \in Nat /\ request.viewer \in Viewers \cup {Unset}
  BY DEF CodexRequests
<1>1. ASSUME StopServer \/ NoServer
      PROVE  /\ request.stage = "start" /\ request'.stage = "setup"
             /\ request'.thread = request.thread /\ request'.prompt = request.prompt
             /\ request'.before = request.before /\ request'.retried = request.retried
  BY <1>1, <1>a, MovesFacts DEF StopServer, NoServer, Starting
<1>2. ASSUME CreateCodexEntry
      PROVE  /\ request.stage = "setup" /\ request'.stage = "launch"
             /\ request'.thread = request.thread /\ request'.prompt = request.prompt
             /\ request'.before = request.before /\ request'.retried = request.retried
             /\ codexEntry' \in CodexEntries /\ codexEntry'.thread = request.thread
             /\ codexEntry'.begun = (request.thread # NoThread)
  <2>1. /\ codexEntry' \in CodexEntries /\ codexEntry'.thread = request.thread
        /\ codexEntry'.begun = (request.thread # NoThread)
    BY <1>2, <1>a, CodexSessionAssumption DEF CreateCodexEntry, AskedViewer, CodexEntries
  <2> QED BY <1>2, <1>a, <2>1, MovesFacts DEF CreateCodexEntry, Starting
<1>3. ASSUME LaunchServer
      PROVE  /\ request.stage = "launch" /\ request'.stage = "initialize"
             /\ request'.thread = request.thread /\ request'.prompt = request.prompt
             /\ request'.before = request.before /\ request'.retried = request.retried
             /\ server'.bundle = codexEntry.bundle
  BY <1>3, <1>a, MovesFacts DEF LaunchServer, Starting
<1>4. ASSUME Initialized
      PROVE  /\ request.stage = "initialize" /\ request'.stage = "thread"
             /\ request'.thread = request.thread /\ request'.prompt = request.prompt
             /\ request'.before = request.before /\ request'.retried = request.retried
  BY <1>4, <1>a, MovesFacts DEF Initialized, Starting
<1>5. ASSUME OpenThread
      PROVE  /\ request.stage = "thread" /\ request'.stage = "mcp" /\ server # Unset
             /\ request'.thread = request.thread /\ request'.prompt = request.prompt
             /\ request'.before = request.before /\ request'.retried = request.retried
             /\ codexEntry \in CodexEntries /\ codexEntry' \in CodexEntries
             /\ codexEntry'.begun = codexEntry.begun
             /\ codexEntry'.bundle = codexEntry.bundle
             /\ server'.bundle = server.bundle /\ server'.thread = codexEntry'.thread
             /\ \/ /\ codexEntry.thread = NoThread
                   /\ opened' = opened + 1 /\ codexEntry'.thread = opened + 1
                \/ /\ codexEntry.thread \in kept
                   /\ opened' = opened /\ codexEntry' = codexEntry
  <2>1. request.stage = "thread" /\ server # Unset /\ server \in Servers
    BY <1>5 DEF OpenThread
  <2>2. codexEntry \in CodexEntries
    BY <2>1 DEF Registering
  <2>3. /\ server'.bundle = server.bundle /\ server'.thread = codexEntry'.thread
    BY <1>5, <2>1 DEF OpenThread, Servers
  <2>4. CASE codexEntry.thread = NoThread /\ opened' = opened + 1
               /\ codexEntry' = [codexEntry EXCEPT !.thread = opened']
    <3>1. /\ codexEntry' \in CodexEntries /\ codexEntry'.thread = opened + 1
          /\ codexEntry'.begun = codexEntry.begun /\ codexEntry'.bundle = codexEntry.bundle
      BY <2>2, <2>4 DEF CodexEntries
    <3> QED BY <1>5, <1>a, <2>1, <2>2, <2>3, <2>4, <3>1, MovesFacts DEF OpenThread, Starting
  <2>5. CASE codexEntry.thread \in kept /\ UNCHANGED <<opened, codexEntry>>
    BY <1>5, <1>a, <2>1, <2>2, <2>3, <2>5, MovesFacts DEF OpenThread, Starting
  <2> QED BY <1>5, <2>4, <2>5 DEF OpenThread
<1>6. ASSUME ServerReady, request.prompt
      PROVE  /\ request.stage = "mcp" /\ request'.stage = "prompt" /\ server # Unset
             /\ request'.thread = request.thread /\ request'.prompt = request.prompt
             /\ request'.before = request.before /\ request'.retried = request.retried
  BY <1>6, <1>a, MovesFacts DEF ServerReady
<1> QED BY <1>1, <1>2, <1>3, <1>4, <1>5, <1>6

\* Threads stay numbered as they are opened.
LEMMA ThreadsAreOpenedStep ==
  ASSUME CodexSessionShape, ClientFollowsEntry, ThreadsAreOpened,
         [CodexSessionNext]_codexSessionVars
  PROVE  ThreadsAreOpened'
<1> USE CodexEntryIsSet DEF ThreadsAreOpened
<1>a. /\ opened \in Nat /\ held \in Nat /\ request.thread \in Nat
      /\ codexEntry \in CodexEntries => codexEntry.thread \in Nat
      /\ codexEntry # Unset => codexEntry \in CodexEntries
  BY DEF CodexSessionShape, CodexRequests, CodexEntries
<1>b. codexEntry # Unset => Named.thread \in Nat /\ Named.thread <= opened
  BY <1>a, NamedFacts
<1>1. CASE CodexAnswersCall
  <2>1. /\ request'.thread = NoThread /\ opened' = opened
        /\ held' <= opened
        /\ codexEntry' \in CodexEntries => codexEntry'.thread <= opened
    BY <1>1, <1>a, <1>b, AnswerFacts
  <2>2. kept' \subseteq 1 .. opened
    <3>1. CASE SubmitToCodex
      <4>1. /\ codexEntry # Unset
            /\ \/ kept' = kept
               \/ /\ Named.thread # NoThread
                  /\ kept' = kept \cup {Named.thread}
        BY <3>1 DEF SubmitToCodex, Up
      <4>2. Named.thread # NoThread => Named.thread \in 1 .. opened
        BY <1>a, <1>b, <4>1
      <4>3. kept \subseteq 1 .. opened
        OBVIOUS
      <4> DEFINE numbers == 1 .. opened
      <4>4. /\ kept \subseteq numbers
            /\ Named.thread # NoThread => Named.thread \in numbers
        BY <4>2, <4>3
      <4> HIDE DEF numbers, ThreadsAreOpened
      <4>5. kept' \subseteq numbers
        BY <4>1, <4>4
      <4> QED BY <4>5 DEF numbers
    <3>2. CASE ~SubmitToCodex
      <4>1. kept' = kept
        BY <1>1, <3>2 DEF CodexAnswersCall, ReuseServer, CodexSetupFails, ServerReady,
           ServerStartFails, ThreadUnknown, CodexRefuses, RestartRequired
      <4> QED BY <4>1
    <3> QED BY <3>1, <3>2
  <2> QED BY <1>a, <2>1, <2>2
<1>2. CASE CodexCallArrives
  <2>1. request'.thread \in {NoThread, held}
    BY <1>2, RequestFacts
  <2>2. UNCHANGED <<codexEntry, held, opened, kept>>
    BY <1>2 DEF CodexCallArrives
  <2> QED BY <1>a, <2>1, <2>2
<1>3. CASE StopServer
  <2>1. request'.thread = request.thread /\ codexEntry' = Unset /\ UNCHANGED <<held, opened, kept>>
    BY <1>3, StageFacts DEF StopServer
  <2> QED BY <1>a, <2>1
<1>4. CASE NoServer
  <2>1. request'.thread = request.thread /\ UNCHANGED <<codexEntry, held, opened, kept>>
    BY <1>4, StageFacts DEF NoServer
  <2> QED BY <1>a, <2>1
<1>5. CASE CreateCodexEntry
  <2>1. /\ request'.thread = request.thread /\ codexEntry'.thread = request.thread
        /\ UNCHANGED <<held, opened, kept>>
    BY <1>5, StageFacts DEF CreateCodexEntry
  <2> QED BY <1>a, <2>1
<1>6. CASE LaunchServer
  <2>1. request'.thread = request.thread /\ UNCHANGED <<codexEntry, held, opened, kept>>
    BY <1>6, StageFacts DEF LaunchServer
  <2> QED BY <1>a, <2>1
<1>7. CASE Initialized
  <2>1. request'.thread = request.thread /\ UNCHANGED <<codexEntry, held, opened, kept>>
    BY <1>7, StageFacts DEF Initialized
  <2> QED BY <1>a, <2>1
<1>8. CASE OpenThread
  <2>1. /\ request'.thread = request.thread /\ UNCHANGED <<held, kept>>
        /\ codexEntry \in CodexEntries
        /\ \/ opened' = opened + 1 /\ codexEntry'.thread = opened + 1
           \/ opened' = opened /\ codexEntry' = codexEntry
    BY <1>8, StageFacts DEF OpenThread
  <2>2. opened' \in Nat /\ opened <= opened'
    BY <1>a, <2>1
  <2>3. kept' \subseteq 1 .. opened'
    BY <1>a, <2>1, <2>2
  <2>4. request'.thread <= opened' /\ held' <= opened' /\ codexEntry'.thread <= opened'
    BY <1>a, <2>1, <2>2
  <2> QED BY <2>3, <2>4
<1>9. CASE ServerReady /\ request.prompt
  <2>1. request'.thread = request.thread /\ UNCHANGED <<codexEntry, held, opened, kept>>
    BY <1>9, StageFacts DEF ServerReady
  <2> QED BY <1>a, <2>1
<1>10. CASE ThreadUnknown /\ request.prompt /\ ~request.retried
  <2>1. request'.thread = NoThread /\ UNCHANGED <<codexEntry, held, opened, kept>>
    BY <1>10, RequestFacts DEF ThreadUnknown
  <2> QED BY <1>a, <2>1
<1>11. CASE RestartForBundle
  <2>1. /\ request'.thread = RestartThread /\ codexEntry # Unset
        /\ codexEntry' = Unset /\ UNCHANGED <<held, opened, kept>>
    BY <1>11, RequestFacts DEF RestartForBundle, Up
  <2>2. RestartThread \in {NoThread, Named.thread}
    BY DEF RestartThread
  <2> QED BY <1>a, <1>b, <2>1, <2>2
<1>12. CASE ServerDies \/ SkillsChange \/ UNCHANGED codexSessionVars
  <2>1. UNCHANGED <<codexEntry, request, held, opened, kept>>
    BY <1>12 DEF ServerDies, SkillsChange, codexSessionVars
  <2> QED BY <2>1
<1> QED BY <1>1, <1>2, <1>3, <1>4, <1>5, <1>6, <1>7, <1>8, <1>9, <1>10, <1>11, <1>12,
           CodexSessionSteps

\* The process goes on with the bundle and the thread of its entry.
LEMMA ServerFollowsEntryStep ==
  ASSUME CodexSessionShape, ClientFollowsEntry, ServerFollowsEntry,
         [CodexSessionNext]_codexSessionVars
  PROVE  ServerFollowsEntry'
<1> USE CodexEntryIsSet DEF ServerFollowsEntry
<1>a. /\ request.stage \in {"idle", "start", "prompt"} \cup Starting
      /\ codexEntry # Unset => codexEntry \in CodexEntries
      /\ request.stage \in Registering => codexEntry # Unset
  BY DEF CodexSessionShape, CodexRequests
<1>1. CASE CodexAnswersCall
  <2>1. request'.stage = "idle"
    BY <1>1, AnswerFacts
  <2>2. CASE UNCHANGED <<codexEntry, server>> /\ (codexEntry = Unset \/ request.stage = "setup")
    BY <2>1, <2>2
  <2>3. CASE codexEntry # Unset /\ codexEntry' = codexEntry /\ server' \in {server, Unset}
    <3>1. CASE server' = Unset
      BY <2>1, <3>1
    <3>2. CASE server' = server /\ request.stage \in {"initialize", "thread"}
      BY <1>1, <2>1, <3>2 DEF CodexAnswersCall, ReuseServer, CodexSetupFails, ServerStartFails,
         StartError, ServerReady, ThreadUnknown, CodexRefuses, RestartRequired, SubmitToCodex
    <3>3. CASE server' = server /\ request.stage \notin {"initialize", "thread"}
      BY <2>1, <2>3, <3>3
    <3> QED BY <2>3, <3>1, <3>2, <3>3
  <2>4. CASE codexEntry' = Unset /\ server' = Unset
    BY <2>1, <2>4
  <2>5. CASE /\ codexEntry # Unset /\ server # Unset /\ request.stage = "prompt"
             /\ codexEntry' \in CodexEntries /\ server' = server
             /\ codexEntry'.thread = Named.thread
             /\ codexEntry'.bundle = codexEntry.bundle
    <3>1. Named.thread = codexEntry.thread
      BY <2>5, NamedFacts DEF ClientFollowsEntry, Up
    <3> QED BY <2>1, <2>5, <3>1
  <2> QED BY <1>1, <2>2, <2>3, <2>4, <2>5, AnswerFacts
<1>2. CASE CodexCallArrives
  <2>1. request.stage = "idle" /\ UNCHANGED <<codexEntry, server>>
    BY <1>2 DEF CodexCallArrives
  <2>2. request'.stage \in {"prompt", "start"}
    BY <1>2, RequestFacts
  <2> QED BY <2>1, <2>2
<1>3. CASE StopServer
  <2>1. request'.stage = "setup" /\ codexEntry' = Unset /\ server' = Unset
    BY <1>3, StageFacts DEF StopServer
  <2> QED BY <2>1
<1>4. CASE NoServer
  <2>1. request'.stage = "setup" /\ ~Up /\ UNCHANGED <<codexEntry, server>>
    BY <1>4, StageFacts DEF NoServer
  <2> QED BY <2>1 DEF Up
<1>5. CASE CreateCodexEntry
  <2>1. request.stage = "setup" /\ server' = server
    BY <1>5 DEF CreateCodexEntry
  <2> QED BY <2>1
<1>6. CASE LaunchServer
  <2>1. /\ request.stage = "launch" /\ request'.stage = "initialize"
        /\ server'.bundle = codexEntry.bundle /\ codexEntry' = codexEntry
    BY <1>6, StageFacts DEF LaunchServer
  <2> QED BY <1>a, <2>1 DEF Registering
<1>7. CASE Initialized
  <2>1. request'.stage = "thread" /\ UNCHANGED <<codexEntry, server>>
    BY <1>7, StageFacts DEF Initialized
  <2> QED BY <2>1
<1>8. CASE OpenThread
  <2>1. /\ request'.stage = "mcp" /\ server # Unset /\ codexEntry' # Unset
        /\ codexEntry'.bundle = codexEntry.bundle
        /\ server'.bundle = server.bundle /\ server'.thread = codexEntry'.thread
    BY <1>8, StageFacts
  <2> QED BY <2>1
<1>9. CASE ServerReady /\ request.prompt
  <2>1. request.stage = "mcp" /\ request'.stage = "prompt" /\ UNCHANGED <<codexEntry, server>>
    BY <1>9, StageFacts DEF ServerReady
  <2> QED BY <2>1
<1>10. CASE ThreadUnknown /\ request.prompt /\ ~request.retried
  <2>1. request'.stage = "start" /\ server' = Unset
    BY <1>10, RequestFacts
  <2> QED BY <2>1
<1>11. CASE RestartForBundle
  <2>1. request'.stage = "start" /\ server' = Unset
    BY <1>11, RequestFacts DEF RestartForBundle
  <2> QED BY <2>1
<1>12. CASE ServerDies \/ SkillsChange \/ UNCHANGED codexSessionVars
  <2>1. UNCHANGED <<codexEntry, request>> /\ server' \in {server, Unset}
    BY <1>12 DEF ServerDies, SkillsChange, codexSessionVars
  <2> QED BY <2>1
<1> QED BY <1>1, <1>2, <1>3, <1>4, <1>5, <1>6, <1>7, <1>8, <1>9, <1>10, <1>11, <1>12,
           CodexSessionSteps

\* The client and the request name no thread but that of the entry.
LEMMA ClientFollowsEntryStep ==
  ASSUME CodexSessionShape, ServerFollowsEntry, ClientFollowsEntry,
         [CodexSessionNext]_codexSessionVars
  PROVE  ClientFollowsEntry'
<1> USE CodexEntryIsSet DEF ClientFollowsEntry
<1>a. /\ codexEntry # Unset => codexEntry \in CodexEntries
      /\ "idle" \notin Registering /\ "start" \notin Registering /\ "setup" \notin Registering
      /\ "prompt" \notin Registering
      /\ {"launch", "initialize", "thread", "mcp"} = Registering
  BY DEF CodexSessionShape, Registering
<1>1. CASE CodexAnswersCall
  <2>1. request'.stage = "idle"
    BY <1>1, AnswerFacts
  <2>2. CASE UNCHANGED <<codexEntry, server>> /\ (codexEntry = Unset \/ request.stage = "setup")
    BY <1>a, <2>1, <2>2 DEF ServerFollowsEntry, Up
  <2>3. CASE codexEntry # Unset /\ held' = codexEntry.thread /\ codexEntry' = codexEntry
    BY <1>a, <2>1, <2>3
  <2>4. CASE codexEntry' = Unset
    BY <1>a, <2>1, <2>4 DEF Up
  <2>5. CASE held' = Named.thread /\ codexEntry'.thread = Named.thread
    BY <1>a, <2>1, <2>5
  <2> QED BY <1>1, <2>2, <2>3, <2>4, <2>5, AnswerFacts
<1>2. CASE CodexCallArrives
  <2>1. request.stage = "idle" /\ UNCHANGED <<codexEntry, server>>
    BY <1>2 DEF CodexCallArrives
  <2>2. request'.stage \in {"prompt", "start"} /\ request'.thread \in {NoThread, held}
    BY <1>2, RequestFacts
  <2> QED BY <1>a, <2>1, <2>2 DEF Up
<1>3. CASE StopServer
  <2>1. request'.stage = "setup"
    BY <1>3, StageFacts DEF StopServer
  <2> QED BY <1>a, <2>1
<1>4. CASE NoServer
  <2>1. request'.stage = "setup"
    BY <1>4, StageFacts DEF NoServer
  <2> QED BY <1>a, <2>1
<1>5. CASE CreateCodexEntry
  <2>1. request'.stage = "launch" /\ codexEntry'.thread = request.thread
        /\ request'.thread = request.thread
    BY <1>5, StageFacts DEF CreateCodexEntry
  <2> QED BY <2>1
<1>6. CASE LaunchServer
  <2>1. /\ request.stage = "launch" /\ request'.stage = "initialize"
        /\ request'.thread = request.thread /\ codexEntry' = codexEntry
    BY <1>6, StageFacts DEF LaunchServer
  <2> QED BY <1>a, <2>1
<1>7. CASE Initialized
  <2>1. /\ request.stage = "initialize" /\ request'.stage = "thread"
        /\ request'.thread = request.thread /\ codexEntry' = codexEntry
    BY <1>7, StageFacts DEF Initialized
  <2> QED BY <1>a, <2>1
<1>8. CASE OpenThread
  <2>1. /\ request.stage = "thread" /\ request'.stage = "mcp"
        /\ request'.thread = request.thread
        /\ codexEntry.thread = NoThread \/ codexEntry' = codexEntry
    BY <1>8, StageFacts
  <2> QED BY <1>a, <2>1
<1>9. CASE ServerReady /\ request.prompt
  <2>1. /\ request.stage = "mcp" /\ request'.stage = "prompt" /\ codexEntry' = codexEntry
        /\ request'.thread = request.thread
    BY <1>9, StageFacts DEF ServerReady
  <2> QED BY <1>a, <2>1
<1>10. CASE ThreadUnknown /\ request.prompt /\ ~request.retried
  <2>1. request'.stage = "start" /\ server' = Unset
    BY <1>10, RequestFacts
  <2> QED BY <1>a, <2>1 DEF Up
<1>11. CASE RestartForBundle
  <2>1. request'.stage = "start" /\ server' = Unset
    BY <1>11, RequestFacts DEF RestartForBundle
  <2> QED BY <1>a, <2>1 DEF Up
<1>12. CASE ServerDies \/ SkillsChange \/ UNCHANGED codexSessionVars
  <2>1. UNCHANGED <<codexEntry, request, held>> /\ server' \in {server, Unset}
    BY <1>12 DEF ServerDies, SkillsChange, codexSessionVars
  <2> QED BY <2>1 DEF Up
<1> QED BY <1>1, <1>2, <1>3, <1>4, <1>5, <1>6, <1>7, <1>8, <1>9, <1>10, <1>11, <1>12,
           CodexSessionSteps

\* A call carries the thread of its conversation to its end.
LEMMA ThreadIsCarriedStep ==
  ASSUME CodexSessionShape, ThreadsAreOpened, ClientFollowsEntry, ThreadIsCarried,
         [CodexSessionNext]_codexSessionVars
  PROVE  ThreadIsCarried'
<1> USE CodexEntryIsSet DEF ThreadIsCarried
<1>a. /\ codexEntry # Unset => codexEntry \in CodexEntries
      /\ "idle" \notin Registering /\ "start" \notin Registering /\ "setup" \notin Registering
      /\ "prompt" \notin Registering
      /\ {"launch", "initialize", "thread", "mcp"} = Registering
  BY DEF CodexSessionShape, Registering
<1>b. NoThread \notin kept /\ opened \in Nat /\ opened + 1 \notin kept
  BY DEF ThreadsAreOpened, CodexSessionShape
<1>1. CASE CodexAnswersCall
  <2>1. request'.prompt = FALSE /\ request'.stage = "idle"
    BY <1>1, AnswerFacts
  <2>2. CASE ~SubmitToCodex
    <3>1. kept' = kept
      BY <1>1, <2>2 DEF CodexAnswersCall, ReuseServer, CodexSetupFails, ServerReady,
         ServerStartFails, ThreadUnknown, CodexRefuses, RestartRequired
    <3>2. codexEntry' \in {codexEntry, Unset}
      BY <1>1, <2>2 DEF CodexAnswersCall, ReuseServer, CodexSetupFails, ServerReady,
         ServerStartFails, ThreadUnknown, CodexRefuses, RestartRequired
    <3> QED BY <2>1, <3>1, <3>2
  <2>3. CASE SubmitToCodex
    <3>1. /\ codexEntry \in CodexEntries /\ Named \in CodexEntries
          /\ Named.thread = codexEntry.thread /\ Named.begun = codexEntry.begun
      BY <2>3, NamedFacts DEF SubmitToCodex, Up, ClientFollowsEntry
    <3>2. CASE Named.thread = NoThread
      <4>1. /\ kept' = kept /\ codexEntry'.thread = NoThread
        BY <2>3, <3>1, <3>2 DEF SubmitToCodex, CodexEntries
      <4> QED BY <1>b, <2>1, <4>1
    <3>3. CASE Named.thread # NoThread
      <4>1. codexEntry'.begun
        BY <2>3, <3>1, <3>3 DEF SubmitToCodex, CodexEntries
      <4> QED BY <2>1, <4>1
    <3> QED BY <3>2, <3>3
  <2> QED BY <2>2, <2>3
<1>2. CASE CodexCallArrives
  <2>1. request.stage = "idle" /\ UNCHANGED <<codexEntry, server, kept>>
    BY <1>2 DEF CodexCallArrives
  <2>2. /\ request'.stage = IF request'.prompt THEN "prompt" ELSE "start"
        /\ request'.before = IF codexEntry = Unset THEN NoThread ELSE codexEntry.thread
    BY <1>2, RequestFacts
  <2> QED BY <1>a, <1>b, <2>1, <2>2 DEF Up
<1>3. CASE StopServer
  <2>1. /\ request.stage = "start" /\ request'.stage = "setup" /\ request'.thread = request.thread
        /\ request'.prompt = request.prompt /\ request'.before = request.before
        /\ codexEntry' = Unset /\ kept' = kept
    BY <1>3, StageFacts DEF StopServer
  <2> QED BY <1>a, <2>1
<1>4. CASE NoServer
  <2>1. /\ request.stage = "start" /\ request'.stage = "setup" /\ request'.thread = request.thread
        /\ request'.prompt = request.prompt /\ request'.before = request.before
        /\ codexEntry' = codexEntry /\ kept' = kept
    BY <1>4, StageFacts DEF NoServer
  <2> QED BY <1>a, <2>1
<1>5. CASE CreateCodexEntry
  <2>1. /\ request.stage = "setup" /\ request'.stage = "launch"
        /\ request'.thread = request.thread /\ request'.prompt = request.prompt
        /\ request'.before = request.before
        /\ codexEntry'.thread = request.thread
        /\ codexEntry'.begun = (request.thread # NoThread)
        /\ kept' = kept
    BY <1>5, StageFacts DEF CreateCodexEntry
  <2> QED BY <1>a, <1>b, <2>1
<1>6. CASE LaunchServer
  <2>1. /\ request.stage = "launch" /\ request'.stage = "initialize"
        /\ request'.prompt = request.prompt /\ request'.before = request.before
        /\ codexEntry' = codexEntry /\ kept' = kept
    BY <1>6, StageFacts DEF LaunchServer
  <2> QED BY <1>a, <2>1
<1>7. CASE Initialized
  <2>1. /\ request.stage = "initialize" /\ request'.stage = "thread"
        /\ request'.prompt = request.prompt /\ request'.before = request.before
        /\ codexEntry' = codexEntry /\ kept' = kept
    BY <1>7, StageFacts DEF Initialized
  <2> QED BY <1>a, <2>1
<1>8. CASE OpenThread
  <2>1. /\ request.stage = "thread" /\ request'.stage = "mcp"
        /\ request'.prompt = request.prompt /\ request'.before = request.before
        /\ codexEntry'.begun = codexEntry.begun /\ kept' = kept
        /\ \/ codexEntry.thread = NoThread /\ codexEntry'.thread = opened + 1
           \/ codexEntry' = codexEntry
    BY <1>8, StageFacts DEF OpenThread
  <2> QED BY <1>a, <1>b, <2>1
<1>9. CASE ServerReady /\ request.prompt
  <2>1. /\ request.stage = "mcp" /\ request'.stage = "prompt"
        /\ request'.prompt = request.prompt /\ request'.before = request.before
        /\ codexEntry' = codexEntry /\ kept' = kept
    BY <1>9, StageFacts DEF ServerReady
  <2> QED BY <1>9, <1>a, <2>1
<1>10. CASE ThreadUnknown /\ request.prompt /\ ~request.retried
  <2>1. /\ request.stage = "thread" /\ codexEntry.thread \notin kept
        /\ request'.stage = "start" /\ request'.before = request.before
        /\ request'.prompt /\ codexEntry' = codexEntry /\ kept' = kept
    BY <1>10, RequestFacts DEF ThreadUnknown
  <2> QED BY <1>10, <1>a, <2>1
<1>11. CASE RestartForBundle
  <2>1. /\ request.stage = "prompt" /\ Up /\ codexEntry' = Unset /\ kept' = kept
        /\ request'.stage = "start" /\ request'.before = request.before
        /\ request'.prompt = request.prompt /\ request'.thread = RestartThread
    BY <1>11, RequestFacts DEF RestartForBundle
  <2>2. /\ codexEntry \in CodexEntries /\ Named.thread = codexEntry.thread
        /\ Named.begun = codexEntry.begun
    BY <2>1, NamedFacts DEF Up, ClientFollowsEntry
  <2> QED BY <1>a, <2>1, <2>2 DEF RestartThread
<1>12. CASE ServerDies \/ SkillsChange \/ UNCHANGED codexSessionVars
  <2>1. UNCHANGED <<codexEntry, request, kept>> /\ server' \in {server, Unset}
    BY <1>12 DEF ServerDies, SkillsChange, codexSessionVars
  <2> QED BY <2>1 DEF Up
<1> QED BY <1>1, <1>2, <1>3, <1>4, <1>5, <1>6, <1>7, <1>8, <1>9, <1>10, <1>11, <1>12,
           CodexSessionSteps

\* The second attempt goes on without a thread until one is opened for it.
LEMMA RetryIsAnewStep ==
  ASSUME CodexSessionShape, RetryIsAnew, [CodexSessionNext]_codexSessionVars
  PROVE  RetryIsAnew'
<1> USE DEF RetryIsAnew
<1>1. CASE CodexAnswersCall
  <2>1. request'.retried = FALSE
    BY <1>1, AnswerFacts
  <2> QED BY <2>1
<1>2. CASE CodexCallArrives
  <2>1. request'.retried = FALSE
    BY <1>2, RequestFacts
  <2> QED BY <2>1
<1>3. CASE StopServer \/ NoServer
  <2>1. /\ request.stage = "start" /\ request'.stage = "setup" /\ request'.thread = request.thread
        /\ request'.retried = request.retried
    BY <1>3, StageFacts
  <2> QED BY <2>1
<1>4. CASE CreateCodexEntry
  <2>1. /\ request.stage = "setup" /\ request'.stage = "launch"
        /\ request'.retried = request.retried /\ codexEntry'.thread = request.thread
    BY <1>4, StageFacts
  <2> QED BY <2>1
<1>5. CASE LaunchServer
  <2>1. /\ request.stage = "launch" /\ request'.stage = "initialize"
        /\ request'.retried = request.retried /\ codexEntry' = codexEntry
    BY <1>5, StageFacts DEF LaunchServer
  <2> QED BY <2>1
<1>6. CASE Initialized
  <2>1. /\ request.stage = "initialize" /\ request'.stage = "thread"
        /\ request'.retried = request.retried /\ codexEntry' = codexEntry
    BY <1>6, StageFacts DEF Initialized
  <2> QED BY <2>1
<1>7. CASE OpenThread
  <2>1. request'.stage = "mcp"
    BY <1>7, StageFacts
  <2> QED BY <2>1
<1>8. CASE ServerReady /\ request.prompt
  <2>1. request'.stage = "prompt"
    BY <1>8, StageFacts
  <2> QED BY <2>1
<1>9. CASE ThreadUnknown /\ request.prompt /\ ~request.retried
  <2>1. request'.stage = "start" /\ request'.thread = NoThread
    BY <1>9, RequestFacts
  <2> QED BY <2>1
<1>10. CASE RestartForBundle
  <2>1. request'.retried = FALSE
    BY <1>10, RequestFacts
  <2> QED BY <2>1
<1>11. CASE ServerDies \/ SkillsChange \/ UNCHANGED codexSessionVars
  <2>1. UNCHANGED <<codexEntry, request>>
    BY <1>11 DEF ServerDies, SkillsChange, codexSessionVars
  <2> QED BY <2>1
<1> QED BY <1>1, <1>2, <1>3, <1>4, <1>5, <1>6, <1>7, <1>8, <1>9, <1>10, <1>11,
           CodexSessionSteps

\* The strengthened invariant of the conversation.
LEMMA CodexSessionCorrect == CodexSessionSpec => []CodexSessionInv
<1>1. CodexSessionInit => CodexSessionInv
  BY CodexEntryIsSet DEF CodexSessionInit, NoRequest, CodexSessionInv, CodexSessionShape,
     CodexRequests, CodexAnswers, Starting, Registering, ThreadsAreOpened, ServerFollowsEntry,
     ClientFollowsEntry, ThreadIsCarried, RetryIsAnew, Up
<1>2. CodexSessionInv /\ [CodexSessionNext]_codexSessionVars => CodexSessionInv'
  BY CodexSessionShapeStep, ThreadsAreOpenedStep, ServerFollowsEntryStep, ClientFollowsEntryStep,
     ThreadIsCarriedStep, RetryIsAnewStep DEF CodexSessionInv
<1> QED BY <1>1, <1>2, PTL DEF CodexSessionSpec


\* Only the answers end a call.
LEMMA OnlyAnswersEnd ==
  ASSUME CodexSessionShape, [CodexSessionNext]_codexSessionVars,
         request.stage # "idle", request'.stage = "idle"
  PROVE  CodexAnswersCall
<1>1. ~CodexCallArrives /\ ~RestartForBundle
  BY RequestFacts
<1>2. ~CreateCodexEntry /\ ~LaunchServer
  BY StageFacts
<1>3. ~StopServer /\ ~NoServer
  BY StageFacts
<1>4. ~Initialized /\ ~OpenThread
  BY StageFacts
<1>5. ~(ServerReady /\ request.prompt)
  BY StageFacts
<1>6. ~(ThreadUnknown /\ request.prompt /\ ~request.retried)
  BY RequestFacts
<1>7. ~ServerDies /\ ~SkillsChange /\ ~UNCHANGED codexSessionVars
  BY DEF ServerDies, SkillsChange, codexSessionVars
<1> QED BY <1>1, <1>2, <1>3, <1>4, <1>5, <1>6, <1>7, CodexSessionSteps

\* Each answer has its word: a turn asked for, a failure, an unknown thread.
LEMMA AnswerWords ==
  ASSUME CodexAnswersCall
  PROVE  /\ request'.status = "submitted" => SubmitToCodex
         /\ request'.status = "unknown_thread" => ThreadUnknown
         /\ request'.status = "error" => CodexSetupFails \/ ServerStartFails \/ SubmitToCodex
<1> DEFINE told == IF codexEntry = Unset THEN "not_found" ELSE "not_running"
<1>1. CASE ReuseServer
  <2>1. Tells("already_running", codexEntry)
    BY <1>1 DEF ReuseServer
  <2> QED BY <2>1, TellsFacts DEF CodexAnswers
<1>2. CASE CodexSetupFails
  <2>1. Tells("error", Unset)
    BY <1>2 DEF CodexSetupFails
  <2> QED BY <1>2, <2>1, TellsFacts DEF CodexAnswers
<1>3. CASE ServerReady /\ ~request.prompt
  <2>1. Tells("started", codexEntry)
    BY <1>3 DEF ServerReady
  <2> QED BY <2>1, TellsFacts DEF CodexAnswers
<1>4. CASE ServerStartFails
  <2>1. Tells("error", codexEntry)
    BY <1>4 DEF ServerStartFails, StartError
  <2> QED BY <1>4, <2>1, TellsFacts DEF CodexAnswers
<1>5. CASE ThreadUnknown /\ ~(request.prompt /\ ~request.retried)
  <2>1. Tells("unknown_thread", codexEntry)
    BY <1>5 DEF ThreadUnknown, StartError
  <2> QED BY <1>5, <2>1, TellsFacts DEF CodexAnswers
<1>6. CASE CodexRefuses
  <2>1. told \in {"not_found", "not_running"} /\ Tells(told, codexEntry)
    BY <1>6 DEF CodexRefuses
  <2> HIDE DEF told
  <2> QED BY <2>1, TellsFacts DEF CodexAnswers
<1>7. CASE RestartRequired
  <2>1. Tells("restart_required", Named)
    BY <1>7 DEF RestartRequired
  <2> QED BY <2>1, TellsFacts DEF CodexAnswers
<1>8. CASE SubmitToCodex
  <2>1. Tells("error", Named) \/ Tells("submitted", Named)
    BY <1>8 DEF SubmitToCodex
  <2> QED BY <1>8, <2>1, TellsFacts DEF CodexAnswers
<1> QED BY <1>1, <1>2, <1>3, <1>4, <1>5, <1>6, <1>7, <1>8 DEF CodexAnswersCall

\* Whatever the bundle, the failures and the exits of the process, a turn is
\* asked for in the thread of the conversation and with the bundle last read, no
\* prompt fails over a thread that is unknown, and no failed start leaves a process.
THEOREM ConversationKept == CodexSessionSpec => ConversationIsKept
<1>1. ASSUME CodexSessionInv, [CodexSessionNext]_codexSessionVars, Told("submitted")
      PROVE  /\ server.thread = codexEntry'.thread /\ server.bundle = codexEntry'.bundle
             /\ request.before \in kept => codexEntry'.thread = request.before
  <2>1. /\ CodexSessionShape /\ ServerFollowsEntry /\ ClientFollowsEntry /\ ThreadIsCarried
        /\ request.stage # "idle" /\ request'.stage = "idle" /\ request'.status = "submitted"
    BY <1>1 DEF CodexSessionInv, Told
  <2>2. SubmitToCodex
    BY <1>1, <2>1, OnlyAnswersEnd, AnswerWords
  <2>3. /\ request.stage = "prompt" /\ Up /\ onDisk = codexEntry.bundle
        /\ codexEntry # Unset
    BY <2>2 DEF SubmitToCodex, BundleChanged, Up
  <2>4. request.thread \in {NoThread, codexEntry.thread}
    BY <2>1, <2>3 DEF ClientFollowsEntry
  <2>5. /\ Named.thread = codexEntry.thread /\ Named \in CodexEntries
    BY <2>1, <2>3, <2>4, NamedFacts
  <2>6. codexEntry'.thread = codexEntry.thread /\ codexEntry'.bundle = codexEntry.bundle
    BY <2>2, <2>3, <2>5 DEF SubmitToCodex, CodexEntries
  <2>7. server.thread = codexEntry.thread /\ server.bundle = codexEntry.bundle
    BY <2>1, <2>3 DEF ServerFollowsEntry, Up
  <2>8. request.before \in kept => codexEntry.thread = request.before
    BY <2>1, <2>3 DEF ThreadIsCarried
  <2> QED BY <2>6, <2>7, <2>8
<1>2. ASSUME CodexSessionInv, [CodexSessionNext]_codexSessionVars, Told("unknown_thread")
      PROVE  ~request.prompt
  <2>1. /\ CodexSessionShape /\ RetryIsAnew
        /\ request.stage # "idle" /\ request'.stage = "idle"
        /\ request'.status = "unknown_thread"
    BY <1>2 DEF CodexSessionInv, Told
  <2>2. ThreadUnknown
    BY <1>2, <2>1, OnlyAnswersEnd, AnswerWords
  <2>3. ~(request.prompt /\ ~request.retried)
    BY <2>1, <2>2, RequestFacts
  <2>4. request.stage = "thread" /\ codexEntry.thread # NoThread
    BY <2>2 DEF ThreadUnknown
  <2>5. ~request.retried
    BY <2>1, <2>4 DEF RetryIsAnew
  <2> QED BY <2>3, <2>5
<1>3. ASSUME CodexSessionInv, [CodexSessionNext]_codexSessionVars,
             request.stage \in Starting, Told("error")
      PROVE  server' = Unset
  <2>1. /\ CodexSessionShape /\ ServerFollowsEntry
        /\ request.stage # "idle" /\ request'.stage = "idle" /\ request'.status = "error"
    BY <1>3 DEF CodexSessionInv, Told
  <2>2. CodexSetupFails \/ ServerStartFails \/ SubmitToCodex
    BY <1>3, <2>1, OnlyAnswersEnd, AnswerWords
  <2>3. ~SubmitToCodex
    BY <1>3 DEF SubmitToCodex, Starting
  <2>4. CodexSetupFails => server' = Unset
    BY <2>1 DEF CodexSetupFails, ServerFollowsEntry
  <2>5. ServerStartFails => server' = Unset
    BY DEF ServerStartFails, StartError
  <2> QED BY <2>2, <2>3, <2>4, <2>5
<1>4. CodexSessionInv /\ [CodexSessionNext]_codexSessionVars
        => [ Told("submitted") =>
               server.thread = codexEntry'.thread /\ server.bundle = codexEntry'.bundle
           ]_codexSessionVars
  BY <1>1
<1>5. CodexSessionInv /\ [CodexSessionNext]_codexSessionVars
        => [ Told("submitted") /\ request.before \in kept
               => codexEntry'.thread = request.before ]_codexSessionVars
  BY <1>1
<1>6. CodexSessionInv /\ [CodexSessionNext]_codexSessionVars
        => [ Told("unknown_thread") => ~request.prompt ]_codexSessionVars
  BY <1>2
<1>7. CodexSessionInv /\ [CodexSessionNext]_codexSessionVars
        => [ request.stage \in Starting /\ Told("error") => server' = Unset ]_codexSessionVars
  BY <1>3
<1> QED BY <1>4, <1>5, <1>6, <1>7, CodexSessionCorrect, PTL
        DEF CodexSessionSpec, ConversationIsKept, ThreadIsOpen, ThreadSurvives,
            PromptFindsThread, FailedStartLeavesNothing
-----------------------------------------------------------------------------
(* The starts and the prompts of a Claude conversation: what a process was  *)
(* started with is what the entry says, but for the reveal mode.            *)

ClaudeAsks == [model : Models \cup {NotGiven}, reveal : BOOLEAN \cup {NotGiven},
               port : Ports \cup {NotGiven}, session : Nat]
ClaudeEntries == [model : Models \cup {NotGiven}, reveal : BOOLEAN, token : Nat,
                  port : Ports, bundle : Nat, session : Nat]
ClaudeWords == {"none", "already_running", "started", "error", "not_found", "not_running",
                "submitted"}
ClaudeCalls == [stage : {"idle", "start", "setup", "launch", "prompt"}, prompt : BOOLEAN,
                wanted : ClaudeAsks, asked : ClaudeAsks, resume : Nat, retried : BOOLEAN,
                status : ClaudeWords]

SessionShape ==
  /\ call \in ClaudeCalls
  /\ entry \in ClaudeEntries \cup {Missing}
  /\ agent \in ClaudeEntries \cup {Missing}
  /\ token \in Nat /\ bundle \in Nat /\ sessions \in Nat

\* a live process has an entry, and runs with its model and its bundle
AgentFollowsEntry ==
  /\ call.stage \in {"setup", "launch"} => agent = Missing
  /\ call.stage = "launch" => entry \in ClaudeEntries
  /\ Runs => Registers /\ agent.model = entry.model /\ agent.bundle = entry.bundle

\* what the client asked for is what the code goes on with
AskedIsWanted ==
  /\ call.wanted.model \in {NotGiven, call.asked.model}
  /\ call.stage = "start" /\ Runs => call.asked.session = call.wanted.session

\* the session to resume, from the stop of a process to the launch of the next
SessionIsCarried ==
  call.resume # NoSession /\ ~call.retried =>
    /\ call.stage \in {"start", "setup"}
         => call.asked.session \in {call.resume, call.wanted.session} \ {NoSession}
    /\ call.stage = "launch"
         => entry.session \in {call.resume, call.wanted.session} \ {NoSession}

SessionInv == SessionShape /\ AgentFollowsEntry /\ AskedIsWanted /\ SessionIsCarried

USE DEF NoSession

\* What is not an entry of Claude.
LEMMA ClaudeEntryIsSet ==
  /\ Missing \notin ClaudeEntries
  /\ entry \in ClaudeEntries \cup {Missing} /\ entry # Missing => entry \in ClaudeEntries
BY MissingIsNoEntry DEF ClaudeEntries

\* An answer ends the call.
LEMMA ReplyFacts ==
  ASSUME NEW word \in ClaudeWords, Reply(word)
  PROVE  /\ call' \in ClaudeCalls /\ call'.stage = "idle" /\ call'.status = word
         /\ call'.wanted.model = NotGiven /\ call'.resume = NoSession
<1>1. NoAsk \in ClaudeAsks
  BY DEF NoAsk, ClaudeAsks
<1>2. NoCallNow \in ClaudeCalls /\ NoCallNow.wanted = NoAsk /\ NoCallNow.resume = NoSession
      /\ NoCallNow.stage = "idle"
  BY <1>1 DEF NoCallNow, ClaudeCalls, ClaudeWords
<1> QED BY <1>1, <1>2 DEF Reply, ClaudeCalls, NoAsk

\* What a call of the client asks for, and goes on with.
LEMMA ArrivalFacts ==
  ASSUME SessionShape, NEW r \in Requests, StartArrives(r) \/ PromptArrives(r)
  PROVE  /\ call' \in ClaudeCalls /\ call'.stage \in {"start", "prompt"}
         /\ call'.wanted = call'.asked /\ call'.resume = NoSession /\ call'.retried = FALSE
<1>1. /\ NoAsk \in ClaudeAsks
      /\ NoCallNow \in ClaudeCalls /\ NoCallNow.resume = NoSession /\ NoCallNow.retried = FALSE
  BY DEF NoAsk, NoCallNow, ClaudeAsks, ClaudeCalls, ClaudeWords
<1> DEFINE ask(s) == [model |-> r.model, reveal |-> r.reveal, port |-> r.port, session |-> s]
<1>2. \A s \in Nat : ask(s) \in ClaudeAsks
  BY DEF Requests, ClaudeAsks
<1>3. sessions \in Nat
  BY DEF SessionShape
<1> HIDE DEF ask
<1>4. CASE StartArrives(r)
  <2>1. PICK s \in {NoSession, sessions} :
          call' = [NoCallNow EXCEPT !.stage = "start", !.wanted = ask(s), !.asked = ask(s)]
    BY <1>4 DEF StartArrives, ask
  <2>2. ask(s) \in ClaudeAsks
    BY <1>2, <1>3
  <2> QED BY <1>1, <2>1, <2>2 DEF ClaudeCalls
<1>5. CASE PromptArrives(r)
  <2>1. call' = [NoCallNow EXCEPT !.stage = "prompt", !.prompt = TRUE, !.wanted = ask(NoSession),
                                  !.asked = ask(NoSession)]
    BY <1>5 DEF PromptArrives, ask
  <2>2. ask(NoSession) \in ClaudeAsks
    BY <1>2
  <2> QED BY <1>1, <2>1, <2>2 DEF ClaudeCalls
<1> QED BY <1>4, <1>5

\* A start that stops a live process, and a prompt that asks for one.
LEMMA RestartFacts ==
  ASSUME SessionShape, AgentFollowsEntry, StopToRestart \/ RestartForPrompt
  PROVE  /\ call' \in ClaudeCalls
         /\ entry' = Missing /\ agent' = Missing /\ UNCHANGED <<token, bundle, sessions>>
         /\ call'.wanted = call.wanted /\ call'.resume = entry.session
         /\ \/ /\ StopToRestart /\ call'.stage = "setup"
               /\ call.stage = "start" /\ Runs /\ call'.retried = call.retried
               /\ call'.asked.model = call.asked.model
               /\ call'.asked.session = IF call.asked.session # NoSession
                                        THEN call.asked.session ELSE entry.session
            \/ /\ RestartForPrompt /\ call'.stage = "start" /\ call'.retried = FALSE
               /\ call.asked.model # NotGiven => call'.asked.model = call.asked.model
               /\ call'.asked.session = entry.session
<1>a. /\ call \in ClaudeCalls /\ call.asked \in ClaudeAsks /\ call.wanted \in ClaudeAsks
      /\ call.asked.session \in Nat /\ call.asked.model \in Models \cup {NotGiven}
      /\ call.asked.reveal \in BOOLEAN \cup {NotGiven}
  BY DEF SessionShape, ClaudeCalls, ClaudeAsks
<1>b. entry # Missing => /\ entry \in ClaudeEntries /\ entry.session \in Nat
                         /\ entry.model \in Models \cup {NotGiven} /\ entry.port \in Ports
                         /\ entry.reveal \in BOOLEAN
  BY ClaudeEntryIsSet DEF SessionShape, ClaudeEntries
<1>1. CASE StopToRestart
  <2> DEFINE goesOn == IF call.asked.session # NoSession THEN call.asked.session ELSE entry.session
  <2>1. /\ call' = [call EXCEPT !.stage = "setup", !.asked.session = goesOn,
                                !.resume = entry.session]
        /\ call.stage = "start" /\ Runs /\ entry # Missing
        /\ entry' = Missing /\ agent' = Missing /\ UNCHANGED <<token, bundle, sessions>>
    BY <1>1 DEF StopToRestart, Registers
  <2>2. goesOn \in Nat
    BY <1>a, <1>b, <2>1
  <2> HIDE DEF goesOn
  <2> DEFINE ask == [call.asked EXCEPT !.session = goesOn]
  <2>3. ask \in ClaudeAsks /\ ask.session = goesOn /\ ask.model = call.asked.model
    BY <1>a, <2>2 DEF ClaudeAsks
  <2>4. call' = [call EXCEPT !.stage = "setup", !.asked = ask, !.resume = entry.session]
    BY <1>a, <2>1 DEF ClaudeCalls, ClaudeAsks
  <2> HIDE DEF ask
  <2>5. /\ call' \in ClaudeCalls /\ call'.stage = "setup" /\ call'.asked = ask
        /\ call'.resume = entry.session /\ call'.wanted = call.wanted
        /\ call'.retried = call.retried
    BY <1>a, <1>b, <2>1, <2>3, <2>4 DEF ClaudeCalls
  <2> QED BY <1>1, <2>1, <2>3, <2>5 DEF goesOn
<1>2. CASE RestartForPrompt
  <2> DEFINE model == IF call.asked.model # NotGiven THEN call.asked.model ELSE entry.model
             ask == [model |-> model, port |-> entry.port,
                     reveal |-> Refreshed(call.asked).reveal, session |-> entry.session]
  <2>1. /\ call' = [call EXCEPT !.stage = "start", !.resume = entry.session, !.retried = FALSE,
                                !.asked = ask]
        /\ entry # Missing
        /\ entry' = Missing /\ agent' = Missing /\ UNCHANGED <<token, bundle, sessions>>
    BY <1>2 DEF RestartForPrompt, Registers
  <2>2. Refreshed(call.asked).reveal \in BOOLEAN
    BY <1>a, <1>b, <2>1 DEF Refreshed, RevealOf, ClaudeEntries
  <2>3. ask \in ClaudeAsks /\ ask.session = entry.session
    BY <1>a, <1>b, <2>1, <2>2 DEF ClaudeAsks
  <2>4. call.asked.model # NotGiven => ask.model = call.asked.model
    OBVIOUS
  <2> HIDE DEF ask
  <2>5. /\ call' \in ClaudeCalls /\ call'.stage = "start" /\ call'.asked = ask
        /\ call'.resume = entry.session /\ call'.wanted = call.wanted /\ call'.retried = FALSE
    BY <1>a, <1>b, <2>1, <2>3 DEF ClaudeCalls
  <2> QED BY <1>2, <2>1, <2>3, <2>4, <2>5
<1> QED BY <1>1, <1>2

\* What the other steps of a call do with the request.
LEMMA GoesOnFacts ==
  ASSUME SessionShape
  PROVE  /\ StartAfresh \/ Create =>
              /\ call' \in ClaudeCalls /\ call'.wanted = call.wanted /\ call'.asked = call.asked
              /\ call'.resume = call.resume /\ call'.retried = call.retried
              /\ call'.stage = IF StartAfresh THEN "setup" ELSE "launch"
         /\ LaunchClaude /\ call.prompt =>
              /\ call' \in ClaudeCalls /\ call'.wanted = call.wanted /\ call'.asked = call.asked
              /\ call'.resume = call.resume /\ call'.stage = "prompt"
         /\ \A unknown \in BOOLEAN : StartFails(unknown) =>
              /\ call' \in ClaudeCalls
              /\ \/ call'.stage = "idle" /\ Reply("error")
                 \/ /\ call'.stage = "start" /\ call'.retried = TRUE
                    /\ call'.wanted = call.wanted /\ call'.asked.model = call.asked.model
<1>a. /\ call \in ClaudeCalls /\ call.asked \in ClaudeAsks
  BY DEF SessionShape, ClaudeCalls
<1>1. ASSUME StartAfresh \/ Create
      PROVE  /\ call' \in ClaudeCalls /\ call'.wanted = call.wanted /\ call'.asked = call.asked
             /\ call'.resume = call.resume /\ call'.retried = call.retried
             /\ call'.stage = IF StartAfresh THEN "setup" ELSE "launch"
  <2>1. CASE StartAfresh
    <3>1. call' = [call EXCEPT !.stage = "setup"]
      BY <2>1 DEF StartAfresh
    <3> QED BY <1>a, <2>1, <3>1 DEF ClaudeCalls
  <2>2. CASE Create
    <3>1. call' = [call EXCEPT !.stage = "launch"] /\ call.stage = "setup"
      BY <2>2 DEF Create
    <3>2. ~StartAfresh
      BY <3>1 DEF StartAfresh
    <3> QED BY <1>a, <3>1, <3>2 DEF ClaudeCalls
  <2> QED BY <1>1, <2>1, <2>2
<1>2. ASSUME LaunchClaude, call.prompt
      PROVE  /\ call' \in ClaudeCalls /\ call'.wanted = call.wanted /\ call'.asked = call.asked
             /\ call'.resume = call.resume /\ call'.stage = "prompt"
  <2>1. call' = [call EXCEPT !.stage = "prompt"]
    BY <1>2 DEF LaunchClaude
  <2> QED BY <1>a, <2>1 DEF ClaudeCalls
<1>3. ASSUME NEW unknown \in BOOLEAN, StartFails(unknown)
      PROVE  /\ call' \in ClaudeCalls
              /\ \/ call'.stage = "idle" /\ Reply("error")
                 \/ /\ call'.stage = "start" /\ call'.retried = TRUE
                    /\ call'.wanted = call.wanted /\ call'.asked.model = call.asked.model
  <2>1. CASE Reply("error")
    <3>1. "error" \in ClaudeWords
      BY DEF ClaudeWords
    <3> QED BY <2>1, <3>1, ReplyFacts
  <2>2. CASE call' = [call EXCEPT !.stage = "start", !.retried = TRUE, !.asked.session = NoSession]
    <3> DEFINE ask == [call.asked EXCEPT !.session = NoSession]
    <3>1. ask \in ClaudeAsks /\ ask.model = call.asked.model
      BY <1>a DEF ClaudeAsks
    <3>2. call' = [call EXCEPT !.stage = "start", !.retried = TRUE, !.asked = ask]
      BY <1>a, <2>2 DEF ClaudeCalls, ClaudeAsks
    <3> HIDE DEF ask
    <3> QED BY <1>a, <3>1, <3>2 DEF ClaudeCalls
  <2> QED BY <1>3, <2>1, <2>2 DEF StartFails
<1> QED BY <1>1, <1>2, <1>3

\* The entry a start registers.
LEMMA CreateFacts ==
  ASSUME SessionShape, Create
  PROVE  /\ entry' \in ClaudeEntries /\ entry' # Missing
         /\ entry'.session = call.asked.session
<1>1. entry' = [model |-> call.asked.model, reveal |-> RevealOf(call.asked, FALSE),
                token |-> token, port |-> PortOf(call.asked, LeasedPort),
                bundle |-> bundle, session |-> call.asked.session]
  BY DEF Create
<1>2. /\ RevealOf(call.asked, FALSE) \in BOOLEAN
      /\ PortOf(call.asked, LeasedPort) \in Ports /\ token \in Nat /\ bundle \in Nat
      /\ call.asked.session \in Nat /\ call.asked.model \in Models \cup {NotGiven}
  BY SessionAssumption DEF RevealOf, PortOf, ClaudeAsks, ClaudeCalls, SessionShape
<1>3. entry' \in ClaudeEntries /\ entry'.session = call.asked.session
  BY <1>1, <1>2 DEF ClaudeEntries
<1> QED BY <1>3, ClaudeEntryIsSet

\* Every step leaves the state well typed.
LEMMA SessionShapeStep ==
  ASSUME SessionShape, AgentFollowsEntry, [SessionNext]_sessionVars
  PROVE  SessionShape'
<1> USE DEF SessionShape
<1>a. /\ call \in ClaudeCalls /\ call.asked \in ClaudeAsks /\ call.asked.session \in Nat
      /\ call.asked.model \in Models \cup {NotGiven}
  BY DEF ClaudeCalls, ClaudeAsks
<1>b. "already_running" \in ClaudeWords /\ "error" \in ClaudeWords /\ "started" \in ClaudeWords
      /\ "not_found" \in ClaudeWords /\ "not_running" \in ClaudeWords
      /\ "submitted" \in ClaudeWords
  BY DEF ClaudeWords
<1>1. ASSUME NEW r \in Requests, StartArrives(r) \/ PromptArrives(r)
      PROVE  SessionShape'
  <2>1. UNCHANGED <<entry, agent, token, bundle, sessions>>
    BY <1>1 DEF StartArrives, PromptArrives
  <2> QED BY <1>1, <2>1, ArrivalFacts
<1>2. CASE ReuseAgent
  <2>1. Reply("already_running") /\ UNCHANGED <<entry, agent, token, bundle, sessions>>
    BY <1>2 DEF ReuseAgent
  <2> QED BY <1>b, <2>1, ReplyFacts
<1>3. CASE StopToRestart \/ RestartForPrompt
  <2>1. /\ call' \in ClaudeCalls
        /\ entry' = Missing /\ agent' = Missing /\ UNCHANGED <<token, bundle, sessions>>
    BY <1>3, RestartFacts
  <2> QED BY <2>1
<1>4. CASE StartAfresh
  <2>1. call' \in ClaudeCalls /\ UNCHANGED <<entry, agent, token, bundle, sessions>>
    BY <1>4, GoesOnFacts DEF StartAfresh
  <2> QED BY <2>1
<1>5. CASE SetupFailed
  <2>1. call' \in ClaudeCalls /\ UNCHANGED <<entry, agent, token, bundle, sessions>>
    BY <1>5, GoesOnFacts DEF SetupFailed
  <2> QED BY <2>1
<1>6. CASE Create
  <2>1. call' \in ClaudeCalls /\ UNCHANGED <<agent, token, bundle, sessions>>
    BY <1>6, GoesOnFacts DEF Create
  <2>2. entry' \in ClaudeEntries
    BY <1>6, CreateFacts
  <2> QED BY <2>1, <2>2
<1>7. CASE LaunchClaude
  <2>1. agent' = entry /\ UNCHANGED <<entry, token, bundle, sessions>>
    BY <1>7 DEF LaunchClaude
  <2>2. call' \in ClaudeCalls
    <3>1. CASE call.prompt
      BY <1>7, <3>1, GoesOnFacts
    <3>2. CASE ~call.prompt
      <4>1. Reply("started")
        BY <1>7, <3>2 DEF LaunchClaude
      <4> QED BY <1>b, <4>1, ReplyFacts
    <3> QED BY <3>1, <3>2
  <2> QED BY <2>1, <2>2
<1>8. CASE LaunchFails
  <2>1. call' \in ClaudeCalls /\ UNCHANGED <<entry, agent, token, bundle, sessions>>
    BY <1>8, GoesOnFacts DEF LaunchFails
  <2> QED BY <2>1
<1>9. CASE RefusePrompt
  <2>1. /\ Reply("not_found") \/ Reply("not_running")
        /\ UNCHANGED <<entry, agent, token, bundle, sessions>>
    BY <1>9 DEF RefusePrompt
  <2> QED BY <1>b, <2>1, ReplyFacts
<1>10. CASE SubmitPrompt
  <2>1. /\ Reply("submitted") /\ entry' = Refreshed(call.asked)
        /\ UNCHANGED <<agent, token, bundle, sessions>> /\ entry # Missing
    BY <1>10 DEF SubmitPrompt, Registers
  <2>2. entry \in ClaudeEntries
    BY <2>1
  <2>3. RevealOf(call.asked, entry.reveal) \in BOOLEAN
    BY <1>a, <2>2 DEF RevealOf, ClaudeEntries, ClaudeAsks
  <2>4. entry' \in ClaudeEntries
    BY <2>1, <2>2, <2>3 DEF Refreshed, ClaudeEntries
  <2> QED BY <1>b, <2>1, <2>4, ReplyFacts
<1>11. CASE NamesSession
  <2>1. /\ agent # Missing /\ entry # Missing /\ UNCHANGED <<call, token, bundle>>
        /\ sessions' = sessions + 1
        /\ entry' = [entry EXCEPT !.session = sessions']
        /\ agent' = [agent EXCEPT !.session = sessions']
    BY <1>11 DEF NamesSession, Runs, AgentFollowsEntry, Registers
  <2>2. sessions' \in Nat /\ entry \in ClaudeEntries /\ agent \in ClaudeEntries
    BY <2>1
  <2>3. entry' \in ClaudeEntries /\ agent' \in ClaudeEntries
    BY <2>1, <2>2 DEF ClaudeEntries
  <2> QED BY <2>1, <2>2, <2>3
<1>12. CASE AgentDies
  BY <1>12 DEF AgentDies
<1>13. CASE TokenRenewed
  BY <1>13 DEF TokenRenewed
<1>14. CASE BundleChanges
  BY <1>14 DEF BundleChanges
<1>15. CASE UNCHANGED sessionVars
  BY <1>15 DEF sessionVars
<1> QED BY <1>1, <1>2, <1>3, <1>4, <1>5, <1>6, <1>7, <1>8, <1>9, <1>10, <1>11, <1>12, <1>13,
           <1>14, <1>15
        DEF SessionNext, CallStep

\* A live process keeps the model and the bundle of its entry.
LEMMA AgentFollowsEntryStep ==
  ASSUME SessionShape, AgentFollowsEntry, [SessionNext]_sessionVars
  PROVE  AgentFollowsEntry'
<1> USE ClaudeEntryIsSet DEF AgentFollowsEntry, Runs, Registers
<1>a. /\ "already_running" \in ClaudeWords /\ "error" \in ClaudeWords /\ "started" \in ClaudeWords
      /\ "not_found" \in ClaudeWords /\ "not_running" \in ClaudeWords
      /\ "submitted" \in ClaudeWords
  BY DEF ClaudeWords
<1>b. /\ entry \in ClaudeEntries \cup {Missing} /\ agent \in ClaudeEntries \cup {Missing}
  BY DEF SessionShape
<1>1. ASSUME NEW r \in Requests, StartArrives(r) \/ PromptArrives(r)
      PROVE  AgentFollowsEntry'
  <2>1. UNCHANGED <<entry, agent>>
    BY <1>1 DEF StartArrives, PromptArrives
  <2>2. call'.stage \in {"start", "prompt"}
    BY <1>1, ArrivalFacts
  <2> QED BY <2>1, <2>2
<1>2. CASE ReuseAgent \/ RefusePrompt
  <2>1. UNCHANGED <<entry, agent>>
    BY <1>2 DEF ReuseAgent, RefusePrompt
  <2>2. call'.stage = "idle"
    <3>1. CASE ReuseAgent
      <4>1. Reply("already_running")
        BY <3>1 DEF ReuseAgent
      <4> QED BY <1>a, <4>1, ReplyFacts
    <3>2. CASE RefusePrompt
      <4>1. Reply("not_found") \/ Reply("not_running")
        BY <3>2 DEF RefusePrompt
      <4> QED BY <1>a, <4>1, ReplyFacts
    <3> QED BY <1>2, <3>1, <3>2
  <2> QED BY <2>1, <2>2
<1>3. CASE StopToRestart \/ RestartForPrompt
  <2>1. agent' = Missing /\ call'.stage \in {"setup", "start"}
    BY <1>3, RestartFacts
  <2> QED BY <2>1
<1>4. CASE StartAfresh
  <2>1. call'.stage = "setup" /\ UNCHANGED <<entry, agent>> /\ ~(Registers /\ Runs)
    BY <1>4, GoesOnFacts DEF StartAfresh
  <2> QED BY <2>1
<1>5. CASE SetupFailed \/ LaunchFails
  <2>1. call.stage \in {"setup", "launch"} /\ UNCHANGED <<entry, agent>>
    BY <1>5 DEF SetupFailed, LaunchFails
  <2>2. call'.stage \in {"idle", "start"}
    BY <1>5, GoesOnFacts DEF SetupFailed, LaunchFails
  <2> QED BY <2>1, <2>2
<1>6. CASE Create
  <2>1. call.stage = "setup" /\ call'.stage = "launch" /\ agent' = agent
    BY <1>6, GoesOnFacts DEF Create, StartAfresh
  <2>2. entry' \in ClaudeEntries
    BY <1>6, CreateFacts
  <2> QED BY <2>1, <2>2
<1>7. CASE LaunchClaude
  <2>1. agent' = entry /\ entry' = entry
    BY <1>7 DEF LaunchClaude
  <2>2. call'.stage \in {"idle", "prompt"}
    <3>1. CASE call.prompt
      BY <1>7, <3>1, GoesOnFacts
    <3>2. CASE ~call.prompt
      <4>1. Reply("started")
        BY <1>7, <3>2 DEF LaunchClaude
      <4> QED BY <1>a, <4>1, ReplyFacts
    <3> QED BY <3>1, <3>2
  <2> QED BY <2>1, <2>2
<1>8. CASE SubmitPrompt
  <2>1. /\ Reply("submitted") /\ entry' = Refreshed(call.asked) /\ agent' = agent
        /\ entry \in ClaudeEntries /\ bundle = entry.bundle /\ bundle \in Nat
    BY <1>8, <1>b DEF SubmitPrompt, NeedsRestart, SessionShape
  <2>2. RevealOf(call.asked, entry.reveal) \in BOOLEAN
    BY <2>1 DEF RevealOf, ClaudeEntries, ClaudeAsks, ClaudeCalls, SessionShape
  <2>3. entry' \in ClaudeEntries /\ entry'.model = entry.model /\ entry'.bundle = entry.bundle
    BY <2>1, <2>2 DEF Refreshed, ClaudeEntries
  <2>4. call'.stage = "idle"
    BY <1>a, <2>1, ReplyFacts
  <2> QED BY <2>1, <2>3, <2>4
<1>9. CASE NamesSession
  <2>1. /\ agent \in ClaudeEntries /\ entry \in ClaudeEntries /\ call' = call
        /\ sessions' \in Nat
        /\ entry' = [entry EXCEPT !.session = sessions']
        /\ agent' = [agent EXCEPT !.session = sessions']
    BY <1>9, <1>b DEF NamesSession, SessionShape
  <2>2. /\ entry' \in ClaudeEntries
        /\ entry'.model = entry.model /\ entry'.bundle = entry.bundle
        /\ agent'.model = agent.model /\ agent'.bundle = agent.bundle
    BY <2>1 DEF ClaudeEntries
  <2> QED BY <1>9, <2>1, <2>2 DEF NamesSession
<1>10. CASE AgentDies \/ TokenRenewed \/ BundleChanges \/ UNCHANGED sessionVars
  <2>1. UNCHANGED <<entry, call>> /\ agent' \in {agent, Missing}
    BY <1>10 DEF AgentDies, TokenRenewed, BundleChanges, sessionVars
  <2> QED BY <2>1
<1> QED BY <1>1, <1>2, <1>3, <1>4, <1>5, <1>6, <1>7, <1>8, <1>9, <1>10
        DEF SessionNext, CallStep

\* The code goes on with what the client asked for.
LEMMA AskedIsWantedStep ==
  ASSUME SessionShape, AgentFollowsEntry, AskedIsWanted, [SessionNext]_sessionVars
  PROVE  AskedIsWanted'
<1> USE DEF AskedIsWanted, Runs
<1>a. /\ "already_running" \in ClaudeWords /\ "error" \in ClaudeWords /\ "started" \in ClaudeWords
      /\ "not_found" \in ClaudeWords /\ "not_running" \in ClaudeWords
      /\ "submitted" \in ClaudeWords
  BY DEF ClaudeWords
<1>b. ASSUME NEW word \in ClaudeWords, Reply(word) PROVE AskedIsWanted'
  <2>1. call'.wanted.model = NotGiven /\ call'.stage = "idle"
    BY <1>b, ReplyFacts
  <2> QED BY <2>1
<1>1. ASSUME NEW r \in Requests, StartArrives(r) \/ PromptArrives(r)
      PROVE  AskedIsWanted'
  <2>1. call'.wanted = call'.asked
    BY <1>1, ArrivalFacts
  <2> QED BY <2>1
<1>2. CASE ReuseAgent \/ RefusePrompt \/ SubmitPrompt
  <2>1. PICK word \in {"already_running", "not_found", "not_running", "submitted"} :
          Reply(word)
    BY <1>2 DEF ReuseAgent, RefusePrompt, SubmitPrompt
  <2> QED BY <1>a, <1>b, <2>1
<1>3. CASE StopToRestart \/ RestartForPrompt
  <2>1. /\ call'.wanted = call.wanted /\ agent' = Missing
        /\ \/ call'.asked.model = call.asked.model
           \/ call.asked.model # NotGiven => call'.asked.model = call.asked.model
    BY <1>3, RestartFacts
  <2> QED BY <2>1
<1>4. CASE StartAfresh \/ Create
  <2>1. /\ call'.wanted = call.wanted /\ call'.asked = call.asked
        /\ call'.stage = IF StartAfresh THEN "setup" ELSE "launch"
    BY <1>4, GoesOnFacts
  <2> QED BY <2>1
<1>5. CASE SetupFailed \/ LaunchFails
  <2>1. /\ call.stage \in {"setup", "launch"} /\ agent' = agent
        /\ \E unknown \in BOOLEAN : StartFails(unknown)
    BY <1>5 DEF SetupFailed, LaunchFails
  <2>2. \/ Reply("error")
        \/ call'.wanted = call.wanted /\ call'.asked.model = call.asked.model
    BY <2>1, GoesOnFacts
  <2>3. agent' = Missing
    BY <2>1 DEF AgentFollowsEntry
  <2> QED BY <1>a, <1>b, <2>2, <2>3
<1>6. CASE LaunchClaude
  <2>1. CASE call.prompt
    <3>1. call'.wanted = call.wanted /\ call'.asked = call.asked /\ call'.stage = "prompt"
      BY <1>6, <2>1, GoesOnFacts
    <3> QED BY <3>1
  <2>2. CASE ~call.prompt
    <3>1. Reply("started")
      BY <1>6, <2>2 DEF LaunchClaude
    <3> QED BY <1>a, <1>b, <3>1
  <2> QED BY <2>1, <2>2
<1>7. CASE NamesSession
  <2>1. call' = call /\ Runs
    BY <1>7 DEF NamesSession
  <2> QED BY <2>1
<1>8. CASE AgentDies \/ TokenRenewed \/ BundleChanges \/ UNCHANGED sessionVars
  <2>1. call' = call /\ agent' \in {agent, Missing}
    BY <1>8 DEF AgentDies, TokenRenewed, BundleChanges, sessionVars
  <2> QED BY <2>1
<1> QED BY <1>1, <1>2, <1>3, <1>4, <1>5, <1>6, <1>7, <1>8 DEF SessionNext, CallStep

\* A session is carried from the process that is stopped to the next.
LEMMA SessionIsCarriedStep ==
  ASSUME SessionShape, AgentFollowsEntry, AskedIsWanted, SessionIsCarried,
         [SessionNext]_sessionVars
  PROVE  SessionIsCarried'
<1> USE DEF SessionIsCarried
<1>a. /\ "already_running" \in ClaudeWords /\ "error" \in ClaudeWords /\ "started" \in ClaudeWords
      /\ "not_found" \in ClaudeWords /\ "not_running" \in ClaudeWords
      /\ "submitted" \in ClaudeWords
  BY DEF ClaudeWords
<1>b. ASSUME NEW word \in ClaudeWords, Reply(word) PROVE SessionIsCarried'
  <2>1. call'.resume = NoSession
    BY <1>b, ReplyFacts
  <2> QED BY <2>1
<1>1. ASSUME NEW r \in Requests, StartArrives(r) \/ PromptArrives(r)
      PROVE  SessionIsCarried'
  <2>1. call'.resume = NoSession
    BY <1>1, ArrivalFacts
  <2> QED BY <2>1
<1>2. CASE ReuseAgent \/ RefusePrompt \/ SubmitPrompt
  <2>1. PICK word \in {"already_running", "not_found", "not_running", "submitted"} :
          Reply(word)
    BY <1>2 DEF ReuseAgent, RefusePrompt, SubmitPrompt
  <2> QED BY <1>a, <1>b, <2>1
<1>3. CASE StopToRestart \/ RestartForPrompt
  <2>1. /\ call'.wanted = call.wanted /\ call'.resume = entry.session
        /\ \/ /\ call'.stage = "setup" /\ call.stage = "start" /\ Runs
              /\ call'.asked.session = IF call.asked.session # NoSession
                                       THEN call.asked.session ELSE entry.session
           \/ /\ call'.stage = "start" /\ call'.asked.session = entry.session
    BY <1>3, RestartFacts
  <2> QED BY <2>1 DEF AskedIsWanted
<1>4. CASE StartAfresh
  <2>1. /\ call.stage = "start" /\ call'.stage = "setup"
        /\ call'.wanted = call.wanted /\ call'.asked = call.asked
        /\ call'.resume = call.resume /\ call'.retried = call.retried
    BY <1>4, GoesOnFacts DEF StartAfresh
  <2> QED BY <2>1
<1>5. CASE Create
  <2>1. call.stage = "setup" /\ ~StartAfresh
    BY <1>5 DEF Create, StartAfresh
  <2>2. /\ call'.stage = "launch" /\ call'.wanted = call.wanted
        /\ call'.resume = call.resume /\ call'.retried = call.retried
    BY <1>5, <2>1, GoesOnFacts
  <2>3. entry'.session = call.asked.session
    BY <1>5, CreateFacts
  <2> QED BY <2>1, <2>2, <2>3
<1>6. CASE SetupFailed \/ LaunchFails
  <2>1. \E unknown \in BOOLEAN : StartFails(unknown)
    BY <1>6 DEF SetupFailed, LaunchFails
  <2>2. Reply("error") \/ call'.retried = TRUE
    BY <2>1, GoesOnFacts
  <2> QED BY <1>a, <1>b, <2>2
<1>7. CASE LaunchClaude
  <2>1. CASE call.prompt
    <3>1. call'.stage = "prompt"
      BY <1>7, <2>1, GoesOnFacts
    <3> QED BY <3>1
  <2>2. CASE ~call.prompt
    <3>1. Reply("started")
      BY <1>7, <2>2 DEF LaunchClaude
    <3> QED BY <1>a, <1>b, <3>1
  <2> QED BY <2>1, <2>2
<1>8. CASE NamesSession
  <2>1. call' = call /\ call.stage # "launch"
    BY <1>8 DEF NamesSession, AgentFollowsEntry, Runs
  <2> QED BY <2>1
<1>9. CASE AgentDies \/ TokenRenewed \/ BundleChanges \/ UNCHANGED sessionVars
  <2>1. UNCHANGED <<call, entry>>
    BY <1>9 DEF AgentDies, TokenRenewed, BundleChanges, sessionVars
  <2> QED BY <2>1
<1> QED BY <1>1, <1>2, <1>3, <1>4, <1>5, <1>6, <1>7, <1>8, <1>9 DEF SessionNext, CallStep

\* The strengthened invariant of the conversation.
LEMMA SessionCorrect == SessionSpec => []SessionInv
<1>1. SessionInit => SessionInv
  <2> SUFFICES ASSUME SessionInit PROVE SessionInv
    OBVIOUS
  <2>1. NoAsk \in ClaudeAsks /\ NoAsk.model = NotGiven
    BY DEF NoAsk, ClaudeAsks
  <2>2. call \in ClaudeCalls /\ call.wanted = NoAsk /\ call.stage = "idle" /\ call.resume = NoSession
    BY <2>1 DEF SessionInit, NoCallNow, ClaudeCalls, ClaudeWords
  <2> QED BY <2>1, <2>2 DEF SessionInit, SessionInv, SessionShape, AgentFollowsEntry,
             AskedIsWanted, SessionIsCarried, Runs
<1>2. SessionInv /\ [SessionNext]_sessionVars => SessionInv'
  BY SessionShapeStep, AgentFollowsEntryStep, AskedIsWantedStep, SessionIsCarriedStep
     DEF SessionInv
<1> QED BY <1>1, <1>2, PTL DEF SessionSpec

\* Only claudePrompt submits, and only a launch gives a conversation a process.
LEMMA OnlySubmits ==
  ASSUME SessionShape, AgentFollowsEntry, [SessionNext]_sessionVars
  PROVE  /\ Answers("submitted") => SubmitPrompt
         /\ agent' # Missing /\ agent = Missing => LaunchClaude
<1>a. /\ "already_running" \in ClaudeWords /\ "error" \in ClaudeWords /\ "started" \in ClaudeWords
      /\ "not_found" \in ClaudeWords /\ "not_running" \in ClaudeWords
  BY DEF ClaudeWords
<1>b. ASSUME NEW word \in ClaudeWords \ {"submitted"}, Reply(word) PROVE ~Answers("submitted")
  BY <1>b, ReplyFacts DEF Answers
<1>c. ASSUME NEW word \in {"already_running", "error", "started", "not_found", "not_running"},
             Reply(word)
      PROVE  ~Answers("submitted")
  BY <1>a, <1>b, <1>c
<1>d. ASSUME call'.stage # "idle" PROVE ~Answers("submitted")
  BY <1>d DEF Answers
<1>1. ASSUME NEW r \in Requests, StartArrives(r) \/ PromptArrives(r)
      PROVE  agent' = agent /\ ~Answers("submitted")
  BY <1>1, <1>d, ArrivalFacts DEF StartArrives, PromptArrives
<1>2. ReuseAgent \/ RefusePrompt => agent' = agent /\ ~Answers("submitted")
  <2>1. ReuseAgent \/ RefusePrompt =>
          /\ agent' = agent
          /\ \E word \in {"already_running", "not_found", "not_running"} : Reply(word)
    BY DEF ReuseAgent, RefusePrompt
  <2> QED BY <1>c, <2>1
<1>3. StopToRestart \/ RestartForPrompt => agent' = Missing /\ ~Answers("submitted")
  BY <1>d, RestartFacts
<1>4. StartAfresh \/ Create => agent' = agent /\ ~Answers("submitted")
  <2>1. StartAfresh \/ Create => agent' = agent /\ call'.stage # "idle"
    BY GoesOnFacts DEF StartAfresh, Create
  <2> QED BY <1>d, <2>1
<1>5. SetupFailed \/ LaunchFails => agent' = agent /\ ~Answers("submitted")
  <2>1. SetupFailed \/ LaunchFails =>
          agent' = agent /\ \E unknown \in BOOLEAN : StartFails(unknown)
    BY DEF SetupFailed, LaunchFails
  <2>2. (\E unknown \in BOOLEAN : StartFails(unknown)) => Reply("error") \/ call'.stage = "start"
    BY GoesOnFacts
  <2> QED BY <1>c, <1>d, <2>1, <2>2
<1>6. LaunchClaude => ~Answers("submitted")
  <2>1. LaunchClaude /\ call.prompt => call'.stage = "prompt"
    BY GoesOnFacts
  <2>2. LaunchClaude /\ ~call.prompt => Reply("started")
    BY DEF LaunchClaude
  <2> QED BY <1>c, <1>d, <2>1, <2>2
<1>7. SubmitPrompt => agent' = agent
  BY DEF SubmitPrompt
<1>8. NamesSession => agent # Missing /\ ~Answers("submitted")
  BY DEF NamesSession, Runs, Answers
<1>9. AgentDies \/ TokenRenewed \/ BundleChanges \/ UNCHANGED sessionVars
        => agent' \in {agent, Missing} /\ ~Answers("submitted")
  BY DEF AgentDies, TokenRenewed, BundleChanges, sessionVars, Answers
<1> QED BY <1>1, <1>2, <1>3, <1>4, <1>5, <1>6, <1>7, <1>8, <1>9 DEF SessionNext, CallStep

\* A restart for another model, another bundle or another port loses neither the
\* options of the prompt nor the session of the conversation.
THEOREM RestartsCorrect == SessionSpec => RestartsAsAsked
<1>1. ASSUME SessionInv, [SessionNext]_sessionVars, Answers("submitted")
      PROVE  ~Differs(call.wanted.model, agent.model) /\ agent.bundle = entry'.bundle
  <2>1. SessionShape /\ AgentFollowsEntry /\ AskedIsWanted
    BY <1>1 DEF SessionInv
  <2>2. SubmitPrompt
    BY <1>1, <2>1, OnlySubmits
  <2>3. /\ Runs /\ entry \in ClaudeEntries /\ ~Differs(call.asked.model, entry.model)
        /\ bundle = entry.bundle /\ entry' = Refreshed(call.asked)
    BY <2>1, <2>2, ClaudeEntryIsSet DEF SubmitPrompt, NeedsRestart, Registers, SessionShape
  <2>4. entry'.bundle = bundle
    BY <2>3 DEF Refreshed, ClaudeEntries
  <2>5. agent.model = entry.model /\ agent.bundle = entry.bundle
    BY <2>1, <2>3 DEF AgentFollowsEntry
  <2> QED BY <2>1, <2>3, <2>4, <2>5 DEF AskedIsWanted, Differs
<1>2. ASSUME SessionInv, [SessionNext]_sessionVars, agent' # Missing, agent = Missing,
             call.resume # NoSession, ~call.retried
      PROVE  agent'.session \in {call.resume, call.wanted.session} \ {NoSession}
  <2>1. SessionShape /\ AgentFollowsEntry /\ SessionIsCarried
    BY <1>2 DEF SessionInv
  <2>2. LaunchClaude
    BY <1>2, <2>1, OnlySubmits
  <2>3. call.stage = "launch" /\ agent' = entry
    BY <2>2 DEF LaunchClaude
  <2> QED BY <1>2, <2>1, <2>3 DEF SessionIsCarried
<1>3. SessionInv /\ [SessionNext]_sessionVars
        => [ Answers("submitted") =>
               /\ ~Differs(call.wanted.model, agent.model)
               /\ agent.bundle = entry'.bundle ]_sessionVars
  BY <1>1
<1>4. SessionInv /\ [SessionNext]_sessionVars
        => [ agent' # Missing /\ agent = Missing /\ call.resume # NoSession /\ ~call.retried
               => agent'.session \in {call.resume, call.wanted.session} \ {NoSession}
           ]_sessionVars
  BY <1>2
<1> QED BY <1>3, <1>4, SessionCorrect, PTL
        DEF SessionSpec, RestartsAsAsked, SubmittedAsChosen, RestartResumes

-----------------------------------------------------------------------------
(* Side by side                                                             *)

\* In every scene the other parts stand still: a behaviour of the whole is a
\* behaviour of each part.
LEMMA AgentsArePlayed ==
  AgentsSpec => CodexTurnsSpec /\ CodexSessionSpec /\ ClaudeSpec /\ SessionSpec
<1> DEFINE vs == <<scene, codexTurnsVars, codexSessionVars, claudeVars, sessionVars>>
<1>1. AgentsInit => CodexTurnsInit /\ CodexSessionInit /\ ClaudeInit /\ SessionInit
  BY DEF AgentsInit
<1>2. [AgentsNext]_vs => [CodexTurnsNext]_codexTurnsVars
  BY DEF AgentsNext, Plays
<1>3. [AgentsNext]_vs => [CodexSessionNext]_codexSessionVars
  BY DEF AgentsNext, Plays
<1>4. [AgentsNext]_vs => [ClaudeNext]_claudeVars
  BY DEF AgentsNext, Plays
<1>5. [AgentsNext]_vs => [SessionNext]_sessionVars
  BY DEF AgentsNext, Plays
<1> QED BY <1>1, <1>2, <1>3, <1>4, <1>5, PTL
        DEF AgentsSpec, CodexTurnsSpec, CodexSessionSpec, ClaudeSpec, SessionSpec

\* The safety properties of the turns and of the processes, side by side: those
\* that the run of MCAgents checks, for every number of calls, of faults and of models.
THEOREM AgentsCorrect ==
  ASSUME Patient, Patience
  PROVE  AgentsSpec => /\ []TurnsInv
                       /\ EveryEndIsReported
                       /\ ConversationIsKept
                       /\ RestartsAsAsked
<1>1. CodexTurnsSpec /\ ClaudeSpec => []TurnsInv
  BY TurnsCorrect
<1>2. CodexTurnsSpec => EveryEndIsReported
  BY EndsReported
<1> QED BY <1>1, <1>2, AgentsArePlayed, ConversationKept, RestartsCorrect, PTL
=============================================================================
