-------------------------- MODULE AgentTurns_proofs --------------------------
(* Theorems about AgentTurns, for every set of calls, of other requests and *)
(* of interrupts.                                                          *)
EXTENDS AgentTurns, TLAPS

USE DEF Requesters

\* A prompt call's step, or a step of another request.
RequesterStep(r) == (r \in Calls /\ CallStep(r)) \/ (r \in Others /\ OtherStep(r))

\* The steps that sendAcpRequest and waitForPending are for both.
SharedStep(r) ==
  ReadRequestId(r) \/ FilePending(r) \/ WriteRequest(r) \/ TakeAnswer(r) \/ GiveUp(r)

\* What reading the first line of a pipe does.
LEMMA TailFacts ==
  ASSUME NEW S, NEW s \in Seq(S), s # <<>>
  PROVE  /\ Head(s) \in S
         /\ Tail(s) \in Seq(S)
         /\ 1 \in DOMAIN s /\ s[1] = Head(s)
         /\ \A k \in DOMAIN Tail(s) :
              k + 1 \in DOMAIN s /\ k + 1 # 1 /\ Tail(s)[k] = s[k + 1]
OBVIOUS

\* What printing a line on a pipe does.
LEMMA AppendFacts ==
  ASSUME NEW S, NEW s \in Seq(S), NEW e \in S
  PROVE  /\ Append(s, e) \in Seq(S)
         /\ DOMAIN s \subseteq DOMAIN Append(s, e)
         /\ \A k \in DOMAIN Append(s, e) :
              \/ k \in DOMAIN s /\ Append(s, e)[k] = s[k]
              \/ k = Len(s) + 1 /\ k \notin DOMAIN s /\ Append(s, e)[k] = e
OBVIOUS

\* A pipe starts, and ends with its process, empty.
LEMMA EmptyPipe ==
  ASSUME NEW S PROVE <<>> \in Seq(S) /\ DOMAIN <<>> = {}
OBVIOUS

\* Every variable keeps its type, whatever the calls overlap and wait for.
THEOREM TypeCorrect == Spec => []TypeOK
<1> USE DEF flagVars, readVars, intrVars, stopVars, agentVars, callVars
<1>1. Init => TypeOK
  <2> SUFFICES ASSUME Init PROVE TypeOK
    OBVIOUS
  <2>1. CallsOK
    BY DEF Init, CallsOK
  <2>2. ThreadsOK
    BY DEF Init, ThreadsOK
  <2>3. PipesOK
    BY EmptyPipe DEF Init, PipesOK
  <2>4. turnActive \in BOOLEAN /\ alive \in BOOLEAN
    BY DEF Init
  <2>5. QED
    BY <2>1, <2>2, <2>3, <2>4 DEF TypeOK
<1>2. TypeOK /\ [Next]_vars => (turnActive \in BOOLEAN /\ alive \in BOOLEAN)'
  <2> SUFFICES ASSUME TypeOK, [Next]_vars
               PROVE  (turnActive \in BOOLEAN /\ alive \in BOOLEAN)'
    OBVIOUS
  <2>1. ASSUME NEW c \in Calls, CallStep(c)
        PROVE  (turnActive \in BOOLEAN /\ alive \in BOOLEAN)'
    BY <2>1 DEF TypeOK, CallStep, Receive, CheckBusy, ReadRequestId, FilePending,
      WriteRequest, ClaimTurn, RaiseTurn, TakeAnswer, GiveUp, FailDrop, FailClear
  <2>2. ASSUME ReaderStep PROVE (turnActive \in BOOLEAN /\ alive \in BOOLEAN)'
    BY <2>2 DEF TypeOK, ReaderStep, Deliver, EndTurn, ClearTurn, ReaderExit
  <2>3. ASSUME NEW i \in Interrupts, InterruptStep(i)
        PROVE  (turnActive \in BOOLEAN /\ alive \in BOOLEAN)'
    BY <2>3 DEF TypeOK, InterruptStep, StartInterrupt, WriteCancel, EndInterrupt
  <2>4. ASSUME StopStep PROVE (turnActive \in BOOLEAN /\ alive \in BOOLEAN)'
    BY <2>4 DEF TypeOK, StopStep, CloseWriter, KillTree, CloseDrop, CloseClear, Gone
  <2>5. ASSUME AgentStep \/ AgentExits
        PROVE  (turnActive \in BOOLEAN /\ alive \in BOOLEAN)'
    BY <2>5 DEF TypeOK, AgentStep, AgentTakesPrompt, AgentTakesRequest,
      AgentTakesCancel, AgentEndsTurn, AgentExits, Gone
  <2>6. CASE UNCHANGED vars
    BY <2>6 DEF TypeOK, vars
  <2>7. ASSUME NEW q \in Others, OtherStep(q)
        PROVE  (turnActive \in BOOLEAN /\ alive \in BOOLEAN)'
    BY <2>7 DEF TypeOK, OtherStep, ReadRequestId, FilePending, WriteRequest,
      TakeAnswer, GiveUp
  <2>8. QED
    BY <2>1, <2>2, <2>3, <2>4, <2>5, <2>6, <2>7 DEF Next
<1>3. TypeOK /\ [Next]_vars => CallsOK'
  <2> SUFFICES ASSUME TypeOK, [Next]_vars PROVE CallsOK'
    OBVIOUS
  <2> USE DEF TypeOK, CallsOK, Goto, Served, Outcomes
  <2>r. ASSUME NEW r \in Requesters, SharedStep(r) PROVE CallsOK'
    <3>1. CASE ReadRequestId(r)
      <4>1. pc' \in [Requesters -> {"new"} \cup Served \cup Outcomes]
        BY <3>1 DEF ReadRequestId, Asks
      <4>2. id' \in [Requesters -> Nat] /\ crossed' \in BOOLEAN
        BY <3>1 DEF ReadRequestId
      <4>3. QED
        BY <3>1, <4>1, <4>2 DEF ReadRequestId, flagVars
    <3>2. CASE WriteRequest(r)
      <4>1. pc' \in [Requesters -> {"new"} \cup Served \cup Outcomes]
        BY <3>2 DEF WriteRequest
      <4>2. QED
        BY <3>2, <4>1 DEF WriteRequest, flagVars
    <3>3. CASE FilePending(r) \/ TakeAnswer(r)
      <4>1. filed' \in [Requesters -> BOOLEAN]
        BY <3>3 DEF FilePending, TakeAnswer, FiledAfter
      <4>2. pc' \in [Requesters -> {"new"} \cup Served \cup Outcomes]
        BY <3>3 DEF FilePending, TakeAnswer
      <4>3. nextRequestId' \in Nat
        BY <3>3 DEF FilePending, TakeAnswer
      <4>4. UNCHANGED <<waits, id, answer, crossed, turnRequestId>>
        BY <3>3 DEF FilePending, TakeAnswer, flagVars
      <4>5. QED
        BY <4>1, <4>2, <4>3, <4>4
    <3>4. CASE GiveUp(r)
      <4>1. pc' \in [Requesters -> {"new"} \cup Served \cup Outcomes]
        BY <3>4 DEF GiveUp
      <4>2. QED
        BY <3>4, <4>1 DEF GiveUp, flagVars
    <3>5. QED
      BY <2>r, <3>1, <3>2, <3>3, <3>4 DEF SharedStep
  <2>1. ASSUME NEW c \in Calls, CallStep(c) PROVE CallsOK'
    <3>1. CASE Receive(c)
      <4>1. waits' \in [Calls -> BOOLEAN]
        BY <3>1, ConstantsAssumption DEF Receive
      <4>2. pc' \in [Requesters -> {"new"} \cup Served \cup Outcomes]
        BY <3>1 DEF Receive
      <4>3. QED
        BY <3>1, <4>1, <4>2 DEF Receive
    <3>2. CASE CheckBusy(c)
      BY <3>2 DEF CheckBusy
    <3>3. CASE SharedStep(c)
      BY <2>r, <3>3
    <3>4. CASE RaiseTurn(c)
      <4>1. pc' \in [Requesters -> {"new"} \cup Served \cup Outcomes]
        BY <3>4 DEF RaiseTurn
      <4>2. QED
        BY <3>4, <4>1 DEF RaiseTurn
    <3>5. CASE ClaimTurn(c) \/ FailDrop(c) \/ FailClear(c)
      BY <3>5 DEF ClaimTurn, FailDrop, FailClear
    <3>6. QED
      BY <2>1, <3>1, <3>2, <3>3, <3>4, <3>5 DEF CallStep, SharedStep
  <2>2. ASSUME ReaderStep PROVE CallsOK'
    <3>1. CASE Deliver
      <4>1. Head(stdout) \in Response
        BY <3>1, TailFacts DEF PipesOK, Deliver
      <4>2. Head(stdout).kind \in {"result", "error"}
        BY <4>1 DEF Response
      <4>3. QED
        BY <3>1, <4>2 DEF Deliver
    <3>2. CASE EndTurn \/ ClearTurn \/ ReaderExit
      BY <3>2 DEF EndTurn, ClearTurn, ReaderExit
    <3>3. QED
      BY <2>2, <3>1, <3>2 DEF ReaderStep
  <2>3. ASSUME NEW i \in Interrupts, InterruptStep(i) PROVE CallsOK'
    BY <2>3 DEF InterruptStep, StartInterrupt, WriteCancel, EndInterrupt
  <2>4. ASSUME StopStep PROVE CallsOK'
    BY <2>4 DEF StopStep, CloseWriter, KillTree, CloseDrop, CloseClear
  <2>5. ASSUME AgentStep \/ AgentExits PROVE CallsOK'
    BY <2>5 DEF AgentStep, AgentTakesPrompt, AgentTakesRequest, AgentTakesCancel, AgentEndsTurn, AgentExits
  <2>6. CASE UNCHANGED vars
    BY <2>6 DEF vars
  <2>7. ASSUME NEW q \in Others, OtherStep(q) PROVE CallsOK'
    BY <2>r, <2>7 DEF OtherStep, SharedStep
  <2>8. QED
    BY <2>1, <2>2, <2>3, <2>4, <2>5, <2>6, <2>7 DEF Next
<1>4. TypeOK /\ [Next]_vars => ThreadsOK'
  <2> SUFFICES ASSUME TypeOK, [Next]_vars PROVE ThreadsOK'
    OBVIOUS
  <2> USE DEF TypeOK, ThreadsOK
  <2>1. ASSUME NEW c \in Calls, CallStep(c) PROVE ThreadsOK'
    BY <2>1 DEF CallStep, Receive, CheckBusy, ReadRequestId, FilePending,
      WriteRequest, ClaimTurn, RaiseTurn, TakeAnswer, GiveUp, FailDrop, FailClear
  <2>2. ASSUME ReaderStep PROVE ThreadsOK'
    <3>1. CASE Deliver
      <4>1. QED
        BY <3>1 DEF Deliver
    <3>2. CASE EndTurn \/ ClearTurn \/ ReaderExit
      BY <3>2 DEF EndTurn, ClearTurn, ReaderExit
    <3>3. QED
      BY <2>2, <3>1, <3>2 DEF ReaderStep
  <2>3. ASSUME NEW i \in Interrupts, InterruptStep(i) PROVE ThreadsOK'
    BY <2>3 DEF CallsOK, InterruptStep, StartInterrupt, WriteCancel, EndInterrupt
  <2>4. ASSUME StopStep PROVE ThreadsOK'
    BY <2>4 DEF StopStep, CloseWriter, KillTree, CloseDrop, CloseClear
  <2>5. ASSUME AgentStep \/ AgentExits PROVE ThreadsOK'
    BY <2>5 DEF AgentStep, AgentTakesPrompt, AgentTakesRequest, AgentTakesCancel, AgentEndsTurn, AgentExits
  <2>6. CASE UNCHANGED vars
    BY <2>6 DEF vars
  <2>7. ASSUME NEW q \in Others, OtherStep(q) PROVE ThreadsOK'
    BY <2>7 DEF OtherStep, ReadRequestId, FilePending, WriteRequest, TakeAnswer, GiveUp
  <2>8. QED
    BY <2>1, <2>2, <2>3, <2>4, <2>5, <2>6, <2>7 DEF Next
<1>5. TypeOK /\ [Next]_vars => PipesOK'
  <2> SUFFICES ASSUME TypeOK, [Next]_vars PROVE PipesOK'
    OBVIOUS
  <2> USE DEF TypeOK, PipesOK
  <2>1. ASSUME NEW c \in Calls, CallStep(c) PROVE PipesOK'
    <3>1. CASE WriteRequest(c)
      BY <3>1, AppendFacts DEF WriteRequest
    <3>2. CASE ~WriteRequest(c)
      BY <2>1, <3>2 DEF CallStep, Receive, CheckBusy, ReadRequestId, FilePending,
        ClaimTurn, RaiseTurn, TakeAnswer, GiveUp, FailDrop, FailClear
    <3>3. QED
      BY <3>1, <3>2
  <2>2. ASSUME ReaderStep PROVE PipesOK'
    <3>1. CASE Deliver
      <4>1. UNCHANGED <<stdin, agentTurn>> /\ stdout # <<>> /\ stdout' = Tail(stdout)
        BY <3>1 DEF Deliver
      <4>2. QED
        BY <4>1, TailFacts
    <3>2. CASE EndTurn \/ ClearTurn \/ ReaderExit
      BY <3>2 DEF EndTurn, ClearTurn, ReaderExit
    <3>3. QED
      BY <2>2, <3>1, <3>2 DEF ReaderStep
  <2>3. ASSUME NEW i \in Interrupts, InterruptStep(i) PROVE PipesOK'
    BY <2>3, AppendFacts DEF InterruptStep, StartInterrupt, WriteCancel, EndInterrupt
  <2>4. ASSUME StopStep \/ AgentExits PROVE PipesOK'
    BY <2>4, EmptyPipe
    DEF StopStep, CloseWriter, KillTree, CloseDrop, CloseClear, AgentExits, Gone
  <2>5. ASSUME AgentStep PROVE PipesOK'
    <3>1. CASE AgentTakesPrompt
      <4>1. Head(stdin) \in Calls /\ Tail(stdin) \in Seq(Requesters \cup {NoCall})
        BY <3>1, TailFacts DEF AgentTakesPrompt
      <4>2. [call |-> Head(stdin), kind |-> "error"] \in Response
        BY <4>1 DEF Response
      <4>3. CASE agentTurn = NoCall
        BY <3>1, <4>1, <4>3 DEF AgentTakesPrompt
      <4>4. CASE agentTurn # NoCall
        <5>1. stdout' = Append(stdout, [call |-> Head(stdin), kind |-> "error"])
          BY <3>1, <4>4 DEF AgentTakesPrompt
        <5>2. stdout' \in Seq(Response)
          BY <4>2, <5>1, AppendFacts
        <5>3. QED
          BY <3>1, <4>1, <4>4, <5>2 DEF AgentTakesPrompt
      <4>5. QED
        BY <4>3, <4>4
    <3>2. CASE AgentTakesCancel
      <4>1. agentTurn # NoCall =>
              [call |-> agentTurn, kind |-> "result"] \in Response
        BY DEF Response
      <4>2. stdin' \in Seq(Requesters \cup {NoCall})
        BY <3>2, TailFacts DEF AgentTakesCancel
      <4>3. stdout' \in Seq(Response)
        <5>1. CASE agentTurn = NoCall
          BY <3>2, <5>1 DEF AgentTakesCancel
        <5>2. CASE agentTurn # NoCall
          <6>1. stdout' = Append(stdout, [call |-> agentTurn, kind |-> "result"])
            BY <3>2, <5>2 DEF AgentTakesCancel
          <6>2. QED
            BY <4>1, <5>2, <6>1, AppendFacts
        <5>3. QED
          BY <5>1, <5>2
      <4>4. agentTurn' = NoCall
        BY <3>2 DEF AgentTakesCancel
      <4>5. QED
        BY <4>2, <4>3, <4>4
    <3>3. CASE AgentEndsTurn
      <4>1. \A kind \in {"result", "error"} :
              [call |-> agentTurn, kind |-> kind] \in Response
        BY <3>3 DEF Response, AgentEndsTurn
      <4>2. QED
        BY <3>3, <4>1, AppendFacts DEF AgentEndsTurn
    <3>4. CASE AgentTakesRequest
      <4>1. Head(stdin) \in Requesters /\ Tail(stdin) \in Seq(Requesters \cup {NoCall})
        BY <3>4, TailFacts DEF AgentTakesRequest
      <4>2. PICK kind \in {"result", "error"} :
              stdout' = Append(stdout, [call |-> Head(stdin), kind |-> kind])
        BY <3>4 DEF AgentTakesRequest
      <4>3. [call |-> Head(stdin), kind |-> kind] \in Response
        BY <4>1 DEF Response
      <4>4. stdout' \in Seq(Response)
        BY <4>2, <4>3, AppendFacts
      <4>5. QED
        BY <3>4, <4>1, <4>4 DEF AgentTakesRequest
    <3>5. QED
      BY <2>5, <3>1, <3>2, <3>3, <3>4 DEF AgentStep
  <2>6. CASE UNCHANGED vars
    BY <2>6 DEF vars
  <2>7. ASSUME NEW q \in Others, OtherStep(q) PROVE PipesOK'
    <3>1. CASE WriteRequest(q)
      BY <3>1, AppendFacts DEF WriteRequest
    <3>2. CASE ~WriteRequest(q)
      BY <2>7, <3>2 DEF OtherStep, ReadRequestId, FilePending, TakeAnswer, GiveUp
    <3>3. QED
      BY <3>1, <3>2
  <2>8. QED
    BY <2>1, <2>2, <2>3, <2>4, <2>5, <2>6, <2>7 DEF Next
<1>6. TypeOK /\ [Next]_vars => TypeOK'
  BY <1>2, <1>3, <1>4, <1>5 DEF TypeOK
<1>7. QED
  BY <1>1, <1>6, PTL DEF Spec

-----------------------------------------------------------------------------
(* Request ids: each request has one of its own, until two draw at once. *)

\* No line moves and the reader stays where it is.
SamePlaces == UNCHANGED <<stdin, stdout, agentTurn, reader, reading>>

\* As long as neither a line nor the reader moves, what is in flight stays so.
LEMMA SamePlacesFacts ==
  ASSUME SamePlaces
  PROVE  /\ \A d \in Requesters : InFlight(d)' <=> InFlight(d)
         /\ OnePlace <=> OnePlace'
BY DEF SamePlaces, InFlight, OnePlace, Sent, Answered, Handled

\* Only the write of a request moves something in its steps.
LEMMA RequesterKeepsPlaces ==
  ASSUME NEW r \in Requesters, RequesterStep(r), ~WriteRequest(r)
  PROVE  SamePlaces /\ alive' = alive /\ stopping' = stopping
BY DEF RequesterStep, CallStep, OtherStep, Receive, CheckBusy, ReadRequestId,
  FilePending, ClaimTurn, RaiseTurn, TakeAnswer, GiveUp, FailDrop, FailClear,
  SamePlaces, readVars, stopVars, agentVars

\* A request that has no id, and one that has filed its pending object.
Unnumbered == {"new", "describing", "cleared", "busy", "not_running"}
Unfiled == Unnumbered \cup {"numbered"}
\* Its line has not been written.
NotSent == Unfiled \cup {"filed"}

\* Until two requests draw at once, a request id is above all earlier ones.
NumbersInv ==
  /\ \A r, s \in Requesters : pc[r] = "numbered" /\ pc[s] = "numbered" => r = s
  /\ nextRequestId > 0
  /\ turnRequestId < nextRequestId
  /\ \A r \in Requesters :
       /\ pc[r] \in Unnumbered => id[r] = 0
       /\ pc[r] = "numbered" => id[r] = nextRequestId
       /\ pc[r] \notin Unfiled => 0 < id[r] /\ id[r] < nextRequestId
       /\ filed[r] => pc[r] \notin Unfiled
       /\ pc[r] \in NotSent => ~InFlight(r)
  /\ \A r, s \in Requesters : id[r] = id[s] /\ id[r] # 0 => r = s

\* A response finds no object on file but that of the request it answers.
LEMMA FoundOwn ==
  ASSUME TypeOK, NumbersInv, stdout # <<>>
  PROVE  /\ Found(Head(stdout)) \subseteq {Head(stdout).call}
         /\ Head(stdout).call \in Requesters /\ Answered(Head(stdout).call)
         /\ \A r \in Found(Head(stdout)) : pc[r] \notin Unfiled
<1>1. /\ Head(stdout) \in Response
      /\ 1 \in DOMAIN stdout /\ stdout[1] = Head(stdout)
  BY TailFacts DEF TypeOK, PipesOK
<1>2. Head(stdout).call \in Requesters /\ Answered(Head(stdout).call)
  BY <1>1 DEF Response, Answered
<1>3. ASSUME NEW r \in Found(Head(stdout))
      PROVE  r = Head(stdout).call /\ pc[r] \notin Unfiled
  <2>1. r \in Requesters /\ filed[r] /\ id[r] = id[Head(stdout).call]
    BY <1>3 DEF Found
  <2>2. pc[r] \notin Unfiled /\ id[r] # 0
    BY <2>1 DEF NumbersInv
  <2>3. QED
    BY <1>2, <2>1, <2>2 DEF NumbersInv
<1>4. QED
  BY <1>2, <1>3

\* What the delivery of a response moves.
LEMMA DeliverFacts ==
  ASSUME TypeOK, NumbersInv, Deliver
  PROVE  /\ UNCHANGED <<pc, waits, alive, stdin, agentTurn, turnActive, stopping>>
         /\ reader = "idle" /\ stdout # <<>> /\ stdout' = Tail(stdout)
         /\ \/ UNCHANGED <<reader, reading>>
            \/ reader' = "delivered" /\ reading' = Head(stdout).call
         /\ 1 \in DOMAIN stdout /\ stdout[1] = Head(stdout)
         /\ \A k \in DOMAIN stdout' :
              k + 1 \in DOMAIN stdout /\ k + 1 # 1 /\ stdout'[k] = stdout[k + 1]
<1>1. /\ UNCHANGED <<pc, waits, alive, stdin, agentTurn, turnActive, stopping>>
      /\ reader = "idle" /\ stdout # <<>> /\ stdout' = Tail(stdout)
      /\ \/ UNCHANGED <<reader, reading>>
         \/ reader' = "delivered" /\ reading' \in Found(Head(stdout))
  BY DEF Deliver, flagVars, readVars, stopVars
<1>2. Found(Head(stdout)) \subseteq {Head(stdout).call}
  BY <1>1, FoundOwn
<1>3. /\ 1 \in DOMAIN stdout /\ stdout[1] = Head(stdout)
      /\ \A k \in DOMAIN stdout' :
           k + 1 \in DOMAIN stdout /\ k + 1 # 1 /\ stdout'[k] = stdout[k + 1]
  BY <1>1, TailFacts DEF TypeOK, PipesOK
<1>4. QED
  BY <1>1, <1>2, <1>3

\* Nothing gets in flight but by the write of a prompt.
LEMMA FlightStays ==
  ASSUME TypeOK, NumbersInv, [Next]_vars, \A r \in Requesters : ~WriteRequest(r)
  PROVE  \A d \in Requesters : InFlight(d)' => InFlight(d)
<1> USE DEF callVars, flagVars, readVars, intrVars, stopVars, agentVars
<1>1. ASSUME SamePlaces PROVE \A d \in Requesters : InFlight(d)' => InFlight(d)
  BY <1>1, SamePlacesFacts
<1>2. ASSUME NEW r \in Requesters, RequesterStep(r) PROVE SamePlaces
  BY <1>2, RequesterKeepsPlaces
<1>3. CASE Deliver
  <2>1. \A d \in Requesters : /\ Sent(d)' => Sent(d)
                              /\ Answered(d)' => Answered(d)
                              /\ Handled(d)' => Handled(d) \/ Answered(d)
    BY <1>3, DeliverFacts DEF Sent, Answered, Handled
  <2>2. QED
    BY <1>3, <2>1, DeliverFacts DEF InFlight
<1>4. CASE EndTurn \/ ClearTurn \/ ReaderExit
  <2>1. UNCHANGED <<stdin, stdout, agentTurn>> /\ reader' # "delivered"
    BY <1>4 DEF EndTurn, ClearTurn, ReaderExit
  <2>2. QED
    BY <2>1 DEF InFlight, Sent, Answered, Handled
<1>5. ASSUME NEW i \in Interrupts, InterruptStep(i)
      PROVE  \A d \in Requesters : InFlight(d)' => InFlight(d)
  <2>1. /\ UNCHANGED <<stdout, agentTurn, reader, reading>>
        /\ stdin' = stdin \/ stdin' = Append(stdin, NoCall)
    BY <1>5 DEF InterruptStep, StartInterrupt, WriteCancel, EndInterrupt
  <2>2. \A k \in DOMAIN stdin' :
          (k \in DOMAIN stdin /\ stdin'[k] = stdin[k]) \/ stdin'[k] = NoCall
    <3>1. CASE stdin' = stdin
      BY <3>1
    <3>2. CASE stdin' = Append(stdin, NoCall)
      BY <3>2, AppendFacts DEF TypeOK, PipesOK
    <3>3. QED
      BY <2>1, <3>1, <3>2
  <2>3. \A d \in Requesters : Sent(d)' => Sent(d)
    BY <2>2, ConstantsAssumption DEF Sent
  <2>4. QED
    BY <2>1, <2>3 DEF InFlight, Answered, Handled
<1>6. CASE CloseWriter \/ CloseDrop \/ CloseClear
  BY <1>1, <1>6 DEF CloseWriter, CloseDrop, CloseClear, SamePlaces
<1>7. CASE KillTree \/ AgentExits
  <2>1. stdin' = <<>> /\ agentTurn' = NoCall /\ UNCHANGED <<stdout, reader, reading>>
    BY <1>7 DEF KillTree, AgentExits, Gone
  <2>2. QED
    BY <2>1, EmptyPipe, ConstantsAssumption DEF InFlight, Sent, Answered, Handled
<1>8. CASE AgentTakesPrompt
  <2>1. /\ stdin # <<>> /\ Head(stdin) \in Calls /\ stdin' = Tail(stdin)
        /\ UNCHANGED <<reader, reading>>
    BY <1>8 DEF AgentTakesPrompt
  <2>2. /\ Head(stdin) \in Calls
        /\ 1 \in DOMAIN stdin /\ stdin[1] = Head(stdin)
        /\ \A k \in DOMAIN stdin' : k + 1 \in DOMAIN stdin /\ stdin'[k] = stdin[k + 1]
    BY <2>1, TailFacts DEF TypeOK, PipesOK
  <2>3. \A d \in Requesters : Sent(d)' => Sent(d)
    BY <2>2 DEF Sent
  <2>4. Sent(Head(stdin))
    BY <2>2 DEF Sent
  <2>5. CASE agentTurn = NoCall
    <3>1. agentTurn' = Head(stdin) /\ stdout' = stdout
      BY <1>8, <2>5 DEF AgentTakesPrompt
    <3>2. QED
      BY <2>1, <2>3, <2>4, <3>1 DEF InFlight, Answered, Handled
  <2>6. CASE agentTurn # NoCall
    <3>1. /\ agentTurn' = agentTurn
          /\ stdout' = Append(stdout, [call |-> Head(stdin), kind |-> "error"])
      BY <1>8, <2>6 DEF AgentTakesPrompt
    <3>2. [call |-> Head(stdin), kind |-> "error"] \in Response
      BY <2>2 DEF Response
    <3>3. \A k \in DOMAIN stdout' :
            \/ k \in DOMAIN stdout /\ stdout'[k] = stdout[k]
            \/ stdout'[k].call = Head(stdin)
      BY <3>1, <3>2, AppendFacts DEF TypeOK, PipesOK
    <3>4. \A d \in Requesters : Answered(d)' => Answered(d) \/ d = Head(stdin)
      BY <3>3 DEF Answered
    <3>5. QED
      BY <2>1, <2>3, <2>4, <3>1, <3>4 DEF InFlight, Handled
  <2>7. QED
    BY <2>5, <2>6
<1>9. CASE AgentTakesCancel \/ AgentEndsTurn
  <2>1. /\ UNCHANGED <<reader, reading>> /\ agentTurn' = NoCall
        /\ stdin' = stdin \/ (stdin # <<>> /\ stdin' = Tail(stdin))
        /\ \/ stdout' = stdout
           \/ /\ agentTurn # NoCall
              /\ \E kind \in {"result", "error"} :
                   stdout' = Append(stdout, [call |-> agentTurn, kind |-> kind])
    BY <1>9 DEF AgentTakesCancel, AgentEndsTurn
  <2>2. \A d \in Requesters : Sent(d)' => Sent(d)
    <3>1. CASE stdin' = stdin
      BY <3>1 DEF Sent
    <3>2. CASE stdin # <<>> /\ stdin' = Tail(stdin)
      <4>1. \A k \in DOMAIN stdin' : k + 1 \in DOMAIN stdin /\ stdin'[k] = stdin[k + 1]
        BY <3>2, TailFacts DEF TypeOK, PipesOK
      <4>2. QED
        BY <4>1 DEF Sent
    <3>3. QED
      BY <2>1, <3>1, <3>2
  <2>3. \A d \in Requesters : Answered(d)' => Answered(d) \/ d = agentTurn
    <3>1. CASE stdout' = stdout
      BY <3>1 DEF Answered
    <3>2. CASE stdout' # stdout
      <4>1. PICK kind \in {"result", "error"} :
              stdout' = Append(stdout, [call |-> agentTurn, kind |-> kind])
        BY <2>1, <3>2
      <4>2. [call |-> agentTurn, kind |-> kind] \in Response
        BY <2>1, <3>2 DEF Response, TypeOK, PipesOK
      <4>3. \A k \in DOMAIN stdout' :
              \/ k \in DOMAIN stdout /\ stdout'[k] = stdout[k]
              \/ stdout'[k].call = agentTurn
        BY <4>1, <4>2, AppendFacts DEF TypeOK, PipesOK
      <4>4. QED
        BY <4>3 DEF Answered
    <3>3. QED
      BY <3>1, <3>2
  <2>4. QED
    BY <2>1, <2>2, <2>3, ConstantsAssumption DEF InFlight, Handled
<1>10. CASE AgentTakesRequest
  <2>1. /\ stdin # <<>> /\ Head(stdin) \in Others /\ stdin' = Tail(stdin)
        /\ UNCHANGED <<agentTurn, reader, reading>>
    BY <1>10 DEF AgentTakesRequest
  <2>2. /\ 1 \in DOMAIN stdin /\ stdin[1] = Head(stdin)
        /\ \A k \in DOMAIN stdin' : k + 1 \in DOMAIN stdin /\ stdin'[k] = stdin[k + 1]
    BY <2>1, TailFacts DEF TypeOK, PipesOK
  <2>3. \A d \in Requesters : Sent(d)' => Sent(d)
    BY <2>2 DEF Sent
  <2>4. Sent(Head(stdin))
    BY <2>2 DEF Sent
  <2>5. PICK kind \in {"result", "error"} :
          stdout' = Append(stdout, [call |-> Head(stdin), kind |-> kind])
    BY <1>10 DEF AgentTakesRequest
  <2>6. [call |-> Head(stdin), kind |-> kind] \in Response
    BY <2>1 DEF Response
  <2>7. \A k \in DOMAIN stdout' :
          \/ k \in DOMAIN stdout /\ stdout'[k] = stdout[k]
          \/ stdout'[k].call = Head(stdin)
    BY <2>5, <2>6, AppendFacts DEF TypeOK, PipesOK
  <2>8. \A d \in Requesters : Answered(d)' => Answered(d) \/ d = Head(stdin)
    BY <2>7 DEF Answered
  <2>9. QED
    BY <2>1, <2>3, <2>4, <2>8 DEF InFlight, Handled
<1>11. CASE UNCHANGED vars
  BY <1>1, <1>11 DEF vars, SamePlaces
<1>12. QED
  BY <1>1, <1>2, <1>3, <1>4, <1>5, <1>6, <1>7, <1>8, <1>9, <1>10, <1>11
  DEF Next, RequesterStep, ReaderStep, StopStep, AgentStep

\* Only a request's own steps change what it is about; the flag is raised for a
\* request by its call and given back as 0.
LEMMA RequestersStay ==
  ASSUME TypeOK, [Next]_vars, \A r \in Requesters : ~RequesterStep(r)
  PROVE  UNCHANGED <<pc, id, filed, nextRequestId, waits, crossed>> /\ turnRequestId' \in {0, turnRequestId}
<1> USE DEF callVars, flagVars, readVars, intrVars, stopVars, agentVars
<1>1. CASE ReaderStep
  BY <1>1 DEF ReaderStep, Deliver, EndTurn, ClearTurn, ReaderExit
<1>2. ASSUME NEW i \in Interrupts, InterruptStep(i)
      PROVE  UNCHANGED <<pc, id, filed, nextRequestId, waits, crossed, turnRequestId>>
  BY <1>2 DEF InterruptStep, StartInterrupt, WriteCancel, EndInterrupt
<1>3. CASE StopStep
  BY <1>3 DEF StopStep, CloseWriter, KillTree, CloseDrop, CloseClear
<1>4. CASE AgentStep \/ AgentExits
  BY <1>4 DEF AgentStep, AgentTakesPrompt, AgentTakesRequest, AgentTakesCancel, AgentEndsTurn, AgentExits
<1>5. CASE UNCHANGED vars
  BY <1>5 DEF vars
<1>6. QED
  BY <1>1, <1>2, <1>3, <1>4, <1>5 DEF Next, RequesterStep

\* What a step of a request does to its number.
LEMMA RequesterNumbers ==
  ASSUME TypeOK, NEW c \in Requesters, RequesterStep(c)
  PROVE  /\ \A d \in Requesters \ {c} :
              pc'[d] = pc[d] /\ id'[d] = id[d] /\ (filed'[d] => filed[d])
         /\ crossed => crossed'
         /\ \/ /\ ReadRequestId(c) /\ pc[c] \in Unnumbered /\ pc'[c] = "numbered"
               /\ id'[c] = nextRequestId /\ nextRequestId' = nextRequestId
               /\ turnRequestId' = turnRequestId /\ filed' = filed
               /\ crossed' \/ \A s \in Requesters : pc[s] # "numbered"
            \/ /\ FilePending(c) /\ pc[c] = "numbered" /\ pc'[c] = "filed"
               /\ id'[c] = id[c] /\ nextRequestId' = id[c] + 1
               /\ turnRequestId' = turnRequestId
            \/ /\ id'[c] = id[c] /\ nextRequestId' = nextRequestId
               /\ turnRequestId' \in {0, turnRequestId} \/ (turnRequestId' = id[c] /\ pc[c] = "written")
               /\ filed'[c] => filed[c]
               /\ \/ pc[c] \in Unnumbered /\ pc'[c] \in Unnumbered
                  \/ pc[c] \notin Unfiled /\ pc'[c] \notin Unfiled
               /\ WriteRequest(c) \/ (pc'[c] \in NotSent => pc[c] \in NotSent)
               /\ WriteRequest(c) => pc[c] = "filed" /\ (stdin' = stdin \/ pc'[c] \notin NotSent)
               /\ pc[c] \notin {"submitted", "error"}
<1> USE DEF callVars, flagVars, readVars, intrVars, stopVars, agentVars
<1>t. /\ pc \in [Requesters -> {"new"} \cup Served \cup Outcomes] /\ id \in [Requesters -> Nat]
      /\ filed \in [Requesters -> BOOLEAN]
  BY DEF TypeOK, CallsOK
<1>p. ASSUME NEW from, NEW to, Goto(c, from, to)
      PROVE  pc[c] = from /\ pc'[c] = to /\ \A d \in Requesters \ {c} : pc'[d] = pc[d]
  BY <1>p, <1>t DEF Goto
<1>1. CASE Receive(c)
  <2>1. pc[c] = "new" /\ pc'[c] \in {"describing", "not_running"} /\ \A d \in Requesters \ {c} : pc'[d] = pc[d]
    BY <1>1, <1>p DEF Receive
  <2>2. /\ id' = id /\ nextRequestId' = nextRequestId /\ \A d \in Requesters : filed'[d] => filed[d]
        /\ turnRequestId' = turnRequestId /\ crossed' = crossed
    BY <1>1, <1>t DEF Receive
  <2>3. ~WriteRequest(c)
    BY <2>1 DEF WriteRequest, Goto
  <2>4. QED
    BY <2>1, <2>2, <2>3 DEF Unnumbered, Unfiled, NotSent
<1>2. CASE CheckBusy(c)
  <2>1. pc[c] = "describing" /\ pc'[c] \in {"busy", "cleared"} /\ \A d \in Requesters \ {c} : pc'[d] = pc[d]
    BY <1>2, <1>p DEF CheckBusy
  <2>2. /\ id' = id /\ nextRequestId' = nextRequestId /\ \A d \in Requesters : filed'[d] => filed[d]
        /\ turnRequestId' = turnRequestId /\ crossed' = crossed
    BY <1>2, <1>t DEF CheckBusy
  <2>3. ~WriteRequest(c)
    BY <2>1 DEF WriteRequest, Goto
  <2>4. QED
    BY <2>1, <2>2, <2>3 DEF Unnumbered, Unfiled, NotSent
<1>3. CASE ReadRequestId(c)
  <2>1. pc[c] \in {"cleared", "new"} /\ pc'[c] = "numbered" /\ \A d \in Requesters \ {c} : pc'[d] = pc[d]
    BY <1>3, <1>p DEF ReadRequestId, Asks
  <2>2. /\ id'[c] = nextRequestId /\ \A d \in Requesters \ {c} : id'[d] = id[d]
        /\ nextRequestId' = nextRequestId /\ turnRequestId' = turnRequestId /\ filed' = filed
        /\ crossed' = (crossed \/ \E s \in Requesters : pc[s] = "numbered")
    BY <1>3, <1>t DEF ReadRequestId
  <2>3. QED
    BY <1>3, <2>1, <2>2 DEF Unnumbered
<1>4. CASE FilePending(c)
  <2>1. pc[c] = "numbered" /\ pc'[c] = "filed" /\ \A d \in Requesters \ {c} : pc'[d] = pc[d]
    BY <1>4, <1>p DEF FilePending
  <2>2. /\ id' = id /\ nextRequestId' = id[c] + 1 /\ turnRequestId' = turnRequestId
        /\ \A d \in Requesters \ {c} : filed'[d] => filed[d]
        /\ crossed' = crossed
    BY <1>4, <1>t DEF FilePending, FiledAfter
  <2>3. QED
    BY <1>4, <2>1, <2>2
<1>5. CASE WriteRequest(c)
  <2>1. pc[c] = "filed" /\ pc'[c] \in {"written", "waiting", "failing", "error"}
          /\ \A d \in Requesters \ {c} : pc'[d] = pc[d]
    BY <1>5, <1>p DEF WriteRequest
  <2>2. /\ id' = id /\ nextRequestId' = nextRequestId /\ filed' = filed
        /\ turnRequestId' = turnRequestId /\ crossed' = crossed
    BY <1>5 DEF WriteRequest
  <2>3. QED
    BY <1>5, <2>1, <2>2 DEF Unnumbered, Unfiled, NotSent
<1>6. CASE ClaimTurn(c)
  <2>1. pc[c] = "written" /\ pc'[c] \in {"claimed"} /\ \A d \in Requesters \ {c} : pc'[d] = pc[d]
    BY <1>6, <1>p DEF ClaimTurn
  <2>2. /\ id' = id /\ nextRequestId' = nextRequestId /\ \A d \in Requesters : filed'[d] => filed[d]
        /\ (turnRequestId' = turnRequestId \/ turnRequestId' = id[c]) /\ crossed' = crossed
    BY <1>6, <1>t DEF ClaimTurn
  <2>3. ~WriteRequest(c)
    BY <2>1 DEF WriteRequest, Goto
  <2>4. QED
    BY <2>1, <2>2, <2>3 DEF Unnumbered, Unfiled, NotSent
<1>7. CASE RaiseTurn(c)
  <2>1. pc[c] = "claimed" /\ pc'[c] \in {"waiting", "submitted"} /\ \A d \in Requesters \ {c} : pc'[d] = pc[d]
    BY <1>7, <1>p DEF RaiseTurn
  <2>2. /\ id' = id /\ nextRequestId' = nextRequestId /\ \A d \in Requesters : filed'[d] => filed[d]
        /\ turnRequestId' = turnRequestId /\ crossed' = crossed
    BY <1>7, <1>t DEF RaiseTurn
  <2>3. ~WriteRequest(c)
    BY <2>1 DEF WriteRequest, Goto
  <2>4. QED
    BY <2>1, <2>2, <2>3 DEF Unnumbered, Unfiled, NotSent
<1>8. CASE TakeAnswer(c)
  <2>1. pc[c] = "waiting" /\ pc'[c] \in {"completed", "failing", "error"} /\ \A d \in Requesters \ {c} : pc'[d] = pc[d]
    BY <1>8, <1>p DEF TakeAnswer
  <2>2. /\ id' = id /\ nextRequestId' = nextRequestId /\ \A d \in Requesters : filed'[d] => filed[d]
        /\ turnRequestId' = turnRequestId /\ crossed' = crossed
    BY <1>8, <1>t DEF TakeAnswer
  <2>3. ~WriteRequest(c)
    BY <2>1 DEF WriteRequest, Goto
  <2>4. QED
    BY <2>1, <2>2, <2>3 DEF Unnumbered, Unfiled, NotSent
<1>9. CASE GiveUp(c)
  <2>1. pc[c] = "waiting" /\ pc'[c] \in {"failing", "error"} /\ \A d \in Requesters \ {c} : pc'[d] = pc[d]
    BY <1>9, <1>p DEF GiveUp
  <2>2. /\ id' = id /\ nextRequestId' = nextRequestId /\ \A d \in Requesters : filed'[d] => filed[d]
        /\ turnRequestId' = turnRequestId /\ crossed' = crossed
    BY <1>9, <1>t DEF GiveUp
  <2>3. ~WriteRequest(c)
    BY <2>1 DEF WriteRequest, Goto
  <2>4. QED
    BY <2>1, <2>2, <2>3 DEF Unnumbered, Unfiled, NotSent
<1>10. CASE FailDrop(c)
  <2>1. pc[c] = "failing" /\ pc'[c] \in {"dropping"} /\ \A d \in Requesters \ {c} : pc'[d] = pc[d]
    BY <1>10, <1>p DEF FailDrop
  <2>2. /\ id' = id /\ nextRequestId' = nextRequestId /\ \A d \in Requesters : filed'[d] => filed[d]
        /\ turnRequestId' = turnRequestId /\ crossed' = crossed
    BY <1>10, <1>t DEF FailDrop
  <2>3. ~WriteRequest(c)
    BY <2>1 DEF WriteRequest, Goto
  <2>4. QED
    BY <2>1, <2>2, <2>3 DEF Unnumbered, Unfiled, NotSent
<1>11. CASE FailClear(c)
  <2>1. pc[c] = "dropping" /\ pc'[c] \in {"error"} /\ \A d \in Requesters \ {c} : pc'[d] = pc[d]
    BY <1>11, <1>p DEF FailClear
  <2>2. /\ id' = id /\ nextRequestId' = nextRequestId /\ \A d \in Requesters : filed'[d] => filed[d]
        /\ turnRequestId' = 0 /\ crossed' = crossed
    BY <1>11, <1>t DEF FailClear
  <2>3. ~WriteRequest(c)
    BY <2>1 DEF WriteRequest, Goto
  <2>4. QED
    BY <2>1, <2>2, <2>3 DEF Unnumbered, Unfiled, NotSent
<1>12. QED
  BY <1>1, <1>2, <1>3, <1>4, <1>5, <1>6, <1>7, <1>8, <1>9, <1>10, <1>11
  DEF RequesterStep, CallStep, OtherStep

\* Only the write of its line puts a request in flight.
LEMMA OnlyWritesFly ==
  ASSUME TypeOK, NumbersInv, NEW c \in Requesters, RequesterStep(c)
  PROVE  \A d \in Requesters : InFlight(d)' =>
           InFlight(d) \/ (d = c /\ pc[c] = "filed" /\ pc'[c] \notin NotSent)
<1>1. CASE \A d \in Requesters : ~WriteRequest(d)
  <2>1. [Next]_vars
    BY DEF Next, RequesterStep
  <2>2. QED
    BY <1>1, <2>1, FlightStays
<1>2. CASE \E d \in Requesters : WriteRequest(d)
  <2>1. PICK d \in Requesters : WriteRequest(d)
    BY <1>2
  <2>2. pc[d] = "filed" /\ pc'[d] # "filed"
    BY <2>1 DEF WriteRequest, Goto, TypeOK, CallsOK
  <2>3. d = c
    BY <2>2, RequesterNumbers
  <2>4. /\ UNCHANGED <<stdout, agentTurn, reader, reading>>
        /\ stdin' = stdin \/ (pc'[c] \in {"written", "waiting"} /\ stdin' = Append(stdin, c))
    BY <2>1, <2>3 DEF WriteRequest, Goto, TypeOK, CallsOK, readVars
  <2>5. \A e \in Requesters : Sent(e)' => Sent(e) \/ (e = c /\ pc'[c] \in {"written", "waiting"})
    <3>1. CASE stdin' = stdin
      BY <3>1 DEF Sent
    <3>2. CASE pc'[c] \in {"written", "waiting"} /\ stdin' = Append(stdin, c)
      <4>1. \A k \in DOMAIN stdin' : (k \in DOMAIN stdin /\ stdin'[k] = stdin[k]) \/ stdin'[k] = c
        BY <3>2, AppendFacts DEF TypeOK, PipesOK
      <4>2. QED
        BY <3>2, <4>1 DEF Sent
    <3>3. QED
      BY <2>4, <3>1, <3>2
  <2>6. \A w \in {"written", "waiting"} : w \notin NotSent
    BY DEF NotSent, Unfiled, Unnumbered
  <2>7. QED
    BY <2>2, <2>3, <2>4, <2>5, <2>6 DEF InFlight, Answered, Handled
<1>3. QED
  BY <1>1, <1>2

\* The request ids stay in order, whatever the calls overlap and wait for.
LEMMA NumbersStep ==
  ASSUME TypeOK, NumbersInv, [Next]_vars, ~crossed'
  PROVE  NumbersInv'
<1>t. turnRequestId \in Nat /\ nextRequestId \in Nat /\ id \in [Requesters -> Nat]
  BY DEF TypeOK, CallsOK
<1>1. CASE \A c \in Requesters : ~RequesterStep(c)
  <2>1. UNCHANGED <<pc, id, filed, nextRequestId>> /\ turnRequestId' \in {0, turnRequestId}
    BY <1>1, RequestersStay
  <2>2. \A d \in Requesters : InFlight(d)' => InFlight(d)
    BY <1>1, FlightStays DEF RequesterStep, CallStep, OtherStep
  <2>3. QED
    BY <1>t, <2>1, <2>2 DEF NumbersInv
<1>2. ASSUME NEW c \in Requesters, RequesterStep(c) PROVE NumbersInv'
  <2>1. \A d \in Requesters \ {c} :
          pc'[d] = pc[d] /\ id'[d] = id[d] /\ (filed'[d] => filed[d])
    BY <1>2, RequesterNumbers
  <2>2. pc'[c] = "numbered" => \A d \in Requesters \ {c} : pc[d] # "numbered"
    <3>1. ASSUME pc'[c] = "numbered" PROVE \A d \in Requesters : pc[d] # "numbered"
      BY <1>2, <3>1, RequesterNumbers DEF Unnumbered, Unfiled
    <3>2. QED
      BY <3>1
  <2>3. \A r, s \in Requesters : pc'[r] = "numbered" /\ pc'[s] = "numbered" => r = s
    BY <2>1, <2>2 DEF NumbersInv
  <2>4. \A d \in Requesters : InFlight(d)' => InFlight(d) \/ (d = c /\ pc'[c] \notin NotSent)
    BY <1>2, OnlyWritesFly
  <2>5. \A d \in Requesters \ {c} : /\ pc'[d] \in NotSent => ~InFlight(d)'
                                    /\ pc'[d] \in Unnumbered => id'[d] = 0
                                    /\ filed'[d] => pc'[d] \notin Unfiled
    BY <2>1, <2>4 DEF NumbersInv
  <2>6. ASSUME pc[c] \in Unnumbered, pc'[c] = "numbered", id'[c] = nextRequestId,
               nextRequestId' = nextRequestId, turnRequestId' = turnRequestId, filed' = filed
        PROVE  NumbersInv'
    <3>1. pc'[c] \notin Unnumbered /\ pc'[c] \in Unfiled /\ pc'[c] \in NotSent
      BY <2>6 DEF NotSent, Unnumbered, Unfiled
    <3>2. ~InFlight(c)' /\ ~filed'[c]
      BY <2>4, <2>6, <3>1 DEF NumbersInv, NotSent, Unfiled
    <3>3. \A d \in Requesters \ {c} : id[d] = 0 \/ (0 < id[d] /\ id[d] < nextRequestId)
      BY <2>2, <2>6 DEF NumbersInv, Unfiled
    <3>4. \A d, e \in Requesters : id'[d] = id'[e] /\ id'[d] # 0 => d = e
      BY <1>t, <2>1, <2>6, <3>3 DEF NumbersInv
    <3>5. \A d \in Requesters \ {c} :
            /\ pc'[d] # "numbered"
            /\ pc'[d] \notin Unfiled => 0 < id'[d] /\ id'[d] < nextRequestId
      BY <2>1, <2>2, <2>6 DEF NumbersInv
    <3>6. QED
      BY <2>3, <2>5, <2>6, <3>1, <3>2, <3>4, <3>5 DEF NumbersInv
  <2>7. ASSUME pc[c] = "numbered", pc'[c] = "filed", id'[c] = id[c],
               nextRequestId' = id[c] + 1, turnRequestId' = turnRequestId
        PROVE  NumbersInv'
    <3>1. pc'[c] \notin Unnumbered /\ pc'[c] \notin Unfiled /\ pc'[c] \in NotSent
      BY <2>7 DEF NotSent, Unnumbered, Unfiled
    <3>2. id[c] = nextRequestId /\ nextRequestId' = nextRequestId + 1 /\ ~InFlight(c)'
      BY <2>4, <2>7, <3>1 DEF NumbersInv, NotSent, Unfiled
    <3>3. \A d, e \in Requesters : id'[d] = id'[e] /\ id'[d] # 0 => d = e
      BY <2>1, <2>7 DEF NumbersInv
    <3>4. \A d \in Requesters \ {c} : pc'[d] # "numbered"
      BY <2>1, <2>7 DEF NumbersInv
    <3>5. \A d \in Requesters \ {c} :
            pc'[d] \notin Unfiled => 0 < id'[d] /\ id'[d] < nextRequestId'
      <4>1. \A d \in Requesters \ {c} : pc'[d] \notin Unfiled => 0 < id[d] /\ id[d] < nextRequestId
        BY <2>1 DEF NumbersInv
      <4>2. QED
        BY <1>t, <2>1, <3>2, <4>1
    <3>6. /\ nextRequestId' > 0 /\ turnRequestId' < nextRequestId'
          /\ 0 < id'[c] /\ id'[c] < nextRequestId'
      BY <1>t, <2>7, <3>2 DEF NumbersInv
    <3>7. QED
      BY <2>3, <2>5, <2>7, <3>1, <3>2, <3>3, <3>4, <3>5, <3>6 DEF NumbersInv
  <2>8. ASSUME id'[c] = id[c], nextRequestId' = nextRequestId,
                turnRequestId' \in {0, turnRequestId} \/ (turnRequestId' = id[c] /\ pc[c] = "written"),
                filed'[c] => filed[c],
                \/ pc[c] \in Unnumbered /\ pc'[c] \in Unnumbered
                \/ pc[c] \notin Unfiled /\ pc'[c] \notin Unfiled,
                pc[c] = "filed" \/ (pc'[c] \in NotSent => pc[c] \in NotSent)
         PROVE  NumbersInv'
    <3>1. "written" \notin NotSent /\ "filed" \in NotSent /\ "written" \notin Unfiled
          /\ Unnumbered \subseteq Unfiled /\ "numbered" \in Unfiled /\ "numbered" \notin Unnumbered
      BY DEF NotSent, Unfiled, Unnumbered
    <3>2. pc'[c] \in NotSent => ~InFlight(c)'
      BY <2>4, <2>8, <3>1 DEF NumbersInv
    <3>3. turnRequestId' < nextRequestId'
      BY <1>t, <2>8, <3>1 DEF NumbersInv
    <3>4. \A d, e \in Requesters : id'[d] = id'[e] /\ id'[d] # 0 => d = e
      BY <2>1, <2>8 DEF NumbersInv
    <3>5. /\ pc'[c] \in Unnumbered => id'[c] = 0
          /\ pc'[c] # "numbered"
          /\ pc'[c] \notin Unfiled => 0 < id'[c] /\ id'[c] < nextRequestId
          /\ filed'[c] => pc'[c] \notin Unfiled
      BY <2>8, <3>1 DEF NumbersInv
    <3>6. \A d \in Requesters \ {c} :
            /\ pc'[d] = "numbered" => id'[d] = nextRequestId
            /\ pc'[d] \notin Unfiled => 0 < id'[d] /\ id'[d] < nextRequestId
      BY <2>1 DEF NumbersInv
    <3>7. QED
      BY <2>3, <2>5, <2>8, <3>2, <3>3, <3>4, <3>5, <3>6 DEF NumbersInv
  <2>9. QED
    BY <1>2, <2>6, <2>7, <2>8, RequesterNumbers
<1>3. QED
  BY <1>1, <1>2

\* Request ids only grow, and those in use never change.
LEMMA IdsStay ==
  ASSUME TypeOK, NumbersInv, [Next]_vars
  PROVE  /\ nextRequestId <= nextRequestId' /\ nextRequestId' \in Nat
         /\ \A c \in Requesters : id'[c] = id[c] \/ id'[c] = nextRequestId
<1>t. nextRequestId \in Nat /\ id \in [Requesters -> Nat]
  BY DEF TypeOK, CallsOK
<1>1. CASE \A c \in Requesters : ~RequesterStep(c)
  BY <1>t, <1>1, RequestersStay
<1>2. ASSUME NEW c \in Requesters, RequesterStep(c)
      PROVE  /\ nextRequestId <= nextRequestId' /\ nextRequestId' \in Nat
             /\ \A d \in Requesters : id'[d] = id[d] \/ id'[d] = nextRequestId
  <2>1. /\ \A d \in Requesters \ {c} : id'[d] = id[d]
        /\ \/ id'[c] = nextRequestId /\ nextRequestId' = nextRequestId
           \/ pc[c] = "numbered" /\ id'[c] = id[c] /\ nextRequestId' = id[c] + 1
           \/ id'[c] = id[c] /\ nextRequestId' = nextRequestId
    BY <1>2, RequesterNumbers
  <2>2. QED
    BY <1>t, <2>1 DEF NumbersInv
<1>3. QED
  BY <1>1, <1>2

\* Two requests that have drawn their ids at once have done so for good.
LEMMA CrossedStays ==
  ASSUME TypeOK, [Next]_vars, crossed PROVE crossed'
<1>1. CASE \A c \in Requesters : ~RequesterStep(c)
  BY <1>1, RequestersStay
<1>2. ASSUME NEW c \in Requesters, RequesterStep(c) PROVE crossed'
  BY <1>2, RequesterNumbers
<1>3. QED
  BY <1>1, <1>2

\* Until two requests draw their ids at once, every id is its request's own:
\* prompts, closes and configurations included, however they overlap.
THEOREM NumbersCorrect == Spec => [](~crossed => NumbersInv)
<1>1. Init => NumbersInv
  <2> SUFFICES ASSUME Init PROVE NumbersInv
    OBVIOUS
  <2>1. \A c \in Requesters : ~InFlight(c)
    BY EmptyPipe, ConstantsAssumption DEF Init, InFlight, Sent, Answered, Handled
  <2>2. QED
    BY <2>1 DEF Init, NumbersInv, Unnumbered, Unfiled
<1>2. TypeOK /\ (~crossed => NumbersInv) /\ [Next]_vars => (~crossed' => NumbersInv')
  BY NumbersStep, CrossedStays
<1>3. QED
  BY <1>1, <1>2, TypeCorrect, PTL DEF Spec

\* The answer a request takes is the answer to its own, waits and late answers,
\* closes and configurations included: handleAcpLine finds the pending object by
\* an id that one request has, until two draw at once.
THEOREM AnswersOwn == Spec => AnswersOwnPrompt
<1>1. TypeOK /\ (~crossed => NumbersInv) /\ [Next]_vars =>
        \A r \in Requesters : ~crossed /\ answer'[r] # answer[r] =>
          Head(stdout).call = r /\ pc[r] \notin {"new", "describing", "cleared"}
  <2> SUFFICES ASSUME TypeOK, NumbersInv, [Next]_vars,
                      NEW r \in Requesters, answer'[r] # answer[r]
               PROVE  Head(stdout).call = r /\ pc[r] \notin {"new", "describing", "cleared"}
    OBVIOUS
  <2>1. Deliver
    <3>1. ASSUME NEW s \in Requesters, RequesterStep(s) PROVE answer' = answer
      BY <3>1 DEF RequesterStep, CallStep, OtherStep, Receive, CheckBusy, ReadRequestId,
        FilePending, WriteRequest, ClaimTurn, RaiseTurn, TakeAnswer, GiveUp, FailDrop,
        FailClear
    <3>2. CASE EndTurn \/ ClearTurn \/ ReaderExit
      BY <3>2 DEF EndTurn, ClearTurn, ReaderExit, callVars
    <3>3. ASSUME NEW i \in Interrupts, InterruptStep(i) PROVE answer' = answer
      BY <3>3 DEF InterruptStep, StartInterrupt, WriteCancel, EndInterrupt, callVars
    <3>4. CASE StopStep
      BY <3>4 DEF StopStep, CloseWriter, KillTree, CloseDrop, CloseClear, callVars
    <3>5. CASE AgentStep \/ AgentExits
      BY <3>5 DEF AgentStep, AgentTakesPrompt, AgentTakesRequest, AgentTakesCancel,
        AgentEndsTurn, AgentExits, callVars
    <3>6. CASE UNCHANGED vars
      BY <3>6 DEF vars, callVars
    <3>7. QED
      BY <3>1, <3>2, <3>3, <3>4, <3>5, <3>6 DEF Next, RequesterStep, ReaderStep
  <2>2. r \in Found(Head(stdout)) /\ stdout # <<>>
    BY <2>1 DEF Deliver, TypeOK, CallsOK
  <2>3. QED
    BY <2>2, FoundOwn DEF Unfiled, Unnumbered
<1>2. QED
  BY <1>1, TypeCorrect, NumbersCorrect, PTL DEF Spec, AnswersOwnPrompt

-----------------------------------------------------------------------------
(* One turn at a time: calls served one by one, none of them waiting, no two *)
(* requests that have drawn their ids at once.                               *)

\* A step that sends nothing, changes no call and raises no flag keeps the
\* invariant if it lowers the flag only when no submitted call is in flight.
LEMMA QuietStep ==
  ASSUME SerialInv, \A d \in Calls : pc'[d] = pc[d], waits' = waits, alive' => alive,
         \A d \in Calls : InFlight(d)' => InFlight(d),
         turnActive' => turnActive,
         \A d \in Calls : alive' /\ InFlight(d)' /\ pc[d] = "submitted" =>
                           turnActive' = turnActive,
         OnePlace', DeadIsEmpty'
  PROVE  SerialInv'
<1>1. ServedAlone' /\ NoWaiter'
  BY DEF SerialInv, ServedAlone, NoWaiter
<1>2. UnwrittenNotInFlight'
  BY DEF SerialInv, UnwrittenNotInFlight
<1>3. ClearedSeesNoTurn'
  BY DEF SerialInv, ClearedSeesNoTurn
<1>4. InFlightHoldsFlag'
  BY DEF SerialInv, InFlightHoldsFlag
<1>5. OneInFlight'
  BY DEF SerialInv, OneInFlight
<1>6. QED
  BY <1>1, <1>2, <1>3, <1>4, <1>5 DEF SerialInv

\* A call moves on without touching the pipes.
LEMMA SerialCallStep ==
  ASSUME ~Overlap, TypeOK, SerialInv,
         NEW c \in Calls, CallStep(c), ~WriteRequest(c), NoneWaits'
  PROVE  SerialInv'
<1>1. SamePlaces /\ alive' = alive /\ stopping' = stopping
  BY RequesterKeepsPlaces DEF RequesterStep
<1>2. (\A d \in Calls : InFlight(d)' <=> InFlight(d)) /\ OnePlace'
  BY <1>1, SamePlacesFacts DEF SerialInv
<1>3. DeadIsEmpty'
  BY <1>1 DEF SerialInv, DeadIsEmpty, SamePlaces
<1>4. PICK from, to : Goto(c, from, to)
  BY DEF CallStep, Receive, CheckBusy, ReadRequestId, Asks, FilePending, ClaimTurn,
    RaiseTurn, TakeAnswer, GiveUp, FailDrop, FailClear
<1>5. pc \in [Requesters -> {"new"} \cup Served \cup Outcomes]
  BY DEF TypeOK, CallsOK
<1>6. \A d \in Calls \ {c} : pc'[d] = pc[d]
  BY <1>4, <1>5 DEF Goto
<1>7. pc'[c] = to /\ pc[c] = from
  BY <1>4, <1>5 DEF Goto
<1>8. pc[c] \in Served \/ \A d \in Calls : pc[d] \notin Served
  BY DEF CallStep, Receive, CheckBusy, ReadRequestId, Asks, FilePending, ClaimTurn,
    RaiseTurn, TakeAnswer, GiveUp, FailDrop, FailClear, Goto, Served
<1>9. ServedAlone'
  BY <1>5, <1>6, <1>8 DEF SerialInv, ServedAlone
<1>10. NoWaiter'
  <2>1. ~waits'[c]
    BY DEF NoneWaits
  <2>2. \A d \in Calls \ {c} : waits'[d] = waits[d]
    BY DEF CallStep, Receive, CheckBusy, ReadRequestId, Asks, FilePending, ClaimTurn,
      RaiseTurn, TakeAnswer, GiveUp, FailDrop, FailClear, TypeOK, CallsOK
  <2>3. to \notin {"waiting", "completed"}
    BY <1>5, <1>7 DEF CallStep, Receive, CheckBusy, ReadRequestId, Asks, FilePending,
      ClaimTurn, RaiseTurn, TakeAnswer, GiveUp, FailDrop, FailClear, Goto,
      SerialInv, NoWaiter
  <2>4. QED
    BY <1>6, <1>7, <2>1, <2>2, <2>3 DEF SerialInv, NoWaiter
<1>11. UnwrittenNotInFlight'
  <2>1. to \in Unwritten => from \in Unwritten
    BY <1>5, <1>7 DEF CallStep, Receive, CheckBusy, ReadRequestId, Asks, FilePending,
      ClaimTurn, RaiseTurn, TakeAnswer, GiveUp, FailDrop, FailClear, Goto,
      SerialInv, NoWaiter, Unwritten
  <2>2. QED
    BY <1>2, <1>6, <1>7, <2>1 DEF SerialInv, UnwrittenNotInFlight
<1>12. ClearedSeesNoTurn' /\ InFlightHoldsFlag'
  <2> SUFFICES ASSUME alive
               PROVE  ClearedSeesNoTurn' /\ InFlightHoldsFlag'
    BY <1>1 DEF ClearedSeesNoTurn, InFlightHoldsFlag
  <2>1. CASE RaiseTurn(c)
    <3>1. turnActive' /\ to = "submitted" /\ from = "claimed"
      BY <1>5, <1>7, <2>1 DEF RaiseTurn, Goto, SerialInv, NoWaiter
    <3>2. \A d \in Calls : pc'[d] \notin Cleared
      BY <1>6, <1>7, <3>1 DEF SerialInv, ServedAlone, Served, Cleared
    <3>3. QED
      BY <3>1, <3>2 DEF ClearedSeesNoTurn, InFlightHoldsFlag
  <2>2. CASE CheckBusy(c)
    <3>1. turnActive' = turnActive /\ (to = "cleared" => ~turnActive)
            /\ to \in {"busy", "cleared"}
      BY <1>5, <1>7, <2>2 DEF CheckBusy, Goto, flagVars
    <3>2. QED
      BY <1>2, <1>6, <1>7, <3>1
      DEF SerialInv, ClearedSeesNoTurn, InFlightHoldsFlag, Cleared
  <2>3. CASE FailDrop(c)
    <3>1. ~turnActive' /\ ~turnActive /\ from = "failing" /\ to = "dropping"
      BY <1>5, <1>7, <2>3 DEF FailDrop, Goto, SerialInv, ClearedSeesNoTurn, Cleared
    <3>2. QED
      BY <1>2, <1>6, <1>7, <3>1
      DEF SerialInv, ClearedSeesNoTurn, InFlightHoldsFlag, Cleared
  <2>4. CASE ~RaiseTurn(c) /\ ~CheckBusy(c) /\ ~FailDrop(c)
    <3>1. turnActive' = turnActive /\ to # "submitted"
      BY <1>5, <1>7, <2>4 DEF CallStep, Receive, ReadRequestId, Asks, FilePending,
        ClaimTurn, TakeAnswer, GiveUp, FailClear, Goto, flagVars
    <3>2. to \in Cleared => from \in Cleared
      BY <1>5, <1>7, <2>4 DEF CallStep, Receive, ReadRequestId, Asks, FilePending,
        ClaimTurn, TakeAnswer, GiveUp, FailClear, Goto, Cleared, SerialInv, NoWaiter
    <3>3. QED
      BY <1>2, <1>6, <1>7, <3>1, <3>2
      DEF SerialInv, ClearedSeesNoTurn, InFlightHoldsFlag
  <2>5. QED
    BY <2>1, <2>2, <2>3, <2>4
<1>13. OneInFlight'
  BY <1>1, <1>2 DEF SerialInv, OneInFlight
<1>14. QED
  BY <1>2, <1>3, <1>9, <1>10, <1>11, <1>12, <1>13 DEF SerialInv

\* A prompt is written: nothing else was in flight, since the flag was down.
LEMMA SerialWrite ==
  ASSUME TypeOK, SerialInv, NEW c \in Calls, WriteRequest(c)
  PROVE  SerialInv'
<1>1. /\ pc[c] = "filed"
      /\ pc' = [pc EXCEPT ![c] = IF Writable THEN "written" ELSE "failing"]
      /\ stdin' = IF Writable THEN Append(stdin, c) ELSE stdin
      /\ UNCHANGED <<waits, alive, stdout, agentTurn, turnActive, reader, reading, stopping>>
  BY DEF WriteRequest, Goto, flagVars, readVars, stopVars
<1>2. pc \in [Requesters -> {"new"} \cup Served \cup Outcomes]
  BY DEF TypeOK, CallsOK
<1>3. \A d \in Calls : pc'[d] = IF d # c THEN pc[d]
                                ELSE IF Writable THEN "written" ELSE "failing"
  BY <1>1, <1>2
<1>4. ServedAlone' /\ NoWaiter'
  BY <1>1, <1>3 DEF SerialInv, ServedAlone, NoWaiter, Served
<1>5. ClearedSeesNoTurn'
  BY <1>1, <1>3 DEF SerialInv, ClearedSeesNoTurn, Cleared
<1>6. CASE ~Writable
  <2>1. SamePlaces
    BY <1>1, <1>6 DEF SamePlaces
  <2>2. (\A d \in Calls : InFlight(d)' <=> InFlight(d)) /\ OnePlace'
    BY <2>1, SamePlacesFacts DEF SerialInv
  <2>3. UnwrittenNotInFlight' /\ InFlightHoldsFlag' /\ OneInFlight' /\ DeadIsEmpty'
    BY <1>1, <1>3, <1>6, <2>2
    DEF SerialInv, UnwrittenNotInFlight, Unwritten, InFlightHoldsFlag, OneInFlight,
      DeadIsEmpty
  <2>4. QED
    BY <1>4, <1>5, <2>2, <2>3 DEF SerialInv
<1>7. CASE Writable
  <2>1. alive /\ stopping = "open" /\ stdin' = Append(stdin, c)
    BY <1>1, <1>7 DEF Writable
  <2>2. \A d \in Calls : ~InFlight(d)
    <3> SUFFICES ASSUME NEW d \in Calls, InFlight(d) PROVE FALSE
      OBVIOUS
    <3>1. ~turnActive
      BY <1>1, <2>1 DEF SerialInv, ClearedSeesNoTurn, Cleared
    <3>2. pc[d] \notin Unwritten /\ pc[d] # "submitted"
      BY <2>1, <3>1 DEF SerialInv, UnwrittenNotInFlight, InFlightHoldsFlag
    <3>3. pc[d] \in Served
      BY <1>2, <3>2 DEF Served, Outcomes, Unwritten, SerialInv, NoWaiter
    <3>4. d = c
      BY <1>1, <3>3 DEF SerialInv, ServedAlone, Served
    <3>5. QED
      BY <1>1, <3>2, <3>4 DEF Unwritten
  <2>3. \A k \in DOMAIN stdin' :
          \/ k \in DOMAIN stdin /\ stdin'[k] = stdin[k]
          \/ k = Len(stdin) + 1 /\ k \notin DOMAIN stdin /\ stdin'[k] = c
    BY <2>1, AppendFacts DEF TypeOK, PipesOK
  <2>4. \A d \in Calls : ~Sent(d) /\ agentTurn # d /\ ~Answered(d) /\ ~Handled(d)
    BY <2>2 DEF InFlight
  <2>5. \A d \in Calls : /\ Sent(d)' => d = c
                         /\ agentTurn' # d /\ ~Answered(d)' /\ ~Handled(d)'
    BY <1>1, <2>3, <2>4 DEF Sent, Answered, Handled
  <2>6. \A d \in Calls : InFlight(d)' => d = c
    BY <2>5 DEF InFlight
  <2>7. OnePlace'
    <3>1. \A d \in Calls : \A k, l \in DOMAIN stdin' :
            stdin'[k] = d /\ stdin'[l] = d => k = l
      BY <2>3, <2>4 DEF Sent
    <3>2. \A d \in Calls : \A k, l \in DOMAIN stdout' :
            stdout'[k].call = d /\ stdout'[l].call = d => k = l
      BY <1>1 DEF SerialInv, OnePlace
    <3>3. QED
      BY <2>5, <3>1, <3>2 DEF OnePlace
  <2>8. UnwrittenNotInFlight' /\ InFlightHoldsFlag'
    BY <1>3, <1>7, <2>6 DEF UnwrittenNotInFlight, Unwritten, InFlightHoldsFlag
  <2>9. OneInFlight'
    BY <2>6 DEF OneInFlight
  <2>10. DeadIsEmpty'
    BY <1>1, <2>1 DEF DeadIsEmpty
  <2>11. QED
    BY <1>4, <1>5, <2>7, <2>8, <2>9, <2>10 DEF SerialInv
<1>8. QED
  BY <1>6, <1>7

\* The reader takes a line: the prompt it answers stays at one place.
LEMMA SerialRead ==
  ASSUME TypeOK, SerialInv, NumbersInv, ReaderStep
  PROVE  SerialInv'
<1> USE DEF callVars, flagVars, readVars, intrVars, stopVars, agentVars
<1>1. CASE Deliver
  <2>1. /\ UNCHANGED <<pc, waits, alive, stdin, agentTurn, turnActive, stopping>>
        /\ reader = "idle" /\ stdout # <<>> /\ stdout' = Tail(stdout)
        /\ \/ UNCHANGED <<reader, reading>>
           \/ reader' = "delivered" /\ reading' = Head(stdout).call
    BY <1>1, DeliverFacts
  <2>2. /\ 1 \in DOMAIN stdout /\ stdout[1] = Head(stdout)
        /\ \A k \in DOMAIN stdout' :
             k + 1 \in DOMAIN stdout /\ k + 1 # 1 /\ stdout'[k] = stdout[k + 1]
    BY <1>1, DeliverFacts
  <2>3. \A d \in Calls :
          /\ Sent(d)' <=> Sent(d)
          /\ Answered(d)' => Answered(d) /\ Head(stdout).call # d
          /\ Handled(d)' => Answered(d) /\ Head(stdout).call = d
          /\ ~Handled(d)
    BY <2>1, <2>2 DEF Sent, Answered, Handled, SerialInv, OnePlace
  <2>4. \A d \in Calls : InFlight(d)' => InFlight(d)
    BY <2>1, <2>3 DEF InFlight
  <2>5. \A d \in Calls : \A k, l \in DOMAIN stdout' :
          stdout'[k].call = d /\ stdout'[l].call = d => k = l
    <3> SUFFICES ASSUME NEW d \in Calls, NEW k \in DOMAIN stdout', NEW l \in DOMAIN stdout',
                        stdout'[k].call = d, stdout'[l].call = d
                 PROVE  k = l
      OBVIOUS
    <3>1. k + 1 = l + 1
      BY <2>2 DEF SerialInv, OnePlace
    <3>2. k \in Nat /\ l \in Nat
      BY <2>1, TailFacts DEF TypeOK, PipesOK
    <3>3. QED
      BY <3>1, <3>2
  <2>6. OnePlace'
    BY <2>1, <2>3, <2>5 DEF SerialInv, OnePlace
  <2>7. DeadIsEmpty'
    BY <2>1 DEF SerialInv, DeadIsEmpty
  <2>8. QED
    BY <2>1, <2>4, <2>6, <2>7, QuietStep
<1>2. CASE EndTurn
  <2>1. /\ UNCHANGED <<pc, waits, alive, stdin, stdout, agentTurn, stopping>>
        /\ reader = "delivered" /\ reader' # "delivered"
        /\ turnActive' = turnActive \/ ~turnActive'
    BY <1>2 DEF EndTurn, TypeOK
  <2>2. \A d \in Calls :
          /\ Sent(d)' <=> Sent(d)
          /\ Answered(d)' <=> Answered(d)
          /\ ~Handled(d)'
    BY <2>1 DEF Sent, Answered, Handled
  <2>3. \A d \in Calls : InFlight(d)' => InFlight(d)
    BY <2>1, <2>2 DEF InFlight
  <2>4. OnePlace'
    BY <2>1, <2>2 DEF SerialInv, OnePlace
  <2>5. DeadIsEmpty'
    BY <2>1 DEF SerialInv, DeadIsEmpty
  <2>6. reading \in Calls => \A d \in Calls : alive => ~InFlight(d)'
    <3> SUFFICES ASSUME reading \in Calls, NEW d \in Calls, alive, InFlight(d)'
                 PROVE  FALSE
      OBVIOUS
    <3>1. InFlight(d) /\ InFlight(reading) /\ Handled(reading)
      BY <2>1, <2>3 DEF InFlight, Handled
    <3>2. d = reading
      BY <3>1 DEF SerialInv, OneInFlight
    <3>3. ~Sent(d) /\ agentTurn # d /\ ~Answered(d)
      BY <3>1, <3>2 DEF SerialInv, OnePlace
    <3>4. QED
      BY <2>1, <2>2, <3>3 DEF InFlight
  <2>7. reading \in Calls
    BY <2>1 DEF TypeOK, ThreadsOK
  <2>8. QED
    BY <2>1, <2>3, <2>4, <2>5, <2>6, <2>7, QuietStep
<1>3. CASE ClearTurn \/ ReaderExit
  <2>1. /\ UNCHANGED <<pc, waits, alive, stdin, stdout, agentTurn, stopping, turnActive>>
        /\ reader # "delivered" /\ reader' # "delivered"
    BY <1>3 DEF ClearTurn, ReaderExit
  <2>2. \A d \in Calls :
          /\ Sent(d)' <=> Sent(d)
          /\ Answered(d)' <=> Answered(d)
          /\ ~Handled(d)' /\ ~Handled(d)
    BY <2>1 DEF Sent, Answered, Handled
  <2>3. \A d \in Calls : InFlight(d)' => InFlight(d)
    BY <2>1, <2>2 DEF InFlight
  <2>4. OnePlace'
    BY <2>1, <2>2 DEF SerialInv, OnePlace
  <2>5. DeadIsEmpty'
    BY <2>1 DEF SerialInv, DeadIsEmpty
  <2>6. QED
    BY <2>1, <2>3, <2>4, <2>5, QuietStep
<1>4. QED
  BY <1>1, <1>2, <1>3 DEF ReaderStep

\* session/cancel is no prompt: no call's prompt moves.
LEMMA SerialInterrupt ==
  ASSUME TypeOK, SerialInv, NEW i \in Interrupts, InterruptStep(i)
  PROVE  SerialInv'
<1> USE DEF callVars, flagVars, readVars, stopVars, agentVars
<1>1. /\ UNCHANGED <<pc, waits, alive, stdout, agentTurn, stopping, turnActive>>
      /\ UNCHANGED <<reader, reading>>
      /\ stdin' = stdin \/ (Writable /\ stdin' = Append(stdin, NoCall))
  BY DEF InterruptStep, StartInterrupt, WriteCancel, EndInterrupt
<1>2. \A k \in DOMAIN stdin' :
        (k \in DOMAIN stdin /\ stdin'[k] = stdin[k]) \/ stdin'[k] = NoCall
  <2>1. CASE stdin' = stdin
    BY <2>1
  <2>2. CASE stdin' = Append(stdin, NoCall)
    BY <2>2, AppendFacts DEF TypeOK, PipesOK
  <2>3. QED
    BY <1>1, <2>1, <2>2
<1>3. \A d \in Calls : /\ Sent(d)' => Sent(d)
                       /\ Answered(d)' <=> Answered(d)
                       /\ Handled(d)' <=> Handled(d)
  BY <1>1, <1>2, ConstantsAssumption DEF Sent, Answered, Handled
<1>4. \A d \in Calls : InFlight(d)' => InFlight(d)
  BY <1>1, <1>3 DEF InFlight
<1>5. OnePlace'
  <2>1. \A d \in Calls : \A k, l \in DOMAIN stdin' :
          stdin'[k] = d /\ stdin'[l] = d => k = l
    BY <1>2, ConstantsAssumption DEF SerialInv, OnePlace
  <2>2. QED
    BY <1>1, <1>3, <2>1 DEF SerialInv, OnePlace
<1>6. DeadIsEmpty'
  BY <1>1 DEF SerialInv, DeadIsEmpty, Writable
<1>7. QED
  BY <1>1, <1>4, <1>5, <1>6, QuietStep

\* The process dies, or stopEntry goes on after its death.
LEMMA SerialStop ==
  ASSUME TypeOK, SerialInv, StopStep \/ AgentExits
  PROVE  SerialInv'
<1> USE DEF callVars, flagVars, readVars, intrVars, stopVars, agentVars
<1>1. UNCHANGED <<pc, waits, stdout, reader, reading>>
  BY DEF StopStep, CloseWriter, KillTree, CloseDrop, CloseClear, AgentExits, Gone
<1>2. CASE CloseWriter
  <2>1. SamePlaces /\ UNCHANGED <<alive, turnActive>> /\ stopping' = "writer_closed"
    BY <1>2 DEF CloseWriter, SamePlaces
  <2>2. (\A d \in Calls : InFlight(d)' <=> InFlight(d)) /\ OnePlace'
    BY <2>1, SamePlacesFacts DEF SerialInv
  <2>3. DeadIsEmpty'
    BY <2>1 DEF SerialInv, DeadIsEmpty, SamePlaces
  <2>4. QED
    BY <1>1, <2>1, <2>2, <2>3, QuietStep
<1>3. CASE CloseDrop \/ CloseClear
  <2>1. SamePlaces /\ ~alive /\ ~alive' /\ (turnActive' => turnActive)
    BY <1>3 DEF CloseDrop, CloseClear, SamePlaces, SerialInv, DeadIsEmpty
  <2>2. (\A d \in Calls : InFlight(d)' <=> InFlight(d)) /\ OnePlace'
    BY <2>1, SamePlacesFacts DEF SerialInv
  <2>3. DeadIsEmpty'
    BY <2>1 DEF SerialInv, DeadIsEmpty, SamePlaces
  <2>4. QED
    BY <1>1, <2>1, <2>2, <2>3, QuietStep
<1>4. CASE KillTree \/ AgentExits
  <2>1. Gone /\ turnActive' = turnActive
    BY <1>4 DEF KillTree, AgentExits
  <2>2. \A d \in Calls : /\ ~Sent(d)'
                         /\ agentTurn' # d
                         /\ Answered(d)' <=> Answered(d)
                         /\ Handled(d)' <=> Handled(d)
    BY <1>1, <2>1, EmptyPipe, ConstantsAssumption DEF Gone, Sent, Answered, Handled
  <2>3. \A d \in Calls : InFlight(d)' => InFlight(d)
    BY <2>2 DEF InFlight
  <2>4. OnePlace'
    BY <1>1, <2>1, <2>2, EmptyPipe DEF SerialInv, OnePlace, Gone
  <2>5. DeadIsEmpty'
    BY <2>1 DEF DeadIsEmpty, Gone
  <2>6. QED
    BY <1>1, <2>1, <2>3, <2>4, <2>5, QuietStep DEF Gone
<1>5. QED
  BY <1>2, <1>3, <1>4 DEF StopStep

\* The agent reads a prompt: it was the only one in flight, so no turn runs.
LEMMA SerialTake ==
  ASSUME TypeOK, SerialInv, AgentTakesPrompt
  PROVE  SerialInv'
<1> USE DEF callVars, flagVars, readVars, intrVars, stopVars
<1>1. /\ UNCHANGED <<pc, waits, alive, stopping, turnActive, reader, reading>>
      /\ alive /\ stdin # <<>> /\ Head(stdin) \in Calls /\ stdin' = Tail(stdin)
  BY DEF AgentTakesPrompt
<1>2. /\ Head(stdin) \in Calls
      /\ 1 \in DOMAIN stdin /\ stdin[1] = Head(stdin)
      /\ \A k \in DOMAIN stdin' :
           k + 1 \in DOMAIN stdin /\ k + 1 # 1 /\ stdin'[k] = stdin[k + 1]
  BY <1>1, TailFacts DEF TypeOK, PipesOK
<1>3. Sent(Head(stdin))
  BY <1>2 DEF Sent
<1>4. \A d \in Calls : InFlight(d) => d = Head(stdin)
  BY <1>1, <1>2, <1>3 DEF SerialInv, OneInFlight, InFlight
<1>5. agentTurn = NoCall
  BY <1>2, <1>3, <1>4 DEF InFlight, SerialInv, OnePlace, TypeOK, PipesOK
<1>6. agentTurn' = Head(stdin) /\ stdout' = stdout
  BY <1>5 DEF AgentTakesPrompt
<1>7. \A d \in Calls : ~Answered(d) /\ ~Handled(d) /\ (Sent(d) => d = Head(stdin))
  BY <1>3, <1>4 DEF InFlight, SerialInv, OnePlace
<1>8. \A d \in Calls : Sent(d)' => Sent(d) /\ d # Head(stdin)
  BY <1>2 DEF Sent, SerialInv, OnePlace
<1>9. \A d \in Calls : ~Sent(d)' /\ ~Answered(d)' /\ ~Handled(d)'
  BY <1>1, <1>6, <1>7, <1>8 DEF Answered, Handled
<1>10. \A d \in Calls : InFlight(d)' => InFlight(d)
  BY <1>3, <1>6, <1>9 DEF InFlight
<1>11. OnePlace'
  <2>1. \A d \in Calls : \A k, l \in DOMAIN stdin' :
          stdin'[k] = d /\ stdin'[l] = d => k = l
    BY <1>9 DEF Sent
  <2>2. QED
    BY <1>6, <1>9, <2>1 DEF SerialInv, OnePlace
<1>12. DeadIsEmpty'
  BY <1>1 DEF SerialInv, DeadIsEmpty
<1>13. QED
  BY <1>1, <1>10, <1>11, <1>12, QuietStep

\* The agent ends its turn, on its own or because it was told to.
LEMMA SerialEnd ==
  ASSUME TypeOK, SerialInv, AgentTakesCancel \/ AgentEndsTurn
  PROVE  SerialInv'
<1> USE DEF callVars, flagVars, readVars, intrVars, stopVars
<1>1. /\ UNCHANGED <<pc, waits, alive, stopping, turnActive, reader, reading>>
      /\ alive /\ agentTurn' = NoCall
      /\ \/ stdin' = stdin
         \/ stdin # <<>> /\ stdin' = Tail(stdin)
  BY DEF AgentTakesCancel, AgentEndsTurn
<1>2. \A k \in DOMAIN stdin' :
        \/ stdin' = stdin
        \/ k \in Nat /\ k + 1 \in DOMAIN stdin /\ stdin'[k] = stdin[k + 1]
  BY <1>1, TailFacts DEF TypeOK, PipesOK
<1>3. \A d \in Calls : (Sent(d)' => Sent(d)) /\ agentTurn' # d
  BY <1>1, <1>2, ConstantsAssumption DEF Sent
<1>4. \A d \in Calls : \A k, l \in DOMAIN stdin' :
        stdin'[k] = d /\ stdin'[l] = d => k = l
  <2>1. CASE stdin' = stdin
    BY <2>1 DEF SerialInv, OnePlace
  <2>2. CASE stdin' # stdin
    <3> SUFFICES ASSUME NEW d \in Calls, NEW k \in DOMAIN stdin', NEW l \in DOMAIN stdin',
                        stdin'[k] = d, stdin'[l] = d
                 PROVE  k = l
      OBVIOUS
    <3>1. k + 1 = l + 1 /\ k \in Nat /\ l \in Nat
      <4>1. stdin[k + 1] = d /\ stdin[l + 1] = d
        BY <1>2, <2>2
      <4>2. k + 1 \in DOMAIN stdin /\ l + 1 \in DOMAIN stdin /\ k \in Nat /\ l \in Nat
        BY <1>2, <2>2
      <4>3. QED
        BY <4>1, <4>2 DEF SerialInv, OnePlace
    <3>2. QED
      BY <3>1
  <2>3. QED
    BY <2>1, <2>2
<1>5. \/ stdout' = stdout
      \/ /\ agentTurn \in Calls
         /\ \E kind \in {"result", "error"} :
              stdout' = Append(stdout, [call |-> agentTurn, kind |-> kind])
  BY DEF AgentTakesCancel, AgentEndsTurn, TypeOK, PipesOK
<1>6. \A k \in DOMAIN stdout' :
        \/ k \in DOMAIN stdout /\ stdout'[k] = stdout[k]
        \/ k = Len(stdout) + 1 /\ agentTurn \in Calls /\ stdout'[k].call = agentTurn
  <2>1. CASE stdout' = stdout
    BY <2>1
  <2>2. CASE stdout' # stdout
    <3>1. PICK kind \in {"result", "error"} :
            stdout' = Append(stdout, [call |-> agentTurn, kind |-> kind])
      BY <1>5, <2>2
    <3>2. [call |-> agentTurn, kind |-> kind] \in Response
      BY <1>5, <2>2 DEF Response
    <3>3. QED
      BY <1>5, <2>2, <3>1, <3>2, AppendFacts DEF TypeOK, PipesOK
  <2>3. QED
    BY <2>1, <2>2
<1>7. \A d \in Calls : /\ Answered(d)' => Answered(d) \/ agentTurn = d
                       /\ Handled(d)' <=> Handled(d)
  BY <1>1, <1>6 DEF Answered, Handled
<1>8. \A d \in Calls : InFlight(d)' => InFlight(d)
  BY <1>3, <1>7 DEF InFlight
<1>9. \A d \in Calls : \A k, l \in DOMAIN stdout' :
        stdout'[k].call = d /\ stdout'[l].call = d => k = l
  BY <1>6 DEF SerialInv, OnePlace, Answered
<1>10. OnePlace'
  BY <1>3, <1>4, <1>7, <1>9 DEF SerialInv, OnePlace
<1>11. DeadIsEmpty'
  BY <1>1 DEF SerialInv, DeadIsEmpty
<1>12. QED
  BY <1>1, <1>8, <1>10, <1>11, QuietStep

\* Another request's line is no prompt: no call's prompt moves.
LEMMA SerialOther ==
  ASSUME TypeOK, SerialInv, NEW q \in Others, OtherStep(q)
  PROVE  SerialInv'
<1> USE DEF callVars, flagVars, readVars, intrVars, stopVars
<1>1. /\ UNCHANGED <<waits, alive, stdout, agentTurn, stopping, turnActive, reader, reading>>
      /\ stdin' = stdin \/ (Writable /\ stdin' = Append(stdin, q))
  BY DEF OtherStep, ReadRequestId, FilePending, WriteRequest, TakeAnswer, GiveUp, agentVars
<1>2. \A d \in Calls : pc'[d] = pc[d]
  <2>1. PICK from, to : Goto(q, from, to)
    BY ConstantsAssumption DEF OtherStep, ReadRequestId, Asks, FilePending, WriteRequest,
      TakeAnswer, GiveUp
  <2>2. QED
    BY <2>1, ConstantsAssumption DEF Goto, TypeOK, CallsOK
<1>3. \A k \in DOMAIN stdin' : (k \in DOMAIN stdin /\ stdin'[k] = stdin[k]) \/ stdin'[k] = q
  <2>1. CASE stdin' = stdin
    BY <2>1
  <2>2. CASE stdin' = Append(stdin, q)
    BY <2>2, AppendFacts DEF TypeOK, PipesOK
  <2>3. QED
    BY <1>1, <2>1, <2>2
<1>4. \A d \in Calls : /\ Sent(d)' => Sent(d)
                       /\ Answered(d)' <=> Answered(d)
                       /\ Handled(d)' <=> Handled(d)
  BY <1>1, <1>3, ConstantsAssumption DEF Sent, Answered, Handled
<1>5. \A d \in Calls : InFlight(d)' => InFlight(d)
  BY <1>1, <1>4 DEF InFlight
<1>6. OnePlace'
  <2>1. \A d \in Calls : \A k, l \in DOMAIN stdin' :
          stdin'[k] = d /\ stdin'[l] = d => k = l
    BY <1>3, ConstantsAssumption DEF SerialInv, OnePlace
  <2>2. QED
    BY <1>1, <1>4, <2>1 DEF SerialInv, OnePlace
<1>7. DeadIsEmpty'
  BY <1>1 DEF SerialInv, DeadIsEmpty, Writable
<1>8. QED
  BY <1>1, <1>2, <1>5, <1>6, <1>7, QuietStep

\* The agent answers another request: no call's prompt moves.
LEMMA SerialAnswer ==
  ASSUME TypeOK, SerialInv, AgentTakesRequest
  PROVE  SerialInv'
<1> USE DEF callVars, flagVars, readVars, intrVars, stopVars
<1>1. /\ UNCHANGED <<pc, waits, alive, stopping, turnActive, agentTurn, reader, reading>>
      /\ alive /\ stdin # <<>> /\ Head(stdin) \in Others /\ stdin' = Tail(stdin)
  BY DEF AgentTakesRequest
<1>2. \A k \in DOMAIN stdin' :
        k \in Nat /\ k + 1 \in DOMAIN stdin /\ stdin'[k] = stdin[k + 1]
  BY <1>1, TailFacts DEF TypeOK, PipesOK
<1>3. PICK kind \in {"result", "error"} :
        stdout' = Append(stdout, [call |-> Head(stdin), kind |-> kind])
  BY DEF AgentTakesRequest
<1>4. [call |-> Head(stdin), kind |-> kind] \in Response
  BY <1>1 DEF Response
<1>5. \A k \in DOMAIN stdout' :
        \/ k \in DOMAIN stdout /\ stdout'[k] = stdout[k]
        \/ stdout'[k].call \in Others
  BY <1>1, <1>3, <1>4, AppendFacts DEF TypeOK, PipesOK
<1>6. DOMAIN stdout \subseteq DOMAIN stdout' /\ \A k \in DOMAIN stdout : stdout'[k] = stdout[k]
  BY <1>3, <1>4, AppendFacts DEF TypeOK, PipesOK
<1>7. \A d \in Calls : /\ Sent(d)' => Sent(d)
                       /\ Answered(d)' <=> Answered(d)
                       /\ Handled(d)' <=> Handled(d)
  BY <1>1, <1>2, <1>5, <1>6, ConstantsAssumption DEF Sent, Answered, Handled
<1>8. \A d \in Calls : InFlight(d)' => InFlight(d)
  BY <1>1, <1>7 DEF InFlight
<1>9. OnePlace'
  <2>1. \A d \in Calls : \A k, l \in DOMAIN stdin' :
          stdin'[k] = d /\ stdin'[l] = d => k = l
    <3> SUFFICES ASSUME NEW d \in Calls, NEW k \in DOMAIN stdin', NEW l \in DOMAIN stdin',
                        stdin'[k] = d, stdin'[l] = d
                 PROVE  k = l
      OBVIOUS
    <3>1. k + 1 = l + 1 /\ k \in Nat /\ l \in Nat
      <4>1. stdin[k + 1] = d /\ stdin[l + 1] = d
        BY <1>2
      <4>2. k + 1 \in DOMAIN stdin /\ l + 1 \in DOMAIN stdin /\ k \in Nat /\ l \in Nat
        BY <1>2
      <4>3. QED
        BY <4>1, <4>2 DEF SerialInv, OnePlace
    <3>2. QED
      BY <3>1
  <2>2. \A d \in Calls : \A k, l \in DOMAIN stdout' :
          stdout'[k].call = d /\ stdout'[l].call = d => k = l
    BY <1>5, ConstantsAssumption DEF SerialInv, OnePlace
  <2>3. QED
    BY <1>1, <1>7, <2>1, <2>2 DEF SerialInv, OnePlace
<1>10. DeadIsEmpty'
  BY <1>1 DEF SerialInv, DeadIsEmpty
<1>11. QED
  BY <1>1, <1>8, <1>9, <1>10, QuietStep

\* Only a call that has arrived waits.
NewDoNotWait == \A c \in Calls : pc[c] = "new" => ~waits[c]

\* Calls arrive, and keep what they asked for.
LEMMA WaitsStay ==
  ASSUME TypeOK, [Next]_vars
  PROVE  \A c \in Calls : /\ pc'[c] = "new" => pc[c] = "new" /\ waits'[c] = waits[c]
                          /\ pc[c] # "new" => waits'[c] = waits[c]
<1> USE DEF TypeOK, CallsOK
<1>1. ASSUME NEW d \in Calls, CallStep(d)
      PROVE  \A c \in Calls : /\ pc'[c] = "new" => pc[c] = "new" /\ waits'[c] = waits[c]
                              /\ pc[c] # "new" => waits'[c] = waits[c]
  <2>1. CASE Receive(d)
    BY <2>1 DEF Receive, Goto
  <2>2. CASE CheckBusy(d) \/ ReadRequestId(d) \/ FilePending(d) \/ WriteRequest(d)
    BY <2>2 DEF CheckBusy, ReadRequestId, Asks, FilePending, WriteRequest, Goto
  <2>3. CASE ClaimTurn(d) \/ RaiseTurn(d) \/ TakeAnswer(d)
    BY <2>3 DEF ClaimTurn, RaiseTurn, TakeAnswer, Goto
  <2>4. CASE GiveUp(d) \/ FailDrop(d) \/ FailClear(d)
    BY <2>4 DEF GiveUp, FailDrop, FailClear, Goto
  <2>5. QED
    BY <1>1, <2>1, <2>2, <2>3, <2>4 DEF CallStep
<1>9. ASSUME NEW q \in Others, OtherStep(q)
      PROVE  \A c \in Calls : /\ pc'[c] = "new" => pc[c] = "new" /\ waits'[c] = waits[c]
                              /\ pc[c] # "new" => waits'[c] = waits[c]
  BY <1>9, ConstantsAssumption DEF OtherStep, ReadRequestId, Asks, FilePending,
    WriteRequest, TakeAnswer, GiveUp, Goto
<1>2. ASSUME UNCHANGED <<pc, waits>>
      PROVE  \A c \in Calls : /\ pc'[c] = "new" => pc[c] = "new" /\ waits'[c] = waits[c]
                              /\ pc[c] # "new" => waits'[c] = waits[c]
  BY <1>2
<1>3. CASE ReaderStep
  BY <1>2, <1>3 DEF ReaderStep, Deliver, EndTurn, ClearTurn, ReaderExit, callVars
<1>4. ASSUME NEW i \in Interrupts, InterruptStep(i) PROVE UNCHANGED <<pc, waits>>
  BY <1>4 DEF InterruptStep, StartInterrupt, WriteCancel, EndInterrupt, callVars
<1>5. CASE StopStep
  BY <1>2, <1>5 DEF StopStep, CloseWriter, KillTree, CloseDrop, CloseClear, callVars
<1>6. CASE AgentStep \/ AgentExits
  BY <1>2, <1>6 DEF AgentStep, AgentTakesPrompt, AgentTakesRequest, AgentTakesCancel, AgentEndsTurn, AgentExits, callVars
<1>7. CASE UNCHANGED vars
  BY <1>2, <1>7 DEF vars, callVars
<1>8. QED
  BY <1>1, <1>2, <1>3, <1>4, <1>5, <1>6, <1>7, <1>9 DEF Next

\* When the prompt calls of a process are served one at a time, the strengthened
\* invariant holds until one of them waits for its answer or two requests draw
\* their ids at once.
THEOREM SerialCorrect ==
  ASSUME ~Overlap
  PROVE  Spec => [](NoneWaits /\ ~crossed => SerialInv)
<1>1. Init => SerialInv
  <2> SUFFICES ASSUME Init PROVE SerialInv
    OBVIOUS
  <2>1. \A c \in Calls : ~Sent(c) /\ agentTurn # c /\ ~Answered(c) /\ ~Handled(c)
    BY EmptyPipe, ConstantsAssumption DEF Init, Sent, Answered, Handled
  <2>2. \A c \in Calls : ~InFlight(c)
    BY <2>1 DEF InFlight
  <2>3. OnePlace
    BY <2>1, EmptyPipe DEF Init, OnePlace
  <2>4. QED
    BY <2>2, <2>3 DEF Init, SerialInv, ServedAlone, NoWaiter, UnwrittenNotInFlight,
      ClearedSeesNoTurn, InFlightHoldsFlag, OneInFlight, DeadIsEmpty, Served, Cleared
<1>2. Init => NewDoNotWait
  BY DEF Init, NewDoNotWait
<1>3. TypeOK /\ NewDoNotWait /\ [Next]_vars =>
        NewDoNotWait' /\ (NoneWaits' => NoneWaits) /\ (~crossed' => ~crossed)
  <2> SUFFICES ASSUME TypeOK, NewDoNotWait, [Next]_vars
               PROVE  NewDoNotWait' /\ (NoneWaits' => NoneWaits) /\ (~crossed' => ~crossed)
    OBVIOUS
  <2>1. QED
    BY WaitsStay, CrossedStays DEF NewDoNotWait, NoneWaits
<1>4. TypeOK /\ NoneWaits' /\ NumbersInv /\ SerialInv /\ [Next]_vars => SerialInv'
  <2> SUFFICES ASSUME TypeOK, NoneWaits', NumbersInv, SerialInv, [Next]_vars
               PROVE  SerialInv'
    OBVIOUS
  <2>1. ASSUME NEW c \in Calls, CallStep(c) PROVE SerialInv'
    BY <2>1, SerialCallStep, SerialWrite
  <2>2. CASE ReaderStep
    BY <2>2, SerialRead
  <2>3. ASSUME NEW i \in Interrupts, InterruptStep(i) PROVE SerialInv'
    BY <2>3, SerialInterrupt
  <2>4. CASE StopStep \/ AgentExits
    BY <2>4, SerialStop
  <2>5. CASE AgentStep
    BY <2>5, SerialTake, SerialAnswer, SerialEnd DEF AgentStep
  <2>6. CASE UNCHANGED vars
    <3>1. SamePlaces /\ UNCHANGED <<pc, waits, turnActive, alive, stopping>>
      BY <2>6 DEF vars, SamePlaces, callVars, flagVars, readVars, stopVars, agentVars
    <3>2. (\A d \in Calls : InFlight(d)' <=> InFlight(d)) /\ OnePlace'
      BY <3>1, SamePlacesFacts DEF SerialInv
    <3>3. DeadIsEmpty'
      BY <3>1 DEF SerialInv, DeadIsEmpty, SamePlaces
    <3>4. QED
      BY <3>1, <3>2, <3>3, QuietStep
  <2>7. ASSUME NEW q \in Others, OtherStep(q) PROVE SerialInv'
    BY <2>7, SerialOther
  <2>8. QED
    BY <2>1, <2>2, <2>3, <2>4, <2>5, <2>6, <2>7 DEF Next
<1>5. QED
  BY <1>1, <1>2, <1>3, <1>4, TypeCorrect, NumbersCorrect, PTL DEF Spec

\* While a turn runs no other prompt reaches the agent: the busy guard of
\* vibePrompt is enough as long as two calls never overlap.
THEOREM OneTurn ==
  ASSUME ~Overlap
  PROVE  Spec => [](NoneWaits /\ ~crossed => OneTurnAtATime)
<1>1. TypeOK /\ SerialInv => OneTurnAtATime
  <2> SUFFICES ASSUME TypeOK, SerialInv, agentTurn # NoCall, NEW c \in Calls, Sent(c)
               PROVE  FALSE
    BY DEF OneTurnAtATime
  <2>1. agentTurn \in Calls /\ alive
    BY DEF TypeOK, PipesOK, SerialInv, DeadIsEmpty
  <2>2. agentTurn = c
    BY <2>1 DEF SerialInv, OneInFlight, InFlight
  <2>3. QED
    BY <2>2 DEF SerialInv, OnePlace
<1>2. QED
  BY <1>1, TypeCorrect, SerialCorrect, PTL

\* A turn whose call has answered "submitted" holds the flag up until its end
\* has been read: neither an interrupt nor a busy answer lowers it.
THEOREM FlagHeld ==
  ASSUME ~Overlap
  PROVE  Spec => [](NoneWaits /\ ~crossed => SubmittedTurnHoldsFlag)
<1>1. TypeOK /\ SerialInv => SubmittedTurnHoldsFlag
  <2> SUFFICES ASSUME TypeOK, SerialInv,
                      NEW c \in Calls, agentTurn = c, pc[c] = "submitted"
               PROVE  turnActive
    BY DEF SubmittedTurnHoldsFlag
  <2>1. alive
    BY ConstantsAssumption DEF SerialInv, DeadIsEmpty
  <2>2. QED
    BY <2>1 DEF SerialInv, InFlightHoldsFlag, InFlight
<1>2. QED
  BY <1>1, TypeCorrect, SerialCorrect, PTL

\* The invariant of the turn flag, whole: what vibePrompt and pushEvent promise
\* when calls come one at a time, until one waits or two requests draw at once.
THEOREM FlagCorrect ==
  ASSUME ~Overlap
  PROVE  Spec => []TurnFlagInv
<1>1. /\ TypeOK
      /\ NoneWaits /\ ~crossed => SerialInv
      /\ NoneWaits /\ ~crossed => OneTurnAtATime
      /\ NoneWaits /\ ~crossed => SubmittedTurnHoldsFlag
      => TurnFlagInv
  BY DEF TurnFlagInv
<1>2. QED
  BY <1>1, TypeCorrect, SerialCorrect, OneTurn, FlagHeld, PTL

-----------------------------------------------------------------------------
(* The turns that interrupts have seen. *)

\* An interrupt that saw a turn running saw one that has been announced; the one
\* whose flag it has seen fall is over.
Watching == {"stopping", "waiting", "interrupted"}
InterruptsInv ==
  /\ \A i \in Interrupts : target[i] < nextRequestId
  /\ \A i \in Interrupts, c \in Calls :
       ipc[i] \in Watching /\ id[c] = target[i] =>
         /\ pc[c] \in {"submitted", "error"} \/ id[c] = 0
         /\ ipc[i] = "interrupted" => ~InFlight(c)

\* A turn that an interrupt watches does not get in flight again.
LEMMA WatchedStays ==
  ASSUME TypeOK, NumbersInv, [Next]_vars,
         NEW c \in Calls, pc[c] \in {"submitted", "error"} \/ id[c] = 0
  PROVE  /\ pc[c] \in {"submitted", "error"} => pc'[c] = pc[c]
         /\ InFlight(c)' => InFlight(c)
<1>1. CASE \A d \in Requesters : ~RequesterStep(d)
  <2>1. \A d \in Requesters : ~WriteRequest(d)
    BY <1>1 DEF RequesterStep, CallStep, OtherStep
  <2>2. QED
    BY <1>1, <2>1, RequestersStay, FlightStays
<1>2. ASSUME NEW d \in Requesters, RequesterStep(d)
      PROVE  /\ pc[c] \in {"submitted", "error"} => pc'[c] = pc[c]
             /\ InFlight(c)' => InFlight(c)
  <2>1. pc[c] \in {"submitted", "error"} => c # d
    BY <1>2, RequesterNumbers DEF Unnumbered
  <2>2. pc[c] # "filed"
    BY DEF NumbersInv, Unfiled, Unnumbered
  <2>3. QED
    BY <1>2, <2>1, <2>2, RequesterNumbers, OnlyWritesFly
<1>3. QED
  BY <1>1, <1>2

\* What an interrupt has seen stays over.
LEMMA InterruptsStep ==
  ASSUME TypeOK, SerialInv, NumbersInv, InterruptsInv, [Next]_vars
  PROVE  InterruptsInv'
<1>t. /\ turnRequestId \in Nat /\ nextRequestId \in Nat /\ nextRequestId' \in Nat
      /\ id \in [Requesters -> Nat] /\ target \in [Interrupts -> Nat]
      /\ ipc \in [Interrupts -> {"new", "idle", "stopping", "waiting", "error",
                                 "exited", "timeout", "interrupted"}]
  <2>1. nextRequestId' \in Nat
    BY IdsStay
  <2>2. QED
    BY <2>1 DEF TypeOK, CallsOK, ThreadsOK
<1>1. /\ nextRequestId <= nextRequestId'
      /\ \A c \in Requesters : id'[c] = id[c] \/ id'[c] = nextRequestId
  BY IdsStay
<1>2. ASSUME NEW i \in Interrupts, NEW c \in Calls, ipc'[i] = ipc[i], target'[i] = target[i],
             ipc'[i] \in Watching, id'[c] = target'[i]
      PROVE  /\ pc'[c] \in {"submitted", "error"} \/ id'[c] = 0
             /\ ipc'[i] = "interrupted" => ~InFlight(c)'
  <2>1. id'[c] = id[c]
    BY <1>t, <1>1, <1>2 DEF InterruptsInv
  <2>2. /\ pc[c] \in {"submitted", "error"} \/ id[c] = 0
        /\ ipc[i] = "interrupted" => ~InFlight(c)
    BY <1>2, <2>1 DEF InterruptsInv
  <2>3. QED
    BY <1>2, <2>1, <2>2, WatchedStays
<1>3. ASSUME NEW i \in Interrupts, target'[i] = target[i]
      PROVE  target'[i] < nextRequestId'
  BY <1>t, <1>1, <1>3 DEF InterruptsInv
<1>4. CASE \A i \in Interrupts : ~InterruptStep(i)
  <2>1. UNCHANGED <<ipc, target>>
    <3>1. ASSUME NEW r \in Requesters, RequesterStep(r) PROVE UNCHANGED <<ipc, target>>
      BY <3>1 DEF RequesterStep, CallStep, OtherStep, Receive, CheckBusy, ReadRequestId, FilePending, WriteRequest,
        ClaimTurn, RaiseTurn, TakeAnswer, GiveUp, FailDrop, FailClear, intrVars
    <3>2. CASE ReaderStep
      BY <3>2 DEF ReaderStep, Deliver, EndTurn, ClearTurn, ReaderExit, intrVars
    <3>3. CASE StopStep
      BY <3>3 DEF StopStep, CloseWriter, KillTree, CloseDrop, CloseClear, intrVars
    <3>4. CASE AgentStep \/ AgentExits
      BY <3>4 DEF AgentStep, AgentTakesPrompt, AgentTakesRequest, AgentTakesCancel, AgentEndsTurn,
        AgentExits, intrVars
    <3>5. CASE UNCHANGED vars
      BY <3>5 DEF vars, intrVars
    <3>6. QED
      BY <1>4, <3>1, <3>2, <3>3, <3>4, <3>5 DEF Next, RequesterStep
  <2>2. QED
    BY <1>2, <1>3, <2>1 DEF InterruptsInv
<1>5. ASSUME NEW j \in Interrupts, InterruptStep(j) PROVE InterruptsInv'
  <2>1. UNCHANGED <<pc, id, nextRequestId, alive, turnActive>>
    BY <1>5 DEF InterruptStep, StartInterrupt, WriteCancel, EndInterrupt, callVars, flagVars,
      agentVars
  <2>2. \A i \in Interrupts \ {j} : ipc'[i] = ipc[i] /\ target'[i] = target[i]
    BY <1>t, <1>5 DEF InterruptStep, StartInterrupt, WriteCancel, EndInterrupt, intrVars
  <2>3. \A c \in Requesters : ~WriteRequest(c)
    <3>1. pc' = pc
      BY <2>1
    <3>2. QED
      BY <3>1 DEF WriteRequest, Goto, TypeOK, CallsOK
  <2>4. \A c \in Calls : InFlight(c)' => InFlight(c)
    BY <2>3, FlightStays
  <2>5. SUFFICES /\ target'[j] < nextRequestId'
                 /\ \A c \in Calls : ipc'[j] \in Watching /\ id'[c] = target'[j] =>
                      /\ pc'[c] \in {"submitted", "error"} \/ id'[c] = 0
                      /\ ipc'[j] = "interrupted" => ~InFlight(c)'
    BY <1>2, <1>3, <2>2 DEF InterruptsInv
  <2>6. CASE StartInterrupt(j)
    <3>1. /\ target'[j] = turnRequestId
          /\ ipc'[j] \in Watching => alive /\ turnActive /\ ipc'[j] = "stopping"
      BY <1>t, <2>6 DEF StartInterrupt, Watching
    <3>2. target'[j] < nextRequestId'
      BY <2>1, <3>1 DEF NumbersInv
    <3>3. ASSUME NEW c \in Calls, alive, turnActive
          PROVE  pc[c] \in {"submitted", "error"} \/ id[c] = 0
      <4>1. pc[c] \notin Cleared /\ pc[c] \notin {"waiting", "completed"}
        BY <3>3 DEF SerialInv, ClearedSeesNoTurn, NoWaiter
      <4>2. pc[c] \in {"new"} \cup Served \cup Outcomes
        BY DEF TypeOK, CallsOK
      <4>3. pc[c] \in {"submitted", "error"} \cup Unnumbered
        BY <4>1, <4>2 DEF Served, Outcomes, Cleared, Unnumbered
      <4>4. QED
        BY <4>3 DEF NumbersInv
    <3>4. QED
      BY <2>1, <3>1, <3>2, <3>3
  <2>7. CASE WriteCancel(j)
    <3>1. target' = target /\ ipc'[j] # "interrupted" /\ (ipc'[j] \in Watching => ipc[j] \in Watching)
      BY <1>t, <2>7 DEF WriteCancel, Watching
    <3>2. QED
      BY <1>3, <2>1, <3>1 DEF InterruptsInv
  <2>8. CASE EndInterrupt(j)
    <3>1. /\ target' = target /\ ipc[j] \in Watching
          /\ ipc'[j] \in Watching => alive /\ ~turnActive
      BY <1>t, <2>8 DEF EndInterrupt, Watching
    <3>2. ASSUME NEW c \in Calls, id[c] = target[j], alive, ~turnActive
          PROVE  (pc[c] \in {"submitted", "error"} \/ id[c] = 0) /\ ~InFlight(c)
      <4>1. pc[c] \in {"submitted", "error"} \/ id[c] = 0
        BY <3>1, <3>2 DEF InterruptsInv
      <4>2. CASE pc[c] = "submitted"
        BY <3>2, <4>1, <4>2 DEF SerialInv, InFlightHoldsFlag
      <4>3. CASE pc[c] = "error"
        BY <4>1, <4>3 DEF SerialInv, UnwrittenNotInFlight, Unwritten
      <4>4. CASE id[c] = 0
        <5>1. pc[c] \in NotSent
          BY <4>4 DEF NumbersInv, NotSent, Unfiled
        <5>2. QED
          BY <4>1, <5>1 DEF NumbersInv
      <4>5. QED
        BY <4>1, <4>2, <4>3, <4>4
    <3>3. QED
      BY <1>3, <2>1, <2>4, <3>1, <3>2
  <2>9. QED
    BY <1>5, <2>6, <2>7, <2>8 DEF InterruptStep
<1>6. QED
  BY <1>4, <1>5

\* An interrupt that answers "interrupted" leaves no trace of the turn it saw:
\* the flag it saw fall was that turn's (interrupt, pushEvent).
THEOREM InterruptCorrect ==
  ASSUME ~Overlap
  PROVE  Spec => []InterruptedTurnIsOver
<1>1. Init => InterruptsInv
  BY DEF Init, InterruptsInv, Watching
<1>2. TypeOK /\ SerialInv /\ NumbersInv /\ InterruptsInv /\ [Next]_vars => InterruptsInv'
  BY InterruptsStep
<1>3. Init => NewDoNotWait
  BY DEF Init, NewDoNotWait
<1>4. TypeOK /\ NewDoNotWait /\ [Next]_vars =>
        NewDoNotWait' /\ (NoneWaits' => NoneWaits) /\ (~crossed' => ~crossed)
  BY WaitsStay, CrossedStays DEF NewDoNotWait, NoneWaits
<1>5. (NoneWaits /\ ~crossed => InterruptsInv) => InterruptedTurnIsOver
  BY DEF InterruptsInv, InterruptedTurnIsOver, Watching, InFlight
<1>6. QED
  BY <1>1, <1>2, <1>3, <1>4, <1>5, TypeCorrect, SerialCorrect, NumbersCorrect, PTL DEF Spec

=============================================================================
