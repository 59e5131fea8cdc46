---------------------------- MODULE GatewayProofs ----------------------------
(***************************************************************************)
(* Theorems about Gateway: a chat handler over the attempts of a real Do   *)
(* is a behaviour of Dispatcher and one of ChatHandler, so that what is    *)
(* proved of either holds of the two together; and the audit entry names   *)
(* the channel that gave the outcome.                                      *)
(***************************************************************************)
EXTENDS Gateway, DispatcherProofs

\* The channel the call was sent to last.
LastAsked == asked[Len(asked)]

\* The handler waits exactly while its Do runs, and Do is out at the channel it
\* asked last.
Waits ==
    /\ stage = "dispatch" <=> pc[Handler] # "idle"
    /\ asked \in Seq(Channels)
    /\ pc[Handler] = "inflight" => asked # <<>> /\ LastAsked = Target(Handler)

\* The answer is still to be charged.
Unbilled == {"forward", "proxy", "blocked", "count", "price", "deduct"}

\* The entry so far: clean until the answer, and an upstream's failure is noted
\* with nothing charged.
Clean ==
    /\ stage = "dispatch" => problem = "none" /\ charged = 0
    /\ stage \in Unbilled => charged = 0
    /\ problem = "upstream" => stage \in {"log", "done"} /\ charged = 0

\* Whom the entry names once Do has returned.
Names ==
    stage # "dispatch" /\ asked # <<>> =>
        IF problem = "upstream"
        THEN named # None => named = LastAsked /\ reply[Handler] = "error"
        ELSE named = LastAsked /\ provider = ProviderOf[LastAsked]

\* The inductive invariant.
GInv == IInv /\ Waits /\ Clean /\ Names

USE GatewayAssumption

----------------------------------------------------------------------------
(***************************************************************************)
(* Do and its handler take their steps together.                           *)
(***************************************************************************)
\* The steps of the goroutine inside Do, and where they lead.
LEMMA LocalStep ==
    ASSUME IInv, Local(Handler)
    PROVE  /\ pc[Handler] = "scan" /\ pc'[Handler] \in {"idle", "scan", "inflight"}
           /\ pc'[Handler] = "idle" => reply'[Handler] = "all_failed"
<1>1. /\ Handler \in Requests /\ CallTypes
  BY RequestTypes DEF IInv
<1>2. CASE Scan(Handler)
  BY <1>1, <1>2 DEF Scan
<1>3. CASE NoChannel(Handler)
  BY <1>1, <1>3 DEF NoChannel, Scanned, Finish, CallTypes
<1>4. CASE NoAdapter(Handler)
  BY <1>1, <1>4 DEF NoAdapter, Scanned, Finish, CallTypes
<1>5. CASE Send(Handler)
  BY <1>1, <1>5 DEF Send, Scanned, CallTypes
<1> QED
  BY <1>2, <1>3, <1>4, <1>5 DEF Local

\* A call that returns leads back to the scan, or out of Do.
LEMMA CallEnds ==
    ASSUME IInv, Answer(Handler) \/ Timeout(Handler) \/ Aborted(Handler)
    PROVE  /\ pc[Handler] = "inflight" /\ pc'[Handler] \in {"idle", "scan"}
           /\ pc'[Handler] = "idle" => reply'[Handler] \in {"served", "status", "error"}
<1>1. /\ Handler \in Requests /\ CallTypes
  BY RequestTypes DEF IInv
<1>2. ASSUME Timeout(Handler) \/ Aborted(Handler)
      PROVE  \E outcome \in {"served", "status", "error"}, latency \in {"stalled", "fast"} :
                Return(Handler, outcome, latency)
  BY <1>2 DEF Timeout, Aborted
<1>3. \E outcome \in {"served", "status", "error"} : \E latency : Return(Handler, outcome, latency)
  BY <1>2 DEF Answer
<1>4. PICK outcome \in {"served", "status", "error"} : \E latency : Return(Handler, outcome, latency)
  BY <1>3
<1> QED
  BY <1>1, <1>4 DEF Return, Finish, CallTypes

\* A step of the gateway is one of the dispatcher, or leaves it alone.
LEMMA DispatcherStep == [GatewayNext]_gatewayVars => [Next]_vars
<1> SUFFICES ASSUME [GatewayNext]_gatewayVars PROVE Next \/ UNCHANGED vars
  OBVIOUS
<1>0. Handler \in Requests
  OBVIOUS
<1>1. CASE Arrive
  BY <1>0, <1>1 DEF Arrive, Next
<1>2. CASE Working
  BY <1>0, <1>2 DEF Working, Local, Next
<1>3. CASE Answers \/ TimesOut \/ GivesUp
  BY <1>0, <1>3 DEF Answers, TimesOut, GivesUp, Waiting, Next
<1>4. CASE Leaves
  BY <1>0, <1>4 DEF Leaves, Next
<1>5. CASE Broken \/ Line \/ Handled
  BY <1>5 DEF Broken, Line, Handled
<1>6. ASSUME NEW ch \in Channels, Quiet(ch) PROVE Next
  BY <1>6 DEF Quiet, Next
<1>7. CASE UNCHANGED gatewayVars
  BY <1>7 DEF gatewayVars
<1> QED
  BY <1>1, <1>2, <1>3, <1>4, <1>5, <1>6, <1>7 DEF GatewayNext

\* The gateway is a behaviour of the dispatcher: what DispatcherProofs proves of it,
\* the promise of Failover included, holds under the handler.
THEOREM GatewayIsDispatcher == GatewaySpec => Spec
<1>1. GatewayInit => Init
  BY DEF GatewayInit
<1>2. [GatewayNext]_gatewayVars => [Next]_vars
  BY DispatcherStep
<1> QED
  BY <1>1, <1>2, PTL DEF GatewaySpec, Spec

\* Under a handler the scan still returns the best it read, the breaker still
\* contains the failures, no disabled or forbidden channel is tried, reports change
\* health only as HealthManager allows, and Do keeps what it promises its caller.
THEOREM DoIsSoundUnderHandler ==
    GatewaySpec => /\ [](SelectsBest /\ BreakerContains /\ OutOfBounds)
                   /\ HealthSpec
                   /\ FailoverPromise
BY GatewayIsDispatcher, PassFindsOptimum, FailuresContained, BoundsKept,
   ReportsAsSpecified, KeepsPromise, PTL

\* A step of the gateway is one of the handler, or leaves it alone.
LEMMA HandlerStep == [GatewayNext]_gatewayVars => [Chat!Next]_Chat!vars
<1> SUFFICES ASSUME [GatewayNext]_gatewayVars
             PROVE  Chat!Next \/ UNCHANGED handlerVars
  BY DEF handlerVars, Chat!vars, Chat!answerVars, Chat!forwardVars, Chat!billVars
<1>1. CASE Arrive
  BY <1>1 DEF Arrive, Chat!Next
<1>2. ASSUME Returned PROVE Chat!Next \/ UNCHANGED handlerVars
  BY <1>2 DEF Returned, Responded, Chat!Next
<1>3. CASE Working
  BY <1>2, <1>3 DEF Working
<1>4. CASE Answers \/ TimesOut \/ GivesUp
  BY <1>2, <1>4 DEF Answers, TimesOut, GivesUp, Waiting
<1>5. CASE Leaves
  BY <1>5 DEF Leaves, Chat!Next
<1>6. CASE Broken \/ Line \/ Handled
  BY <1>6 DEF Broken, Line, Handled, Chat!Next
<1>7. ASSUME NEW ch \in Channels, Quiet(ch) PROVE UNCHANGED handlerVars
  BY <1>7 DEF Quiet
<1>8. CASE UNCHANGED gatewayVars
  BY <1>8 DEF gatewayVars
<1> QED
  BY <1>1, <1>3, <1>4, <1>5, <1>6, <1>7, <1>8 DEF GatewayNext

\* The gateway is a behaviour of the handler, but for fairness: what
\* ChatHandlerProofs proves of the handler holds over a real Do.
THEOREM GatewayIsHandler == GatewaySpec => Chat!Spec
<1>1. GatewayInit => Chat!Init
  BY DEF GatewayInit
<1>2. [GatewayNext]_gatewayVars => [Chat!Next]_Chat!vars
  BY HandlerStep
<1> QED
  BY <1>1, <1>2, PTL DEF GatewaySpec, Chat!Spec

----------------------------------------------------------------------------
(***************************************************************************)
(* The entry of a call and its attempts.                                   *)
(***************************************************************************)
\* The invariant holds before the first call.
THEOREM InitGInv == GatewayInit => GInv
<1> SUFFICES ASSUME GatewayInit PROVE GInv
  OBVIOUS
<1>1. IInv
  BY InitIInv DEF GatewayInit
<1>2. Waits
  BY DEF GatewayInit, Chat!Init, Init, Waits
<1>3. Clean /\ Names
  BY DEF GatewayInit, Chat!Init, Clean, Unbilled, Names
<1> QED
  BY <1>1, <1>2, <1>3 DEF GInv

\* What the handler does with the answer stays after the dispatch, leaves provider
\* alone, and changes the note only where nobody failed upstream.
Forwards ==
    /\ stage \notin {"dispatch", "done"}
    /\ stage' \in Unbilled \cup {"daily", "minute", "log", "done"}
    /\ provider' = provider
    /\ problem = "upstream" => stage = "log"
    /\ problem' = "upstream" <=> problem = "upstream"
    /\ stage' \in Unbilled => charged' = charged /\ stage \in Unbilled
    /\ stage = "log" => stage' = "done" /\ charged' = charged

\* Every step of the handler after the dispatch is such a step.
LEMMA ForwardSteps ==
    ASSUME Clean, Broken \/ Line \/ Handled
    PROVE  Forwards /\ UNCHANGED <<vars, named, asked>>
<1> USE DEF Clean, Forwards, Unbilled, Chat!Goto, Chat!answerVars, Chat!forwardVars, Chat!billVars
<1>1. CASE Broken
  BY <1>1 DEF Broken, Chat!BodyEnds
<1>2. CASE Line
  BY <1>2 DEF Line, Chat!ForwardLine, Chat!Writing
<1>3. CASE Handled
  <2>0. UNCHANGED <<vars, named, asked>>
    BY <1>3 DEF Handled
  <2>1. CASE Chat!WriteFails
    BY <2>0, <2>1 DEF Chat!WriteFails, Chat!Writing
  <2>2. CASE Chat!StreamAbandoned \/ Chat!WriteBlocks \/ Chat!CountTokens
    BY <2>0, <2>2 DEF Chat!StreamAbandoned, Chat!WriteBlocks, Chat!CountTokens
  <2>3. CASE Chat!Proxy
    BY <2>0, <2>3 DEF Chat!Proxy
  <2>4. CASE Chat!Price
    BY <2>0, <2>4 DEF Chat!Price, Chat!Owes
  <2>5. CASE Chat!Deduct
    BY <2>0, <2>5 DEF Chat!Deduct, Chat!Note, Chat!AfterCharge
  <2>6. CASE Chat!RecordDaily
    BY <2>0, <2>6 DEF Chat!RecordDaily, Chat!Record
  <2>7. CASE Chat!RecordMinute
    BY <2>0, <2>7 DEF Chat!RecordMinute, Chat!Record
  <2>8. CASE Chat!Log
    BY <2>0, <2>8 DEF Chat!Log
  <2> QED
    BY <1>3, <2>1, <2>2, <2>3, <2>4, <2>5, <2>6, <2>7, <2>8 DEF Handled
<1> QED
  BY <1>1, <1>2, <1>3

\* The channel the request is out at after a step.
LEMMA TargetTypeNext ==
    ASSUME TypeOK', RInv(Handler)', pc'[Handler] = "inflight", Handler \in Requests
    PROVE  Target(Handler)' \in Channels
<1>1. attempts'[Handler] \in Attempts /\ attempts'[Handler] # <<>>
  BY RequestTypes DEF TypeOK, RInv, Sound, Attempts, Attempt
<1>2. Len(attempts'[Handler]) \in 1..Len(attempts'[Handler])
  BY <1>1 DEF Attempts
<1>3. attempts'[Handler][Len(attempts'[Handler])] \in Attempt
  BY <1>1, <1>2, ElementOfSeq DEF Attempts
<1> QED
  BY <1>3 DEF Target, Attempt

\* Every step keeps the inductive invariant.
THEOREM NextGInv == GInv /\ [GatewayNext]_gatewayVars => GInv'
<1> SUFFICES ASSUME GInv, [GatewayNext]_gatewayVars PROVE GInv'
  OBVIOUS
<1>0. IInv /\ Waits /\ Clean /\ Names /\ CallTypes /\ Handler \in Requests
  BY RequestTypes DEF GInv, IInv
<1>1. IInv'
  BY <1>0, DispatcherStep, NextIInv
<1>2. CASE Arrive
  <2>1. /\ stage' = "dispatch" /\ problem' = "none" /\ charged' = 0 /\ asked' = <<>>
        /\ pc'[Handler] = "scan"
    BY <1>0, <1>2 DEF Arrive, Chat!Arrive, Chat!Goto, Begin, CallTypes
  <2>2. Waits' /\ Clean' /\ Names'
    BY <2>1 DEF Waits, Clean, Unbilled, Names
  <2> QED
    BY <1>1, <2>2 DEF GInv
<1>3. CASE Working
  <2>1. /\ pc[Handler] = "scan" /\ pc'[Handler] \in {"idle", "scan", "inflight"}
        /\ pc'[Handler] = "idle" => reply'[Handler] = "all_failed"
    BY <1>0, <1>3, LocalStep DEF Working
  <2>2. stage = "dispatch" /\ asked \in Seq(Channels) /\ problem = "none" /\ charged = 0
    BY <1>0, <2>1 DEF Waits, Clean, Unbilled
  <2>3. CASE pc'[Handler] = "idle"
    <3>1. Chat!Unavailable /\ named' = None /\ asked' = asked
      BY <1>3, <2>1, <2>3 DEF Working, Returned
    <3>2. stage' = "log" /\ problem' = "upstream" /\ charged' = charged
      BY <3>1 DEF Chat!Unavailable, Chat!AfterError, Chat!Goto
    <3>3. Waits' /\ Clean' /\ Names'
      BY <2>2, <2>3, <3>1, <3>2 DEF Waits, Clean, Unbilled, Names
    <3> QED
      BY <1>1, <3>3 DEF GInv
  <2>4. CASE pc'[Handler] # "idle"
    <3>1. UNCHANGED handlerVars
      BY <1>3, <2>4 DEF Working, Returned
    <3>2. stage' = stage /\ problem' = problem /\ charged' = charged
      BY <3>1 DEF handlerVars
    <3>3. /\ asked' \in Seq(Channels)
          /\ pc'[Handler] = "inflight" => asked' # <<>> /\ LastAsked' = Target(Handler)'
      <4>1. CASE pc'[Handler] = "inflight"
        <5>1. Target(Handler)' \in Channels
          <6>1. TypeOK' /\ RInv(Handler)'
            BY <1>0, <1>1 DEF IInv
          <6> QED
            BY <1>0, <4>1, <6>1, TargetTypeNext
        <5>2. asked' = Append(asked, Target(Handler)')
          BY <1>3, <4>1 DEF Working
        <5> QED
          BY <2>2, <5>1, <5>2 DEF LastAsked
      <4>2. CASE pc'[Handler] # "inflight"
        BY <1>3, <2>2, <4>2 DEF Working
      <4> QED
        BY <4>1, <4>2
    <3>4. Waits' /\ Clean' /\ Names'
      BY <2>2, <2>4, <3>2, <3>3 DEF Waits, Clean, Unbilled, Names
    <3> QED
      BY <1>1, <3>4 DEF GInv
  <2> QED
    BY <2>3, <2>4
<1>4. CASE Answers \/ TimesOut \/ GivesUp
  <2>1. Returned /\ asked' = asked
    BY <1>4 DEF Answers, TimesOut, GivesUp, Waiting
  <2>2. /\ pc[Handler] = "inflight" /\ pc'[Handler] \in {"idle", "scan"}
        /\ pc'[Handler] = "idle" => reply'[Handler] \in {"served", "status", "error"}
    BY <1>0, <1>4, CallEnds DEF Answers, TimesOut, GivesUp, Waiting
  <2>3. /\ stage = "dispatch" /\ asked \in Seq(Channels) /\ LastAsked = Returning
        /\ problem = "none" /\ charged = 0
    BY <1>0, <2>2 DEF Waits, Clean, Returning
  <2>4. LastAsked' = LastAsked
    BY <2>1 DEF LastAsked
  <2>5. CASE pc'[Handler] = "scan"
    <3>1. UNCHANGED handlerVars
      BY <2>1, <2>5 DEF Returned
    <3>2. stage' = stage /\ problem' = problem /\ charged' = charged
      BY <3>1 DEF handlerVars
    <3>3. Waits' /\ Clean' /\ Names'
      BY <2>1, <2>3, <2>5, <3>2 DEF Waits, Clean, Unbilled, Names
    <3> QED
      BY <1>1, <3>3 DEF GInv
  <2>6. CASE pc'[Handler] = "idle" /\ reply'[Handler] \in {"served", "status"}
    <3>1. Chat!Answered /\ provider' = ProviderOf[Returning] /\ named' = Returning
      BY <2>1, <2>6 DEF Returned, Responded
    <3>2. stage' \in {"forward", "proxy"} /\ problem' = problem /\ charged' = charged
      BY <3>1 DEF Chat!Answered, Chat!Goto, Chat!billVars
    <3>3. Waits' /\ Clean'
      BY <2>1, <2>3, <2>6, <3>2 DEF Waits, Clean, Unbilled
    <3>4. Names'
      BY <2>3, <2>4, <3>1, <3>2 DEF Names
    <3> QED
      BY <1>1, <3>3, <3>4 DEF GInv
  <2>7. CASE pc'[Handler] = "idle" /\ reply'[Handler] = "error"
    <3>1. Chat!Unavailable /\ named' = Returning
      BY <2>1, <2>7 DEF Returned
    <3>2. stage' = "log" /\ problem' = "upstream" /\ charged' = charged
      BY <3>1 DEF Chat!Unavailable, Chat!AfterError, Chat!Goto
    <3>3. Waits' /\ Clean'
      BY <2>1, <2>3, <2>7, <3>2 DEF Waits, Clean, Unbilled
    <3>4. Names'
      BY <2>3, <2>4, <2>7, <3>1, <3>2 DEF Names
    <3> QED
      BY <1>1, <3>3, <3>4 DEF GInv
  <2> QED
    BY <2>2, <2>5, <2>6, <2>7
<1>5. CASE Leaves
  <2>1. UNCHANGED <<stage, problem, charged, provider, named, asked>>
    BY <1>5 DEF Leaves, Chat!ClientGone, Chat!answerVars, Chat!billVars
  <2>2. UNCHANGED <<pc, attempts, reply>>
    BY <1>5 DEF Leaves, ClientGone, vars, callVars
  <2>3. Waits' /\ Clean' /\ Names'
    BY <1>0, <2>1, <2>2 DEF Waits, Clean, Unbilled, Names, LastAsked, Target
  <2> QED
    BY <1>1, <2>3 DEF GInv
<1>6. CASE Broken \/ Line \/ Handled
  <2>1. Forwards /\ UNCHANGED <<vars, named, asked>>
    BY <1>0, <1>6, ForwardSteps
  <2>2. UNCHANGED <<pc, attempts, reply>> /\ LastAsked' = LastAsked
    BY <2>1 DEF vars, callVars, LastAsked
  <2>3. Waits'
    BY <1>0, <2>1, <2>2 DEF Waits, Forwards, Unbilled, Target
  <2>4. Clean'
    BY <1>0, <2>1 DEF Clean, Unbilled, Forwards
  <2>5. Names'
    BY <1>0, <2>1, <2>2 DEF Names, Forwards
  <2> QED
    BY <1>1, <2>3, <2>4, <2>5 DEF GInv
<1>7. CASE UNCHANGED <<callVars, handlerVars, named, asked>>
  <2>1. Waits' /\ Clean' /\ Names'
    BY <1>0, <1>7 DEF callVars, handlerVars, Waits, Clean, Names, LastAsked, Target
  <2> QED
    BY <1>1, <2>1 DEF GInv
<1>8. ASSUME NEW ch \in Channels, Quiet(ch)
      PROVE  UNCHANGED <<callVars, handlerVars, named, asked>>
  BY <1>8 DEF Quiet, Clock
<1>9. CASE UNCHANGED gatewayVars
  BY <1>7, <1>9 DEF gatewayVars, vars
<1> QED
  BY <1>2, <1>3, <1>4, <1>5, <1>6, <1>7, <1>8, <1>9 DEF GatewayNext

\* The invariant holds throughout every behaviour.
THEOREM GatewayInvariant == GatewaySpec => []GInv
<1>1. GatewayInit => GInv
  BY InitGInv
<1>2. GInv /\ [GatewayNext]_gatewayVars => GInv'
  BY NextGInv
<1> QED
  BY <1>1, <1>2, PTL DEF GatewaySpec

\* The audit entry names the channel that gave the outcome, at its provider's price,
\* for any channels, health, retries and failures.
THEOREM EntryNamesWhoAnswered == GatewaySpec => []EntryNamesAnswerer
<1>1. ASSUME GInv, stage # "dispatch", asked # <<>>
      PROVE  LET last == asked[Len(asked)] IN
             /\ problem # "upstream" => named = last /\ provider = ProviderOf[last]
             /\ problem = "upstream" /\ named # None =>
                   named = last /\ reply[Handler] = "error"
             /\ charged > 0 => named # None /\ problem # "upstream"
  <2>1. Waits /\ Clean /\ Names
    BY <1>1 DEF GInv
  <2>2. Len(asked) \in 1..Len(asked)
    BY <1>1, <2>1 DEF Waits
  <2>3. LastAsked \in Channels
    BY <2>1, <2>2, ElementOfSeq DEF Waits, LastAsked
  <2>4. LastAsked # None
    BY <2>3, DispatcherAssumption
  <2>5. charged > 0 => problem # "upstream"
    BY <2>1 DEF Clean
  <2> QED
    BY <1>1, <2>1, <2>4, <2>5 DEF Names, LastAsked
<1>2. GInv => EntryNamesAnswerer
  BY <1>1 DEF EntryNamesAnswerer
<1> QED
  BY <1>2, GatewayInvariant, PTL

----------------------------------------------------------------------------
(***************************************************************************)
(* What is proved of the handler alone, over real attempts.                *)
(***************************************************************************)
ChatProofs == INSTANCE ChatHandlerProofs WITH pc <- stage, gone <- left

\* Chat and ChatProofs are instances of the same module.
LEMMA SameHandler ==
    /\ Chat!Init => ChatProofs!Init
    /\ [Chat!Next]_Chat!vars => [ChatProofs!Next]_ChatProofs!vars
<1> USE DEF Chat!Goto, Chat!answerVars, Chat!forwardVars, Chat!billVars,
            ChatProofs!Goto, ChatProofs!answerVars, ChatProofs!forwardVars,
            ChatProofs!billVars
<1>1. Chat!Init => ChatProofs!Init
  BY DEF Chat!Init, ChatProofs!Init
<1>2. UNCHANGED Chat!vars => UNCHANGED ChatProofs!vars
  BY DEF Chat!vars, ChatProofs!vars
<1>3. Chat!Arrive => ChatProofs!Arrive
  BY DEF Chat!Arrive, ChatProofs!Arrive
<1>4. Chat!ClientGone => ChatProofs!ClientGone
  BY DEF Chat!ClientGone, ChatProofs!ClientGone
<1>5. Chat!Unavailable => ChatProofs!Unavailable
  BY DEF Chat!Unavailable, Chat!AfterError,
         ChatProofs!Unavailable, ChatProofs!AfterError
<1>6. Chat!Answered => ChatProofs!Answered
  BY DEF Chat!Answered, ChatProofs!Answered
<1>7. Chat!ForwardLine => ChatProofs!ForwardLine
  BY DEF Chat!ForwardLine, Chat!Writing, Chat!Lines, Chat!Counted,
         ChatProofs!ForwardLine, ChatProofs!Writing, ChatProofs!Lines,
         ChatProofs!Counted
<1>8. Chat!WriteFails => ChatProofs!WriteFails
  BY DEF Chat!WriteFails, Chat!Writing, ChatProofs!WriteFails, ChatProofs!Writing
<1>9. Chat!BodyEnds => ChatProofs!BodyEnds
  BY DEF Chat!BodyEnds, ChatProofs!BodyEnds
<1>10. Chat!StreamAbandoned => ChatProofs!StreamAbandoned
  BY DEF Chat!StreamAbandoned, ChatProofs!StreamAbandoned
<1>11. Chat!Proxy => ChatProofs!Proxy
  BY DEF Chat!Proxy, ChatProofs!Proxy
<1>12. Chat!Price => ChatProofs!Price
  BY DEF Chat!Price, Chat!ContextAlive, Chat!Owes,
         ChatProofs!Price, ChatProofs!ContextAlive, ChatProofs!Owes
<1>13. Chat!Deduct => ChatProofs!Deduct
  BY DEF Chat!Deduct, Chat!ContextAlive, Chat!Note, Chat!AfterCharge,
         ChatProofs!Deduct, ChatProofs!ContextAlive, ChatProofs!Note,
         ChatProofs!AfterCharge
<1>14. Chat!RecordDaily => ChatProofs!RecordDaily
  BY DEF Chat!RecordDaily, Chat!Record, Chat!ContextAlive,
         ChatProofs!RecordDaily, ChatProofs!Record, ChatProofs!ContextAlive
<1>15. Chat!RecordMinute => ChatProofs!RecordMinute
  BY DEF Chat!RecordMinute, Chat!Record, Chat!ContextAlive,
         ChatProofs!RecordMinute, ChatProofs!Record, ChatProofs!ContextAlive
<1>16. Chat!Log => ChatProofs!Log
  BY DEF Chat!Log, ChatProofs!Log
<1>17. Chat!WriteBlocks => ChatProofs!WriteBlocks
  BY DEF Chat!WriteBlocks, ChatProofs!WriteBlocks
<1>18. Chat!CountTokens => ChatProofs!CountTokens
  BY DEF Chat!CountTokens, ChatProofs!CountTokens
<1>19. Chat!Next => ChatProofs!Next
  BY <1>3, <1>4, <1>5, <1>6, <1>7, <1>8, <1>9, <1>10, <1>11, <1>12, <1>13, <1>14,
     <1>15, <1>16, <1>17, <1>18 DEF Chat!Next, ChatProofs!Next
<1> QED
  BY <1>1, <1>2, <1>19

\* A handler over real attempts charges for delivered text only, its entry tells what
\* was charged, and its spend reaches the limits: the assumptions ChatHandlerProofs
\* makes of Do are true of the dispatcher.
THEOREM HandlerIsSoundOverDo ==
    GatewaySpec => [](Chat!ChargedIsDelivered /\ Chat!EntryTellsCharge /\ Chat!SpendReachesLimits)
<1>1. ChatProofs!ChatAssumption
  BY DEF ChatProofs!ChatAssumption
<1>2. Chat!Spec => ChatProofs!Spec
  BY SameHandler, PTL DEF Chat!Spec, ChatProofs!Spec
<1>3. ChatProofs!Spec =>
        [](ChatProofs!ChargedIsDelivered /\ ChatProofs!EntryTellsCharge
             /\ ChatProofs!SpendReachesLimits)
  BY <1>1, ChatProofs!NobodyPaysForUndelivered, ChatProofs!EntryIsTrue,
     ChatProofs!SpendIsCounted, PTL
<1>4. ChatProofs!ChargedIsDelivered => Chat!ChargedIsDelivered
  BY DEF ChatProofs!ChargedIsDelivered, Chat!ChargedIsDelivered
<1>5. ChatProofs!EntryTellsCharge => Chat!EntryTellsCharge
  BY DEF ChatProofs!EntryTellsCharge, Chat!EntryTellsCharge
<1>6. ChatProofs!SpendReachesLimits => Chat!SpendReachesLimits
  BY DEF ChatProofs!SpendReachesLimits, Chat!SpendReachesLimits
<1> QED
  BY <1>2, <1>3, <1>4, <1>5, <1>6, GatewayIsHandler, PTL
=============================================================================
