------------------------------ MODULE Gateway ------------------------------
(***************************************************************************)
(* A chat handler together with the dispatcher: ChatHandler takes Do as    *)
(* one step that ends somehow; here Do is the Dispatcher's, channel by     *)
(* channel and attempt by attempt, and what it returns decides how the     *)
(* handler goes on, whom the audit entry names and whose price is charged. *)
(*                                                                         *)
(* One handler is followed through one call after another, and through the *)
(* health its calls leave behind.  stage is the handler's control point    *)
(* and left its client; pc and gone are those of Do.                       *)
(***************************************************************************)
EXTENDS Dispatcher

CONSTANTS
    Handler,      \* the request whose handler is followed
    ProviderOf,   \* column provider
    InputTokens, Usages, FaultModes, EngineModes

VARIABLES
    stage, left,
    engine, faulty, provider, stream, ok, input,
    body, delivered, metered,
    cost, problem, charged, metrics, logged,
    named,        \* logEntry.ChannelID, or None
    asked         \* history: the channels this call was sent to, in order

Providers == {ProviderOf[ch] : ch \in Supported}

Chat == INSTANCE ChatHandler WITH pc <- stage, gone <- left

ASSUME GatewayAssumption ==
    /\ Requests = {Handler}
    /\ DOMAIN ProviderOf = Channels
    /\ Providers \subseteq {"openai", "anthropic", "gemini"}
    /\ InputTokens \subseteq Nat /\ Usages \subseteq Nat
    /\ FaultModes \subseteq BOOLEAN /\ EngineModes \subseteq BOOLEAN

handlerVars ==
    <<stage, left, engine, faulty, provider, stream, ok, input, body, delivered,
      metered, cost, problem, charged, metrics, logged>>
gatewayVars == <<vars, handlerVars, named, asked>>

GatewayInit == Init /\ Chat!Init /\ named = None /\ asked = <<>>

----------------------------------------------------------------------------
(***************************************************************************)
(* The call, up to what Do returns.                                        *)
(***************************************************************************)
Arrive ==
    /\ Chat!Arrive
    /\ Begin(Handler)
    /\ named' = None /\ asked' = <<>>

\* ch, as Do returns it.
FirstAttempt == attempts[Handler][1].ch
Returning == Target(Handler)

\* Do returned no error: a response, whatever its status, of the channel it was
\* out at last.  It is forwarded, and the entry names its channel.
Responded ==
    /\ Chat!Answered
    /\ provider' = ProviderOf[Returning]
    /\ reply'[Handler] = "status" => ~ok'

Returned ==
    \/ pc'[Handler] # "idle" /\ UNCHANGED <<handlerVars, named>>
    \/ /\ pc'[Handler] = "idle"
       /\ \/ /\ reply'[Handler] \in {"served", "status"}
             /\ Responded /\ named' = Returning
          \/ /\ reply'[Handler] = "error"
             /\ Chat!Unavailable /\ named' = Returning
          \/ /\ reply'[Handler] = "all_failed"
             /\ Chat!Unavailable /\ named' = None

\* The steps of Do that the goroutine takes by itself, and those it waits for.
Working ==
    /\ Local(Handler)
    /\ Returned
    /\ asked' = IF pc'[Handler] = "inflight" THEN Append(asked, Target(Handler)') ELSE asked

Waiting(step) ==
    /\ step
    /\ Returned
    /\ UNCHANGED asked

Answers == Waiting(Answer(Handler))
TimesOut == Waiting(Timeout(Handler))
GivesUp == Waiting(Aborted(Handler))

\* The context of the call is that of its Do.
Leaves ==
    /\ Chat!ClientGone
    /\ IF pc[Handler] = "idle" THEN UNCHANGED vars ELSE ClientGone(Handler)
    /\ UNCHANGED <<named, asked>>

----------------------------------------------------------------------------
(***************************************************************************)
(* The answer.                                                             *)
(***************************************************************************)
\* A stream that breaks, before its first line or after it, is not asked for
\* again.
Broken == Chat!BodyEnds /\ UNCHANGED <<vars, named, asked>>

\* One line of the stream, and what the handler does by itself after it.
Line == Chat!ForwardLine /\ UNCHANGED <<vars, named, asked>>

Handled ==
    /\ \/ Chat!WriteFails \/ Chat!WriteBlocks \/ Chat!StreamAbandoned
       \/ Chat!CountTokens \/ Chat!Proxy \/ Chat!Price \/ Chat!Deduct \/ Chat!RecordDaily \/ Chat!RecordMinute
       \/ Chat!Log
    /\ UNCHANGED <<vars, named, asked>>

Quiet(ch) == Clock(ch) /\ UNCHANGED <<handlerVars, named, asked>>

GatewayNext ==
    \/ Arrive \/ Working \/ Answers \/ TimesOut \/ GivesUp \/ Leaves
    \/ Broken \/ Line \/ Handled
    \/ \E ch \in Channels : Quiet(ch)

GatewaySpec == GatewayInit /\ [][GatewayNext]_gatewayVars

\* What the goroutine does by itself once Do has returned.
Proceeds == stage # "dispatch" /\ Chat!Handle /\ UNCHANGED <<vars, named, asked>>

\* The goroutine runs; the HTTP client's 60 s end the wait for an answer and for
\* the next line of it.
GatewayFairness ==
    /\ WF_gatewayVars(Working) /\ WF_gatewayVars(TimesOut)
    /\ SF_gatewayVars(Broken) /\ WF_gatewayVars(Proceeds)

FairGatewaySpec == GatewaySpec /\ GatewayFairness

----------------------------------------------------------------------------
\* What ChatHandler takes for granted of Do is true of the dispatcher: a call over
\* real attempts is one of ChatHandler's calls, answered by a provider that has an
\* adapter or not at all, and it does not wait for Do for ever.
HandlerPromise == Chat!FairSpec

\* The audit entry names who gave the outcome: the channel asked last, at its
\* provider's price, if there was a response to forward or if the last of all
\* attempts failed; no channel if the channels ran out before.  What was charged
\* was answered.
EntryNamesAnswerer ==
    stage # "dispatch" /\ asked # <<>> =>
        LET last == asked[Len(asked)] IN
        /\ problem # "upstream" => named = last /\ provider = ProviderOf[last]
        /\ problem = "upstream" /\ named # None =>
              named = last /\ reply[Handler] = "error"
        /\ charged > 0 => named # None /\ problem # "upstream"
=============================================================================
