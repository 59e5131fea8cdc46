------------------------------ MODULE MCGateway ------------------------------
(***************************************************************************)
(* Two good channels of different providers between a disabled one and one *)
(* without an adapter; streams of at most MaxText chunks of text.          *)
(***************************************************************************)
EXTENDS Gateway

CONSTANTS main, backup, odd, off, r1, MaxText

MCInitialHealth == [ch \in Channels |-> IF ch = odd THEN 70 ELSE 100]
MCInitialState == [ch \in Channels |-> IF ch = off THEN "disabled" ELSE "active"]
MCPriority == [ch \in Channels |-> 1]
MCTier == [r \in Requests |-> "standard"]
MCTierAllowed == [ch \in Channels |-> "all"]
MCChannels == <<off, main, backup, odd>>
MCSupported == Channels \ {odd}
MCProviderOf ==
    [ch \in Channels |->
        CASE ch = main -> "openai" [] ch = backup -> "anthropic" [] ch = odd -> "other"
          [] OTHER -> "gemini"]

MCNext ==
    \/ Arrive \/ Working \/ Answers \/ TimesOut \/ GivesUp \/ Leaves
    \/ Broken \/ Handled
    \/ \E ch \in Channels : Quiet(ch)
    \/ delivered < MaxText /\ metered < MaxText /\ Line

MCSpec == GatewayInit /\ [][MCNext]_gatewayVars /\ GatewayFairness
=============================================================================
