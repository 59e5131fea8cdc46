------------------------------ MODULE MCServer ------------------------------
(***************************************************************************)
(* Server with two models that share a channel, which the administrator    *)
(* has marked as degraded.                                                 *)
(* MaxFailures bounds failureCount.                                        *)
(***************************************************************************)
EXTENDS Server

CONSTANTS a, b, small, large, MaxFailures

MCInitialHealth == [ch \in Channels |-> IF ch = b THEN 70 ELSE 100]
MCInitialState == [ch \in Channels |-> IF ch = b THEN "degraded" ELSE "active"]
MCMapping == {<<small, a>>, <<small, b>>, <<large, b>>}

MCReported(ch, ok, latency) ==
    /\ ok \/ failureCount[ch] < MaxFailures
    /\ Reported(ch, ok, latency)

MCNext ==
    \/ InitDB \/ InitRedis \/ Refused \/ InitClickHouse \/ NewRiskEngine
    \/ \E ch \in Channels : ReadChannel(ch)
    \/ ChannelsEnd
    \/ \E row \in Mapping : ReadMapping(row)
    \/ MappingsEnd \/ LoadFails \/ Run \/ RunFails
    \/ \E ch \in Channels, ok \in BOOLEAN, latency \in Latencies :
          MCReported(ch, ok, latency)
    \/ \E ch \in Channels : Rest(ch)
    \/ Ask
    \/ \E m \in Models, ch \in Channels : ReadState(m, ch)
    \/ GetStatus
    \/ Crash \/ Restart

MCSpec == Init /\ [][MCNext]_vars /\ Fairness
=============================================================================
