-------------------------- MODULE MCHealthManager --------------------------
(***************************************************************************)
(* HealthManager on one channel that takes traffic, with every latency     *)
(* band, and one that the administrator disabled.                          *)
(* MaxFailures bounds failureCount, the only unbounded counter.            *)
(***************************************************************************)
EXTENDS HealthManager

CONSTANTS up, off, MaxFailures

MCInitialHealth == [ch \in Channels |-> 100]
MCInitialState == [ch \in Channels |-> IF ch = off THEN "disabled" ELSE "active"]

MCReport(ch, ok, latency) ==
    /\ ok \/ failureCount[ch] < MaxFailures
    /\ Report(ch, ok, latency)

MCNext ==
    \E ch \in Channels :
        \/ \E ok \in BOOLEAN, latency \in Latencies : MCReport(ch, ok, latency)
        \/ TimePasses(ch)

MCSpec == HealthInit /\ [][MCNext]_healthVars
============================================================================
