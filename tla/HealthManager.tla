--------------------------- MODULE HealthManager ---------------------------
(***************************************************************************)
(* The dynamic health of the upstream channels: HealthManager.UpdateScore  *)
(* of internal/router/strategy.go and the fields of Channel it owns.       *)
(*                                                                         *)
(* UpdateScore runs under the channel's write lock, so one report of one   *)
(* call's outcome is one atomic step.  A latency is abstracted to the band *)
(* the score looks at, and lastFailureTime to whether five minutes have    *)
(* gone by since the last failure.                                         *)
(***************************************************************************)
EXTENDS Integers, Sequences, FiniteSets

CONSTANTS
    Channels,       \* the physical channels of the channels table
    WindowSize,     \* samples kept per channel (10 in the code)
    Latencies,      \* the latency bands that occur
    InitialHealth,  \* column health_score, read once at start-up
    InitialState    \* column state, read once at start-up

\* At most 5 s, more than 5 s, more than 10 s.
LatencyBands == {"fast", "slow", "stalled"}

ChannelStates == {"active", "degraded", "circuit_open", "disabled"}

ASSUME HealthAssumption ==
    /\ WindowSize \in Nat \ {0}
    /\ Latencies \subseteq LatencyBands
    /\ InitialHealth \in [Channels -> 0..100]
    /\ InitialState \in [Channels -> ChannelStates]

VARIABLES
    window,        \* Channel.successes and Channel.latencies, oldest first
    healthScore,   \* Channel.HealthScore
    state,         \* Channel.State
    failureCount,  \* Channel.failureCount
    quiet          \* time.Since(lastFailureTime) > 5 minutes

healthVars == <<window, healthScore, state, failureCount, quiet>>

Sample == [ok : BOOLEAN, latency : LatencyBands]

(***************************************************************************)
(* One report.  A failure rate of f in n and its 40 points are kept exact  *)
(* by working in n-ths of a point; the code truncates its float to an int, *)
(* here \div rounds down.  The two agree for every window of at most 10.   *)
(***************************************************************************)
Push(w, s) == Append(IF Len(w) < WindowSize THEN w ELSE Tail(w), s)

FailCount(w) == Cardinality({i \in DOMAIN w : ~w[i].ok})

Penalty(w) ==
    IF \E i \in DOMAIN w : w[i].latency = "stalled" THEN 20
    ELSE IF \E i \in DOMAIN w : w[i].latency = "slow" THEN 10
    ELSE 0

ClampLowOnly(x) == IF x < 0 THEN 0 ELSE x
Clamp(x) == IF x > 100 THEN 100 ELSE IF x < 0 THEN 0 ELSE x

ScoreFailureWeighs60(w, bonus) ==
    Clamp(((100 - Penalty(w) + bonus) * Len(w) - 60 * FailCount(w)) \div Len(w))

Score(w, bonus) ==
    Clamp(((100 - Penalty(w) + bonus) * Len(w) - 40 * FailCount(w)) \div Len(w))

\* Only a success earns the recovery points.
BonusOnFailureToo(ok, rested) == IF rested THEN 10 ELSE 0
Bonus(ok, rested) == IF ok /\ rested THEN 10 ELSE 0

Classify(score, failures) ==
    IF score < 60 \/ failures >= 3 THEN "circuit_open"
    ELSE IF score < 80 THEN "degraded"
    ELSE "active"

FailuresNeverReset(count, ok) == IF ok THEN count ELSE count + 1
Failures(count, ok) == IF ok THEN 0 ELSE count + 1

UpdateScore(ch, ok, latency) ==
    LET w == Push(window[ch], [ok |-> ok, latency |-> latency])
        score == Score(w, Bonus(ok, quiet[ch]))
        failures == Failures(failureCount[ch], ok)
    IN  /\ window' = [window EXCEPT ![ch] = w]
        /\ healthScore' = [healthScore EXCEPT ![ch] = score]
        /\ state' = [state EXCEPT ![ch] = Classify(score, failures)]
        /\ failureCount' = [failureCount EXCEPT ![ch] = failures]
        /\ quiet' = [quiet EXCEPT ![ch] = ok /\ @]

(***************************************************************************)
(* The component.  Calls are only ever reported for a channel that was     *)
(* selected, and GetBestChannel never selects a disabled one; a channel    *)
(* whose circuit opened while the call was in flight is reported like any  *)
(* other.                                                                  *)
(***************************************************************************)
HealthInit ==
    /\ window = [ch \in Channels |-> <<>>]
    /\ healthScore = InitialHealth
    /\ state = InitialState
    /\ failureCount = [ch \in Channels |-> 0]
    /\ quiet = [ch \in Channels |-> TRUE]   \* the zero time is long ago

Report(ch, ok, latency) ==
    /\ state[ch] # "disabled"
    /\ UpdateScore(ch, ok, latency)

TimePasses(ch) ==
    /\ ~quiet[ch]
    /\ quiet' = [quiet EXCEPT ![ch] = TRUE]
    /\ UNCHANGED <<window, healthScore, state, failureCount>>

HealthNext ==
    \E ch \in Channels :
        \/ \E ok \in BOOLEAN, latency \in Latencies : Report(ch, ok, latency)
        \/ TimePasses(ch)

HealthSpec == HealthInit /\ [][HealthNext]_healthVars

----------------------------------------------------------------------------
\* The fields keep their types: the score stays between 0 and 100 and the
\* window never outgrows its size.
HealthTypeOK ==
    /\ window \in [Channels -> Seq(Sample)]
    /\ \A ch \in Channels : Len(window[ch]) <= WindowSize
    /\ healthScore \in [Channels -> 0..100]
    /\ state \in [Channels -> ChannelStates]
    /\ failureCount \in [Channels -> Nat]
    /\ quiet \in [Channels -> BOOLEAN]

\* failureCount and the trimmed window are kept separately in UpdateScore; they
\* must tell the same story: the counter has reached k exactly when the last k
\* samples are failures, for every k the window can still show.
ConsecutiveFailures ==
    \A ch \in Channels :
        LET n == Len(window[ch]) IN
        \A k \in 1..n :
            failureCount[ch] >= k <=> \A i \in (n - k + 1)..n : ~window[ch][i].ok

\* The breaker opens a circuit on evidence only: three consecutive failures, or
\* failures in most of the window combined with a slow answer.  A failure rate
\* alone, without slow answers, never opens one, whatever the rate.
OpenNeedsEvidence ==
    \A ch \in Channels :
        LET n == Len(window[ch])
            f == FailCount(window[ch])
        IN  (window[ch] # <<>> /\ state[ch] = "circuit_open") =>
                \/ failureCount[ch] >= 3
                \/ Penalty(window[ch]) = 20 /\ 2 * f > n
                \/ Penalty(window[ch]) = 10 /\ 4 * f > 3 * n

\* A fast success is never bad news: whatever the window forgets to make room
\* for it, and although the recovery points of the previous report are not kept,
\* it does not lower the score of a channel that has been reported on before.
FastSuccessNeverHurts ==
    [][\A ch \in Channels :
            (window[ch] # <<>> /\ window'[ch] # window[ch]
               /\ window'[ch][Len(window'[ch])] = [ok |-> TRUE, latency |-> "fast"])
            => healthScore'[ch] >= healthScore[ch]]_healthVars
============================================================================
