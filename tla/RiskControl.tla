---------------------------- MODULE RiskControl ----------------------------
(***************************************************************************)
(* Spend control: the authentication and risk check in front of a request  *)
(* (internal/api/middleware/auth.go), the spend metrics it leaves behind   *)
(* and the scanner that pauses keys (internal/risk/engine.go).             *)
(*                                                                         *)
(* Time advances in half minutes, the period of the scanner's ticker; two  *)
(* of them make the minute a spend_per_minute key lives for, and any       *)
(* minute may be the last of its day.  Redis and PostgreSQL are external;  *)
(* every round trip is a step.                                             *)
(***************************************************************************)
EXTENDS Integers, FiniteSets

CONSTANTS
    Users, Keys, Owner,   \* API keys and the user of each
    Slots, KeyOf,         \* concurrent requests and the key each presents
    Costs,                \* what a request may cost
    Rules,                \* risk_rules.yaml: metric, threshold and action
    CacheTTL,             \* life of auth:key:<hash> in half minutes (10)
    Outages,              \* how a behaviour may begin: see outage
    Nobody

Metrics == {"daily_spend_cny", "spend_per_minute"}

ASSUME RiskAssumption ==
    /\ IsFiniteSet(Slots)
    /\ Owner \in [Keys -> Users] /\ KeyOf \in [Slots -> Keys]
    /\ Costs \subseteq Nat \ {0} /\ CacheTTL \in Nat \ {0}
    /\ Rules \subseteq [metric : Metrics, threshold : Nat \ {0}, action : STRING]
    /\ Outages \subseteq {"none", "on"} /\ Nobody \notin Users

VARIABLES
    outage,   \* may Redis and PostgreSQL fail?  "none", "on", or "over"
    status,   \* api_keys.status
    cached,   \* half minutes the cached authentication of a key has left
    spend,    \* the two metrics of each user, in the current day and minute
    half,     \* half of the current minute
    toScan,   \* users evaluateAllUsers has still to look at
    due,      \* user takeAction is about to run for, or Nobody
    pc,       \* where each request is
    cost      \* what it still has to record as spend_per_minute

keyVars == <<status, cached>>
scanVars == <<half, toScan, due>>
slotVars == <<pc, cost>>
vars == <<outage, keyVars, spend, scanVars, slotVars>>

faulty == outage = "on"

User(r) == Owner[KeyOf[r]]
Goto(r, label) == pc' = [pc EXCEPT ![r] = label]

\* EvaluateRules; the rule's action and scope are not looked at.
Triggered(rules, values) == \E rule \in rules : values[rule.metric] >= rule.threshold

\* GetMetrics ignores errors: a metric that cannot be read counts as zero.
\* (Its two reads are one step here.)
Readings(u) ==
    {spend[u]} \cup
    IF faulty THEN {[m \in Metrics |-> IF m \in lost THEN 0 ELSE spend[u][m]]
                        : lost \in SUBSET Metrics}
    ELSE {}

Init ==
    /\ outage \in Outages
    /\ status = [k \in Keys |-> "active"]
    /\ cached = [k \in Keys |-> 0]
    /\ spend = [u \in Users |-> [m \in Metrics |-> 0]]
    /\ half = 0
    /\ toScan = {}
    /\ due = Nobody
    /\ pc = [r \in Slots |-> "idle"]
    /\ cost = [r \in Slots |-> 0]

----------------------------------------------------------------------------
(***************************************************************************)
(* AuthMiddleware, up to the balance check (see Wallet).                   *)
(***************************************************************************)
HitRefreshes(k) == CacheTTL
AfterHit(k) == cached[k]

CacheHit(r) ==
    /\ pc[r] = "idle" /\ cached[KeyOf[r]] > 0
    /\ cached' = [cached EXCEPT ![KeyOf[r]] = AfterHit(KeyOf[r])]
    /\ Goto(r, "evaluate")
    /\ UNCHANGED <<outage, status, spend, scanVars, cost>>

CacheMiss(r) ==
    /\ pc[r] = "idle" /\ (cached[KeyOf[r]] = 0 \/ faulty)
    /\ Goto(r, "select")
    /\ UNCHANGED <<outage, keyVars, spend, scanVars, cost>>

\* The key's row: only an active key goes on; the others get 403, and 401 when
\* the row cannot be read.
Select(r) ==
    /\ pc[r] = "select"
    /\ \/ Goto(r, IF status[KeyOf[r]] = "active" THEN "store" ELSE "idle")
       \/ faulty /\ Goto(r, "idle")
    /\ UNCHANGED <<outage, keyVars, spend, scanVars, cost>>

Store(r) ==
    /\ pc[r] = "store"
    /\ \/ cached' = [cached EXCEPT ![KeyOf[r]] = CacheTTL]
       \/ faulty /\ UNCHANGED cached
    /\ Goto(r, "evaluate")
    /\ UNCHANGED <<outage, status, spend, scanVars, cost>>

NoInlineCheck(r) == {[m \in Metrics |-> 0]}
ReadingsOf(r) == Readings(User(r))

\* A triggered rule refuses the request with 403, whatever its action.
Evaluate(r) ==
    /\ pc[r] = "evaluate"
    /\ \E values \in ReadingsOf(r) :
          Goto(r, IF Triggered(Rules, values) THEN "idle" ELSE "running")
    /\ UNCHANGED <<outage, keyVars, spend, scanVars, cost>>

----------------------------------------------------------------------------
(***************************************************************************)
(* deductAndRecord: two metrics, one after the other.  RecordMetric picks  *)
(* the day and the minute at the time of the call.                         *)
(***************************************************************************)
RecordDaily(r) ==
    /\ pc[r] = "running"
    /\ \E c \in Costs :
          /\ cost' = [cost EXCEPT ![r] = c]
          /\ \/ spend' = [spend EXCEPT ![User(r)]["daily_spend_cny"] = @ + c]
             \/ faulty /\ UNCHANGED spend
    /\ Goto(r, "record")
    /\ UNCHANGED <<outage, keyVars, scanVars>>

RecordedNot(r) == UNCHANGED cost
Recorded(r) == cost' = [cost EXCEPT ![r] = 0]

RecordMinute(r) ==
    /\ pc[r] = "record"
    /\ \/ spend' = [spend EXCEPT ![User(r)]["spend_per_minute"] = @ + cost[r]]
       \/ faulty /\ UNCHANGED spend
    /\ Recorded(r) /\ Goto(r, "idle")
    /\ UNCHANGED <<outage, keyVars, scanVars>>

\* Refused for its balance, failed upstream, no price, or no cost.
EndFree(r) ==
    /\ pc[r] = "running" /\ Goto(r, "idle")
    /\ UNCHANGED <<outage, keyVars, spend, scanVars, cost>>

----------------------------------------------------------------------------
(***************************************************************************)
(* StartRiskEvaluationLoop.                                                *)
(***************************************************************************)
ScanUser(u) ==
    /\ u \in toScan /\ due = Nobody
    /\ toScan' = toScan \ {u}
    /\ \E values \in Readings(u) :
          due' = IF Triggered(Rules, values) THEN u ELSE Nobody
    /\ UNCHANGED <<outage, keyVars, spend, half, slotVars>>

PauseNone(u) == {}
ToPause(u) == {k \in Keys : Owner[k] = u /\ status[k] = "active"}

TakeAction ==
    /\ due # Nobody
    /\ \/ status' = [k \in Keys |-> IF k \in ToPause(due) THEN "paused" ELSE status[k]]
       \/ faulty /\ UNCHANGED status
    /\ due' = Nobody
    /\ UNCHANGED <<outage, cached, spend, half, toScan, slotVars>>

\* The query over users fails: the round is skipped.
ScanFails ==
    /\ faulty /\ toScan # {}
    /\ toScan' = {}
    /\ UNCHANGED <<outage, keyVars, spend, half, due, slotVars>>

\* Half a minute later: the ticker fires again (a round takes less than its
\* period), cached entries age, and every other time a minute or a day begins.
Reset(metrics) ==
    spend' = [u \in Users |-> [m \in Metrics |-> IF m \in metrics THEN 0 ELSE spend[u][m]]]

Tick ==
    /\ toScan = {} /\ due = Nobody
    /\ toScan' = Users
    /\ half' = 1 - half
    /\ cached' = [k \in Keys |-> IF cached[k] > 0 THEN cached[k] - 1 ELSE 0]
    /\ IF half = 0 THEN UNCHANGED spend
       ELSE Reset({"spend_per_minute"}) \/ Reset(Metrics)
    /\ UNCHANGED <<outage, status, due, slotVars>>

Recover ==
    /\ faulty /\ outage' = "over"
    /\ UNCHANGED <<keyVars, spend, scanVars, slotVars>>

Handle(r) ==
    \/ CacheHit(r) \/ CacheMiss(r) \/ Select(r) \/ Store(r) \/ Evaluate(r)
    \/ RecordDaily(r) \/ RecordMinute(r) \/ EndFree(r)

Next ==
    \/ \E r \in Slots :
          \/ CacheHit(r) \/ CacheMiss(r) \/ Select(r) \/ Store(r) \/ Evaluate(r)
          \/ RecordDaily(r) \/ RecordMinute(r) \/ EndFree(r)
    \/ \E u \in Users : ScanUser(u)
    \/ TakeAction
    \/ ScanFails
    \/ Tick
    \/ Recover

Spec == Init /\ [][Next]_vars

\* Time passes, the scanner goroutine runs, and a request that was begun ends.
Fairness ==
    /\ WF_vars(Tick) /\ WF_vars(TakeAction)
    /\ \A u \in Users : WF_vars(ScanUser(u))
    /\ \A r \in Slots : WF_vars(pc[r] # "idle" /\ Handle(r))

FairSpec == Spec /\ Fairness

----------------------------------------------------------------------------
\* Every variable keeps its type; a cost is held only between the two records.
TypeOK ==
    /\ outage \in {"none", "on", "over"}
    /\ status \in [Keys -> {"active", "paused"}]
    /\ cached \in [Keys -> 0..CacheTTL]
    /\ spend \in [Users -> [Metrics -> Nat]]
    /\ half \in 0..1 /\ toScan \subseteq Users /\ due \in Users \cup {Nobody}
    /\ pc \in [Slots -> {"idle", "select", "store", "evaluate", "running", "record"}]
    /\ cost \in [Slots -> Costs \cup {0}]
    /\ \A r \in Slots : cost[r] # 0 <=> pc[r] = "record"

\* Unless Redis has failed, a limit is overshot by the requests that run at the same
\* time and no more: with every cost at most c, a metric stays below its threshold
\* plus c for each concurrent request, although it is checked long before it is
\* raised.
OvershootBounded ==
    outage = "none" => \A u \in Users, rule \in Rules, c \in Costs :
        (\A d \in Costs : d <= c) =>
            spend[u][rule.metric] < rule.threshold + c * Cardinality(Slots)

\* Who passes a daily limit is paused by the scanner, unless the day ends first
\* or Redis or PostgreSQL fails when the scanner asks.  What was spent while they
\* failed and every limit was open is acted on once they are back.
DailyOverspendIsPaused ==
    \A k \in Keys, rule \in Rules :
        rule.metric = "daily_spend_cny" =>
            (~faulty /\ spend[Owner[k]][rule.metric] >= rule.threshold ~>
                status[k] = "paused" \/ spend[Owner[k]][rule.metric] < rule.threshold)

\* A pause takes effect, failures or not: a key that is paused comes to the point where it has no
\* cached authentication and no request under way will cache it again, and stays
\* there.
PauseTakesEffect ==
    \A k \in Keys : status[k] = "paused" ~> [](cached[k] = 0)
=============================================================================
