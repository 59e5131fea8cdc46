---------------------------- MODULE MCRiskControl ----------------------------
(***************************************************************************)
(* RiskControl with one user, one key and concurrent requests with it.     *)
(* With faults the inline check can be blind and the metrics would grow    *)
(* without end: there MaxSpend bounds what is still recorded.              *)
(***************************************************************************)
EXTENDS RiskControl

CONSTANTS u1, k1, r1, r2, MaxSpend

MCOwner == [k \in Keys |-> u1]
MCKeyOf == [r \in Slots |-> k1]

DailyRule == [metric |-> "daily_spend_cny", threshold |-> 3, action |-> "pause_key"]
BurstRule == [metric |-> "spend_per_minute", threshold |-> 2, action |-> "rate_limit"]
MCRules == {DailyRule, BurstRule}

MCRecordDaily(r) ==
    /\ faulty => \A m \in Metrics : spend[User(r)][m] < MaxSpend
    /\ RecordDaily(r)

MCNext ==
    \/ \E r \in Slots :
          \/ CacheHit(r) \/ CacheMiss(r) \/ Select(r) \/ Store(r) \/ Evaluate(r)
          \/ MCRecordDaily(r) \/ RecordMinute(r) \/ EndFree(r)
    \/ \E u \in Users : ScanUser(u)
    \/ TakeAction
    \/ ScanFails
    \/ Tick
    \/ Recover

MCSpec == Init /\ [][MCNext]_vars /\ Fairness
=============================================================================
