------------------------- MODULE RiskControlProofs -------------------------
(***************************************************************************)
(* Theorems about RiskControl, for any users, keys, rules, costs and any   *)
(* number of concurrent requests: the types, and how far a limit can be    *)
(* overshot.                                                               *)
(***************************************************************************)
EXTENDS RiskControl, FiniteSetTheorems, TLAPS

USE RiskAssumption

\* Where a request is that has passed the check of a metric and has yet to raise
\* it.
Ahead(metric) ==
    IF metric = "daily_spend_cny" THEN {"running"} ELSE {"running", "record"}
PastOf(places, u, metric) == {r \in Slots : User(r) = u /\ places[r] \in Ahead(metric)}
Past(u, metric) == PastOf(pc, u, metric)

Cap(c) == \A d \in Costs : d <= c

\* What a metric may still grow by fits: every request past the check of a user's
\* limit will add a cost at most.
Headroom ==
    outage = "none" => \A u \in Users, rule \in Rules, c \in Costs :
        Cap(c) => spend[u][rule.metric] + c * Cardinality(Past(u, rule.metric))
                    < rule.threshold + c * Cardinality(Slots)

\* The inductive invariant.
IInv == TypeOK /\ Headroom
----------------------------------------------------------------------------
\* More requests of the same cost cost no less.
LEMMA ProductMonotone ==
    ASSUME NEW c \in Nat, NEW n \in Nat, NEW k \in Nat, n <= k
    PROVE  c * n \in Nat /\ c * n <= c * k
<1>1. PICK d \in Nat : k = n + d
  OBVIOUS
<1>2. c * k = c * n + c * d /\ c * d \in Nat /\ c * n \in Nat
  BY <1>1
<1> QED
  BY <1>2

\* Raising the number of requests by one adds one cost.
LEMMA ProductOneLess ==
    ASSUME NEW c \in Nat, NEW n \in Nat
    PROVE  c * (n + 1) = c * n + c /\ c * n \in Nat
OBVIOUS

\* No more requests than there are have passed the check of a limit.
LEMMA PastFinite ==
    ASSUME NEW places, NEW u, NEW metric
    PROVE  /\ IsFiniteSet(PastOf(places, u, metric))
           /\ Cardinality(PastOf(places, u, metric)) \in Nat
           /\ Cardinality(PastOf(places, u, metric)) <= Cardinality(Slots)
           /\ Cardinality(Slots) \in Nat
<1>1. PastOf(places, u, metric) \subseteq Slots
  BY DEF PastOf
<1> QED
  BY <1>1, FS_Subset, FS_CardinalityType

\* One request that is not past the check any more counts one less.
LEMMA PastLess ==
    ASSUME NEW p, NEW q, NEW u, NEW metric, NEW r \in PastOf(p, u, metric),
           PastOf(q, u, metric) \subseteq PastOf(p, u, metric) \ {r}
    PROVE  Cardinality(PastOf(q, u, metric)) + 1 <= Cardinality(PastOf(p, u, metric))
<1>1. /\ IsFiniteSet(PastOf(p, u, metric) \ {r})
      /\ Cardinality(PastOf(p, u, metric) \ {r}) = Cardinality(PastOf(p, u, metric)) - 1
  BY PastFinite, FS_RemoveElement
<1>2. Cardinality(PastOf(q, u, metric)) <= Cardinality(PastOf(p, u, metric) \ {r})
  BY <1>1, FS_Subset
<1> QED
  BY <1>1, <1>2, PastFinite

\* A cost is a number, for a refused request as well.
LEMMA CostType == \A c \in Costs \cup {0} : c \in Nat
OBVIOUS

\* The parts of a rule.
LEMMA RuleType ==
    ASSUME NEW rule \in Rules
    PROVE  rule.metric \in Metrics /\ rule.threshold \in Nat /\ rule.threshold > 0
OBVIOUS

\* A record raises one metric of one user.
LEMMA SpendRaised ==
    ASSUME NEW values \in [Users -> [Metrics -> Nat]], NEW u \in Users,
           NEW metric \in Metrics, NEW amount \in Nat
    PROVE  /\ [values EXCEPT ![u][metric] = @ + amount] \in [Users -> [Metrics -> Nat]]
           /\ \A v \in Users, m \in Metrics :
                [values EXCEPT ![u][metric] = @ + amount][v][m] =
                    IF v = u /\ m = metric THEN values[v][m] + amount ELSE values[v][m]
OBVIOUS

----------------------------------------------------------------------------
\* The invariant holds at the start, with an outage or without.
THEOREM InitIInv == Init => IInv
<1> SUFFICES ASSUME Init PROVE IInv
  OBVIOUS
<1>1. TypeOK
  BY DEF Init, TypeOK, Metrics
<1>2. Headroom
  <2> SUFFICES ASSUME NEW u \in Users, NEW rule \in Rules, NEW c \in Costs
               PROVE  spend[u][rule.metric] + c * Cardinality(Past(u, rule.metric))
                        < rule.threshold + c * Cardinality(Slots)
    BY DEF Headroom
  <2>1. spend[u][rule.metric] = 0
    BY RuleType DEF Init
  <2>2. Cardinality(Past(u, rule.metric)) = 0
    <3>1. Past(u, rule.metric) = {}
      BY DEF Init, Past, PastOf, Ahead
    <3> QED
      BY <3>1, FS_EmptySet
  <2>3. c * 0 = 0 /\ c * Cardinality(Slots) \in Nat
    BY PastFinite
  <2> QED
    BY <2>1, <2>2, <2>3, RuleType
<1> QED
  BY <1>1, <1>2 DEF IInv

\* Every step keeps the types.
LEMMA NextTypeOK == TypeOK /\ [Next]_vars => TypeOK'
<1> SUFFICES ASSUME TypeOK, [Next]_vars PROVE TypeOK'
  OBVIOUS
<1> USE DEF TypeOK, keyVars, scanVars, slotVars, Goto
<1>1. ASSUME NEW r \in Slots, CacheHit(r) PROVE TypeOK'
  BY <1>1 DEF CacheHit, AfterHit
<1>2. ASSUME NEW r \in Slots, CacheMiss(r) PROVE TypeOK'
  BY <1>2 DEF CacheMiss
<1>3. ASSUME NEW r \in Slots, Select(r) PROVE TypeOK'
  BY <1>3 DEF Select
<1>4. ASSUME NEW r \in Slots, Store(r) PROVE TypeOK'
  <2>1. CacheTTL \in 0..CacheTTL /\ KeyOf[r] \in Keys
    OBVIOUS
  <2>2. cached' \in [Keys -> 0..CacheTTL]
    BY <1>4, <2>1 DEF Store
  <2> QED
    BY <1>4, <2>2 DEF Store
<1>5. ASSUME NEW r \in Slots, Evaluate(r) PROVE TypeOK'
  BY <1>5 DEF Evaluate
<1>6. ASSUME NEW r \in Slots, RecordDaily(r) PROVE TypeOK'
  <2>1. spend' \in [Users -> [Metrics -> Nat]]
    <3>1. /\ User(r) \in Users /\ "daily_spend_cny" \in Metrics
          /\ \A c \in Costs : c \in Nat
      BY DEF User, Metrics
    <3>2. \A c \in Costs :
            [spend EXCEPT ![User(r)]["daily_spend_cny"] = @ + c] \in [Users -> [Metrics -> Nat]]
      BY <3>1, SpendRaised
    <3>3. PICK c \in Costs :
            \/ spend' = [spend EXCEPT ![User(r)]["daily_spend_cny"] = @ + c]
            \/ spend' = spend
      BY <1>6 DEF RecordDaily
    <3>4. spend \in [Users -> [Metrics -> Nat]]
      OBVIOUS
    <3> QED
      BY <3>2, <3>3, <3>4
  <2>2. PICK c \in Costs : cost' = [cost EXCEPT ![r] = c]
    BY <1>6 DEF RecordDaily
  <2>3. pc' = [pc EXCEPT ![r] = "record"]
    BY <1>6 DEF RecordDaily
  <2>4. cost' \in [Slots -> Costs \cup {0}]
    BY <2>2
  <2>5. \A s \in Slots : cost'[s] # 0 <=> pc'[s] = "record"
    BY <2>2, <2>3
  <2> QED
    BY <1>6, <2>1, <2>3, <2>4, <2>5 DEF RecordDaily
<1>7. ASSUME NEW r \in Slots, RecordMinute(r) PROVE TypeOK'
  <2>1. spend' \in [Users -> [Metrics -> Nat]]
    <3>1. User(r) \in Users /\ "spend_per_minute" \in Metrics /\ cost[r] \in Nat
      <4>1. cost[r] \in Costs \cup {0}
        OBVIOUS
      <4>2. cost[r] \in Nat
        BY <4>1, CostType
      <4> QED
        BY <4>2 DEF User, Metrics
    <3>2. [spend EXCEPT ![User(r)]["spend_per_minute"] = @ + cost[r]]
            \in [Users -> [Metrics -> Nat]]
      BY <3>1, SpendRaised
    <3> QED
      BY <1>7, <3>2 DEF RecordMinute
  <2>2. cost' = [cost EXCEPT ![r] = 0] /\ pc' = [pc EXCEPT ![r] = "idle"]
    BY <1>7 DEF RecordMinute, Recorded
  <2>3. \A s \in Slots : cost'[s] # 0 <=> pc'[s] = "record"
    BY <2>2
  <2> QED
    BY <1>7, <2>1, <2>2, <2>3 DEF RecordMinute
<1>8. ASSUME NEW r \in Slots, EndFree(r) PROVE TypeOK'
  BY <1>8 DEF EndFree
<1>9. ASSUME NEW u \in Users, ScanUser(u) PROVE TypeOK'
  BY <1>9 DEF ScanUser
<1>10. ASSUME TakeAction PROVE TypeOK'
  BY <1>10 DEF TakeAction
<1>11. ASSUME ScanFails PROVE TypeOK'
  BY <1>11 DEF ScanFails
<1>12. ASSUME Tick PROVE TypeOK'
  BY <1>12 DEF Tick, Reset
<1>13. ASSUME Recover PROVE TypeOK'
  BY <1>13 DEF Recover
<1>14. ASSUME UNCHANGED vars PROVE TypeOK'
  BY <1>14 DEF vars
<1> QED
  BY <1>1, <1>2, <1>3, <1>4, <1>5, <1>6, <1>7, <1>8, <1>9, <1>10, <1>11, <1>12,
     <1>13, <1>14 DEF Next

\* Every step leaves room below the limits.  A request that passes the check finds
\* the metric below its threshold; one that records turns room into spend.
LEMMA NextHeadroom == TypeOK /\ Headroom /\ [Next]_vars => Headroom'
<1> SUFFICES ASSUME TypeOK, Headroom, [Next]_vars, outage' = "none",
                    NEW u \in Users, NEW rule \in Rules, NEW c \in Costs, Cap(c)
             PROVE  spend'[u][rule.metric] + c * Cardinality(Past(u, rule.metric)')
                        < rule.threshold + c * Cardinality(Slots)
  BY DEF Headroom, Cap
<1> DEFINE m == rule.metric
           now == Past(u, m)
           next == PastOf(pc', u, m)
<1>0. outage = "none" /\ ~faulty
  BY DEF Next, CacheHit, CacheMiss, Select, Store, Evaluate, RecordDaily, RecordMinute,
     EndFree, ScanUser, TakeAction, ScanFails, Tick, Recover, faulty, vars
<1>a. /\ m \in Metrics /\ rule.threshold \in Nat /\ c \in Nat
      /\ Cardinality(now) \in Nat /\ Cardinality(next) \in Nat
      /\ Cardinality(next) <= Cardinality(Slots) /\ Cardinality(Slots) \in Nat
      /\ IsFiniteSet(now) /\ IsFiniteSet(next)
      /\ spend[u][m] \in Nat /\ spend'[u][m] \in Nat
  <2>1. spend[u][m] \in Nat /\ spend'[u][m] \in Nat
    BY RuleType, NextTypeOK DEF TypeOK
  <2> QED
    BY <2>1, RuleType, PastFinite DEF Past
<1>b. spend[u][m] + c * Cardinality(now) < rule.threshold + c * Cardinality(Slots)
  BY <1>0 DEF Headroom
<1>c. Past(u, m)' = next
  BY DEF Past, PastOf
<1> HIDE DEF m, now, next
<1> SUFFICES spend'[u][m] + c * Cardinality(next) < rule.threshold + c * Cardinality(Slots)
  BY <1>c DEF m
\* Nobody gets past the check and nothing is recorded.
<1>d. ASSUME next \subseteq now, spend'[u][m] <= spend[u][m]
      PROVE  spend'[u][m] + c * Cardinality(next) < rule.threshold + c * Cardinality(Slots)
  <2>1. Cardinality(next) <= Cardinality(now)
    BY <1>a, <1>d, FS_Subset
  <2>2. /\ c * Cardinality(next) \in Nat /\ c * Cardinality(now) \in Nat
        /\ c * Cardinality(Slots) \in Nat
        /\ c * Cardinality(next) <= c * Cardinality(now)
    BY <1>a, <2>1, ProductMonotone
  <2> QED
    BY <1>a, <1>b, <1>d, <2>2
\* A metric far enough below its threshold leaves room for everybody.
<1>e. ASSUME spend'[u][m] < rule.threshold
      PROVE  spend'[u][m] + c * Cardinality(next) < rule.threshold + c * Cardinality(Slots)
  <2>1. /\ c * Cardinality(next) \in Nat /\ c * Cardinality(Slots) \in Nat
        /\ c * Cardinality(next) <= c * Cardinality(Slots)
    BY <1>a, ProductMonotone
  <2> QED
    BY <1>a, <1>e, <2>1
\* A request records and is past the check no more.
<1>f. ASSUME NEW r \in now, next \subseteq now \ {r}, NEW d \in Nat, d <= c,
             spend'[u][m] = spend[u][m] + d
      PROVE  spend'[u][m] + c * Cardinality(next) < rule.threshold + c * Cardinality(Slots)
  <2>1. Cardinality(next) + 1 <= Cardinality(now)
    BY <1>f, PastLess DEF now, next, Past
  <2>2. /\ c * (Cardinality(next) + 1) = c * Cardinality(next) + c
        /\ c * (Cardinality(next) + 1) <= c * Cardinality(now)
        /\ c * Cardinality(next) \in Nat /\ c * Cardinality(now) \in Nat
        /\ c * Cardinality(Slots) \in Nat
    BY <1>a, <2>1, ProductMonotone, ProductOneLess
  <2> QED
    BY <1>a, <1>b, <1>f, <2>2
\* A request that goes where nothing is ahead of it.
<1>g. ASSUME NEW r \in Slots, NEW label \in {"idle", "select", "store", "evaluate"},
             pc' = [pc EXCEPT ![r] = label]
      PROVE  next \subseteq now
  BY <1>g DEF now, next, Past, PastOf, Ahead, TypeOK
<1>h. pc' = pc => next = now
  BY DEF now, next, Past
<1>1. ASSUME NEW r \in Slots, CacheHit(r) \/ CacheMiss(r) \/ Select(r) \/ Store(r) \/ EndFree(r)
      PROVE  next \subseteq now /\ spend' = spend
  <2>1. PICK label \in {"idle", "select", "store", "evaluate"} :
            pc' = [pc EXCEPT ![r] = label]
    <3>1. CASE CacheHit(r)
      BY <3>1 DEF CacheHit, Goto
    <3>2. CASE CacheMiss(r)
      BY <3>2 DEF CacheMiss, Goto
    <3>3. CASE Select(r)
      BY <3>3 DEF Select, Goto
    <3>4. CASE Store(r)
      BY <3>4 DEF Store, Goto
    <3>5. CASE EndFree(r)
      BY <3>5 DEF EndFree, Goto
    <3> QED
      BY <1>1, <3>1, <3>2, <3>3, <3>4, <3>5
  <2>2. spend' = spend
    BY <1>1 DEF CacheHit, CacheMiss, Select, Store, EndFree
  <2> QED
    BY <1>g, <2>1, <2>2
<1>2. ASSUME NEW r \in Slots, Evaluate(r)
      PROVE  spend'[u][m] + c * Cardinality(next) < rule.threshold + c * Cardinality(Slots)
  <2>1. /\ spend' = spend /\ pc[r] = "evaluate"
        /\ Goto(r, IF Triggered(Rules, spend[User(r)]) THEN "idle" ELSE "running")
    BY <1>0, <1>2 DEF Evaluate, ReadingsOf, Readings
  <2>2. CASE Triggered(Rules, spend[User(r)])
    <3>1. next \subseteq now
      BY <1>g, <2>1, <2>2 DEF Goto
    <3> QED
      BY <1>a, <1>d, <2>1, <3>1
  <2>3. CASE ~Triggered(Rules, spend[User(r)])
    <3>1. CASE u = User(r)
      <4>1. spend[u][m] < rule.threshold
        BY <1>a, <2>3, <3>1 DEF Triggered, m
      <4> QED
        BY <1>e, <2>1, <4>1
    <3>2. CASE u # User(r)
      <4>1. next \subseteq now
        BY <2>1, <3>2 DEF now, next, Past, PastOf, TypeOK, Goto
      <4> QED
        BY <1>a, <1>d, <2>1, <4>1
    <3> QED
      BY <3>1, <3>2
  <2> QED
    BY <2>2, <2>3
<1>3. ASSUME NEW r \in Slots, RecordDaily(r)
      PROVE  spend'[u][m] + c * Cardinality(next) < rule.threshold + c * Cardinality(Slots)
  <2>1. PICK d \in Costs :
            spend' = [spend EXCEPT ![User(r)]["daily_spend_cny"] = @ + d]
    BY <1>0, <1>3 DEF RecordDaily
  <2>2. /\ pc[r] = "running" /\ pc' = [pc EXCEPT ![r] = "record"]
        /\ d \in Nat /\ d <= c /\ User(r) \in Users
    BY <1>3, <2>1 DEF RecordDaily, Goto, Cap, User
  <2>3. spend'[u][m] = IF u = User(r) /\ m = "daily_spend_cny" THEN spend[u][m] + d
                       ELSE spend[u][m]
    BY <1>a, <2>1, <2>2, SpendRaised DEF TypeOK, Metrics
  <2>4. CASE u = User(r) /\ m = "daily_spend_cny"
    <3>1. r \in now /\ next \subseteq now \ {r}
      BY <2>2, <2>4 DEF now, next, Past, PastOf, Ahead, TypeOK
    <3> QED
      BY <1>f, <2>2, <2>3, <2>4, <3>1
  <2>5. CASE ~(u = User(r) /\ m = "daily_spend_cny")
    <3>1. next \subseteq now
      BY <2>2, <2>5 DEF now, next, Past, PastOf, Ahead, TypeOK
    <3> QED
      BY <1>a, <1>d, <2>3, <2>5, <3>1
  <2> QED
    BY <2>4, <2>5
<1>4. ASSUME NEW r \in Slots, RecordMinute(r)
      PROVE  spend'[u][m] + c * Cardinality(next) < rule.threshold + c * Cardinality(Slots)
  <2> DEFINE d == cost[r]
  <2>1. /\ spend' = [spend EXCEPT ![User(r)]["spend_per_minute"] = @ + d]
        /\ pc[r] = "record" /\ pc' = [pc EXCEPT ![r] = "idle"]
    BY <1>0, <1>4 DEF RecordMinute, Goto
  <2>2. d \in Nat /\ d <= c /\ User(r) \in Users
    <3>1. cost[r] \in Costs
      BY <2>1 DEF TypeOK
    <3> QED
      BY <3>1 DEF Cap, User
  <2> HIDE DEF d
  <2>3. spend'[u][m] = IF u = User(r) /\ m = "spend_per_minute" THEN spend[u][m] + d
                       ELSE spend[u][m]
    BY <1>a, <2>1, <2>2, SpendRaised DEF TypeOK, Metrics
  <2>4. CASE u = User(r) /\ m = "spend_per_minute"
    <3>1. r \in now /\ next \subseteq now \ {r}
      BY <2>1, <2>4 DEF now, next, Past, PastOf, Ahead, TypeOK
    <3> QED
      BY <1>f, <2>2, <2>3, <2>4, <3>1
  <2>5. CASE ~(u = User(r) /\ m = "spend_per_minute")
    <3>1. next \subseteq now
      BY <1>g, <2>1
    <3> QED
      BY <1>a, <1>d, <2>3, <2>5, <3>1
  <2> QED
    BY <2>4, <2>5
<1>5. ASSUME Tick PROVE next \subseteq now /\ spend'[u][m] <= spend[u][m]
  <2>1. pc' = pc
    BY <1>5 DEF Tick, slotVars
  <2>2. spend'[u][m] = spend[u][m] \/ spend'[u][m] = 0
    BY <1>5, <1>a DEF Tick, Reset
  <2> QED
    BY <1>a, <1>h, <2>1, <2>2
<1>6. ASSUME \/ \E v \in Users : ScanUser(v)
             \/ TakeAction \/ ScanFails \/ Recover \/ UNCHANGED vars
      PROVE  next \subseteq now /\ spend' = spend
  BY <1>6, <1>h DEF ScanUser, TakeAction, ScanFails, Recover, vars, slotVars
<1> QED
  <2>1. CASE spend' = spend /\ next \subseteq now
    BY <1>a, <1>d, <2>1
  <2>2. CASE Tick
    BY <1>5, <1>d, <2>2
  <2> QED
    BY <1>1, <1>2, <1>3, <1>4, <1>6, <2>1, <2>2 DEF Next

\* The invariant holds in every state of every behaviour.
THEOREM Invariant == Spec => []IInv
<1>1. IInv /\ [Next]_vars => IInv'
  BY NextTypeOK, NextHeadroom DEF IInv
<1> QED
  BY <1>1, InitIInv, PTL DEF Spec

\* Every variable keeps its type, and a cost is held exactly between the two
\* records of a request.
THEOREM TypeCorrect == Spec => []TypeOK
<1>1. IInv => TypeOK
  BY DEF IInv
<1> QED
  BY <1>1, Invariant, PTL

\* As long as Redis answers, a limit is overshot by what the concurrent requests
\* cost and by no more, for any number of them and however they interleave.
THEOREM OvershootIsBounded == Spec => []OvershootBounded
<1>1. IInv => OvershootBounded
  <2> SUFFICES ASSUME IInv, outage = "none",
                      NEW u \in Users, NEW rule \in Rules, NEW c \in Costs, Cap(c)
               PROVE  spend[u][rule.metric] < rule.threshold + c * Cardinality(Slots)
    BY DEF OvershootBounded, Cap
  <2> DEFINE n == Cardinality(Past(u, rule.metric))
  <2>1. spend[u][rule.metric] + c * n < rule.threshold + c * Cardinality(Slots)
    BY DEF IInv, Headroom
  <2>2. spend[u][rule.metric] \in Nat
    BY RuleType DEF IInv, TypeOK
  <2>3. n \in Nat /\ n <= Cardinality(Slots) /\ Cardinality(Slots) \in Nat
    BY PastFinite DEF Past
  <2> HIDE DEF n
  <2>4. c * n \in Nat /\ c * Cardinality(Slots) \in Nat
    BY <2>3, ProductMonotone
  <2> QED
    BY <2>1, <2>2, <2>4, RuleType
<1> QED
  BY <1>1, Invariant, PTL
=============================================================================
