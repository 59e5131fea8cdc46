---------------------------- MODULE WalletProofs ----------------------------
(***************************************************************************)
(* Theorems about Wallet and Billing, for any callers, users, amounts,     *)
(* recharges, payments and rounding.  The inductive invariant is the       *)
(* conjunction of TypeOK, which ties the row lock to the open transaction, *)
(* with NoLostUpdate, NonNegative and ReconciledWithin; NoLostUpdate is    *)
(* what makes the other two inductive: a commit writes a balance computed  *)
(* from an older read.  Every step of Billing is one of Wallet, so all of  *)
(* it holds of the webhook too.                                            *)
(***************************************************************************)
EXTENDS Billing, TLAPS

USE WalletAssumption

\* Rounding yields whole units.
LEMMA NearestType ==
    ASSUME NEW x \in Int, NEW y \in Promise!Nearest(x)
    PROVE  y \in Int
BY DEF Promise!Nearest

\* Rounding an amount that is not negative yields one that is not negative.
LEMMA NearestNonNegative ==
    ASSUME NEW x \in Nat, NEW y \in Promise!Nearest(x)
    PROVE  y \in Nat
<1>1. x \div TicksPerUnit \in Nat
  OBVIOUS
<1> QED
  BY <1>1 DEF Promise!Nearest

\* A balance that covers a charge is not negative after it, in ticks.
LEMMA CoveredRest ==
    ASSUME NEW B \in Int, NEW a \in Nat, B * TicksPerUnit >= a
    PROVE  B * TicksPerUnit - a \in Nat
<1>1. B * TicksPerUnit \in Int
  OBVIOUS
<1> QED
  BY <1>1

\* Rounding the new balance and the entry apart loses or gains one unit at most.
LEMMA RoundingDrift ==
    ASSUME NEW B \in Int, NEW a \in Int,
           NEW b \in Promise!Nearest(B * TicksPerUnit - a),
           NEW e \in Promise!Nearest(a)
    PROVE  b - (B - e) \in -1..1
<1> DEFINE T == TicksPerUnit
           d == b - (B - e)
<1>1. T \in Int /\ T > 0 /\ B * T - a \in Int
  OBVIOUS
<1>2. b \in Int /\ e \in Int /\ d \in Int
  BY <1>1, NearestType
<1>3. /\ 2 * (b * T - (B * T - a)) <= T /\ 2 * ((B * T - a) - b * T) <= T
      /\ 2 * (e * T - a) <= T /\ 2 * (a - e * T) <= T
  BY DEF Promise!Nearest
<1>4. d * T = b * T - B * T + e * T
  BY <1>1, <1>2
<1>5. d * T <= T /\ -T <= d * T
  BY <1>1, <1>2, <1>3, <1>4
<1>6. d <= 1
  <2>1. CASE d >= 2
    <3>1. d * T >= 2 * T
      BY <1>1, <1>2, <2>1
    <3> QED BY <1>1, <1>2, <1>5, <3>1
  <2> QED BY <1>2, <2>1
<1>7. d >= -1
  <2>1. CASE d <= -2
    <3>1. d * T <= (-2) * T
      BY <1>1, <1>2, <2>1
    <3> QED BY <1>1, <1>2, <1>5, <3>1
  <2> QED BY <1>2, <2>1
<1> QED
  BY <1>2, <1>6, <1>7

----------------------------------------------------------------------------
\* The inductive invariant.
IInv == TypeOK /\ NoLostUpdate /\ NonNegative /\ ReconciledWithin

\* The invariant holds before the first request.
THEOREM InitIInv == Init => IInv
BY DEF Init, IInv, TypeOK, NoLostUpdate, NonNegative, ReconciledWithin

\* Caller c moves between points outside a transaction, and touches neither the
\* rows nor the row lock.
Outside(c) ==
    /\ UNCHANGED <<sqlVars, lock>>
    /\ pc'[c] # "commit"
    /\ \A d \in Callers \ {c} :
          pc'[d] = pc[d] /\ read'[d] = read[d] /\ amount'[d] = amount[d]

\* Such a step keeps the invariant.
LEMMA OutsideTransaction ==
    ASSUME IInv, NEW c \in Callers, TypeOK', Outside(c)
    PROVE  IInv'
BY DEF IInv, TypeOK, NoLostUpdate, NonNegative, ReconciledWithin, sqlVars, cacheVars,
       Covered, Promise!Covers, Outside

\* The two ways a cached balance is set and removed keep the types of the cache.
LEMMA CacheType ==
    ASSUME TypeOK, NEW u \in Users, NEW b \in Int \cup {Absent}, NEW y \in BOOLEAN,
           cache' = [cache EXCEPT ![u] = b], young' = [young EXCEPT ![u] = y]
    PROVE  cache' \in [Users -> Int \cup {Absent}] /\ young' \in [Users -> BOOLEAN]
<1>1. cache \in [Users -> Int \cup {Absent}] /\ young \in [Users -> BOOLEAN]
  BY DEF TypeOK
<1>2. cache' \in [Users -> Int \cup {Absent}]
  BY <1>1
<1>3. young' \in [Users -> BOOLEAN]
  BY <1>1, Zenon
<1> QED
  BY <1>2, <1>3

\* Decide keeps the types of what it changes, and stays out of the transaction.
LEMMA DecideType ==
    ASSUME TypeOK, NEW c \in Callers, NEW units, Decide(c, units),
           pc[c] \in {"get", "fill"}, UNCHANGED <<sqlVars, lock>>,
           cache' \in [Users -> Int \cup {Absent}], young' \in [Users -> BOOLEAN]
    PROVE  /\ TypeOK'
           /\ Outside(c)
<1>1. CASE Leave(c)
  <2>1. TypeOK'
    BY <1>1 DEF TypeOK, Leave, Goto, sqlVars, cacheVars
  <2>2. Outside(c)
    BY <1>1 DEF TypeOK, Outside, Leave, Goto
  <2> QED
    BY <2>1, <2>2
<1>2. CASE /\ Goto(c, IF checked[c] = 0 THEN "get" ELSE "serve")
           /\ checked' = [checked EXCEPT ![c] = @ + 1]
           /\ read' = [read EXCEPT ![c] = 0]
           /\ UNCHANGED amount
  <2>1. TypeOK'
    BY <1>2 DEF TypeOK, Goto, sqlVars, cacheVars
  <2>2. Outside(c)
    BY <1>2 DEF TypeOK, Outside, Goto
  <2> QED
    BY <2>1, <2>2
<1> QED
  BY <1>1, <1>2 DEF Decide

\* Every step keeps the inductive invariant.
THEOREM NextIInv == IInv /\ [Next]_vars => IInv'
<1> SUFFICES ASSUME IInv, [Next]_vars PROVE IInv'
  OBVIOUS
<1> USE DEF IInv
<1>1. ASSUME NEW c \in Callers, Begin(c) PROVE IInv'
  <2>1. TypeOK'
    BY <1>1 DEF TypeOK, Begin, Goto, sqlVars, cacheVars
  <2>2. Outside(c)
    BY <1>1 DEF TypeOK, Outside, Begin, Goto
  <2> QED
    BY <2>1, <2>2, OutsideTransaction
<1>2. ASSUME NEW c \in Callers, Hit(c) PROVE IInv'
  <2>1. /\ Decide(c, cache[UserOf[c]]) /\ pc[c] \in {"get", "fill"}
        /\ UNCHANGED <<sqlVars, lock>>
        /\ cache' \in [Users -> Int \cup {Absent}] /\ young' \in [Users -> BOOLEAN]
    BY <1>2 DEF TypeOK, Hit, Touch
  <2> QED
    BY <2>1, DecideType, OutsideTransaction
<1>3. ASSUME NEW c \in Callers, Miss(c) PROVE IInv'
  <2>1. TypeOK'
    BY <1>3 DEF TypeOK, Miss, Goto, sqlVars, cacheVars
  <2>2. Outside(c)
    BY <1>3 DEF TypeOK, Outside, Miss, Goto
  <2> QED
    BY <2>1, <2>2, OutsideTransaction
<1>4. ASSUME NEW c \in Callers, Query(c) PROVE IInv'
  <2>1. TypeOK'
    BY <1>4 DEF TypeOK, Query, Goto, sqlVars, cacheVars
  <2>2. Outside(c)
    BY <1>4 DEF TypeOK, Outside, Query, Goto
  <2> QED
    BY <2>1, <2>2, OutsideTransaction
<1>5. ASSUME NEW c \in Callers, Fill(c) PROVE IInv'
  <2>1. /\ Decide(c, read[c]) /\ pc[c] \in {"get", "fill"}
        /\ UNCHANGED <<sqlVars, lock>>
        /\ cache' \in [Users -> Int \cup {Absent}] /\ young' \in [Users -> BOOLEAN]
    <3>1. read[c] \in Int
      BY DEF TypeOK
    <3>2. CASE UNCHANGED cacheVars
      BY <1>5, <3>2 DEF TypeOK, Fill, cacheVars
    <3>3. CASE /\ cache' = [cache EXCEPT ![UserOf[c]] = read[c]]
               /\ young' = [young EXCEPT ![UserOf[c]] = TRUE]
      BY <1>5, <3>1, <3>3, CacheType DEF Fill
    <3> QED
      BY <1>5, <3>2, <3>3 DEF Fill
  <2> QED
    BY <2>1, DecideType, OutsideTransaction
<1>6. ASSUME NEW c \in Callers, Serve(c) PROVE IInv'
  <2>1. TypeOK'
    BY <1>6 DEF TypeOK, Serve, Goto, sqlVars, cacheVars
  <2>2. Outside(c)
    BY <1>6 DEF TypeOK, Outside, Serve, Goto
  <2> QED
    BY <2>1, <2>2, OutsideTransaction
<1>7. ASSUME NEW c \in Callers, ServeUnbilled(c) PROVE IInv'
  <2>1. TypeOK'
    BY <1>7 DEF TypeOK, ServeUnbilled, Leave, Goto, sqlVars, cacheVars
  <2>2. Outside(c)
    BY <1>7 DEF TypeOK, Outside, ServeUnbilled, Leave, Goto
  <2> QED
    BY <2>1, <2>2, OutsideTransaction
<1>8. ASSUME NEW c \in Callers, Lock(c) PROVE IInv'
  <2>1. TypeOK'
    BY <1>8 DEF TypeOK, Lock, Lockable, Goto, sqlVars, cacheVars
  <2>2. NoLostUpdate'
    BY <1>8 DEF TypeOK, NoLostUpdate, Lock, Covered, Promise!Covers, Goto, sqlVars
  <2>3. NonNegative' /\ ReconciledWithin'
    BY <1>8 DEF NonNegative, ReconciledWithin, Lock, sqlVars
  <2> QED
    BY <2>1, <2>2, <2>3
<1>9. ASSUME NEW c \in Callers, Insufficient(c) PROVE IInv'
  <2>1. TypeOK'
    BY <1>9 DEF TypeOK, Insufficient, Leave, Goto, sqlVars, cacheVars
  <2>2. Outside(c)
    BY <1>9 DEF TypeOK, Outside, Insufficient, Leave, Goto
  <2> QED
    BY <2>1, <2>2, OutsideTransaction
<1>10. ASSUME NEW c \in Callers, CommitSQL(c), UNCHANGED cacheVars,
               pc' \in {[pc EXCEPT ![c] = "del"], [pc EXCEPT ![c] = "idle"]},
               amount' = [amount EXCEPT ![c] = 0], read' = [read EXCEPT ![c] = 0],
               checked' \in [Callers -> 0..2],
               \A d \in Callers : pc'[d] \in {"idle", "get", "query", "fill"} =>
                   checked'[d] \in 0..1
       PROVE  IInv'
  <2> DEFINE u == UserOf[c]
             B == read[c]
             a == amount[c]
  <2>1. /\ u \in Users /\ B \in Int /\ a \in Nat /\ pc[c] = "commit" /\ lock[u] = c
        /\ B = balance[u] /\ B * TicksPerUnit >= a
    <3>1. pc[c] = "commit"
      BY <1>10 DEF CommitSQL
    <3>2. u \in Users /\ lock[u] = c
      BY <3>1 DEF TypeOK
    <3>3. B \in Int
      BY DEF TypeOK
    <3>4. a \in Nat
      <4>1. a \in Amounts \cup {0}
        BY DEF TypeOK
      <4> HIDE DEF a
      <4> QED
        BY <4>1
    <3>5. B = balance[u] /\ Promise!Covers(balance[u], a)
      BY <3>1 DEF NoLostUpdate, Covered
    <3> QED
      BY <3>1, <3>2, <3>3, <3>4, <3>5 DEF Promise!Covers
  <2>2. PICK b \in Promise!Nearest(B * TicksPerUnit - a), e \in Promise!Nearest(a) :
            /\ balance' = [balance EXCEPT ![u] = b]
            /\ ledger' = [ledger EXCEPT ![u] = @ - e]
    BY <1>10 DEF CommitSQL, Promise!Post
  <2>3. B * TicksPerUnit - a \in Nat
    BY <2>1, CoveredRest
  <2>4. /\ b \in Nat /\ e \in Nat
        /\ b - (B - e) \in -1..1
    <3>1. b \in Nat
      BY <2>3, NearestNonNegative
    <3>2. e \in Nat
      BY <2>1, NearestNonNegative
    <3>3. b - (B - e) \in -1..1
      <4>1. B \in Int /\ a \in Int
        BY <2>1
      <4> HIDE DEF B, a
      <4> QED
        BY <4>1, RoundingDrift
    <3> QED
      BY <3>1, <3>2, <3>3
  <2>5. /\ charges' = [charges EXCEPT ![u] = @ + 1]
        /\ lock' = [lock EXCEPT ![u] = Free]
    BY <1>10 DEF CommitSQL, Unlock
  <2>6. TypeOK'
    <3>1. /\ balance' \in [Users -> Int] /\ ledger' \in [Users -> Int]
          /\ charges' \in [Users -> Nat]
          /\ lock' \in [Users -> Callers \cup {Free}]
          /\ cache' \in [Users -> Int \cup {Absent}] /\ young' \in [Users -> BOOLEAN]
      BY <1>10, <2>1, <2>2, <2>4, <2>5 DEF TypeOK, cacheVars
    <3>2. /\ pc' \in [Callers -> {"idle", "get", "query", "fill", "serve",
                                  "lock", "commit", "del"}]
          /\ checked' \in [Callers -> 0..2]
          /\ amount' \in [Callers -> Amounts \cup {0}]
          /\ read' \in [Callers -> Int]
      BY <1>10 DEF TypeOK
    <3>3. \A v \in Users, d \in Callers :
              lock'[v] = d <=> pc'[d] = "commit" /\ UserOf[d] = v
      BY <1>10, <2>1, <2>5 DEF TypeOK
    <3>4. \A d \in Callers :
              /\ pc'[d] \in {"idle", "get", "query", "fill"} => checked'[d] \in 0..1
              /\ pc'[d] \in {"lock", "commit"} => amount'[d] \in Amounts
      BY <1>10 DEF TypeOK
    <3> QED
      BY <3>1, <3>2, <3>3, <3>4 DEF TypeOK
  <2>7. NoLostUpdate'
    <3> SUFFICES ASSUME NEW d \in Callers, pc'[d] = "commit"
                 PROVE  read'[d] = balance'[UserOf[d]] /\ Covered(d)'
      BY DEF NoLostUpdate
    <3>1. d # c /\ pc[d] = "commit" /\ read'[d] = read[d] /\ amount'[d] = amount[d]
      BY <1>10 DEF TypeOK
    <3>2. UserOf[d] # u
      BY <2>1, <3>1 DEF TypeOK
    <3>3. balance'[UserOf[d]] = balance[UserOf[d]]
      BY <2>1, <2>2, <3>2 DEF TypeOK
    <3> QED
      BY <3>1, <3>3 DEF NoLostUpdate, Covered, Promise!Covers
  <2>8. NonNegative'
    BY <2>1, <2>2, <2>4 DEF TypeOK, NonNegative
  <2>9. ReconciledWithin'
    <3> SUFFICES ASSUME NEW v \in Users
                 PROVE  balance'[v] - ledger'[v] \in -charges'[v]..charges'[v]
      BY DEF ReconciledWithin
    <3>1. CASE v = u
      <4>1. /\ balance'[v] = b /\ ledger'[v] = ledger[v] - e
            /\ charges'[v] = charges[v] + 1
        BY <2>1, <2>2, <2>5, <3>1 DEF TypeOK
      <4>2. B - ledger[v] \in -charges[v]..charges[v]
        BY <2>1, <3>1 DEF ReconciledWithin
      <4>3. ledger[v] \in Int /\ charges[v] \in Nat
        BY DEF TypeOK
      <4> QED
        BY <2>1, <2>4, <4>1, <4>2, <4>3
    <3>2. CASE v # u
      BY <2>1, <2>2, <2>5, <3>2 DEF TypeOK, ReconciledWithin
    <3> QED
      BY <3>1, <3>2
  <2> QED
    BY <2>6, <2>7, <2>8, <2>9
<1>11. ASSUME NEW c \in Callers, Commit(c) PROVE IInv'
  <2>1. /\ checked' \in [Callers -> 0..2]
        /\ \A d \in Callers : pc'[d] \in {"idle", "get", "query", "fill"} =>
              checked'[d] \in 0..1
    BY <1>11 DEF Commit, Goto, TypeOK
  <2> QED
    BY <1>10, <1>11, <2>1 DEF Commit, Goto
<1>12. ASSUME NEW c \in Callers, CommitUnreported(c) PROVE IInv'
  <2>1. /\ checked' \in [Callers -> 0..2]
        /\ \A d \in Callers : pc'[d] \in {"idle", "get", "query", "fill"} =>
              checked'[d] \in 0..1
    BY <1>12 DEF CommitUnreported, Leave, Goto, TypeOK
  <2> QED
    BY <1>10, <1>12, <2>1 DEF CommitUnreported, Leave, Goto
<1>13. ASSUME NEW c \in Callers, Invalidate(c) PROVE IInv'
  <2>1. TypeOK'
    <3>1. CASE UNCHANGED cacheVars
      BY <1>13, <3>1 DEF TypeOK, Invalidate, Leave, Goto, sqlVars, cacheVars
    <3>2. CASE Forget(UserOf[c])
      <4>1. cache' \in [Users -> Int \cup {Absent}] /\ young' \in [Users -> BOOLEAN]
        BY <3>2, CacheType DEF Forget
      <4> QED
        BY <1>13, <4>1 DEF TypeOK, Invalidate, Leave, Goto, sqlVars
    <3> QED
      BY <1>13, <3>1, <3>2 DEF Invalidate
  <2>2. Outside(c)
    BY <1>13 DEF TypeOK, Outside, Invalidate, Leave, Goto
  <2> QED
    BY <2>1, <2>2, OutsideTransaction
<1>14. ASSUME NEW c \in Callers, Abandon(c) PROVE IInv'
  <2>1. TypeOK'
    BY <1>14 DEF TypeOK, Abandon, Leave, Goto, Unlock, sqlVars, cacheVars
  <2>2. NoLostUpdate'
    BY <1>14 DEF TypeOK, NoLostUpdate, Covered, Promise!Covers, Abandon, Leave,
                 Goto, sqlVars
  <2>3. NonNegative' /\ ReconciledWithin'
    BY <1>14 DEF NonNegative, ReconciledWithin, Abandon, sqlVars
  <2> QED
    BY <2>1, <2>2, <2>3
<1>15. ASSUME NEW u \in Users, NEW units \in Recharges, Recharge(u, units)
       PROVE  IInv'
  <2>1. units \in Nat /\ lock[u] = Free
    BY <1>15 DEF Recharge, Rechargeable
  <2>2. TypeOK'
    BY <1>15, <2>1 DEF TypeOK, Recharge, Promise!Credit, cacheVars, callerVars
  <2>3. \A c \in Callers : pc[c] = "commit" => UserOf[c] # u
    BY <2>1 DEF TypeOK
  <2>4. NoLostUpdate'
    BY <1>15, <2>3 DEF TypeOK, NoLostUpdate, Covered, Promise!Covers, Recharge,
                       Promise!Credit, callerVars
  <2>5. NonNegative' /\ ReconciledWithin'
    BY <1>15, <2>1 DEF TypeOK, NonNegative, ReconciledWithin, Recharge,
                       Promise!Credit
  <2> QED
    BY <2>2, <2>4, <2>5
<1>16. ASSUME NEW u \in Users, Age(u) \/ Expire(u) PROVE IInv'
  <2>1. cache' \in [Users -> Int \cup {Absent}] /\ young' \in [Users -> BOOLEAN]
    <3>1. CASE Age(u)
      BY <3>1, Zenon DEF Age, TypeOK
    <3>2. CASE Expire(u)
      BY <3>2, CacheType DEF Expire, Forget
    <3> QED
      BY <1>16, <3>1, <3>2
  <2>2. UNCHANGED <<sqlVars, lock, callerVars>>
    BY <1>16 DEF Age, Expire
  <2> QED
    BY <2>1, <2>2 DEF TypeOK, NoLostUpdate, Covered, Promise!Covers, NonNegative,
                      ReconciledWithin, sqlVars, callerVars
<1>17. CASE UNCHANGED vars
  BY <1>17 DEF vars, TypeOK, NoLostUpdate, Covered, Promise!Covers, NonNegative,
               ReconciledWithin, sqlVars, cacheVars, callerVars
<1> QED
  BY <1>1, <1>2, <1>3, <1>4, <1>5, <1>6, <1>7, <1>8, <1>9, <1>11, <1>12, <1>13,
     <1>14, <1>15, <1>16, <1>17 DEF Next

----------------------------------------------------------------------------
\* The invariant holds throughout every behaviour.
THEOREM Invariant == Spec => []IInv
<1>1. Init => IInv
  BY InitIInv
<1>2. IInv /\ [Next]_vars => IInv'
  BY NextIInv
<1> QED
  BY <1>1, <1>2, PTL DEF Spec

\* Type correctness, and mutual exclusion of the transactions on one wallet.
THEOREM TypeCorrect == Spec => []TypeOK
<1>1. IInv => TypeOK
  BY DEF IInv
<1> QED
  BY <1>1, Invariant, PTL

\* DeductBalance and Webhook never lose each other's update.
THEOREM NoUpdateIsLost == Spec => []NoLostUpdate
<1>1. IInv => NoLostUpdate
  BY DEF IInv
<1> QED
  BY <1>1, Invariant, PTL

\* No wallet becomes negative, for any number of concurrent requests.
THEOREM NeverOverdrawn == Spec => []NonNegative
<1>1. IInv => NonNegative
  BY DEF IInv
<1> QED
  BY <1>1, Invariant, PTL

\* Balance and ledger drift apart by at most one unit of DECIMAL(15,4) a charge.
THEOREM DriftBounded == Spec => []ReconciledWithin
<1>1. IInv => ReconciledWithin
  BY DEF IInv
<1> QED
  BY <1>1, Invariant, PTL

----------------------------------------------------------------------------
\* A step of the wallet is an atomic step of the account, or none.
LEMMA StepSimulation == IInv /\ [Next]_vars => [Promise!Next]_Promise!accountVars
<1> SUFFICES ASSUME IInv, [Next]_vars
             PROVE  Promise!Next \/ UNCHANGED <<balance, ledger>>
  BY DEF Promise!accountVars
<1>1. ASSUME NEW c \in Callers, CommitSQL(c)
      PROVE  Promise!Next
  <2>1. pc[c] = "commit" /\ Promise!Post(UserOf[c], read[c], amount[c])
    BY <1>1 DEF CommitSQL
  <2>2. UserOf[c] \in Users
    OBVIOUS
  <2>3. read[c] = balance[UserOf[c]] /\ Promise!Covers(balance[UserOf[c]], amount[c])
    BY <2>1 DEF IInv, NoLostUpdate, Covered
  <2>4. amount[c] \in Amounts
    BY <2>1 DEF IInv, TypeOK
  <2> QED
    BY <2>1, <2>2, <2>3, <2>4 DEF Promise!Next, Promise!Charge
<1>2. ASSUME NEW u \in Users, NEW units \in Recharges, Recharge(u, units)
      PROVE  Promise!Next
  BY <1>2 DEF Recharge, Promise!Next
<1> QED
  BY <1>1, <1>2 DEF Next, vars, sqlVars, cacheVars, Begin, Hit, Miss, Query, Fill, Serve,
     ServeUnbilled, Lock, Insufficient, Commit, CommitUnreported, Invalidate,
     Abandon, Age, Expire

\* The lock-read-write protocol implements the atomic account.
THEOREM ImplementsAccount == Spec => AtomicAccount
<1>1. Init => Promise!Init
  BY DEF Init, Promise!Init
<1>2. IInv /\ [Next]_vars => [Promise!Next]_Promise!accountVars
  BY StepSimulation
<1> QED
  BY <1>1, <1>2, Invariant, PTL DEF Spec, AtomicAccount, Promise!Spec

----------------------------------------------------------------------------
\* A step of the wallets and the webhook is one of the wallets: all of the above
\* holds with Stripe's deliveries, retried and repeated as they may be.
LEMMA BillingStep == [BillingNext]_billingVars => [Next]_vars
<1> USE BillingAssumption
<1> SUFFICES ASSUME [BillingNext]_billingVars
             PROVE  Next \/ UNCHANGED vars
  OBVIOUS
<1>1. ASSUME NEW c \in Callers, Requests(c) PROVE Next
  BY <1>1 DEF Requests, Run, Acquire, Next
<1>2. ASSUME NEW u \in Users, Age(u) \/ Expire(u) PROVE Next
  BY <1>2 DEF Next
<1>3. ASSUME NEW e \in Payments, DeliveryFails(e) PROVE UNCHANGED vars
  BY <1>3 DEF DeliveryFails
<1>4. ASSUME NEW e \in Payments, Deliver(e) PROVE Next
  <2>1. Payer[e] \in Users /\ Price[e] \in Recharges /\ Recharge(Payer[e], Price[e])
    BY <1>4 DEF Deliver
  <2> QED
    BY <2>1 DEF Next
<1>5. CASE UNCHANGED billingVars
  BY <1>5 DEF billingVars
<1> QED
  BY <1>1, <1>2, <1>3, <1>4, <1>5 DEF BillingNext

\* The wallets under the webhook are the wallets.
THEOREM BillingIsWallet == BillingSpec => Spec
<1>1. BillingInit => Init
  BY DEF BillingInit
<1>2. [BillingNext]_billingVars => [Next]_vars
  BY BillingStep
<1> QED
  BY <1>1, <1>2, PTL DEF BillingSpec, Spec

\* With the type of the history, what Stripe was told is inductive.
BillingIInv == credited \in [Payments -> Nat] /\ AcknowledgedIsCredited

\* Every event answered with 200 was credited at least once, whatever failed
\* before and however often it was delivered: nobody pays Stripe for nothing.
THEOREM NoPaymentIsLost == BillingSpec => []AcknowledgedIsCredited
<1>1. BillingInit => BillingIInv
  BY DEF BillingInit, BillingIInv, AcknowledgedIsCredited
<1>2. BillingIInv /\ [BillingNext]_billingVars => BillingIInv'
  <2> SUFFICES ASSUME BillingIInv, [BillingNext]_billingVars
               PROVE  BillingIInv'
    OBVIOUS
  <2> USE DEF BillingIInv, AcknowledgedIsCredited
  <2>1. ASSUME NEW e \in Payments, DeliveryFails(e) PROVE BillingIInv'
    BY <2>1 DEF DeliveryFails, AfterError
  <2>2. ASSUME NEW e \in Payments, Deliver(e) PROVE BillingIInv'
    <3>1. credited' = [credited EXCEPT ![e] = @ + 1]
      BY <2>2 DEF Deliver
    <3>2. credited' \in [Payments -> Nat] /\ credited'[e] >= 1
          /\ \A f \in Payments : credited'[f] >= credited[f]
      BY <3>1
    <3>3. acknowledged' \subseteq acknowledged \cup {e}
      BY <2>2 DEF Deliver
    <3>4. ASSUME NEW f \in acknowledged' PROVE credited'[f] >= 1
      BY <3>2, <3>3, <3>4
    <3> QED
      BY <3>2, <3>3, <3>4
  <2>3. CASE UNCHANGED stripeVars
    BY <2>3 DEF stripeVars
  <2> QED
    BY <2>1, <2>2, <2>3 DEF BillingNext, billingVars
<1>3. BillingIInv => AcknowledgedIsCredited
  BY DEF BillingIInv
<1> QED
  BY <1>1, <1>2, <1>3, PTL DEF BillingSpec
=============================================================================
