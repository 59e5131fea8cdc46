------------------------------- MODULE Wallet -------------------------------
(***************************************************************************)
(* The prepaid wallet: CheckBalance and DeductBalance of                   *)
(* internal/billing/wallet.go, the places of a request that call them      *)
(* (auth middleware, chat handlers) and the recharge webhook.              *)
(*                                                                         *)
(* PostgreSQL and Redis are external: a row lock taken by FOR UPDATE or    *)
(* UPDATE is held to the end of the transaction, a plain SELECT reads the  *)
(* last committed value, a cached balance lives until DEL or its expiry.   *)
(* Each round trip to either is a step.  Faulty says whether round trips   *)
(* may fail, requests be cancelled and the process crash.                  *)
(***************************************************************************)
EXTENDS Integers

CONSTANTS
    Callers,       \* the request goroutines that run at the same time
    Users,
    UserOf,        \* the user each of them serves
    Amounts,       \* costs of a call, in ticks
    Recharges,     \* amounts of a recharge, in units
    Opening,       \* opening balance of each wallet, in units
    TicksPerUnit,  \* ticks of a charge in one unit of DECIMAL(15,4)
    Faulty,
    Absent,        \* no cached balance
    Free           \* nobody holds the row lock

VARIABLES
    balance,   \* wallets.balance
    ledger,    \* sum of wallet_transactions.amount, opening balance included
    charges,   \* number of 'consume' rows in wallet_transactions
    lock,      \* holder of the wallet's row lock
    cache,     \* Redis key wallet:balance:<user>
    young,     \* no more than half of the key's 5 s have passed since its SET
    pc,        \* where each caller is
    checked,   \* balance checks it has passed: middleware, then handler
    amount,    \* argument of DeductBalance
    read       \* local variable balance of CheckBalance and DeductBalance

sqlVars == <<balance, ledger, charges>>
cacheVars == <<cache, young>>
callerVars == <<pc, checked, amount, read>>
vars == <<sqlVars, lock, cacheVars, callerVars>>

Promise == INSTANCE Account

ASSUME WalletAssumption ==
    /\ UserOf \in [Callers -> Users]
    /\ Amounts \subseteq Nat \ {0} /\ Recharges \subseteq Nat
    /\ Opening \in [Users -> Nat] /\ TicksPerUnit \in Nat \ {0}
    /\ Faulty \in BOOLEAN
    /\ Free \notin Callers /\ Absent \notin Int

Goto(c, label) == pc' = [pc EXCEPT ![c] = label]

\* The request ends, and its local variables with it.
Leave(c) ==
    /\ Goto(c, "idle")
    /\ checked' = [checked EXCEPT ![c] = 0]
    /\ amount' = [amount EXCEPT ![c] = 0]
    /\ read' = [read EXCEPT ![c] = 0]

Init ==
    /\ balance = Opening
    /\ ledger = Opening
    /\ charges = [u \in Users |-> 0]
    /\ lock = [u \in Users |-> Free]
    /\ cache = [u \in Users |-> Absent]
    /\ young = [u \in Users |-> FALSE]
    /\ pc = [c \in Callers |-> "idle"]
    /\ checked = [c \in Callers |-> 0]
    /\ amount = [c \in Callers |-> 0]
    /\ read = [c \in Callers |-> 0]

Begin(c) ==
    /\ pc[c] = "idle" /\ Goto(c, "get")
    /\ UNCHANGED <<sqlVars, lock, cacheVars, checked, amount, read>>

----------------------------------------------------------------------------
(***************************************************************************)
(* CheckBalance.  The request runs it twice, in AuthMiddleware and again   *)
(* in the handler, and is refused with 402 unless the balance is positive. *)
(***************************************************************************)
Admits(units) == units > 0

Decide(c, units) ==
    IF ~Admits(units) THEN Leave(c)
    ELSE /\ Goto(c, IF checked[c] = 0 THEN "get" ELSE "serve")
         /\ checked' = [checked EXCEPT ![c] = @ + 1]
         /\ read' = [read EXCEPT ![c] = 0]
         /\ UNCHANGED amount

\* A GET leaves the key's time to live alone.
Prolong(u) == young' = [young EXCEPT ![u] = TRUE]
Touch(u) == UNCHANGED young

Hit(c) ==
    /\ pc[c] = "get" /\ cache[UserOf[c]] # Absent
    /\ Touch(UserOf[c])
    /\ Decide(c, cache[UserOf[c]])
    /\ UNCHANGED <<sqlVars, lock, cache>>

\* No entry, or Redis does not answer.
Miss(c) ==
    /\ pc[c] = "get" /\ (cache[UserOf[c]] = Absent \/ Faulty)
    /\ Goto(c, "query")
    /\ UNCHANGED <<sqlVars, lock, cacheVars, checked, amount, read>>

Query(c) ==
    /\ pc[c] = "query"
    /\ read' = [read EXCEPT ![c] = balance[UserOf[c]]] /\ Goto(c, "fill")
    /\ UNCHANGED <<sqlVars, lock, cacheVars, checked, amount>>

\* SET with 5 s to live; its error is ignored.
Fill(c) ==
    /\ pc[c] = "fill"
    /\ \/ /\ cache' = [cache EXCEPT ![UserOf[c]] = read[c]]
          /\ young' = [young EXCEPT ![UserOf[c]] = TRUE]
       \/ Faulty /\ UNCHANGED cacheVars
    /\ Decide(c, read[c])
    /\ UNCHANGED <<sqlVars, lock>>

----------------------------------------------------------------------------
(***************************************************************************)
(* The answer is delivered; then deductAndRecord calls DeductBalance.      *)
(***************************************************************************)
Serve(c) ==
    /\ pc[c] = "serve"
    /\ \E a \in Amounts : amount' = [amount EXCEPT ![c] = a]
    /\ Goto(c, "lock")
    /\ UNCHANGED <<sqlVars, lock, cacheVars, checked, read>>

\* Nothing is charged: no upstream answered, no price was found, cost zero.
ServeUnbilled(c) ==
    /\ pc[c] = "serve"
    /\ Leave(c)
    /\ UNCHANGED <<sqlVars, lock, cacheVars>>

LockableAlways(c) == TRUE
Lockable(c) == lock[UserOf[c]] = Free

CoversAlways(c) == balance[UserOf[c]] > 0
Covered(c) == Promise!Covers(balance[UserOf[c]], amount[c])

\* SELECT ... FOR UPDATE.
Lock(c) ==
    /\ pc[c] = "lock" /\ Lockable(c) /\ Covered(c)
    /\ lock' = [lock EXCEPT ![UserOf[c]] = c]
    /\ read' = [read EXCEPT ![c] = balance[UserOf[c]]]
    /\ Goto(c, "commit")
    /\ UNCHANGED <<sqlVars, cacheVars, checked, amount>>

\* ErrInsufficientBalance: logged by the handler, the answer is out already.
Insufficient(c) ==
    /\ pc[c] = "lock" /\ Lockable(c) /\ ~Covered(c)
    /\ Leave(c)
    /\ UNCHANGED <<sqlVars, lock, cacheVars>>

UnlockForgotten(u) == UNCHANGED lock
Unlock(u) == lock' = [lock EXCEPT ![u] = Free]

\* UPDATE with the balance computed from the locked row, INSERT, COMMIT.
CommitSQL(c) ==
    /\ pc[c] = "commit"
    /\ Promise!Post(UserOf[c], read[c], amount[c])
    /\ charges' = [charges EXCEPT ![UserOf[c]] = @ + 1]
    /\ Unlock(UserOf[c])

Commit(c) ==
    /\ CommitSQL(c) /\ Goto(c, "del")
    /\ amount' = [amount EXCEPT ![c] = 0]
    /\ read' = [read EXCEPT ![c] = 0]
    /\ UNCHANGED <<cacheVars, checked>>

\* The commit took effect but its answer was lost: DeductBalance returns an
\* error and the cache is left alone.
CommitUnreported(c) ==
    /\ Faulty
    /\ CommitSQL(c)
    /\ Leave(c)
    /\ UNCHANGED cacheVars

Forget(u) ==
    /\ cache' = [cache EXCEPT ![u] = Absent]
    /\ young' = [young EXCEPT ![u] = FALSE]

\* DEL; its error is ignored.
Invalidate(c) ==
    /\ pc[c] = "del"
    /\ \/ Forget(UserOf[c])
       \/ Faulty /\ UNCHANGED cacheVars
    /\ Leave(c)
    /\ UNCHANGED <<sqlVars, lock>>

\* An error, a cancelled context or a crash ends the request where it is; an
\* open transaction is rolled back.
Abandon(c) ==
    /\ Faulty /\ pc[c] # "idle"
    /\ Leave(c)
    /\ IF pc[c] = "commit" THEN Unlock(UserOf[c]) ELSE UNCHANGED lock
    /\ UNCHANGED <<sqlVars, cacheVars>>

----------------------------------------------------------------------------
RechargeableAlways(u) == TRUE
Rechargeable(u) == lock[u] = Free

\* StripeHandler.Webhook: UPDATE balance = balance + $1, INSERT, COMMIT.  The
\* UPDATE waits for the row lock; the cached balance is not invalidated.
Recharge(u, units) ==
    /\ Rechargeable(u)
    /\ Promise!Credit(u, units)
    /\ UNCHANGED <<charges, lock, cacheVars, callerVars>>

\* Time passes, and the key expires unless it has been SET anew.
Age(u) ==
    /\ young[u] /\ young' = [young EXCEPT ![u] = FALSE]
    /\ UNCHANGED <<sqlVars, lock, cache, callerVars>>

Expire(u) ==
    /\ cache[u] # Absent /\ ~young[u]
    /\ Forget(u)
    /\ UNCHANGED <<sqlVars, lock, callerVars>>

\* Steps a caller takes by itself, and those that wait for the row lock.
Run(c) ==
    \/ Hit(c) \/ Miss(c) \/ Query(c) \/ Fill(c)
    \/ Serve(c) \/ ServeUnbilled(c) \/ Commit(c) \/ Invalidate(c)

Acquire(c) == Lock(c) \/ Insufficient(c)

Next ==
    \/ \E c \in Callers :
          \/ Begin(c) \/ Hit(c) \/ Miss(c) \/ Query(c) \/ Fill(c)
          \/ Serve(c) \/ ServeUnbilled(c) \/ Lock(c) \/ Insufficient(c)
          \/ Commit(c) \/ CommitUnreported(c) \/ Invalidate(c) \/ Abandon(c)
    \/ \E u \in Users :
          \/ \E units \in Recharges : Recharge(u, units)
          \/ Age(u) \/ Expire(u)

Spec == Init /\ [][Next]_vars

\* A goroutine that can run does run; PostgreSQL queues the waiters of a row
\* lock, so none of them is passed over for ever; time passes, and
\* a key expires 5 s after it was last SET.
Fairness ==
    /\ \A c \in Callers : WF_vars(Run(c)) /\ SF_vars(Acquire(c))
    /\ \A u \in Users : WF_vars(Age(u)) /\ WF_vars(Expire(u))

FairSpec == Spec /\ Fairness

----------------------------------------------------------------------------
\* Every variable keeps its type, and the row lock and the control points agree:
\* a caller holds the lock of its user's wallet exactly while its transaction is
\* open, none has passed both checks while it is still checking, and a caller at
\* the wallet has something to charge.
TypeOK ==
    /\ balance \in [Users -> Int] /\ ledger \in [Users -> Int]
    /\ charges \in [Users -> Nat]
    /\ lock \in [Users -> Callers \cup {Free}]
    /\ cache \in [Users -> Int \cup {Absent}] /\ young \in [Users -> BOOLEAN]
    /\ pc \in [Callers -> {"idle", "get", "query", "fill", "serve",
                           "lock", "commit", "del"}]
    /\ checked \in [Callers -> 0..2]
    /\ amount \in [Callers -> Amounts \cup {0}]
    /\ read \in [Callers -> Int]
    /\ \A u \in Users, c \in Callers :
          lock[u] = c <=> pc[c] = "commit" /\ UserOf[c] = u
    /\ \A c \in Callers :
          /\ pc[c] \in {"idle", "get", "query", "fill"} => checked[c] \in 0..1
          /\ pc[c] \in {"lock", "commit"} => amount[c] \in Amounts

\* No wallet is overdrawn, however many charges and recharges of it interleave.
NonNegative == \A u \in Users : balance[u] >= 0

\* No lost update: the balance a transaction computes the new one from is still
\* the committed balance when it writes it, whoever else charges or recharges.
NoLostUpdate ==
    \A c \in Callers : pc[c] = "commit" =>
        read[c] = balance[UserOf[c]] /\ Covered(c)

\* Balance and ledger agree but for rounding: they are rounded apart, once per
\* charge, so they differ by at most one unit per charge; recharges add nothing.
ReconciledWithin ==
    \A u \in Users :
        balance[u] - ledger[u] \in -charges[u]..charges[u]

\* Once the charges and recharges of a user are over, requests come to be checked
\* against the balance that is left: whatever recharges without DEL, failed DELs,
\* lost commits and late fills of what was read before have put in the cache goes
\* away for good, although requests keep reading and filling it.
SettlesOnBalance ==
    \A u \in Users :
        \/ []<><<balance'[u] # balance[u]>>_balance
        \/ <>[](cache[u] \in {Absent, balance[u]})

\* Every request comes to its end: nobody waits for a row lock for ever.
RequestsFinish == \A c \in Callers : pc[c] # "idle" ~> pc[c] = "idle"

\* Charges and recharges of the detailed protocol are atomic charges and
\* credits: the wallet implements Account.
AtomicAccount == Promise!Spec

----------------------------------------------------------------------------
(***************************************************************************)
(* What a comment says, checked against what the code does.                *)
(***************************************************************************)

\* Deleting the cached balance after a commit keeps the cache consistent: with
\* no charge between its commit and its DEL, no outdated balance is cached.
CacheCurrentAfterInvalidation ==
    \A u \in Users :
        (\A c \in Callers : UserOf[c] = u => pc[c] # "del") =>
            cache[u] \in {Absent, balance[u]}
=============================================================================
