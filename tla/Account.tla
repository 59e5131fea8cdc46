------------------------------ MODULE Account ------------------------------
(***************************************************************************)
(* What the wallets promise: a charge is taken in one step, from a balance *)
(* that covers it, and is entered in the ledger in the same step; money is *)
(* otherwise only added, by recharges.                                     *)
(*                                                                         *)
(* Balances and ledger entries are in units of the DECIMAL(15,4) columns,  *)
(* charges in ticks, TicksPerUnit to a unit, because a charge is a float64 *)
(* and need not be a whole number of units.                                *)
(***************************************************************************)
EXTENDS Integers

CONSTANTS Users, Amounts, Recharges, Opening, TicksPerUnit

VARIABLES
    balance,   \* wallets.balance
    ledger     \* sum of the wallet_transactions of the wallet, and its opening

accountVars == <<balance, ledger>>

\* The units that x ticks may be rounded to: the nearest, and at a half either
\* neighbour, because the float64 can lie on either side of it.
Nearest(x) ==
    LET low == x \div TicksPerUnit IN
    {y \in {low, low + 1} :
        /\ 2 * (y * TicksPerUnit - x) <= TicksPerUnit
        /\ 2 * (x - y * TicksPerUnit) <= TicksPerUnit}

Init ==
    /\ balance = Opening
    /\ ledger = Opening

Covers(units, amount) == units * TicksPerUnit >= amount

\* UPDATE and INSERT round separately: the new balance and the entry.
Post(u, units, amount) ==
    \E b \in Nearest(units * TicksPerUnit - amount), entry \in Nearest(amount) :
        /\ balance' = [balance EXCEPT ![u] = b]
        /\ ledger' = [ledger EXCEPT ![u] = @ - entry]

Charge(u, amount) ==
    /\ Covers(balance[u], amount)
    /\ Post(u, balance[u], amount)

Credit(u, units) ==
    /\ balance' = [balance EXCEPT ![u] = @ + units]
    /\ ledger' = [ledger EXCEPT ![u] = @ + units]

Next ==
    \E u \in Users :
        \/ \E amount \in Amounts : Charge(u, amount)
        \/ \E units \in Recharges : Credit(u, units)

Spec == Init /\ [][Next]_accountVars
============================================================================
