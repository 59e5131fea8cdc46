------------------------------- MODULE Billing -------------------------------
(***************************************************************************)
(* The wallets with the webhook that fills them (internal/api/             *)
(* v1_billing.go).  Stripe is external: it delivers the event of a payment *)
(* until it is answered with 200, and now and then once more.              *)
(*                                                                         *)
(* Of one delivery only the COMMIT is seen by anybody else, so a delivery  *)
(* is one step: nothing, or Wallet's Recharge, and an answer that arrives  *)
(* or is lost.                                                             *)
(***************************************************************************)
EXTENDS Wallet

CONSTANTS
    Payments,  \* completed checkouts, one event each
    Payer,     \* the user in the event's metadata; 0, no user, if it cannot be read
    Price      \* its amount, in units

ASSUME BillingAssumption == Price \in [Payments -> Recharges]

VARIABLES
    credited,     \* history: how often a payment was credited
    acknowledged  \* payments answered with 200

stripeVars == <<credited, acknowledged>>
billingVars == <<vars, stripeVars>>

BillingInit ==
    /\ Init
    /\ credited = [e \in Payments |-> 0]
    /\ acknowledged = {}

\* No wallet for the user in the event, or PostgreSQL fails: 500, or no answer.
AnsweredAnyway(e) == acknowledged \cup {e}
AfterError(e) == acknowledged

DeliveryFails(e) ==
    /\ Payer[e] \notin Users \/ Faulty
    /\ acknowledged' = AfterError(e)
    /\ UNCHANGED <<vars, credited>>

\* Credited, whether or not it was before: no id of the event is kept.  The
\* answer of the commit, or the 200, may be lost.
Deliver(e) ==
    /\ Payer[e] \in Users
    /\ Recharge(Payer[e], Price[e])
    /\ credited' = [credited EXCEPT ![e] = @ + 1]
    /\ \/ acknowledged' = acknowledged \cup {e}
       \/ Faulty /\ UNCHANGED acknowledged

Requests(c) ==
    \/ Begin(c) \/ Run(c) \/ Acquire(c)
    \/ CommitUnreported(c) \/ Abandon(c)

BillingNext ==
    \/ /\ \/ \E c \in Callers : Requests(c)
          \/ \E u \in Users : Age(u) \/ Expire(u)
       /\ UNCHANGED stripeVars
    \/ \E e \in Payments : DeliveryFails(e) \/ Deliver(e)

BillingSpec == BillingInit /\ [][BillingNext]_billingVars

----------------------------------------------------------------------------
\* No payment is lost: once Stripe was told 200 and stops, the payment is in the
\* wallet, whatever failed at earlier deliveries.  (It may be there more than
\* once, if an answer got lost.)
AcknowledgedIsCredited ==
    /\ acknowledged \subseteq Payments
    /\ \A e \in acknowledged : credited[e] >= 1
=============================================================================
