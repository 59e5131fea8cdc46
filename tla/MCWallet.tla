------------------------------ MODULE MCWallet ------------------------------
(***************************************************************************)
(* Billing with every caller serving the same user, since wallets do not   *)
(* interact and callers of one wallet do, and with a payment of that user  *)
(* and one whose event names nobody.                                       *)
(*                                                                         *)
(* MaxCharges bounds the charges a run starts, MaxCredits how often the    *)
(* payment is credited.                                                    *)
(***************************************************************************)
EXTENDS Billing

CONSTANTS c1, c2, u1, paid, astray, MaxCharges, MaxCredits

MCUserOf == [c \in Callers |-> u1]
MCOpening == [u \in Users |-> 1]
MCPayer == [e \in Payments |-> IF e = astray THEN 0 ELSE u1]
MCPrice == [e \in Payments |-> 1]

MCServe(c) == charges[UserOf[c]] < MaxCharges /\ Serve(c)

MCRequests(c) ==
    \/ Begin(c) \/ Hit(c) \/ Miss(c) \/ Query(c) \/ Fill(c)
    \/ MCServe(c) \/ ServeUnbilled(c) \/ Lock(c) \/ Insufficient(c)
    \/ Commit(c) \/ CommitUnreported(c) \/ Invalidate(c) \/ Abandon(c)

MCNext ==
    \/ /\ \/ \E c \in Callers : MCRequests(c)
          \/ \E u \in Users : Age(u) \/ Expire(u)
       /\ UNCHANGED stripeVars
    \/ \E e \in Payments :
          \/ DeliveryFails(e)
          \/ credited[e] < MaxCredits /\ Deliver(e)

MCSpec == BillingInit /\ [][MCNext]_billingVars

MCFairSpec == MCSpec /\ Fairness
=============================================================================
