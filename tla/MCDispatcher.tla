---------------------------- MODULE MCDispatcher ----------------------------
(***************************************************************************)
(* Small instances of Dispatcher: a main channel, a backup of lower        *)
(* priority, and other channels as the run needs them.                     *)
(***************************************************************************)
EXTENDS Dispatcher

CONSTANTS main, backup, own, off, odd, r1, r2

MCInitialHealth == [ch \in Channels |-> IF ch = odd THEN 70 ELSE 100]
MCInitialState == [ch \in Channels |-> IF ch = off THEN "disabled" ELSE "active"]

\* Primary and backup of equal rank, and of different priority.
Pair == <<main, backup>>
MCSamePriority == [ch \in Channels |-> 1]
MCPriority == [ch \in Channels |-> IF ch = main THEN 1 ELSE 2]

MCTier == [r \in Requests |-> IF r = r1 THEN "flagship" ELSE "standard"]
MCTierAllowed == [ch \in Channels |-> IF ch = own THEN "flagship" ELSE "all"]

\* A customer of each tier shares the main channel; one channel is the flagship
\* customer's own, one is disabled, one has a provider without an adapter.
Mixed == <<off, main, own, odd>>
Ladder == <<off, main, backup, odd>>
MCSupported == Channels \ {odd}

\* Bound: a client leaves while its request is in flight, and is followed until
\* the attempt is reported (MCGateway, with one request, has no such bound).
ClientsStay == \A r \in Requests : gone[r] => pc[r] = "inflight"

\* The handlers keep receiving requests.
BusySpec == FairSpec /\ \A r \in Requests : WF_vars(Begin(r))
=============================================================================
