------------------------------ MODULE Failover ------------------------------
(***************************************************************************)
(* What the dispatcher promises the handler of a request, whatever the     *)
(* health scores say: the request is out at one channel at a time, never   *)
(* twice at the same one, at most MaxRetries + 1 times in all; it goes to  *)
(* another channel only after the last one failed it; it is served exactly *)
(* when the channel it is out at answers it.                               *)
(***************************************************************************)
EXTENDS Integers, FiniteSets

CONSTANTS Requests, Channels, MaxRetries, Nowhere

VARIABLES
    called,   \* the channels the running request was sent to
    outAt,    \* the channel that has it now, or Nowhere
    verdict   \* "idle", "running", "served" or "failed"

failoverVars == <<called, outAt, verdict>>

Init ==
    /\ called = [r \in Requests |-> {}]
    /\ outAt = [r \in Requests |-> Nowhere]
    /\ verdict = [r \in Requests |-> "idle"]

New(r) ==
    /\ verdict[r] # "running"
    /\ verdict' = [verdict EXCEPT ![r] = "running"]
    /\ UNCHANGED <<called, outAt>>

Call(r, ch) ==
    /\ verdict[r] = "running" /\ outAt[r] = Nowhere
    /\ ch \notin called[r] /\ Cardinality(called[r]) <= MaxRetries
    /\ called' = [called EXCEPT ![r] = @ \cup {ch}]
    /\ outAt' = [outAt EXCEPT ![r] = ch]
    /\ UNCHANGED verdict

\* The call failed and another channel may be asked.
Fail(r) ==
    /\ outAt[r] # Nowhere
    /\ outAt' = [outAt EXCEPT ![r] = Nowhere]
    /\ UNCHANGED <<called, verdict>>

End(r, result) ==
    /\ verdict[r] = "running"
    /\ result = "served" => outAt[r] # Nowhere
    /\ verdict' = [verdict EXCEPT ![r] = result]
    /\ called' = [called EXCEPT ![r] = {}]
    /\ outAt' = [outAt EXCEPT ![r] = Nowhere]

Next ==
    \E r \in Requests :
        \/ New(r)
        \/ \E ch \in Channels : Call(r, ch)
        \/ Fail(r)
        \/ \E result \in {"served", "failed"} : End(r, result)

Spec == Init /\ [][Next]_failoverVars
=============================================================================
