----------------------------- MODULE Dispatcher -----------------------------
(***************************************************************************)
(* Dispatcher.Do (internal/upstream/dispatcher.go): select a channel, send *)
(* the request, report the outcome, fail over.  Every element of Requests  *)
(* is a handler goroutine that runs one Do after another, for a customer   *)
(* of one tier and for one logical model.                                  *)
(*                                                                         *)
(* GetBestChannel takes the read lock of one channel at a time, so each    *)
(* channel it looks at is a step of its own and reports of other requests  *)
(* come in between.  The upstream service is external: it may answer with  *)
(* anything, at any time or never; the client's 60 s timeout ends the wait.*)
(***************************************************************************)
EXTENDS HealthManager

CONSTANTS
    Requests,      \* the handlers that run at the same time
    Tier,          \* user_tier of the customer behind each of them
    ChannelList,   \* RequestContext.Channels, in the order of the mapping rows
    Priority,      \* column priority; lower is better
    TierAllowed,   \* column customer_tier_allowed; a tier or "all"
    Supported,     \* channels whose provider factory.GetAdapter knows
    MaxRetries,    \* 2 in every handler
    None           \* no channel

ASSUME DispatcherAssumption ==
    /\ IsFiniteSet(Requests)
    /\ ChannelList \in Seq(Channels)
    /\ Priority \in [Channels -> Int]
    /\ Supported \subseteq Channels
    /\ {"fast", "stalled"} \subseteq Latencies
    /\ MaxRetries \in Nat
    /\ None \notin Channels

\* nil is no candidate of a scan either.
ASSUME NoneAssumption == None \notin [ch : Channels, health : 0..100]

VARIABLES
    pc,        \* "idle", "scan" inside GetBestChannel, "inflight" inside client.Do
    seen,      \* what the scan read so far: a score per channel, or Skipped
    best,      \* best and bestHealth of the scan, or None
    attempts,  \* the channels in triedChannels, in order, with their outcomes
    reply,     \* what Do returned to the handler
    gone       \* the client closed the connection: ctx is cancelled

callVars == <<pc, seen, best, attempts, reply, gone>>
vars == <<healthVars, callVars>>

Skipped == -1
Outcomes == {"pending", "status", "error", "unsupported"}
Replies == {"none", "served", "status", "error", "all_failed"}

Target(r) == attempts[r][Len(attempts[r])].ch
Tried(r) == {attempts[r][i].ch : i \in DOMAIN attempts[r]}

----------------------------------------------------------------------------
(***************************************************************************)
(* GetBestChannel.                                                         *)
(***************************************************************************)
AllowedAnyTier(r, ch) == TRUE
Allowed(r, ch) == TierAllowed[ch] \in {"all", Tier[r]}

UsableIfOpenOnly(r, ch) == Allowed(r, ch) /\ state[ch] # "circuit_open"
UsableIfEnabled(r, ch) == Allowed(r, ch) /\ state[ch] # "disabled"
Usable(r, ch) == Allowed(r, ch) /\ state[ch] \notin {"circuit_open", "disabled"}

TierMatch(r, ch) == TierAllowed[ch] = Tier[r]

BetterByHealthOnly(r, new, old) == new.health > old.health

Better(r, new, old) ==
    \/ TierMatch(r, new.ch) /\ ~TierMatch(r, old.ch)
    \/ /\ TierMatch(r, new.ch) = TierMatch(r, old.ch)
       /\ \/ Priority[new.ch] < Priority[old.ch]
          \/ Priority[new.ch] = Priority[old.ch] /\ new.health > old.health

Scan(r) ==
    /\ pc[r] = "scan" /\ Len(seen[r]) < Len(ChannelList)
    /\ LET ch == ChannelList[Len(seen[r]) + 1]
           new == [ch |-> ch, health |-> healthScore[ch]]
       IN  /\ seen' = [seen EXCEPT ![r] =
                         Append(@, IF Usable(r, ch) THEN healthScore[ch] ELSE Skipped)]
           /\ best' = IF Usable(r, ch) /\ (best[r] = None \/ Better(r, new, best[r]))
                      THEN [best EXCEPT ![r] = new] ELSE best
    /\ UNCHANGED <<healthVars, pc, attempts, reply, gone>>

----------------------------------------------------------------------------
(***************************************************************************)
(* The loop of Do.                                                         *)
(***************************************************************************)
Scanned(r) == pc[r] = "scan" /\ Len(seen[r]) = Len(ChannelList)

\* The best channel again, or none at all: the loop ends.
ExhaustedIfNone(r) == best[r] = None
Exhausted(r) == best[r] # None => best[r].ch \in Tried(r)

\* i < MaxRetries, with i the index of the last attempt.
MayRetry(n) == n <= MaxRetries

NextScan(r) ==
    /\ seen' = [seen EXCEPT ![r] = <<>>]
    /\ best' = [best EXCEPT ![r] = None]

FinishKeepsAttempts(r, result) ==
    /\ pc' = [pc EXCEPT ![r] = "idle"]
    /\ reply' = [reply EXCEPT ![r] = result]
    /\ gone' = [gone EXCEPT ![r] = FALSE]
    /\ NextScan(r)
    /\ UNCHANGED attempts

\* Do returns: its locals and the request's context go with it.
Finish(r, result) ==
    /\ pc' = [pc EXCEPT ![r] = "idle"]
    /\ reply' = [reply EXCEPT ![r] = result]
    /\ attempts' = [attempts EXCEPT ![r] = <<>>]
    /\ gone' = [gone EXCEPT ![r] = FALSE]
    /\ NextScan(r)

Begin(r) ==
    /\ pc[r] = "idle"
    /\ pc' = [pc EXCEPT ![r] = "scan"]
    /\ reply' = [reply EXCEPT ![r] = "none"]
    /\ UNCHANGED <<healthVars, seen, best, attempts, gone>>

NoChannel(r) ==
    /\ Scanned(r) /\ Exhausted(r)
    /\ Finish(r, "all_failed")
    /\ UNCHANGED healthVars

\* GetAdapter does not know the provider: the channel counts as tried, its
\* health is not touched.
NoAdapter(r) ==
    /\ Scanned(r) /\ ~Exhausted(r) /\ best[r].ch \notin Supported
    /\ IF MayRetry(Len(attempts[r]) + 1)
       THEN /\ attempts' = [attempts EXCEPT ![r] =
                               Append(@, [ch |-> best[r].ch, outcome |-> "unsupported"])]
            /\ NextScan(r)
            /\ UNCHANGED <<pc, reply, gone>>
       ELSE Finish(r, "all_failed")
    /\ UNCHANGED healthVars

Send(r) ==
    /\ Scanned(r) /\ ~Exhausted(r) /\ best[r].ch \in Supported
    /\ attempts' = [attempts EXCEPT ![r] =
                        Append(@, [ch |-> best[r].ch, outcome |-> "pending"])]
    /\ pc' = [pc EXCEPT ![r] = "inflight"]
    /\ NextScan(r)
    /\ UNCHANGED <<healthVars, reply, gone>>

\* executeRequest returns: isSuccess, UpdateScore, and the failover decision.
Return(r, outcome, latency) ==
    /\ pc[r] = "inflight"
    /\ UpdateScore(Target(r), outcome = "served", latency)
    /\ IF outcome # "served" /\ MayRetry(Len(attempts[r]))
       THEN /\ attempts' = [attempts EXCEPT ![r][Len(attempts[r])].outcome = outcome]
            /\ pc' = [pc EXCEPT ![r] = "scan"]
            /\ UNCHANGED <<seen, best, reply, gone>>
       ELSE Finish(r, outcome)

\* "served" is any answer below 500 except 429, "status" the others, "error" a
\* transport error or a request that could not be built.
Answer(r) ==
    \E outcome \in {"served", "status", "error"}, latency \in Latencies :
        Return(r, outcome, latency)

TimeoutIfGone(r) == gone[r] /\ Return(r, "error", "stalled")
Timeout(r) == Return(r, "error", "stalled")

ClientGone(r) ==
    /\ pc[r] # "idle" /\ ~gone[r]
    /\ gone' = [gone EXCEPT ![r] = TRUE]
    /\ UNCHANGED <<healthVars, pc, seen, best, attempts, reply>>

\* The cancelled context makes client.Do return an error at once.
Aborted(r) == gone[r] /\ Return(r, "error", "fast")

Init ==
    /\ HealthInit
    /\ pc = [r \in Requests |-> "idle"]
    /\ seen = [r \in Requests |-> <<>>]
    /\ best = [r \in Requests |-> None]
    /\ attempts = [r \in Requests |-> <<>>]
    /\ reply = [r \in Requests |-> "none"]
    /\ gone = [r \in Requests |-> FALSE]

Clock(ch) == TimePasses(ch) /\ UNCHANGED callVars

Local(r) == Scan(r) \/ NoChannel(r) \/ NoAdapter(r) \/ Send(r)

Next ==
    \/ \E r \in Requests :
          \/ Begin(r) \/ Scan(r) \/ NoChannel(r) \/ NoAdapter(r) \/ Send(r)
          \/ Answer(r) \/ Timeout(r) \/ ClientGone(r) \/ Aborted(r)
    \/ \E ch \in Channels : Clock(ch)

Spec == Init /\ [][Next]_vars

\* A goroutine that can run does run, and the 60 s timeout of the HTTP client
\* ends every call that is not answered.  Nothing is assumed of the upstream.
Fairness == \A r \in Requests : WF_vars(Local(r)) /\ WF_vars(Timeout(r))

FairSpec == Spec /\ Fairness

----------------------------------------------------------------------------
\* Every variable keeps its type, and the control points agree: only a request
\* in flight has a pending attempt, and only its last one.
TypeOK ==
    /\ HealthTypeOK
    /\ pc \in [Requests -> {"idle", "scan", "inflight"}]
    /\ seen \in [Requests -> Seq({Skipped} \cup 0..100)]
    /\ best \in [Requests -> {None} \cup [ch : Channels, health : 0..100]]
    /\ attempts \in [Requests -> Seq([ch : Channels, outcome : Outcomes])]
    /\ reply \in [Requests -> Replies]
    /\ gone \in [Requests -> BOOLEAN]
    /\ \A r \in Requests :
          /\ Len(seen[r]) <= Len(ChannelList)
          /\ \A i \in DOMAIN attempts[r] : attempts[r][i].outcome = "pending" <=>
                pc[r] = "inflight" /\ i = Len(attempts[r])

\* Independent statement of what GetBestChannel returns: of the channels it
\* found usable those that are exclusive to the tier if there are any, of these
\* the lowest priority number, of these the highest score, of these the first.
Optimum(r) ==
    LET usable == {i \in DOMAIN seen[r] : seen[r][i] # Skipped}
        ch(i) == ChannelList[i]
        exclusive == {i \in usable : TierMatch(r, ch(i))}
        tier == IF exclusive # {} THEN exclusive ELSE usable
        prio == {i \in tier : \A j \in tier : Priority[ch(i)] <= Priority[ch(j)]}
        top == {i \in prio : \A j \in prio : seen[r][i] >= seen[r][j]}
    IN  {i \in top : \A j \in top : i <= j}

\* The single pass of GetBestChannel, with its four running variables, keeps the
\* lexicographic optimum of what it has read so far, also when reports of other
\* requests change scores and states between two channels.
SelectsBest ==
    \A r \in Requests : pc[r] = "scan" =>
        IF best[r] = None THEN Optimum(r) = {}
        ELSE \E i \in Optimum(r) : best[r] = [ch |-> ChannelList[i], health |-> seen[r][i]]

\* The breaker contains a failing channel: after the third failure in a row only
\* the requests that had already picked the channel can still add to the count,
\* so it never exceeds 2 plus the number of requests running at the same time.
BreakerContains ==
    \A ch \in Channels : failureCount[ch] <= 2 + Cardinality(Requests)

\* What is out of bounds stays so, whatever fails, however the attempts interleave
\* and however late a report comes: no request is sent to a channel reserved for
\* another tier, and none to a disabled one, which nothing revives (the states are
\* loaded once, at start-up).
OutOfBounds ==
    \A ch \in Channels :
        /\ InitialState[ch] = "disabled" => state[ch] = "disabled" /\ window[ch] = <<>>
        /\ \A r \in Requests : ch \in Tried(r) =>
              InitialState[ch] # "disabled" /\ TierAllowed[ch] \in {"all", Tier[r]}

\* What a handler can tell of its call of Do: the channels asked so far, the one
\* that is being asked, and how the call ended.
CalledBy(tries) ==
    {tries[i].ch : i \in {j \in DOMAIN tries : tries[j].outcome # "unsupported"}}
Called == [r \in Requests |-> CalledBy(attempts[r])]
OutAt == [r \in Requests |-> IF pc[r] = "inflight" THEN Target(r) ELSE None]
Verdict == [r \in Requests |->
    IF pc[r] # "idle" THEN "running"
    ELSE IF reply[r] = "none" THEN "idle"
    ELSE IF reply[r] = "served" THEN "served" ELSE "failed"]

Promise == INSTANCE Failover WITH
    Nowhere <- None, called <- Called, outAt <- OutAt, verdict <- Verdict

\* Dispatcher.Do, with its scans and reports, implements the abstract failover
\* promise.
FailoverPromise == Promise!Spec

----------------------------------------------------------------------------
(***************************************************************************)
(* What the technical plan says, checked against what the code does.       *)
(***************************************************************************)

\* Failover tries the next best channel: a request is not given up, with
\* attempts left, when its last scan saw a usable channel it has not tried.
FailsOverToNextBest ==
    [][\A r \in Requests : NoChannel(r) /\ MayRetry(Len(attempts[r])) =>
            \A i \in DOMAIN seen[r] : seen[r][i] # Skipped => ChannelList[i] \in Tried(r)]_vars

\* An open circuit is tried again some day, by a request or a probe.
OpenCircuitIsProbed ==
    \A ch \in Channels : state[ch] = "circuit_open" ~>
        \/ state[ch] # "circuit_open"
        \/ \E r \in Requests : pc[r] = "inflight" /\ Target(r) = ch
=============================================================================
