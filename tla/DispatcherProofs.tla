-------------------------- MODULE DispatcherProofs --------------------------
(***************************************************************************)
(* Theorems about Dispatcher, for any channels, any requests that run at   *)
(* the same time, any mapping rows and any number of retries.              *)
(*                                                                         *)
(* What is said of a request (RInv) speaks of its own variables only, so a *)
(* step of one request disturbs it for that request alone; what is said of *)
(* a channel's health is proved in HealthProofs; the two meet in Contained,*)
(* which counts the requests that can still report to a channel.           *)
(***************************************************************************)
EXTENDS Dispatcher, HealthProofs, SequenceTheorems

USE DispatcherAssumption

Attempt == [ch : Channels, outcome : Outcomes]
Candidate == [ch : Channels, health : 0..100]

\* What a scan read at one place of the mapping rows.
Entry(reads, i) == [ch |-> ChannelList[i], health |-> reads[i]]

\* The pick is the first of those entries that no other entry beats.
FirstBest(r, reads, pick) ==
    IF pick = None THEN \A i \in 1..Len(reads) : reads[i] = Skipped
    ELSE \E i \in 1..Len(reads) :
            /\ reads[i] # Skipped /\ pick = Entry(reads, i)
            /\ \A j \in 1..Len(reads) : reads[j] # Skipped =>
                  /\ ~Better(r, Entry(reads, j), pick)
                  /\ j < i => Better(r, pick, Entry(reads, j))

\* A channel a request may be sent to.
Eligible(r, ch) == InitialState[ch] # "disabled" /\ Allowed(r, ch)

\* Only a request in flight has a pending attempt, and only its last one.
PendingLast(place, tries) ==
    \A i \in DOMAIN tries :
        tries[i].outcome = "pending" <=> place = "inflight" /\ i = Len(tries)

\* What holds of a request at a place of its loop, given what its scan has read, the
\* channel it would take and its attempts.
Sound(r, place, reads, pick, tries) ==
    /\ place # "scan" => reads = <<>> /\ pick = None
    /\ place = "idle" => tries = <<>>
    /\ place = "inflight" => tries # <<>>
    /\ Len(tries) <= MaxRetries + 1
    /\ place = "scan" => Len(tries) <= MaxRetries
    /\ pick # None => Eligible(r, pick.ch)
    /\ \A i \in 1..Len(tries) : Eligible(r, tries[i].ch)
    /\ FirstBest(r, reads, pick)

RInv(r) == Sound(r, pc[r], seen[r], best[r], attempts[r])

\* A channel nobody reported on is as the table left it; no report disables one or
\* revives one.
Fresh ==
    \A ch \in Channels :
        /\ window[ch] = <<>> => failureCount[ch] = 0
        /\ state[ch] = "disabled" <=> InitialState[ch] = "disabled"
        /\ InitialState[ch] = "disabled" => window[ch] = <<>>

\* The requests that have picked a channel and may still report to it.
Holds(place, pick, tries, ch) ==
    \/ place = "inflight" /\ tries[Len(tries)].ch = ch
    \/ place = "scan" /\ pick # None /\ pick.ch = ch
Engaged(ch) == {r \in Requests : Holds(pc[r], best[r], attempts[r], ch)}

\* While a circuit is open for its failures nobody picks the channel anew: every
\* further failure takes one of those who had.
Contained ==
    \A ch \in Channels : failureCount[ch] >= 3 =>
        failureCount[ch] + Cardinality(Engaged(ch)) <= 2 + Cardinality(Requests)

\* The inductive invariant.
IInv == HInv /\ TypeOK /\ (\A r \in Requests : RInv(r)) /\ Fresh /\ Contained
----------------------------------------------------------------------------
(***************************************************************************)
(* The order in which GetBestChannel prefers channels.                     *)
(***************************************************************************)
LEMMA BetterMeans ==
    ASSUME NEW r, NEW x, NEW y
    PROVE  Better(r, x, y) <=>
             \/ TierMatch(r, x.ch) /\ ~TierMatch(r, y.ch)
             \/ /\ TierMatch(r, x.ch) <=> TierMatch(r, y.ch)
                /\ \/ Priority[x.ch] < Priority[y.ch]
                   \/ Priority[x.ch] = Priority[y.ch] /\ x.health > y.health
<1>1. TierMatch(r, x.ch) \in BOOLEAN /\ TierMatch(r, y.ch) \in BOOLEAN
  BY DEF TierMatch
<1>2. TierMatch(r, x.ch) = TierMatch(r, y.ch) <=> (TierMatch(r, x.ch) <=> TierMatch(r, y.ch))
  BY <1>1
<1> QED
  BY <1>2 DEF Better

\* A score is a number that can be compared.
LEMMA ScoreIsInt == \A n \in 0..100 : n \in Int
OBVIOUS

\* What a comparison of GetBestChannel looks at is a number for every candidate.
LEMMA CandidateType ==
    ASSUME NEW x \in Candidate
    PROVE  x.ch \in Channels /\ Priority[x.ch] \in Int /\ x.health \in Int
<1>1. x.ch \in Channels /\ x.health \in 0..100
  BY DEF Candidate
<1>2. Priority[x.ch] \in Int
  BY <1>1
<1>3. x.health \in Int
  BY <1>1, ScoreIsInt, Zenon
<1> QED
  BY <1>1, <1>2, <1>3

\* Of two candidates at most one beats the other.
LEMMA BetterAsymmetric ==
    ASSUME NEW r, NEW x \in Candidate, NEW y \in Candidate, Better(r, x, y)
    PROVE  ~Better(r, y, x)
<1>1. /\ Priority[x.ch] \in Int /\ Priority[y.ch] \in Int
      /\ x.health \in Int /\ y.health \in Int
  BY CandidateType
<1> QED
  BY <1>1, BetterMeans

\* Who beats the best beats whatever does not beat the best.
LEMMA BetterThanRest ==
    ASSUME NEW r, NEW x \in Candidate, NEW y \in Candidate, NEW z \in Candidate,
           Better(r, z, x), ~Better(r, y, x)
    PROVE  Better(r, z, y)
<1>1. /\ Priority[x.ch] \in Int /\ Priority[y.ch] \in Int /\ Priority[z.ch] \in Int
      /\ x.health \in Int /\ y.health \in Int /\ z.health \in Int
  BY CandidateType
<1>2. /\ TierMatch(r, x.ch) \in BOOLEAN /\ TierMatch(r, y.ch) \in BOOLEAN
      /\ TierMatch(r, z.ch) \in BOOLEAN
  BY DEF TierMatch
<1> QED
  BY <1>1, <1>2, BetterMeans

----------------------------------------------------------------------------
(***************************************************************************)
(* The first channel that no other beats is the lexicographic optimum.     *)
(***************************************************************************)
Reads == Seq({Skipped} \cup 0..100)

\* What a scan read of a channel it did not skip is a candidate.
LEMMA EntryType ==
    ASSUME NEW reads \in Reads, Len(reads) <= Len(ChannelList),
           NEW i \in 1..Len(reads), reads[i] # Skipped
    PROVE  Entry(reads, i) \in Candidate /\ ChannelList[i] \in Channels /\ reads[i] \in 0..100
<1>1. reads[i] \in 0..100
  <2>1. reads[i] \in {Skipped} \cup 0..100
    BY ElementOfSeq DEF Reads
  <2> QED
    BY <2>1
<1>2. ChannelList[i] \in Channels
  BY DEF Reads
<1> QED
  BY <1>1, <1>2 DEF Entry, Candidate

\* The candidate a full scan has kept is one no other beats, and there is none only
\* where no channel was usable when it was read: what SelectsBest says of its pick.
LEMMA FirstBestIsOptimum ==
    ASSUME TypeOK, NEW r \in Requests, FirstBest(r, seen[r], best[r])
    PROVE  IF best[r] = None THEN Optimum(r) = {}
           ELSE \E i \in Optimum(r) : best[r] = Entry(seen[r], i)
<1> DEFINE usable == {i \in DOMAIN seen[r] : seen[r][i] # Skipped}
           ch(i) == ChannelList[i]
           exclusive == {i \in usable : TierMatch(r, ch(i))}
           tier == IF exclusive # {} THEN exclusive ELSE usable
           prio == {i \in tier : \A j \in tier : Priority[ch(i)] <= Priority[ch(j)]}
           top == {i \in prio : \A j \in prio : seen[r][i] >= seen[r][j]}
           first == {i \in top : \A j \in top : i <= j}
<1>1. Optimum(r) = first
  BY DEF Optimum
<1>2. /\ DOMAIN seen[r] = 1..Len(seen[r])
      /\ seen[r] \in Reads /\ Len(seen[r]) <= Len(ChannelList)
  BY DEF TypeOK, Reads
<1>3. \A i \in usable : i \in 1..Len(seen[r]) /\ seen[r][i] # Skipped
  BY <1>2
<1>4. /\ \A i \in tier : i \in usable
      /\ \A i \in prio : i \in tier
      /\ \A i \in top : i \in prio
      /\ \A i \in first : i \in top
  OBVIOUS
<1>5. CASE best[r] = None
  <2>1. usable = {}
    BY <1>2, <1>5 DEF FirstBest
  <2>2. first = {}
    BY <1>4, <2>1
  <2> QED
    BY <1>1, <1>5, <2>2
<1>6. CASE best[r] # None
  <2>1. PICK i \in 1..Len(seen[r]) :
            /\ seen[r][i] # Skipped /\ best[r] = Entry(seen[r], i)
            /\ \A j \in 1..Len(seen[r]) : seen[r][j] # Skipped =>
                  /\ ~Better(r, Entry(seen[r], j), best[r])
                  /\ j < i => Better(r, best[r], Entry(seen[r], j))
    BY <1>6 DEF FirstBest
  <2>2. \A j \in usable : /\ ~Better(r, Entry(seen[r], j), Entry(seen[r], i))
                          /\ j < i => Better(r, Entry(seen[r], i), Entry(seen[r], j))
    BY <1>3, <2>1
  <2>3. \A j \in usable : /\ Entry(seen[r], j).ch = ch(j) /\ Entry(seen[r], j).health = seen[r][j]
                          /\ Priority[ch(j)] \in Int /\ seen[r][j] \in Int
    <3> SUFFICES ASSUME NEW j \in usable
                 PROVE  /\ Entry(seen[r], j).ch = ch(j) /\ Entry(seen[r], j).health = seen[r][j]
                        /\ Priority[ch(j)] \in Int /\ seen[r][j] \in Int
      OBVIOUS
    <3>1. ChannelList[j] \in Channels /\ seen[r][j] \in 0..100
      BY <1>2, <1>3, EntryType
    <3>2. Priority[ch(j)] \in Int
      BY <3>1
    <3>3. seen[r][j] \in Int
      BY <3>1, ScoreIsInt, Zenon
    <3> QED
      BY <3>2, <3>3 DEF Entry
  <2>4. i \in usable
    BY <1>2, <2>1
  <2> HIDE DEF usable
  <2>5. i \in tier /\ \A j \in tier : TierMatch(r, ch(i)) <=> TierMatch(r, ch(j))
    <3>1. CASE exclusive = {}
      BY <2>4, <3>1
    <3>2. CASE exclusive # {}
      <4>1. PICK j \in exclusive : TRUE
        BY <3>2
      <4>2. TierMatch(r, ch(i))
        BY <2>2, <2>3, <2>4, <4>1, BetterMeans
      <4> QED
        BY <2>4, <3>2, <4>2
    <3> QED
      BY <3>1, <3>2
  <2> HIDE DEF tier
  <2>6. \A j \in tier : Priority[ch(i)] <= Priority[ch(j)]
    <3> SUFFICES ASSUME NEW j \in tier PROVE Priority[ch(i)] <= Priority[ch(j)]
      OBVIOUS
    <3>1. j \in usable /\ (TierMatch(r, ch(i)) <=> TierMatch(r, ch(j)))
      BY <1>4, <2>5
    <3>2. ~(Priority[ch(j)] < Priority[ch(i)])
      BY <2>2, <2>3, <2>4, <3>1, BetterMeans
    <3> QED
      BY <2>3, <2>4, <3>1, <3>2
  <2>7. i \in prio /\ \A j \in prio : Priority[ch(j)] = Priority[ch(i)]
    BY <1>4, <2>3, <2>4, <2>5, <2>6
  <2> HIDE DEF prio
  <2>8. \A j \in prio : seen[r][i] >= seen[r][j]
    BY <1>4, <2>2, <2>3, <2>4, <2>5, <2>7, BetterMeans
  <2>9. i \in top /\ \A j \in top : seen[r][j] >= seen[r][i]
    BY <2>7, <2>8
  <2> HIDE DEF top
  <2>10. ASSUME NEW j \in top PROVE i <= j
    <3>1. j \in usable /\ j \in tier /\ j \in prio
      BY <1>4
    <3>2. i \in Int /\ j \in Int
      BY <1>3, <2>4, <3>1
    <3>3. ~Better(r, Entry(seen[r], i), Entry(seen[r], j))
      BY <2>3, <2>4, <2>5, <2>7, <2>9, <3>1, BetterMeans
    <3> QED
      BY <2>2, <3>1, <3>2, <3>3
  <2>11. i \in first
    BY <2>9, <2>10
  <2> QED
    BY <1>1, <1>6, <2>1, <2>11
<1> QED
  BY <1>5, <1>6
----------------------------------------------------------------------------
(***************************************************************************)
(* One request at a time.                                                  *)
(***************************************************************************)

\* A candidate nobody beats, and that beats all before it, is the one a scan keeps.
LEMMA FirstBestAt ==
    ASSUME NEW r, NEW reads, NEW i \in 1..Len(reads), reads[i] # Skipped,
           NEW pick, pick # None, pick = Entry(reads, i),
           \A j \in 1..Len(reads) : reads[j] # Skipped =>
              /\ ~Better(r, Entry(reads, j), pick)
              /\ j < i => Better(r, pick, Entry(reads, j))
    PROVE  FirstBest(r, reads, pick)
BY DEF FirstBest

\* Reading one more channel: the single pass keeps the first of the best.
LEMMA FirstBestExtends ==
    ASSUME NEW r, NEW reads \in Reads, Len(reads) < Len(ChannelList),
           NEW pick \in {None} \cup Candidate, FirstBest(r, reads, pick),
           NEW h \in {Skipped} \cup 0..100,
           NEW new,
           h # Skipped => new = [ch |-> ChannelList[Len(reads) + 1], health |-> h],
           NEW next, next = IF h # Skipped /\ (pick = None \/ Better(r, new, pick))
                            THEN new ELSE pick
    PROVE  FirstBest(r, Append(reads, h), next)
<1> DEFINE n == Len(reads) + 1
           more == Append(reads, h)
<1> SUFFICES FirstBest(r, more, next)
  OBVIOUS
<1>1. /\ more \in Reads /\ Len(more) = n /\ n \in Nat /\ n <= Len(ChannelList)
      /\ n \in 1..n /\ more[n] = h
      /\ \A i \in 1..Len(reads) : more[i] = reads[i] /\ i \in 1..n /\ i < n
      /\ \A i \in 1..n : i \in 1..Len(reads) \/ i = n
  BY DEF Reads
<1>2. /\ h # Skipped => Entry(more, n) = new
      /\ \A i \in 1..Len(reads) : Entry(more, i) = Entry(reads, i)
  BY <1>1 DEF Entry
<1> HIDE DEF more
<1>3. \A i \in 1..n : more[i] # Skipped => Entry(more, i) \in Candidate
  BY <1>1, EntryType
<1>4. None \notin Candidate
  BY NoneAssumption DEF Candidate
<1>5. CASE pick = None
  <2>1. \A i \in 1..Len(reads) : more[i] = Skipped
    BY <1>1, <1>5 DEF FirstBest
  <2>2. CASE h = Skipped
    BY <1>1, <1>5, <2>1, <2>2 DEF FirstBest
  <2>3. CASE h # Skipped
    <3>1. next = new /\ new \in Candidate /\ more[n] # Skipped
      BY <1>1, <1>2, <1>3, <1>5, <2>3
    <3>2. ~Better(r, new, new)
      BY <3>1, BetterAsymmetric
    <3>3. \A j \in 1..n : more[j] # Skipped => j = n
      BY <1>1, <2>1
    <3>4. \A j \in 1..n : more[j] # Skipped =>
            ~Better(r, Entry(more, j), new) /\ (j < n => Better(r, new, Entry(more, j)))
      BY <1>1, <1>2, <3>2, <3>3
    <3>5. FirstBest(r, more, new)
      BY <1>1, <1>2, <1>4, <3>1, <3>4, FirstBestAt
    <3> QED
      BY <3>1, <3>5
  <2> QED
    BY <2>2, <2>3
<1>6. CASE pick # None
  <2>1. PICK i \in 1..Len(reads) :
            /\ reads[i] # Skipped /\ pick = Entry(reads, i)
            /\ \A j \in 1..Len(reads) : reads[j] # Skipped =>
                  /\ ~Better(r, Entry(reads, j), pick)
                  /\ j < i => Better(r, pick, Entry(reads, j))
    BY <1>6 DEF FirstBest
  <2>2. pick \in Candidate
    BY <1>6
  <2>3. CASE h # Skipped /\ Better(r, new, pick)
    <3>1. next = new /\ new \in Candidate /\ more[n] # Skipped
      BY <1>1, <1>2, <1>3, <2>3
    <3>2. ~Better(r, new, new)
      BY <3>1, BetterAsymmetric
    <3>3. ASSUME NEW j \in 1..Len(reads), more[j] # Skipped
          PROVE  ~Better(r, Entry(more, j), new) /\ Better(r, new, Entry(more, j))
      <4>1. Entry(more, j) \in Candidate /\ ~Better(r, Entry(more, j), pick)
        BY <1>1, <1>2, <1>3, <2>1, <3>3
      <4>2. Better(r, new, Entry(more, j))
        BY <2>2, <2>3, <3>1, <4>1, BetterThanRest
      <4> QED
        BY <3>1, <4>1, <4>2, BetterAsymmetric
    <3>4. \A j \in 1..n : more[j] # Skipped =>
            ~Better(r, Entry(more, j), new) /\ (j < n => Better(r, new, Entry(more, j)))
      BY <1>1, <1>2, <3>2, <3>3
    <3>5. FirstBest(r, more, new)
      BY <1>1, <1>2, <1>4, <3>1, <3>4, FirstBestAt
    <3> QED
      BY <3>1, <3>5
  <2>4. CASE ~(h # Skipped /\ Better(r, new, pick))
    <3>1. next = pick /\ i \in 1..n /\ more[i] # Skipped /\ pick = Entry(more, i)
      BY <1>1, <1>2, <1>6, <2>1, <2>4
    <3>2. ASSUME NEW j \in 1..n, more[j] # Skipped
          PROVE  /\ ~Better(r, Entry(more, j), pick)
                 /\ j < i => Better(r, pick, Entry(more, j))
      <4>1. CASE j \in 1..Len(reads)
        BY <1>1, <1>2, <2>1, <3>2, <4>1
      <4>2. CASE j = n
        BY <1>1, <1>2, <2>4, <3>2, <4>2
      <4> QED
        BY <1>1, <4>1, <4>2
    <3>3. FirstBest(r, more, pick)
      BY <1>1, <1>6, <3>1, <3>2, FirstBestAt
    <3> QED
      BY <3>1, <3>3
  <2> QED
    BY <2>3, <2>4
<1> QED
  BY <1>5, <1>6

Attempts == Seq(Attempt)
Picks == {None} \cup Candidate

\* The variables of the requests have their types, one by one.
CallTypes ==
    /\ pc \in [Requests -> {"idle", "scan", "inflight"}] /\ seen \in [Requests -> Reads]
    /\ best \in [Requests -> Picks] /\ attempts \in [Requests -> Attempts]
    /\ reply \in [Requests -> Replies] /\ gone \in [Requests -> BOOLEAN]

\* A step changes the variables of one request.
Touches(r) ==
    \A s \in Requests : s # r =>
        /\ pc'[s] = pc[s] /\ seen'[s] = seen[s]
        /\ best'[s] = best[s] /\ attempts'[s] = attempts[s]

\* It keeps the types and what holds of every request, if it does so for that one,
\* and it engages no other request.
LEMMA RequestStep ==
    ASSUME TypeOK, HealthTypeOK', \A s \in Requests : RInv(s), NEW r \in Requests,
           CallTypes', Touches(r), Len(seen[r])' <= Len(ChannelList),
           PendingLast(pc[r], attempts[r])', RInv(r)'
    PROVE  /\ TypeOK'
           /\ \A s \in Requests : RInv(s)'
           /\ \A ch \in Channels, s \in Requests : s # r =>
                (s \in Engaged(ch)' <=> s \in Engaged(ch))
<1>1. TypeOK'
  <2>1. ASSUME NEW s \in Requests
        PROVE  Len(seen'[s]) <= Len(ChannelList) /\ PendingLast(pc'[s], attempts'[s])
    <3>1. CASE s = r
      BY <3>1
    <3>2. CASE s # r
      BY <3>2 DEF TypeOK, PendingLast, Touches
    <3> QED
      BY <3>1, <3>2
  <2> QED
    BY <2>1 DEF TypeOK, CallTypes, Reads, Picks, Candidate, Attempts, Attempt, PendingLast
<1>2. ASSUME NEW s \in Requests PROVE RInv(s)'
  <2>1. CASE s = r
    BY <2>1
  <2>2. CASE s # r
    BY <2>2 DEF RInv, Touches
  <2> QED
    BY <2>1, <2>2
<1>3. ASSUME NEW ch \in Channels, NEW s \in Requests, s # r
      PROVE  s \in Engaged(ch)' <=> s \in Engaged(ch)
  BY <1>3 DEF Engaged, Touches
<1> QED
  BY <1>1, <1>2, <1>3

\* Do returns: the request is at rest and engaged nowhere.
LEMMA FinishStep ==
    ASSUME TypeOK, CallTypes, HealthTypeOK', \A s \in Requests : RInv(s), NEW r \in Requests,
           NEW result \in Replies, Finish(r, result)
    PROVE  /\ TypeOK'
           /\ \A s \in Requests : RInv(s)'
           /\ \A ch \in Channels : Engaged(ch)' \subseteq Engaged(ch) \ {r}
<1>1. /\ pc' = [pc EXCEPT ![r] = "idle"] /\ seen' = [seen EXCEPT ![r] = <<>>]
      /\ best' = [best EXCEPT ![r] = None] /\ attempts' = [attempts EXCEPT ![r] = <<>>]
      /\ reply' = [reply EXCEPT ![r] = result] /\ gone' = [gone EXCEPT ![r] = FALSE]
  BY DEF Finish, NextScan
<1>2. /\ <<>> \in Reads /\ <<>> \in Attempts /\ None \in Picks
      /\ Len(<<>>) = 0 /\ Len(ChannelList) \in Nat
  BY DEF Reads, Attempts, Picks
<1>3. CallTypes' /\ Touches(r)
  BY <1>1, <1>2 DEF CallTypes, Touches
<1>4. /\ pc'[r] = "idle" /\ seen'[r] = <<>> /\ best'[r] = None /\ attempts'[r] = <<>>
  BY <1>1 DEF CallTypes
<1>5. PendingLast(pc[r], attempts[r])'
  BY <1>4 DEF PendingLast
<1>6. RInv(r)'
  BY <1>2, <1>4 DEF RInv, Sound, FirstBest
<1>7. /\ TypeOK' /\ \A s \in Requests : RInv(s)'
      /\ \A ch \in Channels, s \in Requests : s # r =>
            (s \in Engaged(ch)' <=> s \in Engaged(ch))
  BY <1>2, <1>3, <1>4, <1>5, <1>6, RequestStep
<1>8. \A ch \in Channels : r \notin Engaged(ch)' /\ Engaged(ch)' \subseteq Requests
  BY <1>4 DEF Engaged, Holds
<1> QED
  BY <1>7, <1>8

\* The types of one request's variables.
LEMMA RequestTypes ==
    ASSUME TypeOK, NEW r \in Requests
    PROVE  /\ CallTypes /\ HealthTypeOK
           /\ pc[r] \in {"idle", "scan", "inflight"} /\ seen[r] \in Reads
           /\ best[r] \in Picks /\ attempts[r] \in Attempts
           /\ reply[r] \in Replies /\ gone[r] \in BOOLEAN
           /\ Len(seen[r]) <= Len(ChannelList)
           /\ PendingLast(pc[r], attempts[r])
BY DEF TypeOK, CallTypes, Reads, Picks, Candidate, Attempts, Attempt, PendingLast

\* One more attempt, or the last one settled.
LEMMA AttemptAdded ==
    ASSUME NEW tries \in Attempts, NEW try \in Attempt
    PROVE  /\ Append(tries, try) \in Attempts /\ Append(tries, try) # <<>>
           /\ Len(tries) \in Nat /\ Len(Append(tries, try)) = Len(tries) + 1
           /\ Append(tries, try)[Len(tries) + 1] = try
           /\ DOMAIN Append(tries, try) = 1..Len(tries) + 1
           /\ DOMAIN tries = 1..Len(tries)
           /\ \A i \in 1..Len(tries) : Append(tries, try)[i] = tries[i]
           /\ \A i \in 1..Len(tries) + 1 : i \in 1..Len(tries) \/ i = Len(tries) + 1
<1>1. Len(tries) \in Nat
  BY DEF Attempts
<1>2. \A i \in 1..Len(tries) + 1 : i \in 1..Len(tries) \/ i = Len(tries) + 1
  BY <1>1
<1> QED
  BY <1>2 DEF Attempts

\* Settling the last attempt leaves the others as they were.
LEMMA AttemptSettled ==
    ASSUME NEW tries \in Attempts, tries # <<>>, NEW outcome \in Outcomes,
           NEW settled, settled = [tries EXCEPT ![Len(tries)].outcome = outcome]
    PROVE  /\ settled \in Attempts /\ Len(settled) = Len(tries)
           /\ Len(tries) \in Nat \ {0}
           /\ DOMAIN settled = 1..Len(tries) /\ DOMAIN tries = 1..Len(tries)
           /\ \A i \in 1..Len(tries) :
                /\ settled[i].ch = tries[i].ch
                /\ settled[i].outcome = IF i = Len(tries) THEN outcome ELSE tries[i].outcome
<1> DEFINE n == Len(tries)
<1>1. n \in Nat \ {0} /\ DOMAIN tries = 1..n
  BY DEF Attempts
<1>2. \A i \in 1..n : tries[i] \in Attempt
  BY <1>1 DEF Attempts
<1> DEFINE last == [tries[n] EXCEPT !.outcome = outcome]
<1>3. settled = [tries EXCEPT ![n] = last]
  BY <1>1
<1> HIDE DEF n
<1>4. last \in Attempt /\ last.ch = tries[n].ch /\ last.outcome = outcome
  BY <1>1, <1>2 DEF Attempt
<1> HIDE DEF last
<1>5. n \in 1..Len(tries) /\ n = Len(tries)
  BY <1>1 DEF n
<1>6. /\ settled \in Attempts /\ Len(settled) = n
      /\ \A i \in 1..n : settled[i] = IF i = n THEN last ELSE tries[i]
  <2>1. tries \in Seq(Attempt)
    BY DEF Attempts
  <2>2. /\ [tries EXCEPT ![n] = last] \in Seq(Attempt)
        /\ Len([tries EXCEPT ![n] = last]) = Len(tries)
        /\ \A i \in 1..Len(tries) :
              [tries EXCEPT ![n] = last][i] = IF i = n THEN last ELSE tries[i]
    BY <1>4, <1>5, <2>1, ExceptSeq
  <2> QED
    BY <1>3, <1>5, <2>2 DEF Attempts
<1>7. DOMAIN settled = 1..n
  BY <1>6 DEF Attempts
<1>8. \A i \in 1..n :
        /\ settled[i].ch = tries[i].ch
        /\ settled[i].outcome = IF i = n THEN outcome ELSE tries[i].outcome
  BY <1>4, <1>6
<1> QED
  BY <1>1, <1>6, <1>7, <1>8 DEF n

\* Three failures in a row leave a circuit open.
LEMMA OpenAtThree ==
    ASSUME HInv, Fresh, NEW ch \in Channels, failureCount[ch] >= 3
    PROVE  state[ch] = "circuit_open"
<1>1. window[ch] # <<>>
  BY DEF Fresh
<1> QED
  BY <1>1 DEF HInv, Scored, Classify

\* A new call keeps types and bookkeeping, and is out at no channel.
LEMMA BeginStep ==
    ASSUME IInv, NEW r \in Requests, Begin(r)
    PROVE  /\ TypeOK' /\ \A s \in Requests : RInv(s)'
           /\ \A ch \in Channels : Engaged(ch)' \subseteq Engaged(ch)
<1>0. TypeOK /\ RInv(r) /\ \A s \in Requests : RInv(s)
  BY DEF IInv
<1>1. /\ pc[r] = "idle" /\ pc' = [pc EXCEPT ![r] = "scan"]
      /\ reply' = [reply EXCEPT ![r] = "none"]
      /\ UNCHANGED <<healthVars, seen, best, attempts, gone>>
  BY DEF Begin
<1>2. CallTypes' /\ Touches(r) /\ HealthTypeOK'
  BY <1>0, <1>1, RequestTypes DEF CallTypes, Touches, Replies, HealthTypeOK, healthVars
<1>3. /\ pc'[r] = "scan" /\ seen'[r] = <<>> /\ best'[r] = None /\ attempts'[r] = <<>>
  BY <1>0, <1>1, RequestTypes DEF CallTypes, RInv, Sound
<1>4. PendingLast(pc[r], attempts[r])' /\ Len(seen[r])' <= Len(ChannelList)
  BY <1>3 DEF PendingLast
<1>5. RInv(r)'
  BY <1>3 DEF RInv, Sound, FirstBest
<1>6. \A ch \in Channels : r \notin Engaged(ch)' /\ Engaged(ch)' \subseteq Requests
  BY <1>3 DEF Engaged, Holds
<1>7. /\ TypeOK' /\ \A s \in Requests : RInv(s)'
      /\ \A ch \in Channels, s \in Requests : s # r =>
            (s \in Engaged(ch)' <=> s \in Engaged(ch))
  BY <1>0, <1>2, <1>4, <1>5, RequestStep
<1> QED
  BY <1>6, <1>7

\* Reading one channel keeps types and bookkeeping; a channel that failed three times
\* in a row is skipped, so nobody new is drawn to it.
LEMMA ScanStep ==
    ASSUME IInv, NEW r \in Requests, Scan(r)
    PROVE  /\ TypeOK' /\ \A s \in Requests : RInv(s)'
           /\ \A ch \in Channels : failureCount[ch] >= 3 => Engaged(ch)' \subseteq Engaged(ch)
<1> DEFINE ch == ChannelList[Len(seen[r]) + 1]
           new == [ch |-> ch, health |-> healthScore[ch]]
           h == IF Usable(r, ch) THEN healthScore[ch] ELSE Skipped
           next == IF h # Skipped /\ (best[r] = None \/ Better(r, new, best[r]))
                   THEN new ELSE best[r]
<1>0. TypeOK /\ RInv(r) /\ (\A s \in Requests : RInv(s)) /\ HInv /\ Fresh
  BY DEF IInv
<1>1. /\ pc[r] = "scan" /\ Len(seen[r]) < Len(ChannelList)
      /\ seen' = [seen EXCEPT ![r] = Append(@, h)]
      /\ best' = IF Usable(r, ch) /\ (best[r] = None \/ Better(r, new, best[r]))
                 THEN [best EXCEPT ![r] = new] ELSE best
      /\ UNCHANGED <<healthVars, pc, attempts, reply, gone>>
  BY DEF Scan
<1>2. /\ CallTypes /\ HealthTypeOK /\ seen[r] \in Reads /\ best[r] \in Picks
      /\ PendingLast(pc[r], attempts[r]) /\ attempts[r] \in Attempts
  BY <1>0, RequestTypes
<1>3. ch \in Channels /\ healthScore[ch] \in 0..100 /\ healthScore[ch] # Skipped
  <2>1. ch \in Channels
    BY <1>1, <1>2 DEF Reads
  <2>2. healthScore[ch] \in 0..100
    BY <1>2, <2>1 DEF HealthTypeOK
  <2>3. \A n \in 0..100 : n # Skipped
    BY DEF Skipped
  <2> QED
    BY <2>1, <2>2, <2>3
<1>4. /\ h \in {Skipped} \cup 0..100 /\ new \in Candidate
      /\ h # Skipped <=> Usable(r, ch)
      /\ h # Skipped => new = [ch |-> ch, health |-> h]
  BY <1>3 DEF Candidate
<1> HIDE DEF new, h
<1>5. /\ seen'[r] = Append(seen[r], h) /\ best'[r] = next
      /\ pc'[r] = "scan" /\ attempts'[r] = attempts[r]
      /\ \A s \in Requests : s # r => seen'[s] = seen[s] /\ best'[s] = best[s]
  BY <1>1, <1>2, <1>4 DEF CallTypes
<1> HIDE DEF ch
<1>6. /\ Append(seen[r], h) \in Reads
      /\ Len(Append(seen[r], h)) <= Len(ChannelList)
  BY <1>1, <1>2, <1>4 DEF Reads
<1>7. next \in Picks
  BY <1>2, <1>4 DEF Picks
<1>8. CallTypes' /\ Touches(r) /\ HealthTypeOK'
  <2>1. seen' \in [Requests -> Reads]
    BY <1>1, <1>2, <1>6 DEF CallTypes
  <2>2. best' \in [Requests -> Picks]
    BY <1>1, <1>2, <1>4 DEF CallTypes, Picks
  <2>3. Touches(r)
    BY <1>1, <1>5 DEF Touches
  <2>4. HealthTypeOK'
    BY <1>1, <1>2 DEF HealthTypeOK, healthVars
  <2> QED
    BY <1>1, <1>2, <2>1, <2>2, <2>3, <2>4 DEF CallTypes
<1>9. PendingLast(pc[r], attempts[r])' /\ Len(seen[r])' <= Len(ChannelList)
  BY <1>1, <1>2, <1>5, <1>6 DEF PendingLast
<1>10. FirstBest(r, Append(seen[r], h), next)
  <2>1. FirstBest(r, seen[r], best[r])
    BY <1>0 DEF RInv, Sound
  <2>2. h # Skipped => new = [ch |-> ChannelList[Len(seen[r]) + 1], health |-> h]
    BY <1>4 DEF ch
  <2> HIDE DEF next
  <2>3. next = IF h # Skipped /\ (best[r] = None \/ Better(r, new, best[r]))
               THEN new ELSE best[r]
    BY DEF next
  <2> QED
    BY <1>1, <1>2, <1>4, <2>1, <2>2, <2>3, FirstBestExtends DEF Picks
<1>11. next # None => Eligible(r, next.ch)
  <2>1. Usable(r, ch) => Eligible(r, ch)
    BY <1>0, <1>3 DEF Usable, Eligible, Fresh
  <2>2. new.ch = ch
    BY DEF new
  <2>3. best[r] # None => Eligible(r, best[r].ch)
    BY <1>0 DEF RInv, Sound
  <2> QED
    BY <1>4, <2>1, <2>2, <2>3
<1>12. RInv(r)'
  BY <1>0, <1>1, <1>5, <1>10, <1>11 DEF RInv, Sound
<1>13. ASSUME NEW c \in Channels, failureCount[c] >= 3, r \in Engaged(c)'
       PROVE  r \in Engaged(c)
  <2>1. next # None /\ next.ch = c
    BY <1>5, <1>13 DEF Engaged, Holds
  <2>2. ~Usable(r, c)
    BY <1>0, <1>13, OpenAtThree DEF Usable
  <2>3. next = best[r]
    BY <1>4, <2>1, <2>2 DEF new
  <2> QED
    BY <1>1, <2>1, <2>3 DEF Engaged, Holds
<1>14. /\ TypeOK' /\ \A s \in Requests : RInv(s)'
       /\ \A c \in Channels, s \in Requests : s # r =>
            (s \in Engaged(c)' <=> s \in Engaged(c))
  BY <1>0, <1>8, <1>9, <1>12, RequestStep
<1>15. \A c \in Channels : Engaged(c)' \subseteq Requests
  BY DEF Engaged
<1> QED
  BY <1>13, <1>14, <1>15

\* What a scan that has found a channel to try tells.
LEMMA Found ==
    ASSUME TypeOK, NEW r \in Requests, RInv(r), Scanned(r), ~Exhausted(r)
    PROVE  /\ pc[r] = "scan" /\ best[r] \in Candidate /\ best[r].ch \in Channels
           /\ best[r] # None /\ Eligible(r, best[r].ch)
           /\ Len(attempts[r]) <= MaxRetries
           /\ \A i \in 1..Len(attempts[r]) : Eligible(r, attempts[r][i].ch)
           /\ \A i \in DOMAIN attempts[r] : attempts[r][i].outcome # "pending"
<1>1. best[r] \in Picks /\ PendingLast(pc[r], attempts[r])
  BY RequestTypes
<1>2. pc[r] = "scan" /\ best[r] # None
  BY DEF Scanned, Exhausted
<1>3. best[r] \in Candidate
  BY <1>1, <1>2 DEF Picks
<1> QED
  BY <1>1, <1>2, <1>3, CandidateType DEF RInv, Sound, PendingLast

\* Sending a request keeps types and bookkeeping; it goes where its scan was drawn.
LEMMA SendStep ==
    ASSUME IInv, NEW r \in Requests, Send(r)
    PROVE  /\ TypeOK' /\ \A s \in Requests : RInv(s)'
           /\ \A ch \in Channels : Engaged(ch)' \subseteq Engaged(ch)
<1> DEFINE try == [ch |-> best[r].ch, outcome |-> "pending"]
           t == Append(attempts[r], try)
<1>0. TypeOK /\ RInv(r) /\ (\A s \in Requests : RInv(s))
  BY DEF IInv
<1>1. /\ Scanned(r) /\ ~Exhausted(r)
      /\ attempts' = [attempts EXCEPT ![r] = t] /\ pc' = [pc EXCEPT ![r] = "inflight"]
      /\ seen' = [seen EXCEPT ![r] = <<>>] /\ best' = [best EXCEPT ![r] = None]
      /\ UNCHANGED <<healthVars, reply, gone>>
  BY DEF Send, NextScan
<1>2. CallTypes /\ HealthTypeOK /\ attempts[r] \in Attempts
  BY <1>0, RequestTypes
<1>3. /\ pc[r] = "scan" /\ best[r].ch \in Channels /\ best[r] # None
      /\ Eligible(r, best[r].ch) /\ Len(attempts[r]) <= MaxRetries
      /\ \A i \in 1..Len(attempts[r]) : Eligible(r, attempts[r][i].ch)
      /\ \A i \in DOMAIN attempts[r] : attempts[r][i].outcome # "pending"
  BY <1>0, <1>1, Found
<1>4. try \in Attempt /\ try.ch = best[r].ch /\ try.outcome = "pending"
  BY <1>3 DEF Attempt, Outcomes
<1> HIDE DEF try
<1>5. /\ t \in Attempts /\ t # <<>> /\ Len(t) = Len(attempts[r]) + 1 /\ Len(attempts[r]) \in Nat
      /\ t[Len(t)] = try /\ DOMAIN t = 1..Len(t) /\ DOMAIN attempts[r] = 1..Len(attempts[r])
      /\ \A i \in 1..Len(attempts[r]) : t[i] = attempts[r][i]
      /\ \A i \in 1..Len(t) : i \in 1..Len(attempts[r]) \/ i = Len(t)
  <2> DEFINE n == Len(attempts[r])
  <2>1. /\ t \in Attempts /\ t # <<>> /\ Len(t) = n + 1 /\ n \in Nat
        /\ t[n + 1] = try /\ DOMAIN t = 1..n + 1 /\ DOMAIN attempts[r] = 1..n
        /\ \A i \in 1..n : t[i] = attempts[r][i]
        /\ \A i \in 1..n + 1 : i \in 1..n \/ i = n + 1
    BY <1>2, <1>4, AttemptAdded
  <2> HIDE DEF n, t
  <2>2. t[Len(t)] = try /\ DOMAIN t = 1..Len(t)
    BY <2>1
  <2> QED
    BY <2>1, <2>2 DEF n
<1> HIDE DEF t
<1>6. <<>> \in Reads /\ None \in Picks
  BY DEF Reads, Picks
<1>7. /\ pc'[r] = "inflight" /\ seen'[r] = <<>> /\ best'[r] = None /\ attempts'[r] = t
  BY <1>1, <1>2 DEF CallTypes
<1>8. CallTypes' /\ Touches(r) /\ HealthTypeOK'
  BY <1>1, <1>2, <1>5, <1>6 DEF CallTypes, Touches, HealthTypeOK, healthVars
<1>9. PendingLast(pc[r], attempts[r])' /\ Len(seen[r])' <= Len(ChannelList)
  <2>1. \A i \in DOMAIN t : t[i].outcome = "pending" <=> i = Len(t)
    <3>1. Len(t) \notin 1..Len(attempts[r])
      BY <1>5
    <3> QED
      BY <1>3, <1>4, <1>5, <3>1
  <2> QED
    BY <1>7, <2>1 DEF PendingLast
<1>10. RInv(r)'
  <2>1. Len(t) <= MaxRetries + 1
    BY <1>3, <1>5
  <2>2. \A i \in 1..Len(t) : Eligible(r, t[i].ch)
    BY <1>3, <1>4, <1>5
  <2>3. Sound(r, "inflight", <<>>, None, t)
    BY <1>5, <2>1, <2>2 DEF Sound, FirstBest
  <2> QED
    BY <1>7, <2>3 DEF RInv
<1>11. \A ch \in Channels : r \in Engaged(ch)' => r \in Engaged(ch)
  BY <1>3, <1>4, <1>5, <1>7 DEF Engaged, Holds
<1>12. /\ TypeOK' /\ \A s \in Requests : RInv(s)'
       /\ \A ch \in Channels, s \in Requests : s # r =>
            (s \in Engaged(ch)' <=> s \in Engaged(ch))
  BY <1>0, <1>8, <1>9, <1>10, RequestStep
<1>13. \A ch \in Channels : Engaged(ch)' \subseteq Requests
  BY DEF Engaged
<1> QED
  BY <1>11, <1>12, <1>13

\* Giving up because no channel is left keeps types and bookkeeping.
LEMMA NoChannelStep ==
    ASSUME IInv, NEW r \in Requests, NoChannel(r)
    PROVE  /\ TypeOK' /\ \A s \in Requests : RInv(s)'
           /\ \A ch \in Channels : Engaged(ch)' \subseteq Engaged(ch)
<1>1. TypeOK /\ (\A s \in Requests : RInv(s)) /\ CallTypes /\ HealthTypeOK
  BY RequestTypes DEF IInv
<1>2. "all_failed" \in Replies /\ Finish(r, "all_failed") /\ UNCHANGED healthVars
  BY DEF NoChannel, Replies
<1>3. HealthTypeOK'
  BY <1>1, <1>2 DEF HealthTypeOK, healthVars
<1> QED
  BY <1>1, <1>2, <1>3, FinishStep

\* Giving up on a provider without an adapter keeps types and bookkeeping.
LEMMA NoAdapterStep ==
    ASSUME IInv, NEW r \in Requests, NoAdapter(r)
    PROVE  /\ TypeOK' /\ \A s \in Requests : RInv(s)'
           /\ \A ch \in Channels : Engaged(ch)' \subseteq Engaged(ch)
<1> DEFINE try == [ch |-> best[r].ch, outcome |-> "unsupported"]
           t == Append(attempts[r], try)
<1>0. TypeOK /\ RInv(r) /\ (\A s \in Requests : RInv(s))
  BY DEF IInv
<1>1. CallTypes /\ HealthTypeOK /\ attempts[r] \in Attempts
  BY <1>0, RequestTypes
<1>2. Scanned(r) /\ ~Exhausted(r) /\ UNCHANGED healthVars
  BY DEF NoAdapter
<1>3. HealthTypeOK'
  BY <1>1, <1>2 DEF HealthTypeOK, healthVars
<1>4. CASE Finish(r, "all_failed")
  <2>1. "all_failed" \in Replies
    BY DEF Replies
  <2> QED
    BY <1>0, <1>1, <1>3, <1>4, <2>1, FinishStep
<1>5. CASE /\ MayRetry(Len(attempts[r]) + 1)
           /\ attempts' = [attempts EXCEPT ![r] = t] /\ NextScan(r)
           /\ UNCHANGED <<pc, reply, gone>>
  <2>1. /\ pc[r] = "scan" /\ best[r].ch \in Channels
        /\ Eligible(r, best[r].ch)
        /\ \A i \in 1..Len(attempts[r]) : Eligible(r, attempts[r][i].ch)
        /\ \A i \in DOMAIN attempts[r] : attempts[r][i].outcome # "pending"
    BY <1>0, <1>2, Found
  <2>2. try \in Attempt /\ try.ch = best[r].ch /\ try.outcome = "unsupported"
    BY <2>1 DEF Attempt, Outcomes
  <2>3. seen' = [seen EXCEPT ![r] = <<>>] /\ best' = [best EXCEPT ![r] = None]
    BY <1>5 DEF NextScan
  <2> HIDE DEF try
  <2>4. /\ t \in Attempts /\ Len(t) = Len(attempts[r]) + 1 /\ Len(attempts[r]) \in Nat
        /\ DOMAIN t = 1..Len(attempts[r]) + 1 /\ DOMAIN attempts[r] = 1..Len(attempts[r])
        /\ t[Len(attempts[r]) + 1] = try
        /\ \A i \in 1..Len(attempts[r]) : t[i] = attempts[r][i]
        /\ \A i \in 1..Len(attempts[r]) + 1 : i \in 1..Len(attempts[r]) \/ i = Len(attempts[r]) + 1
    BY <1>1, <2>2, AttemptAdded
  <2> HIDE DEF t
  <2>5. <<>> \in Reads /\ None \in Picks
    BY DEF Reads, Picks
  <2>6. /\ pc'[r] = "scan" /\ seen'[r] = <<>> /\ best'[r] = None /\ attempts'[r] = t
    BY <1>1, <1>5, <2>1, <2>3 DEF CallTypes
  <2>7. CallTypes' /\ Touches(r)
    BY <1>1, <1>5, <2>3, <2>4, <2>5 DEF CallTypes, Touches
  <2>8. PendingLast(pc[r], attempts[r])' /\ Len(seen[r])' <= Len(ChannelList)
    <3>1. \A i \in DOMAIN t : t[i].outcome # "pending"
      BY <2>1, <2>2, <2>4
    <3> QED
      BY <2>6, <3>1 DEF PendingLast
  <2>9. RInv(r)'
    <3>1. Len(t) <= MaxRetries /\ Len(t) \in Nat
      BY <1>5, <2>4 DEF MayRetry
    <3>2. \A i \in 1..Len(t) : Eligible(r, t[i].ch)
      BY <2>1, <2>2, <2>4
    <3>3. Sound(r, "scan", <<>>, None, t)
      BY <3>1, <3>2 DEF Sound, FirstBest
    <3> QED
      BY <2>6, <3>3 DEF RInv
  <2>10. \A ch \in Channels : r \notin Engaged(ch)' /\ Engaged(ch)' \subseteq Requests
    BY <2>6 DEF Engaged, Holds
  <2>11. /\ TypeOK' /\ \A s \in Requests : RInv(s)'
         /\ \A ch \in Channels, s \in Requests : s # r =>
              (s \in Engaged(ch)' <=> s \in Engaged(ch))
    BY <1>0, <1>3, <2>7, <2>8, <2>9, RequestStep
  <2> QED
    BY <2>10, <2>11
<1> QED
  BY <1>4, <1>5 DEF NoAdapter

\* A client that leaves changes nothing but that.
LEMMA ClientGoneStep ==
    ASSUME IInv, NEW r \in Requests, ClientGone(r)
    PROVE  /\ TypeOK' /\ \A s \in Requests : RInv(s)'
           /\ \A ch \in Channels : Engaged(ch)' \subseteq Engaged(ch)
<1>1. /\ gone' = [gone EXCEPT ![r] = TRUE]
      /\ UNCHANGED <<window, healthScore, state, failureCount, quiet>>
      /\ UNCHANGED <<pc, seen, best, attempts, reply>>
  BY DEF ClientGone, healthVars
<1>2. TypeOK'
  <2>1. gone' \in [Requests -> BOOLEAN]
    BY <1>1 DEF IInv, TypeOK
  <2> QED
    BY <1>1, <2>1 DEF IInv, TypeOK, HealthTypeOK
<1>3. \A s \in Requests : RInv(s)'
  BY <1>1 DEF IInv, RInv
<1>4. \A ch \in Channels : Engaged(ch)' \subseteq Engaged(ch)
  BY <1>1 DEF Engaged
<1> QED
  BY <1>2, <1>3, <1>4

\* The call is over: the request that made it is not engaged any more.
LEMMA ReturnStep ==
    ASSUME IInv, HealthTypeOK', NEW r \in Requests,
           NEW outcome \in {"served", "status", "error"}, NEW latency \in Latencies,
           Return(r, outcome, latency)
    PROVE  /\ TypeOK' /\ \A s \in Requests : RInv(s)'
           /\ \A ch \in Channels : Engaged(ch)' \subseteq Engaged(ch) \ {r}
<1> DEFINE t == [attempts[r] EXCEPT ![Len(attempts[r])].outcome = outcome]
<1>0. TypeOK /\ RInv(r) /\ (\A s \in Requests : RInv(s))
  BY DEF IInv
<1>1. /\ CallTypes /\ attempts[r] \in Attempts /\ pc[r] = "inflight"
      /\ PendingLast(pc[r], attempts[r])
  BY <1>0, RequestTypes DEF Return
<1>2. /\ attempts[r] # <<>> /\ seen[r] = <<>> /\ best[r] = None
      /\ \A i \in 1..Len(attempts[r]) : Eligible(r, attempts[r][i].ch)
  BY <1>0, <1>1 DEF RInv, Sound
<1>3. CASE Finish(r, outcome)
  <2>1. outcome \in Replies
    BY DEF Replies
  <2> QED
    BY <1>0, <1>1, <1>3, <2>1, FinishStep
<1>4. CASE /\ outcome # "served" /\ MayRetry(Len(attempts[r]))
           /\ attempts' = [attempts EXCEPT ![r] = t]
           /\ pc' = [pc EXCEPT ![r] = "scan"]
           /\ UNCHANGED <<seen, best, reply, gone>>
  <2>1. outcome \in Outcomes /\ outcome # "pending"
    BY <1>4 DEF Outcomes
  <2>2. /\ t \in Attempts /\ Len(t) = Len(attempts[r])
        /\ DOMAIN t = 1..Len(attempts[r]) /\ DOMAIN attempts[r] = 1..Len(attempts[r])
        /\ \A i \in 1..Len(attempts[r]) :
              /\ t[i].ch = attempts[r][i].ch
              /\ t[i].outcome = IF i = Len(attempts[r]) THEN outcome
                                ELSE attempts[r][i].outcome
    BY <1>1, <1>2, <2>1, AttemptSettled
  <2> HIDE DEF t
  <2>3. /\ pc'[r] = "scan" /\ seen'[r] = <<>> /\ best'[r] = None /\ attempts'[r] = t
    BY <1>1, <1>2, <1>4 DEF CallTypes
  <2>4. CallTypes' /\ Touches(r)
    BY <1>1, <1>4, <2>2 DEF CallTypes, Touches
  <2>5. PendingLast(pc[r], attempts[r])' /\ Len(seen[r])' <= Len(ChannelList)
    <3>1. \A i \in DOMAIN t : t[i].outcome # "pending"
      BY <1>1, <2>1, <2>2 DEF PendingLast
    <3> QED
      BY <2>3, <3>1 DEF PendingLast
  <2>6. RInv(r)'
    <3>1. Len(t) <= MaxRetries /\ Len(t) \in Nat
      BY <1>1, <1>4, <2>2 DEF MayRetry, Attempts
    <3>2. \A i \in 1..Len(t) : Eligible(r, t[i].ch)
      BY <1>2, <2>2
    <3>3. Sound(r, "scan", <<>>, None, t)
      BY <3>1, <3>2 DEF Sound, FirstBest
    <3> QED
      BY <2>3, <3>3 DEF RInv
  <2>7. \A ch \in Channels : r \notin Engaged(ch)' /\ Engaged(ch)' \subseteq Requests
    BY <2>3 DEF Engaged, Holds
  <2>8. /\ TypeOK' /\ \A s \in Requests : RInv(s)'
        /\ \A ch \in Channels, s \in Requests : s # r =>
             (s \in Engaged(ch)' <=> s \in Engaged(ch))
    BY <1>0, <2>4, <2>5, <2>6, RequestStep
  <2> QED
    BY <2>7, <2>8
<1> QED
  BY <1>3, <1>4 DEF Return

----------------------------------------------------------------------------
(***************************************************************************)
(* The channels.                                                           *)
(***************************************************************************)

\* The channel a request is out at.
LEMMA TargetType ==
    ASSUME TypeOK, NEW r \in Requests, RInv(r), pc[r] = "inflight"
    PROVE  Target(r) \in Channels /\ Eligible(r, Target(r)) /\ r \in Engaged(Target(r))
<1>1. attempts[r] \in Attempts /\ attempts[r] # <<>>
  BY RequestTypes DEF RInv, Sound
<1>2. Len(attempts[r]) \in 1..Len(attempts[r])
  BY <1>1 DEF Attempts
<1>3. attempts[r][Len(attempts[r])] \in Attempt
  BY <1>1, <1>2, ElementOfSeq DEF Attempts
<1>4. Target(r) \in Channels
  BY <1>3 DEF Target, Attempt
<1>5. Eligible(r, Target(r))
  BY <1>2 DEF RInv, Sound, Target
<1> QED
  BY <1>4, <1>5 DEF Engaged, Holds, Target

\* No more requests than there are can report to a channel.
LEMMA EngagedFinite ==
    ASSUME NEW ch
    PROVE  /\ IsFiniteSet(Engaged(ch)) /\ Cardinality(Engaged(ch)) \in Nat
           /\ Cardinality(Engaged(ch)) <= Cardinality(Requests)
           /\ Cardinality(Requests) \in Nat
<1>1. Engaged(ch) \subseteq Requests
  BY DEF Engaged
<1> QED
  BY <1>1, FS_Subset, FS_CardinalityType

\* A report of a call concerns the fields of one channel, which is not disabled.
LEMMA ReportFresh ==
    ASSUME HInv, Fresh, NEW ch \in Channels, InitialState[ch] # "disabled",
           NEW ok \in BOOLEAN, NEW latency \in LatencyBands, UpdateScore(ch, ok, latency)
    PROVE  /\ Fresh'
           /\ \A c \in Channels : c # ch => failureCount'[c] = failureCount[c]
           /\ failureCount'[ch] \in {0, failureCount[ch] + 1}
<1>1. PICK w, score, fails :
        /\ w = Push(window[ch], [ok |-> ok, latency |-> latency])
        /\ fails = Failures(failureCount[ch], ok)
        /\ window' = [window EXCEPT ![ch] = w]
        /\ state' = [state EXCEPT ![ch] = Classify(score, fails)]
        /\ failureCount' = [failureCount EXCEPT ![ch] = fails]
  BY DEF UpdateScore
<1>2. w # <<>>
  <2>1. /\ window[ch] \in Seq(Sample) /\ Len(window[ch]) <= WindowSize
        /\ [ok |-> ok, latency |-> latency] \in Sample
    BY DEF HInv, HealthTypeOK, Sample
  <2>2. w \in Seq(Sample) /\ Len(w) \in 1..WindowSize
    BY <1>1, <2>1, PushType
  <2> QED
    BY <2>2
<1>3. fails \in {0, failureCount[ch] + 1}
  BY <1>1 DEF Failures
<1>4. Classify(score, fails) # "disabled"
  BY DEF Classify
<1> HIDE DEF Classify
<1>5. \A c \in Channels :
        /\ window'[c] = IF c = ch THEN w ELSE window[c]
        /\ state'[c] = IF c = ch THEN Classify(score, fails) ELSE state[c]
        /\ failureCount'[c] = IF c = ch THEN fails ELSE failureCount[c]
  BY <1>1 DEF HInv, HealthTypeOK
<1>6. Fresh'
  <2> SUFFICES ASSUME NEW c \in Channels
               PROVE  /\ window'[c] = <<>> => failureCount'[c] = 0
                      /\ state'[c] = "disabled" <=> InitialState[c] = "disabled"
                      /\ InitialState[c] = "disabled" => window'[c] = <<>>
    BY DEF Fresh
  <2>1. CASE c = ch
    BY <1>2, <1>4, <1>5, <2>1
  <2>2. CASE c # ch
    BY <1>5, <2>2 DEF Fresh
  <2> QED
    BY <2>1, <2>2
<1> QED
  BY <1>3, <1>5, <1>6

\* Nothing is reported and nobody picks a channel whose circuit is open.
LEMMA ContainedKept ==
    ASSUME HInv, Contained, failureCount' = failureCount,
           \A ch \in Channels : failureCount[ch] >= 3 => Engaged(ch)' \subseteq Engaged(ch)
    PROVE  Contained'
<1> SUFFICES ASSUME NEW ch \in Channels, failureCount[ch] >= 3
             PROVE  failureCount[ch] + Cardinality(Engaged(ch)') <= 2 + Cardinality(Requests)
  BY DEF Contained
<1>1. Cardinality(Engaged(ch)') <= Cardinality(Engaged(ch)) /\ Cardinality(Engaged(ch)') \in Nat
  BY EngagedFinite, FS_Subset, FS_CardinalityType
<1>2. failureCount[ch] + Cardinality(Engaged(ch)) <= 2 + Cardinality(Requests)
  BY DEF Contained
<1>3. failureCount[ch] \in Nat
  BY DEF HInv, HealthTypeOK
<1> QED
  BY <1>1, <1>2, <1>3, EngagedFinite

\* A request that reports a failure is engaged no more: the sum stays.
LEMMA ContainedReport ==
    ASSUME HInv, Contained, NEW r \in Requests, NEW ch \in Channels, r \in Engaged(ch),
           failureCount'[ch] \in {0, failureCount[ch] + 1},
           \A c \in Channels : c # ch => failureCount'[c] = failureCount[c],
           \A c \in Channels : Engaged(c)' \subseteq Engaged(c) \ {r}
    PROVE  Contained'
<1> SUFFICES ASSUME NEW c \in Channels, failureCount'[c] >= 3
             PROVE  failureCount'[c] + Cardinality(Engaged(c)') <= 2 + Cardinality(Requests)
  BY DEF Contained
<1>1. failureCount[c] \in Nat
  BY DEF HInv, HealthTypeOK
<1>2. failureCount[c] >= 3 =>
        failureCount[c] + Cardinality(Engaged(c)) <= 2 + Cardinality(Requests)
  BY DEF Contained
<1>3. /\ Cardinality(Engaged(c)) \in Nat /\ Cardinality(Requests) \in Nat
      /\ Cardinality(Engaged(c)) <= Cardinality(Requests)
  BY EngagedFinite
<1>4. /\ Cardinality(Engaged(c)') <= Cardinality(Engaged(c)) /\ Cardinality(Engaged(c)') \in Nat
  BY EngagedFinite, FS_Subset, FS_CardinalityType
<1>5. CASE c # ch
  BY <1>1, <1>2, <1>3, <1>4, <1>5
<1>6. CASE c = ch
  <2>1. /\ Cardinality(Engaged(ch) \ {r}) = Cardinality(Engaged(ch)) - 1
        /\ IsFiniteSet(Engaged(ch) \ {r})
    BY EngagedFinite, FS_RemoveElement
  <2>2. Cardinality(Engaged(ch)') <= Cardinality(Engaged(ch)) - 1
    BY <2>1, FS_Subset
  <2>3. failureCount'[c] = failureCount[c] + 1
    BY <1>6
  <2>4. failureCount[c] >= 2
    BY <1>1, <2>3
  <2>5. CASE failureCount[c] >= 3
    BY <1>1, <1>2, <1>3, <1>4, <1>6, <2>2, <2>3, <2>5
  <2>6. CASE failureCount[c] = 2
    BY <1>1, <1>3, <1>4, <1>6, <2>2, <2>3, <2>6
  <2> QED
    BY <1>1, <2>4, <2>5, <2>6
<1> QED
  BY <1>5, <1>6

----------------------------------------------------------------------------
\* The invariant holds before the first call.
THEOREM InitIInv == Init => IInv
<1> SUFFICES ASSUME Init PROVE IInv
  OBVIOUS
<1>1. HInv
  BY InitHInv DEF Init
<1>2. TypeOK
  <2>1. CallTypes
    BY DEF Init, CallTypes, Reads, Picks, Attempts, Replies
  <2>2. \A r \in Requests : Len(seen[r]) <= Len(ChannelList) /\ PendingLast(pc[r], attempts[r])
    BY DEF Init, PendingLast
  <2> QED
    BY <1>1, <2>1, <2>2
       DEF HInv, TypeOK, CallTypes, Reads, Picks, Candidate, Attempts, Attempt, PendingLast
<1>3. ASSUME NEW r \in Requests PROVE RInv(r)
  <2>1. pc[r] = "idle" /\ seen[r] = <<>> /\ best[r] = None /\ attempts[r] = <<>>
    BY DEF Init
  <2> QED
    BY <2>1 DEF RInv, Sound, FirstBest
<1>4. Fresh
  BY DEF Init, HealthInit, Fresh
<1>5. Contained
  BY DEF Init, HealthInit, Contained
<1> QED
  BY <1>1, <1>2, <1>3, <1>4, <1>5 DEF IInv

\* Every way a call ends is a Return.
LEMMA AnyReturn ==
    ASSUME NEW r \in Requests, Answer(r) \/ Timeout(r) \/ Aborted(r)
    PROVE  \E outcome \in {"served", "status", "error"}, latency \in Latencies :
                Return(r, outcome, latency)
BY DEF Answer, Timeout, Aborted

\* Every step keeps the inductive invariant.
THEOREM NextIInv == IInv /\ [Next]_vars => IInv'
<1> SUFFICES ASSUME IInv, [Next]_vars PROVE IInv'
  OBVIOUS
<1>0. HInv /\ TypeOK /\ (\A r \in Requests : RInv(r)) /\ Fresh /\ Contained
  BY DEF IInv
\* Steps that leave the health of all channels alone.
<1>1. ASSUME UNCHANGED healthVars, TypeOK', \A r \in Requests : RInv(r)',
             \A ch \in Channels : failureCount[ch] >= 3 => Engaged(ch)' \subseteq Engaged(ch)
      PROVE  IInv'
  <2>1. HInv'
    BY <1>0, <1>1, UnchangedHInv
  <2>2. Fresh'
    BY <1>0, <1>1 DEF Fresh, healthVars
  <2>3. Contained'
    BY <1>0, <1>1, ContainedKept DEF healthVars
  <2> QED
    BY <1>1, <2>1, <2>2, <2>3 DEF IInv
<1>2. ASSUME NEW r \in Requests, Begin(r) PROVE IInv'
  <2>1. UNCHANGED healthVars
    BY <1>2 DEF Begin
  <2> QED
    BY <1>1, <1>2, <2>1, BeginStep
<1>3. ASSUME NEW r \in Requests, Scan(r) PROVE IInv'
  <2>1. UNCHANGED healthVars
    BY <1>3 DEF Scan
  <2> QED
    BY <1>1, <1>3, <2>1, ScanStep
<1>4. ASSUME NEW r \in Requests, NoChannel(r) PROVE IInv'
  <2>1. UNCHANGED healthVars
    BY <1>4 DEF NoChannel
  <2> QED
    BY <1>1, <1>4, <2>1, NoChannelStep
<1>5. ASSUME NEW r \in Requests, NoAdapter(r) PROVE IInv'
  <2>1. UNCHANGED healthVars
    BY <1>5 DEF NoAdapter
  <2> QED
    BY <1>1, <1>5, <2>1, NoAdapterStep
<1>6. ASSUME NEW r \in Requests, Send(r) PROVE IInv'
  <2>1. UNCHANGED healthVars
    BY <1>6 DEF Send
  <2> QED
    BY <1>1, <1>6, <2>1, SendStep
<1>7. ASSUME NEW r \in Requests, ClientGone(r) PROVE IInv'
  <2>1. UNCHANGED healthVars
    BY <1>7 DEF ClientGone
  <2> QED
    BY <1>1, <1>7, <2>1, ClientGoneStep
<1>8. ASSUME NEW r \in Requests, NEW outcome \in {"served", "status", "error"},
             NEW latency \in Latencies, Return(r, outcome, latency)
      PROVE  IInv'
  <2> DEFINE ch == Target(r)
             ok == outcome = "served"
  <2>1. pc[r] = "inflight" /\ UpdateScore(ch, ok, latency)
    BY <1>8 DEF Return
  <2>2. ch \in Channels /\ InitialState[ch] # "disabled" /\ r \in Engaged(ch)
    BY <1>0, <2>1, TargetType DEF Eligible
  <2>3. ok \in BOOLEAN /\ latency \in LatencyBands
    BY HealthAssumption
  <2> HIDE DEF ch, ok
  <2>4. HInv'
    BY <1>0, <2>1, <2>2, <2>3, UpdateScoreHInv
  <2>5. /\ Fresh' /\ failureCount'[ch] \in {0, failureCount[ch] + 1}
        /\ \A c \in Channels : c # ch => failureCount'[c] = failureCount[c]
    BY <1>0, <2>1, <2>2, <2>3, ReportFresh
  <2>6. /\ TypeOK' /\ \A s \in Requests : RInv(s)'
        /\ \A c \in Channels : Engaged(c)' \subseteq Engaged(c) \ {r}
    <3>1. HealthTypeOK'
      BY <2>4 DEF HInv
    <3> QED
      BY <1>8, <3>1, ReturnStep
  <2>7. Contained'
    BY <1>0, <2>2, <2>5, <2>6, ContainedReport
  <2> QED
    BY <2>4, <2>5, <2>6, <2>7 DEF IInv
<1>9. ASSUME NEW ch \in Channels, Clock(ch) PROVE IInv'
  <2>1. /\ TimePasses(ch) /\ UNCHANGED <<pc, seen, best, attempts, reply, gone>>
        /\ UNCHANGED <<window, healthScore, state, failureCount>>
    BY <1>9 DEF Clock, TimePasses, callVars
  <2>2. HInv'
    BY <1>0, <2>1, TimePassesHInv
  <2>3. TypeOK'
    BY <1>0, <2>1, <2>2 DEF TypeOK, HInv
  <2>4. Fresh' /\ Contained' /\ \A r \in Requests : RInv(r)'
    BY <1>0, <2>1 DEF Fresh, Contained, Engaged, RInv
  <2> QED
    BY <2>2, <2>3, <2>4 DEF IInv
<1>10. ASSUME UNCHANGED vars PROVE IInv'
  <2>1. UNCHANGED healthVars /\ UNCHANGED <<pc, seen, best, attempts, reply, gone>>
    BY <1>10 DEF vars, callVars
  <2>2. TypeOK'
    BY <1>0, <2>1 DEF TypeOK, HealthTypeOK, healthVars
  <2>3. (\A r \in Requests : RInv(r)') /\ \A ch \in Channels : Engaged(ch)' = Engaged(ch)
    BY <1>0, <2>1 DEF RInv, Engaged
  <2> QED
    BY <1>1, <2>1, <2>2, <2>3
<1> QED
  BY <1>2, <1>3, <1>4, <1>5, <1>6, <1>7, <1>8, <1>9, <1>10, AnyReturn DEF Next

\* The invariant holds in every state of every behaviour.
THEOREM Invariant == Spec => []IInv
BY InitIInv, NextIInv, PTL DEF Spec

\* Every variable keeps its type, and only the last attempt of a request in flight
\* is pending.
THEOREM TypeCorrect == Spec => []TypeOK
<1>1. IInv => TypeOK
  BY DEF IInv
<1> QED
  BY <1>1, Invariant, PTL

\* The single pass over the mapping rows finds the lexicographic optimum of what it
\* reads, whatever other requests report meanwhile.
THEOREM PassFindsOptimum == Spec => []SelectsBest
<1>1. IInv => SelectsBest
  <2> SUFFICES ASSUME IInv, NEW r \in Requests
               PROVE  IF best[r] = None THEN Optimum(r) = {}
                      ELSE \E i \in Optimum(r) :
                              best[r] = [ch |-> ChannelList[i], health |-> seen[r][i]]
    BY DEF SelectsBest
  <2>1. TypeOK /\ FirstBest(r, seen[r], best[r])
    BY DEF IInv, RInv, Sound
  <2> QED
    BY <2>1, FirstBestIsOptimum DEF Entry
<1> QED
  BY <1>1, Invariant, PTL

\* A failing channel is called at most so often: twice before its circuit opens and
\* once by each of the requests that run at the same time.
THEOREM FailuresContained == Spec => []BreakerContains
<1>1. IInv => BreakerContains
  <2> SUFFICES ASSUME IInv, NEW ch \in Channels
               PROVE  failureCount[ch] <= 2 + Cardinality(Requests)
    BY DEF BreakerContains
  <2>1. /\ Cardinality(Engaged(ch)) \in Nat /\ Cardinality(Requests) \in Nat
        /\ failureCount[ch] \in Nat
    BY EngagedFinite DEF IInv, HInv, HealthTypeOK
  <2>2. failureCount[ch] >= 3 =>
          failureCount[ch] + Cardinality(Engaged(ch)) <= 2 + Cardinality(Requests)
    BY DEF IInv, Contained
  <2> QED
    BY <2>1, <2>2
<1> QED
  BY <1>1, Invariant, PTL

\* No request is sent to a channel of another tier or to a disabled one, and no
\* disabled one is revived.
THEOREM BoundsKept == Spec => []OutOfBounds
<1>1. IInv => OutOfBounds
  <2> SUFFICES ASSUME IInv, NEW ch \in Channels
               PROVE  /\ InitialState[ch] = "disabled" =>
                            state[ch] = "disabled" /\ window[ch] = <<>>
                      /\ \A r \in Requests : ch \in Tried(r) =>
                            InitialState[ch] # "disabled" /\ TierAllowed[ch] \in {"all", Tier[r]}
    BY DEF OutOfBounds
  <2>1. InitialState[ch] = "disabled" => state[ch] = "disabled" /\ window[ch] = <<>>
    BY DEF IInv, Fresh
  <2>2. ASSUME NEW r \in Requests, ch \in Tried(r) PROVE Eligible(r, ch)
    <3>1. attempts[r] \in Attempts /\ RInv(r)
      BY RequestTypes DEF IInv
    <3>2. DOMAIN attempts[r] = 1..Len(attempts[r])
      BY <3>1 DEF Attempts
    <3>3. PICK i \in 1..Len(attempts[r]) : ch = attempts[r][i].ch
      BY <2>2, <3>2 DEF Tried
    <3> QED
      BY <3>1, <3>3 DEF RInv, Sound
  <2> QED
    BY <2>1, <2>2 DEF Eligible, Allowed
<1> QED
  BY <1>1, Invariant, PTL

\* Seen from the channels, the dispatcher behaves as HealthManager says: it never
\* reports on a disabled channel.  So what HealthProofs shows of HealthSpec holds
\* here: ConsecutiveFailures and OpenNeedsEvidence among others.
THEOREM ReportsAsSpecified == Spec => HealthSpec
<1>1. Init => HealthInit
  BY DEF Init
<1>2. IInv /\ [Next]_vars => [HealthNext]_healthVars
  <2> SUFFICES ASSUME IInv, [Next]_vars PROVE [HealthNext]_healthVars
    OBVIOUS
  <2>1. ASSUME NEW r \in Requests, Begin(r) \/ Scan(r) \/ NoChannel(r) \/ NoAdapter(r)
                                     \/ Send(r) \/ ClientGone(r)
        PROVE  UNCHANGED healthVars
    BY <2>1 DEF Begin, Scan, NoChannel, NoAdapter, Send, ClientGone
  <2>2. ASSUME NEW r \in Requests, NEW outcome \in {"served", "status", "error"},
               NEW latency \in Latencies, Return(r, outcome, latency)
        PROVE  HealthNext
    <3> DEFINE ch == Target(r)
               ok == outcome = "served"
    <3>1. pc[r] = "inflight" /\ UpdateScore(ch, ok, latency) /\ ok \in BOOLEAN
      BY <2>2 DEF Return
    <3>2. ch \in Channels /\ InitialState[ch] # "disabled"
      BY <3>1, TargetType DEF IInv, Eligible
    <3>3. state[ch] # "disabled"
      BY <3>2 DEF IInv, Fresh
    <3> HIDE DEF ch, ok
    <3>4. Report(ch, ok, latency)
      BY <3>1, <3>3 DEF Report
    <3> QED
      BY <3>1, <3>2, <3>4 DEF HealthNext
  <2>3. ASSUME NEW ch \in Channels, Clock(ch) PROVE HealthNext
    BY <2>3 DEF Clock, HealthNext
  <2>4. CASE UNCHANGED vars
    BY <2>4 DEF vars
  <2> QED
    BY <2>1, <2>2, <2>3, <2>4, AnyReturn DEF Next
<1> QED
  BY <1>1, <1>2, Invariant, PTL DEF Spec, HealthSpec

----------------------------------------------------------------------------
(***************************************************************************)
(* Do keeps the promise of Failover.                                       *)
(***************************************************************************)

\* What a step of one request does to the mapped variables.
LEMMA MappedStep ==
    ASSUME NEW r \in Requests,
           \A s \in Requests : s # r =>
              attempts'[s] = attempts[s] /\ pc'[s] = pc[s] /\ reply'[s] = reply[s]
    PROVE  /\ Called' = [Called EXCEPT ![r] = Called'[r]]
           /\ OutAt' = [OutAt EXCEPT ![r] = OutAt'[r]]
           /\ Verdict' = [Verdict EXCEPT ![r] = Verdict'[r]]
<1>1. Called' = [Called EXCEPT ![r] = Called'[r]]
  BY DEF Called
<1>2. OutAt' = [OutAt EXCEPT ![r] = OutAt'[r]]
  BY DEF OutAt, Target
<1>3. Verdict' = [Verdict EXCEPT ![r] = Verdict'[r]]
  BY DEF Verdict
<1> QED
  BY <1>1, <1>2, <1>3

\* No more channels were called than attempts made.
LEMMA CalledAtMost ==
    ASSUME NEW tries \in Attempts
    PROVE  /\ Cardinality(CalledBy(tries)) \in Nat
           /\ Cardinality(CalledBy(tries)) <= Len(tries)
<1> DEFINE D == {j \in DOMAIN tries : tries[j].outcome # "unsupported"}
           f == [i \in D |-> tries[i].ch]
           n == Len(tries)
<1>1. n \in Nat /\ D \subseteq 1..n
  BY DEF Attempts
<1>2. f \in Surjection(D, CalledBy(tries))
  BY DEF Surjection, CalledBy
<1> HIDE DEF D, f, n
<1>3. IsFiniteSet(1..n) /\ Cardinality(1..n) = n
  BY <1>1, FS_Interval
<1>4. IsFiniteSet(D) /\ Cardinality(D) <= n /\ Cardinality(D) \in Nat
  BY <1>1, <1>3, FS_Subset, FS_CardinalityType
<1>5. IsFiniteSet(CalledBy(tries)) /\ Cardinality(CalledBy(tries)) <= Cardinality(D)
  BY <1>2, <1>4, FS_Surjection
<1> QED
  BY <1>1, <1>4, <1>5, FS_CardinalityType DEF n

\* Do ends: with the answer it got, or with none to be had.
LEMMA MappedFinish ==
    ASSUME TypeOK, NEW r \in Requests, NEW result \in Replies \ {"none"}, Finish(r, result),
           pc[r] # "idle", result = "served" => OutAt[r] # None
    PROVE  Promise!End(r, IF result = "served" THEN "served" ELSE "failed")
<1>1. /\ pc' = [pc EXCEPT ![r] = "idle"] /\ attempts' = [attempts EXCEPT ![r] = <<>>]
      /\ reply' = [reply EXCEPT ![r] = result]
  BY DEF Finish
<1>2. /\ \A s \in Requests : s # r =>
            attempts'[s] = attempts[s] /\ pc'[s] = pc[s] /\ reply'[s] = reply[s]
      /\ pc'[r] = "idle" /\ attempts'[r] = <<>> /\ reply'[r] = result
  BY <1>1, RequestTypes DEF CallTypes
<1>3. /\ Called' = [Called EXCEPT ![r] = Called'[r]]
      /\ OutAt' = [OutAt EXCEPT ![r] = OutAt'[r]]
      /\ Verdict' = [Verdict EXCEPT ![r] = Verdict'[r]]
  BY <1>2, MappedStep
<1>4. Called'[r] = {}
  BY <1>2 DEF Called, CalledBy
<1>5. OutAt'[r] = None
  BY <1>2 DEF OutAt
<1>6. Verdict'[r] = IF result = "served" THEN "served" ELSE "failed"
  BY <1>2 DEF Verdict
<1>7. Verdict[r] = "running"
  BY DEF Verdict
<1> QED
  BY <1>3, <1>4, <1>5, <1>6, <1>7 DEF Promise!End

\* Do calls no channel twice and no more channels than it may, goes to another one
\* only when the last one failed it, and reports a request as served exactly when
\* the channel it is out at has answered.
THEOREM KeepsPromise == Spec => FailoverPromise
<1>1. Init => Promise!Init
  <2> SUFFICES ASSUME Init PROVE Promise!Init
    OBVIOUS
  <2>1. Called = [r \in Requests |-> {}]
    BY DEF Init, Called, CalledBy
  <2>2. OutAt = [r \in Requests |-> None]
    BY DEF Init, OutAt
  <2>3. Verdict = [r \in Requests |-> "idle"]
    BY DEF Init, Verdict
  <2> QED
    BY <2>1, <2>2, <2>3 DEF Promise!Init
<1>2. IInv /\ [Next]_vars => [Promise!Next]_Promise!failoverVars
  <2> SUFFICES ASSUME IInv, [Next]_vars
               PROVE  Promise!Next \/ UNCHANGED <<Called, OutAt, Verdict>>
    BY DEF Promise!failoverVars
  <2>0. TypeOK /\ CallTypes /\ \A r \in Requests : RInv(r)
    BY RequestTypes DEF IInv, TypeOK, CallTypes, Reads, Picks, Candidate, Attempts, Attempt
  <2>1. ASSUME UNCHANGED <<attempts, pc, reply>>
        PROVE  UNCHANGED <<Called, OutAt, Verdict>>
    BY <2>1 DEF Called, OutAt, Verdict, Target
  <2>2. ASSUME NEW r \in Requests, Begin(r) PROVE Promise!New(r)
    <3>1. /\ pc[r] = "idle" /\ pc' = [pc EXCEPT ![r] = "scan"]
          /\ reply' = [reply EXCEPT ![r] = "none"] /\ attempts' = attempts
      BY <2>2 DEF Begin
    <3>2. Called' = Called /\ OutAt' = OutAt
      BY <2>0, <3>1 DEF Called, OutAt, Target, CallTypes
    <3>3. Verdict[r] # "running" /\ Verdict' = [Verdict EXCEPT ![r] = "running"]
      BY <2>0, <3>1 DEF Verdict, CallTypes
    <3> QED
      BY <3>2, <3>3 DEF Promise!New
  <2>3. ASSUME NEW r \in Requests, NoChannel(r) PROVE Promise!Next
    <3>1. pc[r] # "idle" /\ Finish(r, "all_failed") /\ "all_failed" \in Replies \ {"none"}
      BY <2>3 DEF NoChannel, Scanned, Replies
    <3>2. Promise!End(r, IF "all_failed" = "served" THEN "served" ELSE "failed")
      BY <2>0, <3>1, MappedFinish
    <3> QED
      BY <3>2 DEF Promise!Next
  <2>4. ASSUME NEW r \in Requests, NoAdapter(r)
        PROVE  Promise!Next \/ UNCHANGED <<Called, OutAt, Verdict>>
    <3> DEFINE try == [ch |-> best[r].ch, outcome |-> "unsupported"]
               t == Append(attempts[r], try)
    <3>1. CASE Finish(r, "all_failed")
      <4>1. pc[r] # "idle" /\ "all_failed" \in Replies \ {"none"}
        BY <2>4 DEF NoAdapter, Scanned, Replies
      <4>2. Promise!End(r, IF "all_failed" = "served" THEN "served" ELSE "failed")
        BY <2>0, <3>1, <4>1, MappedFinish
      <4> QED
        BY <4>2 DEF Promise!Next
    <3>2. CASE attempts' = [attempts EXCEPT ![r] = t] /\ UNCHANGED <<pc, reply>>
      <4>1. best[r].ch \in Channels /\ pc[r] = "scan" /\ attempts[r] \in Attempts
        BY <2>0, <2>4, Found, RequestTypes DEF NoAdapter
      <4>2. try \in Attempt /\ try.outcome = "unsupported"
        BY <4>1 DEF Attempt, Outcomes
      <4> HIDE DEF try
      <4>3. CalledBy(t) = CalledBy(attempts[r])
        <5>1. /\ DOMAIN t = 1..Len(attempts[r]) + 1 /\ DOMAIN attempts[r] = 1..Len(attempts[r])
              /\ t[Len(attempts[r]) + 1] = try
              /\ \A i \in 1..Len(attempts[r]) : t[i] = attempts[r][i]
              /\ \A i \in 1..Len(attempts[r]) + 1 :
                    i \in 1..Len(attempts[r]) \/ i = Len(attempts[r]) + 1
              /\ Len(attempts[r]) \in Nat
          BY <4>1, <4>2, AttemptAdded
        <5>2. \A i \in 1..Len(attempts[r]) : i \in 1..Len(attempts[r]) + 1
          BY <5>1
        <5> HIDE DEF t
        <5> QED
          BY <4>2, <5>1, <5>2 DEF CalledBy
      <4> HIDE DEF t
      <4>4. Called' = Called /\ OutAt' = OutAt
        BY <2>0, <3>2, <4>1, <4>3 DEF Called, OutAt, Target, CallTypes
      <4>5. Verdict' = Verdict
        BY <3>2 DEF Verdict
      <4> QED
        BY <4>4, <4>5
    <3> QED
      BY <2>4, <3>1, <3>2 DEF NoAdapter
  <2>5. ASSUME NEW r \in Requests, Send(r) PROVE Promise!Call(r, best[r].ch) /\ best[r].ch \in Channels
    <3> DEFINE ch == best[r].ch
               try == [ch |-> ch, outcome |-> "pending"]
               t == Append(attempts[r], try)
               n == Len(attempts[r])
    <3>1. /\ pc[r] = "scan" /\ ch \in Channels /\ n <= MaxRetries
          /\ attempts[r] \in Attempts /\ ch \notin Tried(r)
      BY <2>0, <2>5, Found, RequestTypes DEF Send, Exhausted
    <3>2. /\ attempts' = [attempts EXCEPT ![r] = t] /\ pc' = [pc EXCEPT ![r] = "inflight"]
          /\ reply' = reply
      BY <2>5 DEF Send
    <3>3. try \in Attempt /\ try.ch = ch /\ try.outcome = "pending"
      BY <3>1 DEF Attempt, Outcomes
    <3> HIDE DEF try
    <3>4. /\ DOMAIN t = 1..n + 1 /\ DOMAIN attempts[r] = 1..n /\ Len(t) = n + 1
          /\ t[n + 1] = try /\ n \in Nat
          /\ \A i \in 1..n : t[i] = attempts[r][i]
          /\ \A i \in 1..n + 1 : i \in 1..n \/ i = n + 1
      BY <3>1, <3>3, AttemptAdded
    <3>5. (\A i \in 1..n : i \in 1..n + 1) /\ n + 1 \in 1..n + 1
      BY <3>4
    <3>6. ch \notin CalledBy(attempts[r])
      BY <3>1 DEF CalledBy, Tried
    <3>7. Cardinality(CalledBy(attempts[r])) <= MaxRetries
      BY <3>1, <3>4, CalledAtMost
    <3> HIDE DEF t, n, ch
    <3>8. CalledBy(t) = CalledBy(attempts[r]) \cup {ch}
      <4>1. CalledBy(t) \subseteq CalledBy(attempts[r]) \cup {ch}
        BY <3>3, <3>4 DEF CalledBy
      <4>2. CalledBy(attempts[r]) \subseteq CalledBy(t)
        BY <3>4, <3>5 DEF CalledBy
      <4>3. ch \in CalledBy(t)
        BY <3>3, <3>4, <3>5 DEF CalledBy
      <4> QED
        BY <4>1, <4>2, <4>3
    <3>9. attempts'[r] = t /\ t[Len(t)].ch = ch
      BY <2>0, <3>2, <3>3, <3>4 DEF CallTypes
    <3>10. Called' = [Called EXCEPT ![r] = @ \cup {ch}]
      BY <2>0, <3>2, <3>8 DEF Called, CallTypes
    <3>11. OutAt' = [OutAt EXCEPT ![r] = ch]
      BY <2>0, <3>2, <3>9 DEF OutAt, Target, CallTypes
    <3>12. Verdict' = Verdict /\ Verdict[r] = "running" /\ OutAt[r] = None
      BY <2>0, <3>1, <3>2 DEF Verdict, OutAt, CallTypes
    <3>13. ch \notin Called[r] /\ Cardinality(Called[r]) <= MaxRetries
      BY <3>6, <3>7 DEF Called
    <3>14. Verdict[r] = "running" /\ OutAt[r] = None /\ UNCHANGED Verdict
      BY <3>12
    <3>15. Promise!Cardinality(Called[r]) = Cardinality(Called[r])
      BY DEF Promise!Cardinality, Cardinality
    <3>16. Promise!Call(r, ch)
      BY <3>10, <3>11, <3>13, <3>14, <3>15 DEF Promise!Call
    <3> QED
      BY <3>1, <3>16 DEF ch
  <2>6. ASSUME NEW r \in Requests, NEW outcome \in {"served", "status", "error"},
               NEW latency \in Latencies, Return(r, outcome, latency)
        PROVE  Promise!Next
    <3> DEFINE t == [attempts[r] EXCEPT ![Len(attempts[r])].outcome = outcome]
    <3>1. /\ pc[r] = "inflight" /\ attempts[r] \in Attempts /\ attempts[r] # <<>>
          /\ Target(r) \in Channels
          /\ \A i \in DOMAIN attempts[r] :
                attempts[r][i].outcome = "pending" <=> i = Len(attempts[r])
      BY <2>0, <2>6, RequestTypes, TargetType DEF Return, RInv, Sound, PendingLast
    <3>2. OutAt[r] = Target(r) /\ OutAt[r] # None
      BY <3>1 DEF OutAt
    <3>3. CASE Finish(r, outcome)
      <4>1. outcome \in Replies \ {"none"}
        BY DEF Replies
      <4>2. Promise!End(r, IF outcome = "served" THEN "served" ELSE "failed")
        BY <2>0, <3>1, <3>2, <3>3, <4>1, MappedFinish
      <4> QED
        BY <4>2 DEF Promise!Next
    <3>4. CASE /\ outcome # "served" /\ attempts' = [attempts EXCEPT ![r] = t]
               /\ pc' = [pc EXCEPT ![r] = "scan"] /\ reply' = reply
      <4>1. outcome \in Outcomes /\ outcome # "unsupported"
        BY <3>4 DEF Outcomes
      <4>2. /\ DOMAIN t = 1..Len(attempts[r]) /\ DOMAIN attempts[r] = 1..Len(attempts[r])
            /\ \A i \in 1..Len(attempts[r]) :
                  /\ t[i].ch = attempts[r][i].ch
                  /\ t[i].outcome = IF i = Len(attempts[r]) THEN outcome
                                    ELSE attempts[r][i].outcome
        BY <3>1, <4>1, AttemptSettled
      <4> HIDE DEF t
      <4>3. \A i \in 1..Len(attempts[r]) :
                t[i].outcome # "unsupported" <=> attempts[r][i].outcome # "unsupported"
        BY <3>1, <4>1, <4>2
      <4>4. CalledBy(t) = CalledBy(attempts[r])
        BY <4>2, <4>3 DEF CalledBy
      <4>5. Called' = Called /\ Verdict' = Verdict
        BY <2>0, <3>1, <3>4, <4>4 DEF Called, Verdict, CallTypes
      <4>6. OutAt' = [OutAt EXCEPT ![r] = None]
        BY <2>0, <3>4 DEF OutAt, Target, CallTypes
      <4> QED
        BY <3>2, <4>5, <4>6 DEF Promise!Next, Promise!Fail
    <3> QED
      BY <2>6, <3>3, <3>4 DEF Return
  <2>7. ASSUME NEW r \in Requests, Scan(r) \/ ClientGone(r)
        PROVE  UNCHANGED <<attempts, pc, reply>>
    BY <2>7 DEF Scan, ClientGone
  <2>8. ASSUME (\E ch \in Channels : Clock(ch)) \/ UNCHANGED vars
        PROVE  UNCHANGED <<attempts, pc, reply>>
    BY <2>8 DEF Clock, callVars, vars
  <2>9. ASSUME NEW r \in Requests, Begin(r) \/ Send(r) PROVE Promise!Next
    BY <2>2, <2>5, <2>9 DEF Promise!Next
  <2> QED
    BY <2>1, <2>3, <2>4, <2>6, <2>7, <2>8, <2>9, AnyReturn DEF Next
<1> QED
  BY <1>1, <1>2, Invariant, PTL DEF Spec, FailoverPromise, Promise!Spec
=============================================================================
