---------------------------- MODULE HealthProofs ----------------------------
(***************************************************************************)
(* Theorems about HealthManager, for any channels, any window size and any *)
(* initial state of the channels table.                                    *)
(***************************************************************************)
EXTENDS HealthManager, FiniteSetTheorems, TLAPS

USE HealthAssumption

\* The number of failures in a window lies between none and all of it.
LEMMA FailCountBounds ==
    ASSUME NEW w \in Seq(Sample)
    PROVE  FailCount(w) \in 0..Len(w)
<1>1. IsFiniteSet(1..Len(w)) /\ Cardinality(1..Len(w)) = Len(w)
  <2> DEFINE n == Len(w)
  <2>1. n \in Nat
    OBVIOUS
  <2> HIDE DEF n
  <2>2. IsFiniteSet(1..n) /\ Cardinality(1..n) = IF 1 > n THEN 0 ELSE n - 1 + 1
    BY <2>1, FS_Interval
  <2>3. Cardinality(1..n) = n
    BY <2>1, <2>2
  <2> QED
    BY <2>2, <2>3 DEF n
<1>2. {i \in DOMAIN w : ~w[i].ok} \subseteq 1..Len(w)
  OBVIOUS
<1>3. Cardinality({i \in DOMAIN w : ~w[i].ok}) <= Len(w)
  BY <1>1, <1>2, FS_Subset
<1>4. Cardinality({i \in DOMAIN w : ~w[i].ok}) \in Nat
  BY <1>1, <1>2, FS_Subset, FS_CardinalityType
<1> QED
  BY <1>3, <1>4 DEF FailCount

\* What \div of the score means without division.
LEMMA DivBelow ==
    ASSUME NEW x \in Int, NEW n \in Nat \ {0}, x \div n < 60
    PROVE  x < 60 * n
OBVIOUS

\* A trimmed window is never empty and never longer than its size.
LEMMA PushType ==
    ASSUME NEW w \in Seq(Sample), Len(w) <= WindowSize, NEW s \in Sample
    PROVE  /\ Push(w, s) \in Seq(Sample)
           /\ Len(Push(w, s)) \in 1..WindowSize
           /\ Len(Push(w, s)) = IF Len(w) < WindowSize THEN Len(w) + 1 ELSE Len(w)
           /\ \A i \in 1..Len(Push(w, s)) :
                Push(w, s)[i] =
                  IF i = Len(Push(w, s)) THEN s
                  ELSE IF Len(w) < WindowSize THEN w[i] ELSE w[i + 1]
<1>1. CASE Len(w) < WindowSize
  BY <1>1 DEF Push
<1>2. CASE ~(Len(w) < WindowSize)
  <2>1. Len(w) = WindowSize /\ w # <<>>
    BY <1>2
  <2>2. /\ Tail(w) \in Seq(Sample) /\ Len(Tail(w)) = Len(w) - 1
        /\ \A i \in 1..(Len(w) - 1) : Tail(w)[i] = w[i + 1]
    BY <2>1
  <2> QED
    BY <1>2, <2>1, <2>2 DEF Push
<1> QED
  BY <1>1, <1>2

\* Clamping yields a number of points from 0 to 100.
LEMMA ClampType == ASSUME NEW x \in Int PROVE Clamp(x) \in 0..100
BY DEF Clamp

\* The score of a window that is not empty is a number of points from 0 to 100.
LEMMA ScoreType ==
    ASSUME NEW w \in Seq(Sample), Len(w) > 0, NEW b \in {0, 10}
    PROVE  Score(w, b) \in 0..100
<1> DEFINE n == Len(w)
           x == (100 - Penalty(w) + b) * n - 40 * FailCount(w)
<1>1. FailCount(w) \in Int /\ Penalty(w) \in Int /\ n \in Nat \ {0}
  BY FailCountBounds DEF Penalty
<1>2. Score(w, b) = Clamp(x \div n)
  BY DEF Score
<1> HIDE DEF n
<1>3. x \in Int
  BY <1>1
<1> HIDE DEF x
<1>4. x \div n \in Int
  BY <1>1, <1>3
<1> QED
  BY <1>2, <1>4, ClampType

\* A score below 60 takes failures in most of the window and a slow answer.
LEMMA LowScoreNeedsEvidence ==
    ASSUME NEW w \in Seq(Sample), Len(w) > 0, NEW b \in {0, 10}, Score(w, b) < 60
    PROVE  \/ Penalty(w) = 20 /\ 2 * FailCount(w) > Len(w)
           \/ Penalty(w) = 10 /\ 4 * FailCount(w) > 3 * Len(w)
<1> DEFINE n == Len(w)
           f == FailCount(w)
           p == Penalty(w)
           x == (100 - p + b) * n - 40 * f
<1>1. n \in Nat \ {0} /\ f \in 0..n /\ p \in {0, 10, 20}
  BY FailCountBounds DEF Penalty
<1>2. Clamp(x \div n) < 60
  BY DEF Score
<1> HIDE DEF n, f, p
<1>3. x \in Int
  BY <1>1
<1> HIDE DEF x
<1>4. x \div n < 60
  BY <1>1, <1>2, <1>3 DEF Clamp
<1>5. x < 60 * n
  BY <1>1, <1>3, <1>4, DivBelow
<1>6. p = 20 => 2 * f > n
  BY <1>1, <1>5 DEF x
<1>7. p = 10 => 4 * f > 3 * n
  BY <1>1, <1>5 DEF x
<1>8. p # 0
  BY <1>1, <1>5 DEF x
<1> QED
  BY <1>1, <1>6, <1>7, <1>8 DEF n, f, p

----------------------------------------------------------------------------
\* What the score and the state of a channel were computed from.  The recovery
\* points are only in the score of a channel whose next success earns them again.
Scored ==
    \A ch \in Channels : window[ch] # <<>> =>
        /\ \E b \in {0, 10} : healthScore[ch] = Score(window[ch], b) /\ (b = 10 => quiet[ch])
        /\ state[ch] = Classify(healthScore[ch], failureCount[ch])

\* The inductive invariant.
HInv == HealthTypeOK /\ ConsecutiveFailures /\ Scored

\* The invariant holds when the channels are loaded.
THEOREM InitHInv == HealthInit => HInv
BY DEF HealthInit, HInv, HealthTypeOK, ConsecutiveFailures, Scored

\* Every report keeps the invariant.  It is stated for UpdateScore alone, so that
\* it also serves where reports come from the dispatcher.
LEMMA UpdateScoreHInv ==
    ASSUME HInv, NEW ch \in Channels, NEW ok \in BOOLEAN,
           NEW latency \in LatencyBands, UpdateScore(ch, ok, latency)
    PROVE  HInv'
<1> DEFINE s == [ok |-> ok, latency |-> latency]
           w == window[ch]
           v == Push(w, s)
           b == Bonus(ok, quiet[ch])
           fails == Failures(failureCount[ch], ok)
<1>1. w \in Seq(Sample) /\ Len(w) <= WindowSize /\ s \in Sample
  BY DEF HInv, HealthTypeOK, Sample
<1>2. /\ window' = [window EXCEPT ![ch] = v]
      /\ healthScore' = [healthScore EXCEPT ![ch] = Score(v, b)]
      /\ failureCount' = [failureCount EXCEPT ![ch] = fails]
      /\ state' = [state EXCEPT ![ch] = Classify(Score(v, b), fails)]
      /\ quiet' = [quiet EXCEPT ![ch] = ok /\ @]
  BY DEF UpdateScore
<1>3. b \in {0, 10} /\ fails \in Nat /\ failureCount[ch] \in Nat
  BY DEF Bonus, Failures, HInv, HealthTypeOK
<1>4. /\ v \in Seq(Sample) /\ Len(v) \in 1..WindowSize
      /\ Len(v) = IF Len(w) < WindowSize THEN Len(w) + 1 ELSE Len(w)
      /\ \A i \in 1..Len(v) :
            v[i] = IF i = Len(v) THEN s ELSE IF Len(w) < WindowSize THEN w[i] ELSE w[i + 1]
  BY <1>1, PushType
<1> HIDE DEF v
<1>5. Score(v, b) \in 0..100
  <2>1. Len(v) > 0
    BY <1>4
  <2> HIDE DEF b
  <2> QED
    BY <1>3, <1>4, <2>1, ScoreType
<1>6. HealthTypeOK'
  <2>1. Classify(Score(v, b), fails) \in ChannelStates
    BY DEF Classify, ChannelStates
  <2> HIDE DEF b, fails
  <2>2. /\ window' \in [Channels -> Seq(Sample)]
        /\ \A c \in Channels : Len(window'[c]) <= WindowSize
    BY <1>2, <1>4 DEF HInv, HealthTypeOK
  <2>3. healthScore' \in [Channels -> 0..100] /\ failureCount' \in [Channels -> Nat]
    BY <1>2, <1>3, <1>5 DEF HInv, HealthTypeOK
  <2>4. state' \in [Channels -> ChannelStates]
    BY <1>2, <2>1 DEF HInv, HealthTypeOK
  <2>5. quiet' \in [Channels -> BOOLEAN]
    BY <1>2 DEF HInv, HealthTypeOK
  <2> QED
    BY <2>2, <2>3, <2>4, <2>5 DEF HealthTypeOK
<1>7. ConsecutiveFailures'
  <2> SUFFICES ASSUME NEW c \in Channels, NEW k \in 1..Len(window'[c])
               PROVE  failureCount'[c] >= k <=>
                        \A i \in (Len(window'[c]) - k + 1)..Len(window'[c]) :
                            ~window'[c][i].ok
    BY DEF ConsecutiveFailures
  <2>1. CASE c # ch
    BY <1>2, <2>1 DEF HInv, HealthTypeOK, ConsecutiveFailures
  <2>2. CASE c = ch
    <3>1. window'[c] = v /\ failureCount'[c] = fails
      BY <1>2, <2>2 DEF HInv, HealthTypeOK
    <3>2. v[Len(v)].ok = ok /\ k \in 1..Len(v)
      BY <1>4, <3>1
    <3>3. CASE ok
      <4>1. fails = 0
        BY <3>3 DEF Failures
      <4>2. v[Len(v)].ok /\ Len(v) \in (Len(v) - k + 1)..Len(v)
        BY <1>4, <3>2, <3>3
      <4> QED
        BY <3>1, <3>2, <4>1, <4>2
    <3>4. CASE ~ok
      <4>1. fails = failureCount[ch] + 1
        BY <3>4 DEF Failures
      <4>2. ~v[Len(v)].ok
        BY <3>2, <3>4
      <4>3. CASE k = 1
        BY <1>3, <1>4, <3>1, <4>1, <4>2, <4>3
      <4>4. CASE k > 1
        <5> DEFINE n == Len(w)
        <5>1. /\ n \in Nat /\ Len(v) \in Nat /\ k \in Nat /\ k <= Len(v)
              /\ k - 1 \in 1..n
          BY <1>1, <1>4, <3>2, <4>4
        <5>2. failureCount[ch] >= k - 1 <=> \A i \in (n - (k - 1) + 1)..n : ~w[i].ok
          BY <5>1 DEF HInv, ConsecutiveFailures
        <5>3. (\A i \in (n - (k - 1) + 1)..n : ~w[i].ok)
                <=> \A i \in (Len(v) - k + 1)..(Len(v) - 1) : ~v[i].ok
          <6>1. CASE n < WindowSize
            <7>1. Len(v) = n + 1 /\ \A i \in 1..n : v[i] = w[i]
              BY <1>4, <5>1, <6>1
            <7>2. /\ Len(v) - k + 1 = n - (k - 1) + 1 /\ Len(v) - 1 = n
                  /\ \A i \in (n - (k - 1) + 1)..n : i \in 1..n
              BY <5>1, <7>1
            <7> QED
              BY <7>1, <7>2
          <6>2. CASE ~(n < WindowSize)
            <7>1. Len(v) = n /\ \A i \in 1..(n - 1) : v[i] = w[i + 1]
              BY <1>4, <5>1, <6>2
            <7>2. ASSUME \A i \in (n - (k - 1) + 1)..n : ~w[i].ok,
                         NEW i \in (Len(v) - k + 1)..(Len(v) - 1)
                  PROVE  ~v[i].ok
              <8>1. i \in 1..(n - 1) /\ i + 1 \in (n - (k - 1) + 1)..n
                BY <5>1, <7>1
              <8> QED
                BY <7>1, <7>2, <8>1
            <7>3. ASSUME \A i \in (Len(v) - k + 1)..(Len(v) - 1) : ~v[i].ok,
                         NEW j \in (n - (k - 1) + 1)..n
                  PROVE  ~w[j].ok
              <8>1. /\ j - 1 \in 1..(n - 1) /\ (j - 1) + 1 = j
                    /\ j - 1 \in (Len(v) - k + 1)..(Len(v) - 1)
                BY <5>1, <7>1
              <8> QED
                BY <7>1, <7>3, <8>1
            <7> QED
              BY <7>2, <7>3
          <6> QED
            BY <6>1, <6>2
        <5>4. (\A i \in (Len(v) - k + 1)..Len(v) : ~v[i].ok)
                <=> \A i \in (Len(v) - k + 1)..(Len(v) - 1) : ~v[i].ok
          BY <4>2, <5>1
        <5>5. fails >= k <=> failureCount[ch] >= k - 1
          BY <1>3, <4>1, <5>1
        <5> QED
          BY <3>1, <5>2, <5>3, <5>4, <5>5
      <4> QED
        BY <3>2, <4>3, <4>4
    <3> QED
      BY <3>3, <3>4
  <2> QED
    BY <2>1, <2>2
<1>8. b = 10 => quiet'[ch]
  BY <1>2 DEF Bonus, HInv, HealthTypeOK
<1>9. Scored'
  <2> HIDE DEF b, fails
  <2> SUFFICES ASSUME NEW c \in Channels, window'[c] # <<>>
               PROVE  /\ \E d \in {0, 10} :
                            healthScore'[c] = Score(window'[c], d) /\ (d = 10 => quiet'[c])
                      /\ state'[c] = Classify(healthScore'[c], failureCount'[c])
    BY DEF Scored, Score, Clamp, Penalty, FailCount, Classify
  <2>1. CASE c # ch
    BY <1>2, <2>1 DEF HInv, HealthTypeOK, Scored
  <2>2. CASE c = ch
    <3>1. /\ window'[c] = v /\ healthScore'[c] = Score(v, b) /\ (b = 10 => quiet'[c])
          /\ failureCount'[c] = fails /\ state'[c] = Classify(Score(v, b), fails)
      BY <1>2, <1>8, <2>2 DEF HInv, HealthTypeOK
    <3> QED
      BY <1>3, <3>1
  <2> QED
    BY <2>1, <2>2
<1> QED
  BY <1>6, <1>7, <1>9 DEF HInv

\* Five quiet minutes change no field the invariant speaks of, but quiet.
LEMMA TimePassesHInv ==
    ASSUME HInv, NEW ch \in Channels, TimePasses(ch)
    PROVE  HInv'
BY DEF TimePasses, HInv, HealthTypeOK, ConsecutiveFailures, Scored

\* Nor does a step that leaves the health of all channels alone.
LEMMA UnchangedHInv ==
    ASSUME HInv, UNCHANGED healthVars
    PROVE  HInv'
BY DEF healthVars, HInv, HealthTypeOK, ConsecutiveFailures, Scored

\* The invariant holds throughout every behaviour of the component.
THEOREM HealthInvariant == HealthSpec => []HInv
<1>1. HealthInit => HInv
  BY InitHInv
<1>2. HInv /\ [HealthNext]_healthVars => HInv'
  <2> SUFFICES ASSUME HInv, [HealthNext]_healthVars PROVE HInv'
    OBVIOUS
  <2>1. ASSUME NEW ch \in Channels, NEW ok \in BOOLEAN, NEW latency \in Latencies,
               Report(ch, ok, latency)
        PROVE  HInv'
    BY <2>1, UpdateScoreHInv DEF Report
  <2>2. ASSUME NEW ch \in Channels, TimePasses(ch) PROVE HInv'
    BY <2>2, TimePassesHInv
  <2>3. CASE UNCHANGED healthVars
    BY <2>3, UnchangedHInv
  <2> QED
    BY <2>1, <2>2, <2>3 DEF HealthNext
<1> QED
  BY <1>1, <1>2, PTL DEF HealthSpec

\* Type correctness: in particular the window never outgrows its size and the
\* score stays between 0 and 100.
THEOREM HealthTypeCorrect == HealthSpec => []HealthTypeOK
<1>1. HInv => HealthTypeOK
  BY DEF HInv
<1> QED
  BY <1>1, HealthInvariant, PTL

\* failureCount and the trimmed window tell the same story.
THEOREM CountMatchesWindow == HealthSpec => []ConsecutiveFailures
<1>1. HInv => ConsecutiveFailures
  BY DEF HInv
<1> QED
  BY <1>1, HealthInvariant, PTL

\* No failure rate opens a circuit without slow answers.
THEOREM BreakerNeedsEvidence == HealthSpec => []OpenNeedsEvidence
<1>1. ASSUME HInv PROVE OpenNeedsEvidence
  <2> SUFFICES ASSUME NEW ch \in Channels, window[ch] # <<>>,
                      state[ch] = "circuit_open", ~(failureCount[ch] >= 3)
               PROVE  \/ Penalty(window[ch]) = 20 /\ 2 * FailCount(window[ch]) > Len(window[ch])
                      \/ Penalty(window[ch]) = 10 /\ 4 * FailCount(window[ch]) > 3 * Len(window[ch])
    BY DEF OpenNeedsEvidence
  <2>1. PICK b \in {0, 10} : healthScore[ch] = Score(window[ch], b)
    BY <1>1 DEF HInv, Scored
  <2>2. window[ch] \in Seq(Sample) /\ Len(window[ch]) > 0
    BY <1>1 DEF HInv, HealthTypeOK
  <2>3. healthScore[ch] < 60
    BY <1>1 DEF HInv, Scored, Classify
  <2> QED
    BY <2>1, <2>2, <2>3, LowScoreNeedsEvidence
<1> QED
  BY <1>1, HealthInvariant, PTL

----------------------------------------------------------------------------
(***************************************************************************)
(* A fast success.                                                         *)
(***************************************************************************)
\* A success adds no failure to the window, and may push one out.
LEMMA FailuresFade ==
    ASSUME NEW w \in Seq(Sample), Len(w) <= WindowSize, NEW s \in Sample, s.ok
    PROVE  FailCount(Push(w, s)) <= FailCount(w)
<1> DEFINE v == Push(w, s)
           n == Len(w)
<1>1. /\ v \in Seq(Sample) /\ n \in Nat
      /\ Len(v) = IF n < WindowSize THEN n + 1 ELSE n
      /\ \A i \in 1..Len(v) :
            v[i] = IF i = Len(v) THEN s ELSE IF n < WindowSize THEN w[i] ELSE w[i + 1]
  <2>1. n \in Nat
    OBVIOUS
  <2> QED
    BY <2>1, PushType, Zenon
<1> DEFINE Failed(u) == {i \in DOMAIN u : ~u[i].ok}
<1> HIDE DEF v
<1>2. DOMAIN v = 1..Len(v) /\ DOMAIN w = 1..n
  BY <1>1
<1>3. Failed(w) \subseteq 1..n /\ IsFiniteSet(1..n)
  <2>1. Failed(w) \subseteq 1..n
    BY <1>2
  <2> HIDE DEF n
  <2>2. IsFiniteSet(1..n)
    BY <1>1, FS_Interval
  <2> QED
    BY <2>1, <2>2
<1>4. IsFiniteSet(Failed(w))
  BY <1>3, FS_Subset
<1>5. CASE n < WindowSize
  <2>1. Failed(v) \subseteq Failed(w)
    <3> SUFFICES ASSUME NEW i \in 1..n + 1, ~v[i].ok
                 PROVE  i \in 1..n /\ ~w[i].ok
      BY <1>1, <1>2, <1>5
    <3> QED
      BY <1>1, <1>5
  <2> QED
    BY <1>4, <2>1, FS_Subset DEF FailCount, v
<1>6. CASE ~(n < WindowSize)
  <2> DEFINE shift == [i \in Failed(v) |-> i + 1]
  <2>1. \A i \in Failed(v) : i \in Int /\ i + 1 \in Failed(w)
    <3> SUFFICES ASSUME NEW i \in Failed(v)
                 PROVE  i \in Int /\ i + 1 \in Failed(w)
      OBVIOUS
    <3>0. i \in 1..Len(v) /\ ~v[i].ok /\ Len(v) = n
      BY <1>1, <1>2, <1>6
    <3>1. i # Len(v) /\ i \in 1..Len(v)
      BY <1>1, <3>0
    <3>2. v[i] = w[i + 1] /\ i \in Int /\ i + 1 \in 1..n
      BY <1>1, <1>6, <3>0, <3>1
    <3> QED
      BY <1>2, <3>0, <3>2
  <2> HIDE DEF Failed
  <2>2. shift \in [Failed(v) -> Failed(w)]
    BY <2>1
  <2>3. \A i, j \in Failed(v) : shift[i] = shift[j] => i = j
    BY <2>1
  <2>4. shift \in Injection(Failed(v), Failed(w))
    BY <2>2, <2>3 DEF Injection, IsInjective
  <2>5. Cardinality(Failed(v)) <= Cardinality(Failed(w))
    BY <1>4, <2>4, FS_Injection
  <2> QED
    BY <2>5 DEF FailCount, Failed, v
<1> QED
  BY <1>5, <1>6

\* A fast answer adds no slow one to the window, and may push one out.
LEMMA PenaltyFades ==
    ASSUME NEW w \in Seq(Sample), Len(w) <= WindowSize, NEW s \in Sample,
           s.latency = "fast"
    PROVE  Penalty(Push(w, s)) <= Penalty(w)
<1> DEFINE v == Push(w, s)
           n == Len(w)
<1>1. /\ v \in Seq(Sample) /\ n \in Nat
      /\ Len(v) = IF n < WindowSize THEN n + 1 ELSE n
      /\ \A i \in 1..Len(v) :
            v[i] = IF i = Len(v) THEN s ELSE IF n < WindowSize THEN w[i] ELSE w[i + 1]
  <2>1. n \in Nat
    OBVIOUS
  <2> QED
    BY <2>1, PushType, Zenon
<1> HIDE DEF v
<1>2. ASSUME NEW i \in DOMAIN v, v[i].latency # "fast"
      PROVE  \E j \in DOMAIN w : w[j].latency = v[i].latency
  <2>1. i \in 1..Len(v) /\ v[i] # s
    BY <1>1, <1>2
  <2>2. CASE n < WindowSize
    BY <1>1, <2>1, <2>2
  <2>3. CASE ~(n < WindowSize)
    <3>1. i + 1 \in 1..n /\ v[i] = w[i + 1]
      BY <1>1, <2>1, <2>3
    <3> QED
      BY <3>1
  <2> QED
    BY <2>2, <2>3
<1>3. /\ (\E i \in DOMAIN v : v[i].latency = "stalled") => \E j \in DOMAIN w : w[j].latency = "stalled"
      /\ (\E i \in DOMAIN v : v[i].latency = "slow") => \E j \in DOMAIN w : w[j].latency = "slow"
  BY <1>2
<1>4. Penalty(v) <= Penalty(w)
  BY <1>3 DEF Penalty
<1> QED
  BY <1>4 DEF v

\* A larger fraction has a quotient that is not smaller.
LEMMA DivGrows ==
    ASSUME NEW x \in Int, NEW m \in Nat \ {0}, NEW y \in Int, NEW n \in Nat \ {0},
           x * n >= y * m
    PROVE  x \div m >= y \div n
<1> DEFINE p == x \div m
           q == y \div n
<1>1. p \in Int /\ q \in Int /\ q * n <= y /\ x < (p + 1) * m
  OBVIOUS
<1> HIDE DEF p, q
<1>2. (q * n) * m <= y * m
  BY <1>1
<1>3. (q * m) * n <= x * n
  BY <1>1, <1>2
<1>4. q * m <= x
  BY <1>1, <1>3
<1>5. q * m < (p + 1) * m
  BY <1>1, <1>4
<1>6. q < p + 1
  BY <1>1, <1>5
<1>7. p >= q
  BY <1>1, <1>6
<1> QED
  BY <1>7 DEF p, q

\* With at least as many samples, no more failures and no slower answers, and no
\* recovery points lost, the score is not lower.
LEMMA ScoreGrows ==
    ASSUME NEW w \in Seq(Sample), Len(w) > 0, NEW b \in {0, 10},
           NEW v \in Seq(Sample), Len(v) >= Len(w), NEW c \in {0, 10}, c >= b,
           FailCount(v) <= FailCount(w), Penalty(v) <= Penalty(w)
    PROVE  Score(v, c) >= Score(w, b)
<1> DEFINE m == Len(v)
           n == Len(w)
           f == FailCount(v)
           g == FailCount(w)
           p == 100 - Penalty(v) + c
           q == 100 - Penalty(w) + b
<1>1. /\ m \in Nat \ {0} /\ n \in Nat \ {0} /\ m >= n
      /\ f \in Nat /\ g \in Nat /\ f <= g
  BY FailCountBounds
<1>2. p \in Nat /\ q \in Nat /\ p >= q
  BY DEF Penalty
<1>3. Score(v, c) = Clamp((p * m - 40 * f) \div m) /\ Score(w, b) = Clamp((q * n - 40 * g) \div n)
  BY DEF Score
<1> HIDE DEF m, n, f, g, p, q
<1>4. f * n <= g * m
  <2>1. f * n <= g * n
    BY <1>1
  <2>2. g * n <= g * m
    BY <1>1
  <2> QED
    BY <1>1, <2>1, <2>2
<1>5. q * n * m <= p * m * n
  <2>1. n * m \in Nat
    BY <1>1
  <2>2. q * (n * m) <= p * (n * m)
    <3> DEFINE k == n * m
    <3> HIDE DEF k
    <3>1. k \in Nat => q * k <= p * k
      BY <1>2
    <3> QED
      BY <2>1, <3>1 DEF k
  <2> QED
    BY <1>1, <1>2, <2>2
<1>6. (p * m - 40 * f) * n >= (q * n - 40 * g) * m
  <2>1. (p * m - 40 * f) * n = p * m * n - 40 * (f * n)
    BY <1>1, <1>2
  <2>2. (q * n - 40 * g) * m = q * n * m - 40 * (g * m)
    BY <1>1, <1>2
  <2>3. f * n \in Int /\ g * m \in Int /\ q * n * m \in Int /\ p * m * n \in Int
    BY <1>1, <1>2
  <2> QED
    BY <1>4, <1>5, <2>1, <2>2, <2>3
<1>7. p * m - 40 * f \in Int /\ q * n - 40 * g \in Int
  BY <1>1, <1>2
<1>8. (p * m - 40 * f) \div m >= (q * n - 40 * g) \div n
  <2> DEFINE x == p * m - 40 * f
             y == q * n - 40 * g
  <2>1. x \in Int /\ y \in Int /\ x * n >= y * m
    BY <1>6, <1>7
  <2> HIDE DEF x, y
  <2>2. x \div m >= y \div n
    BY <1>1, <2>1, DivGrows
  <2> QED
    BY <2>2 DEF x, y
<1>9. \A i, j \in Int : i >= j => Clamp(i) >= Clamp(j)
  BY DEF Clamp
<1>10. (p * m - 40 * f) \div m \in Int /\ (q * n - 40 * g) \div n \in Int
  <2> DEFINE x == p * m - 40 * f
             y == q * n - 40 * g
  <2>1. x \in Int /\ y \in Int
    BY <1>7
  <2> HIDE DEF x, y
  <2>2. x \div m \in Int /\ y \div n \in Int
    BY <1>1, <2>1
  <2> QED
    BY <2>2 DEF x, y
<1> QED
  BY <1>3, <1>8, <1>9, <1>10, Zenon

\* A fast success never lowers the score of a channel that has been reported on: the
\* window forgets no success without a sample in its place that is as good, and
\* recovery points that were earned once are earned again.
THEOREM FastSuccessHelps == HealthSpec => FastSuccessNeverHurts
<1> DEFINE Good(ch) ==
             (window[ch] # <<>> /\ window'[ch] # window[ch]
                /\ window'[ch][Len(window'[ch])] = [ok |-> TRUE, latency |-> "fast"])
             => healthScore'[ch] >= healthScore[ch]
<1>1. ASSUME HInv, [HealthNext]_healthVars
      PROVE  [\A ch \in Channels : Good(ch)]_healthVars
  <2> SUFFICES ASSUME NEW ch \in Channels, window[ch] # <<>>, window'[ch] # window[ch],
                      window'[ch][Len(window'[ch])] = [ok |-> TRUE, latency |-> "fast"]
               PROVE  healthScore'[ch] >= healthScore[ch]
    OBVIOUS
  <2>1. PICK c \in Channels, ok \in BOOLEAN, latency \in LatencyBands :
            UpdateScore(c, ok, latency)
    BY <1>1 DEF HealthNext, Report, TimePasses, healthVars
  <2> DEFINE w == window[ch]
             s == [ok |-> ok, latency |-> latency]
             v == Push(w, s)
  <2>2. window' = [window EXCEPT ![c] = Push(window[c], s)]
    BY <2>1 DEF UpdateScore
  <2>3. c = ch
    BY <1>1, <2>2 DEF HInv, HealthTypeOK
  <2>4. window'[ch] = v
    BY <1>1, <2>2, <2>3 DEF HInv, HealthTypeOK
  <2>5. w \in Seq(Sample) /\ Len(w) <= WindowSize /\ Len(w) > 0 /\ s \in Sample
    <3>1. window[ch] \in Seq(Sample) /\ Len(window[ch]) <= WindowSize
      BY <1>1 DEF HInv, HealthTypeOK
    <3>2. s \in Sample
      BY DEF Sample
    <3> QED
      BY <3>1, <3>2
  <2>6. /\ v \in Seq(Sample) /\ Len(v) >= Len(w) /\ v[Len(v)] = s
    <3> HIDE DEF s, w
    <3>1. /\ v \in Seq(Sample) /\ Len(v) \in 1..WindowSize
          /\ Len(v) = IF Len(w) < WindowSize THEN Len(w) + 1 ELSE Len(w)
          /\ \A i \in 1..Len(v) :
                v[i] = IF i = Len(v) THEN s ELSE IF Len(w) < WindowSize THEN w[i] ELSE w[i + 1]
      BY <2>5, PushType
    <3> HIDE DEF v
    <3> QED
      BY <2>5, <3>1
  <2>7. ok = TRUE /\ latency = "fast" /\ s.ok /\ s.latency = "fast"
    BY <2>4, <2>6
  <2>8. FailCount(v) <= FailCount(w) /\ Penalty(v) <= Penalty(w)
    BY <2>5, <2>7, FailuresFade, PenaltyFades
  <2>9. healthScore'[ch] = Score(v, Bonus(TRUE, quiet[ch]))
    BY <1>1, <2>1, <2>3, <2>7 DEF UpdateScore, HInv, HealthTypeOK
  <2>10. PICK b \in {0, 10} : healthScore[ch] = Score(w, b) /\ (b = 10 => quiet[ch])
    BY <1>1 DEF HInv, Scored
  <2>11. Bonus(TRUE, quiet[ch]) \in {0, 10} /\ Bonus(TRUE, quiet[ch]) >= b
    BY <2>10 DEF Bonus
  <2> HIDE DEF v, w
  <2> QED
    BY <2>5, <2>6, <2>8, <2>9, <2>10, <2>11, ScoreGrows
<1>2. HInv /\ [HealthNext]_healthVars => [\A ch \in Channels : Good(ch)]_healthVars
  BY <1>1
<1> QED
  BY <1>2, HealthInvariant, PTL DEF HealthSpec, FastSuccessNeverHurts
=============================================================================
