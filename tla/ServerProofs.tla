---------------------------- MODULE ServerProofs ----------------------------
(***************************************************************************)
(* Theorems about Server, for any channels, models and mappings, and any   *)
(* number of crashes.  The inductive invariant says of the loading what    *)
(* was read so far, and of the status page what its counters stand for: a  *)
(* set of channels that were usable at some moment since the request       *)
(* began, and that holds each channel read so far that was usable at all   *)
(* of them.                                                                *)
(***************************************************************************)
EXTENDS Server, HealthProofs

\* Every variable has its type; the counters have no bound yet.
Types ==
    /\ phase \in {"down", "postgres", "redis", "clickhouse", "rules", "channels",
                  "mappings", "router", "serving"}
    /\ allRows \subseteq Channels /\ mapRows \subseteq Mapping /\ known \subseteq Channels
    /\ models \in [Models -> SUBSET Channels]
    /\ cut \in BOOLEAN /\ crashes \in 0..MaxCrashes /\ asked \in BOOLEAN
    /\ unread \subseteq Models \X Channels
    /\ active \in [Models -> Nat] /\ total \in [Models -> Nat]
    /\ steady \subseteq ever /\ ever \subseteq Channels

NoModels == [m \in Models |-> {}]
AllModels == [m \in Models |-> {ch \in Channels : <<m, ch>> \in Mapping}]

\* What LoadAllChannels has read, and what it leaves.
Loading ==
    /\ phase \notin {"router", "serving"} => models = NoModels
    /\ phase = "mappings" /\ ~cut => allRows = Channels
    /\ phase \in {"router", "serving"} /\ ~cut => models = NoModels \/ models = AllModels
    /\ allRows \subseteq known
    /\ \A m \in Models : models[m] \subseteq known

\* G is what a model's counters count: usable once, and all that were usable
\* all along and have been read.
Tally(G, page, toRead, once, always, count, sum) ==
    /\ G \subseteq page \cap once
    /\ G \cap toRead = {}
    /\ (page \cap always) \ toRead \subseteq G
    /\ Cardinality(G) = count
    /\ sum <= 100 * count

ToRead(m) == {ch \in Channels : <<m, ch>> \in unread}

Counting ==
    \A m \in Models : \E G \in SUBSET Channels :
        Tally(G, models[m], ToRead(m), ever, steady, active[m], total[m])

\* The page is written while the gateway serves; its histories frame the moment.
Page ==
    /\ asked => phase = "serving"
    /\ ~asked => unread = {} /\ active = Zero /\ total = Zero /\ ever = {} /\ steady = {}
    /\ asked => \A ch \in Channels :
                   /\ UsableIn(state, ch) => ch \in ever
                   /\ ch \in steady => UsableIn(state, ch)
    /\ \A row \in unread : row[2] \in models[row[1]]

\* The inductive invariant.
SInv == HInv /\ Types /\ Loading /\ Page /\ Counting

----------------------------------------------------------------------------
(***************************************************************************)
(* The counters of one model.                                              *)
(***************************************************************************)
\* A usable channel that is read is counted with its score.
LEMMA TallyCounts ==
    ASSUME IsFiniteSet(Channels),
           NEW G \in SUBSET Channels, NEW page, NEW toRead, NEW once, NEW always,
           NEW count \in Nat, NEW sum \in Nat, NEW ch \in Channels, NEW score \in 0..100,
           Tally(G, page, toRead, once, always, count, sum),
           ch \in page, ch \in toRead, ch \in once
    PROVE  /\ G \cup {ch} \in SUBSET Channels
           /\ Tally(G \cup {ch}, page, toRead \ {ch}, once, always, count + 1, sum + score)
<1>1. IsFiniteSet(G) /\ ch \notin G
  BY FS_Subset DEF Tally
<1>2. Cardinality(G \cup {ch}) = count + 1
  BY <1>1, FS_AddElement DEF Tally
<1>3. sum + score <= 100 * (count + 1)
  BY DEF Tally
<1>4. /\ G \cup {ch} \subseteq page \cap once
      /\ (G \cup {ch}) \cap (toRead \ {ch}) = {}
      /\ (page \cap always) \ (toRead \ {ch}) \subseteq G \cup {ch}
  BY DEF Tally
<1> QED
  BY <1>2, <1>3, <1>4 DEF Tally

\* One that is out when it is read was not usable all along, and is left out.
LEMMA TallySkips ==
    ASSUME NEW G, NEW page, NEW toRead, NEW once, NEW always, NEW count, NEW sum, NEW ch,
           Tally(G, page, toRead, once, always, count, sum), ch \notin always
    PROVE  Tally(G, page, toRead \ {ch}, once, always, count, sum)
BY DEF Tally

\* As time goes on, more channels have been usable once and fewer all along.
LEMMA TallyLater ==
    ASSUME NEW G, NEW page, NEW toRead, NEW once, NEW always, NEW count, NEW sum,
           NEW once2, NEW always2,
           Tally(G, page, toRead, once, always, count, sum),
           once \subseteq once2, always2 \subseteq always
    PROVE  Tally(G, page, toRead, once2, always2, count, sum)
BY DEF Tally

\* Counters that are zero count nothing: right while nothing was read, or while
\* there is no request.
LEMMA TallyZero ==
    ASSUME NEW page, NEW toRead, NEW once, NEW always, page \cap always \subseteq toRead
    PROVE  Tally({}, page, toRead, once, always, 0, 0)
BY FS_EmptySet DEF Tally

----------------------------------------------------------------------------
\* A process that starts has read nothing and answers nobody.
THEOREM InitSInv == Init => SInv
<1> SUFFICES ASSUME Init PROVE SInv
  OBVIOUS
<1> USE DEF Init
<1>1. HInv
  BY InitHInv
<1>2. Types
  <2>1. 0 \in 0..MaxCrashes
    BY ServerAssumption
  <2> QED
    BY <2>1 DEF Types, Zero
<1>3. Loading
  BY DEF Loading, NoModels
<1>4. Page
  BY DEF Page
<1>5. Counting
  BY TallyZero DEF Counting, Zero
<1> QED
  BY <1>1, <1>2, <1>3, <1>4, <1>5 DEF SInv

\* The memory of the process is gone, and health starts over.
LEMMA ForgetsHealth == Forget => HInv'
<1> SUFFICES ASSUME Forget PROVE HInv'
  OBVIOUS
<1> QED
  BY HealthAssumption DEF Forget, HInv, HealthTypeOK, ConsecutiveFailures, Scored

\* Every step keeps the health invariant: reports are the only ones that touch it,
\* and a restart resets it.
LEMMA NextHealth == SInv /\ [Next]_vars => HInv'
<1> SUFFICES ASSUME SInv, [Next]_vars PROVE HInv'
  OBVIOUS
<1>1. HInv
  BY DEF SInv
<1>2. ASSUME NEW ch \in Channels, NEW ok \in BOOLEAN, NEW latency \in Latencies,
             Reported(ch, ok, latency)
      PROVE  HInv'
  <2>1. UpdateScore(ch, ok, latency) /\ latency \in LatencyBands
    BY <1>2, HealthAssumption DEF Reported, Report
  <2> QED
    BY <1>1, <2>1, UpdateScoreHInv
<1>3. ASSUME NEW ch \in Channels, Rest(ch) PROVE HInv'
  BY <1>1, <1>3, TimePassesHInv DEF Rest
<1>4. CASE Crash \/ RunFails
  BY <1>4, ForgetsHealth DEF Crash, RunFails
<1>5. CASE UNCHANGED healthVars
  BY <1>1, <1>5, UnchangedHInv
<1>6. ASSUME NEW m \in Models, NEW ch \in Channels, ReadState(m, ch)
      PROVE  UNCHANGED healthVars
  BY <1>6 DEF ReadState
<1> QED
  BY <1>2, <1>3, <1>4, <1>5, <1>6 DEF Next, vars, InitDB, InitRedis, Connected, Refused,
     InitClickHouse, NewRiskEngine, Optional, ReadChannel, ChannelsEnd, ReadMapping,
     MappingsEnd, LoadFails, Run, Ask, GetStatus, Restart

\* The score of a channel, as a number of points.
LEMMA ScoreOf ==
    ASSUME HInv, NEW ch \in Channels
    PROVE  healthScore[ch] \in 0..100 /\ healthScore[ch] \in Nat
<1>1. healthScore[ch] \in 0..100
  BY DEF HInv, HealthTypeOK
<1>2. \A n \in 0..100 : n \in Nat
  OBVIOUS
<1> QED
  BY <1>1, <1>2

\* The steps of main before the channels are loaded, and its restart.
Boots ==
    /\ phase \notin {"router", "serving", "mappings"}
    /\ phase' \in {"down", "postgres", "redis", "clickhouse", "rules", "channels"}
    /\ UNCHANGED <<healthVars, loadVars, crashes, pageVars>>

\* They are the steps from InitDB to NewRiskEngine, and the restart.
LEMMA BootSteps ==
    InitDB \/ InitRedis \/ Refused \/ InitClickHouse \/ NewRiskEngine \/ Restart => Boots
BY DEF Boots, InitDB, InitRedis, Connected, Refused, InitClickHouse, NewRiskEngine,
       Optional, Without, Restart

\* Every step keeps the types.
LEMMA NextTypes == SInv /\ [Next]_vars => Types'
<1> SUFFICES ASSUME SInv, [Next]_vars PROVE Types'
  OBVIOUS
<1>0. Types /\ Page /\ HInv
  BY DEF SInv
<1>1. CASE InitDB \/ InitRedis \/ Refused \/ InitClickHouse \/ NewRiskEngine \/ Restart
  BY <1>0, <1>1, BootSteps DEF Boots, Types, loadVars, pageVars
<1>2. ASSUME NEW ch \in Channels, ReadChannel(ch) PROVE Types'
  BY <1>0, <1>2 DEF ReadChannel, Types, pageVars
<1>3. CASE ChannelsEnd
  BY <1>0, <1>3 DEF ChannelsEnd, Types, pageVars
<1>4. ASSUME NEW row \in Mapping, ReadMapping(row) PROVE Types'
  BY <1>0, <1>4 DEF ReadMapping, Types, pageVars
<1>5. CASE MappingsEnd
  <2>1. models' \in [Models -> SUBSET Channels]
    BY <1>0, <1>5 DEF MappingsEnd, NewModels, Types
  <2>2. cut' \in BOOLEAN
    BY <1>0, <1>5 DEF MappingsEnd, Types
  <2> QED
    BY <1>0, <1>5, <2>1, <2>2 DEF MappingsEnd, Loaded, Types, pageVars
<1>6. CASE LoadFails
  BY <1>0, <1>6 DEF LoadFails, AfterLoadError, Loaded, Types, pageVars
<1>7. ASSUME NEW ch \in Channels, NEW ok \in BOOLEAN, NEW latency \in Latencies,
             Reported(ch, ok, latency)
      PROVE  Types'
  <2>1. steady' \subseteq ever' /\ ever' \subseteq Channels
    BY <1>0, <1>7 DEF Reported, Types
  <2> QED
    BY <1>0, <1>7, <2>1 DEF Reported, Types, loadVars
<1>8. ASSUME NEW ch \in Channels, Rest(ch) PROVE Types'
  BY <1>0, <1>8 DEF Rest, Types, loadVars, pageVars
<1>9. CASE Ask
  BY <1>0, <1>9 DEF Ask, Types, loadVars
<1>10. ASSUME NEW m \in Models, NEW ch \in Channels, ReadState(m, ch) PROVE Types'
  <2>1. healthScore[ch] \in Nat
    BY <1>0, ScoreOf
  <2>2. active' \in [Models -> Nat] /\ total' \in [Models -> Nat]
    BY <1>0, <1>10, <2>1 DEF ReadState, Types
  <2> QED
    BY <1>0, <1>10, <2>2 DEF ReadState, Types, loadVars
<1>11. CASE GetStatus
  BY <1>0, <1>11 DEF GetStatus, NoPage, Zero, Types, loadVars
<1>12. CASE Crash
  <2>1. crashes' \in 0..MaxCrashes
    BY <1>0, <1>12, ServerAssumption DEF Crash, Types
  <2> QED
    BY <1>0, <1>12, <2>1 DEF Crash, Forget, NoPage, Zero, Types
<1>13. CASE UNCHANGED vars
  BY <1>0, <1>13 DEF vars, Types, loadVars, pageVars
<1>14. CASE Run
  BY <1>0, <1>14 DEF Run, Types, loadVars, pageVars
<1>15. CASE RunFails
  BY <1>0, <1>15 DEF RunFails, Forget, NoPage, Zero, Types
<1> QED
  BY <1>1, <1>2, <1>3, <1>4, <1>5, <1>6, <1>7, <1>8, <1>9, <1>10, <1>11, <1>12, <1>13,
     <1>14, <1>15
  DEF Next

\* Every step keeps what is said of the loading: a list that was not cut is whole,
\* and an error leaves no models at all.
LEMMA NextLoading == SInv /\ [Next]_vars => Loading'
<1> SUFFICES ASSUME SInv, [Next]_vars PROVE Loading'
  OBVIOUS
<1>0. Types /\ Loading
  BY DEF SInv
<1>1. CASE InitDB \/ InitRedis \/ Refused \/ InitClickHouse \/ NewRiskEngine \/ Restart
  BY <1>0, <1>1, BootSteps DEF Boots, Loading, NoModels, loadVars
<1>2. ASSUME NEW ch \in Channels, ReadChannel(ch) PROVE Loading'
  BY <1>0, <1>2 DEF ReadChannel, Loading, NoModels
<1>3. CASE ChannelsEnd
  BY <1>0, <1>3 DEF ChannelsEnd, Loading, NoModels
<1>4. ASSUME NEW row \in Mapping, ReadMapping(row) PROVE Loading'
  BY <1>0, <1>4 DEF ReadMapping, Loading, NoModels
<1>5. CASE MappingsEnd
  <2>1. models' = NewModels /\ known' = known /\ phase' = "router" /\ allRows' = {}
    BY <1>5 DEF MappingsEnd, Loaded
  <2>2. \A m \in Models : models'[m] \subseteq known'
    BY <1>0, <2>1 DEF NewModels, Loading
  <2>3. ASSUME ~cut' PROVE models' = AllModels
    <3>1. allRows = Channels /\ mapRows = Mapping
      BY <1>0, <1>5, <2>3 DEF MappingsEnd, Loading
    <3> QED
      BY <2>1, <3>1 DEF NewModels, AllModels
  <2> QED
    BY <2>1, <2>2, <2>3 DEF Loading, AllModels
<1>6. CASE LoadFails
  <2>1. models' = NoModels /\ phase' = "router" /\ allRows' = {}
    BY <1>0, <1>6 DEF LoadFails, AfterLoadError, Loaded, Loading
  <2> QED
    BY <2>1 DEF Loading, NoModels
<1>7. CASE UNCHANGED <<phase, loadVars>>
  BY <1>0, <1>7 DEF loadVars, Loading, NoModels, AllModels
<1>8. ASSUME NEW ch \in Channels, NEW ok \in BOOLEAN, NEW latency \in Latencies,
             Reported(ch, ok, latency)
      PROVE  UNCHANGED <<phase, loadVars>>
  BY <1>8 DEF Reported
<1>9. ASSUME NEW ch \in Channels, Rest(ch) PROVE UNCHANGED <<phase, loadVars>>
  BY <1>9 DEF Rest
<1>10. ASSUME NEW m \in Models, NEW ch \in Channels, ReadState(m, ch)
       PROVE  UNCHANGED <<phase, loadVars>>
  BY <1>10 DEF ReadState
<1>11. CASE Crash \/ RunFails
  BY <1>11 DEF Crash, RunFails, Forget, Loading, NoModels
<1>13. CASE Run
  BY <1>0, <1>13 DEF Run, loadVars, Loading, NoModels, AllModels
<1>12. CASE Ask \/ GetStatus \/ UNCHANGED vars
  BY <1>7, <1>12 DEF Ask, GetStatus, vars
<1> QED
  BY <1>1, <1>2, <1>3, <1>4, <1>5, <1>6, <1>7, <1>8, <1>9, <1>10, <1>11, <1>12, <1>13
  DEF Next

\* A step that leaves the page and the models alone keeps what is said of both.
LEMMA PageUnchanged ==
    ASSUME Page, Counting, UNCHANGED <<state, models, pageVars>>, asked => phase' = "serving"
    PROVE  Page' /\ Counting'
<1>1. Page'
  BY DEF Page, pageVars, UsableIn, Zero
<1>2. Counting'
  BY DEF Counting, pageVars, ToRead
<1> QED
  BY <1>1, <1>2

\* So does one that leaves nobody to be answered, whatever becomes of the models.
LEMMA PageIdle ==
    ASSUME ~asked', unread' = {}, active' = Zero, total' = Zero, ever' = {}, steady' = {}
    PROVE  Page' /\ Counting'
<1>1. Page'
  BY DEF Page, Zero
<1>2. ASSUME NEW m \in Models
      PROVE  Tally({}, models'[m], ToRead(m)', ever', steady', active'[m], total'[m])
  BY TallyZero DEF Zero
<1> QED
  BY <1>1, <1>2 DEF Counting

\* Every step keeps the page and its counters.
LEMMA NextPage == SInv /\ [Next]_vars => Page' /\ Counting'
<1> SUFFICES ASSUME SInv, [Next]_vars PROVE Page' /\ Counting'
  OBVIOUS
<1>0. Types /\ Page /\ Counting /\ HInv
  BY DEF SInv
<1>1. CASE InitDB \/ InitRedis \/ Refused \/ InitClickHouse \/ NewRiskEngine \/ Restart
  <2>1. UNCHANGED <<state, models, pageVars>> /\ ~asked
    BY <1>0, <1>1, BootSteps DEF Boots, healthVars, loadVars, Page
  <2> QED
    BY <1>0, <2>1, PageUnchanged
<1>2. ASSUME NEW ch \in Channels, ReadChannel(ch) PROVE Page' /\ Counting'
  BY <1>0, <1>2, PageUnchanged DEF ReadChannel, healthVars, Page
<1>3. CASE ChannelsEnd
  BY <1>0, <1>3, PageUnchanged DEF ChannelsEnd, healthVars, Page
<1>4. ASSUME NEW row \in Mapping, ReadMapping(row) PROVE Page' /\ Counting'
  BY <1>0, <1>4, PageUnchanged DEF ReadMapping, healthVars, Page
<1>5. CASE MappingsEnd \/ LoadFails
  BY <1>0, <1>5, PageIdle DEF MappingsEnd, LoadFails, Page, pageVars
<1>6. ASSUME NEW ch \in Channels, NEW ok \in BOOLEAN, NEW latency \in Latencies,
             Reported(ch, ok, latency)
      PROVE  Page' /\ Counting'
  <2>1. CASE ~asked
    BY <1>0, <1>6, <2>1, PageIdle DEF Reported, Page
  <2>2. CASE asked
    <3>1. /\ phase' = phase /\ UNCHANGED <<models, asked, unread, active, total>>
          /\ ever' = ever \cup {c \in Channels : UsableIn(state', c)}
          /\ steady' = {c \in steady : UsableIn(state', c)}
      BY <1>6, <2>2 DEF Reported, loadVars
    <3>2. Page'
      BY <1>0, <2>2, <3>1 DEF Page
    <3>3. Counting'
      <4> SUFFICES ASSUME NEW m \in Models
                   PROVE  \E G \in SUBSET Channels :
                             Tally(G, models'[m], ToRead(m)', ever', steady',
                                   active'[m], total'[m])
        BY DEF Counting
      <4>1. PICK G \in SUBSET Channels :
                Tally(G, models[m], ToRead(m), ever, steady, active[m], total[m])
        BY <1>0 DEF Counting
      <4>2. ToRead(m)' = ToRead(m) /\ ever \subseteq ever' /\ steady' \subseteq steady
        BY <3>1 DEF ToRead
      <4>3. Tally(G, models[m], ToRead(m), ever', steady', active[m], total[m])
        BY <4>1, <4>2, TallyLater
      <4> QED
        BY <3>1, <4>2, <4>3
    <3> QED
      BY <3>2, <3>3
  <2> QED
    BY <2>1, <2>2
<1>7. ASSUME NEW ch \in Channels, Rest(ch) PROVE Page' /\ Counting'
  BY <1>0, <1>7, PageUnchanged DEF Rest, TimePasses, loadVars, Page
<1>8. CASE Ask
  <2>1. /\ phase = "serving" /\ phase' = "serving" /\ asked' = TRUE
        /\ unread' = {row \in Models \X Channels : row[2] \in models[row[1]]}
        /\ ever' = {ch \in Channels : UsableIn(state, ch)} /\ steady' = ever'
        /\ UNCHANGED <<state, models, active, total>>
        /\ active = Zero /\ total = Zero
    BY <1>0, <1>8 DEF Ask, healthVars, loadVars, Page
  <2>2. Page'
    BY <2>1 DEF Page
  <2>3. ASSUME NEW m \in Models
        PROVE  Tally({}, models'[m], ToRead(m)', ever', steady', active'[m], total'[m])
    <3>1. models'[m] \cap steady' \subseteq ToRead(m)'
      BY <2>1 DEF ToRead
    <3> QED
      BY <2>1, <3>1, TallyZero DEF Zero
  <2> QED
    BY <2>2, <2>3 DEF Counting
<1>9. ASSUME NEW m \in Models, NEW ch \in Channels, ReadState(m, ch)
      PROVE  Page' /\ Counting'
  <2>1. /\ asked /\ <<m, ch>> \in unread /\ ch \in models[m]
        /\ unread' = unread \ {<<m, ch>>}
        /\ UNCHANGED <<state, phase, models, asked, ever, steady>>
    BY <1>0, <1>9 DEF ReadState, healthVars, loadVars, Page
  <2>2. Page'
    BY <1>0, <2>1 DEF Page
  <2>3. Counting'
    <3> SUFFICES ASSUME NEW n \in Models
                 PROVE  \E G \in SUBSET Channels :
                           Tally(G, models'[n], ToRead(n)', ever', steady',
                                 active'[n], total'[n])
      BY DEF Counting
    <3>1. PICK G \in SUBSET Channels :
              Tally(G, models[n], ToRead(n), ever, steady, active[n], total[n])
      BY <1>0 DEF Counting
    <3>2. CASE n # m
      <4>1. ToRead(n)' = ToRead(n)
        BY <2>1, <3>2 DEF ToRead
      <4>2. active'[n] = active[n] /\ total'[n] = total[n]
        BY <1>0, <1>9, <3>2 DEF ReadState, Types
      <4> QED
        BY <2>1, <3>1, <4>1, <4>2
    <3>3. CASE n = m
      <4>1. ToRead(n)' = ToRead(n) \ {ch} /\ ch \in ToRead(n)
        BY <2>1, <3>3 DEF ToRead
      <4>2. CASE UsableIn(state, ch)
        <5>1. active'[n] = active[n] + 1 /\ total'[n] = total[n] + healthScore[ch]
          BY <1>0, <1>9, <3>3, <4>2 DEF ReadState, Types
        <5>2. ch \in ever
          BY <1>0, <2>1, <4>2 DEF Page
        <5>3. /\ G \cup {ch} \in SUBSET Channels
              /\ Tally(G \cup {ch}, models[n], ToRead(n) \ {ch}, ever, steady,
                       active[n] + 1, total[n] + healthScore[ch])
          <6>1. active[n] \in Nat /\ total[n] \in Nat /\ healthScore[ch] \in 0..100
            BY <1>0, ScoreOf DEF Types
          <6>2. ch \in models[n] /\ IsFiniteSet(Channels)
            BY <2>1, <3>3, ServerAssumption
          <6> QED
            BY <3>1, <4>1, <5>2, <6>1, <6>2, TallyCounts
        <5> QED
          BY <2>1, <4>1, <5>1, <5>3
      <4>3. CASE ~UsableIn(state, ch)
        <5>1. active' = active /\ total' = total
          BY <1>9, <4>3 DEF ReadState
        <5>2. ch \notin steady
          BY <1>0, <2>1, <4>3 DEF Page
        <5>3. Tally(G, models[n], ToRead(n) \ {ch}, ever, steady, active[n], total[n])
          BY <3>1, <5>2, TallySkips
        <5> QED
          BY <2>1, <4>1, <5>1, <5>3
      <4> QED
        BY <4>2, <4>3
    <3> QED
      BY <3>2, <3>3
  <2> QED
    BY <2>2, <2>3
<1>10. CASE GetStatus
  BY <1>10, PageIdle DEF GetStatus, NoPage
<1>11. CASE Crash \/ RunFails
  BY <1>11, PageIdle DEF Crash, RunFails, Forget, NoPage
<1>13. CASE Run
  BY <1>0, <1>13, PageUnchanged DEF Run, healthVars, loadVars, Page
<1>12. CASE UNCHANGED vars
  BY <1>0, <1>12, PageUnchanged DEF vars, healthVars, loadVars, Page
<1> QED
  BY <1>1, <1>2, <1>3, <1>4, <1>5, <1>6, <1>7, <1>8, <1>9, <1>10, <1>11, <1>12, <1>13
  DEF Next

----------------------------------------------------------------------------
\* An average that is not below 80 is not rounded up from below.
LEMMA DivAtLeast ==
    ASSUME NEW x \in Int, NEW n \in Nat \ {0}, x \div n >= 80
    PROVE  x >= 80 * n
OBVIOUS

\* The invariant holds throughout every behaviour, crashes and restarts included.
THEOREM Invariant == Spec => []SInv
<1>1. Init => SInv
  BY InitSInv
<1>2. SInv /\ [Next]_vars => SInv'
  BY NextHealth, NextTypes, NextLoading, NextPage DEF SInv
<1> QED
  BY <1>1, <1>2, PTL DEF Spec

\* Every variable keeps its type, and a model never counts more active channels
\* than there are.
THEOREM TypeCorrect == Spec => []ServerTypeOK
<1>1. ASSUME SInv PROVE ServerTypeOK
  <2>1. HealthTypeOK /\ Types /\ Loading /\ Counting
    BY <1>1 DEF SInv, HInv
  <2>2. active \in [Models -> 0..Cardinality(Channels)]
    <3>1. ASSUME NEW m \in Models PROVE active[m] \in 0..Cardinality(Channels)
      <4>1. PICK G \in SUBSET Channels :
                Tally(G, models[m], ToRead(m), ever, steady, active[m], total[m])
        BY <2>1 DEF Counting
      <4>2. Cardinality(G) <= Cardinality(Channels) /\ Cardinality(Channels) \in Nat
        BY ServerAssumption, FS_Subset, FS_CardinalityType
      <4>3. active[m] \in Nat /\ active[m] = Cardinality(G)
        BY <2>1, <4>1 DEF Tally, Types
      <4> QED
        BY <4>2, <4>3
    <3> QED
      BY <2>1, <3>1 DEF Types
  <2>3. phase \notin {"router", "serving"} => models = [m \in Models |-> {}]
    BY <2>1 DEF Loading, NoModels
  <2> QED
    BY <2>1, <2>2, <2>3 DEF Types, ServerTypeOK
<1> QED
  BY <1>1, Invariant, PTL

\* Whatever fails or dies while channels are loaded, a gateway that serves has all
\* of them or none, unless a list of rows ended early; and none that the health
\* manager does not know.
THEOREM ServesAllOrNothing == Spec => []AllOrNothing
<1>1. SInv => AllOrNothing
  BY DEF SInv, Loading, AllOrNothing, NoModels, AllModels
<1> QED
  BY <1>1, Invariant, PTL

\* The status page, read channel by channel while requests report on them, claims
\* nothing that was true at no moment.
THEOREM StatusIsTruthful == Spec => []StatusIsRegular
<1>1. ASSUME SInv, asked, unread = {}, NEW m \in Models, models[m] # {}
      PROVE  LET good == models[m] \cap ever IN
             /\ Colour(m) = "red" => models[m] \cap steady = {}
             /\ Colour(m) # "red" => good # {}
             /\ Colour(m) = "green" => 5 * Cardinality(good) >= 4 * Cardinality(models[m])
  <2> DEFINE good == models[m] \cap ever
             size == Cardinality(models[m])
  <2>1. PICK G \in SUBSET Channels :
            Tally(G, models[m], ToRead(m), ever, steady, active[m], total[m])
    BY <1>1 DEF SInv, Counting
  <2>2. ToRead(m) = {}
    BY <1>1 DEF ToRead
  <2>3. /\ G \subseteq good /\ models[m] \cap steady \subseteq G
        /\ Cardinality(G) = active[m] /\ total[m] <= 100 * active[m]
    BY <2>1, <2>2 DEF Tally
  <2>4. /\ models[m] \subseteq Channels /\ active[m] \in Nat /\ total[m] \in Nat
    BY <1>1 DEF SInv, Types
  <2>5. /\ IsFiniteSet(models[m]) /\ IsFiniteSet(good) /\ IsFiniteSet(G)
        /\ Cardinality(G) <= Cardinality(good)
    BY <2>3, <2>4, ServerAssumption, FS_Subset
  <2>6. size \in Nat \ {0} /\ Cardinality(good) \in Nat
    BY <1>1, <2>5, FS_CardinalityType, FS_EmptySet
  <2>7. active[m] = 0 <=> G = {}
    BY <2>3, <2>5, FS_EmptySet
  <2>8. Colour(m) = "red" <=> active[m] = 0
    BY DEF Colour
  <2>9. Colour(m) = "red" => models[m] \cap steady = {}
    BY <2>3, <2>7, <2>8
  <2>10. Colour(m) # "red" => good # {}
    BY <2>3, <2>7, <2>8
  <2>11. ASSUME Colour(m) = "green"
         PROVE  5 * Cardinality(good) >= 4 * size
    <3>1. total[m] \div size >= 80
      BY <2>11 DEF Colour, Average
    <3>2. total[m] >= 80 * size
      <4>1. total[m] \in Int
        BY <2>4
      <4> HIDE DEF size
      <4> QED
        BY <2>6, <3>1, <4>1, DivAtLeast
    <3> QED
      BY <2>3, <2>4, <2>5, <2>6, <3>2
  <2> QED
    BY <2>9, <2>10, <2>11
<1>2. ASSUME SInv, asked, unread = {}, Overall = "operational"
      PROVE  \A m \in Listed : models[m] \cap ever # {}
  BY <1>1, <1>2 DEF Overall, Listed
<1>3. SInv => StatusIsRegular
  BY <1>1, <1>2 DEF StatusIsRegular, Listed
<1> QED
  BY <1>3, Invariant, PTL

\* A model none of whose channels became usable, or ceased to be, since the page was
\* asked for is counted exactly: whatever other channels do meanwhile, active is the
\* number of its channels that are usable, and it is red if there is none.
ExactIfCalm ==
    asked /\ unread = {} =>
        \A m \in Listed :
            LET usable == {ch \in models[m] : UsableIn(state, ch)} IN
            models[m] \cap ever \subseteq steady =>
                /\ active[m] = Cardinality(usable)
                /\ Colour(m) = "red" <=> usable = {}

\* Reading the channels one lock at a time costs no accuracy unless they change.
THEOREM CalmPageIsExact == Spec => []ExactIfCalm
<1>1. ASSUME SInv, asked, unread = {}, NEW m \in Models,
             models[m] \cap ever \subseteq steady
      PROVE  LET usable == {ch \in models[m] : UsableIn(state, ch)} IN
             /\ active[m] = Cardinality(usable)
             /\ Colour(m) = "red" <=> usable = {}
  <2> DEFINE usable == {ch \in models[m] : UsableIn(state, ch)}
  <2>1. PICK G \in SUBSET Channels :
            Tally(G, models[m], ToRead(m), ever, steady, active[m], total[m])
    BY <1>1 DEF SInv, Counting
  <2>2. models[m] \subseteq Channels
    BY <1>1 DEF SInv, Types
  <2>3. usable = models[m] \cap ever
    BY <1>1, <2>2 DEF SInv, Page
  <2>4. G = usable
    BY <1>1, <2>1, <2>3 DEF Tally, ToRead
  <2>5. active[m] = Cardinality(usable)
    BY <2>1, <2>4 DEF Tally
  <2>6. IsFiniteSet(usable)
    BY <2>2, ServerAssumption, FS_Subset
  <2>7. active[m] = 0 <=> usable = {}
    BY <2>5, <2>6, FS_EmptySet
  <2> QED
    BY <2>5, <2>7 DEF Colour
<1>2. SInv => ExactIfCalm
  BY <1>1 DEF ExactIfCalm, Listed
<1> QED
  BY <1>2, Invariant, PTL

\* failureCount and the trimmed window tell the same story also across restarts:
\* the next process starts both anew.
THEOREM CountHoldsAcrossRestarts == Spec => []ConsecutiveFailures
<1>1. SInv => ConsecutiveFailures
  BY DEF SInv, HInv
<1> QED
  BY <1>1, Invariant, PTL
=============================================================================
