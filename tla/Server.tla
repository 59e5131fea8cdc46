------------------------------- MODULE Server -------------------------------
(***************************************************************************)
(* The life of the process: start-up in cmd/server/main.go, the channel    *)
(* service that loads the channels then (internal/router/channel_service), *)
(* and the public status page while requests report on the channels.       *)
(*                                                                         *)
(* PostgreSQL, Redis and ClickHouse are external: a connection attempt or  *)
(* a query succeeds or fails.  All the process knows is in memory; when it *)
(* dies the container is started again (restart: always) and everything is *)
(* read anew, the health of the channels included.                         *)
(***************************************************************************)
EXTENDS HealthManager

CONSTANTS
    Models,     \* logical model names
    Mapping,    \* the rows of model_channels
    MaxCrashes  \* bound: crashes of a behaviour

ASSUME ServerAssumption ==
    /\ Mapping \subseteq Models \X Channels
    /\ IsFiniteSet(Channels) /\ IsFiniteSet(Models)
    /\ MaxCrashes \in Nat

VARIABLES
    phase,     \* where main is; "down" between two processes
    allRows,   \* local variable allChannels: rows of channels read so far
    mapRows,   \* rows of model_channels read so far
    known,     \* HealthManager.channels
    models,    \* ChannelService.modelChannels
    cut,       \* history: a list of rows ended early and was taken as complete
    crashes,   \* history: crashes so far
    asked,     \* a request for the status page is being answered
    unread,    \* rows of modelChannels GetAllModelsStatus has still to read
    active,    \* its activeCount, per model
    total,     \* its totalScore, per model
    ever,      \* history: channels usable at some moment since the request began
    steady     \* history: channels usable at every moment since

loadVars == <<allRows, mapRows, known, models, cut>>
pageVars == <<asked, unread, active, total, ever, steady>>
vars == <<healthVars, phase, loadVars, crashes, pageVars>>

Zero == [m \in Models |-> 0]

Init ==
    /\ HealthInit
    /\ phase = "postgres"
    /\ allRows = {} /\ mapRows = {} /\ known = {}
    /\ models = [m \in Models |-> {}]
    /\ cut = FALSE /\ crashes = 0
    /\ asked = FALSE /\ unread = {} /\ active = Zero /\ total = Zero
    /\ ever = {} /\ steady = {}

NoPageButCounts ==
    /\ asked' = FALSE /\ unread' = {} /\ UNCHANGED <<active, total>>
    /\ ever' = {} /\ steady' = {}

\* The answer is out, or its process is gone.
NoPage ==
    /\ asked' = FALSE /\ unread' = {} /\ active' = Zero /\ total' = Zero
    /\ ever' = {} /\ steady' = {}

\* The memory of a process is gone; what the next one finds in the columns
\* health_score and state is what this one found.
Forget ==
    /\ window' = [ch \in Channels |-> <<>>]
    /\ healthScore' = InitialHealth
    /\ state' = InitialState
    /\ failureCount' = [ch \in Channels |-> 0]
    /\ quiet' = [ch \in Channels |-> TRUE]
    /\ allRows' = {} /\ mapRows' = {} /\ known' = {}
    /\ models' = [m \in Models |-> {}] /\ cut' = FALSE
    /\ NoPage

----------------------------------------------------------------------------
(***************************************************************************)
(* main: PostgreSQL and Redis are needed, ClickHouse and the rules are     *)
(* not.  log.Fatalf ends the process.                                      *)
(***************************************************************************)
Connected(db, next) ==
    /\ phase = db
    /\ phase' = next
    /\ UNCHANGED <<healthVars, loadVars, crashes, pageVars>>

InitDB == Connected("postgres", "redis")
InitRedis == Connected("redis", "clickhouse")

Refused ==
    /\ phase \in {"postgres", "redis"} /\ phase' = "down"
    /\ UNCHANGED <<healthVars, loadVars, crashes, pageVars>>

WithoutIsFatal(next) == "down"
Without(next) == next

\* A part that cannot be set up is done without: AuditLog and RiskControl say
\* what becomes of the entries and the rules then.
Optional(part, next) ==
    /\ phase = part
    /\ phase' \in {next, Without(next)}
    /\ UNCHANGED <<healthVars, loadVars, crashes, pageVars>>

InitClickHouse == Optional("clickhouse", "rules")
NewRiskEngine == Optional("rules", "channels")

----------------------------------------------------------------------------
(***************************************************************************)
(* LoadAllChannels.  A channel is in the HealthManager once its row was    *)
(* read; the models get theirs at the end.                                 *)
(***************************************************************************)
ReadChannel(ch) ==
    /\ phase = "channels" /\ ch \notin allRows
    /\ allRows' = allRows \cup {ch}
    /\ known' = known \cup {ch}
    /\ UNCHANGED <<healthVars, phase, mapRows, models, cut, crashes, pageVars>>

\* rows.Next is false after the last row, and also once the connection is lost:
\* rows.Err is not looked at.
ChannelsEnd ==
    /\ phase = "channels" /\ phase' = "mappings"
    /\ cut' = (allRows # Channels)
    /\ UNCHANGED <<healthVars, allRows, mapRows, known, models, crashes, pageVars>>

ReadMapping(row) ==
    /\ phase = "mappings" /\ row \notin mapRows
    /\ mapRows' = mapRows \cup {row}
    /\ UNCHANGED <<healthVars, phase, allRows, known, models, cut, crashes, pageVars>>

\* newModelChannels: mappings of channels that were not read are left out.
NewModels == [m \in Models |-> {ch \in allRows : <<m, ch>> \in mapRows}]

\* LoadAllChannels returns, and its local variables are gone.
Loaded ==
    /\ phase' = "router"
    /\ allRows' = {} /\ mapRows' = {}

MappingsEnd ==
    /\ phase = "mappings"
    /\ models' = NewModels
    /\ cut' = (cut \/ mapRows # Mapping)
    /\ Loaded
    /\ UNCHANGED <<healthVars, known, crashes, pageVars>>

\* A query fails, or a row cannot be scanned (a NULL in a nullable column):
\* LoadAllChannels returns an error, main logs it and goes on.
KeepWhatWasRead == NewModels
AfterLoadError == models

LoadFails ==
    /\ \/ phase = "channels"
       \/ phase = "mappings" /\ mapRows # Mapping
    /\ models' = AfterLoadError
    /\ Loaded
    /\ UNCHANGED <<healthVars, known, cut, crashes, pageVars>>

----------------------------------------------------------------------------
(***************************************************************************)
(* The router of gin, which is external: it takes the routes and the port, *)
(* or panics at a route (gin v1.12.0 does at one with two parameters in a  *)
(* segment, as :model and :action are) or returns the error of the port,   *)
(* which is fatal.                                                         *)
(***************************************************************************)
Run ==
    /\ phase = "router" /\ phase' = "serving"
    /\ UNCHANGED <<healthVars, loadVars, crashes, pageVars>>

RunFails ==
    /\ phase = "router" /\ phase' = "down"
    /\ Forget
    /\ UNCHANGED crashes

----------------------------------------------------------------------------
(***************************************************************************)
(* Serving.  Requests report on channels of the models; UpdateScore looks  *)
(* the channel up and does nothing if it is not there.                     *)
(***************************************************************************)
GetChannelsForModel(m) == models[m]

UsableIn(s, ch) == s[ch] \in {"active", "degraded"}

Reported(ch, ok, latency) ==
    /\ phase = "serving"
    /\ \E m \in Models : ch \in GetChannelsForModel(m)
    /\ ch \in known
    /\ Report(ch, ok, latency)
    /\ IF asked
       THEN /\ ever' = ever \cup {c \in Channels : UsableIn(state', c)}
            /\ steady' = {c \in steady : UsableIn(state', c)}
       ELSE UNCHANGED <<ever, steady>>
    /\ UNCHANGED <<phase, loadVars, crashes, asked, unread, active, total>>

Rest(ch) ==
    /\ phase = "serving" /\ TimePasses(ch)
    /\ UNCHANGED <<phase, loadVars, crashes, pageVars>>

\* GET /public/status.
Ask ==
    /\ phase = "serving" /\ ~asked /\ asked' = TRUE
    /\ unread' = {row \in Models \X Channels : row[2] \in models[row[1]]}
    /\ ever' = {ch \in Channels : UsableIn(state, ch)}
    /\ steady' = ever'
    /\ UNCHANGED <<healthVars, phase, loadVars, crashes, active, total>>

\* A model whose channels are partly read is finished before the next one.
Begun(m) == \E row \in unread : row[1] = m /\ \E ch \in models[m] : <<m, ch>> \notin unread

ReadState(m, ch) ==
    /\ asked /\ <<m, ch>> \in unread
    /\ \A other \in Models : Begun(other) => other = m
    /\ unread' = unread \ {<<m, ch>>}
    /\ IF UsableIn(state, ch)
       THEN /\ active' = [active EXCEPT ![m] = @ + 1]
            /\ total' = [total EXCEPT ![m] = @ + healthScore[ch]]
       ELSE UNCHANGED <<active, total>>
    /\ UNCHANGED <<healthVars, phase, loadVars, crashes, asked, ever, steady>>

\* The average is over all channels of the model, a channel that is out counts 0.
AverageOfActive(m) == total[m] \div active[m]
Average(m) == total[m] \div Cardinality(models[m])

Colour(m) ==
    IF active[m] = 0 THEN "red" ELSE IF Average(m) >= 80 THEN "green" ELSE "yellow"

Listed == {m \in Models : models[m] # {}}

\* One red model degrades the whole.
Overall ==
    IF Listed = {} THEN "unknown"
    ELSE IF \E m \in Listed : Colour(m) = "red" THEN "degraded"
    ELSE "operational"

GetStatus ==
    /\ asked /\ unread = {}
    /\ NoPage
    /\ UNCHANGED <<healthVars, phase, loadVars, crashes>>

----------------------------------------------------------------------------
Crash ==
    /\ phase # "down" /\ crashes < MaxCrashes
    /\ crashes' = crashes + 1 /\ phase' = "down"
    /\ Forget

Restart ==
    /\ phase = "down" /\ phase' = "postgres"
    /\ UNCHANGED <<healthVars, loadVars, crashes, pageVars>>

Start ==
    \/ InitClickHouse \/ NewRiskEngine
    \/ ChannelsEnd \/ MappingsEnd \/ LoadFails
    \/ Run \/ RunFails
    \/ Restart

Next ==
    \/ InitDB \/ InitRedis \/ Refused \/ InitClickHouse \/ NewRiskEngine
    \/ \E ch \in Channels : ReadChannel(ch)
    \/ ChannelsEnd
    \/ \E row \in Mapping : ReadMapping(row)
    \/ MappingsEnd \/ LoadFails \/ Run \/ RunFails
    \/ \E ch \in Channels, ok \in BOOLEAN, latency \in Latencies : Reported(ch, ok, latency)
    \/ \E ch \in Channels : Rest(ch)
    \/ Ask
    \/ \E m \in Models, ch \in Channels : ReadState(m, ch)
    \/ GetStatus
    \/ Crash \/ Restart

Spec == Init /\ [][Next]_vars

\* main runs, a container that has ended is started again, and a database that
\* is asked over and over is reached now and then.  ClickHouse need never be, nor
\* need gin ever take the routes and the port.
Fairness == WF_vars(Start) /\ SF_vars(InitDB) /\ SF_vars(InitRedis)

FairSpec == Spec /\ Fairness

----------------------------------------------------------------------------
\* Every variable keeps its type, and only a process that has loaded its channels has
\* models.
ServerTypeOK ==
    /\ HealthTypeOK
    /\ phase \in {"down", "postgres", "redis", "clickhouse", "rules", "channels",
                  "mappings", "router", "serving"}
    /\ allRows \subseteq Channels /\ mapRows \subseteq Mapping /\ known \subseteq Channels
    /\ models \in [Models -> SUBSET Channels]
    /\ cut \in BOOLEAN /\ crashes \in 0..MaxCrashes /\ asked \in BOOLEAN
    /\ unread \subseteq Models \X Channels
    /\ active \in [Models -> 0..Cardinality(Channels)] /\ total \in [Models -> Nat]
    /\ steady \subseteq ever /\ ever \subseteq Channels
    /\ phase \notin {"router", "serving"} => models = [m \in Models |-> {}]

\* Whatever fails while channels and mappings are read, the gateway serves every
\* model with all of its channels or none at all; only a connection that is lost
\* between two rows, which the loop takes for the end, leaves it with some.  Each
\* of them is known to the HealthManager: otherwise its failures would be reported
\* into the void and its circuit never open.
AllOrNothing ==
    /\ phase = "serving" /\ ~cut =>
          \/ models = [m \in Models |-> {}]
          \/ models = [m \in Models |-> {ch \in Channels : <<m, ch>> \in Mapping}]
    /\ \A m \in Models : models[m] \subseteq known

\* The status page belongs to no single moment, as channels are read one lock at
\* a time while requests report on them, but it does not say what was never so:
\* a red model had no channel that was usable all along, one that is not red had
\* a channel that was usable at some moment, a green one had four in five; and
\* an operational gateway had one for every model.
StatusIsRegular ==
    asked /\ unread = {} =>
        /\ \A m \in Listed :
              LET good == models[m] \cap ever IN
              /\ Colour(m) = "red" => models[m] \cap steady = {}
              /\ Colour(m) # "red" => good # {}
              /\ Colour(m) = "green" => 5 * Cardinality(good) >= 4 * Cardinality(models[m])
        /\ Overall = "operational" => \A m \in Listed : models[m] \cap ever # {}

\* After its crashes the gateway serves for good, unless its router or its port
\* refuses it over and over: PostgreSQL or Redis may be away at many starts, and
\* ClickHouse, the rules and the channels at all of them.
ServesUnlessRefused == <>[](phase = "serving") \/ []<><<RunFails>>_vars
=============================================================================
