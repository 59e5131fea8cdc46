------------------------------ MODULE AuditLog ------------------------------
(***************************************************************************)
(* The audit trail: LogDispatcher (internal/audit/logger.go) and the end   *)
(* of a call in the handlers of internal/api/v1_chat.go, which settle the  *)
(* bill and then hand the entry over.  One worker takes the entries from a *)
(* bounded channel and inserts them into ClickHouse, which is external.    *)
(***************************************************************************)
EXTENDS Integers, Sequences, FiniteSets

CONSTANTS
    Calls,      \* the calls the gateway serves; each has one entry
    Capacity,   \* bufferSize of NewLogDispatcher, 1000 in main
    Faulty,     \* may an INSERT fail and the process crash?
    None        \* the worker holds no entry

ASSUME AuditAssumption ==
    /\ IsFiniteSet(Calls) /\ None \notin Calls
    /\ Capacity \in Nat \ {0} /\ Faulty \in BOOLEAN

VARIABLES
    stage,      \* where the handler of each call is
    charged,    \* calls whose charge is committed
    connected,  \* clickhouse.GetConn() # nil; set once, at start-up
    offered,    \* history: the calls handed to Log, in that order
    queue,      \* logChan
    writing,    \* entry the worker is inserting
    rows,       \* table call_logs
    lost        \* history: the calls whose entry was given up

queueVars == <<offered, queue, writing, rows, lost>>
vars == <<stage, charged, connected, queueVars>>

Elements(seq) == {seq[i] : i \in DOMAIN seq}
Held == Elements(queue) \cup ({writing} \ {None})

Init ==
    /\ stage = [c \in Calls |-> "open"]
    /\ charged = {}
    /\ connected \in IF Faulty THEN BOOLEAN ELSE {TRUE}
    /\ offered = <<>> /\ queue = <<>> /\ writing = None
    /\ rows = <<>> /\ lost = {}

\* deductAndRecord ran, and charged or not; or Do failed and nothing is due.
Settle(c) ==
    /\ stage[c] = "open"
    /\ stage' = [stage EXCEPT ![c] = "settled"]
    /\ charged' \in {charged, charged \cup {c}}
    /\ UNCHANGED <<connected, queueVars>>

FullTooLate == Len(queue) > Capacity
Full == Len(queue) >= Capacity

EnqueueInFront(c) == queue' = <<c>> \o queue
Enqueue(c) == queue' = Append(queue, c)

\* Log never blocks: an entry that finds the channel full is dropped.
Log(c) ==
    /\ stage[c] = "settled"
    /\ stage' = [stage EXCEPT ![c] = "offered"]
    /\ offered' = Append(offered, c)
    /\ IF Full THEN lost' = lost \cup {c} /\ UNCHANGED queue
       ELSE Enqueue(c) /\ UNCHANGED lost
    /\ UNCHANGED <<charged, connected, writing, rows>>

ReadyIfConnected == writing = None /\ connected
Ready == writing = None

DequeueNot == UNCHANGED queue
Dequeue == queue' = Tail(queue)

\* Without a connection the entry is dropped at once.
Take ==
    /\ Ready /\ queue # <<>>
    /\ Dequeue
    /\ IF connected THEN writing' = Head(queue) /\ UNCHANGED lost
       ELSE lost' = lost \cup {Head(queue)} /\ UNCHANGED writing
    /\ UNCHANGED <<stage, charged, connected, offered, rows>>

Written == rows' = Append(rows, writing) /\ UNCHANGED lost
GivenUp == lost' = lost \cup {writing} /\ UNCHANGED rows

\* An INSERT that fails is not repeated.  (One that took effect but reports an
\* error differs only in what is printed.)
Insert ==
    /\ writing # None
    /\ Written \/ (Faulty /\ GivenUp)
    /\ writing' = None
    /\ UNCHANGED <<stage, charged, connected, offered, queue>>

\* The process dies and starts again: handlers, channel and worker are gone, an
\* INSERT under way took effect or did not.
Crash ==
    /\ Faulty
    /\ stage' = [c \in Calls |-> IF stage[c] = "settled" THEN "dead" ELSE stage[c]]
    /\ \/ rows' = rows /\ lost' = lost \cup Held
       \/ /\ writing # None
          /\ rows' = Append(rows, writing) /\ lost' = lost \cup Elements(queue)
    /\ queue' = <<>> /\ writing' = None
    /\ connected' \in BOOLEAN
    /\ UNCHANGED <<charged, offered>>

\* Every call has been handed over or died with the process, and the worker
\* waits for more.
Idle ==
    /\ \A c \in Calls : stage[c] \in {"offered", "dead"}
    /\ Held = {}
    /\ UNCHANGED vars

Next ==
    \/ \E c \in Calls : Settle(c) \/ Log(c)
    \/ Take
    \/ Insert
    \/ Crash
    \/ Idle

Spec == Init /\ [][Next]_vars

\* Handlers and worker are goroutines; conn.Exec is bounded by the driver's
\* read timeout.
Fairness ==
    /\ WF_vars(Take) /\ WF_vars(Insert)
    /\ \A c \in Calls : WF_vars(Log(c))

FairSpec == Spec /\ Fairness

----------------------------------------------------------------------------
\* Every variable keeps its type and the channel its capacity.
TypeOK ==
    /\ stage \in [Calls -> {"open", "settled", "offered", "dead"}]
    /\ charged \subseteq Calls /\ connected \in BOOLEAN /\ lost \subseteq Calls
    /\ writing \in Calls \cup {None}
    /\ \A seq \in {offered, queue, rows} : Elements(seq) \subseteq Calls
    /\ Len(queue) <= Capacity

Position(c) == CHOOSE i \in DOMAIN offered : offered[i] = c

\* What is stored, being stored and still queued is, in this order, part of what
\* was handed over: no entry is stored twice and none overtakes another, across
\* dropped entries, failed inserts and restarts.
StoredInOrder ==
    LET trail == rows \o (IF writing = None THEN <<>> ELSE <<writing>>) \o queue
    IN  \A i, j \in DOMAIN trail : i < j => Position(trail[i]) < Position(trail[j])

\* Every call that was charged is accounted for exactly once: its handler has
\* yet to log it or died, or its entry is on its way, stored or given up.
ChargedAccounted ==
    \A c \in charged :
        Cardinality({place \in {"handler", "held", "stored", "lost"} :
            CASE place = "handler" -> stage[c] \in {"settled", "dead"}
              [] place = "held" -> c \in Held
              [] place = "stored" -> c \in Elements(rows)
              [] place = "lost" -> c \in lost}) = 1

\* The trail catches up: every entry handed over is some day stored or given up,
\* whatever fails; a failed insert does not hold the ones behind it.
CatchesUp == \A c \in Calls :
    stage[c] = "offered" ~> c \in Elements(rows) \cup lost
=============================================================================
