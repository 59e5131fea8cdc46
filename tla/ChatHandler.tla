----------------------------- MODULE ChatHandler -----------------------------
(***************************************************************************)
(* One call after another in a chat handler (internal/api/v1_chat.go; the  *)
(* three handlers take the same steps): dispatch, forward the answer while *)
(* metering it (internal/upstream/stream.go and the adapters), price and   *)
(* charge it, raise the spend metrics, log it.                             *)
(*                                                                         *)
(* Dispatcher, Wallet, RiskControl and AuditLog detail what is one step    *)
(* here.  The upstream body is external: it sends lines, ends or breaks    *)
(* off.  So is the client: it reads or does not, and leaves when it likes. *)
(* Tokens are counted in chunks of generated text.                         *)
(***************************************************************************)
EXTENDS Integers

CONSTANTS
    Providers,    \* of the channels that may answer
    InputTokens,  \* what CountUnifiedMessagesTokens may return; 0 if it fails
    Usages,       \* prompt and completion tokens an answer may report
    FaultModes,   \* may PostgreSQL and Redis fail during a call?
    EngineModes   \* is there a risk engine?

ASSUME ChatAssumption ==
    /\ Providers \subseteq {"openai", "anthropic", "gemini"}
    /\ InputTokens \subseteq Nat /\ Usages \subseteq Nat
    /\ FaultModes \subseteq BOOLEAN /\ EngineModes \subseteq BOOLEAN

VARIABLES
    pc,
    provider,   \* of the channel that answered
    stream,     \* req.Stream
    ok,         \* the answer is a 2xx: it has generated text
    input,      \* inputTokens
    engine,     \* h.risk # nil: the process has come up with its rules
    faulty,     \* PostgreSQL and Redis may fail during this call
    gone,       \* the client's connection is closed: the context is cancelled
    body,       \* "open", "ended", or "broken" by the upstream or its timeout
    delivered,  \* chunks of a stream's text that were flushed to the client
    metered,    \* chunks in GeneratedText, or CompletionTokens of the answer
    cost,       \* logEntry.CostUSD
    problem,    \* logEntry.ErrorMessage
    charged,    \* what DeductBalance took
    metrics,    \* spend metrics that were raised
    logged      \* the entry was handed to the audit log

answerVars == <<engine, faulty, provider, stream, ok, input>>
forwardVars == <<body, delivered, metered>>
billVars == <<cost, problem, charged, metrics>>
vars == <<pc, answerVars, gone, forwardVars, billVars, logged>>

Goto(label) == pc' = label

Init ==
    /\ pc = "done"
    /\ provider \in Providers /\ stream = FALSE /\ ok = FALSE /\ input = 0
    /\ engine \in EngineModes /\ faulty = FALSE
    /\ gone = FALSE /\ body = "ended" /\ delivered = 0 /\ metered = 0
    /\ cost = 0 /\ problem = "none" /\ charged = 0 /\ metrics = {}
    /\ logged = TRUE

\* A call that passes the balance check, whose model has channels and whose prompt
\* was counted, or could not be.
Arrive ==
    /\ pc = "done" /\ Goto("dispatch")
    /\ faulty' \in FaultModes
    /\ stream' \in BOOLEAN /\ input' \in InputTokens
    /\ ok' = FALSE /\ gone' = FALSE
    /\ body' = "open" /\ delivered' = 0 /\ metered' = 0
    /\ cost' = 0 /\ problem' = "none" /\ charged' = 0 /\ metrics' = {}
    /\ logged' = FALSE
    /\ UNCHANGED <<engine, provider>>

ClientGone ==
    /\ pc # "done" /\ ~gone /\ gone' = TRUE
    /\ UNCHANGED <<pc, answerVars, forwardVars, billVars, logged>>

----------------------------------------------------------------------------
(***************************************************************************)
(* Dispatcher.Do, and the answer.                                          *)
(***************************************************************************)
LogSkipped == "done"
AfterError == "log"

\* 503; there is an entry, but nothing to charge.
Unavailable ==
    /\ pc = "dispatch" /\ Goto(AfterError)
    /\ problem' = "upstream"
    /\ UNCHANGED <<answerVars, gone, forwardVars, cost, charged, metrics, logged>>

\* An answer of any status is forwarded, also the last attempt's 5xx or 429.
Answered ==
    /\ pc = "dispatch"
    /\ provider' \in Providers /\ ok' \in BOOLEAN
    /\ Goto(IF stream THEN "forward" ELSE "proxy")
    /\ UNCHANGED <<engine, faulty, stream, input, gone, forwardVars, billVars, logged>>

----------------------------------------------------------------------------
(***************************************************************************)
(* Forward: one iteration per line.  A line may carry text, in the form    *)
(* its adapter reads, and it may hold what IsStreamEnd looks for; only     *)
(* OpenAI's end marker, a prefix, cannot be on a line with text.           *)
(***************************************************************************)
Lines ==
    {line \in [text : BOOLEAN, mark : BOOLEAN] :
        /\ line.text => ok
        /\ provider = "openai" => ~(line.text /\ line.mark)}

\* GeneratedText is taken from chunks in OpenAI's format: the OpenAI adapter
\* passes them on, the Gemini adapter makes them, the Anthropic adapter passes
\* on Anthropic's events.
Counted(line) == line.text /\ provider # "anthropic"

\* No write has a deadline: one to a client that keeps its connection and does
\* not read waits until it reads or its connection breaks.
WriteBlocks ==
    /\ pc \in {"forward", "proxy"} /\ Goto("blocked")
    /\ UNCHANGED <<answerVars, gone, forwardVars, billVars, logged>>

Writing == stream /\ pc \in {"forward", "blocked"} /\ body = "open"

\* The line is written to the response's buffer, counted, and flushed at the end
\* of the iteration.  A flush that fails is not noticed there, but net/http
\* cancels the context.
ForwardLine ==
    /\ Writing
    /\ \E line \in Lines :
          /\ metered' = metered + (IF Counted(line) THEN 1 ELSE 0)
          /\ \/ delivered' = delivered + (IF line.text THEN 1 ELSE 0) /\ UNCHANGED gone
             \/ gone' = TRUE /\ UNCHANGED delivered
          /\ Goto(IF line.mark THEN "count" ELSE "forward")
    /\ UNCHANGED <<answerVars, body, billVars, logged>>

\* A write that fails cancels the context, too.
WriteFails ==
    /\ Writing /\ gone' = TRUE /\ Goto("count")
    /\ UNCHANGED <<answerVars, forwardVars, billVars, logged>>

\* EOF and every other read error, the client's timeout included, look the same.
BodyEnds ==
    /\ pc = "forward" /\ body = "open"
    /\ body' \in {"ended", "broken"} /\ Goto("count")
    /\ UNCHANGED <<answerVars, gone, delivered, metered, billVars, logged>>

\* c.Stream sees the closed connection.
StreamAbandoned ==
    /\ pc = "forward" /\ gone /\ Goto("count")
    /\ UNCHANGED <<answerVars, gone, forwardVars, billVars, logged>>

\* CountTokens of the text: without its encoding it is 0, and the error ignored.
CountTokens ==
    /\ pc = "count" /\ Goto("price")
    /\ metered' \in {metered, 0}
    /\ UNCHANGED <<answerVars, gone, body, delivered, billVars, logged>>

\* ProxyResponse and FromResponse.  What was read is written, a read error or
\* not, and billed before it is flushed.  What is billed is the usage that a
\* complete body of any status reports, whatever its text is; it also makes up
\* for a prompt that could not be counted.
Proxy ==
    /\ ~stream /\ pc \in {"proxy", "blocked"} /\ Goto("price")
    /\ \/ /\ body' = "ended" /\ metered' \in Usages
          /\ IF input = 0 THEN input' \in Usages ELSE UNCHANGED input
       \/ body' \in {"ended", "broken"} /\ UNCHANGED <<metered, input>>
    /\ gone' \in {gone, TRUE}
    /\ UNCHANGED <<engine, faulty, provider, stream, ok, delivered, billVars, logged>>

----------------------------------------------------------------------------
(***************************************************************************)
(* deductAndRecord, then Log.  Every query uses the request's context.     *)
(***************************************************************************)
Detached == TRUE
ContextAlive == ~gone

NoteNothing(why) == UNCHANGED problem
Note(why) == problem' = why

OwesAlways(c) == TRUE
Owes(c) == c > 0

Price ==
    /\ pc = "price"
    /\ \/ /\ ContextAlive
          /\ cost' = input + metered
          /\ Goto(IF Owes(cost') THEN "deduct" ELSE "log")
          /\ UNCHANGED problem
       \/ /\ problem' = (IF gone THEN "cancelled" ELSE "no_price")
          /\ Goto("log")
          /\ UNCHANGED cost
    /\ UNCHANGED <<answerVars, gone, forwardVars, charged, metrics, logged>>

OnlyIfCharged == IF engine /\ problem' = "none" THEN "daily" ELSE "log"
AfterCharge == IF engine THEN "daily" ELSE "log"

\* The answer of a commit is lost when its connection breaks, or when the client
\* leaves while it is under way.
Deduct ==
    /\ pc = "deduct"
    /\ \/ ContextAlive /\ charged' = cost /\ UNCHANGED <<problem, gone>>
       \/ Note(IF gone THEN "cancelled" ELSE "balance") /\ UNCHANGED <<charged, gone>>
       \/ /\ ContextAlive /\ Note("deduct") /\ charged' = cost
          /\ \/ faulty /\ UNCHANGED gone
             \/ gone' = TRUE
    /\ Goto(AfterCharge)
    /\ UNCHANGED <<answerVars, forwardVars, cost, metrics, logged>>

\* Raised whether or not the charge succeeded.
Record(label, metric, next) ==
    /\ pc = label
    /\ \/ ContextAlive /\ metrics' = metrics \cup {metric}
       \/ (gone \/ faulty) /\ UNCHANGED metrics
    /\ Goto(next)
    /\ UNCHANGED <<answerVars, gone, forwardVars, cost, problem, charged, logged>>

RecordDaily == Record("daily", "daily_spend_cny", "minute")
RecordMinute == Record("minute", "spend_per_minute", "log")

Log ==
    /\ pc = "log" /\ logged' = TRUE
    /\ Goto("done")
    /\ UNCHANGED <<answerVars, gone, forwardVars, billVars>>

\* What the goroutine does by itself.  It waits for a client that does not read,
\* and for an encoding that is being downloaded.
Handle ==
    /\ pc # "blocked"
    /\ \/ Unavailable \/ Answered
       \/ ForwardLine \/ WriteFails \/ WriteBlocks \/ StreamAbandoned
       \/ metered = 0 /\ CountTokens
       \/ Proxy \/ Price \/ Deduct \/ RecordDaily \/ RecordMinute \/ Log

Next ==
    \/ Arrive \/ ClientGone
    \/ Unavailable \/ Answered
    \/ ForwardLine \/ WriteFails \/ WriteBlocks \/ BodyEnds \/ StreamAbandoned
    \/ CountTokens \/ Proxy
    \/ Price \/ Deduct \/ RecordDaily \/ RecordMinute \/ Log

Spec == Init /\ [][Next]_vars

\* The goroutine runs, and the HTTP client's timeout covers the body as well:
\* 60 s after the request was sent each read of it fails.
Fairness == WF_vars(Handle) /\ SF_vars(BodyEnds)

FairSpec == Spec /\ Fairness

----------------------------------------------------------------------------
\* Every variable keeps its type; what is at the wallet has a cost, and text only
\* comes with a good answer.
TypeOK ==
    /\ pc \in {"dispatch", "forward", "proxy", "blocked", "count", "price", "deduct",
               "daily", "minute", "log", "done"}
    /\ provider \in Providers /\ engine \in BOOLEAN /\ faulty \in BOOLEAN
    /\ stream \in BOOLEAN /\ ok \in BOOLEAN /\ gone \in BOOLEAN /\ logged \in BOOLEAN
    /\ body \in {"open", "ended", "broken"}
    /\ input \in InputTokens \cup Usages \cup {0}
    /\ delivered \in Nat /\ metered \in Nat /\ cost \in Nat /\ charged \in Nat
    /\ problem \in {"none", "upstream", "no_price", "cancelled", "balance", "deduct"}
    /\ metrics \subseteq {"daily_spend_cny", "spend_per_minute"}
    /\ pc \in {"deduct", "daily", "minute"} => cost > 0
    /\ ~ok \/ ~stream => delivered = 0

\* Nobody pays for streamed text that was not flushed to them: text is counted
\* before its flush and a flush may fail unnoticed, but then the context of the
\* charge is cancelled.  Whenever the client leaves or the upstream breaks off,
\* the charge is at most the prompt and the delivered text.
ChargedIsDelivered == stream => charged <= input + delivered

\* The audit entry tells what happened to the customer's money: an entry with a
\* cost and without an error is one that was charged, in full; what was charged
\* is the entry's cost; and an error is never noted on a charge, unless the
\* answer to the commit was lost, with the database or with the client.
EntryTellsCharge ==
    pc = "done" =>
        /\ charged \in {0, cost}
        /\ problem = "none" => charged = cost
        /\ problem # "none" /\ charged > 0 => problem = "deduct" /\ (faulty \/ gone)

\* Spend reaches the limits: a call with a cost raises both metrics, the daily and
\* the one per minute, whether or not its charge was covered, unless its client
\* left or Redis failed on the way; a call without a cost, or in a gateway that
\* came up without its rules, raises none.
SpendReachesLimits ==
    pc = "done" =>
        /\ cost > 0 /\ engine /\ ~gone /\ ~faulty =>
              metrics = {"daily_spend_cny", "spend_per_minute"}
        /\ cost = 0 \/ ~engine => metrics = {}

\* Every call that arrives is logged in the end: dispatch failures, broken
\* streams, failed charges and clients that left included.  All that can hold it
\* up for ever is a client that does not read, and the download of an encoding.
EveryCallIsLogged == ~logged ~> logged \/ [](pc \in {"blocked", "count"})

=============================================================================
