------------------------------ MODULE Protocols ------------------------------
(***************************************************************************)
(* What becomes of a conversation on its way through the gateway: the      *)
(* conversions of internal/adapter between the three protocols, the        *)
(* prompt's token count (internal/billing/tokenizer.go), the bodies the    *)
(* dispatcher's attempts send, and the input tokens that are billed.       *)
(*                                                                         *)
(* A text stands for itself by its number of tokens, 0 for the empty one.  *)
(* A message of a client has parts: the OpenAI and the Gemini protocol     *)
(* allow several.  Options other than stream are left out.                 *)
(***************************************************************************)
EXTENDS Integers, Sequences

CONSTANTS
    Models,
    EncodingOf,      \* o200k_base for gpt-4o and gpt-4o-mini, else cl100k_base
    Conversations,   \* what clients write: sequences of messages
    MaxAttempts      \* RequestContext.MaxRetries + 1

Protocols == {"openai", "anthropic", "gemini"}
Vocabulary(protocol) ==
    IF protocol = "gemini" THEN {"user", "model"} ELSE {"system", "user", "assistant"}
Roles == UNION {Vocabulary(protocol) : protocol \in Protocols}
Encodings == {EncodingOf[model] : model \in Models}

ClientMessage == [role : Roles, parts : Seq(Nat) \ {<<>>}]
Message == [role : Roles, text : Nat]
Prompt == [role : {"system"}, text : Nat]
Turn == [role : Roles \ {"system"}, text : Nat]
Filled == [role : Roles, text : Nat \ {0}]

ASSUME ProtocolAssumption ==
    /\ Conversations \subseteq Seq(ClientMessage)
    /\ DOMAIN EncodingOf = Models /\ MaxAttempts \in Nat \ {0}

VARIABLES
    pc,
    entry,     \* protocol of the endpoint the client called
    written,   \* the conversation the client wrote
    stream,
    model,
    unified,   \* UnifiedRequest.Messages
    counted,   \* inputTokens, as the tokenizer counts them
    loaded,    \* Tokenizer.encodings
    sent,      \* history: the bodies sent so far and the protocol of each
    usage,     \* history: prompt tokens the answer reports, 0 if it does not
    input      \* inputTokens when the call is billed

requestVars == <<entry, written, stream, model>>
protocolVars == <<pc, requestVars, unified, counted, loaded, sent, usage, input>>

----------------------------------------------------------------------------
(***************************************************************************)
(* Loops over a sequence.                                                  *)
(***************************************************************************)
Map(s, Op(_)) == [i \in DOMAIN s |-> Op(s[i])]

Fold(Op(_, _), base, s) ==
    LET fold[n \in 0..Len(s)] == IF n = 0 THEN base ELSE Op(fold[n - 1], s[n])
    IN  fold[Len(s)]

Total(numbers) == Fold(LAMBDA total, n : total + n, 0, numbers)

\* The elements of that kind, in their order.
Kept(s, kind) ==
    Fold(LAMBDA kept, m : IF m \in kind THEN Append(kept, m) ELSE kept, <<>>, s)

----------------------------------------------------------------------------
(***************************************************************************)
(* To the unified request.                                                 *)
(***************************************************************************)

\* A content of several parts leaves the string field Content empty.
FromOpenAI(s) ==
    Map(s, LAMBDA m : [role |-> m.role, text |-> IF Len(m.parts) = 1 THEN m.parts[1] ELSE 0])

\* The protocol has its system prompt apart; here it is the first message.
FromAnthropic(s) ==
    Kept(Map(s, LAMBDA m : [role |-> m.role, text |-> m.parts[1]]), Turn \cup Filled)

\* Only the first part of a content is kept.
FromGemini(s) ==
    Map(s, LAMBDA m : [role |-> IF m.role = "model" THEN "assistant" ELSE m.role,
                       text |-> m.parts[1]])

ToUnified(protocol, s) ==
    CASE protocol = "openai" -> FromOpenAI(s)
      [] protocol = "anthropic" -> FromAnthropic(s)
      [] protocol = "gemini" -> FromGemini(s)

\* What the body of an endpoint can say: Anthropic's has at most one system
\* prompt, in front, and texts in one piece.
Expressible(protocol, s) ==
    /\ \A i \in DOMAIN s : s[i].role \in Vocabulary(protocol)
    /\ protocol = "anthropic" =>
          \A i \in DOMAIN s : Len(s[i].parts) = 1 /\ (s[i].role = "system" => i = 1)

----------------------------------------------------------------------------
(***************************************************************************)
(* To the body for a provider: its messages, and a system prompt of its    *)
(* own for Anthropic (0 if there is none).                                 *)
(***************************************************************************)
FirstSystemWins(prompt, m) ==
    IF m.role = "system" /\ prompt = 0 THEN m.text ELSE prompt
LastSystemWins(prompt, m) == IF m.role = "system" THEN m.text ELSE prompt

System(s) == Fold(LastSystemWins, 0, s)

Turns(s) == Kept(s, Turn)

GeminiRole(role) ==
    CASE role = "assistant" -> "model"
      [] role = "system" -> "user"
      [] OTHER -> role

ToRequest(protocol, s) ==
    CASE protocol = "openai" -> [messages |-> s, system |-> 0]
      [] protocol = "anthropic" -> [messages |-> Turns(s), system |-> System(s)]
      [] protocol = "gemini" ->
            [messages |-> Map(s, LAMBDA m : [m EXCEPT !.role = GeminiRole(@)]), system |-> 0]

----------------------------------------------------------------------------
(***************************************************************************)
(* Counting.  Every message costs 4 tokens on top of its text, the answer  *)
(* another 3.                                                              *)
(***************************************************************************)
OnlyTurns(m) == IF m.role = "system" THEN 0 ELSE m.text
TextOf(m) == m.text
CountMessages(s) == Total(Map(s, LAMBDA m : TextOf(m) + 4)) + 3

NeedsEncoding(s) == \E i \in DOMAIN s : s[i].text # 0

ProtocolInit ==
    /\ pc = "idle"
    /\ entry = "openai" /\ written = <<>> /\ stream = FALSE /\ model \in Models
    /\ unified = <<>> /\ counted = 0 /\ loaded = {} /\ sent = <<>>
    /\ usage = 0 /\ input = 0

Arrive ==
    /\ pc = "idle" /\ pc' = "count"
    /\ \E protocol \in Protocols, s \in Conversations :
          /\ Expressible(protocol, s)
          /\ entry' = protocol /\ written' = s
          /\ unified' = ToUnified(protocol, s)
    /\ stream' \in BOOLEAN /\ model' \in Models
    /\ UNCHANGED <<counted, loaded, sent, usage, input>>

\* The encoding is there, or it is fetched: for good, or by the second attempt,
\* which does not keep it.
Count ==
    /\ pc = "count" /\ pc' = "send"
    /\ counted' = CountMessages(unified)
    /\ \/ UNCHANGED loaded
       \/ NeedsEncoding(unified) /\ loaded' = loaded \cup {EncodingOf[model]}
    /\ UNCHANGED <<requestVars, unified, sent, usage, input>>

\* Both attempts fail, and the handler drops the error.
Missing == EncodingOf[model] \notin loaded

CountFails ==
    /\ pc = "count" /\ NeedsEncoding(unified) /\ Missing /\ pc' = "send"
    /\ counted' = 0
    /\ UNCHANGED <<requestVars, unified, loaded, sent, usage, input>>

----------------------------------------------------------------------------
MayRetryOnceMore(attempts) == attempts <= MaxAttempts
MayRetry(attempts) == attempts < MaxAttempts

\* One attempt of Dispatcher.Do: a channel of any provider, at most MaxAttempts.
\* The adapters build new messages and leave those of the request alone.
Send(protocol) ==
    /\ pc = "send" /\ MayRetry(Len(sent)) /\ pc' = "answer"
    /\ sent' = Append(sent, [to |-> protocol, body |-> ToRequest(protocol, unified)])
    /\ UNCHANGED <<requestVars, unified, counted, loaded, usage, input>>

Failover ==
    /\ pc = "answer" /\ MayRetry(Len(sent)) /\ pc' = "send"
    /\ UNCHANGED <<requestVars, unified, counted, loaded, sent, usage, input>>

Finish(reported, tokens) ==
    /\ pc' = "done"
    /\ usage' = reported /\ input' = tokens
    /\ UNCHANGED <<requestVars, unified, counted, loaded, sent>>

\* No channel is left, or the last one failed: 503, nothing is billed.
Unavailable == pc \in {"send", "answer"} /\ Finish(0, counted)

\* A stream is billed as counted, and so is an answer that cannot be parsed.
BillCounted ==
    /\ pc = "answer"
    /\ Finish(0, counted)

\* The usage FromResponse finds; an error of the upstream has none, which reads as
\* 0.
Reported(body) == {0, CountMessages(body.messages)}

\* An answer that was not streamed makes up for a prompt that was not counted.
Billed(reported) == IF counted = 0 THEN reported ELSE counted

BillAnswer ==
    /\ pc = "answer" /\ ~stream
    /\ \E reported \in Reported(sent[Len(sent)].body) : Finish(reported, Billed(reported))

Forget ==
    /\ pc = "done" /\ pc' = "idle"
    /\ entry' = "openai" /\ written' = <<>> /\ stream' = FALSE
    /\ unified' = <<>> /\ counted' = 0 /\ sent' = <<>>
    /\ usage' = 0 /\ input' = 0
    /\ UNCHANGED <<model, loaded>>

ProtocolNext ==
    \/ Arrive \/ Count \/ CountFails
    \/ \E protocol \in Protocols : Send(protocol)
    \/ Failover \/ Unavailable \/ BillCounted \/ BillAnswer \/ Forget

ProtocolSpec == ProtocolInit /\ [][ProtocolNext]_protocolVars
----------------------------------------------------------------------------
\* Every variable keeps its type, and at most MaxAttempts bodies are sent.
ProtocolTypeOK ==
    /\ pc \in {"idle", "count", "send", "answer", "done"}
    /\ entry \in Protocols /\ written \in Seq(ClientMessage)
    /\ stream \in BOOLEAN /\ model \in Models
    /\ unified \in Seq([role : {"system", "user", "assistant"}, text : Nat])
    /\ counted \in Nat /\ usage \in Nat /\ input \in Nat
    /\ loaded \subseteq Encodings
    /\ sent \in Seq([to : Protocols, body : [messages : Seq(Message), system : Nat]])
    /\ Len(sent) <= MaxAttempts

\* The conversation as anybody would read it.
Meaning(role) == IF role = "model" THEN "assistant" ELSE role
Said(s) == Map(s, LAMBDA m : [role |-> Meaning(m.role), text |-> m.text])
Wrote == Said(Map(written, LAMBDA m : [role |-> m.role, text |-> m.parts[1]]))
InOnePiece == \A i \in DOMAIN written : Len(written[i].parts) = 1
Spoken(s) == Kept(s, Filled)

\* In each of the nine cells of the protocol matrix, and on every attempt of a
\* failover, a provider gets the turns the client wrote, all of them, in their
\* order, by their speakers and in its own vocabulary, and the client's latest
\* system prompt: unchanged for OpenAI, apart for Anthropic, as a turn of the user
\* for Gemini.  (Contents of several parts are not kept, see README.)
ConversationKept ==
    InOnePiece => \A i \in DOMAIN sent :
        LET heard == sent[i].body.messages
            prompts == Kept(Wrote, Prompt)
        IN  /\ \A j \in DOMAIN heard : heard[j].role \in Vocabulary(sent[i].to)
            /\ sent[i].to = "openai" => Spoken(Said(heard)) = Spoken(Wrote)
            /\ sent[i].to = "anthropic" =>
                  /\ Said(heard) = Turns(Wrote)
                  /\ sent[i].body.system =
                        IF prompts = <<>> THEN 0 ELSE prompts[Len(prompts)].text
            /\ sent[i].to = "gemini" =>
                  Spoken(Said(heard)) =
                    Map(Spoken(Wrote), LAMBDA m :
                          [m EXCEPT !.role = IF @ = "system" THEN "user" ELSE @])

\* What is billed for the prompt covers every body that was sent, and never more
\* than the client wrote, whichever provider answers in the end: the count is made
\* before it is known which of them that is.  A prompt is free only if nobody knows
\* its length: the encoding could not be fetched, now or before, and the answer did
\* not tell.
PromptIsBilled ==
    /\ counted # 0 =>
          /\ \A i \in DOMAIN sent :
                LET body == sent[i].body IN
                CountMessages(body.messages) + body.system <= counted
          /\ counted <= 3 + Total(
                Map(written, LAMBDA m : Total(m.parts) + 4 * Len(m.parts)))
    /\ pc = "done" /\ input = 0 => Missing /\ usage = 0
=============================================================================
