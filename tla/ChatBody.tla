------------------------------ MODULE ChatBody ------------------------------
(***************************************************************************)
(* What the gateway reads out of a chat.completions body: the cache policy *)
(* and key (internal/cache), the reservation (internal/budget/estimator.go *)
(* and internal/pricing), and the request each adapter makes of it         *)
(* (translate.go, streamusage.go).  Each reads the same bytes on its own,  *)
(* and nothing but these definitions keeps them in step.                   *)
(*                                                                         *)
(* A body is a record with the field names of the wire.  A text is a       *)
(* sequence of letters, a content field is a bare string or an array of    *)
(* typed parts, an absent number is None, temperatures are in tenths and   *)
(* money is in millionths of a dollar.  A body is unreadable when a field  *)
(* has the wrong JSON type.                                                *)
(***************************************************************************)
EXTENDS Integers, Sequences, SequencesExt, Sums

CONSTANTS
    InputPerMTok, OutputPerMTok   \* the price of the routed model

ASSUME PriceAssumption == InputPerMTok \in Nat /\ OutputPerMTok \in Nat

None == -1

\* The fields of the wire.
Message == [role: STRING,
            content: [form: STRING, parts: Seq([type: STRING, text: Seq(STRING)])]]
Body ==
    [readable: BOOLEAN, model: STRING, messages: Seq(Message), temperature: Int, top_p: Int,
     tools: STRING, seed: Int, logprobs: BOOLEAN, n: Int,
     max_tokens: Int, max_completion_tokens: Int,
     stop: [bare: BOOLEAN, words: Seq(STRING)],
     stream: BOOLEAN, stream_options: STRING, user: STRING, metadata: STRING]

\* The text parts of a content field, joined; a bare string is one of them.
textOf(content) ==
    JoinTo([i \in DOMAIN content.parts |->
               IF content.parts[i].type = "text" THEN content.parts[i].text ELSE <<>>],
           Len(content.parts))

-----------------------------------------------------------------------------
(* internal/cache: policy, key and prompt *)

hasContent(field) == field \notin {"absent", "null", "empty"}

\* The policy that refuses the body, or "".
Eligible(b, maxTemperature) ==
    CASE ~b.readable                              -> "unparsable_request"
      [] hasContent(b.tools)                      -> "tool_use"
      [] b.seed # None                            -> "seeded"
      [] b.logprobs \/ b.n > 1                    -> "unsupported_options"
      [] b.temperature = None
         \/ b.temperature > maxTemperature        -> "temperature_too_high"
      [] OTHER                                    -> ""

\* Mutant: the caps are taken for bookkeeping too.
unhashedFields_Caps ==
    {"stream", "stream_options", "user", "metadata", "max_tokens", "max_completion_tokens"}

unhashedFields == {"stream", "stream_options", "user", "metadata"}

canonicalize(b) == [f \in DOMAIN b \ unhashedFields |-> b[f]]

\* SHA-256 is taken to be injective.  A body that Eligible could read decodes here too.
BuildKey(tenant, model, b) ==
    [tenant |-> tenant, model |-> model, hash |-> <<model, canonicalize(b)>>]

contentText(content) == textOf(content)
decodeMessages(b) ==
    IF b.readable
    THEN [i \in DOMAIN b.messages |-> [role |-> b.messages[i].role,
                                       text |-> contentText(b.messages[i].content)]]
    ELSE <<>>

\* One line for each turn.
PromptText(b) ==
    FoldLeft(LAMBDA acc, m : acc \o (IF acc = <<>> THEN <<>> ELSE <<"\n">>) \o <<m.role, ":">> \o m.text,
             <<>>, decodeMessages(b))

-----------------------------------------------------------------------------
(* internal/budget/estimator.go and internal/pricing *)

charsPerToken == 4
messageOverheadTokens == 4
unreadableBodyFloorTokens == 1024
fallbackCompletionTokens == 1024

tokensForChars(chars) == (chars + charsPerToken - 1) \div charsPerToken

Chars(b) ==
    SumTo([i \in DOMAIN b.messages |-> Len(textOf(b.messages[i].content))], Len(b.messages))

promptTokens(b) ==
    SumTo([i \in DOMAIN b.messages |->
              messageOverheadTokens + tokensForChars(Len(textOf(b.messages[i].content)))],
          Len(b.messages))

\* The bytes of the body are taken to be those of its texts.
unreadablePromptTokens(b) ==
    LET n == messageOverheadTokens + tokensForChars(Chars(b))
    IN  IF n < unreadableBodyFloorTokens THEN unreadableBodyFloorTokens ELSE n

\* Both spellings, and what is not a cap left out.
Caps(b) == {c \in {b.max_tokens, b.max_completion_tokens} : c > 0}

\* The smaller one binds; zero when there is none.
requestedCompletionCap(b) ==
    IF Caps(b) = {} THEN 0 ELSE CHOOSE c \in Caps(b) : \A d \in Caps(b) : c <= d

\* The binary sets no operator's ceiling.
completionTokens(requested) == IF requested <= 0 THEN fallbackCompletionTokens ELSE requested

clampTokens(n) == IF n < 0 THEN 0 ELSE n
costUSD(prompt, completion) ==
    clampTokens(prompt) * InputPerMTok + clampTokens(completion) * OutputPerMTok

Estimate(b) ==
    LET prompt == IF b.readable THEN promptTokens(b) ELSE unreadablePromptTokens(b)
        completion == completionTokens(IF b.readable THEN requestedCompletionCap(b) ELSE 0)
    IN  [prompt |-> prompt, completion |-> completion, usd |-> costUSD(prompt, completion)]

-----------------------------------------------------------------------------
(* The adapters *)

stopSequences(stop) == IF stop.bare /\ stop.words = <<"">> THEN <<>> ELSE stop.words

Instructs(m) == m.role \in {"system", "developer"}
Instructions(messages) ==
    SelectSeq([i \in DOMAIN messages |->
                  IF Instructs(messages[i]) THEN textOf(messages[i].content) ELSE <<>>],
              LAMBDA t : t # <<>>)
Turns(messages) == SelectSeq(messages, LAMBDA m : ~Instructs(m))

defaultMaxTokens == 4096

\* Mutant: only the older spelling is read.
maxTokens_OldSpelling(b) == IF b.max_tokens # None THEN b.max_tokens ELSE defaultMaxTokens

maxTokens(b) ==
    IF b.max_tokens # None THEN b.max_tokens
    ELSE IF b.max_completion_tokens # None THEN b.max_completion_tokens
    ELSE defaultMaxTokens

\* What Anthropic is sent: turns as they came, the instructions apart.
messagesRequest(b, model, stream) ==
    [model |-> model, messages |-> Turns(b.messages), system |-> Instructions(b.messages),
     max_tokens |-> maxTokens(b), temperature |-> b.temperature, top_p |-> b.top_p,
     stop_sequences |-> stopSequences(b.stop), stream |-> stream]

geminiRole(role) == IF role \in {"assistant", "model"} THEN "model" ELSE "user"
messageText(content) == textOf(content)
outputTokenLimit(b) == IF b.max_tokens # None THEN b.max_tokens ELSE b.max_completion_tokens

geminiContents(turns) ==
    [i \in DOMAIN turns |-> [role |-> geminiRole(turns[i].role),
                             text |-> messageText(turns[i].content)]]

\* What Gemini is sent: the text of the turns and nothing else of them.
geminiRequest(b) ==
    [contents |-> geminiContents(Turns(b.messages)),
     systemInstruction |-> Instructions(b.messages),
     temperature |-> b.temperature, topP |-> b.top_p,
     maxOutputTokens |-> outputTokenLimit(b), stopSequences |-> stopSequences(b.stop)]

\* An OpenAI style upstream is sent the body with the model rewritten, and a stream
\* is asked to report its usage where the vendor's profile knows how, unless the
\* caller has said something about that.
withStreamUsage(b, model, stream, profile) ==
    [b EXCEPT !.model = model, !.stream = stream,
              !.stream_options = IF profile.streamUsage /\ stream /\ @ = "absent"
                                 THEN "include_usage" ELSE @]

\* usageMetadata.toUsage: reasoning is charged as output.
geminiUsage(prompt, candidates, thoughts) ==
    [prompt |-> prompt, completion |-> candidates + thoughts]

\* usageJSON.toUsage, of Anthropic and of the OpenAI wire.
toUsage(prompt, completion) == [prompt |-> prompt, completion |-> completion]
=============================================================================
