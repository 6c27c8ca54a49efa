------------------------------ MODULE Protocols ------------------------------
(***************************************************************************)
(* What becomes of a request between the protocol a client speaks and the  *)
(* one its provider speaks (urouter-protocol, urouter-transport).  A        *)
(* request is the set of the things in it that a conversion may lose; its   *)
(* plain text always passes and is not in the set.                          *)
(***************************************************************************)
EXTENDS Integers, FiniteSets

ClientApi == {"chat", "responses", "anthropic", "gemini", "ollama"}
WireApi == {"chat", "responses", "anthropic", "gemini"}

Feature == {
    "image",          \* an image given by its URL
    "inline_image",   \* an image given by its bytes, where that is another shape
    "audio",
    "tools",          \* tool definitions
    "calls",          \* the assistant's earlier tool calls
    "results",        \* their results, each naming its call, in a tool turn
    "loose_results",  \* a tool turn that names no call
    "user_results",   \* results that name their call, in a user turn
    "developer",      \* a turn of the developer role
    "reasoning",      \* replayed reasoning of the assistant
    "schema",         \* a response format with a JSON schema, in its protocol's shape
    "text_format",    \* a response format that asks for plain text
    "limit",          \* the bound on the output, whatever it is called
    "effort",         \* how hard to think
    "sampling"}       \* temperature, top_p, tool_choice and their like

(***************************************************************************)
(* The readers.  A Responses item without a role is refused, and so is its  *)
(* input_image part; an Anthropic block of another type is skipped; a       *)
(* Gemini part that is no text and no file is refused.                      *)
(***************************************************************************)
Unreadable(api) ==
    CASE api = "responses" -> {"image", "audio", "calls", "results", "loose_results",
                               "reasoning"}
      [] api = "gemini" -> {"inline_image", "audio", "calls", "results"}
      [] OTHER -> {}

\* What a reader takes over; it says nothing of the rest.  The Chat request of a Chat
\* client is taken as it is.
TakenFromResponses == {"developer", "tools", "schema", "text_format", "limit"}
TakenFromAnthropic == {"tools", "limit"} \cup {"image", "calls", "results"}
TakenFromGemini == {"image", "limit"}
TakenFromOllama == {"developer", "results", "limit"}

Taken(api) ==
    CASE api = "chat" -> Feature
      [] api = "responses" -> TakenFromResponses
      [] api = "anthropic" -> TakenFromAnthropic
      [] api = "gemini" -> TakenFromGemini
      [] api = "ollama" -> TakenFromOllama

\* An Anthropic result stays in the user turn it came in; Ollama's names no call.
Recast(api, f) ==
    CASE api = "anthropic" /\ f = "results" -> "user_results"
      [] api = "ollama" /\ f = "results" -> "loose_results"
      [] OTHER -> f

\* The readers without a streaming encoder refuse a stream.
Reads(api, feats, stream) ==
    /\ feats \cap Unreadable(api) = {}
    /\ ~(stream /\ api \in {"gemini", "ollama"})

Canonical(api, feats) == {Recast(api, f) : f \in feats \cap Taken(api)}

(***************************************************************************)
(* The writers.  Each reports what the target cannot carry; under the       *)
(* policy of the gateway and of every transport, reject, a reported loss    *)
(* refuses the request.                                                     *)
(***************************************************************************)
\* to_openai_chat, for a target with these capabilities: turn by turn, then the rest.
TurnLosses(feats, caps) == feats \cap ({"developer", "reasoning", "image"} \ caps)

OptionalLosses(feats, caps) ==
    {f \in feats : \/ f = "tools" /\ f \notin caps
                   \/ f \in {"schema", "text_format"} /\ "schema" \notin caps}

ChatLosses(feats, caps) == TurnLosses(feats, caps) \cup OptionalLosses(feats, caps)

internal_chat_capabilities == {"developer", "tools", "image", "schema", "reasoning"}

ResponsesLosses(feats) == feats \cap {"reasoning"}
AnthropicLosses(feats) ==
    feats \cap {"reasoning", "developer", "loose_results", "schema", "text_format"}

Losses(wire, feats) == CASE wire = "responses" -> ResponsesLosses(feats)
                         [] wire = "anthropic" -> AnthropicLosses(feats)
                         [] OTHER -> {}

\* What is left out with no report.  The Chat reader in front of the two other wires
\* refuses audio and reads no effort and no sampling, so that a request that states how
\* hard to think is built without it and without a word; Gemini's takes the text of each
\* turn, the sampling and the bound.
Overlooked(wire, feats) ==
    CASE wire = "responses" -> feats \cap {"effort", "sampling", "loose_results"}
      [] wire = "anthropic" -> feats \cap {"effort", "sampling"}
      [] wire = "gemini" -> feats \ {"sampling", "limit"}
      [] wire = "chat" -> {}

\* from_openai_chat, which reads the Chat request again for those wires.
NeutralReads(feats) == "audio" \notin feats

\* Mutant: a loss that is reported does not refuse the request.
BuildsAllowingLosses(wire, feats, stream) ==
    wire \in {"responses", "anthropic"} => ~stream /\ NeutralReads(feats)

\* ProviderTransport::build_request: the wires that go through the neutral form do not
\* stream.
Builds(wire, feats, stream) ==
    wire \in {"responses", "anthropic"} =>
        ~stream /\ NeutralReads(feats) /\ Losses(wire, feats) = {}

\* On the Chat wire a model may not know the developer role; the bound takes the name the
\* model has for it.
RewriteCompat(wire, feats, policy) ==
    IF wire = "chat" /\ ~policy.developer THEN feats \ {"developer"} ELSE feats

\* The parameter policy of the provider and model then drops the parameters it names.
Delivered(wire, feats, policy) ==
    (RewriteCompat(wire, feats \ Overlooked(wire, feats), policy) \ Losses(wire, feats))
        \ policy.dropped

(***************************************************************************)
(* An answer: its reasoning, its tool calls, and that it was cut at the     *)
(* bound on the output.                                                     *)
(***************************************************************************)
ResponsesAnswer == {"reasoning", "calls"}
AnthropicAnswer == {"calls"}
GeminiAnswer == {}                          \* its text

\* Mutant: reads no tool calls of a Responses provider.
AnswerReadTextOnly(wire) == IF wire = "chat" THEN {"reasoning", "calls", "cut"} ELSE {}

\* What the transport reads of a provider's answer; a Chat provider's is taken as it is.
AnswerRead(wire) ==
    CASE wire = "chat" -> {"reasoning", "calls", "cut"}
      [] wire = "responses" -> ResponsesAnswer
      [] wire = "anthropic" -> AnthropicAnswer
      [] wire = "gemini" -> GeminiAnswer

ResponsesReply == {"reasoning", "calls"}    \* its status is always completed
AnthropicReply == {"calls"}
GeminiReply == {"cut"}
OllamaReply == {"cut"}

\* What of it the client is given.
AnswerTaken(api) ==
    CASE api = "chat" -> {"reasoning", "calls", "cut"}
      [] api = "responses" -> ResponsesReply
      [] api = "anthropic" -> AnthropicReply
      [] api = "gemini" -> GeminiReply
      [] api = "ollama" -> OllamaReply
=============================================================================
