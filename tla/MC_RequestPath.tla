--------------------------- MODULE MC_RequestPath ---------------------------
(* Three tiers of rising capability over three wires; the last has a second deployment, of *)
(* a model of another provider.                                                          *)
EXTENDS RequestPath

MCTier == <<"small", "middle", "large">>
MCModelOf == [small |-> "s", middle |-> "m", large |-> "l"]
MCDeployed == [small |-> {"s"}, middle |-> {"m"}, large |-> {"l", "x"}]
MCCaps == [s |-> {}, m |-> {"tools", "image", "schema"},
           l |-> {"tools", "image", "schema", "reasoning"},
           x |-> {"tools", "image", "schema", "reasoning"}, old |-> {"tools"}]
MCWindow == [s |-> 4, m |-> 8, l |-> 8, x |-> 8, old |-> 8]
MCApiOf == [s |-> "chat", m |-> "anthropic", l |-> "responses", x |-> "chat", old |-> "chat"]
MCPolicy == [m \in {"s", "m", "l", "x", "old"} |->
                [dropped |-> IF m = "l" THEN {"sampling"} ELSE {}, developer |-> m # "s"]]
MCRules == <<[topic |-> "search", tools |-> TRUE, reasoning |-> FALSE, tool |-> FALSE]>>

Feats == [chat |-> {{}, {"tools", "calls", "results"}, {"schema", "sampling", "limit"},
                    {"image", "reasoning"}, {"audio"}, {"effort"}, {"effort", "tools"}},
          responses |-> {{"developer"}, {"tools", "developer"}, {"schema"}, {"image"}},
          anthropic |-> {{"limit"}, {"tools", "calls", "results"}, {"image"}},
          gemini |-> {{}, {"image"}, {"tools"}, {"inline_image"}},
          ollama |-> {{}, {"tools", "results"}}]

Plain == [model |-> "auto", topic |-> "other", host |-> FALSE, chars |-> 8, maxTokens |-> 0,
          results |-> <<>>, calls |-> <<>>, pin |-> None, floor |-> None, role |-> "primary",
          hard |-> FALSE, cheap |-> FALSE, bias |-> None, signals |-> {}, task |-> "t",
          explore |-> FALSE, boundary |-> None,
          version |-> None, formed |-> TRUE,
          given |-> {"tenant", "task", "harness", "turn", "data_policy"}]

Contracts == {
    Plain,
    [Plain EXCEPT !.model = "m"],
    [Plain EXCEPT !.pin = "large", !.floor = "large"],
    [Plain EXCEPT !.floor = "middle", !.hard = TRUE, !.explore = TRUE, !.given = @ \ {"task"}],
    [Plain EXCEPT !.floor = "none"],
    [Plain EXCEPT !.pin = "small"],
    [Plain EXCEPT !.version = 3],
    [Plain EXCEPT !.version = 2],
    [Plain EXCEPT !.given = @ \cup {"branch"}],
    [Plain EXCEPT !.given = Part, !.version = 2, !.boundary = "after_tool"],
    [Plain EXCEPT !.given = Part, !.formed = FALSE],
    [Plain EXCEPT !.topic = "weather"],
    [Plain EXCEPT !.topic = "equation", !.boundary = "new_task"],
    [Plain EXCEPT !.topic = "search", !.explore = TRUE, !.boundary = "retry", !.given = Part],
    [Plain EXCEPT !.boundary = "terminal_provider_failure", !.given = Part],
    [Plain EXCEPT !.chars = 20, !.maxTokens = 9, !.boundary = "other", !.given = Part],
    [Plain EXCEPT !.chars = 16, !.bias = 900, !.role = None, !.given = {}],
    [Plain EXCEPT !.results = <<0, 300>>, !.calls = <<"read", "read">>],
    [Plain EXCEPT !.calls = <<"edit", "todowrite">>, !.results = <<0>>, !.role = "auxiliary",
                  !.signals = {[kind |-> "severity", strength |-> 400]}]}

\* Streams only of plain requests: their bytes do not depend on the contract.
MCRequests ==
    UNION {{[api |-> api, feats |-> f, stream |-> FALSE] @@ c : f \in Feats[api], c \in Contracts}
             \cup {[api |-> api, feats |-> f, stream |-> TRUE] @@ Plain : f \in Feats[api]} :
           api \in {"responses", "anthropic", "gemini", "ollama"}}
    \cup {[api |-> "chat", feats |-> f, stream |-> FALSE] @@ c : f \in Feats["chat"], c \in Contracts}

MCBindings == {NotBound,
    [model |-> "s", tier |-> "small", session |-> FALSE, matches |-> TRUE],
    [model |-> "m", tier |-> "middle", session |-> TRUE, matches |-> FALSE],
    [model |-> "l", tier |-> "large", session |-> TRUE, matches |-> TRUE],
    [model |-> "x", tier |-> "large", session |-> TRUE, matches |-> TRUE]}

Sse(data) == <<data, LF, LF>>
MCUpstream == {
    Sse(Delta("text", 1)) \o Sse(Delta("tool", 1)) \o Sse(Delta("tool", 2)) \o Sse(Done),
    Sse(Delta("tool", 1)) \o Sse(Delta("text", 1)) \o Sse(Done),
    Sse(Done)}

(* A linear artifact, and one by centroids that knows no weather and promotes what has an *)
(* image.                                                                                 *)
MCLinear == [baseline |-> "small", promoted |-> "middle", threshold |-> 3, bias |-> 0,
             weights |-> <<1, 1, 1, 2, 2, 2>>]
MCFileOf ==
    [a |-> [linear |-> MCLinear, learned |-> None,
            support |-> [tasks |-> {"general", "equation", "search"}, bytes |-> 16, tools |-> TRUE]],
     b |-> [linear |-> MCLinear,
            learned |-> [kind |-> "contrastive", baseline |-> "small", promoted |-> "large",
                         from |-> <<2, 1, 0, 0, 0, 0>>, to |-> <<2, 1, 0, 100, 0, 0>>],
            support |-> [tasks |-> {"general", "search"}, bytes |-> 99, tools |-> FALSE]]]
MCRollout == [canary |-> 5000, minimum |-> 1, limit |-> 12]
MCBucketOf == [t |-> 100, u |-> 9000]

\* What the proof of CompleteIsWhole takes for granted of the providers' streams.
ASSUME UpstreamIsPlain == PlainUpstream
=============================================================================
