-------------------------- MODULE StreamTranslation --------------------------
(***************************************************************************)
(* A streamed answer on its way to a client of another protocol: the bytes *)
(* of the provider pass stream_response, which holds the last of them back  *)
(* and closes the stream with the gateway's own events, and then the        *)
(* translator (gateway/protocol_translation.rs), which cuts them into       *)
(* events.                                                                  *)
(*                                                                         *)
(* A byte sequence is a sequence of tokens: the data of an event, "lf" and  *)
(* "cr".  Chunks end between any two tokens.                                *)
(***************************************************************************)
EXTENDS Integers, Sequences, SequencesExt, FiniteSets, FiniteSetsExt, Selection

CONSTANTS
    Upstream,       \* the byte sequences a provider may send
    TailTokens      \* STREAM_TAIL_BYTES, in tokens

VARIABLES
    source,     \* all the bytes the provider has in store for this answer
    arrived,    \* how many of them have arrived
    link,       \* "open", "ended" or "broken": the connection to the provider
    tail,       \* StreamCapture.tail
    buffer,     \* ProtocolStreamState.buffer
    opened,     \* ProtocolTranslationState.opened_blocks
    events,     \* the events the client received
    delivery    \* "open", "ended" or "broken": the stream to the client

streamVars == <<source, arrived, link, tail, buffer, opened, events, delivery>>

LF == [is |-> "lf"]
CR == [is |-> "cr"]
Done == [is |-> "done"]
Decision == [is |-> "decision"]
Delta(block, n) == [is |-> "delta", block |-> block, n |-> n]

\* A stream as the providers' protocols have it: events of one data line each, an empty
\* line after each, line feeds for line ends, and the end marker, if there is one, last,
\* where the tail holds it.
PlainStream(s) ==
    /\ s \in Seq(ToSet(s))
    /\ \A i \in DOMAIN s :
          \/ s[i] = LF
          \/ /\ s[i] = Done \/ s[i].is = "delta"
             /\ i + 2 <= Len(s) /\ s[i + 1] = LF /\ s[i + 2] = LF
    /\ \A i \in DOMAIN s : s[i] = Done =>
          /\ i > Len(s) - TailTokens
          /\ \A j \in DOMAIN s : j > i => s[j] = LF

PlainUpstream == TailTokens \in Nat /\ \A s \in Upstream : PlainStream(s)

StreamInit ==
    /\ source = <<>> /\ arrived = 0
    /\ link = "ended" /\ delivery = "ended"
    /\ tail = <<>> /\ buffer = <<>> /\ opened = {} /\ events = <<>>

OpenStream ==
    /\ source' \in Upstream
    /\ arrived' = 0
    /\ link' = "open" /\ delivery' = "open"
    /\ UNCHANGED <<tail, buffer, opened, events>>

----------------------------------------------------------------------------
\* capture_upstream_stream: of what has arrived, all but the tail goes on.
Arrive(n) ==
    /\ link = "open" /\ arrived + n <= Len(source)
    /\ LET all == tail \o SubSeq(source, arrived + 1, arrived + n)
           emit == IF Len(all) > TailTokens THEN Len(all) - TailTokens ELSE 0
       IN  /\ buffer' = buffer \o SubSeq(all, 1, emit)
           /\ tail' = SubSeq(all, emit + 1, Len(all))
    /\ arrived' = arrived + n
    /\ UNCHANGED <<source, link, opened, events, delivery>>

\* Mutant: the provider's own end marker is left in the tail.
KeepDone(s) == s

\* remove_sse_done: the last end marker in the tail.
RemoveDone(s) ==
    IF Done \in ToSet(s)
      THEN LET at == Max({i \in DOMAIN s : s[i] = Done}) IN RemoveAt(s, at)
      ELSE s

\* The final part of stream_response: the tail, the decision and the end marker.
Finish ==
    /\ link = "open" /\ arrived = Len(source)
    /\ link' = "ended"
    /\ buffer' = buffer \o RemoveDone(tail) \o <<LF, Decision, LF, LF, Done, LF, LF>>
    /\ tail' = <<>>
    /\ UNCHANGED <<source, arrived, opened, events, delivery>>

\* The connection to the provider breaks; the error reaches the client's side after
\* what was passed on before it.
Break ==
    /\ link = "open" /\ arrived < Len(source)
    /\ link' = "broken"
    /\ UNCHANGED <<source, arrived, tail, buffer, opened, events, delivery>>

\* All has arrived, but completing the lease, keeping the binding or storing the record
\* fails: the tail is not passed on and the client's side gets the error.
FinishFails ==
    /\ link = "open" /\ arrived = Len(source)
    /\ link' = "broken"
    /\ UNCHANGED <<source, arrived, tail, buffer, opened, events, delivery>>

----------------------------------------------------------------------------
\* What is left of the buffer once an event is drained: without leading line ends.
Stripped(s) ==
    LET data == {i \in DOMAIN s : s[i] \notin {LF, CR}}
    IN  IF data = {} THEN <<>> ELSE SubSeq(s, Min(data), Len(s))

\* The data of an event: that of its only data line.  Several data lines are joined and
\* parse as nothing.
DataOf(event) == Kept(event, ToSet(event) \ {LF, CR})

\* append_protocol_delta: a Responses client gets text without opening a block.
Opens(client, block) == block \notin opened /\ (client = "anthropic" \/ block # "text")

\* finish_protocol_stream.
Closing(client) ==
    (IF client = "anthropic" THEN SetToSeq({[event |-> "stop", block |-> b] : b \in opened})
     ELSE <<>>) \o <<[event |-> "complete"]>>

\* translate_chat_sse_event.  Data that is no chunk, the decision or the end marker (such
\* as that of several events run together) is dropped.
Translate(client, data) ==
    IF Len(data) # 1 THEN UNCHANGED <<opened, events>>
    ELSE \/ /\ data[1] = Decision
            /\ events' = Append(events, [event |-> "decision"])
            /\ UNCHANGED opened
         \/ /\ data[1] = Done
            /\ events' = events \o Closing(client)
            /\ UNCHANGED opened
         \/ /\ data[1].is = "delta"
            /\ LET b == data[1].block
               IN  /\ events' = events
                        \o (IF Opens(client, b) THEN <<[event |-> "start", block |-> b]>> ELSE <<>>)
                        \o <<[event |-> "delta", block |-> b, n |-> data[1].n]>>
                   /\ opened' = IF Opens(client, b) THEN opened \cup {b} ELSE opened

\* find_sse_event_end: an event ends at two line feeds.
EventEnds(s) == {i \in 1 .. Len(s) - 1 : s[i] = LF /\ s[i + 1] = LF}

NextEvent(client) ==
    /\ delivery = "open" /\ EventEnds(buffer) # {}
    /\ LET end == Min(EventEnds(buffer))
       IN  /\ Translate(client, DataOf(SubSeq(buffer, 1, end - 1)))
           /\ buffer' = Stripped(SubSeq(buffer, end, Len(buffer)))
    /\ UNCHANGED <<source, arrived, link, tail, delivery>>

\* Mutant: a broken connection is not passed on.
EndDeliveryWhole ==
    /\ delivery = "open" /\ link = "ended" /\ EventEnds(buffer) = {}
    /\ delivery' = link
    /\ UNCHANGED <<source, arrived, link, tail, buffer, opened, events>>

\* Nothing is left to cut: the client's stream ends as the provider's did.  The closing
\* part ends with an empty line, so what the translator appends at the end of a buffer
\* that is not empty is never needed.
EndDelivery ==
    /\ delivery = "open" /\ link # "open" /\ EventEnds(buffer) = {}
    /\ delivery' = link
    /\ UNCHANGED <<source, arrived, link, tail, buffer, opened, events>>
=============================================================================
