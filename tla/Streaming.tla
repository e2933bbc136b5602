------------------------------ MODULE Streaming ------------------------------
(***************************************************************************)
(* A streamed answer on its way through the proxy: _forward_streaming of   *)
(* proxy/pipeline.py around tee_stream and iter_sse_events of              *)
(* proxy/streaming.py.  Pipeline takes the stream as one step; here it is  *)
(* cut wherever the network cuts it, and either end may go away.           *)
(*                                                                         *)
(* A provider's script is a sequence of SSE events.  On the wire event i   *)
(* is the number 2i-1 and the blank line that ends it is 2i, so that       *)
(* `bytes' received in order are 1, 2, 3, ...; a read may end between them.*)
(* Events are separated by LF LF.  One "text" event is worth one token.    *)
(***************************************************************************)
EXTENDS Integers, Sequences, SequencesExt

CONSTANTS
    Streams,
    MaxEvents,      \* bound on a script
    ChunkSize       \* replay_as_sse's chunk_size, in events' worth of text

ASSUME StreamingAssumption == MaxEvents \in Nat /\ ChunkSize \in Nat \ {0}

VARIABLES
    stream,         \* Streams -> body_stream, its tee and what the client has
    streamRow,      \* Streams -> the ledger event, or NoStreamRow
    kept            \* Streams -> the cached body's text and tokens, or NotKept

streamVars == <<stream, streamRow, kept>>

NoStreamRow == [status |-> 0]
NotKept == [out |-> -1]

\* An OpenAI stream ends with [DONE]; a native one (Anthropic's) carries its
\* text in events of its own shape and has no sentinel.
OpenAIScripts ==
    {w \o <<"done">> : w \in UNION {[1 .. n -> {"text", "usage", "junk"}] : n \in 0 .. MaxEvents - 1}}
Scripts == OpenAIScripts \cup {[i \in 1 .. n |-> "native"] : n \in 1 .. MaxEvents}

\* Tokens the provider produced for a script.
Tokens(script) == Cardinality({i \in DOMAIN script : script[i] \in {"text", "native"}})

StreamingInit ==
    /\ \E script \in Scripts, cacheable \in BOOLEAN :
         stream = [s \in Streams |->
           [script |-> script, cacheable |-> cacheable, stage |-> "open", got |-> 0,
            buffer |-> <<>>, held |-> <<>>, ended |-> FALSE, seen |-> <<>>, gone |-> FALSE,
            text |-> <<>>, out |-> -1, completed |-> FALSE, status |-> 200, error |-> "none"]]
    /\ streamRow = [s \in Streams |-> NoStreamRow]
    /\ kept = [s \in Streams |-> NotKept]

InStage(s, stage) == stream[s].stage = stage

----------------------------------------------------------------------------
(* The upstream call.                                                      *)

\* The provider accepts, refuses (its error body is passed on untouched), or
\* cannot be reached.
OpenUpstream(s) ==
    /\ InStage(s, "open")
    /\ \/ stream' = [stream EXCEPT ![s].stage = "reading"]
       \/ stream' = [stream EXCEPT ![s].stage = "record", ![s].status = 400, ![s].error = "provider_error"]
       \/ stream' = [stream EXCEPT ![s].stage = "record", ![s].status = 502, ![s].error = "transport"]
    /\ UNCHANGED <<streamRow, kept>>

\* Where the first event of the buffer ends, or 0.
Boundary(buffer) == SelectInSeq(buffer, LAMBDA b : b % 2 = 0)

Awaits(s) == InStage(s, "reading") /\ Boundary(stream[s].buffer) = 0

\* iter_sse_events: buffer += piece, of any length.
ReadPiece(s) ==
    /\ Awaits(s)
    /\ \E n \in stream[s].got + 1 .. 2 * Len(stream[s].script) :
         stream' = [stream EXCEPT ![s].got = n,
                                  ![s].buffer = @ \o [i \in 1 .. n - stream[s].got |-> stream[s].got + i]]
    /\ UNCHANGED <<streamRow, kept>>

\* A bug YieldEvent could have: the rest of the read is dropped with the event.
YieldEventAlone(s) ==
    /\ InStage(s, "reading")
    /\ LET n == Boundary(stream[s].buffer) IN
         /\ n > 0
         /\ stream' = [stream EXCEPT ![s].stage = "yielded",
                                     ![s].held = SubSeq(stream[s].buffer, 1, n),
                                     ![s].seen = @ \o SubSeq(stream[s].buffer, 1, n),
                                     ![s].buffer = <<>>]
    /\ UNCHANGED <<streamRow, kept>>

\* The first whole event goes to the client; the tee is suspended at its yield.
YieldEvent(s) ==
    /\ InStage(s, "reading")
    /\ LET b == stream[s].buffer
           n == Boundary(b) IN
         /\ n > 0
         /\ stream' = [stream EXCEPT ![s].stage = "yielded",
                                     ![s].held = SubSeq(b, 1, n),
                                     ![s].seen = @ \o SubSeq(b, 1, n),
                                     ![s].buffer = SubSeq(b, n + 1, Len(b))]
    /\ UNCHANGED <<streamRow, kept>>

\* The upstream closes, perhaps early; what is left goes out as it is.
UpstreamEnds(s) ==
    /\ Awaits(s)
    /\ LET b == stream[s].buffer IN
         stream' = [stream EXCEPT ![s].stage = IF b = <<>> THEN "record" ELSE "yielded",
                                  ![s].held = b, ![s].seen = @ \o b, ![s].buffer = <<>>,
                                  ![s].ended = TRUE]
    /\ UNCHANGED <<streamRow, kept>>

----------------------------------------------------------------------------
(* The tee.                                                                *)

\* The kind of what was yielded: parsed only when its blank line was found.
KindOf(s, raw) ==
    LET e == stream[s].script[(raw[1] + 1) \div 2] IN
    IF Len(raw) = 2 \/ e = "done" THEN e ELSE "junk"

\* _absorb: the fields worth recording.  A payload without "choices" has none.
Absorb(t, kind) ==
    [t EXCEPT !.text = IF kind = "text" THEN Append(@, t.held[1]) ELSE @,
              !.out  = IF kind = "usage" THEN Tokens(t.script) ELSE @]

\* The client has taken the event and asks for the next.
Inspect(s) ==
    /\ InStage(s, "yielded")
    /\ LET t == stream[s]
           kind == KindOf(s, t.held) IN
         stream' = [stream EXCEPT ![s] =
           [Absorb(t, kind) EXCEPT !.completed = @ \/ kind = "done",
                                   !.held = <<>>,
                                   !.stage = IF t.ended THEN "record" ELSE "reading"]]
    /\ UNCHANGED <<streamRow, kept>>

\* The connection breaks in mid-flight: never a completed stream.
StreamBreaks(s) ==
    /\ Awaits(s)
    /\ stream' = [stream EXCEPT ![s].stage = "record", ![s].completed = FALSE,
                                ![s].status = 502, ![s].error = "transport"]
    /\ UNCHANGED <<streamRow, kept>>

\* The client goes away: the generator is closed at its yield, before the
\* event in hand was inspected, or cancelled at its read.
ClientLeaves(s) ==
    /\ InStage(s, "yielded") \/ Awaits(s)
    /\ stream' = [stream EXCEPT ![s].stage = "record", ![s].gone = TRUE]
    /\ UNCHANGED <<streamRow, kept>>

----------------------------------------------------------------------------
(* The finally block.                                                      *)

\* Without a usage block the text is counted.
RecordedTokens(t) == IF t.out >= 0 THEN t.out ELSE Len(t.text)

\* _record_stream, then the decision to cache.  The cancellation of a client
\* that left may take it away at its first await.
RecordStream(s) ==
    /\ InStage(s, "record")
    /\ LET t == stream[s] IN
         \/ /\ streamRow' = [streamRow EXCEPT ![s] =
                 [status |-> t.status, out |-> RecordedTokens(t), estimated |-> t.out < 0,
                  error |-> IF t.completed \/ t.error # "none" THEN t.error ELSE "stream_incomplete"]]
            /\ stream' = [stream EXCEPT ![s].stage =
                 IF t.cacheable /\ t.completed /\ t.status < 400 THEN "keep" ELSE "over"]
         \/ /\ t.gone
            /\ stream' = [stream EXCEPT ![s].stage = "over"]
            /\ UNCHANGED streamRow
    /\ UNCHANGED kept

\* _assemble_streamed_body and _write_cache_entry, whose failure is swallowed.
KeepStream(s) ==
    /\ InStage(s, "keep")
    /\ \/ kept' = [kept EXCEPT ![s] = [text |-> stream[s].text,
                                       out |-> IF stream[s].out < 0 THEN 0 ELSE stream[s].out]]
       \/ UNCHANGED kept
    /\ stream' = [stream EXCEPT ![s].stage = "over"]
    /\ UNCHANGED streamRow

\* replay_as_sse: a role frame, the text in chunks, a finish frame, [DONE];
\* here what text each frame carries.
Replayed(text) ==
    LET n == (Len(text) + ChunkSize - 1) \div ChunkSize
        Upto(i) == IF i * ChunkSize < Len(text) THEN i * ChunkSize ELSE Len(text) IN
    <<<<>>>> \o [i \in 1 .. n |-> SubSeq(text, (i - 1) * ChunkSize + 1, Upto(i))] \o <<<<>>, <<>>>>

StreamingNext ==
    \E s \in Streams :
        \/ OpenUpstream(s)
        \/ ReadPiece(s)
        \/ YieldEvent(s)
        \/ UpstreamEnds(s)
        \/ Inspect(s)
        \/ StreamBreaks(s)
        \/ ClientLeaves(s)
        \/ RecordStream(s)
        \/ KeepStream(s)

StreamingSpec == StreamingInit /\ [][StreamingNext]_streamVars

----------------------------------------------------------------------------
(* Properties.                                                             *)

StreamingTypeOK ==
    \A s \in Streams :
        /\ stream[s].script \in Scripts /\ stream[s].got \in 0 .. 2 * MaxEvents
        /\ stream[s].stage \in {"open", "reading", "yielded", "record", "keep", "over"}
        /\ stream[s].status \in {200, 400, 502}
        /\ stream[s].error \in {"none", "provider_error", "transport"}
        /\ kept[s] # NotKept => streamRow[s] # NoStreamRow

\* text lists, in their order, the texts among the first n bytes of a script.
Spells(text, script, n) ==
    /\ \A i, j \in DOMAIN text : i < j => text[i] < text[j]
    /\ ToSet(text) = {b \in 1 .. n : b % 2 = 1 /\ script[(b + 1) \div 2] = "text"}

\* The client's bytes are the provider's, in order and none held back once an
\* event is whole, and the books follow delivery: what was captured is what
\* the client was handed, short of the event still in its hands or a cut-off
\* tail.
PassedOn(t) ==
    /\ t.seen \o t.buffer = [i \in 1 .. t.got |-> i]
    /\ \E n \in Len(t.seen) - 2 .. Len(t.seen) : Spells(t.text, t.script, n)

\* A row without an error stands for an answer the client got to its [DONE];
\* every stream has its row unless the client's leaving took it away.
RowsAreHonest(s) ==
    LET t == stream[s] IN
    /\ t.stage = "over" /\ streamRow[s] = NoStreamRow => t.gone
    /\ streamRow[s] # NoStreamRow /\ streamRow[s].error = "none" =>
         \E i \in 1 .. Len(t.script) : t.script[i] = "done" /\ Contains(t.seen, 2 * i - 1)

\* What is cached is the whole text, and a client that is replayed it gets
\* all of it in order.
KeptIsWhole(s) ==
    kept[s] # NotKept =>
        /\ Spells(kept[s].text, stream[s].script, 2 * Len(stream[s].script))
        /\ FlattenSeq(Replayed(kept[s].text)) = kept[s].text

\* Wherever the network cuts a stream and whoever hangs up when: the client's
\* bytes are never altered, the ledger row says how it ended, and only a whole
\* answer is replayed to others.
StreamsAreFaithful == \A s \in Streams : PassedOn(stream[s]) /\ RowsAreHonest(s) /\ KeptIsWhole(s)

\* BUILD_SPEC P2: the stream is teed "so chunk timestamps and token counts are
\* captured": one that both ends saw through is recorded with its tokens.
StreamsAreMetered ==
    \A s \in Streams :
        stream[s].ended /\ stream[s].seen = [i \in 1 .. 2 * Len(stream[s].script) |-> i]
        /\ ~stream[s].gone /\ streamRow[s] # NoStreamRow
        => streamRow[s].out = Tokens(stream[s].script)
=============================================================================
