----------------------------- MODULE StreamRelay -----------------------------
(***************************************************************************)
(* One streamed request: the handlers of src/src/api/openai_router.py ask  *)
(* the upstream, src/src/services/assembly_stream_handler.py relays what   *)
(* it sends (or, when streaming is faked, waits for a whole answer and     *)
(* cuts it up), and for a client of the Anthropic protocol the chunks are  *)
(* turned into its events by src/src/transform/openai_to_claude.py.        *)
(*                                                                         *)
(* The upstream may send its lines in any order, stop between any two of   *)
(* them, fail, or be silent until a keepalive is due; the client may go    *)
(* away at any moment.  A delta carries the number of the call and of the  *)
(* line it comes from; what it says is left out.                           *)
(***************************************************************************)
EXTENDS Integers, Sequences, FiniteSets, SequencesExt

CONSTANTS
    Routes,         \* the protocols of the client, "openai" and "anthropic"
    Retries,        \* STREAM_BOOTSTRAP_RETRIES
    ToolIndices,    \* indices of the tool calls of an answer
    MaxLines,       \* bound: lines of one upstream response
    MaxBeats        \* bound: keepalives and heartbeats

ASSUME RelayAssumption ==
    /\ Routes \subseteq {"openai", "anthropic"}
    /\ Retries \in Nat /\ MaxLines \in Nat /\ MaxBeats \in Nat
    /\ ToolIndices \subseteq Nat /\ IsFiniteSet(ToolIndices)

VARIABLES
    route,      \* the protocol of the client
    pc,         \* where the request is
    calls,      \* calls of request_provider so far
    source,     \* what the last of them returned
    attempts,   \* of the generator: initial_bootstrap_retries_used, attempt, total_attempts
    counted,    \* trace.metadata["stream_bootstrap_retries_used"]
    lines,      \* the lines of the current response, as they came in
    wire,       \* the line pending_chunk_task holds, or the chunks still to be sent
    done,       \* whether "[DONE]" ends the stream
    firstSent,  \* first_chunk_sent
    conv,       \* state of convert_openai_sse_to_anthropic_events
    sent,       \* what the client has been sent
    beats,      \* keepalives sent
    ended       \* calls of end_trace for this request

callVars == <<calls, source, attempts, counted>>
streamVars == <<lines, wire, done, firstSent, conv, sent>>
vars == <<route, pc, callVars, streamVars, beats, ended>>

Text == [kind |-> "text", tool |-> -1]
Finish == [kind |-> "finish", tool |-> -1]
Usage == [kind |-> "usage", tool |-> -1]
Junk == [kind |-> "junk", tool |-> -1]
Wrong == [kind |-> "error", tool |-> -1]
ToolHead(i) == [kind |-> "head", tool |-> i]
ToolArgs(i) == [kind |-> "args", tool |-> i]
Lines == {Text, Finish, Usage, Junk} \cup {ToolHead(i) : i \in ToolIndices}
         \cup {ToolArgs(i) : i \in ToolIndices}

Event(type, block, n) == [type |-> type, block |-> block, call |-> calls, line |-> n]
NoConv == [started |-> FALSE, textOpen |-> FALSE, tools |-> {}, stopped |-> FALSE]

Init ==
    /\ route \in Routes
    /\ pc \in {"request", "fake"}
    /\ calls = 0 /\ source = "none"
    /\ attempts = [initial |-> 0, used |-> 0, total |-> 0]
    /\ counted = 0
    /\ lines = <<>> /\ wire = <<>> /\ done = FALSE
    /\ firstSent = FALSE
    /\ conv = NoConv
    /\ sent = <<>>
    /\ beats = 0
    /\ ended = 0

-----------------------------------------------------------------------------
(* Chunks to events: openai_to_claude.py *)

Block(i) == 1 + i

\* message_start, once.
Opening(c, n) == IF c.started THEN <<>> ELSE <<Event("message_start", -1, n)>>

CloseText(c, n) == IF c.textOpen THEN <<Event("close", 0, n)>> ELSE <<>>
\* The code closes them in the order they came, which no property tells apart.
CloseTools(c, n) == [p \in DOMAIN SetToSeq(c.tools) |->
    Event("close", Block(SetToSeq(c.tools)[p]), n)]

\* The text delta, and the block of text if it is not open.
TextEvents(c, n) ==
    [events |-> (IF c.textOpen THEN <<>> ELSE <<Event("open", 0, n)>>)
                \o <<Event("delta", 0, n)>>,
     conv |-> [c EXCEPT !.textOpen = TRUE]]

\* Variant of HeadEvents: the block of text stays open.
HeadEventsNested(c, i, n) ==
    IF i \in c.tools THEN [events |-> <<>>, conv |-> c]
    ELSE [events |-> <<Event("open", Block(i), n)>>,
          conv |-> [c EXCEPT !.tools = @ \cup {i}]]

\* _process_tool_call_delta with an id and a name: the block starts, once.
HeadEvents(c, i, n) ==
    IF i \in c.tools THEN [events |-> <<>>, conv |-> c]
    ELSE [events |-> CloseText(c, n) \o <<Event("open", Block(i), n)>>,
          conv |-> [c EXCEPT !.textOpen = FALSE, !.tools = @ \cup {i}]]

\* The same with arguments: they are dropped before the block has started.
ArgsEvents(c, i, n) ==
    [events |-> IF i \in c.tools THEN <<Event("delta", Block(i), n)>> ELSE <<>>,
     conv |-> c]

\* _build_finish_events.
FinishEvents(c, n) ==
    [events |-> CloseText(c, n) \o CloseTools(c, n)
                \o <<Event("message_delta", -1, n), Event("message_stop", -1, n)>>,
     conv |-> [c EXCEPT !.textOpen = FALSE, !.stopped = TRUE]]

\* openai_chunk_to_anthropic_events for a chunk with one of these contents.
ChunkEvents(c, line, n) ==
    LET begun == [c EXCEPT !.started = TRUE]
        rest == CASE line.kind = "text" -> TextEvents(begun, n)
                  [] line.kind = "head" -> HeadEvents(begun, line.tool, n)
                  [] line.kind = "args" -> ArgsEvents(begun, line.tool, n)
                  [] line.kind = "finish" -> FinishEvents(begun, n)
                  [] OTHER -> [events |-> <<>>, conv |-> begun]
    IN  [events |-> Opening(c, n) \o rest.events, conv |-> rest.conv]

\* The payload "[DONE]": message_stop only if a message began and has none.
DoneEvents(c, n) ==
    [events |-> CloseText(c, n) \o IF c.started /\ ~ c.stopped
                                   THEN <<Event("message_stop", -1, n)>> ELSE <<>>,
     conv |-> [c EXCEPT !.textOpen = FALSE, !.stopped = c.stopped \/ c.started]]

\* One chunk, as the client's protocol has it: _convert_openai_stream_to_anthropic.
Send(c, line, n) ==
    IF route = "openai"
    THEN [events |-> <<Event(line.kind, line.tool, n)>>, conv |-> c]
    ELSE ChunkEvents(c, line, n)

\* The last chunks are about to be sent, and then "[DONE]" if it is.
Drain(chunks, ends) ==
    /\ pc' = "drain"
    /\ wire' = chunks
    /\ done' = ends

\* The next chunk goes out; firstSent is of no more use once the answer is
\* all there.
Forwarded(line) ==
    LET s == Send(conv, line, Len(lines))
    IN  /\ conv' = s.conv
        /\ sent' = sent \o s.events
        /\ firstSent' = TRUE

\* Everything is out.  The Anthropic side makes up for a "[DONE]" that never
\* came; the finally of the generator ends the trace.
Closed ==
    LET n == Len(lines)
        over == IF route = "openai"
                THEN [events |-> IF done THEN <<Event("done", -1, n)>> ELSE <<>>, conv |-> conv]
                ELSE DoneEvents(conv, n)
    IN  /\ pc = "drain" /\ wire = <<>>
        /\ sent' = sent \o over.events
        /\ conv' = over.conv
        /\ pc' = "closed"
        /\ ended' = ended + 1
        /\ UNCHANGED <<route, callVars, lines, wire, done, firstSent, beats>>

-----------------------------------------------------------------------------
(* Before the first byte *)

Outcomes == {"stream", "retryable", "refused"}

\* The answer to a call: convert_streaming_response takes over with a budget,
\* and with the number of retries the trace has so far.
Relay(total) ==
    /\ pc' = "start"
    /\ attempts' = [initial |-> calls, used |-> 1, total |-> total]
    /\ UNCHANGED ended

\* The OpenAI route forwards an error response.
Forward ==
    /\ pc' = "closed"
    /\ ended' = ended + 1
    /\ UNCHANGED attempts

\* Variant of Answer: the generator gets the whole budget again.
AnswerFreshBudget(o) ==
    /\ pc = "request"
    /\ calls' = calls + 1
    /\ source' = o
    /\ counted' = calls
    /\ IF route = "anthropic" \/ o = "stream" THEN Relay(1 + Retries)
       ELSE IF o = "retryable" /\ calls < Retries
            THEN UNCHANGED <<pc, attempts, ended>>
            ELSE Forward
    /\ UNCHANGED <<route, streamVars, beats>>

\* request_provider answers.  The OpenAI route calls again while the status is
\* 429 or 5xx and the budget lasts, and gives the generator what is left of
\* it; the Anthropic route hands over whatever came.
Answer(o) ==
    /\ pc = "request"
    /\ calls' = calls + 1
    /\ source' = o
    /\ counted' = calls
    /\ IF route = "anthropic" \/ o = "stream" THEN Relay(1 + Retries - calls)
       ELSE IF o = "retryable" /\ calls < Retries
            THEN UNCHANGED <<pc, attempts, ended>>
            ELSE Forward
    /\ UNCHANGED <<route, streamVars, beats>>

\* The server asks the generator for its first bytes.
Begin ==
    /\ pc = "start"
    /\ pc' = "relay"
    /\ UNCHANGED <<route, callVars, streamVars, beats, ended>>

\* A response without a body_iterator raises when it is iterated.
Streams == source = "stream"

\* pending_chunk_task gets a line.
Receive(line) ==
    /\ pc = "relay" /\ Streams
    /\ wire = <<>> /\ Len(lines) < MaxLines
    /\ wire' = <<line>>
    /\ lines' = Append(lines, line)
    /\ UNCHANGED <<route, pc, callVars, done, firstSent, conv, sent, beats, ended>>

\* Variant of Beat: the wait is not shielded, and takes the line with it.
BeatUnshielded ==
    /\ pc = "relay" /\ Streams /\ beats < MaxBeats
    /\ beats' = beats + 1
    /\ wire' = <<>>
    /\ UNCHANGED <<route, pc, callVars, lines, done, firstSent, conv, sent, ended>>

\* The keepalive is due before the line is there, or at the same moment.
Beat ==
    /\ pc = "relay" /\ Streams /\ beats < MaxBeats
    /\ beats' = beats + 1
    /\ UNCHANGED <<route, pc, callVars, streamVars, ended>>

\* Variant of Convert: the line that is passed over stays pending.
ConvertKeepsJunk ==
    /\ pc \in {"relay", "drain"} /\ wire # <<>>
    /\ IF Head(wire) = Junk
       THEN UNCHANGED <<wire, firstSent, conv, sent>>
       ELSE wire' = Tail(wire) /\ Forwarded(Head(wire))
    /\ UNCHANGED <<route, pc, callVars, lines, done, beats, ended>>

\* _convert_chunk: a line that is no data or no JSON is passed over.
Convert ==
    /\ pc \in {"relay", "drain"} /\ wire # <<>>
    /\ wire' = Tail(wire)
    /\ IF Head(wire) = Junk
       THEN UNCHANGED <<firstSent, conv, sent>>
       ELSE Forwarded(Head(wire))
    /\ UNCHANGED <<route, pc, callVars, lines, done, beats, ended>>

\* The response ends; whether it had a finish_reason is not asked.
End ==
    /\ pc = "relay" /\ Streams /\ wire = <<>>
    /\ Drain(<<>>, TRUE)
    /\ counted' = attempts.initial + attempts.used - 1
    /\ UNCHANGED <<route, calls, source, attempts, lines, firstSent, conv, sent, beats, ended>>

\* A chunk that says what went wrong, with a finish_reason.
ErrorChunks == IF route = "openai" THEN <<Wrong>>
               ELSE <<Text, Finish>>

GiveUp ==
    /\ Drain(ErrorChunks, TRUE)
    /\ counted' = attempts.initial + attempts.used - 1
    /\ UNCHANGED <<route, attempts, lines, firstSent, conv, sent, beats, ended>>

\* The connection breaks, a chunk cannot be converted, or the response is no
\* stream: another attempt as long as nothing has been sent, which the trace
\* counts before the call is made.
Fail ==
    /\ pc = "relay" /\ wire = <<>>
    /\ IF ~ firstSent /\ attempts.used < attempts.total
       THEN /\ pc' = "again"
            /\ counted' = attempts.initial + attempts.used
            /\ UNCHANGED <<route, calls, source, attempts, streamVars, beats, ended>>
       ELSE GiveUp /\ UNCHANGED <<calls, source>>

\* request_provider answers within the generator.
AnswerAgain(o) ==
    /\ pc = "again"
    /\ calls' = calls + 1
    /\ source' = o
    /\ attempts' = [attempts EXCEPT !.used = @ + 1]
    /\ lines' = <<>>
    /\ pc' = "relay"
    /\ UNCHANGED <<route, counted, wire, done, firstSent, conv, sent, beats, ended>>

\* Or it raises: the call was made, but `attempt` does not count it, and the
\* number of retries is set from `attempt` once more.
RaiseAgain ==
    /\ pc = "again"
    /\ calls' = calls + 1
    /\ source' = "raised"
    /\ GiveUp

-----------------------------------------------------------------------------
(* Faked streaming: fake_stream_response_for_assembly *)

FakeAnswers == {"text", "tools", "both", "error", "empty", "garbled"}

\* The chunks an answer is cut into; a tool call comes whole.
Whole == [j \in 1..(2 * Cardinality(ToolIndices)) |->
            LET i == SetToSeq(ToolIndices)[(j + 1) \div 2]
            IN  IF j % 2 = 1 THEN ToolHead(i) ELSE ToolArgs(i)]
Cut(a) ==
    CASE a = "text" -> <<Text, Text, Finish>>
      [] a = "tools" -> Whole \o <<Finish>>
      [] a = "both" -> <<Text>> \o Whole \o <<Finish>>
      [] OTHER -> <<Text, Finish>>

\* The call is made by a task of its own; a heartbeat is a chunk without text.
FakeBegin ==
    /\ pc = "fake"
    /\ pc' = "waiting"
    /\ calls' = 1
    /\ Forwarded(Usage)
    /\ UNCHANGED <<route, source, attempts, counted, lines, wire, done, beats, ended>>

FakeBeat ==
    /\ pc = "waiting" /\ beats < MaxBeats
    /\ beats' = beats + 1
    /\ UNCHANGED <<route, pc, callVars, streamVars, ended>>

\* The answer comes, or the task fails.  An answer without content, and one
\* that is not JSON, get a chunk but no "[DONE]".
FakeAnswer(a) ==
    /\ pc = "waiting"
    /\ lines' = Cut(a)
    /\ Drain(Cut(a), a \notin {"empty", "garbled"})
    /\ UNCHANGED <<route, callVars, firstSent, conv, sent, beats, ended>>

-----------------------------------------------------------------------------
\* The client goes away.  The finally of a generator that has begun still runs.
Disconnect ==
    /\ pc \in {"start", "relay", "again", "fake", "waiting", "drain"}
    /\ pc' = "gone"
    /\ ended' = IF pc \in {"start", "fake"} THEN ended ELSE ended + 1
    /\ UNCHANGED <<route, callVars, streamVars, beats>>

Next ==
    \/ \E o \in Outcomes : Answer(o) \/ AnswerAgain(o)
    \/ Begin \/ Beat \/ Convert \/ End \/ Fail \/ RaiseAgain \/ Closed
    \/ \E line \in Lines : Receive(line)
    \/ FakeBegin \/ FakeBeat
    \/ \E a \in FakeAnswers : FakeAnswer(a)
    \/ Disconnect

Spec == Init /\ [][Next]_vars

\* The calls return (the read timeout ends a silent one), the server runs the
\* generators, and a response that sends no more lines ends or fails.
Progress ==
    \/ \E o \in Outcomes : Answer(o) \/ AnswerAgain(o)
    \/ Begin \/ Convert \/ End \/ Fail \/ RaiseAgain \/ Closed
    \/ FakeBegin \/ \E a \in FakeAnswers : FakeAnswer(a)

Fairness == WF_vars(Progress)

FairSpec == Spec /\ Fairness

-----------------------------------------------------------------------------
PCs == {"request", "start", "relay", "again", "fake", "waiting", "drain", "closed", "gone"}
Blocks == {Block(i) : i \in ToolIndices} \cup {-1, 0}
Kinds == {"message_start", "open", "delta", "close", "message_delta", "message_stop",
          "text", "head", "args", "finish", "usage", "error", "done"}

TypeOK ==
    /\ route \in Routes /\ pc \in PCs
    /\ calls \in 0..(1 + Retries)
    /\ source \in Outcomes \cup {"none", "raised"}
    /\ attempts \in [initial : 0..Retries, used : 0..(1 + Retries), total : 0..(1 + Retries)]
    /\ counted \in 0..Retries
    /\ lines \in Seq(Lines) /\ wire \in Seq(Lines \cup {Wrong})
    /\ done \in BOOLEAN
    /\ firstSent \in BOOLEAN
    /\ conv \in [started : BOOLEAN, textOpen : BOOLEAN, tools : SUBSET ToolIndices,
                 stopped : BOOLEAN]
    /\ \A k \in DOMAIN sent : sent[k].type \in Kinds
    /\ beats \in 0..MaxBeats
    /\ ended \in 0..1

IsDelta(e) == e.type \in {"delta", "text", "args"}
Useful(k) == \/ lines[k].kind = "text"
             \/ lines[k].kind = "args"
                /\ (route = "anthropic" => \E j \in 1..(k - 1) : lines[j] = ToolHead(lines[k].tool))
Consumed == Len(lines) - Len(wire)

\* Retries before the first byte, whether they are made on the status of the
\* response or inside the generator, never make the client receive parts of
\* two responses, and what comes in goes out once and in order, however the
\* keepalives fall ("首包前支持 bootstrap 重试，首包后不重试",
\* openai_router.py:950).
RelaysOneResponse ==
    pc \in {"relay", "again"} =>
        LET deltas == {k \in DOMAIN sent : IsDelta(sent[k])}
            useful == {j \in 1..Consumed : Useful(j)}
        IN  /\ Cardinality(deltas) = Cardinality(useful)
            /\ \A k \in deltas :
                  /\ sent[k].call = calls /\ sent[k].line \in useful
                  /\ Cardinality({j \in deltas : j < k}) = Cardinality({j \in useful : j < sent[k].line})

\* The budget of retries is one for both kinds, on the status of a response
\* and within the generator; and the trace ends with the number of retries that
\* were made, one less when the last of them raised: the code counts that one
\* first (assembly_stream_handler.py:332) and takes it back (line 358).
BudgetShared ==
    /\ calls <= 1 + Retries
    /\ pc \in {"drain", "closed"} =>
          counted = calls - 1 - (IF source = "raised" THEN 1 ELSE 0)

Count(type, block) == Cardinality({k \in DOMAIN sent : sent[k].type = type /\ sent[k].block = block})

\* The events of the Anthropic protocol nest: the message starts first and
\* once, a delta is in a block that is open, text is never open beside a tool
\* call that starts, and a message that has got its stop_reason leaves no
\* block open -- until the answer has finished.
EventsNest ==
    route = "anthropic" =>
        \A k \in DOMAIN sent :
            LET before(type, block) ==
                    Cardinality({j \in 1..(k - 1) : sent[j].type = type /\ sent[j].block = block})
                b == sent[k].block
                isOpen(c) == before("open", c) = before("close", c) + 1
                isClosed(c) == before("open", c) = before("close", c)
                finished == before("message_stop", -1) > 0
            IN  /\ (k = 1) <=> (sent[k].type = "message_start")
                /\ ~ finished =>
                      CASE sent[k].type \in {"delta", "close"} -> isOpen(b)
                        [] sent[k].type = "open" -> isClosed(b) /\ isClosed(0)
                        [] sent[k].type = "message_delta" -> \A c \in Blocks : isClosed(c)
                        [] OTHER -> TRUE

\* Whatever the upstream does, the stream ends.
Ends == <>(pc \in {"closed", "gone"})

\* "Ensure message_stop exists even if upstream only ended with [DONE]."
\* (openai_router.py:530): a stream that is closed has one.
StopExists ==
    pc = "closed" /\ route = "anthropic" => Count("message_stop", -1) = 1
=============================================================================
