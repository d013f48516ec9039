------------------------------ MODULE Translation ------------------------------
(***************************************************************************)
(* Between the clients' formats and that of Anthropic: requests and whole  *)
(* answers (crates/proxy/src/body_rewriter.rs, model_mapping.rs), streams  *)
(* of events as they pass (sse_translator.rs, SseUsageExtractor of         *)
(* handler.rs), and streams put together again (sse_reassemble.rs).        *)
(*                                                                         *)
(* A text is a sequence of letters.  Wide is one of several bytes, which a *)
(* cut between two chunks turns into two times Damaged where the chunks    *)
(* are decoded by from_utf8_lossy.                                         *)
(***************************************************************************)
EXTENDS Naturals, Sequences, SequencesExt

CONSTANTS Overrides  \* modelOverrides of settings.json: a function on names of models

Wide == "e"
Damaged == "?"

Formats == {"anthropic", "openai", "gemini"}

-----------------------------------------------------------------------------
(* Requests.  A request is what was said by whom, in the client's format.   *)

\* client_model_to_anthropic, one of its rows.
Builtin == [m \in {"gpt"} |-> "sonnet"]

\* resolve_model
Resolve(model) ==
    IF model \in DOMAIN Overrides THEN Overrides[model]
    ELSE IF model \in DOMAIN Builtin THEN Builtin[model] ELSE model

FirstOf(s) == IF s = <<>> THEN <<>> ELSE <<Head(s)>>
Said(turns) == [i \in DOMAIN turns |-> turns[i].text]
By(turns, who) == SelectSeq(turns, LAMBDA t : t.who = who)
NotBy(turns, who) == SelectSeq(turns, LAMBDA t : t.who # who)
AsTurns(turns, assistant) ==
    [i \in DOMAIN turns |-> [who  |-> IF turns[i].who = assistant THEN "assistant" ELSE "user",
                             text |-> turns[i].text]]

\* openai_request_to_anthropic: messages of the role "system" are collected, if their
\* content is a string.
FromOpenai(r) ==
    LET system == By(r.turns, "system")
    IN  [turns  |-> AsTurns(NotBy(r.turns, "system"), "assistant"),
         system |-> [i \in DOMAIN system |-> IF system[i].plain THEN system[i].text ELSE ""],
         form   |-> IF system = <<>> THEN "" ELSE "array",
         stream |-> r.stream,
         fields |-> r.fields \cap {"temperature"}]

FromGeminiAsOpenai(r) ==
    LET system == By(r.turns, "system")
    IN  [turns  |-> AsTurns(NotBy(r.turns, "system"), "assistant"),
         system |-> Said(FirstOf(system)),
         form   |-> IF system = <<>> THEN "" ELSE "string",
         stream |-> FALSE,
         fields |-> r.fields \cap {"temperature"}]

\* gemini_request_to_anthropic: the first part of systemInstruction; nothing says "stream".
FromGemini(r) ==
    LET system == By(r.turns, "system")
    IN  [turns  |-> AsTurns(NotBy(r.turns, "system"), "model"),
         system |-> Said(FirstOf(system)),
         form   |-> IF system = <<>> THEN "" ELSE "string",
         stream |-> FALSE,
         fields |-> r.fields \cap {"temperature"}]

\* translate_request_to_anthropic; what an Anthropic client sends is taken as it is.
ToAnthropic(fmt, r) ==
    CASE fmt = "openai" -> FromOpenai(r)
      [] fmt = "gemini" -> FromGemini(r)
      [] OTHER -> [turns |-> AsTurns(NotBy(r.turns, "system"), "assistant"),
                   system |-> Said(By(r.turns, "system")),
                   form |-> CASE Len(By(r.turns, "system")) = 0 -> ""
                              [] Len(By(r.turns, "system")) = 1 -> "string"
                              [] OTHER -> "array",
                   stream |-> r.stream, fields |-> r.fields]

-----------------------------------------------------------------------------
(* Messages of Anthropic and their events.                                  *)

Nothing == <<>>

Event(type, of, text, n) == [type |-> type, of |-> of, text |-> text, n |-> n]

\* A delta is of a kind of its own.
BlockEvents(b) ==
    <<Event("content_block_start", b.type, Nothing, 0)>>
        \o [i \in DOMAIN b.deltas |-> Event("content_block_delta", b.deltas[i].kind, b.deltas[i].text, 0)]
        \o <<Event("content_block_stop", b.type, Nothing, 0)>>

EventsOf(m) ==
    <<Event("message_start", "", Nothing, m.input)>>
        \o FlattenSeq([i \in DOMAIN m.blocks |-> BlockEvents(m.blocks[i])])
        \o <<Event("message_delta", m.stop, Nothing, m.output), Event("message_stop", "", Nothing, 0)>>

HasWide(e) == Wide \in ToSet(e.text)

\* The same event with its letters of several bytes cut.
Cut(e) ==
    [e EXCEPT !.text = FlattenSeq([i \in DOMAIN e.text |->
                          IF e.text[i] = Wide THEN <<Damaged, Damaged>> ELSE <<e.text[i]>>])]

\* The kinds of deltas that process_event_block puts into a block of a type, and what of a
\* delta it thus keeps.
CollectedBy(type) ==
    CASE type \in {"text", "thinking"} -> {"text_delta", "thinking_delta"}
      [] type = "tool_use" -> {"input_json_delta"}
      [] OTHER -> {}
Kept(type, kind, text) == IF kind \in CollectedBy(type) THEN text ELSE Nothing
Dropped(type, kind, text) == IF kind \in CollectedBy(type) THEN Nothing ELSE text

\* The whole message as JSON; NoStop is a stop_reason that is null.  In the rest of a block
\* are its signature, and the content of types that are none of these three.
NoStop == "null"
TextPart(b) == FlattenSeq([i \in DOMAIN b.deltas |-> Kept(b.type, b.deltas[i].kind, b.deltas[i].text)])
RestPart(b) == FlattenSeq([i \in DOMAIN b.deltas |-> Dropped(b.type, b.deltas[i].kind, b.deltas[i].text)])
Whole(m) ==
    [blocks |-> [i \in DOMAIN m.blocks |-> [type |-> m.blocks[i].type, text |-> TextPart(m.blocks[i]),
                                            rest |-> RestPart(m.blocks[i])]],
     stop |-> m.stop, input |-> m.input, output |-> m.output]

-----------------------------------------------------------------------------
(* Streams as they pass: the state of each translator after one more event. *)

\* map_stop_reason_to_openai, and the same in anthropic_response_to_openai.
OpenaiStop(stop) ==
    CASE stop = "max_tokens" -> "length"
      [] stop = "tool_use" -> "tool_calls"
      [] OTHER -> "stop"

\* map_stop_reason_to_gemini
GeminiStop(stop) == IF stop = "max_tokens" THEN "MAX_TOKENS" ELSE "STOP"

Chunk(kind, text, stop, input, output) ==
    [kind |-> kind, text |-> text, stop |-> stop, input |-> input, output |-> output]

\* SseAnthropicToOpenai::translate_event
OpenaiChunks(e) ==
    CASE e.type = "message_start" -> <<Chunk("role", Nothing, "", 0, 0)>>
      [] e.type = "content_block_delta" /\ e.of = "text_delta" -> <<Chunk("content", e.text, "", 0, 0)>>
      [] e.type = "message_delta" /\ e.of # NoStop -> <<Chunk("finish", Nothing, OpenaiStop(e.of), 0, 0)>>
      [] e.type = "message_stop" -> <<Chunk("done", Nothing, "", 0, 0)>>
      [] OTHER -> <<>>

\* SseAnthropicToGemini::process_line
GeminiNext(g, e) ==
    CASE e.type = "message_start" -> [g EXCEPT !.input = e.n]
      [] e.type = "content_block_delta" /\ e.of = "text_delta" /\ e.text # Nothing ->
            [g EXCEPT !.out = Append(@, Chunk("content", e.text, "", 0, 0))]
      [] e.type = "message_delta" ->
            [g EXCEPT !.out = Append(@, Chunk("finish", Nothing, GeminiStop(e.of), g.input, e.n))]
      [] OTHER -> g

\* SseUsageExtractor::parse_event
UsageNext(u, e) ==
    CASE e.type = "message_start" -> [u EXCEPT !.input = @ + e.n]
      [] e.type = "message_delta" -> [u EXCEPT !.output = @ + e.n]
      [] OTHER -> u

NewPassing == [openai |-> <<>>, gemini |-> [input |-> 0, out |-> <<>>], usage |-> [input |-> 0, output |-> 0]]

Passing(p, e) ==
    [openai |-> p.openai \o OpenaiChunks(e),
     gemini |-> GeminiNext(p.gemini, e),
     usage  |-> UsageNext(p.usage, e)]

-----------------------------------------------------------------------------
(* Streams put together again.                                              *)

NoBlock == "no block"
NewReassembler == [started |-> FALSE, blocks |-> <<>>, current |-> NoBlock, text |-> Nothing,
                   stop |-> NoStop, input |-> 0, output |-> 0]

\* SseReassembler::process_event_block.  message_start announces one token of output, which
\* the usage of message_delta replaces.
Reassembled(s, e) ==
    CASE e.type = "message_start" -> [s EXCEPT !.started = TRUE, !.input = e.n, !.output = 1]
      [] e.type = "content_block_start" -> [s EXCEPT !.current = e.of, !.text = Nothing]
      [] e.type = "content_block_delta" -> [s EXCEPT !.text = @ \o Kept(s.current, e.of, e.text)]
      [] e.type = "content_block_stop" /\ s.current # NoBlock ->
            [s EXCEPT !.blocks = Append(@, [type |-> s.current, text |-> s.text, rest |-> Nothing]),
                      !.current = NoBlock, !.text = Nothing]
      [] e.type = "message_delta" -> [s EXCEPT !.stop = e.of, !.output = e.n]
      [] OTHER -> s

\* into_message, of a stream that has started.
IntoMessage(s) == [blocks |-> s.blocks, stop |-> s.stop, input |-> s.input, output |-> s.output]

-----------------------------------------------------------------------------
(* Whole answers.                                                           *)

TextOf(blocks) ==
    FlattenSeq([i \in DOMAIN blocks |-> IF blocks[i].type = "text" THEN blocks[i].text ELSE Nothing])

\* anthropic_response_to_openai takes the text of the first block, if it has one;
\* anthropic_response_to_gemini that of all blocks of text; Anthropic clients get the blocks.
ToClient(fmt, m) ==
    [content |-> CASE fmt = "openai" -> TextOf(FirstOf(m.blocks))
                   [] fmt = "gemini" -> TextOf(m.blocks)
                   [] OTHER -> m.blocks,
     stop    |-> CASE fmt = "openai" -> OpenaiStop(m.stop)
                   [] fmt = "gemini" -> GeminiStop(m.stop)
                   [] OTHER -> m.stop,
     input   |-> m.input,
     output  |-> m.output]
=============================================================================
