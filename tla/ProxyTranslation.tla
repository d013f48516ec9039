--------------------------- MODULE ProxyTranslation ---------------------------
(***************************************************************************)
(* What becomes of one request after another on its way through the proxy  *)
(* and back (crates/proxy/src/handler.rs, steps 3 to 10 and 15 to 16): it  *)
(* is translated, captured or impersonated, and sent; the answer comes as  *)
(* a whole or as a stream cut into chunks anywhere, and is translated,     *)
(* passed on, or put together for a client that did not ask for a stream   *)
(* and gets one because the native client does.                            *)
(*                                                                         *)
(* Tokens, retries and accounting are in ProxyRequest.                     *)
(***************************************************************************)
EXTENDS Impersonation, Translation

CONSTANTS
    Asks,        \* what clients may ask
    Messages,    \* what the provider may answer
    MaxRequests  \* bound: requests in a row

\* What the provider answers in full: blocks that each have a type, the reason it stopped,
\* and its usage.  Text comes in blocks of text and thoughts in others.
ASSUME MessagesAssumption ==
    /\ Messages \subseteq [blocks : Seq([type : STRING \ {NoBlock},
                                        deltas : Seq([kind : STRING, text : Seq(STRING)])]),
                          stop : STRING \ {NoStop}, input : Nat, output : Nat]
    /\ \A m \in Messages : \A i \in DOMAIN m.blocks : \A j \in DOMAIN m.blocks[i].deltas :
          LET kind == m.blocks[i].deltas[j].kind
          IN  /\ kind = "text_delta" => m.blocks[i].type = "text"
              /\ kind = "thinking_delta" => m.blocks[i].type # "text"

VARIABLES
    phase,    \* of the request in hand: "idle", "sent", "stream", "answered" or "failed"
    asked,    \* the request, with its client and format
    sent,     \* the headers and the body that went to the provider, whose oauth flag was
              \* added to anthropic-beta, and whether the client is to get a stream
    message,  \* the provider's answer
    fed,      \* halves of its events that have arrived
    torn,     \* whether the last cut went through a letter
    split,    \* history: whether any has
    passing,  \* the translators and the extractor
    held,     \* SseReassembler.buffer: the event of which it has the first half, 0 for none
    whole,    \* the rest of SseReassembler
    answer,   \* what the client has got in the end
    served    \* requests so far

incoming == <<message, fed, torn, split, passing, held, whole>>
translationVars == <<profiles, phase, asked, sent, incoming, answer, served>>

Unanswered == [form |-> "none"]
NoRequest == [client |-> "nobody"]
Garbage == Len(EventsOf(message)) + 1   \* in held: halves of two events

NoMessage == CHOOSE m \in Messages : TRUE   \* between two requests

TranslationTypeOK ==
    /\ ImpersonationTypeOK
    /\ phase \in {"idle", "sent", "stream", "answered", "failed"}
    /\ asked \in Asks \cup {NoRequest}
    /\ message \in Messages
    /\ fed \in 0 .. 2 * Len(EventsOf(message))
    /\ torn \in BOOLEAN /\ split \in BOOLEAN
    /\ held \in 0 .. Garbage
    /\ served \in 0 .. MaxRequests

TranslationInit ==
    /\ profile = NoProfile /\ dirty = FALSE /\ file = NoProfile
    /\ phase = "idle"
    /\ asked = NoRequest /\ sent = NoRequest /\ answer = Unanswered
    /\ message = NoMessage /\ fed = 0 /\ torn = FALSE /\ split = FALSE
    /\ passing = NewPassing /\ held = 0 /\ whole = NewReassembler
    /\ served = 0

-----------------------------------------------------------------------------
(* The request.                                                             *)

Accept(r) ==
    /\ phase = "idle"
    /\ served < MaxRequests
    /\ served' = served + 1
    /\ asked' = r

\* ensure_oauth_beta, of the headers before the whitelist: whose oauth flag joins them, if
\* they have none.
OauthFlag(r, headers) ==
    IF "anthropic-beta" \in DOMAIN headers /\ headers["anthropic-beta"] \in Flagged THEN {}
    ELSE IF "anthropic-beta" \in r.headers /\ r.client \in Flagged THEN {r.client}
    ELSE {"built-in"}

\* handle_proxy from the format to the validation, which no other request interrupts.  The
\* model is resolved before the translation and put back after the impersonation; the
\* content type is the client's.  oauth: whether the account is one.
Forward(r, provider, oauth) ==
    /\ Accept(r)
    /\ LET body == ToAnthropic(r.fmt, r)
           headers == r.headers
       IN  /\ Capture(r.client, headers, body)
           /\ LET data == ProfileFor(provider, profile')
                  made == Processed(r.client, headers, body, data)
                  out == Sanitized(made)
              IN  sent' = [headers |-> [h \in DOMAIN out.headers \cup {"content-type"} |->
                                           IF h # "content-type" THEN out.headers[h]
                                           ELSE IF h \in headers THEN r.client ELSE "built-in"],
                           flag    |-> IF oauth /\ provider = "anthropic"
                                       THEN OauthFlag(r, made.headers) ELSE {},
                           body    |-> out.body,
                           model   |-> Resolve(r.model),
                           wants   |-> body.stream]
    /\ phase' = "sent"
    /\ UNCHANGED <<incoming, answer>>

-----------------------------------------------------------------------------
(* The answer.                                                              *)

Done(place, ans) ==
    /\ phase' = place
    /\ answer' = ans

\* Re-inserted into a translated answer; Anthropic clients see the name that was sent.
ModelFor == IF asked.fmt = "anthropic" THEN sent.model ELSE asked.model

Json(m) ==
    [form |-> "json", model |-> ModelFor, said |-> ToClient(asked.fmt, m)]

\* An answer as a whole, to a request without "stream".
AnswerWhole(m) ==
    /\ phase = "sent" /\ ~sent.body.stream
    /\ Done("answered", Json(Whole(m)))
    /\ message' = m
    /\ UNCHANGED <<profiles, asked, sent, fed, torn, split, passing, held, whole, served>>

\* No success, also of a request that was sent again: passed on as it is.
Refused ==
    /\ phase = "sent"
    /\ Done("failed", Unanswered)
    /\ UNCHANGED <<profiles, asked, sent, incoming, served>>

\* A 401 to a request with "stream", sent again with the token that reload() found: a success
\* is passed on as its bytes, neither translated nor put together.
ResentStream(m) ==
    /\ phase = "sent" /\ sent.body.stream
    /\ Done("answered", [form |-> "raw", model |-> sent.model, chunks |-> EventsOf(m)])
    /\ message' = m
    /\ UNCHANGED <<profiles, asked, sent, fed, torn, split, passing, held, whole, served>>

StreamOpens(m) ==
    /\ phase = "sent" /\ sent.body.stream
    /\ phase' = "stream"
    /\ message' = m
    /\ UNCHANGED <<profiles, asked, sent, fed, torn, split, passing, held, whole, answer, served>>

\* The events of a chunk of the halves fed + 1 .. upto that end in it, and the first of them.
First == fed \div 2 + 1
LastIn(upto) == upto \div 2
BeginsInside == fed % 2 = 1

\* process_chunk of the translators and feed of the extractor: nothing is dropped, and an
\* event whose letter was cut arrives damaged.
Passed(upto) ==
    LET got == SubSeq(EventsOf(message), First, LastIn(upto))
    IN  FoldLeft(Passing, passing, IF torn THEN [got EXCEPT ![1] = Cut(@)] ELSE got)

FeedWithoutBuffer(upto, cut, fits) ==
    LET fitting == ~BeginsInside
        taken == SubSeq(EventsOf(message), IF fitting THEN First ELSE First + 1, LastIn(upto))
    IN  IF torn \/ cut
        THEN UNCHANGED <<held, whole>>
        ELSE whole' = FoldLeft(Reassembled, whole, taken) /\ held' = 0

\* SseReassembler::feed: a chunk that begins or ends inside a letter is no UTF-8 and is
\* dropped as a whole.  What then does not fit together is lost, unless the halves of two
\* events happen to (fits).
Feed(upto, cut, fits) ==
    LET fitting == IF BeginsInside THEN held = First \/ (held \in 1 .. First /\ fits) ELSE held = 0
        taken == SubSeq(EventsOf(message), IF fitting THEN First ELSE First + 1, LastIn(upto))
    IN  IF torn \/ cut
        THEN UNCHANGED <<held, whole>>
        ELSE /\ whole' = FoldLeft(Reassembled, whole, taken)
             /\ held' = IF upto % 2 = 0 THEN 0
                        ELSE IF LastIn(upto) >= First \/ held = 0 THEN LastIn(upto) + 1
                        ELSE Garbage

ChunkArrives(upto, cut, fits) ==
    /\ phase = "stream"
    /\ upto > fed
    /\ cut => upto % 2 = 1 /\ HasWide(EventsOf(message)[LastIn(upto) + 1])
    /\ fed' = upto
    /\ torn' = cut
    /\ split' = (split \/ cut)
    /\ passing' = Passed(upto)
    /\ Feed(upto, cut, fits)
    /\ UNCHANGED <<profiles, phase, asked, sent, message, answer, served>>

\* What a client has got of a stream by now: an Anthropic client every byte.
Streamed(ended) ==
    LET chunks == CASE asked.fmt = "openai" -> passing.openai
                    [] asked.fmt = "gemini" -> passing.gemini.out
                    [] OTHER -> SubSeq(EventsOf(message), 1, fed \div 2)
    IN  [form |-> "stream", model |-> ModelFor, chunks |-> chunks, ended |-> ended]

\* The end of the body, which the provider may reach after any event if it has an error to
\* tell; without message_start there is nothing to answer with (502).
AnswerEnds ==
    /\ phase = "stream"
    /\ fed % 2 = 0
    /\ IF sent.wants THEN Done("answered", Streamed(TRUE))
       ELSE IF whole.started THEN Done("answered", Json(IntoMessage(whole)))
       ELSE Done("failed", Unanswered)
    /\ UNCHANGED <<profiles, asked, sent, incoming, served>>

StreamBreaks ==
    /\ phase = "stream"
    /\ IF sent.wants THEN Done("answered", Streamed(FALSE)) ELSE Done("failed", Unanswered)
    /\ UNCHANGED <<profiles, asked, sent, incoming, served>>

NextRequest ==
    /\ phase \in {"answered", "failed"}
    /\ phase' = "idle"
    /\ asked' = NoRequest /\ sent' = NoRequest /\ answer' = Unanswered
    /\ message' = NoMessage /\ fed' = 0 /\ torn' = FALSE /\ split' = FALSE
    /\ passing' = NewPassing /\ held' = 0 /\ whole' = NewReassembler
    /\ UNCHANGED <<profiles, served>>

-----------------------------------------------------------------------------
(* The profile, between two requests.                                       *)

FlushCapture ==
    /\ phase = "idle"
    /\ FlushProfiles
    /\ UNCHANGED <<phase, asked, sent, incoming, answer, served>>

Restart ==
    /\ phase = "idle"
    /\ LoadProfiles
    /\ UNCHANGED <<phase, asked, sent, incoming, answer, served>>

TranslationNext ==
    \/ \E r \in Asks, provider \in {"anthropic", "gemini"}, oauth \in BOOLEAN :
          Forward(r, provider, oauth)
    \/ \E m \in Messages : AnswerWhole(m) \/ ResentStream(m) \/ StreamOpens(m)
    \/ \E upto \in 1 .. 2 * Len(EventsOf(message)), cut, fits \in BOOLEAN : ChunkArrives(upto, cut, fits)
    \/ Refused \/ AnswerEnds \/ StreamBreaks \/ NextRequest \/ FlushCapture \/ Restart

TranslationSpec == TranslationInit /\ [][TranslationNext]_translationVars

-----------------------------------------------------------------------------
(* Properties.                                                              *)

\* What was said goes out in its order, to the right parts, whatever the format and the
\* profile: turns of the assistant as such, all others as the user's, the system's apart.
\* Two losses are the code's: of several system parts of Gemini all but the first, and the
\* text of an OpenAI system message that is not a string (body_rewriter.rs).
AskedIsSent ==
    phase = "sent" =>
        LET system == By(asked.turns, "system")
            others == NotBy(asked.turns, "system")
            assistant == IF asked.fmt = "gemini" THEN "model" ELSE "assistant"
        IN  /\ Said(sent.body.turns) = Said(others)
            /\ \A i \in DOMAIN others :
                   (others[i].who = assistant) <=> (sent.body.turns[i].who = "assistant")
            /\ asked.fmt # "gemini" /\ (\A i \in DOMAIN system : system[i].plain)
                  => sent.body.system = Said(system)
            /\ asked.fmt = "gemini" => sent.body.system = Said(FirstOf(system))
            /\ sent.wants => sent.body.stream
            /\ sent.body.stream => sent.wants \/ ImpersonatedAs(asked.client)

\* A client that is impersonated sends none of its own headers, however the profile came to
\* be, only those of a native client or built-in ones: no leak (full_replace of
\* ImpersonationResult, impersonation.rs:129), but for the content type and, to an OAuth
\* account, the oauth flag of its anthropic-beta, which goes out where the native client's
\* header brings none.
NoOwnHeaders ==
    phase = "sent" /\ ImpersonatedAs(asked.client) =>
        /\ \A h \in DOMAIN sent.headers \ {"content-type"} : sent.headers[h] \in Native \cup {"built-in"}
        /\ asked.client \in sent.flag /\ "anthropic-beta" \in DOMAIN sent.headers
              => sent.headers["anthropic-beta"] \notin Flagged

ContentOf(chunks) ==
    FlattenSeq([i \in DOMAIN chunks |-> IF chunks[i].kind = "content" THEN chunks[i].text ELSE Nothing])
Kinds(chunks) == {chunks[i].kind : i \in DOMAIN chunks}

\* What is left of a message that came as a stream and is put together.
Rebuilt(m) ==
    [m EXCEPT !.blocks = [i \in DOMAIN @ |-> [type |-> @[i].type, text |-> @[i].text, rest |-> Nothing]]]

\* The client gets the provider's answer, in the form it asked for, however the stream was
\* cut: all that the format shows, the reason and the usage.  The losses are named: a cut
\* through a letter costs a stream that letter; a stream that is put together again loses
\* the signatures and what is in blocks of other types, and may lose events by such a cut; an
\* OpenAI client that does not stream sees no text after the first block; and whoever's
\* streamed request was sent again gets Anthropic's events, whatever the format and even if
\* it asked for no stream.
AnswerIsTheMessage ==
    LET m == Whole(message)
        complete == ~sent.body.stream \/ fed = 2 * Len(EventsOf(message))
        json == answer.form = "json"
        raw == answer.form = "raw"
    IN  /\ phase = "answered" /\ raw => sent.body.stream /\ answer.chunks = EventsOf(message)
        /\ phase = "answered" /\ ~raw /\ complete =>
            /\ json <=> ~sent.wants
            /\ json /\ ~split =>
                  answer.said = ToClient(asked.fmt, IF sent.body.stream THEN Rebuilt(m) ELSE m)
            /\ sent.wants =>
                  /\ passing.usage = [input |-> m.input, output |-> m.output]
                  /\ asked.fmt = "anthropic" => answer.chunks = EventsOf(message)
                  /\ asked.fmt = "openai" =>
                        /\ {"role", "finish", "done"} \subseteq Kinds(answer.chunks)
                        /\ Head(answer.chunks).kind = "role"
                        /\ Last(answer.chunks).kind = "done"
                        /\ ~split => ContentOf(answer.chunks) = TextOf(m.blocks)
=============================================================================
