-------------------------------- MODULE MCProxy --------------------------------
(* The two halves of a request's way through the proxy, for TLC: who serves it  *)
(* with what token (ProxyRequest, all requests from one address), and what is   *)
(* said (ProxyTranslation, with a native client, another one, and each format). *)
(* They share no variable, so that a behaviour explores one of them.            *)
EXTENDS ProxyRequest, ProxyTranslation, TLC

MCIpOf == [r \in Requests |-> CHOOSE ip \in Ips : TRUE]
MCSymmetry == Permutations(Requests) \cup Permutations(Accounts)

CONSTANTS n1, n2, o1, u1

MCOverrides == [m \in {"gpt"} |-> "opus"]

Turn(who, text, plain) == [who |-> who, text |-> text, plain |-> plain]
Talk == <<Turn("system", "s1", TRUE), Turn("user", "u1", TRUE), Turn("assistant", "a1", TRUE),
          Turn("system", "s2", TRUE), Turn("tool", "t1", TRUE)>>
Odd == <<Turn("system", "s1", FALSE), Turn("user", "u1", TRUE)>>
GeminiTalk == <<Turn("system", "s1", TRUE), Turn("system", "s2", TRUE),
                Turn("user", "u1", TRUE), Turn("model", "a1", TRUE)>>

Ask(client, fmt, headers, turns, stream, fields, model) ==
    [client |-> client, fmt |-> fmt, headers |-> headers, turns |-> turns, stream |-> stream,
     fields |-> fields, model |-> model]

MCAsks ==
    {Ask(n1, "anthropic", {"user-agent", "anthropic-beta", "authorization"}, Talk, TRUE, {}, "opus"),
     Ask(n2, "anthropic", {"anthropic-beta", "content-type"}, Odd, FALSE, {"temperature"}, "haiku"),
     Ask(o1, "openai", {"user-agent", "x-own"}, Talk, TRUE, {"temperature", "n"}, "gpt"),
     Ask(o1, "openai", {"x-own", "anthropic-beta"}, Odd, FALSE, {"temperature"}, "opus"),
     Ask(o1, "gemini", {"user-agent"}, GeminiTalk, TRUE, {}, "gemini"),
     Ask(o1, "anthropic", {"user-agent", "authorization"}, Talk, FALSE, {"n"}, "gpt")}

\* Blocks of one kind of deltas, but for the signature at the end of a thought.
Block(type, texts) ==
    [type   |-> type,
     deltas |-> [i \in DOMAIN texts |->
                    [kind |-> CASE type = "text" -> "text_delta"
                                [] type = "thinking" /\ i = Len(texts) -> "signature_delta"
                                [] type = "thinking" -> "thinking_delta"
                                [] OTHER -> "input_json_delta",
                     text |-> texts[i]]]]
Message(blocks, stop, input, output) ==
    [blocks |-> blocks, stop |-> stop, input |-> input, output |-> output]

MCMessages ==
    {Message(<<Block("text", <<<<"a", "e">>, <<>>>>), Block("text", <<<<"b">>>>)>>, "end_turn", 3, 5),
     Message(<<Block("thinking", <<<<"t">>, <<"s">>>>), Block("text", <<<<"e">>>>)>>, "max_tokens", 1, 2),
     Message(<<Block("text", <<<<"a">>>>), Block("tool_use", <<<<"e">>>>)>>, "tool_use", 2, 0),
     Message(<<Block("server_tool_use", <<<<"q">>>>)>>, "end_turn", 1, 1),
     Message(<<>>, "end_turn", 0, 0)}

VARIABLE half

MCInit ==
    /\ half \in {"requests", "translation"} /\ ProxyInit /\ TranslationInit
    /\ upstream[disk.active] = u1  \* upstreams matter by being the same or not
    /\ \A a \in Accounts : upstream[a] # u1 => cache = disk /\ valid[a] = 1
    /\ half = "translation" =>
          upstream = [a \in Accounts |-> u1] /\ valid = [a \in Accounts |-> 1] /\ cache = disk

MCNext ==
    /\ \/ half = "requests" /\ ProxyNext /\ UNCHANGED translationVars
       \/ half = "translation" /\ TranslationNext /\ UNCHANGED proxyVars
    /\ UNCHANGED half

MCSpec == MCInit /\ [][MCNext]_<<half, proxyVars, translationVars>>
================================================================================
