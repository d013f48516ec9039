----------------------------- MODULE Impersonation -----------------------------
(***************************************************************************)
(* What the proxy learns from the native client, and what it makes of the  *)
(* requests of others with it (crates/proxy/src/impersonation.rs,          *)
(* cc_profile.rs, body_rewriter.rs, client_signatures.rs and               *)
(* outbound_validator.rs).                                                 *)
(*                                                                         *)
(* Only Claude Code is a known client, so there is one profile, that of    *)
(* "anthropic".  The value of a header is the client it came from.         *)
(***************************************************************************)
EXTENDS Naturals, Sequences, SequencesExt, FiniteSets

CONSTANTS
    Clients,
    Native,       \* clients that detect_client knows as Claude Code
    Flagged,      \* clients whose anthropic-beta, if they send one, has an oauth flag
    Headers,      \* names of headers, in lower case
    AuthHeaders,  \* those of transport and authentication, which are not captured
    Outbound,     \* those that the whitelist lets out
    Enabled,      \* impersonation, as configured
    AutoCapture,  \* learning, as configured
    MaxSamples

ASSUME HeaderAssumption == AuthHeaders \subseteq Headers /\ Outbound \subseteq Headers
ASSUME ImpersonationAssumption ==
    /\ Native \subseteq Clients /\ Flagged \subseteq Clients
    /\ Enabled \in BOOLEAN /\ AutoCapture \in BOOLEAN
    /\ MaxSamples \in Nat \ {0, 1}

VARIABLES
    profile,  \* ProfileEntry.data of the cache, or NoProfile
    dirty,    \* ProfileEntry.dirty
    file      \* profiles/anthropic.json: its data, NoProfile if there is none, or Torn

profiles == <<profile, dirty, file>>

\* Of the clients in the registry only Claude Code is known.
Known(client) == client \in Native

\* Fields of a request body beyond model, messages and what else is always kept.
Fields == {"temperature", "n"}
ForbiddenFields == {"n"}

NoProfile == [none |-> "no profile"]
Torn == [none |-> "torn"]
EmptyProfile == [samples |-> [h \in {} |-> <<>>], static |-> {}, order |-> {},
                 fields |-> {}, system |-> "", streams |-> FALSE]

ImpersonationTypeOK ==
    /\ profile # NoProfile =>
          /\ DOMAIN profile.samples \subseteq Headers \ AuthHeaders
          /\ \A h \in DOMAIN profile.samples :
                /\ profile.samples[h].latest \in Native
                /\ profile.samples[h].seen \in Seq(Native)
                /\ Len(profile.samples[h].seen) \in 1 .. MaxSamples
          /\ profile.static \subseteq DOMAIN profile.samples
          /\ profile.order \subseteq Headers
          /\ profile.fields \subseteq Fields
          /\ profile.system \in {"", "string", "array"}
          /\ profile.streams \in BOOLEAN
    /\ dirty \in BOOLEAN

-----------------------------------------------------------------------------
(* What is learned.                                                         *)

\* The samples of a header: FIFO, each value once.  Patterns other than "static" are one.
Sampled(old, value) ==
    LET seen == IF value \in ToSet(old) THEN old ELSE Append(old, value)
    IN  IF Len(seen) > MaxSamples THEN Tail(seen) ELSE seen

AllOf(headers) == headers

\* What of a request's headers is captured.
Captured(headers) == headers \ AuthHeaders

\* merge_request: headers is the set of names in the request, all with the client's values.
Merged(old, client, headers, body) ==
    LET data == IF old = NoProfile THEN EmptyProfile ELSE old
        kept == Captured(headers)
        Seen(h) == Sampled(IF h \in DOMAIN data.samples THEN data.samples[h].seen ELSE <<>>, client)
    IN  [samples |-> [h \in DOMAIN data.samples \cup kept |->
                          IF h \in kept THEN [latest |-> client, seen |-> Seen(h)]
                          ELSE data.samples[h]],
         static  |-> (data.static \ kept) \cup {h \in kept : Len(Seen(h)) < 2},
         order   |-> IF data.order = {} THEN headers ELSE data.order,
         fields  |-> data.fields \cup body.fields,
         system  |-> IF body.form = "" THEN data.system ELSE body.form,
         streams |-> data.streams \/ body.stream]

CaptureAnyone(client, headers, body) ==
    IF AutoCapture
    THEN /\ profile' = Merged(profile, client, headers, body)
         /\ dirty' = TRUE
         /\ UNCHANGED file
    ELSE UNCHANGED profiles

\* process_request: only a known client is captured.
Capture(client, headers, body) ==
    IF AutoCapture /\ Known(client)
    THEN /\ profile' = Merged(profile, client, headers, body)
         /\ dirty' = TRUE
         /\ UNCHANGED file
    ELSE UNCHANGED profiles

FlushAnyway ==
    /\ profile # NoProfile /\ dirty
    /\ dirty' = FALSE
    /\ file' \in {profile, file, Torn}
    /\ UNCHANGED profile

\* flush_cache_count, due or not: fs::write may fail before or after it has truncated the
\* file, and the entry is then dirty still.
FlushProfiles ==
    /\ profile # NoProfile /\ dirty
    /\ \/ file' = profile /\ dirty' = FALSE
       \/ file' \in {file, Torn} /\ UNCHANGED dirty
    /\ UNCHANGED profile

Readable == IF file = Torn THEN NoProfile ELSE file

\* ImpersonationState::new, after a stop or a crash, which may leave half a file.
LoadProfiles ==
    /\ \/ UNCHANGED file
       \/ dirty /\ profile # NoProfile /\ file' = Torn
    /\ profile' = IF file' = Torn THEN NoProfile ELSE file'
    /\ dirty' = FALSE

-----------------------------------------------------------------------------
(* What is made of it.                                                      *)

\* get_ordered_headers: a name captured before its last value is that of another client.
ProfileHeaders(data) ==
    [h \in DOMAIN data.samples |-> data.samples[h].latest]

\* fallback_headers of the provider, which come from nobody.
Fallback == [h \in {"user-agent"} |-> "built-in"]

\* rewrite_body, whose whitelist has something in it after any captured body.
Rewritten(body, data) ==
    [body EXCEPT !.fields = @ \cap data.fields,
                 !.form = IF data.system = "array" /\ @ = "string" THEN "array" ELSE @,
                 !.stream = @ \/ data.streams]

\* detect_client, for impersonation.
ImpersonatedAs(client) == Enabled /\ ~Known(client)

\* apply_impersonation: the profile of the account's provider, from memory or else from disk.
ProfileFor(provider, cached) ==
    IF provider # "anthropic" THEN NoProfile
    ELSE IF cached # NoProfile THEN cached ELSE Readable

\* The headers and the body that leave process_request, with the profile as it is then.
Processed(client, headers, body, data) ==
    IF ~ImpersonatedAs(client)
    THEN [headers |-> [h \in headers \ AuthHeaders |-> client], body |-> body]
    ELSE IF data = NoProfile
    THEN [headers |-> Fallback, body |-> body]
    ELSE [headers |-> ProfileHeaders(data), body |-> Rewritten(body, data)]

\* validate_and_sanitize, for what has the fields it requires.
Sanitized(out) ==
    [headers |-> [h \in DOMAIN out.headers \cap Outbound |-> out.headers[h]],
     body    |-> [out.body EXCEPT !.fields = @ \ ForbiddenFields]]

-----------------------------------------------------------------------------
\* A profile that is not dirty is what a start would load: a save that failed, or half
\* failed, is not believed (the comment audit-H1 at flush_cache_count, cc_profile.rs).
CleanIsOnDisk == profile # NoProfile /\ ~dirty => file = profile
=============================================================================
