------------------------------ MODULE ProxyRequest ------------------------------
(***************************************************************************)
(* Requests through the proxy (crates/proxy/src/handler.rs): each passes   *)
(* the rate limiter, goes out with the token of the account that is active *)
(* in the proxy's copy of the credentials file, is sent again after a 401  *)
(* when that file has another token, is streamed, reassembled or passed on *)
(* as a whole, and is counted in the usage file and in a session.          *)
(*                                                                         *)
(* The daemon, which refreshes the tokens and writes the file, and the     *)
(* providers are outside.  The usage that an answer reports is one unit of *)
(* tokens and one of cache tokens, or nothing.                             *)
(***************************************************************************)
EXTENDS RateLimiter, Sequences, FiniteSetsExt

CONSTANTS
    Requests, Accounts,
    Upstreams,   \* where an account's requests go: the URL, and whether with the oauth flag
    NoAccount,   \* active_account when it is absent, or names no account of the file
    IpOf,        \* the client address of each request
    MaxPolls,    \* reloads while a buffered request waits for a new token
    FlushAt,     \* pending usage entries that force a flush
    Bucket,      \* length of a session's bucket
    Timeout,     \* timeout of the HTTP client, the body included
    MaxTime,     \* bound: the clock
    MaxChanges   \* bound: changes of the tokens and of the credentials file

ASSUME RequestAssumption ==
    IsFiniteSet(Requests) /\ IpOf \in [Requests -> Ips] /\ NoAccount \notin Accounts
ASSUME LimitsAssumption ==
    /\ MaxPolls \in Nat /\ FlushAt \in Nat \ {0}
    /\ Bucket \in Nat \ {0} /\ Timeout \in Nat /\ MaxTime \in Nat /\ MaxChanges \in Nat
\* 300 s each: a stream ends in the bucket in which it was opened, or in the next.
ASSUME TimeoutAssumption == Timeout <= Bucket

VARIABLES
    upstream,  \* that of each account: its api_url and account_type, and its provider
    valid,     \* generation of the token that each account's provider accepts
    disk,      \* credentials-multi.json: the active account, a token of each (0: none)
    cache,     \* the proxy's copy of it
    pc,        \* where each request is
    req,       \* what its handler holds
    pending,   \* ApiUsageTracker.pending
    logged,    \* api_usage.jsonl: of which request, and the usage the entry gives
    sessions,  \* SessionWriter.cache: units of usage of an account in a bucket, or None
    running,   \* FALSE after /_proxy/shutdown
    changes,   \* changes so far
    clean,     \* history: requests since whose start all was well with the file
    dropped    \* history: requests whose usage entry could not be written, or was in memory at the end

credentials == <<upstream, valid, disk, cache, changes>>
accounting == <<pending, logged, sessions, dropped>>
proxyVars == <<now, limiterVars, credentials, pc, req, accounting, running, clean>>

Gens == 0 .. 2 + MaxChanges
None == -1
Buckets == 0 .. MaxTime \div Bucket
Image == [active : Accounts \cup {NoAccount}, gen : [Accounts -> Gens]]

Waiting == {"sent", "resent", "stream", "reassemble"}  \* for the provider
Ended == {"refused", "failed", "left", "answered"}
\* acct is the account of the start, sentAs the one whose token went out last; code is the
\* status of the answer, usage what it reports, polls the reloads waited for; again says that
\* it was sent twice.
Held == [acct : Accounts \cup {NoAccount}, sentAs : Accounts \cup {NoAccount}, token : Gens, streams : BOOLEAN, wants : BOOLEAN,
         polls : 0 .. MaxPolls, since : 0 .. MaxTime, usage : 0 .. 1,
         code : {200, 401, 500}, again : BOOLEAN, stalled : BOOLEAN]
NewRequest == [acct |-> NoAccount, sentAs |-> NoAccount, token |-> 0, streams |-> FALSE, wants |-> FALSE,
               polls |-> 0, since |-> 0, usage |-> 0, code |-> 200, again |-> FALSE, stalled |-> FALSE]
Entry == [of : Requests, usage : 0 .. 1]

ProxyTypeOK ==
    /\ LimiterTypeOK
    /\ upstream \in [Accounts -> Upstreams]
    /\ valid \in [Accounts -> Gens]
    /\ disk \in Image
    /\ cache \in Image
    /\ pc \in [Requests -> {"new", "read", "routed", "unauthorized", "poll"} \cup Waiting \cup Ended]
    /\ req \in [Requests -> Held]
    /\ pending \in Seq(Entry)
    /\ logged \in Seq(Entry)
    /\ sessions \in [Accounts \X Buckets -> Nat \cup {None}]
    /\ running \in BOOLEAN
    /\ changes \in 0 .. MaxChanges
    /\ clean \in SUBSET Requests
    /\ dropped \in SUBSET Requests

\* CredentialsCache::load falls back to an empty image; a token of the file may be used up.
ProxyInit ==
    /\ LimiterInit
    /\ upstream \in [Accounts -> Upstreams]
    /\ valid \in [Accounts -> {1, 2}]
    /\ disk \in {[active |-> a, gen |-> [b \in Accounts |-> 1]] : a \in Accounts}
    /\ cache \in {disk, [active |-> NoAccount, gen |-> [b \in Accounts |-> 0]]}
    /\ pc = [r \in Requests |-> "new"]
    /\ req = [r \in Requests |-> NewRequest]
    /\ pending = <<>>
    /\ logged = <<>>
    /\ sessions = [s \in Accounts \X Buckets |-> None]
    /\ running = TRUE
    /\ changes = 0
    /\ clean = {}
    /\ dropped = {}

-----------------------------------------------------------------------------
(* The credentials.                                                         *)

\* get_active: the account the image names, if its token can be read; any account
\* with a token if the image names none.
ActiveIn(image) ==
    IF image.active # NoAccount
    THEN {a \in {image.active} : image.gen[a] > 0}
    ELSE {a \in Accounts : image.gen[a] > 0}

KeepCopy(readable) == cache' = cache

\* reload(): what cannot be read or parsed leaves the copy as it is.
Reload(readable) == cache' = IF readable THEN disk ELSE cache

Disturb == clean' = {r \in clean : pc[r] \in Ended}

\* The daemon refreshes a token, writes it to the file, and switches; the file may also
\* name an account that a peer has and this machine has not.
RotateToken(a) ==
    /\ changes < MaxChanges
    /\ valid' = [valid EXCEPT ![a] = @ + 1]
    /\ changes' = changes + 1
    /\ Disturb
    /\ UNCHANGED <<now, limiterVars, upstream, disk, cache, pc, req, accounting, running>>

WriteFile(image) ==
    /\ changes < MaxChanges
    /\ disk' = image
    /\ disk' # disk
    /\ changes' = changes + 1
    /\ Disturb
    /\ UNCHANGED <<now, limiterVars, upstream, valid, cache, pc, req, accounting, running>>

StoreToken(a) == WriteFile([disk EXCEPT !.gen[a] = valid[a]])

SwitchActive(a) == WriteFile([disk EXCEPT !.active = a])

\* The task of server.rs that reloads every thirty seconds.
BackgroundReload ==
    /\ running
    /\ Reload(TRUE)
    /\ cache' # cache
    /\ UNCHANGED <<now, limiterVars, upstream, valid, disk, changes, pc, req, accounting, running, clean>>

-----------------------------------------------------------------------------
(* Counting.                                                                *)

FlushAgain(entries, ok) ==
    /\ pending' = entries
    /\ IF ok
       THEN logged' = logged \o entries /\ UNCHANGED dropped
       ELSE dropped' = dropped \cup {entries[i].of : i \in DOMAIN entries} /\ UNCHANGED logged

\* flush_locked.
Flush(entries, ok) ==
    /\ pending' = <<>>
    /\ IF ok
       THEN logged' = logged \o entries /\ UNCHANGED dropped
       ELSE dropped' = dropped \cup {entries[i].of : i \in DOMAIN entries} /\ UNCHANGED logged

RecordUntold(r, usage) ==
    LET entries == Append(pending, [of |-> r, usage |-> 0])
    IN  \/ \E ok \in BOOLEAN : Flush(entries, ok)
        \/ Len(entries) < FlushAt /\ pending' = entries /\ UNCHANGED <<logged, dropped>>

\* ApiUsageTracker::record, which flushes at FlushAt entries or five seconds after the
\* last flush; an entry that cannot be written is forgotten.
RecordUsage(r, usage) ==
    LET entries == Append(pending, [of |-> r, usage |-> usage])
    IN  \/ \E ok \in BOOLEAN : Flush(entries, ok)
        \/ Len(entries) < FlushAt /\ pending' = entries /\ UNCHANGED <<logged, dropped>>

\* The units of a usage with its cache tokens.
WithCache(usage) == 2 * usage

CurrentBucket == now \div Bucket

\* SessionWriter::record_request.
RecordSession(a, units) ==
    sessions' = [sessions EXCEPT ![<<a, CurrentBucket>>] = (IF @ = None THEN 0 ELSE @) + units]

UpdateCurrent(a, units) ==
    LET open == {b \in {CurrentBucket} : sessions[<<a, b>>] # None}
    IN  IF units = 0 \/ open = {} THEN UNCHANGED sessions
        ELSE sessions' = [sessions EXCEPT ![<<a, Max(open)>>] = @ + units]

\* SessionWriter::update_tokens: the session of this bucket, else of the one before.
UpdateSession(a, units) ==
    LET open == {b \in {CurrentBucket, CurrentBucket - 1} \cap Buckets : sessions[<<a, b>>] # None}
    IN  IF units = 0 \/ open = {} THEN UNCHANGED sessions
        ELSE sessions' = [sessions EXCEPT ![<<a, Max(open)>>] = @ + units]

-----------------------------------------------------------------------------
(* handle_proxy.                                                            *)

\* The end of a request lets go of what it held; what its answer was is kept as history.
Goto(r, place, held) ==
    /\ pc' = [pc EXCEPT ![r] = place]
    /\ req' = [req EXCEPT ![r] =
                  IF place = "answered"
                  THEN [held EXCEPT !.sentAs = NoAccount, !.token = 0, !.polls = 0, !.since = 0]
                  ELSE IF place \in Ended THEN NewRequest ELSE held]

Arrive(r) ==
    /\ pc[r] = "new"
    /\ running
    /\ \E allowed \in BOOLEAN :
          /\ Check(IpOf[r], allowed)
          /\ Goto(r, IF allowed THEN "read" ELSE "refused", req[r])
    /\ UNCHANGED <<now, credentials, accounting, running, clean>>

\* The body is read and parsed, or not (400); there is an account, or not (503).
Route(r) ==
    /\ pc[r] = "read"
    /\ \/ Goto(r, "failed", req[r]) /\ UNCHANGED clean
       \/ \E a \in ActiveIn(cache) :
             /\ Goto(r, "routed", [req[r] EXCEPT !.acct = a, !.sentAs = a, !.token = cache.gen[a]])
             /\ clean' = IF /\ disk.active # NoAccount /\ upstream[disk.active] = upstream[a]
                            /\ disk.gen[disk.active] = valid[disk.active]
                         THEN clean \cup {r} ELSE clean
    /\ UNCHANGED <<now, limiterVars, credentials, accounting, running>>

\* The request is translated and impersonated, which may make a stream of it, and sent with
\* the token it was routed to; what the whitelist rejects fails (400).
Send(r, wants, streams) ==
    /\ pc[r] = "routed"
    /\ wants => streams
    /\ \/ Goto(r, "failed", req[r])
       \/ Goto(r, "sent", [req[r] EXCEPT !.since = now, !.wants = wants, !.streams = streams])
    /\ UNCHANGED <<now, limiterVars, credentials, accounting, running, clean>>

\* The answer to the token of account a at the upstream of account via: 401 unless it is
\* valid, and perhaps a refusal also of a valid one at an upstream that is not its own.
Code(via, a, token) ==
    (IF valid[a] = token THEN {200, 500} ELSE {401})
        \cup (IF upstream[a] = upstream[via] THEN {} ELSE {401, 500})

\* No answer: an error of the network, or the timeout (502).
NoAnswer(r) ==
    /\ pc[r] \in {"sent", "resent"}
    /\ Goto(r, "failed", req[r])
    /\ UNCHANGED <<now, limiterVars, credentials, accounting, running, clean>>

\* A buffered answer, counted whatever its status, for the account of the start.  Only the
\* body of a success has usage, and a body that breaks off is passed on as an empty one.
Answer(r, code) ==
    \E units \in (IF code = 200 THEN {0, 1} ELSE {0}) :
        /\ Goto(r, "answered", [req[r] EXCEPT !.code = code, !.usage = units])
        /\ RecordUsage(r, units)
        /\ RecordSession(req[r].acct, WithCache(units))

\* An error of a streamed request, or its answer when sent again: passed on and not counted.
PassOn(r, code) ==
    /\ Goto(r, "answered", [req[r] EXCEPT !.code = code, !.wants = FALSE,
                                          !.usage = IF code = 200 THEN 1 ELSE 0])
    /\ UNCHANGED accounting

Success(r) ==
    IF ~req[r].streams THEN Answer(r, 200)
    ELSE IF req[r].wants
    THEN /\ Goto(r, "stream", req[r])
         /\ RecordUsage(r, 0)
         /\ RecordSession(req[r].acct, 0)
    ELSE Goto(r, "reassemble", req[r]) /\ UNCHANGED accounting

FirstAnswer(r) ==
    /\ pc[r] = "sent"
    /\ \E code \in Code(req[r].acct, req[r].sentAs, req[r].token) :
          \/ code = 200 /\ Success(r)
          \/ code = 401 /\ Goto(r, "unauthorized", req[r]) /\ UNCHANGED accounting
          \/ code = 500 /\ IF req[r].streams THEN PassOn(r, code) ELSE Answer(r, code)
    /\ UNCHANGED <<now, limiterVars, credentials, running, clean>>

\* reload() and get_active() after a 401, at once or after half a second: another token is
\* sent once more, to the URL of the account of the start and with its headers but for the
\* token (set_auth_headers); without an account, or for a stream, the 401 is the answer.
RetryOrWait(r) ==
    /\ pc[r] \in {"unauthorized", "poll"}
    /\ \E readable \in BOOLEAN :
          /\ Reload(readable)
          /\ clean' = IF readable THEN clean ELSE clean \ {r}
    /\ LET waits == pc[r] = "poll"
           GiveUp == IF req[r].streams THEN PassOn(r, 401) ELSE Answer(r, 401)
           Again == IF req[r].polls < MaxPolls
                    THEN /\ Goto(r, "poll", [req[r] EXCEPT !.polls = @ + 1])
                         /\ UNCHANGED accounting
                    ELSE GiveUp
       IN  \/ \E a \in ActiveIn(cache') :
                 \/ /\ cache'.gen[a] # req[r].token \/ a # req[r].sentAs
                    /\ Goto(r, "resent", [req[r] EXCEPT !.sentAs = a, !.token = cache'.gen[a],
                                                       !.since = now, !.again = TRUE])
                    /\ UNCHANGED accounting
                 \/ /\ cache'.gen[a] = req[r].token /\ a = req[r].sentAs
                    /\ IF req[r].streams THEN GiveUp ELSE Again
           \/ /\ ActiveIn(cache') = {}
              /\ IF waits THEN Again ELSE GiveUp
    /\ UNCHANGED <<now, limiterVars, upstream, valid, disk, changes, running>>

\* The second answer is the last.  That of a streamed request is passed on as a whole.
SecondAnswer(r) ==
    /\ pc[r] = "resent"
    /\ \E code \in Code(req[r].acct, req[r].sentAs, req[r].token) :
          IF req[r].streams THEN PassOn(r, code) ELSE Answer(r, code)
    /\ UNCHANGED <<now, limiterVars, credentials, running, clean>>

\* SseUsageExtractor::feed, SseReassembler::feed.
StreamEvent(r) ==
    /\ pc[r] \in {"stream", "reassemble"}
    /\ req[r].usage = 0
    /\ Goto(r, pc[r], [req[r] EXCEPT !.usage = 1])
    /\ UNCHANGED <<now, limiterVars, credentials, accounting, running, clean>>

\* The end of the stream, or an error or the timeout in it, adds what was seen so far.
StreamEnds(r) ==
    /\ pc[r] = "stream"
    /\ Goto(r, "answered", req[r])
    /\ UpdateSession(req[r].acct, WithCache(req[r].usage))
    /\ UNCHANGED <<now, limiterVars, credentials, pending, logged, dropped, running, clean>>

\* A reassembled message is counted, in the session without its cache tokens; without
\* message_start, or after an error, it is a 502.
ReassemblyEnds(r) ==
    /\ pc[r] = "reassemble"
    /\ \/ /\ req[r].usage > 0
          /\ Goto(r, "answered", req[r])
          /\ RecordUsage(r, req[r].usage)
          /\ RecordSession(req[r].acct, req[r].usage)
       \/ Goto(r, "failed", req[r]) /\ UNCHANGED accounting
    /\ UNCHANGED <<now, limiterVars, credentials, running, clean>>

\* A client that hangs up takes its handler, or the body of its stream, with it.
ClientLeaves(r) ==
    /\ pc[r] \in Waiting \cup {"poll"}
    /\ Goto(r, "left", req[r])
    /\ UNCHANGED <<now, limiterVars, credentials, accounting, running, clean>>

\* A client that does not read its stream keeps it from being polled, past its timeout.
ClientStalls(r) ==
    /\ pc[r] = "stream"
    /\ ~req[r].stalled
    /\ Goto(r, "stream", [req[r] EXCEPT !.stalled = TRUE])
    /\ UNCHANGED <<now, limiterVars, credentials, accounting, running, clean>>

-----------------------------------------------------------------------------
(* The server.                                                              *)

\* /_proxy/api/usage: get_stats flushes first.
GetStats ==
    /\ running
    /\ pending # <<>>
    /\ \E ok \in BOOLEAN : Flush(pending, ok)
    /\ UNCHANGED <<now, limiterVars, credentials, pc, req, sessions, running, clean>>

\* /_proxy/shutdown: no more requests are taken, those that run come to their end, and the
\* process ends without a flush.
Shutdown ==
    /\ running
    /\ \A r \in Requests : pc[r] \in Ended \cup {"new"}
    /\ running' = FALSE
    /\ pending' = <<>>
    /\ dropped' = dropped \cup {pending[i].of : i \in DOMAIN pending}
    /\ UNCHANGED <<now, limiterVars, credentials, pc, req, logged, sessions, clean>>

\* A request that waits for the provider is ended by its timeout at the latest.
Overdue(r) == pc[r] \in Waiting /\ now - req[r].since >= Timeout /\ ~req[r].stalled

Tick ==
    /\ now < MaxTime
    /\ ~\E r \in Requests : Overdue(r)
    /\ now' = now + 1
    /\ UNCHANGED <<limiterVars, credentials, pc, req, accounting, running, clean>>

Handle(r) ==
    \/ Arrive(r) \/ Route(r)
    \/ \E wants, streams \in BOOLEAN : Send(r, wants, streams)
    \/ NoAnswer(r) \/ FirstAnswer(r) \/ RetryOrWait(r) \/ SecondAnswer(r)
    \/ StreamEvent(r) \/ StreamEnds(r) \/ ReassemblyEnds(r)

ProxyNext ==
    \/ \E r \in Requests : Handle(r) \/ ClientLeaves(r) \/ ClientStalls(r)
    \/ \E a \in Accounts : RotateToken(a) \/ StoreToken(a)
    \/ \E a \in Accounts \cup {NoAccount} : SwitchActive(a)
    \/ BackgroundReload \/ GetStats \/ Shutdown \/ Tick

ProxySpec == ProxyInit /\ [][ProxyNext]_proxyVars

-----------------------------------------------------------------------------
(* Properties.                                                              *)

\* A request during which nothing was amiss with the credentials file (the token of its
\* active account was valid, nobody changed it, every reload could read it) is not
\* answered by 401, however old the token of the proxy's copy was when it came (the 401
\* handling of handle_proxy: the copy is reloaded and the request is sent once more).
\* That is so only when the account of the copy has the upstream of the file's: the second
\* sending changes the token and neither the URL nor the oauth flag.
NoNeedless401 == \A r \in clean : pc[r] = "answered" => req[r].code # 401

Entries(r) ==
    Cardinality({i \in DOMAIN pending : pending[i].of = r})
        + Cardinality({i \in DOMAIN logged : logged[i].of = r})

\* What the entry of an answer tells of its usage: nothing for a live stream, whose entry
\* is recorded when it opens.
Told(held) == IF held.streams /\ held.wants THEN 0 ELSE held.usage

\* Every success that a client got the whole of is in the usage records once, and no
\* request is there twice.  There are two losses: entries that are in memory at the end or
\* that no file took, and a streamed request that was sent twice (usage of handler.rs).  An
\* entry in the file gives the usage that the answer reported ("with token counts", the
\* header of api_usage.rs), but that of a live stream gives none, and its end adds none.
CountedOnce ==
    /\ \A r \in Requests :
          /\ Entries(r) <= 1
          /\ pc[r] = "answered" /\ req[r].code = 200 /\ Entries(r) = 0
                => r \in dropped \/ (req[r].streams /\ req[r].again)
    /\ \A i \in DOMAIN logged : logged[i].usage = Told(req[logged[i].of])

\* What the sessions are given of the usage of an answer: all of it, without the cache
\* tokens when it was reassembled, nothing when it is that of a stream sent again.
Owed(held) ==
    IF held.streams /\ held.again THEN 0
    ELSE IF held.streams /\ ~held.wants THEN held.usage
    ELSE WithCache(held.usage)

Units(R) == SumFunction([r \in Requests |-> IF r \in R THEN Owed(req[r]) ELSE 0])

InSessions(a) ==
    SumFunction([b \in Buckets |-> IF sessions[<<a, b>>] = None THEN 0 ELSE sessions[<<a, b>>]])

\* The sessions of an account hold the usage of the answers to the requests that began with
\* it, and of those alone, also of streams that end in another bucket than they began in.
\* They are booked there even if the second sending went out with another account's token
\* (record_request of handle_proxy is given the account of the start).  Not booked are the
\* answer of a stream sent again and the cache tokens of a reassembled one, and a client
\* that does not read may lose the usage of its stream (update_tokens, session_writer.rs).
SessionsHoldUsage ==
    \A a \in Accounts :
        LET answered == {r \in Requests : pc[r] = "answered" /\ req[r].acct = a}
        IN  /\ Units({r \in answered : ~req[r].stalled}) <= InSessions(a)
            /\ InSessions(a) <= Units(answered)
=============================================================================
