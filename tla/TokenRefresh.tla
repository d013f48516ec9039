----------------------------- MODULE TokenRefresh -----------------------------
(***************************************************************************)
(* Who refreshes the OAuth tokens of a machine, and what becomes of the    *)
(* single refresh token the provider accepts for each account.             *)
(*                                                                         *)
(* A process - the daemon or the Tauri application - has one loop that     *)
(* visits the accounts in turn (crates/daemon/src/refresh_loop.rs, or      *)
(* quota_refresh_loop in tauri-app/src-tauri/src/lib.rs) and any number of *)
(* commands beside it (refresh, switch, revoke, delete: http_api           *)
(* accounts.rs, commands.rs).  Each reads a token from the shared cache,   *)
(* awaits the provider, and uses the answer; nothing serialises them.  The *)
(* Claude Code CLI holds tokens of the same accounts in a file of its own. *)
(*                                                                         *)
(* Tokens are generations: a refresh of the generation the provider        *)
(* accepts makes the next one, any other is refused with invalid_grant.    *)
(* Every account is an Anthropic account with OAuth tokens.                *)
(***************************************************************************)
EXTENDS Integers

CONSTANTS
    Keys,         \* account keys
    NoKey,        \* value of active while no account is
    Commands,     \* commands that may be in progress at once
    Loop,         \* the loop of the process
    Split,        \* split_quota_fetch of the configuration
    MaxCommands,  \* bound: commands begun
    MaxEvents     \* bound: expiries, rotations by the CLI, failures

ASSUME NoKeyAssumption == NoKey \notin Keys
ASSUME LoopAssumption == Loop \notin Commands
ASSUME SplitAssumption == Split \in BOOLEAN
ASSUME TokenBoundsAssumption == MaxCommands \in Nat /\ MaxEvents \in Nat

Callers == Commands \cup {Loop}

VARIABLES
    program,   \* which process this is
    untimed,   \* accounts whose first token came without expires_at
    gen,       \* the generation each account holds in the CredentialsCache
    deleted,   \* accounts with the flag of a soft delete
    active,    \* active_account
    invalid,   \* invalid_grant_accounts
    cooldown,  \* the daemon loop's CooldownMap: refresh tokens not to try
    recent,    \* accounts with a last_refresh within the loop's interval
    left,      \* accounts the loop has still to visit in this cycle
    call,      \* what each caller is doing: at which step, on which account, with which token
    valid,     \* the provider: the newest generation of each account
    revoked,   \* the provider: accounts whose grant was revoked
    expired,   \* access tokens that have expired, or are about to
    cli,       \* the generation in the CLI's file, 0 if the account is not there
    lost,      \* history: accounts with an answer lost after its rotation
    clobbered, \* history: accounts that took an older token from the CLI's file
    begun,     \* commands begun so far
    events     \* events so far

setup == <<program, untimed>>
cache == <<gen, deleted, active, invalid, cooldown, recent>>
provider == <<valid, revoked, expired>>
history == <<lost, clobbered>>
tokenVars == <<program, untimed, gen, deleted, active, invalid, cooldown, recent, left,
               call, valid, revoked, expired, cli, lost, clobbered, begun, events>>

Ops == {"none", "loop", "refresh", "switch", "revoke"}
Steps == {"idle", "next", "fetch", "quota", "sent", "ok", "refused", "failed",
          "cleared", "stored", "switching", "decided"}

TokenTypeOK ==
    /\ program \in {"tauri", "daemon"} /\ untimed \in SUBSET Keys
    /\ gen \in [Keys -> Nat \ {0}]
    /\ deleted \in SUBSET Keys
    /\ active \in Keys \cup {NoKey}
    /\ invalid \in SUBSET Keys
    /\ cooldown \in SUBSET (Keys \X Nat)
    /\ recent \in SUBSET Keys
    /\ left \in SUBSET Keys
    /\ call \in [Callers -> [at : Steps, op : Ops, key : Keys \cup {NoKey},
                           rt : Nat]]
    /\ valid \in [Keys -> Nat \ {0}]
    /\ revoked \in SUBSET Keys
    /\ expired \in SUBSET (Keys \X Nat)
    /\ cli \in [Keys -> Nat]
    /\ lost \in SUBSET Keys
    /\ clobbered \in SUBSET Keys
    /\ begun \in 0 .. MaxCommands
    /\ events \in 0 .. MaxEvents

Free(step) == [at |-> step, op |-> "none", key |-> NoKey, rt |-> 0]

\* Both programs start from the same file; the CLI may know some of the accounts,
\* and add_account has stored the tokens it was given without expires_at.
TokenInit ==
    /\ program \in {"tauri", "daemon"} /\ untimed \in SUBSET Keys
    /\ gen = [k \in Keys |-> 1]
    /\ deleted = {}
    /\ active \in Keys
    /\ invalid = {}
    /\ cooldown = {}
    /\ recent = {}
    /\ left = {}
    /\ call = [c \in Callers |-> Free("idle")]
    /\ valid = [k \in Keys |-> 1]
    /\ revoked = {}
    /\ expired = {}
    /\ cli \in [Keys -> {0, 1}]
    /\ lost = {}
    /\ clobbered = {}
    /\ begun = 0
    /\ events = 0

At(c, step) == call[c].at = step

\* The caller goes on to another step of its call.
Goto(c, step) == call' = [call EXCEPT ![c].at = step]

\* A command ends; the loop turns to its next account.
Done(c) == call' = [call EXCEPT ![c] = Free(IF c = Loop THEN "next" ELSE "idle")]

\* A caller goes to a step on an account, with the token it holds now.
StartOn(c, step, op, k) ==
    call' = [call EXCEPT ![c] = [at |-> step, op |-> op, key |-> k, rt |-> gen[k]]]

Happens == events < MaxEvents /\ events' = events + 1

\* needs_refresh and is_expired, as far as the process knows: false without expires_at.
Due(k) == <<k, gen[k]>> \in expired /\ ~(k \in untimed /\ gen[k] = 1)

-----------------------------------------------------------------------------
(* Commands begin.                                                          *)

Begins(c) ==
    /\ At(c, "idle")
    /\ begun < MaxCommands
    /\ begun' = begun + 1
    /\ UNCHANGED <<setup, left, provider, cli, history, events>>

\* refresh_account: whatever the state of the token it reads.
RefreshAccount(c, k) ==
    /\ Begins(c)
    /\ StartOn(c, "sent", "refresh", k)
    /\ UNCHANGED cache

\* switch_account of the application refreshes an expired token first; the
\* daemon's refuses a deleted account.
SwitchAccount(c, k) ==
    /\ Begins(c)
    /\ program = "daemon" => k \notin deleted
    /\ StartOn(c, IF program = "tauri" /\ Due(k) THEN "sent" ELSE "switching",
               "switch", k)
    /\ UNCHANGED cache

RevokeAccount(c, k) ==
    /\ Begins(c)
    /\ StartOn(c, "sent", "revoke", k)
    /\ UNCHANGED cache

SoftDelete(k) ==
    /\ deleted' = deleted \cup {k}
    /\ active' = IF active = k THEN NoKey ELSE active
    /\ UNCHANGED <<gen, invalid, cooldown, recent>>

DeleteAccount(c, k) ==
    /\ Begins(c)
    /\ SoftDelete(k)
    /\ UNCHANGED call

-----------------------------------------------------------------------------
(* The provider answers a refresh_oauth_token or a revoke_token.            *)

Refreshes(c) ==
    /\ At(c, "sent") /\ call[c].op # "revoke"
    /\ UNCHANGED <<setup, cache, left, expired, cli, clobbered, begun>>

Accepts(k, g) == g = valid[k] /\ k \notin revoked

\* A token that is accepted is replaced, whether or not the answer arrives.
Rotate(c) ==
    LET k == call[c].key IN
    /\ Refreshes(c)
    /\ Accepts(k, call[c].rt)
    /\ valid' = [valid EXCEPT ![k] = @ + 1]
    /\ \/ /\ call' = [call EXCEPT ![c] = [at |-> "ok", op |-> @.op, key |-> k,
                                           rt |-> valid[k] + 1]]
          /\ UNCHANGED <<lost, events>>
       \/ /\ Happens
          /\ Goto(c, "failed")
          /\ lost' = lost \cup {k}
    /\ UNCHANGED revoked

\* invalid_grant.
Refuse(c) ==
    /\ Refreshes(c)
    /\ ~Accepts(call[c].key, call[c].rt)
    /\ Goto(c, "refused")
    /\ UNCHANGED <<valid, revoked, lost, events>>

Revoke(c) ==
    /\ At(c, "sent") /\ call[c].op = "revoke"
    /\ revoked' = revoked \cup {call[c].key}
    /\ \/ Goto(c, "ok") /\ UNCHANGED events
       \/ Goto(c, "failed") /\ Happens
    /\ UNCHANGED <<setup, cache, left, valid, expired, cli, history, begun>>

\* No answer, or an error of the server: Expired and NetworkError.
NoAnswer(c) ==
    /\ At(c, "sent")
    /\ Happens
    /\ Goto(c, "failed")
    /\ UNCHANGED <<setup, cache, left, provider, cli, history, begun>>

-----------------------------------------------------------------------------
(* What the callers do with the answer.                                     *)

Uses(c) == UNCHANGED <<setup, left, provider, cli, lost, begun>>

StoreWhatIsSaved(k, g, saved) ==
    /\ gen' = IF saved THEN [gen EXCEPT ![k] = g] ELSE gen
    /\ recent' = recent \cup {k}
    /\ IF saved THEN UNCHANGED events ELSE Happens

\* update_oauth: the change in memory stays when persist() fails.
UpdateOauth(k, g, saved) ==
    /\ gen' = [gen EXCEPT ![k] = g]
    /\ recent' = recent \cup {k}
    /\ IF saved THEN UNCHANGED events ELSE Happens

\* A refreshed token is stored.  The application's loop has taken the mark off
\* before, and goes on whether or not the token was saved; the daemon's also
\* forgets the cooldown of the token it has just replaced; a command stops
\* where the token was not saved.
StoreToken(c, saved) ==
    LET k == call[c].key IN
    /\ Uses(c)
    /\ call[c].op # "revoke"
    /\ At(c, IF c = Loop /\ program = "tauri" THEN "cleared" ELSE "ok")
    /\ UpdateOauth(k, call[c].rt, saved)
    /\ cooldown' = IF c = Loop THEN cooldown \ {<<k, call[c].rt - 1>>} ELSE cooldown
    /\ IF c = Loop \/ ~saved THEN Done(c)
       ELSE Goto(c, IF call[c].op = "switch" THEN "switching" ELSE "stored")
    /\ UNCHANGED <<deleted, active, invalid, clobbered>>

\* The mark of a refused token is taken off after a refresh: by the application's
\* loop before it stores the token, by its refresh command after.
TakeMarkOff(c) ==
    /\ Uses(c)
    /\ \/ At(c, "ok") /\ c = Loop /\ program = "tauri" /\ Goto(c, "cleared")
       \/ At(c, "stored") /\ program = "tauri" /\ Done(c)
    /\ invalid' = invalid \ {call[c].key}
    /\ UNCHANGED <<gen, deleted, active, cooldown, recent, clobbered, events>>

\* The daemon's command leaves the mark.
LeaveMark(c) ==
    /\ Uses(c)
    /\ At(c, "stored") /\ program = "daemon"
    /\ Done(c)
    /\ UNCHANGED <<cache, clobbered, events>>

CoolDownAccount(c) == <<call[c].key, gen[call[c].key]>>

\* What the daemon's loop puts in cooldown: the token it has sent.
CoolDown(c) == <<call[c].key, call[c].rt>>

\* A refused token marks its account, or goes to the daemon loop's cooldown.
MarkRefused(c) ==
    /\ Uses(c)
    /\ At(c, "refused")
    /\ IF c = Loop /\ program = "daemon"
       THEN cooldown' = cooldown \cup {CoolDown(c)} /\ UNCHANGED invalid
       ELSE invalid' = invalid \cup {call[c].key} /\ UNCHANGED cooldown
    /\ Done(c)
    /\ UNCHANGED <<gen, deleted, active, recent, clobbered, events>>

GiveUp(c) ==
    /\ Uses(c)
    /\ At(c, "failed")
    /\ Done(c)
    /\ UNCHANGED <<cache, clobbered, events>>

\* revoke_account deletes the account once the provider has revoked its token.
DeleteRevoked(c) ==
    /\ Uses(c)
    /\ At(c, "ok") /\ call[c].op = "revoke"
    /\ SoftDelete(call[c].key)
    /\ Done(c)
    /\ UNCHANGED <<clobbered, events>>

CaptureAny(k) == [gen EXCEPT ![k] = cli[k]]

\* capture_rotated_tokens_before_switch takes the CLI's token whenever it is not
\* the one in the cache, and not empty.
Capture(k) == IF cli[k] = 0 THEN gen ELSE [gen EXCEPT ![k] = cli[k]]

\* The end of switch_account: it captures the outgoing account's token first.
Switch(c) ==
    /\ Uses(c)
    /\ At(c, "switching")
    /\ IF active \in Keys \ {call[c].key}
       THEN /\ gen' = Capture(active)
            /\ recent' = IF gen' = gen THEN recent ELSE recent \cup {active}
            /\ clobbered' = IF gen'[active] < gen[active]
                            THEN clobbered \cup {active} ELSE clobbered
       ELSE UNCHANGED <<gen, recent, clobbered>>
    /\ active' = call[c].key
    /\ Done(c)
    /\ UNCHANGED <<deleted, invalid, cooldown, events>>

-----------------------------------------------------------------------------
(* The loop.                                                                *)

Turns == UNCHANGED <<setup, deleted, provider, cli, history, begun>>

\* A cycle begins with the accounts that are not deleted; the daemon's forgets
\* the cooldowns that are over.
StartCycle ==
    /\ Turns
    /\ At(Loop, "idle")
    /\ left' = Keys \ deleted
    /\ \E c \in SUBSET cooldown : cooldown' = c
    /\ Done(Loop)
    /\ UNCHANGED <<gen, active, invalid, recent, events>>

CooledDown(k) == \E x \in cooldown : x[1] = k

SkipsCooled(k) ==
    IF program = "tauri" THEN Split /\ k \in recent
    ELSE k \in deleted \/ CooledDown(k) \/ ~Due(k)

\* The application skips an account that was stamped within the interval, by whomever,
\* if split_quota_fetch is on; the daemon one whose token is in cooldown or not due.
Skips(k) ==
    IF program = "tauri" THEN Split /\ k \in recent
    ELSE k \in deleted \/ <<k, gen[k]>> \in cooldown \/ ~Due(k)

Visit(k) ==
    /\ Turns
    /\ At(Loop, "next")
    /\ k \in left
    /\ left' = left \ {k}
    /\ IF Skips(k) THEN UNCHANGED call
       ELSE StartOn(Loop, IF program = "tauri" THEN "fetch" ELSE "sent", "loop", k)
    /\ UNCHANGED <<gen, active, invalid, cooldown, recent, events>>

\* fetch_quota with the access token read before: 401 leads to a refresh with the
\* refresh token read before, any other error to the next account.
FetchQuota ==
    LET k == call[Loop].key IN
    /\ Turns
    /\ At(Loop, "fetch")
    /\ \/ /\ <<k, call[Loop].rt>> \in expired \/ k \in revoked
          /\ Goto(Loop, "sent") /\ UNCHANGED events
       \/ /\ <<k, call[Loop].rt>> \notin expired /\ k \notin revoked
          /\ Goto(Loop, "quota") /\ UNCHANGED events
       \/ /\ k \in revoked
          /\ Done(Loop) /\ UNCHANGED events
       \/ Done(Loop) /\ Happens
    /\ UNCHANGED <<gen, active, invalid, cooldown, recent, left>>

QuotaKeepsMark ==
    /\ Turns
    /\ At(Loop, "quota")
    /\ recent' = recent \cup {call[Loop].key}
    /\ Done(Loop)
    /\ UNCHANGED <<gen, active, invalid, cooldown, left, events>>

\* A quota proves the account healthy; update_quota stamps it.
QuotaArrives ==
    /\ Turns
    /\ At(Loop, "quota")
    /\ invalid' = invalid \ {call[Loop].key}
    /\ recent' = recent \cup {call[Loop].key}
    /\ Done(Loop)
    /\ UNCHANGED <<gen, active, cooldown, left, events>>

\* At the end of its cycle the application may switch away from a degraded
\* account, or rotate: the target is chosen under a lock that is dropped before
\* active_account is written.
DecideSwitch(k) ==
    /\ Turns
    /\ program = "tauri"
    /\ At(Loop, "next") /\ left = {}
    /\ active # NoKey /\ k # active /\ k \notin deleted /\ k \notin invalid
    /\ StartOn(Loop, "decided", "loop", k)
    /\ UNCHANGED <<cache, left, events>>

\* The loop sleeps for its interval, after which no last_refresh of before counts.
Sleep(switched) ==
    /\ Turns
    /\ At(Loop, IF switched THEN "decided" ELSE "next") /\ left = {}
    /\ active' = IF switched THEN call[Loop].key ELSE active
    /\ recent' = {}
    /\ call' = [call EXCEPT ![Loop] = Free("idle")]
    /\ UNCHANGED <<gen, invalid, cooldown, left, events>>

-----------------------------------------------------------------------------
(* What happens around the process.                                         *)

Around ==
    /\ Happens
    /\ UNCHANGED <<setup, deleted, active, invalid, cooldown, left, call, revoked, lost, begun>>

Expire(k) ==
    /\ Around
    /\ expired' = expired \cup {<<k, gen[k]>>}
    /\ UNCHANGED <<gen, recent, valid, cli, clobbered>>

\* The Claude Code CLI refreshes its own token.
CliRotates(k) ==
    /\ Around
    /\ Accepts(k, cli[k])
    /\ valid' = [valid EXCEPT ![k] = @ + 1]
    /\ cli' = [cli EXCEPT ![k] = valid[k] + 1]
    /\ UNCHANGED <<gen, recent, expired, clobbered>>

\* merge_from_cc_file, on an event of the daemon's file watcher.
MergeFromCcFile ==
    /\ Around
    /\ program = "daemon"
    /\ gen' = [k \in Keys |-> IF cli[k] = 0 THEN gen[k] ELSE cli[k]]
    /\ recent' = recent \cup {k \in Keys : cli[k] # 0}
    /\ clobbered' = clobbered \cup {k \in Keys : gen'[k] < gen[k]}
    /\ UNCHANGED <<valid, expired, cli>>

\* handle_quota_update: a peer has fetched the quota, and that stamps the account.
\* A peer does so once an interval, for as long as it runs.
PeerUpdatesQuota(k) ==
    /\ recent' = recent \cup {k}
    /\ UNCHANGED <<setup, gen, deleted, active, invalid, cooldown, left, call, provider, cli,
                   history, begun, events>>

-----------------------------------------------------------------------------
Begin(c) ==
    \E k \in Keys :
        RefreshAccount(c, k) \/ SwitchAccount(c, k) \/ RevokeAccount(c, k) \/ DeleteAccount(c, k)

Answer(c) == Rotate(c) \/ Refuse(c) \/ Revoke(c) \/ NoAnswer(c)

Apply(c) ==
    \/ \E saved \in BOOLEAN : StoreToken(c, saved)
    \/ TakeMarkOff(c) \/ LeaveMark(c) \/ MarkRefused(c) \/ GiveUp(c)
    \/ DeleteRevoked(c) \/ Switch(c)

TurnLoop ==
    \/ StartCycle
    \/ \E k \in Keys : Visit(k) \/ DecideSwitch(k)
    \/ FetchQuota \/ QuotaArrives
    \/ \E switched \in BOOLEAN : Sleep(switched)

Environment ==
    \/ \E k \in Keys : Expire(k) \/ CliRotates(k) \/ PeerUpdatesQuota(k)
    \/ MergeFromCcFile

TokenNext ==
    \/ \E c \in Commands : Begin(c)
    \/ \E c \in Callers : Answer(c) \/ Apply(c)
    \/ TurnLoop
    \/ Environment

TokenSpec == TokenInit /\ [][TokenNext]_tokenVars

\* Every request ends, with an answer or with its timeout (10 to 30 s), and the
\* loop runs as long as the process does.
TokenFairness ==
    /\ \A c \in Callers : WF_tokenVars(Answer(c)) /\ WF_tokenVars(Apply(c))
    /\ WF_tokenVars(TurnLoop)

FairTokenSpec == TokenSpec /\ TokenFairness

-----------------------------------------------------------------------------
(* Properties.                                                              *)

\* A caller that holds a new token nobody else has yet.
Carries(c, k, g) ==
    call[c].key = k /\ call[c].rt = g /\ call[c].op # "revoke" /\ call[c].at \in {"ok", "cleared"}

(* The inductive invariant behind TokenKept and CooldownOnlyDead, in parts.  *)

\* A caller in the middle of something has an account and a token.
BusyInv ==
    \A c \in Callers :
        call[c].at \notin {"idle", "next"} => call[c].key \in Keys /\ call[c].rt # 0

\* No generation is known before the provider has made it.
KnownInv ==
    /\ \A k \in Keys : gen[k] <= valid[k] /\ cli[k] <= valid[k]
    /\ \A c \in Callers : call[c].key \in Keys => call[c].rt <= valid[call[c].key]

\* A new token that is still to be stored is known to its carrier alone, so that
\* nobody can use it up before.
CarrierInv ==
    \A c \in Callers : \A k \in Keys :
        Carries(c, k, call[c].rt) =>
            /\ call[c].rt = valid[k] /\ gen[k] < valid[k] /\ cli[k] < valid[k]
            /\ \A d \in Callers \ {c} : call[d].key = k => call[d].rt < valid[k]

\* What was refused stays so.
RefusedInv ==
    /\ \A c \in Callers : At(c, "refused") => ~Accepts(call[c].key, call[c].rt)
    /\ \A x \in cooldown : x[2] <= valid[x[1]]

\* The refresh token the provider accepts is never lost, however the callers
\* interleave: it is in the cache, in the CLI's file, or in an answer that is still
\* to be stored - unless an answer was lost on the network after its rotation, or an
\* older token was taken from the CLI's file.
TokenKept ==
    \A k \in Keys \ (revoked \cup lost \cup clobbered) :
        \/ valid[k] \in {gen[k], cli[k]}
        \/ \E c \in Callers : Carries(c, k, valid[k])

\* The daemon's cooldown keeps no token from being tried that the provider would
\* accept, whatever was stored while the refusal was on its way.
CooldownOnlyDead == \A x \in cooldown : ~Accepts(x[1], x[2])

\* The account is in the hands of a peer: again and again the peer's quota update stamps
\* it, and in the end the loop finds it stamped whenever its turn comes and passes it by.
KeptOff(k) ==
    /\ program = "tauri" /\ Split
    /\ []<><<PeerUpdatesQuota(k)>>_tokenVars
    /\ <>[][Visit(k) => k \in recent]_tokenVars

\* An account that was marked invalid_grant in the application although it holds the
\* token the provider accepts - it lost a race with another refresh, or the CLI's
\* new token was captured later - does not stay excluded from the rotation, unless a
\* peer's quota updates keep the loop from it for ever (split_quota_fetch, on by default).
WronglyMarked(k) ==
    program = "tauri" /\ k \in invalid /\ Accepts(k, gen[k]) /\ k \notin deleted
MarkHeals == \A k \in Keys : (WronglyMarked(k) ~> ~WronglyMarked(k)) \/ KeptOff(k)

\* A token that has expired is refreshed, as long as the provider accepts it: no
\* cooldown and no command in progress keeps the loop from it.  In the application a
\* peer that updates the quota in every interval does; the daemon, which asks for no
\* quota, has to know when the token expires.
Overdue(k) ==
    /\ Accepts(k, gen[k]) /\ <<k, gen[k]>> \in expired /\ k \notin deleted
    /\ program = "daemon" => Due(k)
ExpiredIsRefreshed == \A k \in Keys : (Overdue(k) ~> ~Overdue(k)) \/ KeptOff(k)
=============================================================================
