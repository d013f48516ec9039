--------------------------- MODULE SyncCoordinator ---------------------------
(***************************************************************************)
(* The exchange of accounts between the nodes of the P2P group: the         *)
(* announcements each node sends through its SyncBus, the answers and the   *)
(* message handlers of its SyncCoordinator (crates/sync/src/bus.rs,         *)
(* coordinator.rs), and the local operations that change an account and     *)
(* announce it (daemon and Tauri application).                              *)
(*                                                                          *)
(* A node stamps messages from two counters: the coordinator's vector clock *)
(* for the answer to a SyncRequest, and a counter of the bus for all the    *)
(* announcements.  Both stamp the entry of the same node id.                *)
(*                                                                          *)
(* Every message travels on a TCP connection of its own, so that messages   *)
(* overtake each other and get lost: the receiver takes any message it has  *)
(* not seen, or never takes it.  A SyncRequest holds nothing but its        *)
(* sender's name and every reconnection sends one: one may arrive at any    *)
(* moment.  The coordinators run in the open mode of both programs (no list *)
(* of known peers).  Every account exists on all the nodes from the start,  *)
(* never refreshed.  Stamps come from one clock (no skew between machines). *)
(***************************************************************************)
EXTENDS SyncClock, FiniteSets

CONSTANTS
    Keys,        \* account keys
    NoKey,       \* value of active while no account is
    MaxStamp,    \* bound: last_refresh stamps minted
    MaxSent      \* bound: messages of all nodes, sent or about to be

ASSUME NoKeyAssumption == NoKey \notin Keys
ASSUME SyncBoundsAssumption == MaxStamp \in Nat /\ MaxSent \in Nat

VARIABLES
    acct,      \* the accounts of each node's CredentialsCache
    active,    \* the active account of each node
    clock,     \* SyncCoordinator::clock
    counter,   \* SyncBus::local_clock_counter, the next count to hand out
    answering, \* the coordinator's loop is inside broadcast_credentials
    tasks,     \* spawned announcements that have no clock yet
    sent,      \* the messages sent so far
    seen,      \* the messages each node has taken (the bus drops them if seen again)
    issued,    \* the generation of each account's valid refresh token
    now,       \* the newest last_refresh anywhere
    quotaBump  \* history: accounts whose last_refresh moved without a new token

syncVars == <<acct, active, clock, counter, answering, tasks, sent, seen, issued,
              now, quotaBump>>

Accounts == [Keys -> Account]
Actives == Keys \cup {NoKey}

\* What a spawned announcement carries, before it has a clock.
CredentialsBody == [kind : {"credentials"}, accounts : Accounts, active : Actives]
SwitchBody == [kind : {"switch"}, key : Keys]
QuotaBody == [kind : {"quota"}, key : Keys]
Body == CredentialsBody \cup SwitchBody \cup QuotaBody

Message == [from : Nodes, to : SUBSET Nodes, by : {"bus", "coordinator"},
            clock : Clock, body : Body]

SyncTypeOK ==
    /\ acct \in [Nodes -> Accounts]
    /\ active \in [Nodes -> Actives]
    /\ clock \in [Nodes -> Clock]
    /\ counter \in [Nodes -> Nat \ {0}]
    /\ answering \in [Nodes -> BOOLEAN]
    /\ tasks \in [Nodes -> SUBSET [to : SUBSET Nodes, body : Body]]
    /\ sent \in SUBSET Message
    /\ seen \in [Nodes -> SUBSET Message]
    /\ issued \in [Keys -> Nat]
    /\ now \in Nat
    /\ quotaBump \in SUBSET Keys

ZeroFirst == 0

\* The first count SyncBus hands out: 0 would be a clock with no information.
FirstCount == 1

SyncInit ==
    /\ acct = [n \in Nodes |-> [k \in Keys |-> Fresh]]
    /\ active = [n \in Nodes |-> NoKey]
    /\ clock = [n \in Nodes |-> ZeroClock]
    /\ counter = [n \in Nodes |-> FirstCount]
    /\ answering = [n \in Nodes |-> FALSE]
    /\ tasks = [n \in Nodes |-> {}]
    /\ sent = {}
    /\ seen = [n \in Nodes |-> {}]
    /\ issued = [k \in Keys |-> 0]
    /\ now = 0
    /\ quotaBump = {}

\* The bound on messages counts the begun ones, so that each can be sent.
MayBegin ==
    Cardinality(sent) + Cardinality({n \in Nodes : answering[n]})
        + Cardinality(UNION {{n} \X tasks[n] : n \in Nodes}) < MaxSent

Peers(n) == Nodes \ {n}
Snapshot(n) == [kind |-> "credentials", accounts |-> acct[n], active |-> active[n]]

-----------------------------------------------------------------------------
(* Local operations.                                                        *)

RefreshUnstamped(n, k) ==
    /\ now < MaxStamp
    /\ ~acct[n][k].deleted
    /\ acct[n][k].gen = issued[k]
    /\ issued' = [issued EXCEPT ![k] = @ + 1]
    /\ acct' = [acct EXCEPT ![n][k] = [@ EXCEPT !.gen = issued[k] + 1]]
    /\ now' = now + 1
    /\ UNCHANGED <<active, clock, counter, answering, tasks, sent, seen, quotaBump>>

\* refresh_account then update_oauth: the provider rotates the refresh token,
\* and accepts only the latest one.
RefreshToken(n, k) ==
    /\ now < MaxStamp
    /\ ~acct[n][k].deleted
    /\ acct[n][k].gen = issued[k]
    /\ issued' = [issued EXCEPT ![k] = @ + 1]
    /\ acct' = [acct EXCEPT ![n][k] =
                   [lr |-> now + 1, gen |-> issued[k] + 1, deleted |-> @.deleted]]
    /\ now' = now + 1
    /\ UNCHANGED <<active, clock, counter, answering, tasks, sent, seen, quotaBump>>

\* update_quota: stamps the account although its tokens are what they were.
Stamped(a) == [a EXCEPT !.lr = now + 1]

BusClock(n) == [ZeroClock EXCEPT ![n] = counter[n]]

\* next_clock and the broadcast of what it stamps.
SendOnBus(n, to, body) ==
    /\ counter' = [counter EXCEPT ![n] = @ + 1]
    /\ sent' = sent \cup {[from |-> n, to |-> to, by |-> "bus",
                           clock |-> BusClock(n), body |-> body]}

\* A round of the quota loop on one account: update_quota, then a QuotaUpdate.
FetchQuota(n, k) ==
    /\ MayBegin
    /\ now < MaxStamp
    /\ ~acct[n][k].deleted
    /\ acct' = [acct EXCEPT ![n][k] = Stamped(@)]
    /\ now' = now + 1
    /\ quotaBump' = quotaBump \cup {k}
    /\ SendOnBus(n, Peers(n), [kind |-> "quota", key |-> k])
    /\ UNCHANGED <<active, clock, answering, tasks, seen, issued>>

\* delete_account: a flag, and no new last_refresh.
DeleteAccount(n, k) ==
    /\ ~acct[n][k].deleted
    /\ acct' = [acct EXCEPT ![n][k].deleted = TRUE]
    /\ active' = [active EXCEPT ![n] = IF @ = k THEN NoKey ELSE @]
    /\ UNCHANGED <<clock, counter, answering, tasks, sent, seen, issued,
                   now, quotaBump>>

\* switch_account: the announcement is spawned and takes its clock later.
SwitchAccount(n, k) ==
    /\ ~acct[n][k].deleted
    /\ MayBegin
    /\ active' = [active EXCEPT ![n] = k]
    /\ tasks' = [tasks EXCEPT ![n] =
                    @ \cup {[to |-> Peers(n), body |-> [kind |-> "switch", key |-> k]]}]
    /\ UNCHANGED <<acct, clock, counter, answering, sent, seen, issued,
                   now, quotaBump>>

-----------------------------------------------------------------------------
(* What a node sends of its accounts.                                       *)

\* export_json and active_key of an announcement, which any local change and
\* any event of the file watcher spawns, or of the direct SyncResponse.
Export(n, to) ==
    /\ MayBegin
    /\ tasks' = [tasks EXCEPT ![n] = @ \cup {[to |-> to, body |-> Snapshot(n)]}]
    /\ UNCHANGED <<acct, active, clock, counter, answering, sent, seen,
                   issued, now, quotaBump>>

\* The rest of such a task.
Announce(n, x) ==
    /\ SendOnBus(n, x.to, x.body)
    /\ tasks' = [tasks EXCEPT ![n] = @ \ {x}]
    /\ UNCHANGED <<acct, active, clock, answering, seen, issued, now, quotaBump>>

AnswerWithoutCounting(n) ==
    /\ MayBegin
    /\ ~answering[n]
    /\ answering' = [answering EXCEPT ![n] = TRUE]
    /\ UNCHANGED <<acct, active, clock, counter, tasks, sent, seen, issued, now, quotaBump>>

\* handle_sync_request: broadcast_credentials counts its message first ...
CountAnswer(n) ==
    /\ MayBegin
    /\ ~answering[n]
    /\ answering' = [answering EXCEPT ![n] = TRUE]
    /\ clock' = [clock EXCEPT ![n][n] = @ + 1]
    /\ UNCHANGED <<acct, active, counter, tasks, sent, seen, issued, now, quotaBump>>

\* ... and then exports the accounts, which may have changed meanwhile.
SendAnswer(n) ==
    /\ answering[n]
    /\ answering' = [answering EXCEPT ![n] = FALSE]
    /\ sent' = sent \cup {[from |-> n, to |-> Peers(n), by |-> "coordinator",
                           clock |-> clock[n], body |-> Snapshot(n)]}
    /\ UNCHANGED <<acct, active, clock, counter, tasks, seen, issued, now, quotaBump>>

-----------------------------------------------------------------------------
(* The handlers of a message, each of which ends by merging the clocks unless *)
(* the change could not be stored: then its error leaves the clock behind.    *)

Take(n, m, kind) ==
    /\ ~answering[n]
    /\ n \in m.to
    /\ m \notin seen[n]
    /\ m.body.kind = kind
    /\ seen' = [seen EXCEPT ![n] = @ \cup {m}]

MergeClock(n, m, stored) ==
    clock' = IF stored THEN [clock EXCEPT ![n] = MergeClocks(@, m.clock)] ELSE clock

\* Any of them does nothing for a clock that ours dominates.
Ignore(n, m) ==
    /\ Take(n, m, m.body.kind)
    /\ ~RemoteHasNewInfo(clock[n], m.clock)
    /\ UNCHANGED <<acct, active, clock, counter, answering, tasks, sent,
                   issued, now, quotaBump>>

\* handle_credentials, for Credentials and SyncResponse.
HandleCredentials(n, m, stored) ==
    /\ Take(n, m, "credentials")
    /\ RemoteHasNewInfo(clock[n], m.clock)
    /\ acct' = [acct EXCEPT ![n] = [k \in Keys |-> MergeAccount(@[k], m.body.accounts[k])]]
    /\ active' = [active EXCEPT ![n] = IF m.body.active = NoKey THEN @ ELSE m.body.active]
    /\ MergeClock(n, m, stored)
    /\ UNCHANGED <<counter, answering, tasks, sent, issued, now, quotaBump>>

\* handle_account_switch: whether or not the account exists, or was deleted.
HandleAccountSwitch(n, m, stored) ==
    /\ Take(n, m, "switch")
    /\ RemoteHasNewInfo(clock[n], m.clock)
    /\ active' = [active EXCEPT ![n] = m.body.key]
    /\ MergeClock(n, m, stored)
    /\ UNCHANGED <<acct, counter, answering, tasks, sent, issued, now, quotaBump>>

\* handle_quota_update.
HandleQuotaUpdate(n, m, stored) ==
    /\ now < MaxStamp
    /\ Take(n, m, "quota")
    /\ RemoteHasNewInfo(clock[n], m.clock)
    /\ acct' = [acct EXCEPT ![n][m.body.key] = Stamped(@)]
    /\ now' = now + 1
    /\ quotaBump' = quotaBump \cup {m.body.key}
    /\ MergeClock(n, m, stored)
    /\ UNCHANGED <<active, counter, answering, tasks, sent, issued>>

-----------------------------------------------------------------------------
Local(n) ==
    \E k \in Keys :
        RefreshToken(n, k) \/ FetchQuota(n, k) \/ DeleteAccount(n, k) \/ SwitchAccount(n, k)

Send(n) ==
    \/ Export(n, Peers(n))
    \/ \E p \in Peers(n) : Export(n, {p})
    \/ \E x \in tasks[n] : Announce(n, x)
    \/ CountAnswer(n) \/ SendAnswer(n)

Receive(n) ==
    \E m \in sent :
        \/ Ignore(n, m)
        \/ \E stored \in BOOLEAN :
              HandleCredentials(n, m, stored) \/ HandleAccountSwitch(n, m, stored)
              \/ HandleQuotaUpdate(n, m, stored)

SyncNext == \E n \in Nodes : Local(n) \/ Send(n) \/ Receive(n)

SyncSpec == SyncInit /\ [][SyncNext]_syncVars

-----------------------------------------------------------------------------
(* Properties.                                                              *)

\* No entry of a clock is made up: a node's count of another, in its clock or in a
\* message, is one that the other has put on a message of its own, and its count
\* of itself is at most one answer ahead of that.  (A merge that adds counts, or
\* a clock counted for somebody else, would let a node claim what it never saw.)
Issued(i, c) == \E m \in sent : m.from = i /\ m.clock[i] = c

ClockIsIssued ==
    /\ \A n, i \in Nodes :
          clock[n][i] > 0 =>
              Issued(i, clock[n][i]) \/ (i = n /\ answering[n])
    /\ \A m \in sent, i \in Nodes : m.clock[i] > 0 => Issued(i, m.clock[i])

\* What makes it right to ignore a message whose clock ours dominates: once a node's
\* clock has reached the count of a coordinator's answer, directly or through
\* others, each of its accounts is at least as recently refreshed as in that
\* answer.  It holds while no message stamped by a bus has been taken; the run
\* SyncIgnored shows what those messages do to it.
BusTaken == \E n \in Nodes : \E m \in seen[n] : m.by = "bus"

ClockCertifiesState ==
    ~BusTaken =>
        \A n \in Nodes : \A m \in sent :
            m.by = "coordinator" /\ clock[n][m.from] >= m.clock[m.from] =>
                \A k \in Keys : m.body.accounts[k].lr <= acct[n][k].lr

\* Last-write-wins picks the right token: of two copies of an account, on nodes or
\* in messages, the one refreshed later never holds the older refresh token - as
\* long as no quota round has stamped that account.
Copies(k) ==
    {acct[n][k] : n \in Nodes} \cup
    {m.body.accounts[k] : m \in {s \in sent : s.body.kind = "credentials"}}

LaterCopyNewerToken ==
    \A k \in Keys \ quotaBump :
        \A a, b \in Copies(k) : a.lr <= b.lr => a.gen <= b.gen

\* A deleted account comes back only with a copy refreshed after the one deleted,
\* or if it had never been refreshed.
DeletionHolds ==
    [][\A n \in Nodes, k \in Keys :
          acct[n][k].deleted /\ ~acct'[n][k].deleted =>
              acct[n][k].lr = 0 \/ acct'[n][k].lr > acct[n][k].lr]_syncVars

\* The header of coordinator.rs: a message that is ignored is ignored because our
\* data are more recent.
IgnoredIsOlder ==
    [][\A n \in Nodes : \A m \in seen'[n] \ seen[n] :
          m.body.kind = "credentials" /\ ~RemoteHasNewInfo(clock[n], m.clock) =>
              \A k \in Keys : m.body.accounts[k].lr <= acct[n][k].lr]_syncVars

\* The nodes implement replicas that only ever go on to later copies, whatever is lost,
\* delayed, overtaken or answered meanwhile: what a node offers is what it has sent, or
\* has exported for a message on its way.
Offered(k) ==
    {m.body.accounts[k] : m \in {s \in sent : s.body.kind = "credentials"}} \cup
    UNION {{x.body.accounts[k] : x \in {y \in tasks[n] : y.body.kind = "credentials"}} : n \in Nodes}

Lww == INSTANCE LwwReplica WITH
           Replicas <- Nodes, Values <- Account, copy <- acct,
           offered <- [k \in Keys |-> Offered(k)]

ImplementsLww == Lww!LwwSpec
=============================================================================
