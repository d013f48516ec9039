---------------------------- MODULE SyncPipeline ----------------------------
(***************************************************************************)
(* The synchronisation in seven steps with one peer, and the outbox it       *)
(* drains: SyncPipeline and run_pipeline_with_peer in                        *)
(* crates/sync/src/coordinator.rs, and crates/sync/src/outbox.rs.            *)
(*                                                                          *)
(* The messages of the pipeline are answered by the coordinator, but only    *)
(* the tests call run_pipeline_with_peer, Outbox::push and the constructors  *)
(* of its requests: what the peer has sent is collected here as the comment  *)
(* on run_pipeline_with_peer says.  Meanwhile both nodes go on changing      *)
(* their accounts, counting messages and taking each other's clocks.         *)
(***************************************************************************)
EXTENDS SyncClock, Sequences, SequencesExt, FiniteSets

CONSTANTS
    Keys,        \* account keys
    Hashes,      \* account_content_hash: the ways the hash may order the contents
    MaxStamp,    \* bound: last_refresh stamps minted
    MaxRuns,     \* bound: pipelines begun
    MaxCount,    \* bound: messages a node counts
    MaxPush,     \* bound: messages pushed on an outbox
    MaxTime,     \* bound: hours
    MaxEntries,  \* MAX_ENTRIES of the outbox
    Ttl          \* TTL, in hours

\* An account as the pipeline sees it: "there" unless the node has none with that key.
Content == [there : BOOLEAN, lr : 0 .. MaxStamp, deleted : BOOLEAN]
NoAccount == [there |-> FALSE, lr |-> 0, deleted |-> FALSE]
Contents == {c \in Content : c.there}

ASSUME PipelineBoundsAssumption ==
    /\ MaxStamp \in Nat /\ MaxRuns \in Nat /\ MaxCount \in Nat /\ MaxPush \in Nat
    /\ MaxTime \in Nat /\ MaxEntries \in Nat /\ Ttl \in Nat
ASSUME HashesAssumption == Hashes \subseteq [Contents -> Nat \ {0}]

VARIABLES
    acct,     \* the accounts of each node's CredentialsCache
    clock,    \* SyncCoordinator::clock
    hash,     \* account_content_hash
    run,      \* the pipeline each node has in progress: what it has read and got so far
    outbox,   \* the entries of the outbox's file
    hour,     \* the time
    pushed,   \* history: when each message was pushed
    drained,  \* history: the last drain of the outbox
    offered,  \* history: the copies of each account that were read to be sent or merged
    now, runs

accountVars == <<acct, now>>
outboxVars == <<outbox, hour, pushed, drained>>
pipelineVars == <<accountVars, clock, hash, run, outboxVars, offered, runs>>

Idle == [at |-> "idle"]

\* A clock by its entries: -1 where it has none, which counts as 0 but is not the same.
Entries == [Nodes -> Nat \cup {-1}]
Counts(c) == [i \in Nodes |-> IF c[i] = -1 THEN 0 ELSE c[i]]

\* A coordinator starts with the entry of its own node.
StartClock(n) == [i \in Nodes |-> IF i = n THEN 0 ELSE -1]

PipelineInit ==
    /\ acct \in [Nodes -> [Keys -> {NoAccount, [NoAccount EXCEPT !.there = TRUE]}]]
    /\ clock = [n \in Nodes |-> StartClock(n)]
    /\ hash \in Hashes
    /\ run = [n \in Nodes |-> Idle]
    /\ outbox = <<>> /\ hour = 0 /\ pushed = <<>>
    /\ drained = [from |-> 1, to |-> 0, at |-> 0, ids |-> <<>>]
    /\ offered = [k \in Keys |-> {}]
    /\ now = 0 /\ runs = 0

-----------------------------------------------------------------------------
(* What both nodes do meanwhile.                                            *)

RefreshToken(n, k) ==
    /\ now < MaxStamp
    /\ acct[n][k].there /\ ~acct[n][k].deleted
    /\ now' = now + 1
    /\ acct' = [acct EXCEPT ![n][k].lr = now + 1]
    /\ UNCHANGED <<clock, hash, run, outboxVars, offered, runs>>

DeleteAccount(n, k) ==
    /\ acct[n][k].there /\ ~acct[n][k].deleted
    /\ acct' = [acct EXCEPT ![n][k].deleted = TRUE]
    /\ UNCHANGED <<now, clock, hash, run, outboxVars, offered, runs>>

\* broadcast_credentials counts its message.
CountMessage(n) ==
    /\ clock[n][n] < MaxCount
    /\ clock' = [clock EXCEPT ![n][n] = @ + 1]
    /\ UNCHANGED <<accountVars, hash, run, outboxVars, offered, runs>>

\* A HandshakeResponse or a PipelineAck of p, which holds p's clock.  (The way of these
\* messages takes no time here.)
TakeClock(n, p) ==
    /\ RemoteHasNewInfo(Counts(clock[n]), Counts(clock[p]))
    /\ clock' = [clock EXCEPT ![n] = MergeClocks(@, clock[p])]
    /\ UNCHANGED <<accountVars, hash, run, outboxVars, offered, runs>>

-----------------------------------------------------------------------------
(* The versions and the differences of two nodes' accounts.                 *)

\* snapshot_accounts_and_versions; 0 for an account that is not there, where the code
\* has no entry.
Versions(accounts) == [k \in Keys |-> IF accounts[k].there THEN hash[accounts[k]] ELSE 0]

\* step_diff.
KeysToSend(ours, theirs) == {k \in Keys : ours[k] > theirs[k]}

\* step_full_sync_export.
FullSyncExport(accounts, keys) == [k \in Keys |-> IF k \in keys THEN accounts[k] ELSE NoAccount]

\* step_merge: of our copy and the one received, the one whose version is greater.
StepMerge(ours, theirs) ==
    [k \in Keys |-> IF Versions(theirs)[k] > Versions(ours)[k] THEN theirs[k] ELSE ours[k]]

\* merge_from_json in step_apply: on the accounts of that moment, whatever step_merge saw.
Overwrite(accounts, merged) == [k \in Keys |-> IF merged[k].there THEN merged[k] ELSE accounts[k]]

MergeFromJson(accounts, merged) ==
    [k \in Keys |-> IF merged[k].there THEN MergeAccount(accounts[k], merged[k]) ELSE accounts[k]]

-----------------------------------------------------------------------------
(* The pipeline of node n with peer p.                                      *)

AtStep(n, step) == run[n].at = step

Only(n, r) ==
    /\ run' = [run EXCEPT ![n] = r]
    /\ UNCHANGED <<hash, hour, pushed>>

Offer(n) == offered' = [k \in Keys |-> offered[k] \cup {acct[n][k]}]

\* Our versions go to the peer in a DiffRequest.
Ask(n, p) ==
    /\ AtStep(n, "idle") /\ p # n
    /\ runs < MaxRuns
    /\ runs' = runs + 1
    /\ Only(n, [at |-> "asked", peer |-> p, versions |-> Versions(acct[n])])
    /\ UNCHANGED <<accountVars, clock, outbox, drained, offered>>

\* The peer answers with its clock and the accounts it finds to send.
Collect(n) ==
    /\ AtStep(n, "asked")
    /\ LET p == run[n].peer IN
       /\ Only(n, [at |-> "collected", clock |-> clock[p],
                   accounts |-> FullSyncExport(acct[p], KeysToSend(Versions(acct[p]), run[n].versions))])
       /\ Offer(p)
    /\ UNCHANGED <<accountVars, clock, outbox, drained, runs>>

\* run_pipeline_with_peer: our clock, our accounts, and ...
Snapshot(n) ==
    /\ AtStep(n, "collected")
    /\ Only(n, [at |-> "drain", theirs |-> run[n], clock |-> clock[n], accounts |-> acct[n]])
    /\ Offer(n)
    /\ UNCHANGED <<accountVars, clock, outbox, drained, runs>>

-----------------------------------------------------------------------------
(* The outbox.                                                              *)

Expired(e) == hour - pushed[e] > Ttl

\* The entries that are kept, in their order.  (SelectSeq, written so that it can be reasoned about.)
Retain(entries, kept) ==
    LET upto[k \in 0 .. Len(entries)] ==
            IF k = 0 THEN <<>>
            ELSE IF entries[k] \in kept THEN Append(upto[k - 1], entries[k]) ELSE upto[k - 1]
    IN upto[Len(entries)]

\* drain reads, without the expired entries; ack rewrites the file without one.
Drain(entries) == Retain(entries, {e \in ToSet(entries) : ~Expired(e)})
WithoutAll(entries, ids) == Retain(entries, ToSet(entries) \ ids)

PruneTail(entries) ==
    LET due == Drain(entries) IN
    IF Len(due) > MaxEntries THEN SubSeq(due, 1, MaxEntries) ELSE due

\* prune: without the expired entries, and the oldest where there are too many.
Prune(entries) ==
    LET due == Drain(entries) IN
    IF Len(due) > MaxEntries THEN SubSeq(due, Len(due) - MaxEntries + 1, Len(due)) ELSE due

\* push never prunes.
Push ==
    /\ Len(pushed) < MaxPush
    /\ pushed' = Append(pushed, hour)
    /\ outbox' = Append(outbox, Len(pushed) + 1)
    /\ UNCHANGED <<accountVars, clock, hash, run, hour, drained, offered, runs>>

HourPasses ==
    /\ hour < MaxTime
    /\ hour' = hour + 1
    /\ UNCHANGED <<accountVars, clock, hash, run, outbox, pushed, drained, offered, runs>>

\* ... the outbox, pruned, drained and each entry acknowledged, although nothing has
\* been sent.
DrainOutbox(n) ==
    /\ AtStep(n, "drain")
    /\ LET kept == Prune(outbox)  ids == Drain(kept) IN
       /\ drained' = [from |-> drained.to + 1, to |-> Len(pushed), at |-> hour, ids |-> ids]
       /\ outbox' = WithoutAll(kept, ToSet(ids))
    /\ Only(n, [run[n] EXCEPT !.at = "apply"])
    /\ UNCHANGED <<accountVars, clock, offered, runs>>

-----------------------------------------------------------------------------

\* step_handshake: equal clocks, entry by entry, tell nothing new.
InSync(r) == r.clock = r.theirs.clock

\* run_pipeline: nothing to do when in sync, and an error if the accounts cannot be stored.
ApplyMerged(n, stored) ==
    /\ AtStep(n, "apply")
    /\ LET r == run[n] IN
       /\ acct' = IF InSync(r) THEN acct
                  ELSE [acct EXCEPT ![n] =
                           MergeFromJson(@, StepMerge(r.accounts, r.theirs.accounts))]
       /\ Only(n, IF InSync(r) \/ stored
                  THEN [at |-> "merged", clock |-> MergeClocks(r.clock, r.theirs.clock)]
                  ELSE Idle)
    /\ UNCHANGED <<now, clock, outbox, drained, offered, runs>>

\* The merged clock replaces ours, whatever was counted or taken meanwhile.
Acknowledge(n) ==
    /\ AtStep(n, "merged")
    /\ clock' = [clock EXCEPT ![n] = run[n].clock]
    /\ Only(n, Idle)
    /\ UNCHANGED <<accountVars, outbox, drained, offered, runs>>

Pipeline(n) ==
    \/ \E p \in Nodes : Ask(n, p)
    \/ Collect(n) \/ Snapshot(n) \/ DrainOutbox(n) \/ Acknowledge(n)
    \/ \E stored \in BOOLEAN : ApplyMerged(n, stored)

Meanwhile(n) ==
    \/ \E k \in Keys : RefreshToken(n, k) \/ DeleteAccount(n, k)
    \/ CountMessage(n)
    \/ \E p \in Nodes : TakeClock(n, p)

PipelineNext == (\E n \in Nodes : Pipeline(n) \/ Meanwhile(n)) \/ Push \/ HourPasses

PipelineSpec == PipelineInit /\ [][PipelineNext]_pipelineVars

-----------------------------------------------------------------------------
(* Properties.                                                              *)

\* However late the pipeline applies what it read, it never puts a copy over one that
\* was refreshed as late or later: what either node refreshed meanwhile stays.  Whole
\* copies only, and only such as a node really had.
Lww == INSTANCE LwwReplica WITH Replicas <- Nodes, Values <- Content, copy <- acct

PipelineImplementsLww == Lww!LwwSpec

\* A drain takes, in their order, the youngest MAX_ENTRIES of the messages pushed since
\* the drain before that are not older than the TTL.
DrainedAreYoungest ==
    LET due == {i \in drained.from .. drained.to : drained.at - pushed[i] <= Ttl} IN
    /\ ToSet(drained.ids) = {i \in due : Cardinality({j \in due : j > i}) < MaxEntries}
    /\ \A i, j \in DOMAIN drained.ids : i < j => drained.ids[i] < drained.ids[j]
=============================================================================
