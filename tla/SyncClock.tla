------------------------------ MODULE SyncClock ------------------------------
(***************************************************************************)
(* The vector clocks of the P2P coordinator, and the last-write-wins merge  *)
(* of one account: the pure parts of crates/sync/src/coordinator.rs and of  *)
(* merge_from_json in crates/core/src/credentials.rs.                       *)
(*                                                                          *)
(* A clock of the code is a map from node names to u64, where a missing     *)
(* entry counts as 0 in every operation: here a function on all the nodes.  *)
(***************************************************************************)
EXTENDS Integers

CONSTANT Nodes

Clock == [Nodes -> Nat]
ZeroClock == [i \in Nodes |-> 0]

SummedClocks(a, b) == [i \in Nodes |-> a[i] + b[i]]

\* merge_clocks: the greater count of each node.
MergeClocks(a, b) == [i \in Nodes |-> IF a[i] > b[i] THEN a[i] ELSE b[i]]

\* clock_dominates: nowhere behind, and ahead somewhere.
ClockDominates(a, b) ==
    /\ \A i \in Nodes : a[i] >= b[i]
    /\ \E i \in Nodes : a[i] > b[i]

\* remote_has_new_info: also true of an equal clock.
RemoteHasNewInfo(local, remote) == ~ClockDominates(local, remote)

\* An account, by its last_refresh (0: never refreshed), the generation of the
\* refresh token it holds, and the flag of a soft delete.
Account == [lr : Nat, gen : Nat, deleted : BOOLEAN]
Fresh == [lr |-> 0, gen |-> 0, deleted |-> FALSE]

MergeUnlessOlder(l, r) == IF l.lr = 0 \/ r.lr >= l.lr THEN r ELSE l

MergeKeepingFlag(l, r) == IF l.lr = 0 \/ r.lr > l.lr THEN [r EXCEPT !.deleted = l.deleted] ELSE l

\* merge_from_json on one account: the whole copy with the later last_refresh.
MergeAccount(l, r) == IF l.lr = 0 \/ r.lr > l.lr THEN r ELSE l
=============================================================================
