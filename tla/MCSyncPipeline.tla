--------------------------- MODULE MCSyncPipeline ---------------------------
(* SyncPipeline on two nodes.  The hash knows nothing of the order of the       *)
(* refreshes: the first one makes it smaller, the second one greater.            *)
EXTENDS SyncPipeline, TLC

CONSTANTS laptop, desktop

Place(lr) == CASE lr = 0 -> 1 [] lr = 1 -> 0 [] OTHER -> lr
Mixed == [c \in Contents |-> 2 * Place(c.lr) + (IF c.deleted THEN 2 ELSE 1)]
MCHashes == {Mixed}
MCSymmetry == Permutations(Nodes)
=============================================================================
