----------------------------- MODULE LwwReplica -----------------------------
(***************************************************************************)
(* What the exchange of accounts promises, however it is done: every replica *)
(* holds a copy of each account, which it refreshes or deletes itself, or    *)
(* replaces as a whole by one that some replica has offered and that was     *)
(* refreshed later.  SyncCoordinator and SyncPipeline implement it.          *)
(***************************************************************************)
EXTENDS Integers

CONSTANTS
    Replicas,   \* the nodes
    Keys,       \* account keys
    Values      \* the copies of an account: records with the fields lr, when it was
                \* refreshed (0 for never), and deleted

VARIABLES
    copy,       \* what each replica holds
    offered     \* the copies of each account that replicas have offered

lwwVars == <<copy, offered>>

LwwTypeOK ==
    /\ copy \in [Replicas -> [Keys -> Values]]
    /\ offered \in [Keys -> SUBSET Values]

LwwInit ==
    /\ copy \in [Replicas -> [Keys -> Values]]
    /\ offered = [k \in Keys |-> {}]

\* The copies of an account, wherever they are.
Known(k) == offered[k] \cup {copy[r][k] : r \in Replicas}

\* A replica refreshes an account, or hears of its quota: the latest copy there is.
Refresh(r) ==
    /\ \E k \in Keys :
          /\ copy' = [copy EXCEPT ![r][k] = copy'[r][k]]
          /\ copy'[r][k] \in Values
          /\ copy'[r][k].deleted = copy[r][k].deleted
          /\ \A c \in Known(k) : copy'[r][k].lr > c.lr
    /\ UNCHANGED offered

\* A replica deletes an account: a mark on its copy.
Delete(r) ==
    /\ \E k \in Keys : copy' = [copy EXCEPT ![r][k].deleted = TRUE]
    /\ UNCHANGED offered

\* A replica offers all that it holds.
Offer(r) ==
    /\ offered' = [k \in Keys |-> offered[k] \cup {copy[r][k]}]
    /\ UNCHANGED copy

\* A copy that was never refreshed gives way to any, another to a later one.
Wins(new, old) == old.lr = 0 \/ new.lr > old.lr

\* A replica takes copies that win, of as many accounts as it likes.
Take(r) ==
    /\ copy' = [copy EXCEPT ![r] = copy'[r]]
    /\ copy'[r] = [k \in Keys |-> copy'[r][k]]
    /\ \A k \in Keys :
          copy'[r][k] # copy[r][k] =>
              copy'[r][k] \in offered[k] /\ Wins(copy'[r][k], copy[r][k])
    /\ UNCHANGED offered

LwwNext == \E r \in Replicas : Refresh(r) \/ Delete(r) \/ Offer(r) \/ Take(r)

LwwSpec == LwwInit /\ [][LwwNext]_lwwVars
=============================================================================
