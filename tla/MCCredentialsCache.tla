-------------------------- MODULE MCCredentialsCache --------------------------
(* CredentialsCache on small instances: two threads of the daemon, or the     *)
(* daemon and the Tauri application with one thread each.                     *)
EXTENDS CredentialsCache, TLC

CONSTANTS tauri, daemon, quotaLoop, refreshLoop, watcher

MCProcOf == [t \in Threads |-> IF t = quotaLoop THEN tauri ELSE daemon]
MCSymmetry == Permutations({refreshLoop, watcher})
=============================================================================
