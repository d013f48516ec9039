-------------------------- MODULE MCSwitchController --------------------------
(* SwitchController on three accounts, the last of them of type "api" or not. *)
EXTENDS SwitchController

MCPriority == [k \in Keys |-> IF k = 3 THEN 10 ELSE 50]
=============================================================================
