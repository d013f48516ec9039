------------------------------ MODULE MCSyncBus ------------------------------
(* Instance of SyncBus for TLC: a V2 message of a peer that arrives twice, a V3 *)
(* one of a sender that is no peer, and a V2 one that has no meaning in V3.  *)
EXTENDS SyncBus, TLC

CONSTANTS p1, m1, m2, m3

Letter(from, proto, type, sealed, copies) ==
    [from |-> from, proto |-> proto, type |-> type, sealed |-> sealed, copies |-> copies]

Letters ==
    m1 :> Letter(p1, "V2", "heartbeat", TRUE, 2)
    @@ m2 :> Letter(Stranger, "V3", "Heartbeat", TRUE, 1)
    @@ m3 :> Letter(p1, "V2", "proxy_state", TRUE, 1)

MCMail == [i \in Ids |-> Letters[i]]
=============================================================================
