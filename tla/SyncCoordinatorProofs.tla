----------------------- MODULE SyncCoordinatorProofs -----------------------
(***************************************************************************)
(* The algebra of the clocks, and what the exchange of accounts guarantees *)
(* for any number of nodes, accounts and messages.                         *)
(***************************************************************************)
EXTENDS SyncCoordinator, TLAPS

-----------------------------------------------------------------------------
(* SyncClock.                                                              *)

\* merge_clocks returns the least clock above both, so that the order in which
\* clocks are merged, and merging one twice, make no difference.
THEOREM MergeIsLeastUpperBound ==
    ASSUME NEW a \in Clock, NEW b \in Clock
    PROVE  /\ MergeClocks(a, b) \in Clock
           /\ MergeClocks(a, b) = MergeClocks(b, a)
           /\ MergeClocks(a, a) = a
           /\ \A i \in Nodes : MergeClocks(a, b)[i] >= a[i] /\ MergeClocks(a, b)[i] >= b[i]
           /\ \A c \in Clock :
                 (\A i \in Nodes : c[i] >= a[i] /\ c[i] >= b[i]) =>
                     \A i \in Nodes : c[i] >= MergeClocks(a, b)[i]
           /\ \A c \in Clock :
                 MergeClocks(MergeClocks(a, b), c) = MergeClocks(a, MergeClocks(b, c))
  <1>1. MergeClocks(a, b) \in Clock
    BY DEF MergeClocks, Clock
  <1>2. MergeClocks(a, b) = MergeClocks(b, a) /\ MergeClocks(a, a) = a
    BY DEF MergeClocks, Clock
  <1>3. \A i \in Nodes : MergeClocks(a, b)[i] >= a[i] /\ MergeClocks(a, b)[i] >= b[i]
    BY DEF MergeClocks, Clock
  <1>4. \A c \in Clock :
           (\A i \in Nodes : c[i] >= a[i] /\ c[i] >= b[i]) =>
               \A i \in Nodes : c[i] >= MergeClocks(a, b)[i]
    BY DEF MergeClocks, Clock
  <1>5. \A c \in Clock :
           MergeClocks(MergeClocks(a, b), c) = MergeClocks(a, MergeClocks(b, c))
    BY DEF MergeClocks, Clock
  <1>. QED BY <1>1, <1>2, <1>3, <1>4, <1>5

\* clock_dominates is a strict order, so of two clocks at most one is ahead; and a
\* clock that was merged is no longer news unless it is all there is.
THEOREM DominatesIsStrictOrder ==
    ASSUME NEW a \in Clock, NEW b \in Clock, NEW c \in Clock
    PROVE  /\ ~ClockDominates(a, a)
           /\ ClockDominates(a, b) => ~ClockDominates(b, a)
           /\ ClockDominates(a, b) /\ ClockDominates(b, c) => ClockDominates(a, c)
           /\ RemoteHasNewInfo(MergeClocks(a, b), b) => MergeClocks(a, b) = b
  <1>1. ~ClockDominates(a, a)
    BY DEF ClockDominates, Clock
  <1>2. ClockDominates(a, b) => ~ClockDominates(b, a)
    BY DEF ClockDominates, Clock
  <1>3. ASSUME ClockDominates(a, b), ClockDominates(b, c)
        PROVE  ClockDominates(a, c)
    <2>1. \A i \in Nodes : a[i] \in Nat /\ b[i] \in Nat /\ c[i] \in Nat
      BY DEF Clock
    <2>2. \A i \in Nodes : a[i] >= b[i] /\ b[i] >= c[i]
      BY <1>3 DEF ClockDominates
    <2>3. PICK i \in Nodes : a[i] > b[i]
      BY <1>3 DEF ClockDominates
    <2>4. \A j \in Nodes : a[j] >= c[j]
      BY <2>1, <2>2
    <2>5. a[i] > c[i]
      BY <2>1, <2>2, <2>3
    <2>. QED BY <2>4, <2>5 DEF ClockDominates
  <1>4. ASSUME RemoteHasNewInfo(MergeClocks(a, b), b)
        PROVE  MergeClocks(a, b) = b
    <2>1. \A i \in Nodes : MergeClocks(a, b)[i] >= b[i]
      BY MergeIsLeastUpperBound
    <2>2. \A i \in Nodes : ~(MergeClocks(a, b)[i] > b[i])
      BY <1>4, <2>1 DEF RemoteHasNewInfo, ClockDominates
    <2>3. \A i \in Nodes : MergeClocks(a, b)[i] = b[i]
      BY <2>2 DEF MergeClocks, Clock
    <2>. QED BY <2>3 DEF MergeClocks, Clock
  <1>. QED BY <1>1, <1>2, <1>3, <1>4

\* A merged account is one of the two copies, the later refreshed if any is.
LEMMA MergeAccountLater ==
    ASSUME NEW l \in Account, NEW r \in Account
    PROVE  /\ MergeAccount(l, r) \in {l, r}
           /\ MergeAccount(l, r).lr >= l.lr
           /\ MergeAccount(l, r).lr >= r.lr
  BY DEF MergeAccount, Account

-----------------------------------------------------------------------------
(* Types.                                                                   *)

\* A node's own accounts and clocks have the types of the messages made of them.
LEMMA SnapshotType ==
    ASSUME SyncTypeOK, NEW n \in Nodes
    PROVE  /\ Snapshot(n) \in CredentialsBody /\ Snapshot(n) \in Body
           /\ BusClock(n) \in Clock
           /\ Peers(n) \in SUBSET Nodes
  <1>1. Snapshot(n) \in CredentialsBody
    BY DEF SyncTypeOK, Snapshot, CredentialsBody
  <1>2. BusClock(n) \in Clock
    BY DEF SyncTypeOK, BusClock, ZeroClock, Clock
  <1>. QED BY <1>1, <1>2 DEF Body, Peers

\* An announcement with a count of the bus is a message.
LEMMA SendOnBusType ==
    ASSUME SyncTypeOK, NEW n \in Nodes, NEW to \in SUBSET Nodes, NEW body \in Body,
           SendOnBus(n, to, body)
    PROVE  /\ counter' \in [Nodes -> Nat \ {0}]
           /\ sent' \in SUBSET Message
  <1>1. [from |-> n, to |-> to, by |-> "bus", clock |-> BusClock(n), body |-> body] \in Message
    BY SnapshotType DEF Message
  <1>2. counter' \in [Nodes -> Nat \ {0}]
    BY DEF SendOnBus, SyncTypeOK
  <1>. QED BY <1>1, <1>2 DEF SendOnBus, SyncTypeOK

\* A later stamp, or a rotated token, makes an account of an account.
LEMMA StampedType ==
    ASSUME SyncTypeOK, NEW n \in Nodes, NEW k \in Keys
    PROVE  /\ acct[n][k] \in Account
           /\ Stamped(acct[n][k]) \in Account
           /\ [acct EXCEPT ![n][k] = Stamped(@)] \in [Nodes -> Accounts]
  <1>1. acct[n][k] \in Account /\ acct[n] \in [Keys -> Account]
    BY DEF SyncTypeOK, Accounts
  <1>2. Stamped(acct[n][k]) \in Account
    BY <1>1 DEF Stamped, Account, SyncTypeOK
  <1>. QED BY <1>1, <1>2 DEF SyncTypeOK, Accounts

\* The types hold at first.
LEMMA InitSyncType == SyncInit => SyncTypeOK
  BY DEF SyncInit, SyncTypeOK, Accounts, Account, Fresh, Actives, ZeroClock, Clock, FirstCount

\* A local operation on an account keeps the types.
LEMMA LocalType ==
    ASSUME SyncTypeOK, NEW n \in Nodes, Local(n)
    PROVE  SyncTypeOK'
  <1> PICK k \in Keys :
        RefreshToken(n, k) \/ FetchQuota(n, k) \/ DeleteAccount(n, k) \/ SwitchAccount(n, k)
    BY DEF Local
  <1>0. acct[n][k] \in Account /\ acct[n] \in [Keys -> Account]
        /\ now \in Nat /\ issued[k] \in Nat
    BY DEF SyncTypeOK, Accounts
  <1>1. CASE RefreshToken(n, k)
    <2>1. [lr |-> now + 1, gen |-> issued[k] + 1, deleted |-> acct[n][k].deleted] \in Account
      BY <1>0 DEF Account
    <2>2. acct' \in [Nodes -> Accounts]
      BY <1>0, <1>1, <2>1 DEF RefreshToken, SyncTypeOK, Accounts
    <2>. QED BY <1>1, <2>2 DEF RefreshToken, SyncTypeOK
  <1>2. CASE FetchQuota(n, k)
    <2>1. [kind |-> "quota", key |-> k] \in Body
      BY DEF Body, QuotaBody
    <2>2. counter' \in [Nodes -> Nat \ {0}] /\ sent' \in SUBSET Message
      BY <1>2, <2>1, SendOnBusType, SnapshotType DEF FetchQuota
    <2>3. acct' \in [Nodes -> Accounts]
      BY <1>2, StampedType DEF FetchQuota
    <2>. QED BY <1>2, <2>2, <2>3 DEF FetchQuota, SyncTypeOK
  <1>3. CASE DeleteAccount(n, k)
    <2>1. [acct[n][k] EXCEPT !.deleted = TRUE] \in Account
      BY <1>0 DEF Account
    <2>2. acct' \in [Nodes -> Accounts]
      BY <1>0, <1>3, <2>1 DEF DeleteAccount, SyncTypeOK, Accounts
    <2>3. active' \in [Nodes -> Actives]
      BY <1>3 DEF DeleteAccount, SyncTypeOK, Actives
    <2>. QED BY <1>3, <2>2, <2>3 DEF DeleteAccount, SyncTypeOK
  <1>4. CASE SwitchAccount(n, k)
    <2>1. [to |-> Peers(n), body |-> [kind |-> "switch", key |-> k]]
            \in [to : SUBSET Nodes, body : Body]
      BY SnapshotType DEF Body, SwitchBody
    <2>. QED BY <1>4, <2>1 DEF SwitchAccount, SyncTypeOK, Actives
  <1>. QED BY <1>1, <1>2, <1>3, <1>4

\* So does every step of an announcement or of an answer.
LEMMA SendType ==
    ASSUME SyncTypeOK, NEW n \in Nodes, Send(n)
    PROVE  SyncTypeOK'
  <1>1. ASSUME NEW to \in SUBSET Nodes, Export(n, to) PROVE SyncTypeOK'
    <2>1. [to |-> to, body |-> Snapshot(n)] \in [to : SUBSET Nodes, body : Body]
      BY SnapshotType
    <2>. QED BY <1>1, <2>1 DEF Export, SyncTypeOK
  <1>2. ASSUME NEW x \in tasks[n], Announce(n, x) PROVE SyncTypeOK'
    <2>1. x.to \in SUBSET Nodes /\ x.body \in Body
      BY DEF SyncTypeOK
    <2>2. counter' \in [Nodes -> Nat \ {0}] /\ sent' \in SUBSET Message
      BY <1>2, <2>1, SendOnBusType DEF Announce
    <2>. QED BY <1>2, <2>2 DEF Announce, SyncTypeOK
  <1>3. CASE CountAnswer(n)
    BY <1>3 DEF CountAnswer, SyncTypeOK, Clock
  <1>4. CASE SendAnswer(n)
    <2>1. [from |-> n, to |-> Peers(n), by |-> "coordinator",
           clock |-> clock[n], body |-> Snapshot(n)] \in Message
      BY SnapshotType DEF Message, SyncTypeOK
    <2>. QED BY <1>4, <2>1 DEF SendAnswer, SyncTypeOK
  <1>. QED BY <1>1, <1>2, <1>3, <1>4, SnapshotType DEF Send, Peers

\* Whatever a handler does to the clock, it stays one.
LEMMA MergeClockType ==
    ASSUME SyncTypeOK, NEW n \in Nodes, NEW m \in sent, NEW stored \in BOOLEAN,
           MergeClock(n, m, stored)
    PROVE  clock' \in [Nodes -> Clock]
  <1>1. clock[n] \in Clock /\ m.clock \in Clock
    BY DEF SyncTypeOK, Message
  <1>2. MergeClocks(clock[n], m.clock) \in Clock
    BY <1>1, MergeIsLeastUpperBound
  <1>. QED BY <1>2 DEF MergeClock, SyncTypeOK

\* So does every handler: what it stores comes from a message of the right kind.
LEMMA ReceiveType ==
    ASSUME SyncTypeOK, NEW n \in Nodes, Receive(n)
    PROVE  SyncTypeOK'
  <1> PICK m \in sent, stored \in BOOLEAN :
        \/ Ignore(n, m) \/ HandleCredentials(n, m, stored)
        \/ HandleAccountSwitch(n, m, stored) \/ HandleQuotaUpdate(n, m, stored)
    BY DEF Receive
  <1>0. m \in Message /\ m.body \in Body
    BY DEF SyncTypeOK, Message
  <1>1. CASE Ignore(n, m)
    BY <1>0, <1>1 DEF Ignore, Take, SyncTypeOK
  <1>2. CASE HandleCredentials(n, m, stored)
    <2>1. m.body \in CredentialsBody
      BY <1>0, <1>2 DEF HandleCredentials, Take, Body, SwitchBody, QuotaBody
    <2>2. \A k \in Keys : acct[n][k] \in Account /\ m.body.accounts[k] \in Account
      BY <2>1 DEF SyncTypeOK, Accounts, CredentialsBody
    <2>3. [k \in Keys |-> MergeAccount(acct[n][k], m.body.accounts[k])] \in Accounts
      BY <2>2, MergeAccountLater DEF Accounts
    <2>4. acct' \in [Nodes -> Accounts]
      BY <1>2, <2>3 DEF HandleCredentials, SyncTypeOK
    <2>5. active' \in [Nodes -> Actives]
      BY <1>2, <2>1 DEF HandleCredentials, SyncTypeOK, CredentialsBody
    <2>6. clock' \in [Nodes -> Clock]
      BY <1>2, MergeClockType DEF HandleCredentials
    <2>. QED BY <1>0, <1>2, <2>4, <2>5, <2>6 DEF HandleCredentials, Take, SyncTypeOK
  <1>3. CASE HandleAccountSwitch(n, m, stored)
    <2>1. m.body.key \in Keys
      BY <1>0, <1>3 DEF HandleAccountSwitch, Take, Body, CredentialsBody, SwitchBody, QuotaBody
    <2>2. clock' \in [Nodes -> Clock]
      BY <1>3, MergeClockType DEF HandleAccountSwitch
    <2>. QED BY <1>0, <1>3, <2>1, <2>2 DEF HandleAccountSwitch, Take, SyncTypeOK, Actives
  <1>4. CASE HandleQuotaUpdate(n, m, stored)
    <2>1. m.body.key \in Keys
      BY <1>0, <1>4 DEF HandleQuotaUpdate, Take, Body, CredentialsBody, SwitchBody, QuotaBody
    <2>2. clock' \in [Nodes -> Clock]
      BY <1>4, MergeClockType DEF HandleQuotaUpdate
    <2>3. acct' \in [Nodes -> Accounts]
      BY <1>4, <2>1, StampedType DEF HandleQuotaUpdate
    <2>. QED BY <1>0, <1>4, <2>1, <2>2, <2>3 DEF HandleQuotaUpdate, Take, SyncTypeOK
  <1>. QED BY <1>1, <1>2, <1>3, <1>4

\* The types are inductive.
LEMMA SyncStep ==
    ASSUME SyncTypeOK, [SyncNext]_syncVars
    PROVE  SyncTypeOK'
  <1>1. ASSUME NEW n \in Nodes, Local(n) \/ Send(n) \/ Receive(n) PROVE SyncTypeOK'
    BY <1>1, LocalType, SendType, ReceiveType
  <1>2. CASE UNCHANGED syncVars
    BY <1>2 DEF syncVars, SyncTypeOK
  <1>. QED BY <1>1, <1>2 DEF SyncNext

\* Every variable of the exchange keeps its type.
THEOREM SyncTypeCorrect == SyncSpec => []SyncTypeOK
  <1>1. SyncTypeOK /\ [SyncNext]_syncVars => SyncTypeOK'
    BY SyncStep
  <1>. QED BY <1>1, InitSyncType, PTL DEF SyncSpec

-----------------------------------------------------------------------------
(* No clock is made up.                                                     *)

\* What a step that sends adds to the messages.
LEMMA SendOnBusAdds ==
    ASSUME NEW n \in Nodes, NEW to, NEW body, SendOnBus(n, to, body)
    PROVE  \E new : /\ sent' = sent \cup {new}
                    /\ new.from = n /\ new.by = "bus" /\ new.clock = BusClock(n)
                    /\ new.body = body
  <1>. DEFINE r == [from |-> n, to |-> to, by |-> "bus", clock |-> BusClock(n),
                    body |-> body]
  <1>1. sent' = sent \cup {r}
    BY DEF SendOnBus
  <1>2. r.from = n /\ r.by = "bus" /\ r.clock = BusClock(n) /\ r.body = body
    OBVIOUS
  <1>. HIDE DEF r
  <1>. QED BY <1>1, <1>2

\* SendAnswer adds one message, of the coordinator, with the node's clock and accounts.
LEMMA SendAnswerAdds ==
    ASSUME NEW n \in Nodes, SendAnswer(n)
    PROVE  \E new : /\ sent' = sent \cup {new}
                    /\ new.from = n /\ new.by = "coordinator" /\ new.clock = clock[n]
                    /\ new.body.kind = "credentials" /\ new.body.accounts = acct[n]
  <1>. DEFINE r == [from |-> n, to |-> Peers(n), by |-> "coordinator",
                    clock |-> clock[n], body |-> Snapshot(n)]
  <1>1. sent' = sent \cup {r}
    BY DEF SendAnswer
  <1>2. r.from = n /\ r.by = "coordinator" /\ r.clock = clock[n] /\ r.body = Snapshot(n)
    OBVIOUS
  <1>3. Snapshot(n).kind = "credentials" /\ Snapshot(n).accounts = acct[n]
    BY DEF Snapshot
  <1>. HIDE DEF r
  <1>. QED BY <1>1, <1>2, <1>3

\* A clock of the bus counts nobody but its own node.
LEMMA BusClockEntry ==
    ASSUME SyncTypeOK, NEW n \in Nodes, NEW i \in Nodes, BusClock(n)[i] > 0
    PROVE  i = n
  BY DEF BusClock, ZeroClock, SyncTypeOK

\* The steps that leave the clocks and the messages alone.
LEMMA IssuedQuiet ==
    ASSUME ClockIsIssued, UNCHANGED <<clock, sent, answering>>
    PROVE  ClockIsIssued'
  BY DEF ClockIsIssued, Issued

\* An announcement shows one more count of its own node, and no other.
LEMMA IssuedOnBus ==
    ASSUME SyncTypeOK, ClockIsIssued, NEW n \in Nodes, NEW to \in SUBSET Nodes,
           NEW body \in Body, SendOnBus(n, to, body), UNCHANGED <<clock, answering>>
    PROVE  ClockIsIssued'
  <1>1. PICK new : sent' = sent \cup {new} /\ new.from = n /\ new.clock = BusClock(n)
    BY SendOnBusAdds
  <1>2. ASSUME NEW i \in Nodes, NEW c, Issued(i, c)
        PROVE  Issued(i, c)'
    BY <1>1, <1>2 DEF Issued
  <1>3. ASSUME NEW i \in Nodes, new.clock[i] > 0
        PROVE  Issued(i, new.clock[i])'
    BY <1>1, <1>3, BusClockEntry DEF Issued
  <1>. QED BY <1>1, <1>2, <1>3 DEF ClockIsIssued

\* Sending keeps the clocks issued: an answer shows the clock of its node, whose own
\* entry CountAnswer may have counted just before.
LEMMA IssuedSend ==
    ASSUME SyncTypeOK, ClockIsIssued, NEW n \in Nodes, Send(n)
    PROVE  ClockIsIssued'
  <1>1. ASSUME NEW to, Export(n, to) PROVE ClockIsIssued'
    BY <1>1, IssuedQuiet DEF Export
  <1>2. ASSUME NEW x \in tasks[n], Announce(n, x) PROVE ClockIsIssued'
    <2>1. x.to \in SUBSET Nodes /\ x.body \in Body
      BY DEF SyncTypeOK
    <2>. QED BY <1>2, <2>1, IssuedOnBus DEF Announce
  <1>3. CASE CountAnswer(n)
    <2>1. answering' = [answering EXCEPT ![n] = TRUE] /\ sent' = sent
      BY <1>3 DEF CountAnswer
    <2>2. \A j, i \in Nodes : <<j, i>> # <<n, n>> => clock'[j][i] = clock[j][i]
      BY <1>3 DEF CountAnswer, SyncTypeOK, Clock
    <2>3. answering'[n] /\ \A j \in Nodes : answering[j] => answering'[j]
      BY <2>1 DEF SyncTypeOK
    <2>. QED BY <2>1, <2>2, <2>3 DEF ClockIsIssued, Issued
  <1>4. CASE SendAnswer(n)
    <2>1. PICK new : sent' = sent \cup {new} /\ new.from = n /\ new.clock = clock[n]
      BY <1>4, SendAnswerAdds
    <2>2. /\ clock' = clock
          /\ \A j \in Nodes : j # n => answering'[j] = answering[j]
      BY <1>4 DEF SendAnswer, SyncTypeOK
    <2>3. ASSUME NEW i \in Nodes, NEW c, Issued(i, c)
          PROVE  Issued(i, c)'
      BY <2>1, <2>3 DEF Issued
    <2>4. Issued(n, clock[n][n])'
      BY <2>1, <2>2 DEF Issued
    <2>5. ASSUME NEW i \in Nodes, clock[n][i] > 0
          PROVE  Issued(i, clock[n][i])'
      <3>1. CASE i = n
        BY <2>4, <3>1
      <3>2. CASE i # n
        <4>1. Issued(i, clock[n][i])
          BY <2>5, <3>2 DEF ClockIsIssued
        <4>. QED BY <2>1, <2>2, <4>1 DEF Issued
      <3>. QED BY <3>1, <3>2
    <2>. QED BY <2>1, <2>2, <2>3, <2>5 DEF ClockIsIssued
  <1>. QED BY <1>1, <1>2, <1>3, <1>4 DEF Send

\* A merged entry is one of the two, each of them issued.
LEMMA IssuedMerge ==
    ASSUME SyncTypeOK, ClockIsIssued, NEW n \in Nodes, NEW m \in sent,
           NEW stored \in BOOLEAN, MergeClock(n, m, stored), UNCHANGED <<sent, answering>>
    PROVE  ClockIsIssued'
  <1>1. \A j, i \in Nodes :
           \/ clock'[j][i] = clock[j][i]
           \/ clock'[j][i] = m.clock[i]
    BY DEF MergeClock, MergeClocks, SyncTypeOK, Clock
  <1>2. \A i \in Nodes : \A c : Issued(i, c)' = Issued(i, c)
    BY DEF Issued
  <1>. QED BY <1>1, <1>2 DEF ClockIsIssued

\* ClockIsIssued is inductive on top of the types.
LEMMA IssuedNext ==
    ASSUME SyncTypeOK, ClockIsIssued, [SyncNext]_syncVars
    PROVE  ClockIsIssued'
  <1>1. ASSUME NEW n \in Nodes, NEW k \in Keys, FetchQuota(n, k) PROVE ClockIsIssued'
    <2>1. [kind |-> "quota", key |-> k] \in Body /\ Peers(n) \in SUBSET Nodes
      BY DEF Body, QuotaBody, Peers
    <2>. QED BY <1>1, <2>1, IssuedOnBus DEF FetchQuota
  <1>2. ASSUME NEW n \in Nodes, Local(n) PROVE ClockIsIssued'
    BY <1>1, <1>2, IssuedQuiet DEF Local, RefreshToken, DeleteAccount, SwitchAccount
  <1>3. ASSUME NEW n \in Nodes, Receive(n) PROVE ClockIsIssued'
    BY <1>3, IssuedQuiet, IssuedMerge
       DEF Receive, Ignore, HandleCredentials, HandleAccountSwitch, HandleQuotaUpdate
  <1>4. CASE UNCHANGED syncVars
    BY <1>4, IssuedQuiet DEF syncVars
  <1>. QED BY <1>2, <1>3, <1>4, IssuedSend DEF SyncNext

\* No node ever claims to have seen a message that was not sent.
THEOREM ClocksAreIssued == SyncSpec => []ClockIsIssued
  <1>1. SyncInit => ClockIsIssued
    BY DEF SyncInit, ClockIsIssued, ZeroClock
  <1>2. SyncTypeOK /\ ClockIsIssued /\ [SyncNext]_syncVars => ClockIsIssued'
    BY IssuedNext
  <1>. QED BY <1>1, <1>2, SyncTypeCorrect, PTL DEF SyncSpec

-----------------------------------------------------------------------------
(* What a clock says of the accounts.                                       *)

\* Every copy of an account was stamped by now, so that a new stamp is later.
StampInv ==
    /\ \A n \in Nodes, k \in Keys : acct[n][k].lr <= now
    /\ \A n \in Nodes : \A x \in tasks[n] : \A k \in Keys :
          x.body.kind = "credentials" => x.body.accounts[k].lr <= now
    /\ \A m \in sent : \A k \in Keys :
          m.body.kind = "credentials" => m.body.accounts[k].lr <= now

Answers == {m \in sent : m.by = "coordinator"}

\* Only accounts travel under a coordinator's clock.
AnswerInv == \A m \in Answers : m.body.kind = "credentials"

\* Nobody's count of a node's answers is ahead of the node's own, and while the
\* node has counted an answer that it has not sent, all are behind.
BehindInv ==
    /\ \A n, p \in Nodes :
          /\ clock[p][n] <= clock[n][n]
          /\ answering[n] /\ p # n => clock[p][n] < clock[n][n]
    /\ \A n \in Nodes : \A m \in Answers :
          /\ m.clock[n] <= clock[n][n]
          /\ answering[n] => m.clock[n] < clock[n][n]

\* A clock that has reached an answer certifies accounts as late as the answer's:
\* the clock of a node, and that of another answer.
NodeCert ==
    \A n \in Nodes : \A m \in Answers :
        clock[n][m.from] >= m.clock[m.from] =>
            \A k \in Keys : m.body.accounts[k].lr <= acct[n][k].lr

AnswerCert ==
    \A a, m \in Answers :
        a.clock[m.from] >= m.clock[m.from] =>
            \A k \in Keys : m.body.accounts[k].lr <= a.body.accounts[k].lr

CertInv ==
    /\ StampInv
    /\ AnswerInv
    /\ ~BusTaken => BehindInv /\ NodeCert /\ AnswerCert

\* In no step does an account go back to an earlier stamp.
LrGrows == \A n \in Nodes, k \in Keys : acct[n][k].lr <= acct'[n][k].lr

\* The stamps of accounts, at nodes and in messages, are numbers.
LEMMA LrTypes ==
    ASSUME SyncTypeOK
    PROVE  /\ now \in Nat
           /\ \A n \in Nodes, k \in Keys : acct[n][k] \in Account /\ acct[n][k].lr \in Nat
           /\ \A m \in sent : m.body.kind = "credentials" =>
                 \A k \in Keys : /\ m.body.accounts[k] \in Account
                                  /\ m.body.accounts[k].lr \in Nat
  <1>1. now \in Nat /\ \A n \in Nodes, k \in Keys : acct[n][k] \in Account
    BY DEF SyncTypeOK, Accounts
  <1>2. \A a \in Account : a.lr \in Nat
    BY DEF Account
  <1>3. ASSUME NEW m \in sent, m.body.kind = "credentials", NEW k \in Keys
        PROVE  m.body.accounts[k] \in Account
    <2>1. m.body \in CredentialsBody
      BY <1>3 DEF SyncTypeOK, Message, Body, SwitchBody, QuotaBody
    <2>. QED BY <2>1 DEF CredentialsBody, Accounts
  <1>. QED BY <1>1, <1>2, <1>3

\* A quota round gives an account a stamp later than any.
LEMMA StampedLater ==
    ASSUME SyncTypeOK, StampInv, NEW n \in Nodes, NEW k \in Keys,
           acct' = [acct EXCEPT ![n][k] = Stamped(@)], now' = now + 1
    PROVE  /\ LrGrows
           /\ \A p \in Nodes, j \in Keys : acct'[p][j].lr <= now'
  <1>1. Stamped(acct[n][k]).lr = now + 1
    BY LrTypes DEF Stamped, Account
  <1>2. acct'[n][k].lr = now + 1
    BY <1>1 DEF SyncTypeOK, Accounts
  <1>3. \A p \in Nodes, j \in Keys : <<p, j>> # <<n, k>> => acct'[p][j] = acct[p][j]
    BY DEF SyncTypeOK, Accounts
  <1>. QED BY <1>2, <1>3, LrTypes DEF LrGrows, StampInv

\* A local operation never takes a stamp back.
LEMMA LocalStamps ==
    ASSUME SyncTypeOK, StampInv, NEW n \in Nodes, Local(n)
    PROVE  LrGrows /\ (\A p \in Nodes, j \in Keys : acct'[p][j].lr <= now') /\ now <= now'
  <1> PICK k \in Keys :
        RefreshToken(n, k) \/ FetchQuota(n, k) \/ DeleteAccount(n, k) \/ SwitchAccount(n, k)
    BY DEF Local
  <1>1. CASE RefreshToken(n, k)
    <2>1. acct'[n][k].lr = now + 1 /\ now' = now + 1
      BY <1>1 DEF RefreshToken, SyncTypeOK, Accounts
    <2>2. \A p \in Nodes, j \in Keys : <<p, j>> # <<n, k>> => acct'[p][j] = acct[p][j]
      BY <1>1 DEF RefreshToken, SyncTypeOK, Accounts
    <2>. QED BY <2>1, <2>2, LrTypes DEF LrGrows, StampInv
  <1>2. CASE FetchQuota(n, k)
    <2>1. acct' = [acct EXCEPT ![n][k] = Stamped(@)] /\ now' = now + 1
      BY <1>2 DEF FetchQuota
    <2>2. now \in Nat
      BY DEF SyncTypeOK
    <2>3. LrGrows /\ \A p \in Nodes, j \in Keys : acct'[p][j].lr <= now'
      BY <2>1, StampedLater
    <2>. QED BY <2>1, <2>2, <2>3
  <1>3. CASE DeleteAccount(n, k)
    <2>1. \A p \in Nodes, j \in Keys : acct'[p][j].lr = acct[p][j].lr
      BY <1>3 DEF DeleteAccount, SyncTypeOK, Accounts, Account
    <2>. QED BY <1>3, <2>1, LrTypes DEF DeleteAccount, LrGrows, StampInv
  <1>4. CASE SwitchAccount(n, k)
    BY <1>4, LrTypes DEF SwitchAccount, LrGrows, StampInv
  <1>. QED BY <1>1, <1>2, <1>3, <1>4

\* The accounts of a node after a merge are at least as late as both.
LEMMA MergeStamps ==
    ASSUME SyncTypeOK, StampInv, NEW n \in Nodes, NEW m \in sent, NEW stored \in BOOLEAN,
           HandleCredentials(n, m, stored)
    PROVE  /\ LrGrows
           /\ \A k \in Keys : m.body.accounts[k].lr <= acct'[n][k].lr
           /\ \A p \in Nodes, j \in Keys : acct'[p][j].lr <= now'
  <1>1. m.body.kind = "credentials" /\ now' = now
    BY DEF HandleCredentials, Take
  <1>2. \A k \in Keys : acct'[n][k] = MergeAccount(acct[n][k], m.body.accounts[k])
    BY DEF HandleCredentials, SyncTypeOK
  <1>3. \A p \in Nodes : p # n => acct'[p] = acct[p]
    BY DEF HandleCredentials, SyncTypeOK
  <1>4. ASSUME NEW k \in Keys
        PROVE  /\ acct'[n][k] \in {acct[n][k], m.body.accounts[k]}
               /\ acct'[n][k].lr >= acct[n][k].lr
               /\ acct'[n][k].lr >= m.body.accounts[k].lr
    BY <1>1, <1>2, LrTypes, MergeAccountLater
  <1>5. LrGrows
    BY <1>3, <1>4, LrTypes DEF LrGrows
  <1>6. \A k \in Keys : m.body.accounts[k].lr <= acct'[n][k].lr
    BY <1>1, <1>4, LrTypes
  <1>7. \A k \in Keys : acct'[n][k].lr <= now
    BY <1>1, <1>4 DEF StampInv
  <1>. QED BY <1>1, <1>3, <1>5, <1>6, <1>7 DEF StampInv

\* Neither does a handler: last-write-wins keeps the later copy.
LEMMA ReceiveStamps ==
    ASSUME SyncTypeOK, StampInv, NEW n \in Nodes, Receive(n)
    PROVE  LrGrows /\ (\A p \in Nodes, j \in Keys : acct'[p][j].lr <= now') /\ now <= now'
  <1> PICK m \in sent, stored \in BOOLEAN :
        \/ Ignore(n, m) \/ HandleCredentials(n, m, stored)
        \/ HandleAccountSwitch(n, m, stored) \/ HandleQuotaUpdate(n, m, stored)
    BY DEF Receive
  <1>1. CASE Ignore(n, m) \/ HandleAccountSwitch(n, m, stored)
    <2>1. acct' = acct /\ now' = now
      BY <1>1 DEF Ignore, HandleAccountSwitch
    <2>. QED BY <2>1, LrTypes DEF LrGrows, StampInv
  <1>2. CASE HandleCredentials(n, m, stored)
    <2>1. now' = now
      BY <1>2 DEF HandleCredentials
    <2>2. LrGrows /\ \A p \in Nodes, j \in Keys : acct'[p][j].lr <= now'
      BY <1>2, MergeStamps
    <2>. QED BY <2>1, <2>2, LrTypes
  <1>3. CASE HandleQuotaUpdate(n, m, stored)
    <2>1. m.body.key \in Keys
      BY <1>3 DEF HandleQuotaUpdate, Take, SyncTypeOK, Message, Body,
                  CredentialsBody, SwitchBody, QuotaBody
    <2>2. acct' = [acct EXCEPT ![n][m.body.key] = Stamped(@)] /\ now' = now + 1
      BY <1>3 DEF HandleQuotaUpdate
    <2>3. now \in Nat
      BY DEF SyncTypeOK
    <2>4. LrGrows /\ \A p \in Nodes, j \in Keys : acct'[p][j].lr <= now'
      BY <2>1, <2>2, StampedLater
    <2>. QED BY <2>2, <2>3, <2>4
  <1>. QED BY <1>1, <1>2, <1>3

\* Sending changes no account.
LEMMA SendStamps ==
    ASSUME SyncTypeOK, StampInv, NEW n \in Nodes, Send(n)
    PROVE  acct' = acct /\ now' = now /\ LrGrows
  <1>1. acct' = acct /\ now' = now
    BY DEF Send, Export, Announce, CountAnswer, SendAnswer
  <1>. QED BY <1>1, LrTypes DEF LrGrows

\* Every step: stamps only grow, and stay below now.
LEMMA StepStamps ==
    ASSUME SyncTypeOK, StampInv, [SyncNext]_syncVars
    PROVE  LrGrows /\ (\A p \in Nodes, j \in Keys : acct'[p][j].lr <= now') /\ now <= now'
  <1>1. CASE UNCHANGED syncVars
    <2>1. acct' = acct /\ now' = now
      BY <1>1 DEF syncVars
    <2>. QED BY <2>1, LrTypes DEF LrGrows, StampInv
  <1>2. ASSUME NEW n \in Nodes, Send(n)
        PROVE  LrGrows /\ (\A p \in Nodes, j \in Keys : acct'[p][j].lr <= now') /\ now <= now'
    <2>1. acct' = acct /\ now' = now /\ LrGrows
      BY <1>2, SendStamps
    <2>. QED BY <2>1, LrTypes DEF StampInv
  <1>. QED BY <1>1, <1>2, LocalStamps, ReceiveStamps DEF SyncNext

\* A task that is begun carries the accounts of the moment, and a message that is
\* sent those of the moment or of its task.
LEMMA NewTask ==
    ASSUME SyncTypeOK, [SyncNext]_syncVars, NEW n \in Nodes, NEW x \in tasks'[n],
           x \notin tasks[n], x.body.kind = "credentials"
    PROVE  x.body = Snapshot(n) /\ acct' = acct
  <1>1. tasks' # tasks
    OBVIOUS
  <1>2. PICK p \in Nodes :
          \/ \E k \in Keys : SwitchAccount(p, k)
          \/ \E to : Export(p, to)
          \/ \E y \in tasks[p] : Announce(p, y)
    <2>1. PICK p \in Nodes : Local(p) \/ Send(p) \/ Receive(p)
      BY <1>1 DEF SyncNext, syncVars
    <2>2. ~Receive(p)
      BY <1>1 DEF Receive, Ignore, HandleCredentials, HandleAccountSwitch, HandleQuotaUpdate
    <2>3. Local(p) => \E k \in Keys : SwitchAccount(p, k)
      BY <1>1 DEF Local, RefreshToken, FetchQuota, DeleteAccount
    <2>4. Send(p) => (\E to : Export(p, to)) \/ \E y \in tasks[p] : Announce(p, y)
      BY <1>1 DEF Send, CountAnswer, SendAnswer
    <2>. QED BY <2>1, <2>2, <2>3, <2>4
  <1>3. ASSUME NEW k \in Keys, SwitchAccount(p, k) PROVE FALSE
    BY <1>3 DEF SwitchAccount, SyncTypeOK
  <1>4. ASSUME NEW to, Export(p, to) PROVE x.body = Snapshot(n) /\ acct' = acct
    BY <1>4 DEF Export, SyncTypeOK
  <1>5. ASSUME NEW y \in tasks[p], Announce(p, y) PROVE FALSE
    BY <1>5 DEF Announce, SyncTypeOK
  <1>. QED BY <1>2, <1>3, <1>4, <1>5

\* A new message with accounts holds those of a node now, or those a task exported.
LEMMA NewMessage ==
    ASSUME SyncTypeOK, [SyncNext]_syncVars, NEW m \in sent', m \notin sent,
           m.body.kind = "credentials"
    PROVE  \/ \E n \in Nodes : m.body.accounts = acct[n] /\ acct' = acct
           \/ \E n \in Nodes : \E x \in tasks[n] : m.body = x.body /\ now' = now
  <1>1. sent' # sent
    OBVIOUS
  <1>2. PICK p \in Nodes :
          \/ \E k \in Keys : FetchQuota(p, k)
          \/ \E y \in tasks[p] : Announce(p, y)
          \/ SendAnswer(p)
    BY <1>1 DEF SyncNext, syncVars, Local, RefreshToken, SwitchAccount, DeleteAccount,
                Send, CountAnswer, Export, Receive, Ignore, HandleCredentials,
                HandleAccountSwitch, HandleQuotaUpdate
  <1>3. ASSUME NEW k \in Keys, FetchQuota(p, k) PROVE FALSE
    <2>1. SendOnBus(p, Peers(p), [kind |-> "quota", key |-> k])
      BY <1>3 DEF FetchQuota
    <2>2. m.body = [kind |-> "quota", key |-> k]
      BY <2>1, SendOnBusAdds
    <2>. QED BY <2>2
  <1>4. ASSUME NEW y \in tasks[p], Announce(p, y) PROVE m.body = y.body /\ now' = now
    <2>1. SendOnBus(p, y.to, y.body) /\ now' = now
      BY <1>4 DEF Announce
    <2>. QED BY <2>1, SendOnBusAdds
  <1>5. ASSUME SendAnswer(p) PROVE m.body.accounts = acct[p] /\ acct' = acct
    <2>1. acct' = acct
      BY <1>5 DEF SendAnswer
    <2>. QED BY <1>5, <2>1, SendAnswerAdds
  <1>. QED BY <1>2, <1>3, <1>4, <1>5

\* The messages and tasks of every step carry accounts of that kind.
LEMMA StampNext ==
    ASSUME SyncTypeOK, StampInv, [SyncNext]_syncVars
    PROVE  StampInv'
  <1>0. /\ \A p \in Nodes, j \in Keys : acct'[p][j].lr <= now'
        /\ now <= now' /\ now \in Nat /\ now' \in Nat
    <2>1. SyncTypeOK'
      BY SyncStep
    <2>. QED BY <2>1, StepStamps DEF SyncTypeOK
  <1>1. ASSUME NEW b, b.kind = "credentials", NEW k \in Keys,
               b.accounts[k].lr \in Nat, b.accounts[k].lr <= now
        PROVE  b.accounts[k].lr <= now'
    BY <1>0, <1>1
  <1>2. ASSUME NEW n \in Nodes, NEW x \in tasks'[n], NEW k \in Keys,
               x.body.kind = "credentials"
        PROVE  x.body.accounts[k].lr <= now'
    <2>1. CASE x \in tasks[n]
      <3>1. x.body \in CredentialsBody
        BY <1>2, <2>1 DEF SyncTypeOK, Body, SwitchBody, QuotaBody
      <3>2. x.body.accounts[k].lr \in Nat
        BY <3>1 DEF CredentialsBody, Accounts, Account
      <3>. QED BY <1>0, <1>2, <2>1, <3>2 DEF StampInv
    <2>2. CASE x \notin tasks[n]
      <3>1. x.body = Snapshot(n) /\ acct' = acct
        BY <1>2, <2>2, NewTask
      <3>. QED BY <1>0, <3>1 DEF Snapshot
    <2>. QED BY <2>1, <2>2
  <1>3. ASSUME NEW m \in sent', NEW k \in Keys, m.body.kind = "credentials"
        PROVE  m.body.accounts[k].lr <= now'
    <2>1. CASE m \in sent
      BY <1>0, <1>3, <2>1, LrTypes DEF StampInv
    <2>2. CASE m \notin sent
      <3>1. \/ \E n \in Nodes : m.body.accounts = acct[n] /\ acct' = acct
            \/ \E n \in Nodes : \E x \in tasks[n] : m.body = x.body /\ now' = now
        BY <1>3, <2>2, NewMessage
      <3>. QED BY <1>0, <1>3, <3>1 DEF StampInv
    <2>. QED BY <2>1, <2>2
  <1>. QED BY <1>0, <1>2, <1>3 DEF StampInv

\* The certificates, while no bus-stamped message was taken.
Certified == BehindInv /\ NodeCert /\ AnswerCert

\* The types the certificates are about.
LEMMA CertTypes ==
    ASSUME SyncTypeOK, AnswerInv
    PROVE  /\ \A n, i \in Nodes : clock[n][i] \in Nat
           /\ \A m \in Answers :
                 /\ m \in sent /\ m.from \in Nodes
                 /\ \A i \in Nodes : m.clock[i] \in Nat
                 /\ \A k \in Keys : m.body.accounts[k].lr \in Nat
  <1>1. \A n, i \in Nodes : clock[n][i] \in Nat
    BY DEF SyncTypeOK, Clock
  <1>2. \A m \in Answers : m \in sent /\ m.body.kind = "credentials"
    BY DEF Answers, AnswerInv
  <1>3. \A m \in sent : m.from \in Nodes /\ \A i \in Nodes : m.clock[i] \in Nat
    BY DEF SyncTypeOK, Message, Clock
  <1>. QED BY <1>1, <1>2, <1>3, LrTypes

\* Steps that only move accounts forward.
LEMMA CertGrow ==
    ASSUME SyncTypeOK, SyncTypeOK', AnswerInv, Certified, LrGrows,
           UNCHANGED <<clock, answering, Answers>>
    PROVE  Certified'
  <1>1. BehindInv'
    BY DEF Certified, BehindInv
  <1>2. AnswerCert'
    BY DEF Certified, AnswerCert
  <1>3. \A n \in Nodes, k \in Keys : acct[n][k].lr \in Nat /\ acct'[n][k].lr \in Nat
    BY DEF SyncTypeOK, Accounts, Account
  <1>4. ASSUME NEW n \in Nodes, NEW m \in Answers, clock[n][m.from] >= m.clock[m.from],
               NEW k \in Keys
        PROVE  m.body.accounts[k].lr <= acct'[n][k].lr
    <2>1. m.body.accounts[k].lr <= acct[n][k].lr
      BY <1>4 DEF Certified, NodeCert
    <2>2. acct[n][k].lr <= acct'[n][k].lr
      BY DEF LrGrows
    <2>. QED BY <1>3, <2>1, <2>2, CertTypes
  <1>5. NodeCert'
    BY <1>4 DEF NodeCert
  <1>. QED BY <1>1, <1>2, <1>5 DEF Certified

\* An answer counted: ahead of all, and certifying nothing new of others.
LEMMA CertCount ==
    ASSUME SyncTypeOK, AnswerInv, Certified, NEW n \in Nodes, CountAnswer(n)
    PROVE  Certified'
  <1>1. /\ UNCHANGED <<acct, sent, Answers>>
        /\ answering' = [answering EXCEPT ![n] = TRUE]
    BY DEF CountAnswer, Answers
  <1>2. /\ clock'[n][n] = clock[n][n] + 1
        /\ \A p, i \in Nodes : <<p, i>> # <<n, n>> => clock'[p][i] = clock[p][i]
    BY DEF CountAnswer, SyncTypeOK, Clock
  <1>3. \A p \in Nodes : p # n => answering'[p] = answering[p]
    BY <1>1 DEF SyncTypeOK
  <1>4. ASSUME NEW i \in Nodes, NEW p \in Nodes
        PROVE  /\ clock'[p][i] <= clock'[i][i]
               /\ answering'[i] /\ p # i => clock'[p][i] < clock'[i][i]
    BY <1>2, <1>3, CertTypes DEF Certified, BehindInv
  <1>5. ASSUME NEW i \in Nodes, NEW m \in Answers
        PROVE  /\ m.clock[i] <= clock'[i][i]
               /\ answering'[i] => m.clock[i] < clock'[i][i]
    BY <1>2, <1>3, CertTypes DEF Certified, BehindInv
  <1>6. BehindInv'
    BY <1>1, <1>4, <1>5 DEF BehindInv
  <1>7. ASSUME NEW p \in Nodes, NEW m \in Answers, clock'[p][m.from] >= m.clock[m.from]
        PROVE  \A k \in Keys : m.body.accounts[k].lr <= acct[p][k].lr
    <2>1. clock[p][m.from] >= m.clock[m.from]
      <3>1. CASE p = n /\ m.from = n
        BY <3>1, CertTypes DEF Certified, BehindInv
      <3>2. CASE ~(p = n /\ m.from = n)
        BY <1>2, <1>7, <3>2, CertTypes
      <3>. QED BY <3>1, <3>2
    <2>. QED BY <2>1 DEF Certified, NodeCert
  <1>8. NodeCert'
    BY <1>1, <1>7 DEF NodeCert
  <1>9. AnswerCert'
    BY <1>1 DEF Certified, AnswerCert
  <1>. QED BY <1>6, <1>8, <1>9 DEF Certified

\* An answer sent: nobody but its sender has reached its count, and it certifies what
\* its sender's clock did.
LEMMA CertSend ==
    ASSUME SyncTypeOK, AnswerInv, Certified, NEW n \in Nodes, SendAnswer(n)
    PROVE  Certified'
  <1>1. PICK new : /\ sent' = sent \cup {new}
                   /\ new.from = n /\ new.by = "coordinator" /\ new.clock = clock[n]
                   /\ new.body.kind = "credentials" /\ new.body.accounts = acct[n]
    BY SendAnswerAdds
  <1>2. /\ UNCHANGED <<acct, clock>>
        /\ answering' = [answering EXCEPT ![n] = FALSE]
        /\ answering[n]
    BY DEF SendAnswer
  <1>3. Answers' = Answers \cup {new}
    BY <1>1 DEF Answers
  <1>4. ~answering'[n] /\ \A p \in Nodes : p # n => answering'[p] = answering[p]
    BY <1>2 DEF SyncTypeOK
  <1>5. \A k \in Keys : acct[n][k].lr <= acct[n][k].lr
    BY LrTypes
  <1>6. ASSUME NEW i \in Nodes
        PROVE  /\ new.clock[i] <= clock[i][i]
               /\ answering'[i] => new.clock[i] < clock[i][i]
    BY <1>1, <1>4 DEF Certified, BehindInv
  <1>7. BehindInv'
    BY <1>2, <1>3, <1>4, <1>6 DEF Certified, BehindInv
  <1>8. ASSUME NEW p \in Nodes, clock[p][n] >= clock[n][n]
        PROVE  p = n
    BY <1>2, <1>8, CertTypes DEF Certified, BehindInv
  <1>9. NodeCert'
    BY <1>1, <1>2, <1>3, <1>5, <1>8 DEF Certified, NodeCert
  <1>10. ASSUME NEW a \in Answers, a.clock[n] >= clock[n][n]
         PROVE  FALSE
    BY <1>2, <1>10, CertTypes DEF Certified, BehindInv
  <1>11. ASSUME NEW m \in Answers, clock[n][m.from] >= m.clock[m.from]
         PROVE  \A k \in Keys : m.body.accounts[k].lr <= acct[n][k].lr
    BY <1>11 DEF Certified, NodeCert
  <1>12. AnswerCert'
    BY <1>1, <1>3, <1>5, <1>10, <1>11 DEF Certified, AnswerCert
  <1>. QED BY <1>7, <1>9, <1>12 DEF Certified

\* An answer taken: the merged clock certifies what either clock did, and the merged
\* accounts are as late as both.
LEMMA CertTake ==
    ASSUME SyncTypeOK, SyncTypeOK', StampInv, AnswerInv, Certified,
           NEW n \in Nodes, NEW m \in Answers, HandleCredentials(n, m, TRUE)
    PROVE  Certified'
  <1>1. UNCHANGED <<sent, answering, Answers>>
    BY DEF HandleCredentials, Answers
  <1>2. \A i \in Nodes : clock'[n][i] = IF clock[n][i] > m.clock[i] THEN clock[n][i] ELSE m.clock[i]
    BY DEF HandleCredentials, MergeClock, MergeClocks, SyncTypeOK
  <1>3. \A p \in Nodes : p # n => clock'[p] = clock[p]
    BY DEF HandleCredentials, MergeClock, SyncTypeOK
  <1>4. /\ LrGrows
        /\ \A k \in Keys : m.body.accounts[k].lr <= acct'[n][k].lr
    BY MergeStamps DEF Answers
  <1>5. \A i \in Nodes : clock'[i][i] = clock[i][i]
    BY <1>2, <1>3, CertTypes DEF Certified, BehindInv
  <1>6. BehindInv'
    BY <1>1, <1>2, <1>3, <1>5, CertTypes DEF Certified, BehindInv
  <1>7. \A p \in Nodes, k \in Keys : acct[p][k].lr \in Nat /\ acct'[p][k].lr \in Nat
    BY DEF SyncTypeOK, Accounts, Account
  <1>8. ASSUME NEW p \in Nodes, NEW a \in Answers, clock'[p][a.from] >= a.clock[a.from],
               NEW k \in Keys
        PROVE  a.body.accounts[k].lr <= acct'[p][k].lr
    <2>1. CASE clock[p][a.from] >= a.clock[a.from]
      <3>1. a.body.accounts[k].lr <= acct[p][k].lr
        BY <2>1 DEF Certified, NodeCert
      <3>. QED BY <1>4, <1>7, <3>1, CertTypes DEF LrGrows
    <2>2. CASE ~(clock[p][a.from] >= a.clock[a.from])
      <3>1. p = n /\ m.clock[a.from] >= a.clock[a.from]
        BY <1>2, <1>3, <1>8, <2>2, CertTypes
      <3>2. a.body.accounts[k].lr <= m.body.accounts[k].lr
        BY <3>1 DEF Certified, AnswerCert
      <3>. QED BY <1>4, <1>7, <3>1, <3>2, CertTypes
    <2>. QED BY <2>1, <2>2
  <1>9. NodeCert'
    BY <1>1, <1>8 DEF NodeCert
  <1>10. AnswerCert'
    BY <1>1 DEF Certified, AnswerCert
  <1>. QED BY <1>6, <1>9, <1>10 DEF Certified

\* What was taken stays taken; a message of another kind than credentials is a bus's.
LEMMA TakenStays ==
    ASSUME SyncTypeOK, [SyncNext]_syncVars, ~BusTaken'
    PROVE  ~BusTaken
  <1>1. \A n \in Nodes : seen[n] \subseteq seen'[n]
    <2>1. CASE seen' = seen
      BY <2>1
    <2>2. CASE seen' # seen
      <3>1. PICK p \in Nodes : Local(p) \/ Send(p) \/ Receive(p)
        BY <2>2 DEF SyncNext, syncVars
      <3>2. ~Local(p) /\ ~Send(p)
        BY <2>2 DEF Local, RefreshToken, FetchQuota, DeleteAccount, SwitchAccount,
                    Send, Export, Announce, CountAnswer, SendAnswer
      <3>3. PICK m \in sent : seen' = [seen EXCEPT ![p] = @ \cup {m}]
        BY <3>1, <3>2 DEF Receive, Ignore, HandleCredentials, HandleAccountSwitch,
                          HandleQuotaUpdate, Take
      <3>. QED BY <3>3 DEF SyncTypeOK
    <2>. QED BY <2>1, <2>2
  <1>. QED BY <1>1 DEF BusTaken

\* A handler keeps the certificates: the clock it merges certifies what it has merged,
\* because the message it took is an answer.
LEMMA CertReceive ==
    ASSUME SyncTypeOK, SyncTypeOK', StampInv, AnswerInv, Certified,
           NEW n \in Nodes, Receive(n), ~BusTaken'
    PROVE  Certified'
  <1> PICK m \in sent, stored \in BOOLEAN :
        \/ Ignore(n, m) \/ HandleCredentials(n, m, stored)
        \/ HandleAccountSwitch(n, m, stored) \/ HandleQuotaUpdate(n, m, stored)
    BY DEF Receive
  <1>1. UNCHANGED <<sent, answering, Answers>>
    BY DEF Ignore, HandleCredentials, HandleAccountSwitch, HandleQuotaUpdate, Answers
  <1>2. seen' = [seen EXCEPT ![n] = @ \cup {m}]
    BY DEF Ignore, HandleCredentials, HandleAccountSwitch, HandleQuotaUpdate, Take
  <1>3. m \in Answers
    <2>1. m.by # "bus"
      BY <1>2 DEF BusTaken, SyncTypeOK
    <2>. QED BY <2>1 DEF Answers, SyncTypeOK, Message
  <1>4. m.body.kind = "credentials"
    BY <1>3 DEF AnswerInv
  <1>5. LrGrows
    BY ReceiveStamps
  <1>6. CASE clock' = clock
    BY <1>1, <1>5, <1>6, CertGrow
  <1>7. CASE clock' # clock
    <2>1. HandleCredentials(n, m, TRUE)
      BY <1>4, <1>7 DEF Ignore, HandleCredentials, HandleAccountSwitch, HandleQuotaUpdate,
                        Take, MergeClock
    <2>. QED BY <1>3, <2>1, CertTake
  <1>. QED BY <1>6, <1>7

\* Under a coordinator's clock a step still sends nothing but accounts.
LEMMA AnswerNext ==
    ASSUME SyncTypeOK, AnswerInv, [SyncNext]_syncVars
    PROVE  AnswerInv'
  <1>1. CASE sent' = sent
    BY <1>1 DEF AnswerInv, Answers
  <1>2. CASE sent' # sent
    <2>1. PICK p \in Nodes :
            \/ \E to, body : SendOnBus(p, to, body)
            \/ SendAnswer(p)
      <3>1. PICK p \in Nodes : Local(p) \/ Send(p) \/ Receive(p)
        BY <1>2 DEF SyncNext, syncVars
      <3>2. ~Receive(p)
        BY <1>2 DEF Receive, Ignore, HandleCredentials, HandleAccountSwitch, HandleQuotaUpdate
      <3>3. Local(p) => \E to, body : SendOnBus(p, to, body)
        BY <1>2 DEF Local, RefreshToken, SwitchAccount, DeleteAccount, FetchQuota
      <3>4. Send(p) => (\E to, body : SendOnBus(p, to, body)) \/ SendAnswer(p)
        BY <1>2 DEF Send, CountAnswer, Export, Announce
      <3>. QED BY <3>1, <3>2, <3>3, <3>4
    <2>2. PICK new : sent' = sent \cup {new} /\ (new.by = "bus" \/ new.body.kind = "credentials")
      BY <2>1, SendOnBusAdds, SendAnswerAdds
    <2>. QED BY <2>2 DEF AnswerInv, Answers
  <1>. QED BY <1>1, <1>2

\* The whole of CertInv is inductive on top of the types.
LEMMA CertNext ==
    ASSUME SyncTypeOK, CertInv, [SyncNext]_syncVars
    PROVE  CertInv'
  <1>1. SyncTypeOK' /\ StampInv' /\ AnswerInv'
    BY SyncStep, StampNext, AnswerNext DEF CertInv
  <1>2. ASSUME ~BusTaken' PROVE Certified'
    <2>1. SyncTypeOK' /\ StampInv /\ AnswerInv /\ Certified
      BY <1>1, <1>2, TakenStays DEF CertInv, Certified
    <2>2. LrGrows
      BY <2>1, StepStamps
    <2>3. ASSUME NEW n \in Nodes, NEW to, NEW body, SendOnBus(n, to, body)
          PROVE  Answers' = Answers
      BY <2>3, SendOnBusAdds DEF Answers
    <2>4. ASSUME NEW n \in Nodes, Local(n) PROVE Certified'
      <3>1. UNCHANGED <<clock, answering>>
        BY <2>4 DEF Local, RefreshToken, FetchQuota, DeleteAccount, SwitchAccount
      <3>2. sent' = sent \/ \E to, body : SendOnBus(n, to, body)
        BY <2>4 DEF Local, RefreshToken, FetchQuota, DeleteAccount, SwitchAccount
      <3>3. Answers' = Answers
        BY <2>3, <3>2 DEF Answers
      <3>. QED BY <2>1, <2>2, <3>1, <3>3, CertGrow
    <2>5. ASSUME NEW n \in Nodes, Send(n) PROVE Certified'
      <3>1. ASSUME NEW to, Export(n, to) PROVE Certified'
        <4>1. UNCHANGED <<clock, answering, Answers>>
          BY <3>1 DEF Export, Answers
        <4>. QED BY <2>1, <2>2, <4>1, CertGrow
      <3>2. ASSUME NEW x \in tasks[n], Announce(n, x) PROVE Certified'
        <4>1. UNCHANGED <<clock, answering>> /\ SendOnBus(n, x.to, x.body)
          BY <3>2 DEF Announce
        <4>2. Answers' = Answers
          BY <2>3, <4>1
        <4>. QED BY <2>1, <2>2, <4>1, <4>2, CertGrow
      <3>. QED BY <2>1, <2>5, <3>1, <3>2, CertCount, CertSend DEF Send
    <2>6. ASSUME NEW n \in Nodes, Receive(n) PROVE Certified'
      BY <1>2, <2>1, <2>6, CertReceive
    <2>7. CASE UNCHANGED syncVars
      <3>1. UNCHANGED <<clock, answering, Answers>>
        BY <2>7 DEF syncVars, Answers
      <3>. QED BY <2>1, <2>2, <3>1, CertGrow
    <2>. QED BY <2>4, <2>5, <2>6, <2>7 DEF SyncNext
  <1>. QED BY <1>1, <1>2 DEF CertInv, Certified

\* A clock that has reached a coordinator's answer certifies accounts as late as the
\* answer's: ignoring what it dominates loses nothing.
THEOREM ClocksCertify == SyncSpec => []ClockCertifiesState
  <1>1. SyncInit => CertInv
    BY DEF SyncInit, CertInv, StampInv, AnswerInv, BehindInv, NodeCert, AnswerCert,
           Answers, ZeroClock, Fresh
  <1>2. SyncTypeOK /\ CertInv /\ [SyncNext]_syncVars => CertInv'
    BY CertNext
  <1>3. CertInv => ClockCertifiesState
    BY DEF CertInv, NodeCert, Answers, ClockCertifiesState
  <1>. QED BY <1>1, <1>2, <1>3, SyncTypeCorrect, PTL DEF SyncSpec

-----------------------------------------------------------------------------
(* The refinement: replicas that only go on to later copies.                *)

\* The copies of an account in messages and tasks.
CopiesIn(S, T, k) ==
    {m.body.accounts[k] : m \in {s \in S : s.body.kind = "credentials"}} \cup
    UNION {{x.body.accounts[k] : x \in {y \in T[n] : y.body.kind = "credentials"}} : n \in Nodes}

\* What is among them.
LEMMA CopiesInIs ==
    ASSUME NEW S, NEW T, NEW k, NEW c
    PROVE  c \in CopiesIn(S, T, k)
           <=> \/ \E m \in S : m.body.kind = "credentials" /\ m.body.accounts[k] = c
               \/ \E n \in Nodes : \E x \in T[n] :
                     x.body.kind = "credentials" /\ x.body.accounts[k] = c
  <1> DEFINE Of(n) == {x.body.accounts[k] : x \in {y \in T[n] : y.body.kind = "credentials"}}
  <1>1. c \in {m.body.accounts[k] : m \in {s \in S : s.body.kind = "credentials"}}
        <=> \E m \in S : m.body.kind = "credentials" /\ m.body.accounts[k] = c
    OBVIOUS
  <1>2. \A n : c \in Of(n)
               <=> \E x \in T[n] : x.body.kind = "credentials" /\ x.body.accounts[k] = c
    OBVIOUS
  <1> HIDE DEF Of
  <1>3. c \in UNION {Of(n) : n \in Nodes}
        <=> \E n \in Nodes : \E x \in T[n] : x.body.kind = "credentials" /\ x.body.accounts[k] = c
    BY <1>2
  <1>. QED BY <1>1, <1>3 DEF Of, CopiesIn

\* Offered is made of them, before a step.
LEMMA OfferedIs ==
    ASSUME NEW k \in Keys, NEW c
    PROVE  c \in Offered(k) <=>
              \/ \E m \in sent : m.body.kind = "credentials" /\ m.body.accounts[k] = c
              \/ \E n \in Nodes : \E x \in tasks[n] :
                    x.body.kind = "credentials" /\ x.body.accounts[k] = c
  <1>1. Offered(k) = CopiesIn(sent, tasks, k)
    BY Zenon DEF Offered, CopiesIn
  <1>. QED BY <1>1, CopiesInIs

\* And after it.
LEMMA OfferedIsThen ==
    ASSUME NEW k \in Keys, NEW c
    PROVE  c \in Offered(k)' <=>
              \/ \E m \in sent' : m.body.kind = "credentials" /\ m.body.accounts[k] = c
              \/ \E n \in Nodes : \E x \in tasks'[n] :
                    x.body.kind = "credentials" /\ x.body.accounts[k] = c
  <1>1. Offered(k)' = CopiesIn(sent', tasks', k)
    BY Zenon DEF Offered, CopiesIn
  <1>. QED BY <1>1, CopiesInIs

\* Where no accounts are sent or begin to be, nothing is offered.
LEMMA OfferedStays ==
    ASSUME \A m \in sent' : m.body.kind = "credentials" => m \in sent,
           \A m \in sent : m \in sent',
           \A n \in Nodes : \A x \in tasks'[n] : x.body.kind = "credentials" => x \in tasks[n],
           \A n \in Nodes : \A x \in tasks[n] : x \in tasks'[n]
    PROVE  [k \in Keys |-> Offered(k)]' = [k \in Keys |-> Offered(k)]
  <1>1. ASSUME NEW k \in Keys
        PROVE  Offered(k)' = Offered(k)
    <2>1. ASSUME NEW c
          PROVE  c \in Offered(k)' <=> c \in Offered(k)
      BY OfferedIs, OfferedIsThen
    <2>. QED BY <2>1
  <1>. QED BY <1>1

\* A step that changes no account and offers nothing is no step of a replica.
LEMMA LwwStutters ==
    ASSUME SyncTypeOK, acct' = acct,
           [k \in Keys |-> Offered(k)]' = [k \in Keys |-> Offered(k)]
    PROVE  UNCHANGED Lww!lwwVars
  BY DEF Lww!lwwVars

\* Every copy that is known was stamped by now.
LEMMA KnownStamped ==
    ASSUME SyncTypeOK, StampInv, NEW k \in Keys, NEW c \in Lww!Known(k)
    PROVE  c.lr \in Int /\ c.lr <= now
  <1>1. CASE c \in Offered(k)
    <2>1. ASSUME NEW m \in sent, m.body.kind = "credentials", m.body.accounts[k] = c
          PROVE  c.lr \in Int /\ c.lr <= now
      BY <2>1, LrTypes DEF StampInv
    <2>2. ASSUME NEW n \in Nodes, NEW x \in tasks[n], x.body.kind = "credentials",
                 x.body.accounts[k] = c
          PROVE  c.lr \in Int /\ c.lr <= now
      <3>1. c.lr \in Nat
        <4>1. x.body \in CredentialsBody
          BY <2>2 DEF SyncTypeOK, Body, SwitchBody, QuotaBody
        <4>. QED BY <2>2, <4>1 DEF CredentialsBody, Accounts, Account
      <3>2. x.body.accounts[k].lr <= now
        BY <2>2 DEF StampInv
      <3>. QED BY <2>2, <3>1, <3>2
    <2>. QED BY <1>1, <2>1, <2>2, OfferedIs
  <1>2. CASE \E n \in Nodes : c = acct[n][k]
    BY <1>2, LrTypes DEF StampInv
  <1>3. c \in Offered(k) \cup {acct[n][k] : n \in Nodes}
    BY DEF Lww!Known
  <1>. QED BY <1>1, <1>2, <1>3

\* A new stamp is a refresh: later than every copy there is.
LEMMA LwwRefreshes ==
    ASSUME SyncTypeOK, StampInv, NEW n \in Nodes, NEW k \in Keys, NEW a \in Account,
           acct' = [acct EXCEPT ![n][k] = a], a.lr = now + 1, a.deleted = acct[n][k].deleted,
           [j \in Keys |-> Offered(j)]' = [j \in Keys |-> Offered(j)]
    PROVE  Lww!LwwNext
  <1>1. acct'[n][k] = a /\ now \in Nat
    BY DEF SyncTypeOK, Accounts
  <1>2. \A c \in Lww!Known(k) : acct'[n][k].lr > c.lr
    BY <1>1, KnownStamped
  <1>3. acct' = [acct EXCEPT ![n][k] = acct'[n][k]]
    BY <1>1
  <1>4. Lww!Refresh(n)
    BY <1>1, <1>2, <1>3 DEF Lww!Refresh
  <1>. QED BY <1>4 DEF Lww!LwwNext

\* What a node exports is an offer of all it holds.
LEMMA LwwOffers ==
    ASSUME SyncTypeOK, NEW n \in Nodes, acct' = acct,
           \A k \in Keys : Offered(k)' = Offered(k) \cup {acct[n][k]}
    PROVE  Lww!LwwNext
  <1>1. [k \in Keys |-> Offered(k)]'
           = [k \in Keys |-> [j \in Keys |-> Offered(j)][k] \cup {acct[n][k]}]
    BY Zenon
  <1>2. Lww!Offer(n)
    BY <1>1 DEF Lww!Offer
  <1>. QED BY <1>2 DEF Lww!LwwNext

\* A task with accounts, and a message with accounts, add those to what is offered.
LEMMA OfferedGrows ==
    ASSUME NEW n \in Nodes, SyncTypeOK,
           \/ \E to : tasks' = [tasks EXCEPT ![n] = @ \cup {[to |-> to, body |-> Snapshot(n)]}]
                      /\ sent' = sent
           \/ \E m : /\ sent' = sent \cup {m} /\ tasks' = tasks
                     /\ m.body.kind = "credentials" /\ m.body.accounts = acct[n]
    PROVE  \A k \in Keys : Offered(k)' = Offered(k) \cup {acct[n][k]}
  <1> TAKE k \in Keys
  <1>1. Snapshot(n).kind = "credentials" /\ Snapshot(n).accounts = acct[n]
    BY DEF Snapshot
  <1>2. ASSUME NEW to, NEW c, sent' = sent,
               tasks' = [tasks EXCEPT ![n] = @ \cup {[to |-> to, body |-> Snapshot(n)]}]
        PROVE  c \in Offered(k)' <=> c \in Offered(k) \cup {acct[n][k]}
    <2> DEFINE new == [to |-> to, body |-> Snapshot(n)]
    <2>1. new.body.kind = "credentials" /\ new.body.accounts = acct[n]
      BY <1>1
    <2>2. \A x : x \in tasks'[n] <=> x \in tasks[n] \/ x = new
      BY <1>2 DEF SyncTypeOK
    <2>3. \A p \in Nodes : p # n => tasks'[p] = tasks[p]
      BY <1>2 DEF SyncTypeOK
    <2> HIDE DEF new
    <2>4. (\E p \in Nodes : \E x \in tasks'[p] :
              x.body.kind = "credentials" /\ x.body.accounts[k] = c)
          <=> \/ \E p \in Nodes : \E x \in tasks[p] :
                    x.body.kind = "credentials" /\ x.body.accounts[k] = c
              \/ c = acct[n][k]
      BY <2>1, <2>2, <2>3
    <2>. QED BY <1>2, <2>4, OfferedIs, OfferedIsThen
  <1>3. ASSUME NEW m, NEW c, sent' = sent \cup {m}, tasks' = tasks,
               m.body.kind = "credentials", m.body.accounts = acct[n]
        PROVE  c \in Offered(k)' <=> c \in Offered(k) \cup {acct[n][k]}
    BY <1>3, OfferedIs, OfferedIsThen
  <1>. QED BY <1>2, <1>3

\* An announcement leaves its task for a message: what is offered stays.
LEMMA OfferedSent ==
    ASSUME SyncTypeOK, NEW n \in Nodes, NEW x \in tasks[n], NEW m,
           sent' = sent \cup {m}, m.body = x.body, tasks' = [tasks EXCEPT ![n] = @ \ {x}]
    PROVE  [k \in Keys |-> Offered(k)]' = [k \in Keys |-> Offered(k)]
  <1>1. ASSUME NEW k \in Keys, NEW c
        PROVE  c \in Offered(k)' <=> c \in Offered(k)
    <2>1. \A y : y \in tasks'[n] <=> y \in tasks[n] /\ y # x
      BY DEF SyncTypeOK
    <2>2. \A p \in Nodes : p # n => tasks'[p] = tasks[p]
      BY DEF SyncTypeOK
    <2>3. CASE x.body.kind = "credentials" /\ x.body.accounts[k] = c
      <3>1. \E s \in sent' : s.body.kind = "credentials" /\ s.body.accounts[k] = c
        BY <2>3
      <3>. QED BY <2>3, <3>1, OfferedIs, OfferedIsThen
    <2>4. CASE ~(x.body.kind = "credentials" /\ x.body.accounts[k] = c)
      <3>1. (\E s \in sent' : s.body.kind = "credentials" /\ s.body.accounts[k] = c)
            <=> \E s \in sent : s.body.kind = "credentials" /\ s.body.accounts[k] = c
        BY <2>4
      <3>2. (\E p \in Nodes : \E y \in tasks'[p] :
                y.body.kind = "credentials" /\ y.body.accounts[k] = c)
            <=> \E p \in Nodes : \E y \in tasks[p] :
                   y.body.kind = "credentials" /\ y.body.accounts[k] = c
        BY <2>1, <2>2, <2>4
      <3>. QED BY <3>1, <3>2, OfferedIs, OfferedIsThen
    <2>. QED BY <2>3, <2>4
  <1>2. ASSUME NEW k \in Keys
        PROVE  Offered(k)' = Offered(k)
    BY <1>1
  <1>. QED BY <1>2

\* A local operation is a refresh, a deletion or nothing to a replica.
LEMMA LwwLocal ==
    ASSUME SyncTypeOK, StampInv, NEW n \in Nodes, Local(n)
    PROVE  Lww!LwwNext \/ UNCHANGED Lww!lwwVars
  <1> PICK k \in Keys :
        RefreshToken(n, k) \/ FetchQuota(n, k) \/ DeleteAccount(n, k) \/ SwitchAccount(n, k)
    BY DEF Local
  <1>0. acct[n][k] \in Account /\ now \in Nat /\ issued[k] \in Nat
    BY LrTypes DEF SyncTypeOK
  <1>1. CASE RefreshToken(n, k)
    <2> DEFINE a == [lr |-> now + 1, gen |-> issued[k] + 1, deleted |-> acct[n][k].deleted]
    <2>1. a \in Account /\ a.lr = now + 1 /\ a.deleted = acct[n][k].deleted
      BY <1>0 DEF Account
    <2>2. acct' = [acct EXCEPT ![n][k] = a] /\ sent' = sent /\ tasks' = tasks
      BY <1>1 DEF RefreshToken
    <2>3. [j \in Keys |-> Offered(j)]' = [j \in Keys |-> Offered(j)]
      BY <2>2, OfferedStays
    <2> HIDE DEF a
    <2>. QED BY <2>1, <2>2, <2>3, LwwRefreshes
  <1>2. CASE FetchQuota(n, k)
    <2>1. /\ Stamped(acct[n][k]) \in Account /\ Stamped(acct[n][k]).lr = now + 1
          /\ Stamped(acct[n][k]).deleted = acct[n][k].deleted
      BY <1>0 DEF Stamped, Account
    <2>2. /\ acct' = [acct EXCEPT ![n][k] = Stamped(acct[n][k])] /\ tasks' = tasks
          /\ SendOnBus(n, Peers(n), [kind |-> "quota", key |-> k])
      BY <1>2 DEF FetchQuota
    <2>3. [j \in Keys |-> Offered(j)]' = [j \in Keys |-> Offered(j)]
      <3>1. PICK m : sent' = sent \cup {m} /\ m.body = [kind |-> "quota", key |-> k]
        BY <2>2, SendOnBusAdds
      <3>2. m.body.kind # "credentials"
        BY <3>1
      <3>. QED BY <2>2, <3>1, <3>2, OfferedStays
    <2>. QED BY <2>1, <2>2, <2>3, LwwRefreshes
  <1>3. CASE DeleteAccount(n, k)
    <2>1. acct' = [acct EXCEPT ![n][k].deleted = TRUE] /\ sent' = sent /\ tasks' = tasks
      BY <1>3 DEF DeleteAccount
    <2>2. [j \in Keys |-> Offered(j)]' = [j \in Keys |-> Offered(j)]
      BY <2>1, OfferedStays
    <2>3. Lww!Delete(n)
      BY <2>1, <2>2 DEF Lww!Delete
    <2>. QED BY <2>3 DEF Lww!LwwNext
  <1>4. CASE SwitchAccount(n, k)
    <2> DEFINE x == [to |-> Peers(n), body |-> [kind |-> "switch", key |-> k]]
    <2>1. /\ acct' = acct /\ sent' = sent
          /\ tasks' = [tasks EXCEPT ![n] = @ \cup {x}]
      BY <1>4 DEF SwitchAccount
    <2>2. x.body.kind # "credentials"
      OBVIOUS
    <2> HIDE DEF x
    <2>3. [j \in Keys |-> Offered(j)]' = [j \in Keys |-> Offered(j)]
      <3>1. \A p \in Nodes : \A y \in tasks'[p] : y \in tasks[p] \/ y = x
        BY <2>1 DEF SyncTypeOK
      <3>2. \A p \in Nodes : \A y \in tasks[p] : y \in tasks'[p]
        BY <2>1 DEF SyncTypeOK
      <3>. QED BY <2>1, <2>2, <3>1, <3>2, OfferedStays
    <2>. QED BY <2>1, <2>3, LwwStutters
  <1>. QED BY <1>1, <1>2, <1>3, <1>4

\* What a node sends of its accounts is an offer, or was one when it was exported.
LEMMA LwwSend ==
    ASSUME SyncTypeOK, NEW n \in Nodes, Send(n)
    PROVE  Lww!LwwNext \/ UNCHANGED Lww!lwwVars
  <1>1. ASSUME NEW to, Export(n, to)
        PROVE  Lww!LwwNext
    <2>1. /\ tasks' = [tasks EXCEPT ![n] = @ \cup {[to |-> to, body |-> Snapshot(n)]}]
          /\ sent' = sent /\ acct' = acct
      BY <1>1 DEF Export
    <2>. QED BY <2>1, OfferedGrows, LwwOffers
  <1>2. ASSUME NEW x \in tasks[n], Announce(n, x)
        PROVE  UNCHANGED Lww!lwwVars
    <2>1. PICK m : sent' = sent \cup {m} /\ m.body = x.body
      BY <1>2, SendOnBusAdds DEF Announce
    <2>2. tasks' = [tasks EXCEPT ![n] = @ \ {x}] /\ acct' = acct
      BY <1>2 DEF Announce
    <2>. QED BY <2>1, <2>2, OfferedSent, LwwStutters
  <1>3. CASE CountAnswer(n)
    <2>1. sent' = sent /\ tasks' = tasks /\ acct' = acct
      BY <1>3 DEF CountAnswer
    <2>. QED BY <2>1, OfferedStays, LwwStutters
  <1>4. CASE SendAnswer(n)
    <2>1. PICK m : /\ sent' = sent \cup {m}
                   /\ m.body.kind = "credentials" /\ m.body.accounts = acct[n]
      BY <1>4, SendAnswerAdds
    <2>2. tasks' = tasks /\ acct' = acct
      BY <1>4 DEF SendAnswer
    <2>. QED BY <2>1, <2>2, OfferedGrows, LwwOffers
  <1>. QED BY <1>1, <1>2, <1>3, <1>4 DEF Send

\* A handler takes copies that win, or stamps one.
LEMMA LwwReceive ==
    ASSUME SyncTypeOK, StampInv, NEW n \in Nodes, Receive(n)
    PROVE  Lww!LwwNext \/ UNCHANGED Lww!lwwVars
  <1> PICK m \in sent, stored \in BOOLEAN :
        \/ Ignore(n, m) \/ HandleCredentials(n, m, stored)
        \/ HandleAccountSwitch(n, m, stored) \/ HandleQuotaUpdate(n, m, stored)
    BY DEF Receive
  <1>1. sent' = sent /\ tasks' = tasks
    BY DEF Ignore, HandleCredentials, HandleAccountSwitch, HandleQuotaUpdate
  <1>2. [j \in Keys |-> Offered(j)]' = [j \in Keys |-> Offered(j)]
    BY <1>1, OfferedStays
  <1>3. CASE Ignore(n, m) \/ HandleAccountSwitch(n, m, stored)
    BY <1>2, <1>3, LwwStutters DEF Ignore, HandleAccountSwitch
  <1>4. CASE HandleCredentials(n, m, stored)
    <2>1. /\ m.body.kind = "credentials"
          /\ acct' = [acct EXCEPT ![n] =
                        [k \in Keys |-> MergeAccount(acct[n][k], m.body.accounts[k])]]
      BY <1>4 DEF HandleCredentials, Take
    <2>2. acct'[n] = [k \in Keys |-> MergeAccount(acct[n][k], m.body.accounts[k])]
      BY <2>1 DEF SyncTypeOK
    <2>3. acct' = [acct EXCEPT ![n] = acct'[n]] /\ acct'[n] = [k \in Keys |-> acct'[n][k]]
      <3>. DEFINE new == [k \in Keys |-> MergeAccount(acct[n][k], m.body.accounts[k])]
      <3>1. acct' = [acct EXCEPT ![n] = new] /\ acct'[n] = new
        BY <2>1, <2>2
      <3>2. new = [k \in Keys |-> new[k]]
        OBVIOUS
      <3>. HIDE DEF new
      <3>. QED BY <3>1, <3>2
    <2>4. ASSUME NEW k \in Keys, acct'[n][k] # acct[n][k]
          PROVE  acct'[n][k] \in Offered(k) /\ Lww!Wins(acct'[n][k], acct[n][k])
      <3>1. /\ acct'[n][k] = m.body.accounts[k]
            /\ acct[n][k].lr = 0 \/ m.body.accounts[k].lr > acct[n][k].lr
        BY <2>2, <2>4 DEF MergeAccount
      <3>. QED BY <2>1, <3>1, OfferedIs DEF Lww!Wins
    <2>5. Lww!Take(n)
      BY <1>2, <2>3, <2>4 DEF Lww!Take
    <2>. QED BY <2>5 DEF Lww!LwwNext
  <1>5. CASE HandleQuotaUpdate(n, m, stored)
    <2>1. m.body \in Body /\ m.body.kind = "quota"
      BY <1>5 DEF HandleQuotaUpdate, Take, SyncTypeOK, Message
    <2>2. m.body.key \in Keys
      BY <2>1 DEF Body, CredentialsBody, SwitchBody, QuotaBody
    <2> DEFINE k == m.body.key
    <2>3. /\ Stamped(acct[n][k]) \in Account /\ Stamped(acct[n][k]).lr = now + 1
          /\ Stamped(acct[n][k]).deleted = acct[n][k].deleted
      BY <2>2, LrTypes DEF Stamped, Account
    <2>4. acct' = [acct EXCEPT ![n][k] = Stamped(acct[n][k])]
      BY <1>5 DEF HandleQuotaUpdate
    <2> HIDE DEF k
    <2>. QED BY <1>2, <2>2, <2>3, <2>4, LwwRefreshes DEF k
  <1>. QED BY <1>3, <1>4, <1>5

\* The exchange of accounts implements last-write-wins replicas, for any number of nodes
\* and accounts: whatever messages are lost, overtake each other or are answered late, a
\* node's copy is only ever refreshed, deleted, or replaced as a whole by a later one that
\* another node held.
THEOREM ExchangeImplementsLww == SyncSpec => ImplementsLww
  <1>1. SyncInit => Lww!LwwInit
    <2> SUFFICES ASSUME SyncInit PROVE Lww!LwwInit
      OBVIOUS
    <2>1. acct \in [Nodes -> [Keys -> Account]]
      BY InitSyncType DEF SyncTypeOK, Accounts
    <2>2. \A k \in Keys : Offered(k) = {}
      BY OfferedIs DEF SyncInit
    <2>. QED BY <2>1, <2>2 DEF Lww!LwwInit
  <1>2. SyncInit => StampInv
    BY DEF SyncInit, StampInv, Fresh
  <1>3. SyncTypeOK /\ StampInv /\ [SyncNext]_syncVars => StampInv'
    BY StampNext
  <1>4. SyncTypeOK /\ StampInv /\ [SyncNext]_syncVars => [Lww!LwwNext]_(Lww!lwwVars)
    <2> SUFFICES ASSUME SyncTypeOK, StampInv, [SyncNext]_syncVars
                 PROVE  Lww!LwwNext \/ UNCHANGED Lww!lwwVars
      OBVIOUS
    <2>1. CASE UNCHANGED syncVars
      BY <2>1, OfferedStays, LwwStutters DEF syncVars
    <2>. QED BY <2>1, LwwLocal, LwwSend, LwwReceive DEF SyncNext
  <1>. QED BY <1>1, <1>2, <1>3, <1>4, SyncTypeCorrect, PTL
           DEF SyncSpec, ImplementsLww, Lww!LwwSpec

-----------------------------------------------------------------------------
(* Last-write-wins and the tokens.                                          *)

\* All the copies of an account, on nodes, in messages and in tasks.
Everywhere(k) == Offered(k) \cup {acct[n][k] : n \in Nodes}

\* No copy has a token that was not issued; and among the copies of an account that no
\* quota round has stamped, the later have the later tokens.
OrderInv ==
    \A k \in Keys :
        /\ \A a \in Everywhere(k) : a.gen <= issued[k]
        /\ k \notin quotaBump =>
              \A a, b \in Everywhere(k) : a.lr <= b.lr => a.gen <= b.gen

\* Every copy is an account that was stamped by now.
LEMMA EverywhereType ==
    ASSUME SyncTypeOK, StampInv, NEW k \in Keys, NEW c \in Everywhere(k)
    PROVE  c.lr \in Nat /\ c.gen \in Nat /\ c.lr <= now
  <1>1. ASSUME NEW n \in Nodes, NEW x \in tasks[n], x.body.kind = "credentials"
        PROVE  x.body.accounts[k] \in Account
    <2>1. x.body \in CredentialsBody
      BY <1>1 DEF SyncTypeOK, Body, SwitchBody, QuotaBody
    <2>. QED BY <2>1 DEF CredentialsBody, Accounts
  <1>2. c \in Account
    BY <1>1, LrTypes, OfferedIs DEF Everywhere
  <1>3. c.lr <= now
    <2>1. c \in Lww!Known(k)
      BY DEF Everywhere, Lww!Known
    <2>. QED BY <2>1, KnownStamped
  <1>. QED BY <1>2, <1>3 DEF Account

\* What is offered after a step was somewhere before it.
LEMMA OfferedFromSomewhere ==
    ASSUME SyncTypeOK, [SyncNext]_syncVars, NEW k \in Keys, NEW c \in Offered(k)'
    PROVE  c \in Everywhere(k)
  <1>1. ASSUME NEW n \in Nodes, NEW x \in tasks'[n], x.body.kind = "credentials",
               x.body.accounts[k] = c
        PROVE  c \in Everywhere(k)
    <2>1. CASE x \in tasks[n]
      BY <1>1, <2>1, OfferedIs DEF Everywhere
    <2>2. CASE x \notin tasks[n]
      <3>1. x.body = Snapshot(n)
        BY <1>1, <2>2, NewTask
      <3>2. c = acct[n][k]
        BY <1>1, <3>1 DEF Snapshot
      <3>. QED BY <3>2 DEF Everywhere
    <2>. QED BY <2>1, <2>2
  <1>2. ASSUME NEW m \in sent', m.body.kind = "credentials", m.body.accounts[k] = c
        PROVE  c \in Everywhere(k)
    <2>1. CASE m \in sent
      BY <1>2, <2>1, OfferedIs DEF Everywhere
    <2>2. CASE m \notin sent
      BY <1>2, <2>2, NewMessage, OfferedIs DEF Everywhere
    <2>. QED BY <2>1, <2>2
  <1>. QED BY <1>1, <1>2, OfferedIsThen

\* Node n has refreshed the token of account k, the valid one, and nothing else moved.
Refreshed(n, k) ==
    /\ acct[n][k].gen = issued[k] /\ now' = now + 1
    /\ acct'[n][k].lr = now + 1 /\ acct'[n][k].gen = issued[k] + 1
    /\ issued' = [issued EXCEPT ![k] = @ + 1]
    /\ \A p \in Nodes, j \in Keys : p # n \/ j # k => acct'[p][j] = acct[p][j]

\* Copy a has the token of a copy there was, and its stamp unless a quota round gave it another.
FromCopy(a, k) ==
    \E c \in Everywhere(k) : a.gen = c.gen /\ (a.lr = c.lr \/ k \in quotaBump')

\* A node's copy after a step comes from a copy there was, unless a token was just refreshed.
LEMMA CopyFromSomewhere ==
    ASSUME SyncTypeOK, [SyncNext]_syncVars
    PROVE  \/ \E n \in Nodes, k \in Keys : Refreshed(n, k)
           \/ issued' = issued /\ \A n \in Nodes, k \in Keys : FromCopy(acct'[n][k], k)
  <1>0. \A n \in Nodes, k \in Keys : acct[n][k] \in Everywhere(k)
    BY DEF Everywhere
  <1>1. ASSUME NEW p \in Nodes, NEW j \in Keys, RefreshToken(p, j)
        PROVE  Refreshed(p, j)
    <2> DEFINE a == [lr |-> now + 1, gen |-> issued[j] + 1, deleted |-> acct[p][j].deleted]
    <2>1. acct' = [acct EXCEPT ![p][j] = a] /\ a.lr = now + 1 /\ a.gen = issued[j] + 1
      BY <1>1 DEF RefreshToken
    <2> HIDE DEF a
    <2>2. acct'[p][j] = a /\ \A q \in Nodes, i \in Keys : q # p \/ i # j => acct'[q][i] = acct[q][i]
      BY <2>1 DEF SyncTypeOK, Accounts
    <2>. QED BY <1>1, <2>1, <2>2 DEF RefreshToken, Refreshed
  <1>2. ASSUME acct' = acct, NEW n \in Nodes, NEW k \in Keys
        PROVE  FromCopy(acct'[n][k], k)
    BY <1>0, <1>2 DEF FromCopy
  <1>3. ASSUME NEW p \in Nodes, NEW j \in Keys, j \in quotaBump',
               acct' = [acct EXCEPT ![p][j] = Stamped(acct[p][j])], NEW n \in Nodes, NEW k \in Keys
        PROVE  FromCopy(acct'[n][k], k)
    <2>1. Stamped(acct[p][j]).gen = acct[p][j].gen
      BY LrTypes DEF Stamped, Account
    <2>2. \/ acct'[n][k] = acct[n][k]
          \/ k = j /\ acct'[n][k].gen = acct[n][k].gen
      BY <1>3, <2>1 DEF SyncTypeOK, Accounts
    <2>. QED BY <1>0, <1>3, <2>2 DEF FromCopy
  <1>4. ASSUME NEW p \in Nodes, NEW j \in Keys, DeleteAccount(p, j), NEW n \in Nodes, NEW k \in Keys
        PROVE  FromCopy(acct'[n][k], k)
    <2>1. [acct[p][j] EXCEPT !.deleted = TRUE].gen = acct[p][j].gen
          /\ [acct[p][j] EXCEPT !.deleted = TRUE].lr = acct[p][j].lr
      BY LrTypes DEF Account
    <2>2. acct' = [acct EXCEPT ![p][j] = [acct[p][j] EXCEPT !.deleted = TRUE]]
      BY <1>4 DEF DeleteAccount
    <2>3. acct'[n][k].gen = acct[n][k].gen /\ acct'[n][k].lr = acct[n][k].lr
      BY <2>1, <2>2 DEF SyncTypeOK, Accounts
    <2>. QED BY <1>0, <2>3 DEF FromCopy
  <1>5. ASSUME NEW p \in Nodes, NEW m \in sent, NEW stored \in BOOLEAN,
               HandleCredentials(p, m, stored), NEW n \in Nodes, NEW k \in Keys
        PROVE  FromCopy(acct'[n][k], k)
    <2>1. m.body.kind = "credentials"
      BY <1>5 DEF HandleCredentials, Take
    <2>2. acct'[n][k] = acct[n][k] \/ acct'[n][k] = m.body.accounts[k]
      BY <1>5 DEF HandleCredentials, MergeAccount, SyncTypeOK
    <2>3. m.body.accounts[k] \in Everywhere(k)
      BY <2>1, OfferedIs DEF Everywhere
    <2>. QED BY <1>0, <2>2, <2>3 DEF FromCopy
  <1>6. ASSUME NEW p \in Nodes, Local(p)
        PROVE  \/ \E n \in Nodes, k \in Keys : Refreshed(n, k)
               \/ issued' = issued /\ \A n \in Nodes, k \in Keys : FromCopy(acct'[n][k], k)
    <2> PICK j \in Keys :
          RefreshToken(p, j) \/ FetchQuota(p, j) \/ DeleteAccount(p, j) \/ SwitchAccount(p, j)
      BY <1>6 DEF Local
    <2>1. CASE FetchQuota(p, j)
      BY <1>3, <2>1 DEF FetchQuota
    <2>2. CASE DeleteAccount(p, j)
      <3>1. issued' = issued
        BY <2>2 DEF DeleteAccount
      <3>. QED BY <1>4, <2>2, <3>1
    <2>3. CASE SwitchAccount(p, j)
      BY <1>2, <2>3 DEF SwitchAccount
    <2>. QED BY <1>1, <2>1, <2>2, <2>3
  <1>7. ASSUME NEW p \in Nodes, Send(p)
        PROVE  issued' = issued /\ acct' = acct
    BY <1>7 DEF Send, Export, Announce, CountAnswer, SendAnswer
  <1>8. ASSUME NEW p \in Nodes, Receive(p)
        PROVE  issued' = issued /\ \A n \in Nodes, k \in Keys : FromCopy(acct'[n][k], k)
    <2> PICK m \in sent, stored \in BOOLEAN :
          \/ Ignore(p, m) \/ HandleCredentials(p, m, stored)
          \/ HandleAccountSwitch(p, m, stored) \/ HandleQuotaUpdate(p, m, stored)
      BY <1>8 DEF Receive
    <2>1. issued' = issued
      BY DEF Ignore, HandleCredentials, HandleAccountSwitch, HandleQuotaUpdate
    <2>2. CASE Ignore(p, m) \/ HandleAccountSwitch(p, m, stored)
      BY <1>2, <2>1, <2>2 DEF Ignore, HandleAccountSwitch
    <2>3. CASE HandleCredentials(p, m, stored)
      BY <1>5, <2>1, <2>3
    <2>4. CASE HandleQuotaUpdate(p, m, stored)
      <3>1. m.body \in Body /\ m.body.kind = "quota"
        BY <2>4 DEF HandleQuotaUpdate, Take, SyncTypeOK, Message
      <3>2. m.body.key \in Keys
        BY <3>1 DEF Body, CredentialsBody, SwitchBody, QuotaBody
      <3>. QED BY <1>3, <2>1, <2>4, <3>2 DEF HandleQuotaUpdate
    <2>. QED BY <2>2, <2>3, <2>4
  <1>9. CASE UNCHANGED syncVars
    BY <1>2, <1>9 DEF syncVars
  <1>. QED BY <1>2, <1>6, <1>7, <1>8, <1>9 DEF SyncNext

\* The order of the tokens is kept.
LEMMA OrderNext ==
    ASSUME SyncTypeOK, StampInv, OrderInv, [SyncNext]_syncVars
    PROVE  OrderInv'
  <1>1. quotaBump \subseteq quotaBump'
    <2>1. ASSUME NEW n \in Nodes, Local(n)
          PROVE  quotaBump \subseteq quotaBump'
      BY <2>1 DEF Local, RefreshToken, FetchQuota, DeleteAccount, SwitchAccount
    <2>2. ASSUME NEW n \in Nodes, Send(n)
          PROVE  quotaBump' = quotaBump
      BY <2>2 DEF Send, Export, Announce, CountAnswer, SendAnswer
    <2>3. ASSUME NEW n \in Nodes, Receive(n)
          PROVE  quotaBump \subseteq quotaBump'
      <3> PICK m \in sent, stored \in BOOLEAN :
            \/ Ignore(n, m) \/ HandleCredentials(n, m, stored)
            \/ HandleAccountSwitch(n, m, stored) \/ HandleQuotaUpdate(n, m, stored)
        BY <2>3 DEF Receive
      <3>. QED BY DEF Ignore, HandleCredentials, HandleAccountSwitch, HandleQuotaUpdate
    <2>. QED BY <2>1, <2>2, <2>3 DEF SyncNext, syncVars
  <1>2. \A k \in Keys : issued[k] \in Nat
    BY DEF SyncTypeOK
  <1>3. ASSUME NEW k \in Keys, NEW a \in Everywhere(k)'
        PROVE  a \in Offered(k)' \/ \E n \in Nodes : a = acct'[n][k]
    BY <1>3 DEF Everywhere
  <1>4. CASE issued' = issued /\ \A n \in Nodes, k \in Keys : FromCopy(acct'[n][k], k)
    <2>1. ASSUME NEW k \in Keys, NEW a \in Everywhere(k)'
          PROVE  FromCopy(a, k)
      <3>1. CASE a \in Offered(k)'
        BY <3>1, OfferedFromSomewhere DEF FromCopy
      <3>. QED BY <1>3, <1>4, <2>1, <3>1
    <2>2. ASSUME NEW k \in Keys, NEW a \in Everywhere(k)'
          PROVE  a.gen <= issued'[k]
      BY <1>4, <2>1, <2>2 DEF FromCopy, OrderInv
    <2>3. ASSUME NEW k \in Keys, k \notin quotaBump', NEW a \in Everywhere(k)',
                 NEW b \in Everywhere(k)', a.lr <= b.lr
          PROVE  a.gen <= b.gen
      <3>1. PICK c \in Everywhere(k) : a.gen = c.gen /\ a.lr = c.lr
        BY <2>1, <2>3 DEF FromCopy
      <3>2. PICK d \in Everywhere(k) : b.gen = d.gen /\ b.lr = d.lr
        BY <2>1, <2>3 DEF FromCopy
      <3>. QED BY <1>1, <2>3, <3>1, <3>2 DEF OrderInv
    <2>. QED BY <2>2, <2>3 DEF OrderInv
  <1>5. ASSUME NEW n \in Nodes, NEW j \in Keys, Refreshed(n, j)
        PROVE  OrderInv'
    \* Any copy is one there was, or the one refreshed, which is later and has a later token.
    <2>1. ASSUME NEW k \in Keys, NEW a \in Everywhere(k)'
          PROVE  a \in Everywhere(k) \/ (k = j /\ a.lr = now + 1 /\ a.gen = issued[j] + 1)
      <3>1. CASE a \in Offered(k)'
        BY <3>1, OfferedFromSomewhere
      <3>2. ASSUME NEW p \in Nodes, a = acct'[p][k]
            PROVE  a \in Everywhere(k) \/ (k = j /\ a.lr = now + 1 /\ a.gen = issued[j] + 1)
        BY <1>5, <3>2 DEF Refreshed, Everywhere
      <3>. QED BY <1>3, <2>1, <3>1, <3>2
    <2>2. ASSUME NEW k \in Keys
          PROVE  issued'[k] = IF k = j THEN issued[k] + 1 ELSE issued[k]
      BY <1>5 DEF Refreshed, SyncTypeOK
    <2>3. ASSUME NEW k \in Keys, NEW a \in Everywhere(k)
          PROVE  a.lr \in Nat /\ a.gen \in Nat /\ a.lr < now + 1 /\ a.gen <= issued[k]
      BY <2>3, EverywhereType, LrTypes DEF OrderInv
    <2>4. ASSUME NEW k \in Keys, NEW a \in Everywhere(k)'
          PROVE  a.gen <= issued'[k]
      BY <1>2, <2>1, <2>2, <2>3, <2>4
    <2>5. ASSUME NEW k \in Keys, k \notin quotaBump', NEW a \in Everywhere(k)',
                 NEW b \in Everywhere(k)', a.lr <= b.lr
          PROVE  a.gen <= b.gen
      <3>1. CASE a \in Everywhere(k) /\ b \in Everywhere(k)
        BY <1>1, <2>5, <3>1 DEF OrderInv
      <3>2. CASE b \notin Everywhere(k)
        BY <1>2, <2>1, <2>3, <2>5, <3>2
      <3>3. CASE a \notin Everywhere(k) /\ b \in Everywhere(k)
        <4>1. a.lr = now + 1 /\ b.lr < now + 1 /\ b.lr \in Nat /\ now \in Nat
          BY <2>1, <2>3, <2>5, <3>3, LrTypes
        <4>. QED BY <2>5, <4>1
      <3>. QED BY <3>1, <3>2, <3>3
    <2>. QED BY <2>4, <2>5 DEF OrderInv
  <1>. QED BY <1>4, <1>5, CopyFromSomewhere

\* Of two copies of an account that no quota round has stamped, the one refreshed later
\* has no older token (update_oauth, merge_from_json): for any number of nodes, and
\* whatever is lost, delayed or exported meanwhile.
THEOREM LaterHasNewerToken == SyncSpec => []LaterCopyNewerToken
  <1>1. SyncInit => StampInv
    BY DEF SyncInit, StampInv, Fresh
  <1>2. SyncInit => OrderInv
    <2> SUFFICES ASSUME SyncInit PROVE OrderInv
      OBVIOUS
    <2>1. ASSUME NEW k \in Keys, NEW a \in Everywhere(k)
          PROVE  a = Fresh
      BY OfferedIs DEF Everywhere, SyncInit
    <2>. QED BY <2>1 DEF OrderInv, SyncInit, Fresh
  <1>3. SyncTypeOK /\ StampInv /\ [SyncNext]_syncVars => StampInv'
    BY StampNext
  <1>4. SyncTypeOK /\ StampInv /\ OrderInv /\ [SyncNext]_syncVars => OrderInv'
    BY OrderNext
  <1>5. OrderInv => LaterCopyNewerToken
    <2>1. ASSUME NEW k \in Keys, NEW c \in Copies(k)
          PROVE  c \in Everywhere(k)
      BY <2>1, OfferedIs DEF Copies, Everywhere
    <2>. QED BY <2>1 DEF OrderInv, LaterCopyNewerToken
  <1>. QED BY <1>1, <1>2, <1>3, <1>4, <1>5, SyncTypeCorrect, PTL DEF SyncSpec

\* The merge gives up a deleted account only to a later copy, or when ours was never
\* refreshed.
LEMMA MergeKeepsDeleted ==
    ASSUME NEW l \in Account, NEW r \in Account, l.deleted, ~MergeAccount(l, r).deleted
    PROVE  l.lr = 0 \/ MergeAccount(l, r).lr > l.lr
  BY DEF Account, MergeAccount

\* No step brings a deleted account back but with a later copy: for any number of nodes
\* and accounts, whatever overtakes the deletion (delete_account, merge_from_json).
THEOREM DeletionsHold == SyncSpec => DeletionHolds
  <1> DEFINE Holds == \A n \in Nodes, k \in Keys :
                          acct[n][k].deleted /\ ~acct'[n][k].deleted =>
                              acct[n][k].lr = 0 \/ acct'[n][k].lr > acct[n][k].lr
  <1>1. SyncTypeOK /\ [SyncNext]_syncVars => Holds
    <2> SUFFICES ASSUME SyncTypeOK, SyncNext PROVE Holds
      BY DEF syncVars
    <2> SUFFICES ASSUME NEW p \in Nodes, NEW k \in Keys,
                        acct[p][k].deleted, ~acct'[p][k].deleted
                 PROVE  acct[p][k].lr = 0 \/ acct'[p][k].lr > acct[p][k].lr
      OBVIOUS
    <2>1. acct \in [Nodes -> [Keys -> Account]]
      BY DEF SyncTypeOK, Accounts
    <2>2. PICK n \in Nodes : Local(n) \/ Send(n) \/ Receive(n)
      BY DEF SyncNext
    <2>3. ASSUME NEW j \in Keys, RefreshToken(n, j) PROVE FALSE
      BY <2>1, <2>3 DEF RefreshToken, Account
    <2>4. ASSUME NEW j \in Keys, FetchQuota(n, j) PROVE FALSE
      BY <2>1, <2>4 DEF FetchQuota, Stamped, Account
    <2>5. ASSUME NEW j \in Keys, DeleteAccount(n, j) PROVE FALSE
      BY <2>1, <2>5 DEF DeleteAccount, Account
    <2>6. ASSUME acct' = acct PROVE FALSE
      BY <2>6
    <2>7. CASE Receive(n)
      <3>1. PICK m \in sent :
              \/ Ignore(n, m)
              \/ \E stored \in BOOLEAN :
                    HandleCredentials(n, m, stored) \/ HandleAccountSwitch(n, m, stored)
                    \/ HandleQuotaUpdate(n, m, stored)
        BY <2>7 DEF Receive
      <3>2. ASSUME NEW stored \in BOOLEAN, HandleCredentials(n, m, stored)
            PROVE  acct[p][k].lr = 0 \/ acct'[p][k].lr > acct[p][k].lr
        <4>1. m.body.accounts[k] \in Account
          BY <3>2 DEF HandleCredentials, Take, SyncTypeOK, Message, Body, CredentialsBody,
                      SwitchBody, QuotaBody, Accounts
        <4>2. acct'[p][k] = acct[p][k]
              \/ acct'[p][k] = MergeAccount(acct[p][k], m.body.accounts[k])
          BY <2>1, <3>2 DEF HandleCredentials
        <4>. QED BY <2>1, <4>1, <4>2, MergeKeepsDeleted
      <3>3. ASSUME NEW stored \in BOOLEAN, HandleQuotaUpdate(n, m, stored) PROVE FALSE
        BY <2>1, <3>3 DEF HandleQuotaUpdate, Stamped, Account
      <3>. QED BY <2>6, <3>1, <3>2, <3>3 DEF Ignore, HandleAccountSwitch
    <2>8. CASE Local(n)
      BY <2>3, <2>4, <2>5, <2>6, <2>8 DEF Local, SwitchAccount
    <2>9. CASE Send(n)
      BY <2>6, <2>9 DEF Send, Export, Announce, CountAnswer, SendAnswer
    <2>. QED BY <2>2, <2>7, <2>8, <2>9
  <1>. QED BY <1>1, SyncTypeCorrect, PTL DEF SyncSpec, DeletionHolds
=============================================================================
