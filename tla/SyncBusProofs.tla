----------------------------- MODULE SyncBusProofs -----------------------------
(***************************************************************************)
(* What the dedup window and the reconnect loops of a bus keep, for any    *)
(* number of buses, peers, addresses and messages and any size of the      *)
(* window; and that the pipeline in seven steps keeps to last-write-wins,  *)
(* for any number of nodes and accounts, whatever the hash.                *)
(***************************************************************************)
EXTENDS SyncBus, SyncPipeline, FiniteSetTheorems, SequenceTheorems, WellFoundedInduction, TLAPS

States == {"dial", "read", "check"}

\* What is used of the types.
PartsTypeOK ==
    /\ loops \in [Loop -> Nat]
    /\ table \in [Buses -> [Peers -> Entry \cup {NoEntry}]]
    /\ window \in [Buses -> Seq(Ids)]
    /\ taken \in [Buses -> Seq(Ids)]

\* The window w holds the last ids of the history t, as many as there is room for.
LastOf(w, t) ==
    /\ Len(w) = IF Len(t) < DedupSize THEN Len(t) ELSE DedupSize
    /\ \A k \in 1 .. Len(w) : w[k] = t[Len(t) - Len(w) + k]

\* No id comes again in the history t until after DedupSize others.
Apart(t) ==
    \A j, k \in 1 .. Len(t) : j < k /\ t[j] = t[k] => k - j > DedupSize

\* The window of every bus is true, and has told it what it is for.
WindowInv == \A b \in Buses : LastOf(window[b], taken[b]) /\ Apart(taken[b])

BusInv == PartsTypeOK /\ WindowInv /\ PeerHasLoop

-----------------------------------------------------------------------------
(* The window.                                                             *)

\* What an id of the window is in the history.
LEMMA EndIsEqual ==
    ASSUME NEW w, NEW t, LastOf(w, t), NEW k \in 1 .. Len(w)
    PROVE  w[k] = t[Len(t) - Len(w) + k]
  BY DEF LastOf

\* Marking an id keeps the window the end of the history.
LEMMA MarkKeepsLast ==
    ASSUME NEW w \in Seq(Ids), NEW t \in Seq(Ids), NEW i \in Ids, LastOf(w, t)
    PROVE  LastOf(MarkSeen(w, i), Append(t, i))
  <1>. DedupSize \in Nat \ {0}
    BY BusBoundsAssumption
  <1>1. CASE Len(w) >= DedupSize
    <2>1. Len(w) = DedupSize /\ Len(t) >= DedupSize
      BY <1>1 DEF LastOf
    <2>2. w # <<>>
      BY <2>1
    <2>3. /\ Tail(w) \in Seq(Ids) /\ Len(Tail(w)) = Len(w) - 1
          /\ \A k \in 1 .. Len(w) - 1 : Tail(w)[k] = w[k + 1]
      BY <2>2
    <2>4. MarkSeen(w, i) = Append(Tail(w), i)
      BY <1>1 DEF MarkSeen
    <2>5. Len(MarkSeen(w, i)) = DedupSize
      BY <2>1, <2>3, <2>4
    <2>6. ASSUME NEW k \in 1 .. DedupSize
          PROVE  MarkSeen(w, i)[k] = Append(t, i)[Len(t) + 1 - DedupSize + k]
      <3>1. CASE k = DedupSize
        BY <2>1, <2>3, <2>4, <3>1
      <3>2. CASE k < DedupSize
        <4>1. MarkSeen(w, i)[k] = w[k + 1]
          BY <2>1, <2>3, <2>4, <3>2
        <4>2. w[k + 1] = t[Len(t) - DedupSize + (k + 1)]
          <5>1. k + 1 \in 1 .. Len(w)
            BY <2>1, <3>2
          <5>. QED BY <2>1, <5>1, EndIsEqual
        <4>3. Len(t) - DedupSize + (k + 1) \in 1 .. Len(t)
          BY <2>1, <3>2
        <4>. QED BY <4>1, <4>2, <4>3, <2>1
      <3>3. k = DedupSize \/ k < DedupSize
        OBVIOUS
      <3>. QED BY <3>1, <3>2, <3>3
    <2>. QED BY <2>1, <2>5, <2>6 DEF LastOf
  <1>2. CASE Len(w) < DedupSize
    <2>1. Len(w) = Len(t)
      BY <1>2 DEF LastOf
    <2>2. MarkSeen(w, i) = Append(w, i)
      BY <1>2 DEF MarkSeen
    <2>3. ASSUME NEW k \in 1 .. Len(t) + 1
          PROVE  Append(w, i)[k] = Append(t, i)[k]
      <3>1. CASE k = Len(t) + 1
        BY <2>1, <3>1
      <3>2. CASE k # Len(t) + 1
        <4>1. k \in 1 .. Len(w)
          BY <2>1, <3>2
        <4>2. w[k] = t[Len(t) - Len(w) + k]
          BY <4>1, EndIsEqual
        <4>3. Len(t) - Len(w) + k = k
          BY <2>1, <4>1
        <4>. QED BY <2>1, <4>1, <4>2, <4>3
      <3>. QED BY <3>1, <3>2
    <2>. QED BY <1>2, <2>1, <2>2, <2>3 DEF LastOf
  <1>. QED BY <1>1, <1>2

\* An id that the window does not hold is far enough from its like in the history.
LEMMA FreshIsApart ==
    ASSUME NEW w \in Seq(Ids), NEW t \in Seq(Ids), NEW i \in Ids,
           LastOf(w, t), Apart(t), ~IsDuplicate(w, i)
    PROVE  Apart(Append(t, i))
  <1>. DedupSize \in Nat \ {0}
    BY BusBoundsAssumption
  <1>1. SUFFICES ASSUME NEW j \in 1 .. Len(t) + 1, NEW k \in 1 .. Len(t) + 1, j < k,
                        Append(t, i)[j] = Append(t, i)[k]
                 PROVE  k - j > DedupSize
    BY DEF Apart
  <1>2. CASE k <= Len(t)
    BY <1>1, <1>2 DEF Apart
  <1>3. CASE k = Len(t) + 1
    <2>1. t[j] = i /\ j <= Len(t)
      BY <1>1, <1>3
    <2>2. SUFFICES ASSUME j > Len(t) - Len(w)
                   PROVE  FALSE
      BY <1>3, <2>1 DEF LastOf
    <2>3. j - (Len(t) - Len(w)) \in 1 .. Len(w)
      BY <2>1, <2>2
    <2>4. w[j - (Len(t) - Len(w))] = t[j]
      <3>1. Len(t) - Len(w) + (j - (Len(t) - Len(w))) = j
        OBVIOUS
      <3>. QED BY <2>3, <3>1, EndIsEqual
    <2>. QED BY <2>1, <2>3, <2>4 DEF IsDuplicate
  <1>. QED BY <1>2, <1>3

\* The subscribers of a bus get a message, or its window keeps it from them.
LEMMA PublishKeeps ==
    ASSUME PartsTypeOK, WindowInv, NEW b \in Buses, NEW i \in Ids, Publish(b, i)
    PROVE  /\ window' \in [Buses -> Seq(Ids)]
           /\ taken' \in [Buses -> Seq(Ids)]
           /\ WindowInv'
  <1>. window[b] \in Seq(Ids) /\ taken[b] \in Seq(Ids)
    BY DEF PartsTypeOK
  <1>1. CASE IsDuplicate(window[b], i)
    BY <1>1 DEF Publish, PartsTypeOK, WindowInv
  <1>2. CASE ~IsDuplicate(window[b], i)
    <2>1. /\ window' = [window EXCEPT ![b] = MarkSeen(window[b], i)]
          /\ taken' = [taken EXCEPT ![b] = Append(taken[b], i)]
      BY <1>2 DEF Publish
    <2>2. /\ LastOf(MarkSeen(window[b], i), Append(taken[b], i))
          /\ Apart(Append(taken[b], i))
      BY <1>2, MarkKeepsLast, FreshIsApart DEF WindowInv
    <2>3. MarkSeen(window[b], i) \in Seq(Ids)
      BY BusBoundsAssumption DEF MarkSeen
    <2>4. /\ window' \in [Buses -> Seq(Ids)] /\ window'[b] = MarkSeen(window[b], i)
          /\ taken' \in [Buses -> Seq(Ids)] /\ taken'[b] = Append(taken[b], i)
          /\ \A c \in Buses : c # b => window'[c] = window[c] /\ taken'[c] = taken[c]
      BY <2>1, <2>3 DEF PartsTypeOK
    <2>5. ASSUME NEW c \in Buses
          PROVE  LastOf(window'[c], taken'[c]) /\ Apart(taken'[c])
      BY <2>2, <2>4 DEF WindowInv
    <2>6. WindowInv'
      BY <2>5 DEF WindowInv, LastOf, Apart
    <2>. QED BY <2>4, <2>6
  <1>. QED BY <1>1, <1>2

-----------------------------------------------------------------------------
(* The loops.                                                              *)

\* Some task of reconnect_loop is for the peer p at the address a.
HasLoop(b, p, a) == \E at \in States : loops[LoopOf(b, p, a, at)] > 0

\* A loop goes on: nobody's loop is lost.
LEMMA MoveKeeps ==
    ASSUME PartsTypeOK, NEW b \in Buses, NEW p \in Peers, NEW a \in Addrs,
           NEW from \in States, NEW to \in States, from # to, Move(b, p, a, from, to)
    PROVE  /\ loops' \in [Loop -> Nat]
           /\ \A c \in Buses, q \in Peers, x \in Addrs :
                  HasLoop(c, q, x) => HasLoop(c, q, x)'
  <1>. DEFINE l == LoopOf(b, p, a, from)
              m == LoopOf(b, p, a, to)
  <1>1. l \in Loop /\ m \in Loop /\ l # m
    BY DEF LoopOf, Loop, States
  <1>2. loops[l] \in Nat /\ loops[m] \in Nat /\ loops[l] > 0
    BY <1>1 DEF PartsTypeOK, Move
  <1>3. loops' = [loops EXCEPT ![l] = loops[l] - 1, ![m] = loops[m] + 1]
    BY <1>1 DEF Move, PartsTypeOK
  <1>. HIDE DEF l, m
  <1>4. /\ loops' \in [Loop -> Nat]
        /\ loops'[m] > 0
        /\ \A x \in Loop : x # l /\ x # m => loops'[x] = loops[x]
    BY <1>1, <1>2, <1>3 DEF PartsTypeOK
  <1>5. ASSUME NEW c \in Buses, NEW q \in Peers, NEW x \in Addrs, HasLoop(c, q, x)
        PROVE  HasLoop(c, q, x)'
    <2>1. PICK at \in States : loops[LoopOf(c, q, x, at)] > 0
      BY <1>5 DEF HasLoop
    <2>2. LoopOf(c, q, x, at) \in Loop
      BY DEF LoopOf, Loop, States
    <2>3. CASE LoopOf(c, q, x, at) \in {l, m}
      <3>1. c = b /\ q = p /\ x = a
        BY <2>3 DEF l, m, LoopOf
      <3>. QED BY <1>4, <3>1 DEF HasLoop, m, LoopOf
    <2>4. CASE LoopOf(c, q, x, at) \notin {l, m}
      BY <1>4, <2>1, <2>2, <2>4 DEF HasLoop, LoopOf
    <2>. QED BY <2>3, <2>4
  <1>. QED BY <1>4, <1>5

\* Where the table keeps each peer's address or drops the peer, and no loop is lost.
LEMMA LoopsSuffice ==
    ASSUME PeerHasLoop,
           \A b \in Buses, p \in Peers, a \in Addrs :
               Registered(b, p, a)' => Registered(b, p, a),
           \A b \in Buses, p \in Peers, a \in Addrs :
               HasLoop(b, p, a) => HasLoop(b, p, a)'
    PROVE  PeerHasLoop'
  BY DEF PeerHasLoop, HasLoop, States

\* A peer of the table, when one learns its protocol, keeps its address.
LEMMA LearnKeeps ==
    ASSUME PartsTypeOK, NEW b \in Buses, NEW p, NEW i \in Ids, Learn(b, p, i)
    PROVE  /\ table' \in [Buses -> [Peers -> Entry \cup {NoEntry}]]
           /\ \A c \in Buses, q \in Peers, a \in Addrs :
                  Registered(c, q, a)' => Registered(c, q, a)
  <1>1. CASE p \in Peers /\ table[b][p] # NoEntry /\ table[b][p].proto = "Unknown"
    <2>. DEFINE r == [table[b][p] EXCEPT !.proto = Mail[i].proto]
    <2>1. table' = [table EXCEPT ![b] = [table[b] EXCEPT ![p] = r]]
      BY <1>1 DEF Learn, PartsTypeOK
    <2>2. table[b][p] \in Entry
      BY <1>1 DEF PartsTypeOK
    <2>3. Mail[i].proto \in Protocol
      BY MailAssumption DEF Protocol
    <2>4. r \in Entry /\ r.addr = table[b][p].addr
      BY <2>2, <2>3 DEF Entry
    <2>. HIDE DEF r
    <2>5. table' \in [Buses -> [Peers -> Entry \cup {NoEntry}]]
      BY <1>1, <2>1, <2>4 DEF PartsTypeOK
    <2>6. ASSUME NEW c \in Buses, NEW q \in Peers
          PROVE  \/ c = b /\ q = p /\ table'[c][q] = r
                 \/ table'[c][q] = table[c][q]
      BY <1>1, <2>1 DEF PartsTypeOK
    <2>. QED BY <1>1, <2>4, <2>5, <2>6 DEF Registered
  <1>2. CASE ~(p \in Peers /\ table[b][p] # NoEntry /\ table[b][p].proto = "Unknown")
    BY <1>2 DEF Learn, PartsTypeOK, Registered
  <1>. QED BY <1>1, <1>2

\* connect_peer gives the peer a new entry, and the loop that goes with it.
LEMMA EnterKeeps ==
    ASSUME PartsTypeOK, PeerHasLoop, NEW b, NEW p \in Peers, NEW a \in Addrs, Enter(b, p, a)
    PROVE  /\ loops' \in [Loop -> Nat]
           /\ table' \in [Buses -> [Peers -> Entry \cup {NoEntry}]]
           /\ PeerHasLoop'
  <1>. DEFINE l == LoopOf(b, p, a, "dial")
              e == [addr |-> a, proto |-> ConnectAs]
  <1>1. CASE b \notin Buses
    <2>1. l \notin Loop
      BY <1>1 DEF LoopOf, Loop
    <2>2. loops' = loops
      BY <2>1 DEF Enter, PartsTypeOK
    <2>3. table' = table
      BY <1>1 DEF Enter, PartsTypeOK
    <2>. QED BY <2>2, <2>3 DEF PartsTypeOK, PeerHasLoop, Registered
  <1>2. CASE b \in Buses
    <2>1. l \in Loop
      BY <1>2 DEF LoopOf, Loop
    <2>2. e \in Entry
      BY DEF Entry, ConnectAs, Protocol
    <2>3. /\ table' = [table EXCEPT ![b] = [table[b] EXCEPT ![p] = e]]
          /\ loops' = [loops EXCEPT ![l] = loops[l] + 1]
      BY <1>2, <2>1 DEF Enter, PartsTypeOK
    <2>. HIDE DEF l, e
    <2>4. /\ loops' \in [Loop -> Nat] /\ loops'[l] > 0
          /\ \A x \in Loop : x # l => loops'[x] = loops[x]
      BY <2>1, <2>3 DEF PartsTypeOK
    <2>5. table' \in [Buses -> [Peers -> Entry \cup {NoEntry}]]
      BY <1>2, <2>2, <2>3 DEF PartsTypeOK
    <2>6. ASSUME NEW c \in Buses, NEW q \in Peers
          PROVE  \/ c = b /\ q = p /\ table'[c][q] = e
                 \/ table'[c][q] = table[c][q]
      BY <1>2, <2>3 DEF PartsTypeOK
    <2>7. ASSUME NEW c \in Buses, NEW q \in Peers, NEW x \in Addrs, Registered(c, q, x)'
          PROVE  \E at \in States : loops'[LoopOf(c, q, x, at)] > 0
      <3>1. CASE c = b /\ q = p /\ table'[c][q] = e
        <4>1. x = a
          BY <2>7, <3>1 DEF Registered, e
        <4>. QED BY <2>4, <3>1, <4>1 DEF l, States
      <3>2. CASE table'[c][q] = table[c][q]
        <4>1. PICK at \in States : loops[LoopOf(c, q, x, at)] > 0
          BY <2>7, <3>2 DEF Registered, PeerHasLoop, States
        <4>2. LoopOf(c, q, x, at) \in Loop
          BY DEF LoopOf, Loop, States
        <4>. QED BY <2>4, <4>1, <4>2
      <3>. QED BY <2>6, <3>1, <3>2
    <2>8. PeerHasLoop'
      BY <2>7 DEF PeerHasLoop, Registered, States, LoopOf
    <2>. QED BY <2>4, <2>5, <2>8
  <1>. QED BY <1>1, <1>2

-----------------------------------------------------------------------------
(* The steps.                                                              *)

\* The first bus has no entries, no loops and no messages yet.
LEMMA BusInvInit == BusInit => BusInv
  <1>. SUFFICES ASSUME BusInit PROVE BusInv
    OBVIOUS
  <1>1. PartsTypeOK
    BY DEF BusInit, PartsTypeOK
  <1>2. WindowInv
    BY BusBoundsAssumption DEF BusInit, WindowInv, LastOf, Apart
  <1>3. PeerHasLoop
    BY DEF BusInit, PeerHasLoop, Registered
  <1>. QED BY <1>1, <1>2, <1>3 DEF BusInv

\* A step that concerns neither the table nor the loops nor the messages taken.
LEMMA Elsewhere ==
    ASSUME BusInv, UNCHANGED <<table, loops, window, taken>>
    PROVE  BusInv'
  BY DEF BusInv, PartsTypeOK, WindowInv, LastOf, Apart, PeerHasLoop, Registered

\* A step that concerns the loops and the table only.
LEMMA NoMessage ==
    ASSUME BusInv, UNCHANGED <<window, taken>>, PeerHasLoop',
           loops' \in [Loop -> Nat],
           table' \in [Buses -> [Peers -> Entry \cup {NoEntry}]]
    PROVE  BusInv'
  BY DEF BusInv, PartsTypeOK, WindowInv, LastOf, Apart

\* The removed peer has no entry any more; its loop may have the last look.
LEMMA RemovePeerKeeps ==
    ASSUME BusInv, NEW p \in Peers, RemovePeer(p)
    PROVE  BusInv'
  <1>1. CASE current \in Buses /\ current # NoBus
    <2>1. table' = [table EXCEPT ![current] = [table[current] EXCEPT ![p] = NoEntry]]
      BY <1>1 DEF RemovePeer, BusInv, PartsTypeOK
    <2>2. table' \in [Buses -> [Peers -> Entry \cup {NoEntry}]]
      BY <1>1, <2>1 DEF BusInv, PartsTypeOK
    <2>3. \A c \in Buses, q \in Peers : table'[c][q] = NoEntry \/ table'[c][q] = table[c][q]
      BY <1>1, <2>1 DEF BusInv, PartsTypeOK
    <2>4. loops' = loops /\ UNCHANGED <<window, taken>>
      BY DEF RemovePeer, mailVars
    <2>5. PeerHasLoop'
      BY <2>3, <2>4 DEF BusInv, PeerHasLoop, Registered
    <2>. QED BY <2>2, <2>4, <2>5, NoMessage DEF BusInv, PartsTypeOK
  <1>2. CASE ~(current \in Buses /\ current # NoBus)
    <2>1. table' = table
      BY <1>2 DEF RemovePeer, BusInv, PartsTypeOK
    <2>. QED BY <2>1, Elsewhere DEF RemovePeer, mailVars
  <1>. QED BY <1>1, <1>2

\* A task that makes a new attempt, or goes on, leaves every peer its loop.
LEMMA MoveStepKeeps ==
    ASSUME BusInv, NEW b \in Buses, NEW p \in Peers, NEW a \in Addrs,
           NEW from \in States, NEW to \in States, from # to, Move(b, p, a, from, to),
           UNCHANGED <<table, window, taken>>
    PROVE  BusInv'
  <1>1. PartsTypeOK /\ PeerHasLoop
    BY DEF BusInv
  <1>2. PeerHasLoop'
    BY <1>1, MoveKeeps, LoopsSuffice DEF Registered
  <1>. QED BY <1>1, <1>2, MoveKeeps, NoMessage DEF PartsTypeOK

\* A loop ends only when its peer is not in the table.
LEMMA CheckKeeps ==
    ASSUME BusInv, NEW b \in Buses, NEW p \in Peers, NEW a \in Addrs, Check(b, p, a)
    PROVE  BusInv'
  <1>1. UNCHANGED <<table, window, taken>>
    BY DEF Check, mailVars
  <1>2. CASE table[b][p] # NoEntry
    BY <1>1, <1>2, MoveStepKeeps DEF Check, States
  <1>3. CASE table[b][p] = NoEntry
    <2>. DEFINE l == LoopOf(b, p, a, "check")
    <2>1. l \in Loop
      BY DEF LoopOf, Loop
    <2>2. loops[l] > 0 /\ loops' = [loops EXCEPT ![l] = loops[l] - 1]
      BY <1>3, <2>1 DEF Check, BusInv, PartsTypeOK
    <2>3. \A c \in Buses, q \in Peers, x \in Addrs, at \in States :
              c # b \/ q # p => LoopOf(c, q, x, at) \in Loop /\ LoopOf(c, q, x, at) # l
      BY DEF LoopOf, Loop, States
    <2>. HIDE DEF l
    <2>4. /\ loops' \in [Loop -> Nat]
          /\ \A x \in Loop : x # l => loops'[x] = loops[x]
      BY <2>1, <2>2 DEF BusInv, PartsTypeOK
    <2>5. ASSUME NEW c \in Buses, NEW q \in Peers, NEW x \in Addrs, Registered(c, q, x)'
          PROVE  \E at \in States : loops'[LoopOf(c, q, x, at)] > 0
      <3>1. Registered(c, q, x) /\ (c # b \/ q # p)
        BY <1>1, <1>3, <2>5 DEF Registered
      <3>2. PICK at \in States : loops[LoopOf(c, q, x, at)] > 0
        BY <3>1 DEF BusInv, PeerHasLoop, States
      <3>. QED BY <2>3, <2>4, <3>1, <3>2
    <2>6. PeerHasLoop'
      BY <2>5 DEF PeerHasLoop, Registered, States, LoopOf
    <2>. QED BY <1>1, <2>4, <2>6, NoMessage DEF BusInv, PartsTypeOK
  <1>. QED BY <1>2, <1>3

\* A message that is read and not our own.
LEMMA TakeKeeps ==
    ASSUME BusInv, NEW b \in Buses, NEW p, NEW i \in Ids, Learn(b, p, i), Publish(b, i),
           UNCHANGED loops
    PROVE  BusInv'
  <1>1. PartsTypeOK /\ WindowInv /\ PeerHasLoop
    BY DEF BusInv
  <1>2. PartsTypeOK' /\ WindowInv'
    BY <1>1, LearnKeeps, PublishKeeps DEF PartsTypeOK
  <1>3. PeerHasLoop'
    BY <1>1, LearnKeeps, LoopsSuffice DEF HasLoop
  <1>. QED BY <1>2, <1>3 DEF BusInv

\* Every step of the program, of its buses and of the machines around it.
LEMMA BusInvNext == BusInv /\ [BusNext]_busVars => BusInv'
  <1>. SUFFICES ASSUME BusInv, [BusNext]_busVars
                PROVE  BusInv'
    OBVIOUS
  <1>1. CASE SyncOn
    BY <1>1, Elsewhere DEF SyncOn, mailVars
  <1>2. CASE SyncOff
    BY <1>2, Elsewhere DEF SyncOff, mailVars
  <1>3. ASSUME NEW q \in Ports, SetPort(q)
        PROVE  BusInv'
    BY <1>3, Elsewhere DEF SetPort, mailVars
  <1>4. ASSUME NEW p \in Peers, NEW a \in Addrs, AddPeer(p, a)
        PROVE  BusInv'
    BY <1>4, Elsewhere DEF AddPeer, mailVars
  <1>5. ASSUME NEW p \in Peers, NEW a \in Addrs, AddPeerByApi(p, a)
        PROVE  BusInv'
    <2>1. Enter(current, p, a) /\ UNCHANGED <<window, taken>>
      BY <1>5 DEF AddPeerByApi, mailVars
    <2>. QED BY <2>1, EnterKeeps, NoMessage DEF BusInv
  <1>6. ASSUME NEW p \in Peers, RemovePeer(p)
        PROVE  BusInv'
    BY <1>6, RemovePeerKeeps
  <1>7. ASSUME NEW b \in Buses, Listen(b) \/ CoordinatorStops(b)
        PROVE  BusInv'
    BY <1>7, Elsewhere DEF Listen, CoordinatorStops, mailVars
  <1>8. ASSUME NEW b \in Buses, NEW p \in Peers, NEW a \in Addrs, Connect(b, p, a)
        PROVE  BusInv'
    <2>1. Enter(b, p, a) /\ UNCHANGED <<window, taken>>
      BY <1>8 DEF Connect, mailVars
    <2>. QED BY <2>1, EnterKeeps, NoMessage DEF BusInv
  <1>9. ASSUME NEW b \in Buses, NEW p \in Peers, NEW a \in Addrs, Dial(b, p, a)
        PROVE  BusInv'
    <2>1. PICK to \in {"read", "check"} : Move(b, p, a, "dial", to)
      BY <1>9 DEF Dial
    <2>. QED BY <1>9, <2>1, MoveStepKeeps DEF Dial, mailVars, States
  <1>10. ASSUME NEW b \in Buses, NEW p \in Peers, NEW a \in Addrs, HangUp(b, p, a)
         PROVE  BusInv'
    BY <1>10, MoveStepKeeps DEF HangUp, mailVars, States
  <1>11. ASSUME NEW b \in Buses, NEW p \in Peers, NEW a \in Addrs, Check(b, p, a)
         PROVE  BusInv'
    BY <1>11, CheckKeeps
  <1>12. ASSUME NEW b \in Buses, NEW i \in Ids, TakeIncoming(b, i)
         PROVE  BusInv'
    <2>1. CASE Readable(i) /\ Mail[i].from # Ourselves
      BY <1>12, <2>1, TakeKeeps DEF TakeIncoming
    <2>2. CASE ~(Readable(i) /\ Mail[i].from # Ourselves)
      BY <1>12, <2>2, Elsewhere DEF TakeIncoming
    <2>. QED BY <2>1, <2>2
  <1>13. ASSUME NEW b \in Buses, NEW p \in Peers, NEW a \in Addrs, NEW i \in Ids,
                TakeFromPeer(b, p, a, i)
         PROVE  BusInv'
    <2>1. CASE ~Readable(i)
      BY <1>13, <2>1, MoveStepKeeps DEF TakeFromPeer, States
    <2>2. CASE Readable(i) /\ Mail[i].from = Ourselves
      BY <1>13, <2>2, Elsewhere DEF TakeFromPeer
    <2>3. CASE Readable(i) /\ Mail[i].from # Ourselves
      BY <1>13, <2>3, TakeKeeps DEF TakeFromPeer
    <2>. QED BY <2>1, <2>2, <2>3
  <1>14. ASSUME NEW a \in Addrs, Flip(a)
         PROVE  BusInv'
    BY <1>14, Elsewhere DEF Flip, mailVars
  <1>15. CASE UNCHANGED busVars
    BY <1>15, Elsewhere DEF busVars, mailVars
  <1>. QED BY <1>1, <1>2, <1>3, <1>4, <1>5, <1>6, <1>7, <1>8, <1>9, <1>10, <1>11, <1>12,
              <1>13, <1>14, <1>15 DEF BusNext, Command, Task, LoopStep

\* The invariant holds of the bus, however its tasks are scheduled.
LEMMA BusInvariant == BusSpec => []BusInv
  BY BusInvInit, BusInvNext, PTL DEF BusSpec

-----------------------------------------------------------------------------
(* The results.                                                            *)

\* A peer in the table of a bus has a task that connects to it at the address the
\* table has: no removal and addition, in whatever order the loops see them, ends
\* the last task of a peer that is there (connect_peer, reconnect_loop,
\* remove_peer in bus.rs).
THEOREM PeersKeepLoops == BusSpec => []PeerHasLoop
  <1>1. BusInv => PeerHasLoop
    BY DEF BusInv
  <1>. QED BY <1>1, BusInvariant, PTL

\* No subscriber gets a message again before DedupSize others, whichever connections
\* bring the copies (MessageDedup::mark_seen).
THEOREM OnceInWindow == BusSpec => []TakenOnceInWindow
  <1>1. ASSUME BusInv
        PROVE  TakenOnceInWindow
    <2>1. \A b \in Buses : DOMAIN taken[b] = 1 .. Len(taken[b])
      BY <1>1 DEF BusInv, PartsTypeOK
    <2>. QED BY <1>1, <2>1 DEF BusInv, WindowInv, Apart, TakenOnceInWindow
  <1>. QED BY <1>1, BusInvariant, PTL
-----------------------------------------------------------------------------
(* The pipeline in seven steps.                                            *)

Copies == [Keys -> Content]

\* What a pipeline holds at each step.
Asked == [at : {"asked"}, peer : Nodes, versions : [Keys -> Nat]]
Collected == [at : {"collected"}, clock : Entries, accounts : Copies]
Ready == [at : {"drain", "apply"}, theirs : Collected, clock : Entries, accounts : Copies]
Merged == [at : {"merged"}, clock : Entries]

\* The types, without the outbox; and no copy is from later than now.
ExchangeTypeOK ==
    /\ acct \in [Nodes -> Copies] /\ clock \in [Nodes -> Entries]
    /\ hash \in [Contents -> Nat \ {0}]
    /\ run \in [Nodes -> {Idle} \cup Asked \cup Collected \cup Ready \cup Merged]
    /\ offered \in [Keys -> SUBSET Content]
    /\ now \in 0 .. MaxStamp

\* Copies of which each is no account, or has been offered.
WereOffered(copies) == \A k \in Keys : copies[k].there => copies[k] \in offered[k]

OfferInv ==
    /\ \A k \in Keys : /\ \A n \in Nodes : acct[n][k].lr <= now
                       /\ \A c \in offered[k] : c.lr <= now
    /\ \A n \in Nodes :
          /\ run[n].at = "collected" => WereOffered(run[n].accounts)
          /\ run[n].at \in {"drain", "apply"} =>
                WereOffered(run[n].accounts) /\ WereOffered(run[n].theirs.accounts)

ExchangeInv == ExchangeTypeOK /\ OfferInv

-----------------------------------------------------------------------------
(* What is read and merged.                                                 *)

\* What a pipeline is by its step.
LEMMA AtIs ==
    ASSUME ExchangeTypeOK, NEW n \in Nodes
    PROVE  /\ run[n].at = "asked" => run[n] \in Asked
           /\ run[n].at = "collected" => run[n] \in Collected
           /\ run[n].at \in {"drain", "apply"} => run[n] \in Ready
           /\ run[n].at = "merged" => run[n] \in Merged
  <1>1. run[n] \in {Idle} \cup Asked \cup Collected \cup Ready \cup Merged
    BY DEF ExchangeTypeOK
  <1>2. CASE run[n] = Idle
    BY <1>2 DEF Idle
  <1>3. CASE run[n] \in Asked
    BY <1>3 DEF Asked
  <1>4. CASE run[n] \in Collected
    BY <1>4 DEF Collected
  <1>5. CASE run[n] \in Ready
    BY <1>5 DEF Ready
  <1>6. CASE run[n] \in Merged
    BY <1>6 DEF Merged
  <1>. QED BY <1>1, <1>2, <1>3, <1>4, <1>5, <1>6

\* Two clocks merged are a clock.
LEMMA MergedClocks ==
    ASSUME NEW a \in Entries, NEW b \in Entries
    PROVE  MergeClocks(a, b) \in Entries
  BY DEF Entries, MergeClocks

\* Versions are numbers.
LEMMA VersionsType ==
    ASSUME ExchangeTypeOK, NEW a \in Copies
    PROVE  Versions(a) \in [Keys -> Nat]
  <1>1. ASSUME NEW k \in Keys PROVE (IF a[k].there THEN hash[a[k]] ELSE 0) \in Nat
    BY DEF ExchangeTypeOK, Copies, Contents
  <1>. QED BY <1>1 DEF Versions

\* Only accounts that are offered get into what is merged.
LEMMA MergedOffered ==
    ASSUME NEW a \in Copies, NEW b \in Copies, WereOffered(a), WereOffered(b)
    PROVE  StepMerge(a, b) \in Copies /\ WereOffered(StepMerge(a, b))
  <1>1. ASSUME NEW k \in Keys PROVE StepMerge(a, b)[k] \in {a[k], b[k]}
    BY DEF StepMerge
  <1>2. StepMerge(a, b) = [k \in Keys |-> StepMerge(a, b)[k]]
    BY DEF StepMerge
  <1>3. StepMerge(a, b) \in Copies
    BY <1>1, <1>2 DEF Copies
  <1>. QED BY <1>1, <1>3 DEF WereOffered

\* What merge_from_json leaves: our copy, or one that is offered and wins.
LEMMA MergeTakes ==
    ASSUME NEW a \in Copies, NEW m \in Copies, WereOffered(m), NEW k \in Keys
    PROVE  /\ MergeFromJson(a, m) \in Copies
           /\ \/ MergeFromJson(a, m)[k] = a[k]
              \/ /\ MergeFromJson(a, m)[k] \in offered[k]
                 /\ Lww!Wins(MergeFromJson(a, m)[k], a[k])
  <1>1. ASSUME NEW i \in Keys PROVE MergeFromJson(a, m)[i] \in {a[i], m[i]}
    BY DEF MergeFromJson, MergeAccount
  <1>2. MergeFromJson(a, m) = [i \in Keys |-> MergeFromJson(a, m)[i]]
    BY DEF MergeFromJson
  <1>3. MergeFromJson(a, m) \in Copies
    BY <1>1, <1>2 DEF Copies
  <1>4. \/ MergeFromJson(a, m)[k] = a[k]
        \/ m[k].there /\ MergeFromJson(a, m)[k] = m[k] /\ (a[k].lr = 0 \/ m[k].lr > a[k].lr)
    BY DEF MergeFromJson, MergeAccount
  <1>. QED BY <1>3, <1>4 DEF WereOffered, Lww!Wins

\* Nothing that the replicas see.
Invisible == UNCHANGED <<acct, offered>>

-----------------------------------------------------------------------------
(* The steps.                                                               *)

\* At the start nothing is offered and no pipeline is under way.
LEMMA ExchangeInit == PipelineInit => ExchangeInv
  <1> SUFFICES ASSUME PipelineInit PROVE ExchangeInv
    OBVIOUS
  <1>1. NoAccount \in Content /\ [NoAccount EXCEPT !.there = TRUE] \in Content
    <2>1. 0 \in 0 .. MaxStamp
      BY PipelineBoundsAssumption
    <2>2. NoAccount \in Content
      BY <2>1 DEF NoAccount, Content
    <2>. QED BY <2>2 DEF Content
  <1>2. NoAccount.lr = 0 /\ [NoAccount EXCEPT !.there = TRUE].lr = 0
    BY DEF NoAccount
  <1>3. acct \in [Nodes -> Copies] /\ \A n \in Nodes, k \in Keys : acct[n][k].lr = 0
    <2>. DEFINE Two == {NoAccount, [NoAccount EXCEPT !.there = TRUE]}
    <2>1. Two \subseteq Content /\ \A c \in Two : c.lr = 0
      BY <1>1, <1>2
    <2>2. acct \in [Nodes -> [Keys -> Two]]
      BY DEF PipelineInit
    <2>. HIDE DEF Two
    <2>. QED BY <2>1, <2>2 DEF Copies
  <1>4. clock \in [Nodes -> Entries] /\ hash \in [Contents -> Nat \ {0}]
    BY HashesAssumption DEF PipelineInit, StartClock, Entries
  <1>5. \A n \in Nodes : run[n].at = "idle"
    BY DEF PipelineInit, Idle
  <1>6. now = 0 /\ offered = [k \in Keys |-> {}] /\ run = [n \in Nodes |-> Idle]
    BY DEF PipelineInit
  <1>7. ExchangeTypeOK
    BY <1>3, <1>4, <1>6, PipelineBoundsAssumption DEF ExchangeTypeOK
  <1>8. OfferInv
    BY <1>3, <1>5, <1>6 DEF OfferInv
  <1>. QED BY <1>7, <1>8 DEF ExchangeInv

\* A step of the pipeline that leaves the accounts and what is offered.
LEMMA RunsOn ==
    ASSUME ExchangeInv, NEW n \in Nodes,
           NEW r \in {Idle} \cup Asked \cup Collected \cup Ready \cup Merged,
           run' = [run EXCEPT ![n] = r], UNCHANGED <<acct, offered, now, hash>>,
           clock' \in [Nodes -> Entries],
           r.at = "collected" => WereOffered(r.accounts),
           r.at \in {"drain", "apply"} => WereOffered(r.accounts) /\ WereOffered(r.theirs.accounts)
    PROVE  ExchangeInv'
  <1>1. run \in [Nodes -> {Idle} \cup Asked \cup Collected \cup Ready \cup Merged]
    BY DEF ExchangeInv, ExchangeTypeOK
  <1>2. /\ run' \in [Nodes -> {Idle} \cup Asked \cup Collected \cup Ready \cup Merged]
        /\ run'[n] = r /\ \A m \in Nodes : m # n => run'[m] = run[m]
    BY <1>1
  <1>3. ExchangeTypeOK'
    BY <1>2 DEF ExchangeInv, ExchangeTypeOK
  <1>4. \A c : WereOffered(c) => WereOffered(c)'
    BY DEF WereOffered
  <1>5. ASSUME NEW m \in Nodes
        PROVE  /\ run'[m].at = "collected" => WereOffered(run'[m].accounts)
               /\ run'[m].at \in {"drain", "apply"} =>
                     WereOffered(run'[m].accounts) /\ WereOffered(run'[m].theirs.accounts)
    BY <1>2 DEF ExchangeInv, OfferInv
  <1>6. OfferInv'
    BY <1>5 DEF ExchangeInv, OfferInv, WereOffered
  <1>. QED BY <1>3, <1>6 DEF ExchangeInv

\* The accounts of a node are offered, and a pipeline has read them or what was offered.
LEMMA OfferKeeps ==
    ASSUME ExchangeInv, NEW n \in Nodes, NEW p \in Nodes, Offer(p),
           NEW r \in Collected \cup Ready,
           run' = [run EXCEPT ![n] = r], UNCHANGED <<acct, clock, now, hash>>,
           WereOffered(r.accounts)',
           r.at \in {"drain", "apply"} => WereOffered(r.theirs.accounts)
    PROVE  ExchangeInv'
  <1>1. /\ run \in [Nodes -> {Idle} \cup Asked \cup Collected \cup Ready \cup Merged]
        /\ acct \in [Nodes -> Copies] /\ offered \in [Keys -> SUBSET Content]
    BY DEF ExchangeInv, ExchangeTypeOK
  <1>2. /\ run' \in [Nodes -> {Idle} \cup Asked \cup Collected \cup Ready \cup Merged]
        /\ run'[n] = r /\ \A m \in Nodes : m # n => run'[m] = run[m]
    BY <1>1
  <1>3. \A k \in Keys : offered'[k] = offered[k] \cup {acct[p][k]} /\ acct[p][k] \in Content
    BY <1>1 DEF Offer, Copies
  <1>4. offered' \in [Keys -> SUBSET Content]
    BY <1>1, <1>3 DEF Offer
  <1>5. ExchangeTypeOK'
    BY <1>2, <1>4 DEF ExchangeInv, ExchangeTypeOK
  <1>6. \A c : WereOffered(c) => WereOffered(c)'
    BY <1>3 DEF WereOffered
  <1>7. \A k \in Keys : /\ \A m \in Nodes : acct[m][k].lr <= now
                        /\ \A c \in offered'[k] : c.lr <= now
    BY <1>3 DEF ExchangeInv, OfferInv
  <1>8. ASSUME NEW m \in Nodes
        PROVE  (/\ run[m].at = "collected" => WereOffered(run[m].accounts)
                /\ run[m].at \in {"drain", "apply"} =>
                      WereOffered(run[m].accounts) /\ WereOffered(run[m].theirs.accounts))'
    <2>1. CASE m = n
      <3>1. WereOffered(r.accounts)' /\ (r.at \in {"drain", "apply"} => WereOffered(r.theirs.accounts)')
        BY <1>6
      <3>. QED BY <1>2, <2>1, <3>1 DEF WereOffered
    <2>2. CASE m # n
      <3>1. run'[m] = run[m]
        BY <1>2, <2>2
      <3>2. PICK x : x = run[m]
        OBVIOUS
      <3>3. /\ x.at = "collected" => WereOffered(x.accounts)
            /\ x.at \in {"drain", "apply"} => WereOffered(x.accounts) /\ WereOffered(x.theirs.accounts)
        BY <3>2 DEF ExchangeInv, OfferInv
      <3>4. /\ x.at = "collected" => WereOffered(x.accounts)'
            /\ x.at \in {"drain", "apply"} => WereOffered(x.accounts)' /\ WereOffered(x.theirs.accounts)'
        BY <1>6, <3>3
      <3>. QED BY <3>1, <3>2, <3>4 DEF WereOffered
    <2>. QED BY <2>1, <2>2
  <1>9. OfferInv'
    BY <1>7, <1>8 DEF OfferInv
  <1>. QED BY <1>5, <1>9 DEF ExchangeInv

\* The peer offers its accounts and answers with some of them.
LEMMA CollectSteps ==
    ASSUME ExchangeInv, NEW n \in Nodes, Collect(n)
    PROVE  ExchangeInv' /\ Lww!LwwNext
  <1>. DEFINE p == run[n].peer
              r == [at |-> "collected", clock |-> clock[p],
                    accounts |-> FullSyncExport(acct[p], KeysToSend(Versions(acct[p]), run[n].versions))]
  <1>1. p \in Nodes
    BY AtIs DEF Collect, AtStep, Asked, ExchangeInv
  <1>2. /\ Offer(p) /\ run' = [run EXCEPT ![n] = r] /\ UNCHANGED <<acct, clock, now, hash>>
    BY DEF Collect, Only, accountVars
  <1>3. acct[p] \in Copies /\ clock[p] \in Entries /\ offered \in [Keys -> SUBSET Content]
    BY <1>1 DEF ExchangeInv, ExchangeTypeOK
  <1>4. \A k \in Keys : r.accounts[k] \in {acct[p][k], NoAccount}
    BY DEF FullSyncExport
  <1>5. NoAccount \in Content /\ ~NoAccount.there
    BY PipelineBoundsAssumption DEF NoAccount, Content
  <1>6. r.accounts \in Copies
    BY <1>3, <1>4, <1>5 DEF FullSyncExport, Copies
  <1>7. r \in Collected
    BY <1>3, <1>6 DEF Collected
  <1>8. \A k \in Keys : acct[p][k] \in offered'[k]
    BY <1>2 DEF Offer
  <1>9. PICK c : c = r.accounts
    OBVIOUS
  <1>10. WereOffered(c)'
    BY <1>4, <1>5, <1>8, <1>9 DEF WereOffered
  <1>11. Lww!Offer(p)
    BY <1>2 DEF Lww!Offer, Offer
  <1>12. PICK q : q = r
    OBVIOUS
  <1>13. q.at = "collected" /\ q.accounts = c
    BY <1>9, <1>12
  <1>. HIDE DEF r, p
  <1>14. WereOffered(q.accounts)'
    BY <1>10, <1>13
  <1>15. ExchangeInv'
    BY <1>1, <1>2, <1>7, <1>12, <1>13, <1>14, OfferKeeps
  <1>. QED BY <1>1, <1>11, <1>15 DEF Lww!LwwNext

\* The node offers its accounts, having read them for the merge.
LEMMA SnapshotSteps ==
    ASSUME ExchangeInv, NEW n \in Nodes, Snapshot(n)
    PROVE  ExchangeInv' /\ Lww!LwwNext
  <1>1. run[n] \in Collected /\ WereOffered(run[n].accounts)
    BY AtIs DEF Snapshot, AtStep, ExchangeInv, OfferInv
  <1>2. PICK q : q = [at |-> "drain", theirs |-> run[n], clock |-> clock[n], accounts |-> acct[n]]
    OBVIOUS
  <1>3. Offer(n) /\ run' = [run EXCEPT ![n] = q] /\ UNCHANGED <<acct, clock, now, hash>>
    BY <1>2 DEF Snapshot, Only, accountVars
  <1>4. acct[n] \in Copies /\ clock[n] \in Entries
    BY DEF ExchangeInv, ExchangeTypeOK
  <1>5. q \in Ready /\ q.accounts = acct[n] /\ q.theirs = run[n]
    BY <1>1, <1>2, <1>4 DEF Ready
  <1>6. \A k \in Keys : q.accounts[k] \in offered'[k]
    BY <1>3, <1>5 DEF Offer
  <1>7. WereOffered(q.accounts)'
    BY <1>6 DEF WereOffered
  <1>8. ExchangeInv'
    BY <1>1, <1>3, <1>5, <1>7, OfferKeeps
  <1>9. Lww!Offer(n)
    BY <1>3 DEF Lww!Offer, Offer
  <1>. QED BY <1>8, <1>9 DEF Lww!LwwNext

\* What was merged is put on the accounts of the moment: copies that win are taken.
LEMMA ApplySteps ==
    ASSUME ExchangeInv, NEW n \in Nodes, NEW stored \in BOOLEAN, ApplyMerged(n, stored)
    PROVE  ExchangeInv' /\ (Lww!LwwNext \/ Invisible)
  <1>. DEFINE r == run[n]
              q == IF InSync(r) \/ stored
                   THEN [at |-> "merged", clock |-> MergeClocks(r.clock, r.theirs.clock)] ELSE Idle
              m == StepMerge(r.accounts, r.theirs.accounts)
  <1>1. r \in Ready /\ WereOffered(r.accounts) /\ WereOffered(r.theirs.accounts)
    BY AtIs DEF ApplyMerged, AtStep, ExchangeInv, OfferInv
  <1>2. /\ r.theirs \in Collected /\ r.clock \in Entries /\ r.theirs.clock \in Entries
        /\ r.accounts \in Copies /\ r.theirs.accounts \in Copies
    BY <1>1 DEF Ready, Collected
  <1>3. q \in {Idle} \cup Merged /\ q.at \in {"idle", "merged"}
    BY <1>2, MergedClocks DEF Merged, Idle
  <1>4. m \in Copies /\ WereOffered(m)
    BY <1>1, <1>2, MergedOffered
  <1>5. /\ run' = [run EXCEPT ![n] = q] /\ UNCHANGED <<clock, now, hash, offered>>
        /\ \/ acct' = acct
           \/ acct' = [acct EXCEPT ![n] = MergeFromJson(acct[n], m)]
    BY DEF ApplyMerged, Only
  <1>6. /\ acct \in [Nodes -> Copies] /\ clock \in [Nodes -> Entries]
        /\ offered \in [Keys -> SUBSET Content]
        /\ run \in [Nodes -> {Idle} \cup Asked \cup Collected \cup Ready \cup Merged]
    BY DEF ExchangeInv, ExchangeTypeOK
  <1>. HIDE DEF r, q, m
  <1>7. CASE acct' = acct
    BY <1>3, <1>5, <1>6, <1>7, RunsOn DEF Invisible
  <1>8. CASE acct' # acct
    <2>1. acct' = [acct EXCEPT ![n] = MergeFromJson(acct[n], m)]
      BY <1>5, <1>8
    <2>2. PICK a : a = MergeFromJson(acct[n], m)
      OBVIOUS
    <2>3. /\ acct' = [acct EXCEPT ![n] = a] /\ acct[n] \in Copies
          /\ \A k \in Keys : a[k] = acct[n][k] \/ (a[k] \in offered[k] /\ Lww!Wins(a[k], acct[n][k]))
      BY <1>4, <1>6, <2>1, <2>2, MergeTakes
    <2>4. a = [k \in Keys |-> a[k]] /\ \A k \in Keys : a[k] \in Content
      BY <1>6, <2>2, <2>3 DEF MergeFromJson, Copies
    <2>5. a \in Copies
      BY <2>4 DEF Copies
    <2>6. acct'[n] = a /\ acct' \in [Nodes -> Copies] /\ \A i \in Nodes : i # n => acct'[i] = acct[i]
      BY <1>6, <2>3, <2>5
    <2>7. Lww!Take(n)
      <3>1. acct' = [acct EXCEPT ![n] = acct'[n]]
        BY <2>3, <2>6
      <3>2. acct'[n] = [k \in Keys |-> acct'[n][k]]
        BY <2>4, <2>6
      <3>3. \A k \in Keys : acct'[n][k] # acct[n][k] =>
                acct'[n][k] \in offered[k] /\ Lww!Wins(acct'[n][k], acct[n][k])
        BY <2>3, <2>6
      <3>. QED BY <1>5, <3>1, <3>2, <3>3 DEF Lww!Take
    <2>8. ExchangeTypeOK'
      BY <1>3, <1>5, <1>6, <2>6 DEF ExchangeInv, ExchangeTypeOK
    <2>9. OfferInv'
      <3>1. ASSUME NEW i \in Nodes, NEW k \in Keys PROVE acct'[i][k].lr <= now
        BY <2>3, <2>6 DEF ExchangeInv, OfferInv
      <3>2. \A i \in Nodes : i # n => run'[i] = run[i]
        BY <1>5, <1>6
      <3>3. run'[n].at \in {"idle", "merged"}
        BY <1>3, <1>5, <1>6
      <3>4. \A c : WereOffered(c) => WereOffered(c)'
        BY <1>5 DEF WereOffered
      <3>. QED BY <1>5, <3>1, <3>2, <3>3 DEF ExchangeInv, OfferInv, WereOffered
    <2>. QED BY <2>7, <2>8, <2>9 DEF ExchangeInv, Lww!LwwNext
  <1>. QED BY <1>7, <1>8

\* Every step of a pipeline.
LEMMA PipelineSteps ==
    ASSUME ExchangeInv, NEW n \in Nodes, Pipeline(n)
    PROVE  ExchangeInv' /\ (Lww!LwwNext \/ Invisible)
  <1>1. /\ acct \in [Nodes -> Copies] /\ clock \in [Nodes -> Entries]
        /\ run \in [Nodes -> {Idle} \cup Asked \cup Collected \cup Ready \cup Merged]
    BY DEF ExchangeInv, ExchangeTypeOK
  <1>2. ASSUME NEW p \in Nodes, Ask(n, p) PROVE ExchangeInv' /\ Invisible
    <2>1. PICK q : q = [at |-> "asked", peer |-> p, versions |-> Versions(acct[n])]
      OBVIOUS
    <2>2. q \in Asked /\ q.at = "asked"
      BY <1>1, <2>1, VersionsType DEF Asked, ExchangeInv
    <2>3. run' = [run EXCEPT ![n] = q] /\ UNCHANGED <<acct, offered, now, hash, clock>>
      BY <1>2, <2>1 DEF Ask, Only, accountVars
    <2>. QED BY <1>1, <2>2, <2>3, RunsOn DEF Invisible
  <1>3. ASSUME DrainOutbox(n) PROVE ExchangeInv' /\ Invisible
    <2>1. run[n] \in Ready /\ WereOffered(run[n].accounts) /\ WereOffered(run[n].theirs.accounts)
      BY <1>3, AtIs DEF DrainOutbox, AtStep, ExchangeInv, OfferInv
    <2>2. PICK q : q = [run[n] EXCEPT !.at = "apply"]
      OBVIOUS
    <2>3. /\ q \in Ready /\ q.at = "apply" /\ q.accounts = run[n].accounts
          /\ q.theirs = run[n].theirs
      BY <2>1, <2>2 DEF Ready
    <2>4. run' = [run EXCEPT ![n] = q] /\ UNCHANGED <<acct, offered, now, hash, clock>>
      BY <1>3, <2>2 DEF DrainOutbox, Only, accountVars
    <2>. QED BY <1>1, <2>1, <2>3, <2>4, RunsOn DEF Invisible
  <1>4. ASSUME Acknowledge(n) PROVE ExchangeInv' /\ Invisible
    <2>1. run[n] \in Merged
      BY <1>4, AtIs DEF Acknowledge, AtStep, ExchangeInv
    <2>2. /\ run' = [run EXCEPT ![n] = Idle] /\ UNCHANGED <<acct, offered, now, hash>>
          /\ clock' = [clock EXCEPT ![n] = run[n].clock]
      BY <1>4 DEF Acknowledge, Only, accountVars
    <2>3. clock' \in [Nodes -> Entries]
      BY <1>1, <2>1, <2>2 DEF Merged
    <2>4. Idle.at = "idle"
      BY DEF Idle
    <2>. QED BY <1>1, <2>2, <2>3, <2>4, RunsOn DEF Invisible
  <1>. QED BY <1>2, <1>3, <1>4, CollectSteps, SnapshotSteps, ApplySteps DEF Pipeline

\* A copy of an account that a node changes by itself.
LEMMA OwnChange ==
    ASSUME ExchangeInv, NEW n \in Nodes, NEW k \in Keys, NEW c \in Content,
           acct' = [acct EXCEPT ![n] = [acct[n] EXCEPT ![k] = c]],
           now' \in 0 .. MaxStamp, now' >= now, c.lr <= now',
           UNCHANGED <<clock, hash, run, offered>>
    PROVE  ExchangeInv'
  <1>1. acct \in [Nodes -> Copies] /\ now \in 0 .. MaxStamp /\ offered \in [Keys -> SUBSET Content]
    BY DEF ExchangeInv, ExchangeTypeOK
  <1>2. [acct[n] EXCEPT ![k] = c] \in Copies
    BY <1>1 DEF Copies
  <1>3. acct' \in [Nodes -> Copies]
    BY <1>1, <1>2
  <1>4. ASSUME NEW i \in Nodes, NEW j \in Keys PROVE acct'[i][j] \in {acct[i][j], c}
    <2>1. acct'[i] \in {acct[i], [acct[n] EXCEPT ![k] = c]} /\ (acct'[i] # acct[i] => i = n)
      BY <1>1
    <2>. QED BY <1>1, <2>1 DEF Copies
  <1>5. \A i \in Nodes, j \in Keys : acct[i][j].lr \in Nat /\ acct[i][j].lr <= now
    BY <1>1 DEF ExchangeInv, OfferInv, Copies, Content
  <1>6. \A j \in Keys : \A x \in offered[j] : x.lr \in Nat /\ x.lr <= now
    BY <1>1 DEF ExchangeInv, OfferInv, Content
  <1>7. now \in Nat /\ now' \in Nat
    BY <1>1, PipelineBoundsAssumption
  <1>8. \A i \in Nodes, j \in Keys : acct'[i][j].lr <= now'
    BY <1>4, <1>5, <1>7
  <1>9. \A j \in Keys : \A x \in offered[j] : x.lr <= now'
    BY <1>6, <1>7
  <1>10. ExchangeTypeOK'
    BY <1>3 DEF ExchangeInv, ExchangeTypeOK
  <1>11. OfferInv'
    BY <1>8, <1>9 DEF ExchangeInv, OfferInv, WereOffered
  <1>. QED BY <1>10, <1>11 DEF ExchangeInv

\* A refresh makes the latest copy there is.
LEMMA RefreshSteps ==
    ASSUME ExchangeInv, NEW n \in Nodes, NEW k \in Keys, RefreshToken(n, k)
    PROVE  ExchangeInv' /\ Lww!LwwNext
  <1>1. /\ acct \in [Nodes -> Copies] /\ now \in 0 .. MaxStamp
        /\ offered \in [Keys -> SUBSET Content]
        /\ MaxStamp \in Nat
    BY PipelineBoundsAssumption DEF ExchangeInv, ExchangeTypeOK
  <1>2. acct[n] \in [Keys -> Content] /\ acct[n][k] \in Content
    BY <1>1 DEF Copies
  <1>3. PICK c : c = [acct[n][k] EXCEPT !.lr = now + 1]
    OBVIOUS
  <1>4. now < MaxStamp /\ now' = now + 1 /\ now + 1 \in 0 .. MaxStamp
    BY <1>1 DEF RefreshToken
  <1>5. c \in Content /\ c.lr = now + 1 /\ c.deleted = acct[n][k].deleted
    BY <1>2, <1>3, <1>4 DEF Content
  <1>6. acct' = [acct EXCEPT ![n] = [acct[n] EXCEPT ![k] = c]]
    BY <1>1, <1>2, <1>3 DEF RefreshToken
  <1>7. UNCHANGED <<clock, hash, run, offered>>
    BY DEF RefreshToken
  <1>8. ExchangeInv'
    <2>1. now' \in 0 .. MaxStamp /\ now' >= now /\ c.lr <= now'
      BY <1>1, <1>4, <1>5
    <2>. QED BY <1>5, <1>6, <1>7, <2>1, OwnChange
  <1>9. acct'[n][k] = c
    BY <1>1, <1>2, <1>6
  <1>10. \A x \in Lww!Known(k) : c.lr > x.lr
    <2>1. ASSUME NEW x \in Lww!Known(k) PROVE x.lr <= now /\ x.lr \in Nat
      BY <1>1 DEF Lww!Known, ExchangeInv, OfferInv, Copies, Content
    <2>. QED BY <1>1, <1>5, <2>1
  <1>11. acct' = [acct EXCEPT ![n][k] = acct'[n][k]]
    BY <1>6, <1>9
  <1>12. Lww!Refresh(n)
    BY <1>5, <1>7, <1>9, <1>10, <1>11 DEF Lww!Refresh
  <1>. QED BY <1>8, <1>12 DEF Lww!LwwNext

\* A deletion marks the copy and leaves its stamp.
LEMMA DeleteSteps ==
    ASSUME ExchangeInv, NEW n \in Nodes, NEW k \in Keys, DeleteAccount(n, k)
    PROVE  ExchangeInv' /\ Lww!LwwNext
  <1>1. acct \in [Nodes -> Copies] /\ now \in 0 .. MaxStamp /\ MaxStamp \in Nat
    BY PipelineBoundsAssumption DEF ExchangeInv, ExchangeTypeOK
  <1>2. acct[n] \in [Keys -> Content] /\ acct[n][k] \in Content
    BY <1>1 DEF Copies
  <1>3. PICK c : c = [acct[n][k] EXCEPT !.deleted = TRUE]
    OBVIOUS
  <1>4. c \in Content /\ c.lr = acct[n][k].lr
    BY <1>2, <1>3 DEF Content
  <1>5. acct' = [acct EXCEPT ![n] = [acct[n] EXCEPT ![k] = c]]
    BY <1>1, <1>2, <1>3 DEF DeleteAccount
  <1>6. UNCHANGED <<clock, hash, run, offered, now>>
    BY DEF DeleteAccount
  <1>7. c.lr <= now
    BY <1>4 DEF ExchangeInv, OfferInv
  <1>8. ExchangeInv'
    <2>1. now' \in 0 .. MaxStamp /\ now' >= now /\ c.lr <= now'
      BY <1>1, <1>6, <1>7
    <2>. QED BY <1>4, <1>5, <1>6, <2>1, OwnChange
  <1>9. Lww!Delete(n)
    BY <1>6 DEF Lww!Delete, DeleteAccount
  <1>. QED BY <1>8, <1>9 DEF Lww!LwwNext

\* The runs stay, and the accounts: clocks, the outbox and the time.
LEMMA StillKeeps ==
    ASSUME ExchangeInv, UNCHANGED <<acct, now, hash, run, offered>>, clock' \in [Nodes -> Entries]
    PROVE  ExchangeInv' /\ Invisible
  BY DEF ExchangeInv, ExchangeTypeOK, OfferInv, WereOffered, Invisible

\* Whatever a node does beside its pipeline.
LEMMA MeanwhileSteps ==
    ASSUME ExchangeInv, NEW n \in Nodes, Meanwhile(n)
    PROVE  ExchangeInv' /\ (Lww!LwwNext \/ Invisible)
  <1>1. clock \in [Nodes -> Entries]
    BY DEF ExchangeInv, ExchangeTypeOK
  <1>2. ASSUME CountMessage(n) PROVE ExchangeInv' /\ Invisible
    <2>1. [clock[n] EXCEPT ![n] = @ + 1] \in Entries
      BY <1>1 DEF Entries
    <2>2. clock' = [clock EXCEPT ![n] = [clock[n] EXCEPT ![n] = @ + 1]]
      BY <1>1, <1>2 DEF CountMessage
    <2>. QED BY <1>1, <1>2, <2>1, <2>2, StillKeeps DEF CountMessage, accountVars
  <1>3. ASSUME NEW p \in Nodes, TakeClock(n, p) PROVE ExchangeInv' /\ Invisible
    <2>1. clock' = [clock EXCEPT ![n] = MergeClocks(clock[n], clock[p])]
      BY <1>3 DEF TakeClock
    <2>2. MergeClocks(clock[n], clock[p]) \in Entries
      BY <1>1, MergedClocks
    <2>. QED BY <1>1, <1>3, <2>1, <2>2, StillKeeps DEF TakeClock, accountVars
  <1>. QED BY <1>2, <1>3, RefreshSteps, DeleteSteps DEF Meanwhile

\* Every step keeps the invariant, and is one of the replicas or none.
LEMMA PipelineNextSteps ==
    ASSUME ExchangeInv, [PipelineNext]_pipelineVars
    PROVE  ExchangeInv' /\ [Lww!LwwNext]_(Lww!lwwVars)
  <1>1. clock \in [Nodes -> Entries]
    BY DEF ExchangeInv, ExchangeTypeOK
  <1>2. ASSUME Push \/ HourPasses \/ UNCHANGED pipelineVars PROVE ExchangeInv' /\ Invisible
    <2>1. UNCHANGED <<acct, now, hash, run, offered, clock>>
      BY <1>2 DEF Push, HourPasses, pipelineVars, accountVars
    <2>. QED BY <1>1, <2>1, StillKeeps
  <1>3. ExchangeInv' /\ (Lww!LwwNext \/ Invisible)
    BY <1>2, PipelineSteps, MeanwhileSteps DEF PipelineNext
  <1>. QED BY <1>3 DEF Invisible, Lww!lwwVars

\* Whatever happens on both nodes between the steps of a pipeline, and in whatever order
\* the hash puts the versions: a node changes its copies by itself, or takes whole ones
\* that a node has offered and that were refreshed later (merge_from_json on the accounts
\* of the moment, in step_apply).
THEOREM SevenStepsImplementLww == PipelineSpec => PipelineImplementsLww
  <1>1. PipelineInit => Lww!LwwInit
    <2> SUFFICES ASSUME PipelineInit PROVE Lww!LwwInit
      OBVIOUS
    <2>. QED BY ExchangeInit DEF ExchangeInv, ExchangeTypeOK, Copies, Lww!LwwInit, PipelineInit
  <1>. QED BY <1>1, ExchangeInit, PipelineNextSteps, PTL
           DEF PipelineSpec, PipelineImplementsLww, Lww!LwwSpec

-----------------------------------------------------------------------------
(* The outbox.                                                             *)

LessThan == OpToRel(<, Nat)

\* A set of numbers has a least one.
LEMMA LeastNat ==
    ASSUME NEW s \in SUBSET Nat, s # {}
    PROVE  \E n \in s : \A m \in s : n <= m
  <1>1. \E x \in s : \A y \in s : <<y, x>> \notin LessThan
    BY NatLessThanWellFounded, WFMin DEF LessThan
  <1>2. PICK x \in s : \A y \in s : <<y, x>> \notin LessThan
    BY <1>1
  <1>3. \A y \in s : ~(y < x)
    BY <1>2 DEF LessThan, OpToRel
  <1>. QED BY <1>3

\* A part of a sequence is the part that ends one earlier, and one entry more.
LEMMA LongerPart ==
    ASSUME NEW s \in Seq(Nat), NEW m \in Nat, NEW k \in 1 .. Len(s), m < k
    PROVE  SubSeq(s, m + 1, k) = Append(SubSeq(s, m + 1, k - 1), s[k])
  <1>. DEFINE t == SubSeq(s, m + 1, k)
              u == SubSeq(s, m + 1, k - 1)
  <1>1. k \in Nat /\ k <= Len(s) /\ Len(s) \in Nat /\ \A i \in m + 1 .. k : s[i] \in Nat
    OBVIOUS
  <1>2. /\ t \in Seq(Nat) /\ Len(t) = k - m
        /\ \A i \in 1 .. k - m : t[i] = s[m + i]
    <2>1. /\ t \in Seq(Nat) /\ Len(t) = k - (m + 1) + 1
          /\ \A i \in 1 .. k - (m + 1) + 1 : t[i] = s[m + 1 + i - 1]
      BY <1>1, SubSeqProperties
    <2>. HIDE DEF t
    <2>. QED BY <1>1, <2>1
  <1>3. /\ u \in Seq(Nat) /\ Len(u) = k - 1 - m
        /\ \A i \in 1 .. k - 1 - m : u[i] = s[m + i]
    <2>1. /\ u \in Seq(Nat) /\ Len(u) = IF m + 1 <= k - 1 THEN k - 1 - (m + 1) + 1 ELSE 0
          /\ \A i \in 1 .. k - 1 - (m + 1) + 1 : u[i] = s[m + 1 + i - 1]
      BY <1>1, SubSeqProperties
    <2>. HIDE DEF u
    <2>. QED BY <1>1, <2>1
  <1>. HIDE DEF t, u
  <1>4. Append(u, s[k]) \in Seq(Nat) /\ Len(Append(u, s[k])) = k - m
    BY <1>1, <1>3
  <1>5. ASSUME NEW i \in 1 .. k - m PROVE t[i] = Append(u, s[k])[i]
    <2>1. CASE i = k - m
      BY <1>1, <1>2, <1>3, <2>1
    <2>2. CASE i \in 1 .. k - 1 - m
      BY <1>1, <1>2, <1>3, <2>2
    <2>3. i = k - m \/ i \in 1 .. k - 1 - m
      BY <1>1
    <2>. QED BY <2>1, <2>2, <2>3
  <1>. QED BY <1>2, <1>4, <1>5, SeqEqual DEF t, u

\* What retaining the first k entries leaves, from what retaining one less does.
Retained(entries, kept, f, k) ==
    IF k = 0 THEN <<>>
    ELSE IF entries[k] \in kept THEN Append(f[k - 1], entries[k]) ELSE f[k - 1]

\* When exactly the entries after the first m are kept, what is left is those.
LEMMA RetainEnd ==
    ASSUME NEW s \in Seq(Nat), NEW kept, NEW m \in 0 .. Len(s),
           \A i \in 1 .. Len(s) : s[i] \in kept <=> i > m
    PROVE  Retain(s, kept) = SubSeq(s, m + 1, Len(s))
  <1>. DEFINE Is(f) == f = [k \in 0 .. Len(s) |-> Retained(s, kept, f, k)]
              g == [k \in 0 .. Len(s) |-> SubSeq(s, m + 1, k)]
              f == CHOOSE h : Is(h)
  <1>1. ASSUME NEW k \in 0 .. Len(s) PROVE Retained(s, kept, g, k) = SubSeq(s, m + 1, k)
    <2>. m \in Nat /\ k \in Nat /\ Len(s) \in Nat /\ m <= Len(s) /\ k <= Len(s)
      OBVIOUS
    <2>1. \A j \in Int : j < m + 1 => SubSeq(s, m + 1, j) = <<>>
      BY SubSeqEmpty
    <2>2. CASE k = 0
      BY <2>1, <2>2 DEF Retained
    <2>3. CASE k # 0 /\ k <= m
      <3>1. k - 1 \in 0 .. Len(s) /\ k - 1 < m + 1 /\ k < m + 1
        BY <2>3
      <3>2. g[k - 1] = SubSeq(s, m + 1, k - 1)
        BY <3>1
      <3>3. s[k] \notin kept
        BY <2>3
      <3>. HIDE DEF g
      <3>. QED BY <2>1, <2>3, <3>1, <3>2, <3>3 DEF Retained
    <2>4. CASE k > m
      <3>1. k - 1 \in 0 .. Len(s) /\ k \in 1 .. Len(s)
        BY <2>4
      <3>2. g[k - 1] = SubSeq(s, m + 1, k - 1)
        BY <3>1
      <3>3. s[k] \in kept
        BY <2>4, <3>1
      <3>4. SubSeq(s, m + 1, k) = Append(SubSeq(s, m + 1, k - 1), s[k])
        BY <2>4, <3>1, LongerPart
      <3>. HIDE DEF g
      <3>5. Retained(s, kept, g, k) = Append(g[k - 1], s[k])
        <4>1. k # 0
          BY <3>1
        <4>. QED BY <3>3, <4>1 DEF Retained
      <3>. QED BY <3>2, <3>4, <3>5
    <2>. QED BY <2>2, <2>3, <2>4
  <1>2. Is(g)
    BY <1>1
  <1>3. Is(f)
    BY <1>2
  <1>4. Retain(s, kept) = f[Len(s)]
    BY DEF Retain, Retained
  <1>. HIDE DEF f, g
  <1>5. \A k \in 0 .. Len(s) : f[k] = Retained(s, kept, f, k) /\ g[k] = Retained(s, kept, g, k)
    BY <1>2, <1>3
  <1>. DEFINE Bad == {k \in 0 .. Len(s) : f[k] # g[k]}
  <1>6. Bad = {}
    <2>1. SUFFICES ASSUME Bad # {} PROVE FALSE
      OBVIOUS
    <2>2. Bad \in SUBSET Nat
      OBVIOUS
    <2>3. PICK k \in Bad : \A j \in Bad : k <= j
      <3>. HIDE DEF Bad
      <3>. QED BY <2>1, <2>2, LeastNat
    <2>4. k # 0 => f[k - 1] = g[k - 1]
      BY <2>3
    <2>. QED BY <1>5, <2>3, <2>4 DEF Retained
  <1>7. f[Len(s)] = g[Len(s)]
    BY <1>6
  <1>. QED BY <1>4, <1>7 DEF g

\* The sequence s counts from a + 1 up to b.
Numbered(s, a, b) ==
    /\ s \in Seq(Nat) /\ a \in Nat /\ b \in Nat /\ a <= b
    /\ Len(s) = b - a
    /\ \A i \in 1 .. Len(s) : s[i] = a + i

\* So does any end of it.
LEMMA EndCounts ==
    ASSUME NEW s, NEW a, NEW b, Numbered(s, a, b), NEW m \in 0 .. Len(s)
    PROVE  Numbered(SubSeq(s, m + 1, Len(s)), a + m, b)
  <1>. DEFINE t == SubSeq(s, m + 1, Len(s))
  <1>1. /\ s \in Seq(Nat) /\ a \in Nat /\ b \in Nat /\ m \in Nat /\ m <= Len(s)
        /\ Len(s) = b - a /\ Len(s) \in Nat /\ a <= b
        /\ \A i \in 1 .. Len(s) : s[i] = a + i
    BY DEF Numbered
  <1>2. \A i \in m + 1 .. Len(s) : s[i] \in Nat
    BY <1>1
  <1>3. /\ t \in Seq(Nat) /\ Len(t) = IF m + 1 <= Len(s) THEN Len(s) - (m + 1) + 1 ELSE 0
        /\ \A i \in 1 .. Len(s) - (m + 1) + 1 : t[i] = s[m + 1 + i - 1]
    <2>1. m + 1 \in Int /\ Len(s) \in Int
      BY <1>1
    <2>. QED BY <1>2, <2>1, SubSeqProperties
  <1>. HIDE DEF t
  <1>4. Len(t) = b - (a + m)
    BY <1>1, <1>3
  <1>5. ASSUME NEW i \in 1 .. Len(t) PROVE t[i] = a + m + i
    <2>1. t[i] = s[m + 1 + i - 1] /\ m + 1 + i - 1 = m + i /\ m + i \in 1 .. Len(s)
      BY <1>1, <1>3, <1>4
    <2>2. s[m + i] = a + (m + i)
      BY <1>1, <2>1
    <2>. QED BY <1>1, <2>1, <2>2
  <1>. QED BY <1>1, <1>3, <1>4, <1>5 DEF Numbered, t

\* And what is left when just an end of it is kept.
LEMMA RetainCounts ==
    ASSUME NEW s, NEW a, NEW b, Numbered(s, a, b), NEW kept, NEW m \in 0 .. Len(s),
           \A i \in 1 .. Len(s) : s[i] \in kept <=> i > m
    PROVE  Numbered(Retain(s, kept), a + m, b)
  <1>1. s \in Seq(Nat)
    BY DEF Numbered
  <1>2. Retain(s, kept) = SubSeq(s, m + 1, Len(s))
    BY <1>1, RetainEnd
  <1>. QED BY <1>2, EndCounts

-----------------------------------------------------------------------------

\* Messages are pushed in the order of the hours; what was pushed since the last drain is
\* what the file has; and the last drain was right.
OutboxInv ==
    /\ hour \in Nat /\ pushed \in Seq(Nat)
    /\ \A i, j \in 1 .. Len(pushed) : i <= j => pushed[i] <= pushed[j]
    /\ \A i \in 1 .. Len(pushed) : pushed[i] <= hour
    /\ Numbered(outbox, drained.to, Len(pushed))
    /\ drained.from \in Nat \ {0} /\ drained.at \in Nat
    /\ DrainedAreYoungest

\* The entries of the file that are expired are its first.
LEMMA OldestExpire ==
    ASSUME OutboxInv
    PROVE  \E m \in 0 .. Len(outbox) : \A i \in 1 .. Len(outbox) : ~Expired(outbox[i]) <=> i > m
  <1>. DEFINE due == {i \in 1 .. Len(outbox) : ~Expired(outbox[i])}
  <1>1. /\ outbox \in Seq(Nat) /\ drained.to \in Nat /\ Len(outbox) = Len(pushed) - drained.to
        /\ \A i \in 1 .. Len(outbox) : outbox[i] = drained.to + i
    BY DEF OutboxInv, Numbered
  <1>2. /\ pushed \in Seq(Nat)
        /\ \A i, j \in 1 .. Len(pushed) : i <= j => pushed[i] <= pushed[j]
    BY DEF OutboxInv
  <1>3. ASSUME NEW i \in due, NEW j \in 1 .. Len(outbox), i <= j PROVE j \in due
    <2>1. i \in 1 .. Len(outbox) /\ ~Expired(outbox[i])
      OBVIOUS
    <2>. HIDE DEF due
    <2>2. outbox[i] = drained.to + i /\ outbox[j] = drained.to + j
      BY <1>1, <2>1
    <2>3. Len(pushed) \in Nat /\ Len(pushed) = drained.to + Len(outbox) /\ Len(outbox) \in Nat
      <3>1. Len(pushed) \in Nat /\ Len(outbox) \in Nat /\ drained.to \in Nat
        BY DEF OutboxInv, Numbered
      <3>2. Len(outbox) = Len(pushed) - drained.to
        BY <1>1
      <3>. QED BY <3>1, <3>2
    <2>4. /\ outbox[i] \in 1 .. Len(pushed) /\ outbox[j] \in 1 .. Len(pushed)
          /\ outbox[i] <= outbox[j]
      <3>. drained.to \in Nat
        BY <1>1
      <3>1. drained.to + i \in 1 .. Len(pushed) /\ drained.to + j \in 1 .. Len(pushed)
        BY <2>1, <2>3
      <3>2. drained.to + i <= drained.to + j
        BY <1>3, <2>1
      <3>. QED BY <2>2, <3>1, <3>2
    <2>5. pushed[outbox[i]] <= pushed[outbox[j]]
      BY <1>2, <2>4
    <2>6. pushed[outbox[i]] \in Nat /\ pushed[outbox[j]] \in Nat
      <3>1. \A k \in 1 .. Len(pushed) : pushed[k] \in Nat
        BY <1>2
      <3>. QED BY <2>4, <3>1
    <2>7. hour \in Nat /\ Ttl \in Nat
      BY PipelineBoundsAssumption DEF OutboxInv
    <2>8. ~(hour - pushed[outbox[j]] > Ttl)
      BY <2>1, <2>5, <2>6, <2>7 DEF Expired
    <2>. QED BY <2>8 DEF due, Expired
  <1>4. CASE due = {}
    <2>1. Len(outbox) \in 0 .. Len(outbox)
      BY <1>1
    <2>2. ASSUME NEW i \in 1 .. Len(outbox) PROVE Expired(outbox[i]) /\ ~(i > Len(outbox))
      BY <1>1, <1>4
    <2>. QED BY <2>1, <2>2
  <1>5. CASE due # {}
    <2>1. due \in SUBSET Nat
      OBVIOUS
    <2>2. PICK k \in due : \A j \in due : k <= j
      <3>. HIDE DEF due
      <3>. QED BY <1>5, <2>1, LeastNat
    <2>3. k - 1 \in 0 .. Len(outbox)
      BY <1>1
    <2>4. ASSUME NEW i \in 1 .. Len(outbox) PROVE i \in due <=> i > k - 1
      <3>1. i \in due => k <= i
        BY <2>2
      <3>2. k <= i => i \in due
        BY <1>3
      <3>. HIDE DEF due
      <3>. QED BY <3>1, <3>2, <2>1, <2>2
    <2>. QED BY <2>3, <2>4
  <1>. QED BY <1>4, <1>5

\* A drain at which the first m entries are expired leaves an empty file, and it has taken
\* those the property promises.
LEMMA DrainKeeps ==
    ASSUME OutboxInv, NEW n, DrainOutbox(n)
    PROVE  OutboxInv'
  <1>. DEFINE N == Len(pushed)
              t == drained.to
              due == Drain(outbox)
              kept == Prune(outbox)
              ids == Drain(kept)
              Due == {i \in t + 1 .. N : hour - pushed[i] <= Ttl}
  <1>1. /\ N \in Nat /\ hour \in Nat /\ Ttl \in Nat /\ MaxEntries \in Nat
        /\ t \in Nat /\ t <= N /\ Len(outbox) = N - t
    BY PipelineBoundsAssumption DEF OutboxInv, Numbered
  <1>2. Numbered(outbox, t, N) /\ \A i \in 1 .. Len(outbox) : outbox[i] = t + i
    BY DEF OutboxInv, Numbered
  <1>3. \A i \in 1 .. N : pushed[i] \in Nat
    BY DEF OutboxInv
  <1>4. PICK m \in 0 .. Len(outbox) : \A i \in 1 .. Len(outbox) : ~Expired(outbox[i]) <=> i > m
    BY OldestExpire
  <1>. HIDE DEF N, t
  <1>5. m \in Nat /\ t + m <= N /\ t + m \in Nat /\ t + m >= t
    BY <1>1, <1>4
  <1>6. ASSUME NEW e \in t + 1 .. N PROVE ~Expired(e) <=> e > t + m
    <2>1. e - t \in 1 .. Len(outbox) /\ t + (e - t) = e
      BY <1>1
    <2>2. outbox[e - t] = e
      BY <1>2, <2>1
    <2>3. ~Expired(e) <=> e - t > m
      BY <1>4, <2>1, <2>2
    <2>. QED BY <1>1, <1>5, <2>3
  <1>7. Numbered(due, t + m, N)
    <2>1. ASSUME NEW i \in 1 .. Len(outbox)
          PROVE  outbox[i] \in {e \in ToSet(outbox) : ~Expired(e)} <=> i > m
      <3>1. outbox[i] \in ToSet(outbox)
        BY <1>2 DEF Numbered, ToSet
      <3>. QED BY <1>4, <3>1
    <2>. QED BY <1>2, <2>1, RetainCounts DEF Drain
  <1>8. PICK c : c = (IF N - (t + m) > MaxEntries THEN N - MaxEntries ELSE t + m)
    OBVIOUS
  <1>9. c \in Nat /\ t + m <= c /\ c <= N /\ t <= c
    BY <1>1, <1>5, <1>8
  <1>10. Numbered(kept, c, N)
    <2>1. Len(due) = N - (t + m)
      BY <1>7 DEF Numbered
    <2>2. CASE Len(due) > MaxEntries
      <3>1. kept = SubSeq(due, Len(due) - MaxEntries + 1, Len(due))
        BY <2>2 DEF Prune
      <3>. HIDE DEF due, kept
      <3>2. Len(due) - MaxEntries \in 0 .. Len(due) /\ t + m + (Len(due) - MaxEntries) = c
        BY <1>1, <1>5, <1>8, <2>1, <2>2
      <3>. QED BY <1>7, <3>1, <3>2, EndCounts
    <2>3. CASE ~(Len(due) > MaxEntries)
      BY <1>7, <1>8, <2>1, <2>3 DEF Prune
    <2>. QED BY <2>2, <2>3
  <1>. HIDE DEF kept, due
  <1>11. Len(kept) = N - c /\ \A i \in 1 .. Len(kept) : kept[i] = c + i
    BY <1>10 DEF Numbered
  <1>12. Numbered(ids, c, N)
    <2>1. ASSUME NEW i \in 1 .. Len(kept) PROVE kept[i] \in {e \in ToSet(kept) : ~Expired(e)}
      <3>1. kept[i] = c + i
        BY <1>11
      <3>2. c + i \in t + 1 .. N /\ c + i > t + m
        BY <1>1, <1>5, <1>9, <1>11
      <3>3. kept[i] \in ToSet(kept)
        BY <1>10 DEF Numbered, ToSet
      <3>. QED BY <1>6, <3>1, <3>2, <3>3
    <2>2. 0 \in 0 .. Len(kept) /\ c + 0 = c /\ \A i \in 1 .. Len(kept) : i > 0
      BY <1>1, <1>9, <1>11
    <2>. QED BY <1>10, <2>1, <2>2, RetainCounts DEF Drain
  <1>. HIDE DEF ids
  <1>13. DOMAIN ids = 1 .. N - c /\ \A i \in 1 .. N - c : ids[i] = c + i
    <2>1. Len(ids) = N - c /\ ids \in Seq(Nat) /\ \A i \in 1 .. Len(ids) : ids[i] = c + i
      BY <1>12 DEF Numbered
    <2>. QED BY <2>1
  <1>14. ToSet(ids) = c + 1 .. N
    <2>1. ASSUME NEW e \in c + 1 .. N PROVE e - c \in 1 .. N - c /\ ids[e - c] = e
      <3>1. e - c \in 1 .. N - c /\ c + (e - c) = e
        BY <1>1, <1>9
      <3>. QED BY <1>13, <3>1
    <2>2. ASSUME NEW i \in 1 .. N - c PROVE ids[i] \in c + 1 .. N
      <3>1. c + i \in c + 1 .. N
        BY <1>1, <1>9
      <3>. QED BY <1>13, <3>1
    <2>. QED BY <1>13, <2>1, <2>2 DEF ToSet
  <1>15. Numbered(WithoutAll(kept, ToSet(ids)), N, N)
    <2>1. Len(kept) \in 0 .. Len(kept) /\ c + Len(kept) = N
      BY <1>1, <1>9, <1>11
    <2>2. ASSUME NEW i \in 1 .. Len(kept)
          PROVE  kept[i] \notin ToSet(kept) \ ToSet(ids) /\ ~(i > Len(kept))
      <3>1. c + i \in c + 1 .. N
        BY <1>1, <1>9, <1>11
      <3>2. kept[i] \in ToSet(ids)
        BY <1>11, <1>14, <3>1
      <3>. QED BY <1>1, <1>9, <1>11, <3>2
    <2>. QED BY <1>10, <2>1, <2>2, RetainCounts DEF WithoutAll
  <1>16. Due = t + m + 1 .. N
    <2>1. ASSUME NEW e \in t + 1 .. N PROVE hour - pushed[e] <= Ttl <=> e > t + m
      <3>1. pushed[e] \in Nat
        <4>1. e \in 1 .. N
          BY <1>1
        <4>. QED BY <1>3, <4>1
      <3>2. hour - pushed[e] <= Ttl <=> ~(hour - pushed[e] > Ttl)
        BY <1>1, <3>1
      <3>. QED BY <1>6, <3>2 DEF Expired
    <2>2. \A e \in t + 1 .. N : e > t + m <=> e \in t + m + 1 .. N
      BY <1>1, <1>5
    <2>3. t + m + 1 .. N \subseteq t + 1 .. N
      BY <1>1, <1>5
    <2>. QED BY <2>1, <2>2, <2>3
  <1>. HIDE DEF Due
  <1>17. ToSet(ids) = {i \in Due : Cardinality({j \in Due : j > i}) < MaxEntries}
    <2>1. ASSUME NEW i \in Due PROVE Cardinality({j \in Due : j > i}) < MaxEntries <=> i > c
      <3>1. i \in Nat /\ i <= N /\ i > t + m
        BY <1>1, <1>5, <1>16
      <3>2. {j \in Due : j > i} = i + 1 .. N
        BY <1>1, <1>5, <1>16, <3>1
      <3>3. i + 1 \in Int /\ N \in Int
        BY <1>1, <3>1
      <3>4. Cardinality(i + 1 .. N) = IF i + 1 > N THEN 0 ELSE N - (i + 1) + 1
        BY <3>3, FS_Interval
      <3>5. Cardinality(i + 1 .. N) = N - i
        BY <1>1, <3>1, <3>4
      <3>6. N - i < MaxEntries <=> i > c
        BY <1>1, <1>5, <1>8, <3>1
      <3>. QED BY <3>2, <3>5, <3>6
    <2>2. c + 1 .. N = {i \in Due : i > c}
      BY <1>1, <1>5, <1>9, <1>16
    <2>. QED BY <1>14, <2>1, <2>2
  <1>18. /\ drained' = [from |-> t + 1, to |-> N, at |-> hour, ids |-> ids]
         /\ outbox' = WithoutAll(kept, ToSet(ids))
         /\ UNCHANGED <<hour, pushed>>
    BY DEF DrainOutbox, Only, ids, kept, N, t
  <1>19. DrainedAreYoungest'
    <2>1. ASSUME NEW i \in 1 .. N - c, NEW j \in 1 .. N - c, i < j PROVE ids[i] < ids[j]
      <3>1. c + i < c + j
        BY <1>1, <1>9, <2>1
      <3>. QED BY <1>13, <3>1
    <2>2. /\ drained'.ids = ids /\ drained'.from = t + 1 /\ drained'.to = N /\ drained'.at = hour
          /\ pushed' = pushed
      BY <1>18
    <2>3. {i \in drained'.from .. drained'.to : drained'.at - pushed'[i] <= Ttl} = Due
      BY <2>2 DEF Due
    <2>4. \A i, j \in DOMAIN ids : i < j => ids[i] < ids[j]
      BY <1>13, <2>1
    <2>. QED BY <1>17, <2>2, <2>3, <2>4 DEF DrainedAreYoungest
  <1>20. Numbered(outbox', drained'.to, Len(pushed'))
    BY <1>15, <1>18 DEF N
  <1>. QED BY <1>1, <1>18, <1>19, <1>20 DEF OutboxInv

\* A message that is pushed is the youngest.
LEMMA PushKeeps ==
    ASSUME OutboxInv, Push
    PROVE  OutboxInv'
  <1>. DEFINE N == Len(pushed)
  <1>1. /\ pushed \in Seq(Nat)
        /\ \A i, j \in 1 .. N : i <= j => pushed[i] <= pushed[j]
        /\ \A i \in 1 .. N : pushed[i] <= hour
    BY DEF OutboxInv
  <1>2. N \in Nat /\ hour \in Nat
    BY DEF OutboxInv
  <1>3. /\ pushed' = Append(pushed, hour) /\ outbox' = Append(outbox, N + 1)
        /\ UNCHANGED <<hour, drained>>
    BY DEF Push
  <1>4. /\ pushed' \in Seq(Nat) /\ Len(pushed') = N + 1 /\ pushed'[N + 1] = hour
        /\ \A i \in 1 .. N : pushed'[i] = pushed[i]
    BY <1>1, <1>2, <1>3
  <1>5. \A i, j \in 1 .. N + 1 : i <= j => pushed'[i] <= pushed'[j]
    <2>1. ASSUME NEW i \in 1 .. N + 1, NEW j \in 1 .. N + 1, i <= j
          PROVE  pushed'[i] <= pushed'[j]
      <3>1. CASE j \in 1 .. N
        <4>1. i \in 1 .. N
          BY <1>2, <2>1, <3>1
        <4>2. pushed[i] <= pushed[j]
          BY <1>1, <2>1, <3>1, <4>1
        <4>. QED BY <1>4, <3>1, <4>1, <4>2
      <3>2. CASE j = N + 1
        <4>1. i \in 1 .. N \/ i = N + 1
          BY <1>2
        <4>2. CASE i \in 1 .. N
          BY <1>1, <1>4, <3>2, <4>2
        <4>3. CASE i = N + 1
          BY <1>2, <1>4, <3>2, <4>3
        <4>. QED BY <4>1, <4>2, <4>3
      <3>3. j \in 1 .. N \/ j = N + 1
        BY <1>2
      <3>. QED BY <3>1, <3>2, <3>3
    <2>. QED BY <2>1
  <1>6. \A i \in 1 .. N + 1 : pushed'[i] <= hour
    <2>1. ASSUME NEW i \in 1 .. N + 1 PROVE pushed'[i] <= hour
      <3>1. i \in 1 .. N \/ i = N + 1
        BY <1>2
      <3>2. CASE i \in 1 .. N
        BY <1>1, <1>4, <3>2
      <3>3. CASE i = N + 1
        BY <1>2, <1>4, <3>3
      <3>. QED BY <3>1, <3>2, <3>3
    <2>. QED BY <2>1
  <1>7. Numbered(outbox', drained.to, N + 1)
    <2>. DEFINE t == drained.to
    <2>1. /\ outbox \in Seq(Nat) /\ t \in Nat /\ t <= N /\ Len(outbox) = N - t
          /\ \A i \in 1 .. Len(outbox) : outbox[i] = t + i
      BY DEF OutboxInv, Numbered
    <2>2. /\ outbox' \in Seq(Nat) /\ Len(outbox') = Len(outbox) + 1
          /\ outbox'[Len(outbox) + 1] = N + 1
          /\ \A i \in 1 .. Len(outbox) : outbox'[i] = outbox[i]
      BY <1>2, <1>3, <2>1
    <2>. HIDE DEF t, N
    <2>3. Len(outbox') = N + 1 - t /\ t + (Len(outbox) + 1) = N + 1 /\ t <= N + 1 /\ N + 1 \in Nat
      BY <1>2, <2>1, <2>2
    <2>4. ASSUME NEW i \in 1 .. Len(outbox') PROVE outbox'[i] = t + i
      <3>1. i \in 1 .. Len(outbox) \/ i = Len(outbox) + 1
        BY <1>2, <2>1, <2>2
      <3>. QED BY <2>1, <2>2, <2>3, <3>1
    <2>. QED BY <2>1, <2>2, <2>3, <2>4 DEF Numbered, t
  <1>8. DrainedAreYoungest'
    <2>1. \A i \in drained.from .. drained.to : pushed'[i] = pushed[i]
      <3>1. drained.from \in Nat \ {0} /\ drained.to \in Nat /\ drained.to <= N
        BY DEF OutboxInv, Numbered
      <3>2. drained.from .. drained.to \subseteq 1 .. N
        BY <1>2, <3>1
      <3>. QED BY <1>4, <3>2
    <2>2. {i \in drained.from .. drained.to : drained.at - pushed'[i] <= Ttl}
              = {i \in drained.from .. drained.to : drained.at - pushed[i] <= Ttl}
      BY <2>1
    <2>3. DrainedAreYoungest
      BY DEF OutboxInv
    <2>. QED BY <1>3, <2>2, <2>3 DEF DrainedAreYoungest
  <1>9. drained.from \in Nat \ {0} /\ drained.at \in Nat
    BY DEF OutboxInv
  <1>. QED BY <1>2, <1>3, <1>4, <1>5, <1>6, <1>7, <1>8, <1>9 DEF OutboxInv

\* Time alone changes nothing of it.
LEMMA HourKeeps ==
    ASSUME OutboxInv, HourPasses
    PROVE  OutboxInv'
  <1>1. hour' = hour + 1 /\ UNCHANGED <<outbox, pushed, drained>>
    BY DEF HourPasses
  <1>2. DrainedAreYoungest'
    BY <1>1 DEF OutboxInv, DrainedAreYoungest
  <1>3. /\ pushed \in Seq(Nat) /\ hour \in Nat
        /\ \A i \in 1 .. Len(pushed) : pushed[i] <= hour /\ pushed[i] \in Nat
    BY DEF OutboxInv
  <1>4. \A i \in 1 .. Len(pushed) : pushed[i] <= hour + 1
    BY <1>3
  <1>. QED BY <1>1, <1>2, <1>3, <1>4 DEF OutboxInv, Numbered

\* What neither pushes nor drains leaves the outbox as it was.
LEMMA OutboxStays ==
    ASSUME OutboxInv, UNCHANGED outboxVars
    PROVE  OutboxInv'
  BY DEF OutboxInv, outboxVars, Numbered, DrainedAreYoungest

\* Every drain takes the youngest MAX_ENTRIES of the messages pushed since the last that
\* the TTL leaves, in the order they were pushed (prune, drain and ack of outbox.rs, as
\* run_pipeline_with_peer calls them), for any limit, any TTL and any number of pipelines.
THEOREM YoungestAreDrained == PipelineSpec => []DrainedAreYoungest
  <1>1. PipelineInit => OutboxInv
    <2>. SUFFICES ASSUME PipelineInit PROVE OutboxInv
      OBVIOUS
    <2>1. /\ outbox = <<>> /\ pushed = <<>> /\ hour = 0
          /\ drained = [from |-> 1, to |-> 0, at |-> 0, ids |-> <<>>]
      BY DEF PipelineInit
    <2>2. DrainedAreYoungest
      BY <2>1 DEF DrainedAreYoungest, ToSet
    <2>. QED BY <2>1, <2>2 DEF OutboxInv, Numbered
  <1>2. OutboxInv /\ [PipelineNext]_pipelineVars => OutboxInv'
    <2>. SUFFICES ASSUME OutboxInv, [PipelineNext]_pipelineVars PROVE OutboxInv'
      OBVIOUS
    <2>1. ASSUME NEW n \in Nodes, Pipeline(n) PROVE OutboxInv'
      <3>1. CASE DrainOutbox(n)
        BY <3>1, DrainKeeps
      <3>2. CASE ~DrainOutbox(n)
        <4>1. UNCHANGED outboxVars
          BY <2>1, <3>2 DEF Pipeline, Ask, Collect, Snapshot, ApplyMerged, Acknowledge, Only, outboxVars
        <4>. QED BY <4>1, OutboxStays
      <3>. QED BY <3>1, <3>2
    <2>2. ASSUME NEW n \in Nodes, Meanwhile(n) PROVE OutboxInv'
      <3>1. UNCHANGED outboxVars
        BY <2>2 DEF Meanwhile, RefreshToken, DeleteAccount, CountMessage, TakeClock
      <3>. QED BY <3>1, OutboxStays
    <2>3. CASE UNCHANGED pipelineVars
      BY <2>3, OutboxStays DEF pipelineVars
    <2>. QED BY <2>1, <2>2, <2>3, PushKeeps, HourKeeps DEF PipelineNext
  <1>3. OutboxInv => DrainedAreYoungest
    BY DEF OutboxInv
  <1>. QED BY <1>1, <1>2, <1>3, PTL DEF PipelineSpec
=============================================================================
