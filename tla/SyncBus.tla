------------------------------- MODULE SyncBus -------------------------------
(***************************************************************************)
(* The transport of the P2P group on one machine: the SyncBus of            *)
(* crates/sync/src/bus.rs with its table of peers, its reconnect loops and  *)
(* its dedup window (failure_detector.rs), the reading of V2 and V3         *)
(* messages (compat.rs), and what the program does with it: the             *)
(* application's commands start and stop the synchronisation and edit its   *)
(* peers (commands.rs); the daemon starts one bus for good and edits its    *)
(* peers through its API (main.rs, http_api/sync.rs).                       *)
(*                                                                          *)
(* Each start makes a bus of its own.  Nothing ends the tasks of an old     *)
(* one: they hold it alive, so that buses are numbered here and all of them *)
(* may act.  A command is one step, since none awaits anything but the      *)
(* spawning of tasks.                                                       *)
(*                                                                          *)
(* What a message says, the answers to it and the counters of its clock are *)
(* in SyncCoordinator.  The detector's scores are only logged: left out.    *)
(* The length of the pauses between attempts is left out too.               *)
(***************************************************************************)
EXTENDS Integers, Sequences, FiniteSets

CONSTANTS
    Peers,       \* names of peers, as configured
    Ourselves,   \* our own instance id, as the sender of a message
    Stranger,    \* any sender that is not configured under its instance id
    Addrs,       \* addresses of peers (host and port)
    Ports,       \* ports to listen on
    Ids,         \* message ids
    Mail,        \* what the messages are, by id
    DedupSize,   \* MessageDedup::max_size
    Programs,    \* the programs to look at: "application", "daemon"
    NoEntry,     \* a peer that is not in the table
    MaxBuses,    \* bound: buses started
    MaxEdits,    \* bound: peers added or removed
    MaxFlips     \* bound: times that addresses go up or down

Senders == Peers \cup {Ourselves, Stranger}

\* Who sent a message, in which protocol, of which type, whether with our key, and
\* how often it is sent: a node that is in a peer's table under two names gets every
\* message twice.
ASSUME MailAssumption ==
    Mail \in [Ids -> [from : Senders, proto : {"V2", "V3"}, type : STRING,
                      sealed : BOOLEAN, copies : Nat]]
ASSUME BusBoundsAssumption ==
    /\ DedupSize \in Nat \ {0} /\ MaxBuses \in Nat \ {0}
    /\ MaxEdits \in Nat /\ MaxFlips \in Nat
    /\ Programs \subseteq {"application", "daemon"}
ASSUME NoEntryAssumption == NoEntry \notin Addrs /\ NoEntry \notin [addr : Addrs, proto : {"V2", "V3", "Unknown"}]

Buses == 1 .. MaxBuses
NoBus == 0

VARIABLES
    program,     \* which program has the buses
    enabled,     \* config.sync.enabled
    wantedPort,  \* config.sync.port
    known,       \* config.sync.peers: the address of each peer, or NoEntry
    current,     \* state.sync_bus
    held,        \* the bus whose coordinator sync_coordinator_shutdown can stop
    made,        \* buses started so far
    port,        \* SyncBus::port of each bus
    listener,    \* its task that accepts connections
    coordinator, \* the SyncCoordinator subscribed to it
    connecting,  \* spawned calls of connect_peer that have not run
    table,       \* SyncBus::peers
    loops,       \* how many reconnect_loop tasks there are in each state
    window,      \* MessageDedup::seen
    taken,       \* history: the ids handed to the subscribers of each bus
    underWay,    \* copies of each message that may still arrive
    up,          \* addresses that accept connections
    edits, flips

configVars == <<program, enabled, wantedPort, known>>
serviceVars == <<current, held, made, port, coordinator>>
mailVars == <<window, taken, underWay>>
busVars == <<configVars, serviceVars, mailVars, listener, connecting, table, loops,
             up, edits, flips>>

Protocol == {"V2", "V3", "Unknown"}

\* The protocol that the program gives to connect_peer.
ConnectAs == IF program = "application" THEN "V3" ELSE "Unknown"
Entry == [addr : Addrs, proto : Protocol]
Loop == [bus : Buses, peer : Peers, addr : Addrs, at : {"dial", "read", "check"}]

BusTypeOK ==
    /\ program \in Programs
    /\ enabled \in BOOLEAN /\ wantedPort \in Ports
    /\ known \in [Peers -> Addrs \cup {NoEntry}]
    /\ current \in Buses \cup {NoBus} /\ held \in Buses \cup {NoBus}
    /\ made \in Buses
    /\ port \in [Buses -> Ports]
    /\ listener \in [Buses -> {"none", "binding", "on", "failed"}]
    /\ coordinator \in [Buses -> {"none", "running", "told", "stopped"}]
    /\ connecting \in [Buses -> SUBSET (Peers \X Addrs)]
    /\ table \in [Buses -> [Peers -> Entry \cup {NoEntry}]]
    /\ loops \in [Loop -> Nat]
    /\ window \in [Buses -> Seq(Ids)] /\ \A b \in Buses : Len(window[b]) <= DedupSize
    /\ taken \in [Buses -> Seq(Ids)]
    /\ underWay \in [Ids -> Nat]
    /\ up \in [Addrs -> BOOLEAN]
    /\ edits \in 0 .. MaxEdits /\ flips \in 0 .. MaxFlips

\* The configured peers, as a start connects them.
Configured == {<<p, known[p]>> : p \in {q \in Peers : known[q] # NoEntry}}

\* The bus that the start of the program makes: AppState::init and setup, or
\* start_daemon.
BusInit ==
    /\ program \in Programs
    /\ enabled = TRUE
    /\ wantedPort \in Ports
    /\ known \in [Peers -> Addrs \cup {NoEntry}]
    /\ current = 1 /\ held = 1 /\ made = 1
    /\ port = [b \in Buses |-> wantedPort]
    /\ listener = [b \in Buses |-> IF b = 1 THEN "binding" ELSE "none"]
    /\ coordinator = [b \in Buses |-> IF b = 1 THEN "running" ELSE "none"]
    /\ connecting = [b \in Buses |-> IF b = 1 THEN Configured ELSE {}]
    /\ table = [b \in Buses |-> [p \in Peers |-> NoEntry]]
    /\ loops = [l \in Loop |-> 0]
    /\ window = [b \in Buses |-> <<>>]
    /\ taken = [b \in Buses |-> <<>>]
    /\ underWay = [i \in Ids |-> Mail[i].copies]
    /\ up = [a \in Addrs |-> FALSE]
    /\ edits = 0 /\ flips = 0

-----------------------------------------------------------------------------
(* The commands.  Only the application starts and stops buses while it runs. *)

\* start_sync_bus_from_config: a new bus, its tasks, and a coordinator whose
\* sender replaces the old one.  Dropping a sender does not stop its coordinator:
\* the channel then reports changes without end, and the flag stays FALSE.
NewBus(q) ==
    /\ program = "application"
    /\ made < MaxBuses
    /\ made' = made + 1
    /\ current' = made + 1
    /\ held' = made + 1
    /\ port' = [port EXCEPT ![made + 1] = q]
    /\ listener' = [listener EXCEPT ![made + 1] = "binding"]
    /\ coordinator' = [coordinator EXCEPT ![made + 1] = "running"]
    /\ connecting' = [connecting EXCEPT ![made + 1] = Configured]

SyncOn ==
    /\ NewBus(wantedPort)
    /\ enabled' = TRUE
    /\ UNCHANGED <<program, wantedPort, known, mailVars, table, loops, up, edits, flips>>

\* toggle_sync(false): the coordinator is told, and the handle of the bus dropped.
SyncOff ==
    /\ program = "application"
    /\ enabled
    /\ enabled' = FALSE
    /\ coordinator' = IF held = NoBus THEN coordinator
                      ELSE [coordinator EXCEPT ![held] = IF @ = "running" THEN "told" ELSE @]
    /\ held' = NoBus
    /\ current' = NoBus
    /\ UNCHANGED <<program, wantedPort, known, made, port, listener, connecting, mailVars, table,
                   loops, up, edits, flips>>

SetPort(q) ==
    /\ program = "application"
    /\ wantedPort' = q
    /\ IF enabled THEN NewBus(q)
       ELSE UNCHANGED <<serviceVars, listener, connecting>>
    /\ UNCHANGED <<program, enabled, known, mailVars, table, loops, up, edits, flips>>

LoopOf(b, p, a, at) == [bus |-> b, peer |-> p, addr |-> a, at |-> at]

\* connect_peer: always a new entry and a new loop.
Enter(b, p, a) ==
    /\ table' = [table EXCEPT ![b][p] = [addr |-> a, proto |-> ConnectAs]]
    /\ loops' = [loops EXCEPT ![LoopOf(b, p, a, "dial")] = @ + 1]

\* The application's add_peer: the peer's new address replaces the old one, and a
\* task is to connect it.
AddPeer(p, a) ==
    /\ program = "application"
    /\ edits < MaxEdits
    /\ edits' = edits + 1
    /\ known' = [known EXCEPT ![p] = a]
    /\ connecting' = IF current = NoBus THEN connecting
                     ELSE [connecting EXCEPT ![current] = @ \cup {<<p, a>>}]
    /\ UNCHANGED <<program, enabled, wantedPort, serviceVars, mailVars, listener, table, loops,
                   up, flips>>

\* The daemon's add_peer connects at once.  (It also keeps the old address in the
\* configuration, which the daemon reads again only when it starts.)
AddPeerByApi(p, a) ==
    /\ program = "daemon" /\ connecting[current] = {}
    /\ edits < MaxEdits
    /\ edits' = edits + 1
    /\ known' = [known EXCEPT ![p] = a]
    /\ Enter(current, p, a)
    /\ UNCHANGED <<program, enabled, wantedPort, serviceVars, connecting, mailVars, listener, up,
                   flips>>

\* remove_peer.  The daemon's API is there once start_daemon has connected its peers.
RemovePeer(p) ==
    /\ program = "daemon" => connecting[current] = {}
    /\ edits < MaxEdits
    /\ known[p] # NoEntry
    /\ edits' = edits + 1
    /\ known' = [known EXCEPT ![p] = NoEntry]
    /\ table' = IF current = NoBus THEN table
                ELSE [table EXCEPT ![current][p] = NoEntry]
    /\ UNCHANGED <<program, enabled, wantedPort, serviceVars, mailVars, listener, connecting,
                   loops, up, flips>>

-----------------------------------------------------------------------------
(* The tasks of a bus.                                                      *)

\* start: binds the port, unless an older bus of this program still has it.
Listen(b) ==
    /\ listener[b] = "binding"
    /\ listener' = [listener EXCEPT ![b] =
           IF \E c \in Buses : listener[c] = "on" /\ port[c] = port[b] THEN "failed" ELSE "on"]
    /\ UNCHANGED <<configVars, serviceVars, mailVars, connecting, table, loops, up, edits,
                   flips>>

\* run ends once it was told to.
CoordinatorStops(b) ==
    /\ coordinator[b] = "told"
    /\ coordinator' = [coordinator EXCEPT ![b] = "stopped"]
    /\ UNCHANGED <<configVars, current, held, made, port, mailVars, listener, connecting,
                   table, loops, up, edits, flips>>

\* The task that is to connect a peer runs.
Connect(b, p, a) ==
    /\ <<p, a>> \in connecting[b]
    /\ connecting' = [connecting EXCEPT ![b] = @ \ {<<p, a>>}]
    /\ Enter(b, p, a)
    /\ UNCHANGED <<configVars, serviceVars, mailVars, listener, up, edits, flips>>

\* A task of reconnect_loop goes from one state to another.
Move(b, p, a, from, to) ==
    /\ loops[LoopOf(b, p, a, from)] > 0
    /\ loops' = [loops EXCEPT ![LoopOf(b, p, a, from)] = @ - 1,
                              ![LoopOf(b, p, a, to)] = @ + 1]

\* The attempt to connect, to the address the loop was started with.
Dial(b, p, a) ==
    /\ Move(b, p, a, "dial", IF up[a] THEN "read" ELSE "check")
    /\ UNCHANGED <<configVars, serviceVars, mailVars, listener, connecting, table, up, edits,
                   flips>>

\* The connection ends, or one that could not be opened for the request.
HangUp(b, p, a) ==
    /\ Move(b, p, a, "read", "check")
    /\ UNCHANGED <<configVars, serviceVars, mailVars, listener, connecting, table, up, edits,
                   flips>>

CheckAndStop(b, p, a) ==
    /\ loops[LoopOf(b, p, a, "check")] > 0
    /\ loops' = [loops EXCEPT ![LoopOf(b, p, a, "check")] = @ - 1]
    /\ UNCHANGED <<configVars, serviceVars, mailVars, listener, connecting, table, up, edits,
                   flips>>

\* Only here the loop looks whether its peer is still in the table; then it pauses.
Check(b, p, a) ==
    /\ IF table[b][p] # NoEntry
       THEN Move(b, p, a, "check", "dial")
       ELSE /\ loops[LoopOf(b, p, a, "check")] > 0
            /\ loops' = [loops EXCEPT ![LoopOf(b, p, a, "check")] = @ - 1]
    /\ UNCHANGED <<configVars, serviceVars, mailVars, listener, connecting, table, up, edits,
                   flips>>

-----------------------------------------------------------------------------
(* Messages.                                                                *)

MarkUnlessFull(w, i) == IF Len(w) >= DedupSize THEN w ELSE Append(w, i)

MarkBeyond(w, i) == Append(IF Len(w) > DedupSize THEN Tail(w) ELSE w, i)

\* mark_seen: a full window forgets its oldest id.
MarkSeen(w, i) == Append(IF Len(w) >= DedupSize THEN Tail(w) ELSE w, i)

IsDuplicate(w, i) == \E k \in DOMAIN w : w[k] = i

\* The types of V2 messages that v2_type_to_v3_payload gives a meaning in V3.
V2Types == {"heartbeat", "account_switch", "force_switch", "quota_update", "token_refresh",
            "account_add", "full_sync", "account_remove", "full_sync_request", "ack"}

\* decrypt and parse_message succeed.
Readable(i) == Mail[i].sealed /\ (Mail[i].proto = "V2" => Mail[i].type \in V2Types)

Arrives(i) ==
    /\ underWay[i] > 0
    /\ underWay' = [underWay EXCEPT ![i] = @ - 1]

\* parse_message found the protocol of an entry that had none.
Learn(b, p, i) ==
    table' = IF p \in Peers /\ table[b][p] # NoEntry /\ table[b][p].proto = "Unknown"
             THEN [table EXCEPT ![b][p].proto = Mail[i].proto] ELSE table

\* The dedup window, under one write lock, and the subscribers.
Publish(b, i) ==
    IF IsDuplicate(window[b], i) THEN UNCHANGED <<window, taken>>
    ELSE /\ window' = [window EXCEPT ![b] = MarkSeen(@, i)]
         /\ taken' = [taken EXCEPT ![b] = Append(@, i)]

\* handle_incoming: a message that cannot be read ends its connection.
TakeIncoming(b, i) ==
    /\ listener[b] = "on"
    /\ Arrives(i)
    /\ IF Readable(i) /\ Mail[i].from # Ourselves
       THEN Learn(b, Mail[i].from, i) /\ Publish(b, i)
       ELSE UNCHANGED <<table, window, taken>>
    /\ UNCHANGED <<configVars, serviceVars, listener, connecting, loops, up, edits, flips>>

\* read_from_peer: the same on a connection of our own, whose protocol is its peer's.
TakeFromPeer(b, p, a, i) ==
    /\ loops[LoopOf(b, p, a, "read")] > 0
    /\ Arrives(i)
    /\ CASE ~Readable(i) -> Move(b, p, a, "read", "check")
                                 /\ UNCHANGED <<table, window, taken>>
         [] Readable(i) /\ Mail[i].from = Ourselves -> UNCHANGED <<loops, table, window, taken>>
         [] OTHER -> Learn(b, p, i) /\ Publish(b, i) /\ UNCHANGED loops
    /\ UNCHANGED <<configVars, serviceVars, listener, connecting, up, edits, flips>>

\* A peer's machine starts to accept connections, or stops.
Flip(a) ==
    /\ flips < MaxFlips
    /\ flips' = flips + 1
    /\ up' = [up EXCEPT ![a] = ~@]
    /\ UNCHANGED <<configVars, serviceVars, mailVars, listener, connecting, table, loops,
                   edits>>

Command ==
    \/ SyncOn \/ SyncOff
    \/ \E q \in Ports : SetPort(q)
    \/ \E p \in Peers : RemovePeer(p) \/ \E a \in Addrs : AddPeer(p, a) \/ AddPeerByApi(p, a)

LoopStep(b, p, a) ==
    \/ Connect(b, p, a) \/ Dial(b, p, a) \/ HangUp(b, p, a) \/ Check(b, p, a)
    \/ \E i \in Ids : TakeFromPeer(b, p, a, i)

Task(b) ==
    \/ Listen(b) \/ CoordinatorStops(b)
    \/ \E p \in Peers, a \in Addrs : LoopStep(b, p, a)
    \/ \E i \in Ids : TakeIncoming(b, i)

BusNext == Command \/ (\E b \in Buses : Task(b)) \/ (\E a \in Addrs : Flip(a))

BusSpec == BusInit /\ [][BusNext]_busVars

\* The runtime runs every task that can go on; connections may last for ever.
FairBusSpec ==
    /\ BusSpec
    /\ \A b \in Buses, p \in Peers, a \in Addrs :
          WF_busVars(Connect(b, p, a) \/ Dial(b, p, a)) /\ WF_busVars(Check(b, p, a))

-----------------------------------------------------------------------------
(* Properties.                                                              *)

Registered(b, p, a) == table[b][p] # NoEntry /\ table[b][p].addr = a

\* A peer in the table of a bus has a task that connects to it, at the address the
\* table has: whichever way removals and additions of the peer, at the same address
\* or at another, cross the loop's look at the table.  (There may be several.)
PeerHasLoop ==
    \A b \in Buses, p \in Peers, a \in Addrs :
        Registered(b, p, a) => \E at \in {"dial", "read", "check"} : loops[LoopOf(b, p, a, at)] > 0

\* A bus hands a message to its subscribers again only after DedupSize others,
\* over whichever connections and in whichever order the copies arrive.
TakenOnceInWindow ==
    \A b \in Buses : \A j, k \in DOMAIN taken[b] :
        j < k /\ taken[b][j] = taken[b][k] => k - j > DedupSize

\* A peer in the table that stays reachable gets connected, after however many
\* failures and losses of the connection.
EventuallyConnected ==
    \A b \in Buses, p \in Peers, a \in Addrs :
        Registered(b, p, a) ~>
            ~Registered(b, p, a) \/ ~up[a] \/ loops[LoopOf(b, p, a, "read")] > 0
=============================================================================
