------------------------------- MODULE Watchdog -------------------------------
(***************************************************************************)
(* The CredentialsWatchdog of the daemon (crates/daemon/src/watchdog.rs):  *)
(* when others write the credentials file it reads it again, and announces *)
(* what it has read to the other machine, whose merge writes a file that   *)
(* is watched as well.                                                     *)
(*                                                                         *)
(* Its debounce is leading-edge: an event within DEBOUNCE_MS of the last   *)
(* reload is dropped, and nothing looks again later.  The same debounce is *)
(* all that keeps two machines from announcing the same to each other for  *)
(* ever: a merge writes the file whether or not it has changed anything.   *)
(*                                                                         *)
(* Time is counted in ticks, and no further than makes a difference.       *)
(***************************************************************************)
EXTENDS Integers

CONSTANTS
    Nodes,      \* machines, each with one daemon
    Debounce,   \* DEBOUNCE_MS
    Latency,    \* how long an announcement takes where the network is prompt
    MaxSaves,   \* bound: times others write the file
    MaxMishaps   \* bound: reloads that fail, announcements that are lost

ASSUME WatchdogAssumption ==
    Debounce \in Nat /\ Latency \in Nat /\ MaxSaves \in Nat /\ MaxMishaps \in Nat

VARIABLES
    prompt,   \* whether machines and network are: nothing waits, and Latency holds
    watcher,  \* of each node
    since,    \* time since last_reload, as far as it matters
    events,   \* in the channel of the watcher
    stale,    \* whether the file is other than the image in the cache
    late,     \* history: whether the last write came when since was Debounce, or more
    refused,  \* history: nodes that had a reload fail
    mail,     \* announcements on their way to each node, by age
    saves,
    mishaps

watchVars == <<prompt, watcher, since, events, stale, late, refused, mail, saves, mishaps>>

Ages == 0 .. Latency

WatchTypeOK ==
    /\ prompt \in BOOLEAN
    /\ watcher \in [Nodes -> {"starting", "idle", "reading", "ended"}]
    /\ since \in [Nodes -> 0 .. Debounce + 1]
    /\ events \in [Nodes -> Nat]
    /\ stale \in [Nodes -> BOOLEAN]
    /\ late \in [Nodes -> BOOLEAN]
    /\ refused \in SUBSET Nodes
    /\ mail \in [Nodes -> [Ages -> Nat]]
    /\ saves \in 0 .. MaxSaves
    /\ mishaps \in 0 .. MaxMishaps

\* The daemons have loaded the credentials, and not begun to watch them.
WatchInit ==
    /\ prompt \in BOOLEAN
    /\ watcher = [n \in Nodes |-> "starting"]
    /\ since = [n \in Nodes |-> 0]
    /\ events = [n \in Nodes |-> 0]
    /\ stale = [n \in Nodes |-> FALSE]
    /\ late = [n \in Nodes |-> FALSE]
    /\ refused = {}
    /\ mail = [n \in Nodes |-> [a \in Ages |-> 0]]
    /\ saves = 0 /\ mishaps = 0

Watches(n) == watcher[n] \in {"idle", "reading"}

Mishap == mishaps < MaxMishaps /\ mishaps' = mishaps + 1

\* The parent directory is watched from here on; where that fails there is no watchdog.
StartWatcher(n) ==
    /\ watcher[n] = "starting"
    /\ \/ watcher' = [watcher EXCEPT ![n] = "idle"] /\ UNCHANGED mishaps
       \/ watcher' = [watcher EXCEPT ![n] = "ended"] /\ Mishap
    /\ since' = [since EXCEPT ![n] = 0]
    /\ late' = [late EXCEPT ![n] = FALSE]
    /\ UNCHANGED <<prompt, events, stale, refused, mail, saves>>

\* A new version of the file is renamed into place: an event for who watches it.
Written(n) ==
    /\ events' = IF Watches(n) THEN [events EXCEPT ![n] = @ + 1] ELSE events
    /\ late' = [late EXCEPT ![n] = since[n] >= Debounce]

Saves == saves < MaxSaves /\ saves' = saves + 1

\* The application writes the file.
SaveElsewhere(n) ==
    /\ Saves
    /\ Written(n)
    /\ stale' = [stale EXCEPT ![n] = TRUE]
    /\ UNCHANGED <<prompt, watcher, since, refused, mail, mishaps>>

\* persist() by a task of the daemon itself; it writes the whole image.
SaveOwn(n) ==
    /\ Saves
    /\ Written(n)
    /\ stale' = [stale EXCEPT ![n] = FALSE]
    /\ UNCHANGED <<prompt, watcher, since, refused, mail, mishaps>>

NeverDebounced(n) == FALSE
DebouncedLonger(n) == since[n] <= Debounce

\* Too soon after the last event that was not.
Debounced(n) == since[n] < Debounce

\* An event is dropped, or the file is to be read after a short pause.
TakeEvent(n) ==
    /\ watcher[n] = "idle"
    /\ events[n] > 0
    /\ events' = [events EXCEPT ![n] = @ - 1]
    /\ IF Debounced(n) THEN UNCHANGED <<watcher, since, late>>
       ELSE /\ watcher' = [watcher EXCEPT ![n] = "reading"]
            /\ since' = [since EXCEPT ![n] = 0]
            /\ late' = [late EXCEPT ![n] = FALSE]
    /\ UNCHANGED <<prompt, stale, refused, mail, saves, mishaps>>

Announce(n) ==
    mail' = [m \in Nodes |-> IF m = n THEN mail[m] ELSE [mail[m] EXCEPT ![0] = @ + 1]]

\* reload(), and after it the announcement; a failure is logged.
Reload(n) ==
    /\ watcher[n] = "reading"
    /\ watcher' = [watcher EXCEPT ![n] = "idle"]
    /\ \/ /\ stale' = [stale EXCEPT ![n] = FALSE]
          /\ Announce(n)
          /\ UNCHANGED <<refused, mishaps>>
       \/ /\ Mishap
          /\ refused' = refused \cup {n}
          /\ UNCHANGED <<stale, mail>>
    /\ UNCHANGED <<prompt, since, events, late, saves>>

Arrives(n, a) ==
    /\ mail[n][a] > 0
    /\ mail' = [mail EXCEPT ![n][a] = @ - 1]

\* merge_from_json, and its persist() whatever came of the merge.
Merge(n, a) ==
    /\ Arrives(n, a)
    /\ Written(n)
    /\ stale' = [stale EXCEPT ![n] = FALSE]
    /\ UNCHANGED <<prompt, watcher, since, refused, saves, mishaps>>

Lose(n, a) ==
    /\ Mishap
    /\ Arrives(n, a)
    /\ UNCHANGED <<prompt, watcher, since, events, stale, late, refused, saves>>

\* Nothing that is to happen at once is left to do.
Settled ==
    \A n \in Nodes :
        /\ watcher[n] # "reading" /\ (watcher[n] = "idle" => events[n] = 0)
        /\ mail[n][Latency] = 0

Older(m) ==
    [a \in Ages |-> (IF a = 0 THEN 0 ELSE m[a - 1]) + (IF a = Latency THEN m[a] ELSE 0)]

Tick ==
    /\ prompt => Settled
    /\ since' = [n \in Nodes |-> IF since[n] <= Debounce THEN since[n] + 1 ELSE since[n]]
    /\ mail' = [n \in Nodes |-> Older(mail[n])]
    /\ UNCHANGED <<prompt, watcher, events, stale, late, refused, saves, mishaps>>

NodeStep(n) ==
    \/ StartWatcher(n) \/ TakeEvent(n) \/ Reload(n)
    \/ \E a \in Ages : Merge(n, a)

WatchNext ==
    \/ \E n \in Nodes :
          NodeStep(n) \/ SaveElsewhere(n) \/ SaveOwn(n) \/ \E a \in Ages : Lose(n, a)
    \/ Tick

WatchSpec == WatchInit /\ [][WatchNext]_watchVars

\* The runtime runs what can run, and time goes on.
WatchFairness == WF_watchVars(Tick) /\ \A n \in Nodes : WF_watchVars(NodeStep(n))

FairWatchSpec == WatchSpec /\ WatchFairness

-----------------------------------------------------------------------------
(* Properties.                                                              *)

\* The events that are left in the channel, or what is being read, are all that a
\* late write leaves to do.
LateInv ==
    \A n \in Nodes \ refused :
        watcher[n] = "idle" /\ stale[n] /\ late[n] => events[n] > 0

\* All that the debounce can cost: a watchdog that has nothing more to do, and whose
\* image is not the file, has missed only what was written before it had reloaded for
\* DEBOUNCE_MS.  What the process writes itself counts, as it causes events as well;
\* and so does what others write before the watcher is there.
MissedOnlyInWindow ==
    \A n \in Nodes \ refused :
        watcher[n] = "idle" /\ events[n] = 0 /\ stale[n] => ~late[n]

\* Two machines fall silent some time after the last change, if what is announced
\* comes back within DEBOUNCE_MS.
Silent == \A n \in Nodes : events[n] = 0 /\ \A a \in Ages : mail[n][a] = 0
EchoDies == prompt => <>[]Silent
=============================================================================
