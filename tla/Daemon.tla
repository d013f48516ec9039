-------------------------------- MODULE Daemon --------------------------------
(***************************************************************************)
(* The life of ai-daemon (crates/daemon/src/main.rs): it writes its PID    *)
(* file, loads the credentials, starts its tasks one after the other, and  *)
(* after a signal waits for each of them to end.  The PID file is the one  *)
(* thing that `stop' and `status' know of it, and one path for all daemons *)
(* of a machine.                                                           *)
(*                                                                         *)
(* What the tasks do with the accounts is in TokenRefresh, SyncCoordinator *)
(* and Watchdog; here a task is busy with something, or back in its select.*)
(***************************************************************************)
EXTENDS Integers, Sequences

CONSTANTS
    Daemons,     \* processes, each of which is started at most once
    NoPid,       \* no PID file
    Configs,     \* the sets of optional tasks that each may be configured with
    MaxKills     \* bound: processes that are killed

ASSUME DaemonAssumption ==
    /\ NoPid \notin Daemons /\ MaxKills \in Nat
    /\ Configs \in [Daemons -> SUBSET SUBSET {"coordinator", "proxy", "api"}]

VARIABLES
    pidFile,    \* the process that PID_FILE names
    at,         \* how far start_daemon has come in each process
    joined,     \* how many of its tasks it has waited for
    opts,       \* the optional tasks that it is to start
    task,       \* the state of each task of each process
    told,       \* the value in the shutdown channel
    overlapped, \* history: processes that were not alone all their life
    died,       \* history: processes that ended without having removed the PID file
    kills

lifeVars == <<pidFile, at, joined, opts, told, overlapped, died>>
daemonVars == <<lifeVars, task, kills>>

\* start_daemon waits for its tasks in this order, and aborts the proxy.
JoinOrder == <<"refresh", "watchdog", "coordinator", "proxy", "api">>
Tasks == {"refresh", "watchdog", "coordinator", "proxy", "api"}

DaemonTypeOK ==
    /\ pidFile \in Daemons \cup {NoPid}
    /\ at \in [Daemons -> {"none", "written", "loaded", "bound", "ready", "joining", "gone"}]
    /\ joined \in [Daemons -> 0 .. Len(JoinOrder)]
    /\ opts \in [Daemons -> SUBSET {"coordinator", "proxy", "api"}]
    /\ task \in [Daemons -> [Tasks -> {"none", "starting", "idle", "busy", "ended"}]]
    /\ told \in [Daemons -> BOOLEAN]
    /\ overlapped \in SUBSET Daemons /\ died \in SUBSET Daemons
    /\ kills \in 0 .. MaxKills

DaemonInit ==
    /\ pidFile = NoPid
    /\ at = [p \in Daemons |-> "none"]
    /\ joined = [p \in Daemons |-> 0]
    /\ opts = [p \in Daemons |-> {}]
    /\ task = [p \in Daemons |-> [t \in Tasks |-> "none"]]
    /\ told = [p \in Daemons |-> FALSE]
    /\ overlapped = {} /\ died = {}
    /\ kills = 0

Alive(p) == at[p] \notin {"none", "gone"}
Others(p) == Daemons \ {p}

\* The process is gone, and its tasks with it.
Exit(p) ==
    /\ at' = [at EXCEPT ![p] = "gone"]
    /\ task' = [task EXCEPT ![p] = [t \in Tasks |-> "ended"]]
    /\ UNCHANGED <<joined, opts, told, overlapped>>

-----------------------------------------------------------------------------
(* start_daemon.                                                            *)

Advance(p, from, to) ==
    /\ at[p] = from
    /\ at' = [at EXCEPT ![p] = to]

\* write_pid_file, whoever the file named before.
WritePidFile(p, o) ==
    /\ Advance(p, "none", "written")
    /\ pidFile' = p
    /\ opts' = [opts EXCEPT ![p] = o]
    /\ overlapped' = IF \E q \in Others(p) : Alive(q)
                     THEN overlapped \cup {p} \cup {q \in Others(p) : Alive(q)} ELSE overlapped
    /\ UNCHANGED <<joined, told, died, task, kills>>

\* CredentialsCache::load; the refresh loop starts before the bus.
LoadCredentials(p) ==
    /\ Advance(p, "written", "loaded")
    /\ task' = [task EXCEPT ![p]["refresh"] = "idle"]
    /\ UNCHANGED <<pidFile, joined, opts, told, overlapped, died, kills>>

Syncs(p) == "coordinator" \in opts[p]

\* The port of the bus is that of one process.
HasPort(p) == Syncs(p) /\ at[p] \in {"bound", "ready", "joining"}

\* SyncBus::start, and a connect_peer for each of the configured peers.
StartBus(p) ==
    /\ Advance(p, "loaded", "bound")
    /\ Syncs(p) => \A q \in Others(p) : ~HasPort(q)
    /\ UNCHANGED <<pidFile, joined, opts, told, overlapped, died, task, kills>>

\* The tasks that are left are spawned; systemd is told READY, and the handlers of
\* the signals are set.
SpawnTasks(p) ==
    /\ Advance(p, "bound", "ready")
    /\ task' = [task EXCEPT ![p] = [t \in Tasks |->
           CASE t = "refresh" -> @[t]
             [] t = "watchdog" \/ t \in opts[p] \ {"coordinator"} -> "starting"
             [] t = "coordinator" /\ Syncs(p) -> "idle"
             [] OTHER -> "none"]]
    /\ UNCHANGED <<pidFile, joined, opts, told, overlapped, died, kills>>

\* An error on the way - a directory, the settings, the credentials; the key or the
\* port of the bus - ends the program, and the PID file stays.
FailToStart(p) ==
    /\ at[p] = "written" \/ (at[p] = "loaded" /\ Syncs(p))
    /\ Exit(p)
    /\ died' = died \cup {p}
    /\ UNCHANGED <<pidFile, kills>>

-----------------------------------------------------------------------------
(* The tasks.                                                               *)

TaskSteps(p, t, from, to) ==
    /\ task[p][t] = from
    /\ task' = [task EXCEPT ![p][t] = to]

\* serve and ai_proxy::server::start bind their port, and the watchdog makes its
\* watcher; or the task ends with an error that is only logged.
BeginTask(p, t) ==
    /\ TaskSteps(p, t, "starting", "idle") \/ TaskSteps(p, t, "starting", "ended")
    /\ UNCHANGED <<lifeVars, kills>>

\* A cycle of the refresh loop, a message or a heartbeat, a request.
Begin(p, t) ==
    /\ t = "api" => ~told[p]   \* a server that shuts down takes no new request
    /\ TaskSteps(p, t, "idle", "busy")
    /\ UNCHANGED <<lifeVars, kills>>

EndWork(p, t) ==
    /\ TaskSteps(p, t, "busy", "idle")
    /\ UNCHANGED <<lifeVars, kills>>

NoticeUnlessWatching(p, t) ==
    /\ t \notin {"proxy", "watchdog"}
    /\ told[p]
    /\ TaskSteps(p, t, "idle", "ended")
    /\ UNCHANGED <<lifeVars, kills>>

\* The branch of the shutdown in the task's select; the API's server ends when its
\* requests have.  Nobody tells the proxy.
NoticeShutdown(p, t) ==
    /\ t # "proxy"
    /\ told[p]
    /\ TaskSteps(p, t, "idle", "ended")
    /\ UNCHANGED <<lifeVars, kills>>

-----------------------------------------------------------------------------
(* The end.                                                                 *)

\* SIGTERM or SIGINT.  Before wait_for_shutdown there is no handler, and the signal
\* kills; while the tasks are waited for it does nothing any more.
Terminate(p) ==
    \/ /\ at[p] = "ready"
       /\ told' = [told EXCEPT ![p] = TRUE]
       /\ at' = [at EXCEPT ![p] = "joining"]
       /\ UNCHANGED <<pidFile, joined, opts, overlapped, died, task, kills>>
    \/ /\ at[p] \in {"written", "loaded", "bound"}
       /\ Exit(p)
       /\ died' = died \cup {p}
       /\ UNCHANGED <<pidFile, kills>>

\* cmd_status: that the process is alive is not looked at.
SaysRunning(p) == pidFile # NoPid /\ pidFile = p

\* cmd_stop sends SIGTERM to the process that the file names, if there is one.
Stop == \E p \in Daemons : SaysRunning(p) /\ Terminate(p)

Kill(p) ==
    /\ Alive(p)
    /\ kills < MaxKills /\ kills' = kills + 1
    /\ Exit(p)
    /\ died' = died \cup {p}
    /\ UNCHANGED pidFile

\* The next of the tasks is waited for: the proxy is aborted, the others have ended.
Join(p) ==
    LET t == JoinOrder[joined[p] + 1] IN
    /\ at[p] = "joining" /\ joined[p] < Len(JoinOrder)
    /\ t = "proxy" \/ task[p][t] \in {"none", "ended"}
    /\ task' = IF t = "proxy" THEN [task EXCEPT ![p][t] = "ended"] ELSE task
    /\ joined' = [joined EXCEPT ![p] = @ + 1]
    /\ UNCHANGED <<pidFile, at, opts, told, overlapped, died, kills>>

LeavePidFile(p) ==
    /\ at[p] = "joining" /\ joined[p] = Len(JoinOrder)
    /\ Exit(p)
    /\ UNCHANGED <<pidFile, died, kills>>

\* remove_pid_file, whoever the file names.
RemovePidFile(p) ==
    /\ at[p] = "joining" /\ joined[p] = Len(JoinOrder)
    /\ Exit(p)
    /\ pidFile' = NoPid
    /\ UNCHANGED <<died, kills>>

-----------------------------------------------------------------------------
StartStep(p) ==
    \/ \E o \in Configs[p] : WritePidFile(p, o)
    \/ LoadCredentials(p) \/ StartBus(p) \/ SpawnTasks(p) \/ FailToStart(p)

TaskStep(p, t) == BeginTask(p, t) \/ Begin(p, t) \/ EndWork(p, t) \/ NoticeShutdown(p, t)

EndStep(p) == Join(p) \/ RemovePidFile(p)

DaemonNext ==
    \/ \E p \in Daemons :
          \/ StartStep(p) \/ EndStep(p) \/ Terminate(p) \/ Kill(p)
          \/ \E t \in Tasks : TaskStep(p, t)
    \/ Stop

DaemonSpec == DaemonInit /\ [][DaemonNext]_daemonVars

\* The runtime runs what can run.  What a task is busy with ends: its requests have
\* timeouts, or clients that give up.  tokio::select! polls its branches in a random
\* order, so that a task which is back in its select again and again sees the
\* shutdown in the end, however much else there is to do.
DaemonFairness ==
    \A p \in Daemons :
        /\ WF_daemonVars(EndStep(p))
        /\ WF_daemonVars(\E t \in Tasks : BeginTask(p, t))
        /\ \A t \in Tasks : WF_daemonVars(EndWork(p, t))
        /\ SF_daemonVars(\E t \in Tasks : NoticeShutdown(p, t))

FairDaemonSpec == DaemonSpec /\ DaemonFairness

-----------------------------------------------------------------------------
(* Properties.                                                              *)

\* What `stop' and `status' go by.  The file names a daemon that has run alone from
\* its start, until it is gone; and a process that is gone only if that died without
\* cleaning up.  (Of two daemons at once the file knows the later, or none.)
PidFileTells ==
    /\ \A p \in Daemons \ overlapped : Alive(p) => SaysRunning(p)
    /\ \A p \in Daemons : at[p] = "gone" /\ SaysRunning(p) => p \in died

\* A daemon that is told to stop does, whatever its tasks are doing then.
StopsWhenAsked == \A p \in Daemons : told[p] ~> at[p] = "gone"
=============================================================================
