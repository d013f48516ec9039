-------------------------------- MODULE MCTasks --------------------------------
(* The tasks of the programs: the life of two daemons of one machine (Daemon),   *)
(* the watchdogs of the daemons of two (Watchdog), and the application's         *)
(* measures of the quotas (QuotaVelocity).  The three share no variable, so that *)
(* a behaviour explores one of them.                                             *)
EXTENDS Daemon, Watchdog, QuotaVelocity

CONSTANTS d1, d2

MCConfigs ==
    [p \in Daemons |->
        IF p = d1 THEN {{"coordinator"}, {"proxy"}, {"api"}} ELSE {{"coordinator"}}]

MCTargets == <<"warnings", "all", "transitions">>

\* An empty list of events asks for all of them.
MCAsked ==
    [t \in {"warnings", "all", "transitions"} |->
        CASE t = "warnings" -> {"quota_warning"}
          [] t = "transitions" -> {"phase_transition"}
          [] OTHER -> Events]

VARIABLE half

allVars == <<half, daemonVars, watchVars, velocityVars>>

MCInit ==
    /\ half \in {"life", "watch", "quota"}
    /\ DaemonInit /\ WatchInit /\ VelocityInit
    \* What is not explored begins in one state.
    /\ half # "watch" => prompt
    /\ half # "quota" => limit = [a \in Accounts |-> CHOOSE l \in Limits : TRUE]

MCNext ==
    /\ \/ half = "life" /\ DaemonNext /\ UNCHANGED <<watchVars, velocityVars>>
       \/ half = "watch" /\ WatchNext /\ UNCHANGED <<daemonVars, velocityVars>>
       \/ half = "quota" /\ VelocityNext /\ UNCHANGED <<daemonVars, watchVars>>
    /\ UNCHANGED half

MCSpec ==
    /\ MCInit /\ [][MCNext]_allVars
    /\ DaemonFairness
    /\ WF_watchVars(half = "watch" /\ Tick)
    /\ \A n \in Nodes : WF_watchVars(half = "watch" /\ NodeStep(n))
    /\ WF_velocityVars(half = "quota" /\ LoopStep)
================================================================================
