------------------------------- MODULE MCStores -------------------------------
(* What the commands and tasks of the programs keep: accounts (CredentialsCache, *)
(* two threads of the daemon), settings (Settings), and proxy instances          *)
(* (ProxySupervisor).  The three share no variable, so that a behaviour explores *)
(* one of them.                                                                  *)
EXTENDS CredentialsCache, Settings, ProxySupervisor, TLC

CONSTANTS tauri, daemon, refreshLoop, watcher

MCProcOf == [t \in Threads |-> daemon]
MCSymmetry ==
    Permutations(Threads) \cup Permutations(Commands) \cup Permutations(Writers)

VARIABLE half

MCInit ==
    /\ half \in {"accounts", "settings", "instances"}
    /\ Init /\ SettingsInit /\ SupervisorInit
    \* What is not explored begins in one state.
    /\ half # "accounts" => file = Absent
    /\ half # "instances" =>
          program = "daemon" /\ config = (CHOOSE c \in [Ids -> Config] : TRUE)

MCNext ==
    /\ \/ half = "accounts" /\ Next /\ UNCHANGED <<settingsVars, supervisorVars>>
       \/ half = "settings" /\ SettingsNext /\ UNCHANGED <<vars, supervisorVars>>
       \/ half = "instances" /\ SupervisorNext /\ UNCHANGED <<vars, settingsVars>>
    /\ UNCHANGED half

MCSpec == MCInit /\ [][MCNext]_<<half, vars, settingsVars, supervisorVars>>
===============================================================================
